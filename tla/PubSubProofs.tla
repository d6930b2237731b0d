----------------------------- MODULE PubSubProofs -----------------------------
(***************************************************************************)
(* Theorems about PubSub, for any number of messages, subscriptions,       *)
(* listeners, requeuers, failures, shutdowns and re-queue runs, whatever   *)
(* the flow control and the dead-letter policy, and however leases pass.   *)
(***************************************************************************)
EXTENDS PubSub, LeasingQueueProofs

PubSubQueues == 1 .. Dlq

LEMMA QueueNumbers ==
    /\ Main \in Nat /\ Dlq \in Nat /\ SubscriptionPaths \subseteq PubSubQueues
    /\ Main \in SubscriptionPaths /\ Dlq \in PubSubQueues /\ Dlq \notin SubscriptionPaths
    /\ 1 .. NumSubscriptions \subseteq SubscriptionPaths
BY SubscriptionsAssumption DEF Main, Dlq, SubscriptionPaths, PubSubQueues

\* Ack ids are of copies that Pub/Sub stored, and listeners' come from the
\* subscriptions they listen to.
DeliveriesLocated ==
    /\ \A c \in Listeners : \A d \in Outstanding(c) :
          d.copy \in DOMAIN copies /\ d.subscription \in SubscriptionPaths
    /\ \A r \in Requeuers : \A d \in rbatch[r] \cup rhand[r] : d.copy \in DOMAIN copies
    /\ \A d \in returned : d.copy \in DOMAIN copies

Base == TypeOK /\ DeliveriesLocated

LEMMA CopiesType ==
    ASSUME TypeOK
    PROVE  /\ copies \in Seq(CopyOf(Messages, PubSubQueues))
           /\ \A i \in DOMAIN copies :
                /\ copies[i].msg \in Messages /\ copies[i].receives \in Nat
                /\ copies[i].queue \in PubSubQueues
                /\ copies[i].state \in {"visible", "hidden", "deleted"}
                /\ i \in Nat \ {0}
<1>1. copies \in Seq(CopyOf(Messages, PubSubQueues))
  BY DEF TypeOK, Copy, PubSubQueues
<1> QED BY <1>1, CopyAt

-----------------------------------------------------------------------------
\* A work queue: what is taken from it and put on it.

InQueue(s) == {s[k] : k \in DOMAIN s}
NoDup(s) == \A j, k \in DOMAIN s : s[j].copy = s[k].copy => j = k

LEMMA Taken ==
    ASSUME NEW S, NEW s \in Seq(S), s # <<>>
    PROVE  /\ Tail(s) \in Seq(S) /\ Head(s) \in S
           /\ Head(s) \in InQueue(s) /\ InQueue(Tail(s)) \subseteq InQueue(s)
           /\ NoDup(s) => /\ NoDup(Tail(s))
                          /\ \A d \in InQueue(Tail(s)) : d.copy # Head(s).copy
<1>1. /\ Tail(s) \in Seq(S) /\ Head(s) \in S /\ Head(s) = s[1] /\ 1 \in DOMAIN s
      /\ \A k \in DOMAIN Tail(s) : k + 1 \in DOMAIN s /\ Tail(s)[k] = s[k + 1] /\ k \in Nat \ {0}
  BY HeadTailProperties
<1> DEFINE t == Tail(s)
<1> HIDE DEF t
<1>2. /\ \A k \in DOMAIN t : k + 1 \in DOMAIN s /\ t[k] = s[k + 1] /\ k \in Nat \ {0}
      /\ Head(s) = s[1] /\ 1 \in DOMAIN s
  BY <1>1 DEF t
<1>3. Head(s) \in InQueue(s) /\ InQueue(t) \subseteq InQueue(s)
  BY <1>2 DEF InQueue
<1>4. ASSUME NoDup(s)
      PROVE  NoDup(t) /\ \A d \in InQueue(t) : d.copy # Head(s).copy
  <2>1. NoDup(t)
    BY <1>2, <1>4 DEF NoDup
  <2>2. \A k \in DOMAIN t : t[k].copy # Head(s).copy
    BY <1>2, <1>4 DEF NoDup
  <2> QED BY <2>1, <2>2 DEF InQueue
<1> QED BY <1>1, <1>3, <1>4 DEF t

LEMMA PutBehind ==
    ASSUME NEW S, NEW s \in Seq(S), NEW d \in S
    PROVE  /\ Append(s, d) \in Seq(S)
           /\ InQueue(Append(s, d)) = InQueue(s) \cup {d}
           /\ NoDup(s) /\ (\A e \in InQueue(s) : e.copy # d.copy) => NoDup(Append(s, d))
<1> DEFINE t == Append(s, d)
<1>1. /\ t \in Seq(S) /\ Len(s) + 1 \in DOMAIN t /\ t[Len(s) + 1] = d
      /\ \A k \in DOMAIN s : k \in DOMAIN t /\ t[k] = s[k]
      /\ \A k \in DOMAIN t : k \in DOMAIN s \/ k = Len(s) + 1
  BY AppendProperties
<1> HIDE DEF t
<1>2. InQueue(t) = InQueue(s) \cup {d}
  BY <1>1 DEF InQueue
<1>3. NoDup(s) /\ (\A e \in InQueue(s) : e.copy # d.copy) => NoDup(t)
  BY <1>1 DEF InQueue, NoDup
<1> QED BY <1>1, <1>2, <1>3 DEF t

LEMMA OutstandingAre ==
    \A c : Outstanding(c) = InQueue(workQueue[c]) \cup hand[c]
             /\ Queued(c) = InQueue(workQueue[c])
             /\ Outstanding(c)' = InQueue(workQueue'[c]) \cup hand'[c]
BY DEF Outstanding, Queued, InQueue

\* One copy is scheduled on the work queue of c, with its latest ack id.
LEMMA ScheduleGives ==
    ASSUME TypeOK, NEW c \in Listeners, NEW s \in SubscriptionPaths, Schedule(c, s)
    PROVE  \E i \in Deliverable(s) :
              /\ copies' = Leased(copies, {i})
              /\ workQueue' = [workQueue EXCEPT ![c] = Append(workQueue[c], DeliveryFrom(s, i))]
              /\ DeliveryFrom(s, i) \in Delivery
              /\ i \in DOMAIN copies /\ copies[i].queue = s /\ copies[i].state = "visible"
              /\ Outstanding(c)' = Outstanding(c) \cup {DeliveryFrom(s, i)}
              /\ \A b \in Listeners \ {c} : Outstanding(b)' = Outstanding(b)
              /\ hand' = hand
<1>1. PICK i \in Deliverable(s) :
         /\ copies' = Leased(copies, {i})
         /\ workQueue' = [workQueue EXCEPT ![c] = Append(@, DeliveryFrom(s, i))]
  BY DEF Schedule
<1>2. i \in DOMAIN copies /\ copies[i].queue = s /\ copies[i].state = "visible"
  BY DEF Deliverable, VisibleIn, CopiesIn
<1>3. i \in Nat \ {0} /\ copies[i].receives + 1 \in Nat \ {0} /\ s \in 1 .. Dlq
  BY <1>2, CopiesType, QueueNumbers DEF PubSubQueues
<1>4. DeliveryFrom(s, i) \in Delivery
  BY <1>3 DEF DeliveryFrom, Delivery
<1>5. workQueue \in [Listeners -> Seq(Delivery)] /\ hand' = hand
  BY DEF TypeOK, Schedule
<1> DEFINE d == DeliveryFrom(s, i)
<1> HIDE DEF d
<1>6. workQueue' = [workQueue EXCEPT ![c] = Append(workQueue[c], d)]
  BY <1>1, <1>5 DEF d
<1>7. workQueue'[c] = Append(workQueue[c], d)
      /\ \A b \in Listeners \ {c} : workQueue'[b] = workQueue[b]
  BY <1>5, <1>6
<1>8. InQueue(Append(workQueue[c], d)) = InQueue(workQueue[c]) \cup {d}
  BY <1>4, <1>5, PutBehind DEF d
<1>9. Outstanding(c)' = Outstanding(c) \cup {d}
  BY <1>5, <1>7, <1>8, OutstandingAre
<1>10. \A b \in Listeners \ {c} : Outstanding(b)' = Outstanding(b)
  BY <1>5, <1>7, OutstandingAre
<1> QED BY <1>1, <1>2, <1>4, <1>5, <1>6, <1>9, <1>10 DEF d

\* One delivery is taken off the work queue of c, into its hand or to be given back.
LEMMA TakeGives ==
    ASSUME TypeOK, NEW c \in Listeners, TakeMessage(c)
    PROVE  \E d \in InQueue(workQueue[c]) :
              /\ InQueue(workQueue'[c]) \subseteq InQueue(workQueue[c])
              /\ NoDup(workQueue[c]) => /\ NoDup(workQueue'[c])
                                        /\ \A e \in InQueue(workQueue'[c]) : e.copy # d.copy
              /\ \/ hand'[c] = {d} /\ copies' = copies
                 \/ hand'[c] = hand[c] /\ pc'[c] = pc[c]
                      /\ copies' \in {copies, GivenBack(copies, d, d.subscription)}
              /\ \A b \in Listeners \ {c} :
                   workQueue'[b] = workQueue[b] /\ hand'[b] = hand[b] /\ pc'[b] = pc[b]
<1>0. /\ workQueue \in [Listeners -> Seq(Delivery)] /\ hand \in [Listeners -> SUBSET Delivery]
      /\ pc \in [Listeners -> {"idle", "get", "drain", "callback", "ack", "stopped", "dead"}]
  BY DEF TypeOK
<1> DEFINE q == workQueue[c]
           h == Head(q)
           t == Tail(q)
<1>1. /\ q # <<>> /\ workQueue' = [workQueue EXCEPT ![c] = t]
      /\ \/ hand' = [hand EXCEPT ![c] = {h}] /\ pc' = [pc EXCEPT ![c] = "callback"] /\ copies' = copies
         \/ hand' = hand /\ pc' = pc /\ copies' \in {copies, GivenBack(copies, h, h.subscription)}
  BY <1>0 DEF TakeMessage
<1>2. q \in Seq(Delivery)
  BY <1>0
<1>3. /\ h \in InQueue(q) /\ InQueue(t) \subseteq InQueue(q)
      /\ NoDup(q) => NoDup(t) /\ \A d \in InQueue(t) : d.copy # h.copy
  BY <1>1, <1>2, Taken
<1> HIDE DEF h, t
<1>4. workQueue'[c] = t /\ \A b \in Listeners \ {c} : workQueue'[b] = workQueue[b]
  BY <1>0, <1>1
<1>5. \/ hand'[c] = {h} /\ copies' = copies
      \/ hand'[c] = hand[c] /\ pc'[c] = pc[c]
           /\ copies' \in {copies, GivenBack(copies, h, h.subscription)}
  BY <1>0, <1>1
<1>6. \A b \in Listeners \ {c} : hand'[b] = hand[b] /\ pc'[b] = pc[b]
  BY <1>0, <1>1
<1> QED BY <1>3, <1>4, <1>5, <1>6

\* Nothing else puts a delivery on a work queue or into a hand.
LEMMA QueuesStep ==
    ASSUME TypeOK, [Next]_vars
    PROVE  \/ \E c \in Listeners, s \in SubscriptionPaths : Schedule(c, s)
           \/ \E c \in Listeners : TakeMessage(c)
           \/ \A b \in Listeners : /\ workQueue'[b] = workQueue[b] \/ workQueue'[b] = <<>>
                                   /\ hand'[b] = hand[b] \/ hand'[b] = {}
<1> DEFINE Shrinks == \A b \in Listeners : /\ workQueue'[b] = workQueue[b] \/ workQueue'[b] = <<>>
                                           /\ hand'[b] = hand[b] \/ hand'[b] = {}
<1>0. workQueue \in [Listeners -> Seq(Delivery)] /\ hand \in [Listeners -> SUBSET Delivery]
  BY DEF TypeOK
<1>1. ASSUME workQueue' = workQueue, hand' = hand
      PROVE  Shrinks
  BY <1>1
<1>2. ASSUME NEW c \in Listeners, workQueue' = workQueue, hand' = [hand EXCEPT ![c] = {}]
      PROVE  Shrinks
  BY <1>0, <1>2
<1>3. ASSUME NEW c \in Listeners, Crash(c)
      PROVE  Shrinks
  BY <1>0, <1>3 DEF Crash
<1> HIDE DEF Shrinks
<1>4. ASSUME NEW c \in Listeners, MainStep(c), ~TakeMessage(c)
      PROVE  Shrinks
  <2>1. ASSUME NEW d \in hand[c], CallbackReturns(c, d) \/ CallbackRaises(c, d) \/ AckMessage(c, d)
        PROVE  Shrinks
    BY <1>1, <1>2, <2>1 DEF CallbackReturns, CallbackRaises, AckMessage
  <2>2. ASSUME Subscribe(c) \/ CancelFutures(c) \/ Drained(c)
        PROVE  Shrinks
    BY <1>1, <2>2 DEF Subscribe, CancelFutures, Drained
  <2> QED BY <1>4, <2>1, <2>2 DEF MainStep
<1>5. ASSUME NEW c \in Listeners, NEW d \in hand[c], AckDropped(c, d)
      PROVE  Shrinks
  BY <1>2, <1>5 DEF AckDropped
<1>6. ASSUME NEW c \in Listeners, StreamsEnd(c) \/ SetShutdown(c) \/ Restart(c)
      PROVE  Shrinks
  BY <1>1, <1>6 DEF StreamsEnd, SetShutdown, Restart
<1>7. ASSUME NEW r \in Requeuers, \/ StartRequeue(r) \/ RequeuerStep(r) \/ RequeuerCrash(r)
                                  \/ \E d \in rbatch[r] : RequeueFails(r, d)
      PROVE  Shrinks
  BY <1>1, <1>7 DEF StartRequeue, RequeuerStep, RequeuePull, RequeueFetch, RequeueBatchDone, RequeuePublish,
                    RequeueAck, RequeueFails, RequeuerCrash, listenerVars
<1>8. ASSUME NEW m \in Messages, Publish(m)
      PROVE  Shrinks
  BY <1>1, <1>8 DEF Publish, listenerVars
<1>9. ASSUME NEW i, LeaseExpires(i) \/ DeadLetter(i)
      PROVE  Shrinks
  BY <1>1, <1>9 DEF LeaseExpires, DeadLetter, listenerVars
<1>10. ASSUME UNCHANGED vars
       PROVE  Shrinks
  BY <1>1, <1>10 DEF vars, listenerVars
<1>11. \/ \E c \in Listeners, s \in SubscriptionPaths : Schedule(c, s)
       \/ \E c \in Listeners : TakeMessage(c)
       \/ Shrinks
  BY <1>3, <1>4, <1>5, <1>6, <1>7, <1>8, <1>9, <1>10 DEF Next, BrokerStep, StreamStep
<1> QED BY <1>11 DEF Shrinks

\* Only a streaming pull gives a listener a delivery.
LEMMA OutstandingStep ==
    ASSUME TypeOK, [Next]_vars
    PROVE  \/ \A b \in Listeners : Outstanding(b)' \subseteq Outstanding(b)
           \/ \E c \in Listeners, s \in SubscriptionPaths : Schedule(c, s)
<1>1. ASSUME \A b \in Listeners :
                InQueue(workQueue'[b]) \cup hand'[b] \subseteq InQueue(workQueue[b]) \cup hand[b]
      PROVE  \A b \in Listeners : Outstanding(b)' \subseteq Outstanding(b)
  BY <1>1, OutstandingAre
<1>2. ASSUME NEW c \in Listeners, TakeMessage(c)
      PROVE  \A b \in Listeners : Outstanding(b)' \subseteq Outstanding(b)
  <2>1. PICK d \in InQueue(workQueue[c]) :
           /\ InQueue(workQueue'[c]) \subseteq InQueue(workQueue[c])
           /\ hand'[c] = {d} \/ hand'[c] = hand[c]
           /\ \A b \in Listeners \ {c} : workQueue'[b] = workQueue[b] /\ hand'[b] = hand[b]
    BY <1>2, TakeGives
  <2>2. \A b \in Listeners :
           InQueue(workQueue'[b]) \cup hand'[b] \subseteq InQueue(workQueue[b]) \cup hand[b]
    BY <2>1
  <2> QED BY <1>1, <2>2
<1>3. InQueue(<<>>) = {}
  BY DEF InQueue
<1> QED BY <1>1, <1>2, <1>3, QueuesStep

-----------------------------------------------------------------------------
\* What the actions of Pub/Sub's users and Pub/Sub itself do to the copies.

CopiesKept == copies' \in Seq(CopyOf(Messages, PubSubQueues)) /\ Evolves(copies, copies')

LEMMA AcknowledgedIs ==
    ASSUME NEW d, NEW s, NEW q \in Acknowledged(d, s)
    PROVE  (q = copies /\ copies[d.copy].state = "visible") \/ q \in Deletions(copies, {d}, s)
BY DEF Acknowledged

LEMMA KeptSame ==
    ASSUME TypeOK, copies' = copies
    PROVE  CopiesKept
BY CopiesType, EvolvesSelf DEF CopiesKept

LEMMA KeptAppend ==
    ASSUME TypeOK, NEW m \in Messages, NEW s \in PubSubQueues,
           copies' = Append(copies, NewCopyOn(m, s))
    PROVE  CopiesKept
<1>1. copies' = Added(copies, m, s)
  BY DEF Added
<1> QED BY <1>1, CopiesType, EvolvesAdded DEF CopiesKept

LEMMA KeptDelivered ==
    ASSUME TypeOK, NEW s, NEW S, S \subseteq Deliverable(s), copies' = Leased(copies, S)
    PROVE  CopiesKept
<1>1. \A i \in S : copies[i].state # "deleted"
  BY DEF Deliverable, VisibleIn, CopiesIn
<1> QED BY <1>1, CopiesType, EvolvesLeased DEF CopiesKept

LEMMA KeptAcknowledged ==
    ASSUME TypeOK, NEW d, NEW s, copies' \in Acknowledged(d, s)
    PROVE  CopiesKept
<1>1. copies' = copies \/ copies' \in Deletions(copies, {d}, s)
  BY AcknowledgedIs
<1> QED BY <1>1, KeptSame, CopiesType, EvolvesDeletions DEF CopiesKept

LEMMA KeptGivenBack ==
    ASSUME TypeOK, NEW d, NEW s, copies' \in {copies, GivenBack(copies, d, s)}
    PROVE  CopiesKept
BY KeptSame, CopiesType, EvolvesGivenBack DEF CopiesKept

LEMMA KeptStep ==
    ASSUME Base, [Next]_vars
    PROVE  CopiesKept
<1> USE DEF Base
<1>1. ASSUME NEW m \in Messages, Publish(m)
      PROVE  CopiesKept
  BY <1>1, KeptAppend, QueueNumbers DEF Publish
<1>2. ASSUME NEW i \in DOMAIN copies, LeaseExpires(i)
      PROVE  CopiesKept
  <2>1. copies' = Shown(copies, i) /\ copies[i].state # "deleted"
    BY <1>2 DEF LeaseExpires, Shown
  <2> QED BY <2>1, CopiesType, EvolvesShown DEF CopiesKept
<1>3. ASSUME NEW i \in DOMAIN copies, DeadLetter(i)
      PROVE  CopiesKept
  <2>1. copies' = WithQueue(copies, i, Dlq) /\ copies[i].state # "deleted"
    BY <1>3 DEF DeadLetter, WithQueue, VisibleIn, CopiesIn
  <2> QED BY <2>1, CopiesType, EvolvesMoved, QueueNumbers DEF CopiesKept
<1>4. ASSUME NEW c \in Listeners, NEW s \in SubscriptionPaths, Schedule(c, s)
      PROVE  CopiesKept
  <2>1. PICK i \in Deliverable(s) : copies' = Leased(copies, {i})
    BY <1>4 DEF Schedule
  <2> QED BY <2>1, KeptDelivered
<1>5. ASSUME NEW c \in Listeners, TakeMessage(c)
      PROVE  CopiesKept
  BY <1>5, KeptSame, KeptGivenBack DEF TakeMessage
<1>6. ASSUME NEW c \in Listeners, NEW d \in hand[c],
             CallbackReturns(c, d) \/ CallbackRaises(c, d) \/ AckMessage(c, d) \/ AckDropped(c, d)
      PROVE  CopiesKept
  BY <1>6, KeptSame, KeptGivenBack, KeptAcknowledged
     DEF CallbackReturns, CallbackRaises, AckMessage, AckDropped
<1>7. ASSUME NEW c \in Listeners, \/ Subscribe(c) \/ CancelFutures(c) \/ Drained(c)
                                  \/ StreamsEnd(c) \/ SetShutdown(c) \/ Crash(c) \/ Restart(c)
      PROVE  CopiesKept
  BY <1>7, KeptSame DEF Subscribe, CancelFutures, Drained, StreamsEnd, SetShutdown, Crash, Restart
<1>8. ASSUME NEW r \in Requeuers, RequeuePull(r)
      PROVE  CopiesKept
  <2>1. PICK S \in SUBSET Deliverable(Dlq) : copies' = Leased(copies, S)
    BY <1>8 DEF RequeuePull, RequeueFetch
  <2> QED BY <2>1, KeptDelivered
<1>9. ASSUME NEW r \in Requeuers, NEW d \in rbatch[r],
             RequeuePublish(r, d) \/ RequeueAck(r, d) \/ RequeueFails(r, d)
      PROVE  CopiesKept
  <2>1. MessageOf(d) \in Messages /\ Main \in PubSubQueues
    BY CopiesType, QueueNumbers DEF DeliveriesLocated, MessageOf
  <2> QED BY <1>9, <2>1, KeptSame, KeptAppend, KeptAcknowledged
          DEF RequeuePublish, RequeueAck, RequeueFails
<1>10. ASSUME NEW r \in Requeuers, StartRequeue(r) \/ RequeueBatchDone(r) \/ RequeuerCrash(r)
       PROVE  CopiesKept
  BY <1>10, KeptSame DEF StartRequeue, RequeueBatchDone, RequeuerCrash
<1> QED BY <1>1, <1>2, <1>3, <1>4, <1>5, <1>6, <1>7, <1>8, <1>9, <1>10, KeptSame
        DEF Next, BrokerStep, MainStep, StreamStep, RequeuerStep, vars

-----------------------------------------------------------------------------
\* Type correctness.

LEMMA BaseInit == Init => Base
<1> SUFFICES ASSUME Init PROVE Base
  OBVIOUS
<1>1. TypeOK
  <2>1. copies \in Seq(Copy)
    BY DEF Init
  <2>2. 0 \in 0 .. MaxFailures /\ 0 \in 0 .. MaxStops /\ 0 \in 0 .. MaxRequeues
    BY BoundsAssumption
  <2>3. workQueue \in [Listeners -> Seq(Delivery)]
    BY DEF Init
  <2> QED BY <2>1, <2>2, <2>3 DEF Init, TypeOK
<1>2. \A c \in Listeners : Outstanding(c) = {}
  BY DEF Init, Outstanding, Queued
<1>3. DeliveriesLocated
  BY <1>2 DEF Init, DeliveriesLocated
<1> QED BY <1>1, <1>3 DEF Base

LEMMA DeliveriesFrom ==
    ASSUME TypeOK, NEW S, S \subseteq Deliverable(Dlq)
    PROVE  /\ {DeliveryFrom(Dlq, i) : i \in S} \subseteq Delivery
           /\ \A d \in {DeliveryFrom(Dlq, i) : i \in S} :
                d.copy \in S /\ d.receipt = copies[d.copy].receives + 1
           /\ S \subseteq VisibleIn(copies, Dlq) /\ S \subseteq DOMAIN copies
<1>1. S \subseteq VisibleIn(copies, Dlq) /\ S \subseteq DOMAIN copies
  BY DEF Deliverable, VisibleIn, CopiesIn
<1>2. \A i \in S : copies[i].receives + 1 \in Nat \ {0} /\ i \in Nat \ {0}
  BY <1>1, CopiesType
<1>3. Dlq \in 1 .. Dlq
  BY QueueNumbers DEF PubSubQueues
<1> QED BY <1>1, <1>2, <1>3 DEF DeliveryFrom, Delivery

LEMMA TypeStep ==
    ASSUME Base, [Next]_vars
    PROVE  TypeOK'
<1> USE DEF Base
<1>0. copies' \in Seq(Copy)
  BY KeptStep DEF CopiesKept, Copy, PubSubQueues
<1>1. ASSUME NEW m \in Messages, Publish(m)
      PROVE  TypeOK'
  BY <1>0, <1>1 DEF Publish, TypeOK, listenerVars, requeuerVars, history, budgets
<1>2. ASSUME NEW i \in DOMAIN copies, LeaseExpires(i) \/ DeadLetter(i)
      PROVE  TypeOK'
  <2>1. late' \in BOOLEAN
    <3>1. CASE LeaseExpires(i)
      <4>1. late' = (late \/ \E d \in Held : d.copy = i)
        BY <3>1 DEF LeaseExpires
      <4> QED BY <4>1
    <3>2. CASE DeadLetter(i)
      BY <3>2 DEF DeadLetter, history, TypeOK
    <3> QED BY <1>2, <3>1, <3>2
  <2> QED BY <1>0, <1>2, <2>1 DEF LeaseExpires, DeadLetter, TypeOK, listenerVars,
                    requeuerVars, history, budgets
<1>3. ASSUME NEW c \in Listeners, NEW s \in SubscriptionPaths, Schedule(c, s)
      PROVE  TypeOK'
  <2>1. PICK d \in Delivery : workQueue' = [workQueue EXCEPT ![c] = Append(workQueue[c], d)]
    BY <1>3, ScheduleGives
  <2>2. workQueue[c] \in Seq(Delivery)
    BY DEF TypeOK
  <2>3. Append(workQueue[c], d) \in Seq(Delivery)
    BY <2>2, PutBehind
  <2>4. workQueue' \in [Listeners -> Seq(Delivery)]
    BY <2>1, <2>3 DEF TypeOK
  <2> QED BY <1>0, <1>3, <2>4 DEF Schedule, TypeOK, requeuerVars, history, budgets
<1>4. ASSUME NEW c \in Listeners, TakeMessage(c)
      PROVE  TypeOK'
  <2>1. workQueue[c] \in Seq(Delivery) /\ workQueue[c] # <<>>
    BY <1>4 DEF TypeOK, TakeMessage
  <2>2. Tail(workQueue[c]) \in Seq(Delivery) /\ Head(workQueue[c]) \in Delivery
    BY <2>1, Taken
  <2>3. workQueue' \in [Listeners -> Seq(Delivery)]
    BY <1>4, <2>2 DEF TypeOK, TakeMessage
  <2>4. hand' = hand \/ hand' = [hand EXCEPT ![c] = {Head(workQueue[c])}]
    BY <1>4 DEF TakeMessage
  <2>5. hand' \in [Listeners -> SUBSET Delivery]
    BY <2>2, <2>4 DEF TypeOK
  <2>6. pc' = pc \/ pc' = [pc EXCEPT ![c] = "callback"]
    BY <1>4 DEF TakeMessage
  <2>7. pc' \in [Listeners -> {"idle", "get", "drain", "callback", "ack", "stopped", "dead"}]
    BY <2>6 DEF TypeOK
  <2> QED BY <1>0, <1>4, <2>3, <2>5, <2>7 DEF TakeMessage, TypeOK, requeuerVars, history, budgets
<1>5. ASSUME NEW c \in Listeners, NEW d \in hand[c],
             CallbackReturns(c, d) \/ CallbackRaises(c, d) \/ AckMessage(c, d)
      PROVE  TypeOK'
  <2> USE <1>0 DEF TypeOK, requeuerVars, history, budgets, Resume
  <2>1. CASE CallbackReturns(c, d)
    BY <2>1 DEF CallbackReturns
  <2>2. CASE CallbackRaises(c, d)
    BY <2>2 DEF CallbackRaises
  <2>3. CASE AckMessage(c, d)
    BY <2>3 DEF AckMessage
  <2> QED BY <1>5, <2>1, <2>2, <2>3
<1>6. ASSUME NEW c \in Listeners, NEW d \in hand[c], AckDropped(c, d)
      PROVE  TypeOK'
  <2>1. failures' \in 0 .. MaxFailures /\ stops' = stops /\ requeues' = requeues
    BY <1>6, BoundsAssumption DEF AckDropped, Fail, budgets, TypeOK
  <2> QED BY <1>0, <1>6, <2>1 DEF AckDropped, TypeOK, requeuerVars, history, Resume
<1>7. ASSUME NEW c \in Listeners, \/ Subscribe(c) \/ CancelFutures(c) \/ Drained(c)
                                  \/ StreamsEnd(c) \/ SetShutdown(c) \/ Crash(c) \/ Restart(c)
      PROVE  TypeOK'
  <2> USE <1>0, BoundsAssumption DEF TypeOK, requeuerVars, history, budgets
  <2>1. CASE Subscribe(c)
    BY <2>1 DEF Subscribe
  <2>2. CASE CancelFutures(c)
    BY <2>2 DEF CancelFutures
  <2>3. CASE Drained(c)
    BY <2>3 DEF Drained
  <2>4. CASE StreamsEnd(c)
    BY <2>4 DEF StreamsEnd
  <2>5. CASE SetShutdown(c)
    BY <2>5 DEF SetShutdown
  <2>6. CASE Crash(c)
    <3>1. <<>> \in Seq(Delivery)
      OBVIOUS
    <3>2. workQueue' \in [Listeners -> Seq(Delivery)]
      BY <2>6, <3>1 DEF Crash
    <3> QED BY <2>6, <3>2 DEF Crash, Fail
  <2>7. CASE Restart(c)
    BY <2>7 DEF Restart
  <2> QED BY <1>7, <2>1, <2>2, <2>3, <2>4, <2>5, <2>6, <2>7
<1>8. ASSUME NEW r \in Requeuers, RequeuePull(r)
      PROVE  TypeOK'
  <2>1. PICK S \in SUBSET Deliverable(Dlq) :
            /\ rbatch' = [rbatch EXCEPT ![r] = {DeliveryFrom(Dlq, i) : i \in S}]
            /\ rpc' = [rpc EXCEPT ![r] = IF S = {} THEN "done" ELSE "publish"]
            /\ owed' = [x \in Requeuers |-> IF x = r THEN owed[x] ELSE owed[x] \ S]
    BY <1>8 DEF RequeuePull, RequeueFetch
  <2>2. {DeliveryFrom(Dlq, i) : i \in S} \subseteq Delivery
    BY DeliveriesFrom
  <2>3. owed' \in [Requeuers -> SUBSET (Nat \ {0})]
    BY <2>1 DEF TypeOK
  <2>4. rpc' \in [Requeuers -> {"off", "pull", "publish", "ack", "done", "raised"}]
    BY <2>1 DEF TypeOK
  <2>5. rbatch' \in [Requeuers -> SUBSET Delivery]
    BY <2>1, <2>2 DEF TypeOK
  <2> QED BY <1>0, <1>8, <2>3, <2>4, <2>5
          DEF RequeuePull, RequeueFetch, TypeOK, listenerVars, history, budgets
<1>9. ASSUME NEW r \in Requeuers, StartRequeue(r)
      PROVE  TypeOK'
  <2>1. VisibleIn(copies, Dlq) \subseteq Nat \ {0}
    BY <1>0, CopiesType DEF VisibleIn, CopiesIn
  <2> QED BY <1>0, <1>9, <2>1, BoundsAssumption
          DEF StartRequeue, TypeOK, listenerVars, history, budgets
<1>10. ASSUME NEW r \in Requeuers, NEW d \in rbatch[r],
             RequeuePublish(r, d) \/ RequeueAck(r, d) \/ RequeueFails(r, d)
      PROVE  TypeOK'
  <2> USE <1>0, BoundsAssumption DEF TypeOK, listenerVars, history, budgets
  <2>1. CASE RequeuePublish(r, d)
    BY <2>1 DEF RequeuePublish
  <2>2. CASE RequeueAck(r, d)
    BY <2>2 DEF RequeueAck
  <2>3. CASE RequeueFails(r, d)
    BY <2>3 DEF RequeueFails, Fail
  <2> QED BY <1>10, <2>1, <2>2, <2>3
<1>11. ASSUME NEW r \in Requeuers, RequeueBatchDone(r) \/ RequeuerCrash(r)
       PROVE  TypeOK'
  <2> USE <1>0, BoundsAssumption DEF TypeOK, listenerVars, history, budgets
  <2>1. CASE RequeueBatchDone(r)
    BY <2>1 DEF RequeueBatchDone
  <2>2. CASE RequeuerCrash(r)
    BY <2>2 DEF RequeuerCrash, Fail
  <2> QED BY <1>11, <2>1, <2>2
<1>12. CASE UNCHANGED vars
  BY <1>0, <1>12 DEF vars, TypeOK, listenerVars, requeuerVars, history, budgets
<1> QED BY <1>1, <1>2, <1>3, <1>4, <1>5, <1>6, <1>7, <1>8, <1>9, <1>10, <1>11, <1>12
        DEF Next, BrokerStep, MainStep, StreamStep, RequeuerStep

\* Where the deliveries that requeuers hold, and those returned, come from.
LEMMA HandedOver ==
    ASSUME Base, [Next]_vars
    PROVE  /\ \A d \in returned' : d \in returned \/ \E c \in Listeners : d \in hand[c]
           /\ \A r \in Requeuers : \A d \in rbatch'[r] :
                d \in rbatch[r] \/ d.copy \in DOMAIN copies
           /\ \A r \in Requeuers : \A d \in rhand'[r] : d \in rhand[r] \cup rbatch[r]
<1> DEFINE Returns == \A d \in returned' : d \in returned \/ \E c \in Listeners : d \in hand[c]
           Requeuing == /\ \A r \in Requeuers : \A d \in rbatch'[r] :
                              d \in rbatch[r] \/ d.copy \in DOMAIN copies
                        /\ \A r \in Requeuers : \A d \in rhand'[r] : d \in rhand[r] \cup rbatch[r]
<1> USE DEF Base, TypeOK
<1>1. ASSUME returned' = returned
      PROVE  Returns
  BY <1>1
<1>2. ASSUME rbatch' = rbatch, rhand' = rhand
      PROVE  Requeuing
  BY <1>2
<1>3. ASSUME NEW c \in Listeners, NEW d \in hand[c], CallbackReturns(c, d)
      PROVE  Returns
  BY <1>3 DEF CallbackReturns
<1>4. ASSUME NEW r \in Requeuers, RequeuePull(r)
      PROVE  Requeuing
  <2>1. PICK S \in SUBSET Deliverable(Dlq) :
            rbatch' = [rbatch EXCEPT ![r] = {DeliveryFrom(Dlq, i) : i \in S}]
    BY <1>4 DEF RequeuePull, RequeueFetch
  <2>2. \A d \in {DeliveryFrom(Dlq, i) : i \in S} : d.copy \in DOMAIN copies
    BY DeliveriesFrom
  <2>3. rhand' = rhand
    BY <1>4 DEF RequeuePull, RequeueFetch
  <2> QED BY <2>1, <2>2, <2>3
<1>5. ASSUME NEW r \in Requeuers,
             \/ RequeueBatchDone(r) \/ StartRequeue(r) \/ RequeuerCrash(r)
             \/ \E d \in rbatch[r] : RequeuePublish(r, d) \/ RequeueAck(r, d) \/ RequeueFails(r, d)
      PROVE  Requeuing
  <2>1. /\ \E D \in SUBSET rbatch[r] : rbatch' = [rbatch EXCEPT ![r] = D]
        /\ \/ rhand' = rhand
           \/ \E D \in SUBSET rbatch[r] : rhand' = [rhand EXCEPT ![r] = D]
    <3>1. rbatch = [rbatch EXCEPT ![r] = rbatch[r]]
      OBVIOUS
    <3>2. rbatch[r] \in SUBSET rbatch[r] /\ {} \in SUBSET rbatch[r]
          /\ \A d \in rbatch[r] : {d} \in SUBSET rbatch[r] /\ rbatch[r] \ {d} \in SUBSET rbatch[r]
      OBVIOUS
    <3> QED BY <1>5, <3>1, <3>2
            DEF RequeueBatchDone, StartRequeue, RequeuerCrash, RequeuePublish, RequeueAck,
                RequeueFails
  <2>2. PICK D \in SUBSET rbatch[r] : rbatch' = [rbatch EXCEPT ![r] = D]
    BY <2>1
  <2> QED BY <2>1, <2>2
<1>6. ASSUME NEW r \in Requeuers,
             \/ RequeuerStep(r) \/ StartRequeue(r) \/ RequeuerCrash(r)
             \/ \E d \in rbatch[r] : RequeueFails(r, d)
      PROVE  returned' = returned
  BY <1>6 DEF RequeuerStep, RequeuePull, RequeueFetch, RequeueBatchDone, RequeuePublish, RequeueAck,
              RequeueFails, StartRequeue, RequeuerCrash, history
<1>7. ASSUME NEW c \in Listeners,
             \/ MainStep(c) \/ StreamStep(c) \/ SetShutdown(c) \/ Crash(c) \/ Restart(c)
             \/ \E d \in hand[c] : AckDropped(c, d)
      PROVE  rbatch' = rbatch /\ rhand' = rhand
  BY <1>7 DEF MainStep, Subscribe, TakeMessage, CancelFutures, Drained, CallbackReturns,
              CallbackRaises, AckMessage, StreamStep, Schedule, StreamsEnd, SetShutdown, Crash,
              Restart, AckDropped, requeuerVars
<1>8. ASSUME NEW c \in Listeners,
             \/ MainStep(c) \/ StreamStep(c) \/ SetShutdown(c) \/ Crash(c) \/ Restart(c)
             \/ \E d \in hand[c] : AckDropped(c, d)
      PROVE  returned' = returned \/ \E d \in hand[c] : CallbackReturns(c, d)
  BY <1>8 DEF MainStep, Subscribe, TakeMessage, CancelFutures, Drained,
              CallbackRaises, AckMessage, StreamStep, Schedule, StreamsEnd, SetShutdown, Crash,
              Restart, AckDropped, history
<1>9. ASSUME NEW m \in Messages, Publish(m)
      PROVE  returned' = returned /\ rbatch' = rbatch /\ rhand' = rhand
  BY <1>9 DEF Publish, history, requeuerVars
<1>10. ASSUME NEW i, LeaseExpires(i) \/ DeadLetter(i)
       PROVE  returned' = returned /\ rbatch' = rbatch /\ rhand' = rhand
  BY <1>10 DEF LeaseExpires, DeadLetter, history, requeuerVars
<1>11. ASSUME UNCHANGED vars
       PROVE  returned' = returned /\ rbatch' = rbatch /\ rhand' = rhand
  BY <1>11 DEF vars, history, requeuerVars
<1> HIDE DEF Returns, Requeuing, Base, TypeOK
<1>12. ASSUME NEW c \in Listeners,
             \/ MainStep(c) \/ StreamStep(c) \/ SetShutdown(c) \/ Crash(c) \/ Restart(c)
             \/ \E d \in hand[c] : AckDropped(c, d)
       PROVE  Returns /\ Requeuing
  BY <1>1, <1>2, <1>3, <1>7, <1>8, <1>12
<1>13. ASSUME NEW r \in Requeuers,
             \/ RequeuerStep(r) \/ StartRequeue(r) \/ RequeuerCrash(r)
             \/ \E d \in rbatch[r] : RequeueFails(r, d)
       PROVE  Returns /\ Requeuing
  BY <1>1, <1>4, <1>5, <1>6, <1>13 DEF RequeuerStep
<1>14. Returns /\ Requeuing
  BY <1>1, <1>2, <1>9, <1>10, <1>11, <1>12, <1>13 DEF Next, BrokerStep
<1> QED BY <1>14 DEF Returns, Requeuing

LEMMA BaseStep ==
    ASSUME Base, [Next]_vars
    PROVE  Base'
<1>1. TypeOK'
  BY TypeStep
<1>2. DOMAIN copies \subseteq DOMAIN copies'
  BY KeptStep DEF CopiesKept, Evolves
<1>3. \A c \in Listeners : \A d \in Outstanding(c)' :
         d.copy \in DOMAIN copies /\ d.subscription \in SubscriptionPaths
  <2>1. CASE \A b \in Listeners : Outstanding(b)' \subseteq Outstanding(b)
    BY <2>1 DEF Base, DeliveriesLocated
  <2>2. ASSUME NEW c \in Listeners, NEW s \in SubscriptionPaths, Schedule(c, s)
        PROVE  \A b \in Listeners : \A d \in Outstanding(b)' :
                 d.copy \in DOMAIN copies /\ d.subscription \in SubscriptionPaths
    <3>1. PICK i \in Deliverable(s) :
            /\ i \in DOMAIN copies
            /\ Outstanding(c)' = Outstanding(c) \cup {DeliveryFrom(s, i)}
            /\ \A b \in Listeners \ {c} : Outstanding(b)' = Outstanding(b)
      BY <2>2, ScheduleGives DEF Base
    <3>2. DeliveryFrom(s, i).copy = i /\ DeliveryFrom(s, i).subscription = s
      BY DEF DeliveryFrom
    <3> QED BY <3>1, <3>2 DEF Base, DeliveriesLocated
  <2> QED BY <2>1, <2>2, OutstandingStep DEF Base
<1>4. \A c \in Listeners : hand[c] \subseteq Outstanding(c)
  BY DEF Outstanding
<1>5. \A r \in Requeuers : \A d \in rbatch'[r] \cup rhand'[r] : d.copy \in DOMAIN copies
  BY HandedOver DEF Base, DeliveriesLocated
<1>6. \A d \in returned' : d.copy \in DOMAIN copies
  BY <1>4, HandedOver DEF Base, DeliveriesLocated
<1>7. DeliveriesLocated'
  <2>1. \A c \in Listeners : \A d \in Outstanding(c)' :
           d.copy \in DOMAIN copies' /\ d.subscription \in SubscriptionPaths
    BY <1>2, <1>3
  <2> QED BY <1>2, <1>5, <1>6, <2>1 DEF DeliveriesLocated
<1> QED BY <1>1, <1>7 DEF Base

(***************************************************************************)
(* Variables keep their types through every delivery, shutdown and crash:  *)
(* work queues hold deliveries only, and the budgets stay within bounds.   *)
(***************************************************************************)
THEOREM PubSubTypeCorrect == Spec => []TypeOK
<1>1. Base => TypeOK
  BY DEF Base
<1> QED BY <1>1, BaseInit, BaseStep, PTL DEF Spec

-----------------------------------------------------------------------------
\* Why nothing is lost.

Live(i) == copies[i].state # "deleted"

\* A listener works on one delivery at a time, and acknowledges what its callback
\* returned for.
AckReturned ==
    \A c \in Listeners : /\ \A d, e \in hand[c] : d = e
                         /\ pc[c] = "ack" => hand[c] \subseteq returned

\* Before a requeuer acknowledges a message on the dead-letter queue it was handled, or
\* has a younger copy: that copy may have come to the dead-letter queue meanwhile and
\* be acknowledged by another requeuer, which by then has published a younger one.
StoredAgain ==
    \A r \in Requeuers : rpc[r] = "ack" =>
        \A d \in rhand[r] :
            \/ MessageOf(d) \in handled
            \/ \E j \in DOMAIN copies : Live(j) /\ copies[j].msg = MessageOf(d) /\ d.copy < j

RInv == Base /\ AckReturned /\ StoredAgain

\* A listener comes to the acknowledgement only by its callback's return.
LEMMA AckStep ==
    ASSUME Base, [Next]_vars, NEW c \in Listeners
    PROVE  /\ hand'[c] = hand[c] \/ hand'[c] = {} \/ \E d : hand'[c] = {d}
           /\ pc'[c] = "ack" => /\ hand'[c] = hand[c]
                                /\ pc[c] = "ack" \/ \E d \in hand[c] : CallbackReturns(c, d)
<1> DEFINE Goal == /\ hand'[c] = hand[c] \/ hand'[c] = {} \/ \E d : hand'[c] = {d}
                   /\ pc'[c] = "ack" =>
                        /\ hand'[c] = hand[c]
                        /\ pc[c] = "ack" \/ \E d \in hand[c] : CallbackReturns(c, d)
           Elsewhere == {"idle", "get", "drain", "callback", "stopped", "dead"}
<1>0. /\ pc \in [Listeners -> {"idle", "get", "drain", "callback", "ack", "stopped", "dead"}]
      /\ hand \in [Listeners -> SUBSET Delivery]
  BY DEF Base, TypeOK
<1>1. ASSUME hand' = hand, pc' = pc
      PROVE  Goal
  BY <1>1
<1>2. ASSUME NEW a \in Listeners, NEW k \in Elsewhere, hand' = hand, pc' = [pc EXCEPT ![a] = k]
      PROVE  Goal
  BY <1>0, <1>2
<1>3. ASSUME NEW a \in Listeners, NEW k \in Elsewhere, NEW h, h = {} \/ \E d : h = {d},
             hand' = [hand EXCEPT ![a] = h], pc' = [pc EXCEPT ![a] = k]
      PROVE  Goal
  BY <1>0, <1>3
<1>4. ASSUME NEW a \in Listeners, NEW d \in hand[a], CallbackReturns(a, d)
      PROVE  Goal
  BY <1>0, <1>4 DEF CallbackReturns
<1>14. \A a \in Listeners : Resume(a) \in Elsewhere
  BY DEF Resume
<1> HIDE DEF Goal
<1>5. ASSUME NEW a \in Listeners, MainStep(a)
      PROVE  Goal
  <2>1. CASE TakeMessage(a)
    BY <2>1, <1>1, <1>3 DEF TakeMessage
  <2>2. CASE Subscribe(a) \/ CancelFutures(a) \/ Drained(a)
    BY <2>2, <1>2 DEF Subscribe, CancelFutures, Drained
  <2>3. ASSUME NEW d \in hand[a], CallbackRaises(a, d) \/ AckMessage(a, d)
        PROVE  Goal
    BY <2>3, <1>3, <1>14 DEF CallbackRaises, AckMessage
  <2> QED BY <1>4, <1>5, <2>1, <2>2, <2>3 DEF MainStep
<1>6. ASSUME NEW a \in Listeners, NEW d \in hand[a], AckDropped(a, d)
      PROVE  Goal
  BY <1>6, <1>3, <1>14 DEF AckDropped
<1>7. ASSUME NEW a \in Listeners, StreamStep(a) \/ SetShutdown(a) \/ Crash(a) \/ Restart(a)
      PROVE  Goal
  BY <1>7, <1>1, <1>2, <1>3 DEF StreamStep, Schedule, StreamsEnd, SetShutdown, Crash, Restart
<1>8. ASSUME NEW r \in Requeuers, \/ RequeuerStep(r) \/ StartRequeue(r) \/ RequeuerCrash(r)
                                  \/ \E d \in rbatch[r] : RequeueFails(r, d)
      PROVE  Goal
  BY <1>8, <1>1 DEF RequeuerStep, RequeuePull, RequeueFetch, RequeueBatchDone, RequeuePublish, RequeueAck,
              RequeueFails, StartRequeue, RequeuerCrash, listenerVars
<1>9. ASSUME NEW m \in Messages, Publish(m)
      PROVE  Goal
  BY <1>9, <1>1 DEF Publish, listenerVars
<1>10. ASSUME NEW i, LeaseExpires(i) \/ DeadLetter(i)
       PROVE  Goal
  BY <1>10, <1>1 DEF LeaseExpires, DeadLetter, listenerVars
<1>11. ASSUME UNCHANGED vars
       PROVE  Goal
  BY <1>11, <1>1 DEF vars, listenerVars
<1>12. Goal
  BY <1>5, <1>6, <1>7, <1>8, <1>9, <1>10, <1>11 DEF Next, BrokerStep
<1> QED BY <1>12 DEF Goal

\* What was returned stays so, and with it what was handled.
LEMMA ReturnedKept ==
    ASSUME Base, [Next]_vars
    PROVE  returned \subseteq returned' /\ handled \subseteq handled'
<1>1. returned \subseteq returned'
  BY DEF Next, BrokerStep, MainStep, StreamStep, RequeuerStep, vars, history, Publish, LeaseExpires,
         DeadLetter, Schedule, StreamsEnd, SetShutdown, Subscribe, TakeMessage, CancelFutures,
         Drained, CallbackReturns, CallbackRaises, AckMessage, AckDropped, Crash, Restart,
         StartRequeue, RequeuePull, RequeueFetch, RequeueBatchDone, RequeuePublish, RequeueAck, RequeueFails,
         RequeuerCrash
<1>2. \A d \in returned : MessageOf(d)' = MessageOf(d)
  BY KeptStep DEF CopiesKept, Evolves, Base, DeliveriesLocated, MessageOf
<1> QED BY <1>1, <1>2 DEF handled

\* A requeuer comes to the acknowledgement only by publishing.
LEMMA RequeuerStays ==
    ASSUME Base, [Next]_vars, NEW r \in Requeuers, rpc'[r] = "ack"
    PROVE  \/ rpc[r] = "ack" /\ rhand'[r] = rhand[r]
           \/ \E d \in rbatch[r] : RequeuePublish(r, d) /\ rhand'[r] = {d}
<1> DEFINE Goal == \/ rpc[r] = "ack" /\ rhand'[r] = rhand[r]
                   \/ \E d \in rbatch[r] : RequeuePublish(r, d) /\ rhand'[r] = {d}
<1>0. /\ rpc \in [Requeuers -> {"off", "pull", "publish", "ack", "done", "raised"}]
      /\ rhand \in [Requeuers -> SUBSET Delivery]
  BY DEF Base, TypeOK
<1>1. ASSUME rhand' = rhand, rpc' = rpc
      PROVE  Goal
  BY <1>1
<1>2. ASSUME NEW x \in Requeuers, NEW k \in {"off", "pull", "publish", "done", "raised"},
             rpc' = [rpc EXCEPT ![x] = k],
             rhand' = rhand \/ rhand' = [rhand EXCEPT ![x] = {}]
      PROVE  Goal
  BY <1>0, <1>2
<1>3. ASSUME NEW x \in Requeuers, NEW d \in rbatch[x], RequeuePublish(x, d)
      PROVE  Goal
  <2>1. rpc' = [rpc EXCEPT ![x] = "ack"] /\ rhand' = [rhand EXCEPT ![x] = {d}]
    BY <1>3 DEF RequeuePublish
  <2>2. CASE x = r
    BY <1>0, <1>3, <2>1, <2>2
  <2>3. CASE x # r
    BY <1>0, <2>1, <2>3
  <2> QED BY <2>2, <2>3
<1> HIDE DEF Goal
<1>4. ASSUME NEW x \in Requeuers, RequeuePull(x)
      PROVE  Goal
  <2>1. PICK S : rpc' = [rpc EXCEPT ![x] = IF S = {} THEN "done" ELSE "publish"]
    BY <1>4 DEF RequeuePull, RequeueFetch
  <2>2. (IF S = {} THEN "done" ELSE "publish") \in {"off", "pull", "publish", "done", "raised"}
    OBVIOUS
  <2> QED BY <1>2, <1>4, <2>1, <2>2 DEF RequeuePull, RequeueFetch
<1>5. ASSUME NEW x \in Requeuers,
             \/ StartRequeue(x) \/ RequeueBatchDone(x) \/ RequeuerCrash(x)
             \/ \E d \in rbatch[x] : RequeueAck(x, d) \/ RequeueFails(x, d)
      PROVE  Goal
  BY <1>5, <1>2 DEF StartRequeue, RequeueBatchDone, RequeuerCrash, RequeueAck, RequeueFails
<1>6. ASSUME NEW c \in Listeners,
             \/ MainStep(c) \/ StreamStep(c) \/ SetShutdown(c) \/ Crash(c) \/ Restart(c)
             \/ \E d \in hand[c] : AckDropped(c, d)
      PROVE  Goal
  BY <1>1, <1>6
     DEF MainStep, Subscribe, TakeMessage, CancelFutures, Drained, CallbackReturns,
         CallbackRaises, AckMessage, StreamStep, Schedule, StreamsEnd, SetShutdown, Crash,
         Restart, AckDropped, requeuerVars
<1>7. ASSUME NEW m \in Messages, Publish(m)
      PROVE  Goal
  BY <1>7, <1>1 DEF Publish, requeuerVars
<1>8. ASSUME NEW i, LeaseExpires(i) \/ DeadLetter(i)
      PROVE  Goal
  BY <1>8, <1>1 DEF LeaseExpires, DeadLetter, requeuerVars
<1>9. ASSUME UNCHANGED vars
      PROVE  Goal
  BY <1>9, <1>1 DEF vars, requeuerVars
<1>10. Goal
  BY <1>3, <1>4, <1>5, <1>6, <1>7, <1>8, <1>9 DEF Next, BrokerStep, RequeuerStep
<1> QED BY <1>10 DEF Goal

LEMMA AddedOn ==
    \A m : \A s : Append(copies, NewCopyOn(m, s)) = Added(copies, m, s)
BY DEF Added

\* Only an acknowledgement ends a copy: a listener's, or a requeuer's of what it has
\* published again.
LEMMA CopyEnds ==
    ASSUME Base, [Next]_vars, NEW j \in DOMAIN copies, Live(j), copies'[j].state = "deleted"
    PROVE  \/ \E c \in Listeners : pc[c] = "ack" /\ \E d \in hand[c] : d.copy = j
           \/ \E r \in Requeuers :
                /\ rpc[r] = "ack"
                /\ \E d \in rhand[r] : d.copy = j /\ copies' \in Deletions(copies, {d}, Dlq)
<1> DEFINE Goal == \/ \E c \in Listeners : pc[c] = "ack" /\ \E d \in hand[c] : d.copy = j
                   \/ \E r \in Requeuers :
                        /\ rpc[r] = "ack"
                        /\ \E d \in rhand[r] :
                              d.copy = j /\ copies' \in Deletions(copies, {d}, Dlq)
<1> USE DEF Base, Live
<1>0. copies \in Seq(CopyOf(Messages, PubSubQueues))
  BY CopiesType
<1>1. ASSUME copies' = copies PROVE Goal
  BY <1>1
<1>2. ASSUME NEW m \in Messages, NEW s \in PubSubQueues, copies' = Append(copies, NewCopyOn(m, s))
      PROVE  Goal
  <2>1. copies' = Added(copies, m, s)
    BY <1>2, AddedOn
  <2>2. copies'[j] = copies[j]
    BY <1>0, <2>1, CopyAdded
  <2> QED BY <2>2
<1>3. ASSUME NEW S, copies' = Leased(copies, S) PROVE Goal
  <2>1. copies'[j].state \in {"hidden", copies[j].state}
    BY <1>0, <1>3, LeasedCopies
  <2> QED BY <2>1
<1>4. ASSUME NEW d, NEW s, copies' = GivenBack(copies, d, s) PROVE Goal
  <2>1. copies'[j].state \in {"visible", copies[j].state}
    BY <1>0, <1>4, GivenBackCopies
  <2> QED BY <2>1
<1>5. ASSUME NEW d, NEW s, copies' \in Acknowledged(d, s)
      PROVE  d.copy = j /\ copies' \in Deletions(copies, {d}, s)
  <2>1. copies' # copies
    OBVIOUS
  <2>2. copies' \in Deletions(copies, {d}, s)
    BY <1>5, <2>1, AcknowledgedIs
  <2> QED BY <1>0, <2>2, DeletedCopies
<1>6. ASSUME NEW i \in DOMAIN copies, LeaseExpires(i) \/ DeadLetter(i)
      PROVE  Goal
  <2>1. copies' = Shown(copies, i) \/ copies' = WithQueue(copies, i, Dlq)
    BY <1>6 DEF LeaseExpires, DeadLetter, Shown, WithQueue
  <2>2. Shown(copies, i)[j].state \in {"visible", copies[j].state}
    BY <1>0, CopyShown
  <2>3. WithQueue(copies, i, Dlq)[j].state = copies[j].state
    BY <1>0, CopyMoved, QueueNumbers
  <2> QED BY <2>1, <2>2, <2>3
<1>7. ASSUME NEW c \in Listeners, MainStep(c)
      PROVE  Goal
  <2>1. ASSUME NEW d \in hand[c], AckMessage(c, d)
        PROVE  Goal
    BY <1>5, <2>1 DEF AckMessage
  <2>2. ASSUME NEW d \in hand[c], CallbackReturns(c, d) \/ CallbackRaises(c, d)
        PROVE  Goal
    <3>1. copies' = copies \/ copies' = GivenBack(copies, d, d.subscription)
      BY <2>2 DEF CallbackReturns, CallbackRaises
    <3> QED BY <1>1, <1>4, <3>1
  <2>3. ASSUME TakeMessage(c)
        PROVE  Goal
    <3>1. \/ copies' = copies
          \/ copies' = GivenBack(copies, Head(workQueue[c]), Head(workQueue[c]).subscription)
      BY <2>3 DEF TakeMessage
    <3> QED BY <1>1, <1>4, <3>1
  <2> QED BY <1>1, <1>7, <2>1, <2>2, <2>3 DEF MainStep, Subscribe, CancelFutures, Drained
<1>8. ASSUME NEW c \in Listeners,
             StreamStep(c) \/ SetShutdown(c) \/ Crash(c) \/ Restart(c)
      PROVE  Goal
  BY <1>1, <1>3, <1>8 DEF StreamStep, Schedule, StreamsEnd, SetShutdown, Crash, Restart
<1>16. ASSUME NEW c \in Listeners, NEW d \in hand[c], AckDropped(c, d)
       PROVE  Goal
  <2>1. copies' = copies \/ copies' = GivenBack(copies, d, d.subscription)
    BY <1>16 DEF AckDropped
  <2> QED BY <1>1, <1>4, <2>1
<1>9. ASSUME NEW r \in Requeuers, NEW d \in rbatch[r], RequeueAck(r, d)
      PROVE  Goal
  BY <1>5, <1>9 DEF RequeueAck
<1>10. ASSUME NEW r \in Requeuers, NEW d \in rbatch[r], RequeuePublish(r, d)
       PROVE  Goal
  <2>1. MessageOf(d) \in Messages /\ Main \in PubSubQueues
    BY CopiesType, QueueNumbers DEF DeliveriesLocated, MessageOf
  <2> QED BY <1>2, <1>10, <2>1 DEF RequeuePublish
<1>11. ASSUME NEW r \in Requeuers, NEW d \in rbatch[r], RequeueFails(r, d)
       PROVE  Goal
  <2>1. MessageOf(d) \in Messages /\ Main \in PubSubQueues
    BY CopiesType, QueueNumbers DEF DeliveriesLocated, MessageOf
  <2>2. \/ copies' = copies
        \/ copies' = Append(copies, NewCopyOn(MessageOf(d), Main))
        \/ rpc[r] = "ack" /\ d \in rhand[r] /\ copies' \in Acknowledged(d, Dlq)
    BY <1>11 DEF RequeueFails
  <2> QED BY <1>1, <1>2, <1>5, <2>1, <2>2
<1>12. ASSUME NEW r \in Requeuers,
              RequeuePull(r) \/ RequeueBatchDone(r) \/ StartRequeue(r) \/ RequeuerCrash(r)
       PROVE  Goal
  BY <1>1, <1>3, <1>12 DEF RequeuePull, RequeueFetch, RequeueBatchDone, StartRequeue, RequeuerCrash
<1>13. ASSUME NEW m \in Messages, Publish(m)
       PROVE  Goal
  <2>1. PICK s \in 1 .. NumSubscriptions : copies' = Append(copies, NewCopyOn(m, s))
    BY <1>13 DEF Publish
  <2> QED BY <1>2, <2>1, QueueNumbers
<1>14. ASSUME UNCHANGED vars PROVE Goal
  BY <1>1, <1>14 DEF vars
<1> HIDE DEF Goal, Base, Live
<1>15. Goal
  BY <1>6, <1>7, <1>8, <1>9, <1>10, <1>11, <1>12, <1>13, <1>14, <1>16
     DEF Next, BrokerStep, RequeuerStep
<1> QED BY <1>15 DEF Goal

LEMMA RInvInit == Init => RInv
<1>1. Init => AckReturned /\ StoredAgain
  BY DEF Init, AckReturned, StoredAgain
<1> QED BY <1>1, BaseInit DEF RInv

\* A message that is stored again while a requeuer has it in hand stays stored until it
\* is handled.
LEMMA StoredAgainStep ==
    ASSUME RInv, [Next]_vars, NEW r \in Requeuers, NEW d \in rhand[r], rpc[r] = "ack"
    PROVE  \/ MessageOf(d)' \in handled'
           \/ \E j \in DOMAIN copies' : Live(j)' /\ copies'[j].msg = MessageOf(d)' /\ d.copy < j
<1> USE DEF RInv
<1>1. /\ handled \subseteq handled'
      /\ MessageOf(d)' = MessageOf(d)
      /\ \A j \in DOMAIN copies : j \in DOMAIN copies' /\ copies'[j].msg = copies[j].msg
  BY ReturnedKept, KeptStep DEF CopiesKept, Evolves, Base, DeliveriesLocated, MessageOf
<1>2. CASE MessageOf(d) \in handled
  BY <1>1, <1>2
<1>3. CASE MessageOf(d) \notin handled
  <2>1. PICK j \in DOMAIN copies : Live(j) /\ copies[j].msg = MessageOf(d) /\ d.copy < j
    BY <1>3 DEF StoredAgain
  <2>2. CASE copies'[j].state # "deleted"
    BY <1>1, <2>1, <2>2 DEF Live
  <2>3. CASE copies'[j].state = "deleted"
    <3>1. ASSUME NEW c \in Listeners, pc[c] = "ack", NEW a \in hand[c], a.copy = j
          PROVE  FALSE
      <4>1. a \in returned
        BY <3>1 DEF AckReturned
      <4> QED BY <1>3, <2>1, <3>1, <4>1 DEF handled, MessageOf
    <3>2. PICK x \in Requeuers : /\ rpc[x] = "ack"
                                 /\ \E a \in rhand[x] :
                                      a.copy = j /\ copies' \in Deletions(copies, {a}, Dlq)
      BY <2>1, <2>3, <3>1, CopyEnds
    <3>3. PICK a \in rhand[x] : a.copy = j /\ copies' \in Deletions(copies, {a}, Dlq)
      BY <3>2
    <3>4. MessageOf(a) = MessageOf(d)
      BY <2>1, <3>3 DEF MessageOf
    <3>5. PICK k \in DOMAIN copies : Live(k) /\ copies[k].msg = MessageOf(d) /\ j < k
      BY <1>3, <3>2, <3>3, <3>4 DEF StoredAgain
    <3>6. j \in Nat /\ k \in Nat /\ d.copy \in Nat
      <4>1. j \in Nat /\ k \in Nat
        BY CopiesType DEF Base
      <4>2. d \in Delivery
        BY DEF Base, TypeOK
      <4> QED BY <4>1, <4>2 DEF Delivery
    <3>7. a.copy # k /\ d.copy < k
      BY <2>1, <3>3, <3>5, <3>6
    <3>8. copies'[k].state # "deleted"
      BY <3>3, <3>5, <3>7, CopiesType, DeletedCopies DEF Base, Live
    <3> QED BY <1>1, <3>5, <3>7, <3>8 DEF Live
  <2> QED BY <2>2, <2>3
<1> QED BY <1>2, <1>3

LEMMA RInvStep ==
    ASSUME RInv, [Next]_vars
    PROVE  RInv'
<1> USE DEF RInv
<1>1. Base'
  BY BaseStep
<1>2. AckReturned'
  <2> SUFFICES ASSUME NEW c \in Listeners
               PROVE  /\ \A d, e \in hand'[c] : d = e
                      /\ pc'[c] = "ack" => hand'[c] \subseteq returned'
    BY DEF AckReturned
  <2>1. \A d, e \in hand'[c] : d = e
    BY AckStep DEF AckReturned
  <2>2. ASSUME pc'[c] = "ack"
        PROVE  hand'[c] \subseteq returned'
    <3>1. CASE pc[c] = "ack"
      BY <2>2, <3>1, AckStep, ReturnedKept DEF AckReturned
    <3>2. ASSUME NEW d \in hand[c], CallbackReturns(c, d)
          PROVE  hand'[c] \subseteq returned'
      BY <3>2 DEF CallbackReturns, AckReturned
    <3> QED BY <2>2, <3>1, <3>2, AckStep
  <2> QED BY <2>1, <2>2
<1>3. StoredAgain'
  <2> SUFFICES ASSUME NEW r \in Requeuers, rpc'[r] = "ack", NEW d \in rhand'[r]
               PROVE  \/ MessageOf(d)' \in handled'
                      \/ \E j \in DOMAIN copies' :
                            Live(j)' /\ copies'[j].msg = MessageOf(d)' /\ d.copy < j
    BY DEF StoredAgain
  <2>1. CASE rpc[r] = "ack" /\ rhand'[r] = rhand[r]
    BY <2>1, StoredAgainStep
  <2>2. ASSUME RequeuePublish(r, d), d \in rbatch[r]
        PROVE  \E j \in DOMAIN copies' :
                  Live(j)' /\ copies'[j].msg = MessageOf(d)' /\ d.copy < j
    <3>1. /\ copies \in Seq(CopyOf(Messages, PubSubQueues)) /\ Main \in PubSubQueues
          /\ MessageOf(d) \in Messages /\ d.copy \in DOMAIN copies
      BY <2>2, CopiesType, QueueNumbers DEF Base, DeliveriesLocated, MessageOf
    <3>2. copies' = Added(copies, MessageOf(d), Main)
      BY <2>2 DEF RequeuePublish, Added
    <3> HIDE DEF RInv
    <3>3. /\ Len(copies) \in Nat /\ Len(copies) + 1 \in DOMAIN copies'
          /\ \A i \in DOMAIN copies : i \in 1 .. Len(copies) /\ copies'[i] = copies[i]
          /\ copies'[Len(copies) + 1] = NewCopyOn(MessageOf(d), Main)
      BY <3>1, <3>2, CopyAdded
    <3>4. d.copy < Len(copies) + 1 /\ MessageOf(d)' = MessageOf(d)
      BY <3>1, <3>3 DEF MessageOf
    <3>5. copies'[Len(copies) + 1].msg = MessageOf(d)
          /\ copies'[Len(copies) + 1].state # "deleted"
      BY <3>3 DEF NewCopyOn
    <3> QED BY <3>3, <3>4, <3>5 DEF Live
  <2> QED BY <2>1, <2>2, RequeuerStays
<1> QED BY <1>1, <1>2, <1>3

-----------------------------------------------------------------------------
\* The contract's steps: what each action does to published, queued, dead and handled.

Unseen == UNCHANGED <<published, queued, dead, handled>>

LEMMA ContractState ==
    /\ published = Stored(copies) /\ published' = Stored(copies')
    /\ dead = MsgsIn(copies, Dlq) /\ dead' = MsgsIn(copies', Dlq)
    /\ \A m : m \in queued <=> \E s \in SubscriptionPaths : m \in MsgsIn(copies, s)
    /\ \A m : m \in queued' <=> \E s \in SubscriptionPaths : m \in MsgsIn(copies', s)
<1>1. /\ published = Stored(copies) /\ published' = Stored(copies')
      /\ dead = MsgsIn(copies, Dlq) /\ dead' = MsgsIn(copies', Dlq)
  BY DEF published, dead, Stored, MsgsIn
<1>2. \A m : m \in queued <=> \E s \in SubscriptionPaths : m \in MsgsIn(copies, s)
  BY DEF queued, MsgsIn
<1>3. \A m : m \in queued' <=> \E s \in SubscriptionPaths : m \in MsgsIn(copies', s)
  BY DEF queued, MsgsIn
<1> QED BY <1>1, <1>2, <1>3

LEMMA QueuedSame ==
    ASSUME \A s \in SubscriptionPaths : MsgsIn(copies', s) = MsgsIn(copies, s)
    PROVE  queued' = queued
<1>1. \A m : m \in queued' <=> m \in queued
  BY ContractState
<1> QED BY <1>1

LEMMA HandledSame ==
    ASSUME Base, [Next]_vars, returned' = returned
    PROVE  handled' = handled
<1>1. \A d \in returned : MessageOf(d)' = MessageOf(d)
  BY KeptStep DEF CopiesKept, Evolves, Base, DeliveriesLocated, MessageOf
<1> QED BY <1>1 DEF handled

\* Steps that leave each copy its message, and each message where it was.
LEMMA QuietStep ==
    ASSUME Base, [Next]_vars, returned' = returned, Stored(copies') = Stored(copies),
           \A s : MsgsIn(copies', s) = MsgsIn(copies, s)
    PROVE  Unseen
<1>1. queued' = queued
  BY QueuedSame
<1>2. published' = published /\ dead' = dead
  BY ContractState
<1> QED BY <1>1, <1>2, HandledSame DEF Unseen

LEMMA LocalStep ==
    ASSUME Base, [Next]_vars, copies' = copies, returned' = returned
    PROVE  Unseen
BY QuietStep

LEMMA ExpiryMaps ==
    ASSUME Base, [Next]_vars, NEW i \in DOMAIN copies, LeaseExpires(i)
    PROVE  Unseen
<1>1. copies' = Shown(copies, i) /\ copies[i].state # "deleted" /\ returned' = returned
  BY DEF LeaseExpires, Shown
<1>2. copies \in Seq(CopyOf(Messages, PubSubQueues))
  BY CopiesType DEF Base
<1>3. \A s : MsgsIn(Shown(copies, i), s) = MsgsIn(copies, s)
  BY <1>1, <1>2, MsgsShown
<1>4. DOMAIN copies' = DOMAIN copies /\ \A j \in DOMAIN copies : copies'[j].msg = copies[j].msg
  BY <1>1, <1>2, CopyShown
<1>5. Stored(copies') = Stored(copies)
  BY <1>4, StoredSame
<1> QED BY <1>1, <1>3, <1>5, QuietStep

LEMMA DeliveryMaps ==
    ASSUME Base, [Next]_vars, NEW s, NEW S, S \subseteq Deliverable(s),
           copies' = Leased(copies, S), returned' = returned
    PROVE  Unseen
<1>1. \A i \in S : copies[i].state # "deleted"
  BY DEF Deliverable, VisibleIn, CopiesIn
<1>2. copies \in Seq(CopyOf(Messages, PubSubQueues))
  BY CopiesType DEF Base
<1>3. \A t : MsgsIn(Leased(copies, S), t) = MsgsIn(copies, t)
  BY <1>1, <1>2, MsgsLeased
<1>4. DOMAIN copies' = DOMAIN copies /\ \A j \in DOMAIN copies : copies'[j].msg = copies[j].msg
  BY <1>2, LeasedCopies
<1>5. Stored(copies') = Stored(copies)
  BY <1>4, StoredSame
<1> QED BY <1>3, <1>5, QuietStep

LEMMA GivenBackMaps ==
    ASSUME Base, [Next]_vars, NEW d, NEW s, copies' \in {copies, GivenBack(copies, d, s)},
           returned' = returned
    PROVE  Unseen
<1>1. CASE copies' = copies
  BY <1>1, LocalStep
<1>2. CASE copies' = GivenBack(copies, d, s)
  <2>1. copies \in Seq(CopyOf(Messages, PubSubQueues))
    BY CopiesType DEF Base
  <2>2. \A t : MsgsIn(GivenBack(copies, d, s), t) = MsgsIn(copies, t)
    BY <2>1, MsgsGivenBack
  <2>3. DOMAIN copies' = DOMAIN copies /\ \A j \in DOMAIN copies : copies'[j].msg = copies[j].msg
    BY <1>2, <2>1, GivenBackCopies
  <2>4. Stored(copies') = Stored(copies)
    BY <2>3, StoredSame
  <2> QED BY <1>2, <2>2, <2>4, QuietStep
<1> QED BY <1>1, <1>2

\* One more copy of a message is stored, on a subscription.
LEMMA AdditionMaps ==
    ASSUME Base, [Next]_vars, NEW m \in Messages, NEW s \in SubscriptionPaths,
           copies' = Append(copies, NewCopyOn(m, s)), returned' = returned
    PROVE  /\ published' = published \cup {m} /\ queued' = queued \cup {m}
           /\ dead' = dead /\ handled' = handled
<1>1. /\ copies' = Added(copies, m, s) /\ s \in PubSubQueues /\ s # Dlq
      /\ copies \in Seq(CopyOf(Messages, PubSubQueues))
  BY AddedOn, QueueNumbers, CopiesType DEF Base
<1>2. \A t : MsgsIn(Added(copies, m, s), t) =
               IF t = s THEN MsgsIn(copies, t) \cup {m} ELSE MsgsIn(copies, t)
  BY <1>1, MsgsAdded
<1>3. \A t : MsgsIn(copies', t) = IF t = s THEN MsgsIn(copies, t) \cup {m} ELSE MsgsIn(copies, t)
  BY <1>1, <1>2
<1>4. queued' = queued \cup {m}
  <2>1. \A n : n \in queued' <=> n \in queued \/ n = m
    BY <1>3, ContractState
  <2> QED BY <2>1
<1>5. Stored(copies') = Stored(copies) \cup {m}
  <2>1. /\ Len(copies) + 1 \in DOMAIN copies'
        /\ \A j \in DOMAIN copies' : j \in DOMAIN copies \/ j = Len(copies) + 1
        /\ \A j \in DOMAIN copies : j \in DOMAIN copies' /\ copies'[j] = copies[j]
        /\ copies'[Len(copies) + 1] = NewCopyOn(m, s)
    BY <1>1, CopyAdded
  <2>2. copies'[Len(copies) + 1].msg = m
    BY <2>1 DEF NewCopyOn
  <2> QED BY <2>1, <2>2 DEF Stored
<1>6. dead' = dead
  BY <1>1, <1>3, ContractState
<1> QED BY <1>4, <1>5, <1>6, ContractState, HandledSame

LEMMA PublishMaps ==
    ASSUME Base, [Next]_vars, NEW m \in Messages, Publish(m)
    PROVE  Contract!Publish(m)
<1>1. PICK s \in 1 .. NumSubscriptions : copies' = Append(copies, NewCopyOn(m, s))
  BY DEF Publish
<1>2. s \in SubscriptionPaths /\ returned' = returned
  BY QueueNumbers DEF Publish, history
<1> QED BY <1>1, <1>2, AdditionMaps DEF Contract!Publish

LEMMA RequeueMaps ==
    ASSUME Base, [Next]_vars, NEW r \in Requeuers, NEW d \in rbatch[r],
           copies' = Append(copies, NewCopyOn(MessageOf(d), Main)), returned' = returned
    PROVE  \E again \in SUBSET Messages : Contract!Requeue(again)
<1> DEFINE m == MessageOf(d)
<1>1. m \in Messages /\ m \in Stored(copies)
  BY CopiesType DEF Base, DeliveriesLocated, MessageOf, Stored
<1> HIDE DEF m
<1>2. copies' = Append(copies, NewCopyOn(m, Main)) /\ Main \in SubscriptionPaths
  BY QueueNumbers DEF m
<1>3. /\ published' = published \cup {m} /\ queued' = queued \cup {m}
      /\ dead' = dead /\ handled' = handled
  BY <1>1, <1>2, AdditionMaps
<1>4. published' = published /\ {m} \subseteq published
  BY <1>1, <1>3, ContractState
<1>5. dead' = dead \ {} /\ {} \in SUBSET {m}
  BY <1>3
<1>6. Contract!Requeue({m})
  BY <1>3, <1>4, <1>5 DEF Contract!Requeue
<1> QED BY <1>1, <1>6

LEMMA DeadLetterMaps ==
    ASSUME Base, [Next]_vars, NEW i \in DOMAIN copies, DeadLetter(i)
    PROVE  Contract!DeadLetter(copies[i].msg)
<1> DEFINE m == copies[i].msg
<1>1. PICK s \in SubscriptionPaths : i \in CopiesIn(copies, s)
  BY DEF DeadLetter, VisibleIn
<1>2. /\ copies' = WithQueue(copies, i, Dlq) /\ returned' = returned
      /\ Dlq \in PubSubQueues /\ s # Dlq
      /\ copies \in Seq(CopyOf(Messages, PubSubQueues))
  BY QueueNumbers, CopiesType DEF DeadLetter, WithQueue, history, Base
<1>3. /\ MsgsIn(WithQueue(copies, i, Dlq), Dlq) = MsgsIn(copies, Dlq) \cup {copies[i].msg}
      /\ MsgsIn(WithQueue(copies, i, Dlq), s) \subseteq MsgsIn(copies, s)
      /\ MsgsIn(copies, s) \ {copies[i].msg} \subseteq MsgsIn(WithQueue(copies, i, Dlq), s)
      /\ \A u : u # s /\ u # Dlq => MsgsIn(WithQueue(copies, i, Dlq), u) = MsgsIn(copies, u)
  BY <1>1, <1>2, MsgsMoved
<1>4. /\ MsgsIn(copies', Dlq) = MsgsIn(copies, Dlq) \cup {m}
      /\ MsgsIn(copies', s) \subseteq MsgsIn(copies, s)
      /\ MsgsIn(copies, s) \ {m} \subseteq MsgsIn(copies', s)
      /\ \A u : u # s /\ u # Dlq => MsgsIn(copies', u) = MsgsIn(copies, u)
  BY <1>2, <1>3
<1>5. DOMAIN copies' = DOMAIN copies /\ \A j \in DOMAIN copies : copies'[j].msg = copies[j].msg
  BY <1>2, CopyMoved
<1>6. published' = published /\ m \in published
  <2>1. m \in Stored(copies)
    BY DEF Stored
  <2>2. Stored(copies') = Stored(copies)
    BY <1>5, StoredSame
  <2> QED BY <2>1, <2>2, ContractState
<1> HIDE DEF m
<1>7. dead' = dead \cup {m} /\ handled' = handled
  BY <1>2, <1>4, ContractState, HandledSame
<1>8. queued' \in {queued, queued \ {m}}
  <2>1. \A t \in SubscriptionPaths : /\ MsgsIn(copies', t) \subseteq MsgsIn(copies, t)
                                     /\ MsgsIn(copies, t) \ {m} \subseteq MsgsIn(copies', t)
    BY <1>4, QueueNumbers
  <2>2. queued' \subseteq queued
    BY <2>1, ContractState
  <2>3. queued \ {m} \subseteq queued'
    <3> SUFFICES ASSUME NEW n \in queued, n # m
                 PROVE  n \in queued'
      OBVIOUS
    <3>1. PICK t \in SubscriptionPaths : n \in MsgsIn(copies, t)
      BY ContractState
    <3>2. n \in MsgsIn(copies', t)
      BY <2>1, <3>1
    <3> QED BY <3>2, ContractState
  <2> QED BY <2>2, <2>3
<1>9. Contract!DeadLetter(m)
  BY <1>6, <1>7, <1>8 DEF Contract!DeadLetter
<1> QED BY <1>9 DEF m

LEMMA ReturnMaps ==
    ASSUME Base, [Next]_vars, NEW c \in Listeners, NEW d \in hand[c], CallbackReturns(c, d)
    PROVE  Contract!Handle(MessageOf(d))
<1>1. copies' = copies /\ returned' = returned \cup {d}
  BY DEF CallbackReturns
<1>2. handled' = handled \cup {MessageOf(d)}
  BY <1>1 DEF handled, MessageOf
<1>3. d \in Outstanding(c)
  BY DEF Outstanding
<1>4. MessageOf(d) \in published
  BY <1>3 DEF MessageOf, published, Base, DeliveriesLocated
<1>5. published' = published /\ dead' = dead
  BY <1>1 DEF published, dead, CopiesIn
<1>6. queued' = queued
  BY <1>1, QueuedSame
<1> QED BY <1>2, <1>4, <1>5, <1>6 DEF Contract!Handle

\* Acknowledging a delivery takes at most its message from one queue.
LEMMA AcknowledgedMaps ==
    ASSUME Base, [Next]_vars, NEW d, d.copy \in DOMAIN copies, NEW q, copies' \in Acknowledged(d, q),
           returned' = returned
    PROVE  /\ published' = published /\ handled' = handled
           /\ \A t : t # q => MsgsIn(copies', t) = MsgsIn(copies, t)
           /\ MsgsIn(copies', q) \subseteq MsgsIn(copies, q)
           /\ \A m \in MsgsIn(copies, q) \ MsgsIn(copies', q) : MessageOf(d) = m
<1>1. CASE copies' = copies
  BY <1>1, ContractState, HandledSame
<1>2. CASE copies' \in Deletions(copies, {d}, q)
  <2>1. copies \in Seq(CopyOf(Messages, PubSubQueues))
    BY CopiesType DEF Base
  <2>2. DOMAIN copies' = DOMAIN copies /\ \A i \in DOMAIN copies : copies'[i].msg = copies[i].msg
    BY <1>2, <2>1, DeletedCopies
  <2>3. published' = published
    BY <2>2, StoredSame, ContractState
  <2>4. /\ \A t : t # q => MsgsIn(copies', t) = MsgsIn(copies, t)
        /\ MsgsIn(copies', q) \subseteq MsgsIn(copies, q)
        /\ \A m \in MsgsIn(copies, q) \ MsgsIn(copies', q) :
              \E e \in {d} : e.copy \in CopiesIn(copies, q) /\ copies[e.copy].msg = m
    BY <1>2, <2>1, MsgsDeleted
  <2> QED BY <2>3, <2>4, HandledSame DEF MessageOf
<1> QED BY <1>1, <1>2, AcknowledgedIs

LEMMA AckMaps ==
    ASSUME RInv, [Next]_vars, NEW c \in Listeners, NEW d \in hand[c], AckMessage(c, d)
    PROVE  \E m \in Messages : Contract!Settle(m)
<1> DEFINE m == MessageOf(d)
           q == d.subscription
<1>1. d \in Outstanding(c) /\ copies' \in Acknowledged(d, q) /\ returned' = returned
  BY DEF Outstanding, AckMessage, history
<1>2. d.copy \in DOMAIN copies /\ q \in SubscriptionPaths
  BY <1>1 DEF RInv, Base, DeliveriesLocated
<1>3. m \in Messages /\ m \in handled
  <2>1. d \in returned
    BY DEF RInv, AckReturned, AckMessage
  <2> QED BY <1>2, <2>1, CopiesType DEF RInv, Base, MessageOf, handled
<1> HIDE DEF q
<1>4. /\ published' = published /\ handled' = handled
      /\ \A t : t # q => MsgsIn(copies', t) = MsgsIn(copies, t)
      /\ MsgsIn(copies', q) \subseteq MsgsIn(copies, q)
      /\ \A n \in MsgsIn(copies, q) \ MsgsIn(copies', q) : MessageOf(d) = n
  BY <1>1, <1>2, AcknowledgedMaps DEF RInv
<1> HIDE DEF m
<1>5. \A n \in MsgsIn(copies, q) \ MsgsIn(copies', q) : n = m
  BY <1>4 DEF m
<1>6. dead' = dead
  BY <1>2, <1>4, ContractState, QueueNumbers
<1>7. queued' \in {queued, queued \ {m}}
  <2>1. \A t \in SubscriptionPaths : /\ MsgsIn(copies', t) \subseteq MsgsIn(copies, t)
                                     /\ MsgsIn(copies, t) \ {m} \subseteq MsgsIn(copies', t)
    BY <1>4, <1>5
  <2>2. queued' \subseteq queued
    BY <2>1, ContractState
  <2>3. queued \ {m} \subseteq queued'
    <3> SUFFICES ASSUME NEW n \in queued, n # m
                 PROVE  n \in queued'
      OBVIOUS
    <3>1. PICK t \in SubscriptionPaths : n \in MsgsIn(copies, t)
      BY ContractState
    <3>2. n \in MsgsIn(copies', t)
      BY <2>1, <3>1
    <3> QED BY <3>2, ContractState
  <2> QED BY <2>2, <2>3
<1>8. Contract!Settle(m)
  BY <1>3, <1>4, <1>6, <1>7 DEF Contract!Settle
<1> QED BY <1>3, <1>8

LEMMA RequeueAckMaps ==
    ASSUME RInv, [Next]_vars, NEW r \in Requeuers, NEW d \in rhand[r], rpc[r] = "ack",
           copies' \in Acknowledged(d, Dlq), returned' = returned
    PROVE  \E gone \in SUBSET Messages : Contract!Discard(gone)
<1> DEFINE gone == dead \ dead'
<1>1. d.copy \in DOMAIN copies
  BY DEF RInv, Base, DeliveriesLocated
<1>2. /\ published' = published /\ handled' = handled
      /\ \A t : t # Dlq => MsgsIn(copies', t) = MsgsIn(copies, t)
      /\ MsgsIn(copies', Dlq) \subseteq MsgsIn(copies, Dlq)
      /\ \A m \in MsgsIn(copies, Dlq) \ MsgsIn(copies', Dlq) : MessageOf(d) = m
  BY <1>1, AcknowledgedMaps DEF RInv
<1>3. queued' = queued
  <2>1. \A t \in SubscriptionPaths : MsgsIn(copies', t) = MsgsIn(copies, t)
    BY <1>2, QueueNumbers
  <2> QED BY <2>1, QueuedSame
<1>4. dead' \subseteq dead /\ \A m \in gone : MessageOf(d) = m
  BY <1>2, ContractState
<1>5. ASSUME NEW m \in gone
      PROVE  m \in queued \cup handled /\ m \in Messages
  <2>1. MessageOf(d) = m
    BY <1>4
  <2>2. m \in Messages
    BY <1>1, <2>1, CopiesType DEF RInv, Base, MessageOf
  <2>3. CASE m \in handled
    BY <2>2, <2>3
  <2>4. CASE m \notin handled
    <3>1. PICK j \in DOMAIN copies : Live(j) /\ copies[j].msg = m /\ d.copy < j
      BY <2>1, <2>4 DEF RInv, StoredAgain
    <3>2. CASE copies[j].queue \in SubscriptionPaths
      <4>1. j \in CopiesIn(copies, copies[j].queue)
        BY <3>1 DEF CopiesIn, Live
      <4>2. m \in MsgsIn(copies, copies[j].queue)
        BY <3>1, <4>1 DEF MsgsIn
      <4> QED BY <2>2, <3>2, <4>2, ContractState
    <3>3. CASE copies[j].queue = Dlq
      <4>1. d.copy # j
        <5>1. j \in Nat /\ d.copy \in Nat
          BY <1>1, CopiesType DEF RInv, Base
        <5> QED BY <3>1, <5>1
      <4>2. copies \in Seq(CopyOf(Messages, PubSubQueues))
        BY CopiesType DEF RInv, Base
      <4>3. /\ j \in DOMAIN copies' /\ copies'[j].state = copies[j].state
            /\ copies'[j].queue = copies[j].queue /\ copies'[j].msg = copies[j].msg
        <5>1. CASE copies' = copies
          BY <5>1
        <5>2. CASE copies' \in Deletions(copies, {d}, Dlq)
          BY <4>1, <4>2, <5>2, DeletedCopies
        <5> QED BY <5>1, <5>2, AcknowledgedIs
      <4>4. j \in CopiesIn(copies', Dlq)
        BY <3>1, <3>3, <4>3 DEF CopiesIn, Live
      <4>5. m \in MsgsIn(copies', Dlq)
        BY <3>1, <4>3, <4>4 DEF MsgsIn
      <4> QED BY <1>5, <4>5, ContractState
    <3>4. copies[j].queue \in SubscriptionPaths \/ copies[j].queue = Dlq
      <4>1. copies[j].queue \in PubSubQueues
        BY CopiesType DEF RInv, Base
      <4> QED BY <4>1, QueueNumbers DEF PubSubQueues, SubscriptionPaths, Dlq
    <3> QED BY <3>2, <3>3, <3>4
  <2> QED BY <2>3, <2>4
<1>6. dead' = dead \ gone
  BY <1>4
<1> HIDE DEF gone
<1>7. Contract!Discard(gone) /\ gone \in SUBSET Messages
  BY <1>2, <1>3, <1>5, <1>6 DEF Contract!Discard
<1> QED BY <1>7

LEMMA StepMaps ==
    ASSUME RInv, [Next]_vars
    PROVE  Contract!Next \/ Unseen
<1>0. Base
  BY DEF RInv
<1>1. ASSUME NEW m \in Messages, Publish(m)
      PROVE  Contract!Next
  BY <1>0, <1>1, PublishMaps DEF Contract!Next
<1>2. ASSUME NEW i \in DOMAIN copies, LeaseExpires(i)
      PROVE  Unseen
  BY <1>0, <1>2, ExpiryMaps
<1>3. ASSUME NEW i \in DOMAIN copies, DeadLetter(i)
      PROVE  Contract!Next
  BY <1>0, <1>3, DeadLetterMaps, CopiesType DEF Base, Contract!Next
<1>4. ASSUME NEW c \in Listeners, NEW s \in SubscriptionPaths, Schedule(c, s)
      PROVE  Unseen
  <2>1. PICK i \in Deliverable(s) : copies' = Leased(copies, {i})
    BY <1>4 DEF Schedule
  <2>2. {i} \subseteq Deliverable(s) /\ returned' = returned
    BY <1>4 DEF Schedule, history
  <2> QED BY <1>0, <2>1, <2>2, DeliveryMaps
<1>5. ASSUME NEW c \in Listeners, NEW d \in hand[c], CallbackReturns(c, d)
      PROVE  Contract!Next
  <2>1. d \in Outstanding(c)
    BY DEF Outstanding
  <2>2. MessageOf(d) \in Messages
    BY <1>0, <2>1, CopiesType DEF Base, DeliveriesLocated, MessageOf
  <2> QED BY <1>0, <1>5, <2>2, ReturnMaps DEF Contract!Next
<1>6. ASSUME NEW c \in Listeners, NEW d \in hand[c], AckMessage(c, d)
      PROVE  Contract!Next
  BY <1>6, AckMaps DEF Contract!Next
<1>7. ASSUME NEW c \in Listeners, NEW d \in hand[c], CallbackRaises(c, d) \/ AckDropped(c, d)
      PROVE  Unseen
  <2>1. copies' \in {copies, GivenBack(copies, d, d.subscription)} /\ returned' = returned
    BY <1>7 DEF CallbackRaises, AckDropped, history
  <2> QED BY <1>0, <2>1, GivenBackMaps
<1>8. ASSUME NEW c \in Listeners, TakeMessage(c)
      PROVE  Unseen
  <2>1. /\ copies' \in {copies, GivenBack(copies, Head(workQueue[c]),
                                          Head(workQueue[c]).subscription)}
        /\ returned' = returned
    BY <1>8 DEF TakeMessage, history
  <2> QED BY <1>0, <2>1, GivenBackMaps
<1>9. ASSUME NEW c \in Listeners, \/ Subscribe(c) \/ CancelFutures(c) \/ Drained(c)
                                  \/ StreamsEnd(c) \/ SetShutdown(c) \/ Crash(c) \/ Restart(c)
      PROVE  Unseen
  BY <1>0, <1>9, LocalStep
     DEF Subscribe, CancelFutures, Drained, StreamsEnd, SetShutdown, Crash, Restart, history
<1>10. ASSUME NEW r \in Requeuers, RequeuePull(r)
       PROVE  Unseen
  <2>1. PICK S \in SUBSET Deliverable(Dlq) : copies' = Leased(copies, S)
    BY <1>10 DEF RequeuePull, RequeueFetch
  <2>2. S \subseteq Deliverable(Dlq) /\ returned' = returned
    BY <1>10 DEF RequeuePull, RequeueFetch, history
  <2> QED BY <1>0, <2>1, <2>2, DeliveryMaps
<1>11. ASSUME NEW r \in Requeuers, NEW d \in rbatch[r], RequeuePublish(r, d)
       PROVE  Contract!Next
  <2>1. copies' = Append(copies, NewCopyOn(MessageOf(d), Main)) /\ returned' = returned
    BY <1>11 DEF RequeuePublish, history
  <2> QED BY <1>0, <2>1, RequeueMaps DEF Contract!Next
<1>12. ASSUME NEW r \in Requeuers, NEW d \in rbatch[r], RequeueAck(r, d)
       PROVE  Contract!Next
  BY <1>12, RequeueAckMaps DEF RequeueAck, history, Contract!Next
<1>13. ASSUME NEW r \in Requeuers, NEW d \in rbatch[r], RequeueFails(r, d)
       PROVE  Contract!Next \/ Unseen
  <2>1. /\ \/ copies' = copies
           \/ copies' = Append(copies, NewCopyOn(MessageOf(d), Main))
           \/ rpc[r] = "ack" /\ d \in rhand[r] /\ copies' \in Acknowledged(d, Dlq)
        /\ returned' = returned
    BY <1>13 DEF RequeueFails, history
  <2>2. CASE copies' = copies
    BY <1>0, <2>1, <2>2, LocalStep
  <2>3. CASE copies' = Append(copies, NewCopyOn(MessageOf(d), Main))
    BY <1>0, <2>1, <2>3, RequeueMaps DEF Contract!Next
  <2>4. CASE rpc[r] = "ack" /\ d \in rhand[r] /\ copies' \in Acknowledged(d, Dlq)
    BY <2>1, <2>4, RequeueAckMaps DEF Contract!Next
  <2> QED BY <2>1, <2>2, <2>3, <2>4
<1>14. ASSUME NEW r \in Requeuers, RequeueBatchDone(r) \/ StartRequeue(r) \/ RequeuerCrash(r)
       PROVE  Unseen
  BY <1>0, <1>14, LocalStep DEF RequeueBatchDone, StartRequeue, RequeuerCrash, history
<1>15. CASE UNCHANGED vars
  BY <1>0, <1>15, LocalStep DEF vars, history
<1> QED BY <1>1, <1>2, <1>3, <1>4, <1>5, <1>6, <1>7, <1>8, <1>9, <1>10, <1>11, <1>12, <1>13,
           <1>14, <1>15
        DEF Next, BrokerStep, MainStep, StreamStep, RequeuerStep

LEMMA InitMaps == Init => Contract!Init
BY DEF Init, Contract!Init, published, queued, dead, handled, CopiesIn

(***************************************************************************)
(* The backend implements the contract: nothing leaves a subscription that *)
(* was not handled, and nothing the dead-letter queue that was not handled *)
(* or published again, through stale ack ids, acknowledgements that go     *)
(* nowhere, shutdowns, crashes and requeuers on the same messages.         *)
(***************************************************************************)
THEOREM PubSubImplementsAtLeastOnce == Spec => ImplementsAtLeastOnce
<1>1. RInv /\ [Next]_vars => [Contract!Next]_(Contract!vars)
  BY StepMaps DEF Unseen, Contract!vars
<1>2. RInv /\ [Next]_vars => RInv'
  BY RInvStep
<1> QED BY <1>1, <1>2, InitMaps, RInvInit, PTL DEF Spec, ImplementsAtLeastOnce, Contract!Spec

\* The contract's own invariant, over the mapped variables.
LEMMA ContractKeepsMessages ==
    Contract!NoLoss /\ [Contract!Next]_(Contract!vars) => Contract!NoLoss'
BY DEF Contract!NoLoss, Contract!Next, Contract!vars, Contract!Publish, Contract!Handle,
       Contract!Settle, Contract!DeadLetter, Contract!Requeue, Contract!Discard

(***************************************************************************)
(* No message is lost that Pub/Sub stored: it was handled, or a copy of it *)
(* is on a subscription or the dead-letter queue, whatever a stopping      *)
(* listener leaves on its work queue.                                      *)
(***************************************************************************)
THEOREM PubSubNoMessageIsLost == Spec => []NoMessageLost
<1>1. Contract!Init => Contract!NoLoss
  BY DEF Contract!Init, Contract!NoLoss
<1>2. Contract!NoLoss => NoMessageLost
  BY DEF Contract!NoLoss, NoMessageLost
<1> QED BY <1>1, <1>2, ContractKeepsMessages, PubSubImplementsAtLeastOnce, PTL
        DEF ImplementsAtLeastOnce, Contract!Spec

-----------------------------------------------------------------------------
\* Why nothing is done twice while leases hold and nothing stops or fails.

OnTime == failures = 0 /\ stops = 0 /\ ~late

\* No streaming pull was ever cancelled; a listener without one holds nothing.
Streams ==
    \A c \in Listeners :
        /\ ~shutdown[c] /\ streaming[c] # "cancelled"
        /\ streaming[c] = "closed" => pc[c] = "idle" /\ Outstanding(c) = {}

\* d is the latest delivery of its copy, which is on subscription s.
Latest(d, s) == /\ copies[d.copy].state # "visible" /\ copies[d.copy].queue = s
                /\ d.receipt = copies[d.copy].receives

Acking(d) == \E c \in Listeners : pc[c] = "ack" /\ d \in hand[c]

\* Who holds a delivery holds the latest of its copy; what was returned is the latest of
\* its copy for good, because the copy is gone or is being acknowledged.
Order ==
    /\ \A c \in Listeners : \A d \in Outstanding(c) : Latest(d, d.subscription)
    /\ \A r \in Requeuers : \A d \in rbatch[r] : Latest(d, Dlq)
    /\ \A d \in returned : /\ d.receipt = copies[d.copy].receives
                           /\ d.subscription = copies[d.copy].queue
                           /\ copies[d.copy].state = "deleted" \/ Acking(d)

\* No two listeners hold the same copy, nor does one twice: a message that is given back
\* is in no other place.
HeldOnce ==
    /\ \A c \in Listeners : /\ NoDup(workQueue[c])
                            /\ \A d \in hand[c], e \in InQueue(workQueue[c]) : d.copy # e.copy
    /\ \A b, c \in Listeners : \A d \in Outstanding(b), e \in Outstanding(c) :
          d.copy = e.copy => b = c

\* The copy stays as it is, or it is deleted.
Untouched(j) == /\ copies'[j].receives = copies[j].receives
                /\ copies'[j].queue = copies[j].queue
                /\ copies'[j].state = copies[j].state \/ copies'[j].state = "deleted"

\* d is in hand, or was returned.
Watched(d) == \/ \E c \in Listeners : d \in Outstanding(c)
              \/ \E r \in Requeuers : d \in rbatch[r]
              \/ d \in returned

LEMMA HandOutstanding ==
    \A c \in Listeners : hand[c] \subseteq Outstanding(c) /\ InQueue(workQueue[c]) \subseteq Outstanding(c)
BY OutstandingAre

LEMMA WatchedLocated ==
    ASSUME Base
    PROVE  \A d : Watched(d) => d.copy \in DOMAIN copies
BY DEF Watched, Base, DeliveriesLocated

LEMMA WatchedNotVisible ==
    ASSUME Order
    PROVE  \A d : Watched(d) => copies[d.copy].state # "visible"
<1>1. ASSUME NEW c \in Listeners, NEW d \in Outstanding(c)
      PROVE  copies[d.copy].state # "visible"
  BY DEF Order, Latest
<1>2. ASSUME NEW d \in returned
      PROVE  copies[d.copy].state # "visible"
  BY <1>1, HandOutstanding DEF Order, Acking
<1>3. ASSUME NEW r \in Requeuers, NEW d \in rbatch[r]
      PROVE  copies[d.copy].state # "visible"
  BY DEF Order, Latest
<1> QED BY <1>1, <1>2, <1>3 DEF Watched

\* Only what is still held, or was returned, needs its copy to stay as it is.
LEMMA OrderKept ==
    ASSUME Order,
           \A d : Watched(d) /\ Watched(d)' => Untouched(d.copy),
           \A c \in Listeners : \A d \in Outstanding(c)' :
                d \in Outstanding(c) \/ Latest(d, d.subscription)',
           \A r \in Requeuers : \A d \in rbatch'[r] : d \in rbatch[r] \/ Latest(d, Dlq)',
           \A d \in returned' :
                \/ d \in returned
                \/ /\ Acking(d)' /\ d.receipt = copies'[d.copy].receives
                   /\ d.subscription = copies'[d.copy].queue,
           \A d \in returned : Acking(d) => Acking(d)' \/ copies'[d.copy].state = "deleted"
    PROVE  Order'
<1>1. \A c \in Listeners : \A d \in Outstanding(c)' : Latest(d, d.subscription)'
  <2> SUFFICES ASSUME NEW c \in Listeners, NEW d \in Outstanding(c)', d \in Outstanding(c)
               PROVE  Latest(d, d.subscription)'
    OBVIOUS
  <2>1. Watched(d) /\ Watched(d)'
    BY DEF Watched
  <2>2. Latest(d, d.subscription) /\ Untouched(d.copy)
    BY <2>1 DEF Order
  <2> QED BY <2>2 DEF Latest, Untouched
<1>2. \A r \in Requeuers : \A d \in rbatch'[r] : Latest(d, Dlq)'
  <2> SUFFICES ASSUME NEW r \in Requeuers, NEW d \in rbatch'[r], d \in rbatch[r]
               PROVE  Latest(d, Dlq)'
    OBVIOUS
  <2>1. Watched(d) /\ Watched(d)'
    BY DEF Watched
  <2>2. Latest(d, Dlq) /\ Untouched(d.copy)
    BY <2>1 DEF Order
  <2> QED BY <2>2 DEF Latest, Untouched
<1>3. \A d \in returned' : /\ d.receipt = copies'[d.copy].receives
                           /\ d.subscription = copies'[d.copy].queue
                           /\ copies'[d.copy].state = "deleted" \/ Acking(d)'
  <2> SUFFICES ASSUME NEW d \in returned', d \in returned
               PROVE  /\ d.receipt = copies'[d.copy].receives
                      /\ d.subscription = copies'[d.copy].queue
                      /\ copies'[d.copy].state = "deleted" \/ Acking(d)'
    OBVIOUS
  <2>1. Watched(d) /\ Watched(d)'
    BY DEF Watched
  <2>2. /\ Untouched(d.copy) /\ d.receipt = copies[d.copy].receives
        /\ d.subscription = copies[d.copy].queue
        /\ copies[d.copy].state = "deleted" \/ Acking(d)
    BY <2>1 DEF Order
  <2> QED BY <2>2 DEF Untouched
<1> QED BY <1>1, <1>2, <1>3 DEF Order

\* Steps that touch no copy, hand nothing out, and leave acknowledgements alone.
LEMMA OrderLocal ==
    ASSUME Order, copies' = copies, returned' = returned,
           \A c \in Listeners : Outstanding(c)' \subseteq Outstanding(c),
           \A c \in Listeners : pc[c] = "ack" => pc'[c] = "ack" /\ hand'[c] = hand[c],
           \A r \in Requeuers : rbatch'[r] \subseteq rbatch[r]
    PROVE  Order'
<1>1. \A d : Watched(d) => Untouched(d.copy)
  BY DEF Untouched
<1>2. \A d : Acking(d) => Acking(d)'
  BY DEF Acking
<1> QED BY <1>1, <1>2, OrderKept

\* Steps that touch no copy that is held or was returned, and leave hands alone.
LEMMA OrderElsewhere ==
    ASSUME Order, \A d : Watched(d) => Untouched(d.copy),
           hand' = hand, pc' = pc, returned' = returned,
           \A c \in Listeners : \A d \in Outstanding(c)' :
                d \in Outstanding(c) \/ Latest(d, d.subscription)',
           \A r \in Requeuers : \A d \in rbatch'[r] : d \in rbatch[r] \/ Latest(d, Dlq)'
    PROVE  Order'
<1>1. \A d : Acking(d) => Acking(d)'
  BY DEF Acking
<1> QED BY <1>1, OrderKept

\* Copies that are delivered were not watched; their deliveries are the latest.
LEMMA OrderDelivered ==
    ASSUME Base, Order, NEW s, NEW S, S \subseteq Deliverable(s), copies' = Leased(copies, S)
    PROVE  /\ \A d : Watched(d) => Untouched(d.copy)
           /\ \A i \in S : \A d : d = DeliveryFrom(s, i) => Latest(d, s)'
<1>1. copies \in Seq(CopyOf(Messages, PubSubQueues))
  BY CopiesType DEF Base
<1>2. \A j \in DOMAIN copies :
        /\ copies'[j].queue = copies[j].queue
        /\ copies'[j].receives = IF j \in S THEN copies[j].receives + 1 ELSE copies[j].receives
        /\ copies'[j].state = IF j \in S THEN "hidden" ELSE copies[j].state
  BY <1>1, LeasedCopies
<1>3. \A i \in S : i \in DOMAIN copies /\ copies[i].state = "visible" /\ copies[i].queue = s
  BY DEF Deliverable, VisibleIn, CopiesIn
<1>4. \A d : Watched(d) => d.copy \in DOMAIN copies /\ d.copy \notin S
  BY <1>3, WatchedNotVisible, WatchedLocated
<1>5. \A i \in S : /\ DeliveryFrom(s, i).copy = i
                   /\ DeliveryFrom(s, i).receipt = copies[i].receives + 1
  BY DEF DeliveryFrom
<1>6. \A i \in S : \A d : d = DeliveryFrom(s, i) => Latest(d, s)'
  <2> SUFFICES ASSUME NEW i \in S, NEW d, d = DeliveryFrom(s, i)
               PROVE  Latest(d, s)'
    OBVIOUS
  <2>1. d.copy = i /\ d.receipt = copies[i].receives + 1
    BY <1>5
  <2> QED BY <1>2, <1>3, <2>1 DEF Latest
<1> QED BY <1>2, <1>4, <1>6 DEF Untouched

LEMMA OrderAcknowledged ==
    ASSUME Base, NEW d, NEW s, copies' \in Acknowledged(d, s)
    PROVE  /\ \A e : Watched(e) => Untouched(e.copy)
           /\ d.copy \in DOMAIN copies /\ Latest(d, s) => copies'[d.copy].state = "deleted"
<1>1. copies \in Seq(CopyOf(Messages, PubSubQueues))
  BY CopiesType DEF Base
<1>2. \A e : Watched(e) => e.copy \in DOMAIN copies
  BY WatchedLocated
<1>3. CASE copies' \in Deletions(copies, {d}, s)
  <2>1. /\ \A j \in DOMAIN copies :
              /\ copies'[j].queue = copies[j].queue /\ copies'[j].receives = copies[j].receives
              /\ copies'[j].state = copies[j].state \/ copies'[j].state = "deleted"
        /\ \A e \in {d} : e.copy \in CopiesIn(copies, s) /\ e.receipt = copies[e.copy].receives
              => copies'[e.copy].state = "deleted"
    BY <1>1, <1>3, DeletedCopies
  <2> QED BY <1>2, <2>1 DEF Untouched, Latest, CopiesIn
<1>4. CASE copies' = copies /\ copies[d.copy].state = "visible"
  BY <1>4 DEF Untouched, Latest
<1> QED BY <1>3, <1>4, AcknowledgedIs

LEMMA OrderAdded ==
    ASSUME Base, NEW m \in Messages, NEW s \in PubSubQueues, copies' = Append(copies, NewCopyOn(m, s))
    PROVE  \A d : Watched(d) => Untouched(d.copy)
<1>1. copies \in Seq(CopyOf(Messages, PubSubQueues)) /\ copies' = Added(copies, m, s)
  BY CopiesType, AddedOn DEF Base
<1>2. \A j \in DOMAIN copies : copies'[j] = copies[j]
  BY <1>1, CopyAdded
<1>3. \A d : Watched(d) => d.copy \in DOMAIN copies
  BY WatchedLocated
<1> QED BY <1>2, <1>3 DEF Untouched

\* Nothing that was late, failed or stopped is undone.
LEMMA OnTimeBefore ==
    ASSUME Base, [Next]_vars, OnTime'
    PROVE  OnTime /\ ~Fail /\ \A c \in Listeners : ~SetShutdown(c)
<1>0. failures \in Nat /\ stops \in Nat
  BY BoundsAssumption DEF Base, TypeOK
<1>1. ~Fail
  BY <1>0 DEF OnTime, Fail
<1>2. \A c \in Listeners : ~SetShutdown(c)
  BY <1>0 DEF OnTime, SetShutdown
<1>3. ASSUME NEW c \in Listeners, MainStep(c) \/ StreamStep(c)
      PROVE  OnTime
  <2>1. late' = late /\ budgets' = budgets
    BY <1>3 DEF MainStep, Subscribe, TakeMessage, CancelFutures, Drained, CallbackReturns,
                CallbackRaises, AckMessage, StreamStep, Schedule, StreamsEnd, history
  <2> QED BY <2>1 DEF OnTime, budgets
<1>4. ASSUME NEW c \in Listeners, Crash(c) \/ Restart(c) \/ \E d \in hand[c] : AckDropped(c, d)
      PROVE  OnTime
  <2>1. (late => late') /\ budgets' = budgets
    BY <1>1, <1>4 DEF AckDropped, Crash, Restart, history
  <2> QED BY <2>1 DEF OnTime, budgets
<1>5. ASSUME NEW r \in Requeuers, \/ StartRequeue(r) \/ RequeuerStep(r) \/ RequeuerCrash(r)
                                  \/ \E d \in rbatch[r] : RequeueFails(r, d)
      PROVE  OnTime
  BY <1>1, <1>5 DEF StartRequeue, RequeuerStep, RequeuePull, RequeueFetch, RequeueBatchDone, RequeuePublish,
                    RequeueAck, RequeueFails, RequeuerCrash, OnTime, history, budgets
<1>6. ASSUME NEW m \in Messages, Publish(m)
      PROVE  OnTime
  BY <1>6 DEF Publish, OnTime, history, budgets
<1>7. ASSUME NEW i, LeaseExpires(i) \/ DeadLetter(i)
      PROVE  OnTime
  <2>1. failures' = failures /\ stops' = stops
    BY <1>7 DEF LeaseExpires, DeadLetter, budgets
  <2>2. CASE LeaseExpires(i)
    <3>1. late' = (late \/ \E d \in Held : d.copy = i)
      BY <2>2 DEF LeaseExpires
    <3> QED BY <2>1, <3>1 DEF OnTime
  <2>3. CASE DeadLetter(i)
    BY <2>1, <2>3 DEF DeadLetter, history, OnTime
  <2> QED BY <1>7, <2>2, <2>3
<1>8. ASSUME UNCHANGED vars
      PROVE  OnTime
  <2>1. failures' = failures /\ stops' = stops /\ (late => late')
    BY <1>8 DEF vars, history, budgets
  <2> QED BY <2>1 DEF OnTime
<1> QED BY <1>1, <1>2, <1>3, <1>4, <1>5, <1>6, <1>7, <1>8 DEF Next, BrokerStep

\* A delivery is given back by its only holder.
LEMMA OrderGivenBack ==
    ASSUME Base, Order, HeldOnce, NEW c \in Listeners, NEW d \in Outstanding(c),
           copies' = copies \/ copies' = GivenBack(copies, d, d.subscription),
           pc[c] # "ack", returned' = returned, rbatch' = rbatch,
           \A b \in Listeners : Outstanding(b)' \subseteq Outstanding(b),
           \A e \in Outstanding(c)' : e.copy # d.copy,
           \A b \in Listeners : pc[b] = "ack" => pc'[b] = "ack" /\ hand'[b] = hand[b]
    PROVE  Order'
<1>1. copies \in Seq(CopyOf(Messages, PubSubQueues))
  BY CopiesType DEF Base
<1>2. \A j \in DOMAIN copies :
        /\ copies'[j].queue = copies[j].queue /\ copies'[j].receives = copies[j].receives
        /\ \/ copies'[j].state = copies[j].state
           \/ j = d.copy /\ j \in CopiesIn(copies, d.subscription)
  <2>1. CASE copies' = copies
    BY <2>1
  <2>2. CASE copies' = GivenBack(copies, d, d.subscription)
    BY <1>1, <2>2, GivenBackCopies
  <2> QED BY <2>1, <2>2
<1>3. ASSUME NEW e, Watched(e), Watched(e)'
      PROVE  Untouched(e.copy)
  <2>1. e.copy \in DOMAIN copies
    BY <1>3, WatchedLocated
  <2>2. CASE ~(e.copy = d.copy /\ d.copy \in CopiesIn(copies, d.subscription))
    BY <1>2, <2>1, <2>2 DEF Untouched
  <2>3. ASSUME e.copy = d.copy, d.copy \in CopiesIn(copies, d.subscription)
        PROVE  FALSE
    <3>1. d.subscription \in SubscriptionPaths /\ copies[d.copy].queue = d.subscription
          /\ copies[d.copy].state # "deleted"
      BY <2>3 DEF Base, DeliveriesLocated, CopiesIn
    <3>2. ASSUME NEW b \in Listeners, e \in Outstanding(b)'
          PROVE  FALSE
      <4>1. e \in Outstanding(b)
        BY <3>2
      <4>2. b = c
        BY <2>3, <4>1 DEF HeldOnce
      <4> QED BY <2>3, <3>2, <4>2
    <3>3. ASSUME NEW r \in Requeuers, e \in rbatch[r]
          PROVE  FALSE
      BY <2>3, <3>1, <3>3, QueueNumbers DEF Order, Latest
    <3>4. ASSUME e \in returned
          PROVE  FALSE
      <4>1. PICK b \in Listeners : pc[b] = "ack" /\ e \in hand[b]
        BY <2>3, <3>1, <3>4 DEF Order, Acking
      <4>2. e \in Outstanding(b)
        BY <4>1, HandOutstanding
      <4>3. b = c
        BY <2>3, <4>2 DEF HeldOnce
      <4> QED BY <4>1, <4>3
    <3> QED BY <1>3, <3>2, <3>3, <3>4 DEF Watched
  <2> QED BY <2>2, <2>3
<1>4. \A e : Acking(e) => Acking(e)'
  BY DEF Acking
<1> QED BY <1>3, <1>4, OrderKept

LEMMA HeldIncludes ==
    ASSUME Streams
    PROVE  /\ \A c \in Listeners : Outstanding(c) \subseteq Held
           /\ \A r \in Requeuers : rbatch[r] \subseteq Held
<1>1. \A c \in Listeners : streaming[c] = "closed" => Outstanding(c) = {}
  BY DEF Streams
<1>2. \A c \in Listeners : streaming[c] # "closed" => Outstanding(c) \subseteq Held
  BY DEF Held
<1>3. \A r \in Requeuers : rbatch[r] \subseteq Held
  BY DEF Held
<1> QED BY <1>1, <1>2, <1>3

LEMMA OrderBroker ==
    ASSUME Base, Streams, Order, OnTime', NEW i \in DOMAIN copies, LeaseExpires(i) \/ DeadLetter(i)
    PROVE  Order'
<1>1. copies \in Seq(CopyOf(Messages, PubSubQueues)) /\ Dlq \in PubSubQueues
  BY CopiesType, QueueNumbers DEF Base
<1>2. /\ workQueue' = workQueue /\ hand' = hand /\ pc' = pc /\ returned' = returned
      /\ rbatch' = rbatch
  BY DEF LeaseExpires, DeadLetter, listenerVars, requeuerVars, history
<1>3. \A c \in Listeners : Outstanding(c)' = Outstanding(c)
  BY <1>2, OutstandingAre
<1>4. ASSUME \A d : Watched(d) => d.copy # i
      PROVE  \A d : Watched(d) => Untouched(d.copy)
  <2>1. CASE LeaseExpires(i)
    <3>1. copies' = Shown(copies, i)
      BY <2>1 DEF LeaseExpires, Shown
    <3>2. \A j \in DOMAIN copies : j # i => Untouched(j)
      BY <1>1, <3>1, CopyShown DEF Untouched
    <3> QED BY <1>4, <3>2, WatchedLocated
  <2>2. CASE DeadLetter(i)
    <3>1. copies' = WithQueue(copies, i, Dlq)
      BY <2>2 DEF DeadLetter, WithQueue
    <3>2. \A j \in DOMAIN copies : j # i => Untouched(j)
      BY <1>1, <3>1, CopyMoved DEF Untouched
    <3> QED BY <1>4, <3>2, WatchedLocated
  <2> QED BY <2>1, <2>2
<1>5. ASSUME NEW d, Watched(d), d.copy = i
      PROVE  FALSE
  <2>1. CASE DeadLetter(i)
    BY <1>5, <2>1, WatchedNotVisible DEF DeadLetter, VisibleIn
  <2>2. CASE LeaseExpires(i)
    <3>1. d \notin Held /\ copies[i].state # "deleted"
      BY <1>5, <2>2 DEF LeaseExpires, OnTime
    <3>2. d \in returned
      BY <1>5, <3>1, HeldIncludes DEF Watched
    <3>3. PICK c \in Listeners : d \in hand[c]
      BY <1>5, <3>1, <3>2 DEF Order, Acking
    <3> QED BY <3>1, <3>3, HeldIncludes, HandOutstanding
  <2> QED BY <2>1, <2>2
<1> QED BY <1>2, <1>3, <1>4, <1>5, OrderElsewhere

LEMMA OrderTaken ==
    ASSUME Base, Order, HeldOnce, NEW c \in Listeners, TakeMessage(c)
    PROVE  Order'
<1>1. returned' = returned /\ rbatch' = rbatch /\ pc[c] # "ack"
  BY DEF TakeMessage, requeuerVars, history
<1>2. PICK d \in InQueue(workQueue[c]) :
         /\ InQueue(workQueue'[c]) \subseteq InQueue(workQueue[c])
         /\ NoDup(workQueue[c]) => \A e \in InQueue(workQueue'[c]) : e.copy # d.copy
         /\ \/ hand'[c] = {d} /\ copies' = copies
            \/ hand'[c] = hand[c] /\ copies' \in {copies, GivenBack(copies, d, d.subscription)}
         /\ \A b \in Listeners \ {c} :
              workQueue'[b] = workQueue[b] /\ hand'[b] = hand[b] /\ pc'[b] = pc[b]
  BY TakeGives DEF Base
<1>3. \A b \in Listeners :
         InQueue(workQueue'[b]) \cup hand'[b] \subseteq InQueue(workQueue[b]) \cup hand[b]
  BY <1>2
<1>4. \A b \in Listeners : Outstanding(b)' \subseteq Outstanding(b)
  BY <1>3, OutstandingAre
<1>5. \A b \in Listeners : pc[b] = "ack" => pc'[b] = "ack" /\ hand'[b] = hand[b]
  BY <1>1, <1>2
<1>6. CASE copies' = copies
  BY <1>1, <1>4, <1>5, <1>6, OrderLocal
<1>7. CASE hand'[c] = hand[c] /\ copies' = GivenBack(copies, d, d.subscription)
  <2>1. d \in Outstanding(c)
    BY HandOutstanding
  <2>2. /\ \A e \in InQueue(workQueue'[c]) : e.copy # d.copy
        /\ \A e \in hand[c] : e.copy # d.copy
    BY <1>2 DEF HeldOnce
  <2>3. \A e \in Outstanding(c)' : e.copy # d.copy
    BY <1>7, <2>2, OutstandingAre
  <2> QED BY <1>1, <1>4, <1>5, <1>7, <2>1, <2>3, OrderGivenBack
<1> QED BY <1>2, <1>6, <1>7

LEMMA OrderScheduled ==
    ASSUME Base, Order, NEW c \in Listeners, NEW s \in SubscriptionPaths, Schedule(c, s)
    PROVE  Order'
<1>1. pc' = pc /\ returned' = returned /\ rbatch' = rbatch
  BY DEF Schedule, requeuerVars, history
<1>2. PICK i \in Deliverable(s) :
         /\ copies' = Leased(copies, {i})
         /\ Outstanding(c)' = Outstanding(c) \cup {DeliveryFrom(s, i)}
         /\ \A b \in Listeners \ {c} : Outstanding(b)' = Outstanding(b)
         /\ hand' = hand
  BY ScheduleGives DEF Base
<1>3. /\ \A d : Watched(d) => Untouched(d.copy)
      /\ \A d : d = DeliveryFrom(s, i) => Latest(d, s)'
  BY <1>2, OrderDelivered
<1>4. DeliveryFrom(s, i).subscription = s
  BY DEF DeliveryFrom
<1>5. ASSUME NEW b \in Listeners, NEW d \in Outstanding(b)'
      PROVE  d \in Outstanding(b) \/ Latest(d, d.subscription)'
  <2>1. d \in Outstanding(b) \/ d = DeliveryFrom(s, i)
    BY <1>2, <1>5
  <2>2. d = DeliveryFrom(s, i) => d.subscription = s /\ Latest(d, s)'
    BY <1>3, <1>4
  <2>3. d.subscription = s /\ Latest(d, s)' => Latest(d, d.subscription)'
    BY DEF Latest
  <2> QED BY <2>1, <2>2, <2>3
<1> QED BY <1>1, <1>2, <1>3, <1>5, OrderElsewhere

LEMMA OrderCallback ==
    ASSUME Base, AckReturned, Order, HeldOnce, NEW c \in Listeners, NEW d \in hand[c],
           CallbackReturns(c, d) \/ CallbackRaises(c, d) \/ AckMessage(c, d)
    PROVE  Order'
<1>0. /\ pc \in [Listeners -> {"idle", "get", "drain", "callback", "ack", "stopped", "dead"}]
      /\ hand \in [Listeners -> SUBSET Delivery]
  BY DEF Base, TypeOK
<1>1. CASE CallbackReturns(c, d)
  <2>1. /\ copies' = copies /\ workQueue' = workQueue /\ hand' = hand /\ rbatch' = rbatch
        /\ returned' = returned \cup {d} /\ pc'[c] = "ack"
        /\ \A b \in Listeners : pc[b] = "ack" => pc'[b] = "ack"
    BY <1>0, <1>1 DEF CallbackReturns, requeuerVars
  <2>2. \A e : Acking(e) => Acking(e)'
    BY <2>1 DEF Acking
  <2>3. Latest(d, d.subscription)
    BY HandOutstanding DEF Order
  <2>4. /\ Acking(d)' /\ d.receipt = copies'[d.copy].receives
        /\ d.subscription = copies'[d.copy].queue
    BY <2>1, <2>3 DEF Acking, Latest
  <2>5. \A e : Watched(e) => Untouched(e.copy)
    BY <2>1 DEF Untouched
  <2>6. \A b \in Listeners : Outstanding(b)' \subseteq Outstanding(b)
    BY <2>1, OutstandingAre
  <2> QED BY <2>1, <2>2, <2>4, <2>5, <2>6, OrderKept
<1>2. ASSUME CallbackRaises(c, d) \/ AckMessage(c, d)
      PROVE  \A b \in Listeners : Outstanding(b)' \subseteq Outstanding(b)
  <2>1. workQueue' = workQueue /\ hand' = [hand EXCEPT ![c] = {}]
    BY <1>2 DEF CallbackRaises, AckMessage
  <2>2. \A b \in Listeners : hand'[b] \subseteq hand[b]
    BY <1>0, <2>1
  <2> QED BY <2>1, <2>2, OutstandingAre
<1>3. CASE CallbackRaises(c, d)
  <2>1. /\ copies' = copies \/ copies' = GivenBack(copies, d, d.subscription)
        /\ pc[c] # "ack" /\ returned' = returned /\ rbatch' = rbatch /\ workQueue' = workQueue
        /\ hand' = [hand EXCEPT ![c] = {}] /\ pc' = [pc EXCEPT ![c] = Resume(c)]
    BY <1>3 DEF CallbackRaises, requeuerVars, history
  <2>2. \A b \in Listeners : pc[b] = "ack" => pc'[b] = "ack" /\ hand'[b] = hand[b]
    BY <1>0, <2>1
  <2>3. hand'[c] = {} /\ d \in Outstanding(c)
    BY <1>0, <2>1, HandOutstanding
  <2>4. \A e \in InQueue(workQueue[c]) : e.copy # d.copy
    BY DEF HeldOnce
  <2>5. \A e \in Outstanding(c)' : e.copy # d.copy
    BY <2>1, <2>3, <2>4, OutstandingAre
  <2> QED BY <1>2, <1>3, <2>1, <2>2, <2>3, <2>5, OrderGivenBack
<1>4. CASE AckMessage(c, d)
  <2>1. /\ copies' \in Acknowledged(d, d.subscription)
        /\ returned' = returned /\ rbatch' = rbatch
        /\ hand' = [hand EXCEPT ![c] = {}] /\ pc' = [pc EXCEPT ![c] = Resume(c)]
    BY <1>4 DEF AckMessage, requeuerVars, history
  <2>2. d.copy \in DOMAIN copies /\ Latest(d, d.subscription)
    BY HandOutstanding DEF Base, DeliveriesLocated, Order
  <2>3. (\A e : Watched(e) => Untouched(e.copy)) /\ copies'[d.copy].state = "deleted"
    BY <2>1, <2>2, OrderAcknowledged
  <2>4. \A e \in hand[c] : e = d
    BY DEF AckReturned
  <2>5. \A e : Acking(e) => Acking(e)' \/ copies'[e.copy].state = "deleted"
    BY <1>0, <2>1, <2>3, <2>4 DEF Acking
  <2> QED BY <1>2, <1>4, <2>1, <2>3, <2>5, OrderKept
<1> QED BY <1>1, <1>3, <1>4

LEMMA OrderRequeuer ==
    ASSUME Base, Order, NEW r \in Requeuers, RequeuerStep(r)
    PROVE  Order'
<1>0. rbatch \in [Requeuers -> SUBSET Delivery]
  BY DEF Base, TypeOK
<1>1. workQueue' = workQueue /\ hand' = hand /\ pc' = pc /\ returned' = returned
  BY DEF RequeuerStep, RequeuePull, RequeueFetch, RequeueBatchDone, RequeuePublish, RequeueAck, listenerVars, history
<1>2. \A c \in Listeners : Outstanding(c)' = Outstanding(c)
  BY <1>1, OutstandingAre
<1>3. CASE RequeuePull(r)
  <2>1. PICK S \in SUBSET Deliverable(Dlq) :
           /\ copies' = Leased(copies, S)
           /\ rbatch' = [rbatch EXCEPT ![r] = {DeliveryFrom(Dlq, i) : i \in S}]
    BY <1>3 DEF RequeuePull, RequeueFetch
  <2>2. /\ \A d : Watched(d) => Untouched(d.copy)
        /\ \A i \in S : \A d : d = DeliveryFrom(Dlq, i) => Latest(d, Dlq)'
    BY <2>1, OrderDelivered
  <2>3. ASSUME NEW x \in Requeuers, NEW d \in rbatch'[x]
        PROVE  d \in rbatch[x] \/ Latest(d, Dlq)'
    <3>1. d \in rbatch[x] \/ \E i \in S : d = DeliveryFrom(Dlq, i)
      BY <1>0, <2>1, <2>3
    <3> QED BY <2>2, <3>1
  <2> QED BY <1>1, <1>2, <2>2, <2>3, OrderElsewhere
<1>4. ASSUME NEW d \in rbatch[r], RequeuePublish(r, d)
      PROVE  Order'
  <2>1. copies' = Append(copies, NewCopyOn(MessageOf(d), Main)) /\ rbatch' = rbatch
    BY <1>4 DEF RequeuePublish
  <2>2. MessageOf(d) \in Messages /\ Main \in PubSubQueues
    BY CopiesType, QueueNumbers DEF Base, DeliveriesLocated, MessageOf
  <2>3. \A e : Watched(e) => Untouched(e.copy)
    BY <2>1, <2>2, OrderAdded
  <2> QED BY <1>1, <1>2, <2>1, <2>3, OrderElsewhere
<1>5. ASSUME NEW d \in rbatch[r], RequeueAck(r, d)
      PROVE  Order'
  <2>1. copies' \in Acknowledged(d, Dlq) /\ rbatch' = [rbatch EXCEPT ![r] = @ \ {d}]
    BY <1>5 DEF RequeueAck
  <2>2. \A e : Watched(e) => Untouched(e.copy)
    BY <2>1, OrderAcknowledged
  <2>3. \A x \in Requeuers : rbatch'[x] \subseteq rbatch[x]
    BY <1>0, <2>1
  <2> QED BY <1>1, <1>2, <2>2, <2>3, OrderElsewhere
<1>6. CASE RequeueBatchDone(r)
  <2>1. copies' = copies /\ rbatch' = rbatch
    BY <1>6 DEF RequeueBatchDone
  <2> QED BY <1>1, <1>2, <2>1, OrderLocal
<1> QED BY <1>3, <1>4, <1>5, <1>6 DEF RequeuerStep

LEMMA OrderStep ==
    ASSUME Base, AckReturned, Streams, Order, HeldOnce, [Next]_vars, OnTime'
    PROVE  Order'
<1>0. ~Fail /\ (\A c \in Listeners : ~SetShutdown(c))
      /\ pc \in [Listeners -> {"idle", "get", "drain", "callback", "ack", "stopped", "dead"}]
      /\ streaming \in [Listeners -> {"closed", "open", "cancelled"}]
  BY OnTimeBefore DEF Base, TypeOK
<1>1. ASSUME NEW m \in Messages, Publish(m)
      PROVE  Order'
  <2>1. PICK s \in 1 .. NumSubscriptions : copies' = Append(copies, NewCopyOn(m, s))
    BY <1>1 DEF Publish
  <2>2. /\ workQueue' = workQueue /\ hand' = hand /\ pc' = pc /\ returned' = returned
        /\ rbatch' = rbatch
    BY <1>1 DEF Publish, listenerVars, requeuerVars, history
  <2>3. \A d : Watched(d) => Untouched(d.copy)
    BY <2>1, OrderAdded, QueueNumbers
  <2>4. \A c \in Listeners : Outstanding(c)' = Outstanding(c)
    BY <2>2, OutstandingAre
  <2> QED BY <2>2, <2>3, <2>4, OrderElsewhere
<1>2. ASSUME copies' = copies, returned' = returned, rbatch' = rbatch, hand' = hand,
             workQueue' = workQueue, NEW c \in Listeners, NEW k,
             pc' = pc \/ (pc[c] # "ack" /\ pc' = [pc EXCEPT ![c] = k])
      PROVE  Order'
  <2>1. \A b \in Listeners : Outstanding(b)' = Outstanding(b)
    BY <1>2, OutstandingAre
  <2>2. \A b \in Listeners : pc[b] = "ack" => pc'[b] = "ack"
    BY <1>0, <1>2
  <2> QED BY <1>2, <2>1, <2>2, OrderLocal
<1>3. ASSUME NEW c \in Listeners, Subscribe(c) \/ CancelFutures(c) \/ Drained(c) \/ Restart(c)
                                   \/ StreamsEnd(c)
      PROVE  Order'
  BY <1>2, <1>3 DEF Subscribe, CancelFutures, Drained, Restart, StreamsEnd, requeuerVars, history
<1>4. ASSUME NEW c \in Listeners, NEW d \in hand[c], AckDropped(c, d)
      PROVE  FALSE
  BY <1>0, <1>4 DEF AckDropped, Streams
<1>5. ASSUME NEW c \in Listeners, Crash(c)
      PROVE  FALSE
  BY <1>0, <1>5 DEF Crash
<1>6. ASSUME NEW r \in Requeuers, RequeuerCrash(r) \/ \E d \in rbatch[r] : RequeueFails(r, d)
      PROVE  FALSE
  BY <1>0, <1>6 DEF RequeuerCrash, RequeueFails
<1>7. ASSUME copies' = copies, returned' = returned, rbatch' = rbatch, hand' = hand,
             workQueue' = workQueue, pc' = pc
      PROVE  Order'
  <2>1. \A b \in Listeners : Outstanding(b)' = Outstanding(b)
    BY <1>7, OutstandingAre
  <2> QED BY <1>7, <2>1, OrderLocal
<1>8. ASSUME NEW r \in Requeuers, StartRequeue(r)
      PROVE  Order'
  BY <1>7, <1>8 DEF StartRequeue, listenerVars, history
<1>9. CASE UNCHANGED vars
  BY <1>7, <1>9 DEF vars, listenerVars, requeuerVars, history
<1>10. ASSUME NEW c \in Listeners, MainStep(c) \/ StreamStep(c)
       PROVE  Order'
  BY <1>3, <1>10, OrderTaken, OrderCallback, OrderScheduled DEF MainStep, StreamStep
<1>11. ASSUME NEW i \in DOMAIN copies, LeaseExpires(i) \/ DeadLetter(i)
       PROVE  Order'
  BY <1>11, OrderBroker
<1> QED BY <1>0, <1>1, <1>3, <1>4, <1>5, <1>6, <1>8, <1>9, <1>10, <1>11, OrderRequeuer DEF Next, BrokerStep

\* A listener's streaming pulls stay open; they open before it holds anything.
LEMMA StreamsStep ==
    ASSUME Base, Streams, [Next]_vars, OnTime'
    PROVE  Streams'
<1>0. /\ ~Fail /\ \A c \in Listeners : ~SetShutdown(c)
      /\ pc \in [Listeners -> {"idle", "get", "drain", "callback", "ack", "stopped", "dead"}]
      /\ streaming \in [Listeners -> {"closed", "open", "cancelled"}]
      /\ shutdown \in [Listeners -> BOOLEAN]
  BY OnTimeBefore DEF Base, TypeOK
<1>1. \A b \in Listeners : ~shutdown[b] /\ streaming[b] # "cancelled"
  BY DEF Streams
<1> SUFFICES ASSUME NEW b \in Listeners
             PROVE  /\ ~shutdown'[b] /\ streaming'[b] # "cancelled"
                    /\ streaming'[b] = "closed" => pc'[b] = "idle" /\ Outstanding(b)' = {}
  BY DEF Streams
<1> DEFINE Goal == /\ ~shutdown'[b]
                   /\ streaming'[b] = streaming[b] \/ streaming'[b] = "open"
                   /\ streaming'[b] = "closed" => pc'[b] = pc[b] \/ pc[b] # "idle"
<1>2. ASSUME shutdown' = shutdown, streaming' = streaming, pc' = pc
      PROVE  Goal
  BY <1>1, <1>2
<1>3. ASSUME NEW c \in Listeners, NEW k, shutdown' = shutdown, streaming' = streaming,
             pc[c] # "idle", pc' = [pc EXCEPT ![c] = k]
      PROVE  Goal
  BY <1>0, <1>1, <1>3
<1>4. ASSUME NEW c \in Listeners, Subscribe(c)
      PROVE  Goal
  BY <1>0, <1>1, <1>4 DEF Subscribe
<1>5. ASSUME NEW c \in Listeners, Restart(c)
      PROVE  Goal
  BY <1>0, <1>1, <1>5 DEF Restart
<1> HIDE DEF Goal
<1>6. ASSUME NEW c \in Listeners, CancelFutures(c) \/ StreamsEnd(c) \/ Crash(c)
      PROVE  FALSE
  BY <1>0, <1>1, <1>6 DEF CancelFutures, StreamsEnd, Crash
<1>7. ASSUME NEW c \in Listeners, MainStep(c)
      PROVE  Goal
  <2>1. CASE TakeMessage(c) \/ Drained(c)
    BY <1>2, <1>3, <2>1 DEF TakeMessage, Drained
  <2>2. ASSUME NEW d \in hand[c], CallbackReturns(c, d) \/ CallbackRaises(c, d) \/ AckMessage(c, d)
        PROVE  Goal
    BY <1>3, <2>2 DEF CallbackReturns, CallbackRaises, AckMessage
  <2> QED BY <1>4, <1>6, <1>7, <2>1, <2>2 DEF MainStep
<1>8. ASSUME NEW c \in Listeners, StreamStep(c)
      PROVE  Goal
  BY <1>2, <1>6, <1>8 DEF StreamStep, Schedule
<1>9. ASSUME NEW c \in Listeners, NEW d \in hand[c], AckDropped(c, d)
      PROVE  Goal
  BY <1>3, <1>9 DEF AckDropped
<1>10. ASSUME NEW r \in Requeuers, \/ RequeuerStep(r) \/ StartRequeue(r) \/ RequeuerCrash(r)
                                   \/ \E d \in rbatch[r] : RequeueFails(r, d)
       PROVE  Goal
  BY <1>2, <1>10 DEF RequeuerStep, RequeuePull, RequeueFetch, RequeueBatchDone, RequeuePublish, RequeueAck,
              RequeueFails, StartRequeue, RequeuerCrash, listenerVars
<1>11. ASSUME NEW m \in Messages, Publish(m)
       PROVE  Goal
  BY <1>2, <1>11 DEF Publish, listenerVars
<1>12. ASSUME NEW i, LeaseExpires(i) \/ DeadLetter(i)
       PROVE  Goal
  BY <1>2, <1>12 DEF LeaseExpires, DeadLetter, listenerVars
<1>13. ASSUME UNCHANGED vars
       PROVE  Goal
  BY <1>2, <1>13 DEF vars, listenerVars
<1>14. Goal
  BY <1>0, <1>5, <1>6, <1>7, <1>8, <1>9, <1>10, <1>11, <1>12, <1>13 DEF Next, BrokerStep
<1>15. ASSUME streaming'[b] = "closed"
       PROVE  pc'[b] = "idle" /\ Outstanding(b)' = {}
  <2>1. streaming[b] = "closed" /\ pc[b] = "idle" /\ Outstanding(b) = {}
    BY <1>14, <1>15 DEF Goal, Streams
  <2>2. pc'[b] = "idle"
    BY <1>14, <1>15, <2>1 DEF Goal
  <2>3. ASSUME NEW c \in Listeners, NEW s \in SubscriptionPaths, Schedule(c, s)
        PROVE  Outstanding(b)' = Outstanding(b)
    <3>1. c # b
      BY <2>1, <2>3 DEF Schedule
    <3> QED BY <2>3, <3>1, ScheduleGives DEF Base
  <2>4. Outstanding(b)' \subseteq Outstanding(b)
    BY <2>3, OutstandingStep DEF Base
  <2> QED BY <2>1, <2>2, <2>4
<1> QED BY <1>1, <1>14, <1>15 DEF Goal

\* A copy that is scheduled was held by nobody.
LEMMA HeldOnceStep ==
    ASSUME Base, Order, HeldOnce, [Next]_vars
    PROVE  HeldOnce'
<1>0. /\ \A c \in Listeners : /\ NoDup(workQueue[c])
                              /\ \A d \in hand[c], e \in InQueue(workQueue[c]) : d.copy # e.copy
      /\ \A b, c \in Listeners : \A d \in Outstanding(b), e \in Outstanding(c) :
            d.copy = e.copy => b = c
      /\ workQueue \in [Listeners -> Seq(Delivery)]
  BY DEF HeldOnce, Base, TypeOK
<1>1. ASSUME NEW c \in Listeners, NEW s \in SubscriptionPaths, Schedule(c, s)
      PROVE  HeldOnce'
  <2>1. PICK i \in Deliverable(s) :
           /\ workQueue' = [workQueue EXCEPT ![c] = Append(workQueue[c], DeliveryFrom(s, i))]
           /\ DeliveryFrom(s, i) \in Delivery
           /\ copies[i].state = "visible"
           /\ Outstanding(c)' = Outstanding(c) \cup {DeliveryFrom(s, i)}
           /\ \A b \in Listeners \ {c} : Outstanding(b)' = Outstanding(b)
           /\ hand' = hand
    BY <1>1, ScheduleGives DEF Base
  <2> DEFINE n == DeliveryFrom(s, i)
  <2>2. n.copy = i
    BY DEF DeliveryFrom
  <2> HIDE DEF n
  <2>3. \A b \in Listeners : \A d \in Outstanding(b) : d.copy # n.copy
    BY <2>1, <2>2, WatchedNotVisible DEF Watched
  <2>4. workQueue'[c] = Append(workQueue[c], n)
        /\ \A b \in Listeners \ {c} : workQueue'[b] = workQueue[b]
    BY <1>0, <2>1 DEF n
  <2>5. /\ InQueue(Append(workQueue[c], n)) = InQueue(workQueue[c]) \cup {n}
        /\ NoDup(Append(workQueue[c], n))
    BY <1>0, <2>1, <2>3, PutBehind, HandOutstanding DEF n
  <2>6. \A b \in Listeners : /\ NoDup(workQueue'[b])
                             /\ \A d \in hand'[b], e \in InQueue(workQueue'[b]) : d.copy # e.copy
    BY <1>0, <2>1, <2>3, <2>4, <2>5, HandOutstanding
  <2>7. \A b \in Listeners : \A d \in Outstanding(b)' :
           d \in Outstanding(b) \/ (b = c /\ d = n)
    BY <2>1 DEF n
  <2>8. \A a, b \in Listeners : \A d \in Outstanding(a)', e \in Outstanding(b)' :
           d.copy = e.copy => a = b
    BY <1>0, <2>3, <2>7
  <2> QED BY <2>6, <2>8 DEF HeldOnce
<1>2. ASSUME \A b \in Listeners : Outstanding(b)' \subseteq Outstanding(b),
             \A b \in Listeners : /\ NoDup(workQueue'[b])
                                  /\ \A d \in hand'[b], e \in InQueue(workQueue'[b]) : d.copy # e.copy
      PROVE  HeldOnce'
  <2>1. \A a, b \in Listeners : \A d \in Outstanding(a)', e \in Outstanding(b)' :
           d.copy = e.copy => a = b
    BY <1>0, <1>2
  <2> QED BY <1>2, <2>1 DEF HeldOnce
<1>3. ASSUME NEW c \in Listeners, TakeMessage(c)
      PROVE  HeldOnce'
  <2>1. PICK d \in InQueue(workQueue[c]) :
           /\ InQueue(workQueue'[c]) \subseteq InQueue(workQueue[c])
           /\ NoDup(workQueue[c]) => /\ NoDup(workQueue'[c])
                                     /\ \A e \in InQueue(workQueue'[c]) : e.copy # d.copy
           /\ hand'[c] = {d} \/ hand'[c] = hand[c]
           /\ \A b \in Listeners \ {c} : workQueue'[b] = workQueue[b] /\ hand'[b] = hand[b]
    BY <1>3, TakeGives DEF Base
  <2>2. \A b \in Listeners :
           InQueue(workQueue'[b]) \cup hand'[b] \subseteq InQueue(workQueue[b]) \cup hand[b]
    BY <2>1
  <2>3. \A b \in Listeners : Outstanding(b)' \subseteq Outstanding(b)
    BY <2>2, OutstandingAre
  <2>4. \A b \in Listeners : /\ NoDup(workQueue'[b])
                             /\ \A e \in hand'[b], f \in InQueue(workQueue'[b]) : e.copy # f.copy
    BY <1>0, <2>1
  <2> QED BY <1>2, <2>3, <2>4
<1>4. ASSUME \A b \in Listeners : /\ workQueue'[b] = workQueue[b] \/ workQueue'[b] = <<>>
                                  /\ hand'[b] = hand[b] \/ hand'[b] = {}
      PROVE  HeldOnce'
  <2>1. InQueue(<<>>) = {} /\ NoDup(<<>>)
    BY DEF InQueue, NoDup
  <2>2. \A b \in Listeners :
           InQueue(workQueue'[b]) \cup hand'[b] \subseteq InQueue(workQueue[b]) \cup hand[b]
    BY <1>4, <2>1
  <2>3. \A b \in Listeners : Outstanding(b)' \subseteq Outstanding(b)
    BY <2>2, OutstandingAre
  <2>4. \A b \in Listeners : /\ NoDup(workQueue'[b])
                             /\ \A e \in hand'[b], f \in InQueue(workQueue'[b]) : e.copy # f.copy
    BY <1>0, <1>4, <2>1
  <2> QED BY <1>2, <2>3, <2>4
<1> QED BY <1>1, <1>3, <1>4, QueuesStep DEF Base

(***************************************************************************)
(* While leases are extended in time, nothing fails and no listener is     *)
(* told to stop, no copy's callback returns twice, however many listeners, *)
(* streaming pulls and requeuers share the subscriptions: a copy is on one *)
(* work queue only, and what is given back is nowhere else.                *)
(***************************************************************************)
THEOREM PubSubNoRework == Spec => []NoRework
<1> DEFINE Inv == RInv /\ (OnTime => Streams /\ Order /\ HeldOnce)
<1>1. Init => Inv
  <2> SUFFICES ASSUME Init PROVE Streams /\ Order /\ HeldOnce
    BY RInvInit
  <2>1. \A c \in Listeners : /\ workQueue[c] = <<>> /\ hand[c] = {} /\ ~shutdown[c]
                             /\ streaming[c] = "closed" /\ pc[c] = "idle"
    BY DEF Init
  <2>2. InQueue(<<>>) = {} /\ NoDup(<<>>)
    BY DEF InQueue, NoDup
  <2>3. \A c \in Listeners : Outstanding(c) = {}
    BY <2>1, <2>2, OutstandingAre
  <2>4. Streams /\ HeldOnce
    BY <2>1, <2>2, <2>3 DEF Streams, HeldOnce
  <2>5. Order
    BY <2>3 DEF Init, Order
  <2> QED BY <2>4, <2>5
<1>2. Inv /\ [Next]_vars => Inv'
  BY RInvStep, OrderStep, StreamsStep, HeldOnceStep, OnTimeBefore DEF RInv
<1>3. Inv => NoRework
  <2> SUFFICES ASSUME Inv, OnTime, NEW d \in returned, NEW e \in returned, d.copy = e.copy
               PROVE  d = e
    BY DEF NoRework, OnTime
  <2>1. d.receipt = e.receipt /\ d.subscription = e.subscription
    BY DEF Order
  <2>2. d \in Delivery /\ e \in Delivery
    BY DEF RInv, Base, TypeOK
  <2> QED BY <2>1, <2>2 DEF Delivery
<1> HIDE DEF Inv
<1> QED BY <1>1, <1>2, <1>3, PTL DEF Spec

-----------------------------------------------------------------------------
\* Why a re-queue run takes all it could pull when it started.

CopiesHeld(r) == {d.copy : d \in rbatch[r]}

InDlq == VisibleIn(copies, Dlq)

\* What a run owes can be pulled from the dead-letter queue's subscription, or is in
\* its own hands until it was published; no other run has it.
OwedInDlq ==
    \A r \in Requeuers :
        /\ rpc[r] \in {"off", "done", "raised"} => owed[r] = {}
        /\ rpc[r] = "pull" => owed[r] \subseteq InDlq
        /\ rpc[r] \in {"publish", "ack"} => owed[r] \subseteq InDlq \cup CopiesHeld(r)
        /\ rpc[r] = "ack" => \A d \in rhand[r] : d.copy \notin owed[r]

OwedApart == \A r \in Requeuers : \A x \in Requeuers \ {r} : owed[r] \cap CopiesHeld(x) = {}

RequeuersApart == OwedInDlq /\ OwedApart

LEMMA HeldCopy ==
    ASSUME NEW r \in Requeuers
    PROVE  \A i : i \in CopiesHeld(r) <=> \E d \in rbatch[r] : d.copy = i
BY DEF CopiesHeld

LEMMA DlqSame ==
    ASSUME copies' = copies
    PROVE  InDlq \subseteq InDlq'
BY DEF InDlq

LEMMA DlqShown ==
    ASSUME Base, NEW i \in DOMAIN copies, LeaseExpires(i)
    PROVE  InDlq \subseteq InDlq'
<1>1. copies \in Seq(CopyOf(Messages, PubSubQueues)) /\ copies' = Shown(copies, i)
  BY CopiesType DEF Base, LeaseExpires, Shown
<1>2. /\ DOMAIN copies' = DOMAIN copies
      /\ \A j \in DOMAIN copies : /\ copies'[j].queue = copies[j].queue
                                  /\ copies'[j].state \in {"visible", copies[j].state}
  BY <1>1, CopyShown
<1> QED BY <1>2 DEF InDlq, VisibleIn, CopiesIn

LEMMA DlqMoved ==
    ASSUME Base, NEW i \in DOMAIN copies, DeadLetter(i)
    PROVE  InDlq \subseteq InDlq'
<1>1. /\ copies \in Seq(CopyOf(Messages, PubSubQueues)) /\ copies' = WithQueue(copies, i, Dlq)
      /\ Dlq \in PubSubQueues
  BY CopiesType, QueueNumbers DEF Base, DeadLetter, WithQueue
<1>2. /\ DOMAIN copies' = DOMAIN copies
      /\ \A j \in DOMAIN copies : /\ copies'[j].queue = IF j = i THEN Dlq ELSE copies[j].queue
                                  /\ copies'[j].state = copies[j].state
  BY <1>1, CopyMoved
<1> QED BY <1>2 DEF InDlq, VisibleIn, CopiesIn

\* A delivery hides what is delivered, and nothing else.
LEMMA DlqLeased ==
    ASSUME Base, NEW S, copies' = Leased(copies, S)
    PROVE  \A i \in InDlq : i \in InDlq' \/ i \in S
<1>1. copies \in Seq(CopyOf(Messages, PubSubQueues))
  BY CopiesType DEF Base
<1>2. /\ DOMAIN copies' = DOMAIN copies
      /\ \A j \in DOMAIN copies :
            /\ copies'[j].queue = copies[j].queue
            /\ copies'[j].state = IF j \in S THEN "hidden" ELSE copies[j].state
  BY <1>1, LeasedCopies
<1> QED BY <1>2 DEF InDlq, VisibleIn, CopiesIn

LEMMA DlqScheduled ==
    ASSUME Base, NEW c \in Listeners, NEW s \in SubscriptionPaths, Schedule(c, s)
    PROVE  InDlq \subseteq InDlq'
<1>1. PICK i \in Deliverable(s) : copies' = Leased(copies, {i})
  BY DEF Schedule
<1>2. i \notin InDlq
  BY QueueNumbers DEF Deliverable, VisibleIn, CopiesIn, InDlq
<1> QED BY <1>1, <1>2, DlqLeased

\* An acknowledgement takes the copy it names, of its own subscription.
LEMMA DlqAcknowledged ==
    ASSUME Base, NEW d, NEW s, copies' \in Acknowledged(d, s)
    PROVE  /\ \A i \in InDlq : i \in InDlq' \/ i = d.copy
           /\ s # Dlq => InDlq \subseteq InDlq'
<1>1. copies \in Seq(CopyOf(Messages, PubSubQueues))
  BY CopiesType DEF Base
<1>2. CASE copies' \in Deletions(copies, {d}, s)
  <2>1. /\ DOMAIN copies' = DOMAIN copies
        /\ \A j \in DOMAIN copies :
              /\ copies'[j].queue = copies[j].queue
              /\ \/ copies'[j].state = copies[j].state
                 \/ j \in CopiesIn(copies, s) /\ \E e \in {d} : e.copy = j
    BY <1>1, <1>2, DeletedCopies
  <2> QED BY <2>1 DEF InDlq, VisibleIn, CopiesIn
<1> QED BY <1>2, AcknowledgedIs, DlqSame

LEMMA DlqGivenBack ==
    ASSUME Base, NEW d, NEW s, copies' \in {copies, GivenBack(copies, d, s)}
    PROVE  InDlq \subseteq InDlq'
<1>1. copies \in Seq(CopyOf(Messages, PubSubQueues))
  BY CopiesType DEF Base
<1>2. CASE copies' = GivenBack(copies, d, s)
  <2>1. /\ DOMAIN copies' = DOMAIN copies
        /\ \A j \in DOMAIN copies : /\ copies'[j].queue = copies[j].queue
                                    /\ copies'[j].state \in {"visible", copies[j].state}
    BY <1>1, <1>2, GivenBackCopies
  <2> QED BY <2>1 DEF InDlq, VisibleIn, CopiesIn
<1> QED BY <1>2, DlqSame

LEMMA DlqAdded ==
    ASSUME Base, NEW m \in Messages, NEW s \in SubscriptionPaths,
           copies' = Append(copies, NewCopyOn(m, s))
    PROVE  InDlq \subseteq InDlq'
<1>1. copies \in Seq(CopyOf(Messages, PubSubQueues)) /\ copies' = Added(copies, m, s)
      /\ s \in PubSubQueues
  BY CopiesType, AddedOn, QueueNumbers DEF Base
<1>2. \A j \in DOMAIN copies : j \in DOMAIN copies' /\ copies'[j] = copies[j]
  BY <1>1, CopyAdded
<1> QED BY <1>2 DEF InDlq, VisibleIn, CopiesIn

RequeuerActs(r) == \/ StartRequeue(r) \/ RequeuerStep(r) \/ RequeuerCrash(r)
                   \/ \E d \in rbatch[r] : RequeueFails(r, d)

\* Only requeuers take anything from the dead-letter queue's subscription.
LEMMA DlqElsewhere ==
    ASSUME Base, [Next]_vars, ~ \E r \in Requeuers : RequeuerActs(r)
    PROVE  InDlq \subseteq InDlq'
<1>1. ASSUME NEW m \in Messages, Publish(m)
      PROVE  InDlq \subseteq InDlq'
  BY <1>1, DlqAdded, QueueNumbers DEF Publish
<1>2. ASSUME NEW c \in Listeners, \/ Subscribe(c) \/ CancelFutures(c) \/ Drained(c)
                                  \/ StreamsEnd(c) \/ SetShutdown(c) \/ Crash(c) \/ Restart(c)
      PROVE  InDlq \subseteq InDlq'
  BY <1>2, DlqSame DEF Subscribe, CancelFutures, Drained, StreamsEnd, SetShutdown, Crash, Restart
<1>3. ASSUME NEW c \in Listeners, TakeMessage(c)
      PROVE  InDlq \subseteq InDlq'
  BY <1>3, DlqSame, DlqGivenBack DEF TakeMessage
<1>4. ASSUME NEW c \in Listeners, NEW d \in hand[c],
             CallbackReturns(c, d) \/ CallbackRaises(c, d) \/ AckMessage(c, d) \/ AckDropped(c, d)
      PROVE  InDlq \subseteq InDlq'
  <2>1. d.subscription # Dlq
    BY QueueNumbers DEF Base, DeliveriesLocated, Outstanding
  <2> QED BY <1>4, <2>1, DlqSame, DlqGivenBack, DlqAcknowledged
          DEF CallbackReturns, CallbackRaises, AckMessage, AckDropped
<1>5. CASE UNCHANGED vars
  BY <1>5, DlqSame DEF vars
<1> QED BY <1>1, <1>2, <1>3, <1>4, <1>5, DlqShown, DlqMoved, DlqScheduled
        DEF Next, BrokerStep, MainStep, StreamStep, RequeuerActs

LEMMA RequeuerIdle ==
    ASSUME [Next]_vars, ~ \E r \in Requeuers : RequeuerActs(r)
    PROVE  rpc' = rpc /\ rbatch' = rbatch /\ rhand' = rhand /\ owed' = owed
<1>1. ASSUME NEW c \in Listeners, \/ MainStep(c) \/ StreamStep(c) \/ SetShutdown(c)
                                  \/ (\E d \in hand[c] : AckDropped(c, d)) \/ Crash(c) \/ Restart(c)
      PROVE  requeuerVars' = requeuerVars
  BY <1>1 DEF MainStep, StreamStep, Schedule, StreamsEnd, SetShutdown, Subscribe, TakeMessage,
              CancelFutures, Drained, CallbackReturns, CallbackRaises, AckMessage, AckDropped,
              Crash, Restart
<1>2. ASSUME NEW m \in Messages, Publish(m)
      PROVE  requeuerVars' = requeuerVars
  BY <1>2 DEF Publish
<1>3. ASSUME NEW i, LeaseExpires(i) \/ DeadLetter(i)
      PROVE  requeuerVars' = requeuerVars
  BY <1>3 DEF LeaseExpires, DeadLetter
<1>4. ASSUME UNCHANGED vars
      PROVE  requeuerVars' = requeuerVars
  BY <1>4 DEF vars
<1>5. requeuerVars' = requeuerVars
  BY <1>1, <1>2, <1>3, <1>4 DEF Next, BrokerStep, RequeuerActs
<1> QED BY <1>5 DEF requeuerVars

\* What the other runs have, owe and do.
Others(r) == \A x \in Requeuers \ {r} : /\ rpc'[x] = rpc[x] /\ rbatch'[x] = rbatch[x]
                                        /\ rhand'[x] = rhand[x] /\ owed'[x] = owed[x]

\* A step of run r that leaves what others owe and hold alone.
LEMMA ApartAlone ==
    ASSUME RequeuersApart, NEW r \in Requeuers, Others(r),
           rbatch'[r] \subseteq rbatch[r], owed'[r] \subseteq owed[r],
           \A i \in InDlq : i \in InDlq' \/ i \in CopiesHeld(r),
           rpc'[r] \in {"off", "done", "raised"} => owed'[r] = {},
           rpc'[r] = "pull" => owed'[r] \subseteq InDlq',
           rpc'[r] \in {"publish", "ack"} => owed'[r] \subseteq InDlq' \cup CopiesHeld(r)',
           rpc'[r] = "ack" => \A d \in rhand'[r] : d.copy \notin owed'[r]
    PROVE  RequeuersApart'
<1>1. \A x \in Requeuers \ {r} : CopiesHeld(x)' = CopiesHeld(x)
  BY DEF CopiesHeld, Others
<1>2. CopiesHeld(r)' \subseteq CopiesHeld(r)
  BY DEF CopiesHeld
<1>3. \A x \in Requeuers \ {r} : owed[x] \cap CopiesHeld(r) = {} /\ owed[r] \cap CopiesHeld(x) = {}
  BY DEF RequeuersApart, OwedApart
<1>4. OwedInDlq'
  BY <1>1, <1>3 DEF RequeuersApart, OwedInDlq, Others
<1>5. OwedApart'
  BY <1>1, <1>2, <1>3 DEF RequeuersApart, OwedApart, Others
<1> QED BY <1>4, <1>5 DEF RequeuersApart

LEMMA ApartStart ==
    ASSUME Base, RequeuersApart, NEW r \in Requeuers, StartRequeue(r)
    PROVE  RequeuersApart'
<1> DEFINE owes == InDlq \ {d.copy : d \in UNION {rbatch[x] : x \in Requeuers}}
<1>1. /\ copies' = copies /\ rbatch' = rbatch /\ rhand' = rhand
      /\ rpc' = [rpc EXCEPT ![r] = "pull"]
      /\ owed' = [owed EXCEPT ![r] = owes]
  BY DEF StartRequeue, InDlq
<1>2. /\ rpc'[r] = "pull" /\ owed'[r] = owes
      /\ \A x \in Requeuers \ {r} : rpc'[x] = rpc[x] /\ owed'[x] = owed[x]
  BY <1>1 DEF Base, TypeOK
<1>3. InDlq' = InDlq /\ \A x \in Requeuers : CopiesHeld(x)' = CopiesHeld(x)
  BY <1>1 DEF InDlq, CopiesHeld
<1>4. owes \subseteq InDlq /\ \A x \in Requeuers : owes \cap CopiesHeld(x) = {}
  BY HeldCopy
<1> HIDE DEF owes
<1>5. OwedInDlq'
  BY <1>1, <1>2, <1>3, <1>4 DEF RequeuersApart, OwedInDlq
<1>6. OwedApart'
  BY <1>2, <1>3, <1>4 DEF RequeuersApart, OwedApart
<1> QED BY <1>5, <1>6 DEF RequeuersApart

LEMMA ApartPull ==
    ASSUME Base, RequeuersApart, NEW r \in Requeuers, RequeuePull(r)
    PROVE  RequeuersApart'
<1>1. PICK S \in SUBSET Deliverable(Dlq) :
        /\ S = {} => Deliverable(Dlq) = {}
        /\ copies' = Leased(copies, S)
        /\ rbatch' = [rbatch EXCEPT ![r] = {DeliveryFrom(Dlq, i) : i \in S}]
        /\ rpc' = [rpc EXCEPT ![r] = IF S = {} THEN "done" ELSE "publish"]
        /\ owed' = [x \in Requeuers |-> IF x = r THEN owed[x] ELSE owed[x] \ S]
  BY DEF RequeuePull, RequeueFetch
<1> DEFINE D == {DeliveryFrom(Dlq, i) : i \in S}
<1>2. /\ rpc[r] = "pull" /\ rbatch'[r] = D /\ rhand' = rhand
      /\ rpc'[r] = IF S = {} THEN "done" ELSE "publish"
      /\ \A x \in Requeuers \ {r} : rpc'[x] = rpc[x] /\ rbatch'[x] = rbatch[x] /\ owed'[x] = owed[x] \ S
      /\ owed'[r] = owed[r]
  BY <1>1 DEF RequeuePull, RequeueFetch, Base, TypeOK
<1>3. \A i \in InDlq : i \in InDlq' \/ i \in S
  BY <1>1, DlqLeased
<1>4. CopiesHeld(r)' = S
  <2>1. \A d \in D : d.copy \in S
    BY DeliveriesFrom DEF Base
  <2>2. \A i \in S : DeliveryFrom(Dlq, i) \in D /\ DeliveryFrom(Dlq, i).copy = i
    BY DEF DeliveryFrom
  <2>3. CopiesHeld(r)' = {d.copy : d \in D}
    BY <1>2 DEF CopiesHeld
  <2> HIDE DEF D
  <2> QED BY <2>1, <2>2, <2>3
<1> HIDE DEF D
<1>5. \A x \in Requeuers \ {r} : CopiesHeld(x)' = CopiesHeld(x)
  BY <1>2 DEF CopiesHeld
<1>6. S = {} => InDlq = {}
  BY <1>1 DEF Deliverable, InDlq
<1>7. OwedInDlq'
  <2>1. \A x \in Requeuers \ {r} :
          /\ rpc'[x] \in {"off", "done", "raised"} => owed'[x] = {}
          /\ rpc'[x] = "pull" => owed'[x] \subseteq InDlq'
          /\ rpc'[x] \in {"publish", "ack"} => owed'[x] \subseteq InDlq' \cup CopiesHeld(x)'
          /\ rpc'[x] = "ack" => \A d \in rhand'[x] : d.copy \notin owed'[x]
    BY <1>2, <1>3, <1>5 DEF RequeuersApart, OwedInDlq
  <2>2. owed[r] \subseteq InDlq
    BY <1>2 DEF RequeuersApart, OwedInDlq
  <2>3. CASE S = {}
    BY <1>2, <1>6, <2>1, <2>2, <2>3 DEF OwedInDlq
  <2>4. CASE S # {}
    <3>1. rpc'[r] = "publish" /\ owed'[r] \subseteq InDlq' \cup CopiesHeld(r)'
      BY <1>2, <1>3, <1>4, <2>2, <2>4
    <3> QED BY <2>1, <3>1 DEF OwedInDlq
  <2> QED BY <2>3, <2>4
<1>8. OwedApart'
  BY <1>2, <1>4, <1>5 DEF RequeuersApart, OwedApart
<1> QED BY <1>7, <1>8 DEF RequeuersApart

LEMMA ApartPublish ==
    ASSUME Base, RequeuersApart, NEW r \in Requeuers, NEW d \in rbatch[r], RequeuePublish(r, d)
    PROVE  RequeuersApart'
<1>1. /\ rpc[r] = "publish" /\ rpc'[r] = "ack" /\ rbatch' = rbatch /\ rhand'[r] = {d}
      /\ owed'[r] = owed[r] \ {d.copy} /\ Others(r)
  BY DEF RequeuePublish, Base, TypeOK, Others
<1>2. MessageOf(d) \in Messages /\ Main \in SubscriptionPaths
  BY CopiesType, QueueNumbers DEF Base, DeliveriesLocated, MessageOf
<1>3. InDlq \subseteq InDlq'
  BY <1>2, DlqAdded DEF RequeuePublish
<1>4. CopiesHeld(r)' = CopiesHeld(r)
  BY <1>1 DEF CopiesHeld
<1>5. owed[r] \subseteq InDlq \cup CopiesHeld(r)
  BY <1>1 DEF RequeuersApart, OwedInDlq
<1> QED BY <1>1, <1>3, <1>4, <1>5, ApartAlone

\* Run r is through with delivery d.
LEMMA ApartOver ==
    ASSUME RequeuersApart, NEW r \in Requeuers, NEW d \in rbatch[r],
           rpc[r] \in {"publish", "ack"}, rpc'[r] = "publish", Others(r),
           rbatch'[r] = rbatch[r] \ {d}, owed'[r] = owed[r] \ {d.copy},
           \A i \in InDlq : i \in InDlq' \/ i = d.copy
    PROVE  RequeuersApart'
<1>1. owed[r] \subseteq InDlq \cup CopiesHeld(r)
  BY DEF RequeuersApart, OwedInDlq
<1>2. CopiesHeld(r) \subseteq CopiesHeld(r)' \cup {d.copy} /\ d.copy \in CopiesHeld(r)
  BY DEF CopiesHeld
<1>3. owed'[r] \subseteq InDlq' \cup CopiesHeld(r)'
  BY <1>1, <1>2
<1> QED BY <1>2, <1>3, ApartAlone

LEMMA ApartAck ==
    ASSUME Base, RequeuersApart, NEW r \in Requeuers, NEW d \in rbatch[r], RequeueAck(r, d)
    PROVE  RequeuersApart'
<1>1. /\ rpc[r] = "ack" /\ d \in rhand[r] /\ rpc'[r] = "publish" /\ rbatch'[r] = rbatch[r] \ {d}
      /\ owed' = owed /\ Others(r)
  BY DEF RequeueAck, Base, TypeOK, Others
<1>2. owed'[r] = owed[r] \ {d.copy}
  BY <1>1 DEF RequeuersApart, OwedInDlq
<1>3. \A i \in InDlq : i \in InDlq' \/ i = d.copy
  BY DlqAcknowledged DEF RequeueAck
<1> QED BY <1>1, <1>2, <1>3, ApartOver

LEMMA ApartFails ==
    ASSUME Base, RequeuersApart, NEW r \in Requeuers, NEW d \in rbatch[r], RequeueFails(r, d)
    PROVE  RequeuersApart'
<1>1. /\ rpc[r] \in {"publish", "ack"} /\ rpc'[r] = "publish" /\ rbatch'[r] = rbatch[r] \ {d}
      /\ owed'[r] = owed[r] \ {d.copy} /\ Others(r)
  BY DEF RequeueFails, Base, TypeOK, Others
<1>2. MessageOf(d) \in Messages /\ Main \in SubscriptionPaths
  BY CopiesType, QueueNumbers DEF Base, DeliveriesLocated, MessageOf
<1>3. \A i \in InDlq : i \in InDlq' \/ i = d.copy
  BY <1>2, DlqSame, DlqAdded, DlqAcknowledged DEF RequeueFails
<1> QED BY <1>1, <1>3, ApartOver

LEMMA ApartBetween ==
    ASSUME Base, RequeuersApart, NEW r \in Requeuers, RequeueBatchDone(r) \/ RequeuerCrash(r)
    PROVE  RequeuersApart'
<1>1. InDlq \subseteq InDlq'
  BY DlqSame DEF RequeueBatchDone, RequeuerCrash
<1>2. CASE RequeueBatchDone(r)
  <2>1. /\ rpc[r] = "publish" /\ rpc'[r] = "pull" /\ rbatch[r] = {} /\ rbatch' = rbatch
        /\ owed' = owed /\ Others(r)
    BY <1>2 DEF RequeueBatchDone, Base, TypeOK, Others
  <2>2. owed[r] \subseteq InDlq
    BY <2>1, HeldCopy DEF RequeuersApart, OwedInDlq
  <2> QED BY <1>1, <2>1, <2>2, ApartAlone
<1>3. CASE RequeuerCrash(r)
  <2>1. rpc'[r] = "raised" /\ rbatch'[r] = {} /\ owed'[r] = {} /\ Others(r)
    BY <1>3 DEF RequeuerCrash, Base, TypeOK, Others
  <2> QED BY <1>1, <2>1, ApartAlone
<1> QED BY <1>2, <1>3

LEMMA ApartStep ==
    ASSUME Base, RequeuersApart, [Next]_vars
    PROVE  RequeuersApart'
<1>1. CASE \E r \in Requeuers : RequeuerActs(r)
  BY <1>1, ApartStart, ApartPull, ApartPublish, ApartAck, ApartFails, ApartBetween
     DEF RequeuerActs, RequeuerStep
<1>2. CASE ~ \E r \in Requeuers : RequeuerActs(r)
  <2>1. InDlq \subseteq InDlq'
    BY <1>2, DlqElsewhere
  <2>2. /\ rpc' = rpc /\ rhand' = rhand /\ owed' = owed
        /\ \A r \in Requeuers : CopiesHeld(r)' = CopiesHeld(r)
    BY <1>2, RequeuerIdle DEF CopiesHeld
  <2>3. OwedInDlq'
    BY <2>1, <2>2 DEF RequeuersApart, OwedInDlq
  <2>4. OwedApart'
    BY <2>2 DEF RequeuersApart, OwedApart
  <2> QED BY <2>3, <2>4 DEF RequeuersApart
<1> QED BY <1>1, <1>2

(***************************************************************************)
(* A re-queue run that returns has handled every message it could pull when*)
(* it started, but for those that another run got: each was published, or  *)
(* its own failure logged, whatever else failed; for any number of         *)
(* operators, however much a pull returns, and however leases pass in the  *)
(* middle of a batch.                                                      *)
(***************************************************************************)
THEOREM PubSubRequeueComplete == Spec => []RequeueComplete
<1> DEFINE Inv == Base /\ RequeuersApart
<1>1. Init => Inv
  <2>1. Init => RequeuersApart
    BY DEF Init, RequeuersApart, OwedInDlq, OwedApart
  <2> QED BY <2>1, BaseInit
<1>2. Inv /\ [Next]_vars => Inv'
  BY BaseStep, ApartStep
<1>3. Inv => RequeueComplete
  BY DEF RequeuersApart, OwedInDlq, RequeueComplete
<1> HIDE DEF Inv
<1> QED BY <1>1, <1>2, <1>3, PTL DEF Spec
=============================================================================

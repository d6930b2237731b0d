---------------------------- MODULE SqsQueueProofs ----------------------------
(***************************************************************************)
(* Theorems about SqsQueue, for any number of messages, listeners,         *)
(* requeuers, failures and re-queue runs, whatever the batch size and the  *)
(* redrive policy, and however visibility timeouts pass.                   *)
(***************************************************************************)
EXTENDS SqsQueue, LeasingQueueProofs

\* Receipt handles are of copies that SQS stored, and a requeuer holds finitely many.
DeliveriesLocated ==
    /\ \A c \in Listeners : \A d \in batch[c] \cup hand[c] : d.copy \in DOMAIN copies
    /\ \A r \in Requeuers : \A d \in rbatch[r] : d.copy \in DOMAIN copies
    /\ \A d \in returned : d.copy \in DOMAIN copies

BatchesFinite == \A r \in Requeuers : IsFiniteSet(rbatch[r])

Base == TypeOK /\ DeliveriesLocated /\ BatchesFinite

SqsQueues == {"main", "dlq"}

LEMMA CopiesType ==
    ASSUME TypeOK
    PROVE  /\ copies \in Seq(CopyOf(Messages, SqsQueues))
           /\ \A i \in DOMAIN copies :
                /\ copies[i].msg \in Messages /\ copies[i].receives \in Nat
                /\ copies[i].queue \in {"main", "dlq"}
                /\ copies[i].state \in {"visible", "hidden", "deleted"}
                /\ i \in Nat \ {0}
<1>1. copies \in Seq(CopyOf(Messages, SqsQueues))
  BY DEF TypeOK, Copy, SqsQueues
<1> QED BY <1>1, CopyAt DEF SqsQueues

-----------------------------------------------------------------------------
\* What the actions of SQS's users and SQS itself do to the copies.

\* The copies of messages sent together.
SentCopies(D, order) == [k \in 1 .. Cardinality(D) |-> NewCopy(MessageOf(order[k]))]

LEMMA SentAdds ==
    ASSUME TypeOK, NEW D, IsFiniteSet(D), \A d \in D : d.copy \in DOMAIN copies,
           copies' \in Sent(D)
    PROVE  \E a \in Seq(CopyOf(Messages, SqsQueues)) :
              /\ copies' = AllAdded(copies, a)
              /\ \A k \in DOMAIN a : /\ a[k].queue = "main" /\ a[k].state = "visible"
                                     /\ \E d \in D : a[k].msg = MessageOf(d)
              /\ \A d \in D : \E k \in DOMAIN a : a[k].msg = MessageOf(d)
<1>1. PICK order \in [1 .. Cardinality(D) -> D] :
        /\ \A d \in D : \E k \in DOMAIN order : order[k] = d
        /\ copies' = copies \o [k \in 1 .. Cardinality(D) |-> NewCopy(MessageOf(order[k]))]
  BY DEF Sent
<1> DEFINE a == SentCopies(D, order)
<1>2. Cardinality(D) \in Nat
  BY FS_CardinalityType
<1>3. \A k \in 1 .. Cardinality(D) : order[k] \in D /\ MessageOf(order[k]) \in Messages
  BY <1>1, CopiesType DEF MessageOf
<1>4. \A m \in Messages : /\ NewCopy(m) \in CopyOf(Messages, SqsQueues) /\ NewCopy(m).msg = m
                          /\ NewCopy(m).queue = "main" /\ NewCopy(m).state = "visible"
  BY DEF NewCopy, NewCopyOn, CopyOf, SqsQueues
<1>5. DOMAIN a = 1 .. Cardinality(D) /\ \A k \in DOMAIN a : a[k] = NewCopy(MessageOf(order[k]))
  BY DEF SentCopies
<1>6. a \in Seq(CopyOf(Messages, SqsQueues))
  <2>1. a \in [1 .. Cardinality(D) -> CopyOf(Messages, SqsQueues)]
    BY <1>3, <1>4 DEF SentCopies
  <2> QED BY <1>2, <2>1
<1>7. copies' = AllAdded(copies, a)
  BY <1>1 DEF AllAdded, SentCopies
<1> HIDE DEF a
<1>8. \A k \in DOMAIN a : /\ a[k].queue = "main" /\ a[k].state = "visible"
                          /\ \E d \in D : a[k].msg = MessageOf(d)
  BY <1>3, <1>4, <1>5
<1>9. \A d \in D : \E k \in DOMAIN a : a[k].msg = MessageOf(d)
  BY <1>1, <1>3, <1>4, <1>5
<1> QED BY <1>6, <1>7, <1>8, <1>9

\* After a step, no copy was lost, forgot a delivery or came back.
CopiesKept == copies' \in Seq(CopyOf(Messages, SqsQueues)) /\ Evolves(copies, copies')

LEMMA KeptSame ==
    ASSUME TypeOK, copies' = copies
    PROVE  CopiesKept
BY CopiesType, EvolvesSelf DEF CopiesKept

LEMMA KeptAppend ==
    ASSUME TypeOK, NEW m \in Messages, copies' = Append(copies, NewCopy(m))
    PROVE  CopiesKept
<1>1. copies' = Added(copies, m, "main") /\ "main" \in SqsQueues
  BY DEF Added, NewCopy, SqsQueues
<1> QED BY <1>1, CopiesType, EvolvesAdded DEF CopiesKept

LEMMA KeptReceived ==
    ASSUME TypeOK, NEW q, NEW S \in Received(q, NumMessages), copies' = Leased(copies, S)
    PROVE  CopiesKept
<1>1. \A i \in S : copies[i].state # "deleted"
  BY DEF Received, Receivable, VisibleIn, CopiesIn
<1> QED BY <1>1, CopiesType, EvolvesLeased DEF CopiesKept

LEMMA KeptDeletions ==
    ASSUME TypeOK, NEW D, NEW q, copies' \in Deletions(copies, D, q)
    PROVE  CopiesKept
BY CopiesType, EvolvesDeletions DEF CopiesKept

LEMMA KeptSent ==
    ASSUME TypeOK, NEW D, IsFiniteSet(D), \A d \in D : d.copy \in DOMAIN copies,
           copies' \in Sent(D)
    PROVE  CopiesKept
<1>1. PICK a \in Seq(CopyOf(Messages, SqsQueues)) : copies' = AllAdded(copies, a)
  BY SentAdds
<1> QED BY <1>1, CopiesType, EvolvesAllAdded DEF CopiesKept

LEMMA KeptStep ==
    ASSUME Base, [Next]_vars
    PROVE  CopiesKept
<1> USE DEF Base
<1>1. ASSUME NEW m \in Messages, PublishSucceeds(m) \/ PublishFails(m)
      PROVE  CopiesKept
  BY <1>1, KeptSame, KeptAppend DEF PublishSucceeds, PublishFails
<1>2. ASSUME NEW i \in DOMAIN copies, VisibilityExpires(i)
      PROVE  CopiesKept
  <2>1. copies' = Shown(copies, i) /\ copies[i].state # "deleted"
    BY <1>2 DEF VisibilityExpires, Shown
  <2> QED BY <2>1, CopiesType, EvolvesShown DEF CopiesKept
<1>3. ASSUME NEW i \in DOMAIN copies, Redrive(i)
      PROVE  CopiesKept
  <2>1. /\ copies' = WithQueue(copies, i, "dlq") /\ "dlq" \in SqsQueues
        /\ copies[i].state # "deleted"
    BY <1>3 DEF Redrive, WithQueue, VisibleIn, CopiesIn, SqsQueues
  <2> QED BY <2>1, CopiesType, EvolvesMoved DEF CopiesKept
<1>4. ASSUME NEW c \in Listeners, ListenerStep(c)
      PROVE  CopiesKept
  BY <1>4, KeptSame, KeptReceived, KeptDeletions
     DEF ListenerStep, CheckShutdown, PullMessages, BatchDone, NextMessage, Dies,
         CallbackReturns, CallbackRaises, AckMessage
<1>5. ASSUME NEW c \in Listeners,
             SetShutdown(c) \/ AckSkipped(c) \/ Crash(c) \/ Restart(c)
      PROVE  CopiesKept
  BY <1>5, KeptSame DEF SetShutdown, AckSkipped, Crash, Restart
<1>6. ASSUME NEW r \in Requeuers, RequeueReceive(r) \/ RequeueDelete(r)
      PROVE  CopiesKept
  BY <1>6, KeptReceived, KeptDeletions DEF RequeueReceive, RequeueFetch, RequeueDelete
<1>7. ASSUME NEW r \in Requeuers, RequeueSend(r)
      PROVE  CopiesKept
  BY <1>7, KeptSent DEF RequeueSend, DeliveriesLocated, BatchesFinite
<1>8. ASSUME NEW r \in Requeuers, RequeuePartialFailure(r)
      PROVE  CopiesKept
  <2>1. PICK D \in SUBSET rbatch[r] : copies' \in Sent(D)
    BY <1>8 DEF RequeuePartialFailure
  <2>2. IsFiniteSet(D)
    BY FS_Subset DEF BatchesFinite
  <2> QED BY <2>1, <2>2, KeptSent DEF DeliveriesLocated
<1>9. ASSUME NEW r \in Requeuers, StartRequeue(r) \/ RequeuerCrash(r)
      PROVE  CopiesKept
  BY <1>9, KeptSame DEF StartRequeue, RequeuerCrash
<1> QED BY <1>1, <1>2, <1>3, <1>4, <1>5, <1>6, <1>7, <1>8, <1>9, KeptSame
        DEF Next, BrokerStep, RequeuerStep, vars

-----------------------------------------------------------------------------
\* Type correctness.

LEMMA DeliveriesType ==
    ASSUME TypeOK, NEW q, NEW S \in Received(q, NumMessages)
    PROVE  /\ Deliveries(S) \subseteq Delivery
           /\ \A d \in Deliveries(S) : /\ d.copy \in S
                                       /\ d.receipt = copies[d.copy].receives + 1
           /\ IsFiniteSet(Deliveries(S))
           /\ S \subseteq VisibleIn(copies, q) /\ S \subseteq DOMAIN copies
<1>1. S \subseteq VisibleIn(copies, q) /\ S \subseteq DOMAIN copies
  BY DEF Received, Receivable, VisibleIn, CopiesIn
<1>2. \A i \in S : copies[i].receives + 1 \in Nat \ {0} /\ i \in Nat \ {0}
  BY <1>1, CopiesType
<1>3. IsFiniteSet(S)
  BY <1>1, CopiesType, CopiesFinite
<1>4. IsFiniteSet(Deliveries(S))
  <2> DEFINE f == [i \in S |-> [copy |-> i, receipt |-> copies[i].receives + 1]]
  <2>1. f \in Surjection(S, Deliveries(S))
    BY DEF Surjection, Deliveries
  <2> HIDE DEF f
  <2> QED BY <1>3, <2>1, FS_Surjection
<1> QED BY <1>1, <1>2, <1>4 DEF Deliveries, Delivery

LEMMA BaseInit == Init => Base
<1> SUFFICES ASSUME Init PROVE Base
  OBVIOUS
<1>1. TypeOK
  <2>1. copies \in Seq(Copy)
    BY DEF Init
  <2>2. 0 \in 0 .. MaxFailures /\ 0 \in 0 .. MaxStops /\ 0 \in 0 .. MaxRequeues
        /\ 0 \in 0 .. MaxAttempts
    BY BoundsAssumption, RetryAssumption
  <2> QED BY <2>1, <2>2 DEF Init, TypeOK
<1>2. DeliveriesLocated
  BY DEF Init, DeliveriesLocated
<1>3. BatchesFinite
  BY FS_EmptySet DEF Init, BatchesFinite
<1> QED BY <1>1, <1>2, <1>3 DEF Base

LEMMA TypeStep ==
    ASSUME Base, [Next]_vars
    PROVE  TypeOK'
<1> USE DEF Base
<1>0. copies' \in Seq(Copy)
  BY KeptStep DEF CopiesKept, Copy, SqsQueues
<1>1. ASSUME NEW m \in Messages, PublishSucceeds(m) \/ PublishFails(m)
      PROVE  TypeOK'
  <2>1. CASE PublishSucceeds(m)
    BY <1>0, <2>1, RetryAssumption
       DEF PublishSucceeds, Attempt, TypeOK, listenerVars, requeuerVars, history, budgets
  <2>2. CASE PublishFails(m)
    <3>1. failures' \in 0 .. MaxFailures
      BY <2>2, BoundsAssumption DEF PublishFails, Fail, TypeOK
    <3>2. tries' \in [Messages -> 0 .. MaxAttempts]
      BY <2>2, RetryAssumption DEF PublishFails, Attempt, TypeOK
    <3>3. publishing' \in [Messages -> {"unsent", "trying", "returned", "raised"}]
      BY <2>2 DEF PublishFails, TypeOK
    <3> QED BY <1>0, <2>2, <3>1, <3>2, <3>3
            DEF PublishFails, Attempt, Fail, TypeOK, listenerVars, requeuerVars, history
  <2> QED BY <1>1, <2>1, <2>2
<1>2. ASSUME NEW i \in DOMAIN copies, VisibilityExpires(i) \/ Redrive(i)
      PROVE  TypeOK'
  BY <1>0, <1>2 DEF VisibilityExpires, Redrive, TypeOK, publisherVars, listenerVars,
                    requeuerVars, history, budgets
<1>3. ASSUME NEW c \in Listeners, PullMessages(c)
      PROVE  TypeOK'
  <2>1. PICK S \in Received("main", NumMessages) :
            /\ batch' = [batch EXCEPT ![c] = Deliveries(S)]
            /\ pc' = [pc EXCEPT ![c] = IF S = {} THEN "idle" ELSE "loop"]
    BY <1>3 DEF PullMessages
  <2>2. Deliveries(S) \subseteq Delivery
    BY DeliveriesType
  <2> QED BY <1>0, <1>3, <2>1, <2>2
          DEF PullMessages, TypeOK, publisherVars, requeuerVars, history, budgets
<1>4. ASSUME NEW c \in Listeners, NEW d \in batch[c], NextMessage(c, d) \/ Dies(c, d)
      PROVE  TypeOK'
  <2>1. CASE NextMessage(c, d)
    <3>1. hand' \in [Listeners -> SUBSET Delivery] /\ batch' \in [Listeners -> SUBSET Delivery]
      <4>1. d \in Delivery
        BY DEF TypeOK
      <4>2. batch' \in [Listeners -> SUBSET Delivery]
        BY <2>1 DEF NextMessage, TypeOK
      <4>3. hand' = hand \/ hand' = [hand EXCEPT ![c] = {d}]
        BY <2>1 DEF NextMessage
      <4>4. hand \in [Listeners -> SUBSET Delivery]
        BY DEF TypeOK
      <4>5. hand' \in [Listeners -> SUBSET Delivery]
        BY <4>1, <4>3, <4>4
      <4> QED BY <4>2, <4>5
    <3>2. pc' \in [Listeners -> {"idle", "pull", "loop", "callback", "ack", "stopped", "dead"}]
      BY <2>1 DEF NextMessage, TypeOK
    <3> QED BY <1>0, <2>1, <3>1, <3>2
            DEF NextMessage, TypeOK, publisherVars, requeuerVars, history, budgets
  <2>2. CASE Dies(c, d)
    BY <1>0, <2>2 DEF Dies, TypeOK, publisherVars, requeuerVars, history, budgets
  <2> QED BY <1>4, <2>1, <2>2
<1>5. ASSUME NEW c \in Listeners, NEW d \in hand[c], CallbackReturns(c, d)
      PROVE  TypeOK'
  BY <1>0, <1>5 DEF CallbackReturns, TypeOK, publisherVars, requeuerVars, history, budgets
<1>6. ASSUME NEW c \in Listeners,
             CheckShutdown(c) \/ BatchDone(c) \/ CallbackRaises(c) \/ AckMessage(c) \/ Restart(c)
      PROVE  TypeOK'
  <2> USE <1>0 DEF TypeOK, publisherVars, requeuerVars, history, budgets
  <2>1. CASE CheckShutdown(c)
    BY <2>1 DEF CheckShutdown
  <2>2. CASE BatchDone(c)
    BY <2>2 DEF BatchDone
  <2>3. CASE CallbackRaises(c)
    BY <2>3 DEF CallbackRaises
  <2>4. CASE AckMessage(c)
    BY <2>4 DEF AckMessage
  <2>5. CASE Restart(c)
    BY <2>5 DEF Restart
  <2> QED BY <1>6, <2>1, <2>2, <2>3, <2>4, <2>5
<1>11. ASSUME NEW c \in Listeners, SetShutdown(c) \/ AckSkipped(c) \/ Crash(c)
       PROVE  TypeOK'
  <2> USE <1>0, BoundsAssumption DEF TypeOK, publisherVars, requeuerVars, history
  <2>1. CASE SetShutdown(c)
    BY <2>1 DEF SetShutdown
  <2>2. CASE AckSkipped(c)
    BY <2>2 DEF AckSkipped, Fail
  <2>3. CASE Crash(c)
    BY <2>3 DEF Crash, Fail
  <2> QED BY <1>11, <2>1, <2>2, <2>3
<1>7. ASSUME NEW r \in Requeuers, RequeueReceive(r)
      PROVE  TypeOK'
  <2>1. PICK S \in Received("dlq", NumMessages) :
            /\ rbatch' = [rbatch EXCEPT ![r] = Deliveries(S)]
            /\ rpc' = [rpc EXCEPT ![r] = IF S = {} THEN "done" ELSE "send"]
    BY <1>7 DEF RequeueReceive, RequeueFetch
  <2>2. Deliveries(S) \subseteq Delivery
    BY DeliveriesType
  <2> QED BY <1>0, <1>7, <2>1, <2>2
          DEF RequeueReceive, RequeueFetch, TypeOK, publisherVars, listenerVars, history, budgets
<1>8. ASSUME NEW r \in Requeuers, StartRequeue(r)
      PROVE  TypeOK'
  <2>1. VisibleIn(copies, "dlq") \subseteq Nat \ {0}
    BY <1>0, CopiesType DEF VisibleIn, CopiesIn
  <2> QED BY <1>0, <1>8, <2>1, BoundsAssumption
          DEF StartRequeue, TypeOK, publisherVars, listenerVars, history, budgets
<1>9. ASSUME NEW r \in Requeuers,
             RequeueSend(r) \/ RequeuePartialFailure(r) \/ RequeueDelete(r) \/ RequeuerCrash(r)
      PROVE  TypeOK'
  <2> USE <1>0, BoundsAssumption DEF TypeOK, publisherVars, listenerVars, history, budgets
  <2>1. CASE RequeueSend(r)
    BY <2>1 DEF RequeueSend
  <2>2. CASE RequeuePartialFailure(r)
    BY <2>2 DEF RequeuePartialFailure, Fail
  <2>3. CASE RequeueDelete(r)
    BY <2>3 DEF RequeueDelete, Fail
  <2>4. CASE RequeuerCrash(r)
    BY <2>4 DEF RequeuerCrash, Fail
  <2> QED BY <1>9, <2>1, <2>2, <2>3, <2>4
<1>10. CASE UNCHANGED vars
  BY <1>0, <1>10 DEF vars, TypeOK, publisherVars, listenerVars, requeuerVars, history, budgets
<1> QED BY <1>1, <1>2, <1>3, <1>4, <1>5, <1>6, <1>7, <1>8, <1>9, <1>10, <1>11
        DEF Next, BrokerStep, ListenerStep, RequeuerStep

\* Where the deliveries in hand after a step come from.
LEMMA HandedOver ==
    ASSUME Base, [Next]_vars
    PROVE  /\ \A c \in Listeners : \A d \in batch'[c] :
                d \in batch[c] \/ d.copy \in DOMAIN copies
           /\ \A c \in Listeners : \A d \in hand'[c] : d \in hand[c] \cup batch[c]
           /\ \A r \in Requeuers : \A d \in rbatch'[r] :
                d \in rbatch[r] \/ d.copy \in DOMAIN copies
           /\ \A d \in returned' : d \in returned \/ \E c \in Listeners : d \in hand[c]
           /\ \A r \in Requeuers : rbatch'[r] \subseteq rbatch[r] \/ IsFiniteSet(rbatch'[r])
<1> DEFINE Listening == /\ \A c \in Listeners : \A d \in batch'[c] :
                              d \in batch[c] \/ d.copy \in DOMAIN copies
                        /\ \A c \in Listeners : \A d \in hand'[c] : d \in hand[c] \cup batch[c]
                        /\ \A d \in returned' : d \in returned \/ \E c \in Listeners : d \in hand[c]
           Requeuing == /\ \A r \in Requeuers : \A d \in rbatch'[r] :
                              d \in rbatch[r] \/ d.copy \in DOMAIN copies
                        /\ \A r \in Requeuers : rbatch'[r] \subseteq rbatch[r]
                                                    \/ IsFiniteSet(rbatch'[r])
<1> USE DEF Base, TypeOK
<1>1. ASSUME UNCHANGED <<batch, hand, returned>>
      PROVE  Listening
  BY <1>1
<1>2. ASSUME UNCHANGED rbatch
      PROVE  Requeuing
  BY <1>2
<1>3. ASSUME NEW c \in Listeners, ListenerStep(c)
      PROVE  Listening
  <2>1. CASE PullMessages(c)
    <3>1. PICK S \in Received("main", NumMessages) : batch' = [batch EXCEPT ![c] = Deliveries(S)]
      BY <2>1 DEF PullMessages
    <3>2. \A d \in Deliveries(S) : d.copy \in DOMAIN copies
      BY DeliveriesType
    <3> QED BY <2>1, <3>1, <3>2 DEF PullMessages, history
  <2>2. ASSUME NEW d \in batch[c], NextMessage(c, d) \/ Dies(c, d)
        PROVE  Listening
    BY <2>2 DEF NextMessage, Dies, history
  <2>3. ASSUME NEW d \in hand[c], CallbackReturns(c, d)
        PROVE  Listening
    BY <2>3 DEF CallbackReturns
  <2>4. CASE CheckShutdown(c) \/ BatchDone(c) \/ CallbackRaises(c) \/ AckMessage(c)
    BY <2>4 DEF CheckShutdown, BatchDone, CallbackRaises, AckMessage, history
  <2> QED BY <1>3, <2>1, <2>2, <2>3, <2>4 DEF ListenerStep
<1>4. ASSUME NEW c \in Listeners, SetShutdown(c) \/ AckSkipped(c) \/ Crash(c) \/ Restart(c)
      PROVE  Listening
  BY <1>4 DEF SetShutdown, AckSkipped, Crash, Restart, history
<1>5. ASSUME NEW c \in Listeners,
             \/ ListenerStep(c) \/ SetShutdown(c) \/ AckSkipped(c) \/ Crash(c) \/ Restart(c)
      PROVE  UNCHANGED rbatch
  BY <1>5 DEF ListenerStep, CheckShutdown, PullMessages, BatchDone, NextMessage, Dies,
              CallbackReturns, CallbackRaises, AckMessage, SetShutdown, AckSkipped, Crash,
              Restart, requeuerVars
<1>6. ASSUME NEW r \in Requeuers, RequeueReceive(r)
      PROVE  Requeuing
  <2>1. PICK S \in Received("dlq", NumMessages) : rbatch' = [rbatch EXCEPT ![r] = Deliveries(S)]
    BY <1>6 DEF RequeueReceive, RequeueFetch
  <2>2. IsFiniteSet(Deliveries(S)) /\ \A d \in Deliveries(S) : d.copy \in DOMAIN copies
    BY DeliveriesType
  <2> QED BY <2>1, <2>2
<1>7. ASSUME NEW r \in Requeuers,
             \/ RequeueSend(r) \/ RequeueDelete(r) \/ StartRequeue(r)
             \/ RequeuePartialFailure(r) \/ RequeuerCrash(r)
      PROVE  Requeuing
  BY <1>7 DEF RequeueSend, RequeueDelete, StartRequeue, RequeuePartialFailure, RequeuerCrash
<1>8. ASSUME NEW r \in Requeuers,
             \/ RequeuerStep(r) \/ StartRequeue(r)
             \/ RequeuePartialFailure(r) \/ RequeuerCrash(r)
      PROVE  UNCHANGED <<batch, hand, returned>>
  BY <1>8 DEF RequeuerStep, RequeueReceive, RequeueFetch, RequeueSend, RequeueDelete, StartRequeue,
              RequeuePartialFailure, RequeuerCrash, listenerVars, history
<1>9. ASSUME NEW m \in Messages, PublishSucceeds(m) \/ PublishFails(m)
      PROVE  Listening /\ Requeuing
  <2>1. UNCHANGED <<batch, hand, returned>> /\ UNCHANGED rbatch
    BY <1>9 DEF PublishSucceeds, PublishFails, Attempt, listenerVars, requeuerVars, history
  <2> QED BY <1>1, <1>2, <2>1
<1>10. ASSUME NEW i, VisibilityExpires(i) \/ Redrive(i)
       PROVE  Listening /\ Requeuing
  <2>1. UNCHANGED <<batch, hand, returned>> /\ UNCHANGED rbatch
    BY <1>10 DEF VisibilityExpires, Redrive, listenerVars, requeuerVars, history
  <2> QED BY <1>1, <1>2, <2>1
<1>11. ASSUME UNCHANGED vars
       PROVE  Listening /\ Requeuing
  BY <1>11, <1>1, <1>2 DEF vars, listenerVars, requeuerVars, history
<1> HIDE DEF Listening, Requeuing, Base, TypeOK
<1>12. ASSUME NEW c \in Listeners,
             \/ ListenerStep(c) \/ SetShutdown(c) \/ AckSkipped(c) \/ Crash(c) \/ Restart(c)
       PROVE  Listening /\ Requeuing
  BY <1>2, <1>3, <1>4, <1>5, <1>12
<1>13. ASSUME NEW r \in Requeuers,
             \/ RequeuerStep(r) \/ StartRequeue(r)
             \/ RequeuePartialFailure(r) \/ RequeuerCrash(r)
       PROVE  Listening /\ Requeuing
  BY <1>1, <1>6, <1>7, <1>8, <1>13 DEF RequeuerStep
<1>14. Listening /\ Requeuing
  BY <1>9, <1>10, <1>11, <1>12, <1>13 DEF Next, BrokerStep, vars
<1> QED BY <1>14 DEF Listening, Requeuing

LEMMA BaseStep ==
    ASSUME Base, [Next]_vars
    PROVE  Base'
<1>1. TypeOK'
  BY TypeStep
<1>2. DOMAIN copies \subseteq DOMAIN copies'
  BY KeptStep DEF CopiesKept, Evolves
<1>3. DeliveriesLocated'
  BY <1>2, HandedOver DEF Base, DeliveriesLocated
<1>4. BatchesFinite'
  BY HandedOver, FS_Subset DEF Base, BatchesFinite
<1> QED BY <1>1, <1>3, <1>4 DEF Base

(***************************************************************************)
(* Variables keep their types through every receive, retry and failed      *)
(* batch entry: the budgets stay within their bounds, and what is in hand  *)
(* is always a delivery.                                                   *)
(***************************************************************************)
THEOREM SqsTypeCorrect == Spec => []TypeOK
<1>1. Base => TypeOK
  BY DEF Base
<1> QED BY <1>1, BaseInit, BaseStep, PTL DEF Spec

-----------------------------------------------------------------------------
\* Why nothing is lost.

Live(i) == copies[i].state # "deleted"

\* A listener works on one delivery at a time, and acknowledges what its callback
\* returned for.
AckReturned ==
    \A c \in Listeners : /\ \A d, e \in hand[c] : d = e
                         /\ pc[c] = "ack" => hand[c] \subseteq returned

\* Before a requeuer deletes a batch, each message of it was handled, or has a copy
\* that is younger than the whole batch: that copy may have come to the dead-letter
\* queue meanwhile and be deleted by another requeuer, which by then has stored a
\* younger one.
StoredAgain ==
    \A r \in Requeuers : rpc[r] = "delete" =>
        \A d \in rbatch[r] :
            \/ MessageOf(d) \in handled
            \/ \E j \in DOMAIN copies : /\ Live(j) /\ copies[j].msg = MessageOf(d)
                                        /\ \A e \in rbatch[r] : e.copy < j

RInv == Base /\ AckReturned /\ StoredAgain

\* A listener comes to the acknowledgement only by its callback's return.
LEMMA AckStep ==
    ASSUME Base, [Next]_vars, NEW c \in Listeners
    PROVE  /\ hand'[c] = hand[c] \/ hand'[c] = {} \/ \E d : hand'[c] = {d}
           /\ pc'[c] = "ack" => /\ hand'[c] = hand[c]
                                /\ pc[c] = "ack" \/ \E d \in hand[c] : CallbackReturns(c, d)
<1> DEFINE Goal == /\ hand'[c] = hand[c] \/ hand'[c] = {} \/ \E d : hand'[c] = {d}
                   /\ pc'[c] = "ack" =>
                        /\ hand'[c] = hand[c]
                        /\ pc[c] = "ack" \/ \E d \in hand[c] : CallbackReturns(c, d)
<1>0. /\ pc \in [Listeners -> {"idle", "pull", "loop", "callback", "ack", "stopped", "dead"}]
      /\ hand \in [Listeners -> SUBSET Delivery]
  BY DEF Base, TypeOK
<1>1. ASSUME hand' = hand, pc' = pc
      PROVE  Goal
  BY <1>1
<1>2. ASSUME NEW a \in Listeners, NEW k \in {"idle", "pull", "loop", "callback", "stopped", "dead"},
             hand' = hand, pc' = [pc EXCEPT ![a] = k]
      PROVE  Goal
  BY <1>0, <1>2
<1>3. ASSUME NEW a \in Listeners, NEW k \in {"idle", "pull", "loop", "callback", "stopped", "dead"},
             NEW h, h = {} \/ \E d : h = {d},
             hand' = [hand EXCEPT ![a] = h], pc' = [pc EXCEPT ![a] = k]
      PROVE  Goal
  BY <1>0, <1>3
<1>4. ASSUME NEW a \in Listeners, NEW d \in hand[a], CallbackReturns(a, d)
      PROVE  Goal
  BY <1>0, <1>4 DEF CallbackReturns
<1> HIDE DEF Goal
<1>5. ASSUME NEW a \in Listeners, ListenerStep(a)
      PROVE  Goal
  <2>1. ASSUME NEW d \in batch[a], NextMessage(a, d)
        PROVE  Goal
    BY <2>1, <1>1, <1>3 DEF NextMessage
  <2>2. ASSUME NEW d \in batch[a], Dies(a, d)
        PROVE  Goal
    BY <2>2, <1>2 DEF Dies
  <2>3. CASE CheckShutdown(a) \/ PullMessages(a) \/ BatchDone(a)
    BY <2>3, <1>2 DEF CheckShutdown, PullMessages, BatchDone
  <2>4. CASE CallbackRaises(a) \/ AckMessage(a)
    BY <2>4, <1>3 DEF CallbackRaises, AckMessage
  <2> QED BY <1>4, <1>5, <2>1, <2>2, <2>3, <2>4 DEF ListenerStep
<1>6. ASSUME NEW a \in Listeners, SetShutdown(a) \/ AckSkipped(a) \/ Crash(a) \/ Restart(a)
      PROVE  Goal
  BY <1>6, <1>1, <1>2, <1>3 DEF SetShutdown, AckSkipped, Crash, Restart
<1>7. ASSUME NEW r \in Requeuers, \/ RequeuerStep(r) \/ StartRequeue(r)
                                  \/ RequeuePartialFailure(r) \/ RequeuerCrash(r)
      PROVE  Goal
  BY <1>7, <1>1 DEF RequeuerStep, RequeueReceive, RequeueFetch, RequeueSend, RequeueDelete, StartRequeue,
              RequeuePartialFailure, RequeuerCrash, listenerVars
<1>8. ASSUME NEW m \in Messages, PublishSucceeds(m) \/ PublishFails(m)
      PROVE  Goal
  BY <1>8, <1>1 DEF PublishSucceeds, PublishFails, Attempt, listenerVars
<1>9. ASSUME NEW i, VisibilityExpires(i) \/ Redrive(i)
      PROVE  Goal
  BY <1>9, <1>1 DEF VisibilityExpires, Redrive, listenerVars
<1>10. ASSUME UNCHANGED vars
       PROVE  Goal
  BY <1>10, <1>1 DEF vars, listenerVars
<1>11. Goal
  BY <1>5, <1>6, <1>7, <1>8, <1>9, <1>10 DEF Next, BrokerStep, vars
<1> QED BY <1>11 DEF Goal

\* What was returned stays so, and with it what was handled.
LEMMA ReturnedKept ==
    ASSUME Base, [Next]_vars
    PROVE  returned \subseteq returned' /\ handled \subseteq handled'
<1>1. returned \subseteq returned'
  BY DEF Next, BrokerStep, ListenerStep, RequeuerStep, vars, history, PublishSucceeds,
         PublishFails, Attempt, VisibilityExpires, Redrive, SetShutdown, CheckShutdown,
         PullMessages, NextMessage, Dies, BatchDone, CallbackReturns, CallbackRaises,
         AckMessage, AckSkipped, Crash, Restart, StartRequeue, RequeueReceive, RequeueFetch, RequeueSend,
         RequeuePartialFailure, RequeueDelete, RequeuerCrash
<1>2. \A d \in returned : MessageOf(d)' = MessageOf(d)
  BY KeptStep DEF CopiesKept, Evolves, Base, DeliveriesLocated, MessageOf
<1> QED BY <1>1, <1>2 DEF handled

LEMMA RequeuerStays ==
    ASSUME Base, [Next]_vars, NEW r \in Requeuers, rpc'[r] = "delete"
    PROVE  rbatch'[r] = rbatch[r] /\ (rpc[r] = "delete" \/ RequeueSend(r))
<1> DEFINE Goal == rbatch'[r] = rbatch[r] /\ (rpc[r] = "delete" \/ RequeueSend(r))
<1>0. /\ rpc \in [Requeuers -> {"off", "receive", "send", "delete", "done", "raised"}]
      /\ rbatch \in [Requeuers -> SUBSET Delivery]
  BY DEF Base, TypeOK
<1>1. ASSUME rbatch' = rbatch, rpc' = rpc
      PROVE  Goal
  BY <1>1
<1>2. ASSUME NEW x \in Requeuers, NEW k \in {"off", "receive", "send", "done", "raised"},
             rpc' = [rpc EXCEPT ![x] = k],
             rbatch' = rbatch \/ \E D : rbatch' = [rbatch EXCEPT ![x] = D]
      PROVE  Goal
  BY <1>0, <1>2
<1>3. ASSUME NEW x \in Requeuers, RequeueSend(x)
      PROVE  Goal
  BY <1>0, <1>3 DEF RequeueSend
<1> HIDE DEF Goal
<1>4. ASSUME NEW x \in Requeuers, RequeueReceive(x)
      PROVE  Goal
  <2>1. PICK S : /\ rbatch' = [rbatch EXCEPT ![x] = Deliveries(S)]
                 /\ rpc' = [rpc EXCEPT ![x] = IF S = {} THEN "done" ELSE "send"]
    BY <1>4 DEF RequeueReceive, RequeueFetch
  <2>2. (IF S = {} THEN "done" ELSE "send") \in {"off", "receive", "send", "done", "raised"}
    OBVIOUS
  <2> QED BY <1>2, <2>1, <2>2
<1>5. ASSUME NEW x \in Requeuers,
             StartRequeue(x) \/ RequeuePartialFailure(x) \/ RequeueDelete(x) \/ RequeuerCrash(x)
      PROVE  Goal
  BY <1>5, <1>2 DEF StartRequeue, RequeuePartialFailure, RequeueDelete, RequeuerCrash
<1>6. ASSUME NEW c \in Listeners,
             ListenerStep(c) \/ SetShutdown(c) \/ AckSkipped(c) \/ Crash(c) \/ Restart(c)
      PROVE  Goal
  BY <1>6, <1>1 DEF ListenerStep, CheckShutdown, PullMessages, BatchDone, NextMessage, Dies,
         CallbackReturns, CallbackRaises, AckMessage, SetShutdown, AckSkipped, Crash, Restart,
         requeuerVars
<1>7. ASSUME NEW m \in Messages, PublishSucceeds(m) \/ PublishFails(m)
      PROVE  Goal
  BY <1>7, <1>1 DEF PublishSucceeds, PublishFails, Attempt, requeuerVars
<1>8. ASSUME NEW i, VisibilityExpires(i) \/ Redrive(i)
      PROVE  Goal
  BY <1>8, <1>1 DEF VisibilityExpires, Redrive, requeuerVars
<1>9. ASSUME UNCHANGED vars
      PROVE  Goal
  BY <1>9, <1>1 DEF vars, requeuerVars
<1>10. Goal
  BY <1>3, <1>4, <1>5, <1>6, <1>7, <1>8, <1>9 DEF Next, BrokerStep, RequeuerStep, vars
<1> QED BY <1>10 DEF Goal

\* Only an acknowledgement and the deletion of a re-queued batch end a copy.
LEMMA CopyEnds ==
    ASSUME Base, [Next]_vars, NEW j \in DOMAIN copies, Live(j), copies'[j].state = "deleted"
    PROVE  \/ \E c \in Listeners : pc[c] = "ack" /\ \E d \in hand[c] : d.copy = j
           \/ \E r \in Requeuers :
                /\ rpc[r] = "delete"
                /\ \E D \in SUBSET rbatch[r] : /\ copies' \in Deletions(copies, D, "dlq")
                                              /\ \E d \in D : d.copy = j
<1> DEFINE Goal == \/ \E c \in Listeners : pc[c] = "ack" /\ \E d \in hand[c] : d.copy = j
                   \/ \E r \in Requeuers :
                        /\ rpc[r] = "delete"
                        /\ \E D \in SUBSET rbatch[r] :
                                /\ copies' \in Deletions(copies, D, "dlq")
                                /\ \E d \in D : d.copy = j
<1> USE DEF Base, Live
<1>0. copies \in Seq(CopyOf(Messages, SqsQueues))
  BY CopiesType
<1>1. ASSUME copies' = copies PROVE Goal
  BY <1>1
<1>2. ASSUME NEW m \in Messages, copies' = Append(copies, NewCopy(m)) PROVE Goal
  <2>1. copies' = Added(copies, m, "main") /\ "main" \in SqsQueues
    BY <1>2 DEF Added, NewCopy, SqsQueues
  <2>2. copies'[j] = copies[j]
    BY <1>0, <2>1, CopyAdded
  <2> QED BY <2>2
<1>3. ASSUME NEW S, copies' = Leased(copies, S) PROVE Goal
  <2>1. copies'[j].state \in {"hidden", copies[j].state}
    BY <1>0, <1>3, LeasedCopies
  <2> QED BY <2>1
<1>4. ASSUME NEW D, IsFiniteSet(D), \A d \in D : d.copy \in DOMAIN copies, copies' \in Sent(D)
      PROVE  Goal
  <2>1. PICK a \in Seq(CopyOf(Messages, SqsQueues)) : copies' = AllAdded(copies, a)
    BY <1>4, SentAdds
  <2>2. copies'[j] = copies[j]
    BY <1>0, <2>1, CopiesAdded
  <2> QED BY <2>2
<1>5. ASSUME NEW D, NEW q, copies' \in Deletions(copies, D, q)
      PROVE  \E d \in D : d.copy = j
  BY <1>0, <1>5, DeletedCopies
<1>6. ASSUME NEW i \in DOMAIN copies, VisibilityExpires(i) \/ Redrive(i)
      PROVE  Goal
  <2>1. copies' = Shown(copies, i) \/ copies' = WithQueue(copies, i, "dlq")
    BY <1>6 DEF VisibilityExpires, Redrive, Shown, WithQueue
  <2>2. "dlq" \in SqsQueues
    BY DEF SqsQueues
  <2>3. Shown(copies, i)[j].state \in {"visible", copies[j].state}
    BY <1>0, CopyShown
  <2>4. WithQueue(copies, i, "dlq")[j].state = copies[j].state
    BY <1>0, <2>2, CopyMoved
  <2> QED BY <2>1, <2>3, <2>4
<1>7. ASSUME NEW c \in Listeners, ListenerStep(c)
      PROVE  Goal
  <2>1. CASE AckMessage(c)
    BY <1>5, <2>1 DEF AckMessage
  <2>2. CASE PullMessages(c)
    BY <1>3, <2>2 DEF PullMessages
  <2> QED BY <1>1, <1>7, <2>1, <2>2
          DEF ListenerStep, CheckShutdown, BatchDone, NextMessage, Dies, CallbackReturns,
              CallbackRaises
<1>8. ASSUME NEW c \in Listeners, SetShutdown(c) \/ AckSkipped(c) \/ Crash(c) \/ Restart(c)
      PROVE  Goal
  BY <1>1, <1>8 DEF SetShutdown, AckSkipped, Crash, Restart
<1>9. ASSUME NEW r \in Requeuers, RequeueDelete(r)
      PROVE  Goal
  <2>1. PICK D \in SUBSET rbatch[r] : copies' \in Deletions(copies, D, "dlq")
    BY <1>9 DEF RequeueDelete
  <2> QED BY <1>5, <1>9, <2>1 DEF RequeueDelete
<1>10. ASSUME NEW r \in Requeuers, RequeueSend(r) \/ RequeuePartialFailure(r)
       PROVE  Goal
  <2>1. PICK D \in SUBSET rbatch[r] : copies' \in Sent(D)
    BY <1>10 DEF RequeueSend, RequeuePartialFailure
  <2>2. IsFiniteSet(D) /\ \A d \in D : d.copy \in DOMAIN copies
    BY FS_Subset DEF BatchesFinite, DeliveriesLocated
  <2> QED BY <1>4, <2>1, <2>2
<1>11. ASSUME NEW r \in Requeuers, RequeueReceive(r) \/ StartRequeue(r) \/ RequeuerCrash(r)
       PROVE  Goal
  BY <1>1, <1>3, <1>11 DEF RequeueReceive, RequeueFetch, StartRequeue, RequeuerCrash
<1>12. ASSUME NEW m \in Messages, PublishSucceeds(m) \/ PublishFails(m)
       PROVE  Goal
  BY <1>1, <1>2, <1>12 DEF PublishSucceeds, PublishFails
<1>13. ASSUME UNCHANGED vars PROVE Goal
  BY <1>1, <1>13 DEF vars
<1> HIDE DEF Goal, Base, Live
<1>14. Goal
  BY <1>6, <1>7, <1>8, <1>9, <1>10, <1>11, <1>12, <1>13 DEF Next, BrokerStep, RequeuerStep, vars
<1> QED BY <1>14 DEF Goal

LEMMA RInvInit == Init => RInv
<1>1. Init => AckReturned /\ StoredAgain
  BY DEF Init, AckReturned, StoredAgain
<1> QED BY <1>1, BaseInit DEF RInv

\* A message that is stored again while a requeuer has its batch stays stored until
\* it is handled.
LEMMA StoredAgainStep ==
    ASSUME RInv, [Next]_vars, NEW r \in Requeuers, NEW d \in rbatch[r],
           rpc[r] = "delete", rbatch'[r] = rbatch[r]
    PROVE  \/ MessageOf(d)' \in handled'
           \/ \E j \in DOMAIN copies' : /\ Live(j)' /\ copies'[j].msg = MessageOf(d)'
                                        /\ \A e \in rbatch'[r] : e.copy < j
<1> USE DEF RInv
<1>1. /\ handled \subseteq handled'
      /\ MessageOf(d)' = MessageOf(d)
      /\ \A j \in DOMAIN copies : j \in DOMAIN copies' /\ copies'[j].msg = copies[j].msg
  BY ReturnedKept, KeptStep DEF CopiesKept, Evolves, Base, DeliveriesLocated, MessageOf
<1>2. CASE MessageOf(d) \in handled
  BY <1>1, <1>2
<1>3. CASE MessageOf(d) \notin handled
  <2>1. PICK j \in DOMAIN copies : /\ Live(j) /\ copies[j].msg = MessageOf(d)
                                   /\ \A e \in rbatch[r] : e.copy < j
    BY <1>3 DEF StoredAgain
  <2>2. CASE copies'[j].state # "deleted"
    BY <1>1, <2>1, <2>2 DEF Live
  <2>3. CASE copies'[j].state = "deleted"
    <3>1. ASSUME NEW c \in Listeners, pc[c] = "ack", NEW a \in hand[c], a.copy = j
          PROVE  FALSE
      <4>1. a \in returned
        BY <3>1 DEF AckReturned
      <4> QED BY <1>3, <2>1, <3>1, <4>1 DEF handled, MessageOf
    <3>2. PICK x \in Requeuers : /\ rpc[x] = "delete"
                                 /\ \E D \in SUBSET rbatch[x] :
                                        /\ copies' \in Deletions(copies, D, "dlq")
                                        /\ \E a \in D : a.copy = j
      BY <2>1, <2>3, <3>1, CopyEnds
    <3>3. PICK D \in SUBSET rbatch[x] : /\ copies' \in Deletions(copies, D, "dlq")
                                        /\ \E a \in D : a.copy = j
      BY <3>2
    <3>4. PICK a \in D : a.copy = j
      BY <3>3
    <3>5. MessageOf(a) = MessageOf(d)
      BY <2>1, <3>4 DEF MessageOf
    <3>6. PICK k \in DOMAIN copies : /\ Live(k) /\ copies[k].msg = MessageOf(d)
                                     /\ \A e \in rbatch[x] : e.copy < k
      BY <1>3, <3>2, <3>4, <3>5 DEF StoredAgain
    <3>7. \A e \in D : e.copy # k
      <4>1. \A e \in D : e.copy \in Nat /\ e.copy < k
        BY <3>6 DEF Base, TypeOK, Delivery
      <4>2. k \in Nat
        BY CopiesType DEF Base
      <4> QED BY <4>1, <4>2
    <3>8. copies'[k].state # "deleted"
      BY <3>3, <3>6, <3>7, CopiesType, DeletedCopies DEF Base, Live
    <3>9. \A e \in rbatch[r] : e.copy < k
      <4>1. j < k
        BY <3>4, <3>6
      <4>2. j \in Nat /\ k \in Nat
        BY CopiesType DEF Base
      <4>3. \A e \in rbatch[r] : e.copy \in Nat /\ e.copy < j
        BY <2>1 DEF Base, TypeOK, Delivery
      <4> QED BY <4>1, <4>2, <4>3
    <3> QED BY <1>1, <3>6, <3>8, <3>9 DEF Live
  <2> QED BY <2>2, <2>3
<1> QED BY <1>2, <1>3

LEMMA RInvStep ==
    ASSUME RInv, [Next]_vars
    PROVE  RInv'
<1> USE DEF RInv
<1>1. Base'
  BY BaseStep
<1>2. AckReturned'
  <2> SUFFICES ASSUME NEW c \in Listeners
               PROVE  /\ \A d, e \in hand'[c] : d = e
                      /\ pc'[c] = "ack" => hand'[c] \subseteq returned'
    BY DEF AckReturned
  <2>1. \A d, e \in hand'[c] : d = e
    BY AckStep DEF AckReturned
  <2>2. ASSUME pc'[c] = "ack"
        PROVE  hand'[c] \subseteq returned'
    <3>1. CASE pc[c] = "ack"
      BY <2>2, <3>1, AckStep, ReturnedKept DEF AckReturned
    <3>2. ASSUME NEW d \in hand[c], CallbackReturns(c, d)
          PROVE  hand'[c] \subseteq returned'
      BY <3>2 DEF CallbackReturns, AckReturned
    <3> QED BY <2>2, <3>1, <3>2, AckStep
  <2> QED BY <2>1, <2>2
<1>3. StoredAgain'
  <2> SUFFICES ASSUME NEW r \in Requeuers, rpc'[r] = "delete", NEW d \in rbatch'[r]
               PROVE  \/ MessageOf(d)' \in handled'
                      \/ \E j \in DOMAIN copies' : /\ Live(j)' /\ copies'[j].msg = MessageOf(d)'
                                                   /\ \A e \in rbatch'[r] : e.copy < j
    BY DEF StoredAgain
  <2>1. rbatch'[r] = rbatch[r] /\ (rpc[r] = "delete" \/ RequeueSend(r))
    BY RequeuerStays
  <2>2. CASE rpc[r] = "delete"
    BY <2>1, <2>2, StoredAgainStep
  <2>3. CASE RequeueSend(r)
    <3>1. IsFiniteSet(rbatch[r]) /\ \A e \in rbatch[r] : e.copy \in DOMAIN copies
      BY DEF Base, BatchesFinite, DeliveriesLocated
    <3>2. PICK a \in Seq(CopyOf(Messages, SqsQueues)) :
            /\ copies' = AllAdded(copies, a)
            /\ \A k \in DOMAIN a : a[k].state = "visible"
            /\ \A e \in rbatch[r] : \E k \in DOMAIN a : a[k].msg = MessageOf(e)
      <4>1. TypeOK /\ copies' \in Sent(rbatch[r])
        BY <2>3 DEF RequeueSend, Base
      <4> HIDE DEF RInv
      <4>2. PICK a \in Seq(CopyOf(Messages, SqsQueues)) :
              /\ copies' = AllAdded(copies, a)
              /\ \A k \in DOMAIN a : /\ a[k].queue = "main" /\ a[k].state = "visible"
                                     /\ \E e \in rbatch[r] : a[k].msg = MessageOf(e)
              /\ \A e \in rbatch[r] : \E k \in DOMAIN a : a[k].msg = MessageOf(e)
        BY <3>1, <4>1, SentAdds
      <4>3. \A k \in DOMAIN a : a[k].state = "visible"
        BY <4>2
      <4> QED BY <4>2, <4>3
    <3>3. PICK k \in DOMAIN a : a[k].msg = MessageOf(d)
      BY <2>1, <3>2
    <3>4. /\ Len(copies) \in Nat /\ k \in Nat \ {0}
          /\ Len(copies) + k \in DOMAIN copies' /\ copies'[Len(copies) + k] = a[k]
          /\ \A i \in DOMAIN copies : i \in 1 .. Len(copies) /\ copies'[i] = copies[i]
      <4>1. copies \in Seq(CopyOf(Messages, SqsQueues))
        BY CopiesType DEF Base
      <4> HIDE DEF RInv
      <4>2. /\ Len(copies) \in Nat /\ k \in Nat \ {0}
            /\ Len(copies) + k \in DOMAIN AllAdded(copies, a)
            /\ AllAdded(copies, a)[Len(copies) + k] = a[k]
            /\ \A i \in DOMAIN copies : i \in 1 .. Len(copies) /\ AllAdded(copies, a)[i] = copies[i]
        BY <3>3, <4>1, CopiesAdded
      <4> QED BY <3>2, <4>2
    <3>5. \A e \in rbatch[r] : e.copy < Len(copies) + k
      BY <3>1, <3>4
    <3>6. MessageOf(d)' = MessageOf(d)
      BY <2>1, <3>1, <3>4 DEF MessageOf
    <3> QED BY <2>1, <3>2, <3>3, <3>4, <3>5, <3>6 DEF Live
  <2> QED BY <2>1, <2>2, <2>3
<1> QED BY <1>1, <1>2, <1>3

-----------------------------------------------------------------------------
\* The contract's steps: what each action does to published, queued, dead and handled.

Unseen == UNCHANGED <<published, queued, dead, handled>>

Returned(p) == {m \in Messages : p[m] = "returned"}

LEMMA ContractState ==
    /\ queued = MsgsIn(copies, "main") /\ dead = MsgsIn(copies, "dlq")
    /\ queued' = MsgsIn(copies', "main") /\ dead' = MsgsIn(copies', "dlq")
    /\ published = Stored(copies) \cup Returned(publishing)
    /\ published' = Stored(copies') \cup Returned(publishing')
BY DEF queued, dead, published, MsgsIn, CopiesIn, Stored, Returned

LEMMA HandledSame ==
    ASSUME Base, [Next]_vars, returned' = returned
    PROVE  handled' = handled
<1>1. \A d \in returned : MessageOf(d)' = MessageOf(d)
  BY KeptStep DEF CopiesKept, Evolves, Base, DeliveriesLocated, MessageOf
<1> QED BY <1>1 DEF handled

\* Steps that leave each copy its message, and each message where it was.
LEMMA QuietStep ==
    ASSUME Base, [Next]_vars, returned' = returned, Returned(publishing') = Returned(publishing),
           Stored(copies') = Stored(copies),
           MsgsIn(copies', "main") = MsgsIn(copies, "main"),
           MsgsIn(copies', "dlq") = MsgsIn(copies, "dlq")
    PROVE  Unseen
BY HandledSame, ContractState DEF Unseen

LEMMA LocalStep ==
    ASSUME Base, [Next]_vars, copies' = copies, returned' = returned,
           Returned(publishing') = Returned(publishing)
    PROVE  Unseen
<1>1. /\ Stored(copies') = Stored(copies)
      /\ MsgsIn(copies', "main") = MsgsIn(copies, "main")
      /\ MsgsIn(copies', "dlq") = MsgsIn(copies, "dlq")
  OBVIOUS
<1> QED BY <1>1, QuietStep

LEMMA ExpiryMaps ==
    ASSUME Base, [Next]_vars, NEW i \in DOMAIN copies, VisibilityExpires(i)
    PROVE  Unseen
<1>1. /\ copies' = Shown(copies, i) /\ copies[i].state # "deleted"
      /\ returned' = returned /\ publishing' = publishing
  BY DEF VisibilityExpires, Shown, publisherVars
<1>2. copies \in Seq(CopyOf(Messages, SqsQueues))
  BY CopiesType DEF Base
<1>3. /\ MsgsIn(Shown(copies, i), "main") = MsgsIn(copies, "main")
      /\ MsgsIn(Shown(copies, i), "dlq") = MsgsIn(copies, "dlq")
  BY <1>1, <1>2, MsgsShown
<1>4. Stored(Shown(copies, i)) = Stored(copies)
  <2> DEFINE z == Shown(copies, i)
  <2>1. DOMAIN z = DOMAIN copies /\ \A j \in DOMAIN copies : z[j].msg = copies[j].msg
    BY <1>1, <1>2, CopyShown
  <2> HIDE DEF z
  <2>2. Stored(z) = Stored(copies)
    BY <2>1, StoredSame
  <2> QED BY <2>2 DEF z
<1> QED BY <1>1, <1>3, <1>4, QuietStep

LEMMA ReceiveMaps ==
    ASSUME Base, [Next]_vars, NEW q, NEW S \in Received(q, NumMessages),
           copies' = Leased(copies, S), returned' = returned, publishing' = publishing
    PROVE  Unseen
<1>1. \A i \in S : copies[i].state # "deleted"
  BY DEF Received, Receivable, VisibleIn, CopiesIn
<1>2. copies \in Seq(CopyOf(Messages, SqsQueues))
  BY CopiesType DEF Base
<1>3. /\ MsgsIn(Leased(copies, S), "main") = MsgsIn(copies, "main")
      /\ MsgsIn(Leased(copies, S), "dlq") = MsgsIn(copies, "dlq")
  BY <1>1, <1>2, MsgsLeased
<1>4. Stored(Leased(copies, S)) = Stored(copies)
  BY <1>2, LeasedCopies DEF Stored
<1> QED BY <1>3, <1>4, QuietStep

LEMMA PublishMaps ==
    ASSUME Base, [Next]_vars, NEW m \in Messages, copies' = Append(copies, NewCopy(m)),
           returned' = returned, NEW k, publishing' = [publishing EXCEPT ![m] = k],
           publishing[m] # "returned"
    PROVE  Contract!Publish(m)
<1>1. copies' = Added(copies, m, "main") /\ "main" \in SqsQueues /\ "dlq" # "main"
  BY DEF Added, NewCopy, SqsQueues
<1>2. copies \in Seq(CopyOf(Messages, SqsQueues))
  BY CopiesType DEF Base
<1>3. /\ MsgsIn(Added(copies, m, "main"), "main") = MsgsIn(copies, "main") \cup {m}
      /\ MsgsIn(Added(copies, m, "main"), "dlq") = MsgsIn(copies, "dlq")
  BY <1>1, <1>2, MsgsAdded
<1>4. Stored(Added(copies, m, "main")) = Stored(copies) \cup {m}
  <2> DEFINE z == Added(copies, m, "main")
  <2>1. /\ Len(copies) + 1 \in DOMAIN z
        /\ \A j \in DOMAIN z : j \in DOMAIN copies \/ j = Len(copies) + 1
        /\ \A j \in DOMAIN copies : j \in DOMAIN z /\ z[j] = copies[j]
        /\ z[Len(copies) + 1] = NewCopyOn(m, "main")
    BY <1>1, <1>2, CopyAdded
  <2>2. z[Len(copies) + 1].msg = m
    BY <2>1 DEF NewCopyOn
  <2> HIDE DEF z
  <2>3. Stored(z) = Stored(copies) \cup {m}
    BY <2>1, <2>2 DEF Stored
  <2> QED BY <2>3 DEF z
<1>5. Returned(publishing) \subseteq Returned(publishing')
      /\ Returned(publishing') \subseteq Returned(publishing) \cup {m}
  BY DEF Returned, Base, TypeOK
<1>6. published' = published \cup {m}
  BY <1>1, <1>4, <1>5, ContractState
<1> QED BY <1>1, <1>3, <1>6, ContractState, HandledSame DEF Contract!Publish

LEMMA PublisherMaps ==
    ASSUME Base, [Next]_vars, NEW m \in Messages, PublishSucceeds(m) \/ PublishFails(m)
    PROVE  Contract!Publish(m) \/ Unseen
<1>1. publishing[m] # "returned" /\ returned' = returned
  BY DEF PublishSucceeds, PublishFails, Attempt, history
<1>2. CASE PublishSucceeds(m)
  BY <1>1, <1>2, PublishMaps DEF PublishSucceeds
<1>3. CASE PublishFails(m)
  <2>1. PICK k \in {"trying", "raised"} : publishing' = [publishing EXCEPT ![m] = k]
    BY <1>3 DEF PublishFails
  <2>2. CASE copies' = Append(copies, NewCopy(m))
    BY <1>1, <2>1, <2>2, PublishMaps
  <2>3. CASE copies' = copies
    <3>1. Returned(publishing') = Returned(publishing)
      BY <1>1, <2>1 DEF Returned, Base, TypeOK
    <3> QED BY <1>1, <2>3, <3>1, LocalStep
  <2> QED BY <1>3, <2>2, <2>3 DEF PublishFails
<1> QED BY <1>2, <1>3

LEMMA RedriveMaps ==
    ASSUME Base, [Next]_vars, NEW i \in DOMAIN copies, Redrive(i)
    PROVE  Contract!DeadLetter(copies[i].msg)
<1>1. /\ copies' = WithQueue(copies, i, "dlq") /\ "dlq" \in SqsQueues /\ "main" # "dlq"
      /\ i \in CopiesIn(copies, "main") /\ returned' = returned /\ publishing' = publishing
  BY DEF Redrive, WithQueue, VisibleIn, SqsQueues, history, publisherVars
<1>2. copies \in Seq(CopyOf(Messages, SqsQueues))
  BY CopiesType DEF Base
<1>3. /\ MsgsIn(WithQueue(copies, i, "dlq"), "dlq") = MsgsIn(copies, "dlq") \cup {copies[i].msg}
      /\ MsgsIn(WithQueue(copies, i, "dlq"), "main") \subseteq MsgsIn(copies, "main")
      /\ MsgsIn(copies, "main") \ {copies[i].msg} \subseteq MsgsIn(WithQueue(copies, i, "dlq"), "main")
  BY <1>1, <1>2, MsgsMoved
<1>4. Stored(WithQueue(copies, i, "dlq")) = Stored(copies)
  <2> DEFINE z == WithQueue(copies, i, "dlq")
  <2>1. DOMAIN z = DOMAIN copies /\ \A j \in DOMAIN copies : z[j].msg = copies[j].msg
    BY <1>1, <1>2, CopyMoved
  <2> HIDE DEF z
  <2>2. Stored(z) = Stored(copies)
    BY <2>1, StoredSame
  <2> QED BY <2>2 DEF z
<1>5. published' = published /\ copies[i].msg \in published
  <2>1. copies[i].msg \in Stored(copies)
    BY DEF Stored
  <2> QED BY <1>1, <1>4, <2>1, ContractState
<1>6. dead' = dead \cup {copies[i].msg} /\ handled' = handled
  BY <1>1, <1>3, ContractState, HandledSame
<1>7. queued' \in {queued, queued \ {copies[i].msg}}
  <2>1. queued' \subseteq queued /\ queued \ {copies[i].msg} \subseteq queued'
    BY <1>1, <1>3, ContractState
  <2> QED BY <2>1
<1> QED BY <1>5, <1>6, <1>7 DEF Contract!DeadLetter

LEMMA ReturnMaps ==
    ASSUME Base, [Next]_vars, NEW c \in Listeners, NEW d \in hand[c], CallbackReturns(c, d)
    PROVE  Contract!Handle(MessageOf(d))
<1>1. copies' = copies /\ publishing' = publishing /\ returned' = returned \cup {d}
  BY DEF CallbackReturns, publisherVars
<1>2. handled' = handled \cup {MessageOf(d)}
  BY <1>1 DEF handled, MessageOf
<1>3. MessageOf(d) \in published
  BY DEF MessageOf, published, Base, DeliveriesLocated
<1>4. UNCHANGED <<published, queued, dead>>
  BY <1>1 DEF published, queued, dead, CopiesIn
<1> QED BY <1>2, <1>3, <1>4 DEF Contract!Handle

\* Deleting deliveries takes messages of theirs from one queue.
LEMMA DeletionMaps ==
    ASSUME Base, [Next]_vars, NEW D, NEW q, copies' \in Deletions(copies, D, q),
           returned' = returned, publishing' = publishing
    PROVE  /\ published' = published /\ handled' = handled
           /\ \A t : t # q => MsgsIn(copies', t) = MsgsIn(copies, t)
           /\ MsgsIn(copies', q) \subseteq MsgsIn(copies, q)
           /\ \A m \in MsgsIn(copies, q) \ MsgsIn(copies', q) :
                \E d \in D : d.copy \in CopiesIn(copies, q) /\ MessageOf(d) = m
<1>1. copies \in Seq(CopyOf(Messages, SqsQueues))
  BY CopiesType DEF Base
<1>2. DOMAIN copies' = DOMAIN copies /\ \A i \in DOMAIN copies : copies'[i].msg = copies[i].msg
  BY <1>1, DeletedCopies
<1>3. Stored(copies') = Stored(copies)
  BY <1>2, StoredSame
<1>4. published' = published
  BY <1>3, ContractState
<1>5. /\ \A t : t # q => MsgsIn(copies', t) = MsgsIn(copies, t)
      /\ MsgsIn(copies', q) \subseteq MsgsIn(copies, q)
      /\ \A m \in MsgsIn(copies, q) \ MsgsIn(copies', q) :
            \E d \in D : d.copy \in CopiesIn(copies, q) /\ copies[d.copy].msg = m
  BY <1>1, MsgsDeleted
<1> QED BY <1>4, <1>5, HandledSame DEF MessageOf

LEMMA AckMaps ==
    ASSUME RInv, [Next]_vars, NEW c \in Listeners, AckMessage(c)
    PROVE  (\E m \in Messages : Contract!Settle(m)) \/ Unseen
<1>1. /\ copies' \in Deletions(copies, hand[c], "main") /\ returned' = returned
      /\ publishing' = publishing /\ "dlq" # "main"
  BY DEF AckMessage, history, publisherVars
<1>2. /\ published' = published /\ handled' = handled
      /\ \A t : t # "main" => MsgsIn(copies', t) = MsgsIn(copies, t)
      /\ MsgsIn(copies', "main") \subseteq MsgsIn(copies, "main")
      /\ \A m \in MsgsIn(copies, "main") \ MsgsIn(copies', "main") :
            \E d \in hand[c] : d.copy \in CopiesIn(copies, "main") /\ MessageOf(d) = m
  BY <1>1, DeletionMaps DEF RInv
<1>3. dead' = dead /\ queued' \subseteq queued
      /\ \A m \in queued \ queued' : \E d \in hand[c] : MessageOf(d) = m
  BY <1>1, <1>2, ContractState
<1>4. CASE queued' = queued
  BY <1>2, <1>3, <1>4 DEF Unseen
<1>5. CASE queued' # queued
  <2>1. PICK m \in queued \ queued' : TRUE
    BY <1>3, <1>5
  <2>2. PICK d \in hand[c] : MessageOf(d) = m
    BY <1>3, <2>1
  <2>3. hand[c] \subseteq returned /\ \A a, b \in hand[c] : a = b
    BY DEF RInv, AckReturned, AckMessage
  <2>4. \A n \in queued \ queued' : n = m
    BY <1>3, <2>2, <2>3
  <2>5. queued' = queued \ {m}
    BY <1>3, <2>1, <2>4
  <2>6. m \in handled
    BY <2>2, <2>3 DEF handled
  <2>7. m \in Messages
    BY <2>2, CopiesType DEF RInv, Base, DeliveriesLocated, MessageOf
  <2>8. Contract!Settle(m)
    BY <1>2, <1>3, <2>5, <2>6 DEF Contract!Settle
  <2> QED BY <2>7, <2>8
<1> QED BY <1>4, <1>5

LEMMA SendMaps ==
    ASSUME Base, [Next]_vars, NEW D, IsFiniteSet(D), \A d \in D : d.copy \in DOMAIN copies,
           copies' \in Sent(D), returned' = returned, publishing' = publishing
    PROVE  \E again \in SUBSET Messages : Contract!Requeue(again)
<1> DEFINE again == {MessageOf(d) : d \in D}
<1>1. PICK a \in Seq(CopyOf(Messages, SqsQueues)) :
        /\ copies' = AllAdded(copies, a)
        /\ \A k \in DOMAIN a : /\ a[k].queue = "main" /\ a[k].state = "visible"
                               /\ \E d \in D : a[k].msg = MessageOf(d)
        /\ \A d \in D : \E k \in DOMAIN a : a[k].msg = MessageOf(d)
  BY SentAdds DEF Base
<1>2. copies \in Seq(CopyOf(Messages, SqsQueues))
  BY CopiesType DEF Base
<1>3. Stored(a) = again
  BY <1>1 DEF Stored
<1>4. VisibleOn(a, "main")
  BY <1>1 DEF VisibleOn
<1>5. again \subseteq Stored(copies) /\ again \subseteq Messages
  <2>1. \A d \in D : MessageOf(d) \in Stored(copies) /\ MessageOf(d) \in Messages
    BY CopiesType DEF Base, MessageOf, Stored
  <2> QED BY <2>1
<1> HIDE DEF again
<1>6. /\ MsgsIn(AllAdded(copies, a), "main") = MsgsIn(copies, "main") \cup again
      /\ MsgsIn(AllAdded(copies, a), "dlq") = MsgsIn(copies, "dlq")
  <2>1. ASSUME NEW t
        PROVE  MsgsIn(AllAdded(copies, a), t) =
                 IF t = "main" THEN MsgsIn(copies, t) \cup Stored(a)
                               ELSE MsgsIn(copies, t)
    BY <1>2, <1>4, MsgsAllAdded
  <2>2. MsgsIn(AllAdded(copies, a), "main") = MsgsIn(copies, "main") \cup again
    BY <1>3, <2>1
  <2>3. MsgsIn(AllAdded(copies, a), "dlq") = MsgsIn(copies, "dlq")
    BY <2>1
  <2> QED BY <2>2, <2>3
<1>7. Stored(AllAdded(copies, a)) = Stored(copies) \cup again
  <2> DEFINE z == AllAdded(copies, a)
  <2>1. /\ \A i \in DOMAIN copies : i \in DOMAIN z /\ z[i] = copies[i]
        /\ \A i \in DOMAIN z : i \in DOMAIN copies
                                 \/ (i - Len(copies) \in DOMAIN a /\ z[i] = a[i - Len(copies)])
    BY <1>2, CopiesAdded
  <2>2. \A k \in DOMAIN a : a[k].msg \in again
    BY <1>3 DEF Stored
  <2> HIDE DEF z
  <2>3. \A i \in DOMAIN z : z[i].msg \in Stored(copies) \cup again
    BY <2>1, <2>2 DEF Stored
  <2>4. Stored(z) \subseteq Stored(copies) \cup again
    BY <2>3 DEF Stored
  <2>5. Stored(copies) \subseteq Stored(z)
    BY <2>1 DEF Stored
  <2>6. Stored(z) = Stored(copies) \cup again
    BY <1>5, <2>4, <2>5
  <2> QED BY <2>6 DEF z
<1>8. /\ published' = published /\ again \subseteq published
      /\ queued' = queued \cup again /\ dead' = dead /\ handled' = handled
  BY <1>1, <1>5, <1>6, <1>7, ContractState, HandledSame
<1>9. dead' = dead \ {} /\ {} \in SUBSET again
  BY <1>8
<1>10. Contract!Requeue(again)
  BY <1>8, <1>9 DEF Contract!Requeue
<1> QED BY <1>5, <1>10

LEMMA DeleteMaps ==
    ASSUME RInv, [Next]_vars, NEW r \in Requeuers, RequeueDelete(r)
    PROVE  \E gone \in SUBSET Messages : Contract!Discard(gone)
<1> DEFINE gone == dead \ dead'
<1>1. /\ returned' = returned /\ publishing' = publishing /\ "main" # "dlq"
      /\ rpc[r] = "delete"
  BY DEF RequeueDelete, history, publisherVars
<1>2. PICK D \in SUBSET rbatch[r] : copies' \in Deletions(copies, D, "dlq")
  BY DEF RequeueDelete
<1>3. /\ published' = published /\ handled' = handled
      /\ \A t : t # "dlq" => MsgsIn(copies', t) = MsgsIn(copies, t)
      /\ MsgsIn(copies', "dlq") \subseteq MsgsIn(copies, "dlq")
      /\ \A m \in MsgsIn(copies, "dlq") \ MsgsIn(copies', "dlq") :
            \E d \in D : d.copy \in CopiesIn(copies, "dlq") /\ MessageOf(d) = m
  BY <1>1, <1>2, DeletionMaps DEF RInv
<1>4. queued' = queued /\ dead' \subseteq dead
      /\ \A m \in gone : \E d \in D : MessageOf(d) = m
  BY <1>1, <1>3, ContractState
<1>5. ASSUME NEW m \in gone
      PROVE  m \in queued \cup handled /\ m \in Messages
  <2>1. PICK d \in D : MessageOf(d) = m
    BY <1>4
  <2>2. m \in Messages
    BY <2>1, CopiesType DEF RInv, Base, DeliveriesLocated, MessageOf
  <2>3. CASE m \in handled
    BY <2>2, <2>3
  <2>4. CASE m \notin handled
    <3>1. PICK j \in DOMAIN copies : /\ Live(j) /\ copies[j].msg = m
                                     /\ \A e \in rbatch[r] : e.copy < j
      BY <1>1, <2>1, <2>4 DEF RInv, StoredAgain
    <3>2. CASE copies[j].queue = "main"
      <4>1. j \in CopiesIn(copies, "main")
        BY <3>1, <3>2 DEF CopiesIn, Live
      <4> QED BY <2>2, <3>1, <4>1 DEF queued
    <3>3. CASE copies[j].queue = "dlq"
      <4>1. \A e \in D : e.copy # j
        <5>1. j \in Nat
          BY CopiesType DEF RInv, Base
        <5> QED BY <3>1, <5>1 DEF RInv, Base, TypeOK, Delivery
      <4>2. copies \in Seq(CopyOf(Messages, SqsQueues))
        BY CopiesType DEF RInv, Base
      <4>3. /\ j \in DOMAIN copies' /\ copies'[j].state = copies[j].state
            /\ copies'[j].queue = copies[j].queue /\ copies'[j].msg = copies[j].msg
        BY <1>2, <4>1, <4>2, DeletedCopies
      <4>4. j \in CopiesIn(copies', "dlq")
        BY <3>1, <3>3, <4>3 DEF CopiesIn, Live
      <4>5. m \in MsgsIn(copies', "dlq")
        BY <3>1, <4>3, <4>4 DEF MsgsIn
      <4> QED BY <1>5, <4>5, ContractState
    <3> QED BY <3>1, <3>2, <3>3, CopiesType DEF RInv, Base
  <2> QED BY <2>3, <2>4
<1>6. dead' = dead \ gone
  BY <1>4
<1> HIDE DEF gone
<1>7. Contract!Discard(gone) /\ gone \in SUBSET Messages
  BY <1>3, <1>4, <1>5, <1>6 DEF Contract!Discard
<1> QED BY <1>7

LEMMA StepMaps ==
    ASSUME RInv, [Next]_vars
    PROVE  Contract!Next \/ Unseen
<1>0. Base
  BY DEF RInv
<1>1. ASSUME NEW m \in Messages, PublishSucceeds(m) \/ PublishFails(m)
      PROVE  Contract!Next \/ Unseen
  BY <1>0, <1>1, PublisherMaps DEF Contract!Next
<1>2. ASSUME NEW i \in DOMAIN copies, VisibilityExpires(i)
      PROVE  Unseen
  BY <1>0, <1>2, ExpiryMaps
<1>3. ASSUME NEW i \in DOMAIN copies, Redrive(i)
      PROVE  Contract!Next
  BY <1>0, <1>3, RedriveMaps, CopiesType DEF Base, Contract!Next
<1>4. ASSUME NEW c \in Listeners, PullMessages(c)
      PROVE  Unseen
  BY <1>0, <1>4, ReceiveMaps DEF PullMessages, history, publisherVars
<1>5. ASSUME NEW c \in Listeners, NEW d \in hand[c], CallbackReturns(c, d)
      PROVE  Contract!Next
  <2>1. MessageOf(d) \in Messages
    BY <1>0, CopiesType DEF Base, DeliveriesLocated, MessageOf
  <2> QED BY <1>0, <1>5, <2>1, ReturnMaps DEF Contract!Next
<1>6. ASSUME NEW c \in Listeners, AckMessage(c)
      PROVE  Contract!Next \/ Unseen
  BY <1>6, AckMaps DEF Contract!Next
<1>7. ASSUME NEW c \in Listeners,
             \/ CheckShutdown(c) \/ BatchDone(c) \/ CallbackRaises(c)
             \/ SetShutdown(c) \/ AckSkipped(c) \/ Crash(c) \/ Restart(c)
             \/ \E d \in batch[c] : NextMessage(c, d) \/ Dies(c, d)
      PROVE  Unseen
  BY <1>0, <1>7, LocalStep
     DEF CheckShutdown, BatchDone, CallbackRaises, SetShutdown, AckSkipped, Crash, Restart,
         NextMessage, Dies, history, publisherVars
<1>8. ASSUME NEW r \in Requeuers, RequeueReceive(r)
      PROVE  Unseen
  BY <1>0, <1>8, ReceiveMaps DEF RequeueReceive, RequeueFetch, history, publisherVars
<1>9. ASSUME NEW r \in Requeuers, RequeueSend(r) \/ RequeuePartialFailure(r)
      PROVE  Contract!Next
  <2>1. PICK D \in SUBSET rbatch[r] : copies' \in Sent(D)
    BY <1>9 DEF RequeueSend, RequeuePartialFailure
  <2>2. IsFiniteSet(D) /\ \A d \in D : d.copy \in DOMAIN copies
    BY <1>0, FS_Subset DEF Base, BatchesFinite, DeliveriesLocated
  <2>3. returned' = returned /\ publishing' = publishing
    BY <1>9 DEF RequeueSend, RequeuePartialFailure, history, publisherVars
  <2> QED BY <1>0, <2>1, <2>2, <2>3, SendMaps DEF Contract!Next
<1>10. ASSUME NEW r \in Requeuers, RequeueDelete(r)
       PROVE  Contract!Next
  BY <1>10, DeleteMaps DEF Contract!Next
<1>11. ASSUME NEW r \in Requeuers, StartRequeue(r) \/ RequeuerCrash(r)
       PROVE  Unseen
  BY <1>0, <1>11, LocalStep DEF StartRequeue, RequeuerCrash, history, publisherVars
<1>12. CASE UNCHANGED vars
  BY <1>0, <1>12, LocalStep DEF vars, history, publisherVars
<1> QED BY <1>1, <1>2, <1>3, <1>4, <1>5, <1>6, <1>7, <1>8, <1>9, <1>10, <1>11, <1>12
        DEF Next, BrokerStep, ListenerStep, RequeuerStep

LEMMA InitMaps == Init => Contract!Init
BY DEF Init, Contract!Init, published, queued, dead, handled, CopiesIn

(***************************************************************************)
(* The backend implements the contract: nothing leaves a queue that was    *)
(* not handled or stored again, through stale receipt handles, failed      *)
(* batch entries, crashes and requeuers that work on the same messages.    *)
(***************************************************************************)
THEOREM SqsImplementsAtLeastOnce == Spec => ImplementsAtLeastOnce
<1>1. RInv /\ [Next]_vars => [Contract!Next]_(Contract!vars)
  BY StepMaps DEF Unseen, Contract!vars
<1>2. RInv /\ [Next]_vars => RInv'
  BY RInvStep
<1> QED BY <1>1, <1>2, InitMaps, RInvInit, PTL DEF Spec, ImplementsAtLeastOnce, Contract!Spec

\* The contract's own invariant, over the mapped variables.
LEMMA ContractKeepsMessages ==
    Contract!NoLoss /\ [Contract!Next]_(Contract!vars) => Contract!NoLoss'
BY DEF Contract!NoLoss, Contract!Next, Contract!vars, Contract!Publish, Contract!Handle,
       Contract!Settle, Contract!DeadLetter, Contract!Requeue, Contract!Discard

(***************************************************************************)
(* No message is lost that SQS stored, or whose publish returned: it was   *)
(* handled, or a copy of it that is not deleted is on the queue or on the  *)
(* dead-letter queue.                                                      *)
(***************************************************************************)
THEOREM SqsNoMessageIsLost == Spec => []NoMessageLost
<1>1. Contract!Init => Contract!NoLoss
  BY DEF Contract!Init, Contract!NoLoss
<1>2. Contract!NoLoss => NoMessageLost
  BY DEF Contract!NoLoss, NoMessageLost
<1> QED BY <1>1, <1>2, ContractKeepsMessages, SqsImplementsAtLeastOnce, PTL
        DEF ImplementsAtLeastOnce, Contract!Spec

-----------------------------------------------------------------------------
\* Why nothing is done twice while messages are done in time and nothing fails.

OnTime == ~late /\ failures = 0

\* d is the latest delivery of its copy, which is on queue s.
Latest(d, s) == /\ copies[d.copy].state # "visible" /\ copies[d.copy].queue = s
                /\ d.receipt = copies[d.copy].receives

Acking(d) == \E c \in Listeners : pc[c] = "ack" /\ d \in hand[c]

\* Who holds a delivery holds the latest of its copy, so a copy is held once; and
\* what was returned is the latest of its copy for good, because the copy is gone
\* or is being acknowledged.
Order ==
    /\ \A c \in Listeners : \A d \in batch[c] \cup hand[c] : Latest(d, "main")
    /\ \A r \in Requeuers : \A d \in rbatch[r] : Latest(d, "dlq")
    /\ \A d \in returned : d.receipt = copies[d.copy].receives
                              /\ (copies[d.copy].state = "deleted" \/ Acking(d))

\* The copy stays as it is, or it is deleted.
Untouched(j) == /\ copies'[j].receives = copies[j].receives
                /\ copies'[j].queue = copies[j].queue
                /\ copies'[j].state = copies[j].state \/ copies'[j].state = "deleted"

\* d is in hand, or was returned.
Watched(d) == \/ \E c \in Listeners : d \in batch[c] \cup hand[c]
              \/ \E r \in Requeuers : d \in rbatch[r]
              \/ d \in returned

LEMMA WatchedLocated ==
    ASSUME Base
    PROVE  \A d : Watched(d) => d.copy \in DOMAIN copies
BY DEF Watched, Base, DeliveriesLocated

LEMMA WatchedNotVisible ==
    ASSUME Order
    PROVE  \A d : Watched(d) => copies[d.copy].state # "visible"
<1>1. ASSUME NEW d \in returned
      PROVE  copies[d.copy].state # "visible"
  BY DEF Order, Acking, Latest
<1>2. ASSUME NEW c \in Listeners, NEW d \in batch[c] \cup hand[c]
      PROVE  copies[d.copy].state # "visible"
  BY DEF Order, Latest
<1>3. ASSUME NEW r \in Requeuers, NEW d \in rbatch[r]
      PROVE  copies[d.copy].state # "visible"
  BY DEF Order, Latest
<1> QED BY <1>1, <1>2, <1>3 DEF Watched

LEMMA OrderKept ==
    ASSUME Order,
           \A d : Watched(d) => Untouched(d.copy),
           \A c \in Listeners : \A d \in batch'[c] \cup hand'[c] :
                d \in batch[c] \cup hand[c] \/ Latest(d, "main")',
           \A r \in Requeuers : \A d \in rbatch'[r] : d \in rbatch[r] \/ Latest(d, "dlq")',
           \A d \in returned' :
                d \in returned \/ (Acking(d)' /\ d.receipt = copies'[d.copy].receives),
           \A d \in returned : Acking(d) => Acking(d)' \/ copies'[d.copy].state = "deleted"
    PROVE  Order'
<1>1. \A c \in Listeners : \A d \in batch'[c] \cup hand'[c] : Latest(d, "main")'
  <2> SUFFICES ASSUME NEW c \in Listeners, NEW d \in batch[c] \cup hand[c]
               PROVE  Latest(d, "main")'
    OBVIOUS
  <2>1. Latest(d, "main") /\ Untouched(d.copy)
    BY DEF Watched, Order
  <2> QED BY <2>1 DEF Latest, Untouched
<1>2. \A r \in Requeuers : \A d \in rbatch'[r] : Latest(d, "dlq")'
  <2> SUFFICES ASSUME NEW r \in Requeuers, NEW d \in rbatch[r]
               PROVE  Latest(d, "dlq")'
    OBVIOUS
  <2>1. Latest(d, "dlq") /\ Untouched(d.copy)
    BY DEF Watched, Order
  <2> QED BY <2>1 DEF Latest, Untouched
<1>3. \A d \in returned' : d.receipt = copies'[d.copy].receives
                              /\ (copies'[d.copy].state = "deleted" \/ Acking(d)')
  <2> SUFFICES ASSUME NEW d \in returned
               PROVE  d.receipt = copies'[d.copy].receives
                        /\ (copies'[d.copy].state = "deleted" \/ Acking(d)')
    OBVIOUS
  <2>1. Untouched(d.copy) /\ d.receipt = copies[d.copy].receives
        /\ (copies[d.copy].state = "deleted" \/ Acking(d))
    BY DEF Watched, Order
  <2> QED BY <2>1 DEF Untouched
<1> QED BY <1>1, <1>2, <1>3 DEF Order

\* Steps that touch no copy, hand nothing out, and leave acknowledgements alone.
LEMMA OrderLocal ==
    ASSUME Order, copies' = copies, returned' = returned,
           \A c \in Listeners : batch'[c] \cup hand'[c] \subseteq batch[c] \cup hand[c],
           \A c \in Listeners : pc[c] = "ack" => pc'[c] = "ack" /\ hand'[c] = hand[c],
           \A r \in Requeuers : rbatch'[r] \subseteq rbatch[r]
    PROVE  Order'
<1>1. \A d : Watched(d) => Untouched(d.copy)
  BY DEF Untouched
<1>2. \A d : Acking(d) => Acking(d)'
  BY DEF Acking
<1> QED BY <1>1, <1>2, OrderKept

\* Steps of others than listeners, that touch no copy that is held or was returned.
LEMMA OrderElsewhere ==
    ASSUME Order, \A d : Watched(d) => Untouched(d.copy),
           batch' = batch, hand' = hand, pc' = pc, returned' = returned,
           \A r \in Requeuers : \A d \in rbatch'[r] : d \in rbatch[r] \/ Latest(d, "dlq")'
    PROVE  Order'
<1>1. \A d : Acking(d) => Acking(d)'
  BY DEF Acking
<1> QED BY <1>1, OrderKept

LEMMA OrderReceived ==
    ASSUME Base, Order, NEW q, NEW S \in Received(q, NumMessages), copies' = Leased(copies, S)
    PROVE  /\ \A d : Watched(d) => Untouched(d.copy)
           /\ \A d \in Deliveries(S) : Latest(d, q)'
<1>1. copies \in Seq(CopyOf(Messages, SqsQueues))
  BY CopiesType DEF Base
<1>2. \A j \in DOMAIN copies :
        /\ copies'[j].queue = copies[j].queue
        /\ copies'[j].receives = IF j \in S THEN copies[j].receives + 1 ELSE copies[j].receives
        /\ copies'[j].state = IF j \in S THEN "hidden" ELSE copies[j].state
  BY <1>1, LeasedCopies
<1>3. /\ \A d \in Deliveries(S) : d.copy \in S /\ d.receipt = copies[d.copy].receives + 1
      /\ \A i \in S : i \in DOMAIN copies /\ copies[i].state = "visible" /\ copies[i].queue = q
  BY DeliveriesType DEF Base, VisibleIn, CopiesIn
<1>4. \A d : Watched(d) => d.copy \in DOMAIN copies /\ d.copy \notin S
  BY <1>3, WatchedNotVisible, WatchedLocated
<1>5. \A d \in Deliveries(S) : Latest(d, q)'
  BY <1>2, <1>3 DEF Latest
<1> QED BY <1>2, <1>4, <1>5 DEF Untouched

LEMMA OrderDeleted ==
    ASSUME Base, NEW D, NEW q, copies' \in Deletions(copies, D, q)
    PROVE  /\ \A d : Watched(d) => Untouched(d.copy)
           /\ \A d \in D : d.copy \in DOMAIN copies /\ Latest(d, q)
                => copies'[d.copy].state = "deleted"
<1>1. copies \in Seq(CopyOf(Messages, SqsQueues))
  BY CopiesType DEF Base
<1>2. /\ \A j \in DOMAIN copies :
            /\ copies'[j].queue = copies[j].queue /\ copies'[j].receives = copies[j].receives
            /\ copies'[j].state = copies[j].state \/ copies'[j].state = "deleted"
      /\ \A d \in D : d.copy \in CopiesIn(copies, q) /\ d.receipt = copies[d.copy].receives
            => copies'[d.copy].state = "deleted"
  BY <1>1, DeletedCopies
<1>3. \A d : Watched(d) => d.copy \in DOMAIN copies
  BY WatchedLocated
<1> QED BY <1>2, <1>3 DEF Untouched, Latest, CopiesIn

LEMMA OrderSent ==
    ASSUME Base, NEW D, IsFiniteSet(D), \A d \in D : d.copy \in DOMAIN copies, copies' \in Sent(D)
    PROVE  \A d : Watched(d) => Untouched(d.copy)
<1>1. copies \in Seq(CopyOf(Messages, SqsQueues))
  BY CopiesType DEF Base
<1>2. PICK a \in Seq(CopyOf(Messages, SqsQueues)) : copies' = AllAdded(copies, a)
  BY SentAdds DEF Base
<1>3. \A j \in DOMAIN copies : copies'[j] = copies[j]
  BY <1>1, <1>2, CopiesAdded
<1>4. \A d : Watched(d) => d.copy \in DOMAIN copies
  BY WatchedLocated
<1> QED BY <1>3, <1>4 DEF Untouched

LEMMA OrderPublished ==
    ASSUME Base, NEW m \in Messages, copies' = Append(copies, NewCopy(m))
    PROVE  \A d : Watched(d) => Untouched(d.copy)
<1>1. copies \in Seq(CopyOf(Messages, SqsQueues))
  BY CopiesType DEF Base
<1>2. copies' = Added(copies, m, "main") /\ "main" \in SqsQueues
  BY DEF Added, NewCopy, SqsQueues
<1>3. \A j \in DOMAIN copies : copies'[j] = copies[j]
  BY <1>1, <1>2, CopyAdded
<1>4. \A d : Watched(d) => d.copy \in DOMAIN copies
  BY WatchedLocated
<1> QED BY <1>3, <1>4 DEF Untouched

\* Nothing that was late or failed is undone, and no step of a time without failures fails.
LEMMA OnTimeBefore ==
    ASSUME Base, [Next]_vars, OnTime'
    PROVE  OnTime /\ ~Fail
<1>0. failures \in Nat
  BY BoundsAssumption DEF Base, TypeOK
<1>1. ~Fail
  BY <1>0 DEF OnTime, Fail
<1>2. ASSUME NEW c \in Listeners, ListenerStep(c)
      PROVE  OnTime
  BY <1>2 DEF ListenerStep, CheckShutdown, PullMessages, BatchDone, NextMessage, Dies,
              CallbackReturns, CallbackRaises, AckMessage, OnTime, history, budgets
<1>3. ASSUME NEW c \in Listeners, SetShutdown(c) \/ AckSkipped(c) \/ Crash(c) \/ Restart(c)
      PROVE  OnTime
  BY <1>1, <1>3 DEF SetShutdown, AckSkipped, Crash, Restart, OnTime, history, budgets
<1>4. ASSUME NEW r \in Requeuers,
             \/ RequeuerStep(r) \/ StartRequeue(r) \/ RequeuePartialFailure(r) \/ RequeuerCrash(r)
      PROVE  OnTime
  BY <1>1, <1>4 DEF RequeuerStep, RequeueReceive, RequeueFetch, RequeueSend, RequeueDelete, StartRequeue,
                    RequeuePartialFailure, RequeuerCrash, OnTime, history, budgets
<1>5. ASSUME NEW m \in Messages, PublishSucceeds(m) \/ PublishFails(m)
      PROVE  OnTime
  BY <1>1, <1>5 DEF PublishSucceeds, PublishFails, Attempt, OnTime, history, budgets
<1>6. ASSUME NEW i, VisibilityExpires(i) \/ Redrive(i)
      PROVE  OnTime
  <2>1. failures' = failures
    BY <1>6 DEF VisibilityExpires, Redrive, budgets
  <2>2. CASE VisibilityExpires(i)
    <3>1. late' = (late \/ \E d \in Held : d.copy = i)
      BY <2>2 DEF VisibilityExpires
    <3> QED BY <2>1, <3>1 DEF OnTime
  <2>3. CASE Redrive(i)
    BY <2>1, <2>3 DEF Redrive, history, OnTime
  <2> QED BY <1>6, <2>2, <2>3
<1>7. ASSUME UNCHANGED vars
      PROVE  OnTime
  <2>1. failures' = failures /\ (late => late')
    BY <1>7 DEF vars, history, budgets
  <2> QED BY <2>1 DEF OnTime
<1> QED BY <1>1, <1>2, <1>3, <1>4, <1>5, <1>6, <1>7 DEF Next, BrokerStep

LEMMA HeldIncludes ==
    /\ \A c \in Listeners : batch[c] \cup hand[c] \subseteq Held
    /\ \A r \in Requeuers : rbatch[r] \subseteq Held
BY DEF Held

LEMMA OrderBroker ==
    ASSUME Base, Order, OnTime', NEW i \in DOMAIN copies, VisibilityExpires(i) \/ Redrive(i)
    PROVE  Order'
<1>1. copies \in Seq(CopyOf(Messages, SqsQueues)) /\ "dlq" \in SqsQueues
  BY CopiesType DEF Base, SqsQueues
<1>2. batch' = batch /\ hand' = hand /\ pc' = pc /\ returned' = returned /\ rbatch' = rbatch
  BY DEF VisibilityExpires, Redrive, listenerVars, requeuerVars, history
<1>3. ASSUME \A d : Watched(d) => d.copy # i
      PROVE  \A d : Watched(d) => Untouched(d.copy)
  <2>1. CASE VisibilityExpires(i)
    <3>1. copies' = Shown(copies, i)
      BY <2>1 DEF VisibilityExpires, Shown
    <3>2. \A j \in DOMAIN copies : j # i => Untouched(j)
      BY <1>1, <3>1, CopyShown DEF Untouched
    <3> QED BY <1>3, <3>2, WatchedLocated
  <2>2. CASE Redrive(i)
    <3>1. copies' = WithQueue(copies, i, "dlq")
      BY <2>2 DEF Redrive, WithQueue
    <3>2. \A j \in DOMAIN copies : j # i => Untouched(j)
      BY <1>1, <3>1, CopyMoved DEF Untouched
    <3> QED BY <1>3, <3>2, WatchedLocated
  <2> QED BY <2>1, <2>2
<1>4. ASSUME NEW d, Watched(d), d.copy = i
      PROVE  FALSE
  <2>1. CASE Redrive(i)
    BY <1>4, <2>1, WatchedNotVisible DEF Redrive, VisibleIn
  <2>2. CASE VisibilityExpires(i)
    <3>1. d \notin Held /\ copies[i].state # "deleted"
      BY <1>4, <2>2 DEF VisibilityExpires, OnTime
    <3>2. d \in returned
      BY <1>4, <3>1, HeldIncludes DEF Watched
    <3>3. Acking(d)
      BY <1>4, <3>1, <3>2 DEF Order
    <3> QED BY <3>1, <3>3, HeldIncludes DEF Acking
  <2> QED BY <2>1, <2>2
<1> QED BY <1>2, <1>3, <1>4, OrderElsewhere

LEMMA OrderListener ==
    ASSUME Base, AckReturned, Order, NEW c \in Listeners, ListenerStep(c)
    PROVE  Order'
<1>0. /\ pc \in [Listeners -> {"idle", "pull", "loop", "callback", "ack", "stopped", "dead"}]
      /\ hand \in [Listeners -> SUBSET Delivery] /\ batch \in [Listeners -> SUBSET Delivery]
  BY DEF Base, TypeOK
<1>1. CASE PullMessages(c)
  <2>1. PICK S \in Received("main", NumMessages) :
           /\ copies' = Leased(copies, S)
           /\ batch' = [batch EXCEPT ![c] = Deliveries(S)]
           /\ pc' = [pc EXCEPT ![c] = IF S = {} THEN "idle" ELSE "loop"]
    BY <1>1 DEF PullMessages
  <2>2. hand' = hand /\ rbatch' = rbatch /\ returned' = returned /\ pc[c] # "ack"
    BY <1>1 DEF PullMessages, requeuerVars, history
  <2>3. /\ \A d : Watched(d) => Untouched(d.copy)
        /\ \A d \in Deliveries(S) : Latest(d, "main")'
    BY <2>1, OrderReceived
  <2>4. \A b \in Listeners : \A d \in batch'[b] \cup hand'[b] :
            d \in batch[b] \cup hand[b] \/ Latest(d, "main")'
    BY <1>0, <2>1, <2>2, <2>3
  <2>5. \A d : Acking(d) => Acking(d)'
    BY <1>0, <2>1, <2>2 DEF Acking
  <2> QED BY <2>2, <2>3, <2>4, <2>5, OrderKept
<1>2. ASSUME NEW d \in hand[c], CallbackReturns(c, d)
      PROVE  Order'
  <2>1. /\ copies' = copies /\ batch' = batch /\ hand' = hand /\ rbatch' = rbatch
        /\ returned' = returned \cup {d} /\ pc'[c] = "ack"
        /\ \A b \in Listeners : pc[b] = "ack" => pc'[b] = "ack"
    BY <1>0, <1>2 DEF CallbackReturns, requeuerVars
  <2>2. \A e : Acking(e) => Acking(e)'
    BY <2>1 DEF Acking
  <2>3. Acking(d)' /\ d.receipt = copies'[d.copy].receives
    BY <2>1 DEF Acking, Order, Latest
  <2>4. \A e : Watched(e) => Untouched(e.copy)
    BY <2>1 DEF Untouched
  <2> QED BY <2>1, <2>2, <2>3, <2>4, OrderKept
<1>3. CASE AckMessage(c)
  <2>1. /\ copies' \in Deletions(copies, hand[c], "main")
        /\ pc' = [pc EXCEPT ![c] = "loop"] /\ hand' = [hand EXCEPT ![c] = {}]
        /\ batch' = batch /\ rbatch' = rbatch /\ returned' = returned
    BY <1>3 DEF AckMessage, requeuerVars, history
  <2>2. /\ \A d : Watched(d) => Untouched(d.copy)
        /\ \A d \in hand[c] : d.copy \in DOMAIN copies /\ Latest(d, "main")
             => copies'[d.copy].state = "deleted"
    BY <2>1, OrderDeleted
  <2>3. \A d \in hand[c] : copies'[d.copy].state = "deleted"
    BY <2>2 DEF Base, DeliveriesLocated, Order
  <2>4. \A d : Acking(d) => Acking(d)' \/ copies'[d.copy].state = "deleted"
    BY <1>0, <2>1, <2>3 DEF Acking
  <2>5. \A b \in Listeners : batch'[b] \cup hand'[b] \subseteq batch[b] \cup hand[b]
    BY <1>0, <2>1
  <2> QED BY <2>1, <2>2, <2>4, <2>5, OrderKept
<1>4. ASSUME NEW d \in batch[c], NextMessage(c, d) \/ Dies(c, d)
      PROVE  Order'
  <2>1. /\ copies' = copies /\ returned' = returned /\ rbatch' = rbatch
        /\ pc[c] = "loop" /\ \E k : pc' = [pc EXCEPT ![c] = k]
    <3>1. pc = [pc EXCEPT ![c] = pc[c]]
      BY <1>0
    <3> QED BY <1>4, <3>1 DEF NextMessage, Dies, requeuerVars, history
  <2>2. \/ hand' = hand /\ batch' = [batch EXCEPT ![c] = {}]
        \/ batch' = [batch EXCEPT ![c] = @ \ {d}] /\ (hand' = hand \/ hand' = [hand EXCEPT ![c] = {d}])
    BY <1>4 DEF NextMessage, Dies
  <2>3. \A b \in Listeners : batch'[b] \cup hand'[b] \subseteq batch[b] \cup hand[b]
    BY <1>0, <2>2
  <2>4. \A b \in Listeners : pc[b] = "ack" => pc'[b] = "ack" /\ hand'[b] = hand[b]
    BY <1>0, <2>1, <2>2
  <2> QED BY <2>1, <2>3, <2>4, OrderLocal
<1>5. CASE CheckShutdown(c) \/ BatchDone(c) \/ CallbackRaises(c)
  <2>1. /\ copies' = copies /\ returned' = returned /\ rbatch' = rbatch /\ batch' = batch
        /\ pc[c] # "ack" /\ \E k : pc' = [pc EXCEPT ![c] = k]
        /\ hand' = hand \/ hand' = [hand EXCEPT ![c] = {}]
    BY <1>5 DEF CheckShutdown, BatchDone, CallbackRaises, requeuerVars, history
  <2>2. \A b \in Listeners : batch'[b] \cup hand'[b] \subseteq batch[b] \cup hand[b]
    BY <1>0, <2>1
  <2>3. \A b \in Listeners : pc[b] = "ack" => pc'[b] = "ack" /\ hand'[b] = hand[b]
    BY <1>0, <2>1
  <2> QED BY <2>1, <2>2, <2>3, OrderLocal
<1> QED BY <1>1, <1>2, <1>3, <1>4, <1>5 DEF ListenerStep

LEMMA OrderRequeuer ==
    ASSUME Base, Order, NEW r \in Requeuers, ~Fail, RequeuerStep(r)
    PROVE  Order'
<1>0. rbatch \in [Requeuers -> SUBSET Delivery]
  BY DEF Base, TypeOK
<1>1. batch' = batch /\ hand' = hand /\ pc' = pc /\ returned' = returned
  BY DEF RequeuerStep, RequeueReceive, RequeueFetch, RequeueSend, RequeueDelete, listenerVars, history
<1>2. CASE RequeueReceive(r)
  <2>1. PICK S \in Received("dlq", NumMessages) :
           copies' = Leased(copies, S) /\ rbatch' = [rbatch EXCEPT ![r] = Deliveries(S)]
    BY <1>2 DEF RequeueReceive, RequeueFetch
  <2>2. /\ \A d : Watched(d) => Untouched(d.copy)
        /\ \A d \in Deliveries(S) : Latest(d, "dlq")'
    BY <2>1, OrderReceived
  <2>3. \A x \in Requeuers : \A d \in rbatch'[x] : d \in rbatch[x] \/ Latest(d, "dlq")'
    BY <1>0, <2>1, <2>2
  <2> QED BY <1>1, <2>2, <2>3, OrderElsewhere
<1>3. CASE RequeueSend(r)
  <2>1. copies' \in Sent(rbatch[r]) /\ rbatch' = rbatch
    BY <1>3 DEF RequeueSend
  <2>2. IsFiniteSet(rbatch[r]) /\ \A d \in rbatch[r] : d.copy \in DOMAIN copies
    BY DEF Base, BatchesFinite, DeliveriesLocated
  <2>3. \A d : Watched(d) => Untouched(d.copy)
    BY <2>1, <2>2, OrderSent
  <2> QED BY <1>1, <2>1, <2>3, OrderElsewhere
<1>4. CASE RequeueDelete(r)
  <2>1. copies' \in Deletions(copies, rbatch[r], "dlq") /\ rbatch' = [rbatch EXCEPT ![r] = {}]
    BY <1>4 DEF RequeueDelete
  <2>2. \A d : Watched(d) => Untouched(d.copy)
    BY <2>1, OrderDeleted
  <2>3. \A x \in Requeuers : \A d \in rbatch'[x] : d \in rbatch[x] \/ Latest(d, "dlq")'
    BY <1>0, <2>1
  <2> QED BY <1>1, <2>2, <2>3, OrderElsewhere
<1> QED BY <1>2, <1>3, <1>4 DEF RequeuerStep

LEMMA OrderStep ==
    ASSUME Base, AckReturned, Order, [Next]_vars, OnTime'
    PROVE  Order'
<1>0. ~Fail /\ pc \in [Listeners -> {"idle", "pull", "loop", "callback", "ack", "stopped", "dead"}]
  BY OnTimeBefore DEF Base, TypeOK
<1>1. ASSUME NEW m \in Messages, PublishSucceeds(m) \/ PublishFails(m)
      PROVE  Order'
  <2>1. /\ copies' = Append(copies, NewCopy(m))
        /\ batch' = batch /\ hand' = hand /\ pc' = pc /\ returned' = returned /\ rbatch' = rbatch
    BY <1>0, <1>1 DEF PublishSucceeds, PublishFails, Attempt, listenerVars, requeuerVars, history
  <2>2. \A d : Watched(d) => Untouched(d.copy)
    BY <2>1, OrderPublished
  <2> QED BY <2>1, <2>2, OrderElsewhere
<1>2. ASSUME NEW c \in Listeners, SetShutdown(c) \/ AckSkipped(c) \/ Crash(c) \/ Restart(c)
      PROVE  Order'
  <2>1. /\ copies' = copies /\ returned' = returned /\ rbatch' = rbatch /\ batch' = batch
        /\ hand' = hand
        /\ pc' = pc \/ (pc[c] = "dead" /\ pc' = [pc EXCEPT ![c] = "idle"])
    BY <1>0, <1>2 DEF SetShutdown, AckSkipped, Crash, Restart, requeuerVars, history
  <2>2. \A b \in Listeners : pc[b] = "ack" => pc'[b] = "ack"
    BY <1>0, <2>1
  <2> QED BY <2>1, <2>2, OrderLocal
<1>3. ASSUME NEW r \in Requeuers,
             StartRequeue(r) \/ RequeuePartialFailure(r) \/ RequeuerCrash(r)
      PROVE  Order'
  <2>1. /\ copies' = copies /\ returned' = returned /\ rbatch' = rbatch /\ batch' = batch
        /\ hand' = hand /\ pc' = pc
    BY <1>0, <1>3 DEF StartRequeue, RequeuePartialFailure, RequeuerCrash, listenerVars, history
  <2> QED BY <2>1, OrderLocal
<1>4. CASE UNCHANGED vars
  BY <1>4, OrderLocal DEF vars, listenerVars, requeuerVars, history
<1>5. ASSUME NEW r \in Requeuers, RequeuerStep(r)
      PROVE  Order'
  BY <1>0, <1>5, OrderRequeuer
<1>6. ASSUME NEW c \in Listeners, ListenerStep(c)
      PROVE  Order'
  BY <1>6, OrderListener
<1>7. ASSUME NEW i \in DOMAIN copies, VisibilityExpires(i) \/ Redrive(i)
      PROVE  Order'
  BY <1>7, OrderBroker
<1> QED BY <1>1, <1>2, <1>3, <1>4, <1>5, <1>6, <1>7 DEF Next, BrokerStep

(***************************************************************************)
(* While messages are done within their visibility timeout and nothing     *)
(* fails, no copy's callback returns twice, however many listeners and     *)
(* requeuers share the queues: SQS hides a copy from the rest while one    *)
(* has it, and it is deleted before it is shown again.                     *)
(***************************************************************************)
THEOREM SqsNoRework == Spec => []NoRework
<1> DEFINE Inv == RInv /\ (OnTime => Order)
<1>1. Init => Inv
  <2>1. Init => Order
    BY DEF Init, Order
  <2> QED BY <2>1, RInvInit
<1>2. Inv /\ [Next]_vars => Inv'
  BY RInvStep, OrderStep, OnTimeBefore DEF RInv
<1>3. Inv => NoRework
  <2> SUFFICES ASSUME Inv, OnTime, NEW d \in returned, NEW e \in returned, d.copy = e.copy
               PROVE  d = e
    BY DEF NoRework, OnTime
  <2>1. d.receipt = e.receipt
    BY DEF Order
  <2>2. d \in Delivery /\ e \in Delivery
    BY DEF RInv, Base, TypeOK
  <2> QED BY <2>1, <2>2 DEF Delivery
<1> HIDE DEF Inv
<1> QED BY <1>1, <1>2, <1>3, PTL DEF Spec

-----------------------------------------------------------------------------
\* Why a re-queue run takes all it could receive when it started.

CopiesHeld(r) == {d.copy : d \in rbatch[r]}

InDlq == VisibleIn(copies, "dlq")

\* What a run owes can be received from the dead-letter queue, or is in its own hands
\* until it has been sent; no other run has it.
OwedInDlq ==
    \A r \in Requeuers :
        /\ rpc[r] \in {"off", "done", "raised"} => owed[r] = {}
        /\ rpc[r] \in {"receive", "delete"} => owed[r] \subseteq InDlq
        /\ rpc[r] = "send" => owed[r] \subseteq InDlq \cup CopiesHeld(r)

OwedApart ==
    \A r, x \in Requeuers :
        x # r \/ rpc[r] = "delete" => owed[r] \cap CopiesHeld(x) = {}

RequeuersApart == OwedInDlq /\ OwedApart

LEMMA HeldCopy ==
    ASSUME NEW r \in Requeuers
    PROVE  \A i : i \in CopiesHeld(r) <=> \E d \in rbatch[r] : d.copy = i
BY DEF CopiesHeld

LEMMA DlqExpiry ==
    ASSUME Base, NEW i \in DOMAIN copies, VisibilityExpires(i)
    PROVE  InDlq \subseteq InDlq'
<1>1. copies \in Seq(CopyOf(Messages, SqsQueues)) /\ copies' = Shown(copies, i)
  BY CopiesType DEF Base, VisibilityExpires, Shown
<1>2. /\ DOMAIN copies' = DOMAIN copies
      /\ \A j \in DOMAIN copies : /\ copies'[j].queue = copies[j].queue
                                  /\ copies'[j].state \in {"visible", copies[j].state}
  BY <1>1, CopyShown
<1> QED BY <1>2 DEF InDlq, VisibleIn, CopiesIn

LEMMA DlqRedrive ==
    ASSUME Base, NEW i \in DOMAIN copies, Redrive(i)
    PROVE  InDlq \subseteq InDlq'
<1>1. /\ copies \in Seq(CopyOf(Messages, SqsQueues)) /\ copies' = WithQueue(copies, i, "dlq")
      /\ "dlq" \in SqsQueues
  BY CopiesType DEF Base, Redrive, WithQueue, SqsQueues
<1>2. /\ DOMAIN copies' = DOMAIN copies
      /\ \A j \in DOMAIN copies : /\ copies'[j].queue = IF j = i THEN "dlq" ELSE copies[j].queue
                                  /\ copies'[j].state = copies[j].state
  BY <1>1, CopyMoved
<1> QED BY <1>2 DEF InDlq, VisibleIn, CopiesIn

\* A receive hides what it returns, and nothing else.
LEMMA DlqReceived ==
    ASSUME Base, NEW q, NEW S \in Received(q, NumMessages), copies' = Leased(copies, S)
    PROVE  /\ \A i \in InDlq : i \in InDlq' \/ i \in S
           /\ q = "main" => InDlq \subseteq InDlq'
<1>1. copies \in Seq(CopyOf(Messages, SqsQueues)) /\ \A i \in S : copies[i].queue = q
  BY CopiesType DEF Base, Received, Receivable, VisibleIn, CopiesIn
<1>2. /\ DOMAIN copies' = DOMAIN copies
      /\ \A j \in DOMAIN copies :
            /\ copies'[j].queue = copies[j].queue
            /\ copies'[j].state = IF j \in S THEN "hidden" ELSE copies[j].state
  BY <1>1, LeasedCopies
<1> QED BY <1>1, <1>2 DEF InDlq, VisibleIn, CopiesIn

\* A deletion takes copies of its own queue, of which it names a delivery.
LEMMA DlqDeletions ==
    ASSUME Base, NEW D, NEW q, copies' \in Deletions(copies, D, q)
    PROVE  /\ \A i \in InDlq : i \in InDlq' \/ \E d \in D : d.copy = i
           /\ q = "main" => InDlq \subseteq InDlq'
<1>1. copies \in Seq(CopyOf(Messages, SqsQueues))
  BY CopiesType DEF Base
<1>2. /\ DOMAIN copies' = DOMAIN copies
      /\ \A j \in DOMAIN copies :
            /\ copies'[j].queue = copies[j].queue
            /\ \/ copies'[j].state = copies[j].state
               \/ j \in CopiesIn(copies, q) /\ \E d \in D : d.copy = j
  BY <1>1, DeletedCopies
<1> QED BY <1>2 DEF InDlq, VisibleIn, CopiesIn

LEMMA DlqSent ==
    ASSUME Base, NEW D, IsFiniteSet(D), \A d \in D : d.copy \in DOMAIN copies, copies' \in Sent(D)
    PROVE  InDlq \subseteq InDlq'
<1>1. copies \in Seq(CopyOf(Messages, SqsQueues))
  BY CopiesType DEF Base
<1>2. PICK a \in Seq(CopyOf(Messages, SqsQueues)) : copies' = AllAdded(copies, a)
  BY SentAdds DEF Base
<1>3. \A j \in DOMAIN copies : j \in DOMAIN copies' /\ copies'[j] = copies[j]
  BY <1>1, <1>2, CopiesAdded
<1> QED BY <1>3 DEF InDlq, VisibleIn, CopiesIn

LEMMA DlqPublished ==
    ASSUME Base, NEW m \in Messages, copies' = Append(copies, NewCopy(m))
    PROVE  InDlq \subseteq InDlq'
<1>1. copies \in Seq(CopyOf(Messages, SqsQueues))
  BY CopiesType DEF Base
<1>2. copies' = Added(copies, m, "main") /\ "main" \in SqsQueues
  BY DEF Added, NewCopy, SqsQueues
<1>3. \A j \in DOMAIN copies : j \in DOMAIN copies' /\ copies'[j] = copies[j]
  BY <1>1, <1>2, CopyAdded
<1> QED BY <1>3 DEF InDlq, VisibleIn, CopiesIn

LEMMA DlqSame ==
    ASSUME copies' = copies
    PROVE  InDlq \subseteq InDlq'
BY DEF InDlq

\* Only requeuers take anything from the dead-letter queue.
LEMMA DlqElsewhere ==
    ASSUME Base, [Next]_vars,
           ~ \E r \in Requeuers : \/ StartRequeue(r) \/ RequeuerStep(r)
                                  \/ RequeuePartialFailure(r) \/ RequeuerCrash(r)
    PROVE  InDlq \subseteq InDlq'
<1>1. ASSUME NEW m \in Messages, PublishSucceeds(m) \/ PublishFails(m)
      PROVE  InDlq \subseteq InDlq'
  BY <1>1, DlqSame, DlqPublished DEF PublishSucceeds, PublishFails
<1>2. ASSUME NEW c \in Listeners, ListenerStep(c)
      PROVE  InDlq \subseteq InDlq'
  BY <1>2, DlqSame, DlqReceived, DlqDeletions
     DEF ListenerStep, CheckShutdown, PullMessages, BatchDone, NextMessage, Dies,
         CallbackReturns, CallbackRaises, AckMessage
<1>3. ASSUME NEW c \in Listeners, SetShutdown(c) \/ AckSkipped(c) \/ Crash(c) \/ Restart(c)
      PROVE  InDlq \subseteq InDlq'
  BY <1>3, DlqSame DEF SetShutdown, AckSkipped, Crash, Restart
<1>4. CASE UNCHANGED vars
  BY <1>4, DlqSame DEF vars
<1> QED BY <1>1, <1>2, <1>3, <1>4, DlqExpiry, DlqRedrive DEF Next, BrokerStep

LEMMA RequeuerIdle ==
    ASSUME [Next]_vars,
           ~ \E r \in Requeuers : \/ StartRequeue(r) \/ RequeuerStep(r)
                                  \/ RequeuePartialFailure(r) \/ RequeuerCrash(r)
    PROVE  rpc' = rpc /\ rbatch' = rbatch /\ owed' = owed
BY DEF Next, BrokerStep, ListenerStep, vars, requeuerVars, PublishSucceeds, PublishFails, Attempt,
       VisibilityExpires, Redrive, SetShutdown, CheckShutdown, PullMessages, NextMessage, Dies,
       BatchDone, CallbackReturns, CallbackRaises, AckMessage, AckSkipped, Crash, Restart

\* A step of run r that leaves what others owe and hold alone.
LEMMA ApartAlone ==
    ASSUME Base, RequeuersApart, NEW r \in Requeuers,
           \A x \in Requeuers \ {r} : rpc'[x] = rpc[x] /\ rbatch'[x] = rbatch[x] /\ owed'[x] = owed[x],
           rbatch'[r] \subseteq rbatch[r], owed'[r] \subseteq owed[r],
           \A i \in InDlq : i \in InDlq' \/ i \in CopiesHeld(r),
           rpc'[r] \in {"off", "done", "raised"} => owed'[r] = {},
           rpc'[r] \in {"receive", "delete"} => owed'[r] \subseteq InDlq',
           rpc'[r] = "send" => owed'[r] \subseteq InDlq' \cup CopiesHeld(r)',
           rpc'[r] = "delete" => owed'[r] \cap CopiesHeld(r)' = {}
    PROVE  RequeuersApart'
<1>1. \A x \in Requeuers \ {r} : CopiesHeld(x)' = CopiesHeld(x)
  BY DEF CopiesHeld
<1>2. CopiesHeld(r)' \subseteq CopiesHeld(r)
  BY DEF CopiesHeld
<1>3. \A x \in Requeuers \ {r} : owed[x] \cap CopiesHeld(r) = {} /\ owed[r] \cap CopiesHeld(x) = {}
  BY DEF RequeuersApart, OwedApart
<1>4. OwedInDlq'
  BY <1>1, <1>3 DEF RequeuersApart, OwedInDlq
<1>5. OwedApart'
  BY <1>1, <1>2, <1>3 DEF RequeuersApart, OwedApart
<1> QED BY <1>4, <1>5 DEF RequeuersApart

LEMMA ApartStart ==
    ASSUME Base, RequeuersApart, NEW r \in Requeuers, StartRequeue(r)
    PROVE  RequeuersApart'
<1> DEFINE owes == InDlq \ {d.copy : d \in UNION {rbatch[x] : x \in Requeuers}}
<1>1. /\ copies' = copies /\ rbatch' = rbatch
      /\ rpc' = [rpc EXCEPT ![r] = "receive"]
      /\ owed' = [owed EXCEPT ![r] = owes]
  BY DEF StartRequeue, InDlq
<1>2. /\ rpc'[r] = "receive" /\ owed'[r] = owes
      /\ \A x \in Requeuers \ {r} : rpc'[x] = rpc[x] /\ owed'[x] = owed[x]
  BY <1>1 DEF Base, TypeOK
<1>3. InDlq' = InDlq /\ \A x \in Requeuers : CopiesHeld(x)' = CopiesHeld(x)
  BY <1>1 DEF InDlq, CopiesHeld
<1>4. owes \subseteq InDlq /\ \A x \in Requeuers : owes \cap CopiesHeld(x) = {}
  BY HeldCopy
<1> HIDE DEF owes
<1>5. OwedInDlq'
  BY <1>2, <1>3, <1>4 DEF RequeuersApart, OwedInDlq
<1>6. OwedApart'
  BY <1>2, <1>3, <1>4 DEF RequeuersApart, OwedApart
<1> QED BY <1>5, <1>6 DEF RequeuersApart

LEMMA ApartReceive ==
    ASSUME Base, RequeuersApart, NEW r \in Requeuers, RequeueReceive(r)
    PROVE  RequeuersApart'
<1>1. PICK S \in Received("dlq", NumMessages) :
        /\ copies' = Leased(copies, S)
        /\ rbatch' = [rbatch EXCEPT ![r] = Deliveries(S)]
        /\ rpc' = [rpc EXCEPT ![r] = IF S = {} THEN "done" ELSE "send"]
        /\ owed' = [x \in Requeuers |-> IF x = r THEN owed[x] ELSE owed[x] \ S]
  BY DEF RequeueReceive, RequeueFetch
<1>2. /\ rpc[r] = "receive" /\ rbatch'[r] = Deliveries(S)
      /\ rpc'[r] = IF S = {} THEN "done" ELSE "send"
      /\ \A x \in Requeuers \ {r} : rpc'[x] = rpc[x] /\ rbatch'[x] = rbatch[x] /\ owed'[x] = owed[x] \ S
      /\ owed'[r] = owed[r]
  BY <1>1 DEF RequeueReceive, RequeueFetch, Base, TypeOK
<1>3. \A i \in InDlq : i \in InDlq' \/ i \in S
  BY <1>1, DlqReceived
<1>4. CopiesHeld(r)' = S
  <2>1. \A d \in Deliveries(S) : d.copy \in S
    BY DeliveriesType DEF Base
  <2>2. ASSUME NEW i \in S
        PROVE  \E d \in Deliveries(S) : d.copy = i
    <3>1. [copy |-> i, receipt |-> copies[i].receives + 1] \in Deliveries(S)
      BY DEF Deliveries
    <3> QED BY <3>1
  <2>3. CopiesHeld(r)' = {d.copy : d \in Deliveries(S)}
    BY <1>2 DEF CopiesHeld
  <2> QED BY <2>1, <2>2, <2>3
<1>5. \A x \in Requeuers \ {r} : CopiesHeld(x)' = CopiesHeld(x)
  BY <1>2 DEF CopiesHeld
<1>6. S = {} => InDlq = {}
  BY <1>1 DEF Received, Receivable, InDlq
<1>7. OwedInDlq'
  <2>1. \A x \in Requeuers \ {r} :
          /\ rpc'[x] \in {"off", "done", "raised"} => owed'[x] = {}
          /\ rpc'[x] \in {"receive", "delete"} => owed'[x] \subseteq InDlq'
          /\ rpc'[x] = "send" => owed'[x] \subseteq InDlq' \cup CopiesHeld(x)'
    BY <1>2, <1>3, <1>5 DEF RequeuersApart, OwedInDlq
  <2>2. owed[r] \subseteq InDlq
    BY <1>2 DEF RequeuersApart, OwedInDlq
  <2>3. CASE S = {}
    BY <1>2, <1>6, <2>1, <2>2, <2>3 DEF OwedInDlq
  <2>4. CASE S # {}
    <3>1. rpc'[r] = "send" /\ owed'[r] \subseteq InDlq' \cup CopiesHeld(r)'
      BY <1>2, <1>3, <1>4, <2>2, <2>4
    <3> QED BY <2>1, <3>1 DEF OwedInDlq
  <2> QED BY <2>3, <2>4
<1>8. OwedApart'
  BY <1>2, <1>4, <1>5 DEF RequeuersApart, OwedApart
<1> QED BY <1>7, <1>8 DEF RequeuersApart

LEMMA ApartSend ==
    ASSUME Base, RequeuersApart, NEW r \in Requeuers, RequeueSend(r)
    PROVE  RequeuersApart'
<1>1. /\ rpc[r] = "send" /\ copies' \in Sent(rbatch[r]) /\ rbatch' = rbatch
      /\ rpc'[r] = "delete" /\ owed'[r] = owed[r] \ CopiesHeld(r)
      /\ \A x \in Requeuers \ {r} : rpc'[x] = rpc[x] /\ owed'[x] = owed[x]
  BY DEF RequeueSend, Base, TypeOK, CopiesHeld
<1>2. InDlq \subseteq InDlq'
  BY <1>1, DlqSent DEF Base, BatchesFinite, DeliveriesLocated
<1>3. CopiesHeld(r)' = CopiesHeld(r)
  BY <1>1 DEF CopiesHeld
<1>4. owed[r] \subseteq InDlq \cup CopiesHeld(r)
  BY <1>1 DEF RequeuersApart, OwedInDlq
<1> QED BY <1>1, <1>2, <1>3, <1>4, ApartAlone

LEMMA ApartDelete ==
    ASSUME Base, RequeuersApart, NEW r \in Requeuers, RequeueDelete(r)
    PROVE  RequeuersApart'
<1>1. /\ rpc[r] = "delete" /\ owed' = owed /\ rpc'[r] = "receive" /\ rbatch'[r] = {}
      /\ \A x \in Requeuers \ {r} : rpc'[x] = rpc[x] /\ rbatch'[x] = rbatch[x]
  BY DEF RequeueDelete, Base, TypeOK
<1>2. PICK D \in SUBSET rbatch[r] : copies' \in Deletions(copies, D, "dlq")
  BY DEF RequeueDelete
<1>3. \A i \in InDlq : i \in InDlq' \/ i \in CopiesHeld(r)
  BY <1>2, DlqDeletions, HeldCopy
<1>4. owed[r] \subseteq InDlq /\ owed[r] \cap CopiesHeld(r) = {}
  BY <1>1 DEF RequeuersApart, OwedInDlq, OwedApart
<1> QED BY <1>1, <1>3, <1>4, ApartAlone

LEMMA ApartFails ==
    ASSUME Base, RequeuersApart, NEW r \in Requeuers, RequeuePartialFailure(r) \/ RequeuerCrash(r)
    PROVE  RequeuersApart'
<1>1. /\ rpc'[r] = "raised" /\ rbatch'[r] = {} /\ owed'[r] = {}
      /\ \A x \in Requeuers \ {r} : rpc'[x] = rpc[x] /\ rbatch'[x] = rbatch[x] /\ owed'[x] = owed[x]
  BY DEF RequeuePartialFailure, RequeuerCrash, Base, TypeOK
<1>2. InDlq \subseteq InDlq'
  <2>1. CASE RequeuerCrash(r)
    BY <2>1, DlqSame DEF RequeuerCrash
  <2>2. CASE RequeuePartialFailure(r)
    <3>1. PICK D \in SUBSET rbatch[r] : copies' \in Sent(D)
      BY <2>2 DEF RequeuePartialFailure
    <3>2. IsFiniteSet(D) /\ \A d \in D : d.copy \in DOMAIN copies
      BY FS_Subset DEF Base, BatchesFinite, DeliveriesLocated
    <3> QED BY <3>1, <3>2, DlqSent
  <2> QED BY <2>1, <2>2
<1> QED BY <1>1, <1>2, ApartAlone

LEMMA ApartStep ==
    ASSUME Base, RequeuersApart, [Next]_vars
    PROVE  RequeuersApart'
<1>1. CASE \E r \in Requeuers : \/ StartRequeue(r) \/ RequeuerStep(r)
                                \/ RequeuePartialFailure(r) \/ RequeuerCrash(r)
  BY <1>1, ApartStart, ApartReceive, ApartSend, ApartDelete, ApartFails DEF RequeuerStep
<1>2. CASE ~ \E r \in Requeuers : \/ StartRequeue(r) \/ RequeuerStep(r)
                                  \/ RequeuePartialFailure(r) \/ RequeuerCrash(r)
  <2>1. InDlq \subseteq InDlq'
    BY <1>2, DlqElsewhere
  <2>2. rpc' = rpc /\ owed' = owed /\ \A r \in Requeuers : CopiesHeld(r)' = CopiesHeld(r)
    BY <1>2, RequeuerIdle DEF CopiesHeld
  <2>3. OwedInDlq'
    BY <2>1, <2>2 DEF RequeuersApart, OwedInDlq
  <2>4. OwedApart'
    BY <2>2 DEF RequeuersApart, OwedApart
  <2> QED BY <2>3, <2>4 DEF RequeuersApart
<1> QED BY <1>1, <1>2

(***************************************************************************)
(* A re-queue run that returns has sent to the queue every message it      *)
(* could receive when it started, but for those that another run got; for  *)
(* any number of operators, whatever the batch size, however visibility    *)
(* timeouts pass, whichever deletions fail, whatever runs that raised left *)
(* behind, and whatever SQS parks there meanwhile.                         *)
(***************************************************************************)
THEOREM SqsRequeueComplete == Spec => []RequeueComplete
<1> DEFINE Inv == Base /\ RequeuersApart
<1>1. Init => Inv
  <2>1. Init => RequeuersApart
    BY DEF Init, RequeuersApart, OwedInDlq, OwedApart
  <2> QED BY <2>1, BaseInit
<1>2. Inv /\ [Next]_vars => Inv'
  BY BaseStep, ApartStep
<1>3. Inv => RequeueComplete
  BY DEF RequeuersApart, OwedInDlq, RequeueComplete
<1> HIDE DEF Inv
<1> QED BY <1>1, <1>2, <1>3, PTL DEF Spec
=============================================================================

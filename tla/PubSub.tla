-------------------------------- MODULE PubSub --------------------------------
(***************************************************************************)
(* The Google Pub/Sub backend: listeners running                           *)
(* HedwigConsumerBaseBackend.fetch_and_process_messages over               *)
(* GooglePubSubConsumerBackend, and operators running requeue_dead_letter. *)
(*                                                                         *)
(* A listener is two kinds of threads.  The client library's streaming     *)
(* pulls, one per subscription, hand messages to                           *)
(* PubSubMessageScheduler.schedule, which puts them on one work queue; the *)
(* main thread takes them off it in pull_messages.  Cancelling a streaming *)
(* pull only asks for its end: until it has ended it goes on delivering,   *)
(* and once it has ended leases are not extended any more and              *)
(* acknowledgements may go nowhere.                                        *)
(***************************************************************************)
EXTENDS LeasingQueue

CONSTANTS
    Messages,           \* what publishers send
    Listeners,          \* processes in listen_for_messages
    Requeuers,          \* processes in requeue_dead_letter
    NumSubscriptions,   \* Len(settings.HEDWIG_SUBSCRIPTIONS)
    NumMessages,        \* num_messages: FlowControl's max_messages
    MaxDeliveries,      \* the subscriptions' dead-letter policy
    MaxFailures,        \* bound: crashes and failed requests
    MaxStops,           \* bound: shutdown events that get set
    MaxRequeues,        \* bound: runs of requeue_dead_letter
    MaxCopies           \* bound: copies put on subscriptions

ASSUME SubscriptionsAssumption == NumSubscriptions \in Nat \ {0}
ASSUME FetchAssumption == NumMessages \in Nat \ {0}
ASSUME DeliveriesAssumption == MaxDeliveries \in Nat \ {0}
ASSUME BoundsAssumption == /\ MaxFailures \in Nat
                           /\ MaxStops \in Nat
                           /\ MaxRequeues \in Nat
                           /\ MaxCopies \in Nat

\* _subscription_paths: the subscriptions, then the queue's own for messages
\* that are re-queued.  The DLQ has a subscription and a topic of its own.
Main == NumSubscriptions + 1
Dlq == Main + 1

\* Mutant: the subscriptions of HEDWIG_SUBSCRIPTIONS are forgotten.
SubscriptionPathsMainOnly == {Main}

SubscriptionPaths == 1 .. Main

VARIABLES
    copies,     \* every copy Pub/Sub ever stored, on all subscriptions
    pc,         \* where the main thread of listener c stands
    streaming,  \* c's streaming pulls
    workQueue,  \* c's work queue
    hand,       \* the delivery c is working on, in a set
    shutdown,   \* c's shutdown event is set
    rpc,        \* where requeuer r stands
    rbatch,     \* deliveries r has pulled and not finished with
    rhand,      \* the one of them r has published again, in a set
    owed,       \* history: what r's run could pull when it started, and has not
                \* published since, nor failed to; but for what other runs have
    returned,   \* history: deliveries whose callback returned
    late,       \* history: a lease passed while it was extended or used
    failures, stops, requeues   \* budgets used

listenerVars == <<pc, streaming, workQueue, hand, shutdown>>
requeuerVars == <<rpc, rbatch, rhand, owed>>
history == <<returned, late>>
budgets == <<failures, stops, requeues>>
vars == <<copies, listenerVars, requeuerVars, history, budgets>>

-----------------------------------------------------------------------------
Copy == CopyOf(Messages, 1 .. Dlq)

\* MessageWrapper: a message, its ack id, and the subscription it came from.
Delivery == [copy : Nat \ {0}, receipt : Nat \ {0}, subscription : 1 .. Dlq]

\* Mutant: the handle of the delivery before.
DeliveryFromStale(s, i) ==
    [copy |-> i, receipt |-> copies[i].receives, subscription |-> s]

DeliveryFrom(s, i) ==
    [copy |-> i, receipt |-> copies[i].receives + 1, subscription |-> s]
MessageOf(d) == copies[d.copy].msg

\* What acknowledging delivery d can leave; after the ack deadline it may have
\* no effect.
Acknowledged(d, s) ==
    Deletions(copies, {d}, s)
        \cup {now \in {copies} : copies[d.copy].state = "visible"}

Queued(c) == {workQueue[c][k] : k \in DOMAIN workQueue[c]}
Outstanding(c) == Queued(c) \cup hand[c]

\* What live processes hold: a listener as long as its streaming pulls extend
\* the leases.
Held == (UNION {Outstanding(c) : c \in {b \in Listeners : streaming[b] # "closed"}})
            \cup (UNION {rbatch[r] : r \in Requeuers})

\* A subscription delivers a copy until its dead-letter policy takes over.
Deliverable(s) ==
    {i \in VisibleIn(copies, s) : s # Dlq => copies[i].receives < MaxDeliveries}

TypeOK ==
    /\ copies \in Seq(Copy)
    /\ pc \in [Listeners -> {"idle", "get", "drain", "callback", "ack", "stopped", "dead"}]
    /\ streaming \in [Listeners -> {"closed", "open", "cancelled"}]
    /\ workQueue \in [Listeners -> Seq(Delivery)]
    /\ hand \in [Listeners -> SUBSET Delivery]
    /\ shutdown \in [Listeners -> BOOLEAN]
    /\ rpc \in [Requeuers -> {"off", "pull", "publish", "ack", "done", "raised"}]
    /\ rbatch \in [Requeuers -> SUBSET Delivery]
    /\ rhand \in [Requeuers -> SUBSET Delivery]
    /\ owed \in [Requeuers -> SUBSET (Nat \ {0})]
    /\ returned \subseteq Delivery
    /\ late \in BOOLEAN
    /\ failures \in 0 .. MaxFailures
    /\ stops \in 0 .. MaxStops
    /\ requeues \in 0 .. MaxRequeues

Init ==
    /\ copies = <<>>
    /\ pc = [c \in Listeners |-> "idle"]
    /\ streaming = [c \in Listeners |-> "closed"]
    /\ workQueue = [c \in Listeners |-> <<>>]
    /\ hand = [c \in Listeners |-> {}]
    /\ shutdown = [c \in Listeners |-> FALSE]
    /\ rpc = [r \in Requeuers |-> "off"]
    /\ rbatch = [r \in Requeuers |-> {}]
    /\ rhand = [r \in Requeuers |-> {}]
    /\ owed = [r \in Requeuers |-> {}]
    /\ returned = {}
    /\ late = FALSE
    /\ failures = 0
    /\ stops = 0
    /\ requeues = 0

\* Something fails; the budget says how often.
Fail ==
    /\ failures < MaxFailures
    /\ failures' = failures + 1
    /\ UNCHANGED <<stops, requeues>>

-----------------------------------------------------------------------------
\* Publisher: the future resolves to a message id.  The topic's subscription of
\* this app is any but Main.
Publish(m) ==
    /\ m \notin {copies[i].msg : i \in DOMAIN copies}
    /\ Len(copies) < MaxCopies
    /\ \E s \in 1 .. NumSubscriptions : copies' = Append(copies, NewCopyOn(m, s))
    /\ UNCHANGED <<listenerVars, requeuerVars, history, budgets>>

-----------------------------------------------------------------------------
\* Pub/Sub: an ack deadline passes.
LeaseExpires(i) ==
    /\ i \in DOMAIN copies
    /\ copies[i].state = "hidden"
    /\ copies' = [copies EXCEPT ![i].state = "visible"]
    /\ late' = (late \/ \E d \in Held : d.copy = i)
    /\ UNCHANGED <<listenerVars, requeuerVars, returned, budgets>>

\* Pub/Sub: the dead-letter policy of a subscription.
DeadLetter(i) ==
    /\ \E s \in SubscriptionPaths : i \in VisibleIn(copies, s)
    /\ copies[i].receives >= MaxDeliveries
    /\ copies' = [copies EXCEPT ![i].queue = Dlq]
    /\ UNCHANGED <<listenerVars, requeuerVars, history, budgets>>

-----------------------------------------------------------------------------
\* The threads of listener c's streaming pulls.  Flow control is each pull's own.
Schedule(c, s) ==
    /\ streaming[c] # "closed"
    /\ Cardinality({d \in Outstanding(c) : d.subscription = s}) < NumMessages
    /\ \E i \in Deliverable(s) :
          /\ copies' = Leased(copies, {i})
          /\ workQueue' = [workQueue EXCEPT ![c] = Append(@, DeliveryFrom(s, i))]
    /\ UNCHANGED <<pc, streaming, hand, shutdown, requeuerVars, history, budgets>>

\* A cancelled streaming pull ends, in its own time.
StreamsEnd(c) ==
    /\ streaming[c] = "cancelled"
    /\ streaming' = [streaming EXCEPT ![c] = "closed"]
    /\ UNCHANGED <<copies, pc, workQueue, hand, shutdown, requeuerVars, history, budgets>>

-----------------------------------------------------------------------------
\* The main thread of listener c.
SetShutdown(c) ==
    /\ stops < MaxStops
    /\ ~shutdown[c]
    /\ pc[c] \notin {"stopped", "dead"}
    /\ shutdown' = [shutdown EXCEPT ![c] = TRUE]
    /\ stops' = stops + 1
    /\ UNCHANGED <<copies, pc, streaming, workQueue, hand, requeuerVars, history,
                   failures, requeues>>

\* The loop enters pull_messages, which opens the streaming pulls.
Subscribe(c) ==
    /\ pc[c] = "idle"
    /\ IF shutdown[c]
       THEN /\ pc' = [pc EXCEPT ![c] = "stopped"]
            /\ UNCHANGED streaming
       ELSE /\ pc' = [pc EXCEPT ![c] = "get"]
            /\ streaming' = [streaming EXCEPT ![c] = "open"]
    /\ UNCHANGED <<copies, workQueue, hand, shutdown, requeuerVars, history, budgets>>

\* Where pull_messages goes on when the loop asks for the next message.
Resume(c) == IF streaming[c] = "open" THEN "get" ELSE "drain"

\* A message is taken off the work queue; with the event set, only once the
\* futures are cancelled.  The pre-process hook may raise: nack_message.
TakeMessage(c) ==
    /\ \/ pc[c] = "get" /\ ~shutdown[c]
       \/ pc[c] = "drain"
    /\ workQueue[c] # <<>>
    /\ workQueue' = [workQueue EXCEPT ![c] = Tail(@)]
    /\ \/ /\ pc' = [pc EXCEPT ![c] = "callback"]
          /\ hand' = [hand EXCEPT ![c] = {Head(workQueue[c])}]
          /\ UNCHANGED copies
       \/ /\ copies' \in {copies, GivenBack(copies, Head(workQueue[c]),
                                            Head(workQueue[c]).subscription)}
          /\ UNCHANGED <<pc, hand>>
    /\ UNCHANGED <<streaming, shutdown, requeuerVars, history, budgets>>

\* Mutant: the futures are never cancelled.
CancelFuturesNot(c) ==
    /\ pc[c] = "get"
    /\ shutdown[c]
    /\ UNCHANGED vars

\* The event is found set: every future is cancelled.
CancelFutures(c) ==
    /\ pc[c] = "get"
    /\ shutdown[c]
    /\ pc' = [pc EXCEPT ![c] = "drain"]
    /\ streaming' = [streaming EXCEPT ![c] = "cancelled"]
    /\ UNCHANGED <<copies, workQueue, hand, shutdown, requeuerVars, history, budgets>>

\* get(block=False) raises Empty: pull_messages returns and the loop ends.
Drained(c) ==
    /\ pc[c] = "drain"
    /\ workQueue[c] = <<>>
    /\ pc' = [pc EXCEPT ![c] = "stopped"]
    /\ UNCHANGED <<copies, streaming, workQueue, hand, shutdown, requeuerVars, history,
                   budgets>>

\* process_message succeeds, or raises IgnoreException.
CallbackReturns(c, d) ==
    /\ pc[c] = "callback"
    /\ d \in hand[c]
    /\ returned' = returned \cup {d}
    /\ pc' = [pc EXCEPT ![c] = "ack"]
    /\ UNCHANGED <<copies, streaming, workQueue, hand, shutdown, requeuerVars, late,
                   budgets>>

\* Mutant: any other exception is acknowledged too.
CallbackRaisesAndAcks(c, d) ==
    /\ pc[c] = "callback"
    /\ d \in hand[c]
    /\ pc' = [pc EXCEPT ![c] = "ack"]
    /\ UNCHANGED <<copies, streaming, workQueue, hand, shutdown, requeuerVars, history,
                   budgets>>

\* Any other exception: nack_message, which may go nowhere.
CallbackRaises(c, d) ==
    /\ pc[c] = "callback"
    /\ d \in hand[c]
    /\ copies' \in {copies, GivenBack(copies, d, d.subscription)}
    /\ pc' = [pc EXCEPT ![c] = Resume(c)]
    /\ hand' = [hand EXCEPT ![c] = {}]
    /\ UNCHANGED <<streaming, workQueue, shutdown, requeuerVars, history, budgets>>

\* Mutant: acknowledged as a message of the queue's own subscription.
AckMessageOnMain(c, d) ==
    /\ pc[c] = "ack"
    /\ d \in hand[c]
    /\ copies' \in Acknowledged(d, Main)
    /\ pc' = [pc EXCEPT ![c] = Resume(c)]
    /\ hand' = [hand EXCEPT ![c] = {}]
    /\ UNCHANGED <<streaming, workQueue, shutdown, requeuerVars, history, budgets>>

AckMessage(c, d) ==
    /\ pc[c] = "ack"
    /\ d \in hand[c]
    /\ copies' \in Acknowledged(d, d.subscription)
    /\ pc' = [pc EXCEPT ![c] = Resume(c)]
    /\ hand' = [hand EXCEPT ![c] = {}]
    /\ UNCHANGED <<streaming, workQueue, shutdown, requeuerVars, history, budgets>>

\* The acknowledgement goes nowhere: the streaming pull is going or gone, or the
\* request fails.  Or the post-process hook raises: nack_message.
AckDropped(c, d) ==
    /\ pc[c] = "ack"
    /\ d \in hand[c]
    /\ \/ streaming[c] # "open" /\ UNCHANGED <<copies, budgets>>
       \/ Fail /\ copies' \in {copies, GivenBack(copies, d, d.subscription)}
    /\ pc' = [pc EXCEPT ![c] = Resume(c)]
    /\ hand' = [hand EXCEPT ![c] = {}]
    /\ UNCHANGED <<streaming, workQueue, shutdown, requeuerVars, history>>

Crash(c) ==
    /\ pc[c] \notin {"stopped", "dead"}
    /\ Fail
    /\ pc' = [pc EXCEPT ![c] = "dead"]
    /\ streaming' = [streaming EXCEPT ![c] = "closed"]
    /\ workQueue' = [workQueue EXCEPT ![c] = <<>>]
    /\ hand' = [hand EXCEPT ![c] = {}]
    /\ UNCHANGED <<copies, shutdown, requeuerVars, history>>

Restart(c) ==
    /\ pc[c] = "dead"
    /\ pc' = [pc EXCEPT ![c] = "idle"]
    /\ shutdown' = [shutdown EXCEPT ![c] = FALSE]
    /\ UNCHANGED <<copies, streaming, workQueue, hand, requeuerVars, history, budgets>>

-----------------------------------------------------------------------------
\* Requeuer r: requeue_dead_letter.
StartRequeue(r) ==
    /\ requeues < MaxRequeues
    /\ rpc[r] \in {"off", "done", "raised"}
    /\ rpc' = [rpc EXCEPT ![r] = "pull"]
    /\ owed' = [owed EXCEPT ![r] =
                  VisibleIn(copies, Dlq) \ {d.copy : d \in UNION {rbatch[x] : x \in Requeuers}}]
    /\ requeues' = requeues + 1
    /\ UNCHANGED <<copies, listenerVars, rbatch, rhand, history, failures, stops>>

\* A pull from the DLQ, and what comes next when there is nothing.
RequeueFetch(r, none) ==
    /\ rpc[r] = "pull"
    /\ \E S \in SUBSET Deliverable(Dlq) :
          /\ Cardinality(S) <= NumMessages
          /\ S = {} => Deliverable(Dlq) = {}
          /\ copies' = Leased(copies, S)
          /\ rbatch' = [rbatch EXCEPT ![r] = {DeliveryFrom(Dlq, i) : i \in S}]
          /\ rpc' = [rpc EXCEPT ![r] = IF S = {} THEN none ELSE "publish"]
          /\ owed' = [x \in Requeuers |-> IF x = r THEN owed[x] ELSE owed[x] \ S]
    /\ UNCHANGED <<listenerVars, rhand, history, budgets>>

\* Mutant: it goes on pulling until it is interrupted.
RequeuePullOn(r) == RequeueFetch(r, "pull")

\* pull: nothing, or DeadlineExceeded, ends the run.
RequeuePull(r) == RequeueFetch(r, "done")

RequeueBatchDone(r) ==
    /\ rpc[r] = "publish"
    /\ rbatch[r] = {}
    /\ rpc' = [rpc EXCEPT ![r] = "pull"]
    /\ UNCHANGED <<copies, listenerVars, rbatch, rhand, owed, history, budgets>>

\* The message is published to the queue's own topic and its future awaited.
RequeuePublish(r, d) ==
    /\ rpc[r] = "publish"
    /\ d \in rbatch[r]
    /\ Len(copies) < MaxCopies
    /\ copies' = Append(copies, NewCopyOn(MessageOf(d), Main))
    /\ rpc' = [rpc EXCEPT ![r] = "ack"]
    /\ rhand' = [rhand EXCEPT ![r] = {d}]
    /\ owed' = [owed EXCEPT ![r] = @ \ {d.copy}]
    /\ UNCHANGED <<listenerVars, rbatch, history, budgets>>

RequeueAck(r, d) ==
    /\ rpc[r] = "ack"
    /\ d \in rhand[r]
    /\ copies' \in Acknowledged(d, Dlq)
    /\ rpc' = [rpc EXCEPT ![r] = "publish"]
    /\ rbatch' = [rbatch EXCEPT ![r] = @ \ {d}]
    /\ rhand' = [rhand EXCEPT ![r] = {}]
    /\ UNCHANGED <<listenerVars, owed, history, budgets>>

\* Mutant: the finally of a try acknowledges the message.
RequeueFailsAndAcks(r, d) ==
    /\ rpc[r] = "publish"
    /\ d \in rbatch[r]
    /\ Fail
    /\ copies' \in Acknowledged(d, Dlq)
    /\ rpc' = [rpc EXCEPT ![r] = "publish"]
    /\ rbatch' = [rbatch EXCEPT ![r] = @ \ {d}]
    /\ rhand' = [rhand EXCEPT ![r] = {}]
    /\ UNCHANGED <<listenerVars, owed, history>>

\* Mutant: the try is around the loop over the batch.
RequeueFailsAltogether(r, d) ==
    /\ \/ rpc[r] = "publish" /\ d \in rbatch[r]
       \/ rpc[r] = "ack" /\ d \in rhand[r]
    /\ Fail
    /\ \/ UNCHANGED copies
       \/ /\ rpc[r] = "publish"
          /\ Len(copies) < MaxCopies
          /\ copies' = Append(copies, NewCopyOn(MessageOf(d), Main))
       \/ /\ rpc[r] = "ack"
          /\ copies' \in Acknowledged(d, Dlq)
    /\ rpc' = [rpc EXCEPT ![r] = "publish"]
    /\ rbatch' = [rbatch EXCEPT ![r] = {}]
    /\ rhand' = [rhand EXCEPT ![r] = {}]
    /\ owed' = [owed EXCEPT ![r] = @ \ {d.copy}]
    /\ UNCHANGED <<listenerVars, history>>

\* An exception in either request, or in modify_ack_deadline, is logged and the
\* loop goes on.  A request that raises may have had its effect.
RequeueFails(r, d) ==
    /\ \/ rpc[r] = "publish" /\ d \in rbatch[r]
       \/ rpc[r] = "ack" /\ d \in rhand[r]
    /\ Fail
    /\ \/ UNCHANGED copies
       \/ /\ rpc[r] = "publish"
          /\ Len(copies) < MaxCopies
          /\ copies' = Append(copies, NewCopyOn(MessageOf(d), Main))
       \/ /\ rpc[r] = "ack"
          /\ copies' \in Acknowledged(d, Dlq)
    /\ rpc' = [rpc EXCEPT ![r] = "publish"]
    /\ rbatch' = [rbatch EXCEPT ![r] = @ \ {d}]
    /\ rhand' = [rhand EXCEPT ![r] = {}]
    /\ owed' = [owed EXCEPT ![r] = @ \ {d.copy}]
    /\ UNCHANGED <<listenerVars, history>>

\* The process crashes, or pull raises anything but DeadlineExceeded.
RequeuerCrash(r) ==
    /\ rpc[r] \in {"pull", "publish", "ack"}
    /\ Fail
    /\ rpc' = [rpc EXCEPT ![r] = "raised"]
    /\ rbatch' = [rbatch EXCEPT ![r] = {}]
    /\ rhand' = [rhand EXCEPT ![r] = {}]
    /\ owed' = [owed EXCEPT ![r] = {}]
    /\ UNCHANGED <<copies, listenerVars, history>>

-----------------------------------------------------------------------------
MainStep(c) ==
    \/ Subscribe(c)
    \/ TakeMessage(c)
    \/ CancelFutures(c)
    \/ Drained(c)
    \/ \E d \in hand[c] :
          \/ CallbackReturns(c, d)
          \/ CallbackRaises(c, d)
          \/ AckMessage(c, d)

StreamStep(c) == (\E s \in SubscriptionPaths : Schedule(c, s)) \/ StreamsEnd(c)

RequeuerStep(r) ==
    \/ RequeuePull(r)
    \/ RequeueBatchDone(r)
    \/ \E d \in rbatch[r] : RequeuePublish(r, d) \/ RequeueAck(r, d)

BrokerStep == \E i \in DOMAIN copies : LeaseExpires(i) \/ DeadLetter(i)

Next ==
    \/ \E m \in Messages : Publish(m)
    \/ BrokerStep
    \/ \E c \in Listeners :
          \/ MainStep(c)
          \/ StreamStep(c)
          \/ SetShutdown(c)
          \/ \E d \in hand[c] : AckDropped(c, d)
          \/ Crash(c)
          \/ Restart(c)
    \/ \E r \in Requeuers :
          \/ StartRequeue(r)
          \/ RequeuerStep(r)
          \/ \E d \in rbatch[r] : RequeueFails(r, d)
          \/ RequeuerCrash(r)

Spec == Init /\ [][Next]_vars

\* Both kinds of threads are scheduled, callbacks return, a crashed listener is
\* started again, a cancelled streaming pull ends, and deadlines pass.
ListenFairness ==
    /\ \A c \in Listeners : /\ WF_vars(MainStep(c) \/ Restart(c))
                            /\ WF_vars(\E s \in SubscriptionPaths : Schedule(c, s))
                            /\ WF_vars(StreamsEnd(c))
    /\ WF_vars(BrokerStep)

\* A re-queue run is scheduled once it was started.
RequeueFairness == \A r \in Requeuers : WF_vars(RequeuerStep(r))

ListenSpec == Spec /\ ListenFairness
RequeueSpec == Spec /\ RequeueFairness

-----------------------------------------------------------------------------
published == {copies[i].msg : i \in DOMAIN copies}
queued == UNION {{copies[i].msg : i \in CopiesIn(copies, s)} : s \in SubscriptionPaths}
dead == {copies[i].msg : i \in CopiesIn(copies, Dlq)}
handled == {MessageOf(d) : d \in returned}

(***************************************************************************)
(* A message Pub/Sub stored was handled or still has a copy on a           *)
(* subscription or the DLQ (docs/quickstart.rst:140-141), through          *)
(* shutdowns that leave messages on the work queue, acknowledgements that  *)
(* go nowhere, stale ack ids, crashes and failed requests.                 *)
(***************************************************************************)
NoMessageLost == published \subseteq (queued \cup dead \cup handled)

Contract == INSTANCE AtLeastOnce

(***************************************************************************)
(* Every step of the backend is one the contract of the abstract backend   *)
(* allows, or none.                                                        *)
(***************************************************************************)
ImplementsAtLeastOnce == Contract!Spec

(***************************************************************************)
(* While leases are extended in time, nothing fails and no listener is     *)
(* told to stop, the callback of a copy returns once.                      *)
(***************************************************************************)
NoRework ==
    failures = 0 /\ stops = 0 /\ ~late =>
        \A d1, d2 \in returned : d1.copy = d2.copy => d1 = d2

(***************************************************************************)
(* requeue_dead_letter "re-queues everything in the Hedwig DLQ"            *)
(* (base.py:228): when a run returns, every message it could pull when it  *)
(* started was published again, or its failure logged, unless another run  *)
(* has it; one failure is no reason to leave the others.                   *)
(***************************************************************************)
RequeueComplete == \A r \in Requeuers : rpc[r] = "done" => owed[r] = {}

(***************************************************************************)
(* Every stored message is eventually handled or on the DLQ, also one left *)
(* on the work queue of a listener that stopped.                           *)
(***************************************************************************)
EverythingSettles ==
    \A m \in Messages : m \in published ~> m \in handled \cup dead

(***************************************************************************)
(* A listener that is told to stop does (consumer.py:34-35), although its  *)
(* streaming pulls go on delivering while it drains the work queue.        *)
(***************************************************************************)
ShutdownEnds ==
    \A c \in Listeners : []<>(~shutdown[c] \/ pc[c] = "stopped")

(***************************************************************************)
(* requeue_dead_letter comes to its end (backends/gcp.py:369-372), although*)
(* messages whose publishing failed come back to it when their lease ends, *)
(* and listeners fill the subscription it empties; here, unless it would   *)
(* have to publish more copies than the bound lets pass.                   *)
(***************************************************************************)
RequeueEnds ==
    \A r \in Requeuers :
        []<>(\/ rpc[r] \in {"off", "done", "raised"}
             \/ rpc[r] = "publish" /\ rbatch[r] # {} /\ Len(copies) = MaxCopies)
=============================================================================

------------------------------- MODULE SqsQueue -------------------------------
(***************************************************************************)
(* The SNS/SQS backend: AWSSNSPublisherBackend, listeners running          *)
(* HedwigConsumerBaseBackend.fetch_and_process_messages over               *)
(* AWSSQSConsumerBackend, and operators running requeue_dead_letter.       *)
(*                                                                         *)
(* SQS hides a received message for its visibility timeout, counts the     *)
(* receives, and parks a message on the dead-letter queue once the queue's *)
(* redrive policy says so; all of that is the broker's, modelled from how  *)
(* the code uses it.  The process holds its messages in a list, so every   *)
(* request is an interleaving point, and every request may fail.           *)
(***************************************************************************)
EXTENDS LeasingQueue

CONSTANTS
    Messages,           \* what publishers send, each in one call of publish
    Bare,               \* those that carry no message attributes: no headers,
                        \* and HEDWIG_USE_TRANSPORT_MESSAGE_ATTRIBUTES off
    Listeners,          \* processes in listen_for_messages
    Requeuers,          \* processes in requeue_dead_letter
    NumMessages,        \* num_messages
    MaxReceiveCount,    \* the redrive policy of the queue
    MaxAttempts,        \* stop_max_attempt_number of _publish_over_sns
    MaxFailures,        \* bound: crashes, failed requests, failed batch entries
    MaxStops,           \* bound: shutdown events that get set
    MaxRequeues,        \* bound: runs of requeue_dead_letter
    MaxCopies           \* bound: copies put on the queue

ASSUME BareAssumption == Bare \subseteq Messages
ASSUME FetchAssumption == NumMessages \in Nat \ {0}
ASSUME RedriveAssumption == MaxReceiveCount \in Nat \ {0}
ASSUME RetryAssumption == MaxAttempts \in Nat \ {0}
ASSUME BoundsAssumption == /\ MaxFailures \in Nat
                           /\ MaxStops \in Nat
                           /\ MaxRequeues \in Nat
                           /\ MaxCopies \in Nat

VARIABLES
    copies,     \* every copy SQS ever stored, on either queue
    tries,      \* attempts of _publish_over_sns for message m
    publishing, \* what became of publish(m)
    pc,         \* where listener c stands
    batch,      \* deliveries c has received and not begun
    hand,       \* the delivery c is working on, in a set
    shutdown,   \* c's shutdown event is set
    rpc,        \* where requeuer r stands
    rbatch,     \* deliveries of the DLQ that r has in hand
    owed,       \* history: what r's run could receive when it started, and has
                \* not sent since; but for what other runs have or get
    returned,   \* history: deliveries whose callback returned
    late,       \* history: a visibility timeout passed while it mattered
    failures, stops, requeues   \* budgets used

publisherVars == <<tries, publishing>>
listenerVars == <<pc, batch, hand, shutdown>>
requeuerVars == <<rpc, rbatch, owed>>
history == <<returned, late>>
budgets == <<failures, stops, requeues>>
vars == <<copies, publisherVars, listenerVars, requeuerVars, history, budgets>>

-----------------------------------------------------------------------------
Copy == CopyOf(Messages, {"main", "dlq"})

\* A message in a listener's or requeuer's list, with its receipt handle.
Delivery == [copy : Nat \ {0}, receipt : Nat \ {0}]

NewCopy(m) == NewCopyOn(m, "main")

\* A message over the limit is not received again: it waits for Redrive.
Receivable(q) ==
    {i \in VisibleIn(copies, q) : q = "main" => copies[i].receives < MaxReceiveCount}

\* receive_messages: up to n of them, none only if there is none.
Received(q, n) ==
    {S \in SUBSET Receivable(q) : Cardinality(S) <= n /\ (S = {} => Receivable(q) = {})}

\* Mutant: the receipt handles of the receive before.
DeliveriesStale(S) == {[copy |-> i, receipt |-> copies[i].receives] : i \in S}

Deliveries(S) == {[copy |-> i, receipt |-> copies[i].receives + 1] : i \in S}
MessageOf(d) == copies[d.copy].msg

\* What live processes hold.
Held == (UNION {batch[c] \cup hand[c] : c \in Listeners})
            \cup (UNION {rbatch[r] : r \in Requeuers})

-----------------------------------------------------------------------------
TypeOK ==
    /\ copies \in Seq(Copy)
    /\ tries \in [Messages -> 0 .. MaxAttempts]
    /\ publishing \in [Messages -> {"unsent", "trying", "returned", "raised"}]
    /\ pc \in [Listeners -> {"idle", "pull", "loop", "callback", "ack",
                             "stopped", "dead"}]
    /\ batch \in [Listeners -> SUBSET Delivery]
    /\ hand \in [Listeners -> SUBSET Delivery]
    /\ shutdown \in [Listeners -> BOOLEAN]
    /\ rpc \in [Requeuers -> {"off", "receive", "send", "delete", "done", "raised"}]
    /\ rbatch \in [Requeuers -> SUBSET Delivery]
    /\ owed \in [Requeuers -> SUBSET (Nat \ {0})]
    /\ returned \subseteq Delivery
    /\ late \in BOOLEAN
    /\ failures \in 0 .. MaxFailures
    /\ stops \in 0 .. MaxStops
    /\ requeues \in 0 .. MaxRequeues

Init ==
    /\ copies = <<>>
    /\ tries = [m \in Messages |-> 0]
    /\ publishing = [m \in Messages |-> "unsent"]
    /\ pc = [c \in Listeners |-> "idle"]
    /\ batch = [c \in Listeners |-> {}]
    /\ hand = [c \in Listeners |-> {}]
    /\ shutdown = [c \in Listeners |-> FALSE]
    /\ rpc = [r \in Requeuers |-> "off"]
    /\ rbatch = [r \in Requeuers |-> {}]
    /\ owed = [r \in Requeuers |-> {}]
    /\ returned = {}
    /\ late = FALSE
    /\ failures = 0
    /\ stops = 0
    /\ requeues = 0

\* Something fails; the budget says how often.
Fail ==
    /\ failures < MaxFailures
    /\ failures' = failures + 1
    /\ UNCHANGED <<stops, requeues>>

-----------------------------------------------------------------------------
\* Publisher: _publish_over_sns, retried until a response arrives, attempts run
\* out, or three seconds have passed.
Attempt(m) ==
    /\ publishing[m] \in {"unsent", "trying"}
    /\ tries[m] < MaxAttempts
    /\ tries' = [tries EXCEPT ![m] = @ + 1]
    /\ UNCHANGED <<listenerVars, requeuerVars, history>>

PublishSucceeds(m) ==
    /\ Attempt(m)
    /\ Len(copies) < MaxCopies
    /\ copies' = Append(copies, NewCopy(m))
    /\ publishing' = [publishing EXCEPT ![m] = "returned"]
    /\ UNCHANGED budgets

\* Mutant: a failed attempt is reported as a success.
PublishFailsSilently(m) ==
    /\ Attempt(m)
    /\ Fail
    /\ UNCHANGED copies
    /\ publishing' = [publishing EXCEPT ![m] = "returned"]

\* The request is lost, or only its response.
PublishFails(m) ==
    /\ Attempt(m)
    /\ Fail
    /\ \/ UNCHANGED copies
       \/ Len(copies) < MaxCopies /\ copies' = Append(copies, NewCopy(m))
    /\ \E next \in {"trying", "raised"} :
          /\ next = "trying" => tries[m] + 1 < MaxAttempts
          /\ publishing' = [publishing EXCEPT ![m] = next]

-----------------------------------------------------------------------------
\* SQS: the visibility timeout of a copy passes.
VisibilityExpires(i) ==
    /\ i \in DOMAIN copies
    /\ copies[i].state = "hidden"
    /\ copies' = [copies EXCEPT ![i].state = "visible"]
    /\ late' = (late \/ \E d \in Held : d.copy = i)
    /\ UNCHANGED <<publisherVars, listenerVars, requeuerVars, returned, budgets>>

\* SQS: the redrive policy, applied when the message would be received again.
Redrive(i) ==
    /\ i \in VisibleIn(copies, "main")
    /\ copies[i].receives >= MaxReceiveCount
    /\ copies' = [copies EXCEPT ![i].queue = "dlq"]
    /\ UNCHANGED <<publisherVars, listenerVars, requeuerVars, history, budgets>>

-----------------------------------------------------------------------------
\* Listener c: fetch_and_process_messages.
SetShutdown(c) ==
    /\ stops < MaxStops
    /\ ~shutdown[c]
    /\ pc[c] \notin {"stopped", "dead"}
    /\ shutdown' = [shutdown EXCEPT ![c] = TRUE]
    /\ stops' = stops + 1
    /\ UNCHANGED <<copies, publisherVars, pc, batch, hand, requeuerVars, history,
                   failures, requeues>>

CheckShutdown(c) ==
    /\ pc[c] = "idle"
    /\ pc' = [pc EXCEPT ![c] = IF shutdown[c] THEN "stopped" ELSE "pull"]
    /\ UNCHANGED <<copies, publisherVars, batch, hand, shutdown, requeuerVars,
                   history, budgets>>

\* Mutant: a visibility timeout of zero is asked for.
PullMessagesUnhidden(c) ==
    /\ pc[c] = "pull"
    /\ \E S \in Received("main", NumMessages) :
          /\ copies' = [i \in DOMAIN copies |->
                          [Leased(copies, S)[i] EXCEPT !.state = copies[i].state]]
          /\ batch' = [batch EXCEPT ![c] = Deliveries(S)]
          /\ pc' = [pc EXCEPT ![c] = IF S = {} THEN "idle" ELSE "loop"]
    /\ UNCHANGED <<publisherVars, hand, shutdown, requeuerVars, history, budgets>>

\* Mutant: the queue of a backend made with dlq=True.
PullMessagesFromDlq(c) ==
    /\ pc[c] = "pull"
    /\ \E S \in Received("dlq", NumMessages) :
          /\ copies' = Leased(copies, S)
          /\ batch' = [batch EXCEPT ![c] = Deliveries(S)]
          /\ pc' = [pc EXCEPT ![c] = IF S = {} THEN "idle" ELSE "loop"]
    /\ UNCHANGED <<publisherVars, hand, shutdown, requeuerVars, history, budgets>>

PullMessages(c) ==
    /\ pc[c] = "pull"
    /\ \E S \in Received("main", NumMessages) :
          /\ copies' = Leased(copies, S)
          /\ batch' = [batch EXCEPT ![c] = Deliveries(S)]
          /\ pc' = [pc EXCEPT ![c] = IF S = {} THEN "idle" ELSE "loop"]
    /\ UNCHANGED <<publisherVars, hand, shutdown, requeuerVars, history, budgets>>

\* message_attributes, outside the loop's try blocks, goes through the items of
\* an attribute dict that boto3 leaves out when it would be empty.
Raises(d) == MessageOf(d) \in Bare

\* The loop begins d, in the list's order, which SQS does not promise anything
\* about; the pre-process hook may raise, and not acknowledging is enough.
NextMessage(c, d) ==
    /\ pc[c] = "loop"
    /\ d \in batch[c]
    /\ ~Raises(d)
    /\ batch' = [batch EXCEPT ![c] = @ \ {d}]
    /\ \/ /\ pc' = [pc EXCEPT ![c] = "callback"]
          /\ hand' = [hand EXCEPT ![c] = {d}]
       \/ UNCHANGED <<pc, hand>>
    /\ UNCHANGED <<copies, publisherVars, shutdown, requeuerVars, history, budgets>>

Dies(c, d) ==
    /\ pc[c] = "loop"
    /\ d \in batch[c]
    /\ Raises(d)
    /\ pc' = [pc EXCEPT ![c] = "dead"]
    /\ batch' = [batch EXCEPT ![c] = {}]
    /\ UNCHANGED <<copies, publisherVars, hand, shutdown, requeuerVars, history,
                   budgets>>

BatchDone(c) ==
    /\ pc[c] = "loop"
    /\ batch[c] = {}
    /\ pc' = [pc EXCEPT ![c] = "idle"]
    /\ UNCHANGED <<copies, publisherVars, batch, hand, shutdown, requeuerVars,
                   history, budgets>>

\* process_message succeeds, or raises IgnoreException.
CallbackReturns(c, d) ==
    /\ pc[c] = "callback"
    /\ d \in hand[c]
    /\ returned' = returned \cup {d}
    /\ pc' = [pc EXCEPT ![c] = "ack"]
    /\ UNCHANGED <<copies, publisherVars, batch, hand, shutdown, requeuerVars, late,
                   budgets>>

\* Mutant: goes on to acknowledge.
CallbackRaisesAndAcks(c) ==
    /\ pc[c] = "callback"
    /\ pc' = [pc EXCEPT ![c] = "ack"]
    /\ UNCHANGED <<copies, publisherVars, batch, hand, shutdown, requeuerVars, history,
                   budgets>>

\* Any other exception: nack_message, which leaves it to the visibility timeout.
CallbackRaises(c) ==
    /\ pc[c] = "callback"
    /\ pc' = [pc EXCEPT ![c] = "loop"]
    /\ hand' = [hand EXCEPT ![c] = {}]
    /\ UNCHANGED <<copies, publisherVars, batch, shutdown, requeuerVars, history,
                   budgets>>

AckMessage(c) ==
    /\ pc[c] = "ack"
    /\ copies' \in Deletions(copies, hand[c], "main")
    /\ pc' = [pc EXCEPT ![c] = "loop"]
    /\ hand' = [hand EXCEPT ![c] = {}]
    /\ UNCHANGED <<publisherVars, batch, shutdown, requeuerVars, history, budgets>>

\* The post-process hook raises, or the acknowledgement does: the loop logs it.
AckSkipped(c) ==
    /\ pc[c] = "ack"
    /\ Fail
    /\ pc' = [pc EXCEPT ![c] = "loop"]
    /\ hand' = [hand EXCEPT ![c] = {}]
    /\ UNCHANGED <<copies, publisherVars, batch, shutdown, requeuerVars, history>>

\* The process crashes, or receive_messages raises.
Crash(c) ==
    /\ pc[c] \notin {"stopped", "dead"}
    /\ Fail
    /\ pc' = [pc EXCEPT ![c] = "dead"]
    /\ batch' = [batch EXCEPT ![c] = {}]
    /\ hand' = [hand EXCEPT ![c] = {}]
    /\ UNCHANGED <<copies, publisherVars, shutdown, requeuerVars, history>>

Restart(c) ==
    /\ pc[c] = "dead"
    /\ pc' = [pc EXCEPT ![c] = "idle"]
    /\ shutdown' = [shutdown EXCEPT ![c] = FALSE]
    /\ UNCHANGED <<copies, publisherVars, batch, hand, requeuerVars, history, budgets>>

-----------------------------------------------------------------------------
\* Requeuer r: requeue_dead_letter.
StartRequeue(r) ==
    /\ requeues < MaxRequeues
    /\ rpc[r] \in {"off", "done", "raised"}
    /\ rpc' = [rpc EXCEPT ![r] = "receive"]
    /\ owed' = [owed EXCEPT ![r] =
                  VisibleIn(copies, "dlq") \ {d.copy : d \in UNION {rbatch[x] : x \in Requeuers}}]
    /\ requeues' = requeues + 1
    /\ UNCHANGED <<copies, publisherVars, listenerVars, rbatch, history, failures, stops>>

\* A receive from the DLQ, and what comes next when there is nothing.
RequeueFetch(r, none) ==
    /\ rpc[r] = "receive"
    /\ \E S \in Received("dlq", NumMessages) :
          /\ copies' = Leased(copies, S)
          /\ rbatch' = [rbatch EXCEPT ![r] = Deliveries(S)]
          /\ rpc' = [rpc EXCEPT ![r] = IF S = {} THEN none ELSE "send"]
          /\ owed' = [x \in Requeuers |-> IF x = r THEN owed[x] ELSE owed[x] \ S]
    /\ UNCHANGED <<publisherVars, listenerVars, history, budgets>>

\* Mutant: it goes on receiving until it is interrupted.
RequeueReceiveOn(r) == RequeueFetch(r, "receive")

RequeueReceive(r) == RequeueFetch(r, "done")

\* Copies after the messages of D were sent, in some order.
Sent(D) ==
    {copies \o [k \in 1 .. Cardinality(D) |-> NewCopy(MessageOf(order[k]))] :
     order \in {f \in [1 .. Cardinality(D) -> D] : \A d \in D : \E k \in DOMAIN f : f[k] = d}}

\* send_messages stores every entry.
RequeueSend(r) ==
    /\ rpc[r] = "send"
    /\ Len(copies) + Cardinality(rbatch[r]) <= MaxCopies
    /\ copies' \in Sent(rbatch[r])
    /\ rpc' = [rpc EXCEPT ![r] = "delete"]
    /\ owed' = [owed EXCEPT ![r] = @ \ {d.copy : d \in rbatch[r]}]
    /\ UNCHANGED <<publisherVars, listenerVars, rbatch, history, budgets>>

\* Mutant: the result of send_messages is not looked at.
RequeuePartialFailureIgnored(r) ==
    /\ rpc[r] = "send"
    /\ Fail
    /\ \E D \in SUBSET rbatch[r] :
          /\ D # rbatch[r]
          /\ Len(copies) + Cardinality(D) <= MaxCopies
          /\ copies' \in Sent(D)
          /\ owed' = [owed EXCEPT ![r] = @ \ {d.copy : d \in D}]
    /\ rpc' = [rpc EXCEPT ![r] = "delete"]
    /\ UNCHANGED <<publisherVars, listenerVars, rbatch, history>>

\* send_messages fails for some entries: PartialFailure, with nothing deleted.
RequeuePartialFailure(r) ==
    /\ rpc[r] = "send"
    /\ Fail
    /\ \E D \in SUBSET rbatch[r] :
          /\ D # rbatch[r]
          /\ Len(copies) + Cardinality(D) <= MaxCopies
          /\ copies' \in Sent(D)
    /\ rpc' = [rpc EXCEPT ![r] = "raised"]
    /\ rbatch' = [rbatch EXCEPT ![r] = {}]
    /\ owed' = [owed EXCEPT ![r] = {}]
    /\ UNCHANGED <<publisherVars, listenerVars, history>>

\* delete_messages: entries that fail are in a result nobody reads.
RequeueDelete(r) ==
    /\ rpc[r] = "delete"
    /\ \/ copies' \in Deletions(copies, rbatch[r], "dlq") /\ UNCHANGED budgets
       \/ /\ Fail
          /\ \E D \in SUBSET rbatch[r] : copies' \in Deletions(copies, D, "dlq")
    /\ rpc' = [rpc EXCEPT ![r] = "receive"]
    /\ rbatch' = [rbatch EXCEPT ![r] = {}]
    /\ UNCHANGED <<publisherVars, listenerVars, owed, history>>

\* The process crashes, or a request raises.
RequeuerCrash(r) ==
    /\ rpc[r] \in {"receive", "send", "delete"}
    /\ Fail
    /\ rpc' = [rpc EXCEPT ![r] = "raised"]
    /\ rbatch' = [rbatch EXCEPT ![r] = {}]
    /\ owed' = [owed EXCEPT ![r] = {}]
    /\ UNCHANGED <<copies, publisherVars, listenerVars, history>>

-----------------------------------------------------------------------------
ListenerStep(c) ==
    \/ CheckShutdown(c)
    \/ PullMessages(c)
    \/ BatchDone(c)
    \/ \E d \in batch[c] : NextMessage(c, d) \/ Dies(c, d)
    \/ \E d \in hand[c] : CallbackReturns(c, d)
    \/ CallbackRaises(c)
    \/ AckMessage(c)

RequeuerStep(r) == RequeueReceive(r) \/ RequeueSend(r) \/ RequeueDelete(r)

BrokerStep == \E i \in DOMAIN copies : VisibilityExpires(i) \/ Redrive(i)

Next ==
    \/ \E m \in Messages : PublishSucceeds(m) \/ PublishFails(m)
    \/ BrokerStep
    \/ \E c \in Listeners :
          \/ ListenerStep(c)
          \/ SetShutdown(c)
          \/ AckSkipped(c)
          \/ Crash(c)
          \/ Restart(c)
    \/ \E r \in Requeuers :
          \/ StartRequeue(r)
          \/ RequeuerStep(r)
          \/ RequeuePartialFailure(r)
          \/ RequeuerCrash(r)

Spec == Init /\ [][Next]_vars

\* Listeners are scheduled and supervised, and visibility timeouts pass.
ListenFairness ==
    /\ \A c \in Listeners : WF_vars(ListenerStep(c) \/ Restart(c))
    /\ WF_vars(BrokerStep)

\* A re-queue run is scheduled once it was started.
RequeueFairness == \A r \in Requeuers : WF_vars(RequeuerStep(r))

ListenSpec == Spec /\ ListenFairness
RequeueSpec == Spec /\ RequeueFairness

-----------------------------------------------------------------------------
published == {copies[i].msg : i \in DOMAIN copies}
    \cup {m \in Messages : publishing[m] = "returned"}
queued == {copies[i].msg : i \in CopiesIn(copies, "main")}
dead == {copies[i].msg : i \in CopiesIn(copies, "dlq")}
handled == {MessageOf(d) : d \in returned}

(***************************************************************************)
(* A message whose publish returned, or of which SQS ever stored a copy,   *)
(* was handled or still has a copy on the queue or the DLQ                 *)
(* (docs/quickstart.rst:140-141), through retries, crashes, failed batch   *)
(* entries and stale receipt handles.                                      *)
(***************************************************************************)
NoMessageLost == published \subseteq (queued \cup dead \cup handled)

Contract == INSTANCE AtLeastOnce

(***************************************************************************)
(* Every step of the backend is one the contract of the abstract backend   *)
(* allows, or none.                                                        *)
(***************************************************************************)
ImplementsAtLeastOnce == Contract!Spec

(***************************************************************************)
(* listen_for_messages ends only when it is told to (consumer.py:28-29):   *)
(* no message ends a listener.                                             *)
(***************************************************************************)
ListenersSurvive == failures = 0 => \A c \in Listeners : pc[c] # "dead"

(***************************************************************************)
(* While messages are done within their visibility timeout and nothing     *)
(* fails, the callback of a copy returns once, whatever listeners and      *)
(* requeuers there are.                                                    *)
(***************************************************************************)
NoRework ==
    failures = 0 /\ ~late =>
        \A d1, d2 \in returned : d1.copy = d2.copy => d1 = d2

(***************************************************************************)
(* requeue_dead_letter "re-queues everything in the Hedwig DLQ"            *)
(* (aws.py:222): when a run returns, every message it could receive when it*)
(* started was sent to the queue, unless another run got it; whatever      *)
(* earlier runs left half done, entries failed, or listeners put there.    *)
(***************************************************************************)
RequeueComplete == \A r \in Requeuers : rpc[r] = "done" => owed[r] = {}

(***************************************************************************)
(* Every message SQS stored is eventually handled or on the DLQ, through   *)
(* crashes, failed requests and shutdowns of other listeners, re-queue runs*)
(* or none.                                                                *)
(***************************************************************************)
EverythingSettles ==
    \A m \in Messages : m \in published ~> m \in handled \cup dead

(***************************************************************************)
(* requeue_dead_letter comes to its end (backends/aws.py:242), although    *)
(* messages it did not delete come back to it when their visibility        *)
(* timeout passes, and whatever listeners and SQS do meanwhile; here,      *)
(* unless it would have to send more copies than the bound lets pass.      *)
(***************************************************************************)
RequeueEnds ==
    \A r \in Requeuers :
        []<>(\/ rpc[r] \in {"off", "done", "raised"}
             \/ rpc[r] = "send" /\ Len(copies) + Cardinality(rbatch[r]) > MaxCopies)
=============================================================================

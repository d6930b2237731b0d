---------------------------- MODULE RedisStreams -----------------------------
(***************************************************************************)
(* The Redis Streams backend: listeners of one consumer group running      *)
(* HedwigConsumerBaseBackend.fetch_and_process_messages over               *)
(* RedisStreamsConsumerBackend, publishers, and operators running          *)
(* requeue_dead_letter on the dead-letter stream.                          *)
(*                                                                         *)
(* Redis runs one command at a time, so a command (or one MULTI pipeline)  *)
(* is one atomic step; everything between two commands of a process is an  *)
(* interleaving point.  In particular pull_messages is a generator: the    *)
(* delivery counter of a message is read only when the loop asks for that  *)
(* message, possibly long after it was claimed.                            *)
(*                                                                         *)
(* A listener's state is where it stands in pull_messages and in the loop  *)
(* body; error_count and the heartbeat clock decide nothing here and are   *)
(* left to another module.                                                 *)
(***************************************************************************)
EXTENDS Naturals, Sequences, FiniteSets

CONSTANTS
    Messages,               \* what publishers may send, each once
    Listeners,              \* processes in listen_for_messages
    Requeuers,              \* processes in requeue_dead_letter
    NumSubscriptions,       \* Len(settings.HEDWIG_SUBSCRIPTIONS)
    NumMessages,            \* num_messages, the count of every fetch
    MaxDeliveryAttempts,    \* settings.HEDWIG_MAX_DELIVERY_ATTEMPTS
    Timely,                 \* TRUE: no message outlives its visibility
                            \* timeout in the hands of a live listener
    MaxCrashes,             \* bound: process crashes and failed requests
    MaxStops,               \* bound: shutdown events that get set
    MaxRequeues,            \* bound: runs of requeue_dead_letter
    MaxMoved                \* bound: requeuers fetch nothing more once this
                            \* many entries were put back

ASSUME SubscriptionsAssumption == NumSubscriptions \in Nat \ {0}
ASSUME FetchAssumption == NumMessages \in Nat \ {0}
ASSUME AttemptsAssumption == MaxDeliveryAttempts \in Nat \ {0}
ASSUME RequeuersAssumption == IsFiniteSet(Requeuers)
ASSUME TimelyAssumption == Timely \in BOOLEAN
ASSUME BoundsAssumption == /\ MaxCrashes \in Nat
                           /\ MaxStops \in Nat
                           /\ MaxRequeues \in Nat
                           /\ MaxMoved \in Nat

\* _streams: the subscriptions in order, then the queue's own stream, which
\* receives what is re-queued.  The dead-letter stream is not listened to.
Main == NumSubscriptions + 1
Dlq == Main + 1
ListenStreams == 1 .. Main
Streams == 1 .. Dlq

VARIABLES
    stream,     \* stream s as the sequence of its entries, oldest first
    published,  \* messages already sent
    pc,         \* where listener c stands
    at,         \* the pull step of c: XAUTOCLAIM of stream at, or XREADGROUP
    batch,      \* deliveries c has received and not finished with
    shutdown,   \* c's shutdown event is set
    rpc,        \* where requeuer r stands
    rbatch,     \* DLQ entries r has fetched and not yet moved
    ceded,      \* history: DLQ entries others fetched since r's run started
    attempts,   \* history: deliveries that reached the loop body
    handled,    \* history: messages whose callback returned
    crashes, stops, requeues    \* budgets used

listenerVars == <<pc, at, batch, shutdown>>
requeuerVars == <<rpc, rbatch, ceded>>
history == <<attempts, handled>>
budgets == <<crashes, stops, requeues>>
vars == <<stream, published, listenerVars, requeuerVars, history, budgets>>

-----------------------------------------------------------------------------
\* Redis.  An entry of a stream, as the consumer group sees it: not delivered,
\* delivered and pending, or acknowledged; how many times it was delivered; and
\* whether its idle time has passed the visibility timeout.
Entry == [msg : Messages, state : {"new", "pending", "acked"},
          times : Nat, expired : BOOLEAN]

\* A delivery: an entry and the value its delivery counter took.
Delivery == [stream : ListenStreams, ix : Nat \ {0}, n : Nat \ {0}]

NewEntry(m) == [msg |-> m, state |-> "new", times |-> 0, expired |-> FALSE]

InState(s, st) == {i \in DOMAIN stream[s] : stream[s][i].state = st}
Expired(s) == {i \in InState(s, "pending") : stream[s][i].expired}

\* COUNT n: the n entries with the smallest ids.
Oldest(S, n) == {i \in S : Cardinality({j \in S : j < i}) < n}

Acked(e) == IF e.state = "pending" THEN [e EXCEPT !.state = "acked"] ELSE e

\* XCLAIM ... MIN-IDLE-TIME 0 JUSTID: resets the idle time, counts nothing.
Touched(e) == IF e.state = "pending" THEN [e EXCEPT !.expired = FALSE] ELSE e

\* XREADGROUP and XAUTOCLAIM count a delivery; XCLAIM JUSTID would not.
Delivered(e) ==
    [msg |-> e.msg, state |-> "pending", times |-> e.times + 1, expired |-> FALSE]

\* Streams after a command that applies Op to the entries in ids, a set of
\* <<stream, index>> pairs.
Updated(Op(_), ids) ==
    [s \in Streams |->
        [i \in DOMAIN stream[s] |->
            IF <<s, i>> \in ids THEN Op(stream[s][i]) ELSE stream[s][i]]]

\* What the command returns for the entries in ids.
Deliveries(ids) ==
    {[stream |-> p[1], ix |-> p[2], n |-> stream[p[1]][p[2]].times + 1] : p \in ids}

EntryOf(d) == stream[d.stream][d.ix]

\* _process_raw_messages goes through a batch in the order Redis returned it.
Earlier(d, e) == d.stream < e.stream \/ (d.stream = e.stream /\ d.ix < e.ix)
First(c, d) == d \in batch[c] /\ \A e \in batch[c] : e = d \/ Earlier(d, e)

-----------------------------------------------------------------------------
TypeOK ==
    /\ stream \in [Streams -> Seq(Entry)]
    /\ published \subseteq Messages
    /\ pc \in [Listeners -> {"idle", "pull", "fetch", "bury", "callback",
                             "ack", "stopped", "dead"}]
    /\ at \in [Listeners -> 1 .. Main + 1]
    /\ batch \in [Listeners -> SUBSET Delivery]
    /\ shutdown \in [Listeners -> BOOLEAN]
    /\ rpc \in [Requeuers -> {"off", "claim", "claimed", "read", "fetched", "done"}]
    /\ rbatch \in [Requeuers -> SUBSET (Nat \ {0})]
    /\ ceded \in [Requeuers -> SUBSET (Nat \ {0})]
    /\ attempts \subseteq Delivery
    /\ handled \subseteq Messages
    /\ crashes \in 0 .. MaxCrashes
    /\ stops \in 0 .. MaxStops
    /\ requeues \in 0 .. MaxRequeues

Init ==
    /\ stream = [s \in Streams |-> <<>>]
    /\ published = {}
    /\ pc = [c \in Listeners |-> "idle"]
    /\ at = [c \in Listeners |-> 1]
    /\ batch = [c \in Listeners |-> {}]
    /\ shutdown = [c \in Listeners |-> FALSE]
    /\ rpc = [r \in Requeuers |-> "off"]
    /\ rbatch = [r \in Requeuers |-> {}]
    /\ ceded = [r \in Requeuers |-> {}]
    /\ attempts = {}
    /\ handled = {}
    /\ crashes = 0
    /\ stops = 0
    /\ requeues = 0

-----------------------------------------------------------------------------
\* Publishers and time.

\* RedisStreamsPublisherBackend._publish: XADD on the topic's stream.
Publish(m, s) ==
    /\ m \notin published
    /\ published' = published \cup {m}
    /\ stream' = [stream EXCEPT ![s] = Append(@, NewEntry(m))]
    /\ UNCHANGED <<listenerVars, requeuerVars, history, budgets>>

\* The visibility timeout of a pending entry passes.
VisibilityTimeout(s, i) ==
    /\ i \in InState(s, "pending") \ Expired(s)
    /\ Timely => \A c \in Listeners : \A d \in batch[c] : <<d.stream, d.ix>> # <<s, i>>
    /\ stream' = [stream EXCEPT ![s][i].expired = TRUE]
    /\ UNCHANGED <<published, listenerVars, requeuerVars, history, budgets>>

-----------------------------------------------------------------------------
\* A listener: the loop head and the fetches of pull_messages.

SetShutdown(c) ==
    /\ ~shutdown[c] /\ pc[c] \notin {"stopped", "dead"}
    /\ stops < MaxStops
    /\ stops' = stops + 1
    /\ shutdown' = [shutdown EXCEPT ![c] = TRUE]
    /\ UNCHANGED <<stream, published, pc, at, batch, requeuerVars, history, crashes, requeues>>

\* Mutant: while True.
CheckShutdownNever(c) ==
    /\ pc[c] = "idle"
    /\ pc' = [pc EXCEPT ![c] = "pull"]
    /\ UNCHANGED <<stream, published, at, batch, shutdown, requeuerVars, history, budgets>>

\* while not shutdown_event.is_set(): the only place the event is looked at.
CheckShutdown(c) ==
    /\ pc[c] = "idle"
    /\ pc' = [pc EXCEPT ![c] = IF shutdown[c] THEN "stopped" ELSE "pull"]
    /\ UNCHANGED <<stream, published, at, batch, shutdown, requeuerVars, history, budgets>>

\* Mutant: XAUTOCLAIM with justid=True, which counts no delivery.
ClaimUncounted(c) ==
    /\ pc[c] = "pull" /\ at[c] \in ListenStreams
    /\ LET ids == {at[c]} \X Oldest(Expired(at[c]), NumMessages)
       IN  /\ stream' = Updated(Touched, ids)
           /\ batch' = [batch EXCEPT ![c] =
                {[stream |-> p[1], ix |-> p[2], n |-> stream[p[1]][p[2]].times] : p \in ids}]
    /\ pc' = [pc EXCEPT ![c] = "fetch"]
    /\ UNCHANGED <<published, at, shutdown, requeuerVars, history, budgets>>

\* The fetched entries become the batch of c.
Fetch(c, ids) ==
    /\ stream' = Updated(Delivered, ids)
    /\ batch' = [batch EXCEPT ![c] = Deliveries(ids)]
    /\ pc' = [pc EXCEPT ![c] = "fetch"]
    /\ UNCHANGED <<published, at, shutdown, requeuerVars, history, budgets>>

\* Mutant: XAUTOCLAIM with min_idle_time=0.
ClaimAnyPending(c) ==
    /\ pc[c] = "pull" /\ at[c] \in ListenStreams
    /\ Fetch(c, {at[c]} \X Oldest(InState(at[c], "pending"), NumMessages))

\* Mutant: only the queue's own stream is searched for timed out messages.
ClaimMainOnly(c) ==
    /\ pc[c] = "pull" /\ at[c] \in ListenStreams
    /\ Fetch(c, IF at[c] = Main THEN {Main} \X Oldest(Expired(Main), NumMessages) ELSE {})

\* XAUTOCLAIM of the stream the pull has come to, from its first entry.
ClaimTimedOut(c) ==
    /\ pc[c] = "pull" /\ at[c] \in ListenStreams
    /\ Fetch(c, {at[c]} \X Oldest(Expired(at[c]), NumMessages))

\* Mutant: XREADGROUP with noack=True.
ReadNewNoAck(c) ==
    /\ pc[c] = "pull" /\ at[c] = Main + 1
    /\ LET ids == UNION {{s} \X Oldest(InState(s, "new"), NumMessages) : s \in ListenStreams}
       IN  /\ stream' = Updated(LAMBDA e : Acked(Delivered(e)), ids)
           /\ batch' = [batch EXCEPT ![c] = Deliveries(ids)]
    /\ pc' = [pc EXCEPT ![c] = "fetch"]
    /\ UNCHANGED <<published, at, shutdown, requeuerVars, history, budgets>>

\* XREADGROUP of all the streams, NumMessages from each.
ReadNew(c) ==
    /\ pc[c] = "pull" /\ at[c] = Main + 1
    /\ Fetch(c, UNION {{s} \X Oldest(InState(s, "new"), NumMessages) : s \in ListenStreams})

\* Mutant: the next pull does not start from the first stream again.
BatchDoneNoReset(c) ==
    /\ pc[c] = "fetch" /\ batch[c] = {}
    /\ at' = [at EXCEPT ![c] = @ + 1]
    /\ pc' = [pc EXCEPT ![c] = IF at[c] \in ListenStreams THEN "pull" ELSE "idle"]
    /\ UNCHANGED <<stream, published, batch, shutdown, requeuerVars, history, budgets>>

\* The batch is used up: next stream, or back to the loop head.
BatchDone(c) ==
    /\ pc[c] = "fetch" /\ batch[c] = {}
    /\ IF at[c] \in ListenStreams
       THEN /\ pc' = [pc EXCEPT ![c] = "pull"]
            /\ at' = [at EXCEPT ![c] = @ + 1]
       ELSE /\ pc' = [pc EXCEPT ![c] = "idle"]
            /\ at' = [at EXCEPT ![c] = 1]
    /\ UNCHANGED <<stream, published, batch, shutdown, requeuerVars, history, budgets>>

-----------------------------------------------------------------------------
\* A listener: one message of the batch.

\* c is done with d and asks pull_messages for the next message.
Finish(c, d) ==
    /\ batch' = [batch EXCEPT ![c] = @ \ {d}]
    /\ pc' = [pc EXCEPT ![c] = "fetch"]

\* The process of c ends; what it had fetched stays pending in Redis.
Dies(c) ==
    /\ pc' = [pc EXCEPT ![c] = "dead"]
    /\ batch' = [batch EXCEPT ![c] = {}]
    /\ at' = [at EXCEPT ![c] = 1]

\* XPENDING of an entry somebody acknowledged meanwhile is empty; [0] raises
\* IndexError, which leaves pull_messages and ends the listener.
EntryGone(c) ==
    /\ pc[c] = "fetch"
    /\ \E d \in batch[c] : First(c, d) /\ EntryOf(d).state # "pending"
    /\ Dies(c)
    /\ UNCHANGED <<stream, published, shutdown, requeuerVars, history, budgets>>

\* Mutants: the comparison is off by one, either way.
ExhaustedLate(d) == EntryOf(d).times > MaxDeliveryAttempts + 1
ExhaustedEarly(d) == EntryOf(d).times >= MaxDeliveryAttempts

\* times_delivered as XPENDING reports it now, not as it was at the fetch.
Exhausted(d) == EntryOf(d).times > MaxDeliveryAttempts

CountTooHigh(c) ==
    /\ pc[c] = "fetch"
    /\ \E d \in batch[c] : /\ First(c, d)
                           /\ EntryOf(d).state = "pending"
                           /\ Exhausted(d)
    /\ pc' = [pc EXCEPT ![c] = "bury"]
    /\ UNCHANGED <<stream, published, at, batch, shutdown, requeuerVars, history, budgets>>

\* Mutant: XACK without the copy.
MoveNowhere(c) ==
    /\ pc[c] = "bury"
    /\ \E d \in batch[c] :
        /\ First(c, d)
        /\ stream' = [stream EXCEPT ![d.stream][d.ix] = Acked(@)]
        /\ Finish(c, d)
    /\ UNCHANGED <<published, at, shutdown, requeuerVars, history, budgets>>

\* XADD to the dead-letter stream and XACK, in one transaction.  The entry may
\* have been acknowledged since XPENDING; the copy is added all the same.
MoveToDlq(c) ==
    /\ pc[c] = "bury"
    /\ \E d \in batch[c] :
        /\ First(c, d)
        /\ stream' = [stream EXCEPT
                ![d.stream][d.ix] = Acked(@),
                ![Dlq] = Append(@, NewEntry(EntryOf(d).msg))]
        /\ Finish(c, d)
    /\ UNCHANGED <<published, at, shutdown, requeuerVars, history, budgets>>

\* The message is yielded to the loop: an attempt, even when the pre-process
\* hook raises and it is given back at once.
Yielded(c, d) ==
    /\ pc[c] = "fetch"
    /\ First(c, d)
    /\ EntryOf(d).state = "pending"
    /\ ~Exhausted(d)
    /\ attempts' = attempts \cup {d}
    /\ UNCHANGED <<stream, published, at, shutdown, requeuerVars, handled, budgets>>

StartCallback(c) ==
    \E d \in batch[c] : /\ Yielded(c, d)
                        /\ pc' = [pc EXCEPT ![c] = "callback"]
                        /\ UNCHANGED batch

PreProcessHookRaises(c) == \E d \in batch[c] : Yielded(c, d) /\ Finish(c, d)

\* A callback that needs more time: XCLAIM of its own message.
ExtendVisibilityTimeout(c) ==
    /\ pc[c] = "callback"
    /\ \E d \in batch[c] :
        /\ First(c, d)
        /\ stream' = [stream EXCEPT ![d.stream][d.ix] = Touched(@)]
    /\ UNCHANGED <<published, listenerVars, requeuerVars, history, budgets>>

\* process_message returned, or raised IgnoreException: next are the
\* post-process hook, which is local, and then the acknowledgement.
CallbackReturns(c) ==
    /\ pc[c] = "callback"
    /\ \E d \in batch[c] : First(c, d) /\ handled' = handled \cup {EntryOf(d).msg}
    /\ pc' = [pc EXCEPT ![c] = "ack"]
    /\ UNCHANGED <<stream, published, at, batch, shutdown, requeuerVars, attempts, budgets>>

\* Any other exception, of the callback or of the decoding before it.  nack
\* sends nothing: the visibility timeout brings the message back.
CallbackRaises(c) ==
    /\ pc[c] = "callback"
    /\ \E d \in batch[c] : First(c, d) /\ Finish(c, d)
    /\ UNCHANGED <<stream, published, at, shutdown, requeuerVars, history, budgets>>

\* The message is handled but stays pending, and will be delivered again.
PostProcessHookRaises(c) ==
    /\ pc[c] = "ack"
    /\ \E d \in batch[c] : First(c, d) /\ Finish(c, d)
    /\ UNCHANGED <<stream, published, at, shutdown, requeuerVars, history, budgets>>

\* XACK, by entry id: whoever the entry is pending for by now.
AckMessage(c) ==
    /\ pc[c] = "ack"
    /\ \E d \in batch[c] :
        /\ First(c, d)
        /\ stream' = [stream EXCEPT ![d.stream][d.ix] = Acked(@)]
        /\ Finish(c, d)
    /\ UNCHANGED <<published, at, shutdown, requeuerVars, history, budgets>>

\* An exception of XACK is logged and the loop goes on.
AckRaises(c) ==
    /\ pc[c] = "ack"
    /\ crashes < MaxCrashes
    /\ crashes' = crashes + 1
    /\ \E d \in batch[c] : First(c, d) /\ Finish(c, d)
    /\ UNCHANGED <<stream, published, at, shutdown, requeuerVars, history, stops, requeues>>

\* The process dies, or a request outside the loop's try blocks raises (which
\* ends the listener as well).
Crash(c) ==
    /\ pc[c] \notin {"idle", "stopped", "dead"}
    /\ crashes < MaxCrashes
    /\ crashes' = crashes + 1
    /\ Dies(c)
    /\ UNCHANGED <<stream, published, shutdown, requeuerVars, history, stops, requeues>>

\* A supervisor starts a new process, with a new consumer id and a new event.
Restart(c) ==
    /\ pc[c] = "dead"
    /\ pc' = [pc EXCEPT ![c] = "idle"]
    /\ shutdown' = [shutdown EXCEPT ![c] = FALSE]
    /\ UNCHANGED <<stream, published, at, batch, requeuerVars, history, budgets>>

-----------------------------------------------------------------------------
\* An operator's process in requeue_dead_letter.

\* Mutant: no XAUTOCLAIM stage.
StartRequeueReading(r) ==
    /\ rpc[r] \in {"off", "done"}
    /\ requeues < MaxRequeues
    /\ requeues' = requeues + 1
    /\ rpc' = [rpc EXCEPT ![r] = "read"]
    /\ ceded' = [ceded EXCEPT ![r] = {}]
    /\ UNCHANGED <<stream, published, listenerVars, rbatch, history, crashes, stops>>

StartRequeue(r) ==
    /\ rpc[r] \in {"off", "done"}
    /\ requeues < MaxRequeues
    /\ requeues' = requeues + 1
    /\ rpc' = [rpc EXCEPT ![r] = "claim"]
    /\ ceded' = [ceded EXCEPT ![r] = {}]
    /\ UNCHANGED <<stream, published, listenerVars, rbatch, history, crashes, stops>>

\* A fetch of up to NumMessages DLQ entries in state st: loop again after moving
\* them, or go on to the next stage when there are none.
RequeueFetch(r, st, got, none) ==
    LET ids == Oldest(InState(Dlq, st), NumMessages)
    IN  /\ ids = {} \/ Len(stream[Main]) < MaxMoved
        /\ stream' = Updated(Delivered, {Dlq} \X ids)
        /\ rbatch' = [rbatch EXCEPT ![r] = ids]
        /\ ceded' = [x \in Requeuers |->
                        IF x = r \/ rpc[x] \in {"off", "done"}
                        THEN ceded[x] ELSE ceded[x] \cup ids]
        /\ rpc' = [rpc EXCEPT ![r] = IF ids = {} THEN none ELSE got]
        /\ UNCHANGED <<published, listenerVars, history, budgets>>

\* XAUTOCLAIM with min_idle_time 0: what an earlier run, or another one that is
\* still going, has fetched and not acknowledged.
RequeueClaim(r) == rpc[r] = "claim" /\ RequeueFetch(r, "pending", "claimed", "read")

\* XREADGROUP: what nobody has fetched.
RequeueRead(r) == rpc[r] = "read" /\ RequeueFetch(r, "new", "fetched", "done")

\* The elements of S in ascending order.
InOrder(S) == {q \in [1 .. Cardinality(S) -> S] :
                 \A i, j \in 1 .. Cardinality(S) : i < j => q[i] < q[j]}

\* Mutants: XACK before and instead of XADD, and XADD without XACK, as when the
\* pipeline is no transaction and the process dies in between.
AcksThenDies(r) ==
    /\ rpc[r] \in {"claimed", "fetched"}
    /\ stream' = [stream EXCEPT
            ![Dlq] = [i \in DOMAIN @ |-> IF i \in rbatch[r] THEN Acked(@[i]) ELSE @[i]]]
    /\ rbatch' = [rbatch EXCEPT ![r] = {}]
    /\ rpc' = [rpc EXCEPT ![r] = "off"]
    /\ UNCHANGED <<published, listenerVars, ceded, history, budgets>>

AddsThenDies(r) ==
    /\ rpc[r] \in {"claimed", "fetched"}
    /\ \E q \in InOrder(rbatch[r]) :
        stream' = [stream EXCEPT
            ![Main] = @ \o [k \in DOMAIN q |-> NewEntry(stream[Dlq][q[k]].msg)]]
    /\ rbatch' = [rbatch EXCEPT ![r] = {}]
    /\ rpc' = [rpc EXCEPT ![r] = "off"]
    /\ UNCHANGED <<published, listenerVars, ceded, history, budgets>>

\* _requeue_messages: XADD of each message on the queue's own stream and XACK
\* of all the DLQ entries, in one transaction.
RequeueMessages(r) ==
    /\ rpc[r] \in {"claimed", "fetched"}
    /\ \E q \in InOrder(rbatch[r]) :
        stream' = [stream EXCEPT
            ![Main] = @ \o [k \in DOMAIN q |-> NewEntry(stream[Dlq][q[k]].msg)],
            ![Dlq] = [i \in DOMAIN @ |-> IF i \in rbatch[r] THEN Acked(@[i]) ELSE @[i]]]
    /\ rbatch' = [rbatch EXCEPT ![r] = {}]
    /\ rpc' = [rpc EXCEPT ![r] = IF @ = "claimed" THEN "claim" ELSE "read"]
    /\ UNCHANGED <<published, listenerVars, ceded, history, budgets>>

RequeuerCrash(r) ==
    /\ rpc[r] \notin {"off", "done"}
    /\ crashes < MaxCrashes
    /\ crashes' = crashes + 1
    /\ rpc' = [rpc EXCEPT ![r] = "off"]
    /\ rbatch' = [rbatch EXCEPT ![r] = {}]
    /\ UNCHANGED <<stream, published, listenerVars, ceded, history, stops, requeues>>

-----------------------------------------------------------------------------
\* What a listener does by itself.
ListenerStep(c) ==
    \/ CheckShutdown(c) \/ ClaimTimedOut(c) \/ ReadNew(c) \/ BatchDone(c)
    \/ EntryGone(c) \/ CountTooHigh(c) \/ MoveToDlq(c)
    \/ StartCallback(c) \/ PreProcessHookRaises(c)
    \/ CallbackReturns(c) \/ CallbackRaises(c)
    \/ PostProcessHookRaises(c) \/ AckMessage(c) \/ AckRaises(c)

RequeuerStep(r) == RequeueClaim(r) \/ RequeueRead(r) \/ RequeueMessages(r)

Timeout == \E s \in ListenStreams : \E i \in DOMAIN stream[s] : VisibilityTimeout(s, i)

Next ==
    \/ \E m \in Messages, s \in 1 .. NumSubscriptions : Publish(m, s)
    \/ Timeout
    \/ \E c \in Listeners :
        ListenerStep(c) \/ SetShutdown(c) \/ ExtendVisibilityTimeout(c) \/ Crash(c) \/ Restart(c)
    \/ \E r \in Requeuers : RequeuerStep(r) \/ StartRequeue(r) \/ RequeuerCrash(r)

Spec == Init /\ [][Next]_vars

\* The processes run, callbacks return or raise, a supervisor restarts what
\* died, and time passes.  Nobody has to publish, stop or re-queue.
Fairness ==
    /\ \A c \in Listeners : WF_vars(ListenerStep(c)) /\ WF_vars(Restart(c))
    /\ \A r \in Requeuers : WF_vars(RequeuerStep(r))
    /\ WF_vars(Timeout)

FairSpec == Spec /\ Fairness

-----------------------------------------------------------------------------
\* Safety.

Unsettled(s) == {stream[s][i].msg : i \in InState(s, "new") \cup InState(s, "pending")}
Queued == UNION {Unsettled(s) : s \in ListenStreams}
Dead == Unsettled(Dlq)

AttemptsOn(s, i) == {a \in attempts : a.stream = s /\ a.ix = i}

(***************************************************************************)
(* Listeners, publishers and operators together implement the contract of  *)
(* every backend: what is acknowledged was handled or moved, whoever       *)
(* acknowledges it and however late.  AtLeastOnce!NoLoss follows.          *)
(***************************************************************************)
Contract == INSTANCE AtLeastOnce WITH queued <- Queued, dead <- Dead

ImplementsAtLeastOnce == Contract!Spec

(***************************************************************************)
(* A published message has been handled, or an unacknowledged copy of it   *)
(* is on a stream listeners read or on the dead-letter stream, through all *)
(* crashes, restarts, late acknowledgements and re-queuing.                *)
(***************************************************************************)
NoMessageLost == published \subseteq (Queued \cup Dead \cup handled)

(***************************************************************************)
(* HEDWIG_MAX_DELIVERY_ATTEMPTS (docs/settings.rst) bounds how often the   *)
(* loop gets an entry, over all listeners and restarts, although the       *)
(* counter is checked long after the claim that advanced it.               *)
(***************************************************************************)
AttemptsBounded ==
    \A s \in ListenStreams : \A i \in DOMAIN stream[s] :
        Cardinality(AttemptsOn(s, i)) <= MaxDeliveryAttempts

(***************************************************************************)
(* A delivery of an entry is in the hands of one listener only, and no     *)
(* delivery that has been attempted comes up again: every processing of an *)
(* entry has used up one of its delivery attempts.                         *)
(***************************************************************************)
DeliveriesDistinct ==
    \A c \in Listeners : \A d \in batch[c] :
        /\ \A b \in Listeners \ {c} : d \notin batch[b]
        /\ d \in attempts => pc[c] \in {"callback", "ack"} /\ First(c, d)

\* The next three are about instances in which every message is finished within
\* its visibility timeout (Timely).

(***************************************************************************)
(* Until something fails, no listener ends with an error (consumer.py:     *)
(* 28-29: it "may be stopped by passing a shut down event object"): the [0]*)
(* of _process_raw_messages always finds the entry pending.                *)
(***************************************************************************)
ListenersSurvive == crashes = 0 => \A c \in Listeners : pc[c] # "dead"

(***************************************************************************)
(* No entry is in the hands of two listeners: callbacks of one message do  *)
(* not run concurrently.                                                   *)
(***************************************************************************)
OneHolder ==
    \A b, c \in Listeners : \A d \in batch[b], e \in batch[c] :
        d.stream = e.stream /\ d.ix = e.ix => b = c /\ d = e

(***************************************************************************)
(* Until something fails, an entry goes to the dead-letter stream only when*)
(* exactly MaxDeliveryAttempts attempts to process it were made.           *)
(***************************************************************************)
BuriedAfterAllAttempts ==
    \A c \in Listeners : \A d \in batch[c] :
        crashes = 0 /\ pc[c] = "bury" /\ First(c, d) =>
            Cardinality(AttemptsOn(d.stream, d.ix)) = MaxDeliveryAttempts

(***************************************************************************)
(* requeue_dead_letter "re-queues everything in the Hedwig DLQ": when it   *)
(* returns, every entry that was there at its last read is acknowledged,   *)
(* those an earlier, crashed run had fetched included, unless another run  *)
(* fetched it in the meantime.                                             *)
(***************************************************************************)
RequeueComplete ==
    [][\A r \in Requeuers : rpc[r] # "done" /\ rpc'[r] = "done" =>
            \A i \in DOMAIN stream[Dlq] : stream[Dlq][i].state = "acked" \/ i \in ceded[r]]_vars

(***************************************************************************)
(* A DLQ entry is settled only when put back, and no requeuer puts it back *)
(* twice, even when processes die in the middle and are run again: for     *)
(* every acknowledged DLQ entry the queue's own stream got at least one    *)
(* entry, and at most one from each requeuer that held it at that moment.  *)
(* A run can go on only as long as listeners fill the stream.              *)
(***************************************************************************)
RequeuedOnce ==
    LET moved == Cardinality(InState(Dlq, "acked"))
    IN  /\ moved <= Len(stream[Main])
        /\ Len(stream[Main]) <= moved * Cardinality(Requeuers)

-----------------------------------------------------------------------------
\* Liveness.

(***************************************************************************)
(* In the end every published message has been handled or is parked on the *)
(* dead-letter stream; none goes round for ever.                           *)
(***************************************************************************)
EverythingSettles == <>[](published \subseteq handled \cup Dead)

(***************************************************************************)
(* A listener whose shutdown event is set ends (hedwig/consumer.py:28-35), *)
(* after the messages it has; the event stays set until then.              *)
(***************************************************************************)
ShutdownEnds == \A c \in Listeners : []<>(~shutdown[c] \/ pc[c] \in {"stopped", "dead"})

-----------------------------------------------------------------------------
\* What docs and docstrings say and the code does not keep.

(***************************************************************************)
(* "A number of delivery attempts before moving a message to a dead letter *)
(* queue" (docs/settings.rst:160), "If the callback keeps failing"         *)
(* (hedwig/consumer.py:26): what is moved has at least been attempted.     *)
(***************************************************************************)
BuriedAfterAnAttempt ==
    \A c \in Listeners : \A d \in batch[c] :
        pc[c] = "bury" /\ First(c, d) => AttemptsOn(d.stream, d.ix) # {}
=============================================================================

-------------------------- MODULE ConsumerHeartbeat ---------------------------
(***************************************************************************)
(* What a listener tells its operator: the error counter and the heartbeat *)
(* hook of HedwigConsumerBaseBackend.  The base class owns both; each      *)
(* backend's pull_messages decides where in the loop they are looked at:   *)
(* SQS after every receive and before the messages are handled, Redis      *)
(* after the messages of a pull were handled, Pub/Sub only when a second   *)
(* passed without a message, and when the work queue is drained.           *)
(*                                                                         *)
(* The code compares dates.  Here a tick is a unit of time and the two     *)
(* distances from now are kept, each saturated just above the limit it is  *)
(* compared with.  One listener; which message it holds is left out.       *)
(***************************************************************************)
EXTENDS Naturals

CONSTANTS
    Backends,           \* whose pull_messages: "sqs", "redis" or "pubsub"
    NumMessages,        \* num_messages, the most one fetch returns
    HeartbeatInterval,  \* settings.HEDWIG_HEARTBEAT_INTERVAL_S, in ticks
    InactivityReset,    \* settings.HEDWIG_HEARTBEAT_INACTIVITY_RESET_S, in
                        \* ticks; 0 when it is not set
    MaxWaiting,         \* bound: messages on the queue
    MaxErrors           \* bound: exceptions in a row

ASSUME BackendsAssumption == Backends \subseteq {"sqs", "redis", "pubsub"}
ASSUME FetchAssumption == NumMessages \in Nat \ {0}
ASSUME PeriodsAssumption == HeartbeatInterval \in Nat /\ InactivityReset \in Nat
ASSUME BoundsAssumption == MaxWaiting \in Nat /\ MaxErrors \in Nat

VARIABLES
    backend,        \* the backend configured, HEDWIG_CONSUMER_BACKEND
    pc,             \* where the listener stands
    waiting,        \* messages a fetch could return (Pub/Sub: work_queue)
    batch,          \* messages fetched and not yet begun
    shutdown,       \* the shutdown event is set
    errorCount,     \* _error_count
    sinceMessage,   \* now - _last_message_received_at
    sinceHeartbeat, \* now - _heartbeat_called_at
    hookCalls,      \* history: parity of the calls of the heartbeat hook
    streak,         \* history: exceptions since a message last succeeded
    unbroken,       \* history: exceptions since a message last succeeded or
                    \* the listener last found the queue empty
    slow            \* history: more than InactivityReset passed between a
                    \* message and the next fetch

queueVars == <<waiting, batch>>
heartbeatVars == <<sinceHeartbeat, hookCalls>>
errorVars == <<errorCount, streak, unbroken>>
configVars == <<backend, slow>>
vars == <<pc, queueVars, shutdown, sinceMessage, heartbeatVars, errorVars, configVars>>

TypeOK ==
    /\ backend \in Backends
    /\ pc \in {"check", "poll", "next", "callback", "stopped"}
    /\ waiting \in 0 .. MaxWaiting
    /\ batch \in 0 .. NumMessages
    /\ shutdown \in BOOLEAN
    /\ errorCount \in Nat
    /\ sinceMessage \in 0 .. InactivityReset + 1
    /\ sinceHeartbeat \in 0 .. HeartbeatInterval + 1
    /\ hookCalls \in {0, 1}
    /\ streak \in 0 .. MaxErrors
    /\ unbroken \in Nat
    /\ slow \in BOOLEAN

\* Both dates start at 1970.
Init ==
    /\ backend \in Backends
    /\ pc = "check"
    /\ waiting = 0
    /\ batch = 0
    /\ shutdown = FALSE
    /\ errorCount = 0
    /\ sinceMessage = InactivityReset + 1
    /\ sinceHeartbeat = HeartbeatInterval + 1
    /\ hookCalls = 0
    /\ streak = 0
    /\ unbroken = 0
    /\ slow = FALSE

-----------------------------------------------------------------------------
\* Mutant: not saturated.
LaterUnbounded(distance, limit) == distance + 1

\* A distance from now, one tick later.
Later(distance, limit) == IF distance > limit THEN distance ELSE distance + 1

\* The next tick makes the last message slow.
Overdue == InactivityReset > 0 /\ pc # "poll" /\ sinceMessage = InactivityReset

\* Time passes, anywhere in the listener but not while a fetch has something
\* to return: the broker answers at once.
Tick ==
    /\ pc # "stopped"
    /\ pc = "poll" => waiting = 0
    /\ sinceMessage' = Later(sinceMessage, InactivityReset)
    /\ sinceHeartbeat' = Later(sinceHeartbeat, HeartbeatInterval)
    /\ unbroken' = IF pc = "poll" THEN 0 ELSE unbroken
    /\ slow' = (slow \/ Overdue)
    /\ UNCHANGED <<backend, pc, queueVars, shutdown, errorCount, hookCalls, streak>>

\* A message is published, or a delivered one becomes visible again.
Arrive ==
    /\ waiting < MaxWaiting
    /\ waiting' = waiting + 1
    /\ UNCHANGED <<pc, batch, shutdown, sinceMessage, heartbeatVars, errorVars, configVars>>

SetShutdown ==
    /\ ~shutdown
    /\ shutdown' = TRUE
    /\ UNCHANGED <<pc, queueVars, sinceMessage, heartbeatVars, errorVars, configVars>>

-----------------------------------------------------------------------------
\* _call_heartbeat_hook.  The date is taken before the hook runs and kept even
\* when the hook raises.
CallHeartbeatHook(force) ==
    IF force \/ sinceHeartbeat > HeartbeatInterval
    THEN sinceHeartbeat' = 0 /\ hookCalls' = 1 - hookCalls
    ELSE UNCHANGED heartbeatVars

\* _perform_error_counter_inactivity_reset
ResetDue == InactivityReset > 0 /\ sinceMessage > InactivityReset
PerformErrorCounterInactivityReset ==
    errorCount' = IF ResetDue THEN 0 ELSE errorCount

\* while not shutdown_event.is_set(), in the loop and in Pub/Sub's pull.
CheckShutdown ==
    /\ pc = "check"
    /\ IF shutdown THEN backend # "pubsub" /\ pc' = "stopped" ELSE pc' = "poll"
    /\ UNCHANGED <<queueVars, shutdown, sinceMessage, heartbeatVars, errorVars, configVars>>

\* A fetch returns up to NumMessages of the messages waiting, none if none waits.
Fetch ==
    /\ \E n \in 0 .. NumMessages :
          /\ n <= waiting
          /\ n = 0 => waiting = 0
          /\ batch' = n
          /\ waiting' = waiting - n
    /\ unbroken' = IF waiting = 0 THEN 0 ELSE unbroken

\* receive_messages returns: in its finally, before any message is handled, the
\* counter and the heartbeat.
ReceiveFromSqs ==
    /\ backend = "sqs"
    /\ pc = "poll"
    /\ Fetch
    /\ PerformErrorCounterInactivityReset
    /\ CallHeartbeatHook(FALSE)
    /\ pc' = "next"
    /\ UNCHANGED <<shutdown, sinceMessage, streak, configVars>>

\* XAUTOCLAIM and XREADGROUP of one pull; the generator goes on to yield.
ReadFromRedis ==
    /\ backend = "redis"
    /\ pc = "poll"
    /\ Fetch
    /\ pc' = "next"
    /\ UNCHANGED <<shutdown, errorCount, streak, sinceMessage, heartbeatVars, configVars>>

\* work_queue.get(timeout=1) returns a message; with the event set, get(block=False).
TakeFromWorkQueue ==
    /\ backend = "pubsub"
    /\ pc = "poll" \/ (pc = "check" /\ shutdown)
    /\ waiting > 0
    /\ batch' = 1
    /\ waiting' = waiting - 1
    /\ pc' = "next"
    /\ UNCHANGED <<shutdown, sinceMessage, heartbeatVars, errorVars, configVars>>

\* work_queue.get raises Empty: only then the counter and the heartbeat.
WorkQueueEmpty ==
    /\ backend = "pubsub"
    /\ pc = "poll" \/ (pc = "check" /\ shutdown)
    /\ waiting = 0
    /\ unbroken' = 0
    /\ PerformErrorCounterInactivityReset
    /\ CallHeartbeatHook(FALSE)
    /\ pc' = IF pc = "poll" THEN "check" ELSE "stopped"
    /\ UNCHANGED <<queueVars, shutdown, sinceMessage, streak, configVars>>

\* Mutant: the heartbeat is left to the messages.
EndOfPullSilent ==
    /\ pc = "next"
    /\ batch = 0
    /\ pc' = "check"
    /\ UNCHANGED <<queueVars, shutdown, sinceMessage, heartbeatVars, errorVars, configVars>>

\* The loop asks for the next message and there is none.  Redis: the finally of
\* the generator.
EndOfPull ==
    /\ pc = "next"
    /\ batch = 0
    /\ IF backend = "redis"
       THEN PerformErrorCounterInactivityReset /\ CallHeartbeatHook(FALSE)
       ELSE UNCHANGED <<errorCount, heartbeatVars>>
    /\ pc' = "check"
    /\ UNCHANGED <<queueVars, shutdown, sinceMessage, streak, unbroken, configVars>>

-----------------------------------------------------------------------------
\* Mutant: the date of the last message is not kept.
NextMessageUndated ==
    /\ pc = "next"
    /\ batch > 0
    /\ batch' = batch - 1
    /\ pc' \in {"callback", "next"}
    /\ UNCHANGED <<waiting, shutdown, sinceMessage, heartbeatVars, errorVars, configVars>>

\* The loop receives a message.  If the pre-process hook raises, the message is
\* left to be redelivered and the try with the heartbeat is never entered.
NextMessage ==
    /\ pc = "next"
    /\ batch > 0
    /\ batch' = batch - 1
    /\ sinceMessage' = 0
    /\ pc' \in {"callback", "next"}
    /\ UNCHANGED <<waiting, shutdown, heartbeatVars, errorVars, configVars>>

\* extend_visibility_timeout, called by the callback, forces a heartbeat; not
\* with Redis.
ExtendVisibilityTimeout ==
    /\ backend # "redis"
    /\ pc = "callback"
    /\ CallHeartbeatHook(TRUE)
    /\ UNCHANGED <<pc, queueVars, shutdown, sinceMessage, errorVars, configVars>>

\* The finally of process_message, whatever its outcome.  The post-process hook
\* and the acknowledgement that may follow change nothing here.
AfterCallback ==
    /\ pc = "callback"
    /\ CallHeartbeatHook(FALSE)
    /\ pc' = "next"
    /\ UNCHANGED <<queueVars, shutdown, sinceMessage, configVars>>

CallbackReturns ==
    /\ AfterCallback
    /\ errorCount' = 0
    /\ streak' = 0
    /\ unbroken' = 0

\* IgnoreException, LoggingException, RetryException: no success, no error.
CallbackDefers ==
    /\ AfterCallback
    /\ UNCHANGED errorVars

CallbackRaises ==
    /\ AfterCallback
    /\ streak < MaxErrors
    /\ errorCount' = errorCount + 1
    /\ streak' = streak + 1
    /\ unbroken' = unbroken + 1

-----------------------------------------------------------------------------
ListenerStep ==
    \/ CheckShutdown
    \/ ReceiveFromSqs
    \/ ReadFromRedis
    \/ TakeFromWorkQueue
    \/ WorkQueueEmpty
    \/ EndOfPull
    \/ NextMessage
    \/ CallbackReturns
    \/ CallbackDefers
    \/ CallbackRaises

Next ==
    \/ Tick
    \/ Arrive
    \/ SetShutdown
    \/ ListenerStep
    \/ ExtendVisibilityTimeout

\* The listener is scheduled, callbacks and hooks return, and time goes on:
\* fetches that find a message at once do not hold it up for ever.
Fairness == WF_vars(ListenerStep) /\ SF_vars(Tick)

Spec == Init /\ [][Next]_vars
FairSpec == Spec /\ Fairness

-----------------------------------------------------------------------------
(***************************************************************************)
(* The counter the heartbeat hook is given never overstates: it is at most *)
(* the exceptions since a message last succeeded.  And it never forgets    *)
(* while there is work: it is at least the exceptions since a message last *)
(* succeeded or the queue was last found empty (base.py:301-310 and        *)
(* docs/settings.rst:141), as long as no message took longer than the      *)
(* inactivity period; with Pub/Sub, however long messages take.            *)
(***************************************************************************)
ErrorCountTruthful ==
    /\ errorCount <= streak
    /\ ~slow \/ backend = "pubsub" => unbroken <= errorCount

(***************************************************************************)
(* docs/settings.rst:141: the counter is reset if there are "no new        *)
(* messages in queue for the given period of time", so never while the     *)
(* queue kept the listener busy.                                           *)
(***************************************************************************)
NoErrorForgottenWhileBusy == unbroken <= errorCount

(***************************************************************************)
(* The heartbeat goes on until the shutdown event, whatever becomes of the *)
(* messages (docs/settings.rst:147, "heartbeat event interval", and :153,  *)
(* a hook to "monitor hedwig consumer process status").  Not with Pub/Sub, *)
(* where pre-process hooks that raise can keep it from being called.       *)
(***************************************************************************)
HeartbeatGoesOn == backend # "pubsub" => []<>(sinceHeartbeat = 0 \/ shutdown)
=============================================================================

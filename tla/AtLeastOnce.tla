----------------------------- MODULE AtLeastOnce -----------------------------
(***************************************************************************)
(* What Hedwig promises about a message, whatever the backend: once        *)
(* published it stays on a queue until its callback has returned, or it is *)
(* parked on the dead-letter queue, from which an operator can put it back.*)
(* Copies are not counted: a message may be handled, parked and queued any *)
(* number of times, and be all three at once.                              *)
(*                                                                         *)
(* Source of the promise: the methods of the abstract backend,             *)
(* hedwig/backends/base.py, and how its loop calls them.                   *)
(***************************************************************************)
CONSTANT Messages       \* the messages publishers may send

VARIABLES
    published,          \* messages a publisher has handed to the broker
    queued,             \* messages with an unsettled copy a listener can get
    dead,               \* messages with an unsettled copy on the DLQ
    handled             \* messages whose callback returned at least once

vars == <<published, queued, dead, handled>>

Init ==
    /\ published = {}
    /\ queued = {}
    /\ dead = {}
    /\ handled = {}

-----------------------------------------------------------------------------
\* HedwigPublisherBaseBackend._publish
Publish(m) ==
    /\ published' = published \cup {m}
    /\ queued' = queued \cup {m}
    /\ UNCHANGED <<dead, handled>>

\* message_handler: the callback of m returned, or told the loop to ignore m.
Handle(m) ==
    /\ m \in published
    /\ handled' = handled \cup {m}
    /\ UNCHANGED <<published, queued, dead>>

\* ack_message: allowed only after the callback; another copy may keep m queued.
Settle(m) ==
    /\ m \in handled
    /\ queued' \in {queued, queued \ {m}}
    /\ UNCHANGED <<published, dead, handled>>

\* The broker or the backend gives up on a copy of m and parks it.
DeadLetter(m) ==
    /\ m \in published
    /\ dead' = dead \cup {m}
    /\ queued' \in {queued, queued \ {m}}
    /\ UNCHANGED <<published, handled>>

\* requeue_dead_letter: a batch goes back on the queue; what leaves the DLQ
\* is part of that batch.
Requeue(batch) ==
    /\ batch \subseteq published
    /\ queued' = queued \cup batch
    /\ \E gone \in SUBSET batch : dead' = dead \ gone
    /\ UNCHANGED <<published, handled>>

\* requeue_dead_letter of SQS and Pub/Sub, which delete in a second request:
\* only what is on the queue again, or was handled since, may go.
Discard(batch) ==
    /\ batch \subseteq (queued \cup handled)
    /\ dead' = dead \ batch
    /\ UNCHANGED <<published, queued, handled>>

Next ==
    \/ \E m \in Messages : \/ Publish(m)
                           \/ Handle(m)
                           \/ Settle(m)
                           \/ DeadLetter(m)
    \/ \E batch \in SUBSET Messages : Requeue(batch) \/ Discard(batch)

Spec == Init /\ [][Next]_vars

-----------------------------------------------------------------------------
(***************************************************************************)
(* No message is lost: a published message has been handled, or a copy of  *)
(* it is still on the queue or on the dead-letter queue (the contract of   *)
(* hedwig/consumer.py:25-26).                                              *)
(***************************************************************************)
NoLoss == published \subseteq (queued \cup dead \cup handled)
=============================================================================

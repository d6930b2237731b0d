---------------------------- MODULE LeasingQueue -----------------------------
(***************************************************************************)
(* A message broker that leases messages, as SQS and Pub/Sub do: a copy    *)
(* that was delivered is hidden until it is deleted, given back, or its    *)
(* lease (SQS: visibility timeout, Pub/Sub: ack deadline) passes.  The     *)
(* broker is not part of the code; this is what the code relies on.        *)
(*                                                                         *)
(* Operators over the sequence of all copies ever stored.  A copy is       *)
(* identified by its place in it; the handle of a delivery (receipt handle,*)
(* ack id) by how often the copy had been delivered.                       *)
(***************************************************************************)
EXTENDS Naturals, Sequences, FiniteSets

CopyOf(Msgs, Queues) ==
    [msg : Msgs, queue : Queues, state : {"visible", "hidden", "deleted"},
     receives : Nat]

NewCopyOn(m, q) == [msg |-> m, queue |-> q, state |-> "visible", receives |-> 0]

CopiesIn(copies, q) ==
    {i \in DOMAIN copies : copies[i].queue = q /\ copies[i].state # "deleted"}

VisibleIn(copies, q) == {i \in CopiesIn(copies, q) : copies[i].state = "visible"}

\* The copies in S are delivered.
Leased(copies, S) ==
    [i \in DOMAIN copies |->
        IF i \in S
        THEN [copies[i] EXCEPT !.state = "hidden", !.receives = @ + 1]
        ELSE copies[i]]

\* What deleting the deliveries D from queue q can leave: a handle that is not
\* the latest may be ignored, and one of another queue is.
Deletions(copies, D, q) ==
    LET onQueue == {d \in D : d.copy \in CopiesIn(copies, q)}
        latest == {d \in onQueue : d.receipt = copies[d.copy].receives}
    IN  {[i \in DOMAIN copies |->
            IF \E d \in gone : d.copy = i
            THEN [copies[i] EXCEPT !.state = "deleted"] ELSE copies[i]] :
         gone \in {latest \cup stale : stale \in SUBSET onQueue}}

\* What giving back delivery d to queue q leaves.
GivenBack(copies, d, q) ==
    IF /\ d.copy \in CopiesIn(copies, q)
       /\ d.receipt = copies[d.copy].receives
    THEN [copies EXCEPT ![d.copy].state = "visible"]
    ELSE copies
=============================================================================

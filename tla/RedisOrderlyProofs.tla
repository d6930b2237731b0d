-------------------------- MODULE RedisOrderlyProofs --------------------------
(***************************************************************************)
(* What operators achieve who re-queue the dead-letter stream, any number  *)
(* of them at a time, and what RedisStreams keeps when every message is    *)
(* finished within its visibility timeout (the theorems that assume        *)
(* Timely).  The other parameters are arbitrary, crashes included.         *)
(***************************************************************************)
EXTENDS RedisStreamsProofs, WellFoundedInduction

-----------------------------------------------------------------------------
\* A fetch of what a stream has returns something.

LEMMA SmallestNumber ==
    ASSUME NEW S \in SUBSET Nat, S # {}
    PROVE  \E x \in S : \A y \in S : ~ (y < x)
<1> DEFINE R == OpToRel(<, Nat)
<1>1. IsWellFoundedOn(R, Nat)
  BY NatLessThanWellFounded
<1>2. \A x, y \in Nat : x < y => <<x, y>> \in R
  BY DEF OpToRel
<1> HIDE DEF R
<1>3. \E x \in S : \A y \in S : ~ (<<y, x>> \in R)
  BY <1>1, WFMin
<1> QED BY <1>2, <1>3

LEMMA OldestSome ==
    ASSUME NEW S \in SUBSET Nat, Oldest(S, NumMessages) = {}
    PROVE  S = {}
<1> SUFFICES ASSUME S # {} PROVE FALSE
  OBVIOUS
<1>1. PICK x \in S : \A y \in S : ~ (y < x)
  BY SmallestNumber
<1>2. {j \in S : j < x} = {}
  BY <1>1
<1>3. Cardinality({j \in S : j < x}) = 0
  BY <1>2, FS_EmptySet
<1>4. x \in Oldest(S, NumMessages)
  BY <1>3, FetchAssumption DEF Oldest
<1> QED BY <1>4

-----------------------------------------------------------------------------
\* Re-queuing.

\* What requeuer r has in hand was fetched, and may be acknowledged by another that
\* fetched it too.  From its first XREADGROUP on there is nothing pending but what it
\* has just fetched and what others fetched meanwhile.
RequeueStage(r) ==
    /\ rbatch[r] \subseteq InState(Dlq, "pending") \cup InState(Dlq, "acked")
    /\ rpc[r] \notin {"claimed", "fetched"} => rbatch[r] = {}
    /\ rpc[r] = "read" => InState(Dlq, "pending") \subseteq ceded[r]
    /\ rpc[r] = "fetched" => InState(Dlq, "pending") \subseteq ceded[r] \cup rbatch[r]

\* The acknowledged entries, each with the requeuers that cannot put it back any more.
OutOfHand ==
    {p \in InState(Dlq, "acked") \X Requeuers : p[1] \notin rbatch[p[2]]}

\* Each of those pairs stands for at most one entry of the queue's own stream.
Accounted ==
    /\ Cardinality(InState(Dlq, "acked")) <= Len(stream[Main])
    /\ Len(stream[Main]) <= Cardinality(OutOfHand)

QInv == /\ Base
        /\ \A r \in Requeuers : RequeueStage(r)
        /\ Accounted

\* Steps that leave the requeuing alone: entries may be added to the dead-letter
\* stream, and none is added to the queue's own stream.
DlqGrows ==
    /\ \A i \in DOMAIN stream[Dlq] : i \in DOMAIN stream'[Dlq] /\ stream'[Dlq][i] = stream[Dlq][i]
    /\ \A i \in DOMAIN stream'[Dlq] : i \in DOMAIN stream[Dlq] \/ stream'[Dlq][i].state = "new"
    /\ Len(stream'[Main]) = Len(stream[Main])

LEMMA DlqSame ==
    ASSUME Base, stream'[Dlq] = stream[Dlq], Len(stream'[Main]) = Len(stream[Main])
    PROVE  DlqGrows
BY DEF DlqGrows

\* Replacing an entry of a stream listened to.
LEMMA ReplacedElsewhere ==
    ASSUME Base, NEW s \in ListenStreams, NEW i \in DOMAIN stream[s], NEW e,
           stream' = [stream EXCEPT ![s][i] = e]
    PROVE  DlqGrows
<1>1. stream[s] \in Seq(Entry) /\ stream[Main] \in Seq(Entry) /\ s # Dlq /\ Main # Dlq
  BY StreamNumbers DEF Base, TypeOK
<1>2. stream'[Dlq] = stream[Dlq]
  BY <1>1, StreamNumbers DEF Base, TypeOK
<1>3. stream'[Main] = IF s = Main THEN [stream[Main] EXCEPT ![i] = e] ELSE stream[Main]
  BY StreamNumbers DEF Base, TypeOK
<1>4. Len(stream'[Main]) = Len(stream[Main])
  BY <1>1, <1>3
<1> QED BY <1>2, <1>4, DlqSame

LEMMA FetchedElsewhere ==
    ASSUME Base, NEW ids, Known(ids), stream' = Updated(Delivered, ids)
    PROVE  DlqGrows
<1>1. stream[Dlq] \in Seq(Entry) /\ stream[Main] \in Seq(Entry) /\ Main \in Streams
  BY StreamNumbers DEF Base, TypeOK
<1>2. \A i : <<Dlq, i>> \notin ids
  BY StreamNumbers DEF Known
<1>3. stream'[Dlq] = [i \in DOMAIN stream[Dlq] |-> stream[Dlq][i]]
  BY <1>2, StreamNumbers DEF Updated
<1>4. stream'[Dlq] = stream[Dlq]
  BY <1>1, <1>3
<1>5. DOMAIN stream'[Main] = DOMAIN stream[Main]
  BY <1>1 DEF Updated
<1>6. stream'[Main] \in Seq(Entry)
  BY <1>1, UpdatedType DEF Base, StreamsType
<1>7. Len(stream'[Main]) = Len(stream[Main])
  BY <1>1, <1>5, <1>6
<1> QED BY <1>4, <1>7, DlqSame

LEMMA MovedGrows ==
    ASSUME Base, NEW c \in Listeners, MoveToDlq(c)
    PROVE  DlqGrows
<1>1. PICK d \in batch[c] :
        stream' = [stream EXCEPT
                     ![d.stream][d.ix] = Acked(@),
                     ![Dlq] = Append(@, NewEntry(EntryOf(d).msg))]
  BY DEF MoveToDlq
<1>2. /\ d.stream \in ListenStreams /\ d.stream \in Streams /\ d.stream # Dlq
      /\ d.ix \in DOMAIN stream[d.stream] /\ EntryOf(d).msg \in Messages
  BY Holds
<1>3. stream[Dlq] \in Seq(Entry) /\ stream[Main] \in Seq(Entry) /\ Main # Dlq
      /\ NewEntry(EntryOf(d).msg) \in Entry
  BY <1>2, StreamNumbers, NewEntryType DEF Base, TypeOK
<1>4. stream'[Dlq] = Append(stream[Dlq], NewEntry(EntryOf(d).msg))
  BY <1>1, <1>2, StreamNumbers DEF Base, TypeOK
<1>5. stream'[Main] = IF d.stream = Main THEN [stream[Main] EXCEPT ![d.ix] = Acked(stream[Main][d.ix])]
                      ELSE stream[Main]
  BY <1>1, <1>2, StreamNumbers DEF Base, TypeOK
<1>6. Len(stream'[Main]) = Len(stream[Main])
  BY <1>3, <1>5
<1>7. /\ \A i \in DOMAIN stream[Dlq] : i \in DOMAIN stream'[Dlq] /\ stream'[Dlq][i] = stream[Dlq][i]
      /\ \A i \in DOMAIN stream'[Dlq] : i \in DOMAIN stream[Dlq] \/ i = Len(stream[Dlq]) + 1
      /\ stream'[Dlq][Len(stream[Dlq]) + 1] = NewEntry(EntryOf(d).msg)
  BY <1>3, <1>4, AppendProperties
<1>8. NewEntry(EntryOf(d).msg).state = "new"
  BY DEF NewEntry
<1> QED BY <1>6, <1>7, <1>8 DEF DlqGrows

LEMMA StreamsElsewhere ==
    ASSUME Base, [Next]_vars
    PROVE  \/ DlqGrows /\ UNCHANGED requeuerVars
           \/ \E r \in Requeuers : RequeuerStep(r)
           \/ \E r \in Requeuers : (StartRequeue(r) \/ RequeuerCrash(r)) /\ DlqGrows
<1>1. UNCHANGED <<stream, requeuerVars>> => DlqGrows /\ UNCHANGED requeuerVars
  BY DlqSame
<1>2. ASSUME NEW m \in Messages, NEW s \in 1 .. NumSubscriptions, Publish(m, s)
      PROVE  DlqGrows /\ UNCHANGED requeuerVars
  <2>1. s # Main /\ s # Dlq
    BY SubscriptionsAssumption DEF Main, Dlq
  <2>2. stream'[Dlq] = stream[Dlq] /\ stream'[Main] = stream[Main]
    BY <1>2, <2>1, StreamNumbers DEF Publish, Base, TypeOK
  <2> QED BY <1>2, <2>2, DlqSame DEF Publish
<1>3. ASSUME NEW s \in ListenStreams, NEW i \in DOMAIN stream[s], VisibilityTimeout(s, i)
      PROVE  DlqGrows /\ UNCHANGED requeuerVars
  <2>1. stream' = [stream EXCEPT ![s][i] = [stream[s][i] EXCEPT !.expired = TRUE]]
    BY <1>3, StreamNumbers DEF VisibilityTimeout, Base, TypeOK
  <2> QED BY <1>3, <2>1, ReplacedElsewhere DEF VisibilityTimeout
<1>4. ASSUME NEW c \in Listeners, NEW ids, Known(ids), Fetch(c, ids)
      PROVE  DlqGrows /\ UNCHANGED requeuerVars
  BY <1>4, FetchedElsewhere DEF Fetch
<1>5. ASSUME NEW c \in Listeners, AckMessage(c)
      PROVE  DlqGrows /\ UNCHANGED requeuerVars
  <2>1. PICK d \in batch[c] : stream' = [stream EXCEPT ![d.stream][d.ix] = Acked(@)]
    BY <1>5 DEF AckMessage
  <2>2. stream' = [stream EXCEPT ![d.stream][d.ix] = Acked(EntryOf(d))]
    BY <2>1, Holds DEF EntryOf
  <2> QED BY <1>5, <2>2, Holds, ReplacedElsewhere DEF AckMessage
<1>6. ASSUME NEW c \in Listeners, ExtendVisibilityTimeout(c)
      PROVE  DlqGrows /\ UNCHANGED requeuerVars
  <2>1. PICK d \in batch[c] : stream' = [stream EXCEPT ![d.stream][d.ix] = Touched(@)]
    BY <1>6 DEF ExtendVisibilityTimeout
  <2>2. stream' = [stream EXCEPT ![d.stream][d.ix] = Touched(EntryOf(d))]
    BY <2>1, Holds DEF EntryOf
  <2> QED BY <1>6, <2>2, Holds, ReplacedElsewhere DEF ExtendVisibilityTimeout
<1>7. ASSUME NEW c \in Listeners, MoveToDlq(c)
      PROVE  DlqGrows /\ UNCHANGED requeuerVars
  BY <1>7, MovedGrows DEF MoveToDlq
<1>8. ASSUME NEW c \in Listeners, ClaimTimedOut(c) \/ ReadNew(c)
      PROVE  DlqGrows /\ UNCHANGED requeuerVars
  <2>1. PICK ids : Known(ids) /\ Fetch(c, ids)
    BY <1>8, FetchedIds DEF ClaimTimedOut, ReadNew, Known, Base
  <2> QED BY <2>1, <1>4
<1>9. ASSUME NEW c \in Listeners,
             \/ CheckShutdown(c) \/ BatchDone(c) \/ EntryGone(c) \/ CountTooHigh(c)
             \/ StartCallback(c) \/ PreProcessHookRaises(c) \/ CallbackReturns(c)
             \/ CallbackRaises(c) \/ PostProcessHookRaises(c) \/ AckRaises(c)
             \/ SetShutdown(c) \/ Crash(c) \/ Restart(c)
      PROVE  UNCHANGED <<stream, requeuerVars>>
  BY <1>9 DEF CheckShutdown, BatchDone, EntryGone, CountTooHigh, StartCallback,
         PreProcessHookRaises, Yielded, CallbackReturns, CallbackRaises, PostProcessHookRaises,
         AckRaises, SetShutdown, Crash, Restart
<1>10. ASSUME NEW r \in Requeuers, StartRequeue(r) \/ RequeuerCrash(r)
       PROVE  DlqGrows
  BY <1>10, DlqSame DEF StartRequeue, RequeuerCrash
<1>11. ASSUME NEW c \in Listeners, ListenerStep(c)
       PROVE  DlqGrows /\ UNCHANGED requeuerVars
  BY <1>11, <1>1, <1>5, <1>7, <1>8, <1>9 DEF ListenerStep
<1>12. CASE UNCHANGED vars
  BY <1>1, <1>12 DEF vars
<1>13. ASSUME NEW c \in Listeners,
              SetShutdown(c) \/ ExtendVisibilityTimeout(c) \/ Crash(c) \/ Restart(c)
       PROVE  DlqGrows /\ UNCHANGED requeuerVars
  BY <1>1, <1>6, <1>9, <1>13
<1>14. CASE Next
  BY <1>2, <1>3, <1>10, <1>11, <1>13, <1>14 DEF Next, Timeout
<1> QED BY <1>12, <1>14

\* The states of the dead-letter entries after each kind of step.

LEMMA DlqNumbers ==
    ASSUME Base, NEW st
    PROVE  /\ InState(Dlq, st) \subseteq DOMAIN stream[Dlq]
           /\ InState(Dlq, st) \in SUBSET Nat
           /\ IsFiniteSet(InState(Dlq, st))
<1>1. stream[Dlq] \in Seq(Entry)
  BY StreamNumbers DEF Base, TypeOK
<1>2. Len(stream[Dlq]) \in Nat /\ DOMAIN stream[Dlq] = 1 .. Len(stream[Dlq])
  BY <1>1
<1>3. InState(Dlq, st) \subseteq 1 .. Len(stream[Dlq])
  BY <1>2 DEF InState
<1>4. IsFiniteSet(1 .. Len(stream[Dlq]))
  BY <1>2, FS_Interval
<1>5. IsFiniteSet(InState(Dlq, st))
  BY <1>3, <1>4, FS_Subset
<1> QED BY <1>2, <1>3, <1>5

LEMMA GrownStates ==
    ASSUME DlqGrows, NEW st, st # "new"
    PROVE  InState(Dlq, st)' = InState(Dlq, st)
BY DEF DlqGrows, InState

LEMMA RequeueFetched ==
    ASSUME Base, NEW r \in Requeuers, NEW st, NEW got, NEW none, RequeueFetch(r, st, got, none)
    PROVE  \E ids \in SUBSET InState(Dlq, st) :
            /\ ids = {} => InState(Dlq, st) = {}
            /\ Len(stream'[Main]) = Len(stream[Main])
            /\ InState(Dlq, "pending")' = InState(Dlq, "pending") \cup ids
            /\ InState(Dlq, "acked")' = InState(Dlq, "acked") \ ids
            /\ rbatch' = [rbatch EXCEPT ![r] = ids]
            /\ ceded' = [x \in Requeuers |->
                            IF x = r \/ rpc[x] \in {"off", "done"}
                            THEN ceded[x] ELSE ceded[x] \cup ids]
            /\ rpc' = [rpc EXCEPT ![r] = IF ids = {} THEN none ELSE got]
<1> DEFINE ids == Oldest(InState(Dlq, st), NumMessages)
<1>1. /\ stream' = Updated(Delivered, {Dlq} \X ids)
      /\ rbatch' = [rbatch EXCEPT ![r] = ids]
      /\ ceded' = [x \in Requeuers |->
                      IF x = r \/ rpc[x] \in {"off", "done"}
                      THEN ceded[x] ELSE ceded[x] \cup ids]
      /\ rpc' = [rpc EXCEPT ![r] = IF ids = {} THEN none ELSE got]
  BY DEF RequeueFetch
<1>2. ids \in SUBSET InState(Dlq, st)
  BY DEF Oldest
<1>3. ids = {} => InState(Dlq, st) = {}
  BY OldestSome, DlqNumbers
<1> HIDE DEF ids
<1>4. Len(stream'[Main]) = Len(stream[Main])
  <2>1. stream[Main] \in Seq(Entry) /\ Main \in Streams
    BY StreamNumbers DEF Base, TypeOK
  <2>2. DOMAIN stream'[Main] = DOMAIN stream[Main]
    BY <1>1, <2>1 DEF Updated
  <2>3. stream'[Main] \in Seq(Entry)
    BY <1>1, <2>1, UpdatedType DEF Base, StreamsType
  <2> QED BY <2>1, <2>2, <2>3
<1>5. /\ DOMAIN stream'[Dlq] = DOMAIN stream[Dlq]
      /\ \A i \in DOMAIN stream[Dlq] :
            stream'[Dlq][i] = IF i \in ids THEN Delivered(stream[Dlq][i]) ELSE stream[Dlq][i]
  BY <1>1, StreamNumbers DEF Updated
<1>6. \A e : Delivered(e).state = "pending"
  BY DEF Delivered
<1>7. ids \subseteq DOMAIN stream[Dlq]
  BY <1>2 DEF InState
<1>8. InState(Dlq, "pending")' = InState(Dlq, "pending") \cup ids
  BY <1>5, <1>6, <1>7 DEF InState
<1>9. InState(Dlq, "acked")' = InState(Dlq, "acked") \ ids
  BY <1>5, <1>6, <1>7 DEF InState
<1> QED BY <1>1, <1>2, <1>3, <1>4, <1>8, <1>9

LEMMA RequeueMoved ==
    ASSUME Base, NEW r \in Requeuers, RequeueMessages(r), RequeueStage(r)
    PROVE  /\ Len(stream'[Main]) = Len(stream[Main]) + Cardinality(rbatch[r])
           /\ InState(Dlq, "pending")' = InState(Dlq, "pending") \ rbatch[r]
           /\ InState(Dlq, "acked")' = InState(Dlq, "acked") \cup rbatch[r]
<1>1. PICK q \in InOrder(rbatch[r]) :
        stream' = [stream EXCEPT
            ![Main] = @ \o [k \in DOMAIN q |-> NewEntry(stream[Dlq][q[k]].msg)],
            ![Dlq] = [i \in DOMAIN @ |-> IF i \in rbatch[r] THEN Acked(@[i]) ELSE @[i]]]
  BY DEF RequeueMessages
<1> DEFINE a == [k \in DOMAIN q |-> NewEntry(stream[Dlq][q[k]].msg)]
           b == [i \in DOMAIN stream[Dlq] |->
                    IF i \in rbatch[r] THEN Acked(stream[Dlq][i]) ELSE stream[Dlq][i]]
<1>2. /\ stream[Dlq] \in Seq(Entry) /\ stream[Main] \in Seq(Entry)
      /\ rbatch[r] \subseteq DOMAIN stream[Dlq]
  BY StreamNumbers DEF Base, TypeOK, DlqLocated
<1>3. /\ q \in [1 .. Cardinality(rbatch[r]) -> rbatch[r]] /\ Cardinality(rbatch[r]) \in Nat
  BY RbatchFinite, FS_CardinalityType DEF InOrder
<1>4. a \in Seq(Entry) /\ Len(a) = Cardinality(rbatch[r])
  <2>1. \A k \in DOMAIN q : NewEntry(stream[Dlq][q[k]].msg) \in Entry
    BY <1>2, <1>3, EntryAt, NewEntryType, StreamNumbers DEF Base
  <2>2. a \in [1 .. Cardinality(rbatch[r]) -> Entry]
    BY <1>3, <2>1
  <2> HIDE DEF a
  <2> QED BY <1>3, <2>2
<1>5. DOMAIN b = DOMAIN stream[Dlq]
      /\ \A i \in DOMAIN stream[Dlq] :
            b[i] = IF i \in rbatch[r] THEN Acked(stream[Dlq][i]) ELSE stream[Dlq][i]
  OBVIOUS
<1>6. stream'[Main] = stream[Main] \o a /\ stream'[Dlq] = b
  BY <1>1, StreamNumbers DEF Base, TypeOK
<1> HIDE DEF a, b
<1>7. Len(stream'[Main]) = Len(stream[Main]) + Cardinality(rbatch[r])
  <2>1. Len(stream[Main] \o a) = Len(stream[Main]) + Len(a)
    BY <1>2, <1>4, ConcatProperties
  <2> QED BY <1>4, <1>6, <2>1
<1>8. \A i \in rbatch[r] : Acked(stream[Dlq][i]).state = "acked"
  <2> SUFFICES ASSUME NEW i \in rbatch[r]
               PROVE  Acked(stream[Dlq][i]).state = "acked"
    OBVIOUS
  <2>1. stream[Dlq][i] \in Entry /\ stream[Dlq][i].state \in {"pending", "acked"}
    BY <1>2 DEF InState, RequeueStage
  <2> QED BY <2>1 DEF Acked, Entry
<1>9. InState(Dlq, "pending")' = InState(Dlq, "pending") \ rbatch[r]
  BY <1>2, <1>5, <1>6, <1>8 DEF InState
<1>10. InState(Dlq, "acked")' = InState(Dlq, "acked") \cup rbatch[r]
  BY <1>2, <1>5, <1>6, <1>8 DEF InState
<1> QED BY <1>7, <1>9, <1>10

LEMMA OutOfHandType ==
    ASSUME Base
    PROVE  /\ IsFiniteSet(InState(Dlq, "acked")) /\ IsFiniteSet(OutOfHand)
           /\ Cardinality(InState(Dlq, "acked")) \in Nat /\ Cardinality(OutOfHand) \in Nat
           /\ Cardinality(OutOfHand) <= Cardinality(InState(Dlq, "acked")) * Cardinality(Requeuers)
           /\ Len(stream[Main]) \in Nat
<1>1. IsFiniteSet(InState(Dlq, "acked"))
  BY DlqNumbers
<1>2. /\ IsFiniteSet(InState(Dlq, "acked") \X Requeuers)
      /\ Cardinality(InState(Dlq, "acked") \X Requeuers)
            = Cardinality(InState(Dlq, "acked")) * Cardinality(Requeuers)
  BY <1>1, RequeuersAssumption, FS_Product
<1>3. OutOfHand \in SUBSET (InState(Dlq, "acked") \X Requeuers)
  BY DEF OutOfHand
<1>4. IsFiniteSet(OutOfHand)
      /\ Cardinality(OutOfHand) <= Cardinality(InState(Dlq, "acked") \X Requeuers)
  BY <1>2, <1>3, FS_Subset
<1>5. Cardinality(InState(Dlq, "acked")) \in Nat /\ Cardinality(OutOfHand) \in Nat
  BY <1>1, <1>4, FS_CardinalityType
<1>6. Len(stream[Main]) \in Nat
  BY StreamNumbers DEF Base, TypeOK
<1> QED BY <1>1, <1>2, <1>4, <1>5, <1>6

\* A step that acknowledges nothing: nobody gets hold of an acknowledged entry.
LEMMA StaysAccounted ==
    ASSUME Base, Accounted, Base', Len(stream'[Main]) = Len(stream[Main]),
           InState(Dlq, "acked")' = InState(Dlq, "acked"),
           \A x \in Requeuers : rbatch'[x] \cap InState(Dlq, "acked") \subseteq rbatch[x]
    PROVE  Accounted'
<1>1. OutOfHand \subseteq OutOfHand'
  BY DEF OutOfHand
<1>2. IsFiniteSet(OutOfHand')
  <2>1. IsFiniteSet(InState(Dlq, "acked") \X Requeuers)
    BY OutOfHandType, RequeuersAssumption, FS_Product
  <2>2. OutOfHand' \in SUBSET (InState(Dlq, "acked") \X Requeuers)
    BY DEF OutOfHand
  <2> QED BY <2>1, <2>2, FS_Subset
<1>3. Cardinality(OutOfHand) <= Cardinality(OutOfHand')
  BY <1>1, <1>2, FS_Subset
<1>4. Cardinality(OutOfHand') \in Nat
  BY <1>2, FS_CardinalityType
<1>5. Len(stream[Main]) <= Cardinality(OutOfHand')
  BY <1>3, <1>4, OutOfHandType DEF Accounted
<1> QED BY <1>5 DEF Accounted

\* Moving a batch takes it out of one requeuer's hands.
LEMMA MoveAccounted ==
    ASSUME Base, Accounted, NEW r \in Requeuers, RequeueMessages(r), RequeueStage(r)
    PROVE  Accounted'
<1> DEFINE A == InState(Dlq, "acked")
           B == rbatch[r]
           pairs == B \X {r}
<1>1. Len(stream'[Main]) = Len(stream[Main]) + Cardinality(B) /\ A' = A \cup B
  BY RequeueMoved
<1>2. rbatch'[r] = {} /\ \A x \in Requeuers \ {r} : rbatch'[x] = rbatch[x]
  BY DEF RequeueMessages, Base, TypeOK
<1>3. IsFiniteSet(A) /\ IsFiniteSet(B) /\ Cardinality(A) \in Nat /\ Cardinality(B) \in Nat
  BY OutOfHandType, RbatchFinite, FS_CardinalityType
<1>4. IsFiniteSet(pairs) /\ Cardinality(pairs) = Cardinality(B)
  <2>1. IsFiniteSet({r}) /\ Cardinality({r}) = 1
    BY FS_Singleton
  <2>2. IsFiniteSet(pairs) /\ Cardinality(pairs) = Cardinality(B) * Cardinality({r})
    BY <1>3, <2>1, FS_Product
  <2> QED BY <1>3, <2>1, <2>2
<1>5. OutOfHand \cup pairs \subseteq OutOfHand'
  <2>1. OutOfHand' = {p \in (A \cup B) \X Requeuers : p[1] \notin rbatch'[p[2]]}
    BY <1>1 DEF OutOfHand
  <2>2. \A i \in B : <<i, r>> \in OutOfHand'
    BY <1>2, <2>1
  <2>3. \A i \in A, x \in Requeuers : i \notin rbatch[x] => <<i, x>> \in OutOfHand'
    BY <1>2, <2>1
  <2> QED BY <2>2, <2>3 DEF OutOfHand
<1>6. IsFiniteSet(OutOfHand')
  <2>1. IsFiniteSet(A \cup B)
    BY <1>3, FS_Union
  <2>2. IsFiniteSet((A \cup B) \X Requeuers)
    BY <2>1, RequeuersAssumption, FS_Product
  <2>3. OutOfHand' \in SUBSET ((A \cup B) \X Requeuers)
    BY <1>1 DEF OutOfHand
  <2> QED BY <2>2, <2>3, FS_Subset
<1>7. Cardinality(OutOfHand \cup pairs) = Cardinality(OutOfHand) + Cardinality(B)
  <2>1. OutOfHand \cap pairs = {}
    BY DEF OutOfHand
  <2>2. Cardinality(OutOfHand \cap pairs) = 0
    BY <2>1, FS_EmptySet
  <2>3. Cardinality(OutOfHand \cup pairs)
          = Cardinality(OutOfHand) + Cardinality(pairs) - Cardinality(OutOfHand \cap pairs)
    BY <1>4, OutOfHandType, FS_Union
  <2> QED BY <1>3, <1>4, <2>2, <2>3, OutOfHandType
<1>8. Cardinality(OutOfHand \cup pairs) <= Cardinality(OutOfHand')
  BY <1>5, <1>6, FS_Subset
<1>9. Len(stream'[Main]) <= Cardinality(OutOfHand')
  <2>1. Cardinality(OutOfHand') \in Nat
    BY <1>6, FS_CardinalityType
  <2> QED BY <1>1, <1>3, <1>7, <1>8, <2>1, OutOfHandType DEF Accounted
<1>10. Cardinality(A \cup B) <= Len(stream'[Main])
  <2>1. Cardinality(A \cup B) = Cardinality(A) + Cardinality(B) - Cardinality(A \cap B)
    BY <1>3, FS_Union
  <2>2. Cardinality(A \cap B) \in Nat
    BY <1>3, FS_Intersection, FS_CardinalityType
  <2> QED BY <1>1, <1>3, <2>1, <2>2, OutOfHandType DEF Accounted
<1> QED BY <1>1, <1>9, <1>10 DEF Accounted

LEMMA QInvInit == Init => QInv
<1> SUFFICES ASSUME Init PROVE QInv
  OBVIOUS
<1>1. stream[Main] = << >> /\ stream[Dlq] = << >>
  BY StreamNumbers DEF Init
<1>2. \A st : InState(Dlq, st) = {}
  BY <1>1 DEF InState
<1>3. OutOfHand = {}
  BY <1>2 DEF OutOfHand
<1>4. Accounted
  <2>1. Cardinality(InState(Dlq, "acked")) = 0 /\ Cardinality(OutOfHand) = 0
    BY <1>2, <1>3, FS_EmptySet
  <2>2. Len(stream[Main]) = 0
    BY <1>1
  <2> QED BY <2>1, <2>2 DEF Accounted
<1> QED BY <1>2, <1>4, BaseInit DEF QInv, RequeueStage, Init

\* A requeuer receives entries of the dead-letter stream.
LEMMA FetchStep ==
    ASSUME QInv, Base', NEW r \in Requeuers, NEW st \in {"pending", "new"}, NEW got, NEW none,
           RequeueFetch(r, st, got, none),
           \/ st = "pending" /\ got = "claimed" /\ none = "read"
           \/ st = "new" /\ got = "fetched" /\ none = "done" /\ rpc[r] = "read"
    PROVE  QInv'
<1> USE DEF QInv
<1>1. PICK ids \in SUBSET InState(Dlq, st) :
        /\ ids = {} => InState(Dlq, st) = {}
        /\ Len(stream'[Main]) = Len(stream[Main])
        /\ InState(Dlq, "pending")' = InState(Dlq, "pending") \cup ids
        /\ InState(Dlq, "acked")' = InState(Dlq, "acked") \ ids
        /\ rbatch' = [rbatch EXCEPT ![r] = ids]
        /\ ceded' = [x \in Requeuers |->
                        IF x = r \/ rpc[x] \in {"off", "done"}
                        THEN ceded[x] ELSE ceded[x] \cup ids]
        /\ rpc' = [rpc EXCEPT ![r] = IF ids = {} THEN none ELSE got]
  BY RequeueFetched
<1>2. ids \cap InState(Dlq, "acked") = {}
  BY <1>1 DEF InState
<1>3. InState(Dlq, "acked")' = InState(Dlq, "acked")
  BY <1>1, <1>2
<1>4. /\ rbatch'[r] = ids /\ ceded'[r] = ceded[r] /\ rpc'[r] = IF ids = {} THEN none ELSE got
      /\ \A x \in Requeuers \ {r} :
            /\ rbatch'[x] = rbatch[x] /\ rpc'[x] = rpc[x]
            /\ ceded[x] \subseteq ceded'[x]
            /\ rpc[x] \in {"read", "fetched"} => ids \subseteq ceded'[x]
  BY <1>1 DEF Base, TypeOK
<1>5. Accounted'
  <2>1. \A x \in Requeuers : rbatch'[x] \cap InState(Dlq, "acked") \subseteq rbatch[x]
    BY <1>2, <1>4
  <2> QED BY <1>1, <1>3, <2>1, StaysAccounted
<1>6. \A x \in Requeuers \ {r} : RequeueStage(x)'
  BY <1>1, <1>3, <1>4 DEF RequeueStage
<1>7. RequeueStage(r)'
  BY <1>1, <1>3, <1>4 DEF RequeueStage
<1> QED BY <1>5, <1>6, <1>7

LEMMA QInvStep ==
    ASSUME QInv, [Next]_vars
    PROVE  QInv'
<1> USE DEF QInv
<1>1. Base'
  BY BaseStep
<1>2. /\ rpc \in [Requeuers -> {"off", "claim", "claimed", "read", "fetched", "done"}]
      /\ rbatch \in [Requeuers -> SUBSET (Nat \ {0})]
      /\ ceded \in [Requeuers -> SUBSET (Nat \ {0})]
  BY DEF Base, TypeOK
<1>3. ASSUME DlqGrows
      PROVE  /\ InState(Dlq, "pending")' = InState(Dlq, "pending")
             /\ InState(Dlq, "acked")' = InState(Dlq, "acked")
             /\ Len(stream'[Main]) = Len(stream[Main])
  BY <1>3, GrownStates DEF DlqGrows
<1>4. CASE DlqGrows /\ UNCHANGED requeuerVars
  <2>1. rpc' = rpc /\ rbatch' = rbatch /\ ceded' = ceded
    BY <1>4 DEF requeuerVars
  <2>2. Accounted'
    BY <1>1, <1>3, <1>4, <2>1, StaysAccounted
  <2> QED BY <1>1, <1>3, <1>4, <2>1, <2>2 DEF RequeueStage
<1>5. ASSUME NEW r \in Requeuers, StartRequeue(r) \/ RequeuerCrash(r), DlqGrows
      PROVE  QInv'
  <2>1. /\ rpc'[r] \in {"off", "claim"} /\ rbatch'[r] = {}
        /\ \A x \in Requeuers \ {r} : rpc'[x] = rpc[x] /\ rbatch'[x] = rbatch[x] /\ ceded'[x] = ceded[x]
    BY <1>2, <1>5 DEF StartRequeue, RequeuerCrash, RequeueStage
  <2>2. Accounted'
    BY <1>1, <1>3, <1>5, <2>1, StaysAccounted
  <2>3. \A x \in Requeuers : RequeueStage(x)'
    BY <1>3, <1>5, <2>1 DEF RequeueStage
  <2> QED BY <1>1, <2>2, <2>3
<1>6. ASSUME NEW r \in Requeuers, RequeueClaim(r) \/ RequeueRead(r)
      PROVE  QInv'
  BY <1>1, <1>6, FetchStep DEF RequeueClaim, RequeueRead
<1>7. ASSUME NEW r \in Requeuers, RequeueMessages(r)
      PROVE  QInv'
  <2>1. /\ InState(Dlq, "pending")' = InState(Dlq, "pending") \ rbatch[r]
        /\ InState(Dlq, "acked")' = InState(Dlq, "acked") \cup rbatch[r]
    BY <1>7, RequeueMoved
  <2>2. /\ rpc[r] \in {"claimed", "fetched"} /\ rbatch'[r] = {} /\ ceded' = ceded
        /\ rpc'[r] = IF rpc[r] = "claimed" THEN "claim" ELSE "read"
        /\ \A x \in Requeuers \ {r} : rpc'[x] = rpc[x] /\ rbatch'[x] = rbatch[x]
    BY <1>2, <1>7 DEF RequeueMessages
  <2>3. RequeueStage(r)'
    BY <2>1, <2>2 DEF RequeueStage
  <2>4. \A x \in Requeuers \ {r} : RequeueStage(x)'
    BY <2>1, <2>2 DEF RequeueStage
  <2>5. Accounted'
    BY <1>7, MoveAccounted
  <2> QED BY <1>1, <2>3, <2>4, <2>5
<1>8. Base
  OBVIOUS
<1> HIDE DEF QInv
<1> QED BY <1>4, <1>5, <1>6, <1>7, <1>8, StreamsElsewhere DEF RequeuerStep

(***************************************************************************)
(* Every acknowledged entry of the dead-letter stream was put back, and by *)
(* no requeuer twice, whenever the requeuers' processes die and however    *)
(* often they are run again, for any number of requeuers; with one, it is  *)
(* put back exactly once.                                                  *)
(***************************************************************************)
THEOREM EachIsRequeuedOnce == Spec => []RequeuedOnce
<1>1. QInv /\ [Next]_vars => QInv'
  BY QInvStep
<1>2. QInv => RequeuedOnce
  <2> SUFFICES ASSUME QInv PROVE RequeuedOnce
    OBVIOUS
  <2>1. Cardinality(Requeuers) \in Nat
    BY RequeuersAssumption, FS_CardinalityType
  <2>2. Cardinality(InState(Dlq, "acked")) * Cardinality(Requeuers) \in Nat
    BY <2>1, OutOfHandType DEF QInv
  <2> QED BY <2>2, OutOfHandType DEF QInv, Accounted, RequeuedOnce
<1> QED BY <1>1, <1>2, QInvInit, PTL DEF Spec

LEMMA ReturnsWithNothingLeft ==
    ASSUME QInv, [Next]_vars, NEW r \in Requeuers, rpc[r] # "done", rpc'[r] = "done",
           NEW i \in DOMAIN stream[Dlq]
    PROVE  stream[Dlq][i].state = "acked" \/ i \in ceded[r]
<1> USE DEF QInv
<1>1. rpc \in [Requeuers -> {"off", "claim", "claimed", "read", "fetched", "done"}]
  BY DEF Base, TypeOK
<1>2. \A x \in Requeuers : ~ (StartRequeue(x) \/ RequeuerCrash(x) \/ RequeueMessages(x))
  BY <1>1 DEF StartRequeue, RequeuerCrash, RequeueMessages
<1>3. \A x \in Requeuers : ~ RequeueClaim(x)
  <2> SUFFICES ASSUME NEW x \in Requeuers, RequeueClaim(x) PROVE FALSE
    OBVIOUS
  <2>1. PICK k \in {"read", "claimed"} : rpc' = [rpc EXCEPT ![x] = k]
    BY DEF RequeueClaim, RequeueFetch
  <2> QED BY <1>1, <2>1
<1>4. PICK x \in Requeuers : RequeueRead(x)
  BY <1>2, <1>3, StreamsElsewhere DEF RequeuerStep, requeuerVars
<1>5. PICK ids \in SUBSET InState(Dlq, "new") :
            /\ ids = {} => InState(Dlq, "new") = {}
            /\ rpc' = [rpc EXCEPT ![x] = IF ids = {} THEN "done" ELSE "fetched"]
  BY <1>4, RequeueFetched DEF RequeueRead
<1>6. x = r /\ ids = {}
  BY <1>1, <1>5
<1>7. InState(Dlq, "new") = {} /\ InState(Dlq, "pending") \subseteq ceded[r]
  BY <1>4, <1>5, <1>6 DEF RequeueRead, RequeueStage
<1>8. stream[Dlq] \in Seq(Entry)
  BY StreamNumbers DEF Base, TypeOK
<1>9. stream[Dlq][i] \in Entry
  BY <1>8
<1> QED BY <1>7, <1>9 DEF InState, Entry

(***************************************************************************)
(* requeue_dead_letter returns only when every entry it could read was put *)
(* back, those a crashed run left fetched included, or is in the hands of  *)
(* another run that fetched it meanwhile; whatever the listeners move to   *)
(* the dead-letter stream, and however many requeuers there are.           *)
(***************************************************************************)
THEOREM RequeuesAreComplete == Spec => RequeueComplete
<1>1. QInv /\ [Next]_vars => QInv'
  BY QInvStep
<1>2. QInv /\ [Next]_vars =>
        [\A r \in Requeuers : rpc[r] # "done" /\ rpc'[r] = "done" =>
            \A i \in DOMAIN stream[Dlq] : stream[Dlq][i].state = "acked" \/ i \in ceded[r]]_vars
  BY ReturnsWithNothingLeft
<1> QED BY <1>1, <1>2, QInvInit, PTL DEF Spec, RequeueComplete

-----------------------------------------------------------------------------
\* Timely processing.

\* What a listener holds is pending, within its visibility timeout, and still
\* the latest delivery of its entry.
Attended(d) == /\ EntryOf(d).state = "pending"
               /\ ~ EntryOf(d).expired
               /\ EntryOf(d).times = d.n

EmptyHanded == \A c \in Listeners : pc[c] \in {"idle", "pull", "stopped", "dead"} => batch[c] = {}

HInv == /\ Base
        /\ \A c \in Listeners : \A d \in batch[c] : Attended(d)
        /\ OneHolder
        /\ EmptyHanded

\* The entries a fetch takes: what nobody was given, or not in time.
Free(ids) ==
    \A p \in ids : \E s \in ListenStreams : \E i \in DOMAIN stream[s] :
        /\ p = <<s, i>>
        /\ \/ stream[s][i].state = "new"
           \/ stream[s][i].state = "pending" /\ stream[s][i].expired

\* The other steps: batches shrink, and neither the entries held in the end nor
\* any delivery counter change, but that held entries may be touched.
Undisturbed ==
    /\ \A c \in Listeners : batch'[c] \subseteq batch[c]
    /\ \A s \in ListenStreams :
        /\ \A i \in DOMAIN stream[s] : stream'[s][i].times = stream[s][i].times
        /\ \A i \in DOMAIN stream'[s] : i \in DOMAIN stream[s] \/ stream'[s][i].times = 0
    /\ \A c \in Listeners : \A d \in batch'[c] :
        stream'[d.stream][d.ix] \in {EntryOf(d), Touched(EntryOf(d))}

\* The entries of stream s are replaced, none of those held in the end by
\* another one, and no counter changes.
LEMMA EntryReplaced ==
    ASSUME Base, NEW s \in ListenStreams, NEW i \in DOMAIN stream[s], NEW e,
           \A t \in ListenStreams :
                stream'[t] = IF t = s THEN [stream[s] EXCEPT ![i] = e] ELSE stream[t],
           e.times = stream[s][i].times,
           \A c \in Listeners : batch'[c] \subseteq batch[c],
           \/ e = Touched(stream[s][i])
           \/ \A c \in Listeners : \A d \in batch'[c] : <<d.stream, d.ix>> # <<s, i>>
    PROVE  Undisturbed
<1>1. s \in Streams /\ stream[s] \in Seq(Entry) /\ DOMAIN stream = Streams
  BY StreamNumbers DEF Base, TypeOK
<1>2. /\ \A t \in ListenStreams : t # s => stream'[t] = stream[t]
      /\ DOMAIN stream'[s] = DOMAIN stream[s]
      /\ \A j \in DOMAIN stream[s] : stream'[s][j] = IF j = i THEN e ELSE stream[s][j]
  BY <1>1
<1>3. ASSUME NEW t \in ListenStreams
      PROVE  /\ \A j \in DOMAIN stream[t] : stream'[t][j].times = stream[t][j].times
             /\ \A j \in DOMAIN stream'[t] : j \in DOMAIN stream[t] \/ stream'[t][j].times = 0
  BY <1>2, StreamNumbers
<1>4. ASSUME NEW c \in Listeners, NEW d \in batch'[c]
      PROVE  stream'[d.stream][d.ix] \in {EntryOf(d), Touched(EntryOf(d))}
  <2>1. d \in batch[c]
    OBVIOUS
  <2>2. d.stream \in ListenStreams /\ d.ix \in DOMAIN stream[d.stream]
    BY <2>1, Holds
  <2>3. CASE <<d.stream, d.ix>> = <<s, i>>
    BY <1>2, <1>4, <2>2, <2>3 DEF EntryOf
  <2>4. CASE <<d.stream, d.ix>> # <<s, i>>
    BY <1>2, <2>2, <2>4 DEF EntryOf
  <2> QED BY <2>3, <2>4
<1> QED BY <1>3, <1>4 DEF Undisturbed

\* The streams listened to stay as they are.
LEMMA NothingReplaced ==
    ASSUME Base, \A s \in ListenStreams : stream'[s] = stream[s],
           \A c \in Listeners : batch'[c] \subseteq batch[c]
    PROVE  Undisturbed
<1>1. ASSUME NEW c \in Listeners, NEW d \in batch'[c]
      PROVE  stream'[d.stream][d.ix] = EntryOf(d)
  <2>1. d \in batch[c]
    OBVIOUS
  <2> QED BY <2>1, Holds DEF EntryOf
<1> QED BY <1>1 DEF Undisturbed

\* New entries arrive at the end of a stream.
LEMMA EntriesArrive ==
    ASSUME Base, NEW t \in ListenStreams, NEW a \in Seq(Entry), \A k \in DOMAIN a : a[k].times = 0,
           \A s \in ListenStreams : stream'[s] = IF s = t THEN stream[s] \o a ELSE stream[s],
           UNCHANGED batch
    PROVE  Undisturbed
<1>1. stream[t] \in Seq(Entry)
  BY StreamNumbers DEF Base, TypeOK
<1>2. /\ \A i \in DOMAIN stream[t] : i \in DOMAIN (stream[t] \o a) /\ (stream[t] \o a)[i] = stream[t][i]
      /\ \A i \in DOMAIN (stream[t] \o a) :
            i \in DOMAIN stream[t] \/ \E k \in DOMAIN a : (stream[t] \o a)[i] = a[k]
  <2>1. /\ Len(stream[t]) \in Nat /\ Len(a) \in Nat
        /\ DOMAIN stream[t] = 1 .. Len(stream[t]) /\ DOMAIN a = 1 .. Len(a)
        /\ DOMAIN (stream[t] \o a) = 1 .. Len(stream[t]) + Len(a)
        /\ \A i \in 1 .. Len(stream[t]) + Len(a) :
            (stream[t] \o a)[i] = IF i <= Len(stream[t]) THEN stream[t][i] ELSE a[i - Len(stream[t])]
    BY <1>1, ConcatProperties
  <2>2. \A i \in 1 .. Len(stream[t]) + Len(a) : i <= Len(stream[t]) \/ i - Len(stream[t]) \in 1 .. Len(a)
    BY <2>1
  <2> QED BY <2>1, <2>2
<1>3. \A s \in ListenStreams : \A i \in DOMAIN stream[s] : stream'[s][i] = stream[s][i]
  BY <1>2
<1>4. \A s \in ListenStreams : \A i \in DOMAIN stream'[s] :
            i \in DOMAIN stream[s] \/ stream'[s][i].times = 0
  <2> SUFFICES ASSUME NEW s \in ListenStreams, NEW i \in DOMAIN stream'[s], i \notin DOMAIN stream[s]
               PROVE  stream'[s][i].times = 0
    OBVIOUS
  <2>1. s = t /\ stream'[s] = stream[t] \o a
    OBVIOUS
  <2>2. PICK k \in DOMAIN a : (stream[t] \o a)[i] = a[k]
    BY <1>2, <2>1
  <2> QED BY <2>1, <2>2
<1>5. \A c \in Listeners : \A d \in batch[c] : stream'[d.stream][d.ix] = EntryOf(d)
  BY <1>3, Holds DEF EntryOf
<1> QED BY <1>3, <1>4, <1>5 DEF Undisturbed

LEMMA Undisturbing ==
    ASSUME Base, UNCHANGED stream, \A c \in Listeners : batch'[c] \subseteq batch[c]
    PROVE  Undisturbed
BY NothingReplaced

LEMMA RequeueUndisturbing ==
    ASSUME Base, NEW r \in Requeuers, RequeuerStep(r)
    PROVE  Undisturbed
<1>1. UNCHANGED batch
  BY DEF RequeuerStep, RequeueClaim, RequeueRead, RequeueFetch, RequeueMessages, listenerVars
<1>2. ASSUME NEW ids, stream' = Updated(Delivered, {Dlq} \X ids)
      PROVE  Undisturbed
  <2>1. ASSUME NEW s \in ListenStreams
        PROVE  stream'[s] = stream[s]
    <3>1. s \in Streams /\ s # Dlq /\ stream[s] \in Seq(Entry)
      BY StreamNumbers DEF Base, TypeOK
    <3>2. stream'[s] = [i \in DOMAIN stream[s] |-> stream[s][i]]
      BY <1>2, <3>1 DEF Updated
    <3> QED BY <3>1, <3>2
  <2> QED BY <1>1, <2>1, NothingReplaced
<1>3. CASE RequeueClaim(r) \/ RequeueRead(r)
  BY <1>2, <1>3 DEF RequeueClaim, RequeueRead, RequeueFetch
<1>4. CASE RequeueMessages(r)
  <2>1. PICK q \in InOrder(rbatch[r]) :
        stream' = [stream EXCEPT
            ![Main] = @ \o [k \in DOMAIN q |-> NewEntry(stream[Dlq][q[k]].msg)],
            ![Dlq] = [i \in DOMAIN @ |-> IF i \in rbatch[r] THEN Acked(@[i]) ELSE @[i]]]
    BY <1>4 DEF RequeueMessages
  <2> DEFINE a == [k \in DOMAIN q |-> NewEntry(stream[Dlq][q[k]].msg)]
  <2>2. q \in [1 .. Cardinality(rbatch[r]) -> rbatch[r]] /\ Cardinality(rbatch[r]) \in Nat
    BY RbatchFinite, FS_CardinalityType DEF InOrder
  <2>3. \A k \in DOMAIN q : NewEntry(stream[Dlq][q[k]].msg) \in Entry
    BY <2>2, EntryAt, NewEntryType, StreamNumbers DEF Base, DlqLocated
  <2>4. a \in Seq(Entry) /\ \A k \in DOMAIN a : a[k].times = 0
    BY <2>2, <2>3 DEF NewEntry
  <2>5. \A s \in ListenStreams : stream'[s] = IF s = Main THEN stream[s] \o a ELSE stream[s]
    BY <2>1, StreamNumbers DEF Base, TypeOK
  <2> HIDE DEF a
  <2> QED BY <1>1, <2>4, <2>5, EntriesArrive, StreamNumbers
<1> QED BY <1>3, <1>4 DEF RequeuerStep

\* One first delivery is finished with and its entry replaced.
LEMMA FinishedUndisturbing ==
    ASSUME HInv, NEW c \in Listeners, NEW d \in batch[c], Finish(c, d), NEW e,
           e.times = EntryOf(d).times,
           \A t \in ListenStreams :
                stream'[t] = IF t = d.stream THEN [stream[d.stream] EXCEPT ![d.ix] = e] ELSE stream[t]
    PROVE  Undisturbed
<1> USE DEF HInv
<1>1. /\ batch'[c] = batch[c] \ {d}
      /\ \A b \in Listeners \ {c} : batch'[b] = batch[b]
  BY DEF Finish, Base, TypeOK
<1>2. \A b \in Listeners : batch'[b] \subseteq batch[b]
  BY <1>1
<1>3. ASSUME NEW b \in Listeners, NEW f \in batch'[b], <<f.stream, f.ix>> = <<d.stream, d.ix>>
      PROVE  FALSE
  <2>1. f \in batch[b] /\ (b = c => f # d)
    BY <1>1, <1>2
  <2> QED BY <1>3, <2>1 DEF OneHolder
<1>4. d.stream \in ListenStreams /\ d.ix \in DOMAIN stream[d.stream]
  BY Holds
<1> QED BY <1>2, <1>3, <1>4, EntryReplaced DEF EntryOf

LEMMA FreeIds ==
    ASSUME Base, NEW c \in Listeners
    PROVE  /\ at[c] \in ListenStreams => Free({at[c]} \X Oldest(Expired(at[c]), NumMessages))
           /\ Free(UNION {{s} \X Oldest(InState(s, "new"), NumMessages) : s \in ListenStreams})
<1>1. ASSUME at[c] \in ListenStreams,
             NEW p \in {at[c]} \X Oldest(Expired(at[c]), NumMessages)
      PROVE  \E i \in DOMAIN stream[at[c]] :
                /\ p = <<at[c], i>>
                /\ stream[at[c]][i].state = "pending" /\ stream[at[c]][i].expired
  BY <1>1 DEF Oldest, Expired, InState
<1>2. ASSUME NEW s \in ListenStreams, NEW p \in {s} \X Oldest(InState(s, "new"), NumMessages)
      PROVE  \E i \in DOMAIN stream[s] : p = <<s, i>> /\ stream[s][i].state = "new"
  BY DEF Oldest, InState
<1>3. at[c] \in ListenStreams => Free({at[c]} \X Oldest(Expired(at[c]), NumMessages))
  BY <1>1 DEF Free
<1>4. Free(UNION {{s} \X Oldest(InState(s, "new"), NumMessages) : s \in ListenStreams})
  BY <1>2 DEF Free
<1> QED BY <1>3, <1>4

LEMMA HeldStep ==
    ASSUME HInv, Timely, [Next]_vars
    PROVE  \/ Undisturbed
           \/ \E c \in Listeners : \E ids : pc[c] = "pull" /\ Free(ids) /\ Fetch(c, ids)
<1> Base
  BY DEF HInv
<1> stream \in [Streams -> Seq(Entry)] /\ ListenStreams \subseteq Streams /\ Dlq \notin ListenStreams
  BY StreamNumbers DEF Base, TypeOK
<1>1. ASSUME UNCHANGED <<stream, batch>>
      PROVE  Undisturbed
  BY <1>1, Undisturbing
<1>2. ASSUME NEW m \in Messages, NEW s \in 1 .. NumSubscriptions, Publish(m, s)
      PROVE  Undisturbed
  <2> DEFINE a == <<NewEntry(m)>>
  <2>1. s \in ListenStreams
    BY StreamNumbers
  <2>2. a \in Seq(Entry) /\ \A k \in DOMAIN a : a[k].times = 0
    BY NewEntryType DEF NewEntry
  <2>3. stream[s] \o a = Append(stream[s], NewEntry(m))
    BY <2>1, NewEntryType
  <2>4. \A t \in ListenStreams : stream'[t] = IF t = s THEN stream[t] \o a ELSE stream[t]
    BY <1>2, <2>1, <2>3 DEF Publish
  <2>5. UNCHANGED batch
    BY <1>2 DEF Publish, listenerVars
  <2> HIDE DEF a
  <2> QED BY <2>1, <2>2, <2>4, <2>5, EntriesArrive
<1>3. ASSUME NEW s \in ListenStreams, NEW i \in DOMAIN stream[s], VisibilityTimeout(s, i)
      PROVE  Undisturbed
  <2> DEFINE e == [stream[s][i] EXCEPT !.expired = TRUE]
  <2>1. \A t \in ListenStreams :
            stream'[t] = IF t = s THEN [stream[s] EXCEPT ![i] = e] ELSE stream[t]
    BY <1>3 DEF VisibilityTimeout
  <2>2. stream[s][i] \in Entry
    BY EntryAt DEF Base
  <2>3. e.times = stream[s][i].times
    BY <2>2 DEF Entry
  <2>4. UNCHANGED batch /\ \A c \in Listeners : \A d \in batch[c] : <<d.stream, d.ix>> # <<s, i>>
    BY <1>3 DEF VisibilityTimeout, listenerVars
  <2> HIDE DEF e
  <2> QED BY <2>1, <2>3, <2>4, EntryReplaced
<1>4. ASSUME NEW c \in Listeners, AckMessage(c)
      PROVE  Undisturbed
  <2>1. PICK d \in batch[c] : Finish(c, d) /\ stream' = [stream EXCEPT ![d.stream][d.ix] = Acked(@)]
    BY <1>4 DEF AckMessage
  <2>2. /\ d.stream \in ListenStreams /\ EntryOf(d) \in Entry
        /\ Acked(EntryOf(d)).times = EntryOf(d).times
    BY Holds, EntryUpdates
  <2>3. \A t \in ListenStreams :
            stream'[t] = IF t = d.stream THEN [stream[d.stream] EXCEPT ![d.ix] = Acked(EntryOf(d))]
                         ELSE stream[t]
    BY <2>1, <2>2 DEF EntryOf
  <2> QED BY <2>1, <2>2, <2>3, FinishedUndisturbing
<1>5. ASSUME NEW c \in Listeners, MoveToDlq(c)
      PROVE  Undisturbed
  <2>1. PICK d \in batch[c] :
            /\ Finish(c, d)
            /\ stream' = [stream EXCEPT ![d.stream][d.ix] = Acked(@),
                                        ![Dlq] = Append(@, NewEntry(EntryOf(d).msg))]
    BY <1>5 DEF MoveToDlq
  <2>2. /\ d.stream \in ListenStreams /\ EntryOf(d) \in Entry
        /\ Acked(EntryOf(d)).times = EntryOf(d).times
    BY Holds, EntryUpdates
  <2>3. \A t \in ListenStreams :
            stream'[t] = IF t = d.stream THEN [stream[d.stream] EXCEPT ![d.ix] = Acked(EntryOf(d))]
                         ELSE stream[t]
    BY <2>1, <2>2 DEF EntryOf
  <2> QED BY <2>1, <2>2, <2>3, FinishedUndisturbing
<1>6. ASSUME NEW c \in Listeners, ExtendVisibilityTimeout(c)
      PROVE  Undisturbed
  <2>1. PICK d \in batch[c] : stream' = [stream EXCEPT ![d.stream][d.ix] = Touched(@)]
    BY <1>6 DEF ExtendVisibilityTimeout
  <2>2. /\ d.stream \in ListenStreams /\ d.ix \in DOMAIN stream[d.stream] /\ EntryOf(d) \in Entry
        /\ Touched(EntryOf(d)).times = EntryOf(d).times
    BY Holds, EntryUpdates
  <2>3. \A t \in ListenStreams :
            stream'[t] = IF t = d.stream THEN [stream[d.stream] EXCEPT ![d.ix] = Touched(EntryOf(d))]
                         ELSE stream[t]
    BY <2>1, <2>2 DEF EntryOf
  <2>4. UNCHANGED batch
    BY <1>6 DEF ExtendVisibilityTimeout, listenerVars
  <2> QED BY <2>2, <2>3, <2>4, EntryReplaced DEF EntryOf
<1>7. ASSUME NEW c \in Listeners, ClaimTimedOut(c) \/ ReadNew(c)
      PROVE  \E ids : pc[c] = "pull" /\ Free(ids) /\ Fetch(c, ids)
  BY <1>7, FreeIds DEF ClaimTimedOut, ReadNew
<1>8. ASSUME NEW c \in Listeners,
             \/ EntryGone(c) \/ PreProcessHookRaises(c) \/ CallbackRaises(c)
             \/ PostProcessHookRaises(c) \/ AckRaises(c) \/ Crash(c)
      PROVE  Undisturbed
  <2>1. UNCHANGED stream
    BY <1>8 DEF EntryGone, PreProcessHookRaises, Yielded, CallbackRaises, PostProcessHookRaises,
                AckRaises, Crash
  <2>2. Dies(c) \/ \E d : Finish(c, d)
    BY <1>8 DEF EntryGone, PreProcessHookRaises, CallbackRaises, PostProcessHookRaises, AckRaises, Crash
  <2>3. batch \in [Listeners -> SUBSET Delivery]
    BY DEF Base, TypeOK
  <2>4. CASE Dies(c)
    <3>1. batch' = [batch EXCEPT ![c] = {}]
      BY <2>4 DEF Dies
    <3>2. \A b \in Listeners : batch'[b] \subseteq batch[b]
      BY <2>3, <3>1
    <3> QED BY <2>1, <3>2, Undisturbing
  <2>5. ASSUME NEW d, Finish(c, d)
        PROVE  Undisturbed
    <3>1. batch' = [batch EXCEPT ![c] = batch[c] \ {d}]
      BY <2>5 DEF Finish
    <3>2. \A b \in Listeners : batch'[b] \subseteq batch[b]
      BY <2>3, <3>1
    <3> QED BY <2>1, <3>2, Undisturbing
  <2> QED BY <2>2, <2>4, <2>5
<1>9. ASSUME NEW c \in Listeners,
             \/ CheckShutdown(c) \/ BatchDone(c) \/ CountTooHigh(c) \/ StartCallback(c)
             \/ CallbackReturns(c) \/ SetShutdown(c) \/ Restart(c)
      PROVE  UNCHANGED <<stream, batch>>
  BY <1>9 DEF CheckShutdown, BatchDone, CountTooHigh, StartCallback, Yielded, CallbackReturns,
              SetShutdown, Restart
<1>10. ASSUME NEW r \in Requeuers, StartRequeue(r) \/ RequeuerCrash(r)
       PROVE  Undisturbed
  BY <1>1, <1>10 DEF StartRequeue, RequeuerCrash, listenerVars
<1>11. CASE UNCHANGED vars
  BY <1>1, <1>11 DEF vars, listenerVars
<1>12. ASSUME NEW c \in Listeners, ListenerStep(c)
       PROVE  Undisturbed \/ \E ids : pc[c] = "pull" /\ Free(ids) /\ Fetch(c, ids)
  BY <1>1, <1>4, <1>5, <1>7, <1>8, <1>9, <1>12 DEF ListenerStep
<1>13. CASE Next
  BY <1>1, <1>2, <1>3, <1>6, <1>8, <1>9, <1>10, <1>12, <1>13, RequeueUndisturbing DEF Next, Timeout
<1> QED BY <1>11, <1>13

LEMMA EmptyHandedStep ==
    ASSUME Base, EmptyHanded, [Next]_vars
    PROVE  EmptyHanded'
<1> USE DEF EmptyHanded, Base, TypeOK
<1>1. ASSUME UNCHANGED <<pc, batch>>
      PROVE  EmptyHanded'
  BY <1>1
<1>2. ASSUME NEW c \in Listeners, ListenerStep(c)
      PROVE  EmptyHanded'
  <2>1. ASSUME NEW d, Finish(c, d)
        PROVE  EmptyHanded'
    BY <2>1 DEF Finish
  <2>2. ASSUME NEW ids, Fetch(c, ids)
        PROVE  EmptyHanded'
    BY <2>2 DEF Fetch
  <2>3. CASE CheckShutdown(c)
    <3>1. pc[c] = "idle" /\ UNCHANGED batch /\ \A b \in Listeners : b # c => pc'[b] = pc[b]
      BY <2>3 DEF CheckShutdown
    <3> QED BY <3>1
  <2>4. CASE BatchDone(c)
    <3>1. batch[c] = {} /\ UNCHANGED batch /\ \A b \in Listeners : b # c => pc'[b] = pc[b]
      BY <2>4 DEF BatchDone
    <3> QED BY <3>1
  <2>5. CASE EntryGone(c)
    BY <2>5 DEF EntryGone, Dies
  <2>6. CASE CountTooHigh(c)
    BY <2>6 DEF CountTooHigh
  <2>7. CASE StartCallback(c)
    BY <2>7 DEF StartCallback
  <2>8. CASE CallbackReturns(c)
    BY <2>8 DEF CallbackReturns
  <2> QED BY <1>2, <2>1, <2>2, <2>3, <2>4, <2>5, <2>6, <2>7, <2>8
          DEF ListenerStep, ClaimTimedOut, ReadNew, MoveToDlq, PreProcessHookRaises,
              CallbackRaises, PostProcessHookRaises, AckMessage, AckRaises
<1>3. ASSUME NEW c \in Listeners, Crash(c)
      PROVE  EmptyHanded'
  BY <1>3 DEF Crash, Dies
<1>4. ASSUME NEW c \in Listeners, Restart(c)
      PROVE  EmptyHanded'
  BY <1>4 DEF Restart
<1>5. ASSUME NEW c \in Listeners, SetShutdown(c) \/ ExtendVisibilityTimeout(c)
      PROVE  UNCHANGED <<pc, batch>>
  BY <1>5 DEF SetShutdown, ExtendVisibilityTimeout, listenerVars
<1>6. ASSUME NEW r \in Requeuers, RequeuerStep(r) \/ StartRequeue(r) \/ RequeuerCrash(r)
      PROVE  UNCHANGED <<pc, batch>>
  BY <1>6 DEF RequeuerStep, RequeueClaim, RequeueRead, RequeueFetch, RequeueMessages,
              StartRequeue, RequeuerCrash, listenerVars
<1>7. ASSUME NEW m, NEW s, Publish(m, s) \/ VisibilityTimeout(m, s)
      PROVE  UNCHANGED <<pc, batch>>
  BY <1>7 DEF Publish, VisibilityTimeout, listenerVars
<1>8. CASE UNCHANGED vars
  BY <1>1, <1>8 DEF vars, listenerVars
<1> HIDE DEF EmptyHanded, Base, TypeOK
<1>9. CASE Next
  BY <1>1, <1>2, <1>3, <1>4, <1>5, <1>6, <1>7, <1>9 DEF Next, Timeout
<1> QED BY <1>8, <1>9

\* What a fetch gives its listener, and that it leaves the others what they have.
LEMMA FetchHeld ==
    ASSUME HInv, NEW c \in Listeners, NEW ids, Free(ids), Fetch(c, ids), [Next]_vars
    PROVE  /\ \A b \in Listeners \ {c} : batch'[b] = batch[b]
           /\ \A b \in Listeners \ {c} : \A d \in batch[b] :
                <<d.stream, d.ix>> \notin ids /\ EntryOf(d)' = EntryOf(d)
           /\ \A d \in batch'[c] :
                /\ <<d.stream, d.ix>> \in ids /\ d.n = EntryOf(d).times + 1
                /\ EntryOf(d)' = Delivered(EntryOf(d))
<1> Base
  BY DEF HInv
<1>1. stream' = Updated(Delivered, ids) /\ batch' = [batch EXCEPT ![c] = Deliveries(ids)]
  BY DEF Fetch
<1>2. Known(ids)
  BY DEF Free, Known
<1>3. batch'[c] = Deliveries(ids) /\ \A b \in Listeners \ {c} : batch'[b] = batch[b]
  BY <1>1 DEF Base, TypeOK
<1>4. ASSUME NEW b \in Listeners, NEW d \in batch[b]
      PROVE  <<d.stream, d.ix>> \notin ids /\ EntryOf(d)' = EntryOf(d)
  <2>1. EntryOf(d).state = "pending" /\ ~ EntryOf(d).expired
    BY DEF HInv, Attended
  <2>2. <<d.stream, d.ix>> \notin ids
    BY <2>1 DEF Free, EntryOf
  <2>3. d.stream \in Streams /\ d.ix \in DOMAIN stream[d.stream]
    BY Holds
  <2>4. stream'[d.stream][d.ix] = stream[d.stream][d.ix]
    BY <1>1, <2>2, <2>3 DEF Updated
  <2> QED BY <2>2, <2>4 DEF EntryOf
<1>5. ASSUME NEW d \in Deliveries(ids)
      PROVE  /\ <<d.stream, d.ix>> \in ids /\ d.n = EntryOf(d).times + 1
             /\ EntryOf(d)' = Delivered(EntryOf(d))
  <2>1. /\ d \in Delivery /\ d.ix \in DOMAIN stream[d.stream] /\ <<d.stream, d.ix>> \in ids
        /\ d.n = EntryOf(d).times + 1
    BY <1>2, DeliveriesType DEF Known, Base, EntryOf
  <2>2. d.stream \in Streams
    BY <2>1, StreamNumbers DEF Delivery
  <2>3. stream'[d.stream][d.ix] = Delivered(stream[d.stream][d.ix])
    BY <1>1, <2>1, <2>2 DEF Updated
  <2> QED BY <2>1, <2>3 DEF EntryOf
<1> QED BY <1>3, <1>4, <1>5

LEMMA AttendedStep ==
    ASSUME HInv, Timely, [Next]_vars, NEW c \in Listeners, NEW d \in batch'[c]
    PROVE  Attended(d)'
<1> Base
  BY DEF HInv
<1>1. CASE Undisturbed
  <2>1. d \in batch[c] /\ EntryOf(d)' \in {EntryOf(d), Touched(EntryOf(d))}
    BY <1>1 DEF Undisturbed, EntryOf
  <2>2. EntryOf(d) \in Entry /\ Attended(d)
    BY <2>1, Holds DEF HInv
  <2>3. Touched(EntryOf(d)).times = EntryOf(d).times /\ Touched(EntryOf(d)).state = EntryOf(d).state
    BY <2>2, EntryUpdates
  <2>4. ~ Touched(EntryOf(d)).expired
    BY <2>2 DEF Touched, Attended, Entry
  <2> QED BY <2>1, <2>2, <2>3, <2>4 DEF Attended
<1>2. ASSUME NEW a \in Listeners, NEW ids, Free(ids), Fetch(a, ids)
      PROVE  Attended(d)'
  <2>1. CASE c = a
    <3>1. EntryOf(d)' = Delivered(EntryOf(d)) /\ d.n = EntryOf(d).times + 1
      BY <1>2, <2>1, FetchHeld
    <3> QED BY <3>1 DEF Attended, Delivered
  <2>2. CASE c # a
    <3>1. d \in batch[c] /\ EntryOf(d)' = EntryOf(d)
      BY <1>2, <2>2, FetchHeld
    <3> QED BY <3>1 DEF HInv, Attended
  <2> QED BY <2>1, <2>2
<1> QED BY <1>1, <1>2, HeldStep

LEMMA OneHolderStep ==
    ASSUME HInv, Timely, [Next]_vars
    PROVE  OneHolder'
<1> SUFFICES ASSUME NEW b \in Listeners, NEW c \in Listeners, NEW d \in batch'[b], NEW e \in batch'[c],
                    d.stream = e.stream, d.ix = e.ix
             PROVE  b = c /\ d = e
  BY DEF OneHolder
<1> Base /\ Base'
  BY BaseStep DEF HInv
<1>1. CASE Undisturbed
  BY <1>1 DEF Undisturbed, HInv, OneHolder
<1>2. ASSUME NEW a \in Listeners, NEW ids, Free(ids), Fetch(a, ids)
      PROVE  b = c /\ d = e
  <2>1. CASE b = a /\ c = a
    <3>1. d.n = EntryOf(d).times + 1 /\ e.n = EntryOf(e).times + 1
      BY <1>2, <2>1, FetchHeld
    <3>2. d \in Delivery /\ e \in Delivery
      BY DEF Base, TypeOK
    <3>3. d.n = e.n
      BY <3>1 DEF EntryOf
    <3> QED BY <2>1, <3>2, <3>3 DEF Delivery
  <2>2. CASE b = a /\ c # a
    <3>1. <<d.stream, d.ix>> \in ids /\ e \in batch[c]
      BY <1>2, <2>2, FetchHeld
    <3>2. <<e.stream, e.ix>> \notin ids
      BY <1>2, <2>2, <3>1, FetchHeld
    <3> QED BY <3>1, <3>2
  <2>3. CASE b # a /\ c = a
    <3>1. <<e.stream, e.ix>> \in ids /\ d \in batch[b]
      BY <1>2, <2>3, FetchHeld
    <3>2. <<d.stream, d.ix>> \notin ids
      BY <1>2, <2>3, <3>1, FetchHeld
    <3> QED BY <3>1, <3>2
  <2>4. CASE b # a /\ c # a
    <3>1. d \in batch[b] /\ e \in batch[c]
      BY <1>2, <2>4, FetchHeld
    <3> QED BY <3>1 DEF HInv, OneHolder
  <2> QED BY <2>1, <2>2, <2>3, <2>4
<1> QED BY <1>1, <1>2, HeldStep

LEMMA HInvInit == Init => HInv
BY BaseInit DEF HInv, Init, OneHolder, EmptyHanded

LEMMA HInvStep ==
    ASSUME HInv, Timely, [Next]_vars
    PROVE  HInv'
<1>1. Base' /\ OneHolder' /\ EmptyHanded'
  BY BaseStep, OneHolderStep, EmptyHandedStep DEF HInv
<1>2. \A c \in Listeners : \A d \in batch'[c] : Attended(d)'
  BY AttendedStep
<1> QED BY <1>1, <1>2 DEF HInv

(***************************************************************************)
(* When every message is finished within its visibility timeout, no entry  *)
(* is in the hands of two listeners, or twice in the hands of one, however *)
(* the fetches and claims of any number of listeners interleave.           *)
(***************************************************************************)
THEOREM TimelyHasOneHolder ==
    ASSUME Timely
    PROVE  Spec => []OneHolder
<1>1. HInv /\ [Next]_vars => HInv'
  BY HInvStep
<1>2. HInv => OneHolder
  BY DEF HInv
<1> QED BY <1>1, <1>2, HInvInit, PTL DEF Spec

-----------------------------------------------------------------------------
\* No listener ends with an error.

LEMMA CrashesGrow ==
    ASSUME Base, [Next]_vars, crashes' = 0
    PROVE  crashes = 0 /\ \A c \in Listeners : ~ Crash(c) /\ ~ AckRaises(c)
<1> crashes \in Nat
  BY BoundsAssumption DEF Base, TypeOK
<1>1. \A c \in Listeners : ~ Crash(c) /\ ~ AckRaises(c)
  BY DEF Crash, AckRaises
<1>2. \A r \in Requeuers : ~ RequeuerCrash(r)
  BY DEF RequeuerCrash
<1>3. ASSUME NEW c \in Listeners,
             ListenerStep(c) \/ SetShutdown(c) \/ ExtendVisibilityTimeout(c) \/ Restart(c)
      PROVE  UNCHANGED crashes
  BY <1>1, <1>3 DEF ListenerStep, CheckShutdown, ClaimTimedOut, ReadNew, Fetch, BatchDone, EntryGone,
         CountTooHigh, MoveToDlq, StartCallback, PreProcessHookRaises, Yielded, CallbackReturns,
         CallbackRaises, PostProcessHookRaises, AckMessage, SetShutdown, ExtendVisibilityTimeout,
         Restart, budgets
<1>4. ASSUME NEW r \in Requeuers, RequeuerStep(r) \/ StartRequeue(r)
      PROVE  UNCHANGED crashes
  BY <1>4 DEF RequeuerStep, RequeueClaim, RequeueRead, RequeueFetch, RequeueMessages,
              StartRequeue, budgets
<1>5. ASSUME NEW m, NEW s, Publish(m, s) \/ VisibilityTimeout(m, s)
      PROVE  UNCHANGED crashes
  BY <1>5 DEF Publish, VisibilityTimeout, budgets
<1>6. CASE UNCHANGED vars
  BY <1>1, <1>6 DEF vars, budgets
<1>7. CASE Next
  BY <1>1, <1>2, <1>3, <1>4, <1>5, <1>7 DEF Next, Timeout
<1> QED BY <1>6, <1>7

\* XPENDING finds what a listener holds.
LEMMA EntryStays ==
    ASSUME HInv, NEW c \in Listeners
    PROVE  ~ EntryGone(c)
BY DEF EntryGone, HInv, Attended

LEMMA SurviveStep ==
    ASSUME HInv, ListenersSurvive, [Next]_vars
    PROVE  ListenersSurvive'
<1> SUFFICES ASSUME crashes' = 0, NEW b \in Listeners
             PROVE  pc'[b] # "dead"
  BY DEF ListenersSurvive
<1> Base
  BY DEF HInv
<1> pc \in [Listeners -> {"idle", "pull", "fetch", "bury", "callback", "ack", "stopped", "dead"}]
  BY DEF Base, TypeOK
<1>1. pc[b] # "dead"
  BY CrashesGrow DEF ListenersSurvive
<1>2. ASSUME NEW c \in Listeners, ListenerStep(c)
      PROVE  pc'[b] # "dead"
  <2>1. ASSUME NEW d, Finish(c, d)
        PROVE  pc'[b] # "dead"
    BY <1>1, <2>1 DEF Finish
  <2>2. ASSUME NEW ids, Fetch(c, ids)
        PROVE  pc'[b] # "dead"
    BY <1>1, <2>2 DEF Fetch
  <2>3. CASE CheckShutdown(c) \/ BatchDone(c) \/ CountTooHigh(c) \/ StartCallback(c)
               \/ CallbackReturns(c)
    BY <1>1, <2>3 DEF CheckShutdown, BatchDone, CountTooHigh, StartCallback, CallbackReturns
  <2> QED BY <1>2, <2>1, <2>2, <2>3, EntryStays
          DEF ListenerStep, ClaimTimedOut, ReadNew, MoveToDlq, PreProcessHookRaises,
              CallbackRaises, PostProcessHookRaises, AckMessage, AckRaises
<1>3. ASSUME NEW c \in Listeners, Restart(c)
      PROVE  pc'[b] # "dead"
  BY <1>1, <1>3 DEF Restart
<1>4. ASSUME NEW c \in Listeners, SetShutdown(c) \/ ExtendVisibilityTimeout(c)
      PROVE  UNCHANGED pc
  BY <1>4 DEF SetShutdown, ExtendVisibilityTimeout, listenerVars
<1>5. ASSUME NEW r \in Requeuers, RequeuerStep(r) \/ StartRequeue(r) \/ RequeuerCrash(r)
      PROVE  UNCHANGED pc
  BY <1>5 DEF RequeuerStep, RequeueClaim, RequeueRead, RequeueFetch, RequeueMessages,
              StartRequeue, RequeuerCrash, listenerVars
<1>6. ASSUME NEW m, NEW s, Publish(m, s) \/ VisibilityTimeout(m, s)
      PROVE  UNCHANGED pc
  BY <1>6 DEF Publish, VisibilityTimeout, listenerVars
<1>7. CASE UNCHANGED vars
  BY <1>1, <1>7 DEF vars, listenerVars
<1>8. CASE Next
  BY <1>1, <1>2, <1>3, <1>4, <1>5, <1>6, <1>8, CrashesGrow DEF Next, Timeout
<1> QED BY <1>7, <1>8

(***************************************************************************)
(* When every message is finished within its visibility timeout, a         *)
(* listener never ends with an error before something else has failed: the *)
(* XPENDING of what it holds is never empty.                               *)
(***************************************************************************)
THEOREM TimelyListenersSurvive ==
    ASSUME Timely
    PROVE  Spec => []ListenersSurvive
<1>1. Init => HInv /\ ListenersSurvive
  BY HInvInit DEF Init, ListenersSurvive
<1>2. HInv /\ ListenersSurvive /\ [Next]_vars => HInv' /\ ListenersSurvive'
  BY HInvStep, SurviveStep
<1> QED BY <1>1, <1>2, PTL DEF Spec

-----------------------------------------------------------------------------
\* Every delivery up to the limit is an attempt.

\* What the place of a listener says of the delivery it is at.
AtWork(c, d) ==
    First(c, d) => /\ pc[c] = "bury" => d.n > MaxDeliveryAttempts
                   /\ pc[c] \in {"callback", "ack"} => d \in attempts

Ticket(s, i, k) == [stream |-> s, ix |-> i, n |-> k]

\* The deliveries an entry counts were attempted, are in somebody's hands, or
\* came after the limit.
Spent ==
    crashes = 0 =>
        \A s \in ListenStreams : \A i \in DOMAIN stream[s] : \A k \in 1 .. stream[s][i].times :
            \/ k > MaxDeliveryAttempts
            \/ Ticket(s, i, k) \in attempts
            \/ \E c \in Listeners : Ticket(s, i, k) \in batch[c]

SInv == /\ IInv
        /\ HInv
        /\ \A c \in Listeners : \A d \in batch[c] : AtWork(c, d)
        /\ Spent

LEMMA AttemptsGrow ==
    ASSUME Base, [Next]_vars
    PROVE  attempts \subseteq attempts'
BY Classified DEF Keeps, Drops, Dropped, Attempts, Fetches

LEMMA AtWorkStep ==
    ASSUME SInv, [Next]_vars, NEW b \in Listeners, NEW d \in batch'[b]
    PROVE  AtWork(b, d)'
<1> DEFINE Busy == {"bury", "callback", "ack"}
<1> SUFFICES ASSUME First(b, d)', pc'[b] \in Busy
             PROVE  /\ pc'[b] = "bury" => d.n > MaxDeliveryAttempts
                    /\ pc'[b] \in {"callback", "ack"} => d \in attempts'
  BY DEF AtWork
<1> Base
  BY DEF SInv, IInv
<1> pc \in [Listeners -> {"idle", "pull", "fetch", "bury", "callback", "ack", "stopped", "dead"}]
    /\ batch \in [Listeners -> SUBSET Delivery]
  BY DEF Base, TypeOK
<1> DEFINE Goal == /\ pc'[b] = "bury" => d.n > MaxDeliveryAttempts
                   /\ pc'[b] \in {"callback", "ack"} => d \in attempts'
<1>0. attempts \subseteq attempts'
  BY AttemptsGrow
<1>1. ASSUME pc'[b] = pc[b], batch'[b] = batch[b]
      PROVE  Goal
  <2>1. d \in batch[b] /\ First(b, d)
    BY <1>1 DEF First
  <2> QED BY <1>0, <1>1, <2>1 DEF SInv, AtWork
<1>2. ASSUME NEW c \in Listeners, ListenerStep(c)
      PROVE  Goal
  <2>1. ASSUME c # b
        PROVE  pc'[b] = pc[b] /\ batch'[b] = batch[b]
    BY <1>2, <2>1
       DEF ListenerStep, Finish, Dies, CheckShutdown, ClaimTimedOut, ReadNew, Fetch, BatchDone,
           EntryGone, CountTooHigh, MoveToDlq, StartCallback, PreProcessHookRaises, Yielded,
           CallbackReturns, CallbackRaises, PostProcessHookRaises, AckMessage, AckRaises
  <2>2. ASSUME c = b
        PROVE  CountTooHigh(b) \/ StartCallback(b) \/ CallbackReturns(b)
    <3>1. \A f : Finish(b, f) => pc'[b] = "fetch"
      BY DEF Finish
    <3>2. \A ids : Fetch(b, ids) => pc'[b] = "fetch"
      BY DEF Fetch
    <3>3. ListenerStep(b)
      BY <1>2, <2>2
    <3>4. CheckShutdown(b) \/ BatchDone(b) \/ EntryGone(b) => pc'[b] \notin Busy
      BY DEF CheckShutdown, BatchDone, EntryGone, Dies
    <3> QED BY <3>1, <3>2, <3>3, <3>4
            DEF ListenerStep, ClaimTimedOut, ReadNew, MoveToDlq, PreProcessHookRaises,
                CallbackRaises, PostProcessHookRaises, AckMessage, AckRaises
  <2>3. ASSUME CountTooHigh(b)
        PROVE  Goal
    <3>1. PICK f \in batch[b] : First(b, f) /\ Exhausted(f)
      BY <2>3 DEF CountTooHigh
    <3>2. batch' = batch /\ pc'[b] = "bury"
      BY <2>3 DEF CountTooHigh
    <3>3. d \in batch[b] /\ First(b, d)
      BY <3>2 DEF First
    <3>4. f = d
      BY <3>1, <3>3, FirstUnique
    <3>5. EntryOf(d).times = d.n
      BY <3>3 DEF SInv, HInv, Attended
    <3> QED BY <3>1, <3>2, <3>4, <3>5 DEF Exhausted
  <2>4. ASSUME StartCallback(b)
        PROVE  Goal
    <3>1. PICK f \in batch[b] : First(b, f) /\ attempts' = attempts \cup {f}
      BY <2>4 DEF StartCallback, Yielded
    <3>2. batch' = batch /\ pc'[b] = "callback"
      BY <2>4 DEF StartCallback
    <3>3. d \in batch[b] /\ First(b, d)
      BY <3>2 DEF First
    <3>4. f = d
      BY <3>1, <3>3, FirstUnique
    <3> QED BY <3>1, <3>2, <3>4
  <2>5. ASSUME CallbackReturns(b)
        PROVE  Goal
    <3>1. batch' = batch /\ pc[b] = "callback" /\ pc'[b] = "ack"
      BY <2>5 DEF CallbackReturns
    <3>2. d \in batch[b] /\ First(b, d)
      BY <3>1 DEF First
    <3> QED BY <1>0, <3>1, <3>2 DEF SInv, AtWork
  <2> QED BY <1>1, <2>1, <2>2, <2>3, <2>4, <2>5
<1>3. ASSUME NEW c \in Listeners, Crash(c) \/ Restart(c)
      PROVE  Goal
  <2>1. pc'[c] \notin Busy /\ (c # b => pc'[b] = pc[b] /\ batch'[b] = batch[b])
    BY <1>3 DEF Crash, Restart, Dies
  <2> QED BY <1>1, <2>1
<1>4. ASSUME UNCHANGED <<pc, batch>>
      PROVE  Goal
  BY <1>1, <1>4
<1>5. ASSUME NEW c \in Listeners, SetShutdown(c) \/ ExtendVisibilityTimeout(c)
      PROVE  UNCHANGED <<pc, batch>>
  BY <1>5 DEF SetShutdown, ExtendVisibilityTimeout, listenerVars
<1>6. ASSUME NEW r \in Requeuers, RequeuerStep(r) \/ StartRequeue(r) \/ RequeuerCrash(r)
      PROVE  UNCHANGED <<pc, batch>>
  BY <1>6 DEF RequeuerStep, RequeueClaim, RequeueRead, RequeueFetch, RequeueMessages,
              StartRequeue, RequeuerCrash, listenerVars
<1>7. ASSUME NEW m, NEW s, Publish(m, s) \/ VisibilityTimeout(m, s)
      PROVE  UNCHANGED <<pc, batch>>
  BY <1>7 DEF Publish, VisibilityTimeout, listenerVars
<1> HIDE DEF Goal
<1>8. UNCHANGED vars => Goal
  BY <1>4 DEF vars, listenerVars
<1>9. Next => Goal
  BY <1>2, <1>3, <1>4, <1>5, <1>6, <1>7 DEF Next, Timeout
<1> QED BY <1>8, <1>9 DEF Goal

\* A delivery that leaves its listener's hands before anything has failed.
LEMMA SpentWhenDropped ==
    ASSUME SInv, [Next]_vars, crashes' = 0,
           NEW b \in Listeners, NEW d \in batch[b], d \notin batch'[b]
    PROVE  \/ d.n > MaxDeliveryAttempts
           \/ d \in attempts'
           \/ pc[b] = "pull"
<1> Base
  BY DEF SInv, IInv
<1> DEFINE Goal == d.n > MaxDeliveryAttempts \/ d \in attempts' \/ pc[b] = "pull"
<1> batch \in [Listeners -> SUBSET Delivery]
  BY DEF Base, TypeOK
<1>0. attempts \subseteq attempts'
  BY AttemptsGrow
<1>1. ASSUME NEW c \in Listeners, NEW f \in batch[c], First(c, f), Finish(c, f),
             \/ pc[c] \in {"bury", "callback", "ack"}
             \/ f \in attempts'
      PROVE  Goal
  <2>1. c = b /\ f = d
    BY <1>1 DEF Finish
  <2>2. AtWork(c, f)
    BY DEF SInv
  <2> QED BY <1>0, <1>1, <2>1, <2>2 DEF AtWork
<1>2. ASSUME NEW c \in Listeners, ListenerStep(c)
      PROVE  Goal
  <2>1. CASE MoveToDlq(c) \/ CallbackRaises(c) \/ PostProcessHookRaises(c) \/ AckMessage(c)
    <3>1. /\ pc[c] \in {"bury", "callback", "ack"}
          /\ \E f \in batch[c] : First(c, f) /\ Finish(c, f)
      BY <2>1 DEF MoveToDlq, CallbackRaises, PostProcessHookRaises, AckMessage
    <3> QED BY <1>1, <3>1
  <2>2. CASE PreProcessHookRaises(c)
    <3>1. \E f \in batch[c] : First(c, f) /\ Finish(c, f) /\ f \in attempts'
      BY <2>2 DEF PreProcessHookRaises, Yielded
    <3> QED BY <1>1, <3>1
  <2>3. CASE ClaimTimedOut(c) \/ ReadNew(c)
    <3>1. pc[c] = "pull" /\ (c # b => batch'[b] = batch[b])
      BY <2>3 DEF ClaimTimedOut, ReadNew, Fetch
    <3> QED BY <3>1
  <2>4. ~ EntryGone(c) /\ ~ AckRaises(c)
    BY EntryStays, CrashesGrow DEF SInv
  <2>5. CASE CheckShutdown(c) \/ BatchDone(c) \/ CountTooHigh(c) \/ StartCallback(c)
               \/ CallbackReturns(c)
    BY <2>5 DEF CheckShutdown, BatchDone, CountTooHigh, StartCallback, CallbackReturns
  <2> QED BY <1>2, <2>1, <2>2, <2>3, <2>4, <2>5 DEF ListenerStep
<1>3. ASSUME NEW c \in Listeners,
             SetShutdown(c) \/ ExtendVisibilityTimeout(c) \/ Crash(c) \/ Restart(c)
      PROVE  FALSE
  <2>1. ~ Crash(c)
    BY CrashesGrow
  <2>2. UNCHANGED batch
    BY <1>3, <2>1 DEF SetShutdown, ExtendVisibilityTimeout, Restart, listenerVars
  <2> QED BY <2>2
<1>4. ASSUME NEW r \in Requeuers, RequeuerStep(r) \/ StartRequeue(r) \/ RequeuerCrash(r)
      PROVE  UNCHANGED batch
  BY <1>4 DEF RequeuerStep, RequeueClaim, RequeueRead, RequeueFetch, RequeueMessages,
              StartRequeue, RequeuerCrash, listenerVars
<1>5. ASSUME NEW m, NEW s, Publish(m, s) \/ VisibilityTimeout(m, s)
      PROVE  UNCHANGED batch
  BY <1>5 DEF Publish, VisibilityTimeout, listenerVars
<1> HIDE DEF Goal
<1>6. UNCHANGED vars => Goal
  BY DEF vars, listenerVars
<1>7. Next => Goal
  BY <1>2, <1>3, <1>4, <1>5 DEF Next, Timeout
<1> QED BY <1>6, <1>7 DEF Goal

LEMMA SpentStep ==
    ASSUME SInv, Timely, [Next]_vars
    PROVE  Spent'
<1> SUFFICES ASSUME crashes' = 0,
                    NEW s \in ListenStreams, NEW i \in DOMAIN stream'[s], NEW k \in 1 .. stream'[s][i].times
             PROVE  \/ k > MaxDeliveryAttempts
                    \/ Ticket(s, i, k) \in attempts'
                    \/ \E c \in Listeners : Ticket(s, i, k) \in batch'[c]
  BY DEF Spent
<1> Base /\ HInv
  BY DEF SInv, IInv
<1> DEFINE Goal == \/ k > MaxDeliveryAttempts
                   \/ Ticket(s, i, k) \in attempts'
                   \/ \E c \in Listeners : Ticket(s, i, k) \in batch'[c]
<1>0. attempts \subseteq attempts' /\ crashes = 0 /\ s \in Streams
  BY AttemptsGrow, CrashesGrow, StreamNumbers
<1>1. ASSUME i \in DOMAIN stream[s], k \in 1 .. stream[s][i].times
      PROVE  Goal
  <2>1. ASSUME NEW c \in Listeners, Ticket(s, i, k) \in batch[c], Ticket(s, i, k) \notin batch'[c]
        PROVE  k > MaxDeliveryAttempts \/ Ticket(s, i, k) \in attempts'
    <3>1. pc[c] # "pull"
      BY <2>1 DEF HInv, EmptyHanded
    <3>2. Ticket(s, i, k).n = k
      BY DEF Ticket
    <3> QED BY <2>1, <3>1, <3>2, SpentWhenDropped
  <2>2. \/ k > MaxDeliveryAttempts
        \/ Ticket(s, i, k) \in attempts
        \/ \E c \in Listeners : Ticket(s, i, k) \in batch[c]
    BY <1>0, <1>1 DEF SInv, Spent
  <2> QED BY <1>0, <2>1, <2>2
<1>2. ASSUME Undisturbed
      PROVE  Goal
  <2>1. \/ i \in DOMAIN stream[s] /\ stream'[s][i].times = stream[s][i].times
        \/ stream'[s][i].times = 0
    BY <1>2 DEF Undisturbed
  <2>2. stream'[s][i].times # 0
    OBVIOUS
  <2> QED BY <1>1, <2>1, <2>2
<1>3. ASSUME NEW a \in Listeners, NEW ids, Free(ids), Fetch(a, ids)
      PROVE  Goal
  <2>1. stream' = Updated(Delivered, ids) /\ batch'[a] = Deliveries(ids)
    BY <1>3 DEF Fetch, Base, TypeOK
  <2>2. /\ i \in DOMAIN stream[s]
        /\ stream'[s][i] = IF <<s, i>> \in ids THEN Delivered(stream[s][i]) ELSE stream[s][i]
    BY <1>0, <2>1 DEF Updated
  <2>3. stream[s][i] \in Entry /\ stream[s][i].times \in Nat
    BY <1>0, <2>2, EntryAt DEF Base
  <2>4. CASE k \in 1 .. stream[s][i].times
    BY <1>1, <2>2, <2>4
  <2>5. CASE k \notin 1 .. stream[s][i].times
    <3>1. <<s, i>> \in ids /\ stream'[s][i].times = stream[s][i].times + 1
      BY <2>2, <2>3, <2>5, EntryUpdates
    <3>2. k = stream[s][i].times + 1
      BY <2>3, <2>5, <3>1
    <3>3. Ticket(s, i, k) \in Deliveries(ids)
      <4> DEFINE p == <<s, i>>
      <4>1. Ticket(s, i, k) = [stream |-> p[1], ix |-> p[2], n |-> stream[p[1]][p[2]].times + 1]
        BY <3>2 DEF Ticket
      <4> QED BY <3>1, <4>1 DEF Deliveries
    <3> QED BY <2>1, <3>3
  <2> QED BY <2>4, <2>5
<1> HIDE DEF Goal
<1>4. Goal
  BY <1>2, <1>3, HeldStep
<1> QED BY <1>4 DEF Goal

LEMMA SInvInit == Init => SInv
<1> SUFFICES ASSUME Init PROVE SInv
  OBVIOUS
<1>1. \A s \in ListenStreams : stream[s] = << >>
  BY StreamNumbers DEF Init
<1>2. Spent
  BY <1>1 DEF Spent
<1> QED BY <1>2, IInvInit, HInvInit DEF SInv, Init

LEMMA SInvStep ==
    ASSUME SInv, Timely, [Next]_vars
    PROVE  SInv'
<1>1. IInv' /\ HInv'
  BY IInvStep, HInvStep DEF SInv
<1>2. \A c \in Listeners : \A d \in batch'[c] : AtWork(c, d)'
  BY AtWorkStep
<1> QED BY <1>1, <1>2, SpentStep DEF SInv

LEMMA AllSpent ==
    ASSUME SInv, crashes = 0, NEW c \in Listeners, NEW d \in batch[c], pc[c] = "bury", First(c, d)
    PROVE  Cardinality(AttemptsOn(d.stream, d.ix)) = MaxDeliveryAttempts
<1> Base
  BY DEF SInv, IInv
<1> DEFINE Tickets == {Ticket(d.stream, d.ix, k) : k \in 1 .. MaxDeliveryAttempts}
<1>1. /\ d.stream \in ListenStreams /\ d.ix \in DOMAIN stream[d.stream] /\ d.n \in Nat
      /\ EntryOf(d).times = d.n
  BY Holds DEF SInv, HInv, Attended
<1>2. d.n > MaxDeliveryAttempts
  BY DEF SInv, AtWork
<1>3. Tickets \subseteq AttemptsOn(d.stream, d.ix)
  <2> SUFFICES ASSUME NEW k \in 1 .. MaxDeliveryAttempts
               PROVE  Ticket(d.stream, d.ix, k) \in AttemptsOn(d.stream, d.ix)
    OBVIOUS
  <2> DEFINE t == Ticket(d.stream, d.ix, k)
  <2>1. t.stream = d.stream /\ t.ix = d.ix /\ t.n = k /\ t.n # d.n
    BY <1>1, <1>2, AttemptsAssumption DEF Ticket
  <2>2. k \in 1 .. stream[d.stream][d.ix].times /\ ~ (k > MaxDeliveryAttempts)
    BY <1>1, <1>2, AttemptsAssumption DEF EntryOf
  <2>3. t \in attempts \/ \E b \in Listeners : t \in batch[b]
    BY <1>1, <2>2 DEF SInv, Spent
  <2>4. \A b \in Listeners : t \notin batch[b]
    BY <2>1 DEF SInv, HInv, OneHolder
  <2> QED BY <2>1, <2>3, <2>4 DEF AttemptsOn
<1>4. AttemptsOn(d.stream, d.ix) \subseteq Tickets
  <2> SUFFICES ASSUME NEW a \in AttemptsOn(d.stream, d.ix)
               PROVE  a \in Tickets
    OBVIOUS
  <2>1. /\ a \in Delivery /\ a.stream = d.stream /\ a.ix = d.ix
        /\ a.n <= MaxDeliveryAttempts
    BY DEF AttemptsOn, SInv, IInv, AttemptsCounted, Base, TypeOK
  <2>2. a.n \in 1 .. MaxDeliveryAttempts /\ a = Ticket(d.stream, d.ix, a.n)
    BY <2>1, AttemptsAssumption DEF Delivery, Ticket
  <2> QED BY <2>2
<1>5. /\ IsFiniteSet(1 .. MaxDeliveryAttempts)
      /\ Cardinality(1 .. MaxDeliveryAttempts) = MaxDeliveryAttempts
  BY AttemptsAssumption, FS_Interval
<1>6. Cardinality(Tickets) = MaxDeliveryAttempts
  <2> DEFINE f == [k \in 1 .. MaxDeliveryAttempts |-> Ticket(d.stream, d.ix, k)]
  <2>1. f \in Surjection(1 .. MaxDeliveryAttempts, Tickets)
    BY DEF Surjection
  <2>2. f \in Injection(1 .. MaxDeliveryAttempts, Tickets)
    <3>1. ASSUME NEW j \in 1 .. MaxDeliveryAttempts, NEW k \in 1 .. MaxDeliveryAttempts, f[j] = f[k]
          PROVE  j = k
      <4>1. f[j].n = j /\ f[k].n = k
        BY DEF Ticket
      <4> QED BY <3>1, <4>1
    <3>2. f \in [1 .. MaxDeliveryAttempts -> Tickets]
      OBVIOUS
    <3> HIDE DEF f, Tickets
    <3> QED BY <3>1, <3>2 DEF Injection, IsInjective
  <2> HIDE DEF f, Tickets
  <2>3. Cardinality(Tickets) = Cardinality(1 .. MaxDeliveryAttempts)
    BY <1>5, <2>1, <2>2, FS_Surjection
  <2> QED BY <1>5, <2>3
<1>7. AttemptsOn(d.stream, d.ix) = Tickets
  BY <1>3, <1>4
<1> QED BY <1>6, <1>7

(***************************************************************************)
(* When every message is finished within its visibility timeout, and as    *)
(* long as nothing has failed, what a listener moves to the dead-letter    *)
(* stream was attempted exactly HEDWIG_MAX_DELIVERY_ATTEMPTS times: no     *)
(* delivery of an entry that Redis has counted went by unused.             *)
(***************************************************************************)
THEOREM TimelyBuriesAfterAllAttempts ==
    ASSUME Timely
    PROVE  Spec => []BuriedAfterAllAttempts
<1>1. SInv /\ [Next]_vars => SInv'
  BY SInvStep
<1>2. SInv => BuriedAfterAllAttempts
  BY AllSpent DEF BuriedAfterAllAttempts
<1> QED BY <1>1, <1>2, SInvInit, PTL DEF Spec
=============================================================================

-------------------------- MODULE RedisStreamsProofs --------------------------
(***************************************************************************)
(* Theorems about RedisStreams, for any number of messages, listeners,     *)
(* requeuers, subscriptions, crashes and re-queue runs, whatever the fetch *)
(* size and the delivery limit, and whether or not processing is timely.   *)
(***************************************************************************)
EXTENDS RedisStreams, FiniteSetTheorems, SequenceTheorems, TLAPS

\* The streams.

LEMMA StreamNumbers ==
    /\ Main \in Nat \ {0} /\ Dlq \in Nat \ {0} /\ Dlq = Main + 1
    /\ Main \in ListenStreams /\ Dlq \in Streams /\ Dlq \notin ListenStreams
    /\ ListenStreams \subseteq Streams
    /\ 1 .. NumSubscriptions \subseteq ListenStreams
    /\ \A s \in Streams : s \in Nat /\ (s \in ListenStreams \/ s = Dlq)
BY SubscriptionsAssumption DEF Main, Dlq, ListenStreams, Streams

LEMMA NewEntryType == \A m \in Messages : NewEntry(m) \in Entry
BY DEF NewEntry, Entry

\* What a command does to an entry keeps its type and its message.
LEMMA EntryUpdates ==
    \A e \in Entry :
        /\ Acked(e) \in Entry /\ Acked(e).msg = e.msg /\ Acked(e).times = e.times
        /\ Touched(e) \in Entry /\ Touched(e).msg = e.msg /\ Touched(e).times = e.times
        /\ Touched(e).state = e.state
        /\ Delivered(e) \in Entry /\ Delivered(e).msg = e.msg
        /\ Delivered(e).times = e.times + 1 /\ Delivered(e).state = "pending"
<1> SUFFICES ASSUME NEW e \in Entry
             PROVE  /\ Acked(e) \in Entry /\ Acked(e).msg = e.msg /\ Acked(e).times = e.times
                    /\ Touched(e) \in Entry /\ Touched(e).msg = e.msg /\ Touched(e).times = e.times
                    /\ Touched(e).state = e.state
                    /\ Delivered(e) \in Entry /\ Delivered(e).msg = e.msg
                    /\ Delivered(e).times = e.times + 1 /\ Delivered(e).state = "pending"
  OBVIOUS
<1>1. /\ Acked(e) \in Entry /\ Acked(e).msg = e.msg /\ Acked(e).times = e.times
  BY DEF Acked, Entry
<1>2. /\ Touched(e) \in Entry /\ Touched(e).msg = e.msg /\ Touched(e).times = e.times
      /\ Touched(e).state = e.state
  BY DEF Touched, Entry
<1>3. /\ Delivered(e) \in Entry /\ Delivered(e).msg = e.msg
      /\ Delivered(e).times = e.times + 1 /\ Delivered(e).state = "pending"
  BY DEF Delivered, Entry
<1> QED BY <1>1, <1>2, <1>3

LEMMA EntryAt ==
    ASSUME TypeOK, NEW s \in Streams, NEW i \in DOMAIN stream[s]
    PROVE  /\ stream[s][i] \in Entry
           /\ stream[s][i].msg \in Messages
           /\ stream[s][i].times \in Nat
           /\ i \in Nat \ {0}
           /\ i \in 1 .. Len(stream[s])
<1>1. stream[s] \in Seq(Entry)
  BY DEF TypeOK
<1>2. i \in 1 .. Len(stream[s]) /\ i \in Nat \ {0} /\ stream[s][i] \in Entry
  BY <1>1
<1> QED BY <1>2 DEF Entry

\* A stream whose entries are replaced one for one.
LEMMA Replaced ==
    ASSUME NEW q \in Seq(Entry), NEW f, DOMAIN f = DOMAIN q,
           f = [i \in DOMAIN f |-> f[i]], \A i \in DOMAIN q : f[i] \in Entry
    PROVE  f \in Seq(Entry)
<1>1. f \in [1 .. Len(q) -> Entry]
  OBVIOUS
<1> QED BY <1>1

\* g has all the entries of f, delivered at least as often.
Extends(f, g) ==
    \A s \in Streams : \A i \in DOMAIN f[s] :
        /\ i \in DOMAIN g[s]
        /\ g[s][i].msg = f[s][i].msg
        /\ g[s][i].times >= f[s][i].times

StreamsType == [Streams -> Seq(Entry)]

LEMMA ExtendsSelf ==
    ASSUME NEW f \in StreamsType
    PROVE  Extends(f, f)
<1> SUFFICES ASSUME NEW s \in Streams, NEW i \in DOMAIN f[s]
             PROVE  f[s][i].times >= f[s][i].times
  BY DEF Extends
<1>1. f[s] \in Seq(Entry)
  BY DEF StreamsType
<1>2. f[s][i] \in Entry
  BY <1>1
<1> QED BY <1>2 DEF Entry

LEMMA ExtendsTransitive ==
    ASSUME NEW f \in StreamsType, NEW g \in StreamsType, NEW h \in StreamsType,
           Extends(f, g), Extends(g, h)
    PROVE  Extends(f, h)
<1> SUFFICES ASSUME NEW s \in Streams, NEW i \in DOMAIN f[s]
             PROVE  /\ i \in DOMAIN h[s]
                    /\ h[s][i].msg = f[s][i].msg
                    /\ h[s][i].times >= f[s][i].times
  BY DEF Extends
<1>1. f[s] \in Seq(Entry) /\ g[s] \in Seq(Entry) /\ h[s] \in Seq(Entry)
  BY DEF StreamsType
<1>2. /\ i \in DOMAIN g[s] /\ g[s][i].msg = f[s][i].msg /\ g[s][i].times >= f[s][i].times
      /\ i \in DOMAIN h[s] /\ h[s][i].msg = g[s][i].msg /\ h[s][i].times >= g[s][i].times
  BY DEF Extends
<1>3. f[s][i] \in Entry /\ g[s][i] \in Entry /\ h[s][i] \in Entry
  BY <1>1, <1>2
<1>4. f[s][i].times \in Nat /\ g[s][i].times \in Nat /\ h[s][i].times \in Nat
  BY <1>3 DEF Entry
<1> QED BY <1>2, <1>4

\* One entry is replaced.
LEMMA OneReplaced ==
    ASSUME NEW f \in StreamsType, NEW s \in Streams, NEW i \in DOMAIN f[s], NEW e \in Entry,
           e.msg = f[s][i].msg, e.times = f[s][i].times
    PROVE  /\ [f EXCEPT ![s][i] = e] \in StreamsType
           /\ Extends(f, [f EXCEPT ![s][i] = e])
<1> DEFINE g == [f EXCEPT ![s][i] = e]
<1>1. f[s] \in Seq(Entry)
  BY DEF StreamsType
<1>2. [f[s] EXCEPT ![i] = e] \in Seq(Entry)
  BY <1>1
<1>3. g \in StreamsType
  BY <1>2 DEF StreamsType
<1>4. ASSUME NEW t \in Streams, NEW j \in DOMAIN f[t]
      PROVE  /\ j \in DOMAIN g[t]
             /\ g[t][j].msg = f[t][j].msg
             /\ g[t][j].times >= f[t][j].times
  <2>1. f[t] \in Seq(Entry)
    BY DEF StreamsType
  <2>0. f[t][j] \in Entry
    BY <2>1
  <2>2. f[t][j].times \in Nat
    BY <2>0 DEF Entry
  <2>3. g[t] = IF t = s THEN [f[s] EXCEPT ![i] = e] ELSE f[t]
    BY DEF StreamsType
  <2> QED BY <2>1, <2>2, <2>3
<1> QED BY <1>3, <1>4 DEF Extends

\* One entry is added.
LEMMA OneAdded ==
    ASSUME NEW f \in StreamsType, NEW s \in Streams, NEW m \in Messages
    PROVE  /\ [f EXCEPT ![s] = Append(@, NewEntry(m))] \in StreamsType
           /\ Extends(f, [f EXCEPT ![s] = Append(@, NewEntry(m))])
<1> DEFINE g == [f EXCEPT ![s] = Append(@, NewEntry(m))]
<1>1. g \in StreamsType
  BY NewEntryType DEF StreamsType
<1>2. ASSUME NEW t \in Streams, NEW j \in DOMAIN f[t]
      PROVE  j \in DOMAIN g[t] /\ g[t][j] = f[t][j] /\ f[t][j].times \in Nat
  <2>1. f[t] \in Seq(Entry) /\ NewEntry(m) \in Entry
    BY NewEntryType DEF StreamsType
  <2>2. g[t] = IF t = s THEN Append(f[s], NewEntry(m)) ELSE f[t]
    BY DEF StreamsType
  <2>3. f[t][j] \in Entry
    BY <2>1
  <2> QED BY <2>1, <2>2, <2>3, AppendProperties DEF Entry
<1> QED BY <1>1, <1>2 DEF Extends

\* The entries of a command are delivered.
LEMMA UpdatedType ==
    ASSUME TypeOK, NEW ids
    PROVE  /\ Updated(Delivered, ids) \in StreamsType
           /\ Extends(stream, Updated(Delivered, ids))
<1> DEFINE g == Updated(Delivered, ids)
<1>1. ASSUME NEW s \in Streams
      PROVE  /\ g[s] \in Seq(Entry)
             /\ \A i \in DOMAIN stream[s] :
                    /\ i \in DOMAIN g[s]
                    /\ g[s][i].msg = stream[s][i].msg
                    /\ g[s][i].times >= stream[s][i].times
  <2> DEFINE f == [i \in DOMAIN stream[s] |->
                    IF <<s, i>> \in ids THEN Delivered(stream[s][i]) ELSE stream[s][i]]
  <2>1. stream[s] \in Seq(Entry)
    BY DEF TypeOK
  <2>2. \A i \in DOMAIN stream[s] : f[i] \in Entry
    BY EntryAt, EntryUpdates
  <2>3. DOMAIN f = DOMAIN stream[s] /\ f = [i \in DOMAIN f |-> f[i]]
    OBVIOUS
  <2>4. \A i \in DOMAIN stream[s] : f[i].msg = stream[s][i].msg
                                      /\ f[i].times >= stream[s][i].times
    BY EntryAt, EntryUpdates
  <2>5. g[s] = f
    BY DEF Updated
  <2> HIDE DEF f
  <2>6. f \in Seq(Entry)
    BY <2>1, <2>2, <2>3, Replaced
  <2> QED BY <2>3, <2>4, <2>5, <2>6
<1>2. g = [s \in Streams |-> g[s]]
  BY DEF Updated
<1> HIDE DEF g
<1>3. g \in StreamsType
  BY <1>1, <1>2 DEF StreamsType
<1>4. Extends(stream, g)
  BY <1>1 DEF Extends
<1> QED BY <1>3, <1>4 DEF g

LEMMA DeliveriesType ==
    ASSUME TypeOK, NEW ids,
           \A p \in ids : \E s \in ListenStreams : \E i \in DOMAIN stream[s] : p = <<s, i>>
    PROVE  /\ Deliveries(ids) \subseteq Delivery
           /\ \A d \in Deliveries(ids) :
                /\ d.ix \in DOMAIN stream[d.stream]
                /\ <<d.stream, d.ix>> \in ids
                /\ d.n = stream[d.stream][d.ix].times + 1
<1> SUFFICES ASSUME NEW d \in Deliveries(ids)
             PROVE  /\ d \in Delivery
                    /\ d.ix \in DOMAIN stream[d.stream]
                    /\ <<d.stream, d.ix>> \in ids
                    /\ d.n = stream[d.stream][d.ix].times + 1
  OBVIOUS
<1>1. PICK p \in ids : d = [stream |-> p[1], ix |-> p[2], n |-> stream[p[1]][p[2]].times + 1]
  BY DEF Deliveries
<1>2. PICK s \in ListenStreams : \E i \in DOMAIN stream[s] : p = <<s, i>>
  OBVIOUS
<1>a. PICK i \in DOMAIN stream[s] : p = <<s, i>>
  BY <1>2
<1>3. stream[s][i].times \in Nat /\ i \in Nat \ {0}
  BY EntryAt, StreamNumbers
<1> QED BY <1>1, <1>2, <1>a, <1>3 DEF Delivery

-----------------------------------------------------------------------------
\* Type correctness.

\* The streams and the batch after a fetch from the streams listened to.
LEMMA FetchType ==
    ASSUME TypeOK, NEW c \in Listeners, NEW ids, Fetch(c, ids),
           \A p \in ids : \E s \in ListenStreams : \E i \in DOMAIN stream[s] : p = <<s, i>>
    PROVE  TypeOK'
<1>1. stream' \in [Streams -> Seq(Entry)]
  BY UpdatedType DEF Fetch, StreamsType
<1>2. Deliveries(ids) \subseteq Delivery
  BY DeliveriesType
<1>3. batch' \in [Listeners -> SUBSET Delivery]
  BY <1>2 DEF TypeOK, Fetch
<1> QED BY <1>1, <1>3 DEF TypeOK, Fetch, requeuerVars, history, budgets

LEMMA FetchedIds ==
    ASSUME TypeOK, NEW c \in Listeners
    PROVE  /\ at[c] \in ListenStreams =>
                \A p \in {at[c]} \X Oldest(Expired(at[c]), NumMessages) :
                    \E s \in ListenStreams : \E i \in DOMAIN stream[s] : p = <<s, i>>
           /\ \A p \in UNION {{s} \X Oldest(InState(s, "new"), NumMessages) : s \in ListenStreams} :
                    \E s \in ListenStreams : \E i \in DOMAIN stream[s] : p = <<s, i>>
<1>1. ASSUME at[c] \in ListenStreams,
             NEW p \in {at[c]} \X Oldest(Expired(at[c]), NumMessages)
      PROVE  \E s \in ListenStreams : \E i \in DOMAIN stream[s] : p = <<s, i>>
  BY <1>1 DEF Oldest, Expired, InState
<1>2. ASSUME NEW s \in ListenStreams, NEW p \in {s} \X Oldest(InState(s, "new"), NumMessages)
      PROVE  \E i \in DOMAIN stream[s] : p = <<s, i>>
  BY DEF Oldest, InState
<1> QED BY <1>1, <1>2

\* The delivery a listener is at is one of an existing entry.
Located == \A c \in Listeners : \A d \in batch[c] : d.ix \in DOMAIN stream[d.stream]
DlqLocated == \A r \in Requeuers : rbatch[r] \subseteq DOMAIN stream[Dlq]
Base == TypeOK /\ Located /\ DlqLocated

LEMMA Holds ==
    ASSUME Base, NEW c \in Listeners, NEW d \in batch[c]
    PROVE  /\ d \in Delivery /\ d.stream \in ListenStreams /\ d.stream \in Streams
           /\ d.stream # Dlq
           /\ d.ix \in DOMAIN stream[d.stream]
           /\ d.n \in Nat \ {0}
           /\ EntryOf(d) \in Entry
           /\ EntryOf(d).msg \in Messages
           /\ EntryOf(d).times \in Nat
<1>1. d \in Delivery /\ d.stream \in ListenStreams /\ d.n \in Nat \ {0}
  BY DEF Base, TypeOK, Delivery
<1>2. d.ix \in DOMAIN stream[d.stream]
  BY DEF Base, Located
<1>3. d.stream \in Streams /\ d.stream # Dlq
  BY <1>1, StreamNumbers
<1> QED BY <1>1, <1>2, <1>3, EntryAt DEF EntryOf, Base

-----------------------------------------------------------------------------
\* No step takes an entry away, changes its message or forgets a delivery.

LEMMA MoveStreams ==
    ASSUME Base, NEW c \in Listeners, MoveToDlq(c)
    PROVE  stream' \in StreamsType /\ Extends(stream, stream')
<1>1. PICK d \in batch[c] :
        stream' = [stream EXCEPT
                     ![d.stream][d.ix] = Acked(@),
                     ![Dlq] = Append(@, NewEntry(EntryOf(d).msg))]
  BY DEF MoveToDlq
<1> DEFINE f == [stream EXCEPT ![d.stream][d.ix] = Acked(EntryOf(d))]
           g == [f EXCEPT ![Dlq] = Append(@, NewEntry(EntryOf(d).msg))]
<1>2. stream \in StreamsType
  BY DEF Base, TypeOK, StreamsType
<1>3. f \in StreamsType /\ Extends(stream, f)
  BY <1>2, OneReplaced, Holds, EntryUpdates DEF EntryOf
<1>4. stream' = g
  BY <1>1, Holds DEF EntryOf
<1> HIDE DEF f
<1>5. g \in StreamsType /\ Extends(f, g)
  BY <1>3, OneAdded, Holds, StreamNumbers
<1> QED BY <1>2, <1>3, <1>4, <1>5, ExtendsTransitive

LEMMA RbatchFinite ==
    ASSUME Base, NEW r \in Requeuers
    PROVE  IsFiniteSet(rbatch[r])
<1>1. stream[Dlq] \in Seq(Entry)
  BY StreamNumbers DEF Base, TypeOK
<1>2. Len(stream[Dlq]) \in Nat /\ DOMAIN stream[Dlq] = 1 .. Len(stream[Dlq])
  BY <1>1
<1>3. IsFiniteSet(1 .. Len(stream[Dlq]))
  BY <1>2, FS_Interval
<1>4. rbatch[r] \subseteq 1 .. Len(stream[Dlq])
  BY <1>2 DEF Base, DlqLocated
<1> QED BY <1>3, <1>4, FS_Subset

LEMMA RequeueStreams ==
    ASSUME Base, NEW r \in Requeuers, RequeueMessages(r)
    PROVE  stream' \in StreamsType /\ Extends(stream, stream')
<1>1. PICK q \in InOrder(rbatch[r]) :
        stream' = [stream EXCEPT
            ![Main] = @ \o [k \in DOMAIN q |-> NewEntry(stream[Dlq][q[k]].msg)],
            ![Dlq] = [i \in DOMAIN @ |-> IF i \in rbatch[r] THEN Acked(@[i]) ELSE @[i]]]
  BY DEF RequeueMessages
<1> DEFINE a == [k \in DOMAIN q |-> NewEntry(stream[Dlq][q[k]].msg)]
           b == [i \in DOMAIN stream[Dlq] |->
                    IF i \in rbatch[r] THEN Acked(stream[Dlq][i]) ELSE stream[Dlq][i]]
<1>2. stream[Dlq] \in Seq(Entry) /\ stream[Main] \in Seq(Entry)
  BY StreamNumbers DEF Base, TypeOK
<1>3. rbatch[r] \subseteq DOMAIN stream[Dlq]
  BY DEF Base, DlqLocated
<1>4. b \in Seq(Entry) /\ DOMAIN b = DOMAIN stream[Dlq]
         /\ \A i \in DOMAIN b : b[i].msg = stream[Dlq][i].msg /\ b[i].times = stream[Dlq][i].times
  <2>1. \A i \in DOMAIN stream[Dlq] : stream[Dlq][i] \in Entry
    BY <1>2
  <2>2. \A i \in DOMAIN stream[Dlq] : /\ b[i] \in Entry
                                      /\ b[i].msg = stream[Dlq][i].msg
                                      /\ b[i].times = stream[Dlq][i].times
    BY <2>1, EntryUpdates
  <2>3. DOMAIN b = DOMAIN stream[Dlq] /\ b = [i \in DOMAIN b |-> b[i]]
    OBVIOUS
  <2> HIDE DEF b
  <2>4. b \in Seq(Entry)
    BY <1>2, <2>2, <2>3, Replaced
  <2> QED BY <2>2, <2>3, <2>4
<1>5. a \in Seq(Entry)
  <2>1. q \in [1 .. Cardinality(rbatch[r]) -> rbatch[r]]
    BY DEF InOrder
  <2>2. \A k \in DOMAIN q : NewEntry(stream[Dlq][q[k]].msg) \in Entry
    BY <2>1, <1>3, EntryAt, NewEntryType, StreamNumbers DEF Base
  <2>3. Cardinality(rbatch[r]) \in Nat
    BY RbatchFinite, FS_CardinalityType
  <2> QED BY <2>1, <2>2, <2>3
<1> HIDE DEF a, b
<1>6. stream' = [stream EXCEPT ![Main] = @ \o a, ![Dlq] = b]
  BY <1>1 DEF a, b
<1>7. stream[Main] \o a \in Seq(Entry)
         /\ \A i \in DOMAIN stream[Main] : i \in DOMAIN (stream[Main] \o a)
                                            /\ (stream[Main] \o a)[i] = stream[Main][i]
  BY <1>2, <1>5
<1>8. stream' \in [Streams -> Seq(Entry)]
  BY <1>4, <1>6, <1>7 DEF Base, TypeOK
<1>9. ASSUME NEW s \in Streams, NEW i \in DOMAIN stream[s]
      PROVE  /\ i \in DOMAIN stream'[s]
             /\ stream'[s][i].msg = stream[s][i].msg
             /\ stream'[s][i].times >= stream[s][i].times
  <2>1. stream[s][i].times \in Nat
    BY EntryAt DEF Base
  <2>2. stream'[s] = IF s = Dlq THEN b ELSE IF s = Main THEN stream[Main] \o a ELSE stream[s]
    BY <1>6, StreamNumbers DEF Base, TypeOK
  <2> QED BY <1>4, <1>7, <2>1, <2>2
<1> QED BY <1>8, <1>9 DEF StreamsType, Extends

LEMMA StreamStep ==
    ASSUME Base, [Next]_vars
    PROVE  stream' \in StreamsType /\ Extends(stream, stream')
<1> stream \in StreamsType
  BY DEF Base, TypeOK, StreamsType
<1>1. CASE UNCHANGED stream
  BY <1>1, ExtendsSelf
<1>2. ASSUME NEW m \in Messages, NEW s \in 1 .. NumSubscriptions, Publish(m, s)
      PROVE  stream' \in StreamsType /\ Extends(stream, stream')
  BY <1>2, OneAdded, StreamNumbers DEF Publish
<1>3. ASSUME NEW s \in ListenStreams, NEW i \in DOMAIN stream[s], VisibilityTimeout(s, i)
      PROVE  stream' \in StreamsType /\ Extends(stream, stream')
  <2>1. stream' = [stream EXCEPT ![s][i] = [stream[s][i] EXCEPT !.expired = TRUE]]
    BY <1>3, StreamNumbers DEF VisibilityTimeout, Base, TypeOK
  <2>2. stream[s][i] \in Entry
    BY EntryAt, StreamNumbers DEF Base
  <2>3. /\ [stream[s][i] EXCEPT !.expired = TRUE] \in Entry
        /\ [stream[s][i] EXCEPT !.expired = TRUE].msg = stream[s][i].msg
        /\ [stream[s][i] EXCEPT !.expired = TRUE].times = stream[s][i].times
    BY <2>2 DEF Entry
  <2> QED BY <2>1, <2>3, OneReplaced, StreamNumbers
<1>4. ASSUME NEW c \in Listeners, NEW ids, Fetch(c, ids)
      PROVE  stream' \in StreamsType /\ Extends(stream, stream')
  BY <1>4, UpdatedType DEF Fetch, Base
<1>5. ASSUME NEW c \in Listeners, AckMessage(c)
      PROVE  stream' \in StreamsType /\ Extends(stream, stream')
  <2>1. PICK d \in batch[c] : stream' = [stream EXCEPT ![d.stream][d.ix] = Acked(@)]
    BY <1>5 DEF AckMessage
  <2>2. stream' = [stream EXCEPT ![d.stream][d.ix] = Acked(EntryOf(d))]
    BY <2>1, Holds DEF EntryOf
  <2> QED BY <2>2, Holds, OneReplaced, EntryUpdates DEF EntryOf
<1>6. ASSUME NEW c \in Listeners, ExtendVisibilityTimeout(c)
      PROVE  stream' \in StreamsType /\ Extends(stream, stream')
  <2>1. PICK d \in batch[c] : stream' = [stream EXCEPT ![d.stream][d.ix] = Touched(@)]
    BY <1>6 DEF ExtendVisibilityTimeout
  <2>2. stream' = [stream EXCEPT ![d.stream][d.ix] = Touched(EntryOf(d))]
    BY <2>1, Holds DEF EntryOf
  <2> QED BY <2>2, Holds, OneReplaced, EntryUpdates DEF EntryOf
<1>7. ASSUME NEW r \in Requeuers, RequeueClaim(r) \/ RequeueRead(r)
      PROVE  stream' \in StreamsType /\ Extends(stream, stream')
  BY <1>7, UpdatedType DEF RequeueClaim, RequeueRead, RequeueFetch, Base
<1>8. ASSUME NEW c \in Listeners, ListenerStep(c)
      PROVE  stream' \in StreamsType /\ Extends(stream, stream')
  BY <1>8, <1>1, <1>4, <1>5, MoveStreams
     DEF ListenerStep, CheckShutdown, ClaimTimedOut, ReadNew, BatchDone, EntryGone, CountTooHigh,
         StartCallback, PreProcessHookRaises, Yielded, CallbackReturns, CallbackRaises,
         PostProcessHookRaises, AckRaises
<1>9. ASSUME NEW c \in Listeners, SetShutdown(c) \/ Crash(c) \/ Restart(c)
      PROVE  stream' \in StreamsType /\ Extends(stream, stream')
  BY <1>9, <1>1 DEF SetShutdown, Crash, Restart
<1>10. ASSUME NEW r \in Requeuers, StartRequeue(r) \/ RequeuerCrash(r)
       PROVE  stream' \in StreamsType /\ Extends(stream, stream')
  BY <1>10, <1>1 DEF StartRequeue, RequeuerCrash
<1> QED BY <1>1, <1>2, <1>3, <1>6, <1>7, <1>8, <1>9, <1>10, RequeueStreams
        DEF Next, Timeout, RequeuerStep, vars

-----------------------------------------------------------------------------
\* Base is an inductive invariant.

LEMMA BaseInit == Init => Base
<1> SUFFICES ASSUME Init PROVE Base
  OBVIOUS
<1>1. TypeOK
  BY StreamNumbers, BoundsAssumption DEF Init, TypeOK, Streams, Main
<1>2. Located /\ DlqLocated
  BY DEF Init, Located, DlqLocated
<1> QED BY <1>1, <1>2 DEF Base

LEMMA TypeStep ==
    ASSUME Base, [Next]_vars
    PROVE  TypeOK'
<1> USE DEF Base, TypeOK, listenerVars, requeuerVars, history, budgets
<1>0. stream' \in [Streams -> Seq(Entry)]
  BY StreamStep DEF StreamsType
<1>1. CASE UNCHANGED vars
  BY <1>1 DEF vars
<1>2. ASSUME NEW m \in Messages, NEW s \in 1 .. NumSubscriptions, Publish(m, s)
      PROVE  TypeOK'
  BY <1>0, <1>2 DEF Publish
<1>3. ASSUME NEW s \in ListenStreams, NEW i \in DOMAIN stream[s], VisibilityTimeout(s, i)
      PROVE  TypeOK'
  BY <1>0, <1>3 DEF VisibilityTimeout
<1>4. ASSUME NEW c \in Listeners, ListenerStep(c)
      PROVE  TypeOK'
  <2>1. CASE CheckShutdown(c)
    BY <1>0, <2>1 DEF CheckShutdown
  <2>2. CASE ClaimTimedOut(c)
    BY <2>2, FetchType, FetchedIds DEF ClaimTimedOut
  <2>3. CASE ReadNew(c)
    BY <2>3, FetchType, FetchedIds DEF ReadNew
  <2>4. CASE BatchDone(c)
    <3>1. at' \in [Listeners -> 1 .. Main + 1]
      <4>1. Main \in Nat /\ (at[c] \in ListenStreams => at[c] + 1 \in 1 .. Main + 1)
        BY StreamNumbers DEF ListenStreams
      <4>2. PICK k \in 1 .. Main + 1 : at' = [at EXCEPT ![c] = k]
        BY <2>4, <4>1 DEF BatchDone
      <4> QED BY <4>2
    <3>2. pc' = [pc EXCEPT ![c] = "pull"] \/ pc' = [pc EXCEPT ![c] = "idle"]
      BY <2>4 DEF BatchDone
    <3> QED BY <1>0, <2>4, <3>1, <3>2 DEF BatchDone
  <2>5. CASE EntryGone(c)
    BY <1>0, <2>5, StreamNumbers DEF EntryGone, Dies
  <2>6. CASE CountTooHigh(c)
    BY <1>0, <2>6 DEF CountTooHigh
  <2>7. CASE MoveToDlq(c)
    <3>1. PICK d : Finish(c, d)
      BY <2>7 DEF MoveToDlq
    <3> QED BY <1>0, <2>7, <3>1 DEF MoveToDlq, Finish
  <2>8. CASE StartCallback(c)
    BY <1>0, <2>8, Holds DEF StartCallback, Yielded
  <2>9. CASE PreProcessHookRaises(c)
    BY <1>0, <2>9, Holds DEF PreProcessHookRaises, Yielded, Finish
  <2>10. CASE CallbackReturns(c)
    BY <1>0, <2>10, Holds DEF CallbackReturns
  <2>11. CASE CallbackRaises(c)
    BY <1>0, <2>11 DEF CallbackRaises, Finish
  <2>12. CASE PostProcessHookRaises(c)
    BY <1>0, <2>12 DEF PostProcessHookRaises, Finish
  <2>13. CASE AckMessage(c)
    BY <1>0, <2>13 DEF AckMessage, Finish
  <2>14. CASE AckRaises(c)
    BY <1>0, <2>14, BoundsAssumption DEF AckRaises, Finish
  <2> QED BY <1>4, <2>1, <2>2, <2>3, <2>4, <2>5, <2>6, <2>7, <2>8, <2>9, <2>10,
             <2>11, <2>12, <2>13, <2>14 DEF ListenerStep
<1>5. ASSUME NEW c \in Listeners, SetShutdown(c)
      PROVE  TypeOK'
  BY <1>0, <1>5, BoundsAssumption DEF SetShutdown
<1>6. ASSUME NEW c \in Listeners, ExtendVisibilityTimeout(c)
      PROVE  TypeOK'
  BY <1>0, <1>6 DEF ExtendVisibilityTimeout
<1>7. ASSUME NEW c \in Listeners, Crash(c)
      PROVE  TypeOK'
  BY <1>0, <1>7, BoundsAssumption, StreamNumbers DEF Crash, Dies
<1>8. ASSUME NEW c \in Listeners, Restart(c)
      PROVE  TypeOK'
  BY <1>0, <1>8 DEF Restart
<1>9. ASSUME NEW r \in Requeuers, RequeueClaim(r) \/ RequeueRead(r)
      PROVE  TypeOK'
  <2>1. \A st : Oldest(InState(Dlq, st), NumMessages) \subseteq Nat \ {0}
    BY EntryAt, StreamNumbers DEF Oldest, InState
  <2>2. PICK ids \in SUBSET (Nat \ {0}) :
            /\ rbatch' = [rbatch EXCEPT ![r] = ids]
            /\ \E k \in {"read", "done", "claimed", "fetched"} : rpc' = [rpc EXCEPT ![r] = k]
            /\ ceded' = [x \in Requeuers |->
                            IF x = r \/ rpc[x] \in {"off", "done"}
                            THEN ceded[x] ELSE ceded[x] \cup ids]
    BY <1>9, <2>1 DEF RequeueClaim, RequeueRead, RequeueFetch
  <2>3. UNCHANGED <<published, listenerVars, history, budgets>>
    BY <1>9 DEF RequeueClaim, RequeueRead, RequeueFetch
  <2>4. ceded' \in [Requeuers -> SUBSET (Nat \ {0})]
    BY <2>2
  <2> QED BY <1>0, <2>2, <2>3, <2>4
<1>10. ASSUME NEW r \in Requeuers, RequeueMessages(r)
       PROVE  TypeOK'
  BY <1>0, <1>10 DEF RequeueMessages
<1>11. ASSUME NEW r \in Requeuers, StartRequeue(r)
       PROVE  TypeOK'
  BY <1>0, <1>11, BoundsAssumption DEF StartRequeue
<1>12. ASSUME NEW r \in Requeuers, RequeuerCrash(r)
       PROVE  TypeOK'
  BY <1>0, <1>12, BoundsAssumption DEF RequeuerCrash
<1> QED BY <1>1, <1>2, <1>3, <1>4, <1>5, <1>6, <1>7, <1>8, <1>9, <1>10, <1>11, <1>12
        DEF Next, Timeout, RequeuerStep

\* ids names entries of the streams listened to.
Known(ids) == \A p \in ids : \E s \in ListenStreams : \E i \in DOMAIN stream[s] : p = <<s, i>>

\* A batch only shrinks, except for the one a fetch fills.
LEMMA BatchStep ==
    ASSUME Base, [Next]_vars
    PROVE  \/ \A c \in Listeners : batch'[c] \subseteq batch[c]
           \/ \E c \in Listeners : \E ids : pc[c] = "pull" /\ Known(ids) /\ Fetch(c, ids)
<1> USE DEF Base, TypeOK, listenerVars
<1>1. CASE UNCHANGED batch
  BY <1>1
<1>2. ASSUME NEW c \in Listeners, ListenerStep(c)
      PROVE  \/ \A b \in Listeners : batch'[b] \subseteq batch[b]
             \/ \E ids : pc[c] = "pull" /\ Known(ids) /\ Fetch(c, ids)
  <2>1. CASE ClaimTimedOut(c)
    <3> DEFINE ids == {at[c]} \X Oldest(Expired(at[c]), NumMessages)
    <3>1. pc[c] = "pull" /\ Fetch(c, ids) /\ Known(ids)
      BY <2>1, FetchedIds DEF ClaimTimedOut, Known
    <3> QED BY <3>1
  <2>2. CASE ReadNew(c)
    <3> DEFINE ids == UNION {{s} \X Oldest(InState(s, "new"), NumMessages) : s \in ListenStreams}
    <3>1. pc[c] = "pull" /\ Fetch(c, ids) /\ Known(ids)
      BY <2>2, FetchedIds DEF ReadNew, Known
    <3> QED BY <3>1
  <2>3. ASSUME NEW d, Finish(c, d)
        PROVE  \A b \in Listeners : batch'[b] \subseteq batch[b]
    BY <2>3 DEF Finish
  <2>4. CASE EntryGone(c)
    BY <2>4 DEF EntryGone, Dies
  <2> QED BY <1>1, <1>2, <2>1, <2>2, <2>3, <2>4
          DEF ListenerStep, CheckShutdown, BatchDone, CountTooHigh, MoveToDlq, StartCallback,
              PreProcessHookRaises, CallbackReturns, CallbackRaises, PostProcessHookRaises,
              AckMessage, AckRaises
<1>3. ASSUME NEW c \in Listeners, Crash(c)
      PROVE  \A b \in Listeners : batch'[b] \subseteq batch[b]
  BY <1>3 DEF Crash, Dies
<1>4. ASSUME NEW c \in Listeners, SetShutdown(c) \/ ExtendVisibilityTimeout(c) \/ Restart(c)
      PROVE  UNCHANGED batch
  BY <1>4 DEF SetShutdown, ExtendVisibilityTimeout, Restart
<1>5. ASSUME NEW r \in Requeuers, RequeuerStep(r) \/ StartRequeue(r) \/ RequeuerCrash(r)
      PROVE  UNCHANGED batch
  BY <1>5 DEF RequeuerStep, RequeueClaim, RequeueRead, RequeueFetch, RequeueMessages,
              StartRequeue, RequeuerCrash
<1>6. ASSUME NEW m, NEW s, Publish(m, s) \/ VisibilityTimeout(m, s)
      PROVE  UNCHANGED batch
  BY <1>6 DEF Publish, VisibilityTimeout
<1> QED BY <1>1, <1>2, <1>3, <1>4, <1>5, <1>6 DEF Next, Timeout, vars

LEMMA FetchedDeliveries ==
    ASSUME Base, [Next]_vars, NEW c \in Listeners, NEW ids, Known(ids), Fetch(c, ids)
    PROVE  /\ \A b \in Listeners \ {c} : batch'[b] = batch[b]
           /\ \A d \in batch'[c] :
                /\ d.stream \in ListenStreams /\ d.ix \in DOMAIN stream[d.stream]
                /\ d.n = EntryOf(d).times + 1
                /\ EntryOf(d)'.times = d.n
<1>1. batch' = [batch EXCEPT ![c] = Deliveries(ids)] /\ stream' = Updated(Delivered, ids)
  BY DEF Fetch
<1>2. batch'[c] = Deliveries(ids) /\ \A b \in Listeners \ {c} : batch'[b] = batch[b]
  BY <1>1 DEF Base, TypeOK
<1>3. ASSUME NEW d \in Deliveries(ids)
      PROVE  /\ d.stream \in ListenStreams /\ d.ix \in DOMAIN stream[d.stream]
             /\ d.n = EntryOf(d).times + 1
             /\ EntryOf(d)'.times = d.n
  <2>1. /\ d \in Delivery /\ d.ix \in DOMAIN stream[d.stream] /\ <<d.stream, d.ix>> \in ids
        /\ d.n = stream[d.stream][d.ix].times + 1
    BY DeliveriesType DEF Known, Base
  <2>2. d.stream \in ListenStreams /\ d.stream \in Streams
    BY <2>1, StreamNumbers DEF Delivery
  <2>3. stream'[d.stream][d.ix] = Delivered(stream[d.stream][d.ix])
    BY <1>1, <2>1, <2>2 DEF Updated
  <2>4. stream[d.stream][d.ix] \in Entry
    BY <2>1, <2>2, EntryAt DEF Base
  <2> QED BY <2>1, <2>2, <2>3, <2>4, EntryUpdates DEF EntryOf
<1> QED BY <1>2, <1>3

LEMMA Kept ==
    ASSUME Base, [Next]_vars, NEW s \in Streams, NEW i \in DOMAIN stream[s]
    PROVE  /\ i \in DOMAIN stream'[s]
           /\ stream'[s][i].msg = stream[s][i].msg
           /\ stream'[s][i].times >= stream[s][i].times
BY StreamStep DEF Extends

LEMMA BaseStep ==
    ASSUME Base, [Next]_vars
    PROVE  Base'
<1>1. TypeOK'
  BY TypeStep
<1>2. Located'
  <2> SUFFICES ASSUME NEW c \in Listeners, NEW d \in batch'[c]
               PROVE  d.ix \in DOMAIN stream'[d.stream]
    BY DEF Located
  <2>1. CASE d \in batch[c]
    BY <2>1, Holds, Kept
  <2>2. CASE d \notin batch[c]
    <3>1. PICK b \in Listeners : \E ids : Known(ids) /\ Fetch(b, ids)
      BY <2>2, BatchStep
    <3>2. d.stream \in ListenStreams /\ d.ix \in DOMAIN stream[d.stream]
      BY <2>2, <3>1, FetchedDeliveries
    <3> QED BY <3>2, Kept, StreamNumbers
  <2> QED BY <2>1, <2>2
<1>3. DlqLocated'
  <2> SUFFICES ASSUME NEW r \in Requeuers, NEW i \in rbatch'[r]
               PROVE  i \in DOMAIN stream'[Dlq]
    BY DEF DlqLocated
  <2>1. i \in rbatch[r] \/ i \in DOMAIN stream[Dlq]
    <3>1. CASE UNCHANGED rbatch
      BY <3>1
    <3>2. ASSUME NEW q \in Requeuers, RequeueClaim(q) \/ RequeueRead(q)
          PROVE  i \in rbatch[r] \/ i \in DOMAIN stream[Dlq]
      <4>1. PICK st : rbatch' = [rbatch EXCEPT ![q] = Oldest(InState(Dlq, st), NumMessages)]
        BY <3>2 DEF RequeueClaim, RequeueRead, RequeueFetch
      <4> QED BY <4>1 DEF Oldest, InState, Base, TypeOK
    <3>3. ASSUME NEW q \in Requeuers, RequeueMessages(q) \/ RequeuerCrash(q)
          PROVE  i \in rbatch[r]
      BY <3>3 DEF RequeueMessages, RequeuerCrash, Base, TypeOK
    <3>4. ASSUME NEW q \in Requeuers, StartRequeue(q)
          PROVE  UNCHANGED rbatch
      BY <3>4 DEF StartRequeue
    <3>5. ASSUME NEW c \in Listeners, ListenerStep(c)
          PROVE  UNCHANGED rbatch
      BY <3>5 DEF ListenerStep, requeuerVars, CheckShutdown, ClaimTimedOut, ReadNew, Fetch,
                  BatchDone, EntryGone, CountTooHigh, MoveToDlq, StartCallback,
                  PreProcessHookRaises, Yielded, CallbackReturns, CallbackRaises,
                  PostProcessHookRaises, AckMessage, AckRaises
    <3>6. ASSUME NEW c \in Listeners,
                 SetShutdown(c) \/ ExtendVisibilityTimeout(c) \/ Crash(c) \/ Restart(c)
          PROVE  UNCHANGED rbatch
      BY <3>6 DEF SetShutdown, ExtendVisibilityTimeout, Crash, Restart, requeuerVars
    <3>7. ASSUME NEW m, NEW s, Publish(m, s) \/ VisibilityTimeout(m, s)
          PROVE  UNCHANGED rbatch
      BY <3>7 DEF Publish, VisibilityTimeout, requeuerVars
    <3> QED BY <3>1, <3>2, <3>3, <3>4, <3>5, <3>6, <3>7
            DEF Next, Timeout, RequeuerStep, vars, requeuerVars
  <2>2. i \in DOMAIN stream[Dlq]
    BY <2>1 DEF Base, DlqLocated
  <2> QED BY <2>2, Kept, StreamNumbers
<1> QED BY <1>1, <1>2, <1>3 DEF Base

(***************************************************************************)
(* Every variable keeps its type, for any instance: in particular no batch *)
(* names a stream nobody listens to and no pull goes past its last fetch.  *)
(***************************************************************************)
THEOREM TypeCorrect == Spec => []TypeOK
<1>1. Init => Base
  BY BaseInit
<1>2. Base /\ [Next]_vars => Base'
  BY BaseStep
<1>3. Base => TypeOK
  BY DEF Base
<1> QED BY <1>1, <1>2, <1>3, PTL DEF Spec

-----------------------------------------------------------------------------
\* Delivery attempts.

\* What a step means for the deliveries of the one listener it is about.
Keeps(c) == /\ batch' = batch /\ attempts' = attempts
            /\ pc[c] \in {"callback", "ack"} => pc'[c] \in {"callback", "ack"}
Drops(c) == /\ \E d \in batch[c] : First(c, d) /\ batch'[c] = batch[c] \ {d}
            /\ attempts' = attempts
Dropped(c) == batch'[c] = {} /\ attempts' = attempts
Attempts(c) ==
    /\ pc[c] = "fetch"
    /\ \E d \in batch[c] :
        /\ First(c, d) /\ EntryOf(d).times <= MaxDeliveryAttempts
        /\ attempts' = attempts \cup {d}
        /\ \/ batch' = batch /\ pc'[c] = "callback"
           \/ batch'[c] = batch[c] \ {d} /\ pc'[c] = "fetch"
Fetches(c) == /\ pc[c] = "pull" /\ pc'[c] = "fetch" /\ attempts' = attempts
              /\ \E ids : Known(ids) /\ Fetch(c, ids)

LEMMA Classified ==
    ASSUME Base, [Next]_vars
    PROVE  \/ UNCHANGED <<pc, batch, attempts>>
           \/ \E c \in Listeners :
                /\ \A b \in Listeners \ {c} : pc'[b] = pc[b] /\ batch'[b] = batch[b]
                /\ Keeps(c) \/ Drops(c) \/ Dropped(c) \/ Attempts(c) \/ Fetches(c)
<1> USE DEF Base, TypeOK, listenerVars, history
<1> DEFINE Alone(c) == \A b \in Listeners \ {c} : pc'[b] = pc[b] /\ batch'[b] = batch[b]
           Kind(c) == Keeps(c) \/ Drops(c) \/ Dropped(c) \/ Attempts(c) \/ Fetches(c)
<1>1. ASSUME NEW c \in Listeners, ListenerStep(c)
      PROVE  Alone(c) /\ Kind(c)
  <2>1. ASSUME CheckShutdown(c) \/ BatchDone(c) \/ CountTooHigh(c) \/ CallbackReturns(c)
        PROVE  Alone(c) /\ Keeps(c)
    BY <2>1 DEF CheckShutdown, BatchDone, CountTooHigh, CallbackReturns, Keeps
  <2>2. ASSUME MoveToDlq(c) \/ CallbackRaises(c) \/ PostProcessHookRaises(c) \/ AckMessage(c)
                 \/ AckRaises(c)
        PROVE  Alone(c) /\ Drops(c)
    <3>1. attempts' = attempts
      BY <2>2 DEF MoveToDlq, CallbackRaises, PostProcessHookRaises, AckMessage, AckRaises
    <3>2. PICK d \in batch[c] : First(c, d) /\ Finish(c, d)
      BY <2>2 DEF MoveToDlq, CallbackRaises, PostProcessHookRaises, AckMessage, AckRaises
    <3> QED BY <3>1, <3>2 DEF Finish, Drops
  <2>3. ASSUME EntryGone(c)
        PROVE  Alone(c) /\ Dropped(c)
    BY <2>3 DEF EntryGone, Dies, Dropped
  <2>4. ASSUME NEW d \in batch[c], Yielded(c, d), pc' = [pc EXCEPT ![c] = "callback"],
               UNCHANGED batch
        PROVE  Alone(c) /\ Attempts(c)
    <3>1. EntryOf(d).times <= MaxDeliveryAttempts
      BY <2>4, Holds, AttemptsAssumption DEF Yielded, Exhausted
    <3> QED BY <2>4, <3>1 DEF Yielded, Attempts
  <2>5. ASSUME NEW d \in batch[c], Yielded(c, d), Finish(c, d)
        PROVE  Alone(c) /\ Attempts(c)
    <3>1. EntryOf(d).times <= MaxDeliveryAttempts
      BY <2>5, Holds, AttemptsAssumption DEF Yielded, Exhausted
    <3>2. batch'[c] = batch[c] \ {d} /\ pc'[c] = "fetch" /\ Alone(c)
      BY <2>5 DEF Finish
    <3> QED BY <2>5, <3>1, <3>2 DEF Yielded, Attempts
  <2>6. ASSUME NEW ids, pc[c] = "pull", Known(ids), Fetch(c, ids)
        PROVE  Alone(c) /\ Fetches(c)
    BY <2>6 DEF Fetch, Fetches
  <2>7. ASSUME ClaimTimedOut(c) \/ ReadNew(c)
        PROVE  \E ids : pc[c] = "pull" /\ Known(ids) /\ Fetch(c, ids)
    <3>1. CASE ClaimTimedOut(c)
      <4> DEFINE ids == {at[c]} \X Oldest(Expired(at[c]), NumMessages)
      <4>1. pc[c] = "pull" /\ Fetch(c, ids) /\ Known(ids)
        BY <3>1, FetchedIds DEF ClaimTimedOut, Known
      <4> QED BY <4>1
    <3>2. CASE ReadNew(c)
      <4> DEFINE ids == UNION {{s} \X Oldest(InState(s, "new"), NumMessages) : s \in ListenStreams}
      <4>1. pc[c] = "pull" /\ Fetch(c, ids) /\ Known(ids)
        BY <3>2, FetchedIds DEF ReadNew, Known
      <4> QED BY <4>1
    <3> QED BY <2>7, <3>1, <3>2
  <2> HIDE DEF Alone, Kind
  <2>8. Alone(c) /\ Fetches(c) => Kind(c)
    BY DEF Kind
  <2> QED BY <1>1, <2>1, <2>2, <2>3, <2>4, <2>5, <2>6, <2>7
          DEF ListenerStep, StartCallback, PreProcessHookRaises, Kind
<1>2. ASSUME NEW c \in Listeners, Crash(c)
      PROVE  Alone(c) /\ Dropped(c)
  BY <1>2 DEF Crash, Dies, Dropped
<1>3. ASSUME NEW c \in Listeners, Restart(c)
      PROVE  Alone(c) /\ Keeps(c)
  BY <1>3 DEF Restart, Keeps
<1>4. ASSUME NEW c \in Listeners, SetShutdown(c) \/ ExtendVisibilityTimeout(c)
      PROVE  UNCHANGED <<pc, batch, attempts>>
  BY <1>4 DEF SetShutdown, ExtendVisibilityTimeout
<1>5. ASSUME NEW r \in Requeuers, RequeuerStep(r) \/ StartRequeue(r) \/ RequeuerCrash(r)
      PROVE  UNCHANGED <<pc, batch, attempts>>
  BY <1>5 DEF RequeuerStep, RequeueClaim, RequeueRead, RequeueFetch, RequeueMessages,
              StartRequeue, RequeuerCrash
<1>6. ASSUME NEW m, NEW s, Publish(m, s) \/ VisibilityTimeout(m, s)
      PROVE  UNCHANGED <<pc, batch, attempts>>
  BY <1>6 DEF Publish, VisibilityTimeout
<1>7. CASE UNCHANGED vars
  BY <1>7 DEF vars
<1> HIDE DEF Alone, Kind
<1>8. \/ UNCHANGED <<pc, batch, attempts>>
      \/ \E c \in Listeners : Alone(c) /\ (Kind(c) \/ Dropped(c) \/ Keeps(c))
  BY <1>1, <1>2, <1>3, <1>4, <1>5, <1>6, <1>7 DEF Next, Timeout, vars
<1> QED BY <1>8 DEF Alone, Kind

\* Every delivery held or attempted is one of those its entry counts, and no
\* attempted one came after the limit.
HeldCounted == \A c \in Listeners : \A d \in batch[c] : d.n <= EntryOf(d).times
AttemptsCounted ==
    \A a \in attempts : /\ a.ix \in DOMAIN stream[a.stream]
                        /\ a.n <= EntryOf(a).times
                        /\ a.n <= MaxDeliveryAttempts

IInv == Base /\ HeldCounted /\ AttemptsCounted /\ DeliveriesDistinct

LEMMA FirstUnique ==
    ASSUME Base, NEW c \in Listeners, NEW d \in batch[c], NEW e \in batch[c],
           First(c, d), First(c, e)
    PROVE  d = e
<1>1. d.stream \in Nat /\ e.stream \in Nat /\ d.ix \in Nat /\ e.ix \in Nat
  BY Holds, StreamNumbers DEF Delivery
<1> QED BY <1>1 DEF First, Earlier

\* Counters only grow, so a delivery counted before is counted after.
LEMMA StillCounted ==
    ASSUME Base, [Next]_vars, NEW d \in Delivery, d.ix \in DOMAIN stream[d.stream],
           d.n <= EntryOf(d).times
    PROVE  d.ix \in DOMAIN stream'[d.stream] /\ d.n <= EntryOf(d)'.times
<1>1. d.stream \in Streams /\ d.n \in Nat
  BY StreamNumbers DEF Delivery
<1>2. /\ d.ix \in DOMAIN stream'[d.stream]
      /\ stream'[d.stream][d.ix].times >= stream[d.stream][d.ix].times
  BY <1>1, Kept
<1>3. stream[d.stream][d.ix].times \in Nat
  BY <1>1, EntryAt DEF Base
<1>4. stream'[d.stream][d.ix].times \in Nat
  <2>1. stream'[d.stream] \in Seq(Entry)
    BY <1>1, StreamStep DEF StreamsType
  <2>2. stream'[d.stream][d.ix] \in Entry
    BY <1>2, <2>1
  <2> QED BY <2>2 DEF Entry
<1> QED BY <1>1, <1>2, <1>3, <1>4 DEF EntryOf

LEMMA HeldCountedStep ==
    ASSUME IInv, [Next]_vars
    PROVE  HeldCounted'
<1> SUFFICES ASSUME NEW c \in Listeners, NEW d \in batch'[c]
             PROVE  d.n <= EntryOf(d)'.times
  BY DEF HeldCounted
<1>1. CASE d \in batch[c]
  <2>1. d \in Delivery /\ d.ix \in DOMAIN stream[d.stream] /\ d.n <= EntryOf(d).times
    BY <1>1, Holds DEF IInv, HeldCounted
  <2> QED BY <2>1, StillCounted DEF IInv
<1>2. CASE d \notin batch[c]
  <2>1. PICK b \in Listeners : \E ids : Known(ids) /\ Fetch(b, ids)
    BY <1>2, BatchStep DEF IInv
  <2>2. d.n = EntryOf(d)'.times /\ d.n = EntryOf(d).times + 1
        /\ d.stream \in ListenStreams /\ d.ix \in DOMAIN stream[d.stream]
    BY <1>2, <2>1, FetchedDeliveries DEF IInv
  <2>3. EntryOf(d).times \in Nat
    BY <2>2, EntryAt, StreamNumbers DEF IInv, Base, EntryOf
  <2> QED BY <2>2, <2>3
<1> QED BY <1>1, <1>2

LEMMA AttemptsCountedStep ==
    ASSUME IInv, [Next]_vars
    PROVE  AttemptsCounted'
<1> SUFFICES ASSUME NEW a \in attempts'
             PROVE  /\ a.ix \in DOMAIN stream'[a.stream]
                    /\ a.n <= EntryOf(a)'.times
                    /\ a.n <= MaxDeliveryAttempts
  BY DEF AttemptsCounted
<1>1. CASE a \in attempts
  <2>1. /\ a \in Delivery /\ a.ix \in DOMAIN stream[a.stream]
        /\ a.n <= EntryOf(a).times /\ a.n <= MaxDeliveryAttempts
    BY <1>1 DEF IInv, AttemptsCounted, Base, TypeOK
  <2> QED BY <2>1, StillCounted DEF IInv
<1>2. CASE a \notin attempts
  <2>1. PICK c \in Listeners : Attempts(c)
    BY <1>2, Classified DEF IInv, Keeps, Drops, Dropped, Fetches
  <2>2. a \in batch[c] /\ EntryOf(a).times <= MaxDeliveryAttempts
    BY <1>2, <2>1 DEF Attempts
  <2>3. /\ a \in Delivery /\ a.ix \in DOMAIN stream[a.stream] /\ a.n <= EntryOf(a).times
        /\ a.n \in Nat /\ EntryOf(a).times \in Nat
    BY <2>2, Holds DEF IInv, HeldCounted
  <2> QED BY <2>2, <2>3, StillCounted, AttemptsAssumption DEF IInv
<1> QED BY <1>1, <1>2

LEMMA DistinctStep ==
    ASSUME IInv, [Next]_vars
    PROVE  DeliveriesDistinct'
<1> SUFFICES ASSUME NEW c \in Listeners, NEW d \in batch'[c]
             PROVE  /\ \A b \in Listeners \ {c} : d \notin batch'[b]
                    /\ d \in attempts' => pc'[c] \in {"callback", "ack"} /\ First(c, d)'
  BY DEF DeliveriesDistinct
<1> USE DEF IInv
<1>1. CASE UNCHANGED <<pc, batch, attempts>>
  BY <1>1 DEF DeliveriesDistinct, First
<1>2. ASSUME NEW a \in Listeners,
             \A b \in Listeners \ {a} : pc'[b] = pc[b] /\ batch'[b] = batch[b],
             Keeps(a) \/ Drops(a) \/ Dropped(a) \/ Attempts(a)
      PROVE  /\ \A b \in Listeners \ {c} : d \notin batch'[b]
             /\ d \in attempts' => pc'[c] \in {"callback", "ack"} /\ First(c, d)'
  <2>1. \A b \in Listeners : batch'[b] \subseteq batch[b]
    BY <1>2 DEF Keeps, Drops, Dropped, Attempts
  <2>2. \A b \in Listeners \ {c} : d \notin batch'[b]
    BY <2>1 DEF DeliveriesDistinct
  <2>3. ASSUME d \in attempts, d \in attempts'
        PROVE  pc'[c] \in {"callback", "ack"} /\ First(c, d)'
    <3>1. d \in batch[c] /\ pc[c] \in {"callback", "ack"} /\ First(c, d)
      BY <2>1, <2>3 DEF DeliveriesDistinct
    <3>2. CASE c # a
      BY <1>2, <3>1, <3>2 DEF First
    <3>3. CASE c = a /\ Keeps(a)
      BY <3>1, <3>3 DEF Keeps, First
    <3>4. CASE c = a /\ Drops(a)
      <4>1. PICK e \in batch[c] : First(c, e) /\ batch'[c] = batch[c] \ {e}
        BY <3>4 DEF Drops
      <4>2. e = d
        BY <3>1, <4>1, FirstUnique
      <4> QED BY <4>1, <4>2
    <3>5. CASE c = a /\ (Dropped(a) \/ Attempts(a))
      BY <3>1, <3>5 DEF Dropped, Attempts
    <3> QED BY <1>2, <3>2, <3>3, <3>4, <3>5
  <2>4. ASSUME d \notin attempts, d \in attempts'
        PROVE  pc'[c] \in {"callback", "ack"} /\ First(c, d)'
    <3>1. Attempts(a)
      BY <1>2, <2>4 DEF Keeps, Drops, Dropped
    <3>2. d \in batch[a] /\ First(a, d)
      BY <2>4, <3>1 DEF Attempts
    <3>3. c = a
      BY <2>1, <3>2 DEF DeliveriesDistinct
    <3>4. batch' = batch /\ pc'[a] = "callback"
      BY <2>4, <3>1, <3>3 DEF Attempts
    <3> QED BY <3>2, <3>3, <3>4 DEF First
  <2> QED BY <2>2, <2>3, <2>4
<1>3. ASSUME NEW a \in Listeners, Fetches(a)
      PROVE  /\ \A b \in Listeners \ {c} : d \notin batch'[b]
             /\ d \in attempts' => pc'[c] \in {"callback", "ack"} /\ First(c, d)'
  <2>1. PICK ids : Known(ids) /\ Fetch(a, ids)
    BY <1>3 DEF Fetches
  <2>2. \A b \in Listeners \ {a} : batch'[b] = batch[b] /\ pc'[b] = pc[b]
    BY <2>1, FetchedDeliveries DEF Fetch, Base, TypeOK
  <2>3. ASSUME NEW e \in batch'[a]
        PROVE  e \notin attempts /\ \A b \in Listeners : e \notin batch[b]
    <3>1. /\ e.stream \in ListenStreams /\ e.ix \in DOMAIN stream[e.stream]
          /\ e.n = EntryOf(e).times + 1
      BY <2>1, FetchedDeliveries
    <3>2. EntryOf(e).times \in Nat
      BY <3>1, EntryAt, StreamNumbers DEF Base, EntryOf
    <3>3. ~ (e.n <= EntryOf(e).times)
      BY <3>1, <3>2
    <3> QED BY <3>3 DEF HeldCounted, AttemptsCounted
  <2>4. attempts' = attempts
    BY <1>3 DEF Fetches
  <2>5. CASE c = a
    BY <2>2, <2>3, <2>4, <2>5
  <2>6. CASE c # a
    <3>1. d \in batch[c] /\ d \notin batch'[a]
      BY <2>2, <2>3, <2>6
    <3> QED BY <2>2, <2>4, <2>6, <3>1 DEF DeliveriesDistinct, First
  <2> QED BY <2>5, <2>6
<1> QED BY <1>1, <1>2, <1>3, Classified

LEMMA IInvInit == Init => IInv
BY BaseInit DEF IInv, Init, HeldCounted, AttemptsCounted, DeliveriesDistinct

LEMMA IInvStep == IInv /\ [Next]_vars => IInv'
BY BaseStep, HeldCountedStep, AttemptsCountedStep, DistinctStep DEF IInv

\* The attempts on an entry carry different numbers between 1 and the limit.
LEMMA CountedAttempts ==
    ASSUME IInv, NEW s \in ListenStreams, NEW i \in DOMAIN stream[s]
    PROVE  Cardinality(AttemptsOn(s, i)) <= MaxDeliveryAttempts
<1> DEFINE Ticket(n) == [stream |-> s, ix |-> i, n |-> n]
           Tickets == {Ticket(n) : n \in 1 .. MaxDeliveryAttempts}
<1>1. /\ IsFiniteSet(1 .. MaxDeliveryAttempts)
      /\ Cardinality(1 .. MaxDeliveryAttempts) = MaxDeliveryAttempts
  BY AttemptsAssumption, FS_Interval
<1>2. IsFiniteSet(Tickets) /\ Cardinality(Tickets) <= MaxDeliveryAttempts
  <2> DEFINE f == [n \in 1 .. MaxDeliveryAttempts |-> Ticket(n)]
  <2>1. f \in Surjection(1 .. MaxDeliveryAttempts, Tickets)
    BY DEF Surjection
  <2> HIDE DEF f, Tickets
  <2> QED BY <1>1, <2>1, FS_Surjection
<1>3. AttemptsOn(s, i) \subseteq Tickets
  <2> SUFFICES ASSUME NEW a \in AttemptsOn(s, i)
               PROVE  a \in Tickets
    OBVIOUS
  <2>1. a \in Delivery /\ a.stream = s /\ a.ix = i /\ a.n <= MaxDeliveryAttempts
    BY DEF AttemptsOn, IInv, AttemptsCounted, Base, TypeOK
  <2>2. a.n \in 1 .. MaxDeliveryAttempts /\ a = Ticket(a.n)
    BY <2>1, AttemptsAssumption DEF Delivery
  <2> QED BY <2>2
<1> HIDE DEF Tickets
<1>4. Cardinality(AttemptsOn(s, i)) <= Cardinality(Tickets) /\ IsFiniteSet(AttemptsOn(s, i))
  BY <1>2, <1>3, FS_Subset
<1>5. Cardinality(AttemptsOn(s, i)) \in Nat /\ Cardinality(Tickets) \in Nat
  BY <1>2, <1>4, FS_CardinalityType
<1> QED BY <1>2, <1>4, <1>5, AttemptsAssumption

(***************************************************************************)
(* The loop gets an entry at most HEDWIG_MAX_DELIVERY_ATTEMPTS times, over *)
(* all listeners and their restarts, although the counter is compared to   *)
(* the limit long after the fetch that advanced it.                        *)
(***************************************************************************)
THEOREM AttemptsAreBounded == Spec => []AttemptsBounded
<1>1. IInv => AttemptsBounded
  BY CountedAttempts DEF AttemptsBounded
<1> QED BY <1>1, IInvInit, IInvStep, PTL DEF Spec

(***************************************************************************)
(* No two listeners hold the same delivery and no delivery is attempted    *)
(* twice, however claims, time-outs, crashes and restarts interleave.      *)
(***************************************************************************)
THEOREM DeliveriesAreDistinct == Spec => []DeliveriesDistinct
<1>1. IInv => DeliveriesDistinct
  BY DEF IInv
<1> QED BY <1>1, IInvInit, IInvStep, PTL DEF Spec
=============================================================================

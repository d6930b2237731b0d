------------------------ MODULE RedisRefinementProofs -------------------------
(***************************************************************************)
(* The Redis Streams backend implements the contract of AtLeastOnce, and   *)
(* loses no message, for any instance.                                     *)
(***************************************************************************)
EXTENDS RedisStreamsProofs

-----------------------------------------------------------------------------
\* Messages with an unsettled entry in a sequence of entries.

LiveMsgs(q) == {q[i].msg : i \in {j \in DOMAIN q : q[j].state \in {"new", "pending"}}}

LEMMA UnsettledLive ==
    /\ \A s : Unsettled(s) = LiveMsgs(stream[s]) /\ Unsettled(s)' = LiveMsgs(stream'[s])
BY DEF Unsettled, InState, LiveMsgs

LEMMA LiveAppend ==
    ASSUME NEW q \in Seq(Entry), NEW m \in Messages
    PROVE  LiveMsgs(Append(q, NewEntry(m))) = LiveMsgs(q) \cup {m}
<1> DEFINE r == Append(q, NewEntry(m))
<1>1. /\ DOMAIN q = 1 .. Len(q) /\ Len(q) \in Nat /\ DOMAIN r = 1 .. Len(q) + 1
      /\ \A i \in 1 .. Len(q) : r[i] = q[i]
      /\ r[Len(q) + 1] = NewEntry(m)
  BY NewEntryType, AppendProperties
<1>2. r[Len(q) + 1].msg = m /\ r[Len(q) + 1].state = "new"
  BY <1>1 DEF NewEntry
<1>3. \A i \in DOMAIN r : i \in DOMAIN q \/ i = Len(q) + 1
  BY <1>1
<1>4. \A i \in DOMAIN q : i \in DOMAIN r /\ r[i] = q[i]
  BY <1>1
<1>5. Len(q) + 1 \in DOMAIN r
  BY <1>1
<1> HIDE DEF r
<1>6. LiveMsgs(r) \subseteq LiveMsgs(q) \cup {m}
  BY <1>2, <1>3, <1>4 DEF LiveMsgs
<1>7. LiveMsgs(q) \subseteq LiveMsgs(r)
  BY <1>4 DEF LiveMsgs
<1>8. m \in LiveMsgs(r)
  BY <1>2, <1>5 DEF LiveMsgs
<1>9. LiveMsgs(r) = LiveMsgs(q) \cup {m}
  BY <1>6, <1>7, <1>8
<1> QED BY <1>9 DEF r

\* Entries of q and r differ in what is not their message or its being settled.
LEMMA LiveSame ==
    ASSUME NEW q, NEW r, DOMAIN q = DOMAIN r,
           \A i \in DOMAIN q : /\ r[i].msg = q[i].msg
                               /\ r[i].state \in {"new", "pending"}
                                    <=> q[i].state \in {"new", "pending"}
    PROVE  LiveMsgs(r) = LiveMsgs(q)
BY DEF LiveMsgs

\* Some entries of q are acknowledged in r.
LEMMA LiveAcked ==
    ASSUME NEW q \in Seq(Entry), NEW R, NEW r, DOMAIN q = DOMAIN r,
           \A i \in DOMAIN q : r[i] = IF i \in R THEN Acked(q[i]) ELSE q[i]
    PROVE  /\ LiveMsgs(r) \subseteq LiveMsgs(q)
           /\ \A m \in LiveMsgs(q) \ LiveMsgs(r) : \E i \in R \cap DOMAIN q : q[i].msg = m
<1>1. \A i \in DOMAIN q : q[i] \in Entry
  OBVIOUS
<1>2. \A e \in Entry : /\ Acked(e).msg = e.msg
                       /\ Acked(e).state \in {"new", "pending"} => e.state \in {"new", "pending"}
  BY DEF Acked, Entry
<1> QED BY <1>1, <1>2 DEF LiveMsgs

\* The entries of a are added, all of them new.
LEMMA LiveConcat ==
    ASSUME NEW q \in Seq(Entry), NEW a \in Seq(Entry), \A k \in DOMAIN a : a[k].state = "new"
    PROVE  LiveMsgs(q \o a) = LiveMsgs(q) \cup {a[k].msg : k \in DOMAIN a}
<1> DEFINE r == q \o a
<1>1. /\ Len(q) \in Nat /\ Len(a) \in Nat /\ DOMAIN q = 1 .. Len(q) /\ DOMAIN a = 1 .. Len(a)
      /\ DOMAIN r = 1 .. Len(q) + Len(a)
  OBVIOUS
<1>2. \A i \in DOMAIN q : i \in DOMAIN r /\ r[i] = q[i]
  OBVIOUS
<1>3. \A k \in DOMAIN a : Len(q) + k \in DOMAIN r /\ r[Len(q) + k] = a[k]
  OBVIOUS
<1>4. \A i \in DOMAIN r : i \in DOMAIN q \/ (i - Len(q) \in DOMAIN a /\ r[i] = a[i - Len(q)])
  OBVIOUS
<1> HIDE DEF r
<1>5. LiveMsgs(r) \subseteq LiveMsgs(q) \cup {a[k].msg : k \in DOMAIN a}
  BY <1>2, <1>4 DEF LiveMsgs
<1>6. LiveMsgs(q) \subseteq LiveMsgs(r)
  BY <1>2 DEF LiveMsgs
<1>7. {a[k].msg : k \in DOMAIN a} \subseteq LiveMsgs(r)
  BY <1>3 DEF LiveMsgs
<1>8. LiveMsgs(r) = LiveMsgs(q) \cup {a[k].msg : k \in DOMAIN a}
  BY <1>5, <1>6, <1>7
<1> QED BY <1>8 DEF r

-----------------------------------------------------------------------------
\* What each kind of step does to the messages queued and parked.

LEMMA QueuedDead ==
    /\ Queued = UNION {LiveMsgs(stream[s]) : s \in ListenStreams}
    /\ Queued' = UNION {LiveMsgs(stream'[s]) : s \in ListenStreams}
    /\ Dead = LiveMsgs(stream[Dlq])
    /\ Dead' = LiveMsgs(stream'[Dlq])
BY UnsettledLive DEF Queued, Dead

LEMMA NothingSettled ==
    ASSUME \A s \in Streams : LiveMsgs(stream'[s]) = LiveMsgs(stream[s])
    PROVE  Queued' = Queued /\ Dead' = Dead
BY QueuedDead, StreamNumbers

LEMMA PublishMaps ==
    ASSUME Base, NEW m \in Messages, NEW s \in 1 .. NumSubscriptions, Publish(m, s)
    PROVE  Contract!Publish(m)
<1>1. s \in ListenStreams /\ s \in Streams /\ s # Dlq /\ Dlq \in Streams
  BY StreamNumbers
<1>2. stream \in [Streams -> Seq(Entry)]
  BY DEF Base, TypeOK
<1>3. stream'[s] = Append(stream[s], NewEntry(m))
  BY <1>1, <1>2 DEF Publish
<1>4. \A t \in Streams : t # s => stream'[t] = stream[t]
  BY <1>2 DEF Publish
<1>5. LiveMsgs(stream'[s]) = LiveMsgs(stream[s]) \cup {m}
  BY <1>1, <1>2, <1>3, LiveAppend
<1>6. Dead' = Dead
  BY <1>1, <1>4, QueuedDead
<1>7. Queued' = Queued \cup {m}
  BY <1>1, <1>4, <1>5, QueuedDead, StreamNumbers
<1> QED BY <1>6, <1>7 DEF Contract!Publish, Publish, history

\* The entries a fetch takes are unsettled before and after it.
LEMMA FetchSettlesNothing ==
    ASSUME Base, NEW ids, stream' = Updated(Delivered, ids),
           \A s \in Streams : \A i \in DOMAIN stream[s] :
                <<s, i>> \in ids => stream[s][i].state \in {"new", "pending"}
    PROVE  Queued' = Queued /\ Dead' = Dead
<1> SUFFICES ASSUME NEW s \in Streams
             PROVE  LiveMsgs(stream'[s]) = LiveMsgs(stream[s])
  BY NothingSettled
<1>1. DOMAIN stream'[s] = DOMAIN stream[s]
  BY DEF Updated
<1>2. ASSUME NEW i \in DOMAIN stream[s]
      PROVE  /\ stream'[s][i].msg = stream[s][i].msg
             /\ stream'[s][i].state \in {"new", "pending"}
                    <=> stream[s][i].state \in {"new", "pending"}
  <2>1. stream'[s][i] = IF <<s, i>> \in ids THEN Delivered(stream[s][i]) ELSE stream[s][i]
    BY DEF Updated
  <2>2. stream[s][i] \in Entry
    BY EntryAt DEF Base
  <2> QED BY <2>1, <2>2, EntryUpdates
<1> QED BY <1>1, <1>2, LiveSame

\* Replacing one entry by one that is settled or not as before.
LEMMA ReplacingSettlesNothing ==
    ASSUME Base, NEW s \in Streams, NEW i \in DOMAIN stream[s], NEW e,
           stream' = [stream EXCEPT ![s][i] = e],
           e.msg = stream[s][i].msg, e.state = stream[s][i].state
    PROVE  Queued' = Queued /\ Dead' = Dead
<1> SUFFICES ASSUME NEW t \in Streams
             PROVE  LiveMsgs(stream'[t]) = LiveMsgs(stream[t])
  BY NothingSettled
<1>1. stream'[t] = IF t = s THEN [stream[s] EXCEPT ![i] = e] ELSE stream[t]
  BY DEF Base, TypeOK
<1>2. stream[s] \in Seq(Entry)
  BY DEF Base, TypeOK
<1>3. CASE t = s
  BY <1>1, <1>2, <1>3, LiveSame
<1>4. CASE t # s
  BY <1>1, <1>4
<1> QED BY <1>3, <1>4

\* Acknowledging one entry of a stream: its message may leave that stream.
LEMMA AckedStream ==
    ASSUME Base, NEW s \in Streams, NEW i \in DOMAIN stream[s]
    PROVE  /\ LiveMsgs([stream[s] EXCEPT ![i] = Acked(stream[s][i])]) \subseteq LiveMsgs(stream[s])
           /\ LiveMsgs(stream[s]) \ {stream[s][i].msg}
                \subseteq LiveMsgs([stream[s] EXCEPT ![i] = Acked(stream[s][i])])
<1> DEFINE r == [stream[s] EXCEPT ![i] = Acked(stream[s][i])]
<1>1. stream[s] \in Seq(Entry)
  BY DEF Base, TypeOK
<1>2. /\ DOMAIN stream[s] = DOMAIN r
      /\ \A j \in DOMAIN stream[s] : r[j] = IF j \in {i} THEN Acked(stream[s][j]) ELSE stream[s][j]
  BY <1>1
<1> HIDE DEF r
<1>3. /\ LiveMsgs(r) \subseteq LiveMsgs(stream[s])
      /\ \A m \in LiveMsgs(stream[s]) \ LiveMsgs(r) :
            \E j \in {i} \cap DOMAIN stream[s] : stream[s][j].msg = m
  BY <1>1, <1>2, LiveAcked
<1> QED BY <1>3 DEF r

LEMMA AckMaps ==
    ASSUME Base, NEW c \in Listeners, AckMessage(c),
           \A d \in batch[c] : First(c, d) => EntryOf(d).msg \in handled
    PROVE  \E m \in Messages : Contract!Settle(m)
<1>1. PICK d \in batch[c] : First(c, d) /\ stream' = [stream EXCEPT ![d.stream][d.ix] = Acked(@)]
  BY DEF AckMessage
<1> DEFINE m == EntryOf(d).msg
<1>2. /\ d.stream \in ListenStreams /\ d.stream \in Streams /\ d.stream # Dlq
      /\ d.ix \in DOMAIN stream[d.stream] /\ m \in Messages /\ m \in handled
  BY <1>1, Holds
<1>3. \A t \in Streams : t # d.stream => stream'[t] = stream[t]
  BY <1>1 DEF Base, TypeOK
<1>4. stream'[d.stream] = [stream[d.stream] EXCEPT ![d.ix] = Acked(stream[d.stream][d.ix])]
  BY <1>1, <1>2 DEF Base, TypeOK
<1>5. /\ LiveMsgs(stream'[d.stream]) \subseteq LiveMsgs(stream[d.stream])
      /\ LiveMsgs(stream[d.stream]) \ {m} \subseteq LiveMsgs(stream'[d.stream])
  BY <1>2, <1>4, AckedStream DEF EntryOf
<1>6. Dead' = Dead
  BY <1>2, <1>3, QueuedDead, StreamNumbers
<1>7. Queued' \subseteq Queued /\ Queued \ {m} \subseteq Queued'
  BY <1>2, <1>3, <1>5, QueuedDead, StreamNumbers
<1>8. Queued' \in {Queued, Queued \ {m}}
  BY <1>7
<1>9. UNCHANGED <<published, handled>>
  BY DEF AckMessage, history
<1> QED BY <1>2, <1>6, <1>8, <1>9 DEF Contract!Settle

LEMMA MoveMaps ==
    ASSUME Base, NEW c \in Listeners, MoveToDlq(c),
           \A s \in Streams : \A i \in DOMAIN stream[s] : stream[s][i].msg \in published
    PROVE  \E m \in Messages : Contract!DeadLetter(m)
<1>1. PICK d \in batch[c] :
        stream' = [stream EXCEPT
                     ![d.stream][d.ix] = Acked(@),
                     ![Dlq] = Append(@, NewEntry(EntryOf(d).msg))]
  BY DEF MoveToDlq
<1> DEFINE m == EntryOf(d).msg
<1>2. /\ d.stream \in ListenStreams /\ d.stream \in Streams /\ d.stream # Dlq
      /\ d.ix \in DOMAIN stream[d.stream] /\ m \in Messages
  BY Holds
<1>3. \A t \in Streams : t # d.stream /\ t # Dlq => stream'[t] = stream[t]
  BY <1>1 DEF Base, TypeOK
<1>4. /\ stream'[d.stream] = [stream[d.stream] EXCEPT ![d.ix] = Acked(stream[d.stream][d.ix])]
      /\ stream'[Dlq] = Append(stream[Dlq], NewEntry(m))
  BY <1>1, <1>2, StreamNumbers DEF Base, TypeOK
<1>5. /\ LiveMsgs(stream'[d.stream]) \subseteq LiveMsgs(stream[d.stream])
      /\ LiveMsgs(stream[d.stream]) \ {m} \subseteq LiveMsgs(stream'[d.stream])
  BY <1>2, <1>4, AckedStream DEF EntryOf
<1>6. Dead' = Dead \cup {m}
  <2>1. stream[Dlq] \in Seq(Entry)
    BY StreamNumbers DEF Base, TypeOK
  <2> QED BY <1>2, <1>4, <2>1, LiveAppend, QueuedDead
<1>7. Queued' \subseteq Queued /\ Queued \ {m} \subseteq Queued'
  BY <1>2, <1>3, <1>5, QueuedDead, StreamNumbers
<1>8. Queued' \in {Queued, Queued \ {m}}
  BY <1>7
<1>9. UNCHANGED <<published, handled>>
  BY DEF MoveToDlq, history
<1>10. m \in published
  BY <1>2 DEF EntryOf
<1> QED BY <1>2, <1>6, <1>8, <1>9, <1>10 DEF Contract!DeadLetter

\* An ascending enumeration of a finite set reaches all of it.
LEMMA InOrderReachesAll ==
    ASSUME NEW S, IsFiniteSet(S), S \subseteq Nat, NEW q \in InOrder(S)
    PROVE  \A x \in S : \E k \in DOMAIN q : q[k] = x
<1> DEFINE n == Cardinality(S)
<1>1. n \in Nat
  BY FS_CardinalityType
<1>2. IsFiniteSet(1 .. n) /\ Cardinality(1 .. n) = n
  BY <1>1, FS_Interval
<1>3. q \in [1 .. n -> S] /\ \A i, j \in 1 .. n : i < j => q[i] < q[j]
  BY DEF InOrder
<1>4. ASSUME NEW i \in 1 .. n, NEW j \in 1 .. n, i # j
      PROVE  q[i] # q[j]
  <2>1. q[i] \in Nat /\ q[j] \in Nat
    BY <1>3
  <2>2. i < j \/ j < i
    BY <1>1, <1>4
  <2> QED BY <1>3, <2>1, <2>2
<1>5. q \in Injection(1 .. n, S)
  BY <1>3, <1>4 DEF Injection, IsInjective
<1> HIDE DEF n
<1>6. q \in Surjection(1 .. n, S)
  BY <1>2, <1>5, FS_Injection DEF n
<1> QED BY <1>6 DEF Surjection

LEMMA RequeueMaps ==
    ASSUME Base, NEW r \in Requeuers, RequeueMessages(r),
           \A s \in Streams : \A i \in DOMAIN stream[s] : stream[s][i].msg \in published
    PROVE  \E S \in SUBSET Messages : Contract!Requeue(S)
<1>1. PICK q \in InOrder(rbatch[r]) :
        stream' = [stream EXCEPT
            ![Main] = @ \o [k \in DOMAIN q |-> NewEntry(stream[Dlq][q[k]].msg)],
            ![Dlq] = [i \in DOMAIN @ |-> IF i \in rbatch[r] THEN Acked(@[i]) ELSE @[i]]]
  BY DEF RequeueMessages
<1> DEFINE a == [k \in DOMAIN q |-> NewEntry(stream[Dlq][q[k]].msg)]
           b == [i \in DOMAIN stream[Dlq] |->
                    IF i \in rbatch[r] THEN Acked(stream[Dlq][i]) ELSE stream[Dlq][i]]
           S == {stream[Dlq][i].msg : i \in rbatch[r]}
<1>2. /\ stream[Dlq] \in Seq(Entry) /\ stream[Main] \in Seq(Entry)
      /\ rbatch[r] \subseteq DOMAIN stream[Dlq]
      /\ IsFiniteSet(rbatch[r]) /\ rbatch[r] \subseteq Nat
  BY StreamNumbers, RbatchFinite DEF Base, TypeOK, DlqLocated
<1>3. /\ q \in [1 .. Cardinality(rbatch[r]) -> rbatch[r]] /\ Cardinality(rbatch[r]) \in Nat
      /\ \A i \in rbatch[r] : \E k \in DOMAIN q : q[k] = i
  BY <1>2, InOrderReachesAll, FS_CardinalityType DEF InOrder
<1>4. /\ DOMAIN a = DOMAIN q /\ a \in Seq(Entry)
      /\ \A k \in DOMAIN a : a[k].state = "new" /\ a[k].msg = stream[Dlq][q[k]].msg
  <2>1. \A k \in DOMAIN q : NewEntry(stream[Dlq][q[k]].msg) \in Entry
    BY <1>2, <1>3, EntryAt, NewEntryType, StreamNumbers DEF Base
  <2> QED BY <1>3, <2>1 DEF NewEntry
<1>5. {a[k].msg : k \in DOMAIN a} = S
  BY <1>3, <1>4
<1>6. S \subseteq published /\ S \subseteq Messages
  BY <1>2, StreamNumbers DEF Base, TypeOK
<1>7. /\ DOMAIN stream[Dlq] = DOMAIN b
      /\ \A i \in DOMAIN stream[Dlq] :
            b[i] = IF i \in rbatch[r] THEN Acked(stream[Dlq][i]) ELSE stream[Dlq][i]
  OBVIOUS
<1>8. /\ stream'[Main] = stream[Main] \o a /\ stream'[Dlq] = b
      /\ \A s \in Streams : s # Main /\ s # Dlq => stream'[s] = stream[s]
  BY <1>1, StreamNumbers DEF Base, TypeOK
<1> HIDE DEF a, b
<1>9. LiveMsgs(stream'[Main]) = LiveMsgs(stream[Main]) \cup S
  BY <1>2, <1>4, <1>5, <1>8, LiveConcat
<1>10. /\ LiveMsgs(b) \subseteq LiveMsgs(stream[Dlq])
       /\ \A m \in LiveMsgs(stream[Dlq]) \ LiveMsgs(b) :
            \E i \in rbatch[r] \cap DOMAIN stream[Dlq] : stream[Dlq][i].msg = m
  <2> DEFINE p == stream[Dlq]
             R == rbatch[r]
  <2>1. /\ p \in Seq(Entry) /\ DOMAIN p = DOMAIN b
        /\ \A i \in DOMAIN p : b[i] = IF i \in R THEN Acked(p[i]) ELSE p[i]
    BY <1>2, <1>7
  <2> HIDE DEF p, R
  <2>2. /\ LiveMsgs(b) \subseteq LiveMsgs(p)
        /\ \A m \in LiveMsgs(p) \ LiveMsgs(b) : \E i \in R \cap DOMAIN p : p[i].msg = m
    BY <2>1, LiveAcked
  <2> QED BY <2>2 DEF p, R
<1>11. LiveMsgs(stream[Dlq]) \ LiveMsgs(b) \subseteq S
  BY <1>10
<1> HIDE DEF S
<1>12. Dead' \subseteq Dead /\ Dead \ Dead' \subseteq S
  BY <1>8, <1>10, <1>11, QueuedDead
<1>13. Dead' = Dead \ (Dead \ Dead')
  BY <1>12
<1>14. Queued' = Queued \cup S
  BY <1>8, <1>9, QueuedDead, StreamNumbers
<1>15. UNCHANGED <<published, handled>>
  BY DEF RequeueMessages, history
<1> QED BY <1>6, <1>12, <1>13, <1>14, <1>15 DEF Contract!Requeue

-----------------------------------------------------------------------------
\* What the mapping of steps needs: every entry carries a published message, and
\* what a listener is about to acknowledge has been handled.
EntriesPublished ==
    \A s \in Streams : \A i \in DOMAIN stream[s] : stream[s][i].msg \in published

AckHandled ==
    \A c \in Listeners : \A d \in batch[c] :
        pc[c] = "ack" /\ First(c, d) => EntryOf(d).msg \in handled

RInv == Base /\ EntriesPublished /\ AckHandled

\* An entry that was not there carries a message some entry had, or a new one.
LEMMA AddedEntries ==
    ASSUME RInv, [Next]_vars
    PROVE  /\ published \subseteq published'
           /\ \A s \in Streams : \A i \in DOMAIN stream'[s] :
                i \in DOMAIN stream[s] \/ stream'[s][i].msg \in published'
<1> DEFINE Same == published' = published /\ \A s \in Streams : DOMAIN stream'[s] = DOMAIN stream[s]
           Goal == /\ published \subseteq published'
                   /\ \A s \in Streams : \A i \in DOMAIN stream'[s] :
                        i \in DOMAIN stream[s] \/ stream'[s][i].msg \in published'
<1> USE DEF RInv
<1>1. ASSUME UNCHANGED <<stream, published>>
      PROVE  Same
  BY <1>1
<1>2. ASSUME NEW m \in Messages, NEW s \in 1 .. NumSubscriptions, Publish(m, s)
      PROVE  Goal
  <2>1. stream[s] \in Seq(Entry) /\ NewEntry(m) \in Entry /\ s \in Streams
    BY StreamNumbers, NewEntryType DEF Base, TypeOK
  <2>2. stream'[s] = Append(stream[s], NewEntry(m))
           /\ \A t \in Streams : t # s => stream'[t] = stream[t]
    BY <1>2, <2>1 DEF Publish, Base, TypeOK
  <2>3. \A i \in DOMAIN stream'[s] : i \in DOMAIN stream[s] \/ stream'[s][i] = NewEntry(m)
    BY <2>1, <2>2
  <2>4. published' = published \cup {m} /\ NewEntry(m).msg = m
    BY <1>2 DEF Publish, NewEntry
  <2> QED BY <2>2, <2>3, <2>4
<1>3. ASSUME NEW s, NEW i, VisibilityTimeout(s, i)
      PROVE  Same
  BY <1>3 DEF VisibilityTimeout, Base, TypeOK
<1>4. ASSUME NEW ids, stream' = Updated(Delivered, ids), UNCHANGED published
      PROVE  Same
  BY <1>4 DEF Updated
<1>5. ASSUME NEW s, NEW i, NEW e, stream' = [stream EXCEPT ![s][i] = e], UNCHANGED published
      PROVE  Same
  BY <1>5 DEF Base, TypeOK
<1>6. ASSUME NEW c \in Listeners, MoveToDlq(c)
      PROVE  Goal
  <2>1. PICK d \in batch[c] :
        stream' = [stream EXCEPT
                     ![d.stream][d.ix] = Acked(@),
                     ![Dlq] = Append(@, NewEntry(EntryOf(d).msg))]
    BY <1>6 DEF MoveToDlq
  <2>2. /\ d.stream \in Streams /\ d.stream # Dlq /\ d.ix \in DOMAIN stream[d.stream]
        /\ stream[Dlq] \in Seq(Entry) /\ NewEntry(EntryOf(d).msg) \in Entry
        /\ EntryOf(d).msg \in published
    BY Holds, NewEntryType, StreamNumbers DEF Base, TypeOK, EntriesPublished, EntryOf
  <2>3. /\ stream'[Dlq] = Append(stream[Dlq], NewEntry(EntryOf(d).msg))
        /\ \A s \in Streams : s # Dlq => DOMAIN stream'[s] = DOMAIN stream[s]
    BY <2>1, <2>2, StreamNumbers DEF Base, TypeOK
  <2>4. \A i \in DOMAIN stream'[Dlq] :
            i \in DOMAIN stream[Dlq] \/ stream'[Dlq][i] = NewEntry(EntryOf(d).msg)
    BY <2>2, <2>3
  <2>5. published' = published /\ NewEntry(EntryOf(d).msg).msg = EntryOf(d).msg
    BY <1>6 DEF MoveToDlq, NewEntry
  <2> QED BY <2>2, <2>3, <2>4, <2>5
<1>7. ASSUME NEW r \in Requeuers, RequeueMessages(r)
      PROVE  Goal
  <2>1. PICK q \in InOrder(rbatch[r]) :
        stream' = [stream EXCEPT
            ![Main] = @ \o [k \in DOMAIN q |-> NewEntry(stream[Dlq][q[k]].msg)],
            ![Dlq] = [i \in DOMAIN @ |-> IF i \in rbatch[r] THEN Acked(@[i]) ELSE @[i]]]
    BY <1>7 DEF RequeueMessages
  <2> DEFINE a == [k \in DOMAIN q |-> NewEntry(stream[Dlq][q[k]].msg)]
  <2>2. /\ stream[Main] \in Seq(Entry) /\ rbatch[r] \subseteq DOMAIN stream[Dlq]
        /\ q \in [1 .. Cardinality(rbatch[r]) -> rbatch[r]] /\ Cardinality(rbatch[r]) \in Nat
    BY StreamNumbers, RbatchFinite, FS_CardinalityType DEF Base, TypeOK, DlqLocated, InOrder
  <2>3. \A k \in DOMAIN q : /\ a[k] \in Entry
                            /\ a[k].msg \in published
    <3>1. \A k \in DOMAIN q : q[k] \in DOMAIN stream[Dlq]
      BY <2>2
    <3>2. \A k \in DOMAIN q : stream[Dlq][q[k]].msg \in Messages \cap published
      BY <3>1, EntryAt, StreamNumbers DEF Base, EntriesPublished
    <3>3. \A k \in DOMAIN q : a[k].msg = stream[Dlq][q[k]].msg /\ a[k] = NewEntry(stream[Dlq][q[k]].msg)
      BY DEF NewEntry
    <3> QED BY <3>2, <3>3, NewEntryType
  <2>4. a \in Seq(Entry)
    BY <2>2, <2>3
  <2>5. /\ stream'[Main] = stream[Main] \o a
        /\ \A s \in Streams : s # Main => DOMAIN stream'[s] = DOMAIN stream[s]
    BY <2>1, StreamNumbers DEF Base, TypeOK
  <2>6. DOMAIN a = DOMAIN q
    OBVIOUS
  <2> HIDE DEF a
  <2>7. \A i \in DOMAIN stream'[Main] :
            i \in DOMAIN stream[Main]
              \/ (i - Len(stream[Main]) \in DOMAIN a
                    /\ stream'[Main][i] = a[i - Len(stream[Main])])
    BY <2>2, <2>4, <2>5
  <2>8. published' = published
    BY <1>7 DEF RequeueMessages
  <2> QED BY <2>3, <2>5, <2>6, <2>7, <2>8
<1>8. Same => Goal
  OBVIOUS
<1> HIDE DEF Same, Goal
<1>9. ASSUME NEW c \in Listeners, ListenerStep(c)
      PROVE  Goal
  BY <1>1, <1>4, <1>5, <1>6, <1>8, <1>9
     DEF ListenerStep, CheckShutdown, ClaimTimedOut, ReadNew, Fetch, BatchDone, EntryGone,
         CountTooHigh, StartCallback, PreProcessHookRaises, Yielded, CallbackReturns,
         CallbackRaises, PostProcessHookRaises, AckMessage, AckRaises
<1>10. ASSUME NEW c \in Listeners,
              SetShutdown(c) \/ ExtendVisibilityTimeout(c) \/ Crash(c) \/ Restart(c)
       PROVE  Goal
  BY <1>1, <1>5, <1>8, <1>10 DEF SetShutdown, ExtendVisibilityTimeout, Crash, Restart
<1>11. ASSUME NEW r \in Requeuers, RequeuerStep(r) \/ StartRequeue(r) \/ RequeuerCrash(r)
       PROVE  Goal
  BY <1>1, <1>4, <1>7, <1>8, <1>11
     DEF RequeuerStep, RequeueClaim, RequeueRead, RequeueFetch, StartRequeue, RequeuerCrash
<1>12. Goal
  BY <1>1, <1>2, <1>3, <1>8, <1>9, <1>10, <1>11 DEF Next, Timeout, vars
<1> QED BY <1>12 DEF Goal

\* A listener comes to the acknowledgement only by its callback's return.
LEMMA AckStep ==
    ASSUME Base, [Next]_vars, NEW c \in Listeners, pc'[c] = "ack"
    PROVE  /\ handled \subseteq handled'
           /\ (pc[c] = "ack" /\ batch'[c] = batch[c]) \/ CallbackReturns(c)
<1> DEFINE Goal == /\ handled \subseteq handled'
                   /\ (pc[c] = "ack" /\ batch'[c] = batch[c]) \/ CallbackReturns(c)
<1> USE DEF Base, TypeOK, listenerVars, requeuerVars, history
<1>1. ASSUME UNCHANGED <<pc, batch, handled>>
      PROVE  Goal
  BY <1>1
<1>2. ASSUME NEW a \in Listeners, ListenerStep(a)
      PROVE  Goal
  <2>1. ASSUME CallbackReturns(a)
        PROVE  Goal
    BY <2>1 DEF CallbackReturns
  <2>2. ASSUME NEW k \in {"idle", "pull", "fetch", "bury", "callback", "stopped", "dead"},
               pc' = [pc EXCEPT ![a] = k], handled' = handled,
               \A b \in Listeners \ {a} : batch'[b] = batch[b]
        PROVE  Goal
    BY <2>2
  <2>3. ASSUME NEW d, Finish(a, d), handled' = handled
        PROVE  Goal
    BY <2>3 DEF Finish
  <2>4. ASSUME NEW ids, Fetch(a, ids)
        PROVE  Goal
    BY <2>4 DEF Fetch
  <2>5. CASE CheckShutdown(a)
    BY <2>5, <2>2 DEF CheckShutdown
  <2>6. CASE BatchDone(a)
    BY <2>6, <2>2 DEF BatchDone
  <2>7. CASE EntryGone(a)
    BY <2>7, <2>2 DEF EntryGone, Dies
  <2>8. CASE CountTooHigh(a)
    BY <2>8, <2>2 DEF CountTooHigh
  <2>9. CASE StartCallback(a)
    BY <2>9, <2>2 DEF StartCallback, Yielded
  <2> HIDE DEF Goal
  <2> QED BY <1>2, <2>1, <2>3, <2>4, <2>5, <2>6, <2>7, <2>8, <2>9
          DEF ListenerStep, ClaimTimedOut, ReadNew, MoveToDlq, PreProcessHookRaises, Yielded,
              CallbackRaises, PostProcessHookRaises, AckMessage, AckRaises
<1>3. ASSUME NEW a \in Listeners, Crash(a) \/ Restart(a)
      PROVE  Goal
  BY <1>3 DEF Crash, Dies, Restart
<1>4. ASSUME NEW a \in Listeners, SetShutdown(a) \/ ExtendVisibilityTimeout(a)
      PROVE  UNCHANGED <<pc, batch, handled>>
  BY <1>4 DEF SetShutdown, ExtendVisibilityTimeout
<1>5. ASSUME NEW r \in Requeuers, RequeuerStep(r) \/ StartRequeue(r) \/ RequeuerCrash(r)
      PROVE  UNCHANGED <<pc, batch, handled>>
  BY <1>5 DEF RequeuerStep, RequeueClaim, RequeueRead, RequeueFetch, RequeueMessages,
              StartRequeue, RequeuerCrash
<1>6. ASSUME NEW m, NEW s, Publish(m, s) \/ VisibilityTimeout(m, s)
      PROVE  UNCHANGED <<pc, batch, handled>>
  BY <1>6 DEF Publish, VisibilityTimeout
<1> HIDE DEF Goal
<1>7. Goal
  BY <1>1, <1>2, <1>3, <1>4, <1>5, <1>6 DEF Next, Timeout, vars
<1> QED BY <1>7 DEF Goal

LEMMA RInvInit == Init => RInv
<1>1. Init => EntriesPublished
  BY DEF Init, EntriesPublished
<1>2. Init => AckHandled
  BY DEF Init, AckHandled
<1> QED BY <1>1, <1>2, BaseInit DEF RInv

LEMMA RInvStep ==
    ASSUME RInv, [Next]_vars
    PROVE  RInv'
<1> USE DEF RInv
<1>1. Base'
  BY BaseStep
<1>2. EntriesPublished'
  <2> SUFFICES ASSUME NEW s \in Streams, NEW i \in DOMAIN stream'[s]
               PROVE  stream'[s][i].msg \in published'
    BY DEF EntriesPublished
  <2>1. CASE i \in DOMAIN stream[s]
    BY <2>1, Kept, AddedEntries DEF EntriesPublished
  <2>2. CASE i \notin DOMAIN stream[s]
    BY <2>2, AddedEntries
  <2> QED BY <2>1, <2>2
<1>3. AckHandled'
  <2> SUFFICES ASSUME NEW c \in Listeners, NEW d \in batch'[c], pc'[c] = "ack", First(c, d)'
               PROVE  EntryOf(d)'.msg \in handled'
    BY DEF AckHandled
  <2>1. /\ handled \subseteq handled'
        /\ (pc[c] = "ack" /\ batch'[c] = batch[c]) \/ CallbackReturns(c)
    BY AckStep
  <2>2. batch'[c] = batch[c]
    BY <2>1 DEF CallbackReturns
  <2>3. d \in batch[c] /\ First(c, d)
    BY <2>2 DEF First
  <2>4. EntryOf(d)'.msg = EntryOf(d).msg
    BY <2>3, Holds, Kept DEF EntryOf
  <2>5. CASE pc[c] = "ack"
    BY <2>1, <2>3, <2>4, <2>5 DEF AckHandled
  <2>6. CASE CallbackReturns(c)
    <3>1. PICK e \in batch[c] : First(c, e) /\ handled' = handled \cup {EntryOf(e).msg}
      BY <2>6 DEF CallbackReturns
    <3>2. d = e
      BY <2>3, <3>1, FirstUnique
    <3> QED BY <2>4, <3>1, <3>2
  <2> QED BY <2>1, <2>5, <2>6
<1> QED BY <1>1, <1>2, <1>3

-----------------------------------------------------------------------------
\* Every step is a step of the contract, or changes nothing it can see.

Unseen == UNCHANGED Contract!vars

LEMMA LocalStep ==
    ASSUME UNCHANGED <<stream, published, handled>>
    PROVE  Unseen
BY QueuedDead DEF Unseen, Contract!vars

LEMMA QuietStep ==
    ASSUME UNCHANGED <<published, handled>>, Queued' = Queued, Dead' = Dead
    PROVE  Unseen
BY DEF Unseen, Contract!vars

LEMMA FetchMaps ==
    ASSUME Base, NEW c \in Listeners, ClaimTimedOut(c) \/ ReadNew(c)
    PROVE  Unseen
<1>1. PICK ids : /\ Fetch(c, ids)
                 /\ \A s \in Streams : \A i \in DOMAIN stream[s] :
                      <<s, i>> \in ids => stream[s][i].state \in {"new", "pending"}
  <2>1. CASE ClaimTimedOut(c)
    <3> DEFINE ids == {at[c]} \X Oldest(Expired(at[c]), NumMessages)
    <3>1. Fetch(c, ids)
      BY <2>1 DEF ClaimTimedOut
    <3>2. \A s \in Streams : \A i \in DOMAIN stream[s] :
            <<s, i>> \in ids => stream[s][i].state \in {"new", "pending"}
      BY DEF Oldest, Expired, InState
    <3> QED BY <3>1, <3>2
  <2>2. CASE ReadNew(c)
    <3> DEFINE ids == UNION {{s} \X Oldest(InState(s, "new"), NumMessages) : s \in ListenStreams}
    <3>1. Fetch(c, ids)
      BY <2>2 DEF ReadNew
    <3>2. \A s \in Streams : \A i \in DOMAIN stream[s] :
            <<s, i>> \in ids => stream[s][i].state \in {"new", "pending"}
      <4> SUFFICES ASSUME NEW s \in Streams, NEW i \in DOMAIN stream[s], <<s, i>> \in ids
                   PROVE  stream[s][i].state \in {"new", "pending"}
        OBVIOUS
      <4>1. PICK t \in ListenStreams : <<s, i>> \in {t} \X Oldest(InState(t, "new"), NumMessages)
        OBVIOUS
      <4>2. t = s /\ i \in Oldest(InState(t, "new"), NumMessages)
        BY <4>1
      <4> QED BY <4>2 DEF Oldest, InState
    <3> QED BY <3>1, <3>2
  <2> QED BY <2>1, <2>2
<1>2. stream' = Updated(Delivered, ids) /\ UNCHANGED <<published, handled>>
  BY <1>1 DEF Fetch, history
<1> QED BY <1>1, <1>2, FetchSettlesNothing, QuietStep

LEMMA RequeueFetchMaps ==
    ASSUME Base, NEW r \in Requeuers, RequeueClaim(r) \/ RequeueRead(r)
    PROVE  Unseen
<1>1. PICK st \in {"new", "pending"} :
        stream' = Updated(Delivered, {Dlq} \X Oldest(InState(Dlq, st), NumMessages))
  BY DEF RequeueClaim, RequeueRead, RequeueFetch
<1>2. \A s \in Streams : \A i \in DOMAIN stream[s] :
        <<s, i>> \in {Dlq} \X Oldest(InState(Dlq, st), NumMessages)
            => stream[s][i].state \in {"new", "pending"}
  BY DEF Oldest, InState
<1>3. UNCHANGED <<published, handled>>
  BY DEF RequeueClaim, RequeueRead, RequeueFetch, history
<1> QED BY <1>1, <1>2, <1>3, FetchSettlesNothing, QuietStep

LEMMA TouchMaps ==
    ASSUME Base, NEW c \in Listeners, ExtendVisibilityTimeout(c)
    PROVE  Unseen
<1>1. PICK d \in batch[c] : stream' = [stream EXCEPT ![d.stream][d.ix] = Touched(@)]
  BY DEF ExtendVisibilityTimeout
<1>2. stream' = [stream EXCEPT ![d.stream][d.ix] = Touched(EntryOf(d))]
  BY <1>1, Holds DEF EntryOf
<1>3. Touched(EntryOf(d)).msg = EntryOf(d).msg /\ Touched(EntryOf(d)).state = EntryOf(d).state
  BY Holds, EntryUpdates
<1>4. Queued' = Queued /\ Dead' = Dead
  BY <1>2, <1>3, Holds, ReplacingSettlesNothing DEF EntryOf
<1> QED BY <1>4, QuietStep DEF ExtendVisibilityTimeout, history

LEMMA TimeoutMaps ==
    ASSUME Base, NEW s \in ListenStreams, NEW i \in DOMAIN stream[s], VisibilityTimeout(s, i)
    PROVE  Unseen
<1> DEFINE e == [stream[s][i] EXCEPT !.expired = TRUE]
<1>1. s \in Streams /\ stream[s][i] \in Entry
  BY EntryAt, StreamNumbers DEF Base
<1>2. stream' = [stream EXCEPT ![s][i] = e]
  BY <1>1 DEF VisibilityTimeout, Base, TypeOK
<1>3. e.msg = stream[s][i].msg /\ e.state = stream[s][i].state
  BY <1>1 DEF Entry
<1> HIDE DEF e
<1>4. Queued' = Queued /\ Dead' = Dead
  BY <1>1, <1>2, <1>3, ReplacingSettlesNothing
<1> QED BY <1>4, QuietStep DEF VisibilityTimeout, history

LEMMA ReturnMaps ==
    ASSUME RInv, NEW c \in Listeners, CallbackReturns(c)
    PROVE  \E m \in Messages : Contract!Handle(m)
<1>1. PICK d \in batch[c] : handled' = handled \cup {EntryOf(d).msg}
  BY DEF CallbackReturns
<1>2. EntryOf(d).msg \in Messages /\ EntryOf(d).msg \in published
  BY Holds DEF RInv, EntriesPublished, EntryOf
<1>3. UNCHANGED <<stream, published>>
  BY DEF CallbackReturns
<1>4. Queued' = Queued /\ Dead' = Dead
  BY <1>3, QueuedDead
<1> QED BY <1>1, <1>2, <1>3, <1>4 DEF Contract!Handle

LEMMA StepMaps ==
    ASSUME RInv, [Next]_vars
    PROVE  Contract!Next \/ Unseen
<1> USE DEF RInv
<1>1. ASSUME NEW m \in Messages, NEW s \in 1 .. NumSubscriptions, Publish(m, s)
      PROVE  Contract!Next
  BY <1>1, PublishMaps DEF Contract!Next
<1>2. ASSUME NEW c \in Listeners, ListenerStep(c)
      PROVE  Contract!Next \/ Unseen
  <2>1. CASE ClaimTimedOut(c) \/ ReadNew(c)
    BY <2>1, FetchMaps
  <2>2. CASE MoveToDlq(c)
    BY <2>2, MoveMaps DEF Contract!Next, EntriesPublished
  <2>3. CASE CallbackReturns(c)
    BY <2>3, ReturnMaps DEF Contract!Next
  <2>4. CASE AckMessage(c)
    <3>1. \A d \in batch[c] : First(c, d) => EntryOf(d).msg \in handled
      BY <2>4 DEF AckMessage, AckHandled
    <3> QED BY <2>4, <3>1, AckMaps DEF Contract!Next
  <2>5. CASE CheckShutdown(c) \/ BatchDone(c) \/ EntryGone(c) \/ CountTooHigh(c)
               \/ StartCallback(c) \/ PreProcessHookRaises(c) \/ CallbackRaises(c)
               \/ PostProcessHookRaises(c) \/ AckRaises(c)
    BY <2>5, LocalStep
       DEF CheckShutdown, BatchDone, EntryGone, CountTooHigh, StartCallback,
           PreProcessHookRaises, Yielded, CallbackRaises, PostProcessHookRaises, AckRaises, history
  <2> QED BY <1>2, <2>1, <2>2, <2>3, <2>4, <2>5 DEF ListenerStep
<1>3. ASSUME NEW c \in Listeners, SetShutdown(c) \/ Crash(c) \/ Restart(c)
      PROVE  Unseen
  BY <1>3, LocalStep DEF SetShutdown, Crash, Restart, history
<1>4. ASSUME NEW r \in Requeuers, RequeueMessages(r)
      PROVE  Contract!Next
  BY <1>4, RequeueMaps DEF Contract!Next, EntriesPublished
<1>5. ASSUME NEW r \in Requeuers, StartRequeue(r) \/ RequeuerCrash(r)
      PROVE  Unseen
  BY <1>5, LocalStep DEF StartRequeue, RequeuerCrash, history
<1>6. CASE UNCHANGED vars
  BY <1>6, LocalStep DEF vars, history
<1> QED BY <1>1, <1>2, <1>3, <1>4, <1>5, <1>6, TouchMaps, TimeoutMaps, RequeueFetchMaps
        DEF Next, Timeout, RequeuerStep

LEMMA InitMaps == Init => Contract!Init
<1> SUFFICES ASSUME Init PROVE Contract!Init
  OBVIOUS
<1>1. \A s \in Streams : LiveMsgs(stream[s]) = {}
  BY DEF Init, LiveMsgs
<1>2. Queued = {} /\ Dead = {}
  BY <1>1, QueuedDead, StreamNumbers
<1> QED BY <1>2 DEF Init, Contract!Init

(***************************************************************************)
(* The backend implements the contract: nothing is acknowledged that was   *)
(* not handled or copied, nothing is parked or re-queued that was not      *)
(* published, through all time-outs, crashes and concurrent requeuers.     *)
(***************************************************************************)
THEOREM RedisImplementsAtLeastOnce == Spec => ImplementsAtLeastOnce
<1>1. RInv /\ [Next]_vars => [Contract!Next]_(Contract!vars)
  BY StepMaps DEF Unseen
<1>2. RInv /\ [Next]_vars => RInv'
  BY RInvStep
<1> QED BY <1>1, <1>2, InitMaps, RInvInit, PTL DEF Spec, ImplementsAtLeastOnce, Contract!Spec

\* The contract's own invariant, over the mapped variables.
LEMMA ContractKeepsMessages ==
    Contract!NoLoss /\ [Contract!Next]_(Contract!vars) => Contract!NoLoss'
BY DEF Contract!NoLoss, Contract!Next, Contract!vars, Contract!Publish, Contract!Handle,
       Contract!Settle, Contract!DeadLetter, Contract!Requeue, Contract!Discard

(***************************************************************************)
(* No published message is lost: it has been handled, or an entry that is  *)
(* not acknowledged holds it, on a stream listened to or on the            *)
(* dead-letter stream.                                                     *)
(***************************************************************************)
THEOREM NoMessageIsLost == Spec => []NoMessageLost
<1>1. Contract!Init => Contract!NoLoss
  BY DEF Contract!Init, Contract!NoLoss
<1>2. Contract!NoLoss => NoMessageLost
  BY DEF Contract!NoLoss, NoMessageLost
<1> QED BY <1>1, <1>2, ContractKeepsMessages, RedisImplementsAtLeastOnce, PTL
        DEF ImplementsAtLeastOnce, Contract!Spec
=============================================================================

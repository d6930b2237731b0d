----------------------- MODULE ConsumerHeartbeatProofs ------------------------
(***************************************************************************)
(* Proofs about the error counter of a listener, for every batch size,     *)
(* interval, inactivity period and bound.                                  *)
(***************************************************************************)
EXTENDS ConsumerHeartbeat, TLAPS

LEMMA InitTypeOK == Init => TypeOK
<1> SUFFICES ASSUME Init PROVE TypeOK
  OBVIOUS
<1>1. shutdown \in BOOLEAN /\ slow \in BOOLEAN
  BY DEF Init
<1>2. /\ pc \in {"check", "poll", "next", "callback", "stopped"}
      /\ backend \in Backends
      /\ waiting \in 0 .. MaxWaiting /\ batch \in 0 .. NumMessages
      /\ errorCount \in Nat /\ streak \in 0 .. MaxErrors /\ unbroken \in Nat
  BY FetchAssumption, BoundsAssumption DEF Init
<1>3. /\ sinceMessage \in 0 .. InactivityReset + 1
      /\ sinceHeartbeat \in 0 .. HeartbeatInterval + 1 /\ hookCalls \in {0, 1}
  BY PeriodsAssumption DEF Init
<1> QED BY <1>1, <1>2, <1>3 DEF TypeOK

LEMMA LaterType ==
    ASSUME NEW limit \in Nat, NEW distance \in 0 .. limit + 1
    PROVE  Later(distance, limit) \in 0 .. limit + 1
BY DEF Later

LEMMA HookType ==
    ASSUME TypeOK, NEW force \in BOOLEAN, CallHeartbeatHook(force)
    PROVE  sinceHeartbeat' \in 0 .. HeartbeatInterval + 1 /\ hookCalls' \in {0, 1}
<1>1. sinceHeartbeat' \in {0, sinceHeartbeat} /\ hookCalls' \in {hookCalls, 1 - hookCalls}
  BY DEF CallHeartbeatHook, heartbeatVars
<1> QED BY <1>1, PeriodsAssumption DEF TypeOK

\* How the two dates and the hook's counter change keeps their types.
LEMMA TimesStep ==
    ASSUME TypeOK, [Next]_vars
    PROVE  /\ sinceMessage' \in 0 .. InactivityReset + 1
           /\ sinceHeartbeat' \in 0 .. HeartbeatInterval + 1
           /\ hookCalls' \in {0, 1}
<1>1. CASE Tick
  BY <1>1, LaterType, PeriodsAssumption DEF Tick, TypeOK
<1>2. CASE CheckShutdown \/ ReadFromRedis \/ TakeFromWorkQueue \/ Arrive \/ SetShutdown
  BY <1>2 DEF CheckShutdown, ReadFromRedis, TakeFromWorkQueue, Arrive, SetShutdown,
              heartbeatVars, TypeOK
<1>3. CASE ReceiveFromSqs \/ WorkQueueEmpty
  BY <1>3, HookType DEF ReceiveFromSqs, WorkQueueEmpty, TypeOK
<1>4. CASE EndOfPull
  <2>1. CallHeartbeatHook(FALSE) \/ UNCHANGED heartbeatVars
    BY <1>4 DEF EndOfPull
  <2> QED BY <1>4, <2>1, HookType DEF EndOfPull, heartbeatVars, TypeOK
<1>5. CASE NextMessage
  BY <1>5, PeriodsAssumption DEF NextMessage, heartbeatVars, TypeOK
<1>6. CASE CallbackReturns \/ CallbackDefers \/ CallbackRaises
  BY <1>6, HookType
  DEF CallbackReturns, CallbackDefers, CallbackRaises, AfterCallback, TypeOK
<1>7. CASE ExtendVisibilityTimeout
  BY <1>7, HookType DEF ExtendVisibilityTimeout, TypeOK
<1>8. CASE UNCHANGED vars
  BY <1>8 DEF vars, heartbeatVars, TypeOK
<1> QED BY <1>1, <1>2, <1>3, <1>4, <1>5, <1>6, <1>7, <1>8 DEF Next, ListenerStep

\* What the counter and its two bounds can become.
LEMMA ErrorsStep ==
    ASSUME TypeOK, [Next]_vars
    PROVE  /\ errorCount' \in Nat /\ streak' \in 0 .. MaxErrors /\ unbroken' \in Nat
           /\ \/ errorCount' = errorCount + 1 /\ streak' = streak + 1
                 /\ unbroken' = unbroken + 1
              \/ errorCount' = 0 /\ unbroken' = 0 /\ streak' \in {0, streak}
              \/ errorCount' = 0 /\ ResetDue /\ backend # "pubsub"
                 /\ unbroken' \in {0, unbroken} /\ streak' = streak
              \/ errorCount' = errorCount /\ streak' = streak
                 /\ unbroken' \in {0, unbroken}
<1>1. CASE Tick
  BY <1>1 DEF Tick, TypeOK
<1>2. CASE CheckShutdown \/ TakeFromWorkQueue \/ Arrive \/ SetShutdown \/ NextMessage
           \/ ExtendVisibilityTimeout
  BY <1>2 DEF CheckShutdown, TakeFromWorkQueue, Arrive, SetShutdown, NextMessage,
              ExtendVisibilityTimeout, errorVars, TypeOK
<1>3. CASE ReceiveFromSqs
  <2>1. streak' = streak /\ unbroken' \in {0, unbroken} /\ backend # "pubsub"
    BY <1>3 DEF ReceiveFromSqs, Fetch
  <2>2. errorCount' = errorCount \/ (errorCount' = 0 /\ ResetDue)
    BY <1>3 DEF ReceiveFromSqs, PerformErrorCounterInactivityReset
  <2> QED BY <2>1, <2>2 DEF TypeOK
<1>8. CASE WorkQueueEmpty
  <2>1. streak' = streak /\ unbroken' = 0
    BY <1>8 DEF WorkQueueEmpty
  <2>2. errorCount' = errorCount \/ errorCount' = 0
    BY <1>8 DEF WorkQueueEmpty, PerformErrorCounterInactivityReset
  <2> QED BY <2>1, <2>2 DEF TypeOK
<1>4. CASE ReadFromRedis
  BY <1>4 DEF ReadFromRedis, Fetch, TypeOK
<1>5. CASE EndOfPull
  <2>1. streak' = streak /\ unbroken' = unbroken
    BY <1>5 DEF EndOfPull
  <2>2. errorCount' = errorCount \/ (errorCount' = 0 /\ ResetDue /\ backend # "pubsub")
    BY <1>5 DEF EndOfPull, PerformErrorCounterInactivityReset
  <2> QED BY <2>1, <2>2 DEF TypeOK
<1>6. CASE CallbackReturns \/ CallbackDefers \/ CallbackRaises
  BY <1>6, BoundsAssumption
  DEF CallbackReturns, CallbackDefers, CallbackRaises, errorVars, TypeOK
<1>7. CASE UNCHANGED vars
  BY <1>7 DEF vars, errorVars, TypeOK
<1> QED BY <1>1, <1>2, <1>3, <1>4, <1>5, <1>6, <1>7, <1>8 DEF Next, ListenerStep

LEMMA ControlStep ==
    ASSUME TypeOK, [Next]_vars
    PROVE  /\ pc' \in {"check", "poll", "next", "callback", "stopped"}
           /\ waiting' \in 0 .. MaxWaiting
           /\ batch' \in 0 .. NumMessages
           /\ shutdown' \in BOOLEAN
           /\ backend' = backend
           /\ slow' \in BOOLEAN
<1>5. backend' = backend
  BY DEF Next, ListenerStep, Tick, Arrive, SetShutdown, CheckShutdown, ReceiveFromSqs,
         ReadFromRedis, TakeFromWorkQueue, WorkQueueEmpty, EndOfPull, NextMessage,
         CallbackReturns, CallbackDefers, CallbackRaises, AfterCallback,
         ExtendVisibilityTimeout, vars, configVars
<1>6. slow' \in BOOLEAN
  <2>1. Tick \/ slow' = slow
    BY DEF Next, ListenerStep, Arrive, SetShutdown, CheckShutdown, ReceiveFromSqs,
           ReadFromRedis, TakeFromWorkQueue, WorkQueueEmpty, EndOfPull, NextMessage,
           CallbackReturns, CallbackDefers, CallbackRaises, AfterCallback,
           ExtendVisibilityTimeout, vars, configVars
  <2>2. Tick => slow' \in BOOLEAN
    BY Zenon DEF Tick, Overdue, TypeOK
  <2> QED BY <2>1, <2>2, Zenon DEF TypeOK
<1>1. shutdown' \in {shutdown, TRUE}
  BY DEF Next, ListenerStep, Tick, Arrive, SetShutdown, CheckShutdown, ReceiveFromSqs,
         ReadFromRedis, TakeFromWorkQueue, WorkQueueEmpty, EndOfPull, NextMessage,
         CallbackReturns, CallbackDefers, CallbackRaises, AfterCallback,
         ExtendVisibilityTimeout, vars
<1>2. shutdown' \in BOOLEAN
  BY <1>1, Zenon DEF TypeOK
<1>3. pc' \in {pc, "check", "poll", "next", "callback", "stopped"}
  BY DEF Next, ListenerStep, Tick, Arrive, SetShutdown, CheckShutdown, ReceiveFromSqs,
         ReadFromRedis, TakeFromWorkQueue, WorkQueueEmpty, EndOfPull, NextMessage,
         CallbackReturns, CallbackDefers, CallbackRaises, AfterCallback,
         ExtendVisibilityTimeout, vars
<1>4. waiting' \in 0 .. MaxWaiting /\ batch' \in 0 .. NumMessages
  <2>1. CASE Arrive
    BY <2>1, BoundsAssumption DEF Arrive, TypeOK
  <2>2. CASE ReceiveFromSqs \/ ReadFromRedis
    <3>1. Fetch
      BY <2>2 DEF ReceiveFromSqs, ReadFromRedis
    <3> QED BY <3>1, BoundsAssumption, FetchAssumption DEF Fetch, TypeOK
  <2>3. CASE TakeFromWorkQueue
    BY <2>3, BoundsAssumption, FetchAssumption DEF TakeFromWorkQueue, TypeOK
  <2>4. CASE NextMessage
    BY <2>4, FetchAssumption DEF NextMessage, TypeOK
  <2>5. CASE UNCHANGED queueVars
    BY <2>5 DEF queueVars, TypeOK
  <2>6. CASE UNCHANGED vars
    BY <2>6 DEF vars, queueVars, TypeOK
  <2> QED
    BY <2>1, <2>2, <2>3, <2>4, <2>5, <2>6
    DEF Next, ListenerStep, Tick, SetShutdown, CheckShutdown, WorkQueueEmpty, EndOfPull,
        CallbackReturns, CallbackDefers, CallbackRaises, AfterCallback,
        ExtendVisibilityTimeout
<1> QED BY <1>2, <1>3, <1>4, <1>5, <1>6 DEF TypeOK

LEMMA TypeOKStep == TypeOK /\ [Next]_vars => TypeOK'
BY TimesStep, ErrorsStep, ControlStep DEF TypeOK

(***************************************************************************)
(* Every variable keeps its type; the elapsed times stay saturated and the *)
(* bounds on the queue and on exceptions hold.                             *)
(***************************************************************************)
THEOREM HeartbeatTypeCorrect == Spec => []TypeOK
BY InitTypeOK, TypeOKStep, PTL DEF Spec

-----------------------------------------------------------------------------
\* Outside Pub/Sub, unless messages were slow: while a callback runs or an error
\* is not forgotten, a message was received recently, so the reset is not due.
RecentlyBusy ==
    /\ backend # "pubsub" /\ ~slow /\ InactivityReset > 0
    /\ unbroken > 0 \/ pc = "callback"
    => sinceMessage <= InactivityReset

IInv == TypeOK /\ ErrorCountTruthful /\ RecentlyBusy

LEMMA IInvInit == Init => IInv
BY InitTypeOK DEF IInv, Init, ErrorCountTruthful, RecentlyBusy

LEMMA SlowStaysSlow ==
    ASSUME [Next]_vars, slow
    PROVE  slow'
<1>1. CASE Tick
  BY <1>1 DEF Tick
<1>2. CASE ~Tick
  BY <1>2
  DEF Next, ListenerStep, Arrive, SetShutdown, CheckShutdown, ReceiveFromSqs,
      ReadFromRedis, TakeFromWorkQueue, WorkQueueEmpty, EndOfPull, NextMessage,
      CallbackReturns, CallbackDefers, CallbackRaises, AfterCallback,
      ExtendVisibilityTimeout, vars, configVars
<1> QED BY <1>1, <1>2

LEMMA RecentlyBusyStep ==
    ASSUME IInv, [Next]_vars
    PROVE  RecentlyBusy'
<1> SUFFICES ASSUME backend' # "pubsub", ~slow', InactivityReset > 0,
                    unbroken' > 0 \/ pc' = "callback"
             PROVE  sinceMessage' <= InactivityReset
  BY DEF RecentlyBusy
<1>0. backend # "pubsub" /\ ~slow
  BY ControlStep, SlowStaysSlow DEF IInv
<1>1. CASE Tick
  <2>1. pc # "poll" /\ (unbroken > 0 \/ pc = "callback")
    BY <1>1 DEF Tick
  <2>2. sinceMessage # InactivityReset
    BY <1>1, <2>1 DEF Tick, Overdue
  <2>3. sinceMessage <= InactivityReset
    BY <1>0, <2>1 DEF IInv, RecentlyBusy
  <2> QED BY <1>1, <2>2, <2>3, PeriodsAssumption DEF Tick, Later, IInv, TypeOK
<1>2. CASE NextMessage
  BY <1>2, PeriodsAssumption DEF NextMessage
<1>3. CASE CallbackReturns \/ CallbackDefers \/ CallbackRaises
  <2>1. sinceMessage' = sinceMessage /\ pc = "callback"
    BY <1>3 DEF CallbackReturns, CallbackDefers, CallbackRaises, AfterCallback
  <2> QED BY <1>0, <2>1 DEF IInv, RecentlyBusy
<1>4. CASE ~Tick /\ ~NextMessage /\ ~(CallbackReturns \/ CallbackDefers \/ CallbackRaises)
  <2>1. sinceMessage' = sinceMessage /\ (pc' = "callback" => pc = "callback")
    BY <1>4
    DEF Next, ListenerStep, Arrive, SetShutdown, CheckShutdown, ReceiveFromSqs,
        ReadFromRedis, TakeFromWorkQueue, WorkQueueEmpty, EndOfPull,
        ExtendVisibilityTimeout, vars
  <2>2. unbroken' > 0 => unbroken > 0
    <3>1. unbroken' \in {0, unbroken}
      BY <1>4
      DEF Next, ListenerStep, Arrive, SetShutdown, CheckShutdown, ReceiveFromSqs, Fetch,
          ReadFromRedis, TakeFromWorkQueue, WorkQueueEmpty, EndOfPull,
          ExtendVisibilityTimeout, vars, errorVars
    <3> QED BY <3>1
  <2> QED BY <1>0, <2>1, <2>2 DEF IInv, RecentlyBusy
<1> QED BY <1>1, <1>2, <1>3, <1>4

\* The counter follows its two bounds; the reset can only drop it to zero when
\* the lower one is zero too, or does not hold any more.
LEMMA ErrorCountStep ==
    ASSUME IInv, [Next]_vars
    PROVE  ErrorCountTruthful'
<1>1. /\ unbroken \in Nat /\ errorCount \in Nat /\ streak \in Nat
      /\ errorCount <= streak
  BY BoundsAssumption DEF IInv, TypeOK, ErrorCountTruthful
<1>2. errorCount' <= streak'
  BY <1>1, ErrorsStep DEF IInv
<1>3. ASSUME ~slow' \/ backend' = "pubsub"
      PROVE  unbroken' <= errorCount'
  <2>1. ~slow \/ backend = "pubsub"
    BY <1>3, SlowStaysSlow, ControlStep DEF IInv
  <2>2. unbroken <= errorCount
    BY <2>1 DEF IInv, ErrorCountTruthful
  <2>3. ResetDue /\ backend # "pubsub" => unbroken = 0
    <3> SUFFICES ASSUME ResetDue, backend # "pubsub", unbroken # 0 PROVE FALSE
      OBVIOUS
    <3>1. sinceMessage <= InactivityReset
      BY <1>1, <2>1 DEF ResetDue, IInv, RecentlyBusy
    <3> QED BY <3>1, PeriodsAssumption DEF ResetDue, IInv, TypeOK
  <2> QED BY <1>1, <2>2, <2>3, ErrorsStep DEF IInv
<1> QED BY <1>2, <1>3 DEF ErrorCountTruthful

(***************************************************************************)
(* The error counter is truthful in every reachable state, for every       *)
(* backend, batch size and period.  What it says of messages slower than   *)
(* the inactivity period is all there is to say: the run heartbeat_forgets *)
(* refutes more.                                                           *)
(***************************************************************************)
THEOREM ErrorCountIsTruthful == Spec => []ErrorCountTruthful
<1>1. IInv /\ [Next]_vars => IInv'
  BY TypeOKStep, RecentlyBusyStep, ErrorCountStep DEF IInv
<1>2. IInv => ErrorCountTruthful
  BY DEF IInv
<1> QED BY <1>1, <1>2, IInvInit, PTL DEF Spec
=============================================================================

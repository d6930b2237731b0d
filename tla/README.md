# A TLA+ model of hedwig-python

Hedwig lets the services of a system exchange messages: an application publishes
with `Message.publish()`, another registers a callback for a message type and
runs `listen_for_messages()`. Behind that stand three interchangeable brokers
(SNS/SQS, Redis Streams, Google Pub/Sub), a dead-letter queue and an operator's
command that puts parked messages back. What the application is promised is
short: once published, a message reaches its callback, or is parked where an
operator can find it; it may be handled more than once; whoever runs the
listener is told about errors by a heartbeat hook.

The project models the part of Hedwig on which that promise depends: the consumer
loop, the three backends underneath it, the error counter, and what a message
goes through on its way from one service to another. Paths below are
relative to `src/`; `base.py`, `redis.py`, `aws.py` and `gcp.py` are
`src/hedwig/backends/*.py`.

## 1. Inventory

| Component | Code | State | Operations | Talks to |
|---|---|---|---|---|
| Consumer loop | `base.py:93-310` | `_error_count`, `_last_message_received_at`, `_heartbeat_called_at` | `fetch_and_process_messages`, `message_handler`, the hooks, `requeue_dead_letter` | its backend's `pull_messages`, `process_message`, `ack_message`, `nack_message`; application hooks and callbacks; the `shutdown_event` of the caller's thread |
| Publisher front end | `base.py:28-90`, `publisher.py` | none | `publish` | the backend's `_publish`; in `HEDWIG_SYNC` mode the callback directly |
| Redis Streams backend | `redis.py` | stream names, a consumer id per process; the rest is in Redis | publish, pull (claim, read), count attempts, dead-letter, extend, ack, requeue | Redis: XADD, XREADGROUP, XAUTOCLAIM, XPENDING, XCLAIM, XACK |
| SNS/SQS backend | `aws.py:1-274` | queue handles | publish with retries, receive, extend, delete, requeue in batches | SNS, SQS |
| Lambda consumer | `aws.py:277-313` | none | `process_messages` | nothing |
| Google Pub/Sub backend | `gcp.py` | work queue, streaming pull futures | publish, schedule, pull, ack, nack, extend, requeue | Pub/Sub, through the client library's threads |
| Messages and wire format | `models.py`, `validators/*` | the validator, made at first use; schema caches | serialize, deserialize, validate | called by the publisher and by `message_handler` |
| Callbacks | `callback.py` | an `lru_cache` of look-ups | `find_by_message` | `message_handler` |
| Settings, lazily made backends | `conf/__init__.py`, `backends/utils.py`, `backends/import_utils.py` | cached attributes, `lru_cache`, `os.environ` | attribute access, `get_*_backend`, `override_env` | everybody |
| Entry points | `commands.py`, `consumer.py` | none | `listen_for_messages`, `requeue_dead_letter`, `process_messages_for_lambda_consumer` | a consumer backend |
| Instrumentation | `instrumentation/*` | none | `on_publish`, `on_receive`, `on_message` | publisher and consumer loop, when installed |
| Exceptions, helpers, testing, generated protobuf | rest of `hedwig/` | none that the loop reads | - | - |

What makes the behaviour hard:

* **Several listeners of one queue.** Requests to the broker interleave; a
  message can be in the memory of one listener while its visibility timeout has
  passed and another one handles and acknowledges it.
* **Lazy generators.** `pull_messages` is a generator: between two of its lines
  the loop runs a callback. The delivery counter of Redis is read when the
  message comes up (`redis.py:173-175`), not when it was fetched.
* **Threads.** With Pub/Sub, messages reach the work queue from threads of the
  client library, which do not stop at once when the main thread cancels them.
* **Failure anywhere.** Callbacks, hooks, requests and processes fail; a request
  may have had its effect although it raised. What is inside a `try` of the loop
  is logged, what is outside ends the listener.
* **Two requests for one thing.** Requeuing with SQS and Pub/Sub is a publish
  and a delete; batch requests fail one entry at a time.
* **Services deployed apart.** Publisher and consumer may know other schemas and
  have other routes, callbacks and settings than each other, and than when a
  message was sent.
* **Things made at first use.** Settings, the validator and callbacks are cached
  one by one, when a message first needs them; `clear_cache` must forget all.
* **Time.** Visibility timeouts, retries, heartbeat intervals and an inactivity
  period all run against callbacks of unknown length.

What makes each component correct:

* *contract of all backends*: no message is lost; an acknowledgement follows the
  callback; only what is queued again leaves the DLQ (`AtLeastOnce`);
* *Redis*: the attempt limit holds over all listeners; each delivery belongs to
  one of them; requeuing puts each
  entry back, once for every requeuer that held it, and leaves none; every message settles; a listener told to stop does;
* *SQS*: the same contract through publish retries, stale receipt handles and
  partly failed batches; every message settles; requeuing is complete and
  ends;
* *Pub/Sub*: the same through asynchronous cancellation and dropped
  acknowledgements; the drain at shutdown ends;
* *messages*: what arrives is what was sent, with its trace; what one service lets
  pass the others accept; firehose files and stored containers can be read;
  nothing of earlier settings survives;
* *error counter*: it neither overstates nor forgets; the heartbeat goes on.

## 2. Modules

```
AtLeastOnce              what a backend promises
  ^ implemented by
  RedisStreams           MCRedisStreams  RedisStreamsProofs <- RedisRefinementProofs
                                                            <- RedisOrderlyProofs
  SqsQueue   \                           SqsQueueProofs \
  PubSub     /                           PubSubProofs   /
    EXTEND LeasingQueue                    EXTEND LeasingQueueProofs
ConsumerHeartbeat        ConsumerHeartbeatProofs
Wire                     MCWire          WireProofs
```

**`AtLeastOnce`** is the contract of `HedwigPublisherBaseBackend` and
`HedwigConsumerBaseBackend`, over four sets of messages: `published`, `queued`
(an unsettled copy is where listeners look), `dead` (one is on the DLQ) and
`handled`. Copies are not counted. `Settle` needs `m \in handled`; `Requeue` may
take from the DLQ only what it puts on the queue in the same step, `Discard` only
what is queued or handled already.

**`RedisStreams`**. A stream is the sequence of its entries with, for each, the
consumer group's view: new, pending or acknowledged, the delivery counter, and
whether its idle time has passed the visibility timeout. One Redis command or
`MULTI` pipeline is one atomic step. A listener stands at `pc` (loop head,
before a fetch, in the batch, between XPENDING and the dead-letter transaction,
in the callback, before XACK); `at` is the stream whose XAUTOCLAIM is next, or
the XREADGROUP of all of them; `batch` is what the fetch returned and the
generator has not finished with.

| Action | Code |
|---|---|
| `CheckShutdown` | `while not shutdown_event.is_set()` `base.py:152` |
| `ClaimTimedOut`, `ReadNew`, `BatchDone` | the generator `redis.py:188-221` |
| `EntryGone`, `CountTooHigh`, `MoveToDlq`, `StartCallback`, `PreProcessHookRaises` | `_process_raw_messages`, `redis.py:168-186`, and the loop body up to `process_message`, `base.py:157-175` |
| `CallbackReturns`, `CallbackRaises` | `process_message` and the except clauses `base.py:174-193` |
| `PostProcessHookRaises`, `AckMessage`, `AckRaises` | `base.py:195-217`, `redis.py:237-238` |
| `ExtendVisibilityTimeout` | XCLAIM JUSTID `redis.py:97-107` |
| `StartRequeue`, `RequeueClaim`, `RequeueRead`, `RequeueMessages` | `redis.py:109-166` |
| `Crash`, `RequeuerCrash`, `Restart`, `VisibilityTimeout` | the environment |

`Crash` is also a request that raises outside the `try` blocks, which ends the
listener in the same way. The post-process hook is local and is one program
point with the acknowledgement. redis-py's own retries and a loss of data in
Redis (crash, trimming by `MAXLEN`) are not modelled.

**`LeasingQueue`** holds operators for a broker that leases: a copy is hidden
when delivered, and visible again when its lease passes or it is given back; a
delivery's handle is the number of the delivery, so one that is not the latest
is recognisable. Deleting with such a handle may or may not take effect.

**`SqsQueue`** adds the publisher with its retries (`aws.py:80-87`; a request
that fails may have stored the message, so copies arise), the receive
(`PullMessages`), one message at a time (`NextMessage` to `AckMessage`), the
redrive policy, and `requeue_dead_letter` with its batch send, `PartialFailure`,
and a batch delete whose result nobody reads (`aws.py:220-263`). `Dies` is the
exception of `message_attributes` outside the loop's `try` blocks. SNS delivers
to one queue here: fan-out and its delay are part of publishing.

**`PubSub`** has two threads per listener: the streaming pulls (`Schedule`,
which puts leased messages on the work queue, and `StreamsEnd`), and the main
thread, which takes from the queue (`TakeMessage`), and on shutdown cancels the
futures, drains the queue and ends (`CancelFutures`, `Drained`;
`gcp.py:240-294`). `streaming = "cancelled"` is a pull that was told to end and
has not; it still delivers. An acknowledgement or a nack is only a request to
the library: after the pull has been cancelled or the deadline has passed it may
go nowhere (`AckDropped`, `Acknowledged`). `extend_visibility_timeout` of SQS and
Pub/Sub moves the end of a lease, which is nondeterministic already; its other
effect, a forced heartbeat, is in `ConsumerHeartbeat`.

**`ConsumerHeartbeat`** keeps the two distances the code computes,
`now - _last_message_received_at` and `now - _heartbeat_called_at`, saturated
above their limits, and the error counter, for any of the three backends
(`backend` is chosen at the start). Each calls the inactivity reset and the hook
somewhere else: SQS after the receive and before its messages are handled
(`ReceiveFromSqs`), Redis at the end of a pull (`EndOfPull`), Pub/Sub on an empty
work queue (`WorkQueueEmpty`). `streak` and `unbroken` are history: what an ideal
counter would show at most and at least.

**`Wire`** is the way of a message from `Message.publish` to its callback. The
`settings` of a service are those that decide about a message: the schema (the last
minor version of each type and major version), `HEDWIG_MESSAGE_ROUTING`,
`HEDWIG_CALLBACKS` and `HEDWIG_USE_TRANSPORT_MESSAGE_ATTRIBUTES`. `cache` is what
the process has made of them at first use: the attributes of the settings object
(`conf/__init__.py:177-201`), the validator (`models.py:16`) and the callbacks
(`callback.py:52`). `Use` fills it, and only if `CheckSchema` lets the validator
be made: as long as it raises, every message fails and the next one tries again.
`Deploy` changes the settings at any time, between a publish and its delivery as
well: a restart, or `clear_cache`, after which nothing is cached. It checks
nothing, as the code does not until a message comes. The settings object is
assumed not to be changed behind a cache that is not cleared. One variable stands for
the several caches: they are filled one by one as a message gets on, but each from the
same settings, and `Deploy` empties them together, so which of them are filled makes
no difference to what comes out. The validators are
operators on settings and payloads with attributes, the same for the three of
them but for the form of the payload:

| Operator or action | Code |
|---|---|
| `SchemasFound`, `CheckSchema`, `Loaded`, `Use`, `Deploy` | `protobuf.py:218-273`, `jsonschema.py:234-280`; `conf/__init__.py:177-230`, `models.py:16` |
| `Serialize`, `Deserialize` | `validators/base.py:99-143, 199-221` |
| `VerifyKnownMinorVersion`, `DecodeData`, `EncodePayload`, `Extractable` | `jsonschema.py:114-227`, `protobuf.py:84-193` |
| `ToBroker`, `FromBroker` | `_publish` and `process_message` of the backends: base64 for SNS and Redis, UTF-8 for Pub/Sub, marked by `hedwig_encoding` |
| `Published`, `Publish` | the route, `base.py:16-24`; default and tracing headers, `base.py:61-87` |
| `ContextOf`, `ReceiveDies` | `message_attributes`, called at `base.py:158` (`aws.py:273-274`), and `base.py:118-126`, `instrumentation/__init__.py:13-24` |
| `FindByMessage`, `Handled`, `Receipts`, `Receive` | `callback.py:52`, `base.py:136-142, 156-177, 273-284` |
| `Mocked`, `HandledSync`, `DispatchSync` | `base.py:26-33` with the backends' `_mock_queue_message` |
| `FirehoseLine`, `FirehoseExtractable`, `SerializeFirehose`, `DeserializeFirehose`, `WriteFirehose` | `protobuf.py:123-147, 195-216`, `validators/base.py:154-181, 231-249` |
| `SerializeContainerized`, `DeserializeContainerized`, `StoreContainer` | `validators/base.py:145-152, 223-229`, `models.py:194-200` |

What raises an exception is the empty set there, a result the set of it. Where it is
raised matters: what `Handled` raises is logged by the loop, which goes on (`Receive`);
what `ContextOf` raises is outside the `try` blocks and ends the listener
(`ReceiveDies`). The contents of a message are abstracted to whether they fit the
schema of its type and major version. This assumes that minor changes are non-breaking
(`docs/usage.rst`), and that all services use one validator, one broker and one
schema root. A topic is not modelled beyond there being a route to it: every
service may be given every message, and refuses what it has no callback for.

A name that ends in a mutation (`ClaimUncounted`, `RequeuePartialFailureIgnored`, ...)
and is commented "Mutant" is a plausible bug in the operator below it. No
specification uses it; putting it in the place of that operator breaks the
property it was written for, which shows that the property depends on the code.

## 3. What is checked

Bounds are named in the `.cfg` files. All runs finish; the longest takes two
and a half minutes with two workers.

| Run | Question | Bounds |
|---|---|---|
| `redis_races` | Does Redis keep the contract, the attempt limit and distinct deliveries under races, time-outs, a shutdown and requeuing? Does every message settle, does every stopped listener end? | 1 message, 2 listeners, 1 requeuer, 2 attempts |
| `redis_orderly` | When messages are done within the visibility timeout: does a callback never run twice at once, do all attempts come before the DLQ, is requeuing complete and exactly-once though the operator's process crashes and is run again? Is anything lost? | 2 messages in a batch, 2 listeners, 1 requeuer, 2 requeue runs, 1 crash, 1 attempt |
| `sqs_faults` | Does SQS keep the contract through retried publishes, a failure and a requeue? Is a message that is done in time done once? Does every stored message settle? | 1 message, 2 copies, 2 listeners, 2 receives, 1 failure of any kind, 1 stop |
| `sqs_batches` | With two messages received, parked and re-queued together or apart, batch requests that fail for one entry, and a message that ends each listener given it: is anything lost, has a run that returns put back both, does every run end? | 2 messages, 4 copies, 1 listener, 1 receive, 1 failure |
| `pubsub_faults` | With two messages on the dead-letter subscription, pulled together or apart, expired leases and a failed request: does Pub/Sub keep the contract, does a failure for one message leave the other put back, does the run end? | 2 messages, 3 copies, 1 listener, 1 delivery, 1 failure |
| `pubsub_liveness` | Do messages settle, and is nothing lost, though a stopped listener abandons its work queue and leases expire? Is a copy handled once while they are kept? Does the drain end though pulls go on delivering? | 1 message, 2 copies, 2 listeners, 2 deliveries, 1 requeuer, 1 stop |
| `heartbeat` | Is the error counter truthful, does the heartbeat go on, for each backend? | intervals of 2 ticks, 2 messages waiting, 3 errors in a row |
| `wire` | Do messages arrive as sent, with their trace, is what was published accepted unless it has no attributes for SQS, can firehose lines and containers be read, does anything of earlier settings survive, between services of any settings? | 2 services, 1 message, 1 type with 2 major and 2 minor versions each; settings of 6 kinds with either transport setting; 1 deployment; 3 validators with 3 brokers |

Why these bounds are enough for the interesting cases: every race here is
between two holders of one message, so two listeners and one message already
have it; the second message is there where batches matter (order inside a batch,
a counter read late, a batch request that fails in part). Attempt and receive
limits of 2, in `redis_races`, `sqs_faults` and `pubsub_liveness`, separate "first",
"repeated" and "exhausted"; the other backend runs have a limit of 1, so that messages get
to the dead-letter queue within states that can be searched: their questions are
about what happens there. `sqs_batches` has copies enough for both messages to be put back
in one run; `pubsub_faults` has one for either of the two, the other being what failed:
with four copies it has more than 8.6 million states. Two operators at once are in no
run of this list, as they multiply the states beyond what five minutes allow: that
`RequeuedOnce`, `RequeueComplete`, `NoMessageLost` and the contract hold for any number of
them is proved (section 4). The properties of `redis_orderly` do hold with TLC for one message,
two listeners, two requeuers, two runs and a crash (1.05 million states). Two ticks separate
"before", "at" and "after" a period. One crash can hit every program point, and
the states after it include all restarts. `redis_races` has none, as fairness
over crashes multiplies its states: that crashes cost no message and no attempt
too many when messages outlive their timeout is proved (section 4). One message
is enough in `wire` because messages do not influence each other, and a message
meets the settings of its publisher and of one consumer; the services start with
any two settings, and one deployment more is what it takes for something of
earlier ones to be left. The six kinds are a schema that is older, newer, with or
without the second major version, routes and callbacks for part of it, and for
what it does not have, which `CheckSchema` refuses. Nothing that a process itself counts
is bounded but by its own limit; `MaxMoved` and `MaxCopies` bound how often the
operator moves messages back. `RequeueEnds`, for SQS and Pub/Sub, makes an exception of
runs that the bound stops: what it says is that a run ends which has only finitely much
to move, though what it could not delete comes back to it. Were callbacks to fail as fast
as it moves, it would not, and neither could the model. For Redis, where an entry moved
does not come back, that would say too little and is not stated; `RequeuedOnce` says that a
requeuer moves no entry twice.

Assumed in `redis_orderly` and named there: `Timely`, messages do not outlive
their timeout in the hands of a live listener. For SQS and Pub/Sub the same
condition is a history variable, `late`, so that `NoRework` is a conditional
statement about the full behaviour.

Symmetry (over messages, listeners and requeuers) is used only in `redis_orderly`, which
has no liveness property.

### Fairness

* Listeners, streaming pulls and the main thread of Pub/Sub (`ListenFairness`), requeuers
  once a run of theirs was started (`RequeueFairness`): weak fairness of the process as a
  whole. A run has the one of the two that its question is about (`ListenSpec`,
  `RequeueSpec`): messages settle whether or not a re-queue run goes on, and such a run ends
  whether or not listeners do anything. They are operating system threads, and
  callbacks are assumed to end. No fairness says *how* a callback ends: a message
  may fail for ever, and settles because it is parked.
* `Restart`: listeners run under a supervisor, which the docs leave to the user. It
  shares the weak fairness of the listener, as one of the two is enabled at a time.
  Shutdown is not a crash: a stopped listener stays stopped.
* Time-outs (`VisibilityTimeout`, `VisibilityExpires`, `LeaseExpires`), the
  redrive and dead-letter policies, and the end of a cancelled pull: weak
  fairness of the broker, which promises them. One weak fairness condition is enough for
  all copies of SQS and Pub/Sub together (`BrokerStep`).
* `Tick` of `ConsumerHeartbeat`: strong, as ticks are disabled during a fetch
  that has something to return. Without it an endless stream of instantaneous
  messages would be a run in which no time passes.
* None for publishing, stopping, starting a re-queue run, extending or failing.

`ShutdownEnds` and `RequeueEnds` are stated as `[]<>(~asked \/ ended)` and not with
`~>`. It is the same, as a shutdown event stays set until the listener has stopped
or is started anew, and a run that was started stays so until it ends; and TLC
is faster with it.

### Where the code and its documentation disagree

Four runs expect a violation. Each checks one property that quotes the docs.

* `redis_buried_unattempted`: a message of a batch can be put on the DLQ without
  ever reaching the loop. XAUTOCLAIM counts a delivery when it *fetches*, so two
  batches abandoned to the visibility timeout use up the attempts of messages
  which were behind a slow one (`redis.py:175`).
* `redis_listener_dies`: `XPENDING` of an entry that another listener has
  acknowledged meanwhile returns nothing, and `[0]` raises out of the loop
  (`redis.py:174`).
* `heartbeat_forgets`: the inactivity period is measured from the last message
  received; after a callback slower than the period, errors are forgotten
  though the queue never was empty (`base.py:287`). The settings docs speak of
  no new messages in the queue.
* `sqs_bare`: a message without any attributes raises outside the `try` blocks
  and ends the listener (`aws.py:274`).

Others were met while modelling and have no run, as they follow from reading one
or two lines:

* visibility extensions force the heartbeat hook (`aws.py:218`, `gcp.py:342`,
  `base.py:293`) whatever `HEDWIG_HEARTBEAT_INTERVAL_S` says
  (`docs/settings.rst:147`);
* with Pub/Sub the hook is called when no message came for a second or after a
  callback; while pre-process hooks raise on a stream of messages it is not
  (`gcp.py:281`, `base.py:161-170`). `HeartbeatGoesOn` excludes that backend;
* a Redis pull looks at the shutdown event only between pulls of all its
  streams (`redis.py:197`);
* `FlowControl(max_messages=num_messages)` is given to each streaming pull
  (`gcp.py:272`), so the work queue holds up to *n* times as many;
* after the drain has found the work queue empty, pulls that are not yet ended
  may put messages on it (`gcp.py:285`). They come back when their lease ends:
  `EverythingSettles` of `pubsub_liveness` has such a run;
* `process_messages` of the Lambda consumer looks up `record["attributes"]`
  (`aws.py:299`, called at `aws.py:303`). A record of the SNS event that
  `docs/usage.rst:46` refers to has no such key (`tests/test_backends/test_aws.py:345`
  shows one), so it ends with a `KeyError`; the test of `process_messages` gives
  it records made for the purpose (`test_aws.py:338`). Were it to go on, a binary
  payload would be decoded to text (`aws.py:310`), against `base.py:47`, "the same
  format (bytes or string) as serialized by the validator";
* `ProtobufJSONValidator` cannot write a firehose line for a message of a minor
  version it does not know: the data goes into the line in base64
  (`protobuf.py:213`), which is read back as bytes, which its parser refuses
  (`protobuf.py:30`); `validators/base.py:160` says that the minor version does not
  matter. `FirehoseKeepsMessages` excludes it;
* `HEDWIG_SYNC` with Redis needs transport attributes, as the mock message takes
  its id from one (`redis.py:59`), and a route; `Mocked` has both as guards;
* all fields of a container's metadata "are optional" (`jsonschema.py:77`) but
  their absence is a `KeyError` (`jsonschema.py:131`); Hedwig always writes them;
* requeuing with SQS and Pub/Sub can raise or go on with messages left on the DLQ when
  a request fails (`aws.py:236-255`, `gcp.py:394`), against "everything"
  (`base.py:228`). `RequeueComplete` says what remains true: a run of SQS that *returns*
  has sent everything it could receive when it started, and one of Pub/Sub has published
  it or logged why not.

## 4. What is proved

TLAPS checks the following for any number of messages, listeners, requeuers and
subscriptions, and any limits. The assumptions are the modules' `ASSUME`s: limits
and counts are natural numbers, `NumSubscriptions`, `NumMessages` and
`MaxDeliveryAttempts` are at least 1, and validators and brokers are the three
of each there are. For Redis, `Requeuers` is finite
(`RequeuersAssumption`), as `RequeuedOnce` counts them. A theorem that holds only for
`Timely` instances has that as an explicit `ASSUME`, named in the table; none
assumes anything of how many processes re-queue.

| Theorem | Statement |
|---|---|
| `TypeCorrect` | `RedisStreams`: `Spec => []TypeOK` |
| `AttemptsAreBounded` | `Spec => []AttemptsBounded` |
| `DeliveriesAreDistinct` | `Spec => []DeliveriesDistinct` |
| `RedisImplementsAtLeastOnce` | `Spec => Contract!Spec` |
| `NoMessageIsLost` | `Spec => []NoMessageLost` |
| `TimelyHasOneHolder` | `Timely`: `Spec => []OneHolder` |
| `TimelyListenersSurvive` | `Timely`: `Spec => []ListenersSurvive` |
| `TimelyBuriesAfterAllAttempts` | `Timely`: `Spec => []BuriedAfterAllAttempts` |
| `EachIsRequeuedOnce` | `Spec => []RequeuedOnce` |
| `RequeuesAreComplete` | `Spec => RequeueComplete` |
| `SqsTypeCorrect` | `SqsQueue`: `Spec => []TypeOK` |
| `SqsImplementsAtLeastOnce` | `Spec => Contract!Spec` |
| `SqsNoMessageIsLost` | `Spec => []NoMessageLost` |
| `SqsNoRework` | `Spec => []NoRework` |
| `SqsRequeueComplete` | `Spec => []RequeueComplete` |
| `PubSubTypeCorrect` | `PubSub`: `Spec => []TypeOK` |
| `PubSubImplementsAtLeastOnce` | `Spec => Contract!Spec` |
| `PubSubNoMessageIsLost` | `Spec => []NoMessageLost` |
| `PubSubNoRework` | `Spec => []NoRework` |
| `PubSubRequeueComplete` | `Spec => []RequeueComplete` |
| `HeartbeatTypeCorrect` | `ConsumerHeartbeat`: `Spec => []TypeOK` |
| `ErrorCountIsTruthful` | `Spec => []ErrorCountTruthful` |
| `WireTypeCorrect` | `Wire`: `Spec => []TypeOK` |
| `WhatArrivesWasSent` | `Spec => []MessagesArriveAsSent` |
| `WhatIsPublishedIsAccepted` | `Spec => []PublishedIsAccepted` |
| `TracesContinue` | `Spec => []TraceContinues` |
| `FirehoseCanBeRead` | `Spec => []FirehoseKeepsMessages` |
| `ContainersCanBeRead` | `Spec => []ContainersReadable` |
| `CallbacksAreCurrent` | `Spec => HandledUnderCurrentSettings` |

*Redis, the base.* `TypeOK` is not inductive: `EntryOf(d)` is only defined if
the entry of every delivery exists. `Base` adds that every held delivery
(`Located`) and every id a requeuer holds (`DlqLocated`) points into its stream.
Streams only grow and an entry never changes its message (`Extends`), so what
pointed into a stream still does; every action is first shown to extend the
streams, and only then to keep the rest.

*Attempts.* A delivery is an entry *and* the value its counter took. `IInv`
adds to `Base` that the number of a held delivery is at most the entry's counter
(`HeldCounted`), that the number of an attempt is so too and within the limit
(`AttemptsCounted`), and `DeliveriesDistinct` itself. A fetch takes numbers above
every counter, so it cannot collide with what is held or attempted. The attempts
on an entry then are distinct numbers of `1 .. MaxDeliveryAttempts`, and there
are no more than that: the check of a counter that may have moved on since is
safe because the counter never goes back.

*Refinement.* `RInv` adds to `Base` that every entry on a stream is of a published
message (`EntriesPublished`) and that what is about to be acknowledged was handled
(`AckHandled`). An acknowledgement may be of an entry another listener holds by
now, or that somebody moved; either way the message was handled, so it is a
`Settle` or a stutter. Moving is a `DeadLetter`, even when the source
entry had been acknowledged; a batch of the requeuer is a `Requeue`. Every step is
a step of the contract (`StepMaps`), and `NoLoss` of the contract gives
`NoMessageIsLost`.

*Timely instances.* `Timely` says that no visibility timeout passes while a live
listener has the entry. `HInv` adds to `Base` that what is in a batch is pending,
not expired and the latest delivery of its entry (`Attended`), that a
listener about to fetch has an empty batch (`EmptyHanded`), and `OneHolder`
itself. A fetch takes only what is new or expired (`Free`), so nothing that is
held; every other step leaves the entries held after it as they were, or touches
them, and no counter changes (`HeldStep`). `OneHolder` is needed there: an
acknowledgement settles an entry by its id, and would take it from another
holder. That XPENDING is never empty (`ListenersSurvive`) is then immediate.
`BuriedAfterAllAttempts` needs to know where every delivery has gone: as long as
nothing failed, each number an entry's counter has taken was attempted, is in
somebody's hands, or is above the limit (`Spent`), since a batch is given up
only delivery by delivery, each at its place in the loop (`AtWork`). At the
dead-letter transaction the only one in hand is above the limit, so the attempts
are exactly those numbered `1 .. MaxDeliveryAttempts`. Both would be false
without the hypothesis: `redis_buried_unattempted` and `redis_listener_dies`.

*Re-queuing.* Several operators may run it at once, and none sees what another has in
hand. For Redis a run remembers what others fetched since it began (`ceded`).
`RequeueStage` says that from its first XREADGROUP on, nothing is pending on the
dead-letter stream but what it holds or ceded, as the XAUTOCLAIM loop ends only when a
fetch was empty, and a fetch of a set that is not empty is not (`OldestSome`, from the
well-foundedness of `<`). So when the last XREADGROUP returns nothing, all other entries
are acknowledged (`RequeueComplete`). With XAUTOCLAIM a second operator takes what the
first has in hand, and both put it back: how often that can be is counted in pairs
of an acknowledged entry and a requeuer that does not hold it any more (`OutOfHand`).
Such a pair stays one for good, as what is acknowledged is not fetched, and each entry
added to the queue's own stream makes a new one (`Accounted`); there are no more pairs
than acknowledged entries times requeuers (`RequeuedOnce`, which for one requeuer is
exactly once).

With SQS and Pub/Sub a run remembers what it could receive when it started and has not
sent since (`owed`); what another run receives is owed by that one's operator. What is
owed is visible on the dead-letter queue or in the run's own hands (`OwedInDlq`), and in
nobody else's (`OwedApart`): what failed to be deleted is no longer owed, and what one run
deletes, with a handle that is stale or not, another one does not owe. An empty receive
means that nothing is visible, so that nothing is owed. None of that needs the failures,
time-outs or requeuers to be few.

*SQS and Pub/Sub, the base.* `LeasingQueueProofs` has the lemmas about the
operators both brokers are made of: what showing, leasing, deleting, giving back,
moving and adding copies does to their type, to the messages that have a live copy
on a queue, and that copies are never forgotten (`Evolves`). `Base` adds to
`TypeOK` that every handle is of a stored copy (`DeliveriesLocated`) and, for SQS, that
batches are finite (a pull of Pub/Sub is put away one message at a time).

*SQS and Pub/Sub, the contract.* `RInv` adds that a listener about to acknowledge
has the one delivery its callback returned for (`AckReturned`), and that
before a requeuer deletes a batch each of its messages was handled or has a live
copy *younger than the batch* (`StoredAgain`; for Pub/Sub, than the one message in
hand). That it has a live copy would not be inductive: that copy may reach the
dead-letter queue and be deleted by a second requeuer, or it may be in the very batch
that is deleted. The younger copy cannot, and who deletes it has stored one
younger still; a request that failed may have stored the message, which only
makes more copies. Deletions with a stale handle may have no effect, and are a
stutter then.

*No rework.* While nothing is late, fails or stops, whoever holds a delivery
holds the latest of its copy, which is not visible, and what a callback
returned for is the latest for good: its copy is deleted or is being
acknowledged (`Order`). A lease is only given for a visible copy, so no second return
can come. Pub/Sub has more places where a delivery can be: `HeldOnce` says that
no two listeners have the same copy, nor one listener twice on its work queue and in
hand, and `Streams` that no pull was cancelled.

*Error counter.* The strengthening of `ErrorCountTruthful` relates `slow` to
`sinceMessage`: unless a message was slow, a reset that is due finds a listener
whose last fetch was empty, so that `unbroken` is 0 then.

*Wire.* What is cached was made from the settings of the moment, and passed the
check (`Configured`); with that, `CallbacksAreCurrent` is a matter of one step.
Whatever is on the wire is the encoding of a message that was sent and that has
clean headers and valid data (`WireEncodesSent`): the publisher's own check made
sure of it (`SerializeChecks`), and no later deployment can change it, as the
encoding depends on validator and broker only. The broker's form is undone exactly
(`FormRestored`), so who deserializes gets that message or nothing
(`DeserializeInverts`), and gets it if it has the same setting and knows the kind
(`DeserializeAccepts`). What `ContextOf` is empty for is just what has no attributes: a container for SQS in text
without headers (`Bare`), as any other gets an attribute from the validator or for the
broker's form. What was received so was sent, and its context agrees with
its headers (`ReceivedWasSent`), as the encoding has them among the attributes in
both layouts; lines and containers are made of what was received (`LinesOfSent`,
`ContainersOfSent`), and are read by the same two lemmas. `FormRestored` is where
the reserved names matter: were an application's header called `hedwig_encoding`,
a payload in text would be decoded.

Only model-checked: liveness (`EverythingSettles`, `ShutdownEnds`, `RequeueEnds`,
`HeartbeatGoesOn`), which is out of this prover's reach, as are ENABLED and what a
recursive definition computes. Every safety and action property of a passing
run is a theorem. Each inductive invariant above was checked with TLC, on the
constants of the runs, before it was proved.

## 5. Not modelled, and the plan

Not modelled, for good: the Lambda consumer (a loop over its argument that does
not get past the first record, see above), names and status of spans, generated
protobuf code, exceptions and type helpers, the testing package. `override_env`
(`backends/utils.py:14`) could be disturbed by threads only, and the library is not
for threads (`docs/usage.rst:38`); in one thread it is straight-line code. Of the
`lru_cache` of backends (`backends/utils.py:29`) nothing is modelled: what a backend
keeps are names and clients. A Pub/Sub publisher whose future fails after
`publish` has returned it leaves that to the caller; `Publish` of `PubSub` is a
future that resolved.

In the order of their worth:

1. **More of `Wire`**: the firehose of `ProtobufJSONValidator` as a run of its own;
   that the outcome of `Wire` (accepted or refused) is the `CallbackRaises` of the
   backend models.
2. **Composition**: `ConsumerHeartbeat` with the Redis loop, for a property that
   ties the counter to the attempts (a parked message was reported).

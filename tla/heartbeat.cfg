\* SQS, Redis Streams and Pub/Sub.
SPECIFICATION FairSpec
CONSTANTS
    Backends = {"sqs", "redis", "pubsub"}
    NumMessages = 2
    HeartbeatInterval = 2
    InactivityReset = 2
    MaxWaiting = 2
    MaxErrors = 3
INVARIANTS TypeOK ErrorCountTruthful
PROPERTY HeartbeatGoesOn
\* After shutdown the listener stops.
CHECK_DEADLOCK FALSE

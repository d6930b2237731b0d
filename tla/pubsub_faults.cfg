\* Two messages that a re-queue run may pull together, and put back one by one, a
\* listener and a requeuer, with expired leases and a failure of any kind.
SPECIFICATION RequeueSpec
CONSTANTS
    Messages = {m1, m2}
    Listeners = {c1}
    Requeuers = {r1}
    NumSubscriptions = 1
    NumMessages = 2
    MaxDeliveries = 1
    MaxFailures = 1
    MaxStops = 0
    MaxRequeues = 1
    MaxCopies = 3
INVARIANTS TypeOK NoMessageLost RequeueComplete
PROPERTIES ImplementsAtLeastOnce RequeueEnds
\* A listener waits on an empty work queue.
CHECK_DEADLOCK FALSE

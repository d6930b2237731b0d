\* One message, two listeners and a requeuer, with time-outs, a shutdown and a
\* re-queue run, under fairness.
SPECIFICATION FairSpec
CONSTANTS
    Messages = {m1}
    Listeners = {c1, c2}
    Requeuers = {r1}
    NumSubscriptions = 1
    NumMessages = 1
    MaxDeliveryAttempts = 2
    Timely = FALSE
    MaxCrashes = 0
    MaxStops = 1
    MaxRequeues = 1
    MaxMoved = 1
INVARIANTS TypeOK NoMessageLost AttemptsBounded DeliveriesDistinct
PROPERTIES ImplementsAtLeastOnce EverythingSettles ShutdownEnds

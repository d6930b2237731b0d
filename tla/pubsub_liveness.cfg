\* One message, delivered again and re-queued, and two listeners, one of which may be
\* told to stop.
SPECIFICATION ListenSpec
CONSTANTS
    Messages = {m1}
    Listeners = {c1, c2}
    Requeuers = {r1}
    NumSubscriptions = 1
    NumMessages = 1
    MaxDeliveries = 2
    MaxFailures = 0
    MaxStops = 1
    MaxRequeues = 1
    MaxCopies = 2
INVARIANTS NoMessageLost NoRework
PROPERTIES EverythingSettles ShutdownEnds
\* A listener waits on an empty work queue, or has stopped.
CHECK_DEADLOCK FALSE

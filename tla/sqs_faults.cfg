\* One message, two listeners and a requeuer, with time-outs, a failure of any
\* kind, a shutdown and a re-queue run.
SPECIFICATION ListenSpec
CONSTANTS
    Messages = {m1}
    Bare = {}
    Listeners = {c1, c2}
    Requeuers = {r1}
    NumMessages = 1
    MaxReceiveCount = 2
    MaxAttempts = 2
    MaxFailures = 1
    MaxStops = 1
    MaxRequeues = 1
    MaxCopies = 2
INVARIANTS TypeOK NoMessageLost NoRework
PROPERTIES ImplementsAtLeastOnce EverythingSettles

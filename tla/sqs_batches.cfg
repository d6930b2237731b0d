\* Two messages, received and re-queued together, each put back once; one ends
\* every listener that is given it.
SPECIFICATION RequeueSpec
CONSTANTS
    Messages = {m1, m2}
    Bare = {m2}
    Listeners = {c1}
    Requeuers = {r1}
    NumMessages = 2
    MaxReceiveCount = 1
    MaxAttempts = 1
    MaxFailures = 1
    MaxStops = 0
    MaxRequeues = 1
    MaxCopies = 4
INVARIANTS NoMessageLost RequeueComplete
PROPERTY RequeueEnds

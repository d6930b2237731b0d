\* Two messages, two listeners, every message finished in time; the requeuer is run
\* twice and may crash.
SPECIFICATION Spec
CONSTANTS
    Messages = {m1, m2}
    Listeners = {c1, c2}
    Requeuers = {r1}
    NumSubscriptions = 1
    NumMessages = 2
    MaxDeliveryAttempts = 1
    Timely = TRUE
    MaxCrashes = 1
    MaxStops = 0
    MaxRequeues = 2
    MaxMoved = 2
SYMMETRY Symmetry
INVARIANTS BuriedAfterAllAttempts ListenersSurvive NoMessageLost OneHolder RequeuedOnce
PROPERTY RequeueComplete

\* One message that outlives its visibility timeout; nothing crashes.
SPECIFICATION Spec
CONSTANTS
    Messages = {m1}
    Listeners = {c1, c2}
    Requeuers = {}
    NumSubscriptions = 1
    NumMessages = 2
    MaxDeliveryAttempts = 2
    Timely = FALSE
    MaxCrashes = 0
    MaxStops = 0
    MaxRequeues = 0
    MaxMoved = 0
INVARIANT ListenersSurvive

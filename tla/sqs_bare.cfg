\* A message without attributes.
SPECIFICATION Spec
CONSTANTS
    Messages = {m1}
    Bare = {m1}
    Listeners = {c1}
    Requeuers = {}
    NumMessages = 1
    MaxReceiveCount = 1
    MaxAttempts = 1
    MaxFailures = 0
    MaxStops = 0
    MaxRequeues = 0
    MaxCopies = 1
INVARIANT ListenersSurvive

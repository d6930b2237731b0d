\* A callback slower than the inactivity period.
SPECIFICATION Spec
CONSTANTS
    Backends = {"sqs"}
    NumMessages = 2
    HeartbeatInterval = 1
    InactivityReset = 1
    MaxWaiting = 2
    MaxErrors = 2
INVARIANT NoErrorForgottenWhileBusy
CHECK_DEADLOCK FALSE

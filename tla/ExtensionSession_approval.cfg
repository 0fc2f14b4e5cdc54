\* The person approves the device they were told about, and unlocks again.
SPECIFICATION Spec
CONSTANTS
    Tasks = {t1}
    AutoLock = 1
    InFlight = FALSE
    MaxTime = 1
    MaxDevices = 2
    MaxSessions = 2
PROPERTY ApprovalSuffices

\* Two messages at a time, two devices, two sessions, and time for both to expire.
SPECIFICATION Spec
CONSTANTS
    Tasks = {t1, t2}
    AutoLock = 1
    InFlight = TRUE
    MaxTime = 3
    MaxDevices = 2
    MaxSessions = 2
SYMMETRY Symmetry
INVARIANT TypeOK UnlockedByApproval PagesFilled
PROPERTY EndedStaysEnded

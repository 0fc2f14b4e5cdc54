\* Both storages: two registrations of one email, two requests at a time.
SPECIFICATION Spec
CONSTANTS
    Users = {u1, u2}
    Emails = {e1}
    NoEmail = none
    Credentials = {c1}
    Handlers = {h1, h2}
    Storages = {"file", "postgres"}
    MaxCount = 2
    MaxChallenges = 3
    MaxFaults = 1
SYMMETRY Symmetry
INVARIANT TypeOK OneAccountPerEmail StrandedByFaultOrLeaving SingleUse ClonesDetected
PROPERTY CounterGrows

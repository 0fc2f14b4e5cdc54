\* FileDb: a chain of three devices, two requests at a time.
SPECIFICATION Spec
CONSTANTS
    Devices = {d1, d2, d3}
    Handlers = {h1, h2}
    Storage = "file"
    MaxChallenges = 2
    MaxRestarts = 1
SYMMETRY Symmetry
INVARIANT TypeOK TrustIsRooted OneSessionPerChallenge
PROPERTY KeepsTrust

\* FileDb, one item edited on both devices, one fault.
SPECIFICATION FairSyncSpec
CONSTANTS
    Items = {i1}
    Handlers = {d1, d2}
    Writes = {w1}
    Storage = "file"
    Deletable = {}
    MaxBlobs = 3
    EditDuringSync = FALSE
    MaxFaults = 1
PROPERTIES DirtyYieldsToConflictOnly NeverFallsBack SyncEnds Convergence

\* FileDb, two items of which the web client deletes one, two writes of a file at a
\* time; edits between syncs.
SPECIFICATION SyncSpec
CONSTANTS
    Items = {i1, i2}
    Handlers = {d1, d2}
    Writes = {w1, w2}
    Storage = "file"
    Deletable = {i1}
    MaxBlobs = 2
    EditDuringSync = FALSE
    MaxFaults = 1
SYMMETRY DeviceSymmetry
INVARIANTS SyncTypeOK CleanIsStored 

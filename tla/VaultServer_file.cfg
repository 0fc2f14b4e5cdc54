\* FileDb: three handlers, four contents, one item that is only edited and one
\* that the web client also deletes.
SPECIFICATION Spec
CONSTANTS
    Items = {i1, i2}
    Handlers = {h1, h2, h3}
    Storage = "file"
    Deletable = {i2}
    MaxBlobs = 4
INVARIANTS TypeOK VersionNamesOneContent
PROPERTIES NoSilentClobber NoResurrection KeepsPromise

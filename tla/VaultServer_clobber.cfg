SPECIFICATION Spec
CONSTANTS
    Items = {i1}
    Handlers = {h1, h2}
    Storage = "postgres"
    Deletable = {}
    MaxBlobs = 3
SYMMETRY SlotSymmetry
PROPERTY NoSilentClobber

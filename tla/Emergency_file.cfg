\* FileDb: two contacts, two requests at a time, one crash; the contacts keep collecting.
SPECIFICATION FairSpec
CONSTANTS
    Contacts = {c1, c2}
    Handlers = {h1, h2}
    Storage = "file"
    Wait = 1
    MaxTime = 2
    MaxCrashes = 1
INVARIANTS TypeOK NeverEarly OwnerToldFirst
PROPERTIES NoKeyAfterDenial TimerFixed KeepsContract Served

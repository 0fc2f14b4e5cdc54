\* Two browsers, one not approved yet, and two passwords: recoveries that stop anywhere.
SPECIFICATION FairSpec
CONSTANTS
    Browsers = {b1, b2}
    Items = {i1, i2}
    Passwords = {p1, p2}
    Kits = {k1, k2, k3, k4}
    None = None
    Interrupts = {}
    MaxFaults = 2
INVARIANT TypeOK RowsReachable
PROPERTY RecoveryEnds

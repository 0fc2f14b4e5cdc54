\* A request of the re-encryption fails.
SPECIFICATION Spec
CONSTANTS
    Browsers = {b1}
    Items = {i1}
    Passwords = {p1, p2}
    Kits = {k1, k2, k3}
    None = None
    Interrupts = {}
    MaxFaults = 1
INVARIANT EveryRowReachable

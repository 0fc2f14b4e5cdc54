\* An account and the local vault, two calls in flight, two passwords each, two salts
\* generated, any number of restarts.
SPECIFICATION Spec
CONSTANTS
    Accounts = {u1}
    Local = Local
    None = None
    Handlers = {h1, h2}
    Objects = {a1, a2, a3, a4}
    MaxPasswords = 2
    Salts = {s1, s2}
SYMMETRY Symmetry
VIEW View
INVARIANT TypeOK KeysFit LockScreenHolds

\* Two threads, two readings of the clock, every setting the server starts with.
SPECIFICATION Spec
CONSTANTS
    d1 = d1
    d2 = d2
    Requests = {r1, r2}
    Dns <- MCDns
    NoDn = NoDn
    Cleaned <- MCCleaned
    Default = Default
    MaxStep = 2
INVARIANTS
    AcceptedOnceUnlessRaced
    CallersAreVerified
SYMMETRY Symmetry
CHECK_DEADLOCK FALSE

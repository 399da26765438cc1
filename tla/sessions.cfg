\* Three sessions of two creations at a time, one walk through the listing.
SPECIFICATION Spec
CONSTANTS
    Owners = {o1}
    Creators = {c1, c2}
    Bodies <- MCBodies
    Offsets <- MCOffsets
    Limits <- MCLimits
    MaxSessions = 3
    MaxRestarts = 1
    Nobody = Nobody
INVARIANTS
    DisclosedIsComplete
    WalkMissesAtMostTheCancelled
PROPERTIES
    WalksEnd
CHECK_DEADLOCK FALSE

\* Three requests under way at a time, two test sessions.
SPECIFICATION Spec
CONSTANTS
    Slots = {a, b, c}
    MaxSessions = 2
INVARIANTS
    SignedOutIsClean
    NoBlankPage
PROPERTIES
    RenewalSettles

\* The database store.
SPECIFICATION Spec
CONSTANTS
    Kinds = {"vendors", "modules"}
    Targets <- MCTargets
    Required = {"modules"}
    Seeded <- MCSeeded
    Database = TRUE
    MaxRequests = 3
    MaxId = 4
    Absent = Absent
INVARIANT UrlsNameOneThing
CHECK_DEADLOCK FALSE

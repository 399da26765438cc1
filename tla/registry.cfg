\* The in-memory store, seeded with a vendor.
SPECIFICATION FairSpec
CONSTANTS
    Kinds = {"vendors", "modules"}
    Targets <- MCTargets
    Required = {"modules"}
    Seeded <- MCSeeded
    Database = FALSE
    MaxRequests = 3
    MaxId = 4
    Absent = Absent
INVARIANTS
    RegistryTypeOK
    UrlsNameOneThing
PROPERTIES
    RevivedOnlyInARace
    RequestsEnd
\* The supply of requests is bounded.
CHECK_DEADLOCK FALSE

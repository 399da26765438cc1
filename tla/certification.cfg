\* A session of two vector sets, and two requests of any kind.
SPECIFICATION SpecCertification
CONSTANTS
    Kinds = {"modules"}
    Targets <- MCTargets
    Required = {}
    Seeded <- MCSeeded
    Database = FALSE
    MaxRequests = 2
    MaxId = 2
    Absent = Absent
    NumSets = 2
    Handlers = {h1}
    NoUrl = NoUrl
INVARIANTS
    CertificationTypeOK
    CertificateIsEarned
    UrlsNameOneThing
\* The supply of requests is bounded.
CHECK_DEADLOCK FALSE

\* One client, one request at a time, three submissions.
SPECIFICATION FairSpec
CONSTANTS
    right = right
    wrong = wrong
    part = part
    junk = junk
    NoAnswer = NoAnswer
    Requests = {r1}
    Answers = {right, part, junk}
    Malformed = {junk}
    Partial = {part}
    ShowExpected = {part}
    Verdict <- MCVerdict
    UseNistGenval = TRUE
    MaxSubmissions = 3
INVARIANTS
    AnsweredOnlyAfterRetrieval
    RestsGraded
PROPERTIES
    CancelIsTerminal
    ImplementsLifecycle
    GenerationEnds
    EverySubmissionSettles
    RequestsFinish
\* After a cancel every request is refused: the system really may stop.
CHECK_DEADLOCK FALSE

\* One client, one request at a time, three submissions, up to two restarts.
SPECIFICATION DbSpec
CONSTANTS
    right = right
    part = part
    junk = junk
    NoAnswer = NoAnswer
    Requests = {r1}
    Answers = {right, part, junk}
    Malformed = {junk}
    Partial = {part}
    ShowExpected = {part}
    Verdict <- MCVerdict
    UseNistGenval = FALSE
    MaxSubmissions = 3
    MaxRestarts = 2
INVARIANTS
    SettleIsAllOrNothing
    ResubmissionRepairs
PROPERTIES
    CancelOutlivesRestarts
    GenerationEndsUnlessRestarted
    ImplementsRestartable
\* After a cancel every request is refused: the system really may stop.
CHECK_DEADLOCK FALSE

\* A cancel overtaken by another request's unlocked status write.
SPECIFICATION Spec
CONSTANTS
    right = right
    part = part
    wrong = wrong
    junk = junk
    NoAnswer = NoAnswer
    Requests = {r1, r2}
    Answers = {right, part}
    Malformed = {}
    Partial = {part}
    ShowExpected = {right}
    Verdict <- MCVerdict
    UseNistGenval = FALSE
    MaxSubmissions = 1
PROPERTY CancelIsTerminal
CHECK_DEADLOCK FALSE

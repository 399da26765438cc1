\* One client resubmits while its first submission is being graded.
SPECIFICATION Spec
CONSTANTS
    right = right
    part = part
    wrong = wrong
    junk = junk
    NoAnswer = NoAnswer
    Requests = {r1}
    Answers = {right, part}
    Malformed = {}
    Partial = {part}
    ShowExpected = {right}
    Verdict <- MCVerdict
    UseNistGenval = TRUE
    MaxSubmissions = 2
INVARIANT GradeIsForCurrentResponse
CHECK_DEADLOCK FALSE

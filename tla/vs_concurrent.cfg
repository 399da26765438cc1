\* Two requests at a time on the same vector set, beside one for its results.
SPECIFICATION SpecResults
CONSTANTS
    right = right
    part = part
    junk = junk
    NoAnswer = NoAnswer
    Requests = {r1, r2}
    Answers = {right, junk}
    Malformed = {junk}
    Partial = {}
    ShowExpected = {right}
    Verdict <- MCVerdict
    UseNistGenval = TRUE
    MaxSubmissions = 2
INVARIANTS
    TypeOK
    KeyBeforePrompt
    NoSettleOverCancel
    SettleIsAllOrNothing
    ExpiredMeansNothingAccepted
    ServedUntilResubmitted
    JudgementsAreReal
SYMMETRY RequestSymmetry
CHECK_DEADLOCK FALSE

\* Two generations and two validations in one directory, one restart.
SPECIFICATION Spec
CONSTANTS
    g1 = g1
    g2 = g2
    v1 = v1
    v2 = v2
    NoFile = NoFile
    Generations = {g1, g2}
    Validations = {v1, v2}
    MaxRestarts = 1
INVARIANTS
    GradeIsOwn
    VectorsAreOneRun
    NoEngineOutlivesItsCall
PROPERTY
    EveryCallEnds
\* Once every call has ended nothing is left to do.
CHECK_DEADLOCK FALSE

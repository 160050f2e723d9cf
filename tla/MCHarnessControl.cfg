SPECIFICATION Spec
CHECK_DEADLOCK FALSE
CONSTANTS
    Branches = {"branch"}
    Callers = {c1, c2}
    MaxGens = 3
    MaxStarts = 2
SYMMETRY CallerSymmetry
INVARIANTS LeaseIsGood AnswersHold OnlyFaultsBlock
PROPERTIES AdmittedAsWritten

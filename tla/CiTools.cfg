SPECIFICATION Spec
CONSTANTS
    Jobs = {1, 2}
    Commit <- MCCommit
    CycleCounts = {0, 2, 3}
    MaxDelta = 50
    CovScenarios = {s1, s2}
    Bins = {b1, b2}
    Thresholds = {0, 50, 100}
    MaxInfo = 4
    MaxLines = 5
    H = 2
    Digits = {3, 8}
INVARIANTS
    CdCleansUp
    CdRecovers
    CdPassMeasured
    CovGateExact
    CovLineGateExact
    RrExact
    SrtDivides
    SrtRoots
    SrtAnswers

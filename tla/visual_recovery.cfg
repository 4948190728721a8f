SPECIFICATION FairSpec
CONSTANTS
    Analyses = {a1}
    Callers = {k1, k2, k3}
    MaxAttempts = 2
INVARIANTS
    VTypeOK
    LatestAttemptRules
    DispatchBudget
    AnswerIsDurable
PROPERTIES
    VerdictIsFinal
    AnalysisFences
    RunsEnd

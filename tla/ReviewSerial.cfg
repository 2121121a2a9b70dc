SPECIFICATION Spec
CONSTANTS
    c1 = c1
    c2 = c2
    w1 = w1
    w2 = w2
    n1 = n1
    NoRemark = NoRemark
    NoCase = NoCase
    Workers = {w1}
    CaseIds = {c1, c2}
    Existing = {c1}
    Statuses <- TwoStatuses
    Remarks <- OneRemark
    Scores = {40, 60}
    ForeignKeys = TRUE
    Faults = TRUE
    MaxDecisions = 2
INVARIANTS
    SignalsOfOneRun
    ScoreMatchesSignals
    ShowsLastDecision

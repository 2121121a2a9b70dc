SPECIFICATION Spec
CONSTANTS
    t1 = t1
    t2 = t2
    k1 = k1
    k2 = k2
    u1 = u1
    c1 = c1
    c2 = c2
    c3 = c3
    w1 = w1
    w2 = w2
    NoKey = NoKey
    NoSig = NoSig
    NoCase = NoCase
    NoAlert = NoAlert
    Workers = {w1, w2}
    CaseIds = {c1, c2}
    Tenants = {t1, t2}
    Keys = {k1, k2}
    Sigs = {u1}
    Times = {0, 1, 3}
    Window = 1
    Alerts <- MixedAlerts
    ForeignKeys = TRUE
SYMMETRY Symmetry
INVARIANTS
    TypeOK
    NoDuplicateAfterStore
    SourcelessOnlyWhenTorn
PROPERTY
    AnswersStandForAlert

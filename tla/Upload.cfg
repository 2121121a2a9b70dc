SPECIFICATION Spec
CONSTANTS
    GroupWindow = 12
    DupWindow = 2
    SprayMin = 3
    Upns = {"a@", "b@", "c@"}
    Spray = "spray"
    None = None
    NoCase = NoCase
    Gone = Gone
    Requests <- AllRequests
    c1 = c1
    c2 = c2
    c3 = c3
    c4 = c4
    CaseIds = {c1, c2, c3, c4}
    Window = 6
    Now = 100
    MaxRows = 4
    MaxUploads = 2
    MaxActs = 1
    Severe = {3, 4}
    Rules <- AllRules
SYMMETRY Symmetry
ACTION_CONSTRAINT OrdersFirst
CHECK_DEADLOCK FALSE
INVARIANTS
    TypeOK
    ReuploadDeduplicates
    NoiseNeverHidesSevere
    GroupsCoverAlerts
    GroupsDescribed

SPECIFICATION Spec
CONSTANTS
    None = None
    t1 = t1
    t2 = t2
    Threads = {t1, t2}
    Scenes <- AllScenes
    Recent = 1
    Day = 2
    Week = 4
    Month = 6
    PeerMin = 2
    PerUser = 5
    ColdGraph = 1
    ColdProcess = 1
    RareUpTo = 1
    Window = 2
    Rapid = 1
    MaxWindow = 3
INVARIANTS
    TypeOK
    WindowWhole
    NoScoreCascade
PROPERTIES
    NoveltyFades

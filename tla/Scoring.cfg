SPECIFICATION Spec
CONSTANTS
    Names <- RegistryNames
    Extracted <- MixedExtracted
    Lookups <- MixedLookups
    Contexts <- AllContexts
    Denylists <- MixedDenylists
    Calibration <- LearnedCalibration
CHECK_DEADLOCK FALSE
INVARIANTS
    TypeOK
    UnverifiedNeverCritical
    CappedNeverHigh
    NoEvidenceStaysBounded
    DenylistKeepsSuppression
    LoopComputesReference

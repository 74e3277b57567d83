SPECIFICATION Spec
CONSTANTS
    None = None
    Unused = Unused
    UNKNOWN = UNKNOWN
    NoReceipt = NoReceipt
    r1 = r1
    r2 = r2
    d1 = d1
    d2 = d2
    p1 = p1
    p2 = p2
INVARIANTS
    VerdictsAreEarned
    TracksAndDiagnosticsAgree
    OnlyWholeIsInstalled
PROPERTIES
    ExperimentIsSound
CHECK_DEADLOCK FALSE
SYMMETRY Symmetry

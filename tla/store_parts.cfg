SPECIFICATION Spec
CONSTANTS
    None = None
    NoInode = NoInode
INVARIANTS
    FilesSurvive
    LockIsExclusive
    ReadersAreConsistent
PROPERTIES
    ImplementsStore
    DamageIsHandled
CHECK_DEADLOCK FALSE

SPECIFICATION Spec
CONSTANTS
    None = None
    Unused = Unused
    Bad = Bad
INVARIANTS
    EveryObservationOnce
    BatchIsWhole
    DecodersAgree
    RecordsAreExact
PROPERTIES
    SamplingIsNearest
    CropsAreExact
    HandedOverIsWhole
    AnswersAreOfTheSource
CHECK_DEADLOCK FALSE

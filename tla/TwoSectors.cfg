SPECIFICATION Spec
CONSTANTS
    k1 = k1
    k2 = k2
    short = short
    long = long
    other = other
    huge = huge
    NoValue = NoValue
    SecNum = 2
    Slices = 4
    Keys = {k1, k2}
    Values = {short, long}
    TypeOf <- MCTypeOf
    SpanOf <- MCSpanOf
    NorFlash = TRUE
    MaxSerial = 3
    MaxCrash = 2
INVARIANTS TypeOK RamAgreesWithFlash OneLiveItem CountersAgree ReserveAtHand RetryFits
PROPERTIES NothingErasedAlive NoSpaceBeforeFailure
SYMMETRY MCSymmetry

SPECIFICATION FairSpec
CONSTANTS
    k1 = k1
    k2 = k2
    short = short
    long = long
    other = other
    huge = huge
    NoValue = NoValue
    SecNum = 3
    Slices = 2
    Keys = {k1, k2}
    Values = {long, other, huge}
    TypeOf <- MCTypeOf
    SpanOf <- MCSpanOf
    NorFlash = TRUE
    MaxSerial = 3
    MaxCrash = 2
INVARIANTS OneDeleting StoreInv
PROPERTIES KeepsPromise CallsEnd

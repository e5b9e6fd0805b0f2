SPECIFICATION Spec
CONSTANTS
    k1 = k1
    k2 = k2
    short = short
    long = long
    other = other
    huge = huge
    NoValue = NoValue
    SecNum = 2
    Slices = 3
    Keys = {k1, k2}
    Values = {short, other}
    TypeOf <- MCTypeOf
    SpanOf <- MCSpanOf
    NorFlash = TRUE
    MaxSerial = 3
    MaxCrash = 1
PROPERTIES StartTakesNothing
SYMMETRY MCSymmetry

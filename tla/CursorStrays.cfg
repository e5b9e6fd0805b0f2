SPECIFICATION IterSpec
CONSTANTS
    k1 = k1
    k2 = k2
    short = short
    long = long
    other = other
    NoValue = NoValue
    SecNum = 2
    Slices = 3
    Keys = {k1, k2}
    Groups = {{k1, k2}}
    Values = {short, long}
    TypeOf <- MCTypeOf
    SpanOf <- MCSpanOf
    NorFlash = TRUE
    MaxSerial = 3
    MaxCrash = 0
PROPERTIES PollsAll

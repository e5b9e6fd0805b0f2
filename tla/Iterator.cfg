SPECIFICATION IterSpec
CONSTANTS
    k1 = k1
    k2 = k2
    short = short
    long = long
    other = other
    NoValue = NoValue
    SecNum = 3
    Slices = 2
    Keys = {k1, k2}
    Groups = {{k1}, {k1, k2}}
    Values = {short, long}
    TypeOf <- MCTypeOf
    SpanOf <- MCSpanOf
    NorFlash = TRUE
    MaxSerial = 3
    MaxCrash = 1
INVARIANTS CursorStays YieldsOnce
PROPERTIES PollsWhatStays

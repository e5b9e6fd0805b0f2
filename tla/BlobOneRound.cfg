SPECIFICATION BlobSpec
CONSTANTS
    n1 = n1
    n2 = n2
    short = short
    b1 = b1
    b2 = b2
    big = 4
    small = 1
    NoValue = NoValue
    SecNum = 3
    Slices = 4
    Names = {n1}
    Prefix = {}
    Small = {short}
    Blobs = {b1, b2}
    BlobSize <- MCBlobSize
    MinSeg = 1
    SegNumMax = 4
    Keys <- MCKeys
    Values <- MCValues
    TypeOf <- MCTypeOf
    SpanOf <- MCSpanOf
    NorFlash = TRUE
    MaxSerial = 3
    MaxCrash = 1
INVARIANTS BlobOneRound

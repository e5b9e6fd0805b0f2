SPECIFICATION BlobFairSpec
CONSTANTS
    n1 = n1
    n2 = n2
    short = short
    b1 = b1
    b2 = b2
    big = 3
    small = 1
    NoValue = NoValue
    SecNum = 3
    Slices = 4
    Names = {n1}
    Prefix = {}
    Small = {short}
    Blobs = {b1, b2}
    BlobSize <- MCBlobSize
    MinSeg = 1
    SegNumMax = 3
    Keys <- MCKeys
    Values <- MCValues
    TypeOf <- MCTypeOf
    SpanOf <- MCSpanOf
    NorFlash = TRUE
    MaxSerial = 4
    MaxCrash = 1
INVARIANTS BlobTypeOK BlobsWhole
PROPERTIES KeepsBlobPromise StartDropsOrphans BlobEnds

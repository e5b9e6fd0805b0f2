SPECIFICATION GroupSpec
CONSTANTS
    g1 = g1
    g2 = g2
    g3 = g3
    n1 = n1
    d1 = d1
    d2 = d2
    NoValue = NoValue
    SecNum = 3
    Slices = 2
    GroupNames = {g1, g2, g3}
    ItemNames = {n1}
    Data = {d1, d2}
    GroupIdMax = 3
    Keys <- MCKeys
    Values <- MCValues
    TypeOf <- MCTypeOf
    SpanOf <- MCSpanOf
    NorFlash = TRUE
    MaxSerial = 3
    MaxCrash = 1
INVARIANTS ListIsFlash IdsApart ItemsHaveGroup ReserveKept OrderSurvivesRestart
PROPERTIES KeepsId DelGroupEmpties AppendsInPlace KeepsGroupPromise

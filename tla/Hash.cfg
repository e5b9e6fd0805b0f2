SPECIFICATION Spec
CONSTANTS
    h1 = h1
    h2 = h2
    Entries = 5
    EnlargeStep = 2
    Hashes = {h1, h2}
    Copies = {"up", "down"}
INVARIANTS FindsLowest HoldsAll FitsAllocation HasRoomForAll

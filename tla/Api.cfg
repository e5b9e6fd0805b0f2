SPECIFICATION FairSpec
CONSTANTS
    t1 = t1
    t2 = t2
    p1 = p1
    p2 = p2
    a1 = a1
    a2 = a2
    i1 = i1
    None = None
    Thread = {t1, t2}
    Partition = {p1, p2}
    Addr = {a1, a2}
    Iter = {i1}
    MaxHandles = 2
    Broken = {p2}
    Ops = {"init", "deinit", "erase", "open", "close", "write", "read", "del_group", "get_info", "status",
           "find", "find_by_handle", "next", "info", "data", "release"}
    Discipline = {"init first", "init", "deinit"}
INVARIANTS OneAtATime HandlesAttached PortWhole MutexIsThere DisciplineInv NothingFreedIsRead
PROPERTIES CallsReturn
CHECK_DEADLOCK FALSE

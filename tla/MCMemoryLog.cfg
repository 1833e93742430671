\* Three hooks append at once under flock; calls are killed, a write is torn.
CONSTANTS
    p1 = p1
    p2 = p2
    p3 = p3
    Proc = {p1, p2, p3}
    NoProc = NoProc
    a = a
    b = b
    Payload = {a, b}
    Corrupt = Corrupt
    HasFlock = TRUE
    MaxLines = 3
    MaxTears = 1
SPECIFICATION FairSpec
INVARIANTS TypeOK NoSilentLoss LockedChain
PROPERTIES BrokenStaysBroken AckedStays ImplementsAppendOnlyLog AppendsEnd
CHECK_DEADLOCK FALSE

\* The same hooks where flock is missing or refused: appends race.
CONSTANTS
    p1 = p1
    p2 = p2
    p3 = p3
    Proc = {p1, p2, p3}
    NoProc = NoProc
    a = a
    b = b
    Payload = {a, b}
    Corrupt = Corrupt
    HasFlock = FALSE
    MaxLines = 2
    MaxTears = 1
SPECIFICATION Spec
SYMMETRY Symmetry
INVARIANTS NoSilentLoss
PROPERTIES ImplementsAppendOnlyLog
CHECK_DEADLOCK FALSE

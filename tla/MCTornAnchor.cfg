\* The docstring: the anchor is what proves history was not rewritten.
CONSTANTS
    p1 = p1
    p2 = p2
    Proc = {p1}
    NoProc = NoProc
    a = a
    b = b
    Payload = {a, b}
    Corrupt = Corrupt
    HasFlock = TRUE
    MaxLines = 2
    MaxTears = 1
    n1 = n1
    Anchorer = {n1}
    NoNote = NoNote
    DamageKinds = {"truncate"}
    MaxCommits = 1
    MaxDamage = 1
SPECIFICATION AnchorSpec
SYMMETRY Symmetry
INVARIANTS AnchorProvesHistory
CHECK_DEADLOCK FALSE

\* The file's header: HISTORY.md is append-only.
CONSTANTS
    p1 = p1
    p2 = p2
    Proc = {p1, p2}
    MaxCommits = 1
    MaxCalls = 2
    MaxRewrites = 1
SPECIFICATION HistorySpec
SYMMETRY Symmetry
INVARIANTS HistoryKeepsEntries
CHECK_DEADLOCK FALSE

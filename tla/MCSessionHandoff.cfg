\* Two sessions capture, todo lists and commits change, hooks are killed.
CONSTANTS
    s1 = s1
    s2 = s2
    Session = {s1, s2}
    Missing = Missing
    Cut = Cut
    NoGit = NoGit
    MaxHeads = 1
    MaxTodos = 2
    MaxCaptures = 2
SPECIFICATION HandoffSpec
SYMMETRY Symmetry
INVARIANTS HandoffTypeOK QuietHandoffIsExact  EventMatchesHandoff NoResurrection
CHECK_DEADLOCK FALSE

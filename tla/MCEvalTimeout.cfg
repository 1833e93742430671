\* The docstring: a timeout is a bounded failure.
CONSTANTS
    i1 = i1
    i2 = i2
    Inproc = {i1, i2}
    h1 = h1
    m1 = m1
    probe = probe
    Heavy = {h1, m1, probe}
    Malicious = {i1, h1, m1, probe}
    Probe = probe
    Plain = {m1}
    Workers = 2
    Required = TRUE
SPECIFICATION Spec
INVARIANTS TimeoutIsFailure
CHECK_DEADLOCK FALSE

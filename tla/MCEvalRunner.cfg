\* In the main thread a malicious and a benign task; in a pool of two workers one
\* that uses _run, one that uses subprocess.run, and the sandbox probe.
CONSTANTS
    i1 = i1
    i2 = i2
    Inproc = {i1, i2}
    h1 = h1
    m1 = m1
    probe = probe
    Heavy = {h1, m1, probe}
    Malicious = {i1, h1, m1, probe}
    Probe = probe
    Plain = {m1}
    Workers = 2
    Required = TRUE
SPECIFICATION FairSpec
INVARIANTS TypeOK TraceNamesTasks  PassIsMeasured
PROPERTIES SuiteEnds
CHECK_DEADLOCK FALSE

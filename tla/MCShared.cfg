\* The memory log: anchors and a strict gate under appends, commits, a torn write and any one damage.
\* The cooldown: two runs at once or in turn, kills, three days, two versions.
\* The venv: setup is called again and again; three kills and damages.
CONSTANTS
    p1 = p1
    p2 = p2
    Proc = {p1}
    NoProc = NoProc
    a = a
    b = b
    Payload = {a, b}
    Corrupt = Corrupt
    HasFlock = TRUE
    MaxLines = 2
    MaxTears = 1
    n1 = n1
    Anchorer = {n1}
    NoNote = NoNote
    DamageKinds = {"edit", "garble", "drop", "swap", "truncate", "delete", "forge"}
    MaxCommits = 2
    MaxDamage = 1
    v1 = v1
    v2 = v2
    Versions = {v1, v2}
    c1 = c1
    c2 = c2
    Checks = {c1, c2}
    Days = 2
    MaxDay = 2
    MaxRuns = 2
    Strict = TRUE
    MaxTroubles = 3
SPECIFICATION SharedSpec
SYMMETRY Symmetry
INVARIANTS AnchorDetectsRewrite  InteriorDamageShows
INVARIANTS SetupEndsReady  PassMeansAged VerdictsAgree
PROPERTIES AnchorIsExact
CHECK_DEADLOCK FALSE

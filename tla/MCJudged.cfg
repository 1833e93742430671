\* What the gates and hooks judge: see MCGates, MCCommits, MCLessons, MCRemote.
\* HISTORY.md: two agents append while commits are made, rebased and misdated.
CONSTANTS
    Absent = Absent
    Configs <- MCConfigs
    Pins <- MCPins
    Faults = {"policy", "secrets", "codeowners", "lint", "pytest", "no_venv", "no_pytest"}
    MaxEdits = 1
    Sources <- SomeSources
    Messages <- SomeMessages
    Hooks = {"finding", "postmortem"}
    MaxLandings = 1
    Validators <- SomeValidators
    TestFiles <- SomeTestFiles
    Keys = {"f"}
    Symbols = {"t"}
    Readers <- SomeReaders
    Suites <- SomeSuites
    Lessons <- SomeLessons
    Gone = Gone
    MaxDirty = 2
    Files = {"scripts", "codeowners"}
    Rulings <- SomeRulings
    NoOwners = NoOwners
    MaxMoves = 4
    p1 = p1
    p2 = p2
    Proc = {p1, p2}
    MaxCommits = 2
    MaxCalls = 2
    MaxRewrites = 1
SPECIFICATION JudgedSpec
SYMMETRY Symmetry
INVARIANTS JudgedTypeOK PassMeansClean PinnedFloor 
INVARIANTS FixesCarryAnswers  PostmortemLands  ClaimsErode
INVARIANTS GovernedMeansOwned OnlyRacesLose NeverNamesParent 
CHECK_DEADLOCK FALSE

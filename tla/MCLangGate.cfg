\* The gates of MCJudged.cfg without edits: a command of the language gate fails.
CONSTANTS
    Absent = Absent
    Configs <- MCConfigs
    Pins <- MCPins
    Faults = {"test", "unscripted"}
    MaxEdits = 0
SPECIFICATION Spec
INVARIANTS SkipMeansNotOptedIn
CHECK_DEADLOCK FALSE

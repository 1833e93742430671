\* The gates of MCJudged.cfg without edits: the config is missing from the start.
CONSTANTS
    Absent = Absent
    Configs <- MCConfigs
    Pins <- MCPins
    Faults = {"policy", "secrets", "codeowners", "lint", "pytest", "no_venv", "no_pytest"}
    MaxEdits = 0
SPECIFICATION Spec
INVARIANTS FloorHolds
CHECK_DEADLOCK FALSE

\* The hooks of .pre-commit-config.yaml: none is of the commit-msg stage.
CONSTANTS
    Sources <- SomeSources
    Messages <- SomeMessages
    Hooks = {}
    MaxLandings = 1
SPECIFICATION CommitSpec
INVARIANTS FixesNeedFields
CHECK_DEADLOCK FALSE

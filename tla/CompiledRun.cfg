\* All workflows over a pool of eight edges, with failures that propagate or not.
CONSTANTS
    Workflow <- Workflows
    Message = {"m1", "m2"}
    MaxSteps = 7
    MaxTasks = 8
SPECIFICATION RunSpec
\* Every execution ends.
CHECK_DEADLOCK FALSE
INVARIANTS PathIsRecovered FailuresAreTheThrowers StatusIsEarned VerdictIsEarned
PROPERTIES WalkSpec

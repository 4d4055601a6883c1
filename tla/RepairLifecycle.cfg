\* Two requests at a time, which may die between their commits; one patch can be
\* applied again and the other cannot.
CONSTANTS
    Request = {q1, q2}
    Patch = {fix, add}
    Additive = {add}
    MayDie = TRUE
    MaxProposals = 2
    MaxVersions = 3
SPECIFICATION Spec
SYMMETRY Requests
INVARIANTS HistoryIsLinear AcceptedOwnsVersion NoRepairIsLost
PROPERTIES DecidedOnce

\* Graphs with flaws, and chains with conditions.
CONSTANTS
    Field = {"amount", "approved", "plan"}
    Approved = "approved"
    NameRank <- Names
    Workflow <- Workflows
    Base <- Bases
SPECIFICATION Spec
\* Both analyses end.
CHECK_DEADLOCK FALSE
INVARIANTS AnalysesAgree PathIsShortest SteeredInputOpensThePath PerfectMeansClean

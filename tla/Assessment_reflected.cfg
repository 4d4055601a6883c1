\* The same instance; what a report calls reflected in the scores.
CONSTANTS
    Request = {q1, q2}
    Unit = 840
    Workflow <- Workflows
    Coverage = {100}
    AiTarget = {"b"}
    MaxCases = 1
    MaxAiCases = 1
    MaxRequests = 2
    MaxCampaigns = 1
    MaxVersions = 2
SPECIFICATION Spec
\* The bound on requests lets the system stop.
CHECK_DEADLOCK FALSE
SYMMETRY Requests
INVARIANT ReflectedMeansBlended

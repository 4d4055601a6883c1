\* A campaign beside an evaluation, or two evaluations, while the workflow is edited once.
CONSTANTS
    Request = {q1, q2}
    Unit = 840
    Workflow <- Workflows
    Coverage = {100}
    AiTarget = {"b"}
    MaxCases = 1
    MaxAiCases = 1
    MaxRequests = 2
    MaxCampaigns = 1
    MaxVersions = 2
SPECIFICATION Spec
\* The bound on requests lets the system stop.
CHECK_DEADLOCK FALSE
SYMMETRY Requests
INVARIANTS CampaignsAddUp EvidenceIsOfItsVersion PassIsEarned SizeIsNoDefect OverallIsAMean

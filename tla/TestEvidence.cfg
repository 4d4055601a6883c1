\* Requests one after another or overlapping, while the workflow gets a new version.
CONSTANTS
    Request = {q1, q2}
    Name = {happy, edge}
    Critical = {happy}
    Linked = {edge}
    MinCoverage = 37
    MaxRequests = 3
    MaxTests = 2
    MaxVersions = 2
SPECIFICATION Spec
\* The bound on requests lets the system stop.
CHECK_DEADLOCK FALSE
SYMMETRY Requests
INVARIANTS GenerationIsIdempotent ReplyIsTheSuite CoverageAddsUp EvaluationIsOfItsVersion
PROPERTIES GateHearsTheLastWord

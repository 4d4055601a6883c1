\* Two engines and an n8n that does what it is asked, or one engine and no mercy.
CONSTANTS
    e1 = e1
    e2 = e2
    v1 = v1
    v2 = v2
    Engine = {e1, e2}
    Version = {v1, v2}
    Handler = {h1}
    Node <- OneNode
    Test <- BlandTest
    Environment <- Surroundings
    MaxAge = 0
    MaxSims = 2
    MaxHits = 1
    MaxTime = 2
    RunLimit = 0
SPECIFICATION Spec
\* Every caller stops in the end.
CHECK_DEADLOCK FALSE
INVARIANTS HealthyRunsAreMeasured CallsStayInTheirRun CacheHandsOutPublished OrphansAreExcused
PROPERTIES SimulationEnds

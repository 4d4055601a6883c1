\* Two nodes, two tokens that are reopened, two threads, and a clock that carries runs
\* over the sweep's age limit.
CONSTANTS
    Token = {t1, t2}
    Handler = {h1, h2}
    Node <- TwoNodes
    Test <- TwoTests
    MaxAge = 0
    MaxRuns = 2
    MaxHits = 2
    MaxTime = 1
SPECIFICATION Spec
INVARIANTS TypeOK CallLogExact InjectionsFireOnTheirAttempt
PROPERTIES CountedIsLogged TranscriptSpec

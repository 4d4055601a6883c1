SPECIFICATION Spec
CONSTANTS
    Request = {r1, r2}
    Node <- MCWorkflow
    Default <- MCDefault
    Addition <- MCAddition
    Scenario <- MCScenario
    LastDate = 2
    MaxRequests = 3
    MaxAdditions = 2
SYMMETRY MCSymmetry
INVARIANTS
    OnlySeedingLeavesScenarios
    PricesOnlyImprove
CHECK_DEADLOCK FALSE

SPECIFICATION Spec
CONSTANTS
    NodeCount = 2
    Roles <- AllRoles
    Window = 1
    Latencies = {"high"}
    Tiers <- TierSets
    Budget <- Budgets
    Floor = 1
    MaxSpoiled = 1
INVARIANTS
    BMTypeOK
    OneProducer
    EveryCandidateAsked
PROPERTIES
    NodeReturns

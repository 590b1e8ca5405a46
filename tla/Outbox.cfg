SPECIFICATION FairSpec
CONSTANTS
    Kinds <- OrderFacts
    Validated <- Publishable
    Audited <- AuditRule
    MaxFacts = 3
    BatchSize = 3
    RetryAttempts = 2
    AuditRetries = 2
    MaxFaults = 3
INVARIANTS TypeOK NothingIsLost
PROPERTIES FactsArrive
CHECK_DEADLOCK FALSE

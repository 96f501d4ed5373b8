SPECIFICATION FairSpec
CONSTANTS
    GitHubEvents = {g1, g2}
    GitLabEvents = {l1}
    Token = Token
    Requests = {h1, h2}
    MaxDeliveries = 2
    QueueCap = 1
    WorkCap = 2
    Expiry = TRUE
    Consumer = TRUE
    None = None
INVARIANTS TypeOK Conserved
PROPERTIES AcceptedReachesOrchestrator
\* Deliveries are bounded.
CHECK_DEADLOCK FALSE

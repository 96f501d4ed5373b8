SPECIFICATION FairSpec
CONSTANTS
    Calls = {k1, k2}
    Chain <- MCChain
    PermitChoices = {1, 2}
    MaxTokens = 2
    DailyLimit = 4
    Earlier = {0, 1}
    Counts = {1, 3}
    Lengths = {0, 1, 30}
    Scores = {10}
    QualityThreshold = 7
    BreakerThreshold = 2
    MaxRetries = 1
    MaxDay = 1
    MaxGen = 2
INVARIANTS TypeOK UsageCoversSpend LogMatchesStore
PROPERTIES EveryCallReturns

CONSTANTS Issues = {1, 2} Consumers = {c1, c2} Auditors = {c1} Packets = {1} Capacity = 1 Collides <- MCCollides BlockSets <- MCBlockSets MaxAttempts = 2 Scenarios <- MCScenarios MaxChanges = 2 MaxPlans = 1 MaxGen = 2 MaxEvents = 2
SPECIFICATION Spec
INVARIANTS PortfolioIsSound
PROPERTIES MovesAreCurrent EventsSettle
CHECK_DEADLOCK FALSE

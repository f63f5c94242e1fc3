CONSTANTS MaxCycles = 1 MaxTries = 2 MaxCampaigns = 3 MaxAttempts = 1 MaxDrift = 1 ActionSets <- MCActionSets
SPECIFICATION Spec

PROPERTIES RevokedNeverAdmitted
CHECK_DEADLOCK FALSE

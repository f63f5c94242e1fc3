CONSTANTS Proposals = {1, 2} Legacy = {1} Recipients = {"planner", "sre"} Planner = "planner" Clearer = "sre" Decided = {"APPROVE", "DEFER"} UserEvents = {1, 2} MaxEdits = 1 MaxPublished = 1
SPECIFICATION ApprovalSpec
INVARIANTS DecisionsStand
PROPERTIES DeliveriesMoveOn
CHECK_DEADLOCK FALSE

SPECIFICATION LiveSpec
CONSTANTS
    Notices = {n1}
    Lineages = {l1}
    Claimed = {l1}
    MaxAttempts = 1
    MaxIntents = 5
    MaxBeats = 1
    MaxCrashes = 0
PROPERTY NoSilentStall

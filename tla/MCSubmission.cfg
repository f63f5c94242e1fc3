SPECIFICATION SubmissionSpec
CONSTANTS
    Notices = {n1}
    Lineages = {l1}
    Claimed = {}
    MaxAttempts = 2
    MaxIntents = 3
    MaxBeats = 1
    MaxCrashes = 1
INVARIANTS AllTypesOK OneExecutor AttachedIsOwn RetriesEnd
PROPERTIES NoticeSettles

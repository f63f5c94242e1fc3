SPECIFICATION Spec
CONSTANTS
    MaxForeign = 1
    MaxOwn = 1
    MaxTries = 2
INVARIANTS TypeOK CloseoutKept WritersKept
PROPERTIES AllocationSpec LaunchesStop

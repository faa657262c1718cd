SPECIFICATION Spec
CONSTANTS
 None = None
 Empty = Empty
 File = {f1}
 Reader = {r1, r2}
 MaxTries = 1
 MaxGen = 2
 MaxBuildId = 3
 MaxFaults = 0
INVARIANT ReadersShareTheLog
CHECK_DEADLOCK FALSE

SPECIFICATION Spec
CONSTANTS
 None = None
 Proc = {"new"}
 Version = {2, 3}
 VersionOf <- OldAndNew
 Script <- Scripts
 MaxStarts = 1
 MaxCrash = 0
 MaxQueue = 2
 MaxSignals = 2
INVARIANT WorkerLives
CHECK_DEADLOCK FALSE

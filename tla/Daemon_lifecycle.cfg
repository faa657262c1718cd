SPECIFICATION FairSpec
CONSTANTS
 None = None
 Proc = {"old", "new"}
 Version = {2, 3}
 VersionOf <- OldAndNew
 Script <- Scripts
 MaxStarts = 3
 MaxCrash = 1
 MaxQueue = 1
 MaxSignals = 2
INVARIANTS TypeOK OneWriter SocketIsOwn StampedIsWhole OwnShape
PROPERTIES NoStaleLock OthersKept StopEnds
CHECK_DEADLOCK FALSE

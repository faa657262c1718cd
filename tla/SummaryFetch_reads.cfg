SPECIFICATION FairSpec
CONSTANTS
 Version = {"long", "edge", "small", "bare", "cut", "empty"}
 Size <- Sizes
 Start <- Starts
 Gone = "gone"
 Backend <- Backends
 HeadLen = 1
 FootLen = 2
 Attempts = 6
 MaxWrites = 3
INVARIANTS TypeOK BodySpared SoundIsRead
PROPERTIES ReadEnds
CHECK_DEADLOCK FALSE

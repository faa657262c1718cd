SPECIFICATION FairSpec
CONSTANTS
 None = None
 Req = {r1, r2}
 MaxPending = 1
 Deadline = 1
 Margin = 2
 Patience = 1
 MaxTime = 5
INVARIANTS TypeOK NoLateLanding PermitsBalance
PROPERTIES EditsAreServed NoBeginAfterTimeout EveryoneAnswered
CHECK_DEADLOCK FALSE

SPECIFICATION FairSpec
CONSTANTS
 Path = {"a.mcap","b.mcap","a.part"}
 Catalogable = {"a.mcap","b.mcap"}
 Recordable = {"a.mcap","a.part"}
 MaxOps = 3
 MaxCrash = 1
 MaxFaults = 2
INVARIANTS TypeOK NothingForgotten DeleteThenCatalog
PROPERTIES Settles
CHECK_DEADLOCK FALSE

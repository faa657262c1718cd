SPECIFICATION Spec
CONSTANTS
 acme = acme
 bolt = bolt
 dock = dock
 arm = arm
 log = log
 f1 = f1
 t1 = t1
 t2 = t2
 s1 = s1
 s2 = s2
 File <- TwoFiles
 Content <- Channels
 Messages <- Counts
 Breaks = {"dims", "auto", "txn", "edit", "crash"}
 MaxFaults = 2
SYMMETRY Symmetry
INVARIANTS TypeOK CacheSound RowsMeanTheirFile NoDanglingId
PROPERTIES IdsAreStable NamesComeAndGo

SPECIFICATION FairSpec
CONSTANTS
 None = None
 k1 = k1
 k2 = k2
 k3 = k3
 i1 = i1
 i2 = i2
 good = good
 fine = fine
 torn = torn
 junk = junk
 Key = {k1, k2, k3}
 Path = {k1, k2}
 Dims <- LocalDims
 Intended <- Override
 Ident = {i1, i2}
 Version = {good, fine, junk}
 Tag = {t}
 Readable = {good, fine}
 Coherent = {good, fine}
 Local = TRUE
 Breaks = {"stat", "record", "list", "read", "head", "abort", "crash"}
 ContentHash = FALSE
 Removable = {k1, k2}
 MaxOps = 2
 MaxFaults = 1
 MaxDups = 1
INVARIANTS SkipSound
PROPERTIES NoLiveRowSwept Converges

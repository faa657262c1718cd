SPECIFICATION Spec
CONSTANTS
 None = None
 k1 = k1
 k2 = k2
 k3 = k3
 i1 = i1
 i2 = i2
 good = good
 fine = fine
 torn = torn
 junk = junk
 Key = {k1, k2}
 Path = {k1, k2}
 Dims <- S3Dims
 Intended <- NoOverride
 Ident = {i1, i2}
 Version = {good, torn, junk}
 Tag = {t}
 Readable = {good, torn}
 Coherent = {good}
 Local = FALSE
 Breaks = {"stat", "record", "list", "read", "head", "abort", "crash"}
 ContentHash = TRUE
 Removable = {k1, k2}
 MaxOps = 3
 MaxFaults = 1
 MaxDups = 1
INVARIANTS TypeOK NeverBoth
PROPERTIES OutcomeHonest

SPECIFICATION Spec
CONSTANTS
 None = None
 k1 = k1
 k2 = k2
 k3 = k3
 i1 = i1
 i2 = i2
 good = good
 fine = fine
 torn = torn
 junk = junk
 Key = {k1, k2, k3}
 Path = {k1}
 Dims <- LocalDims
 Intended <- Override
 Ident = {i1, i2}
 Version = {good, fine}
 Tag = {t}
 Readable = {good, fine}
 Coherent = {good, fine}
 Local = TRUE
 Breaks = {"record"}
 ContentHash = FALSE
 Removable = {}
 MaxOps = 1
 MaxFaults = 1
 MaxDups = 0
PROPERTIES OnlyTheGoneSwept

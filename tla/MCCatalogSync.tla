--------------------------- MODULE MCCatalogSync ---------------------------
(* Small instances of CatalogSync for TLC.                                 *)
EXTENDS CatalogSync

CONSTANTS k1, k2, k3, i1, i2, good, fine, torn, junk

(* Object storage: every key is a Hive key, and the key is authoritative.  *)
S3Dims     == [k \in Key |-> IF k = k1 THEN i1 ELSE i2]
NoOverride == [v \in Version |-> None]

(* A local folder: k1 is a flat path, k2 a Hive path, k3 a key that only   *)
(* occurs in s3_key records; content "fine" names k3, "good" has no record.*)
LocalDims == [k \in Key |-> CASE k = k1 -> None [] k = k2 -> i1 [] OTHER -> i2]
Override  == [v \in Version |-> IF v = fine THEN k3 ELSE None]
=============================================================================

---------------------------- MODULE MCCatalogIds ----------------------------
(* Small instances of CatalogIds for TLC.                                  *)
EXTENDS CatalogIds, TLC

CONSTANTS acme, bolt, dock, arm, log, f1, t1, t2, s1, s2

(* Two customers with a site and a robot of the same names.                *)
TwoFiles ==
    {[customer |-> c, site |-> dock, robot |-> arm, source |-> log, name |-> f1]
        : c \in {acme, bolt}}

(* No channel at all; or three, one without messages and two of one topic  *)
(* under different schemas, whose counts together need a second byte.      *)
Channels == {{}, {<<t1, s1>>, <<t2, s1>>, <<t2, s2>>}}
Counts   == [c \in UNION Channels |->
                CASE c = <<t1, s1>> -> 0 [] c = <<t2, s1>> -> 127 [] c = <<t2, s2>> -> 173]

(* The two customers play the same part.                                   *)
Symmetry == Permutations({acme, bolt})
=============================================================================

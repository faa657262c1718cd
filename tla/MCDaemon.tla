------------------------------ MODULE MCDaemon ------------------------------
(* Small instances of Daemon for TLC.                                      *)
EXTENDS Daemon

(* Two builds of the program, one schema version apart.                    *)
OldAndNew == [p \in Proc |-> IF p = "old" THEN 2 ELSE 3]
(* Version 3 brought build_metadata.                                       *)
Scripts == [v \in {2, 3} |-> IF v = 2 THEN <<"schema_version", "files">>
                             ELSE <<"schema_version", "build_metadata", "files">>]
=============================================================================

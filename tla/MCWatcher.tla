----------------------------- MODULE MCWatcher ------------------------------
(* Small instances of Watcher for TLC; the cfgs give its constants.        *)
EXTENDS Watcher
=============================================================================

----------------------------- MODULE MCPublish ------------------------------
(* Small instances of Publish for TLC; the cfgs give its constants.        *)
EXTENDS Publish, TLC

\* Connections are interchangeable, and so are recordings.
Symmetry == Permutations(Reader) \cup Permutations(File)
=============================================================================

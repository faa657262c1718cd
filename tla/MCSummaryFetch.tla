--------------------------- MODULE MCSummaryFetch ---------------------------
(* Small instances of SummaryFetch for TLC.                                *)
EXTENDS SummaryFetch

(* A long object whose summary takes two fills and ends inside a buffer;   *)
(* one whose summary starts where the window ends and ends with a buffer;  *)
(* one of nothing but head, summary and footer, as long as the window; one *)
(* without a summary; one cut off before its footer; and an empty one.     *)
Layouts == [long |-> [size |-> 16, start |-> 8], edge |-> [size |-> 10, start |-> 4],
            small |-> [size |-> 4, start |-> 1],
            bare |-> [size |-> 8, start |-> 0], cut |-> [size |-> 1, start |-> 0],
            empty |-> [size |-> 0, start |-> 0]]
Sizes  == [v \in DOMAIN Layouts |-> Layouts[v].size]
Starts == [v \in DOMAIN Layouts |-> Layouts[v].start]

(* S3, with a window smaller than the buffer; GCS, without one.            *)
Backends == {[window |-> 4, buffer |-> 6], [window |-> 0, buffer |-> 3]}
=============================================================================

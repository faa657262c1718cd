---------------------------- MODULE NamedCatalog ----------------------------
(***************************************************************************)
(* What a reader who joins files with the lookup tables may take the       *)
(* catalog for: at most one row per recording, under the names its key     *)
(* spells, with the topics of its file.  There are no ids, no caches and   *)
(* no transactions here; CatalogIds is shown to implement it.              *)
(***************************************************************************)
CONSTANTS
    File,       \* identities: records [customer, site, robot, source, name]
    Content     \* channel lists: sets of <<topic, schema>>

VARIABLES
    rows,       \* records [file, topics]
    pass,       \* the reconcile that is running: what it listed
    sure        \* nothing came that voids the promise

\* A topic of several channels has one of their schemas.
OneSchemaEach(ch) ==
    {ts \in SUBSET ch : \A c \in ch : \E m \in ts : \A n \in ts : n[1] = c[1] <=> n = m}

Others(f) == {r \in rows : r.file # f}

NoPass == [on |-> FALSE, listed |-> {}]

\* A recording is cataloged, for the first time or again.
Write(f, ch) ==
    /\ \E ts \in OneSchemaEach(ch) : rows' = Others(f) \cup {[file |-> f, topics |-> ts]}
    /\ pass' = pass

\* A recording is deleted or quarantined.
Remove(f) == rows' = Others(f) /\ pass' = pass

\* A reconcile lists the folder or bucket ...
List(listed) == ~pass.on /\ pass' = [on |-> TRUE, listed |-> listed] /\ rows' = rows

\* ... and ends with its sweep, in one commit, or without one.
Sweep == /\ pass.on
         /\ rows' = {r \in rows : r.file \in pass.listed}
         /\ pass' = NoPass
Abandon == rows' = rows /\ pass' = NoPass

Init == rows = {} /\ pass = NoPass /\ sure = TRUE

Next ==
    \/ /\ sure = TRUE /\ sure' = TRUE
       /\ \/ \E f \in File : Remove(f) \/ \E ch \in Content : Write(f, ch)
          \/ (\E listed \in SUBSET File : List(listed)) \/ Sweep \/ Abandon
    \/ sure' = FALSE

Spec == Init /\ [][Next]_<<rows, pass, sure>>
=============================================================================

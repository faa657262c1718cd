----------------------------- MODULE SchemaGate -----------------------------
(***************************************************************************)
(* The database file as db.open_db sees it: which tables it has, of which  *)
(* version's shape, and the stamp in schema_version.  open_db looks twice  *)
(* before any DDL, runs schema.sql statement by statement (executescript   *)
(* commits each), stamps and looks again.  The operations say nothing of   *)
(* what else a step changes; Daemon composes them.                         *)
(***************************************************************************)
EXTENDS Naturals, Sequences, SequencesExt

CONSTANTS
    Version,    \* schema versions of the builders in use
    Script,     \* per version, the tables of its schema.sql in order of creation
    None        \* no stamp

ASSUME GateAssumption ==
    /\ Script \in [Version -> Seq(STRING)]
    /\ \A v \in Version : Script[v] # <<>> /\ Head(Script[v]) = "schema_version"
    /\ None \notin Version

VARIABLE db

\* A table is its name and the version whose builder created it.
Table(t, v) == [name |-> t, of |-> v]
Theirs      == Table("theirs", None)
Schema(v)   == {Table(t, v) : t \in ToSet(Script[v])}

DbTypeOK ==
    db \in [exists : BOOLEAN,
            tables : SUBSET ({Theirs} \cup UNION {Schema(v) : v \in Version}),
            stamp  : Version \cup {None}]

NoDb       == [exists |-> FALSE, tables |-> {}, stamp |-> None]
EmptyDb    == [exists |-> TRUE, tables |-> {}, stamp |-> None]
ForeignDb  == [exists |-> TRUE, tables |-> {Theirs}, stamp |-> None]
Built(v)   == [exists |-> TRUE, tables |-> Schema(v), stamp |-> v]
InitialDbs == {NoDb, EmptyDb, ForeignDb} \cup {Built(v) : v \in Version}

DbInit == db \in InitialDbs

HasTable(t) == \E x \in db.tables : x.name = t

\* sqlite3.connect and the PRAGMAs, which touch no table.
DbConnect == db' = [db EXCEPT !.exists = TRUE]

\* _guard_not_foreign_db.
IsForeign == db.tables # {} /\ ~HasTable("schema_version")

\* _validate_existing_version: an unstamped database passes.
IsOther(v) == HasTable("schema_version") /\ db.stamp \notin {v, None}

\* Mutant: the version is only looked at after the script.
RefusedLate(v) == IsForeign
Refused(v) == IsForeign \/ IsOther(v)

\* CREATE TABLE IF NOT EXISTS of the i-th table.
DbCreate(i, v) ==
    db' = IF HasTable(Script[v][i]) THEN db
          ELSE [db EXCEPT !.tables = @ \cup {Table(Script[v][i], v)}]

\* INSERT OR IGNORE INTO schema_version.
DbStamp(v) == db' = IF db.stamp = None THEN [db EXCEPT !.stamp = v] ELSE db

\* The rename of a finished build over whatever was there.
DbPublish(v) == db' = Built(v)
=============================================================================

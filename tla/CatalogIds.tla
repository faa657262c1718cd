----------------------------- MODULE CatalogIds -----------------------------
(***************************************************************************)
(* The id dictionaries of the catalog: the lookup tables customers, sites, *)
(* robots, sources, topic_names, schemas and topic_sets, the in-memory     *)
(* caches of the single writer (db.Caches), and the transactions through   *)
(* which one object becomes a row of files (builder._resolve_ids,          *)
(* _write_file_row, _quarantine_existing, delete_by_key; db.update_tags),  *)
(* alone or in a pass of full_reconcile, which ends with a sweep.          *)
(*                                                                         *)
(* One step here is one statement of the connection.  The connection is    *)
(* never shared, so the steps of an operation interleave with nothing but  *)
(* the ways they can fail; what is watched is what a failure leaves in the *)
(* caches and in the transaction the connection still has open.            *)
(***************************************************************************)
EXTENDS Naturals, FiniteSets, FiniteSetsExt, TopicCounts

CONSTANTS
    File,       \* identities: records [customer, site, robot, source, name]
    Content,    \* channel lists: sets of <<topic, schema>>
    Messages,   \* per channel, its message count
    Breaks,     \* where a statement may fail, among the Break below
    MaxFaults   \* bound: failed statements and crashes

Break == {"dims", "auto", "txn", "edit", "crash"}

ASSUME IdsAssumption ==
    /\ \A f \in File : f = [customer |-> f.customer, site |-> f.site, robot |-> f.robot,
                            source |-> f.source, name |-> f.name]
    /\ \A ch \in Content : \A c \in ch : c = <<c[1], c[2]>> /\ Messages[c] \in Nat
    /\ Breaks \subseteq Break
    /\ MaxFaults \in Nat

VARIABLES
    db,       \* what is committed: the tables and the rows of files
    conn,     \* what the writer's connection sees: db and its open transaction
    cache,    \* db.Caches, one dictionary per lookup table
    pc,       \* the statement the worker is at
    job,      \* the object in hand
    pass,     \* the full_reconcile that is running: the identities it listed
    faults,   \* failed statements and crashes so far
    undone    \* history: a rollback no reload followed: never, now, or before the last load

vars == <<db, conn, cache, pc, job, pass, faults, undone>>

Dimension == {"customers", "sites", "robots", "sources"}
Table     == Dimension \cup {"topic_names", "schemas", "topic_sets"}

(* A lookup table, and the cache of it, is a set of rows [key, id]; the    *)
(* key is what is UNIQUE: the name, with the parent's id where the schema  *)
(* has one; for topic_sets the fingerprint, that is, its members.          *)
Has(rows, key)  == \E r \in rows : r.key = key
IdOf(rows, key) == (CHOOSE r \in rows : r.key = key).id
Ids(rows)       == {r.id : r \in rows}

\* Mutant: ids count from 0.
NextIdFromZero(rows) ==
    IF rows = {} THEN 0
    ELSE 1 + (CHOOSE m \in Ids(rows) : \A n \in Ids(rows) : n <= m)

\* INTEGER PRIMARY KEY without AUTOINCREMENT: one more than the largest.
NextId(rows) ==
    IF rows = {} THEN 1
    ELSE 1 + (CHOOSE m \in Ids(rows) : \A n \in Ids(rows) : n <= m)

NoIds == [t \in Dimension |-> 0]
NoJob == [file |-> <<>>, ids |-> NoIds, left |-> {}, topic |-> 0,
          channel |-> <<>>, members |-> {}, totals |-> <<>>, set |-> 0, content |-> {}]

NoPass == [on |-> FALSE, listed |-> {}]

NoTables == [t \in Table |-> {}]

TypeOK ==
    /\ DOMAIN db = {"tab", "files"} /\ DOMAIN conn = {"tab", "files"}
    /\ \A t \in Table : \A r \in db.tab[t] \cup conn.tab[t] \cup cache[t] :
          DOMAIN r = {"key", "id"} /\ r.id \in Nat \ {0}
    /\ pc \in {"idle", "read", "channels", "schema", "set", "write"} \cup Dimension
    /\ job.ids \in [Dimension -> Nat]
    /\ pass \in [on : BOOLEAN, listed : SUBSET File]
    /\ faults \in 0..MaxFaults /\ undone \in {"never", "now", "before"}

-----------------------------------------------------------------------------
(* Statements.                                                             *)

\* The parent a row must find (PRAGMA foreign_keys = ON).
ParentThere(tab, t, key) ==
    CASE t = "sites"      -> key[1] \in Ids(tab["customers"])
      [] t = "robots"     -> key[1] \in Ids(tab["sites"])
      [] t = "topic_sets" -> \A m \in key : /\ m[1] \in Ids(tab["topic_names"])
                                            /\ m[2] \in Ids(tab["schemas"])
      [] OTHER -> TRUE

\* INSERT OR IGNORE after a cache miss; a cache hit touches no table.
RowsAfter(t, key) ==
    IF Has(cache[t], key) \/ Has(conn.tab[t], key) THEN conn.tab[t]
    ELSE conn.tab[t] \cup {[key |-> key, id |-> NextId(conn.tab[t])]}

\* The statement is refused: the row is new and its parent is missing.
Refused(t, key) ==
    /\ ~Has(cache[t], key) /\ ~Has(conn.tab[t], key)
    /\ ~ParentThere(conn.tab, t, key)

ResolvedId(t, key) ==
    IF Has(cache[t], key) THEN IdOf(cache[t], key) ELSE IdOf(RowsAfter(t, key), key)

\* resolve_customer ... resolve_topic_set: cache, else insert and look up.
ConnAfter(t, key)  == [conn EXCEPT !.tab[t] = RowsAfter(t, key)]
CacheAfter(t, key) == [cache EXCEPT ![t] = @ \cup {[key |-> key, id |-> ResolvedId(t, key)]}]

\* load_caches.
Load(d) == d.tab

\* The caches are what is committed again.
Reload ==
    /\ cache' = Load(db)
    /\ undone' = IF undone = "now" THEN "before" ELSE undone

\* What is open on the connection is lost, and the caches are not reloaded.
Undo ==
    /\ conn' = db
    /\ undone' = IF conn # db THEN "now" ELSE undone

AtRest == pc' = "idle" /\ job' = NoJob

-----------------------------------------------------------------------------
(* The dimensions (_resolve_ids), then the commit.                         *)

\* An event names one object; a pass takes those it listed.
Begin(f) ==
    /\ pc = "idle"
    /\ pass.on => f \in pass.listed
    /\ job' = [NoJob EXCEPT !.file = f]
    /\ pc' = "customers"
    /\ UNCHANGED <<db, conn, cache, pass, faults, undone>>

DimKey(t) ==
    CASE t = "customers" -> <<0, job.file.customer>>
      [] t = "sites"     -> <<job.ids["customers"], job.file.site>>
      [] t = "robots"    -> <<job.ids["sites"], job.file.robot>>
      [] t = "sources"   -> <<0, job.file.source>>

NextPc == [customers |-> "sites", sites |-> "robots", robots |-> "sources",
           sources |-> "read"]

ResolveDim(t) ==
    /\ pc = t
    /\ ~Refused(t, DimKey(t))
    /\ conn' = ConnAfter(t, DimKey(t))
    /\ cache' = CacheAfter(t, DimKey(t))
    /\ job' = [job EXCEPT !.ids[t] = ResolvedId(t, DimKey(t))]
    /\ pc' = NextPc[t]
    /\ db' = IF t = "sources" THEN conn' ELSE db
    /\ UNCHANGED <<pass, faults, undone>>

(* An error out of _resolve_ids, which guards nothing, ends the operation  *)
(* and the pass it belongs to: the worker logs it and takes the next event.*)
Escapes == AtRest /\ pass' = NoPass

(* A refused insert.  The transaction stays open, the caches keep what the *)
(* earlier statements put there.                                           *)
DimRefused(t) ==
    /\ pc = t
    /\ Refused(t, DimKey(t))
    /\ Escapes
    /\ UNCHANGED <<db, conn, cache, faults, undone>>

-----------------------------------------------------------------------------
(* The per-file transaction (_write_file_row).                             *)

Composite(ids, f) == <<ids["customers"], ids["sites"], ids["robots"], ids["sources"], f.name>>

\* Mutant: a file name stands for one recording.
RowsOfName(d, c) == {r \in d.files : r.comp[5] = c[5]}

RowsOf(d, c) == {r \in d.files : r.comp = c}

\* The fingerprint is unchanged: nothing more to do.
Skip ==
    /\ pc = "read"
    /\ RowsOf(conn, Composite(job.ids, job.file)) # {}
    /\ AtRest
    /\ UNCHANGED <<db, conn, cache, pass, faults, undone>>

\* _quarantine_existing on connection state d: the row goes, in one commit.
QuarantineFrom(d) ==
    /\ conn' = [d EXCEPT !.files = @ \ RowsOf(d, Composite(job.ids, job.file))]
    /\ db' = conn'
    /\ AtRest
    /\ pass' = pass

ReadError ==
    /\ pc = "read"
    /\ QuarantineFrom(conn)
    /\ UNCHANGED <<cache, faults, undone>>

\* The summary is read.
ReadSummary(ch) ==
    /\ pc = "read"
    /\ job' = [job EXCEPT !.left = ch, !.content = ch]
    /\ pc' = "channels"
    /\ UNCHANGED <<db, conn, cache, pass, faults, undone>>

\* resolve_topic of the next channel, in whatever order the file lists them.
ResolveTopic(c) ==
    /\ pc = "channels"
    /\ c \in job.left
    /\ LET key == <<0, c[1]>>
       IN  /\ conn' = ConnAfter("topic_names", key)
           /\ cache' = CacheAfter("topic_names", key)
           /\ job' = [job EXCEPT !.left = @ \ {c}, !.channel = c,
                                 !.topic = ResolvedId("topic_names", key)]
    /\ pc' = "schema"
    /\ UNCHANGED <<db, pass, faults, undone>>

\* The count of a topic is that of all its channels.
Counted(totals, t, n) ==
    [x \in DOMAIN totals \cup {t} |->
        (IF x \in DOMAIN totals THEN totals[x] ELSE 0) + (IF x = t THEN n ELSE 0)]

\* Mutant: every channel becomes a member of the topic set.
ResolveSchemaEach ==
    /\ pc = "schema"
    /\ LET key == <<0, job.channel[2]>>
       IN  /\ conn' = ConnAfter("schemas", key)
           /\ cache' = CacheAfter("schemas", key)
           /\ job' = [job EXCEPT
                 !.totals = Counted(@, job.topic, Messages[job.channel]),
                 !.members = @ \cup {<<job.topic, ResolvedId("schemas", key)>>}]
    /\ pc' = IF job.left = {} THEN "set" ELSE "channels"
    /\ UNCHANGED <<db, pass, faults, undone>>

\* resolve_schema; a topic listed twice keeps its first schema.
ResolveSchema ==
    /\ pc = "schema"
    /\ LET key == <<0, job.channel[2]>>
       IN  /\ conn' = ConnAfter("schemas", key)
           /\ cache' = CacheAfter("schemas", key)
           /\ job' = [job EXCEPT
                 !.totals = Counted(@, job.topic, Messages[job.channel]),
                 !.members = IF \E m \in @ : m[1] = job.topic THEN @
                             ELSE @ \cup {<<job.topic, ResolvedId("schemas", key)>>}]
    /\ pc' = IF job.left = {} THEN "set" ELSE "channels"
    /\ UNCHANGED <<db, pass, faults, undone>>

\* Mutant: the caches are not reloaded.
RollbackOnly ==
    /\ QuarantineFrom(db)
    /\ UNCHANGED <<cache, undone>>

\* The except branch: roll back, reload the caches, quarantine.
Rollback ==
    /\ Reload
    /\ QuarantineFrom(db)

\* resolve_topic_set.  A refused member is one more way into the except branch.
ResolveSet ==
    /\ pc = "set" \/ (pc = "channels" /\ job.left = {})
    /\ IF Refused("topic_sets", job.members)
         THEN Rollback
         ELSE /\ conn' = ConnAfter("topic_sets", job.members)
              /\ cache' = CacheAfter("topic_sets", job.members)
              /\ job' = [job EXCEPT !.set = ResolvedId("topic_sets", job.members)]
              /\ pc' = "write"
              /\ UNCHANGED <<db, pass, undone>>
    /\ UNCHANGED faults

\* Mutant: foreign keys are not enforced for files.
RowParentsUnchecked == TRUE

\* The parents of the row of files.
RowParentsThere ==
    /\ \A t \in Dimension : job.ids[t] \in Ids(conn.tab[t])
    /\ job.set \in Ids(conn.tab["topic_sets"])

(* The count check, the upsert, the commit; or the except branch.  sums    *)
(* says whether the counts of the summary add up.                          *)
WriteRow(sums) ==
    /\ pc = "write"
    /\ IF sums /\ RowParentsThere
         THEN LET c == Composite(job.ids, job.file)
              IN  /\ conn' = [conn EXCEPT !.files = (@ \ RowsOf(conn, c)) \cup
                        {[comp |-> c, set |-> job.set, counts |-> Blob(job.totals),
                          file |-> job.file, content |-> job.content]}]
                  /\ db' = conn'
                  /\ AtRest
                  /\ UNCHANGED <<cache, pass, undone>>
         ELSE Rollback
    /\ UNCHANGED faults

-----------------------------------------------------------------------------
(* Between objects.  The ids of an identity from the caches alone, 0 where *)
(* they have none (delete_by_key, and _composite_ids of the sweep).        *)
CachedIds(f) ==
    LET id(t, key) == IF Has(cache[t], key) THEN IdOf(cache[t], key) ELSE 0
        c == id("customers", <<0, f.customer>>)
        s == id("sites", <<c, f.site>>)
    IN  [customers |-> c, sites |-> s, robots |-> id("robots", <<s, f.robot>>),
         sources |-> id("sources", <<0, f.source>>)]

Cached(f) == \A t \in Dimension : CachedIds(f)[t] # 0
CachedKey(f) == Composite(CachedIds(f), f)

\* Mutant: a deletion also drops the robots no row refers to any more.
DeletePruning(f) ==
    LET left == conn.files \ RowsOf(conn, CachedKey(f))
    IN  /\ pc = "idle" /\ ~pass.on
        /\ Cached(f)
        /\ conn' = [conn EXCEPT !.files = left,
                       !.tab["robots"] = {x \in @ : \E y \in left : y.comp[3] = x.id}]
        /\ db' = conn'
        /\ UNCHANGED <<cache, pc, job, pass, faults, undone>>

\* delete_by_key.
Delete(f) ==
    /\ pc = "idle" /\ ~pass.on
    /\ Cached(f)
    /\ conn' = [conn EXCEPT !.files = @ \ RowsOf(conn, CachedKey(f))]
    /\ db' = conn'
    /\ UNCHANGED <<cache, pc, job, pass, faults, undone>>

\* full_reconcile lists the folder or bucket.
List(listed) ==
    /\ pc = "idle" /\ ~pass.on
    /\ pass' = [on |-> TRUE, listed |-> listed]
    /\ UNCHANGED <<db, conn, cache, pc, job, faults, undone>>

(* The deletion sweep: every row whose composite key is not that of an     *)
(* object of the listing goes, in one commit, which ends the pass.         *)
Sweep ==
    /\ pc = "idle" /\ pass.on
    /\ LET present == {CachedKey(f) : f \in {g \in pass.listed : Cached(g)}}
       IN  conn' = [conn EXCEPT !.files = {r \in @ : r.comp \in present}]
    /\ db' = conn'
    /\ pass' = NoPass
    /\ UNCHANGED <<cache, pc, job, faults, undone>>

\* update_tags commits whatever the connection has open ...
EditTags ==
    /\ pc = "idle" /\ ~pass.on
    /\ db.files # {}
    /\ db' = conn
    /\ UNCHANGED <<conn, cache, pc, job, pass, faults, undone>>

-----------------------------------------------------------------------------
(* Failures.                                                               *)

Fault(b) == b \in Breaks /\ faults < MaxFaults /\ faults' = faults + 1

\* ... and rolls it back when one of its own statements fails.  Nothing
\* reloads the caches.
EditFault ==
    /\ Fault("edit")
    /\ pc = "idle" /\ ~pass.on
    /\ db.files # {}
    /\ Undo
    /\ UNCHANGED <<db, cache, pc, job, pass>>

\* A statement of _resolve_ids fails and the transaction stays open.
DimFault ==
    /\ Fault("dims")
    /\ pc \in Dimension
    /\ Escapes
    /\ UNCHANGED <<db, conn, cache, undone>>

\* The same, with an error at which SQLite itself rolls back (disk, memory).
DimAutoRollback ==
    /\ Fault("auto")
    /\ pc \in Dimension
    /\ Escapes
    /\ Undo
    /\ UNCHANGED <<db, cache>>

\* A statement inside the per-file transaction fails.
TxnFault ==
    /\ Fault("txn")
    /\ pc \in {"channels", "schema", "set", "write"}
    /\ Rollback

Crash ==
    /\ Fault("crash")
    /\ conn' = db
    /\ Reload
    /\ Escapes
    /\ UNCHANGED db

-----------------------------------------------------------------------------
Init ==
    /\ db = [tab |-> NoTables, files |-> {}]
    /\ conn = db
    /\ cache = NoTables
    /\ pc = "idle"
    /\ job = NoJob /\ pass = NoPass
    /\ faults = 0 /\ undone = "never"

Next ==
    \/ \E f \in File : Begin(f) \/ Delete(f)
    \/ \E t \in Dimension : ResolveDim(t) \/ DimRefused(t)
    \/ Skip \/ ReadError
    \/ \E ch \in Content : ReadSummary(ch)
    \/ \E c \in job.left : ResolveTopic(c)
    \/ ResolveSchema \/ ResolveSet
    \/ \E sums \in BOOLEAN : WriteRow(sums)
    \/ (\E listed \in SUBSET File : List(listed)) \/ Sweep
    \/ EditTags
    \/ EditFault \/ DimFault \/ DimAutoRollback \/ TxnFault \/ Crash

Spec == Init /\ [][Next]_vars

-----------------------------------------------------------------------------
(* Properties.                                                             *)

(* builder.py:13: "ids inserted inside the rolled-back transaction can     *)
(* never poison the caches": every id a cache holds is the id its key has  *)
(* in the table the writer sees.                                           *)
NeverPoisoned == \A t \in Table : cache[t] \subseteq conn.tab[t]

(* For as long as every rollback is followed by a reload, after a failed   *)
(* per-file transaction, after a failed dimension insert whose transaction *)
(* stays open, after a crash, the caches are the dictionaries the writer   *)
(* sees (builder.py:228-236): no id in them is of another row, and a       *)
(* deletion, which asks them alone, misses none (builder.py:363).          *)
CacheSound == undone # "now" => cache = conn.tab

\* The key the id stands for in a table, and the name in it.
KeyOf(tab, t, id)  == (CHOOSE r \in tab[t] : r.id = id).key
NameOf(tab, t, id) == KeyOf(tab, t, id)[2]

\* The topics of a row, and their names and schemas, as a reader's joins give them.
TopicIds(tab, r) == {m[1] : m \in KeyOf(tab, "topic_sets", r.set)}
TopicsOf(tab, r) == {<<NameOf(tab, "topic_names", m[1]), NameOf(tab, "schemas", m[2])>> :
                       m \in KeyOf(tab, "topic_sets", r.set)}

\* The ids of a row lead back to the names in its key and the channels in its file.
NamesSayItsFile(tab, r) ==
    /\ KeyOf(tab, "customers", r.comp[1]) = <<0, r.file.customer>>
    /\ KeyOf(tab, "sites", r.comp[2]) = <<r.comp[1], r.file.site>>
    /\ KeyOf(tab, "robots", r.comp[3]) = <<r.comp[2], r.file.robot>>
    /\ KeyOf(tab, "sources", r.comp[4]) = <<0, r.file.source>>
    /\ r.comp[5] = r.file.name
    /\ TopicsOf(tab, r) \subseteq r.content
    /\ {c[1] : c \in TopicsOf(tab, r)} = {c[1] : c \in r.content}
    /\ \A c, d \in TopicsOf(tab, r) : c[1] = d[1] => c = d

\* Its counts, in the order of the topic ids, are those of the channels of each topic.
CountsSayItsFile(tab, r) ==
    LET counts == DecodeCounts(r.counts)
        nth(t) == Cardinality({u \in TopicIds(tab, r) : u <= t})
    IN  /\ Len(counts) = Cardinality(TopicIds(tab, r))
        /\ \A t \in TopicIds(tab, r) : counts[nth(t)] =
              MapThenSumSet(LAMBDA c : Messages[c],
                            {c \in r.content : c[1] = NameOf(tab, "topic_names", t)})

(* A row of files says what the object said: following its ids through the *)
(* lookup tables gives back the customer, site, robot and source of its    *)
(* key; its topic set is, name for name, the channels of its file; and its *)
(* counts, read back in the order of the topic ids, are those of the file. *)
(* That holds until a rollback leaves the caches as they were.             *)
RowsMeanTheirFile ==
    undone = "never" =>
        \A r \in db.files : NamesSayItsFile(db.tab, r) /\ CountsSayItsFile(db.tab, r)

(* Whatever failed before, and even with a poisoned cache, no committed    *)
(* row refers to an id that is not there.                                  *)
NoDanglingId ==
    /\ \A t \in Table : \A r \in db.tab[t] : ParentThere(db.tab, t, r.key)
    /\ \A r \in db.files : /\ r.comp[1] \in Ids(db.tab["customers"])
                           /\ r.comp[2] \in Ids(db.tab["sites"])
                           /\ r.comp[3] \in Ids(db.tab["robots"])
                           /\ r.comp[4] \in Ids(db.tab["sources"])
                           /\ r.set \in Ids(db.tab["topic_sets"])

(* A committed id keeps its meaning for as long as the database lives: no  *)
(* step drops, renumbers or reuses a committed lookup row, so a reader may *)
(* hold on to ids between two of its queries (builder.py:142, append-only).*)
IdsAreStable ==
    [][\A t \in Table : db.tab[t] \subseteq db'.tab[t]
          /\ \A r, s \in db'.tab[t] : r.id = s.id => r = s]_vars

-----------------------------------------------------------------------------
(* The catalog without its ids.                                            *)

\* What a row says once its ids are followed.
NamedRow(tab, r) ==
    [file   |-> [customer |-> NameOf(tab, "customers", r.comp[1]),
                 site     |-> NameOf(tab, "sites", r.comp[2]),
                 robot    |-> NameOf(tab, "robots", r.comp[3]),
                 source   |-> NameOf(tab, "sources", r.comp[4]),
                 name     |-> r.comp[5]],
     topics |-> TopicsOf(tab, r)]

Named == INSTANCE NamedCatalog WITH
             rows <- {NamedRow(db.tab, r) : r \in db.files},
             sure <- undone = "never"

(* Until a rollback leaves the caches as they were, whoever reads the      *)
(* committed catalog by names sees recordings come and go one at a time,   *)
(* but for a sweep, which takes those its pass did not list and no other:  *)
(* an upsert or a deletion by ids touches the row of that recording alone, *)
(* and a commit of lookup rows, a rollback, a reload, a tag edit that      *)
(* commits what is open, or a crash touches none (builder.py:187,          *)
(* reconcile.py:138).                                                      *)
NamesComeAndGo == Named!Spec
=============================================================================

---------------------------- MODULE CatalogSync ----------------------------
(***************************************************************************)
(* The catalog writer against a bucket that changes under it: the single   *)
(* worker thread (__main__.worker_loop), the per-object operations         *)
(* (builder.catalog_object, builder.delete_by_key) and the full pass       *)
(* (reconcile.full_reconcile) with its pool of reader threads.             *)
(*                                                                         *)
(* A database transaction is one step here (CatalogIds opens it up).  What *)
(* is kept apart is every look at the bucket: stat, the in-file override,  *)
(* the summary read, the listing of each key, the HEAD after a failed      *)
(* read.  The bucket may change between any two of them.                   *)
(***************************************************************************)
EXTENDS Naturals, FiniteSets

CONSTANTS
    Key,          \* object keys: those of the bucket and those in s3_key records
    Path,         \* the keys objects are stored under
    Ident,        \* composite identities (customer, site, robot, source, date, filename)
    Version,      \* contents an object may have
    Tag,          \* values of the one user tag that is followed
    None,         \* "nothing" in every sort
    Dims,         \* Dims[k]: the identity key k parses and round-trips to, or None
    Intended,     \* Intended[v]: the key content v carries in its s3_key record, or None
    Readable,     \* contents whose MCAP summary can be read
    Coherent,     \* readable contents whose channel counts sum to message_count
    ContentHash,  \* TRUE: the change token is a hash of the content (S3 ETag);
                  \* FALSE: it is new at every write (GCS generation, local mtime)
    Local,        \* TRUE: a local folder (LocalSource), whose files may carry an
                  \* s3_key record; FALSE: object storage, where the key is the record
    Removable,    \* keys that may be removed from the bucket
    Breaks,       \* the kinds of fault that occur
    MaxOps,       \* bound: writes and removals of the bucket
    MaxFaults,    \* bound: transient errors and crashes
    MaxDups       \* bound: notifications delivered again

Token  == [ver : Version \cup {None}, gen : Nat]
Object == [tok : Token, ver : Version]
Row    == [tok : Token, ver : Version, ovr : Tag \cup {None}, src : Path]

Break == {"stat", "record", "list", "read", "head", "abort", "crash"}

ASSUME NoneAssumption ==
    None \notin Key \cup Ident \cup Version \cup Tag \cup Token \cup Object \cup Row

ASSUME ParamAssumption ==
    /\ Dims \in [Key -> Ident \cup {None}]
    /\ Path \subseteq Key
    /\ Intended \in [Version -> Key \cup {None}]
    /\ Coherent \subseteq Readable
    /\ Readable \subseteq Version
    /\ ContentHash \in BOOLEAN
    /\ Local \in BOOLEAN
    /\ Local \/ \A v \in Version : Intended[v] = None
    /\ Breaks \subseteq Break
    /\ Removable \subseteq Path
    /\ MaxOps \in Nat /\ MaxFaults \in Nat /\ MaxDups \in Nat

VARIABLES
    bucket,    \* the storage: Key -> Object or None
    ops,       \* writes and removals so far
    notes,     \* notifications not yet handled by the worker
    files,     \* table files (with tags_override): Ident -> Row or None
    failures,  \* table catalog_failures: the keys in it
    build,     \* build_metadata.build_outcome
    phase,     \* the worker: waiting, in catalog_object, in full_reconcile
    work,      \* per key, how far the operation in hand has come
    failed,    \* tally["failed"] > 0 in the reconcile in hand
    steady,    \* history: the claims that have stood ever since the pass began
               \* and that no failing look of the pass has mistaken
    faults,    \* transient errors and crashes so far
    dups       \* repeated deliveries so far

vars == <<bucket, ops, notes, files, failures, build, phase, work, failed,
          steady, faults, dups>>

envVars == <<bucket, ops, notes, dups>>
dbVars  == <<files, failures, build>>

Note == [kind : {"catalog", "delete"}, key : Path, again : BOOLEAN]

Notice(c, k) == [kind |-> c, key |-> k, again |-> FALSE]

Phase == {"idle", "one", "scan", "stamp"}

(* The progress of a key: the steps of catalog_object ("stat", "dims",     *)
(* "read"), or its place in full_reconcile, from "todo" (not listed yet)   *)
(* to one of the final ones.                                               *)
Final  == {"absent", "unparseable", "skipped", "gone", "done"}
At     == {"none", "stat", "dims", "read", "todo", "listed", "queued",
           "doubt", "ready", "error", "vanished"} \cup Final

Progress == [at : At, tok : Token \cup {None}, eff : Key \cup {None},
             ver : Version \cup {None}]

Untouched == [at |-> "none", tok |-> None, eff |-> None, ver |-> None]
NoWork    == [k \in Path |-> Untouched]
AllToDo   == [k \in Path |-> [Untouched EXCEPT !.at = "todo"]]

TypeOK ==
    /\ bucket \in [Path -> Object \cup {None}]
    /\ ops \in Nat
    /\ notes \subseteq Note
    /\ files \in [Ident -> Row \cup {None}]
    /\ failures \subseteq Key
    /\ build \in {"none", "ok", "partial"}
    /\ phase \in Phase
    /\ work \in [Path -> Progress]
    /\ failed \in BOOLEAN
    /\ steady \subseteq Path \X Ident
    /\ faults \in Nat
    /\ dups \in Nat

-----------------------------------------------------------------------------
(* The storage.                                                            *)

\* The change token of content v written by the n-th operation on the bucket.
TokenOf(v, n) == IF ContentHash THEN [ver |-> v, gen |-> 0]
                                ELSE [ver |-> None, gen |-> n]

\* The key an object is cataloged under: its s3_key record, else its own key.
IntendedKey(b, k) ==
    IF b[k] = None THEN k
    ELSE IF Intended[b[k].ver] = None THEN k ELSE Intended[b[k].ver]

\* Which object of a bucket stands for which identity.
Claims(b) ==
    {c \in Path \X Ident : b[c[1]] # None /\ Dims[IntendedKey(b, c[1])] = c[2]}

Put(k, v) ==
    /\ ops < MaxOps
    /\ ops' = ops + 1
    /\ bucket' = [bucket EXCEPT ![k] = [tok |-> TokenOf(v, ops + 1), ver |-> v]]
    /\ notes' = notes \cup {Notice("catalog", k)}
    /\ steady' = steady \cap Claims(bucket')
    /\ UNCHANGED <<dbVars, phase, work, failed, faults, dups>>

Remove(k) ==
    /\ k \in Removable
    /\ bucket[k] # None
    /\ ops < MaxOps
    /\ ops' = ops + 1
    /\ bucket' = [bucket EXCEPT ![k] = None]
    /\ notes' = notes \cup {Notice("delete", k)}
    /\ steady' = steady \cap Claims(bucket')
    /\ UNCHANGED <<dbVars, phase, work, failed, faults, dups>>

(* A notification never arrives: the watcher was not running, the file was *)
(* not stable in time, the message was acked by a process that crashed.    *)
Lose(n) ==
    /\ n \in notes
    /\ notes' = notes \ {n}
    /\ UNCHANGED <<bucket, ops, dbVars, phase, work, failed, steady, faults, dups>>

-----------------------------------------------------------------------------
(* The writes of the builder.  d is the identity, e the effective key.     *)

\* Mutant: a success leaves the recorded failure.
WriteRowOnly(d, e, k, tok, ver) ==
    /\ files' = [files EXCEPT ![d] =
                   [tok |-> tok, ver |-> ver, src |-> k,
                    ovr |-> IF files[d] = None THEN None ELSE files[d].ovr]]
    /\ UNCHANGED failures

\* Mutant: the token is asked for when the row is written.
WriteRowRestat(d, e, k, tok, ver) ==
    /\ files' = [files EXCEPT ![d] =
                   [tok |-> IF bucket[k] = None THEN tok ELSE bucket[k].tok,
                    ver |-> ver, src |-> k,
                    ovr |-> IF files[d] = None THEN None ELSE files[d].ovr]]
    /\ failures' = failures \ {e}

\* _write_file_row: the upsert keeps the row's overrides, a success clears
\* the failure recorded under the effective key.
WriteRow(d, e, k, tok, ver) ==
    /\ files' = [files EXCEPT ![d] =
                   [tok |-> tok, ver |-> ver, src |-> k,
                    ovr |-> IF files[d] = None THEN None ELSE files[d].ovr]]
    /\ failures' = failures \ {e}

\* Mutant: the failure is recorded under the identity.
QuarantineByIdentity(d, e) ==
    /\ files' = [files EXCEPT ![d] = None]
    /\ failures' = failures \cup {d}

\* _quarantine_existing: the failure and the deletion of the row, one commit.
Quarantine(d, e) ==
    /\ files' = [files EXCEPT ![d] = None]
    /\ failures' = failures \cup {e}

\* Mutant: any row of the identity is taken as current.
UnchangedOnceThere(d, tok) == files[d] # None

\* The row of identity d was written for this very token: nothing to do.
Unchanged(d, tok) == files[d] # None /\ files[d].tok = tok

\* The summary in hand is written, or fails its count check and is rolled back.
Apply(d, e, k, tok, ver) ==
    IF ver \in Coherent THEN WriteRow(d, e, k, tok, ver) ELSE Quarantine(d, e)

-----------------------------------------------------------------------------
(* The event path: one notification at a time, taken when the worker is    *)
(* idle.  A delivery may be repeated.                                      *)

Take(n) ==
    /\ phase = "idle"
    /\ n \in notes
    /\ \/ notes' = notes \ {n} /\ UNCHANGED dups
       \/ /\ dups < MaxDups
          /\ dups' = dups + 1
          /\ notes' = (notes \ {n}) \cup {[n EXCEPT !.again = TRUE]}
    /\ UNCHANGED <<bucket, ops, build, failed, steady, faults>>

TakeCatalog(n) ==
    /\ n.kind = "catalog"
    /\ Take(n)
    /\ phase' = "one"
    /\ work' = [work EXCEPT ![n.key].at = "stat"]
    /\ UNCHANGED <<files, failures>>

(* delete_by_key: the identity comes from the key alone.  A key that does  *)
(* not parse is ignored, failures included; so is one whose dimension ids  *)
(* were never resolved, which therefore has no row.                        *)
TakeDelete(n) ==
    /\ n.kind = "delete"
    /\ Take(n)
    /\ LET d == Dims[n.key]
       IN  \/ /\ d # None
              /\ files' = [files EXCEPT ![d] = None]
              /\ failures' = failures \ {n.key}
           \/ /\ d # None => files[d] = None
              /\ UNCHANGED <<files, failures>>
    /\ UNCHANGED <<phase, work>>

\* The worker is done with the object: cataloged, skipped, failed or gone.
Finish == phase' = "idle" /\ work' = NoWork

CatalogStat(k) ==
    /\ phase = "one" /\ work[k].at = "stat"
    /\ IF bucket[k] = None
         THEN Finish
         ELSE /\ work' = [work EXCEPT ![k].at = "dims", ![k].tok = bucket[k].tok]
              /\ UNCHANGED phase
    /\ UNCHANGED <<envVars, dbVars, failed, steady, faults>>

(* resolve_key_dims and the fingerprint skip.  e is the effective key the  *)
(* source returned.                                                        *)
CatalogResolve(k, e) ==
    /\ phase = "one" /\ work[k].at = "dims"
    /\ IF Dims[e] = None
         THEN failures' = failures \cup {k} /\ Finish
         ELSE /\ IF Unchanged(Dims[e], work[k].tok)
                   THEN Finish
                   ELSE /\ work' = [work EXCEPT ![k].at = "read", ![k].eff = e]
                        /\ UNCHANGED phase
              /\ UNCHANGED failures
    /\ UNCHANGED <<envVars, files, build, failed, steady>>

\* The object's bytes as they are now give a summary.
CanRead(k) == bucket[k] # None /\ bucket[k].ver \in Readable

(* The summary read and the transaction.  Unlike the full pass, an object  *)
(* that went away since the stat is quarantined here like a broken one.    *)
CatalogRead(k) ==
    /\ phase = "one" /\ work[k].at = "read"
    /\ LET e == work[k].eff
       IN  IF CanRead(k)
             THEN Apply(Dims[e], e, k, work[k].tok, bucket[k].ver)
             ELSE Quarantine(Dims[e], e)
    /\ Finish
    /\ UNCHANGED <<envVars, build, failed, steady, faults>>

-----------------------------------------------------------------------------
(* full_reconcile.                                                         *)

BeginScan ==
    /\ phase' = "scan"
    /\ work' = AllToDo
    /\ failed' = FALSE
    /\ steady' = Claims(bucket)

\* The rescan event of rescan_loop.
StartRescan ==
    /\ phase = "idle"
    /\ BeginScan
    /\ UNCHANGED <<envVars, dbVars, faults>>

Scanning(k, s)   == phase = "scan" /\ work[k].at = s
AllListed     == \A k \in Path : work[k].at # "todo"
AllClassified == \A k \in Path : work[k].at \notin {"todo", "listed"}
AllApplied    == \A k \in Path : work[k].at \in Final

(* One key of list_all: a listing is not a snapshot of the bucket.         *)
ListKey(k) ==
    /\ Scanning(k, "todo")
    /\ work' = IF bucket[k] = None
                 THEN [work EXCEPT ![k].at = "absent"]
                 ELSE [work EXCEPT ![k].at = "listed", ![k].tok = bucket[k].tok]
    /\ UNCHANGED <<envVars, dbVars, phase, failed, steady, faults>>

(* One turn of the classify loop: the identity is resolved here, once.     *)
ClassifyKey(k, e) ==
    /\ Scanning(k, "listed") /\ AllListed
    /\ IF Dims[e] = None
         THEN /\ failures' = failures \cup {k}
              /\ failed' = TRUE
              /\ work' = [work EXCEPT ![k].at = "unparseable"]
         ELSE /\ work' = [work EXCEPT
                   ![k].at  = IF Unchanged(Dims[e], work[k].tok)
                                THEN "skipped" ELSE "queued",
                   ![k].eff = e]
              /\ UNCHANGED <<failures, failed>>
    /\ UNCHANGED <<envVars, files, build, phase>>

(* A pool thread reads the summary of a queued object ...                  *)
ExtractRead(k) ==
    /\ Scanning(k, "queued") /\ AllClassified
    /\ work' = IF CanRead(k)
                 THEN [work EXCEPT ![k].at = "ready", ![k].ver = bucket[k].ver]
                 ELSE [work EXCEPT ![k].at = "doubt"]
    /\ UNCHANGED <<envVars, dbVars, phase, failed, steady, faults>>

(* ... and after an error asks once whether the object is still there.     *)
ExtractHead(k) ==
    /\ Scanning(k, "doubt")
    /\ work' = [work EXCEPT ![k].at = IF bucket[k] = None THEN "vanished" ELSE "error"]
    /\ UNCHANGED <<envVars, dbVars, phase, failed, steady, faults>>

(* apply_extract, on the writer thread, in the order the reads complete.   *)
ApplyExtract(k) ==
    /\ phase = "scan"
    /\ LET w == work[k]
       IN  \/ /\ w.at = "ready"
              /\ Apply(Dims[w.eff], w.eff, k, w.tok, w.ver)
              /\ failed' = (failed \/ w.ver \notin Coherent)
              /\ work' = [work EXCEPT ![k].at = "done"]
           \/ /\ w.at = "error"
              /\ Quarantine(Dims[w.eff], w.eff)
              /\ failed' = TRUE
              /\ work' = [work EXCEPT ![k].at = "done"]
           \/ /\ w.at = "vanished"
              /\ failed' = TRUE
              /\ work' = [work EXCEPT ![k].at = "gone"]
              /\ UNCHANGED <<files, failures>>
    /\ UNCHANGED <<envVars, build, phase, steady, faults>>

\* Mutant: the identity is taken from the path, whatever the record says.
PresentByPath == {Dims[k] : k \in {j \in Path : work[j].eff # None}}

\* The identities of the listing; what became of their objects plays no part.
Present == {Dims[work[k].eff] : k \in {j \in Path : work[j].eff # None}}

(* The deletion sweep, one commit.                                         *)
Sweep ==
    /\ phase = "scan" /\ AllApplied
    /\ files' = [i \in Ident |-> IF i \in Present THEN files[i] ELSE None]
    /\ phase' = "stamp"
    /\ UNCHANGED <<envVars, failures, build, work, failed, steady, faults>>

\* Mutant: the tally is not looked at.
StampOk ==
    /\ phase = "stamp"
    /\ build' = "ok"
    /\ Finish
    /\ failed' = FALSE
    /\ steady' = {}
    /\ UNCHANGED <<envVars, files, failures, faults>>

(* record_build, a commit of its own.                                      *)
Stamp ==
    /\ phase = "stamp"
    /\ build' = IF failed THEN "partial" ELSE "ok"
    /\ Finish
    /\ failed' = FALSE
    /\ steady' = {}
    /\ UNCHANGED <<envVars, files, failures, faults>>

-----------------------------------------------------------------------------
(* A client's tag edit: set, or unset of a tag that no embedded tag hides. *)
TagEdit(i, t) ==
    /\ phase = "idle"
    /\ files[i] # None
    /\ files' = [files EXCEPT ![i].ovr = t]
    /\ UNCHANGED <<envVars, failures, build, phase, work, failed, steady, faults>>

-----------------------------------------------------------------------------
(* Transient errors and crashes.                                           *)

Fault(b) == b \in Breaks /\ faults < MaxFaults /\ faults' = faults + 1

\* stat fails.  Object storage raises after its retries and worker_loop drops
\* the event; a local folder answers "gone", with the same effect.
StatFault(k) ==
    /\ Fault("stat")
    /\ phase = "one" /\ work[k].at = "stat"
    /\ Finish
    /\ UNCHANGED <<envVars, dbVars, failed, steady>>

\* The claims that stand although the pass takes object k for identity d.
Taken(k, d) == {c \in steady : c[1] = k => c[2] = d}

\* The in-file override cannot be read: extract_s3_key swallows the error
\* and the path stands for the file.
ResolveFault(k)  == Local /\ Fault("record") /\ CatalogResolve(k, k)
ClassifyFault(k) ==
    /\ Local /\ Fault("record")
    /\ ClassifyKey(k, k)
    /\ steady' = Taken(k, Dims[k])

\* The stat of a file fails while a local folder is listed: LocalSource.stat
\* answers "gone" for any OSError, and list_all leaves the file out.
ListFault(k) ==
    /\ Local /\ Fault("list")
    /\ Scanning(k, "todo")
    /\ bucket[k] # None
    /\ work' = [work EXCEPT ![k].at = "absent"]
    /\ steady' = Taken(k, None)
    /\ UNCHANGED <<envVars, dbVars, phase, failed>>

\* The summary cannot be read although it is there and sound.
ReadFault(k) ==
    /\ Fault("read")
    /\ phase = "one" /\ work[k].at = "read"
    /\ Quarantine(Dims[work[k].eff], work[k].eff)
    /\ Finish
    /\ UNCHANGED <<envVars, build, failed, steady>>

ExtractFault(k) ==
    /\ Fault("read")
    /\ Scanning(k, "queued") /\ AllClassified
    /\ work' = [work EXCEPT ![k].at = "doubt"]
    /\ UNCHANGED <<envVars, dbVars, phase, failed, steady>>

\* The look after a failed read fails too.  A HEAD of object storage raises,
\* and the read error stands; LocalSource.stat answers "gone".
HeadFault(k) ==
    /\ Fault("head")
    /\ Scanning(k, "doubt")
    /\ work' = [work EXCEPT ![k].at = IF Local THEN "vanished" ELSE "error"]
    /\ UNCHANGED <<envVars, dbVars, phase, failed, steady>>

\* Listing or writing raises: worker_loop abandons the pass where it is.
AbortScan ==
    /\ Fault("abort")
    /\ phase \in {"scan", "stamp"}
    /\ Finish
    /\ failed' = FALSE
    /\ steady' = {}
    /\ UNCHANGED <<envVars, dbVars>>

\* The process dies and is started again: what was committed stays, and the
\* startup reconcile runs before anything else.
Crash ==
    /\ Fault("crash")
    /\ BeginScan
    /\ UNCHANGED <<envVars, dbVars>>

-----------------------------------------------------------------------------
\* A daemon started on an empty catalog and an empty bucket.
Init ==
    /\ bucket = [k \in Path |-> None]
    /\ ops = 0
    /\ notes = {}
    /\ files = [i \in Ident |-> None]
    /\ failures = {}
    /\ build = "none"
    /\ phase = "scan" /\ work = AllToDo /\ failed = FALSE
    /\ steady = {}
    /\ faults = 0
    /\ dups = 0

Storage == \/ \E k \in Path, v \in Version : Put(k, v)
           \/ \E k \in Path : Remove(k)
           \/ \E n \in notes : Lose(n)

\* Fault-free steps of the catalog_object in hand.
CatalogStep(k) ==
    \/ CatalogStat(k)
    \/ CatalogResolve(k, IntendedKey(bucket, k)) /\ UNCHANGED faults
    \/ CatalogRead(k)

\* Fault-free steps of the full_reconcile in hand.
ScanStep(k) ==
    \/ ListKey(k)
    \/ ClassifyKey(k, IntendedKey(bucket, k)) /\ UNCHANGED <<steady, faults>>
    \/ ExtractRead(k)
    \/ ExtractHead(k)
    \/ ApplyExtract(k)

Worker == \/ \E n \in notes : TakeCatalog(n) \/ TakeDelete(n)
          \/ \E k \in Path : CatalogStep(k) \/ ScanStep(k)
          \/ StartRescan
          \/ Sweep
          \/ Stamp

Edit == \E i \in Ident, t \in Tag \cup {None} : TagEdit(i, t)

Trouble == \/ \E k \in Path : \/ StatFault(k) \/ ResolveFault(k) \/ ReadFault(k)
                             \/ ListFault(k) \/ ClassifyFault(k) \/ ExtractFault(k) \/ HeadFault(k)
           \/ AbortScan
           \/ Crash

Next == Storage \/ Worker \/ Edit \/ Trouble

Spec == Init /\ [][Next]_vars

(* The worker thread takes its next step whenever it has one, and the      *)
(* rescan timer keeps enqueueing.  Nothing is assumed of the bucket's      *)
(* clients, of the delivery of notifications or of faults.                 *)
FairSpec == Spec /\ WF_vars(Worker)

-----------------------------------------------------------------------------
(* Properties.                                                             *)

(* A file is never both cataloged and failed: no row was written from an   *)
(* object whose key stands in catalog_failures (builder.py:336).           *)
NeverBoth ==
    \A i \in Ident : files[i] # None => files[i].src \notin failures

(* The fingerprint skip is sound: a row that carries its object's current  *)
(* token was written from the object's current content, whatever writes    *)
(* fell between the stat, the read and the commit (REQUIREMENTS.md R4).    *)
SkipSound ==
    \A i \in Ident :
        LET r == files[i]
        IN  (r # None /\ bucket[r.src] # None /\ bucket[r.src].tok = r.tok)
                => r.ver = bucket[r.src].ver

(* The deletion sweep takes no row whose identity some object has claimed  *)
(* all along since the pass began, whatever happened to its content, to    *)
(* its read or to other keys meanwhile (reconcile.full_reconcile).  What   *)
(* is not promised is the row of a local file that the pass itself took    *)
(* for gone, or for another's, by a stat or an s3_key read that failed.    *)
NoLiveRowSwept ==
    [][Sweep => \A c \in steady : files[c[2]] # None => files'[c[2]] # None]_vars

(* "delete catalog rows with no object" (reconcile.py:64): the sweep takes *)
(* no row of an object that is there.                                      *)
OnlyTheGoneSwept ==
    [][Sweep => \A c \in Claims(bucket) : files[c[2]] # None => files'[c[2]] # None]_vars

(* A pass stamped "ok" left a row for every object it listed: no failure   *)
(* of any kind hides behind the outcome the reader shows (record_build).   *)
OutcomeHonest ==
    [][(Stamp /\ build' = "ok") =>
         \A k \in Path : work[k].at # "absent" =>
             work[k].eff # None /\ files[Dims[work[k].eff]] # None]_vars

(* The catalog and the bucket agree: the rows are the sound objects, with  *)
(* their content, and every other object is in catalog_failures.           *)
Sound(k) == bucket[k] # None /\ bucket[k].ver \in Coherent
                /\ Dims[IntendedKey(bucket, k)] # None
InSync ==
    /\ \A i \in Ident : files[i] # None =>
          \E k \in Path : Sound(k) /\ Dims[IntendedKey(bucket, k)] = i
                                  /\ files[i].ver = bucket[k].ver
    /\ \A k \in Path :
          /\ Sound(k) => files[Dims[IntendedKey(bucket, k)]] # None
          /\ (bucket[k] # None /\ ~Sound(k)) =>
                IF Dims[IntendedKey(bucket, k)] = None
                  THEN k \in failures
                  ELSE IntendedKey(bucket, k) \in failures

(* Once the bucket stops changing and the faults stop, the catalog comes   *)
(* to agree with it and stays so, even when notifications were lost,       *)
(* repeated or handled out of order: the rescan heals everything.          *)
Converges == <>[]InSync
=============================================================================

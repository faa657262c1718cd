# Verification of the MCAP catalog builder

TLA+ models of `mcap_catalog_builder`, checked with TLC on small instances and
proved with TLAPS for every value of the constants. Paths are relative to `src/mcap_catalog_builder/`
unless they begin with a document's name.

## The system

The catalog builder keeps a SQLite file in step with a bucket (S3, GCS or a local
folder) of MCAP recordings. One process per database, one thread that writes.

| Component | State it keeps | Operations | Talks to |
|---|---|---|---|
| builder (`builder.py`) | rows of `files`, `catalog_failures` | `catalog_object`, `extract_summary`/`apply_extract`, `delete_by_key`, quarantine | storage, id dictionaries |
| reconcile (`reconcile.py`) | a listing, the work it queued, a tally | `full_reconcile`: list, classify, read on a pool, apply, sweep, stamp | builder, storage |
| id dictionaries (`db.py`, `schema.sql`) | lookup tables and `Caches` of them | `resolve_*`, `load_caches`, `update_tags`, `record_build`, `record_failure` | SQLite |
| schema gate (`db.open_db`) | `schema_version` | refuse, create, stamp | SQLite |
| worker loop (`__main__.py`) | `work_q` | dispatch of catalog, delete, rescan, stop and tag edits; startup and shutdown | all of the above |
| tag-edit endpoint (`tag_ipc.py`) | permits, pending items, the socket file | `do_POST`, `handle_tag_edit` | the worker, by the queue and an event per item |
| watcher (`watcher.py`) | debounce timers | file events to `catalog`/`delete` events | `work_q` |
| SQS producer (`s3_producer.py`) | none | receive, enqueue, acknowledge | `work_q` |
| publish (`publish.py`) | temp build, served file and their WAL files | build aside, carry tags forward, gate, rename | reconcile, readers |
| writer lock (`writer_lock.py`) | a locked file | acquire or fail, release | the kernel |
| storage sources (`storage.py`, `s3_storage.py`, `gcs_storage.py`) | a position in a range reader | `stat`, `list_all`, `open_summary`, `intended_key` | the bucket |
| retry, key parsing, summary, varint | none | pure | |

What is hard in it:

* **The bucket moves.** `stat`, the `s3_key` record, the summary, the listing of
  each key and the HEAD after a failed read are separate looks at something that
  changes between any two of them. Correct means: what is stored under a token
  belongs to that token, the sweep spares what is there, and in the end catalog
  and bucket agree.
* **Everything may fail half way.** Looks and reads fail for a moment (and in a local
  folder pass for "gone" or "no record"), statements fail inside a transaction, the
  process dies between two commits. Correct means: no
  file is cataloged and failed at once, an `ok` stamp hides nothing, the caches
  never hold ids that the tables do not.
* **Clients wait for a single writer** that may be in an hour-long pass. Correct
  means: every client is answered while the process lives, the answer is true, and who
  was told "busy" does not find his edit applied later.
* **Events are lost, repeated and late**, and a rescan must heal what they did.

## Modules

| Module | Models | Proofs |
|---|---|---|
| `CatalogSync` | builder, reconcile and worker loop against a changing bucket | `CatalogSync_proofs` |
| `CatalogIds` | id dictionaries, caches, and what the writer's connection has open; implements `NamedCatalog` | `CatalogIds_proofs` |
| `NamedCatalog` | the catalog a reader sees who follows the ids (abstract): one row per recording, by names | |
| `TopicCounts` | the blob of counts, used by `CatalogIds` | in `CatalogIds_proofs` |
| `EditService` | what a client of the tag-edit endpoint is promised (abstract) | |
| `TagIpc` | handlers and writer of the endpoint; implements `EditService` | `TagIpc_proofs` |
| `Publish` | publish, the daemon around it, and readers of the served path | `Publish_proofs` |
| `Watcher` | the observer, its debounce timers, the stability poll and the worker | `Watcher_proofs` |
| `WriterLock`, `SchemaGate`, `TagSocket` | a lock file, a database as `open_db` sees it, a socket file | in `Daemon_proofs` |
| `Daemon` | the life of builder processes; composes the three | `Daemon_proofs` |
| `SummaryFetch` | range readers, read-ahead and retry under the MCAP reader | `SummaryFetch_proofs` |
| `DataLemmas` | queues, sequences put together from pieces, induction over the naturals and functions defined by it | itself |
| `MC...` | instances for TLC | |

`CatalogSync` sees the watcher and the SQS producer as a set of notifications that may
be lost, repeated and reordered; `Watcher` shows how the watcher makes them. `CatalogSync`
and `Daemon` see a read of a summary as one step that may fail; `SummaryFetch` shows that
step. `CatalogSync`, `CatalogIds` and `Publish` have a single writer; `Daemon` shows
why. `Daemon` sees a publish as one step; `Publish` shows it.

### CatalogSync

State: the bucket (per path, a content and its change token), the notifications in
flight, the table `files` (with one user tag per row, standing for
`tags_override`), the keys in `catalog_failures`, `build_outcome`, and the worker:
idle, in `catalog_object`, or in `full_reconcile`, with the progress of each key.
A row also remembers the path it was written from; no property but `NeverBoth`
and `SkipSound` reads that, and the code keeps no such column.

One action is one look at the bucket or one commit:

* `catalog_object`: `TakeCatalog`, `CatalogStat`, `CatalogResolve`, `CatalogRead`.
* `delete_by_key`: `TakeDelete`. The code resolves ids from the caches alone and
  touches nothing when one is missing; a missing id means there is no row, and the
  failure entry stays, hence the second disjunct.
* `full_reconcile`: `ListKey` per key, `ClassifyKey` per key (with the look at
  the `s3_key` record), `ExtractRead` and `ExtractHead` on the pool, in any order,
  `ApplyExtract` in the order the reads complete, `Sweep`, `Stamp`.
* `TagEdit` between the worker's operations, as `worker_loop` serialises it.
* `Put`, `Remove`, `Lose`, and a `Take` that leaves its notification to be
  delivered again, stand for the storage and the delivery of events. Notifications
  are a set, so they are also taken out of order.
* Faults, each at the place where the code meets it: `StatFault` (dropped by
  `worker_loop`), `ListFault` (a local folder only: a stat that fails is "gone", and
  `list_all` leaves the file out), `ResolveFault` and `ClassifyFault` (swallowed by
  `extract_s3_key`), `ReadFault`, `ExtractFault`, `HeadFault` (object storage raises and
  the read error stands; a local folder says "gone"), `AbortScan` (`worker_loop` abandons
  the pass) and `Crash` (the startup reconcile follows). `Breaks` says which kinds occur.

Which identity a key parses and round-trips to is the constant `Dims`, which key
a content names in its `s3_key` record the constant `Intended`: `NoOverride`
for S3 and GCS, `Override` for a local folder, and `Local` says which of the two
sources it is. `ContentHash` tells the two kinds of change token apart. Sizes, times, topics and counts are abstracted to a
content being readable and its counts adding up.

### CatalogIds

State: what is committed, what the connection sees (committed plus its open
transaction), the caches, and the statement the worker is at. One action is one
statement: `ResolveDim` four times and the commit at the last, then the per-file
transaction `ResolveTopic`/`ResolveSchema` per channel, `ResolveSet`, `WriteRow`.
`legacy` transaction control of `sqlite3` is modelled as it works: the first
insert opens a transaction, and whichever `commit` or `rollback` comes next on the
connection, of whatever operation, ends it. Ids are one more than the largest
(`INTEGER PRIMARY KEY`), so an id that was rolled back is given out again. A
missing parent refuses a row (`foreign_keys = ON`), which `INSERT OR IGNORE` does
not ignore. `Breaks` selects where statements may fail. A pass of `full_reconcile` is
`List`, then writes and failures of the objects it listed, then `Sweep`: the rows whose five
ids are not those the caches give for a listed identity go, in one commit, any number of
them. While it runs no event and no edit is taken, and what raises out of it abandons it. A row has its blob of counts,
packed by `TopicCounts!Blob` from the totals of its topics; the property unpacks it with
`DecodeCounts` the way the reader does. `undone` remembers whether a rollback came that
no reload of the caches followed ("now"), or had followed it at last ("before").

`NamedCatalog` has no ids, caches or transactions: its rows are identities, spelled out,
with a topic of their file under one of its schemas each. A step writes or removes the
row of one identity, or is the sweep that ends a pass (`List`, `Sweep`, `Abandon`): it removes
exactly the rows of the identities that the pass did not list. `CatalogIds` implements it with `rows` the committed rows of `files`
joined with the lookup tables (`NamedRow`) and `sure` as long as `undone` is "never". It
is why `CatalogSync` may key its rows by identity and leave ids and caches out.

### TagIpc

State: per request where its handler is, the permits, the queue, the item's
deadline, status and event, the end of the handler's wait, the writer's item and
step, and a clock that ticks between any two steps. `Drop`, `Proceed`,
`NotFound`, `Commit`, `Confirm`, `Fail` and `Fire` are `handle_tag_edit` in its
order; `BadRequest`, `Read`, `Stall`, `Reject`, `Accept`, `Enqueue`, `Awake`, `TimeOut`
and `Release` are `do_POST`. Which fields make a request bad is a choice. `Stop` is the
stop event: what is behind it is never taken. `Exit` is the end of the process, after the
stop event or at any other moment: handler threads are daemon threads (`tag_ipc.py:311`)
and end where they are, without an answer.

`EditService` says the same for a client: each edit is applied once or dropped for good;
"ok" is told of an applied one, "bad", "busy", "not found" and "expired" of a dropped
one, "timeout" and "error" of either. The refinement maps `fate` to `Fate`: applied when
the commit is in `applied`; dropped when it was turned away at the door or the writer
decided otherwise before a commit; else open. It is this that says an answer
stays true: a dropped edit cannot be applied afterwards.

### Publish

State: which generation (inode) is at the served path, the content of each main file,
the `-wal` beside the served path, the temp file with its `-wal`, what each reader has
open, and where `build_and_publish` is. A content is a stamp, a `build_id`, the files
and the user's tags. `-shm` comes and goes with `-wal` and is not told apart.

`OpenTemp`, `Seed`, `Build`, `Unstamped`, `CarryForward`, `CheckpointTemp` and
`CheckpointPartial` build aside; `GateOk`, `GateBusy`, `GateTimeout`, `GateGarbage` and
`ClearOrphans` are the three ways to the rename; then `Replace`, `Unlink`, and the
daemon in place (`OpenInPlace`, `Commit`, `Stop`) or `Exit` (`--once`). `Abort` is
every way out by exception. `Crash` may fall between any two of them; `DeleteMain` and
`Spoil` are what the comments of `publish.py` expect of operators and disks. One
writer is assumed, which is what `writer_lock.py` is for.

What SQLite does is external, and was checked against version 3.40: a `-wal` with frames
is replayed into the main file beside it; a connection keeps the `-wal` it opened after
its path is unlinked; a read-only connection creates `-wal` and `-shm` and leaves them
behind; a read-write one removes them when it is the last on its file;
`wal_checkpoint(TRUNCATE)` is busy when there are frames and a reader is in a transaction.

### Watcher

State: per path a version of its file and the version its row tells of, the inotify
events not dispatched, what is left of the handler the observer is in, the timers with
the step each thread is at, `handler._timers`, `work_q` and the worker. A handler that
queues outside the lock is two actions (`OnDeleted`, `PutDelete`; `OnMoved`,
`ScheduleDest`), a timer thread three (`Expire`, `Pop`, `PutCatalog`): `Timer.cancel`
reaches only the first. `TakeCatalog`, `Unstable` and `Stat` are `wait_for_stable`,
which compares sizes and so may take a changed file for a stable one. `Resolve` looks for
an `s3_key` record: a file that carries one (`recorded`) is cataloged under the record's key
(`CatalogOther`) and leaves the row of its path's own key alone, and that row is the only one
followed; `Delete`, which asks for the key of the path, likewise finds that row and no other.
`LookFails`, `RecordFails`, `CatalogFails`, `DeleteFails` and the two of the reconcile are the
calls that fail of a file that is there: a look that reads as "gone" and drops the event, a
record taken for absent, a quarantine, a statement that raises. Nothing tries again; `failed`
remembers the path until its next event or the next startup. The startup reconcile goes path by path and `StartWatching` comes after it; what changes in between is
`missed`. No rescan is taken: it heals anything, and the question is what needs no healing.

### Daemon

Per process the step of `main` and `_locked_main` it is at. `OpenLock` to `Exit` are the
lock around everything (`WriterLock`), `UsePublish` to `Recheck` are the database
(`SchemaGate`: guards, script table by table, stamp, re-read), `RemoveStale` and
`BindSocket` the socket (`TagSocket`), then the threads, the signal handlers, the queue of
rescans and the stop event, and the `finally` clauses. `work_q.get` is three steps
(`EnterGet`, `AwaitEvent`, `Take`), because CPython runs the handler of a signal on the main
thread, which is the worker's: `Signal` is its arrival, `SignalPuts` its `work_q.put`, and if
the main thread is inside the critical section of `get`, or of the `put` of an earlier signal,
the handler is stuck on a mutex its own thread holds. `Crash` falls between any two
steps. An inode is a number the file system gives out again when nothing has it. A table
is its name and the version whose builder made it.

### SummaryFetch

A byte is the version it is from and its position. `Fill` is a `readinto` of the
`BufferedReader`'s raw stream with the header window and the inclusive end of a range;
`Deliver`, `Transient` and `Permanent` are the answers `retry_with` tells apart;
`HeadRead`, `FooterRead` and `SummaryRead` are the three parts of the file the MCAP
reader asks for (external). `Replace` puts another version, or nothing, in the object's
place between two GETs.

## Runs

| Run | Question | Result |
|---|---|---|
| `CatalogSync_s3` | exclusion and stamp with hash tokens, unreadable and miscounted contents, a fault or crash, a repeated delivery | holds |
| `CatalogSync_local` | skip and sweep while `s3_key` records come and go, with a fault of any kind or a crash; does the catalog converge after lost, repeated and faulty operation | holds |
| `CatalogIds_faults` | caches, rows, counts, references and ids after any two failures; `NamedCatalog` implemented | holds |
| `TagIpc_edits` | `EditService` implemented, no late landing, permits, liveness | holds |
| `Publish_swap` | what is served, whatever the build, the gate, readers, faults and crashes do | holds |
| `Watcher_events` | is any change of the folder forgotten, and does the catalog settle without a rescan, with `s3_key` records and with looks, reads and statements that fail | holds |
| `Daemon_lifecycle` | one writer, locks and sockets of the dead, wrong databases; does a signal end the process behind a waiting rescan and another signal | holds |
| `SummaryFetch_reads` | which bytes are asked for, is a sound object read, does a read end | holds |
| `CatalogSync_override_unread`, `CatalogIds_poison`, `Publish_window`, `Daemon_signal` | what a comment says | violated, see below |

Bounds. `MaxOps` counts writes and removals of the bucket: 3 in `CatalogSync_s3` (a row, a
change of it during an operation, and a change back or away), 2 in `CatalogSync_local`, whose
state space is larger (with 3 it holds as well, at four million states). Two paths let one
key's fate bear on another's row; identities are two for the same reason. One fault of any
kind or crash, at any step: every trace met needs no more.
`CatalogIds` has two customers whose sites and robots share names, so that an id
given out twice is told apart, and two failures: one to leave a transaction open,
one to end it. Its two files let a pass list both, one or none, so that a sweep takes two
rows, one or none. `TagIpc` has two requests, one permit and five ticks: the second
request meets an exhausted pool, a timed-out item in the queue, or a slow writer.
`Publish` has two builds, so that one replaces the other, two readers, one of the old
file and one that comes during the swap, one recording (present or not, tagged or not), one
repeated attempt of the gate, and three faults: two to lead off the ordinary path and
one crash. `Watcher` has two recordings and a `.part` file, three changes, one death and two
failures: a file can be written, deleted and written again while an old timer is fired and not
yet popped, or put there and moved onto another, and its event and the one after it may fail;
three changes need at most three timers. `Daemon_lifecycle` has two builds, one schema version
apart, three starts, one death, one waiting rescan and two signals: one process dies, the other
takes over, the first comes back; and a signal comes while another's put is under way or its
event behind a rescan. `SummaryFetch` has six layouts,
chosen so that window, summary, buffer and file end at the same byte or one apart, six
attempts as in the code, and three replacements, one between each two of the parts.
Counts in `CatalogIds` are 0 and 300, the sum
of two channels of one topic, so that a blob mixes numbers of one byte and of two. Deadlock is off
in `TagIpc`, whose clock is bounded and whose process may end, in `Publish`, where the builds
run out and a served file that cannot be opened ends it, and in `Watcher`, `Daemon` and
`SummaryFetch`, where changes, starts and reads come to an end.

Fairness. `CatalogSync!FairSpec` asks weak fairness of `Worker` as a whole: one
thread in a loop without a way out but the stop event, and a timer that keeps
queueing rescans, without assuming it ever prefers a rescan (a rescan is taken in the
end because notifications run out). Nothing is asked of the bucket, of delivery or of
faults; each is bounded, which is what "once it stops changing" means. `TagIpc!FairSpec`
asks it of the clock and of each handler thread while the process lives, and nothing of the
writer or of the exit: that a handler ends does not depend on them. `Watcher!FairSpec` asks it of the startup, the observer, the
worker and each timer thread, and nothing of the folder or of failures. `Daemon!FairSpec` asks that a started
process runs, its reconcile included, which ends because its reads do (`ReadEnds`); nobody
has to start, signal or kill one, and rescans may be queued for ever.
`SummaryFetch!FairSpec` asks that the thread runs and that a GET is answered or
breaks off (boto3 and the GCS client have timeouts), not that it ever succeeds.

## Properties

* `SkipSound`: a row that carries its object's current token was written from the
  object's current content, wherever writes fell between stat, read and commit. The
  order "token first, content later" is what makes it true; the mutant that asks for the
  token at the commit breaks it.
* `NoLiveRowSwept`: the sweep takes no row whose identity some object has claimed all
  along since the pass began, whatever fails meanwhile. Exempt is only the object that the
  pass itself mistook: a local file that a failing stat made it leave out, or whose unread
  record gave it another identity (`Taken`); no other object suffers by it. That the sweep
  takes nothing that is there (`OnlyTheGoneSwept`) is what the documents say and is violated.
* `OutcomeHonest`: a pass stamped `ok` left a row for every object it listed.
* `NeverBoth`: no row was written from an object whose key is in `catalog_failures`.
* `Converges`: the catalog comes to agree with the bucket and stays so.
* `CacheSound`, `RowsMeanTheirFile`, `NoDanglingId`, `IdsAreStable`: the caches are
  the tables, neither more nor less (a deletion trusts them to be complete); a row followed
  through its ids says what its key and channels said, topic by topic, its counts included;
  committed references exist; committed ids keep their meaning.
* `NamesComeAndGo`: `CatalogIds` implements `NamedCatalog`. An upsert or a deletion, which
  names its row by five ids, changes what one recording says and no other, and a sweep, which
  compares ids with ids from the caches, takes the recordings the pass did not list and no
  other, although statements are committed and rolled back by operations of other files.
* `EditsAreServed`: `TagIpc` implements `EditService`. `NoBeginAfterTimeout`:
  the writer begins no edit whose client was told "timeout"; `NoLateLanding`: such an edit
  lands only if the writer spent the whole margin on it. `PermitsBalance`: a permit is
  free, or a handler holds it. `EveryoneAnswered`: while the process lives every handler
  ends, whatever the writer and the client do. A client who waits when it exits gets no answer.
* `ServedFinished`, `NoStaleReplay`, `Untouched`, `BuildIdGrows`, `TagsCarried`: what is
  served is a finished build; it never lies beside frames of another file; nothing
  before or after the rename changes what is shown; `build_id` and the user's tags pass
  from the old file to the new when they could be read.
* `NothingForgotten`, `DeleteThenCatalog`, `Settles`: while the row of a path differs from its
  file, what will mend it is on its way; a queued delete never has the last word over a file
  that is there; in the end row and file agree. The first and the last leave out a path whose
  last event met a failure, and the row a file's `s3_key` record names: these wait for a
  rescan (`Converges`). The timer that is forgotten by `_timers` (its
  entry popped by an older one) is harmless because it fires anyway.
* `OneWriter`, `NoStaleLock`, `SocketIsOwn`: at most one process between lock and unlock;
  who is refused is refused because of a live one; while a daemon serves, the path leads to
  its socket. The last needs the inode comparison and the lock held until after it.
* `StampedIsWhole`, `OwnShape`, `OthersKept`, `StopEnds`: a stamp stands for all tables; a
  builder works on tables of its version (but for a script cut off, below); a wrong
  database keeps its tables and stamp; a signal ends the process behind any rescans, unless
  its handler is stuck (`WorkerLives`, which is violated).
* `BodySpared`, `SoundIsRead`, `ReadEnds`: no GET asks for the body; a sound object
  that stays is read exactly, or given up after a permanent answer or six attempts; and
  every read ends. Illegal ranges are excluded by the type of `request`.

Every property has a mutant of the code's definition that TLC refutes; it stands
beside the definition it changes and begins with "Mutant:".

## Where code and documents disagree

1. `CatalogSync_override_unread` (`mcap_summary.py:89`). "No record" and "could
   not read the record" are the same answer, so an error in the classify loop moves a
   file to another identity and the sweep deletes its row, against `reconcile.py:64`.
2. `CatalogIds_poison` (`builder.py:143`). An insert left open by a failing
   `_resolve_ids` and rolled back by a failing `update_tags` stays in the cache,
   against `builder.py:13`. `NoDanglingId` says how far it goes: foreign keys stop the
   dangling id from being committed, but the id may be given to another row later, and
   a file then hangs on another customer's.
3. `Publish_window` (`publish.py:418`). The sidecars removed after the rename need not be
   those of the replaced file: a reader that opens the new file in between has them open.
   The daemon commits to a new `-wal`, and this reader, on the current inode, is never told
   to reopen and sees none of it, against `publish.py:415`; in the create case too.
4. `Daemon_signal` (`__main__.py:296`). The handler of SIGTERM puts into the queue whose `get`
   it may have interrupted, on the same thread; the mutex of `queue.Queue` is not reentrant.
   The worker then waits for itself, against `__main__.py:104` and `:130`, with the writer
   lock held, until it is killed. `StopEnds` exempts this case and nothing else.

More were met and have no run.

* `LocalSource.stat` answers "gone" for every `OSError` (`storage.py:94`), so a stat that fails
  for a moment leaves a file out of the listing and the sweep deletes its row, the user's tags
  with it, against `storage.py:46`, `storage.py:52` and `reconcile.py:64`: `ListFault`.
  `CatalogSync_override_unread` with `Breaks = {"list"}` gives the trace. S3 and GCS raise
  instead, and the pass is abandoned.
* A read that fails once deletes the row (`builder.py:134`), and the cascade the user's tags,
  which nothing can rebuild, against `schema.sql:138`: `ExtractFault`, `ApplyExtract`.
* The permit returns when the handler times out while its item stays queued
  (`tag_ipc.py:266`), so the queue is not bounded by the permits as
  `CATALOG_CONTRACT.md:501` has it: `Accept`, `Enqueue`, `TimeOut`, `Release`, and again.
* `open_db` sets WAL mode (`db.py:59`) before it looks: a database it then refuses has had
  its header rewritten, against "a wrong DB is NEVER mutated" (`db.py:68`). Seen with
  sqlite3 (bytes 18 and 19 go from 1 to 2); its tables stay (`OthersKept`).
* A script cut off before its stamp leaves tables of one version that a builder of another
  adopts and stamps as its own (`db.py:107`), the exception in `OwnShape`.
* "A leftover socket here can only belong to a DEAD builder" (`tag_ipc.py:336`) is true
  of one database; builders of two that share a `--tag-socket` take it from each other.
* A signal between the bind of the socket and `signal.signal` (`__main__.py:298`), or an error
  of `start_producer`, leaves the socket file behind. The next daemon removes it.
* The timeout of a handler thread is one of each `recv`, so a client that sends a byte
  before each of them keeps its thread longer than the comment at `tag_ipc.py` allows.
* Changes of the folder between the startup reconcile's look and the start of the
  observer (`__main__.py:287`), or lost when inotify overflows, wait for a rescan; with a
  file modified without pause, the debounce never ends and a rescan is the first to see it.
* `_is_catalogable` looks at the file name only, `list_all` skips hidden directories too:
  a file in one is cataloged by its event and swept by the next pass.
* The removal of a local file with an `s3_key` record looks for the identity of its path
  (`builder.py:369`) and does not find the row it has; the next sweep does.
* One failing look (`watcher.py:104`, `storage.py:94`) drops the event of a file that is there,
  and one failing read quarantines its row (`builder.py:334`); no event comes after it, so
  the catalog is wrong until a rescan: `LookFails`, `CatalogFails`.
* A `DELETE` of the sweep that fails after others (`reconcile.py:146`) leaves those in the
  open transaction, and the next operation's commit makes them so: the sweep is not one step
  then, though it takes nothing that was listed. `CatalogIds` has no such failure.
* `retry.py:6` says LIST is wrapped: in `gcs_storage.py` it is, in `s3_storage.py` not. The
  code of a range past the end (`InvalidRange`, 416) is not permanent, so an object that
  shrank is asked for six times. The GCS `readinto` lacks the guard for an empty buffer.
* No range GET carries If-Match: bytes of two versions may meet. The token was taken
  before, so the next pass reads again, except where the token comes back (below).
* In `s3_producer.py` a malformed record drops the rest of its message, which is then
  acknowledged; an exception of `receive_message` or `delete_message` ends the thread; and
  events acknowledged but still in `work_q` go with the process, against "redelivers rather
  than drops" (`s3_producer.py:33`). A rescan finds what they told.
* The failure of a local file under a flat path survives its success under an `s3_key`
  record (`builder.py:227` clears only the effective key): cataloged and failed
  at once, against `builder.py:335`.
* A removal event that comes again after the object was written anew deletes the row of a
  live object (`builder.py:369`), against `s3_producer.py:5`. The next rescan restores
  the row, not its tags.
* Nor may the removal of the sidecars be left out, as "not load-bearing" (`publish.py:416`)
  would allow: after a crash between the rename and it, the daemon restarted in place
  commits to the old `-wal`, which a reader of the replaced file still has open and replays
  into the old main file. `NoStaleReplay` speaks of the served file only.
* `publish.py:391` takes every `sqlite3.Error` of the gate for "a genuinely corrupt/non-database
  served file". After one of a sound file (a full disk, say) the old `-wal` is removed first,
  and a crash before the rename leaves the old catalog without its last commits. That is why
  `Untouched` and `TagsCarried` exempt this branch.
* `SkipSound` does not hold for a token that is a hash of the content (S3): with A, B, A
  written during one `catalog_object` (stat sees A, the read sees B, then A again) the row
  says B under A's token, and no later pass reads the object again until its content changes.
* A row of an object that vanished during a pass is spared by that pass's sweep (`present` is
  built from the listing, `reconcile.py:129`), though `builder.py:285` says the sweep
  removes it; the next pass does.

## Proofs

Every invariant and action property the runs check is a theorem of its module's `Spec`
for every value of the constants, but for those that a hypothesis restricts (told
below). So are the refinements `EditsAreServed` and `NamesComeAndGo`.

The argument is the usual one. A property is seldom inductive, so each module has an
invariant `IInv` (in `CatalogSync`, one for each property) that is: `Init` implies it, each
action preserves it (a lemma for each action or group of actions), and it implies the
property, or the property of a step. TLC checked every such invariant before it was proved.
What the strengthenings add is what the code relies on without saying so.

The assumptions are those the modules declare and TLC evaluates in each run: types and
ranges of the constants, that "nothing" is no value, and what the code fixes, such as the
first table of a script (`GateAssumption`), a deadline margin of at least one
(`IpcAssumption`), and "64 KiB is ample for magic + Header record" (`FetchAssumption`).

### CatalogSync_proofs

* `TypeCorrect`: a step of an operation writes what the progress of its key holds, so
  `TInv` adds what each stage of that progress carries (a token from "listed" on, an
  effective key that has an identity from "queued" on, a content when "ready").
* `NeverBothCorrect`, where no content has an `s3_key` record (S3, GCS): `NInv` adds that a
  row is at the identity of its own source, and that every effective key in progress is the
  key itself, so the write and the quarantine of a source meet in one row. The hypothesis is
  needed: in the local folder a failure can live under a second key (see above).
* `SkipSoundCorrect`, where every write has a token of its own (GCS, local): `SInv` adds that
  every token in a row or in progress is no younger than the bucket's last operation, and
  that a content read under a token that is still the bucket's is the bucket's. The hash of
  S3 is the exception told above.
* `NoLiveRowSweptCorrect`, without a hypothesis: for S3, GCS and the local folder, with every
  fault and crash. `LInv` says that in a pass every claim that still stands is yet to be
  listed, or listed under its identity. A look that fails takes from `steady` the claims it
  contradicts (`SeenUnlisted`, `SeenMisread`) and no others, so the exemption is no wider than
  the mistake; on object storage no such look exists, and nothing is exempt.
* `OutcomeHonestCorrect`, without a hypothesis: by `HInv`, as long as nothing has failed,
  every key skipped or written has its row, and nothing but a failure or the sweep takes a
  row away in a pass; the sweep spares it because the key was listed.

### CatalogIds_proofs

* `TypeCorrect`, `CacheSoundCorrect`, `NoDanglingIdCorrect`, `IdsAreStableCorrect`, from
  `IInv`. `StoreInv` holds of what is committed and of what the connection sees alike: one
  row to an id and one to a key, a largest id (so that `NextId` is new), and every parent
  there. `Added` says that an open transaction only adds to the tables, so a commit changes
  the meaning of no id. `CacheInv` and `WorkerInv` keep the shapes. A stale cached id cannot
  leave a row without its parent: `ParentThere` refuses it at the insert, and no action
  deletes a committed parent.
* `NamesComeAndGoCorrect`, from `NamesInv`, which holds while `undone` is "never":
  every committed row, the dimensions resolved so far and the members collected so far lead
  through the tables to the names they came from. `SameIdentity` turns that round: two
  composite keys are equal if and only if the names are, so a deletion by ids takes the
  rows of one identity (`RowsOfIdentity`), and `SameNames` says that more rows in the tables
  change what no row says. `NamedStep` maps each step to `Write`, `Remove`, a step of the
  pass or a stutter; for the sweep, the keys the caches give for the listed identities are
  those of their rows, so the rows spared are the rows of the listed names.
* `RowsMeanTheirFileCorrect`, from `NamesInv` and `CountsInv`: the totals in hand are, topic
  by topic, the sum of the channels taken so far (`ChannelCounted`, for which the sum over
  a set is shown not to depend on the order: `AnyMember`, `SumAdds`), and a committed row
  holds the blob of such totals. What is read from the blob is `CountsReadBack`.
* `CountsReadBack`: `DecodeCounts(EncodeCounts(counts)) = counts`, for counts of any size
  and number. `VarintOf`, `BlobOf` and `ReadsOf` establish that the recursive functions and
  folds of `TopicCounts` have the values their definitions say; `VarintRead` reads one
  varint wherever it lies, in whatever unit; `AscendingIds` finds the place of a topic
  among the ids.

The library's theorems of induction take an operator as a parameter and cannot be used here.
`DataLemmas` has them with a set in its place (`InductionOnSet`, `InductionOnRank`), from the
theorem that the order of the naturals is well-founded, and with them `RecursionOnRank`: a
function whose value at each argument depends on those of smaller rank exists, which is what
a recursive definition needs to mean something.

### TagIpc_proofs

* `PermitsBalanceCorrect`: `permits` and the handlers that hold one add up to `MaxPending`,
  for any set of requests, infinite ones too, of which finitely many hold one at a time.
* `NoLateLandingCorrect`, `NoBeginAfterTimeoutCorrect`: `Timely` carries the clock: what is
  begun is begun within its deadline, the wait started no earlier than the deadline was set
  and lasts `Margin` longer, so a client told "timeout" is told it after the deadline.
* `ByHand`, `ByItem`, `ByOutcome` tie each handler's place to its item (not yet queued, in
  the queue once, with the writer, answered); `Once` is that no request is queued or
  applied twice.
* `EditsAreServedCorrect`: every initial state maps to one of `EditService`, and each step to
  a step of it or a stutter. `Commit` applies an edit, the steps by which the writer decides
  otherwise or the door turns it away drop it, the replies answer, and every other step
  leaves `Fate` alone. That `Fate` never goes back is what `ByItem` and `ByOutcome` give.

### Publish_proofs

`TypeCorrect`, `ServedFinishedCorrect`, `NoStaleReplayCorrect`, `UntouchedCorrect`,
`BuildIdGrowsCorrect`, `TagsCarriedCorrect`. `TempInv`: the build under way is of a
generation nobody has open, and its `-wal` is in its main file, stamped, before the gate.
`GenInv`: every generation in use is older than the next. `FramesInv`: frames at the served
path are of the served file and no older than it, and those a connection holds after losing
their path still are of its own file. `SwapInv`: none are there around the rename. `SeedInv`
follows `build_id` and the tags from the reading of the old catalog through the temp build
to the rename.

### Watcher_proofs

`TypeCorrect`, `NothingForgottenCorrect`, `DeleteThenCatalogCorrect`. `OrderInv`: over a
file that is there, an event that tells it has gone is followed by one that tells it is
there. `OwedInv` carries this past the observer, the timers and the queue, one clause for
each place where the last word may be, also while the worker has seen an older content than
the file has now, and leaves out the paths in `failed`. `EntryInv` is what `_timers` may be trusted for: an entry is a timer of
its path that has not yet taken itself out. `RoomInv` counts timers, queued events and the
handler in hand against the changes made, so a free timer is always there and the bound on
timers is no restriction. `StartInv` is the order of the startup.

### Daemon_proofs

`TypeCorrect`, `OneWriterCorrect`, `SocketIsOwnCorrect`, `StampedIsWholeCorrect`,
`OwnShapeCorrect`, `NoStaleLockCorrect`, `OthersKeptCorrect`, for any number of processes
and versions and any scripts. `LockInv`: the lock is held from its taking to the finally
clause and by one process, and every open descriptor is of the one lock file (which nobody
removes). `ScriptInv`: how far the script of a process has come, and that nobody changed the
stamp meanwhile. `OriginInv`: every table is of the stamp's version, of a running script
or of one cut off, or the database is somebody else's.

### SummaryFetch_proofs

`TypeCorrect`, `BodySparedCorrect`, `SoundIsReadCorrect`, for objects, windows, buffers and
attempts of any size. `RequestInv`: a GET is under way only for the range at the stream's
position. `PlaceInv`: whatever versions the bytes are of, the parser knows their places in the
head and the footer, so the start of the summary it takes from them is that of some version.
`SoundInv`: of a sound object that stays, each part is a run of its bytes from where the part
starts.

### What is only model-checked

* Liveness: `Converges`, `EveryoneAnswered`, `Settles`, `StopEnds`, `ReadEnds`. Fairness
  needs ENABLED, which the prover does not have.
* `NeverBoth` with `s3_key` records and `SkipSound` with hashes are false, as told above, not
  unproved.

## Not modelled

* The SQS loop itself: of its behaviour the catalog sees events that are lost or come twice.
* The syntax of keys: text processing over unbounded strings; what it decides is `Dims`.
* Pagination of listings, client construction, path checks of the local source, parsing of
  the command line: no state, or one call.
* `SummaryFetch` asks for one buffer at a time; CPython's `BufferedReader` asks for a multiple
  of it when a record is larger. `Daemon` has one database and one socket path.
* `derive_tags` returns no tags, so `tags_embedded` stays empty; `file_metrics` and
  `file_metric_status` are declared and never written.
* Loss of power (durability under `synchronous = NORMAL`), a queue overflow of inotify.
* The Go reader, SQLite, the kernel, the storage services and the mcap library are outside
  this package and are modelled only where their behaviour shows. `examples/` is a demonstration.

## What could come next

1. An abstract mirror of a bucket that `CatalogSync` implements, with the refinement proved;
   `SkipSound`, `NoLiveRowSwept` and `OutcomeHonest` are its parts.
2. `S3Producer`: receive, enqueue, acknowledge against SQS's visibility timeout.

------------------------------ MODULE Watcher -------------------------------
(***************************************************************************)
(* The local folder seen through inotify: the observer thread dispatches   *)
(* file events to McapEventHandler, which arms a debounce timer per path   *)
(* or queues a delete; timer threads queue a catalog event; the single     *)
(* worker waits for a stable file and writes or deletes its row            *)
(* (watcher.py, __main__.worker_loop, and builder.py as CatalogSync shows  *)
(* it in detail).  No rescan is taken here: a rescan heals whatever was    *)
(* missed, and the question is what needs no healing.                      *)
(*                                                                         *)
(* row is what the catalog holds under the key of a path, which parses.    *)
(* A file that carries an s3_key record is cataloged under that key and    *)
(* not under its path's; the rows of such keys are not followed here.      *)
(***************************************************************************)
EXTENDS Naturals, Sequences, SequencesExt

CONSTANTS
    Path,         \* file names under watch_root
    Catalogable,  \* those _is_catalogable accepts
    Recordable,   \* those where a file with an s3_key record is put
    MaxOps,       \* bound: changes of the folder
    MaxCrash,     \* bound: deaths of the daemon
    MaxFaults     \* bound: stats, reads and statements that fail

ASSUME WatcherAssumption ==
    /\ Catalogable \subseteq Path /\ Recordable \subseteq Path
    /\ MaxOps \in Nat /\ MaxCrash \in Nat /\ MaxFaults \in Nat

VARIABLES
    file,     \* per path, the version of the file there, 0 if none
    recorded, \* the paths whose file carries an s3_key record
    row,      \* per path, the version the row of its key tells of, 0 if none
    ops,      \* changes so far; the next version
    crashes,  \* deaths so far
    todo,     \* paths the startup reconcile has still to look at
    watching, \* the observer is running
    raw,      \* inotify events not dispatched yet
    obs,      \* what is left of the handler the observer thread is in
    timer,    \* the debounce timers: their path and where their thread is
    entry,    \* handler._timers
    queue,    \* work_q
    worker,   \* the worker thread: its event and the step it is at
    missed,   \* history: paths changed behind the startup reconcile's back
    failed,   \* history: paths whose last event, or reconcile, met a failure
    faults    \* failures so far

folder   == <<file, recorded, ops, missed>>
observer == <<raw, obs>>
timers   == <<timer, entry>>
startup  == <<todo, watching, crashes>>
failures == <<failed, faults>>
vars == <<folder, row, startup, observer, timers, queue, worker, failures>>

(* A change arms at most one timer, so there are never more of them.       *)
Timer   == 1..MaxOps
Version == 0..MaxOps
NoEntry == 0

RawEvent == [kind : {"changed", "deleted"}, path : Path]
              \cup [kind : {"moved"}, path : Path, dest : Path]
Event == [kind : {"catalog", "delete"}, path : Catalogable]
Job   == [at : {"look", "resolve", "own", "other"}, path : Catalogable, seen : Version]
Idle  == [at |-> "idle"]
Free  == [at |-> "free"]

TypeOK ==
    /\ file \in [Path -> Version] /\ row \in [Path -> Version]
    /\ recorded \subseteq Path /\ failed \subseteq Catalogable /\ faults \in 0..MaxFaults
    /\ ops \in Version /\ crashes \in 0..MaxCrash
    /\ todo \subseteq Catalogable /\ watching \in BOOLEAN /\ missed \subseteq Catalogable
    /\ raw \in Seq(RawEvent)
    /\ obs \in [do : {"delete", "schedule"}, path : Catalogable] \cup {Idle}
    /\ timer \in [Timer -> [at : {"armed", "fired", "popped"}, path : Catalogable]
                             \cup {Free}]
    /\ entry \in [Catalogable -> Timer \cup {NoEntry}]
    /\ queue \in Seq(Event)
    /\ worker \in Job \cup {Idle}

-----------------------------------------------------------------------------
(* The folder.                                                             *)

\* Every change gets a version of its own, which stands for size and mtime.
Change(changed, event) ==
    /\ ops < MaxOps /\ ops' = ops + 1
    /\ raw' = IF watching THEN Append(raw, event) ELSE raw
    /\ missed' = IF watching THEN missed \ changed
                 ELSE missed \cup ((changed \cap Catalogable) \ todo)
    /\ failed' = IF watching THEN failed \ changed ELSE failed
    /\ UNCHANGED <<row, startup, obs, timers, queue, worker, faults>>

\* A file is created, or its content is replaced or extended.
Write(p, rec) ==
    /\ rec => p \in Recordable
    /\ file' = [file EXCEPT ![p] = ops + 1]
    /\ recorded' = IF rec THEN recorded \cup {p} ELSE recorded \ {p}
    /\ Change({p}, [kind |-> "changed", path |-> p])

Unlink(p) ==
    /\ file[p] # 0
    /\ file' = [file EXCEPT ![p] = 0]
    /\ recorded' = recorded \ {p}
    /\ Change({p}, [kind |-> "deleted", path |-> p])

\* rename(2), which replaces what was at the destination.
Move(p, q) ==
    /\ p # q /\ file[p] # 0
    /\ file' = [file EXCEPT ![p] = 0, ![q] = ops + 1]
    /\ recorded' = (recorded \ {p, q}) \cup (IF p \in recorded THEN {q} ELSE {})
    /\ Change({p, q}, [kind |-> "moved", path |-> p, dest |-> q])

-----------------------------------------------------------------------------
(* The observer thread: McapEventHandler.                                  *)

NewTimer == CHOOSE t \in Timer : timer[t] = Free

\* Timer.cancel has no effect on a thread that is past its wait.
Cancelled(t) == IF timer[t].at = "armed" THEN Free ELSE timer[t]

\* _schedule_catalog, under the lock.
Schedule(p) ==
    /\ timer' = [t \in Timer |-> IF t = NewTimer THEN [at |-> "armed", path |-> p]
                                 ELSE IF t = entry[p] THEN Cancelled(t) ELSE timer[t]]
    /\ entry' = [entry EXCEPT ![p] = NewTimer]

\* on_created and on_modified.
OnChanged ==
    /\ obs = Idle /\ raw # <<>> /\ Head(raw).kind = "changed"
    /\ raw' = Tail(raw)
    /\ IF Head(raw).path \in Catalogable THEN Schedule(Head(raw).path) ELSE UNCHANGED timers
    /\ UNCHANGED <<folder, row, startup, obs, queue, worker, failures>>

\* on_deleted: cancel the pending timer, then queue the delete outside the lock.
OnDeleted ==
    /\ obs = Idle /\ raw # <<>> /\ Head(raw).kind = "deleted"
    /\ raw' = Tail(raw)
    /\ LET p == Head(raw).path
       IN  IF p \notin Catalogable THEN UNCHANGED <<timers, obs>>
           ELSE /\ timer' = [t \in Timer |-> IF t = entry[p] THEN Cancelled(t) ELSE timer[t]]
                /\ entry' = [entry EXCEPT ![p] = NoEntry]
                /\ obs' = [do |-> "delete", path |-> p]
    /\ UNCHANGED <<folder, row, startup, queue, worker, failures>>

PutDelete ==
    /\ obs # Idle /\ obs.do = "delete"
    /\ queue' = Append(queue, [kind |-> "delete", path |-> obs.path])
    /\ obs' = Idle
    /\ UNCHANGED <<folder, row, startup, raw, timers, worker, failures>>

\* Mutant: only the arrival of a file is looked at.
OnMovedIn ==
    /\ obs = Idle /\ raw # <<>> /\ Head(raw).kind = "moved"
    /\ raw' = Tail(raw) /\ UNCHANGED queue
    /\ obs' = IF Head(raw).dest \in Catalogable
              THEN [do |-> "schedule", path |-> Head(raw).dest] ELSE Idle
    /\ UNCHANGED <<folder, row, startup, timers, worker, failures>>

\* Mutant: the name a file is moved to is not looked at.
OnMovedAny ==
    /\ obs = Idle /\ raw # <<>> /\ Head(raw).kind = "moved"
    /\ raw' = Tail(raw) /\ UNCHANGED queue
    /\ obs' = [do |-> "schedule", path |-> Head(raw).dest]
    /\ UNCHANGED <<folder, row, startup, timers, worker, failures>>

\* on_moved: queue the delete of the source, whose timer is left alone.
OnMoved ==
    /\ obs = Idle /\ raw # <<>> /\ Head(raw).kind = "moved"
    /\ raw' = Tail(raw)
    /\ queue' = IF Head(raw).path \in Catalogable
                THEN Append(queue, [kind |-> "delete", path |-> Head(raw).path]) ELSE queue
    /\ obs' = IF Head(raw).dest \in Catalogable
              THEN [do |-> "schedule", path |-> Head(raw).dest] ELSE Idle
    /\ UNCHANGED <<folder, row, startup, timers, worker, failures>>

\* ... then arm a timer for its destination.
ScheduleDest ==
    /\ obs # Idle /\ obs.do = "schedule"
    /\ Schedule(obs.path)
    /\ obs' = Idle
    /\ UNCHANGED <<folder, row, startup, raw, queue, worker, failures>>

Observer == OnChanged \/ OnDeleted \/ PutDelete \/ OnMoved \/ ScheduleDest

-----------------------------------------------------------------------------
(* A timer's thread.                                                       *)

\* The wait is over: from here on nothing stops it.
Expire(t) ==
    /\ timer[t].at = "armed"
    /\ timer' = [timer EXCEPT ![t].at = "fired"]
    /\ UNCHANGED <<folder, row, startup, observer, entry, queue, worker, failures>>

\* Mutant: a timer that is not the one in its entry cancels that one, and ends.
PopOther(t) ==
    /\ timer[t].at = "fired"
    /\ LET p == timer[t].path
       IN  /\ timer' = IF entry[p] \in {t, NoEntry} THEN [timer EXCEPT ![t].at = "popped"]
                       ELSE [timer EXCEPT ![t] = Free, ![entry[p]] = Cancelled(entry[p])]
           /\ entry' = [entry EXCEPT ![p] = NoEntry]
    /\ UNCHANGED <<folder, row, startup, observer, queue, worker, failures>>

\* _fire_catalog takes the entry of its path out, whoever's it is by now.
Pop(t) ==
    /\ timer[t].at = "fired"
    /\ timer' = [timer EXCEPT ![t].at = "popped"]
    /\ entry' = [entry EXCEPT ![timer[t].path] = NoEntry]
    /\ UNCHANGED <<folder, row, startup, observer, queue, worker, failures>>

PutCatalog(t) ==
    /\ timer[t].at = "popped"
    /\ queue' = Append(queue, [kind |-> "catalog", path |-> timer[t].path])
    /\ timer' = [timer EXCEPT ![t] = Free]
    /\ UNCHANGED <<folder, row, startup, observer, entry, worker, failures>>

TimerThread(t) == Expire(t) \/ Pop(t) \/ PutCatalog(t)

-----------------------------------------------------------------------------
(* The worker.                                                             *)

\* delete_by_key asks nobody whether the file is there.  It looks for the row
\* under the key of the path and for no other.
Delete ==
    /\ worker = Idle /\ queue # <<>> /\ Head(queue).kind = "delete"
    /\ queue' = Tail(queue)
    /\ row' = [row EXCEPT ![Head(queue).path] = 0]
    /\ UNCHANGED <<folder, startup, observer, timers, worker, failures>>

\* wait_for_stable: the first of its looks; a file that is gone is dropped.
TakeCatalog ==
    /\ worker = Idle /\ queue # <<>> /\ Head(queue).kind = "catalog"
    /\ queue' = Tail(queue)
    /\ LET p == Head(queue).path
       IN  worker' = IF file[p] = 0 THEN Idle ELSE [at |-> "look", path |-> p, seen |-> file[p]]
    /\ UNCHANGED <<folder, row, startup, observer, timers, failures>>

WorkerAt(s) == worker # Idle /\ worker.at = s

\* The last look: gone, or of another size, and the event is dropped.
Unstable ==
    /\ WorkerAt("look")
    /\ file[worker.path] # worker.seen
    /\ worker' = Idle
    /\ UNCHANGED <<folder, row, startup, observer, timers, queue, failures>>

\* Mutant: a file that has a row is skipped, whatever its token.
StatOnce ==
    /\ WorkerAt("look")
    /\ worker' = IF file[worker.path] = 0 \/ row[worker.path] # 0 THEN Idle
                 ELSE [worker EXCEPT !.at = "resolve", !.seen = file[worker.path]]
    /\ UNCHANGED <<folder, row, startup, observer, timers, queue, failures>>

\* As far as sizes tell it is stable: catalog_object takes its stat.
Stat ==
    /\ WorkerAt("look")
    /\ worker' = IF file[worker.path] = 0 THEN Idle
                 ELSE [worker EXCEPT !.at = "resolve", !.seen = file[worker.path]]
    /\ UNCHANGED <<folder, row, startup, observer, timers, queue, failures>>

\* resolve_key_dims: the key of the record in the file, else that of its path.
Resolve ==
    /\ WorkerAt("resolve")
    /\ worker' = [worker EXCEPT !.at = IF worker.path \in recorded THEN "other" ELSE "own"]
    /\ UNCHANGED <<folder, row, startup, observer, timers, queue, failures>>

\* The summary is read and the row committed, under the token of the stat; a
\* file that is gone by now cannot be opened, and its row is quarantined.
Catalog ==
    /\ WorkerAt("own")
    /\ row' = [row EXCEPT ![worker.path] =
                 IF @ # worker.seen /\ file[worker.path] = 0 THEN 0 ELSE worker.seen]
    /\ worker' = Idle
    /\ UNCHANGED <<folder, startup, observer, timers, queue, failures>>

\* The same under the key of a record: the row of the path's own key is let be.
CatalogOther ==
    /\ WorkerAt("other")
    /\ worker' = Idle
    /\ UNCHANGED <<folder, row, startup, observer, timers, queue, failures>>

Worker == Delete \/ TakeCatalog \/ Unstable \/ Stat \/ Resolve \/ Catalog \/ CatalogOther

-----------------------------------------------------------------------------
(* Startup and death.                                                      *)

\* The synchronous reconcile before watching, path by path, with its sweep: a
\* file that carries a record leaves no row under the key of its path.
Reconcile(p) ==
    /\ p \in todo
    /\ row' = [row EXCEPT ![p] = IF p \in recorded THEN 0 ELSE file[p]]
    /\ todo' = todo \ {p}
    /\ UNCHANGED <<folder, watching, crashes, observer, timers, queue, worker, failures>>

StartWatching ==
    /\ todo = {} /\ ~watching
    /\ watching' = TRUE
    /\ UNCHANGED <<folder, row, todo, crashes, observer, timers, queue, worker, failures>>

\* Events, timers and queue go with the process; a new one reconciles everything.
Crash ==
    /\ crashes < MaxCrash /\ crashes' = crashes + 1
    /\ todo' = Catalogable /\ watching' = FALSE /\ missed' = {} /\ failed' = {}
    /\ raw' = <<>> /\ obs' = Idle /\ queue' = <<>> /\ worker' = Idle
    /\ timer' = [t \in Timer |-> Free] /\ entry' = [p \in Catalogable |-> NoEntry]
    /\ UNCHANGED <<file, recorded, ops, row, faults>>

Startup == (\E p \in Catalogable : Reconcile(p)) \/ StartWatching

-----------------------------------------------------------------------------
(* What fails, of a file that is there and of the worker's statements.     *)
(* Nothing is tried again before the path's next event, or a rescan.       *)

Fault == faults < MaxFaults /\ faults' = faults + 1
Fails(p) == Fault /\ failed' = failed \cup {p}

\* A look or the stat raises OSError, which reads as "gone": wait_for_stable
\* and LocalSource.stat.  The event is dropped.
LookFails ==
    /\ \/ /\ worker = Idle /\ queue # <<>> /\ Head(queue).kind = "catalog"
          /\ file[Head(queue).path] # 0
          /\ Fails(Head(queue).path)
          /\ queue' = Tail(queue) /\ UNCHANGED worker
       \/ /\ WorkerAt("look") /\ file[worker.path] # 0
          /\ Fails(worker.path)
          /\ worker' = Idle /\ UNCHANGED queue
    /\ UNCHANGED <<folder, row, startup, observer, timers>>

\* extract_s3_key swallows an error: the file goes by its path.
RecordFails ==
    /\ WorkerAt("resolve") /\ worker.path \in recorded
    /\ Fault
    /\ worker' = [worker EXCEPT !.at = "own"]
    /\ UNCHANGED <<folder, row, startup, observer, timers, queue, failed>>

\* The summary cannot be read and the row is quarantined, or a statement
\* outside any guard raises and the row stays as it was.
CatalogFails ==
    /\ WorkerAt("own") /\ row[worker.path] # worker.seen
    /\ Fails(worker.path)
    /\ \E r \in {0, row[worker.path]} : row' = [row EXCEPT ![worker.path] = r]
    /\ worker' = Idle
    /\ UNCHANGED <<folder, startup, observer, timers, queue>>

\* A statement of delete_by_key raises: worker_loop logs it and goes on.
DeleteFails ==
    /\ worker = Idle /\ queue # <<>> /\ Head(queue).kind = "delete"
    /\ Fails(Head(queue).path)
    /\ queue' = Tail(queue)
    /\ UNCHANGED <<folder, row, startup, observer, timers, worker>>

\* The startup reconcile lists no file whose stat fails, and sweeps its row;
\* it quarantines one it cannot read, or takes it for vanished.
ReconcileFails(p) ==
    /\ p \in todo /\ file[p] # 0
    /\ Fails(p)
    /\ \E r \in {0, row[p]} : row' = [row EXCEPT ![p] = r]
    /\ todo' = todo \ {p}
    /\ UNCHANGED <<folder, watching, crashes, observer, timers, queue, worker>>

\* It cannot read the record of a file, and catalogs it under its path.
ReconcileRecordFails(p) ==
    /\ p \in todo /\ p \in recorded
    /\ Fault
    /\ row' = [row EXCEPT ![p] = file[p]]
    /\ todo' = todo \ {p}
    /\ UNCHANGED <<folder, watching, crashes, observer, timers, queue, worker, failed>>

Failure == \/ LookFails \/ RecordFails \/ CatalogFails \/ DeleteFails
           \/ \E p \in Catalogable : ReconcileFails(p) \/ ReconcileRecordFails(p)

-----------------------------------------------------------------------------
Init ==
    /\ file = [p \in Path |-> 0] /\ row = [p \in Path |-> 0] /\ recorded = {}
    /\ ops = 0 /\ crashes = 0 /\ missed = {} /\ failed = {} /\ faults = 0
    /\ todo = Catalogable /\ watching = FALSE
    /\ raw = <<>> /\ obs = Idle /\ queue = <<>> /\ worker = Idle
    /\ timer = [t \in Timer |-> Free] /\ entry = [p \in Catalogable |-> NoEntry]

Folder == \/ \E p \in Path : (\E rec \in BOOLEAN : Write(p, rec)) \/ Unlink(p)
          \/ \E p, q \in Path : Move(p, q)

Next == \/ Folder \/ Startup \/ Observer \/ Worker \/ Crash \/ Failure
        \/ \E t \in Timer : TimerThread(t)
Spec == Init /\ [][Next]_vars

(* The threads run; nothing is asked of the folder, of crashes or of       *)
(* failures.                                                               *)
FairSpec == /\ Spec /\ WF_vars(Startup) /\ WF_vars(Observer) /\ WF_vars(Worker)
            /\ \A t \in Timer : WF_vars(TimerThread(t))

-----------------------------------------------------------------------------
(* Properties.                                                             *)

Covered == Catalogable \ (todo \cup missed)

\* An event not dispatched yet tells that p has gone, or that it is there.
TellsGone(p)  == \E e \in ToSet(raw) : e.kind \in {"deleted", "moved"} /\ e.path = p
TellsThere(p) ==
    \E e \in ToSet(raw) : \/ e.kind = "changed" /\ e.path = p
                          \/ e.kind = "moved" /\ e.dest = p
ToSchedule(p) == \/ TellsThere(p)
                 \/ obs # Idle /\ obs.do = "schedule" /\ obs.path = p
                 \/ \E t \in Timer : timer[t] # Free /\ timer[t].path = p

\* The worker holds p as it is, for the row of its own key.
Mending(p) ==
    worker # Idle /\ worker.at # "other" /\ worker.path = p /\ worker.seen = file[p]

DeleteOwed(p) ==
    \/ TellsGone(p)
    \/ obs # Idle /\ obs.do = "delete" /\ obs.path = p
    \/ \E e \in ToSet(queue) : e.kind = "delete" /\ e.path = p

CatalogOwed(p) ==
    \/ ToSchedule(p)
    \/ \E e \in ToSet(queue) : e.kind = "catalog" /\ e.path = p
    \/ Mending(p)

(* Nothing is forgotten: while the row of a path differs from its file,    *)
(* the event that will mend it is on its way: a delete if the file is      *)
(* gone, a catalog event if it is there.  No cancelled, overtaken or       *)
(* forgotten timer takes the last word with it (watcher.py:48-85).  What   *)
(* is not promised: a path whose last event met a failure, and the row     *)
(* that a file's s3_key record names.                                      *)
NothingForgotten ==
    \A p \in Covered \ failed :
        /\ file[p] = 0 /\ row[p] # 0 => DeleteOwed(p)
        /\ file[p] # 0 /\ p \notin recorded /\ row[p] # file[p] => CatalogOwed(p)

(* A delete that is still queued never has the last word over a file that  *)
(* is there: the catalog event of that file comes behind it, or is yet to  *)
(* be queued, whatever timers fire meanwhile (on_deleted, on_moved).       *)
DeleteThenCatalog ==
    \A p \in Covered, i \in DOMAIN queue :
        (file[p] # 0 /\ queue[i] = [kind |-> "delete", path |-> p]) =>
            \/ \E j \in DOMAIN queue : j > i /\ queue[j] = [kind |-> "catalog", path |-> p]
            \/ ToSchedule(p)

(* Once the folder is quiet, the rows of the paths come to agree with it,  *)
(* without any rescan, except for what changed behind the startup          *)
(* reconcile, a path whose last event met a failure, and a file that       *)
(* carries a record.  A path that has lost its file has no row left.       *)
Settles ==
    <>[](\A p \in Catalogable \ (missed \cup failed) :
            p \notin recorded => row[p] = file[p])
=============================================================================

------------------------------- MODULE Daemon -------------------------------
(***************************************************************************)
(* The life of builder processes on one database (__main__.main and        *)
(* _locked_main): the writer lock, publish or open_db in place, the        *)
(* startup reconcile, the tag socket, the work queue with its rescans and  *)
(* the stop event, the shutdown, and death between any two steps.  The     *)
(* processes share a database, its lock file and a socket path, and may    *)
(* be of different schema versions, as in a deployment that upgrades.      *)
(***************************************************************************)
EXTENDS SchemaGate, FiniteSets

CONSTANTS
    Proc,       \* builder processes
    VersionOf,  \* SCHEMA_VERSION of each process's program
    MaxStarts,  \* bound: processes started
    MaxCrash,   \* bound: deaths
    MaxQueue,   \* bound: rescans waiting
    MaxSignals  \* bound: signals a process gets

ASSUME DaemonAssumption ==
    /\ IsFiniteSet(Proc) /\ VersionOf \in [Proc -> Version]
    /\ MaxStarts \in Nat /\ MaxCrash \in Nat /\ MaxQueue \in Nat /\ MaxSignals \in Nat

VARIABLES
    lockfile, lockfd, held,   \* see WriterLock
    sock, listening, bound,   \* see TagSocket
    proc,     \* per process, where main() is and its local variables
    starts,   \* processes started so far
    crashes,  \* deaths so far
    torn      \* history: versions whose script was cut off before the stamp

Lock == INSTANCE WriterLock
Sock == INSTANCE TagSocket

lockVars == <<lockfile, lockfd, held>>
sockVars == <<sock, listening, bound>>
count == <<starts, crashes>>
vars == <<lockVars, db, sockVars, proc, count, torn>>

Down == [at |-> "down", rebuild |-> FALSE, once |-> FALSE, published |-> FALSE,
         next |-> 1, queue |-> <<>>, handler |-> "none", signals |-> 0]

Opening   == {"locked", "publish", "connect", "guard", "script", "stamp", "recheck"}
Working   == {"idle", "get", "wait", "rescan", "stop"}
Listening == {"start", "arm"} \cup Working
Closing   == {"compare", "unlink", "close"}
Writing   == Opening \cup {"reconcile", "bind"} \cup Listening \cup Closing

TypeOK ==
    /\ Lock!TypeOK /\ DbTypeOK /\ Sock!TypeOK
    /\ proc \in [Proc -> [at : {"down", "open", "flock", "unlock", "exit"} \cup Writing,
                          rebuild : BOOLEAN, once : BOOLEAN, published : BOOLEAN,
                          next : Nat \ {0}, queue : Seq({"rescan", "stop"}),
                          handler : {"none", "put", "stuck"}, signals : 0..MaxSignals]]
    /\ starts \in 0..MaxStarts /\ crashes \in 0..MaxCrash /\ torn \subseteq Version

At(p, here) == proc[p].at = here
Goto(p, there) == proc' = [proc EXCEPT ![p].at = there]
Step(p, here, there) == At(p, here) /\ Goto(p, there)

\* The finally of main(): whatever was raised, the lock is released.
Raise(p, here) == Step(p, here, "unlock")

-----------------------------------------------------------------------------
(* main(): the lock.                                                       *)

Start(p) ==
    /\ At(p, "down") /\ starts < MaxStarts /\ starts' = starts + 1
    /\ \E rebuild, once \in BOOLEAN :
         proc' = [proc EXCEPT ![p] = [Down EXCEPT !.at = "open", !.rebuild = rebuild,
                                                  !.once = once]]
    /\ UNCHANGED <<lockVars, db, sockVars, crashes, torn>>

OpenLock(p) ==
    /\ Step(p, "open", "flock") /\ Lock!Open(p)
    /\ UNCHANGED <<db, sockVars, count, torn>>

TakeLock(p) ==
    /\ Step(p, "flock", "locked") /\ Lock!Take(p)
    /\ UNCHANGED <<db, sockVars, count, torn>>

\* Exit code 3.
RefuseLock(p) ==
    /\ At(p, "flock") /\ Lock!Refuse(p)
    /\ proc' = [proc EXCEPT ![p] = Down]
    /\ UNCHANGED <<db, sockVars, count, torn>>

ReleaseLock(p) ==
    /\ Step(p, "unlock", "exit") /\ Lock!Release(p)
    /\ UNCHANGED <<db, sockVars, count, torn>>

\* The process ends, and what its threads still had open with it.
Exit(p) ==
    /\ At(p, "exit") /\ Lock!Close(p) /\ Sock!Death(p)
    /\ proc' = [proc EXCEPT ![p] = Down]
    /\ UNCHANGED <<db, count, torn>>

-----------------------------------------------------------------------------
(* _locked_main: the database.                                             *)

UsePublish(p) ==
    /\ Step(p, "locked", IF proc[p].rebuild \/ ~db.exists THEN "publish" ELSE "connect")
    /\ UNCHANGED <<lockVars, db, sockVars, count, torn>>

\* build_and_publish as a whole; module Publish shows its steps.
PublishBuild(p) ==
    /\ At(p, "publish")
    /\ proc' = [proc EXCEPT ![p].published = TRUE,
                            ![p].at = IF proc[p].once THEN "unlock" ELSE "connect"]
    /\ DbPublish(VersionOf[p]) /\ torn' = {}
    /\ UNCHANGED <<lockVars, sockVars, count>>

PublishFails(p) == Raise(p, "publish") /\ UNCHANGED <<lockVars, db, sockVars, count, torn>>

Connect(p) ==
    /\ Step(p, "connect", "guard") /\ DbConnect
    /\ UNCHANGED <<lockVars, sockVars, count, torn>>

GuardPasses(p) ==
    /\ ~Refused(VersionOf[p]) /\ Step(p, "guard", "script")
    /\ UNCHANGED <<lockVars, db, sockVars, count, torn>>

\* SchemaVersionError.
GuardRefuses(p) ==
    /\ Refused(VersionOf[p]) /\ Raise(p, "guard")
    /\ UNCHANGED <<lockVars, db, sockVars, count, torn>>

ThisTable(p) == DbCreate(proc[p].next, VersionOf[p])
NextTable(p) ==
    proc' = IF proc[p].next = Len(Script[VersionOf[p]]) THEN [proc EXCEPT ![p].at = "stamp"]
            ELSE [proc EXCEPT ![p].next = @ + 1]
\* Mutant: schema.sql inserts the stamp next to its table.
CreateTableStamped(p) ==
    /\ At(p, "script") /\ NextTable(p)
    /\ LET t == Script[VersionOf[p]][proc[p].next]
       IN  db' = IF HasTable(t) THEN db
                 ELSE [db EXCEPT !.tables = @ \cup {Table(t, VersionOf[p])},
                                 !.stamp = VersionOf[p]]
    /\ UNCHANGED <<lockVars, sockVars, count, torn>>
CreateTable(p) ==
    /\ At(p, "script") /\ ThisTable(p) /\ NextTable(p)
    /\ UNCHANGED <<lockVars, sockVars, count, torn>>

StampVersion(p) ==
    /\ Step(p, "stamp", "recheck") /\ DbStamp(VersionOf[p])
    /\ UNCHANGED <<lockVars, sockVars, count, torn>>

\* What is left when the script is cut off: its tables without a stamp.
Torn(p) ==
    torn' = IF proc[p].at \in {"script", "stamp"} /\ db.tables # {} /\ db.stamp = None
            THEN torn \cup {VersionOf[p]} ELSE torn

\* A statement of open_db fails.
OpenFails(p) ==
    /\ \E here \in {"connect", "script", "stamp"} : Raise(p, here)
    /\ Torn(p)
    /\ UNCHANGED <<lockVars, db, sockVars, count>>

\* The stamp is read back; a daemon that has just published need not reconcile.
Recheck(p) ==
    /\ Step(p, "recheck", IF db.stamp # VersionOf[p] THEN "unlock"
                          ELSE IF proc[p].published THEN "bind" ELSE "reconcile")
    /\ UNCHANGED <<lockVars, db, sockVars, count, torn>>

Reconcile(p) ==
    /\ \/ Step(p, "reconcile", IF proc[p].once THEN "unlock" ELSE "bind")
       \/ Raise(p, "reconcile")
    /\ UNCHANGED <<lockVars, db, sockVars, count, torn>>

-----------------------------------------------------------------------------
(* _locked_main: the socket and the threads.                               *)

RemoveStale(p) ==
    /\ At(p, "bind") /\ Sock!Stale /\ Sock!RemoveStale
    /\ UNCHANGED <<lockVars, db, proc, count, torn>>

\* The path is taken by something that is no socket, or bind() refuses.
BindFails(p) ==
    /\ Raise(p, "bind")
    /\ UNCHANGED <<lockVars, db, sockVars, count, torn>>

BindSocket(p) ==
    /\ Step(p, "bind", "start") /\ Sock!Bind(p)
    /\ UNCHANGED <<lockVars, db, count, torn>>

\* start_producer and the rescan thread, or an error (in chmod already) that leaves
\* the socket behind.
StartThreads(p) ==
    /\ Step(p, "start", "arm") \/ Raise(p, "start")
    /\ UNCHANGED <<lockVars, db, sockVars, count, torn>>

InstallHandlers(p) ==
    /\ Step(p, "arm", "idle")
    /\ UNCHANGED <<lockVars, db, sockVars, count, torn>>

(* work_q is a queue.Queue: get() and put() hold its mutex, which is not   *)
(* reentrant, and get() lets go of it while it waits for an event.         *)
HoldsMutex(p) == At(p, "get") \/ proc[p].handler # "none"

\* rescan_loop, until stop_event is set.
RescanTick(p) ==
    /\ proc[p].at \in {"arm", "idle", "wait", "rescan"} /\ ~HoldsMutex(p)
    /\ Len(SelectSeq(proc[p].queue, LAMBDA e : e = "rescan")) < MaxQueue
    /\ proc' = [proc EXCEPT ![p].queue = Append(@, "rescan")]
    /\ UNCHANGED <<lockVars, db, sockVars, count, torn>>

Handling(p) == proc[p].at \in Working \cup Closing

(* A signal: _on_signal runs on the main thread, wherever that is, and     *)
(* puts the stop event.  If the main thread itself holds the mutex, in     *)
(* get() or in the put() of an earlier signal, both wait for ever.         *)
Signal(p) ==
    /\ Handling(p) /\ proc[p].handler # "stuck" /\ proc[p].signals < MaxSignals
    /\ proc' = [proc EXCEPT ![p].handler = IF HoldsMutex(p) THEN "stuck" ELSE "put",
                            ![p].signals = @ + 1]
    /\ UNCHANGED <<lockVars, db, sockVars, count, torn>>

\* Mutant: the handler puts a sentinel that is no WatchEvent.
SignalPutsNone(p) ==
    /\ Handling(p) /\ proc[p].handler = "put"
    /\ proc' = [proc EXCEPT ![p].queue = Append(@, "none"), ![p].handler = "none"]
    /\ UNCHANGED <<lockVars, db, sockVars, count, torn>>
\* Mutant: the handler sets stop_event and queues nothing.
SignalSetsEvent(p) ==
    /\ Handling(p) /\ proc[p].handler = "put"
    /\ proc' = [proc EXCEPT ![p].handler = "none"]
    /\ UNCHANGED <<lockVars, db, sockVars, count, torn>>
SignalPuts(p) ==
    /\ Handling(p) /\ proc[p].handler = "put"
    /\ proc' = [proc EXCEPT ![p].queue = Append(@, "stop"), ![p].handler = "none"]
    /\ UNCHANGED <<lockVars, db, sockVars, count, torn>>

\* worker_loop: work_q.get() takes the mutex, at first or when it is woken.
EnterGet(p) ==
    /\ \/ Step(p, "idle", "get")
       \/ proc[p].queue # <<>> /\ Step(p, "wait", "get")
    /\ UNCHANGED <<lockVars, db, sockVars, count, torn>>

AwaitEvent(p) ==
    /\ proc[p].queue = <<>> /\ Step(p, "get", "wait")
    /\ UNCHANGED <<lockVars, db, sockVars, count, torn>>

\* worker_loop: the next event, in the order of the queue.
Take(p) ==
    /\ At(p, "get") /\ proc[p].queue # <<>>
    /\ proc' = [proc EXCEPT ![p].queue = Tail(@),
                  ![p].at = IF Head(proc[p].queue) = "stop" THEN "stop" ELSE "rescan"]
    /\ UNCHANGED <<lockVars, db, sockVars, count, torn>>

RescanEnds(p) ==
    /\ Step(p, "rescan", "idle")
    /\ UNCHANGED <<lockVars, db, sockVars, count, torn>>

-----------------------------------------------------------------------------
(* _locked_main: the finally clause.                                       *)

\* Mutant: the lock is given back as soon as the worker has stopped.
CloseListenerUnlocked(p) ==
    /\ Step(p, "stop", "compare") /\ Sock!CloseListener(p) /\ Lock!Release(p)
    /\ UNCHANGED <<db, count, torn>>
CloseListener(p) ==
    /\ Step(p, "stop", "compare") /\ Sock!CloseListener(p)
    /\ UNCHANGED <<lockVars, db, count, torn>>

CompareInode(p) ==
    /\ Step(p, "compare", IF Sock!IsOurs(p) THEN "unlink" ELSE "close")
    /\ UNCHANGED <<lockVars, db, sockVars, count, torn>>

UnlinkSocket(p) ==
    /\ Step(p, "unlink", "close") /\ Sock!Unlink(p)
    /\ UNCHANGED <<lockVars, db, count, torn>>

CloseConnection(p) ==
    /\ Raise(p, "close")
    /\ UNCHANGED <<lockVars, db, sockVars, count, torn>>

\* Any death: SIGKILL, power, or SIGTERM before the handlers are installed.
Crash(p) ==
    /\ ~At(p, "down") /\ crashes < MaxCrash /\ crashes' = crashes + 1
    /\ Lock!Death(p) /\ Sock!Death(p) /\ Torn(p)
    /\ proc' = [proc EXCEPT ![p] = Down]
    /\ UNCHANGED <<db, starts>>

-----------------------------------------------------------------------------
Init ==
    /\ Lock!Init /\ DbInit /\ Sock!Init
    /\ proc = [p \in Proc |-> Down]
    /\ starts = 0 /\ crashes = 0 /\ torn = {}

Enter(p)  == OpenLock(p) \/ TakeLock(p) \/ RefuseLock(p)
OpenDb(p) == \/ UsePublish(p) \/ PublishBuild(p) \/ PublishFails(p) \/ Connect(p)
             \/ GuardPasses(p) \/ GuardRefuses(p) \/ CreateTable(p) \/ StampVersion(p)
             \/ OpenFails(p) \/ Recheck(p) \/ Reconcile(p)
Serve(p)  == \/ RemoveStale(p) \/ BindFails(p) \/ BindSocket(p) \/ StartThreads(p)
             \/ InstallHandlers(p) \/ EnterGet(p) \/ AwaitEvent(p) \/ Take(p) \/ RescanEnds(p)
Leave(p)  == \/ CloseListener(p) \/ CompareInode(p) \/ UnlinkSocket(p)
             \/ CloseConnection(p) \/ ReleaseLock(p) \/ Exit(p)
\* The main thread; it stands still while it runs a signal handler.
Main(p)   == proc[p].handler = "none" /\ (Enter(p) \/ OpenDb(p) \/ Serve(p) \/ Leave(p))
Run(p)    == Main(p) \/ SignalPuts(p)

Next == \E p \in Proc : Start(p) \/ Run(p) \/ RescanTick(p) \/ Signal(p) \/ Crash(p)
Spec == Init /\ [][Next]_vars

(* A started process runs, and a reconcile ends (its reads are bounded by  *)
(* retry_with).  Nobody has to start, signal or kill one.                  *)
FairSpec == Spec /\ \A p \in Proc : WF_vars(Run(p))

-----------------------------------------------------------------------------
(* Properties.                                                             *)

(* One writer: at most one process is between taking the lock and giving   *)
(* it back, publishing included (writer_lock.py:10-27).                    *)
OneWriter == \A p, q \in Proc : proc[p].at \in Writing /\ proc[q].at \in Writing => p = q

(* There is no stale lock: who is refused is refused because another       *)
(* process is alive and has not given the lock back (writer_lock.py:19).   *)
NoStaleLock ==
    [][\A p \in Proc : At(p, "flock") /\ proc'[p].at = "down" /\ crashes' = crashes =>
          \E q \in Proc \ {p} : proc[q].at \in Writing \cup {"unlock"}]_vars

(* While a daemon serves tag edits, the socket path leads to it, so edits  *)
(* never go to another one or to nobody (writer_lock.py:6, tag_ipc.py:335).*)
SocketIsOwn ==
    \A p \in Proc : proc[p].at \in Listening => sock = listening[p] /\ sock \in Sock!Inode

(* A stamp stands for a whole schema: the reader, which looks at the stamp *)
(* alone, never opens a database with tables missing (db.py:77-79).        *)
StampedIsWhole == db.stamp # None => \A t \in ToSet(Script[db.stamp]) : HasTable(t)

(* A builder works only on tables of its own version's shape, under its    *)
(* own stamp.  The one exception: tables of a version whose script was cut *)
(* off before its stamp, which pass the guards of any other (db.py:107).   *)
OwnShape ==
    \A p \in Proc : proc[p].at \in (Writing \ Opening) =>
        /\ db.stamp = VersionOf[p]
        /\ db.tables \subseteq UNION {Schema(v) : v \in torn \cup {VersionOf[p]}}

(* In place nobody adds to a foreign database or to one another version    *)
(* stamped, nor stamps it: only a publish replaces it (db.py:68-76).       *)
ByPublish == \E p \in Proc : At(p, "publish") /\ proc'[p].published
OthersKept ==
    [][(IsForeign \/ db.stamp # None) /\ ~ByPublish =>
          db'.tables = db.tables /\ db'.stamp = db.stamp]_vars

(* A stop signal ends the process, whatever rescans are queued before it   *)
(* or come after it (__main__.py:289-299); but for a signal whose handler  *)
(* finds the queue's mutex held by its own thread: see WorkerLives.        *)
StopEnds == \A p \in Proc : proc[p].signals > 0 ~> At(p, "down") \/ proc[p].handler = "stuck"

(* The worker never dies (__main__.py:104, :130): no signal leaves its     *)
(* thread waiting for itself.                                              *)
WorkerLives == \A p \in Proc : proc[p].handler # "stuck"
=============================================================================

---------------------------- MODULE Daemon_proofs ----------------------------
(***************************************************************************)
(* Theorems about Daemon, for any number of processes, any schema versions *)
(* and scripts, and any number of starts, deaths and waiting rescans.      *)
(***************************************************************************)
EXTENDS Daemon, FiniteSetTheorems, DataLemmas

(* Who is past the lock.  main() holds it until its finally clause has     *)
(* released it, and its descriptor until the process ends.                 *)
Inside == Writing \cup {"unlock"}

LockInv ==
    /\ \A p \in Proc : held[p] <=> proc[p].at \in Inside
    /\ \A p \in Proc : lockfd[p] = IF proc[p].at \in {"down", "open"} THEN 0 ELSE lockfile
    /\ lockfile = 0 => \A p \in Proc : proc[p].at \in {"down", "open"}
    /\ \A p, q \in Proc : held[p] /\ held[q] => p = q

\* Where the script of a process stands.
Created(p, n) == \A i \in 1..n : HasTable(Script[VersionOf[p]][i])

Before == {"open", "flock", "locked", "publish", "connect", "guard"}
After  == {"recheck"} \cup (Writing \ Opening)

ScriptAt(p) ==
    /\ proc[p].at \in Before => proc[p].next = 1
    /\ proc[p].at = "script" =>
           /\ proc[p].next \in 1..Len(Script[VersionOf[p]])
           /\ Created(p, proc[p].next - 1)
    /\ proc[p].at = "stamp" => Created(p, Len(Script[VersionOf[p]]))
    /\ proc[p].at \in {"script", "stamp"} => ~IsForeign /\ db.stamp \in {None, VersionOf[p]}
    /\ proc[p].at \in After => db.stamp = VersionOf[p]

ScriptInv == \A p \in Proc : ScriptAt(p)

(* Whose tables there are: those of the stamp, of scripts cut off, and of  *)
(* a script that is running; or somebody else's database.                  *)
Makers == torn \cup ({db.stamp} \ {None})
               \cup {v \in Version : \E p \in Proc :
                         proc[p].at \in {"script", "stamp"} /\ VersionOf[p] = v}

OriginInv ==
    \/ db.tables = {Theirs} /\ db.stamp = None
    \/ db.tables \subseteq UNION {Schema(v) : v \in Makers}

IInv == TypeOK /\ LockInv /\ SocketIsOwn /\ StampedIsWhole /\ ScriptInv /\ OriginInv

USE DEF At, Opening, Working, Listening, Closing, Writing

-----------------------------------------------------------------------------
(* A step is one process's: the others stay where they are.                *)

Places == {"down", "open", "flock", "unlock", "exit"} \cup Writing
Locals == [at : Places, rebuild : BOOLEAN, once : BOOLEAN, published : BOOLEAN,
           next : Nat \ {0}, queue : Seq({"rescan", "stop"}), handler : {"none", "put", "stuck"},
           signals : 0..MaxSignals]

OthersStay(p) == \A q \in Proc \ {p} : proc'[q] = proc[q]

\* A step that only goes on.
LEMMA GotoMoves ==
    ASSUME TypeOK, NEW p \in Proc, NEW there \in Places, Goto(p, there)
    PROVE  /\ proc' \in [Proc -> Locals] /\ OthersStay(p)
           /\ proc'[p] = [proc[p] EXCEPT !.at = there] /\ proc'[p].at = there
           /\ proc'[p].next = proc[p].next
<1>1. proc[p] \in Locals /\ proc \in [Proc -> Locals]
  BY DEF TypeOK, Locals, Places
<1>2. [proc[p] EXCEPT !.at = there] \in Locals
  BY <1>1 DEF Locals
<1> QED
  BY <1>1, <1>2 DEF Goto, OthersStay, Locals

\* The steps that do more than go on.
LEMMA QueueMoves ==
    ASSUME TypeOK, NEW p \in Proc, RescanTick(p) \/ Signal(p) \/ SignalPuts(p) \/ Take(p)
    PROVE  /\ proc' \in [Proc -> Locals] /\ OthersStay(p)
           /\ {proc[p].at, proc'[p].at} \subseteq {"arm"} \cup Working \cup Closing
           /\ proc[p].at \in Listening <=> proc'[p].at \in Listening
           /\ proc[p].at \notin Listening => proc'[p].at = proc[p].at
<1>1. proc[p] \in Locals /\ proc \in [Proc -> Locals]
  BY DEF TypeOK, Locals, Places
<1>2. CASE RescanTick(p)
  <2>1. Append(proc[p].queue, "rescan") \in Seq({"rescan", "stop"})
    BY <1>1 DEF Locals
  <2> QED
    BY <1>1, <1>2, <2>1 DEF RescanTick, OthersStay, Locals
<1>3. CASE SignalPuts(p)
  <2>1. Append(proc[p].queue, "stop") \in Seq({"rescan", "stop"})
    BY <1>1 DEF Locals
  <2> QED
    BY <1>1, <1>3, <2>1 DEF SignalPuts, Handling, OthersStay, Locals
<1>5. CASE Signal(p)
  <2>1. proc[p].signals + 1 \in 0..MaxSignals
    BY <1>1, <1>5, DaemonAssumption DEF Signal, Locals
  <2>2. \E h \in {"stuck", "put"} :
            proc' = [proc EXCEPT ![p] = [proc[p] EXCEPT !.handler = h,
                                                        !.signals = @ + 1]]
    BY <1>1, <1>5 DEF Signal, Locals
  <2> QED
    BY <1>1, <1>5, <2>1, <2>2 DEF Signal, Handling, OthersStay, Locals
<1>4. CASE Take(p)
  <2>1. Tail(proc[p].queue) \in Seq({"rescan", "stop"})
    BY <1>1, <1>4, TailLeaves DEF Take, Locals
  <2> QED
    BY <1>1, <1>4, <2>1 DEF Take, OthersStay, Locals, Places
<1> QED
  BY <1>2, <1>3, <1>4, <1>5

LEMMA OtherMoves ==
    ASSUME TypeOK, NEW p \in Proc,
           Start(p) \/ RefuseLock(p) \/ Exit(p) \/ Crash(p) \/ PublishBuild(p) \/ CreateTable(p)
    PROVE  proc' \in [Proc -> Locals] /\ OthersStay(p)
<1>1. proc[p] \in Locals /\ proc \in [Proc -> Locals]
  BY DEF TypeOK, Locals, Places
<1>2. Down \in Locals
  BY DaemonAssumption DEF Down, Locals, Places
<1>3. CASE Start(p)
  <2>1. PICK r \in BOOLEAN, o \in BOOLEAN :
           proc' = [proc EXCEPT ![p] = [Down EXCEPT !.at = "open", !.rebuild = r, !.once = o]]
    BY <1>3 DEF Start
  <2>2. [Down EXCEPT !.at = "open", !.rebuild = r, !.once = o] \in Locals
    BY <1>2 DEF Locals, Places
  <2> QED
    BY <1>1, <2>1, <2>2 DEF OthersStay
<1>4. CASE RefuseLock(p) \/ Exit(p) \/ Crash(p)
  <2>1. proc' = [proc EXCEPT ![p] = Down]
    BY <1>4 DEF RefuseLock, Exit, Crash
  <2> QED
    BY <1>1, <1>2, <2>1 DEF OthersStay
<1>5. CASE PublishBuild(p)
  <2> DEFINE w == [proc[p] EXCEPT !.published = TRUE,
                                  !.at = IF proc[p].once THEN "unlock" ELSE "connect"]
  <2>1. w \in Locals
    BY <1>1 DEF Locals, Places
  <2>2. proc' = [proc EXCEPT ![p] = w]
    BY <1>1, <1>5 DEF PublishBuild, Locals
  <2> HIDE DEF w
  <2> QED
    BY <1>1, <2>1, <2>2 DEF OthersStay
<1>6. CASE CreateTable(p)
  <2>1. [proc[p] EXCEPT !.at = "stamp"] \in Locals
        /\ [proc[p] EXCEPT !.next = @ + 1] \in Locals
    <3>1. proc[p].next + 1 \in Nat \ {0}
      BY <1>1 DEF Locals
    <3>2. [proc[p] EXCEPT !.at = "stamp"] \in Locals
      BY <1>1 DEF Locals, Places
    <3>3. [proc[p] EXCEPT !.next = @ + 1] \in Locals
      BY <1>1, <3>1 DEF Locals
    <3> QED
      BY <3>2, <3>3
  <2>2. \/ proc' = [proc EXCEPT ![p] = [proc[p] EXCEPT !.at = "stamp"]]
        \/ proc' = [proc EXCEPT ![p] = [proc[p] EXCEPT !.next = @ + 1]]
    BY <1>1, <1>6 DEF CreateTable, NextTable
  <2> QED
    BY <1>1, <2>1, <2>2 DEF OthersStay
<1> QED
  BY <1>3, <1>4, <1>5, <1>6

\* The steps at the lock: what is known of a process before or behind it.
Door(p) == \/ Start(p) \/ OpenLock(p) \/ TakeLock(p) \/ RefuseLock(p) \/ ReleaseLock(p)
           \/ Exit(p) \/ Crash(p)

LEMMA DoorMoves ==
    ASSUME TypeOK, NEW p \in Proc, Door(p)
    PROVE  /\ proc' \in [Proc -> Locals] /\ OthersStay(p)
           /\ proc'[p].at \in {"down", "open", "flock", "locked", "exit"}
           /\ proc'[p].at \in {"open", "flock", "locked"} =>
                  proc'[p].next = 1 \/ (/\ proc[p].at \in {"open", "flock"}
                                         /\ proc'[p].next = proc[p].next)
<1>1. proc \in [Proc -> Locals]
  BY DEF TypeOK, Locals, Places
<1>2. CASE Start(p)
  <2>1. proc' \in [Proc -> Locals] /\ OthersStay(p)
    BY <1>2, OtherMoves
  <2>2. proc'[p].at = "open" /\ proc'[p].next = 1
    BY <1>1, <1>2 DEF Start, Down
  <2> QED
    BY <2>1, <2>2
<1>3. CASE OpenLock(p)
  BY <1>3, GotoMoves DEF OpenLock, Step, Places
<1>4. CASE TakeLock(p)
  BY <1>4, GotoMoves DEF TakeLock, Step, Places
<1>5. CASE ReleaseLock(p)
  BY <1>5, GotoMoves DEF ReleaseLock, Step, Places
<1>6. CASE RefuseLock(p) \/ Exit(p) \/ Crash(p)
  <2>1. proc' \in [Proc -> Locals] /\ OthersStay(p)
    BY <1>6, OtherMoves
  <2>2. proc'[p].at = "down"
    BY <1>1, <1>6 DEF RefuseLock, Exit, Crash, Down
  <2> QED
    BY <2>1, <2>2
<1> QED
  BY <1>2, <1>3, <1>4, <1>5, <1>6 DEF Door

\* The steps between the lock's taking and its release.
Work(p) == \/ OpenDb(p) \/ Serve(p) \/ RescanTick(p) \/ Signal(p) \/ SignalPuts(p)
           \/ CloseListener(p) \/ CompareInode(p) \/ UnlinkSocket(p) \/ CloseConnection(p)

LEMMA NextByWork == Next => \E p \in Proc : Door(p) \/ Work(p)
BY DEF Next, Run, Main, Enter, Leave, Door, Work

LEMMA WorkMoves ==
    ASSUME TypeOK, NEW p \in Proc, Work(p)
    PROVE  /\ proc' \in [Proc -> Locals] /\ OthersStay(p)
           /\ proc[p].at \in Writing /\ proc'[p].at \in Inside
           /\ UNCHANGED <<lockVars, starts, crashes>>
<1>1. UNCHANGED <<lockVars, starts, crashes>>
  BY DEF Work, OpenDb, Serve, RescanTick, Signal, SignalPuts, CloseListener, CompareInode, UnlinkSocket,
         CloseConnection, UsePublish, PublishBuild, PublishFails, Connect, GuardPasses,
         GuardRefuses, CreateTable, StampVersion, OpenFails, Recheck, Reconcile, RemoveStale,
         BindFails, BindSocket, StartThreads, InstallHandlers, EnterGet, AwaitEvent, Take, RescanEnds, count
<1>2. CASE RescanTick(p) \/ Signal(p) \/ SignalPuts(p) \/ Take(p)
  BY <1>1, <1>2, QueueMoves DEF Inside
<1>3. CASE PublishBuild(p)
  BY <1>1, <1>3, OtherMoves DEF PublishBuild, TypeOK, Inside
<1>4. CASE CreateTable(p)
  BY <1>1, <1>4, OtherMoves DEF CreateTable, NextTable, TypeOK, Inside
<1>5. CASE RemoveStale(p)
  BY <1>1, <1>5 DEF RemoveStale, TypeOK, Locals, Places, OthersStay, Inside
<1>6. CASE \/ UsePublish(p) \/ PublishFails(p) \/ Connect(p) \/ GuardPasses(p)
           \/ GuardRefuses(p) \/ StampVersion(p) \/ OpenFails(p) \/ Recheck(p) \/ Reconcile(p)
           \/ BindFails(p) \/ BindSocket(p) \/ StartThreads(p) \/ InstallHandlers(p)
           \/ EnterGet(p) \/ AwaitEvent(p) \/ RescanEnds(p) \/ CloseListener(p) \/ CompareInode(p) \/ UnlinkSocket(p)
           \/ CloseConnection(p)
  <2> DEFINE Moves == proc[p].at \in Writing /\ \E there \in Inside : Goto(p, there)
  <2>1. ASSUME UsePublish(p) \/ PublishFails(p) \/ Connect(p) \/ GuardPasses(p) \/ GuardRefuses(p)
      PROVE  Moves
    BY <2>1 DEF Step, Raise, Inside, UsePublish, PublishFails, Connect, GuardPasses,
                GuardRefuses
  <2>2. ASSUME StampVersion(p) \/ OpenFails(p) \/ Recheck(p) \/ Reconcile(p) \/ BindFails(p)
      PROVE  Moves
    BY <2>2 DEF Step, Raise, Inside, StampVersion, OpenFails, Recheck, Reconcile,
                BindFails
  <2>3. ASSUME BindSocket(p) \/ StartThreads(p) \/ InstallHandlers(p)
             \/ EnterGet(p) \/ AwaitEvent(p) \/ RescanEnds(p)
      PROVE  Moves
    BY <2>3 DEF Step, Raise, Inside, BindSocket, StartThreads, InstallHandlers, EnterGet,
                  AwaitEvent, RescanEnds
  <2>4. ASSUME CloseListener(p) \/ CompareInode(p) \/ UnlinkSocket(p) \/ CloseConnection(p)
      PROVE  Moves
    BY <2>4 DEF Step, Raise, Inside, CloseListener, CompareInode, UnlinkSocket,
                CloseConnection
  <2>5. Moves
    BY <1>6, <2>1, <2>2, <2>3, <2>4
  <2> QED
    BY <1>1, <2>5, GotoMoves DEF Places, Inside
<1> QED
  BY <1>2, <1>3, <1>4, <1>5, <1>6 DEF Work, OpenDb, Serve

-----------------------------------------------------------------------------
(* The lock.                                                               *)

LEMMA LockStep ==
    ASSUME TypeOK, LockInv, [Next]_vars PROVE LockInv' /\ Lock!TypeOK'
<1> USE DEF LockInv, Inside, OthersStay
<1>1. Lock!TypeOK /\ proc \in [Proc -> Locals]
  BY DEF TypeOK, Locals, Places
<1>2. CASE UNCHANGED vars
  BY <1>1, <1>2 DEF vars, lockVars, Lock!TypeOK
<1>3. ASSUME NEW p \in Proc, Start(p) PROVE LockInv' /\ Lock!TypeOK'
  <2>1. OthersStay(p)
    BY <1>3, OtherMoves
  <2>2. proc'[p].at = "open" /\ UNCHANGED lockVars /\ proc[p].at = "down"
    BY <1>1, <1>3 DEF Start, Down
  <2> QED
    BY <1>1, <2>1, <2>2 DEF lockVars, Lock!TypeOK
<1>4. ASSUME NEW p \in Proc, OpenLock(p) PROVE LockInv' /\ Lock!TypeOK'
  <2>1. OthersStay(p) /\ proc'[p].at = "flock" /\ proc[p].at = "open"
    BY <1>4, GotoMoves DEF OpenLock, Step, Places
  <2>2. Lock!Inode # {} /\ 0 \notin Lock!Inode
    <3>1. Lock!Cardinality(Proc) \in Nat
      BY DaemonAssumption, FS_CardinalityType DEF Lock!Cardinality, Cardinality
    <3>2. 1 \in Lock!Inode /\ 0 \notin Lock!Inode
      BY <3>1 DEF Lock!Inode
    <3> QED
      BY <3>2
  <2>3. lockfile = 0 => Lock!NewInode \in Lock!Inode
    <3> SUFFICES ASSUME lockfile = 0 PROVE Lock!NewInode \in Lock!Inode
      OBVIOUS
    <3>1. \E i \in Lock!Inode : i # lockfile /\ \A q \in Proc : lockfd[q] # i
      BY <2>2
    <3> QED
      BY <3>1 DEF Lock!NewInode
  <2> QED
    BY <1>1, <1>4, <2>1, <2>2, <2>3 DEF OpenLock, Lock!Open, Lock!TypeOK
<1>5. ASSUME NEW p \in Proc, TakeLock(p) PROVE LockInv' /\ Lock!TypeOK'
  <2>1. OthersStay(p) /\ proc'[p].at = "locked" /\ proc[p].at = "flock"
    BY <1>5, GotoMoves DEF TakeLock, Step, Places
  <2>2. \A q \in Proc : held[q] => q = p
    BY <1>1, <1>5, <2>1 DEF TakeLock, Lock!Take, Lock!LockedByOther
  <2> QED
    BY <1>1, <1>5, <2>1, <2>2 DEF TakeLock, Lock!Take, Lock!TypeOK
<1>6. ASSUME NEW p \in Proc, RefuseLock(p) PROVE LockInv' /\ Lock!TypeOK'
  <2>1. OthersStay(p) /\ proc'[p].at = "down" /\ proc[p].at = "flock"
    BY <1>1, <1>6, OtherMoves DEF RefuseLock, Down
  <2> QED
    BY <1>1, <1>6, <2>1 DEF RefuseLock, Lock!Refuse, Lock!TypeOK
<1>7. ASSUME NEW p \in Proc, Work(p) PROVE LockInv' /\ Lock!TypeOK'
  <2>1. OthersStay(p) /\ proc'[p].at \in Inside /\ proc[p].at \in Inside /\ UNCHANGED lockVars
    BY <1>7, WorkMoves
  <2> QED
    BY <1>1, <2>1 DEF lockVars, Lock!TypeOK
<1>8. ASSUME NEW p \in Proc, ReleaseLock(p) PROVE LockInv' /\ Lock!TypeOK'
  <2>1. OthersStay(p) /\ proc'[p].at = "exit" /\ proc[p].at = "unlock"
    BY <1>8, GotoMoves DEF ReleaseLock, Step, Places
  <2> QED
    BY <1>1, <1>8, <2>1 DEF ReleaseLock, Lock!Release, Lock!TypeOK
<1>9. ASSUME NEW p \in Proc, Exit(p) PROVE LockInv' /\ Lock!TypeOK'
  <2>1. OthersStay(p) /\ proc'[p].at = "down" /\ proc[p].at = "exit"
    BY <1>1, <1>9, OtherMoves DEF Exit, Down
  <2> QED
    BY <1>1, <1>9, <2>1 DEF Exit, Lock!Close, Lock!TypeOK
<1>10. ASSUME NEW p \in Proc, Crash(p) PROVE LockInv' /\ Lock!TypeOK'
  <2>1. OthersStay(p) /\ proc'[p].at = "down"
    BY <1>1, <1>10, OtherMoves DEF Crash, Down
  <2> QED
    BY <1>1, <1>10, <2>1 DEF Crash, Lock!Death, Lock!TypeOK
<1> QED
  BY <1>2, <1>3, <1>4, <1>5, <1>6, <1>7, <1>8, <1>9, <1>10, NextByWork DEF Door

\* Nobody else is inside while a process works.
LEMMA Alone ==
    ASSUME LockInv, NEW p \in Proc, proc[p].at \in Inside, NEW q \in Proc, q # p
    PROVE  proc[q].at \notin Inside
BY DEF LockInv

-----------------------------------------------------------------------------
(* The socket.                                                             *)

LEMMA SocketStep ==
    ASSUME TypeOK, LockInv, SocketIsOwn, [Next]_vars PROVE SocketIsOwn' /\ Sock!TypeOK'
<1> USE DEF SocketIsOwn, OthersStay
<1>1. Sock!TypeOK /\ proc \in [Proc -> Locals]
  BY DEF TypeOK, Locals, Places
<1>2. CASE UNCHANGED vars
  BY <1>1, <1>2 DEF vars, sockVars, Sock!TypeOK
<1>3. ASSUME NEW p \in Proc, OthersStay(p), proc'[p].at \notin Listening, UNCHANGED sockVars
      PROVE  SocketIsOwn' /\ Sock!TypeOK'
  BY <1>1, <1>3 DEF sockVars, Sock!TypeOK
<1>4. ASSUME NEW p \in Proc,
             Start(p) \/ OpenLock(p) \/ TakeLock(p) \/ RefuseLock(p) \/ ReleaseLock(p)
      PROVE  SocketIsOwn' /\ Sock!TypeOK'
  <2>1. OthersStay(p) /\ proc'[p].at \notin Listening
    BY <1>4, DoorMoves DEF Door
  <2>2. UNCHANGED sockVars
    BY <1>4 DEF Start, OpenLock, TakeLock, RefuseLock, ReleaseLock
  <2> QED
    BY <1>3, <2>1, <2>2
<1>5. ASSUME NEW p \in Proc, Exit(p) \/ Crash(p) PROVE SocketIsOwn' /\ Sock!TypeOK'
  <2>1. OthersStay(p) /\ proc'[p].at = "down" /\ Sock!Death(p)
    BY <1>1, <1>5, OtherMoves DEF Exit, Crash, Down
  <2> QED
    BY <1>1, <2>1 DEF Sock!Death, Sock!TypeOK
<1>6. ASSUME NEW p \in Proc, Work(p) PROVE SocketIsOwn' /\ Sock!TypeOK'
  <2>1. OthersStay(p) /\ proc[p].at \in Inside /\ proc' \in [Proc -> Locals]
    BY <1>6, WorkMoves DEF Inside
  <2>2. \A q \in Proc \ {p} : proc'[q].at \notin Listening
    BY <2>1, Alone DEF Inside
  <2>3. CASE RemoveStale(p)
    BY <1>1, <2>2, <2>3 DEF RemoveStale, Sock!RemoveStale, Sock!TypeOK
  <2>4. CASE BindSocket(p)
    <3>1. PICK i \in Sock!Inode : /\ sock' = i
                                 /\ listening' = [listening EXCEPT ![p] = i]
                                 /\ bound' = [bound EXCEPT ![p] = i]
      BY <2>4 DEF BindSocket, Sock!Bind
    <3> QED
      BY <1>1, <2>2, <3>1 DEF Sock!TypeOK
  <2>5. CASE CloseListener(p) \/ UnlinkSocket(p)
    <3>1. \E there \in Places \ Listening : Goto(p, there)
      BY <2>5 DEF CloseListener, UnlinkSocket, Step, Places
    <3>2. proc'[p].at \notin Listening
      BY <3>1, GotoMoves
    <3> QED
      BY <1>1, <2>2, <2>5, <3>2
         DEF CloseListener, UnlinkSocket, Sock!CloseListener, Sock!Unlink, Sock!TypeOK
  <2>6. CASE RescanTick(p) \/ Signal(p) \/ SignalPuts(p) \/ Take(p)
    <3>1. UNCHANGED sockVars /\ (proc[p].at \in Listening <=> proc'[p].at \in Listening)
      BY <2>6, QueueMoves DEF RescanTick, Signal, SignalPuts, Take
    <3> QED
      BY <1>1, <2>2, <3>1 DEF sockVars, Sock!TypeOK
  <2>7. CASE OpenDb(p) \/ BindFails(p) \/ StartThreads(p) \/ InstallHandlers(p)
             \/ EnterGet(p) \/ AwaitEvent(p) \/ RescanEnds(p)
             \/ CompareInode(p) \/ CloseConnection(p)
    <3>1. UNCHANGED sockVars
      BY <2>7 DEF OpenDb, UsePublish, PublishBuild, PublishFails, Connect, GuardPasses,
                  GuardRefuses, CreateTable, StampVersion, OpenFails, Recheck, Reconcile,
                  BindFails, StartThreads, InstallHandlers, EnterGet,
                  AwaitEvent, RescanEnds, CompareInode,
                  CloseConnection
    <3>2. proc'[p].at \in Listening => proc[p].at \in Listening
      <4>1. CASE PublishBuild(p)
        BY <1>1, <4>1 DEF PublishBuild, Locals
      <4>2. CASE CreateTable(p)
        BY <1>1, <4>2 DEF CreateTable, NextTable, Locals
      <4>3. CASE StartThreads(p) \/ InstallHandlers(p)
             \/ EnterGet(p) \/ AwaitEvent(p) \/ RescanEnds(p)
        BY <1>1, <4>3 DEF StartThreads, InstallHandlers, EnterGet,
                  AwaitEvent, RescanEnds, Step, Raise
      <4>4. ASSUME ~PublishBuild(p), ~CreateTable(p),
                   OpenDb(p) \/ BindFails(p) \/ CompareInode(p) \/ CloseConnection(p)
            PROVE  \E there \in Places \ Listening : Goto(p, there)
        BY <4>4
           DEF OpenDb, UsePublish, PublishFails, Connect, GuardPasses, GuardRefuses,
               StampVersion, OpenFails, Recheck, Reconcile, BindFails, CompareInode,
               CloseConnection, Step, Raise, Places
      <4> QED
        BY <2>7, <4>1, <4>2, <4>3, <4>4, GotoMoves
    <3> QED
      BY <1>1, <2>2, <3>1, <3>2 DEF sockVars, Sock!TypeOK
  <2> QED
    BY <1>6, <2>3, <2>4, <2>5, <2>6, <2>7 DEF Work, Serve
<1> QED
  BY <1>2, <1>4, <1>5, <1>6, NextByWork DEF Door

-----------------------------------------------------------------------------
(* The database.                                                           *)

\* A script begins with schema_version, and its tables are of its version.
LEMMA Scripts ==
    ASSUME NEW p \in Proc
    PROVE  /\ VersionOf[p] \in Version
           /\ Len(Script[VersionOf[p]]) \in Nat \ {0}
           /\ Script[VersionOf[p]][1] = "schema_version"
           /\ \A i \in 1..Len(Script[VersionOf[p]]) :
                 Table(Script[VersionOf[p]][i], VersionOf[p]) \in Schema(VersionOf[p])
           /\ ToSet(Script[VersionOf[p]]) =
                 {Script[VersionOf[p]][i] : i \in 1..Len(Script[VersionOf[p]])}
<1> DEFINE v == VersionOf[p]
<1>1. v \in Version
  BY DaemonAssumption
<1>2. Script[v] \in Seq(STRING) /\ Script[v] # <<>> /\ Head(Script[v]) = "schema_version"
  BY <1>1, GateAssumption
<1> HIDE DEF v
<1>3. /\ Len(Script[v]) \in Nat \ {0} /\ DOMAIN Script[v] = 1..Len(Script[v])
      /\ Script[v][1] = "schema_version"
  BY <1>2
<1>4. ToSet(Script[v]) = {Script[v][i] : i \in 1..Len(Script[v])}
  BY <1>3 DEF ToSet
<1>5. \A i \in 1..Len(Script[v]) : Table(Script[v][i], v) \in Schema(v)
  BY <1>4 DEF Schema
<1> QED
  BY <1>1, <1>3, <1>4, <1>5 DEF v

LEMMA NameOfTable == \A t, v : Table(t, v).name = t
BY DEF Table

\* Tables are added only.
LEMMA TablesStay ==
    ASSUME db.tables \subseteq db'.tables
    PROVE  /\ \A t : HasTable(t) => HasTable(t)'
           /\ \A p \in Proc : \A n : Created(p, n) => Created(p, n)'
BY DEF HasTable, Created

\* Somebody else's database has no table of a builder.
LEMMA TheirsIsForeign == db.tables = {Theirs} => IsForeign
BY DEF IsForeign, HasTable, Theirs, Table

(* What is left of the invariant where a step leaves tables and stamp alone. *)
LEMMA DbAlone ==
    ASSUME TypeOK, StampedIsWhole, ScriptInv, OriginInv, NEW p \in Proc, OthersStay(p),
           DbTypeOK', db'.tables = db.tables, db'.stamp = db.stamp,
           torn' \subseteq Version, ScriptAt(p)', torn \subseteq torn',
           proc[p].at \in {"script", "stamp"} =>
               \/ proc'[p].at \in {"script", "stamp"}
               \/ VersionOf[p] \in torn'
               \/ db.stamp # None \/ db.tables = {}
    PROVE  DbTypeOK' /\ torn' \subseteq Version /\ StampedIsWhole' /\ ScriptInv' /\ OriginInv'
<1>1. StampedIsWhole'
  BY DEF StampedIsWhole, HasTable
<1>2. ScriptInv'
  <2> SUFFICES ASSUME NEW q \in Proc, q # p PROVE ScriptAt(q)'
    BY DEF ScriptInv
  <2> QED
    BY TablesStay DEF ScriptInv, ScriptAt, OthersStay, Created, IsForeign, HasTable
<1>3. db.tables # {} => Makers \subseteq Makers'
  <2>1. proc[p].at \in {"script", "stamp"} => db.stamp \in {None, VersionOf[p]}
    BY DEF ScriptInv, ScriptAt
  <2> QED
    BY <2>1 DEF Makers, OthersStay
<1>4. OriginInv'
  BY <1>3 DEF OriginInv
<1> QED
  BY <1>1, <1>2, <1>4

\* What the database needs of the invariant, and what it gives back.
DbInv == TypeOK /\ LockInv /\ StampedIsWhole /\ ScriptInv /\ OriginInv
DbKept == DbTypeOK' /\ torn' \subseteq Version /\ StampedIsWhole' /\ ScriptInv' /\ OriginInv'

USE DEF Before, After

LEMMA DoorKeepsDb == ASSUME DbInv, NEW p \in Proc, Door(p) PROVE DbKept
<1> USE DEF DbInv
<1>1. /\ OthersStay(p) /\ proc'[p].at \in {"down", "open", "flock", "locked", "exit"}
      /\ proc'[p].at \in {"open", "flock", "locked"} => proc'[p].next = 1
  BY DoorMoves DEF ScriptInv, ScriptAt
<1>2. ScriptAt(p)'
  BY <1>1 DEF ScriptAt
<1>3. db' = db /\ DbTypeOK'
  BY DEF Door, Start, OpenLock, TakeLock, RefuseLock, ReleaseLock, Exit, Crash, TypeOK,
         DbTypeOK
<1>4. CASE UNCHANGED torn /\ ~Crash(p)
  <2>1. proc[p].at \notin {"script", "stamp"}
    BY <1>4 DEF Door, Start, OpenLock, TakeLock, RefuseLock, ReleaseLock, Exit, Step
  <2> QED
    BY <1>1, <1>2, <1>3, <1>4, <2>1, DbAlone DEF TypeOK, DbKept
<1>5. CASE Crash(p)
  <2>1. /\ torn \subseteq torn' /\ torn' \subseteq torn \cup {VersionOf[p]}
        /\ proc[p].at \in {"script", "stamp"} =>
               VersionOf[p] \in torn' \/ db.stamp # None \/ db.tables = {}
    BY <1>5 DEF Crash, Torn
  <2>2. torn' \subseteq Version
    BY <2>1, Scripts DEF TypeOK
  <2> QED
    BY <1>1, <1>2, <1>3, <2>1, <2>2, DbAlone DEF DbKept
<1>6. Crash(p) \/ UNCHANGED torn
  BY DEF Door, Start, OpenLock, TakeLock, RefuseLock, ReleaseLock, Exit
<1> QED
  BY <1>4, <1>5, <1>6

\* build_and_publish replaces the database.
LEMMA PublishKeepsDb == ASSUME DbInv, NEW p \in Proc, PublishBuild(p) PROVE DbKept
<1> USE DEF DbInv
<1>1. /\ OthersStay(p) /\ proc[p].at = "publish" /\ proc'[p].at \in {"unlock", "connect"}
      /\ proc'[p].next = proc[p].next
  BY OtherMoves DEF PublishBuild, TypeOK
<1>2. \A q \in Proc \ {p} : proc'[q] = proc[q] /\ proc[q].at \notin Inside
  BY <1>1, Alone DEF OthersStay, Inside
<1>3. /\ db' = Built(VersionOf[p]) /\ torn' = {} /\ VersionOf[p] \in Version /\ None \notin Version
  BY Scripts, GateAssumption DEF PublishBuild, DbPublish
<1>4. DbTypeOK'
  BY <1>3 DEF DbTypeOK, Built
<1>5. StampedIsWhole'
  <2>1. db'.stamp = VersionOf[p] /\ db'.tables = Schema(VersionOf[p])
    BY <1>3 DEF Built
  <2>2. \A t \in ToSet(Script[VersionOf[p]]) : Table(t, VersionOf[p]) \in db'.tables
    BY <2>1 DEF Schema
  <2> QED
    BY <2>1, <2>2, NameOfTable DEF StampedIsWhole, HasTable
<1>6. ScriptInv'
  BY <1>1, <1>2 DEF ScriptInv, ScriptAt, Inside
<1>7. OriginInv'
  BY <1>3 DEF OriginInv, Makers, Built
<1> QED
  BY <1>3, <1>4, <1>5, <1>6, <1>7 DEF DbKept

\* One statement of the script.
LEMMA CreateKeepsDb == ASSUME DbInv, NEW p \in Proc, CreateTable(p) PROVE DbKept
<1> USE DEF DbInv
<1>0. PICK n : n = proc[p].next
  OBVIOUS
<1> DEFINE v == VersionOf[p]
           t == Script[v][n]
<1>1. /\ OthersStay(p) /\ proc[p].at = "script" /\ UNCHANGED torn
      /\ \/ n = Len(Script[v]) /\ proc'[p].at = "stamp"
         \/ proc'[p].at = "script" /\ proc'[p].next = n + 1 /\ n # Len(Script[v])
  BY <1>0, OtherMoves DEF CreateTable, NextTable, TypeOK
<1>2. \A q \in Proc \ {p} : proc'[q] = proc[q] /\ proc[q].at \notin Inside
  BY <1>1, Alone DEF OthersStay, Inside
<1>3. /\ n \in 1..Len(Script[v]) /\ Created(p, n - 1)
      /\ ~IsForeign /\ db.stamp \in {None, v}
  BY <1>0, <1>1 DEF ScriptInv, ScriptAt
<1>4. /\ v \in Version /\ Len(Script[v]) \in Nat /\ Script[v][1] = "schema_version"
      /\ Table(t, v) \in Schema(v)
  BY <1>3, Scripts
<1>5. /\ db'.stamp = db.stamp /\ db'.exists = db.exists
      /\ HasTable(t) => db'.tables = db.tables
      /\ ~HasTable(t) => db'.tables = db.tables \cup {Table(t, v)}
  BY <1>0 DEF CreateTable, ThisTable, DbCreate, TypeOK, DbTypeOK
<1>6. DbTypeOK'
  <2>1. /\ db \in [exists : BOOLEAN,
                   tables : SUBSET ({Theirs} \cup UNION {Schema(w) : w \in Version}),
                   stamp : Version \cup {None}]
        /\ Table(t, v) \in UNION {Schema(w) : w \in Version}
    BY <1>4 DEF TypeOK, DbTypeOK
  <2>2. db' = db \/ db' = [db EXCEPT !.tables = @ \cup {Table(t, v)}]
    BY <1>0 DEF CreateTable, ThisTable, DbCreate
  <2> HIDE DEF t, v
  <2> QED
    BY <2>1, <2>2 DEF DbTypeOK
<1>7. /\ \A u : HasTable(u) => HasTable(u)'
      /\ HasTable(t)' /\ Created(p, n)' /\ HasTable("schema_version")'
  <2>1. /\ \A u : HasTable(u) => HasTable(u)'
        /\ Created(p, n - 1)'
    BY <1>3, <1>5, TablesStay
  <2>2. HasTable(t)'
    BY <1>5, <2>1, NameOfTable DEF HasTable
  <2>3. \A i \in 1..n : i = n \/ i \in 1..(n - 1)
    BY <1>3
  <2>4. Created(p, n)'
    BY <2>1, <2>2, <2>3 DEF Created
  <2>5. 1 \in 1..n
    BY <1>3
  <2> QED
    BY <1>4, <2>1, <2>2, <2>4, <2>5 DEF Created
<1>8. StampedIsWhole'
  BY <1>5, <1>7 DEF StampedIsWhole
<1>9. ScriptInv'
  <2>1. ScriptAt(p)'
    <3>1. ~IsForeign' /\ db'.stamp \in {None, v}
      BY <1>3, <1>5, <1>7 DEF IsForeign
    <3>2. n = Len(Script[v]) \/ (n + 1 \in 1..Len(Script[v]) /\ (n + 1) - 1 = n)
      BY <1>3, <1>4
    <3> QED
      BY <1>1, <1>7, <3>1, <3>2 DEF ScriptAt
  <2> QED
    BY <1>2, <2>1 DEF ScriptInv, ScriptAt, Inside
<1>10. OriginInv'
  <2>1. v \in Makers' /\ Makers \subseteq Makers'
    BY <1>1, <1>4, <1>5 DEF Makers, OthersStay
  <2>2. db.tables \subseteq UNION {Schema(w) : w \in Makers}
    BY <1>3, TheirsIsForeign DEF OriginInv
  <2> QED
    BY <1>4, <1>5, <2>1, <2>2 DEF OriginInv
<1> QED
  BY <1>1, <1>6, <1>8, <1>9, <1>10 DEF DbKept, TypeOK

\* The stamp, on a schema that is whole.
LEMMA StampKeepsDb == ASSUME DbInv, NEW p \in Proc, StampVersion(p) PROVE DbKept
<1> USE DEF DbInv
<1> DEFINE v == VersionOf[p]
<1>1. OthersStay(p) /\ proc[p].at = "stamp" /\ proc'[p].at = "recheck" /\ UNCHANGED torn
  BY GotoMoves DEF StampVersion, Step, Places
<1>2. \A q \in Proc \ {p} : proc'[q] = proc[q] /\ proc[q].at \notin Inside
  BY <1>1, Alone DEF OthersStay, Inside
<1>3. Created(p, Len(Script[v])) /\ ~IsForeign /\ db.stamp \in {None, v}
  BY <1>1 DEF ScriptInv, ScriptAt
<1>4. v \in Version /\ None \notin Version
  BY Scripts, GateAssumption
<1>5. /\ db'.stamp = v /\ db'.exists = db.exists /\ db'.tables = db.tables /\ DbTypeOK'
  BY <1>3, <1>4 DEF StampVersion, DbStamp, TypeOK, DbTypeOK
<1>6. StampedIsWhole'
  <2>1. ToSet(Script[v]) = {Script[v][i] : i \in 1..Len(Script[v])}
    BY Scripts
  <2>2. \A t \in ToSet(Script[v]) : HasTable(t)
    BY <1>3, <2>1 DEF Created
  <2> QED
    BY <1>5, <2>2 DEF StampedIsWhole, HasTable
<1>7. ScriptInv'
  BY <1>1, <1>2, <1>5 DEF ScriptInv, ScriptAt, Inside
<1>8. OriginInv'
  <2>1. Makers \subseteq Makers'
    BY <1>1, <1>2, <1>3, <1>4, <1>5 DEF Makers, Inside
  <2>2. db.tables \subseteq UNION {Schema(w) : w \in Makers}
    BY <1>3, TheirsIsForeign DEF OriginInv
  <2> QED
    BY <1>5, <2>1, <2>2 DEF OriginInv
<1> QED
  BY <1>1, <1>5, <1>6, <1>7, <1>8 DEF DbKept, TypeOK

\* A step of open_db that reads, or that fails.
LEMMA OpenKeepsDb ==
    ASSUME DbInv, NEW p \in Proc,
           \/ UsePublish(p) \/ PublishFails(p) \/ Connect(p) \/ GuardPasses(p)
           \/ GuardRefuses(p) \/ OpenFails(p) \/ Recheck(p) \/ Reconcile(p)
    PROVE  DbKept
<1> USE DEF DbInv
<1>1. DbTypeOK' /\ db'.tables = db.tables /\ db'.stamp = db.stamp
  BY DEF UsePublish, PublishFails, Connect, DbConnect, GuardPasses, GuardRefuses, OpenFails,
         Recheck, Reconcile, TypeOK, DbTypeOK
<1>2. ASSUME NEW here \in Places, NEW there \in Places, Step(p, here, there)
      PROVE  /\ OthersStay(p) /\ proc[p].at = here /\ proc'[p].at = there
             /\ proc'[p].next = proc[p].next
  BY <1>2, GotoMoves DEF Step
<1>3. ASSUME NEW here \in Places, NEW there \in Places, Step(p, here, there),
             here \notin {"script", "stamp"}, UNCHANGED torn, ScriptAt(p)'
      PROVE  DbKept
  BY <1>1, <1>2, <1>3, DbAlone DEF TypeOK, DbKept
<1>4. CASE UsePublish(p)
  <2>1. PICK there \in {"publish", "connect"} : Step(p, "locked", there)
    BY <1>4 DEF UsePublish
  <2>2. ScriptAt(p)'
    BY <1>2, <2>1 DEF ScriptInv, ScriptAt, Places
  <2> QED
    BY <1>3, <1>4, <2>1, <2>2 DEF UsePublish, Places
<1>5. CASE PublishFails(p) \/ GuardRefuses(p)
  <2>1. PICK here \in {"publish", "guard"} : Step(p, here, "unlock")
    BY <1>5 DEF PublishFails, GuardRefuses, Raise
  <2>2. ScriptAt(p)'
    BY <1>2, <2>1 DEF ScriptAt, Places
  <2> QED
    BY <1>3, <1>5, <2>1, <2>2 DEF PublishFails, GuardRefuses, Places
<1>6. CASE Connect(p)
  <2>1. Step(p, "connect", "guard")
    BY <1>6 DEF Connect
  <2>2. ScriptAt(p)'
    <3>1. /\ proc[p].at = "connect" /\ proc'[p].at = "guard"
          /\ proc'[p].next = proc[p].next
      BY <1>2, <2>1 DEF Places
    <3>2. proc[p].next = 1
      BY <3>1 DEF ScriptInv, ScriptAt
    <3> QED
      BY <3>1, <3>2 DEF ScriptAt
  <2> QED
    BY <1>3, <1>6, <2>1, <2>2 DEF Connect, Places
<1>7. CASE GuardPasses(p)
  <2>1. Step(p, "guard", "script") /\ ~Refused(VersionOf[p]) /\ db' = db
    BY <1>7 DEF GuardPasses
  <2>2. proc'[p].at = "script" /\ proc'[p].next = 1
    BY <1>2, <2>1 DEF ScriptInv, ScriptAt, Places
  <2>3. ~IsForeign /\ db.stamp \in {None, VersionOf[p]}
    <3>1. db.stamp # None => HasTable("schema_version")
      <4> SUFFICES ASSUME db.stamp # None PROVE HasTable("schema_version")
        OBVIOUS
      <4>1. db.stamp \in Version
        BY DEF TypeOK, DbTypeOK
      <4>2. "schema_version" \in ToSet(Script[db.stamp])
        BY <4>1, GateAssumption, TailLeaves
      <4> QED
        BY <4>2 DEF StampedIsWhole
    <3> QED
      BY <2>1, <3>1 DEF Refused, IsOther
  <2>4. ScriptAt(p)'
    <3>1. 1 \in 1..Len(Script[VersionOf[p]])
      BY Scripts
    <3>2. ~IsForeign' /\ db'.stamp \in {None, VersionOf[p]}
      BY <2>1, <2>3 DEF IsForeign, HasTable
    <3>3. Created(p, 1 - 1)'
      BY DEF Created
    <3> QED
      BY <2>2, <3>1, <3>2, <3>3 DEF ScriptAt
  <2> QED
    BY <1>3, <1>7, <2>1, <2>4 DEF GuardPasses, Places
<1>8. CASE OpenFails(p)
  <2>1. PICK here \in {"connect", "script", "stamp"} : Step(p, here, "unlock")
    BY <1>8 DEF OpenFails, Raise
  <2>2. ScriptAt(p)'
    <3>1. here \in Places /\ "unlock" \in Places
      BY DEF Places
    <3>2. proc'[p].at = "unlock"
      BY <1>2, <2>1, <3>1
    <3> QED
      BY <3>2 DEF ScriptAt, Before, After
  <2>3. /\ torn \subseteq torn' /\ torn' \subseteq torn \cup {VersionOf[p]}
        /\ proc[p].at \in {"script", "stamp"} =>
               VersionOf[p] \in torn' \/ db.stamp # None \/ db.tables = {}
    BY <1>8 DEF OpenFails, Torn
  <2>4. torn' \subseteq Version
    BY <2>3, Scripts DEF TypeOK
  <2> QED
    BY <1>1, <1>2, <2>1, <2>2, <2>3, <2>4, DbAlone DEF DbKept, Places
<1>9. CASE Recheck(p)
  <2>1. PICK there \in {"unlock", "bind", "reconcile"} : Step(p, "recheck", there)
    BY <1>9 DEF Recheck
  <2>2. ScriptAt(p)'
    BY <1>1, <1>2, <2>1 DEF ScriptInv, ScriptAt, Places
  <2> QED
    BY <1>3, <1>9, <2>1, <2>2 DEF Recheck, Places
<1>10. CASE Reconcile(p)
  <2>1. PICK there \in {"unlock", "bind"} : Step(p, "reconcile", there)
    BY <1>10 DEF Reconcile, Raise
  <2>2. ScriptAt(p)'
    BY <1>1, <1>2, <2>1 DEF ScriptInv, ScriptAt, Places
  <2> QED
    BY <1>3, <1>10, <2>1, <2>2 DEF Reconcile, Places
<1> QED
  BY <1>4, <1>5, <1>6, <1>7, <1>8, <1>9, <1>10

\* While it serves and when it leaves, a daemon's database is what it was.
LEMMA ServeKeepsDb ==
    ASSUME DbInv, NEW p \in Proc,
           \/ Serve(p) \/ RescanTick(p) \/ Signal(p) \/ SignalPuts(p) \/ CloseListener(p) \/ CompareInode(p)
           \/ UnlinkSocket(p) \/ CloseConnection(p)
    PROVE  DbKept
<1> USE DEF DbInv
<1>1. UNCHANGED <<db, torn>> /\ DbTypeOK'
  BY DEF Serve, RescanTick, Signal, SignalPuts, CloseListener, CompareInode, UnlinkSocket,
         CloseConnection, RemoveStale, BindFails, BindSocket, StartThreads,
         InstallHandlers, EnterGet, AwaitEvent, Take, RescanEnds, TypeOK, DbTypeOK
<1>2. /\ OthersStay(p)
      /\ proc[p].at \in Writing \ Opening
      /\ proc'[p].at \in (Writing \ Opening) \cup {"unlock"}
  <2>1. CASE RescanTick(p) \/ Signal(p) \/ SignalPuts(p) \/ Take(p)
    BY <2>1, QueueMoves
  <2>2. CASE RemoveStale(p)
    BY <2>2 DEF RemoveStale, OthersStay
  <2>3. CASE \/ BindFails(p) \/ BindSocket(p) \/ StartThreads(p) \/ InstallHandlers(p)
             \/ EnterGet(p) \/ AwaitEvent(p) \/ RescanEnds(p) \/ CloseListener(p) \/ CompareInode(p) \/ UnlinkSocket(p)
             \/ CloseConnection(p)
    <3>1. /\ proc[p].at \in Writing \ Opening
          /\ \E there \in (Writing \ Opening) \cup {"unlock"} : Goto(p, there)
      BY <2>3 DEF BindFails, BindSocket, StartThreads, InstallHandlers, EnterGet,
                  AwaitEvent, RescanEnds,
                  CloseListener, CompareInode, UnlinkSocket, CloseConnection, Step, Raise
    <3> QED
      BY <3>1, GotoMoves DEF Places
  <2> QED
    BY <2>1, <2>2, <2>3 DEF Serve
<1>3. ScriptAt(p)'
  BY <1>1, <1>2 DEF ScriptInv, ScriptAt
<1> QED
  BY <1>1, <1>2, <1>3, DbAlone DEF TypeOK, DbKept

-----------------------------------------------------------------------------
LEMMA InitIInv == Init => IInv
<1> SUFFICES ASSUME Init PROVE IInv
  OBVIOUS
<1>1. TypeOK
  <2>1. DbTypeOK
    <3> DEFINE All == {Theirs} \cup UNION {Schema(v) : v \in Version}
    <3>1. CASE db \in {NoDb, EmptyDb, ForeignDb}
      <4>1. {} \in SUBSET All /\ {Theirs} \in SUBSET All
        OBVIOUS
      <4>2. PICK e \in BOOLEAN, t \in SUBSET All : db = [exists |-> e, tables |-> t, stamp |-> None]
        BY <3>1, <4>1 DEF NoDb, EmptyDb, ForeignDb
      <4> HIDE DEF All
      <4>3. db \in [exists : BOOLEAN, tables : SUBSET All, stamp : Version \cup {None}]
        BY <4>2
      <4> QED
        BY <4>3 DEF DbTypeOK, All
    <3>2. ASSUME NEW v \in Version, db = Built(v) PROVE DbTypeOK
      BY <3>2 DEF Built, DbTypeOK
    <3> QED
      BY <3>1, <3>2 DEF Init, DbInit, InitialDbs
  <2>2. Lock!TypeOK /\ Sock!TypeOK
    BY DEF Init, Lock!Init, Sock!Init, Lock!TypeOK, Sock!TypeOK
  <2> QED
    BY <2>1, <2>2, DaemonAssumption DEF Init, TypeOK, Down
<1>2. \A p \in Proc : proc[p].at = "down"
  BY DEF Init, Down
<1>3. LockInv /\ SocketIsOwn /\ ScriptInv
  BY <1>2 DEF Init, Lock!Init, LockInv, Inside, SocketIsOwn, ScriptInv, ScriptAt
<1>4. StampedIsWhole /\ OriginInv
  <2>1. CASE db \in {NoDb, EmptyDb, ForeignDb}
    <3>1. db.stamp = None /\ (db.tables = {} \/ db.tables = {Theirs})
      BY <2>1 DEF NoDb, EmptyDb, ForeignDb
    <3> QED
      BY <3>1 DEF StampedIsWhole, OriginInv
  <2>2. ASSUME NEW v \in Version, db = Built(v) PROVE StampedIsWhole /\ OriginInv
    <3>1. db.stamp = v /\ db.tables = Schema(v)
      BY <2>2 DEF Built
    <3>2. \A t \in ToSet(Script[v]) : Table(t, v) \in db.tables
      BY <3>1 DEF Schema
    <3>3. v \in Makers
      BY <3>1, GateAssumption DEF Makers
    <3> QED
      BY <3>1, <3>2, <3>3, NameOfTable DEF StampedIsWhole, HasTable, OriginInv
  <2> QED
    BY <2>1, <2>2 DEF Init, DbInit, InitialDbs
<1> QED
  BY <1>1, <1>3, <1>4 DEF IInv

LEMMA DbStep == ASSUME DbInv, Next PROVE DbKept
<1>1. PICK p \in Proc : Door(p) \/ Work(p)
  BY NextByWork
<1> QED
  BY <1>1, DoorKeepsDb, PublishKeepsDb, CreateKeepsDb, StampKeepsDb, OpenKeepsDb, ServeKeepsDb
     DEF Work, OpenDb

LEMMA TypeStep == ASSUME IInv, Next PROVE TypeOK'
<1>1. PICK p \in Proc : Door(p) \/ Work(p)
  BY NextByWork
<1>2. TypeOK /\ LockInv /\ DbInv
  BY DEF IInv, DbInv
<1>3. DbTypeOK' /\ torn' \subseteq Version
  BY <1>2, DbStep DEF DbKept
<1>4. proc' \in [Proc -> Locals]
  BY <1>1, <1>2, DoorMoves, WorkMoves
<1>5. starts' \in 0..MaxStarts /\ crashes' \in 0..MaxCrash
  <2>1. CASE Work(p)
    BY <1>2, <2>1, WorkMoves DEF TypeOK
  <2>2. CASE Door(p)
    <3>1. starts \in 0..MaxStarts /\ crashes \in 0..MaxCrash /\ MaxStarts \in Nat /\ MaxCrash \in Nat
      BY <1>2, DaemonAssumption DEF TypeOK
    <3>2. /\ starts' = starts \/ (starts < MaxStarts /\ starts' = starts + 1)
          /\ crashes' = crashes \/ (crashes < MaxCrash /\ crashes' = crashes + 1)
      BY <2>2 DEF Door, Start, OpenLock, TakeLock, RefuseLock, ReleaseLock, Exit, Crash, count
    <3> QED
      BY <3>1, <3>2
  <2> QED
    BY <1>1, <2>1, <2>2
<1>6. Lock!TypeOK' /\ Sock!TypeOK'
  BY <1>2, LockStep, SocketStep DEF IInv
<1> QED
  BY <1>3, <1>4, <1>5, <1>6 DEF TypeOK, Locals, Places

LEMMA StepIInv == ASSUME IInv, [Next]_vars PROVE IInv'
<1>1. CASE Next
  <2>1. DbInv /\ TypeOK /\ LockInv /\ SocketIsOwn
    BY DEF IInv, DbInv
  <2> QED
    BY <1>1, <2>1, TypeStep, LockStep, SocketStep, DbStep DEF IInv, DbKept
<1>2. CASE UNCHANGED vars
  <2>1. TypeOK'
    BY <1>2 DEF vars, lockVars, sockVars, count, IInv, TypeOK, Lock!TypeOK, Sock!TypeOK, DbTypeOK
  <2>2. LockInv' /\ SocketIsOwn' /\ StampedIsWhole' /\ ScriptInv' /\ OriginInv'
    BY <1>2 DEF vars, lockVars, sockVars, count, IInv, LockInv, SocketIsOwn, StampedIsWhole,
                ScriptInv, ScriptAt, Created, HasTable, IsForeign, OriginInv, Makers
  <2> QED
    BY <2>1, <2>2 DEF IInv
<1> QED
  BY <1>1, <1>2

-----------------------------------------------------------------------------
(* The theorems.                                                           *)

THEOREM Invariance == Spec => []IInv
BY InitIInv, StepIInv, PTL DEF Spec

(* The lock, the socket, the database and the processes' variables are of  *)
(* their types.                                                            *)
THEOREM TypeCorrect == Spec => []TypeOK
<1>1. IInv => TypeOK
  BY DEF IInv
<1> QED
  BY <1>1, Invariance, PTL

(* At most one process is between taking the lock and giving it back,      *)
(* however many are started and whichever of them die.                     *)
THEOREM OneWriterCorrect == Spec => []OneWriter
<1>1. IInv => OneWriter
  BY DEF IInv, LockInv, Inside, OneWriter
<1> QED
  BY <1>1, Invariance, PTL

(* While a daemon serves tag edits, the socket path leads to its socket:   *)
(* no other builder removes it, and what a dead one left is replaced.      *)
THEOREM SocketIsOwnCorrect == Spec => []SocketIsOwn
<1>1. IInv => SocketIsOwn
  BY DEF IInv
<1> QED
  BY <1>1, Invariance, PTL

(* A stamped database has every table of its version, wherever the script  *)
(* of an earlier builder was cut off.                                      *)
THEOREM StampedIsWholeCorrect == Spec => []StampedIsWhole
<1>1. IInv => StampedIsWhole
  BY DEF IInv
<1> QED
  BY <1>1, Invariance, PTL

(* A builder past open_db works under its own stamp, and on tables of its  *)
(* own version but for those a script of another left unstamped.           *)
THEOREM OwnShapeCorrect == Spec => []OwnShape
<1>1. IInv => OwnShape
  <2> SUFFICES ASSUME IInv, NEW p \in Proc, proc[p].at \in (Writing \ Opening)
               PROVE  /\ db.stamp = VersionOf[p]
                      /\ db.tables \subseteq UNION {Schema(v) : v \in torn \cup {VersionOf[p]}}
    BY DEF OwnShape
  <2>1. db.stamp = VersionOf[p] /\ db.stamp # None
    BY Scripts, GateAssumption DEF IInv, ScriptInv, ScriptAt
  <2>2. \A q \in Proc : proc[q].at \notin {"script", "stamp"}
    BY Alone DEF IInv, Inside
  <2>3. Makers = torn \cup {VersionOf[p]}
    BY <2>1, <2>2 DEF Makers
  <2> QED
    BY <2>1, <2>3 DEF IInv, OriginInv
<1> QED
  BY <1>1, Invariance, PTL

(* Who is refused the lock is refused it by a process that is alive and    *)
(* holds it: a lock does not outlive its process.                          *)
THEOREM NoStaleLockCorrect == Spec => NoStaleLock
<1>1. IInv /\ [Next]_vars =>
        [\A p \in Proc : At(p, "flock") /\ proc'[p].at = "down" /\ crashes' = crashes =>
            \E q \in Proc \ {p} : proc[q].at \in Writing \cup {"unlock"}]_vars
  <2> SUFFICES ASSUME IInv, Next, NEW p \in Proc, proc[p].at = "flock",
                      proc'[p].at = "down", crashes' = crashes
               PROVE  \E q \in Proc \ {p} : proc[q].at \in Inside
    BY DEF Inside
  <2>1. PICK q \in Proc : Door(q) \/ Work(q)
    BY NextByWork
  <2>2. OthersStay(q) /\ (Work(q) => proc[q].at \in Writing)
    BY <2>1, DoorMoves, WorkMoves DEF IInv
  <2>3. q = p /\ Door(p)
    BY <2>1, <2>2 DEF OthersStay
  <2>4. ~Crash(p)
    BY DaemonAssumption DEF Crash, IInv, TypeOK
  <2>5. ~OpenLock(p) /\ ~TakeLock(p)
    <3>1. \A there \in {"flock", "locked"} : ~Goto(p, there)
      BY GotoMoves DEF Places, IInv
    <3> QED
      BY <3>1 DEF OpenLock, TakeLock, Step
  <2>6. RefuseLock(p)
    BY <2>3, <2>4, <2>5 DEF Door, Start, ReleaseLock, Exit, Step
  <2> QED
    BY <2>6 DEF RefuseLock, Lock!Refuse, Lock!LockedByOther, IInv, LockInv
<1> QED
  BY <1>1, Invariance, PTL DEF Spec, NoStaleLock

(* Nobody adds a table to, or stamps, a database that is somebody else's   *)
(* or already stamped; only a publish replaces it.                         *)
THEOREM OthersKeptCorrect == Spec => OthersKept
<1>1. IInv /\ [Next]_vars =>
        [(IsForeign \/ db.stamp # None) /\ ~ByPublish =>
            db'.tables = db.tables /\ db'.stamp = db.stamp]_vars
  <2> SUFFICES ASSUME IInv, Next, IsForeign \/ db.stamp # None, ~ByPublish
               PROVE  db'.tables = db.tables /\ db'.stamp = db.stamp
    OBVIOUS
  <2>1. PICK p \in Proc : Door(p) \/ Work(p)
    BY NextByWork
  <2>2. ~PublishBuild(p)
    BY DEF ByPublish, PublishBuild, IInv, TypeOK
  <2>3. CASE CreateTable(p)
    <3>1. db.stamp = VersionOf[p] /\ proc[p].next \in 1..Len(Script[VersionOf[p]])
      BY <2>3 DEF CreateTable, IInv, ScriptInv, ScriptAt
    <3>2. db.stamp # None
      BY <3>1, Scripts, GateAssumption
    <3>3. HasTable(Script[VersionOf[p]][proc[p].next])
      BY <3>1, <3>2, Scripts DEF IInv, StampedIsWhole
    <3> QED
      BY <2>3, <3>3 DEF CreateTable, ThisTable, DbCreate
  <2>4. CASE StampVersion(p)
    <3>1. db.stamp # None
      BY <2>4 DEF StampVersion, Step, IInv, ScriptInv, ScriptAt
    <3> QED
      BY <2>4, <3>1 DEF StampVersion, DbStamp
  <2>5. CASE Connect(p)
    BY <2>5 DEF Connect, DbConnect, IInv, TypeOK, DbTypeOK
  <2>6. ASSUME ~CreateTable(p), ~StampVersion(p), ~Connect(p) PROVE UNCHANGED db
    BY <2>1, <2>2, <2>6
       DEF Door, Start, OpenLock, TakeLock, RefuseLock, ReleaseLock, Exit, Crash, Work, OpenDb,
           UsePublish, PublishFails, GuardPasses, GuardRefuses, OpenFails, Recheck, Reconcile,
           Serve, RescanTick, Signal, SignalPuts, CloseListener, CompareInode, UnlinkSocket,
           CloseConnection, RemoveStale, BindFails, BindSocket, StartThreads,
           InstallHandlers, EnterGet, AwaitEvent, Take, RescanEnds
  <2> QED
    BY <2>3, <2>4, <2>5, <2>6
<1> QED
  BY <1>1, Invariance, PTL DEF Spec, OthersKept

=============================================================================

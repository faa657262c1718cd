------------------------------ MODULE Publish -------------------------------
(***************************************************************************)
(* publish.build_and_publish and the daemon around it: a catalog is built  *)
(* in a temp file, the served one is gated, the temp file is renamed over  *)
(* it, and the writer goes on in place.  Readers open and close the served *)
(* path at any time; the builder may fail or die between any two steps.    *)
(*                                                                         *)
(* A database file is a generation (an inode): its main file, and what the *)
(* -wal beside it adds.  SQLite replays a -wal into whatever main file     *)
(* lies next to it, and a connection keeps the -wal it opened when the     *)
(* path of it is unlinked.  One process writes (writer_lock).              *)
(***************************************************************************)
EXTENDS Naturals, FiniteSets

CONSTANTS
    File,       \* recordings, by their composite identity
    Reader,     \* connections of the server, read-only
    None,       \* no file
    Empty,      \* a -wal of zero frames
    MaxTries,   \* attempts the gate makes within _GATE_TOTAL_SECONDS
    MaxGen,     \* bound: builds begun
    MaxBuildId, \* bound: build_id
    MaxFaults   \* bound: failures, crashes and deletions by hand

ASSUME PublishAssumption ==
    /\ MaxTries \in Nat /\ MaxGen \in Nat \ {0} /\ MaxBuildId \in Nat \ {0}
    /\ MaxFaults \in Nat
    /\ None # Empty

VARIABLES
    served,  \* the generation at the served path
    main,    \* per generation, the content of its main file
    wal,     \* the -wal (and -shm) at the served path: its last committed state
    temp,    \* <served>.building and its -wal
    reader,  \* per connection, the generation and the -wal it has open
    pc,      \* where the writer process is
    job,     \* local variables of build_and_publish
    gens,    \* builds begun
    faults   \* failures so far

vars == <<served, main, wal, temp, reader, pc, job, gens, faults>>

Gen == 1..MaxGen
Content == [gen : Gen, stamp : {"none", "seeded", "built", "garbage"},
            build : 0..MaxBuildId, files : SUBSET File, tags : SUBSET File]
Log == Content \cup {None, Empty}
Handle == [gen : Gen, attached : BOOLEAN, log : Log, reading : BOOLEAN]

\* The marks are none of the things they stand in for.
ASSUME MarkAssumption ==
    /\ None \notin Nat \cup Content \cup [main : Content, log : Log] \cup Handle
    /\ Empty \notin Content

NoJob == [floor |-> None, kept |-> FALSE, leaked |-> FALSE, garbage |-> FALSE, tries |-> 0]
Phase == {"down", "opened", "seeded", "returned", "carried", "closed", "ready",
          "replaced", "swept", "running"}

TypeOK ==
    /\ served \in Gen \cup {None}
    /\ main \in [Gen -> Content]
    /\ wal \in Log
    /\ temp \in [main : Content, log : Log] \cup {None}
    /\ reader \in [Reader -> Handle \cup {None}]
    /\ pc \in Phase
    /\ job \in [floor : 0..MaxBuildId \cup {None}, kept : BOOLEAN, leaked : BOOLEAN,
                garbage : BOOLEAN, tries : 0..MaxTries]
    /\ gens \in 0..MaxGen /\ faults \in 0..MaxFaults

HasFrames(log) == log \notin {None, Empty}
Content0(g) == [gen |-> g, stamp |-> "none", build |-> 0, files |-> {}, tags |-> {}]

\* What a connection to the served path sees: the frames, else the main file.
Shown == IF HasFrames(wal) THEN wal ELSE main[served]
Sound == main[served].stamp # "garbage"
Readable == served # None /\ Sound
Building == IF HasFrames(temp.log) THEN temp.log ELSE temp.main

Attached(r) == reader[r] # None /\ reader[r].attached
Attaching == wal' = IF wal = None THEN Empty ELSE wal

\* Unlink the served -wal and -shm: who has them open keeps them as they are.
RemoveSidecars ==
    /\ wal' = None
    /\ reader' = [r \in Reader |->
                    IF Attached(r) THEN [reader[r] EXCEPT !.attached = FALSE, !.log = wal]
                    ELSE reader[r]]

\* The last read-write connection to the served file is closed: SQLite moves the
\* frames into the main file and removes the -wal, unless a reader of that file is left.
CloseServed ==
    IF \E r \in Reader : Attached(r) /\ reader[r].gen = served
    THEN UNCHANGED <<main, wal, reader>>
    ELSE main' = [main EXCEPT ![served] = Shown] /\ RemoveSidecars

Init ==
    /\ served = None /\ main = [g \in Gen |-> Content0(g)] /\ wal = None
    /\ temp = None /\ reader = [r \in Reader |-> None]
    /\ pc = "down" /\ job = NoJob /\ gens = 0 /\ faults = 0

Fault == faults < MaxFaults /\ faults' = faults + 1
NoFault == UNCHANGED faults

-----------------------------------------------------------------------------
(* The temp build.                                                         *)

\* main() on the publish path: clear a leftover temp build, open a new one.
OpenTemp ==
    /\ pc = "down" /\ gens < MaxGen
    /\ gens' = gens + 1
    /\ temp' = [main |-> Content0(gens + 1), log |-> Content0(gens + 1)]
    /\ pc' = "opened"
    /\ UNCHANGED <<served, main, wal, reader, job>> /\ NoFault

\* A read-only look at the served catalog; one that is sound may fail to be read.
LookAtOld(ok) ==
    /\ \/ Readable /\ ok /\ NoFault
       \/ Readable /\ ~ok /\ Fault
       \/ ~Readable /\ ~ok /\ NoFault
    /\ IF Readable THEN Attaching ELSE UNCHANGED wal

\* The old build_id, when it can be read, becomes the floor of the new one.
Seed ==
    /\ pc = "opened"
    /\ \/ LookAtOld(TRUE)
          /\ job' = [job EXCEPT !.floor = Shown.build]
          /\ temp' = [temp EXCEPT !.log.stamp = "seeded", !.log.build = Shown.build]
       \/ LookAtOld(FALSE) /\ UNCHANGED <<job, temp>>
    /\ pc' = "seeded"
    /\ UNCHANGED <<served, main, reader, gens>>

\* Mutant: the stamp of a new database always begins at 1.
RecordBuildAnew(db, fs) ==
    [db EXCEPT !.stamp = "built", !.build = 1, !.files = fs, !.tags = @ \cap fs]
RecordBuild(db, fs) ==
    [db EXCEPT !.stamp = "built", !.build = @ + 1, !.files = fs, !.tags = @ \cap fs]

\* build_fn(conn, caches) returns: with a stamp, or having lost it, or leaving a
\* second connection to the temp file behind.
Build ==
    /\ pc = "seeded" /\ Building.build < MaxBuildId
    /\ \E fs \in SUBSET File, stamped, leaks \in BOOLEAN :
         /\ temp' = [temp EXCEPT !.log = IF stamped THEN RecordBuild(@, fs)
                                         ELSE [@ EXCEPT !.files = fs]]
         /\ job' = [job EXCEPT !.leaked = leaks]
         /\ IF stamped /\ ~leaks THEN NoFault ELSE Fault
    /\ pc' = "returned"
    /\ UNCHANGED <<served, main, wal, reader, gens>>

\* Mutant: the clean-up of an abort takes the sidecars of the served path.
AbortWide ==
    /\ temp' = None /\ pc' = "down" /\ job' = NoJob /\ RemoveSidecars
    /\ UNCHANGED <<served, main, gens>>
\* The exception leaves build_and_publish and main(): the process ends.
Abort ==
    /\ temp' = None /\ pc' = "down" /\ job' = NoJob
    /\ UNCHANGED <<served, main, wal, reader, gens>>

\* _ensure_build_stamped.
Unstamped == pc = "returned" /\ Building.stamp # "built" /\ NoFault /\ Abort

\* build_fn, or a statement on the temp database, raises.
BuildFault == pc \in {"opened", "seeded", "returned", "carried"} /\ Fault /\ Abort

\* Mutant: the old file is opened as immutable, so its -wal is not read.
OldTagsImmutable == main[served].tags
\* The user's tags found in the old catalog.
OldTags == Shown.tags

CarryForward ==
    /\ pc = "returned" /\ Building.stamp = "built"
    /\ \/ LookAtOld(TRUE)
          /\ job' = [job EXCEPT !.kept = TRUE]
          /\ temp' = [temp EXCEPT !.log.tags = OldTags \cap Building.files]
       \/ LookAtOld(FALSE) /\ UNCHANGED <<job, temp>>
    /\ pc' = "carried"
    /\ UNCHANGED <<served, main, reader, gens>>

\* Mutant: what the checkpoint returned is not looked at.
CheckpointTrusted ==
    /\ pc = "carried"
    /\ \E done \in IF job.leaked THEN BOOLEAN ELSE {TRUE} :
         temp' = [main |-> IF done THEN Building ELSE temp.main, log |-> None]
    /\ pc' = "closed"
    /\ UNCHANGED <<served, main, wal, reader, job, gens>> /\ NoFault
\* The checkpoint is complete unless another connection holds the temp file.
CheckpointTemp ==
    /\ pc = "carried" /\ ~job.leaked
    /\ temp' = [main |-> Building, log |-> None]
    /\ pc' = "closed"
    /\ UNCHANGED <<served, main, wal, reader, job, gens>> /\ NoFault

\* TempCheckpointError.
CheckpointPartial == pc = "carried" /\ job.leaked /\ NoFault /\ Abort

-----------------------------------------------------------------------------
(* The gate and the swap.                                                  *)

\* wal_checkpoint(TRUNCATE) reports busy: frames, and a reader in a transaction.
Held == HasFrames(wal) /\ \E r \in Reader : Attached(r) /\ reader[r].reading
Gating == pc = "closed" /\ Readable

GateOk ==
    /\ Gating /\ ~Held
    /\ main' = [main EXCEPT ![served] = Shown]
    /\ IF \E r \in Reader : Attached(r) /\ reader[r].gen = served
       THEN wal' = Empty /\ UNCHANGED reader
       ELSE RemoveSidecars
    /\ pc' = "ready"
    /\ UNCHANGED <<served, temp, job, gens>> /\ NoFault

\* Mutant: the deadline is never looked at.
GateBusyForever ==
    /\ Gating /\ Held
    /\ main' \in {main, [main EXCEPT ![served] = Shown]}
    /\ job' = [job EXCEPT !.tries = @ + 1]
    /\ UNCHANGED <<served, wal, temp, reader, pc, gens>> /\ NoFault
\* Frames no reader needs may be copied although the -wal cannot be reset.
GateBusy ==
    /\ Gating /\ Held /\ job.tries < MaxTries
    /\ main' \in {main, [main EXCEPT ![served] = Shown]}
    /\ job' = [job EXCEPT !.tries = @ + 1]
    /\ UNCHANGED <<served, wal, temp, reader, pc, gens>> /\ NoFault

\* PublishBusyError.
GateTimeout == Gating /\ Held /\ job.tries = MaxTries /\ NoFault /\ Abort

\* Any other sqlite3.Error, of a file that is no database or of a sound one.
GateGarbage ==
    /\ pc = "closed" /\ served # None
    /\ IF Sound THEN Fault ELSE NoFault
    /\ RemoveSidecars
    /\ job' = [job EXCEPT !.garbage = TRUE]
    /\ pc' = "ready"
    /\ UNCHANGED <<served, main, temp, gens>>

\* Mutant: they are left to the clean-up after the rename.
LeaveOrphans ==
    /\ pc = "closed" /\ served = None
    /\ pc' = "ready"
    /\ UNCHANGED <<served, main, wal, temp, reader, job, gens>> /\ NoFault
\* No served file: its orphaned sidecars go before the rename.
ClearOrphans ==
    /\ pc = "closed" /\ served = None
    /\ RemoveSidecars
    /\ pc' = "ready"
    /\ UNCHANGED <<served, main, temp, job, gens>> /\ NoFault

\* os.replace.
Replace ==
    /\ pc = "ready"
    /\ served' = temp.main.gen
    /\ main' = [main EXCEPT ![temp.main.gen] = temp.main]
    /\ temp' = None
    /\ pc' = "replaced"
    /\ UNCHANGED <<wal, reader, job, gens>> /\ NoFault

Unlink ==
    /\ pc = "replaced"
    /\ RemoveSidecars
    /\ job' = NoJob /\ pc' = "swept"
    /\ UNCHANGED <<served, main, temp, gens>> /\ NoFault

-----------------------------------------------------------------------------
(* The process around it, in place on the served file.                     *)

\* --once ends here.
Exit ==
    /\ pc = "swept" /\ pc' = "down"
    /\ UNCHANGED <<served, main, wal, temp, reader, job, gens>> /\ NoFault

\* After a publish, or at a start without --rebuild on an existing file.
OpenInPlace ==
    /\ pc \in {"down", "swept"} /\ Readable
    /\ Attaching
    /\ pc' = "running"
    /\ UNCHANGED <<served, main, temp, reader, job, gens>> /\ NoFault

\* A commit in place: a rescan, or a user's edit of one file's tags.
Commit ==
    /\ pc = "running"
    /\ \/ \E fs \in SUBSET File : Shown.build < MaxBuildId
                                    /\ wal' = [RecordBuild(Shown, fs) EXCEPT !.gen = served]
       \/ \E f \in Shown.files :
            wal' = [Shown EXCEPT !.gen = served,
                                 !.tags = IF f \in @ THEN @ \ {f} ELSE @ \cup {f}]
    /\ UNCHANGED <<served, main, temp, reader, pc, job, gens>> /\ NoFault

Stop ==
    /\ pc = "running" /\ CloseServed
    /\ pc' = "down"
    /\ UNCHANGED <<served, temp, job, gens>> /\ NoFault

\* The process dies; files, leftovers of the temp build included, stay.
Crash ==
    /\ pc # "down" /\ Fault
    /\ pc' = "down" /\ job' = NoJob
    /\ UNCHANGED <<served, main, wal, temp, reader, gens>>

\* An operator removes the main file and leaves its sidecars, or it is damaged.
DeleteMain ==
    /\ pc = "down" /\ served # None /\ Fault
    /\ served' = None
    /\ UNCHANGED <<main, wal, temp, reader, pc, job, gens>>
Spoil ==
    /\ pc = "down" /\ Readable /\ Fault
    /\ main' = [main EXCEPT ![served].stamp = "garbage"]
    /\ UNCHANGED <<served, wal, temp, reader, pc, job, gens>>

-----------------------------------------------------------------------------
(* Readers: the server's connections, read-only, so closing one leaves the *)
(* sidecars where they are.                                                *)

Open(r) ==
    /\ reader[r] = None /\ Readable
    /\ Attaching
    /\ reader' = [reader EXCEPT ![r] = [gen |-> served, attached |-> TRUE, log |-> None,
                                        reading |-> FALSE]]
Query(r) ==
    /\ reader[r] # None
    /\ reader' = [reader EXCEPT ![r].reading = ~@]
    /\ UNCHANGED wal
Close(r) ==
    /\ reader[r] # None
    /\ reader' = [reader EXCEPT ![r] = None]
    /\ UNCHANGED wal

Connection(r) ==
    /\ Open(r) \/ Query(r) \/ Close(r)
    /\ UNCHANGED <<served, main, temp, pc, job, gens, faults>>

BuildAside == OpenTemp \/ Seed \/ Build \/ Unstamped \/ BuildFault \/ CarryForward
                \/ CheckpointTemp \/ CheckpointPartial
Swap == GateOk \/ GateBusy \/ GateTimeout \/ GateGarbage \/ ClearOrphans \/ Replace \/ Unlink
Daemon == Exit \/ OpenInPlace \/ Commit \/ Stop \/ Crash \/ DeleteMain \/ Spoil

Next == BuildAside \/ Swap \/ Daemon \/ \E r \in Reader : Connection(r)
Spec == Init /\ [][Next]_vars

-----------------------------------------------------------------------------
(* Properties.                                                             *)

\* What lies at the served path was stamped by a build and carries all of it,
\* whatever the temp build met (publish.py step 2, UnstampedBuildError).
ServedFinished == served # None => main[served].stamp \in {"built", "garbage"}

\* The served file never has frames of another file beside it, so no connection,
\* old or to come, replays stale frames into it (publish.py steps 3 and 5).
Seen(r) == IF reader[r].attached THEN wal ELSE reader[r].log
NoStaleReplay ==
    served # None =>
      /\ HasFrames(wal) => wal.gen = served
      /\ \A r \in Reader :
           reader[r] # None /\ reader[r].gen = served /\ HasFrames(Seen(r))
             => Seen(r).gen = served

\* Until it is replaced, the served catalog shows what it showed: whether the publish
\* goes on, is refused, fails or dies ("the served DB untouched"), and the clean-up
\* after the rename takes nothing.  Except after an error of the gate, whose branch
\* removes the frames of whatever file raised it.
Untouched ==
    [][pc \notin {"down", "running"} /\ served # None /\ served' = served
         /\ ~job.garbage /\ ~job'.garbage => Shown' = Shown]_vars

\* A publish that could read the old build_id serves a greater one (_seed_build_id_floor).
BuildIdGrows ==
    [][served # None /\ served' \notin {served, None} /\ job.floor # None
         => main'[served'].build > Shown.build]_vars

\* A publish that could read the old overrides serves every tag of every file that is in
\* the new build, those still in the -wal included (_carry_forward_tags_override).  What
\* an error of the gate took away with the old -wal is no measure of it.
TagsCarried ==
    [][served # None /\ served' \notin {served, None} /\ job.kept /\ ~job.garbage
         => Shown.tags \cap main'[served'].files \subseteq main'[served'].tags]_vars

\* publish.py:415-417: what is removed after the rename are "stale sidecars of the
\* REPLACED generation", and removing them is a no-op in the create case.  Then no
\* reader of the new file loses its -wal, and all share the one the daemon commits to.
ReadersShareTheLog ==
    pc = "running" =>
      \A r \in Reader : reader[r] # None /\ reader[r].gen = served => reader[r].attached
=============================================================================

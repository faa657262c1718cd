----------------------------- MODULE WriterLock -----------------------------
(***************************************************************************)
(* The per-database process lock of writer_lock.py: flock on a file beside *)
(* the database that is opened with O_CREAT and never unlinked.  A lock is *)
(* on the inode behind a descriptor, and goes with the descriptor.  The    *)
(* operations say nothing of what else a step changes; Daemon composes     *)
(* them.                                                                   *)
(***************************************************************************)
EXTENDS Naturals, FiniteSets

CONSTANT Proc       \* builder processes

VARIABLES
    lockfile,   \* the inode at <db>.writer.lock, 0 if there is none
    lockfd,     \* per process, the inode it has open there, 0 if none
    held        \* per process, it has the flock on it

lockVars == <<lockfile, lockfd, held>>

Inode == 1..Cardinality(Proc) + 1

TypeOK ==
    /\ lockfile \in Inode \cup {0}
    /\ lockfd \in [Proc -> Inode \cup {0}]
    /\ held \in [Proc -> BOOLEAN]

Init ==
    /\ lockfile = 0
    /\ lockfd = [p \in Proc |-> 0]
    /\ held = [p \in Proc |-> FALSE]

NewInode == CHOOSE i \in Inode : i # lockfile /\ \A p \in Proc : lockfd[p] # i

\* os.open(O_RDWR | O_CREAT).
Open(p) ==
    /\ lockfile' = IF lockfile = 0 THEN NewInode ELSE lockfile
    /\ lockfd' = [lockfd EXCEPT ![p] = lockfile']
    /\ UNCHANGED held

\* LOCK_EX | LOCK_NB would block.
LockedByOther(p) == \E q \in Proc \ {p} : held[q] /\ lockfd[q] = lockfd[p]

\* Mutant: the lock asked for is a shared one.
TakeShared(p) ==
    /\ held' = [held EXCEPT ![p] = TRUE]
    /\ UNCHANGED <<lockfile, lockfd>>
Take(p) ==
    /\ ~LockedByOther(p)
    /\ held' = [held EXCEPT ![p] = TRUE]
    /\ UNCHANGED <<lockfile, lockfd>>

\* WriterLockError.
Refuse(p) ==
    /\ LockedByOther(p)
    /\ lockfd' = [lockfd EXCEPT ![p] = 0]
    /\ UNCHANGED <<lockfile, held>>

\* Mutant: a tidy release unlinks the file.
ReleaseUnlinking(p) ==
    /\ lockfile' = 0
    /\ held' = [held EXCEPT ![p] = FALSE]
    /\ UNCHANGED lockfd
\* release(): LOCK_UN ...
Release(p) ==
    /\ held' = [held EXCEPT ![p] = FALSE]
    /\ UNCHANGED <<lockfile, lockfd>>

\* ... then close.
Close(p) ==
    /\ lockfd' = [lockfd EXCEPT ![p] = 0]
    /\ UNCHANGED <<lockfile, held>>

\* Mutant: the lock is the existence of an entry that outlives its process.
DeathStale(p) == UNCHANGED lockVars
\* The kernel closes the descriptors of a dead process.
Death(p) ==
    /\ lockfd' = [lockfd EXCEPT ![p] = 0]
    /\ held' = [held EXCEPT ![p] = FALSE]
    /\ UNCHANGED lockfile
=============================================================================

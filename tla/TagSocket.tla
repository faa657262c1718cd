----------------------------- MODULE TagSocket ------------------------------
(***************************************************************************)
(* The life of the socket file of TagEditServer: what is at socket_path,   *)
(* who listens on which inode, and the steps of __init__ and               *)
(* server_close, each a system call of its own.  The operations say        *)
(* nothing of what else a step changes; Daemon composes them.              *)
(***************************************************************************)
EXTENDS Naturals, FiniteSets

CONSTANT Proc       \* builder processes

VARIABLES
    sock,       \* at socket_path: nothing, a file that is no socket, or an inode
    listening,  \* per process, the inode its socket is bound to, 0 if closed
    bound       \* per process, server._bound_ino

sockVars == <<sock, listening, bound>>

NoSocket == 0
NotASocket == Cardinality(Proc) + 2
Inode == 1..Cardinality(Proc) + 1

TypeOK ==
    /\ sock \in Inode \cup {NoSocket, NotASocket}
    /\ listening \in [Proc -> Inode \cup {0}]
    /\ bound \in [Proc -> Inode \cup {0}]

Init ==
    /\ sock \in {NoSocket, NotASocket}
    /\ listening = [p \in Proc |-> 0]
    /\ bound = [p \in Proc |-> 0]

\* Only a leftover socket is stale: a file that is none is a conflict.
Stale == sock \in Inode

\* os.remove of the leftover.
RemoveStale == sock' = NoSocket /\ UNCHANGED <<listening, bound>>

\* The filesystem gives out any inode number that is not in use.
Bind(p) ==
    /\ sock = NoSocket
    /\ \E i \in Inode : /\ \A q \in Proc : listening[q] # i
                            /\ sock' = i
                            /\ listening' = [listening EXCEPT ![p] = i]
                            /\ bound' = [bound EXCEPT ![p] = i]

CloseListener(p) == listening' = [listening EXCEPT ![p] = 0] /\ UNCHANGED <<sock, bound>>

\* server_close compares the inode at the path with the one it bound.
IsOurs(p) == sock = bound[p]
Unlink(p) == sock' = NoSocket /\ UNCHANGED <<listening, bound>>

Death(p) ==
    /\ listening' = [listening EXCEPT ![p] = 0]
    /\ bound' = [bound EXCEPT ![p] = 0]
    /\ UNCHANGED sock
=============================================================================

------------------------------- MODULE TagIpc -------------------------------
(***************************************************************************)
(* The tag-edit endpoint: handler threads of TagEditServer forward edits   *)
(* to the single writer through the work queue and wait for its answer     *)
(* (tag_ipc.do_POST); the writer applies or drops each edit                *)
(* (tag_ipc.handle_tag_edit, dispatched by __main__.worker_loop).          *)
(*                                                                         *)
(* Time is counted in ticks and passes between any two steps, so the       *)
(* client may stall and the writer be as slow as a full reconcile makes    *)
(* it.  Module EditService says what all this amounts to for a client.     *)
(***************************************************************************)
EXTENDS Naturals, Sequences, SequencesExt, FiniteSets

CONSTANTS
    Req,         \* the requests clients may send
    None,
    MaxPending,  \* max_pending: permits of pending_sem
    Deadline,    \* deadline_seconds, in ticks
    Margin,      \* _WAIT_MARGIN_SECONDS, in ticks
    Patience,    \* HANDLER_TIMEOUT_SECONDS, in ticks
    MaxTime      \* bound: ticks

Answers == {"ok", "not_found", "error", "expired", "timeout", "busy", "bad"}

ASSUME IpcAssumption ==
    /\ MaxPending \in Nat \ {0}
    /\ Deadline \in Nat /\ Margin \in Nat \ {0} /\ Patience \in Nat /\ MaxTime \in Nat
    /\ None \notin Nat \cup Answers

VARIABLES
    now,       \* time.monotonic()
    hand,      \* per request, where its handler thread is
    permits,   \* free permits of pending_sem
    queue,     \* the TagEditItems in work_q
    expires,   \* item.deadline
    until,     \* when the handler's read, then its event.wait, gives up
    status,    \* item.result.status
    fired,     \* item.event
    reply,     \* the answer the client got
    writer,    \* the writer thread: its item and the step it is at
    applied,   \* history: edits committed, in order
    began,     \* history: when the writer passed the deadline check
    ended      \* history: when the writer fired the event

itemVars == <<expires, until, status, fired>>
history  == <<applied, began, ended>>
vars == <<now, hand, permits, queue, itemVars, reply, writer, history>>

Idle    == [req |-> None, at |-> "idle"]
Stopped == [req |-> None, at |-> "stopped"]
Exited  == [req |-> None, at |-> "exited"]

Alive == writer # Exited

TypeOK ==
    /\ now \in 0..MaxTime
    /\ hand \in [Req -> {"none", "reading", "holding", "waiting", "replying", "done"}]
    /\ permits \in 0..MaxPending
    /\ queue \in Seq(Req)
    /\ expires \in [Req -> Nat] /\ until \in [Req -> Nat]
    /\ status \in [Req -> {"pending", "ok", "not_found", "expired", "error"}]
    /\ fired \in [Req -> BOOLEAN]
    /\ reply \in [Req -> Answers \cup {None}]
    /\ writer \in [req : Req, at : {"got", "begun", "committed", "decided"}]
                    \cup {Idle, Stopped, Exited}
    /\ applied \in Seq(Req)
    /\ began \in [Req -> Nat \cup {None}] /\ ended \in [Req -> Nat \cup {None}]

-----------------------------------------------------------------------------
(* Handler threads: do_POST.                                               *)

\* 404, 400 or 413 from the request line and Content-Length, or 400 from the body.
BadRequest(r) ==
    /\ hand[r] \in {"none", "reading"}
    /\ hand' = [hand EXCEPT ![r] = "done"]
    /\ reply' = [reply EXCEPT ![r] = "bad"]
    /\ UNCHANGED <<now, permits, queue, itemVars, writer, history>>

Read(r) ==
    /\ hand[r] = "none"
    /\ hand' = [hand EXCEPT ![r] = "reading"]
    /\ until' = [until EXCEPT ![r] = now + Patience]
    /\ UNCHANGED <<now, permits, queue, expires, status, fired, reply, writer, history>>

\* The body does not come: the connection is closed without a word.
Stall(r) ==
    /\ hand[r] = "reading"
    /\ now >= until[r]
    /\ hand' = [hand EXCEPT ![r] = "done"]
    /\ UNCHANGED <<now, permits, queue, itemVars, reply, writer, history>>

\* Mutant: the 503 for want of a permit is sent inside the try.
RejectReleases(r) ==
    /\ hand[r] = "reading"
    /\ permits = 0
    /\ hand' = [hand EXCEPT ![r] = "replying"]
    /\ reply' = [reply EXCEPT ![r] = "busy"]
    /\ UNCHANGED <<now, permits, queue, itemVars, writer, history>>

\* No permit is free: 503 at once, nothing is queued.
Reject(r) ==
    /\ hand[r] = "reading"
    /\ permits = 0
    /\ hand' = [hand EXCEPT ![r] = "done"]
    /\ reply' = [reply EXCEPT ![r] = "busy"]
    /\ UNCHANGED <<now, permits, queue, itemVars, writer, history>>

\* Mutant: the permit is counted but not asked for.
AcceptAnyway(r) ==
    /\ hand[r] = "reading"
    /\ permits' = permits - 1
    /\ expires' = [expires EXCEPT ![r] = now + Deadline]
    /\ hand' = [hand EXCEPT ![r] = "holding"]
    /\ UNCHANGED <<now, queue, until, status, fired, reply, writer, history>>

Accept(r) ==
    /\ hand[r] = "reading"
    /\ permits > 0
    /\ permits' = permits - 1
    /\ expires' = [expires EXCEPT ![r] = now + Deadline]
    /\ hand' = [hand EXCEPT ![r] = "holding"]
    /\ UNCHANGED <<now, queue, until, status, fired, reply, writer, history>>

\* Mutant: the wait is no longer than the deadline.
EnqueueNoMargin(r) ==
    /\ hand[r] = "holding"
    /\ queue' = Append(queue, r)
    /\ until' = [until EXCEPT ![r] = now + Deadline]
    /\ hand' = [hand EXCEPT ![r] = "waiting"]
    /\ UNCHANGED <<now, permits, expires, status, fired, reply, writer, history>>

\* work_q.put, then event.wait with the wait_timeout.
Enqueue(r) ==
    /\ hand[r] = "holding"
    /\ queue' = Append(queue, r)
    /\ until' = [until EXCEPT ![r] = now + Deadline + Margin]
    /\ hand' = [hand EXCEPT ![r] = "waiting"]
    /\ UNCHANGED <<now, permits, expires, status, fired, reply, writer, history>>

\* The wait ends: with the event, or without it.
Awake(r) ==
    /\ hand[r] = "waiting"
    /\ fired[r]
    /\ hand' = [hand EXCEPT ![r] = "replying"]
    /\ reply' = [reply EXCEPT ![r] = status[r]]
    /\ UNCHANGED <<now, permits, queue, itemVars, writer, history>>

\* Mutant: the handler gives up only while its item is still queued.
TimeOutQueued(r) ==
    /\ hand[r] = "waiting"
    /\ ~fired[r]
    /\ now >= until[r]
    /\ r \in ToSet(queue)
    /\ hand' = [hand EXCEPT ![r] = "replying"]
    /\ reply' = [reply EXCEPT ![r] = "timeout"]
    /\ UNCHANGED <<now, permits, queue, itemVars, writer, history>>

TimeOut(r) ==
    /\ hand[r] = "waiting"
    /\ ~fired[r]
    /\ now >= until[r]
    /\ hand' = [hand EXCEPT ![r] = "replying"]
    /\ reply' = [reply EXCEPT ![r] = "timeout"]
    /\ UNCHANGED <<now, permits, queue, itemVars, writer, history>>

\* The finally clause, after the reply was sent or the client had gone.
Release(r) ==
    /\ hand[r] = "replying"
    /\ hand' = [hand EXCEPT ![r] = "done"]
    /\ permits' = permits + 1
    /\ UNCHANGED <<now, queue, itemVars, reply, writer, history>>

-----------------------------------------------------------------------------
(* The writer thread: worker_loop and handle_tag_edit.                     *)

Get ==
    /\ writer = Idle
    /\ queue # <<>>
    /\ writer' = [req |-> Head(queue), at |-> "got"]
    /\ queue' = Tail(queue)
    /\ UNCHANGED <<now, hand, permits, itemVars, reply, history>>

At(s, r) == r # None /\ writer = [req |-> r, at |-> s]

\* The outcome is set; the finally clause will fire the event.
Decide(r, s) ==
    /\ status' = [status EXCEPT ![r] = s]
    /\ writer' = [req |-> r, at |-> "decided"]
    /\ UNCHANGED <<now, hand, permits, queue, expires, until, fired, reply>>

\* Mutant: the check uses the handler's wait instead of the deadline.
ExpiredByWait(r) == now > until[r]

Expired(r) == now > expires[r]

\* Mutant: the deadline is looked at once more after the commit.
DropLate(r) ==
    /\ At("got", r) \/ At("committed", r)
    /\ Expired(r)
    /\ Decide(r, "expired")
    /\ UNCHANGED history

Drop(r) ==
    /\ At("got", r)
    /\ Expired(r)
    /\ Decide(r, "expired")
    /\ UNCHANGED history

\* The deadline has not passed: go on to the lookup and the transaction.
Proceed(r) ==
    /\ At("got", r)
    /\ ~Expired(r)
    /\ writer' = [req |-> r, at |-> "begun"]
    /\ began' = [began EXCEPT ![r] = now]
    /\ UNCHANGED <<now, hand, permits, queue, itemVars, reply, applied, ended>>

NotFound(r) ==
    /\ At("begun", r)
    /\ Decide(r, "not_found")
    /\ UNCHANGED history

\* update_tags commits.
Commit(r) ==
    /\ At("begun", r)
    /\ applied' = Append(applied, r)
    /\ writer' = [req |-> r, at |-> "committed"]
    /\ UNCHANGED <<now, hand, permits, queue, itemVars, reply, began, ended>>

\* The effective tags are read back.
Confirm(r) ==
    /\ At("committed", r)
    /\ Decide(r, "ok")
    /\ UNCHANGED history

\* Anything raises, before the commit or after it.
Fail(r) ==
    /\ At("begun", r) \/ At("committed", r)
    /\ Decide(r, "error")
    /\ UNCHANGED history

Fire(r) ==
    /\ At("decided", r)
    /\ fired' = [fired EXCEPT ![r] = TRUE]
    /\ ended' = [ended EXCEPT ![r] = now]
    /\ writer' = Idle
    /\ UNCHANGED <<now, hand, permits, queue, expires, until, status, reply,
                   applied, began>>

\* The stop event is reached: what is queued behind it is never taken.
Stop ==
    /\ writer = Idle
    /\ writer' = Stopped
    /\ UNCHANGED <<now, hand, permits, queue, itemVars, reply, history>>

(* The process ends: main returns after the stop event without waiting for *)
(* the handler threads, which are daemon threads, or it is killed.  They   *)
(* end where they are, and their clients see the connection closed.        *)
Exit ==
    /\ Alive
    /\ writer' = Exited
    /\ UNCHANGED <<now, hand, permits, queue, itemVars, reply, history>>

-----------------------------------------------------------------------------
Tick ==
    /\ now < MaxTime
    /\ now' = now + 1
    /\ UNCHANGED <<hand, permits, queue, itemVars, reply, writer, history>>

Init ==
    /\ now = 0
    /\ hand = [r \in Req |-> "none"]
    /\ permits = MaxPending
    /\ queue = <<>>
    /\ expires = [r \in Req |-> 0] /\ until = [r \in Req |-> 0]
    /\ status = [r \in Req |-> "pending"] /\ fired = [r \in Req |-> FALSE]
    /\ reply = [r \in Req |-> None]
    /\ writer = Idle
    /\ applied = <<>>
    /\ began = [r \in Req |-> None] /\ ended = [r \in Req |-> None]

Door(r)    == Alive /\ (BadRequest(r) \/ Read(r) \/ Accept(r) \/ Reject(r))
Handler(r) == Alive /\ (Stall(r) \/ Enqueue(r) \/ Awake(r) \/ TimeOut(r) \/ Release(r))

Writer == \/ Get \/ Stop \/ Exit
          \/ \E r \in Req : \/ Drop(r) \/ Proceed(r) \/ NotFound(r) \/ Commit(r)
                            \/ Confirm(r) \/ Fail(r) \/ Fire(r)

Next == \/ \E r \in Req : Door(r) \/ Handler(r)
        \/ Writer
        \/ Tick

Spec == Init /\ [][Next]_vars

(* Handler threads are scheduled, while their process lives, and time      *)
(* passes.  Of the writer nothing is assumed: it may be in a reconcile, or *)
(* have taken the stop event and leave the process up or not.              *)
FairSpec == Spec /\ WF_vars(Tick) /\ \A r \in Req : WF_vars(Handler(r))

-----------------------------------------------------------------------------
(* Properties.                                                             *)

Done(r) == r \in ToSet(applied)

\* What has become of an edit, for EditService, which knows no "twice".
Fate == [r \in Req |->
    IF Done(r) THEN IF \E i, j \in DOMAIN applied : i # j /\ applied[i] = r /\ applied[j] = r
                    THEN "twice" ELSE "applied"
    ELSE IF hand[r] = "done" /\ reply[r] \in {"busy", "bad"} THEN "dropped"
    ELSE IF status[r] \in {"not_found", "expired", "error"} THEN "dropped"
    ELSE "open"]

Service == INSTANCE EditService WITH fate <- Fate, answer <- reply

(* The endpoint implements EditService: an edit is applied at most once,   *)
(* "ok" says it is, "not_found", "expired" and an immediate "busy" say it  *)
(* never will be, whatever the writer and the handler do meanwhile         *)
(* (handle_tag_edit, "never applies the write once ...").                  *)
EditsAreServed == Service!Spec

(* A caller that was timed out sees its edit land afterwards only if the   *)
(* writer spent the whole margin on that one edit (tag_ipc.py:43, the      *)
(* documented residual case).                                              *)
NoLateLanding ==
    \A r \in Req :
        (reply[r] = "timeout" /\ Done(r) /\ ended[r] # None) =>
            ended[r] >= began[r] + Margin

(* A timed-out edit the writer had not begun is never begun: whoever gets  *)
(* 503 and sends the edit again cannot be overwritten by his first attempt *)
(* (tag_ipc.py:42-48, the deadline ends before the wait does).             *)
NoBeginAfterTimeout ==
    [][\A r \in Req :
          (reply[r] = "timeout" /\ began[r] = None) => began'[r] = None]_vars

(* The permits add up: each is free or held by one handler that has not    *)
(* finished, so no path of do_POST leaks or returns one twice.             *)
PermitsBalance ==
    permits + Cardinality({r \in Req : hand[r] \in {"holding", "waiting", "replying"}})
        = MaxPending

(* For as long as the process lives, every request accepted early enough   *)
(* is answered and gives its permit back, whatever the writer does, the    *)
(* stop event included; and no client keeps a handler reading.  Who waits  *)
(* when the process exits gets no answer (daemon_threads, tag_ipc.py:311). *)
EveryoneAnswered ==
    \A r \in Req :
        /\ (hand[r] = "waiting" /\ until[r] <= MaxTime) ~> (hand[r] = "done" \/ ~Alive)
        /\ (hand[r] = "reading" /\ until[r] <= MaxTime) ~> (hand[r] # "reading" \/ ~Alive)
=============================================================================

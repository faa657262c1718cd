---------------------------- MODULE TagIpc_proofs ----------------------------
(***************************************************************************)
(* Theorems about TagIpc, for every set of requests (finite or not), every *)
(* number of permits and every deadline, wait margin and time bound.       *)
(***************************************************************************)
EXTENDS TagIpc, FiniteSetTheorems, DataLemmas

(* Where a request's item is: with the writer, in the queue, or nowhere.   *)
OnDesk(r) == writer.req = r /\ writer.at \notin {"idle", "stopped", "exited"}
Queued(r) == r \in ToSet(queue)

\* The writer has done nothing about it yet.
Fresh(r) ==
    /\ status[r] = "pending" /\ ~fired[r] /\ ~Done(r)
    /\ began[r] = None /\ ended[r] = None

Unheard(r) == Fresh(r) /\ ~Queued(r) /\ ~OnDesk(r)

\* What a handler knows at the place where it is.
ByHand(r) ==
    /\ hand[r] \in {"none", "reading", "holding"} => Unheard(r) /\ reply[r] = None
    /\ hand[r] = "waiting" => reply[r] = None
    /\ hand[r] = "replying" =>
           reply[r] \in {"ok", "not_found", "error", "expired", "timeout"}
    /\ hand[r] = "done" /\ reply[r] \in {None, "bad", "busy"} => Unheard(r)

\* What holds of an item in the queue, and at each step of the writer.
ByItem(r) ==
    /\ Queued(r) => Fresh(r) /\ ~OnDesk(r)
    /\ OnDesk(r) =>
           /\ ~fired[r] /\ ended[r] = None
           /\ writer.at = "got" => Fresh(r)
           /\ writer.at = "begun" => status[r] = "pending" /\ ~Done(r) /\ began[r] # None
           /\ writer.at = "committed" => status[r] = "pending" /\ Done(r)
           /\ writer.at = "decided" => status[r] # "pending"

\* What an outcome says of the table and of the history.
ByOutcome(r) ==
    /\ Done(r) => began[r] # None
    /\ fired[r] <=> ended[r] # None
    /\ fired[r] => status[r] # "pending"
    /\ status[r] = "ok" => Done(r)
    /\ status[r] \in {"not_found", "expired"} => ~Done(r)

(* Why the deadline ends before the wait does: the writer begins within    *)
(* the deadline, and the wait began no earlier and lasts Margin longer.    *)
Timely(r) ==
    /\ began[r] # None => began[r] <= expires[r]
    /\ hand[r] = "holding" => expires[r] <= now + Deadline
    /\ hand[r] = "waiting" \/ reply[r] = "timeout" => until[r] >= expires[r] + Margin
    /\ reply[r] = "timeout" => now >= until[r]
    /\ reply[r] = "timeout" /\ ended[r] # None => ended[r] >= until[r]

OfReq(r) == ByHand(r) /\ ByItem(r) /\ ByOutcome(r) /\ Timely(r)

Once == IsInjective(queue) /\ IsInjective(applied)

\* The handlers that hold a permit.
Holders == {r \in Req : hand[r] \in {"holding", "waiting", "replying"}}

Balance == IsFiniteSet(Holders) /\ permits + Cardinality(Holders) = MaxPending

IInv ==
    /\ TypeOK
    /\ Balance
    /\ Once
    /\ \A r \in Req : OfReq(r)

-----------------------------------------------------------------------------
(* Types.                                                                  *)

LEMMA InitType == Init => TypeOK
BY IpcAssumption DEF Init, TypeOK, Idle

\* A permit taken is a handler more among the holders, one given back a holder less.
LEMMA PermitStep ==
    ASSUME TypeOK, Balance, [Next]_vars
    PROVE  permits' \in 0..MaxPending /\ Balance'
<1> USE IpcAssumption DEF TypeOK, Balance
<1>1. /\ IsFiniteSet(Holders) /\ Cardinality(Holders) \in Nat
      /\ permits \in Nat /\ permits + Cardinality(Holders) = MaxPending
  BY FS_CardinalityType
<1>2. CASE UNCHANGED <<hand, permits>>
  BY <1>1, <1>2 DEF Holders
<1>3. ASSUME NEW r \in Req, UNCHANGED permits, r \notin Holders,
             NEW h \in {"none", "reading", "done"}, hand' = [hand EXCEPT ![r] = h]
      PROVE  Balance'
  <2>1. Holders' = Holders
    BY <1>3 DEF Holders
  <2> QED
    BY <1>1, <1>3, <2>1
<1>4. ASSUME NEW r \in Req, UNCHANGED permits, r \in Holders,
             NEW h \in {"waiting", "replying"}, hand' = [hand EXCEPT ![r] = h]
      PROVE  Balance'
  <2>1. Holders' = Holders
    BY <1>4 DEF Holders
  <2> QED
    BY <1>1, <1>4, <2>1
<1>5. ASSUME NEW r \in Req, Accept(r) PROVE permits' \in 0..MaxPending /\ Balance'
  <2>1. Holders' = Holders \cup {r} /\ r \notin Holders
    BY <1>5 DEF Accept, Holders
  <2>2. IsFiniteSet(Holders') /\ Cardinality(Holders') = Cardinality(Holders) + 1
    BY <1>1, <2>1, FS_AddElement
  <2>3. permits > 0 /\ permits' = permits - 1
    BY <1>5 DEF Accept
  <2> QED
    BY <1>1, <2>2, <2>3
<1>6. ASSUME NEW r \in Req, Release(r) PROVE permits' \in 0..MaxPending /\ Balance'
  <2>1. Holders' = Holders \ {r} /\ r \in Holders
    BY <1>6 DEF Release, Holders
  <2>2. IsFiniteSet(Holders') /\ Cardinality(Holders') = Cardinality(Holders) - 1
    BY <1>1, <2>1, FS_RemoveElement
  <2>3. Cardinality(Holders) # 0
    BY <1>1, <2>1, FS_EmptySet
  <2>4. permits' = permits + 1
    BY <1>6 DEF Release
  <2> QED
    BY <1>1, <2>2, <2>3, <2>4
<1>7. ASSUME NEW r \in Req, BadRequest(r) \/ Read(r) \/ Reject(r) \/ Stall(r)
      PROVE  permits' \in 0..MaxPending /\ Balance'
  <2>1. r \notin Holders /\ UNCHANGED permits
        /\ \E h \in {"none", "reading", "done"} : hand' = [hand EXCEPT ![r] = h]
    BY <1>7 DEF BadRequest, Read, Reject, Stall, Holders
  <2> QED
    BY <1>3, <2>1
<1>8. ASSUME NEW r \in Req, Enqueue(r) \/ Awake(r) \/ TimeOut(r)
      PROVE  permits' \in 0..MaxPending /\ Balance'
  <2>1. r \in Holders /\ UNCHANGED permits
        /\ \E h \in {"waiting", "replying"} : hand' = [hand EXCEPT ![r] = h]
    BY <1>8 DEF Enqueue, Awake, TimeOut, Holders
  <2> QED
    BY <1>4, <2>1
<1>9. CASE Writer \/ Tick \/ UNCHANGED vars
  <2>1. UNCHANGED <<hand, permits>>
    BY <1>9 DEF Writer, Get, Stop, Exit, Drop, Proceed, NotFound, Commit, Confirm, Fail, Fire,
                Decide, Tick, vars
  <2> QED
    BY <1>2, <2>1
<1> QED
  BY <1>5, <1>6, <1>7, <1>8, <1>9 DEF Next, Door, Handler

\* The handlers' steps keep the types.
LEMMA HandlerType ==
    ASSUME TypeOK, NEW r \in Req, ByOutcome(r), permits' \in 0..MaxPending,
           Door(r) \/ Handler(r)
    PROVE  TypeOK'
<1> USE IpcAssumption DEF TypeOK, Answers, itemVars, history
<1>1. CASE BadRequest(r)
  BY <1>1 DEF BadRequest
<1>2. CASE Read(r)
  BY <1>2 DEF Read
<1>3. CASE Accept(r)
  BY <1>3 DEF Accept
<1>4. CASE Reject(r)
  BY <1>4 DEF Reject
<1>5. CASE Stall(r)
  BY <1>5 DEF Stall
<1>6. CASE Enqueue(r)
  BY <1>6, AppendAdds DEF Enqueue
<1>7. CASE Awake(r)
  BY <1>7 DEF Awake, ByOutcome
<1>8. CASE TimeOut(r)
  BY <1>8 DEF TimeOut
<1>9. CASE Release(r)
  BY <1>9 DEF Release
<1> QED
  BY <1>1, <1>2, <1>3, <1>4, <1>5, <1>6, <1>7, <1>8, <1>9 DEF Door, Handler

\* So do the writer's, and time.
LEMMA WriterType ==
    ASSUME TypeOK, Writer \/ Tick \/ UNCHANGED vars PROVE TypeOK'
<1> USE IpcAssumption DEF TypeOK
<1>1. CASE Get
  <2>1. Head(queue) \in Req /\ Tail(queue) \in Seq(Req)
    BY <1>1, TailLeaves DEF Get
  <2> QED
    BY <1>1, <2>1 DEF Get, itemVars, history
<1>2. ASSUME NEW r \in Req, NEW s \in {"ok", "not_found", "expired", "error"},
             Decide(r, s), UNCHANGED history
      PROVE  TypeOK'
  BY <1>2 DEF Decide, history
<1>3. ASSUME NEW r \in Req, Drop(r) \/ NotFound(r) \/ Confirm(r) \/ Fail(r)
      PROVE  TypeOK'
  BY <1>2, <1>3 DEF Drop, NotFound, Confirm, Fail
<1>4. ASSUME NEW r \in Req, Proceed(r) PROVE TypeOK'
  BY <1>4 DEF Proceed, itemVars
<1>5. ASSUME NEW r \in Req, Commit(r) PROVE TypeOK'
  <2>1. applied' \in Seq(Req)
    BY <1>5, AppendAdds DEF Commit
  <2> QED
    BY <1>5, <2>1 DEF Commit, itemVars
<1>6. ASSUME NEW r \in Req, Fire(r) PROVE TypeOK'
  BY <1>6 DEF Fire
<1>7. CASE Stop \/ Exit
  BY <1>7 DEF Stop, Exit, itemVars, history
<1>8. CASE Tick
  BY <1>8 DEF Tick, itemVars, history
<1>9. CASE UNCHANGED vars
  BY <1>9 DEF vars, itemVars, history
<1> QED
  BY <1>1, <1>3, <1>4, <1>5, <1>6, <1>7, <1>8, <1>9 DEF Writer

LEMMA StepType == ASSUME IInv, [Next]_vars PROVE TypeOK'
BY PermitStep, HandlerType, WriterType DEF Next, IInv, OfReq

LEMMA InitBalance == Init => Balance
<1> SUFFICES ASSUME Init PROVE Balance
  OBVIOUS
<1>1. Holders = {} /\ permits = MaxPending
  BY DEF Init, Holders
<1> QED
  BY <1>1, FS_EmptySet, IpcAssumption DEF Balance

-----------------------------------------------------------------------------
(* The course of one edit.  A step of one request's handler, or of the     *)
(* writer at one item, leaves what is said of the other requests alone.    *)

\* What is said of a request is said of these parts of the state.
LEMMA Elsewhere ==
    ASSUME TypeOK, NEW q \in Req, OfReq(q), now' \in Nat, now' >= now,
           hand'[q] = hand[q], expires'[q] = expires[q], until'[q] = until[q],
           status'[q] = status[q], fired'[q] = fired[q], reply'[q] = reply[q],
           began'[q] = began[q], ended'[q] = ended[q],
           Done(q)' <=> Done(q), Queued(q)' <=> Queued(q),
           OnDesk(q)' <=> OnDesk(q), OnDesk(q) => writer' = writer
    PROVE  OfReq(q)'
<1> QED
  BY IpcAssumption DEF TypeOK, OfReq, ByHand, ByItem, ByOutcome, Timely, Unheard, Fresh

LEMMA HandlerSteps ==
    ASSUME IInv, TypeOK', NEW r \in Req, NEW q \in Req,
           Door(r) \/ Handler(r)
    PROVE  OfReq(q)'
<1>1. OfReq(q) /\ OfReq(r) /\ TypeOK /\ now \in Nat
  <2>1. OfReq(q) /\ OfReq(r) /\ TypeOK
    BY DEF IInv
  <2>2. now \in Nat
    BY <2>1, IpcAssumption DEF TypeOK
  <2> QED
    BY <2>1, <2>2
<1>2. UNCHANGED <<now, status, fired, writer, applied, began, ended>>
  BY DEF Door, BadRequest, Read, Accept, Reject, Handler, Stall, Enqueue, Awake, TimeOut,
         Release, itemVars, history
<1>3. \/ UNCHANGED queue
      \/ ToSet(queue') = ToSet(queue) \cup {r}
  <2>1. ToSet(Append(queue, r)) = ToSet(queue) \cup {r}
    BY <1>1, AppendAdds DEF TypeOK
  <2> QED
    BY <2>1 DEF Door, BadRequest, Read, Accept, Reject, Handler, Stall, Enqueue, Awake,
                TimeOut, Release
<1>4. CASE q # r
  <2>1. /\ hand'[q] = hand[q] /\ reply'[q] = reply[q]
        /\ expires'[q] = expires[q] /\ until'[q] = until[q]
    BY <1>1, <1>4
       DEF Door, BadRequest, Read, Accept, Reject, Handler, Stall, Enqueue, Awake, TimeOut,
           Release, itemVars, TypeOK
  <2>2. (Done(q)' <=> Done(q)) /\ (Queued(q)' <=> Queued(q)) /\ (OnDesk(q)' <=> OnDesk(q))
    BY <1>2, <1>3, <1>4 DEF Done, Queued, OnDesk
  <2> QED
    BY <1>1, <1>2, <2>1, <2>2, Elsewhere
<1>5. CASE q = r
  <2> SUFFICES OfReq(r)'
    BY <1>5
  <2> USE IpcAssumption
      DEF Answers, OfReq, ByHand, ByItem, ByOutcome, Timely, Unheard, Fresh
  <2>1. (Done(r)' <=> Done(r)) /\ (OnDesk(r)' <=> OnDesk(r))
    BY <1>2 DEF Done, OnDesk
  <2>2. UNCHANGED queue => (Queued(r)' <=> Queued(r))
    BY DEF Queued
  <2>3. CASE BadRequest(r)
    BY <1>1, <1>2, <2>1, <2>2, <2>3 DEF BadRequest, TypeOK, itemVars
  <2>4. CASE Read(r)
    BY <1>1, <1>2, <2>1, <2>2, <2>4 DEF Read, TypeOK
  <2>5. CASE Accept(r)
    BY <1>1, <1>2, <2>1, <2>2, <2>5 DEF Accept, TypeOK
  <2>6. CASE Reject(r)
    BY <1>1, <1>2, <2>1, <2>2, <2>6 DEF Reject, TypeOK, itemVars
  <2>7. CASE Stall(r)
    BY <1>1, <1>2, <2>1, <2>2, <2>7 DEF Stall, TypeOK, itemVars
  <2>8. CASE Enqueue(r)
    BY <1>1, <1>2, <2>1, <2>8 DEF Enqueue, TypeOK
  <2>9. CASE Awake(r)
    BY <1>1, <1>2, <2>1, <2>2, <2>9 DEF Awake, TypeOK, itemVars
  <2>10. CASE TimeOut(r)
    BY <1>1, <1>2, <2>1, <2>2, <2>10 DEF TimeOut, TypeOK, itemVars
  <2>11. CASE Release(r)
    BY <1>1, <1>2, <2>1, <2>2, <2>11 DEF Release, TypeOK, itemVars
  <2> QED
    BY <2>3, <2>4, <2>5, <2>6, <2>7, <2>8, <2>9, <2>10, <2>11 DEF Door, Handler
<1> QED
  BY <1>4, <1>5

\* Get, and the steps of the writer at item r.
LEMMA WriterSteps ==
    ASSUME IInv, TypeOK', NEW q \in Req, Writer
    PROVE  OfReq(q)'
<1>1. /\ TypeOK /\ Once /\ OfReq(q) /\ now \in Nat
      /\ \A r \in Req : OfReq(r)
  <2>1. OfReq(q) /\ TypeOK /\ Once /\ \A r \in Req : OfReq(r)
    BY DEF IInv
  <2>2. now \in Nat
    BY <2>1, IpcAssumption DEF TypeOK
  <2> QED
    BY <2>1, <2>2
<1>2. UNCHANGED <<now, hand, reply, expires, until>>
  BY DEF Writer, Get, Stop, Exit, Drop, Proceed, NotFound, Commit, Confirm, Fail, Fire, Decide,
         itemVars
<1>3. CASE Get
  <2> DEFINE r == Head(queue)
  <2>1. /\ r \in Req /\ Queued(r)
        /\ ToSet(queue) = ToSet(queue') \cup {r} /\ r \notin ToSet(queue')
    BY <1>1, <1>3, TailLeaves, TailFresh DEF Get, Queued, TypeOK, Once
  <2>2. /\ writer' = [req |-> r, at |-> "got"] /\ writer = Idle
        /\ UNCHANGED <<status, fired, applied, began, ended>>
    BY <1>3 DEF Get, itemVars, history
  <2>3. Done(q)' <=> Done(q)
    BY <2>2 DEF Done
  <2> HIDE DEF r
  <2>4. CASE q # r
    <3>1. (Queued(q)' <=> Queued(q)) /\ ~OnDesk(q) /\ ~OnDesk(q)'
      BY <2>1, <2>2, <2>4 DEF Queued, OnDesk, Idle
    <3> QED
      BY <1>1, <1>2, <2>2, <2>3, <3>1, Elsewhere
  <2>5. CASE q = r
    <3>1. ~Queued(q)' /\ Queued(q) /\ writer'.at = "got"
      BY <2>1, <2>2, <2>5 DEF Queued
    <3> QED
      BY <1>1, <1>2, <2>2, <2>3, <2>5, <3>1, IpcAssumption
         DEF OfReq, ByHand, ByItem, ByOutcome, Timely, Unheard, Fresh
  <2> QED
    BY <2>4, <2>5
<1>4. CASE Stop \/ Exit
  <2>1. /\ UNCHANGED <<queue, status, fired, applied, began, ended>>
        /\ writer' \in {Stopped, Exited}
    BY <1>4 DEF Stop, Exit, itemVars, history
  <2>2. (Done(q)' <=> Done(q)) /\ (Queued(q)' <=> Queued(q)) /\ ~OnDesk(q)'
    BY <2>1 DEF Done, Queued, OnDesk, Stopped, Exited
  <2> QED
    BY <1>1, <1>2, <2>1, <2>2
       DEF OfReq, ByHand, ByItem, ByOutcome, Timely, Unheard, Fresh
<1>5. ASSUME NEW r \in Req,
             Drop(r) \/ Proceed(r) \/ NotFound(r) \/ Commit(r) \/ Confirm(r) \/ Fail(r)
                 \/ Fire(r)
      PROVE  OfReq(q)'
  <2>1. /\ OnDesk(r) /\ ~Queued(r) /\ OfReq(r) /\ UNCHANGED queue
        /\ writer = [req |-> r, at |-> writer.at]
    BY <1>1, <1>5
       DEF At, OfReq, ByItem, OnDesk, Drop, Proceed, NotFound, Commit, Confirm, Fail, Fire,
           Decide
  <2>2. Queued(q)' <=> Queued(q)
    BY <2>1 DEF Queued
  <2>3. UNCHANGED applied \/ ToSet(applied') = ToSet(applied) \cup {r}
    <3>1. ToSet(Append(applied, r)) = ToSet(applied) \cup {r}
      BY <1>1, AppendAdds DEF TypeOK
    <3> QED
      BY <1>5, <3>1
         DEF Drop, Proceed, NotFound, Commit, Confirm, Fail, Fire, history
  <2>4. CASE q # r
    <3>1. /\ status'[q] = status[q] /\ fired'[q] = fired[q]
          /\ began'[q] = began[q] /\ ended'[q] = ended[q]
      <4>1. CASE Proceed(r) \/ Commit(r) \/ Fire(r)
        BY <1>1, <2>4, <4>1 DEF TypeOK, Proceed, Commit, Fire, itemVars
      <4>2. CASE Drop(r) \/ NotFound(r) \/ Confirm(r) \/ Fail(r)
        BY <1>1, <2>4, <4>2 DEF TypeOK, Drop, NotFound, Confirm, Fail, Decide, history
      <4> QED
        BY <1>5, <4>1, <4>2
    <3>2. ~OnDesk(q) /\ ~OnDesk(q)'
      BY <1>5, <2>1, <2>4
         DEF At, Idle, OnDesk, Drop, Proceed, NotFound, Commit, Confirm, Fail, Fire, Decide
    <3>3. Done(q)' <=> Done(q)
      BY <2>3, <2>4 DEF Done
    <3> QED
      BY <1>1, <1>2, <2>2, <3>1, <3>2, <3>3, Elsewhere
  <2>5. CASE q = r
    <3> SUFFICES OfReq(r)'
      BY <2>5
    <3> USE IpcAssumption
        DEF Answers, OfReq, ByHand, ByItem, ByOutcome, Timely, Unheard, Fresh, OnDesk
    <3>1. ~Queued(r) /\ ~Queued(r)'
      BY <2>1, <2>2, <2>5
    <3>2. UNCHANGED applied => (Done(r)' <=> Done(r))
      BY DEF Done
    <3>3. CASE Drop(r)
      BY <1>1, <1>2, <2>1, <3>1, <3>2, <3>3 DEF Drop, At, Decide, history, TypeOK
    <3>4. CASE Proceed(r)
      BY <1>1, <1>2, <2>1, <3>1, <3>2, <3>4
         DEF Proceed, Expired, At, itemVars, TypeOK
    <3>5. CASE NotFound(r)
      BY <1>1, <1>2, <2>1, <3>1, <3>2, <3>5 DEF NotFound, At, Decide, history, TypeOK
    <3>6. CASE Commit(r)
      <4>1. Done(r)'
        BY <1>1, <3>6, AppendAdds DEF Commit, Done, TypeOK
      <4> QED
        BY <1>1, <1>2, <2>1, <3>1, <3>6, <4>1 DEF Commit, At, itemVars, TypeOK
    <3>7. CASE Confirm(r)
      BY <1>1, <1>2, <2>1, <3>1, <3>2, <3>7 DEF Confirm, At, Decide, history, TypeOK
    <3>8. CASE Fail(r)
      BY <1>1, <1>2, <2>1, <3>1, <3>2, <3>8 DEF Fail, At, Decide, history, TypeOK
    <3>9. CASE Fire(r)
      BY <1>1, <1>2, <2>1, <3>1, <3>2, <3>9 DEF Fire, At, Idle, TypeOK
    <3> QED
      BY <1>5, <3>3, <3>4, <3>5, <3>6, <3>7, <3>8, <3>9
  <2> QED
    BY <2>4, <2>5
<1> QED
  BY <1>3, <1>4, <1>5 DEF Writer

\* No edit is queued twice, none is committed twice.
LEMMA OnceStep == ASSUME IInv, [Next]_vars PROVE Once'
<1>1. TypeOK /\ Once /\ \A r \in Req : OfReq(r)
  BY DEF IInv
<1>2. ASSUME NEW r \in Req, Enqueue(r) PROVE Once'
  <2>1. r \notin ToSet(queue)
    BY <1>1, <1>2 DEF Enqueue, OfReq, ByHand, Unheard, Queued
  <2>2. IsInjective(Append(queue, r))
    BY <1>1, <2>1, AppendFresh DEF TypeOK, Once
  <2> QED
    BY <1>1, <1>2, <2>2 DEF Enqueue, Once, history
<1>3. CASE Get
  <2>1. IsInjective(Tail(queue))
    BY <1>1, <1>3, TailFresh DEF Get, TypeOK, Once
  <2> QED
    BY <1>1, <1>3, <2>1 DEF Get, Once, history
<1>4. ASSUME NEW r \in Req, Commit(r) PROVE Once'
  <2>1. r \notin ToSet(applied)
    BY <1>1, <1>4 DEF Commit, At, OfReq, ByItem, OnDesk, Done
  <2>2. IsInjective(Append(applied, r))
    BY <1>1, <2>1, AppendFresh DEF TypeOK, Once
  <2> QED
    BY <1>1, <1>4, <2>2 DEF Commit, Once
<1>5. UNCHANGED <<queue, applied>> => Once'
  BY <1>1 DEF Once
<1>6. ASSUME NEW r \in Req,
             \/ BadRequest(r) \/ Read(r) \/ Accept(r) \/ Reject(r)
             \/ Stall(r) \/ Awake(r) \/ TimeOut(r) \/ Release(r)
             \/ Drop(r) \/ Proceed(r) \/ NotFound(r) \/ Confirm(r) \/ Fail(r) \/ Fire(r)
      PROVE  UNCHANGED <<queue, applied>>
  BY <1>6 DEF BadRequest, Read, Accept, Reject, Stall, Awake, TimeOut, Release,
              Drop, Proceed, NotFound, Confirm, Fail, Fire, Decide, history
<1>7. CASE Stop \/ Exit \/ Tick \/ UNCHANGED vars
  BY <1>5, <1>7 DEF Stop, Exit, Tick, vars, history
<1> QED
  BY <1>2, <1>3, <1>4, <1>5, <1>6, <1>7 DEF Next, Door, Handler, Writer

LEMMA InitIInv == Init => IInv
<1> SUFFICES ASSUME Init PROVE IInv
  OBVIOUS
<1>1. TypeOK /\ Balance
  BY InitType, InitBalance
<1>2. ToSet(queue) = {} /\ ToSet(applied) = {}
  BY DEF Init, ToSet
<1>3. Once
  BY DEF Init, Once, IsInjective
<1>4. ASSUME NEW r \in Req PROVE OfReq(r)
  BY <1>2, IpcAssumption
     DEF Init, OfReq, ByHand, ByItem, ByOutcome, Timely, Unheard, Fresh, Queued, OnDesk,
         Done, Idle, Answers
<1> QED
  BY <1>1, <1>3, <1>4 DEF IInv

LEMMA StepIInv == ASSUME IInv, [Next]_vars PROVE IInv'
<1>1. TypeOK' /\ Balance' /\ Once'
  BY StepType, PermitStep, OnceStep DEF IInv
<1>2. ASSUME NEW q \in Req PROVE OfReq(q)'
  <2>1. CASE Tick \/ UNCHANGED vars
    <3>1. /\ TypeOK /\ OfReq(q) /\ now' \in Nat /\ now' >= now
      BY <2>1, IpcAssumption DEF IInv, TypeOK, Tick, vars
    <3>2. UNCHANGED <<hand, queue, expires, until, status, fired, reply, writer, applied,
                      began, ended>>
      BY <2>1 DEF Tick, vars, itemVars, history
    <3>3. (Done(q)' <=> Done(q)) /\ (Queued(q)' <=> Queued(q)) /\ (OnDesk(q)' <=> OnDesk(q))
      BY <3>2 DEF Done, Queued, OnDesk
    <3> QED
      BY <3>1, <3>2, <3>3, Elsewhere
  <2> QED
    BY <1>1, <2>1, HandlerSteps, WriterSteps DEF Next
<1> QED
  BY <1>1, <1>2 DEF IInv

-----------------------------------------------------------------------------
(* The theorems.                                                           *)

THEOREM Invariance == Spec => []IInv
BY InitIInv, StepIInv, PTL DEF Spec

(* The endpoint's state is of its types: permits neither below zero nor    *)
(* above max_pending, and an answer is always one of do_POST's.            *)
THEOREM TypeCorrect == Spec => []TypeOK
<1>1. IInv => TypeOK
  BY DEF IInv
<1> QED
  BY <1>1, Invariance, PTL

(* A permit of pending_sem is free or held by one handler that has not     *)
(* finished: no path of do_POST leaks one or gives one back twice.         *)
THEOREM PermitsBalanceCorrect == Spec => []PermitsBalance
<1>1. IInv => PermitsBalance
  BY DEF IInv, Balance, Holders, PermitsBalance
<1> QED
  BY <1>1, Invariance, PTL

(* An edit its client was told timed out lands afterwards only if the      *)
(* writer spent the whole margin on that one edit.                         *)
THEOREM NoLateLandingCorrect == Spec => []NoLateLanding
<1>1. IInv => NoLateLanding
  BY IpcAssumption DEF IInv, OfReq, ByOutcome, Timely, NoLateLanding, TypeOK
<1> QED
  BY <1>1, Invariance, PTL

(* A timed-out edit the writer had not begun is never begun, so a second   *)
(* attempt of the client is not overwritten by his first.                  *)
THEOREM NoBeginAfterTimeoutCorrect == Spec => NoBeginAfterTimeout
<1>1. IInv /\ [Next]_vars =>
        [\A r \in Req :
            (reply[r] = "timeout" /\ began[r] = None) => began'[r] = None]_vars
  <2> SUFFICES ASSUME IInv, [Next]_vars, NEW r \in Req,
                      reply[r] = "timeout", began[r] = None
               PROVE  began'[r] = None
    OBVIOUS
  <2>1. ASSUME NEW q \in Req, Proceed(q) PROVE q # r
    BY <2>1, IpcAssumption DEF IInv, OfReq, Timely, Proceed, Expired, TypeOK
  <2>2. UNCHANGED began \/ \E q \in Req : Proceed(q)
    BY DEF Next, Door, BadRequest, Read, Accept, Reject, Handler, Stall, Enqueue, Awake, TimeOut,
           Release, Writer, Get, Stop, Exit, Drop, NotFound, Commit, Confirm, Fail, Fire, Decide,
           Tick, history, vars
  <2> QED
    BY <2>1, <2>2 DEF Proceed, IInv, TypeOK
<1> QED
  BY <1>1, Invariance, PTL DEF Spec, NoBeginAfterTimeout

-----------------------------------------------------------------------------
(* The endpoint implements EditService.                                    *)

\* With no edit committed twice, its fate is one of three.
FateOf(r) ==
    IF Done(r) THEN "applied"
    ELSE IF \/ hand[r] = "done" /\ reply[r] \in {"busy", "bad"}
            \/ status[r] \in {"not_found", "expired", "error"}
         THEN "dropped" ELSE "open"

LEMMA FateIsOneOfThree == Once => Fate = [r \in Req |-> FateOf(r)]
<1> SUFFICES ASSUME Once PROVE Fate = [r \in Req |-> FateOf(r)]
  OBVIOUS
<1>1. ~ \E i, j \in DOMAIN applied : i # j /\ applied[i] = applied[j]
  BY DEF Once, IsInjective
<1>2. ASSUME NEW r \in Req PROVE Fate[r] = FateOf(r)
  BY <1>1 DEF Fate, FateOf
<1> QED
  BY <1>2 DEF Fate

LEMMA FateStaysOneOfThree == (Once => Fate = [r \in Req |-> FateOf(r)])'
BY FateIsOneOfThree, PTL

\* Fates change one at a time.
LEMMA FateMoves ==
    ASSUME Once, Once', NEW r \in Req,
           \A q \in Req \ {r} : FateOf(q)' = FateOf(q)
    PROVE  /\ Fate[r] = FateOf(r)
           /\ Fate' = [Fate EXCEPT ![r] = FateOf(r)']
           /\ FateOf(r)' = FateOf(r) => Fate' = Fate
<1>1. Fate = [q \in Req |-> FateOf(q)]
  BY FateIsOneOfThree
<1>2. Fate' = [q \in Req |-> FateOf(q)']
  BY FateStaysOneOfThree
<1> QED
  BY <1>1, <1>2

\* A handler tells its client, or turns him away, as the service would.
LEMMA HandlerServes ==
    ASSUME IInv, IInv', NEW r \in Req,
           Door(r) \/ Handler(r)
    PROVE  Service!Next \/ UNCHANGED <<Fate, reply>>
<1>1. TypeOK /\ Once /\ Once' /\ OfReq(r)
  BY DEF IInv
<1>2. UNCHANGED <<status, applied>>
  BY DEF Door, BadRequest, Read, Accept, Reject, Handler, Stall, Enqueue, Awake, TimeOut,
         Release, itemVars, history
<1>3. \A q \in Req : Done(q)' <=> Done(q)
  BY <1>2 DEF Done
<1>4. \A q \in Req \ {r} : hand'[q] = hand[q] /\ reply'[q] = reply[q]
  BY <1>1 DEF TypeOK, Door, BadRequest, Read, Accept, Reject, Handler, Stall, Enqueue, Awake,
              TimeOut, Release
<1>5. \A q \in Req \ {r} : FateOf(q)' = FateOf(q)
  BY <1>2, <1>3, <1>4 DEF FateOf
<1>6. /\ Fate[r] = FateOf(r)
      /\ Fate' = [Fate EXCEPT ![r] = FateOf(r)']
      /\ FateOf(r)' = FateOf(r) => Fate' = Fate
  BY <1>1, <1>5, FateMoves
<1>7. CASE BadRequest(r) \/ Reject(r)
  <2>1. FateOf(r) = "open" /\ FateOf(r)' = "dropped"
    BY <1>1, <1>2, <1>3, <1>7, IpcAssumption
       DEF FateOf, OfReq, ByHand, Unheard, Fresh, BadRequest, Reject, TypeOK, Answers
  <2>2. reply[r] = None /\ \E a \in {"bad", "busy"} : reply' = [reply EXCEPT ![r] = a]
    BY <1>1, <1>7 DEF OfReq, ByHand, BadRequest, Reject
  <2>3. Service!Refuse(r)
    BY <1>6, <2>1, <2>2
       DEF Service!Refuse, Service!Settle, Service!Tell, Service!Denied
  <2> QED
    BY <2>3 DEF Service!Next
<1>8. CASE Read(r) \/ Accept(r) \/ Stall(r) \/ Enqueue(r) \/ Release(r)
  <2>1. reply' = reply
    BY <1>8 DEF Read, Accept, Stall, Enqueue, Release
  <2>2. FateOf(r)' = FateOf(r)
    BY <1>1, <1>2, <1>3, <1>8, <2>1, IpcAssumption
       DEF FateOf, OfReq, ByHand, Read, Accept, Stall, Enqueue, Release, TypeOK, Answers
  <2> QED
    BY <1>6, <2>1, <2>2
<1>9. CASE Awake(r)
  <2>1. /\ reply[r] = None /\ reply' = [reply EXCEPT ![r] = status[r]]
        /\ status[r] \in {"ok", "not_found", "expired", "error"}
        /\ status[r] = "ok" => Done(r)
        /\ status[r] \in {"not_found", "expired"} => ~Done(r)
    BY <1>1, <1>9 DEF Awake, OfReq, ByHand, ByOutcome, TypeOK
  <2>2. FateOf(r)' = FateOf(r)
    BY <1>1, <1>2, <1>3, <1>9 DEF FateOf, Awake, TypeOK
  <2>3. CASE status[r] = "ok"
    <3>1. Service!Confirm(r)
      BY <1>6, <2>1, <2>2, <2>3
         DEF FateOf, Service!Confirm, Service!Tell, Service!Promised
    <3> QED
      BY <3>1 DEF Service!Next
  <2>4. CASE status[r] \in {"not_found", "expired"}
    <3>1. Service!Deny(r)
      BY <1>6, <2>1, <2>2, <2>4 DEF FateOf, Service!Deny, Service!Tell, Service!Denied
    <3> QED
      BY <3>1 DEF Service!Next
  <2>5. CASE status[r] = "error"
    <3>1. Service!Shrug(r)
      BY <1>6, <2>1, <2>2, <2>5 DEF Service!Shrug, Service!Tell, Service!Vague
    <3> QED
      BY <3>1 DEF Service!Next
  <2> QED
    BY <2>1, <2>3, <2>4, <2>5
<1>10. CASE TimeOut(r)
  <2>1. reply[r] = None /\ reply' = [reply EXCEPT ![r] = "timeout"]
    BY <1>1, <1>10 DEF TimeOut, OfReq, ByHand
  <2>2. FateOf(r)' = FateOf(r)
    BY <1>1, <1>2, <1>3, <1>10 DEF FateOf, TimeOut, TypeOK
  <2>3. Service!Shrug(r)
    BY <1>6, <2>1, <2>2 DEF Service!Shrug, Service!Tell, Service!Vague
  <2> QED
    BY <2>3 DEF Service!Next
<1> QED
  BY <1>7, <1>8, <1>9, <1>10 DEF Door, Handler

\* The writer settles an edit once, at the commit or when it gives the edit up.
LEMMA WriterServes ==
    ASSUME IInv, IInv', NEW r \in Req,
           Drop(r) \/ Proceed(r) \/ NotFound(r) \/ Commit(r) \/ Confirm(r) \/ Fail(r)
               \/ Fire(r)
    PROVE  Service!Next \/ UNCHANGED <<Fate, reply>>
<1>1. TypeOK /\ Once /\ Once' /\ OfReq(r)
  BY DEF IInv
<1>2. UNCHANGED <<hand, reply>>
  BY DEF Drop, Proceed, NotFound, Commit, Confirm, Fail, Fire, Decide
<1>3. UNCHANGED applied \/ ToSet(applied') = ToSet(applied) \cup {r}
  <2>1. ToSet(Append(applied, r)) = ToSet(applied) \cup {r}
    BY <1>1, AppendAdds DEF TypeOK
  <2> QED
    BY <2>1 DEF Drop, Proceed, NotFound, Commit, Confirm, Fail, Fire, history
<1>4. \A q \in Req \ {r} : status'[q] = status[q] /\ (Done(q)' <=> Done(q))
  <2>1. \A q \in Req \ {r} : Done(q)' <=> Done(q)
    BY <1>3 DEF Done
  <2>2. \A q \in Req \ {r} : status'[q] = status[q]
    BY <1>1 DEF TypeOK, Drop, Proceed, NotFound, Commit, Confirm, Fail, Fire, Decide,
                itemVars
  <2> QED
    BY <2>1, <2>2
<1>5. \A q \in Req \ {r} : FateOf(q)' = FateOf(q)
  BY <1>2, <1>4 DEF FateOf
<1>6. /\ Fate[r] = FateOf(r)
      /\ Fate' = [Fate EXCEPT ![r] = FateOf(r)']
      /\ FateOf(r)' = FateOf(r) => Fate' = Fate
  BY <1>1, <1>5, FateMoves
<1>7. OnDesk(r) /\ ~(hand[r] = "done" /\ reply[r] \in {"busy", "bad"})
  BY <1>1 DEF At, OnDesk, OfReq, ByHand, Unheard, Drop, Proceed, NotFound, Commit, Confirm,
              Fail, Fire
<1>8. UNCHANGED applied => (Done(r)' <=> Done(r))
  BY DEF Done
<1>9. CASE \/ At("got", r) /\ Drop(r)
           \/ At("begun", r) /\ (NotFound(r) \/ Fail(r))
  <2>1. FateOf(r) = "open"
    BY <1>1, <1>7, <1>9 DEF FateOf, OfReq, ByItem, Fresh, At
  <2>2. FateOf(r)' = "dropped"
    <3>1. /\ UNCHANGED applied
          /\ \E s \in {"not_found", "expired", "error"} : status' = [status EXCEPT ![r] = s]
      BY <1>9 DEF Drop, NotFound, Fail, Decide, history
    <3>2. ~Done(r)
      BY <1>1, <1>7, <1>9 DEF OfReq, ByItem, Fresh, At
    <3> QED
      BY <1>1, <1>8, <3>1, <3>2 DEF FateOf, TypeOK
  <2>3. Service!Drop(r)
    BY <1>2, <1>6, <2>1, <2>2 DEF Service!Drop, Service!Settle
  <2> QED
    BY <2>3 DEF Service!Next
<1>10. CASE Commit(r)
  <2>1. FateOf(r) = "open"
    BY <1>1, <1>7, <1>10 DEF Commit, FateOf, OfReq, ByItem, At
  <2>2. Done(r)'
    BY <1>1, <1>10, AppendAdds DEF Commit, Done, TypeOK
  <2>3. Service!Apply(r)
    BY <1>2, <1>6, <2>1, <2>2 DEF FateOf, Service!Apply, Service!Settle
  <2> QED
    BY <2>3 DEF Service!Next
<1>11. CASE At("committed", r) /\ (Confirm(r) \/ Fail(r))
  <2>1. Done(r) /\ UNCHANGED applied
    BY <1>1, <1>7, <1>11 DEF OfReq, ByItem, At, Confirm, Fail, history
  <2>2. FateOf(r)' = FateOf(r)
    BY <1>8, <2>1 DEF FateOf
  <2> QED
    BY <1>2, <1>6, <2>2
<1>12. CASE Proceed(r) \/ Fire(r)
  <2>1. UNCHANGED <<status, applied>>
    BY <1>12 DEF Proceed, Fire, itemVars
  <2>2. FateOf(r)' = FateOf(r)
    BY <1>2, <1>8, <2>1 DEF FateOf
  <2> QED
    BY <1>2, <1>6, <2>2
<1> QED
  <2>1. /\ Drop(r) => At("got", r)
        /\ NotFound(r) => At("begun", r)
        /\ Confirm(r) => At("committed", r)
        /\ Fail(r) => At("begun", r) \/ At("committed", r)
    BY DEF Drop, NotFound, Confirm, Fail
  <2> QED
    BY <1>9, <1>10, <1>11, <1>12, <2>1

(* The endpoint implements EditService, with the table, the outcome and    *)
(* the refusals for the fate: an edit is applied at most once, and what    *)
(* its client is told of it is and remains true.                           *)
THEOREM EditsAreServedCorrect == Spec => EditsAreServed
<1>1. Init => Service!Init
  <2> SUFFICES ASSUME Init PROVE Service!Init
    OBVIOUS
  <2>1. Once /\ ToSet(applied) = {}
    BY InitIInv DEF IInv, Init, ToSet
  <2>2. Fate = [r \in Req |-> "open"]
    BY <2>1, FateIsOneOfThree DEF Init, FateOf, Done
  <2> QED
    BY <2>2 DEF Service!Init, Init
<1>2. IInv /\ IInv' /\ [Next]_vars => [Service!Next]_<<Fate, reply>>
  <2> SUFFICES ASSUME IInv, IInv', [Next]_vars
               PROVE  Service!Next \/ UNCHANGED <<Fate, reply>>
    OBVIOUS
  <2>1. CASE Get \/ Stop \/ Exit \/ Tick \/ UNCHANGED vars
    <3>1. UNCHANGED <<hand, status, applied, reply>>
      BY <2>1 DEF Get, Stop, Exit, Tick, vars, itemVars, history
    <3> QED
      BY <3>1 DEF Fate, Done
  <2> QED
    BY <2>1, HandlerServes, WriterServes DEF Next, Writer
<1> QED
  BY <1>1, <1>2, Invariance, PTL DEF Spec, EditsAreServed, Service!Spec

=============================================================================

--------------------------- MODULE Watcher_proofs ----------------------------
(***************************************************************************)
(* Theorems about Watcher, for any folder, any set of names that are       *)
(* catalogued, and any number of changes and deaths.                       *)
(***************************************************************************)
EXTENDS Watcher, FiniteSetTheorems, DataLemmas

\* Events of a path, and what is queued for it.
GoneEvents(p)  == {e \in RawEvent : e.kind \in {"deleted", "moved"} /\ e.path = p}
ThereEvents(p) == {e \in RawEvent : \/ e.kind = "changed" /\ e.path = p
                                    \/ e.kind = "moved" /\ e.dest = p}
DeleteOf(p)  == [kind |-> "delete", path |-> p]
CatalogOf(p) == [kind |-> "catalog", path |-> p]

\* Nothing is under way before the observer runs, and the reconcile is over by then.
StartInv ==
    /\ ~watching => /\ raw = <<>> /\ obs = Idle /\ queue = <<>> /\ worker = Idle
                    /\ \A t \in Timer : timer[t] = Free
    /\ watching => todo = {}

(* A timer in _timers is one of its path, whose thread has not taken the   *)
(* entry out.                                                              *)
EntryInv ==
    \A p \in Catalogable : entry[p] # NoEntry =>
        timer[entry[p]].at \in {"armed", "fired"} /\ timer[entry[p]].path = p

(* There is a free timer for every change that may still arm one.          *)
Armed == {t \in Timer : timer[t] # Free}
Arming == IF obs # Idle /\ obs.do = "schedule" THEN 1 ELSE 0
RoomInv == Cardinality(Armed) + Len(raw) + Arming <= ops

(* Events keep the order of the changes: over a file that is there, an     *)
(* event that tells it has gone is followed by one that tells it is there. *)
OrderInv ==
    /\ \A p \in Path : file[p] # 0 => Followed(raw, GoneEvents(p), ThereEvents(p))
    /\ obs # Idle /\ obs.do = "delete" /\ file[obs.path] # 0 => TellsThere(obs.path)

(* A path whose row is promised to go, or to come, and one the worker      *)
(* holds without being about to mend it.                                   *)
Gone(p)  == file[p] = 0 /\ p \notin failed
There(p) == file[p] # 0 /\ p \notin recorded /\ p \notin failed
Held(p)  == worker # Idle /\ worker.path = p /\ ~Mending(p)

(* What is owed to a path that is covered.                                 *)
OwedInv ==
    \A p \in Covered :
        /\ Gone(p) /\ row[p] # 0 => DeleteOwed(p)
        /\ There(p) /\ row[p] # file[p] => CatalogOwed(p)
        /\ file[p] # 0 => ToSchedule(p) \/ Followed(queue, {DeleteOf(p)}, {CatalogOf(p)})
        /\ There(p) /\ Held(p) => CatalogOwed(p)

IInv == TypeOK /\ StartInv /\ EntryInv /\ RoomInv /\ OrderInv /\ OwedInv

-----------------------------------------------------------------------------
(* What can be told from an event, and of a timer.                         *)

LEMMA IdleIsNothing ==
    /\ \A o \in [do : {"delete", "schedule"}, path : Catalogable] : o # Idle
    /\ \A w \in Job : w # Idle
    /\ \A u \in [at : {"armed", "fired", "popped"}, path : Catalogable] : u # Free
<1>1. \A o \in [do : {"delete", "schedule"}, path : Catalogable] : o # Idle
  <2> SUFFICES ASSUME NEW o \in [do : {"delete", "schedule"}, path : Catalogable], o = Idle
               PROVE  FALSE
    OBVIOUS
  <2>1. DOMAIN o = {"do", "path"} /\ DOMAIN Idle = {"at"}
    BY DEF Idle
  <2> QED
    BY <2>1
<1>2. \A w \in Job : w # Idle
  BY DEF Job, Idle
<1>3. \A u \in [at : {"armed", "fired", "popped"}, path : Catalogable] : u # Free
  BY DEF Free
<1> QED
  BY <1>1, <1>2, <1>3

LEMMA EventShape ==
    ASSUME NEW e \in RawEvent
    PROVE  /\ e.kind \in {"changed", "deleted", "moved"} /\ e.path \in Path
           /\ e.kind = "moved" => e.dest \in Path
BY DEF RawEvent

\* What the events not dispatched yet tell, after one has come or gone.
LEMMA TellingAppend ==
    ASSUME raw \in Seq(RawEvent), NEW e \in RawEvent, raw' = Append(raw, e), NEW p
    PROVE  /\ TellsGone(p)' <=> TellsGone(p) \/ e \in GoneEvents(p)
           /\ TellsThere(p)' <=> TellsThere(p) \/ e \in ThereEvents(p)
<1>1. ToSet(raw') = ToSet(raw) \cup {e}
  BY AppendAdds
<1> QED
  BY <1>1 DEF TellsGone, TellsThere, GoneEvents, ThereEvents

LEMMA TellingTail ==
    ASSUME raw \in Seq(RawEvent), raw # <<>>, raw' = Tail(raw), NEW p
    PROVE  /\ TellsGone(p) <=> TellsGone(p)' \/ Head(raw) \in GoneEvents(p)
           /\ TellsThere(p) <=> TellsThere(p)' \/ Head(raw) \in ThereEvents(p)
           /\ (\E e \in ToSet(raw') : e \in ThereEvents(p)) => TellsThere(p)'
<1>1. ToSet(raw) = ToSet(raw') \cup {Head(raw)} /\ Head(raw) \in RawEvent
  BY TailLeaves
<1> QED
  BY <1>1 DEF TellsGone, TellsThere, GoneEvents, ThereEvents

-----------------------------------------------------------------------------
(* The timers.                                                             *)

LEMMA TimersAreFew ==
    /\ IsFiniteSet(Timer) /\ Cardinality(Timer) = MaxOps
    /\ IsFiniteSet(Armed) /\ Cardinality(Armed) \in Nat
    /\ Cardinality(Armed) < MaxOps => \E t \in Timer : timer[t] = Free
<1>1. IsFiniteSet(Timer) /\ Cardinality(Timer) = MaxOps
  <2>1. 1 \in Int /\ MaxOps \in Int /\ MaxOps \in Nat
    BY WatcherAssumption
  <2>2. Cardinality(1..MaxOps) = IF 1 > MaxOps THEN 0 ELSE MaxOps - 1 + 1
    BY <2>1, FS_Interval
  <2>3. Cardinality(1..MaxOps) = MaxOps
    BY <2>1, <2>2
  <2> QED
    BY <2>1, <2>3, FS_Interval DEF Timer
<1>2. Armed \in SUBSET Timer
  BY DEF Armed
<1>3. IsFiniteSet(Armed) /\ Cardinality(Armed) \in Nat
  BY <1>1, <1>2, FS_Subset, FS_CardinalityType
<1>4. ASSUME Cardinality(Armed) < MaxOps PROVE \E t \in Timer : timer[t] = Free
  <2>1. Armed # Timer
    BY <1>1, <1>3, <1>4
  <2> QED
    BY <1>2, <2>1 DEF Armed
<1> QED
  BY <1>1, <1>3, <1>4

\* A path waits for its timer.
Waits(p) == \E t \in Timer : timer[t] # Free /\ timer[t].path = p

LEMMA Scheduled ==
    ASSUME TypeOK, EntryInv, NEW p \in Catalogable, Schedule(p),
           Cardinality(Armed) < MaxOps
    PROVE  /\ timer' \in [Timer -> [at : {"armed", "fired", "popped"}, path : Catalogable]
                                     \cup {Free}]
           /\ entry' \in [Catalogable -> Timer \cup {NoEntry}]
           /\ EntryInv' /\ Waits(p)' /\ \A q \in Catalogable : Waits(q) => Waits(q)'
           /\ Cardinality(Armed') \in Nat /\ Cardinality(Armed') <= Cardinality(Armed) + 1
<1>1. PICK new \in Timer : new = NewTimer /\ timer[new] = Free
  BY TimersAreFew DEF NewTimer
<1>2. PICK old : old = entry[p]
  OBVIOUS
<1>3. /\ timer \in [Timer -> [at : {"armed", "fired", "popped"}, path : Catalogable] \cup {Free}]
      /\ entry \in [Catalogable -> Timer \cup {NoEntry}]
      /\ old \in Timer \cup {NoEntry} /\ NoEntry \notin Timer
  BY <1>2 DEF TypeOK, NoEntry, Timer
<1>4. old \in Timer => timer[old].at \in {"armed", "fired"} /\ timer[old].path = p
  BY <1>2, <1>3 DEF EntryInv
<1>5. /\ timer' = [t \in Timer |-> IF t = new THEN [at |-> "armed", path |-> p]
                                   ELSE IF t = old THEN Cancelled(t) ELSE timer[t]]
      /\ entry' = [entry EXCEPT ![p] = new]
  BY <1>1, <1>2 DEF Schedule
<1>6. \A t \in Timer : Cancelled(t) = Free \/ (Cancelled(t) = timer[t] /\ timer[t].at # "armed")
  BY DEF Cancelled
<1>7. /\ timer'[new] = [at |-> "armed", path |-> p] /\ timer'[new].at = "armed"
      /\ timer'[new].path = p /\ timer'[new] # Free
  BY <1>1, <1>5 DEF Free
<1>8. \A t \in Timer \ {new} :
          /\ t # old => timer'[t] = timer[t]
          /\ t = old => timer'[t] \in {Free, timer[t]}
  BY <1>5, <1>6
<1>9. timer' \in [Timer -> [at : {"armed", "fired", "popped"}, path : Catalogable] \cup {Free}]
  BY <1>3, <1>5, <1>6
<1>10. entry' \in [Catalogable -> Timer \cup {NoEntry}]
  BY <1>1, <1>3, <1>5
<1>11. EntryInv'
  <2> SUFFICES ASSUME NEW q \in Catalogable, entry'[q] # NoEntry
               PROVE  timer'[entry'[q]].at \in {"armed", "fired"} /\ timer'[entry'[q]].path = q
    BY DEF EntryInv
  <2>1. CASE q = p
    BY <1>3, <1>5, <1>7, <2>1
  <2>2. CASE q # p
    <3>1. entry'[q] = entry[q] /\ entry[q] \in Timer
      BY <1>3, <1>5, <2>2
    <3>2. timer[entry[q]].at \in {"armed", "fired"} /\ timer[entry[q]].path = q
      BY <3>1 DEF EntryInv
    <3>3. entry[q] # new /\ entry[q] # old
      BY <1>1, <1>4, <2>2, <3>1, <3>2 DEF Free
    <3> QED
      BY <1>8, <3>1, <3>2, <3>3
  <2> QED
    BY <2>1, <2>2
<1>12. Waits(p)'
  BY <1>7 DEF Waits
<1>13. ASSUME NEW q \in Catalogable, Waits(q) PROVE Waits(q)'
  <2>1. PICK t \in Timer : timer[t] # Free /\ timer[t].path = q
    BY <1>13 DEF Waits
  <2>2. CASE q = p
    BY <1>12, <2>2
  <2>3. CASE q # p
    <3>1. t # new /\ t # old
      BY <1>1, <1>4, <2>1, <2>3
    <3> QED
      BY <1>8, <2>1, <3>1 DEF Waits
  <2> QED
    BY <2>2, <2>3
<1>14. Cardinality(Armed') \in Nat /\ Cardinality(Armed') <= Cardinality(Armed) + 1
  <2>1. Armed' \in SUBSET (Armed \cup {new})
    BY <1>8 DEF Armed
  <2>2. IsFiniteSet(Armed) /\ Cardinality(Armed) \in Nat
    BY TimersAreFew
  <2>3. /\ IsFiniteSet(Armed \cup {new})
        /\ Cardinality(Armed \cup {new}) \in {Cardinality(Armed), Cardinality(Armed) + 1}
    BY <2>2, FS_AddElement
  <2>4. Cardinality(Armed') <= Cardinality(Armed \cup {new})
    BY <2>1, <2>3, FS_Subset
  <2>5. Cardinality(Armed') \in Nat
    BY <2>1, <2>3, FS_Subset, FS_CardinalityType
  <2> QED
    BY <2>2, <2>3, <2>4, <2>5
<1> QED
  BY <1>9, <1>10, <1>11, <1>12, <1>13, <1>14

\* on_deleted: the path of the timer that is cancelled is the only one that loses one.
LEMMA TimerCancelled ==
    ASSUME TypeOK, EntryInv, NEW p \in Catalogable,
           timer' = [t \in Timer |-> IF t = entry[p] THEN Cancelled(t) ELSE timer[t]],
           entry' = [entry EXCEPT ![p] = NoEntry]
    PROVE  /\ timer' \in [Timer -> [at : {"armed", "fired", "popped"}, path : Catalogable]
                                     \cup {Free}]
           /\ entry' \in [Catalogable -> Timer \cup {NoEntry}]
           /\ EntryInv' /\ \A q \in Catalogable \ {p} : Waits(q) => Waits(q)'
           /\ Armed' \subseteq Armed
<1>1. PICK old : old = entry[p]
  OBVIOUS
<1>2. /\ timer \in [Timer -> [at : {"armed", "fired", "popped"}, path : Catalogable] \cup {Free}]
      /\ entry \in [Catalogable -> Timer \cup {NoEntry}]
      /\ old \in Timer \cup {NoEntry} /\ NoEntry \notin Timer
  BY <1>1 DEF TypeOK, NoEntry, Timer
<1>3. old \in Timer => timer[old].path = p
  BY <1>1, <1>2 DEF EntryInv
<1>4. timer' = [t \in Timer |-> IF t = old THEN Cancelled(t) ELSE timer[t]]
  BY <1>1
<1>5. \A t \in Timer : Cancelled(t) \in {Free, timer[t]}
  BY DEF Cancelled
<1>6. /\ \A t \in Timer : t # old => timer'[t] = timer[t]
      /\ \A t \in Timer : timer'[t] \in {Free, timer[t]}
  BY <1>4, <1>5
<1>7. timer' \in [Timer -> [at : {"armed", "fired", "popped"}, path : Catalogable] \cup {Free}]
      /\ entry' \in [Catalogable -> Timer \cup {NoEntry}]
  BY <1>2, <1>4, <1>5
<1>8. EntryInv'
  BY <1>2, <1>3, <1>6 DEF EntryInv
<1>9. \A q \in Catalogable \ {p} : Waits(q) => Waits(q)'
  BY <1>2, <1>3, <1>6 DEF Waits
<1>10. Armed' \subseteq Armed
  BY <1>6 DEF Armed
<1> QED
  BY <1>7, <1>8, <1>9, <1>10

\* A timer's own step: its path keeps it, until it is free.
LEMMA TimerMoved ==
    ASSUME TypeOK, EntryInv, NEW t \in Timer, timer[t] # Free,
           NEW u \in {"fired", "popped", "free"},
           u = "fired" => timer[t].at = "armed" /\ entry' = entry,
           u = "popped" => entry' = [entry EXCEPT ![timer[t].path] = NoEntry],
           u = "free" => timer[t].at = "popped" /\ entry' = entry,
           timer' = [timer EXCEPT ![t] = IF u = "free" THEN Free
                                         ELSE [at |-> u, path |-> timer[t].path]]
    PROVE  /\ timer' \in [Timer -> [at : {"armed", "fired", "popped"}, path : Catalogable]
                                     \cup {Free}]
           /\ entry' \in [Catalogable -> Timer \cup {NoEntry}]
           /\ EntryInv' /\ Armed' \subseteq Armed
           /\ \A q \in Catalogable : Waits(q) => Waits(q)' \/ (u = "free" /\ q = timer[t].path)
<1>1. /\ timer \in [Timer -> [at : {"armed", "fired", "popped"}, path : Catalogable] \cup {Free}]
      /\ entry \in [Catalogable -> Timer \cup {NoEntry}] /\ NoEntry \notin Timer
  BY DEF TypeOK, NoEntry, Timer
<1>2. PICK p \in Catalogable : p = timer[t].path
  BY <1>1
<1>3. PICK next : next = IF u = "free" THEN Free ELSE [at |-> u, path |-> p]
  OBVIOUS
<1>4. /\ next \in [at : {"armed", "fired", "popped"}, path : Catalogable] \cup {Free}
      /\ u # "free" => next.at = u /\ next.path = p /\ next # Free
      /\ u = "free" => next = Free
  BY <1>3 DEF Free
<1>5. timer'[t] = next /\ \A v \in Timer \ {t} : timer'[v] = timer[v]
  BY <1>1, <1>2, <1>3
<1>6. /\ timer' \in [Timer -> [at : {"armed", "fired", "popped"}, path : Catalogable] \cup {Free}]
      /\ entry' \in [Catalogable -> Timer \cup {NoEntry}]
  BY <1>1, <1>2, <1>3, <1>4
<1>7. EntryInv'
  <2> SUFFICES ASSUME NEW q \in Catalogable, entry'[q] # NoEntry
               PROVE  timer'[entry'[q]].at \in {"armed", "fired"} /\ timer'[entry'[q]].path = q
    BY DEF EntryInv
  <2>1. entry'[q] = entry[q] /\ entry[q] \in Timer
    BY <1>1, <1>2
  <2>2. timer[entry[q]].at \in {"armed", "fired"} /\ timer[entry[q]].path = q
    BY <2>1 DEF EntryInv
  <2>3. CASE entry[q] = t
    BY <1>1, <1>2, <1>4, <1>5, <2>1, <2>2, <2>3
  <2>4. CASE entry[q] # t
    BY <1>5, <2>1, <2>2, <2>4
  <2> QED
    BY <2>3, <2>4
<1>8. Armed' \subseteq Armed
  BY <1>5 DEF Armed
<1>9. \A q \in Catalogable : Waits(q) => Waits(q)' \/ (u = "free" /\ q = timer[t].path)
  BY <1>2, <1>4, <1>5 DEF Waits
<1> QED
  BY <1>6, <1>7, <1>8, <1>9

LEMMA FewerArmed ==
    ASSUME Armed' \subseteq Armed
    PROVE  Cardinality(Armed') \in Nat /\ Cardinality(Armed') <= Cardinality(Armed)
BY TimersAreFew, FS_Subset, FS_CardinalityType

-----------------------------------------------------------------------------
(* What is owed, through the steps of the threads that do not touch files, *)
(* rows or the worker.                                                     *)

QueuedFor(kind, p) == \E e \in ToSet(queue) : e.kind = kind /\ e.path = p
Scheduling(p) == obs # Idle /\ obs.do = "schedule" /\ obs.path = p
Deleting(p)   == obs # Idle /\ obs.do = "delete" /\ obs.path = p

LEMMA Owed ==
    ASSUME NEW p
    PROVE  /\ DeleteOwed(p) <=> TellsGone(p) \/ Deleting(p) \/ QueuedFor("delete", p)
           /\ ToSchedule(p) <=> TellsThere(p) \/ Scheduling(p) \/ Waits(p)
           /\ CatalogOwed(p) <=> \/ ToSchedule(p) \/ QueuedFor("catalog", p)
                                 \/ Mending(p)
BY DEF DeleteOwed, ToSchedule, CatalogOwed, QueuedFor, Scheduling, Deleting, Waits

LEMMA KeepOwed ==
    ASSUME IInv, UNCHANGED <<file, recorded, row, missed, todo, worker, failed>>,
           \A p \in Catalogable :
              /\ DeleteOwed(p) => DeleteOwed(p)'
              /\ file[p] # 0 =>
                    /\ ToSchedule(p) => ToSchedule(p)' \/ QueuedFor("catalog", p)'
                    /\ QueuedFor("catalog", p) => QueuedFor("catalog", p)'
                    /\ ToSchedule(p) \/ Followed(queue, {DeleteOf(p)}, {CatalogOf(p)}) =>
                       ToSchedule(p)' \/ Followed(queue', {DeleteOf(p)}, {CatalogOf(p)})
    PROVE  OwedInv'
<1> SUFFICES ASSUME NEW p \in Covered'
             PROVE  /\ Gone(p)' /\ row'[p] # 0 => DeleteOwed(p)'
                    /\ There(p)' /\ row'[p] # file'[p] => CatalogOwed(p)'
                    /\ file'[p] # 0 =>
                          ToSchedule(p)' \/ Followed(queue', {DeleteOf(p)}, {CatalogOf(p)})
                    /\ There(p)' /\ Held(p)' => CatalogOwed(p)'
  BY DEF OwedInv, DeleteOf, CatalogOf
<1>1. p \in Covered /\ p \in Catalogable
  BY DEF Covered
<1>2. /\ Gone(p) /\ row[p] # 0 => DeleteOwed(p)
      /\ There(p) /\ row[p] # file[p] => CatalogOwed(p)
      /\ file[p] # 0 => ToSchedule(p) \/ Followed(queue, {DeleteOf(p)}, {CatalogOf(p)})
      /\ There(p) /\ Held(p) => CatalogOwed(p)
  BY <1>1 DEF IInv, OwedInv
<1>3. file[p] # 0 /\ CatalogOwed(p) => CatalogOwed(p)'
  <2> SUFFICES ASSUME file[p] # 0, CatalogOwed(p) PROVE CatalogOwed(p)'
    OBVIOUS
  <2>1. CASE ToSchedule(p) \/ QueuedFor("catalog", p)
    <3>1. ToSchedule(p)' \/ QueuedFor("catalog", p)'
      BY <1>1, <2>1
    <3> QED
      BY <3>1 DEF CatalogOwed, QueuedFor
  <2>2. CASE Mending(p)
    BY <2>2 DEF CatalogOwed, Mending
  <2> QED
    BY <2>1, <2>2, Owed
<1>4. /\ Gone(p)' <=> Gone(p)
      /\ There(p)' <=> There(p)
      /\ Held(p)' <=> Held(p)
  BY DEF Gone, There, Held, Mending
<1>5. There(p) => file[p] # 0
  BY DEF There
<1> QED
  BY <1>1, <1>2, <1>3, <1>4, <1>5

LEMMA QueuedAppend ==
    ASSUME queue \in Seq(Event), NEW e \in Event, queue' = Append(queue, e), NEW kind, NEW p
    PROVE  /\ QueuedFor(kind, p)' <=> QueuedFor(kind, p) \/ (e.kind = kind /\ e.path = p)
           /\ queue' \in Seq(Event)
<1>1. ToSet(queue') = ToSet(queue) \cup {e} /\ queue' \in Seq(Event)
  BY AppendAdds
<1> QED
  BY <1>1 DEF QueuedFor

\* How many events, timers and handlers there are.
LEMMA Counts ==
    ASSUME IInv
    PROVE  /\ Len(raw) \in Nat /\ Arming \in {0, 1} /\ ops \in Nat /\ ops <= MaxOps
           /\ MaxOps \in Nat /\ Cardinality(Armed) \in Nat
           /\ Cardinality(Armed) + Len(raw) + Arming <= ops
           /\ raw # <<>> => Len(raw) > 0
BY TimersAreFew, WatcherAssumption DEF IInv, TypeOK, Version, Arming, RoomInv

-----------------------------------------------------------------------------
(* The observer thread.                                                    *)

\* The event at the head has been dispatched.
LEMMA Dispatched ==
    ASSUME IInv, obs = Idle, raw # <<>>, raw' = Tail(raw), UNCHANGED folder
    PROVE  /\ raw' \in Seq(RawEvent) /\ Len(raw') = Len(raw) - 1 /\ Head(raw) \in RawEvent
           /\ \A p \in Path : file'[p] # 0 => Followed(raw', GoneEvents(p), ThereEvents(p))
           /\ \A p \in Path : file[p] # 0 /\ Head(raw) \in GoneEvents(p) => TellsThere(p)'
           /\ watching
<1>1. raw \in Seq(RawEvent) /\ file' = file
  BY DEF IInv, TypeOK, folder
<1>2. raw' \in Seq(RawEvent) /\ Len(raw') = Len(raw) - 1 /\ Head(raw) \in RawEvent
  BY <1>1, TailLeaves
<1>3. ASSUME NEW p \in Path, file[p] # 0
      PROVE  /\ Followed(raw', GoneEvents(p), ThereEvents(p))
             /\ Head(raw) \in GoneEvents(p) => TellsThere(p)'
  <2>1. Followed(raw, GoneEvents(p), ThereEvents(p))
    BY <1>3 DEF IInv, OrderInv
  <2>2. /\ Followed(raw', GoneEvents(p), ThereEvents(p))
        /\ Head(raw) \in GoneEvents(p) => \E e \in ToSet(raw') : e \in ThereEvents(p)
    BY <1>1, <2>1, TailFollows
  <2> QED
    BY <1>1, <2>2, TellingTail
<1>4. watching
  BY DEF IInv, StartInv
<1> QED
  BY <1>1, <1>2, <1>3, <1>4

LEMMA OnChangedStep == ASSUME IInv, OnChanged PROVE IInv'
<1>1. /\ obs = Idle /\ raw # <<>> /\ Head(raw).kind = "changed" /\ raw' = Tail(raw)
      /\ UNCHANGED <<folder, row, startup, obs, queue, worker, failures>>
  BY DEF OnChanged
<1>0. PICK named : /\ named = Head(raw).path
                   /\ \/ named \in Catalogable /\ Schedule(named)
                      \/ named \notin Catalogable /\ UNCHANGED timers
  BY DEF OnChanged
<1>2. UNCHANGED <<file, recorded, ops, missed, failed, faults, todo, watching, crashes>>
  BY <1>1 DEF folder, startup, failures
<1>3. /\ raw' \in Seq(RawEvent) /\ Len(raw') = Len(raw) - 1 /\ Head(raw) \in RawEvent
      /\ \A p \in Path : file'[p] # 0 => Followed(raw', GoneEvents(p), ThereEvents(p))
      /\ watching
  BY <1>1, Dispatched
<1>4. Len(raw) \in Nat /\ Len(raw) > 0 /\ Cardinality(Armed) < MaxOps
  BY <1>1, Counts
<1>5. /\ timer' \in [Timer -> [at : {"armed", "fired", "popped"}, path : Catalogable] \cup {Free}]
      /\ entry' \in [Catalogable -> Timer \cup {NoEntry}]
      /\ EntryInv' /\ \A q \in Catalogable : Waits(q) => Waits(q)'
      /\ named \in Catalogable => Waits(named)'
      /\ Cardinality(Armed') \in Nat /\ Cardinality(Armed') <= Cardinality(Armed) + 1
  <2>1. CASE named \in Catalogable
    BY <1>4, <1>0, <2>1, Scheduled DEF IInv
  <2>2. CASE named \notin Catalogable
    <3>1. UNCHANGED <<timer, entry>> /\ Cardinality(Armed) \in Nat
      BY <1>0, <2>2, Counts DEF timers
    <3>2. Armed' = Armed
      BY <3>1 DEF Armed
    <3> QED
      BY <2>2, <3>1, <3>2 DEF IInv, TypeOK, EntryInv, Waits
  <2> QED
    BY <2>1, <2>2
<1>6. TypeOK'
  BY <1>1, <1>2, <1>3, <1>5 DEF IInv, TypeOK
<1>7. StartInv'
  BY <1>1, <1>2, <1>3 DEF IInv, StartInv
<1>8. RoomInv'
  BY <1>1, <1>2, <1>3, <1>4, <1>5, Counts DEF RoomInv, Arming
<1>9. OrderInv'
  BY <1>1, <1>3 DEF OrderInv
<1>10. OwedInv'
  <2>1. ASSUME NEW p \in Catalogable
        PROVE  /\ DeleteOwed(p) => DeleteOwed(p)'
               /\ ToSchedule(p) => ToSchedule(p)'
    <3>1. Head(raw) \notin GoneEvents(p)
          /\ (Head(raw) \in ThereEvents(p) => named = p)
      BY <1>1, <1>0 DEF GoneEvents, ThereEvents
    <3>2. /\ TellsGone(p) => TellsGone(p)'
          /\ TellsThere(p) => TellsThere(p)' \/ named = p
      BY <1>1, <3>1, TellingTail DEF IInv, TypeOK
    <3>3. DeleteOwed(p) => DeleteOwed(p)'
      BY <1>1, <3>2 DEF DeleteOwed
    <3>4. ToSchedule(p) => ToSchedule(p)'
      <4>1. Waits(p) => Waits(p)'
        BY <1>5
      <4>2. CASE named = p
        BY <1>5, <4>2 DEF ToSchedule, Waits
      <4>3. CASE named # p
        BY <1>1, <3>2, <4>1, <4>3 DEF ToSchedule, Waits
      <4> QED
        BY <4>2, <4>3
    <3> QED
      BY <3>3, <3>4
  <2>2. \A p \in Catalogable : QueuedFor("catalog", p) => QueuedFor("catalog", p)'
    BY <1>1 DEF QueuedFor
  <2> QED
    BY <1>1, <1>2, <2>1, <2>2, KeepOwed
<1> QED
  BY <1>5, <1>6, <1>7, <1>8, <1>9, <1>10 DEF IInv

LEMMA OnDeletedStep == ASSUME IInv, OnDeleted PROVE IInv'
<1>1. /\ obs = Idle /\ raw # <<>> /\ Head(raw).kind = "deleted" /\ raw' = Tail(raw)
      /\ UNCHANGED <<folder, row, startup, queue, worker, failures>>
  BY DEF OnDeleted
<1>2. UNCHANGED <<file, recorded, ops, missed, failed, faults, todo, watching, crashes>>
  BY <1>1 DEF folder, startup, failures
<1>3. /\ raw' \in Seq(RawEvent) /\ Len(raw') = Len(raw) - 1 /\ Head(raw) \in RawEvent
      /\ \A p \in Path : file'[p] # 0 => Followed(raw', GoneEvents(p), ThereEvents(p))
      /\ \A p \in Path : file[p] # 0 /\ Head(raw) \in GoneEvents(p) => TellsThere(p)'
      /\ watching
  BY <1>1, Dispatched
<1>4. PICK gone \in Path : gone = Head(raw).path /\ Head(raw) \in GoneEvents(gone)
  BY <1>1, <1>3, EventShape DEF GoneEvents
<1>5. /\ timer' \in [Timer -> [at : {"armed", "fired", "popped"}, path : Catalogable] \cup {Free}]
      /\ entry' \in [Catalogable -> Timer \cup {NoEntry}]
      /\ EntryInv' /\ \A q \in Catalogable \ {gone} : Waits(q) => Waits(q)'
      /\ Armed' \subseteq Armed
      /\ gone \in Catalogable => obs' = [do |-> "delete", path |-> gone]
      /\ gone \notin Catalogable => obs' = Idle
  <2>1. CASE gone \in Catalogable
    BY <1>4, <2>1, TimerCancelled DEF OnDeleted, IInv
  <2>2. CASE gone \notin Catalogable
    BY <1>1, <1>4, <2>2 DEF OnDeleted, timers, IInv, TypeOK, EntryInv, Waits, Armed
  <2> QED
    BY <2>1, <2>2
<1>6. TypeOK'
  BY <1>1, <1>2, <1>3, <1>5 DEF IInv, TypeOK
<1>7. StartInv'
  BY <1>1, <1>2, <1>3 DEF IInv, StartInv
<1>8. RoomInv'
  <2>1. Arming' = 0
    BY <1>5 DEF Arming
  <2> QED
    BY <1>1, <1>2, <1>3, <1>5, <2>1, Counts, FewerArmed DEF RoomInv
<1>9. OrderInv'
  <2>1. gone \in Catalogable => gone \in Path /\ obs'.path = gone
    BY <1>5
  <2>2. obs' # Idle /\ obs'.do = "delete" /\ file'[obs'.path] # 0 => TellsThere(obs.path)'
    BY <1>2, <1>3, <1>4, <1>5, <2>1
  <2> QED
    BY <1>3, <2>2 DEF OrderInv
<1>10. OwedInv'
  <2>1. ASSUME NEW p \in Catalogable
        PROVE  /\ DeleteOwed(p) => DeleteOwed(p)'
               /\ file[p] # 0 /\ ToSchedule(p) => ToSchedule(p)'
    <3>1. Head(raw) \notin ThereEvents(p) /\ (Head(raw) \in GoneEvents(p) => p = gone)
      BY <1>1, <1>4 DEF GoneEvents, ThereEvents
    <3>2. /\ TellsGone(p) => TellsGone(p)' \/ p = gone
          /\ TellsThere(p) => TellsThere(p)'
      BY <1>1, <3>1, TellingTail DEF IInv, TypeOK
    <3>3. DeleteOwed(p) => DeleteOwed(p)'
      <4>1. CASE p = gone
        <5>1. obs' = [do |-> "delete", path |-> p]
          BY <1>5, <4>1
        <5>2. obs' # Idle
          BY <5>1, IdleIsNothing
        <5>3. obs'.do = "delete" /\ obs'.path = p
          BY <5>1
        <5> QED
          BY <5>2, <5>3 DEF DeleteOwed
      <4>2. CASE p # gone
        BY <1>1, <3>2, <4>2 DEF DeleteOwed
      <4> QED
        BY <4>1, <4>2
    <3>4. file[p] # 0 /\ ToSchedule(p) => ToSchedule(p)'
      <4>1. CASE p = gone
        <5>1. p \in Path
          BY WatcherAssumption
        <5>2. file[p] # 0 => TellsThere(p)'
          BY <1>3, <1>4, <4>1
        <5> QED
          BY <5>2 DEF ToSchedule
      <4>2. CASE p # gone
        BY <1>1, <1>5, <3>2, <4>2 DEF ToSchedule, Waits
      <4> QED
        BY <4>1, <4>2
    <3> QED
      BY <3>3, <3>4
  <2>2. \A p \in Catalogable : QueuedFor("catalog", p) => QueuedFor("catalog", p)'
    BY <1>1 DEF QueuedFor
  <2> QED
    BY <1>1, <1>2, <2>1, <2>2, KeepOwed
<1> QED
  BY <1>5, <1>6, <1>7, <1>8, <1>9, <1>10 DEF IInv

LEMMA PutDeleteStep == ASSUME IInv, PutDelete PROVE IInv'
<1>1. /\ obs # Idle /\ obs.do = "delete" /\ obs' = Idle
      /\ UNCHANGED <<file, recorded, ops, missed, failed, faults, row, todo, watching,
                     crashes, raw, timer, entry, worker>>
  BY DEF PutDelete, folder, startup, timers, failures
<1>2. PICK gone \in Catalogable : gone = obs.path
  BY <1>1 DEF IInv, TypeOK
<1>3. queue \in Seq(Event) /\ DeleteOf(gone) \in Event /\ queue' = Append(queue, DeleteOf(gone))
  BY <1>2 DEF PutDelete, IInv, TypeOK, Event, DeleteOf
<1>4. watching /\ (file[gone] # 0 => TellsThere(gone))
  BY <1>1, <1>2 DEF IInv, StartInv, OrderInv
<1>5. TypeOK' /\ StartInv' /\ EntryInv'
  BY <1>1, <1>3, <1>4, QueuedAppend DEF IInv, TypeOK, StartInv, EntryInv
<1>6. RoomInv'
  BY <1>1, Counts DEF RoomInv, Arming, Armed
<1>7. OrderInv'
  BY <1>1 DEF IInv, OrderInv
<1>8. OwedInv'
  <2>1. ASSUME NEW p \in Catalogable
        PROVE  /\ DeleteOwed(p) => DeleteOwed(p)'
               /\ ToSchedule(p) => ToSchedule(p)'
               /\ QueuedFor("catalog", p) => QueuedFor("catalog", p)'
               /\ file[p] # 0 /\ Followed(queue, {DeleteOf(p)}, {CatalogOf(p)}) =>
                     ToSchedule(p)' \/ Followed(queue', {DeleteOf(p)}, {CatalogOf(p)})
    <3>1. /\ QueuedFor("catalog", p) => QueuedFor("catalog", p)'
          /\ QueuedFor("delete", p) => QueuedFor("delete", p)'
          /\ QueuedFor("delete", gone)'
      BY <1>3, QueuedAppend DEF DeleteOf
    <3>2. DeleteOwed(p) => DeleteOwed(p)'
      BY <1>1, <1>2, <3>1 DEF DeleteOwed, QueuedFor, TellsGone
    <3>3. /\ ToSchedule(p) => ToSchedule(p)'
          /\ TellsThere(p) => ToSchedule(p)'
      BY <1>1 DEF ToSchedule, TellsThere
    <3>4. file[p] # 0 /\ Followed(queue, {DeleteOf(p)}, {CatalogOf(p)}) =>
             ToSchedule(p)' \/ Followed(queue', {DeleteOf(p)}, {CatalogOf(p)})
      <4>1. CASE p = gone
        BY <1>4, <3>3, <4>1
      <4>2. CASE p # gone
        <5>1. DeleteOf(gone) \notin {DeleteOf(p)}
          BY <4>2 DEF DeleteOf
        <5> QED
          BY <1>3, <5>1, AppendFollows
      <4> QED
        BY <4>1, <4>2
    <3> QED
      BY <3>1, <3>2, <3>3, <3>4
  <2> QED
    BY <1>1, <2>1, KeepOwed
<1> QED
  BY <1>5, <1>6, <1>7, <1>8 DEF IInv

LEMMA OnMovedStep == ASSUME IInv, OnMoved PROVE IInv'
<1>1. /\ obs = Idle /\ raw # <<>> /\ Head(raw).kind = "moved" /\ raw' = Tail(raw)
      /\ UNCHANGED <<file, recorded, ops, missed, failed, faults, row, todo, watching,
                     crashes, timer, entry, worker>>
      /\ UNCHANGED folder
  BY DEF OnMoved, folder, startup, timers, failures
<1>2. /\ raw' \in Seq(RawEvent) /\ Len(raw') = Len(raw) - 1 /\ Head(raw) \in RawEvent
      /\ \A p \in Path : file'[p] # 0 => Followed(raw', GoneEvents(p), ThereEvents(p))
      /\ \A p \in Path : file[p] # 0 /\ Head(raw) \in GoneEvents(p) => TellsThere(p)'
      /\ watching
  BY <1>1, Dispatched
<1>3. PICK gone \in Path, dest \in Path :
         /\ gone = Head(raw).path /\ dest = Head(raw).dest /\ Head(raw) \in GoneEvents(gone)
         /\ queue' = IF gone \in Catalogable THEN Append(queue, DeleteOf(gone)) ELSE queue
         /\ obs' = IF dest \in Catalogable THEN [do |-> "schedule", path |-> dest] ELSE Idle
  BY <1>1, <1>2, EventShape DEF OnMoved, GoneEvents, DeleteOf
<1>4. /\ queue \in Seq(Event) /\ queue' \in Seq(Event)
      /\ gone \in Catalogable => DeleteOf(gone) \in Event
  BY <1>3, AppendAdds DEF IInv, TypeOK, Event, DeleteOf
<1>5. TypeOK' /\ StartInv' /\ EntryInv'
  BY <1>1, <1>2, <1>3, <1>4 DEF IInv, TypeOK, StartInv, EntryInv
<1>6. RoomInv'
  <2>1. Arming' \in {0, 1} /\ Arming = 0 /\ Armed' = Armed
    BY <1>1 DEF Arming, Armed
  <2> QED
    BY <1>1, <1>2, <2>1, Counts DEF RoomInv
<1>7. OrderInv'
  <2>1. ~(obs' # Idle /\ obs'.do = "delete")
    BY <1>3
  <2> QED
    BY <1>2, <2>1 DEF OrderInv
<1>8. OwedInv'
  <2>1. ASSUME NEW p \in Catalogable
        PROVE  /\ DeleteOwed(p) => DeleteOwed(p)'
               /\ ToSchedule(p) => ToSchedule(p)'
               /\ QueuedFor("catalog", p) => QueuedFor("catalog", p)'
               /\ file[p] # 0 /\ Followed(queue, {DeleteOf(p)}, {CatalogOf(p)}) =>
                     ToSchedule(p)' \/ Followed(queue', {DeleteOf(p)}, {CatalogOf(p)})
    <3>1. /\ Head(raw) \in GoneEvents(p) => p = gone
          /\ Head(raw) \in ThereEvents(p) => p = dest
      BY <1>1, <1>3 DEF GoneEvents, ThereEvents
    <3>2. /\ TellsGone(p) => TellsGone(p)' \/ p = gone
          /\ TellsThere(p) => TellsThere(p)' \/ p = dest
      BY <1>1, <3>1, TellingTail DEF IInv, TypeOK
    <3>3. /\ QueuedFor("catalog", p) => QueuedFor("catalog", p)'
          /\ QueuedFor("delete", p) => QueuedFor("delete", p)'
          /\ p = gone => QueuedFor("delete", p)'
      <4>1. CASE gone \in Catalogable
        <5>1. queue' = Append(queue, DeleteOf(gone)) /\ DeleteOf(gone) \in Event
          BY <1>3, <1>4, <4>1
        <5> QED
          BY <1>4, <5>1, QueuedAppend DEF DeleteOf
      <4>2. CASE gone \notin Catalogable
        BY <1>3, <4>2 DEF QueuedFor
      <4> QED
        BY <4>1, <4>2
    <3>4. DeleteOwed(p) => DeleteOwed(p)'
      BY <1>1, <3>2, <3>3 DEF DeleteOwed, QueuedFor
    <3>5. ToSchedule(p) => ToSchedule(p)'
      <4>1. CASE p = dest
        <5>1. obs' = [do |-> "schedule", path |-> p]
          BY <1>3, <4>1
        <5>2. obs' # Idle
          BY <5>1, IdleIsNothing
        <5>3. obs'.do = "schedule" /\ obs'.path = p
          BY <5>1
        <5> QED
          BY <5>2, <5>3 DEF ToSchedule
      <4>2. CASE p # dest
        BY <1>1, <3>2, <4>2 DEF ToSchedule
      <4> QED
        BY <4>1, <4>2
    <3>6. file[p] # 0 /\ Followed(queue, {DeleteOf(p)}, {CatalogOf(p)}) =>
             ToSchedule(p)' \/ Followed(queue', {DeleteOf(p)}, {CatalogOf(p)})
      <4>1. CASE p = gone
        BY <1>2, <1>3, <4>1 DEF ToSchedule
      <4>2. CASE p # gone /\ gone \in Catalogable
        <5>1. DeleteOf(gone) \notin {DeleteOf(p)}
          BY <4>2 DEF DeleteOf
        <5> QED
          BY <1>3, <1>4, <4>2, <5>1, AppendFollows
      <4>3. CASE gone \notin Catalogable
        BY <1>3, <4>3
      <4> QED
        BY <4>1, <4>2, <4>3
    <3> QED
      BY <3>3, <3>4, <3>5, <3>6
  <2> QED
    BY <1>1, <2>1, KeepOwed
<1> QED
  BY <1>5, <1>6, <1>7, <1>8 DEF IInv

LEMMA ScheduleDestStep == ASSUME IInv, ScheduleDest PROVE IInv'
<1>1. /\ obs # Idle /\ obs.do = "schedule" /\ obs' = Idle
      /\ UNCHANGED <<file, recorded, ops, missed, failed, faults, row, todo, watching,
                     crashes, raw, queue, worker>>
  BY DEF ScheduleDest, folder, startup, failures
<1>2. PICK dest \in Catalogable : dest = obs.path /\ Schedule(dest)
  BY <1>1 DEF ScheduleDest, IInv, TypeOK
<1>3. Arming = 1 /\ Arming' = 0 /\ Cardinality(Armed) < MaxOps /\ watching
  <2>1. Arming = 1 /\ Arming' = 0 /\ watching
    BY <1>1 DEF Arming, IInv, StartInv
  <2> QED
    BY <2>1, Counts
<1>4. /\ timer' \in [Timer -> [at : {"armed", "fired", "popped"}, path : Catalogable] \cup {Free}]
      /\ entry' \in [Catalogable -> Timer \cup {NoEntry}]
      /\ EntryInv' /\ Waits(dest)' /\ \A q \in Catalogable : Waits(q) => Waits(q)'
      /\ Cardinality(Armed') \in Nat /\ Cardinality(Armed') <= Cardinality(Armed) + 1
  BY <1>2, <1>3, Scheduled DEF IInv
<1>5. TypeOK' /\ StartInv'
  BY <1>1, <1>3, <1>4 DEF IInv, TypeOK, StartInv
<1>6. RoomInv'
  BY <1>1, <1>3, <1>4, Counts DEF RoomInv
<1>7. OrderInv'
  BY <1>1 DEF IInv, OrderInv
<1>8. OwedInv'
  <2>1. ASSUME NEW p \in Catalogable
        PROVE  /\ DeleteOwed(p) => DeleteOwed(p)'
               /\ ToSchedule(p) => ToSchedule(p)'
               /\ QueuedFor("catalog", p) => QueuedFor("catalog", p)'
    <3>1. Waits(p) => Waits(p)'
      BY <1>4
    <3>2. p = dest => ToSchedule(p)'
      BY <1>4 DEF ToSchedule, Waits
    <3>3. ToSchedule(p) => ToSchedule(p)'
      BY <1>1, <1>2, <3>1, <3>2 DEF ToSchedule, TellsThere, Waits
    <3> QED
      BY <1>1, <3>3 DEF DeleteOwed, TellsGone, QueuedFor
  <2> QED
    BY <1>1, <2>1, KeepOwed
<1> QED
  BY <1>4, <1>5, <1>6, <1>7, <1>8 DEF IInv

-----------------------------------------------------------------------------
(* The threads of the timers.                                              *)

LEMMA TimerThreadStep == ASSUME IInv, NEW t \in Timer, TimerThread(t) PROVE IInv'
<1>1. /\ UNCHANGED <<file, recorded, ops, missed, failed, faults, row, todo, watching,
                     crashes, raw, obs, worker>>
      /\ timer[t].at # "free"
  BY DEF TimerThread, Expire, Pop, PutCatalog, folder, startup, observer, failures
<1>2. timer[t] \in [at : {"armed", "fired", "popped"}, path : Catalogable] /\ timer[t] # Free
      /\ timer \in [Timer -> [at : {"armed", "fired", "popped"}, path : Catalogable] \cup {Free}]
  BY <1>1 DEF IInv, TypeOK, Free
<1>3. PICK p \in Catalogable : p = timer[t].path
  BY <1>2
<1>retouch. \A x : [timer EXCEPT ![t].at = x] = [timer EXCEPT ![t] = [at |-> x, path |-> timer[t].path]]
  <2>1. PICK old \in [at : {"armed", "fired", "popped"}, path : Catalogable] : old = timer[t]
    BY <1>2
  <2>2. \A x : [old EXCEPT !.at = x] = [at |-> x, path |-> old.path]
    OBVIOUS
  <2> QED
    BY <2>1, <2>2
<1>4. PICK u \in {"fired", "popped", "free"} :
         /\ u = "fired" => timer[t].at = "armed" /\ entry' = entry /\ queue' = queue
         /\ u = "popped" => entry' = [entry EXCEPT ![timer[t].path] = NoEntry] /\ queue' = queue
         /\ u = "free" => timer[t].at = "popped" /\ entry' = entry
                            /\ queue' = Append(queue, CatalogOf(p))
         /\ timer' = [timer EXCEPT ![t] = IF u = "free" THEN Free
                                          ELSE [at |-> u, path |-> timer[t].path]]
  <2>1. CASE Expire(t)
    <3>1. timer' = [timer EXCEPT ![t] = [at |-> "fired", path |-> timer[t].path]]
      BY <1>retouch, <2>1 DEF Expire
    <3>2. timer[t].at = "armed" /\ entry' = entry /\ queue' = queue
      BY <2>1 DEF Expire
    <3> QED
      BY <3>1, <3>2
  <2>2. CASE Pop(t)
    <3>1. timer' = [timer EXCEPT ![t] = [at |-> "popped", path |-> timer[t].path]]
      BY <1>retouch, <2>2 DEF Pop
    <3>2. entry' = [entry EXCEPT ![timer[t].path] = NoEntry] /\ queue' = queue
      BY <2>2 DEF Pop
    <3> QED
      BY <3>1, <3>2
  <2>3. CASE PutCatalog(t)
    BY <1>3, <2>3 DEF PutCatalog, CatalogOf
  <2> QED
    BY <2>1, <2>2, <2>3 DEF TimerThread
<1>5. /\ timer' \in [Timer -> [at : {"armed", "fired", "popped"}, path : Catalogable] \cup {Free}]
      /\ entry' \in [Catalogable -> Timer \cup {NoEntry}]
      /\ EntryInv' /\ Armed' \subseteq Armed
      /\ \A q \in Catalogable : Waits(q) => Waits(q)' \/ (u = "free" /\ q = p)
  <2>1. /\ u = "fired" => timer[t].at = "armed" /\ entry' = entry
        /\ u = "popped" => entry' = [entry EXCEPT ![timer[t].path] = NoEntry]
        /\ u = "free" => timer[t].at = "popped" /\ entry' = entry
        /\ timer' = [timer EXCEPT ![t] = IF u = "free" THEN Free
                                         ELSE [at |-> u, path |-> timer[t].path]]
    BY <1>4
  <2>2. TypeOK /\ EntryInv
    BY DEF IInv
  <2>3. /\ timer' \in [Timer -> [at : {"armed", "fired", "popped"}, path : Catalogable]
                                     \cup {Free}]
        /\ entry' \in [Catalogable -> Timer \cup {NoEntry}]
        /\ EntryInv' /\ Armed' \subseteq Armed
        /\ \A q \in Catalogable : Waits(q) => Waits(q)' \/ (u = "free" /\ q = timer[t].path)
    BY <1>2, <2>1, <2>2, TimerMoved
  <2> QED
    BY <1>3, <2>3
<1>6. queue \in Seq(Event) /\ queue' \in Seq(Event) /\ CatalogOf(p) \in Event
  <2>1. queue \in Seq(Event) /\ CatalogOf(p) \in Event
    BY DEF IInv, TypeOK, Event, CatalogOf
  <2>2. Append(queue, CatalogOf(p)) \in Seq(Event)
    BY <2>1, AppendAdds
  <2> QED
    BY <1>4, <2>1, <2>2
<1>7. watching
  BY <1>2 DEF IInv, StartInv
<1>8. TypeOK' /\ StartInv'
  BY <1>1, <1>5, <1>6, <1>7 DEF IInv, TypeOK, StartInv
<1>9. RoomInv'
  <2>1. Arming' = Arming
    BY <1>1 DEF Arming
  <2> QED
    BY <1>1, <1>5, <2>1, Counts, FewerArmed DEF RoomInv
<1>10. OrderInv'
  BY <1>1 DEF IInv, OrderInv, TellsThere
<1>11. OwedInv'
  <2>1. ASSUME NEW q \in Catalogable
        PROVE  /\ DeleteOwed(q) => DeleteOwed(q)'
               /\ ToSchedule(q) => ToSchedule(q)' \/ QueuedFor("catalog", q)'
               /\ QueuedFor("catalog", q) => QueuedFor("catalog", q)'
               /\ ToSchedule(q) \/ Followed(queue, {DeleteOf(q)}, {CatalogOf(q)}) =>
                     ToSchedule(q)' \/ Followed(queue', {DeleteOf(q)}, {CatalogOf(q)})
    <3>1. CASE u # "free"
      <4>1. Waits(q) => Waits(q)'
        BY <1>5, <3>1
      <4>2. ToSchedule(q) => ToSchedule(q)'
        BY <1>1, <4>1 DEF ToSchedule, TellsThere, Waits
      <4> QED
        BY <1>1, <1>4, <3>1, <4>2 DEF DeleteOwed, TellsGone, QueuedFor
    <3>2. CASE u = "free"
      <4>1. queue' = Append(queue, CatalogOf(p)) /\ CatalogOf(p) \notin {DeleteOf(q)}
        BY <1>4, <3>2 DEF CatalogOf, DeleteOf
      <4>2. /\ QueuedFor("catalog", q) => QueuedFor("catalog", q)'
            /\ QueuedFor("delete", q) => QueuedFor("delete", q)'
            /\ q = p => QueuedFor("catalog", q)'
        BY <1>6, <4>1, QueuedAppend DEF CatalogOf
      <4>3. DeleteOwed(q) => DeleteOwed(q)'
        BY <1>1, <4>2 DEF DeleteOwed, TellsGone, QueuedFor
      <4>4. q # p /\ ToSchedule(q) => ToSchedule(q)'
        <5>1. q # p /\ Waits(q) => Waits(q)'
          BY <1>5
        <5> QED
          BY <1>1, <5>1 DEF ToSchedule, TellsThere, Waits
      <4>5. q = p \/ Followed(queue, {DeleteOf(q)}, {CatalogOf(q)}) =>
               Followed(queue', {DeleteOf(q)}, {CatalogOf(q)})
        BY <1>6, <4>1, AppendFollows
      <4> QED
        BY <4>2, <4>3, <4>4, <4>5
    <3> QED
      BY <3>1, <3>2
  <2> QED
    BY <1>1, <2>1, KeepOwed
<1> QED
  BY <1>5, <1>8, <1>9, <1>10, <1>11 DEF IInv

-----------------------------------------------------------------------------
(* The folder.                                                             *)

\* A change behind the reconcile's back is missed; any other is told, in order.
LEMMA ChangeStep ==
    ASSUME IInv, NEW changed \in SUBSET Path, NEW event \in RawEvent,
           Change(changed, event), file' \in [Path -> Version], recorded' \subseteq Path,
           \A p \in Path \ changed :
              /\ file'[p] = file[p] /\ event \notin GoneEvents(p)
              /\ p \in recorded' <=> p \in recorded,
           \A p \in changed :
              IF file'[p] = 0 THEN event \in GoneEvents(p)
              ELSE event \in ThereEvents(p) /\ event \notin GoneEvents(p)
    PROVE  IInv'
<1>1. /\ UNCHANGED <<row, todo, watching, crashes, obs, timer, entry, queue, worker, faults>>
      /\ ops < MaxOps /\ ops' = ops + 1
      /\ raw' = IF watching THEN Append(raw, event) ELSE raw
      /\ missed' = IF watching THEN missed \ changed
                   ELSE missed \cup ((changed \cap Catalogable) \ todo)
      /\ failed' = IF watching THEN failed \ changed ELSE failed
  BY DEF Change, startup, timers
<1>2. raw \in Seq(RawEvent) /\ Append(raw, event) \in Seq(RawEvent)
      /\ Len(Append(raw, event)) = Len(raw) + 1
  BY DEF IInv, TypeOK
<1>3. Len(raw') \in Nat /\ Len(raw') <= Len(raw) + 1 /\ raw' \in Seq(RawEvent) /\ Len(raw) \in Nat
  <2>1. CASE watching
    BY <1>1, <1>2, <2>1
  <2>2. CASE ~watching
    BY <1>1, <1>2, <2>2
  <2> QED
    BY <2>1, <2>2
<1>4. TypeOK'
  <2>1. ops' \in Version
    BY <1>1, WatcherAssumption DEF IInv, TypeOK, Version
  <2>2. missed' \subseteq Catalogable /\ failed' \subseteq Catalogable
    BY <1>1 DEF IInv, TypeOK
  <2> QED
    BY <1>1, <1>3, <2>1, <2>2 DEF IInv, TypeOK
<1>5. StartInv' /\ EntryInv'
  BY <1>1 DEF IInv, StartInv, EntryInv
<1>6. RoomInv'
  <2>1. Arming' = Arming /\ Armed' = Armed
    BY <1>1 DEF Arming, Armed
  <2> QED
    BY <1>1, <1>3, <2>1, Counts DEF RoomInv
<1>7. CASE ~watching
  <2>1. /\ raw = <<>> /\ raw' = <<>> /\ obs' = Idle
        /\ missed' = missed \cup ((changed \cap Catalogable) \ todo)
    BY <1>1, <1>7 DEF IInv, StartInv
  <2>2. OrderInv'
    BY <2>1 DEF OrderInv, Followed
  <2>3. ASSUME NEW p \in Covered'
        PROVE  /\ p \in Covered /\ file'[p] = file[p]
               /\ Gone(p)' <=> Gone(p)
               /\ There(p)' <=> There(p)
               /\ Held(p)' <=> Held(p)
    <3>1. p \in Catalogable /\ p \in Path /\ p \notin todo /\ p \notin missed /\ p \notin changed
      BY <1>1, <2>1, <2>3, WatcherAssumption DEF Covered
    <3> QED
      BY <1>1, <1>7, <3>1 DEF Covered, Gone, There, Held, Mending
  <2>4. \A p : /\ DeleteOwed(p) <=> DeleteOwed(p)'
               /\ ToSchedule(p) <=> ToSchedule(p)'
               /\ file'[p] = file[p] => (CatalogOwed(p) <=> CatalogOwed(p)')
    BY <1>1, <2>1 DEF DeleteOwed, CatalogOwed, Mending, ToSchedule, TellsGone, TellsThere
  <2>5. OwedInv'
    BY <1>1, <2>3, <2>4 DEF IInv, OwedInv
  <2> QED
    BY <1>4, <1>5, <1>6, <2>2, <2>5 DEF IInv
<1>8. CASE watching
  <2>1. raw' = Append(raw, event) /\ missed' = missed \ changed /\ todo = {}
    BY <1>1, <1>8 DEF IInv, StartInv
  <2>2. \A p : /\ TellsGone(p)' <=> TellsGone(p) \/ event \in GoneEvents(p)
               /\ TellsThere(p)' <=> TellsThere(p) \/ event \in ThereEvents(p)
    BY <1>2, <2>1, TellingAppend
  <2>3. ASSUME NEW p \in Path, file'[p] # 0
        PROVE  Followed(raw', GoneEvents(p), ThereEvents(p))
    <3>1. CASE p \in changed
      BY <1>2, <2>1, <2>3, <3>1, AppendFollows
    <3>2. CASE p \notin changed
      <4>1. Followed(raw, GoneEvents(p), ThereEvents(p)) /\ event \notin GoneEvents(p)
        BY <2>3, <3>2 DEF IInv, OrderInv
      <4> QED
        BY <1>2, <2>1, <4>1, AppendFollows
    <3> QED
      BY <3>1, <3>2
  <2>4. ASSUME obs' # Idle, obs'.do = "delete", file'[obs'.path] # 0
        PROVE  TellsThere(obs.path)'
    <3>1. PICK p \in Path : p = obs.path /\ p = obs'.path
      BY <1>1, <2>4, WatcherAssumption DEF IInv, TypeOK
    <3>2. TellsThere(p)'
      <4>1. CASE p \in changed
        BY <2>2, <2>4, <3>1, <4>1
      <4>2. CASE p \notin changed
        <5>1. TellsThere(p)
          BY <1>1, <2>4, <3>1, <4>2 DEF IInv, OrderInv
        <5> QED
          BY <2>2, <5>1
      <4> QED
        BY <4>1, <4>2
    <3> QED
      BY <3>1, <3>2 DEF TellsThere
  <2>5. OrderInv'
    BY <2>3, <2>4 DEF OrderInv
  <2>6. ASSUME NEW p \in Covered'
        PROVE  /\ Gone(p)' /\ row'[p] # 0 => DeleteOwed(p)'
               /\ There(p)' /\ row'[p] # file'[p] => CatalogOwed(p)'
               /\ file'[p] # 0 =>
                     ToSchedule(p)' \/ Followed(queue', {DeleteOf(p)}, {CatalogOf(p)})
               /\ There(p)' /\ Held(p)' => CatalogOwed(p)'
    <3>1. p \in Path /\ p \in Catalogable
      BY WatcherAssumption DEF Covered
    <3>2. CASE p \in changed
      <4>1. file'[p] = 0 => DeleteOwed(p)'
        BY <2>2, <3>2 DEF DeleteOwed
      <4>2. file'[p] # 0 => ToSchedule(p)'
        BY <2>2, <3>2 DEF ToSchedule
      <4> QED
        BY <4>1, <4>2 DEF CatalogOwed, Gone, There
    <3>3. CASE p \notin changed
      <4>1. p \in Covered /\ file'[p] = file[p]
        BY <2>1, <3>1, <3>3 DEF Covered
      <4>2. DeleteOwed(p) => DeleteOwed(p)'
        BY <1>1, <2>2 DEF DeleteOwed
      <4>3. ToSchedule(p) => ToSchedule(p)'
        BY <1>1, <2>2 DEF ToSchedule
      <4>4. CatalogOwed(p) => CatalogOwed(p)'
        BY <1>1, <4>1, <4>3 DEF CatalogOwed, Mending
      <4>5. /\ Gone(p)' <=> Gone(p)
            /\ There(p)' <=> There(p)
            /\ Held(p)' <=> Held(p)
        BY <1>1, <1>8, <3>1, <3>3, <4>1 DEF Gone, There, Held, Mending
      <4> QED
        BY <1>1, <4>1, <4>2, <4>3, <4>4, <4>5 DEF IInv, OwedInv
    <3> QED
      BY <3>2, <3>3
  <2>7. OwedInv'
    BY <2>6 DEF OwedInv, DeleteOf, CatalogOf
  <2> QED
    BY <1>4, <1>5, <1>6, <2>5, <2>7 DEF IInv
<1> QED
  BY <1>7, <1>8

LEMMA WriteStep == ASSUME IInv, NEW p \in Path, NEW rec \in BOOLEAN, Write(p, rec) PROVE IInv'
<1> DEFINE event == [kind |-> "changed", path |-> p]
<1>1. event \in RawEvent /\ event \in ThereEvents(p) /\ \A q : event \notin GoneEvents(q)
  BY DEF RawEvent, ThereEvents, GoneEvents
<1>2. ops + 1 \in Version /\ ops + 1 # 0 /\ file \in [Path -> Version]
  BY WatcherAssumption DEF Write, Change, IInv, TypeOK, Version
<1>3. file' \in [Path -> Version] /\ file'[p] # 0 /\ \A q \in Path \ {p} : file'[q] = file[q]
  BY <1>2 DEF Write
<1>4. Change({p}, event)
  BY DEF Write
<1>5. /\ recorded' \subseteq Path
      /\ \A r \in Path \ {p} : r \in recorded' <=> r \in recorded
  BY DEF Write, IInv, TypeOK
<1> HIDE DEF event
<1> QED
  BY <1>1, <1>3, <1>4, <1>5, ChangeStep

LEMMA UnlinkStep == ASSUME IInv, NEW p \in Path, Unlink(p) PROVE IInv'
<1> DEFINE event == [kind |-> "deleted", path |-> p]
<1>1. event \in RawEvent /\ event \in GoneEvents(p) /\ \A q : q # p => event \notin GoneEvents(q)
  BY DEF RawEvent, GoneEvents
<1>2. 0 \in Version /\ file \in [Path -> Version]
  BY WatcherAssumption DEF IInv, TypeOK, Version
<1>3. file' \in [Path -> Version] /\ file'[p] = 0 /\ \A q \in Path \ {p} : file'[q] = file[q]
  BY <1>2 DEF Unlink
<1>4. Change({p}, event)
  BY DEF Unlink
<1>5. /\ recorded' \subseteq Path
      /\ \A r \in Path \ {p} : r \in recorded' <=> r \in recorded
  BY DEF Unlink, IInv, TypeOK
<1> HIDE DEF event
<1> QED
  BY <1>1, <1>3, <1>4, <1>5, ChangeStep

LEMMA MoveStep == ASSUME IInv, NEW p \in Path, NEW q \in Path, Move(p, q) PROVE IInv'
<1> DEFINE event == [kind |-> "moved", path |-> p, dest |-> q]
<1>1. /\ event \in RawEvent /\ event \in GoneEvents(p) /\ event \in ThereEvents(q)
      /\ \A r : r # p => event \notin GoneEvents(r)
  BY DEF RawEvent, GoneEvents, ThereEvents
<1>2. 0 \in Version /\ ops + 1 \in Version /\ ops + 1 # 0 /\ file \in [Path -> Version] /\ p # q
  BY WatcherAssumption DEF Move, Change, IInv, TypeOK, Version
<1>3. /\ file' \in [Path -> Version] /\ file'[p] = 0 /\ file'[q] # 0
      /\ \A r \in Path \ {p, q} : file'[r] = file[r]
  BY <1>2 DEF Move
<1>4. Change({p, q}, event)
  BY DEF Move
<1>5. /\ recorded' \subseteq Path
      /\ \A r \in Path \ {p, q} : r \in recorded' <=> r \in recorded
  BY DEF Move, IInv, TypeOK
<1> HIDE DEF event
<1> QED
  BY <1>1, <1>2, <1>3, <1>4, <1>5, ChangeStep

-----------------------------------------------------------------------------
(* The worker.                                                             *)

\* What the worker leaves alone, and what it must show.
LEMMA WorkerKeeps ==
    ASSUME IInv, watching, UNCHANGED <<folder, startup, observer, timers>>,
           row' \in [Path -> Version], queue' \in Seq(Event), worker' \in Job \cup {Idle},
           failed \subseteq failed', failed' \subseteq Catalogable, faults' \in 0..MaxFaults,
           \A p \in Covered :
              /\ Gone(p)' /\ row'[p] # 0 => DeleteOwed(p)'
              /\ There(p)' /\ row'[p] # file[p] => CatalogOwed(p)'
              /\ Followed(queue, {DeleteOf(p)}, {CatalogOf(p)}) =>
                    Followed(queue', {DeleteOf(p)}, {CatalogOf(p)})
              /\ There(p)' /\ Held(p)' => CatalogOwed(p)'
    PROVE  IInv'
<1>1. UNCHANGED <<file, recorded, ops, missed, todo, watching, crashes, raw, obs, timer, entry>>
  BY DEF folder, startup, observer, timers
<1>2. TypeOK' /\ StartInv' /\ EntryInv'
  BY <1>1 DEF IInv, TypeOK, StartInv, EntryInv
<1>3. RoomInv'
  BY <1>1 DEF IInv, RoomInv, Arming, Armed
<1>4. OrderInv'
  BY <1>1 DEF IInv, OrderInv, TellsThere
<1>5. Covered' = Covered /\ \A p : ToSchedule(p) => ToSchedule(p)'
  BY <1>1 DEF Covered, ToSchedule, TellsThere
<1>6. OwedInv'
  <2> SUFFICES ASSUME NEW p \in Covered
               PROVE  /\ Gone(p)' /\ row'[p] # 0 => DeleteOwed(p)'
                      /\ There(p)' /\ row'[p] # file'[p] => CatalogOwed(p)'
                      /\ file'[p] # 0 =>
                            ToSchedule(p)' \/ Followed(queue', {DeleteOf(p)}, {CatalogOf(p)})
                      /\ There(p)' /\ Held(p)' => CatalogOwed(p)'
    BY <1>5 DEF OwedInv, DeleteOf, CatalogOf
  <2>1. file[p] # 0 => ToSchedule(p) \/ Followed(queue, {DeleteOf(p)}, {CatalogOf(p)})
    BY DEF IInv, OwedInv
  <2> QED
    BY <1>1, <1>5, <2>1
<1> QED
  BY <1>2, <1>3, <1>4, <1>6 DEF IInv

\* What a failure adds, and what no failure leaves alone.
LEMMA Failing ==
    ASSUME IInv, NEW p \in Catalogable,
           Fails(p) \/ (Fault /\ UNCHANGED failed) \/ UNCHANGED failures
    PROVE  /\ failed \subseteq failed' /\ failed' \subseteq Catalogable
           /\ faults' \in 0..MaxFaults
           /\ Fails(p) => p \in failed'
<1>1. MaxFaults \in Nat /\ faults \in 0..MaxFaults /\ failed \subseteq Catalogable
  BY WatcherAssumption DEF IInv, TypeOK
<1> QED
  BY <1>1 DEF Fails, Fault, failures

\* A path that is promised after a step of the worker was promised before.
LEMMA Promised ==
    ASSUME UNCHANGED <<file, recorded>>, failed \subseteq failed', NEW p
    PROVE  /\ Gone(p)' => Gone(p) /\ p \notin failed'
           /\ There(p)' => There(p) /\ p \notin failed'
           /\ There(p) => file[p] # 0
BY DEF Gone, There

\* Taking an event off the queue: what it was, and what stays behind it.
LEMMA Taken ==
    ASSUME IInv, queue # <<>>, queue' = Tail(queue), UNCHANGED <<folder, startup, observer,
                           timers>>
    PROVE  /\ watching /\ queue' \in Seq(Event) /\ Head(queue) \in Event
           /\ \A p : /\ QueuedFor("delete", p) => QueuedFor("delete", p)' \/ Head(queue) = DeleteOf(p)
                     /\ QueuedFor("catalog", p) => QueuedFor("catalog", p)' \/ Head(queue) = CatalogOf(p)
                     /\ Followed(queue, {DeleteOf(p)}, {CatalogOf(p)}) =>
                           /\ Followed(queue', {DeleteOf(p)}, {CatalogOf(p)})
                           /\ Head(queue) = DeleteOf(p) => QueuedFor("catalog", p)'
<1>1. queue \in Seq(Event)
  BY DEF IInv, TypeOK
<1>2. /\ queue' \in Seq(Event) /\ Head(queue) \in Event
      /\ ToSet(queue) = ToSet(queue') \cup {Head(queue)}
  BY <1>1, TailLeaves
<1>3. watching
  BY DEF IInv, StartInv
<1>4. ASSUME NEW kind, NEW p, QueuedFor(kind, p)
      PROVE  QueuedFor(kind, p)' \/ Head(queue) = [kind |-> kind, path |-> p]
  <2>1. PICK e \in ToSet(queue) : e.kind = kind /\ e.path = p
    BY <1>4 DEF QueuedFor
  <2>2. e = Head(queue) \/ e \in ToSet(queue')
    BY <1>2
  <2>3. Head(queue) = [kind |-> Head(queue).kind, path |-> Head(queue).path]
    BY <1>2 DEF Event
  <2> QED
    BY <2>1, <2>2, <2>3 DEF QueuedFor
<1>5. ASSUME NEW p, Followed(queue, {DeleteOf(p)}, {CatalogOf(p)})
      PROVE  /\ Followed(queue', {DeleteOf(p)}, {CatalogOf(p)})
             /\ Head(queue) = DeleteOf(p) => QueuedFor("catalog", p)'
  <2>1. /\ Followed(queue', {DeleteOf(p)}, {CatalogOf(p)})
        /\ Head(queue) = DeleteOf(p) => CatalogOf(p) \in ToSet(queue')
    BY <1>1, <1>5, TailFollows
  <2> QED
    BY <2>1 DEF QueuedFor, CatalogOf
<1> QED
  BY <1>2, <1>3, <1>4, <1>5 DEF DeleteOf, CatalogOf

LEMMA DeleteStep == ASSUME IInv, Delete PROVE IInv'
<1>1. /\ worker = Idle /\ worker' = Idle /\ queue # <<>> /\ queue' = Tail(queue)
      /\ UNCHANGED <<folder, startup, observer, timers, failures>>
      /\ UNCHANGED <<file, recorded, raw, obs, timer, failed>>
  BY DEF Delete, folder, observer, timers, failures
<1>2. /\ watching /\ queue' \in Seq(Event) /\ Head(queue) \in Event
      /\ \A p : /\ QueuedFor("delete", p) => QueuedFor("delete", p)' \/ Head(queue) = DeleteOf(p)
                /\ QueuedFor("catalog", p) => QueuedFor("catalog", p)' \/ Head(queue) = CatalogOf(p)
                /\ Followed(queue, {DeleteOf(p)}, {CatalogOf(p)}) =>
                      /\ Followed(queue', {DeleteOf(p)}, {CatalogOf(p)})
                      /\ Head(queue) = DeleteOf(p) => QueuedFor("catalog", p)'
  BY <1>1, Taken
<1>3. PICK gone \in Catalogable : Head(queue) = DeleteOf(gone)
  BY <1>2 DEF Delete, Event, DeleteOf
<1>4. /\ row \in [Path -> Version] /\ row' = [row EXCEPT ![gone] = 0] /\ 0 \in Version
      /\ gone \in Path
  <2>1. Head(queue).path = gone
    BY <1>3 DEF DeleteOf
  <2>2. row' = [row EXCEPT ![gone] = 0]
    BY <2>1 DEF Delete
  <2> QED
    BY <2>2, WatcherAssumption DEF IInv, TypeOK, Version
<1>5. ASSUME NEW p \in Covered
      PROVE  /\ Gone(p)' /\ row'[p] # 0 => DeleteOwed(p)'
             /\ There(p)' /\ row'[p] # file[p] => CatalogOwed(p)'
             /\ ~Held(p)'
  <2>1. p \in Path /\ (ToSchedule(p) => ToSchedule(p)')
    BY <1>1, WatcherAssumption DEF Covered, ToSchedule, TellsThere
  <2>2. /\ Gone(p) /\ row[p] # 0 => DeleteOwed(p)
        /\ There(p) /\ row[p] # file[p] => CatalogOwed(p)
        /\ file[p] # 0 => ToSchedule(p) \/ Followed(queue, {DeleteOf(p)}, {CatalogOf(p)})
    BY DEF IInv, OwedInv
  <2>5. /\ Gone(p)' => Gone(p)
        /\ There(p)' => There(p) /\ file[p] # 0
        /\ ~Held(p)'
    BY <1>1, Promised DEF Held
  <2>3. CASE p = gone
    <3>1. row'[p] = 0
      BY <1>4, <2>3
    <3>2. file[p] # 0 => ToSchedule(p)' \/ QueuedFor("catalog", p)'
      BY <1>2, <1>3, <2>1, <2>2, <2>3
    <3> QED
      BY <2>5, <3>1, <3>2 DEF CatalogOwed, QueuedFor
  <2>4. CASE p # gone
    <3>1. row'[p] = row[p]
      BY <1>4, <2>1, <2>4
    <3>2. Head(queue) # DeleteOf(p) /\ Head(queue) # CatalogOf(p)
      BY <1>3, <2>4 DEF DeleteOf, CatalogOf
    <3>3. DeleteOwed(p) => DeleteOwed(p)'
      BY <1>1, <1>2, <3>2 DEF DeleteOwed, TellsGone, QueuedFor
    <3>4. CatalogOwed(p) => CatalogOwed(p)'
      BY <1>1, <1>2, <2>1, <3>2 DEF CatalogOwed, Mending, QueuedFor
    <3> QED
      BY <2>2, <2>5, <3>1, <3>3, <3>4
  <2> QED
    BY <2>3, <2>4
<1>6. row' \in [Path -> Version]
  BY <1>4
<1> QED
  BY <1>1, <1>2, <1>3, <1>5, <1>6, Failing, WorkerKeeps

LEMMA TakeCatalogStep == ASSUME IInv, TakeCatalog PROVE IInv'
<1>1. /\ worker = Idle /\ queue # <<>> /\ queue' = Tail(queue) /\ row' = row
      /\ UNCHANGED <<folder, startup, observer, timers, failures>>
      /\ UNCHANGED <<file, recorded, raw, obs, timer, failed>>
  BY DEF TakeCatalog, folder, observer, timers, failures
<1>2. /\ watching /\ queue' \in Seq(Event) /\ Head(queue) \in Event
      /\ \A p : /\ QueuedFor("delete", p) => QueuedFor("delete", p)' \/ Head(queue) = DeleteOf(p)
                /\ QueuedFor("catalog", p) => QueuedFor("catalog", p)' \/ Head(queue) = CatalogOf(p)
                /\ Followed(queue, {DeleteOf(p)}, {CatalogOf(p)}) =>
                      Followed(queue', {DeleteOf(p)}, {CatalogOf(p)})
  BY <1>1, Taken
<1>3. PICK q \in Catalogable :
         /\ Head(queue) = CatalogOf(q) /\ \A p : Head(queue) # DeleteOf(p)
         /\ worker' = IF file[q] = 0 THEN Idle ELSE [at |-> "look", path |-> q, seen |-> file[q]]
  <2>1. Head(queue).kind = "catalog" /\ Head(queue).path \in Catalogable
        /\ Head(queue) = CatalogOf(Head(queue).path)
    BY <1>2 DEF TakeCatalog, Event, CatalogOf
  <2>2. \A p : Head(queue) # DeleteOf(p)
    BY <2>1 DEF DeleteOf
  <2> QED
    BY <2>1, <2>2 DEF TakeCatalog
<1>4. /\ worker' \in Job \cup {Idle}
      /\ worker' # Idle => worker'.at = "look" /\ worker'.path = q /\ worker'.seen = file[q]
      /\ file[q] # 0 => worker' # Idle
  <2>1. file[q] \in Version
    BY WatcherAssumption DEF IInv, TypeOK
  <2> QED
    BY <1>3, <2>1, IdleIsNothing DEF Job
<1>5. ASSUME NEW p \in Covered
      PROVE  /\ Gone(p)' /\ row'[p] # 0 => DeleteOwed(p)'
             /\ There(p)' /\ row'[p] # file[p] => CatalogOwed(p)'
             /\ ~Held(p)'
  <2>1. ToSchedule(p) => ToSchedule(p)'
    BY <1>1 DEF ToSchedule, TellsThere
  <2>2. /\ Gone(p) /\ row[p] # 0 => DeleteOwed(p)
        /\ There(p) /\ row[p] # file[p] => CatalogOwed(p)
    BY DEF IInv, OwedInv
  <2>3. DeleteOwed(p) => DeleteOwed(p)'
    BY <1>1, <1>2, <1>3 DEF DeleteOwed, TellsGone, QueuedFor
  <2>4. file[p] # 0 /\ CatalogOwed(p) => CatalogOwed(p)'
    <3>1. CatalogOwed(p) => ToSchedule(p) \/ QueuedFor("catalog", p)
      BY <1>1 DEF CatalogOwed, Mending, QueuedFor
    <3>2. CASE p = q
      BY <1>1, <1>4, <3>2 DEF CatalogOwed, Mending
    <3>3. CASE p # q
      <4>1. Head(queue) # CatalogOf(p)
        BY <1>3, <3>3 DEF CatalogOf
      <4> QED
        BY <1>2, <2>1, <3>1, <4>1 DEF CatalogOwed, QueuedFor
    <3> QED
      BY <3>2, <3>3
  <2>5. /\ Gone(p)' => Gone(p)
        /\ There(p)' => There(p) /\ file[p] # 0
    BY <1>1, Promised
  <2>6. ~Held(p)'
    BY <1>1, <1>4 DEF Held, Mending
  <2> QED
    BY <1>1, <2>2, <2>3, <2>4, <2>5, <2>6
<1>6. row' \in [Path -> Version]
  BY <1>1 DEF IInv, TypeOK
<1> QED
  BY <1>1, <1>2, <1>3, <1>4, <1>5, <1>6, Failing, WorkerKeeps

\* An event that meets a failure is dropped: its path is promised nothing more.
LEMMA DropStep ==
    ASSUME IInv, worker = Idle, worker' = Idle, queue # <<>>, queue' = Tail(queue),
           row' = row, Fails(Head(queue).path),
           UNCHANGED <<folder, startup, observer, timers>>
    PROVE  IInv'
<1>1. UNCHANGED <<file, recorded, raw, obs, timer>>
  BY DEF folder, observer, timers
<1>2. /\ watching /\ queue' \in Seq(Event) /\ Head(queue) \in Event
      /\ \A p : /\ QueuedFor("delete", p) => QueuedFor("delete", p)' \/ Head(queue) = DeleteOf(p)
                /\ QueuedFor("catalog", p) => QueuedFor("catalog", p)' \/ Head(queue) = CatalogOf(p)
                /\ Followed(queue, {DeleteOf(p)}, {CatalogOf(p)}) =>
                      Followed(queue', {DeleteOf(p)}, {CatalogOf(p)})
  BY Taken
<1>3. PICK q \in Catalogable : q = Head(queue).path
  BY <1>2 DEF Event
<1>4. /\ failed \subseteq failed' /\ failed' \subseteq Catalogable /\ q \in failed'
      /\ faults' \in 0..MaxFaults
  BY <1>3, Failing
<1>5. ASSUME NEW p \in Covered
      PROVE  /\ Gone(p)' /\ row'[p] # 0 => DeleteOwed(p)'
             /\ There(p)' /\ row'[p] # file[p] => CatalogOwed(p)'
             /\ ~Held(p)'
  <2>1. /\ Gone(p) /\ row[p] # 0 => DeleteOwed(p)
        /\ There(p) /\ row[p] # file[p] => CatalogOwed(p)
    BY DEF IInv, OwedInv
  <2>2. /\ Gone(p)' => Gone(p) /\ p # q
        /\ There(p)' => There(p) /\ p # q
    BY <1>1, <1>4, Promised
  <2>3. p # q => Head(queue) # DeleteOf(p) /\ Head(queue) # CatalogOf(p)
    BY <1>3 DEF DeleteOf, CatalogOf
  <2>4. p # q /\ DeleteOwed(p) => DeleteOwed(p)'
    BY <1>1, <1>2, <2>3 DEF DeleteOwed, TellsGone, QueuedFor
  <2>5. p # q /\ CatalogOwed(p) => CatalogOwed(p)'
    <3>1. ToSchedule(p) => ToSchedule(p)'
      BY <1>1 DEF ToSchedule, TellsThere
    <3> QED
      BY <1>2, <2>3, <3>1 DEF CatalogOwed, Mending, QueuedFor
  <2> QED
    BY <2>1, <2>2, <2>4, <2>5 DEF Held
<1>6. row' \in [Path -> Version]
  BY DEF IInv, TypeOK
<1> QED
  BY <1>2, <1>4, <1>5, <1>6, WorkerKeeps

\* The worker gives up the event it holds, whatever it has done to its row.
LEMMA GiveUpStep ==
    ASSUME IInv, NEW q \in Catalogable, worker # Idle, worker.path = q, worker' = Idle,
           Fails(q), row' \in [Path -> Version], \A p \in Path \ {q} : row'[p] = row[p],
           UNCHANGED <<folder, startup, observer, timers, queue>>
    PROVE  IInv'
<1>1. UNCHANGED <<file, recorded, raw, obs, timer>>
  BY DEF folder, observer, timers
<1>2. watching /\ queue' \in Seq(Event)
  BY DEF IInv, StartInv, TypeOK
<1>3. /\ failed \subseteq failed' /\ failed' \subseteq Catalogable /\ q \in failed'
      /\ faults' \in 0..MaxFaults
  BY Failing
<1>4. ASSUME NEW p \in Covered
      PROVE  /\ Gone(p)' /\ row'[p] # 0 => DeleteOwed(p)'
             /\ There(p)' /\ row'[p] # file[p] => CatalogOwed(p)'
             /\ ~Held(p)'
  <2>1. /\ Gone(p) /\ row[p] # 0 => DeleteOwed(p)
        /\ There(p) /\ row[p] # file[p] => CatalogOwed(p)
    BY DEF IInv, OwedInv
  <2>2. /\ Gone(p)' => Gone(p) /\ p # q
        /\ There(p)' => There(p) /\ p # q
    BY <1>1, <1>3, Promised
  <2>3. p # q => row'[p] = row[p]
    BY WatcherAssumption DEF Covered
  <2>4. DeleteOwed(p) => DeleteOwed(p)'
    BY <1>1 DEF DeleteOwed, TellsGone
  <2>5. p # q /\ CatalogOwed(p) => CatalogOwed(p)'
    <3>1. ToSchedule(p) => ToSchedule(p)'
      BY <1>1 DEF ToSchedule, TellsThere
    <3> QED
      BY <3>1 DEF CatalogOwed, Mending
  <2> QED
    BY <2>1, <2>2, <2>3, <2>4, <2>5 DEF Held
<1> QED
  BY <1>2, <1>3, <1>4, WorkerKeeps

\* The worker goes on with the event it holds, or is done with it, and writes
\* no row.
LEMMA HoldStep ==
    ASSUME IInv, NEW q \in Catalogable, worker # Idle, worker.path = q,
           worker' \in Job \cup {Idle}, worker' # Idle => worker'.path = q,
           There(q) => (Mending(q) => Mending(q)') /\ (Held(q)' => Held(q)),
           Fault \/ UNCHANGED faults,
           UNCHANGED <<folder, row, startup, observer, timers, queue, failed>>
    PROVE  IInv'
<1>1. UNCHANGED <<file, recorded, raw, obs, timer>>
  BY DEF folder, observer, timers
<1>2. watching /\ queue' \in Seq(Event) /\ row' \in [Path -> Version]
  BY DEF IInv, StartInv, TypeOK
<1>3. failed \subseteq failed' /\ failed' \subseteq Catalogable /\ faults' \in 0..MaxFaults
  BY Failing DEF failures
<1>4. ASSUME NEW p \in Covered
      PROVE  /\ Gone(p)' /\ row'[p] # 0 => DeleteOwed(p)'
             /\ There(p)' /\ row'[p] # file[p] => CatalogOwed(p)'
             /\ There(p)' /\ Held(p)' => CatalogOwed(p)'
  <2>1. /\ Gone(p) /\ row[p] # 0 => DeleteOwed(p)
        /\ There(p) /\ row[p] # file[p] => CatalogOwed(p)
        /\ There(p) /\ Held(p) => CatalogOwed(p)
    BY DEF IInv, OwedInv
  <2>2. /\ Gone(p)' => Gone(p)
        /\ There(p)' => There(p)
    BY <1>1, <1>3, Promised
  <2>3. DeleteOwed(p) => DeleteOwed(p)'
    BY <1>1 DEF DeleteOwed, TellsGone
  <2>4. There(p) => (Mending(p) => Mending(p)') /\ (Held(p)' => Held(p))
    <3>1. CASE p = q
      BY <3>1
    <3>2. CASE p # q
      BY <3>2 DEF Mending, Held
    <3> QED
      BY <3>1, <3>2
  <2>5. There(p) /\ CatalogOwed(p) => CatalogOwed(p)'
    <3>1. ToSchedule(p) => ToSchedule(p)'
      BY <1>1 DEF ToSchedule, TellsThere
    <3> QED
      BY <2>4, <3>1 DEF CatalogOwed
  <2> QED
    BY <2>1, <2>2, <2>3, <2>4, <2>5
<1> QED
  BY <1>2, <1>3, <1>4, WorkerKeeps

\* The event the worker holds.
LEMMA JobInHand ==
    ASSUME IInv, worker # Idle
    PROVE  /\ worker \in Job /\ worker.path \in Catalogable /\ worker.seen \in Version
           /\ worker = [at |-> worker.at, path |-> worker.path, seen |-> worker.seen]
           /\ \A s \in {"look", "resolve", "own", "other"}, v \in Version :
                 [at |-> s, path |-> worker.path, seen |-> v] \in Job
BY DEF IInv, TypeOK, Job

LEMMA LookStep == ASSUME IInv, Unstable \/ Stat PROVE IInv'
<1>1. /\ worker # Idle
      /\ UNCHANGED <<row, queue, folder, startup, observer, timers, failed, faults, file>>
  BY DEF Unstable, Stat, WorkerAt, failures, folder
<1>2. PICK q \in Catalogable : q = worker.path /\ file[q] \in Version
  BY <1>1, JobInHand, WatcherAssumption DEF IInv, TypeOK
<1>3. CASE Unstable
  <2>1. worker' = Idle /\ ~Mending(q) /\ ~Held(q)'
    BY <1>2, <1>3 DEF Unstable, Mending, Held
  <2> QED
    BY <1>1, <1>2, <2>1, HoldStep
<1>4. CASE Stat
  <2>1. worker' = IF file[q] = 0 THEN Idle
                  ELSE [at |-> "resolve", path |-> q, seen |-> file[q]]
    <3>1. PICK w : w = [worker EXCEPT !.at = "resolve"]
      OBVIOUS
    <3>2. w = [at |-> "resolve", path |-> q, seen |-> worker.seen]
      BY <1>1, <1>2, <3>1, JobInHand
    <3>3. [w EXCEPT !.seen = file[q]] = [at |-> "resolve", path |-> q, seen |-> file[q]]
      BY <3>2
    <3> QED
      BY <1>2, <1>4, <3>1, <3>3 DEF Stat
  <2>2. worker' \in Job \cup {Idle} /\ (worker' # Idle => worker'.path = q)
    BY <1>1, <1>2, <2>1, JobInHand
  <2>3. ASSUME file[q] # 0 PROVE Mending(q)' /\ ~Held(q)'
    <3>1. worker'.at = "resolve" /\ worker'.path = q /\ worker'.seen = file[q]
      BY <2>1, <2>3
    <3>2. worker' # Idle
      BY <3>1 DEF Idle
    <3>3. file'[q] = file[q]
      BY <1>1
    <3> QED
      BY <3>1, <3>2, <3>3 DEF Mending, Held
  <2> QED
    BY <1>1, <1>2, <2>2, <2>3, HoldStep DEF There
<1> QED
  BY <1>3, <1>4

LEMMA ResolveStep == ASSUME IInv, Resolve \/ RecordFails PROVE IInv'
<1>1. /\ worker # Idle /\ worker.at = "resolve"
      /\ UNCHANGED <<row, queue, folder, startup, observer, timers, failed, file>>
      /\ Fault \/ UNCHANGED faults
  BY DEF Resolve, RecordFails, WorkerAt, failures, folder
<1>2. PICK q \in Catalogable : q = worker.path
  BY <1>1, JobInHand
<1>3. PICK s \in {"own", "other"} :
         /\ worker' = [at |-> s, path |-> q, seen |-> worker.seen]
         /\ s = "other" => q \in recorded
         /\ q \notin recorded => s = "own"
  <2>1. \A s : [worker EXCEPT !.at = s] = [at |-> s, path |-> q, seen |-> worker.seen]
    BY <1>1, <1>2, JobInHand
  <2> QED
    BY <1>2, <2>1 DEF Resolve, RecordFails
<1>4. worker' \in Job /\ worker' # Idle /\ worker'.path = q
  BY <1>1, <1>2, <1>3, JobInHand, IdleIsNothing
<1>5. There(q) => (Mending(q) <=> Mending(q)') /\ (Held(q)' <=> Held(q))
  BY <1>1, <1>2, <1>3, <1>4 DEF There, Mending, Held
<1> QED
  BY <1>1, <1>2, <1>4, <1>5, HoldStep

LEMMA CatalogOtherStep == ASSUME IInv, CatalogOther PROVE IInv'
<1>1. /\ worker # Idle /\ worker.at = "other" /\ worker' = Idle
      /\ UNCHANGED <<row, queue, folder, startup, observer, timers, failed, faults>>
  BY DEF CatalogOther, WorkerAt, failures
<1>2. PICK q \in Catalogable : q = worker.path
  BY <1>1, JobInHand
<1>3. ~Mending(q) /\ ~Held(q)'
  BY <1>1 DEF Mending, Held
<1> QED
  BY <1>1, <1>2, <1>3, HoldStep

LEMMA CatalogStep == ASSUME IInv, Catalog PROVE IInv'
<1>1. PICK q \in Catalogable, seen \in Version : worker # Idle /\ q = worker.path /\ seen = worker.seen
  BY JobInHand DEF Catalog, WorkerAt
<1>2. /\ UNCHANGED <<queue, folder, startup, observer, timers, failures>>
      /\ UNCHANGED <<file, recorded, raw, obs, timer, failed>> /\ worker' = Idle
  BY DEF Catalog, folder, observer, timers, failures
<1>3. /\ row \in [Path -> Version] /\ q \in Path /\ 0 \in Version
      /\ row' = [row EXCEPT ![q] = IF row[q] # seen /\ file[q] = 0 THEN 0 ELSE seen]
  BY <1>1, WatcherAssumption DEF Catalog, IInv, TypeOK, Version
<1>4. watching
  BY <1>1 DEF IInv, StartInv
<1>5. ASSUME NEW p \in Covered
      PROVE  /\ Gone(p)' /\ row'[p] # 0 => DeleteOwed(p)'
             /\ There(p)' /\ row'[p] # file[p] => CatalogOwed(p)'
             /\ ~Held(p)'
  <2>1. p \in Path /\ (ToSchedule(p) => ToSchedule(p)')
    BY <1>2, WatcherAssumption DEF Covered, ToSchedule, TellsThere
  <2>2. /\ Gone(p) /\ row[p] # 0 => DeleteOwed(p)
        /\ There(p) /\ row[p] # file[p] => CatalogOwed(p)
        /\ There(p) /\ Held(p) => CatalogOwed(p)
    BY DEF IInv, OwedInv
  <2>3. /\ Gone(p)' => Gone(p) /\ file[p] = 0
        /\ There(p)' => There(p)
        /\ ~Held(p)'
    BY <1>2, Promised DEF Held, Gone
  <2>4. DeleteOwed(p) => DeleteOwed(p)'
    BY <1>2 DEF DeleteOwed, TellsGone
  <2>5. CatalogOwed(p) /\ ~Mending(p) => CatalogOwed(p)'
    BY <1>2, <2>1 DEF CatalogOwed, QueuedFor
  <2>6. CASE p = q
    <3>1. row'[p] = IF row[p] # seen /\ file[p] = 0 THEN 0 ELSE seen
      BY <1>3, <2>6
    <3>2. Gone(p)' /\ row'[p] # 0 => DeleteOwed(p)'
      BY <2>2, <2>3, <2>4, <3>1
    <3>3. There(p) /\ row'[p] # file[p] => ~Mending(p) /\ Held(p)
      BY <1>1, <2>6, <3>1 DEF Mending, Held, There
    <3> QED
      BY <2>2, <2>3, <2>5, <3>2, <3>3
  <2>7. CASE p # q
    <3>1. row'[p] = row[p]
      BY <1>3, <2>1, <2>7
    <3>2. ~Mending(p)
      BY <1>1, <2>7 DEF Mending
    <3> QED
      BY <2>2, <2>3, <2>4, <2>5, <3>1, <3>2
  <2> QED
    BY <2>6, <2>7
<1>6. row' \in [Path -> Version] /\ queue' \in Seq(Event) /\ queue' = queue
  BY <1>2, <1>3 DEF IInv, TypeOK
<1> QED
  BY <1>1, <1>2, <1>4, <1>5, <1>6, Failing, WorkerKeeps

LEMMA EventFailureStep ==
    ASSUME IInv, LookFails \/ RecordFails \/ CatalogFails \/ DeleteFails
    PROVE  IInv'
<1>1. CASE LookFails /\ worker = Idle
  <2>1. /\ queue # <<>> /\ queue' = Tail(queue) /\ worker' = worker /\ Fails(Head(queue).path)
        /\ UNCHANGED <<folder, row, startup, observer, timers>>
    BY <1>1 DEF LookFails, WorkerAt
  <2> QED
    BY <1>1, <2>1, DropStep
<1>2. CASE LookFails /\ worker # Idle
  <2>1. /\ worker' = Idle /\ Fails(worker.path)
        /\ UNCHANGED <<folder, row, startup, observer, timers, queue>>
    BY <1>2 DEF LookFails
  <2>2. row' \in [Path -> Version] /\ \A p \in Path : row'[p] = row[p]
    BY <2>1 DEF IInv, TypeOK
  <2> QED
    BY <1>2, <2>1, <2>2, JobInHand, GiveUpStep
<1>3. CASE RecordFails
  BY <1>3, ResolveStep
<1>4. CASE CatalogFails
  <2>1. /\ worker # Idle /\ worker' = Idle /\ Fails(worker.path)
        /\ UNCHANGED <<folder, startup, observer, timers, queue>>
    BY <1>4 DEF CatalogFails, WorkerAt
  <2>2. PICK q \in Catalogable, r \in {0, row[worker.path]} :
           q = worker.path /\ row' = [row EXCEPT ![q] = r]
    BY <1>4, <2>1, JobInHand DEF CatalogFails
  <2>3. row \in [Path -> Version] /\ q \in Path /\ r \in Version
    BY <2>2, WatcherAssumption DEF IInv, TypeOK, Version
  <2>4. row' \in [Path -> Version] /\ \A p \in Path \ {q} : row'[p] = row[p]
    BY <2>2, <2>3
  <2> QED
    BY <2>1, <2>2, <2>4, GiveUpStep
<1>5. CASE DeleteFails
  <2>1. /\ worker = Idle /\ queue # <<>> /\ queue' = Tail(queue) /\ worker' = worker
        /\ Fails(Head(queue).path)
        /\ UNCHANGED <<folder, row, startup, observer, timers>>
    BY <1>5 DEF DeleteFails
  <2> QED
    BY <2>1, DropStep
<1> QED
  BY <1>1, <1>2, <1>3, <1>4, <1>5

-----------------------------------------------------------------------------
(* Startup, death, and the whole.                                          *)

LEMMA NothingIsInOrder ==
    ASSUME raw = <<>>, obs = Idle, \A t \in Timer : timer[t] = Free, ops \in Nat,
           \A p \in Catalogable : entry[p] = NoEntry
    PROVE  EntryInv /\ RoomInv /\ OrderInv
<1>1. Armed = {} /\ Arming = 0 /\ Len(raw) = 0
  BY DEF Armed, Arming
<1>2. RoomInv
  BY <1>1, FS_EmptySet DEF RoomInv
<1> QED
  BY <1>2 DEF EntryInv, OrderInv, Followed

LEMMA InitIInv == Init => IInv
<1> SUFFICES ASSUME Init PROVE IInv
  OBVIOUS
<1> USE DEF Init
<1>1. /\ 0 \in Version /\ 0 \in 0..MaxCrash /\ 0 \in 0..MaxFaults /\ 0 \in Nat
      /\ \A t \in Timer : timer[t] = Free
      /\ \A p \in Catalogable : entry[p] = NoEntry
  BY WatcherAssumption DEF Version
<1>2. TypeOK
  <2>1. file \in [Path -> Version] /\ row \in [Path -> Version] /\ ops \in Version
    BY <1>1
  <2>2. /\ crashes \in 0..MaxCrash /\ todo \subseteq Catalogable /\ missed \subseteq Catalogable
        /\ recorded \subseteq Path /\ failed \subseteq Catalogable /\ faults \in 0..MaxFaults
    BY <1>1
  <2>3. raw \in Seq(RawEvent) /\ queue \in Seq(Event)
    OBVIOUS
  <2>4. /\ timer \in [Timer -> [at : {"armed", "fired", "popped"}, path : Catalogable] \cup {Free}]
        /\ entry \in [Catalogable -> Timer \cup {NoEntry}]
    OBVIOUS
  <2> QED
    BY <2>1, <2>2, <2>3, <2>4 DEF TypeOK
<1>3. EntryInv /\ RoomInv /\ OrderInv
  BY <1>1, NothingIsInOrder
<1>4. StartInv
  BY <1>1 DEF StartInv
<1>5. OwedInv
  BY DEF OwedInv, Covered
<1> QED
  BY <1>2, <1>3, <1>4, <1>5 DEF IInv

\* The startup reconcile looks at p; row' is right for p, or p is promised nothing.
LEMMA LookedAt ==
    ASSUME IInv, NEW p \in todo, NEW r \in Version, row' = [row EXCEPT ![p] = r],
           todo' = todo \ {p},
           p \in recorded \/ p \in failed' \/ r = file[p],
           r = 0 \/ r = file[p] \/ p \in failed',
           failed \subseteq failed', failed' \subseteq Catalogable, faults' \in 0..MaxFaults,
           UNCHANGED <<file, recorded, ops, missed, watching, crashes, raw, obs, timer, entry,
                       queue, worker>>
    PROVE  IInv'
<1>1. ~watching /\ worker = Idle /\ queue = <<>>
  BY DEF IInv, StartInv
<1>2. row \in [Path -> Version] /\ p \in Path /\ p \in Catalogable /\ row' \in [Path -> Version]
  BY WatcherAssumption DEF IInv, TypeOK
<1>3. TypeOK'
  BY <1>2 DEF IInv, TypeOK
<1>4. StartInv' /\ EntryInv'
  BY <1>1 DEF IInv, StartInv, EntryInv
<1>5. RoomInv' /\ OrderInv'
  BY DEF IInv, RoomInv, OrderInv, Armed, Arming, TellsThere
<1>6. OwedInv'
  <2>1. \A q : /\ DeleteOwed(q) <=> DeleteOwed(q)'
               /\ ToSchedule(q) <=> ToSchedule(q)'
               /\ CatalogOwed(q) <=> CatalogOwed(q)'
    BY DEF DeleteOwed, CatalogOwed, Mending, ToSchedule, TellsGone, TellsThere
  <2>2. \A q : Followed(queue', {DeleteOf(q)}, {CatalogOf(q)})
    BY <1>1 DEF Followed
  <2>3. \A q : /\ Gone(q)' => Gone(q) /\ file[q] = 0 /\ q \notin failed'
               /\ There(q)' => There(q) /\ file[q] # 0 /\ q \notin recorded /\ q \notin failed'
               /\ ~Held(q)'
    BY <1>1 DEF Gone, There, Held
  <2>4. ASSUME NEW q \in Covered'
        PROVE  /\ Gone(q)' /\ row'[q] # 0 => DeleteOwed(q)'
               /\ There(q)' /\ row'[q] # file'[q] => CatalogOwed(q)'
    <3>1. CASE q = p
      BY <1>2, <2>3, <3>1
    <3>2. CASE q # p
      <4>1. q \in Covered /\ row'[q] = row[q]
        BY <1>2, <3>2, WatcherAssumption DEF Covered
      <4>2. /\ Gone(q) /\ row[q] # 0 => DeleteOwed(q)
            /\ There(q) /\ row[q] # file[q] => CatalogOwed(q)
        BY <4>1 DEF IInv, OwedInv
      <4> QED
        BY <2>1, <2>3, <4>1, <4>2
    <3> QED
      BY <3>1, <3>2
  <2> QED
    BY <2>2, <2>3, <2>4 DEF OwedInv, DeleteOf, CatalogOf
<1> QED
  BY <1>3, <1>4, <1>5, <1>6 DEF IInv

LEMMA ReconcileStep ==
    ASSUME IInv, NEW p \in Catalogable,
           Reconcile(p) \/ ReconcileFails(p) \/ ReconcileRecordFails(p)
    PROVE  IInv'
<1>1. /\ p \in todo /\ todo' = todo \ {p}
      /\ UNCHANGED <<file, recorded, ops, missed, watching, crashes, raw, obs, timer, entry,
                     queue, worker>>
  BY DEF Reconcile, ReconcileFails, ReconcileRecordFails, folder, observer, timers
<1>2. 0 \in Version /\ file[p] \in Version /\ row[p] \in Version
  BY WatcherAssumption DEF IInv, TypeOK, Version
<1>3. CASE Reconcile(p)
  <2>1. PICK r \in Version : r = IF p \in recorded THEN 0 ELSE file[p]
    BY <1>2
  <2>2. row' = [row EXCEPT ![p] = r] /\ UNCHANGED failures
    BY <1>3, <2>1 DEF Reconcile
  <2> QED
    BY <1>1, <2>1, <2>2, Failing, LookedAt
<1>4. CASE ReconcileFails(p)
  <2>1. PICK r \in Version : row' = [row EXCEPT ![p] = r]
    BY <1>2, <1>4 DEF ReconcileFails
  <2>2. Fails(p)
    BY <1>4 DEF ReconcileFails
  <2> QED
    BY <1>1, <2>1, <2>2, Failing, LookedAt
<1>5. CASE ReconcileRecordFails(p)
  <2>1. row' = [row EXCEPT ![p] = file[p]] /\ Fault /\ UNCHANGED failed
    BY <1>5 DEF ReconcileRecordFails
  <2> QED
    BY <1>1, <1>2, <2>1, Failing, LookedAt
<1> QED
  BY <1>3, <1>4, <1>5

LEMMA CrashStep == ASSUME IInv, Crash PROVE IInv'
<1>1. /\ raw' = <<>> /\ obs' = Idle /\ queue' = <<>> /\ worker' = Idle /\ missed' = {}
      /\ failed' = {} /\ recorded' = recorded /\ faults' = faults
      /\ todo' = Catalogable /\ watching' = FALSE
      /\ file' = file /\ row' = row /\ ops' = ops
      /\ timer' = [t \in Timer |-> Free] /\ entry' = [p \in Catalogable |-> NoEntry]
      /\ crashes' \in 0..MaxCrash /\ ops \in Nat
  BY WatcherAssumption DEF Crash, IInv, TypeOK, Version
<1>2. /\ \A t \in Timer : timer'[t] = Free
      /\ \A p \in Catalogable : entry'[p] = NoEntry
  BY <1>1
<1>3. TypeOK'
  <2>1. file' \in [Path -> Version] /\ row' \in [Path -> Version] /\ ops' \in Version
    BY <1>1 DEF IInv, TypeOK
  <2>2. raw' \in Seq(RawEvent) /\ queue' \in Seq(Event)
    BY <1>1
  <2>3. /\ timer' \in [Timer -> [at : {"armed", "fired", "popped"}, path : Catalogable] \cup {Free}]
        /\ entry' \in [Catalogable -> Timer \cup {NoEntry}]
    BY <1>1
  <2>4. /\ recorded' \subseteq Path /\ failed' \subseteq Catalogable /\ faults' \in 0..MaxFaults
        /\ missed' \subseteq Catalogable /\ todo' \subseteq Catalogable
    BY <1>1 DEF IInv, TypeOK
  <2> QED
    BY <1>1, <2>1, <2>2, <2>3, <2>4 DEF TypeOK
<1>4. Armed' = {} /\ Arming' = 0 /\ Len(raw') = 0
  BY <1>1, <1>2 DEF Armed, Arming
<1>5. RoomInv'
  BY <1>1, <1>4, FS_EmptySet DEF RoomInv
<1>6. EntryInv' /\ OrderInv' /\ StartInv'
  BY <1>1, <1>2 DEF EntryInv, OrderInv, StartInv, Followed
<1>7. OwedInv'
  BY <1>1 DEF OwedInv, Covered
<1> QED
  BY <1>3, <1>5, <1>6, <1>7 DEF IInv

LEMMA StandStep == ASSUME IInv, StartWatching \/ UNCHANGED vars PROVE IInv'
<1>1. /\ UNCHANGED <<file, recorded, ops, missed, failed, faults, row, todo, crashes, raw,
                     obs, timer, entry, queue, worker>>
      /\ watching' = watching \/ (watching' = TRUE /\ todo = {})
  BY DEF StartWatching, vars, folder, startup, observer, timers, failures
<1>2. TypeOK' /\ StartInv' /\ EntryInv'
  <2>1. TypeOK'
    BY <1>1 DEF IInv, TypeOK
  <2>2. CASE watching' = watching
    BY <1>1, <2>1, <2>2 DEF IInv, StartInv, EntryInv
  <2>3. CASE watching' = TRUE /\ todo = {}
    BY <1>1, <2>1, <2>3 DEF IInv, StartInv, EntryInv
  <2> QED
    BY <1>1, <2>2, <2>3
<1>3. RoomInv' /\ OrderInv'
  BY <1>1 DEF IInv, RoomInv, OrderInv, Armed, Arming, TellsThere
<1>4. ASSUME NEW p
      PROVE  /\ DeleteOwed(p)' <=> DeleteOwed(p)
             /\ ToSchedule(p)' <=> ToSchedule(p)
  BY <1>1 DEF DeleteOwed, ToSchedule, TellsGone, TellsThere
<1>5. ASSUME NEW p PROVE CatalogOwed(p)' <=> CatalogOwed(p)
  BY <1>1, <1>4 DEF CatalogOwed, Mending
<1>6. OwedInv'
  BY <1>1, <1>4, <1>5 DEF IInv, OwedInv, Covered, Gone, There, Held, Mending
<1> QED
  BY <1>2, <1>3, <1>6 DEF IInv

LEMMA NextIInv == IInv /\ [Next]_vars => IInv'
<1> SUFFICES ASSUME IInv, [Next]_vars PROVE IInv'
  OBVIOUS
<1>1. ASSUME NEW p \in Path, NEW rec \in BOOLEAN, Write(p, rec) PROVE IInv'
  BY <1>1, WriteStep
<1>2. ASSUME NEW p \in Path, Unlink(p) PROVE IInv'
  BY <1>2, UnlinkStep
<1>3. ASSUME NEW p \in Path, NEW q \in Path, Move(p, q) PROVE IInv'
  BY <1>3, MoveStep
<1>4. ASSUME NEW p \in Catalogable, Reconcile(p) PROVE IInv'
  BY <1>4, ReconcileStep
<1>5. CASE StartWatching \/ UNCHANGED vars
  BY <1>5, StandStep
<1>6. CASE Observer
  BY <1>6, OnChangedStep, OnDeletedStep, PutDeleteStep, OnMovedStep, ScheduleDestStep DEF Observer
<1>7. CASE Worker
  BY <1>7, DeleteStep, TakeCatalogStep, LookStep, ResolveStep, CatalogStep, CatalogOtherStep
     DEF Worker
<1>8. CASE Crash
  BY <1>8, CrashStep
<1>9. ASSUME NEW t \in Timer, TimerThread(t) PROVE IInv'
  BY <1>9, TimerThreadStep
<1>10. CASE Failure
  BY <1>10, EventFailureStep, ReconcileStep DEF Failure
<1> QED
  BY <1>1, <1>2, <1>3, <1>4, <1>5, <1>6, <1>7, <1>8, <1>9, <1>10 DEF Next, Folder, Startup

-----------------------------------------------------------------------------
(* The theorems.                                                           *)

(* The inductive invariant of the watcher.                                 *)
THEOREM Invariance == Spec => []IInv
<1> QED
  BY InitIInv, NextIInv, PTL DEF Spec

(* Every variable keeps its type, and a timer is always free when one is   *)
(* to be armed: NewTimer has a value (watcher.py:48-61).                   *)
THEOREM TypeCorrect == Spec => []TypeOK
<1>1. IInv => TypeOK
  BY DEF IInv
<1> QED
  BY <1>1, Invariance, PTL

(* Whatever the order of events, timers and worker steps, the event that   *)
(* mends the row of a path that differs from its file is on its way, for   *)
(* every path whose last event met no failure and whose file carries no    *)
(* record (watcher.py:48-85, __main__.worker_loop).                        *)
THEOREM NothingForgottenCorrect == Spec => []NothingForgotten
<1>1. ASSUME IInv PROVE NothingForgotten
  <2> SUFFICES ASSUME NEW p \in Covered, p \notin failed
               PROVE  /\ file[p] = 0 /\ row[p] # 0 => DeleteOwed(p)
                      /\ file[p] # 0 /\ p \notin recorded /\ row[p] # file[p] =>
                            CatalogOwed(p)
    BY DEF NothingForgotten
  <2>1. /\ Gone(p) /\ row[p] # 0 => DeleteOwed(p)
        /\ There(p) /\ row[p] # file[p] => CatalogOwed(p)
    BY <1>1 DEF IInv, OwedInv
  <2> QED
    BY <2>1 DEF Gone, There
<1> QED
  BY <1>1, Invariance, PTL

(* A queued delete of a file that is there is always followed by the       *)
(* catalog event of that file (watcher.py:63-85).                          *)
THEOREM DeleteThenCatalogCorrect == Spec => []DeleteThenCatalog
<1>1. ASSUME IInv PROVE DeleteThenCatalog
  <2> SUFFICES ASSUME NEW p \in Covered, NEW i \in DOMAIN queue, file[p] # 0,
                      queue[i] = DeleteOf(p), ~ToSchedule(p)
               PROVE  \E j \in DOMAIN queue : j > i /\ queue[j] = CatalogOf(p)
    BY DEF DeleteThenCatalog, DeleteOf, CatalogOf
  <2>1. Followed(queue, {DeleteOf(p)}, {CatalogOf(p)})
    BY <1>1 DEF IInv, OwedInv
  <2> QED
    BY <2>1 DEF Followed
<1> QED
  BY <1>1, Invariance, PTL

=============================================================================

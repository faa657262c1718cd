-------------------------- MODULE CatalogIds_proofs --------------------------
(***************************************************************************)
(* Theorems about CatalogIds, for any objects, contents and counts, any    *)
(* set of statements that may fail, and any number of failures.            *)
(***************************************************************************)
EXTENDS CatalogIds, DataLemmas

\* A row of a lookup table or of a cache.
RowShape(r) == r = [key |-> r.key, id |-> r.id] /\ r.id \in Nat \ {0}

(* A lookup table: one row to an id, one to a key, and a largest id, which *)
(* NextId looks for.                                                       *)
TableInv(rows) ==
    /\ \A r \in rows : RowShape(r)
    /\ \A r, s \in rows : r.id = s.id \/ r.key = s.key => r = s
    /\ rows # {} => \E m \in Ids(rows) : \A n \in Ids(rows) : n <= m

Tables(tab) == tab = [t \in Table |-> tab[t]] /\ \A t \in Table : TableInv(tab[t])

\* Every row finds its parents.
Linked(d) ==
    /\ \A t \in Table : \A r \in d.tab[t] : ParentThere(d.tab, t, r.key)
    /\ \A r \in d.files : /\ r.comp[1] \in Ids(d.tab["customers"])
                          /\ r.comp[2] \in Ids(d.tab["sites"])
                          /\ r.comp[3] \in Ids(d.tab["robots"])
                          /\ r.comp[4] \in Ids(d.tab["sources"])
                          /\ r.set \in Ids(d.tab["topic_sets"])

(* What is committed, and what the connection sees, each are a catalog.    *)
StoreInv(d) == d = [tab |-> d.tab, files |-> d.files] /\ Tables(d.tab) /\ Linked(d)

(* An open transaction only adds to the tables.                            *)
Added(tab, more) == \A t \in Table : tab[t] \subseteq more[t]

CacheInv ==
    /\ cache = [t \in Table |-> cache[t]]
    /\ \A t \in Table : \A r \in cache[t] : RowShape(r)

WorkerInv ==
    /\ pc \in {"idle", "read", "channels", "schema", "set", "write"} \cup Dimension
    /\ job = [file |-> job.file, ids |-> job.ids, left |-> job.left, topic |-> job.topic,
              channel |-> job.channel, members |-> job.members, totals |-> job.totals,
              set |-> job.set, content |-> job.content]
    /\ job.ids \in [Dimension -> Nat]
    /\ faults \in 0..MaxFaults /\ undone \in {"never", "now", "before"}

IInv ==
    /\ StoreInv(db) /\ StoreInv(conn) /\ Added(db.tab, conn.tab)
    /\ CacheInv /\ CacheSound
    /\ WorkerInv

-----------------------------------------------------------------------------
(* What the statements return.                                             *)

\* The next id is a new one, and the largest from then on.
LEMMA NextIdIsNew ==
    ASSUME NEW rows, TableInv(rows)
    PROVE  /\ NextId(rows) \in Nat \ {0}
           /\ \A n \in Ids(rows) : n \in Nat /\ n < NextId(rows)
<1>1. \A n \in Ids(rows) : n \in Nat
  BY DEF Ids, TableInv, RowShape
<1>2. CASE rows = {}
  BY <1>2 DEF NextId, Ids
<1>3. CASE rows # {}
  <2> DEFINE top == CHOOSE m \in Ids(rows) : \A n \in Ids(rows) : n <= m
  <2>1. top \in Ids(rows) /\ \A n \in Ids(rows) : n <= top
    BY <1>3 DEF TableInv
  <2>2. NextId(rows) = 1 + top
    BY <1>3 DEF NextId
  <2> HIDE DEF top
  <2>3. \A n \in Ids(rows) : n < 1 + top
    BY <1>1, <2>1
  <2> QED
    BY <1>1, <2>1, <2>2, <2>3
<1> QED
  BY <1>2, <1>3

\* INSERT OR IGNORE of a new key leaves a lookup table.
LEMMA InsertedRow ==
    ASSUME NEW rows, TableInv(rows), NEW key, ~Has(rows, key)
    PROVE  TableInv(rows \cup {[key |-> key, id |-> NextId(rows)]})
<1> DEFINE new == [key |-> key, id |-> NextId(rows)]
           more == rows \cup {new}
<1>1. RowShape(new) /\ new.key = key /\ new.id = NextId(rows)
  BY NextIdIsNew DEF RowShape
<1>2. \A r \in rows : r.id # new.id /\ r.key # key
  BY <1>1, NextIdIsNew DEF Ids, Has
<1>3. Ids(more) = Ids(rows) \cup {new.id}
  BY DEF Ids
<1> HIDE DEF new
<1>4. new.id \in Ids(more) /\ \A n \in Ids(more) : n <= new.id
  BY <1>1, <1>3, NextIdIsNew
<1>5. \A r, u \in more : r.id = u.id \/ r.key = u.key => r = u
  BY <1>1, <1>2 DEF TableInv
<1>6. TableInv(rows \cup {new})
  BY <1>1, <1>4, <1>5 DEF TableInv
<1> QED
  BY <1>6 DEF new

\* The row a lookup finds.
LEMMA FoundRow ==
    ASSUME NEW rows, \A r \in rows : RowShape(r), NEW key, Has(rows, key)
    PROVE  [key |-> key, id |-> IdOf(rows, key)] \in rows /\ IdOf(rows, key) \in Nat \ {0}
<1> DEFINE r == CHOOSE r \in rows : r.key = key
<1>1. r \in rows /\ r.key = key
  BY DEF Has
<1>2. IdOf(rows, key) = r.id
  BY DEF IdOf
<1> HIDE DEF r
<1> QED
  BY <1>1, <1>2 DEF RowShape

\* Parents once found are found in every table with more rows.
LEMMA ParentsStay ==
    ASSUME NEW tab, NEW more, Added(tab, more), NEW t \in Table, NEW key,
           ParentThere(tab, t, key)
    PROVE  ParentThere(more, t, key)
<1>1. \A u \in Table : Ids(tab[u]) \subseteq Ids(more[u])
  BY DEF Added, Ids
<1>2. {"customers", "sites", "topic_names", "schemas"} \subseteq Table
  BY DEF Table, Dimension
<1> QED
  BY <1>1, <1>2 DEF ParentThere

(* resolve_*: what one statement leaves on the connection and in its cache. *)
LEMMA Resolving ==
    ASSUME StoreInv(conn), CacheInv, NEW t \in Table, NEW key, ~Refused(t, key)
    PROVE  /\ StoreInv(ConnAfter(t, key)) /\ Added(conn.tab, ConnAfter(t, key).tab)
           /\ ConnAfter(t, key).files = conn.files
           /\ ResolvedId(t, key) \in Nat \ {0}
           /\ CacheAfter(t, key) = [u \in Table |-> CacheAfter(t, key)[u]]
           /\ \A u \in Table : \A r \in CacheAfter(t, key)[u] : RowShape(r)
           /\ [key |-> key, id |-> ResolvedId(t, key)] \in CacheAfter(t, key)[t]
           /\ cache = conn.tab => CacheAfter(t, key) = ConnAfter(t, key).tab
<1> DEFINE rows == RowsAfter(t, key)
           id == ResolvedId(t, key)
           tab == [conn.tab EXCEPT ![t] = rows]
<1>1. /\ conn = [tab |-> conn.tab, files |-> conn.files] /\ Tables(conn.tab) /\ Linked(conn)
      /\ cache = [u \in Table |-> cache[u]] /\ \A u \in Table : \A r \in cache[u] : RowShape(r)
  BY DEF StoreInv, CacheInv
<1>2. TableInv(conn.tab[t])
  BY <1>1 DEF Tables
<1>3. /\ TableInv(rows) /\ conn.tab[t] \subseteq rows
      /\ ~Has(cache[t], key) => Has(rows, key)
      /\ \A r \in rows : r \in conn.tab[t] \/ (r.key = key /\ ParentThere(conn.tab, t, key))
  <2>1. CASE Has(cache[t], key) \/ Has(conn.tab[t], key)
    <3>1. rows = conn.tab[t]
      BY <2>1 DEF RowsAfter
    <3> HIDE DEF rows
    <3> QED
      BY <1>2, <2>1, <3>1
  <2>2. CASE ~Has(cache[t], key) /\ ~Has(conn.tab[t], key)
    <3>1. rows = conn.tab[t] \cup {[key |-> key, id |-> NextId(conn.tab[t])]}
      BY <2>2 DEF RowsAfter
    <3>2. ParentThere(conn.tab, t, key)
      BY <2>2 DEF Refused
    <3>3. TableInv(rows)
      BY <1>2, <2>2, <3>1, InsertedRow
    <3> DEFINE new == [key |-> key, id |-> NextId(conn.tab[t])]
    <3>4. new.key = key
      OBVIOUS
    <3>5. rows = conn.tab[t] \cup {new}
      BY <3>1
    <3> HIDE DEF rows, new
    <3> QED
      BY <3>2, <3>3, <3>4, <3>5 DEF Has
  <2> QED
    BY <2>1, <2>2
<1>4. id \in Nat \ {0}
      /\ [key |-> key, id |-> id] \in (IF Has(cache[t], key) THEN cache[t] ELSE rows)
  BY <1>1, <1>3, FoundRow DEF ResolvedId, TableInv
<1>5. /\ ConnAfter(t, key) = [tab |-> tab, files |-> conn.files]
      /\ tab = [u \in Table |-> tab[u]] /\ tab[t] = rows
      /\ \A u \in Table \ {t} : tab[u] = conn.tab[u]
  <2>1. conn.tab = [u \in Table |-> conn.tab[u]]
    BY <1>1 DEF Tables
  <2> HIDE DEF rows
  <2>2. tab = [u \in Table |-> tab[u]] /\ tab[t] = rows /\ \A u \in Table \ {t} : tab[u] = conn.tab[u]
    BY <2>1
  <2>3. ConnAfter(t, key) = [tab |-> tab, files |-> conn.files]
    BY <1>1 DEF ConnAfter, rows
  <2> QED
    BY <2>2, <2>3
<1>6. /\ CacheAfter(t, key) = [u \in Table |-> CacheAfter(t, key)[u]]
      /\ CacheAfter(t, key)[t] = cache[t] \cup {[key |-> key, id |-> id]}
      /\ \A u \in Table \ {t} : CacheAfter(t, key)[u] = cache[u]
  BY <1>1 DEF CacheAfter
<1>7. RowShape([key |-> key, id |-> id])
  BY <1>4 DEF RowShape
<1> HIDE DEF rows, id, tab
<1>8. Tables(tab) /\ Added(conn.tab, tab)
  BY <1>1, <1>3, <1>5 DEF Tables, Added
<1>9. Linked([tab |-> tab, files |-> conn.files])
  <2>1. \A u \in Table : Ids(conn.tab[u]) \subseteq Ids(tab[u])
    BY <1>8 DEF Added, Ids
  <2>2. {"customers", "sites", "robots", "sources", "topic_sets"} \subseteq Table
    BY DEF Table, Dimension
  <2>3. \A u \in Table : \A r \in tab[u] : ParentThere(conn.tab, u, r.key)
    BY <1>1, <1>3, <1>5 DEF Linked
  <2>4. \A u \in Table : \A r \in tab[u] : ParentThere(tab, u, r.key)
    BY <1>8, <2>3, ParentsStay
  <2> QED
    BY <1>1, <2>1, <2>2, <2>4 DEF Linked
<1>10. ASSUME cache = conn.tab
       PROVE  CacheAfter(t, key) = tab
  <2>1. rows = cache[t] \cup {[key |-> key, id |-> id]}
    <3>1. CASE Has(cache[t], key)
      <4>1. rows = cache[t]
        BY <1>10, <3>1 DEF RowsAfter, rows
      <4> QED
        BY <1>4, <3>1, <4>1
    <3>2. CASE ~Has(cache[t], key)
      <4>1. rows = conn.tab[t] \cup {[key |-> key, id |-> NextId(conn.tab[t])]}
        BY <1>10, <3>2 DEF RowsAfter, rows
      <4>2. [key |-> key, id |-> id] \in rows
        BY <1>4, <3>2
      <4>3. [key |-> key, id |-> id] \notin cache[t]
        BY <3>2 DEF Has
      <4> QED
        BY <1>10, <4>1, <4>2, <4>3
    <3> QED
      BY <3>1, <3>2
  <2>2. \A u \in Table : CacheAfter(t, key)[u] = tab[u]
    BY <1>5, <1>6, <1>10, <2>1
  <2> QED
    BY <1>5, <1>6, <2>2
<1>11. [key |-> key, id |-> id] \in CacheAfter(t, key)[t]
  BY <1>6
<1> QED
  BY <1>1, <1>4, <1>5, <1>6, <1>7, <1>8, <1>9, <1>10, <1>11 DEF StoreInv, id

\* Rows of files may go at any time.
LEMMA FewerFiles ==
    ASSUME NEW d, StoreInv(d), NEW gone
    PROVE  /\ StoreInv([d EXCEPT !.files = @ \ gone])
           /\ [d EXCEPT !.files = @ \ gone].tab = d.tab
<1>1. [d EXCEPT !.files = @ \ gone] = [tab |-> d.tab, files |-> d.files \ gone]
  BY DEF StoreInv
<1>2. Linked([tab |-> d.tab, files |-> d.files \ gone])
  BY DEF StoreInv, Linked
<1> QED
  BY <1>1, <1>2 DEF StoreInv

LEMMA AddedSelf ==
    ASSUME NEW tab
    PROVE  Added(tab, tab)
BY DEF Added

LEMMA AddedTrans ==
    ASSUME NEW tab, NEW more, NEW most, Added(tab, more), Added(more, most)
    PROVE  Added(tab, most)
BY DEF Added

-----------------------------------------------------------------------------
(* The steps.                                                              *)

(* A statement of a transaction: the dictionaries after resolve_*, with    *)
(* nothing committed.                                                      *)
LEMMA Statement ==
    ASSUME IInv, NEW t \in Table, NEW key, ~Refused(t, key),
           conn' = ConnAfter(t, key), cache' = CacheAfter(t, key), undone' = undone
    PROVE  /\ StoreInv(conn') /\ Added(conn.tab, conn'.tab) /\ Added(db.tab, conn'.tab)
           /\ CacheInv' /\ CacheSound'
           /\ ResolvedId(t, key) \in Nat \ {0}
<1>1. /\ StoreInv(conn') /\ Added(conn.tab, conn'.tab)
      /\ ResolvedId(t, key) \in Nat \ {0}
      /\ cache' = [u \in Table |-> cache'[u]]
      /\ \A u \in Table : \A r \in cache'[u] : RowShape(r)
      /\ cache = conn.tab => cache' = conn'.tab
  BY Resolving DEF IInv
<1>2. Added(db.tab, conn'.tab)
  BY <1>1, AddedTrans DEF IInv
<1>3. CacheSound'
  BY <1>1 DEF IInv, CacheSound
<1> QED
  BY <1>1, <1>2, <1>3 DEF CacheInv

(* The except branch: what is committed is seen and cached again, less the *)
(* row of the object in hand.                                              *)
LEMMA RollingBack ==
    ASSUME IInv, Rollback
    PROVE  /\ StoreInv(db') /\ StoreInv(conn') /\ Added(db'.tab, conn'.tab)
           /\ CacheInv' /\ CacheSound' /\ undone' \in {"never", "before"}
           /\ pc' = "idle" /\ job' = NoJob
           /\ db'.tab = db.tab
<1>1. /\ conn' = [db EXCEPT !.files = @ \ RowsOf(db, Composite(job.ids, job.file))]
      /\ db' = conn' /\ pc' = "idle" /\ job' = NoJob
  BY DEF Rollback, QuarantineFrom, AtRest
<1>2. StoreInv(conn') /\ conn'.tab = db.tab
  BY <1>1, FewerFiles DEF IInv
<1>3. cache' = db.tab /\ undone' \in {"never", "before"}
  BY DEF Rollback, Reload, Load, IInv, WorkerInv
<1>4. CacheInv'
  BY <1>3 DEF IInv, StoreInv, Tables, TableInv, CacheInv
<1>5. CacheSound'
  BY <1>2, <1>3 DEF CacheSound
<1> QED
  BY <1>1, <1>2, <1>3, <1>4, <1>5, AddedSelf

\* The worker at rest.
LEMMA AtRestIsFine ==
    ASSUME pc' = "idle", job' = NoJob, faults' \in 0..MaxFaults,
           undone' \in {"never", "now", "before"}
    PROVE  WorkerInv'
BY DEF WorkerInv, NoJob, NoIds

LEMMA InitIInv == Init => IInv
<1> SUFFICES ASSUME Init PROVE IInv
  OBVIOUS
<1>1. /\ db = [tab |-> NoTables, files |-> {}] /\ conn = db /\ cache = NoTables
      /\ pc = "idle" /\ job = NoJob /\ faults = 0 /\ undone = "never"
  BY DEF Init
<1>2. Tables(NoTables)
  BY DEF NoTables, Tables, TableInv
<1>3. Linked(db)
  BY <1>1 DEF Linked, NoTables
<1>4. StoreInv(db) /\ StoreInv(conn)
  BY <1>1, <1>2, <1>3 DEF StoreInv
<1>5. CacheInv /\ CacheSound
  BY <1>1 DEF CacheInv, CacheSound, NoTables
<1>6. WorkerInv
  BY <1>1, IdsAssumption DEF WorkerInv, NoJob, NoIds
<1> QED
  BY <1>1, <1>4, <1>5, <1>6, AddedSelf DEF IInv

\* Only the pass changes, or nothing does.
LEMMA StandingStill ==
    ASSUME IInv, UNCHANGED <<db, conn, cache, pc, job, faults, undone>>
    PROVE  IInv'
BY DEF IInv, CacheInv, CacheSound, WorkerInv

(* One object: its dimensions, its commit, its transaction.                *)

LEMMA BeginStep == ASSUME IInv, NEW f \in File, Begin(f) PROVE IInv'
<1>1. job' = [NoJob EXCEPT !.file = f] /\ pc' = "customers" /\ "customers" \in Dimension
      /\ UNCHANGED <<db, conn, cache, faults, undone>>
  BY DEF Begin, Dimension
<1>2. WorkerInv'
  BY <1>1 DEF IInv, WorkerInv, NoJob, NoIds
<1> QED
  BY <1>1, <1>2 DEF IInv, CacheInv, CacheSound

LEMMA ResolveDimStep == ASSUME IInv, NEW t \in Dimension, ResolveDim(t) PROVE IInv'
<1>1. t \in Table
  BY DEF Table
<1>2. PICK key : key = DimKey(t)
  OBVIOUS
<1>3. /\ ~Refused(t, key) /\ conn' = ConnAfter(t, key) /\ cache' = CacheAfter(t, key)
      /\ job' = [job EXCEPT !.ids[t] = ResolvedId(t, key)] /\ pc' = NextPc[t]
      /\ db' = (IF t = "sources" THEN conn' ELSE db)
      /\ UNCHANGED <<faults, undone>>
  BY <1>2 DEF ResolveDim
<1>4. /\ StoreInv(conn') /\ Added(db.tab, conn'.tab) /\ CacheInv' /\ CacheSound'
      /\ ResolvedId(t, key) \in Nat \ {0}
  BY <1>1, <1>3, Statement
<1>5. StoreInv(db') /\ Added(db'.tab, conn'.tab)
  BY <1>3, <1>4, AddedSelf DEF IInv
<1>6. pc' \in {"sites", "robots", "sources", "read"}
  BY <1>3 DEF Dimension, NextPc
<1>7. WorkerInv'
  BY <1>3, <1>4, <1>6 DEF IInv, WorkerInv, Dimension
<1> QED
  BY <1>4, <1>5, <1>7 DEF IInv

LEMMA RestingStep ==
    ASSUME IInv, AtRest, UNCHANGED <<db, conn, cache, undone>>, faults' \in 0..MaxFaults
    PROVE  IInv'
<1>1. WorkerInv'
  BY AtRestIsFine DEF AtRest, IInv, WorkerInv
<1> QED
  BY <1>1 DEF IInv, CacheInv, CacheSound

\* The object's row goes and the rest is committed with it.
LEMMA RowGone ==
    ASSUME IInv, NEW gone, conn' = [conn EXCEPT !.files = @ \ gone], db' = conn',
           UNCHANGED <<cache, undone>>
    PROVE  /\ StoreInv(db') /\ StoreInv(conn') /\ Added(db'.tab, conn'.tab)
           /\ CacheInv' /\ CacheSound'
<1>1. StoreInv(conn') /\ conn'.tab = conn.tab
  BY FewerFiles DEF IInv
<1> QED
  BY <1>1, AddedSelf DEF IInv, CacheInv, CacheSound

LEMMA ReadErrorStep == ASSUME IInv, ReadError PROVE IInv'
<1>1. PICK gone : gone = RowsOf(conn, Composite(job.ids, job.file))
  OBVIOUS
<1>2. /\ conn' = [conn EXCEPT !.files = @ \ gone] /\ db' = conn'
      /\ pc' = "idle" /\ job' = NoJob /\ UNCHANGED <<cache, faults, undone>>
  BY <1>1 DEF ReadError, QuarantineFrom, AtRest
<1>3. WorkerInv'
  BY <1>2, AtRestIsFine DEF IInv, WorkerInv
<1> QED
  BY <1>2, <1>3, RowGone DEF IInv

LEMMA ReadSummaryStep ==
    ASSUME IInv, NEW ch \in Content, ReadSummary(ch)
    PROVE  IInv'
<1>1. WorkerInv'
  BY DEF IInv, WorkerInv, ReadSummary
<1> QED
  BY <1>1 DEF IInv, ReadSummary, CacheInv, CacheSound

LEMMA ResolveTopicStep == ASSUME IInv, NEW c \in job.left, ResolveTopic(c) PROVE IInv'
<1>1. "topic_names" \in Table
  BY DEF Table
<1>2. PICK key : key = <<0, c[1]>>
  OBVIOUS
<1>3. /\ conn' = ConnAfter("topic_names", key) /\ cache' = CacheAfter("topic_names", key)
      /\ job' = [job EXCEPT !.left = @ \ {c}, !.channel = c,
                            !.topic = ResolvedId("topic_names", key)]
      /\ pc' = "schema" /\ UNCHANGED <<db, faults, undone>>
  BY <1>2 DEF ResolveTopic
<1>4. ~Refused("topic_names", key)
  BY DEF Refused, ParentThere
<1>5. WorkerInv'
  BY <1>3 DEF IInv, WorkerInv
<1>6. StoreInv(conn') /\ Added(db.tab, conn'.tab) /\ CacheInv' /\ CacheSound'
  BY <1>1, <1>3, <1>4, Statement
<1> QED
  BY <1>3, <1>5, <1>6 DEF IInv

LEMMA ResolveSchemaStep == ASSUME IInv, ResolveSchema PROVE IInv'
<1>1. "schemas" \in Table
  BY DEF Table
<1>2. PICK key : key = <<0, job.channel[2]>>
  OBVIOUS
<1>3. /\ conn' = ConnAfter("schemas", key) /\ cache' = CacheAfter("schemas", key)
      /\ pc' = (IF job.left = {} THEN "set" ELSE "channels")
      /\ UNCHANGED <<db, faults, undone>>
  BY <1>2 DEF ResolveSchema
<1>4. \E totals, members : job' = [job EXCEPT !.totals = totals, !.members = members]
  <2>1. PICK totals : totals = Counted(job.totals, job.topic, Messages[job.channel])
    OBVIOUS
  <2>2. PICK members : members = IF \E m \in job.members : m[1] = job.topic THEN job.members
                                 ELSE job.members \cup {<<job.topic, ResolvedId("schemas", key)>>}
    OBVIOUS
  <2>3. job' = [job EXCEPT !.totals = totals, !.members = members]
    BY <1>2, <2>1, <2>2 DEF ResolveSchema
  <2> QED
    BY <2>3
<1>5. ~Refused("schemas", key)
  BY DEF Refused, ParentThere
<1>6. WorkerInv'
  BY <1>3, <1>4 DEF IInv, WorkerInv
<1>7. StoreInv(conn') /\ Added(db.tab, conn'.tab) /\ CacheInv' /\ CacheSound'
  BY <1>1, <1>3, <1>5, Statement
<1> QED
  BY <1>3, <1>6, <1>7 DEF IInv

LEMMA RollbackStep == ASSUME IInv, Rollback, faults' \in 0..MaxFaults PROVE IInv'
<1>1. WorkerInv'
  BY RollingBack, AtRestIsFine
<1> QED
  BY <1>1, RollingBack DEF IInv

LEMMA ResolveSetStep == ASSUME IInv, ResolveSet PROVE IInv'
<1>1. CASE Refused("topic_sets", job.members)
  BY <1>1, RollbackStep DEF ResolveSet, IInv, WorkerInv
<1>2. CASE ~Refused("topic_sets", job.members)
  <2>1. "topic_sets" \in Table
    BY DEF Table
  <2>2. PICK key : key = job.members
    OBVIOUS
  <2>3. /\ ~Refused("topic_sets", key)
        /\ conn' = ConnAfter("topic_sets", key) /\ cache' = CacheAfter("topic_sets", key)
        /\ job' = [job EXCEPT !.set = ResolvedId("topic_sets", key)] /\ pc' = "write"
        /\ UNCHANGED <<db, faults, undone>>
    BY <1>2, <2>2 DEF ResolveSet
  <2>4. StoreInv(conn') /\ Added(db.tab, conn'.tab) /\ CacheInv' /\ CacheSound'
    BY <2>1, <2>3, Statement
  <2>5. WorkerInv'
    BY <2>3 DEF IInv, WorkerInv
  <2> QED
    BY <2>3, <2>4, <2>5 DEF IInv
<1> QED
  BY <1>1, <1>2

(* The row that is written finds all its parents: foreign keys are checked *)
(* against the tables the connection sees, whatever the caches said.       *)
LEMMA WriteRowStep == ASSUME IInv, NEW sums \in BOOLEAN, WriteRow(sums) PROVE IInv'
<1>1. CASE ~(sums /\ RowParentsThere)
  BY <1>1, RollbackStep DEF WriteRow, IInv, WorkerInv
<1>2. CASE sums /\ RowParentsThere
  <2>1. PICK c : c = Composite(job.ids, job.file)
    OBVIOUS
  <2>2. PICK row : row = [comp |-> c, set |-> job.set, counts |-> Blob(job.totals),
                          file |-> job.file, content |-> job.content]
    OBVIOUS
  <2>3. /\ conn' = [conn EXCEPT !.files = (@ \ RowsOf(conn, c)) \cup {row}]
        /\ db' = conn' /\ pc' = "idle" /\ job' = NoJob /\ UNCHANGED <<cache, undone, faults>>
    BY <1>2, <2>1, <2>2 DEF WriteRow, AtRest
  <2>4. conn' = [tab |-> conn.tab, files |-> (conn.files \ RowsOf(conn, c)) \cup {row}]
    BY <2>3 DEF IInv, StoreInv
  <2>5. /\ row.comp[1] \in Ids(conn.tab["customers"]) /\ row.comp[2] \in Ids(conn.tab["sites"])
        /\ row.comp[3] \in Ids(conn.tab["robots"]) /\ row.comp[4] \in Ids(conn.tab["sources"])
        /\ row.set \in Ids(conn.tab["topic_sets"])
    BY <1>2, <2>1, <2>2 DEF RowParentsThere, Composite, Dimension
  <2>6. Linked([tab |-> conn.tab, files |-> (conn.files \ RowsOf(conn, c)) \cup {row}])
    BY <2>5 DEF Linked, IInv, StoreInv
  <2>7. StoreInv(conn') /\ conn'.tab = conn.tab
    BY <2>4, <2>6 DEF IInv, StoreInv
  <2>8. WorkerInv'
    BY <2>3, AtRestIsFine DEF IInv, WorkerInv
  <2> QED
    BY <2>3, <2>7, <2>8, AddedSelf DEF IInv, CacheInv, CacheSound
<1> QED
  BY <1>1, <1>2

(* Between objects: deletions and tag edits; and what fails.               *)

LEMMA RowsGo ==
    ASSUME IInv, NEW gone, conn' = [conn EXCEPT !.files = @ \ gone], db' = conn',
           UNCHANGED <<cache, pc, job, faults, undone>>
    PROVE  IInv'
<1>1. WorkerInv'
  BY DEF IInv, WorkerInv
<1> QED
  BY <1>1, RowGone DEF IInv

LEMMA DeleteStep == ASSUME IInv, NEW f \in File, Delete(f) PROVE IInv'
<1>1. /\ \E gone : conn' = [conn EXCEPT !.files = @ \ gone]
      /\ db' = conn' /\ UNCHANGED <<cache, pc, job, faults, undone>>
  BY DEF Delete
<1> QED
  BY <1>1, RowsGo

\* The composite keys of the objects a pass has listed.
Present == {CachedKey(f) : f \in {g \in pass.listed : Cached(g)}}

LEMMA SweepTakes ==
    ASSUME Sweep
    PROVE  /\ conn' = [conn EXCEPT !.files = @ \ {r \in conn.files : r.comp \notin Present}]
           /\ db' = conn' /\ UNCHANGED <<cache, pc, job, faults, undone>>
<1>1. conn' = [conn EXCEPT !.files = {r \in @ : r.comp \in Present}] /\ db' = conn'
      /\ UNCHANGED <<cache, pc, job, faults, undone>>
  BY DEF Sweep, Present
<1>2. {r \in conn.files : r.comp \in Present}
         = conn.files \ {r \in conn.files : r.comp \notin Present}
  OBVIOUS
<1> QED
  BY <1>1, <1>2

LEMMA SweepStep == ASSUME IInv, Sweep PROVE IInv'
BY SweepTakes, RowsGo

LEMMA EditTagsStep == ASSUME IInv, EditTags PROVE IInv'
BY AddedSelf DEF EditTags, IInv, CacheInv, CacheSound, WorkerInv

LEMMA UndoKeeps ==
    ASSUME IInv, Undo, UNCHANGED <<db, cache>>
    PROVE  /\ StoreInv(conn') /\ Added(db'.tab, conn'.tab) /\ CacheInv' /\ CacheSound'
           /\ undone' \in {"never", "now", "before"}
<1>1. StoreInv(conn') /\ Added(db'.tab, conn'.tab) /\ CacheInv'
      /\ undone' \in {"never", "now", "before"}
  BY AddedSelf DEF Undo, IInv, CacheInv, WorkerInv
<1>2. CacheSound'
  BY DEF Undo, IInv, CacheSound
<1> QED
  BY <1>1, <1>2

LEMMA FaultCounted ==
    ASSUME IInv, NEW b, Fault(b)
    PROVE  faults' \in 0..MaxFaults
BY IdsAssumption DEF Fault, IInv, WorkerInv

LEMMA EditFaultStep == ASSUME IInv, EditFault PROVE IInv'
<1>1. faults' \in 0..MaxFaults
  BY FaultCounted DEF EditFault
<1>2. Undo /\ UNCHANGED <<db, cache>>
  BY DEF EditFault
<1>3. WorkerInv'
  BY <1>1, <1>2, UndoKeeps DEF EditFault, IInv, WorkerInv
<1> QED
  BY <1>2, <1>3, UndoKeeps DEF IInv

LEMMA DimAutoRollbackStep == ASSUME IInv, DimAutoRollback PROVE IInv'
<1>1. faults' \in 0..MaxFaults
  BY FaultCounted DEF DimAutoRollback
<1>2. AtRest /\ Undo /\ UNCHANGED <<db, cache>>
  BY DEF DimAutoRollback, Escapes
<1>3. WorkerInv'
  BY <1>1, <1>2, UndoKeeps, AtRestIsFine DEF AtRest
<1> QED
  BY <1>2, <1>3, UndoKeeps DEF IInv

LEMMA CrashStep == ASSUME IInv, Crash PROVE IInv'
<1>1. faults' \in 0..MaxFaults
  BY FaultCounted DEF Crash
<1>2. /\ conn' = db /\ cache' = db.tab /\ db' = db /\ AtRest
      /\ undone' \in {"never", "before"}
  BY DEF Crash, Escapes, Reload, Load, IInv, WorkerInv
<1>3. WorkerInv'
  BY <1>1, <1>2, AtRestIsFine DEF AtRest
<1>4. CacheInv' /\ CacheSound'
  BY <1>2 DEF IInv, StoreInv, Tables, TableInv, CacheInv, CacheSound
<1> QED
  BY <1>2, <1>3, <1>4, AddedSelf DEF IInv

LEMMA NextIInv == IInv /\ [Next]_vars => IInv'
<1> SUFFICES ASSUME IInv, [Next]_vars PROVE IInv'
  OBVIOUS
<1>1. ASSUME NEW f \in File, Begin(f) PROVE IInv'
  BY <1>1, BeginStep
<1>2. ASSUME NEW f \in File, Delete(f) PROVE IInv'
  BY <1>2, DeleteStep
<1>3. ASSUME NEW t \in Dimension, ResolveDim(t) PROVE IInv'
  BY <1>3, ResolveDimStep
<1>4. ASSUME NEW t \in Dimension, DimRefused(t) PROVE IInv'
  BY <1>4, RestingStep DEF DimRefused, Escapes, IInv, WorkerInv
<1>5. CASE Skip
  BY <1>5, RestingStep DEF Skip, IInv, WorkerInv
<1>6. CASE ReadError
  BY <1>6, ReadErrorStep
<1>7. ASSUME NEW ch \in Content, ReadSummary(ch) PROVE IInv'
  BY <1>7, ReadSummaryStep
<1>8. ASSUME NEW c \in job.left, ResolveTopic(c) PROVE IInv'
  BY <1>8, ResolveTopicStep
<1>9. CASE ResolveSchema
  BY <1>9, ResolveSchemaStep
<1>10. CASE ResolveSet
  BY <1>10, ResolveSetStep
<1>11. ASSUME NEW sums \in BOOLEAN, WriteRow(sums) PROVE IInv'
  BY <1>11, WriteRowStep
<1>12. CASE EditTags
  BY <1>12, EditTagsStep
<1>13. CASE EditFault
  BY <1>13, EditFaultStep
<1>14. CASE DimFault
  BY <1>14, FaultCounted, RestingStep DEF DimFault, Escapes
<1>15. CASE DimAutoRollback
  BY <1>15, DimAutoRollbackStep
<1>16. CASE TxnFault
  BY <1>16, FaultCounted, RollbackStep DEF TxnFault
<1>17. CASE Crash
  BY <1>17, CrashStep
<1>18. ASSUME NEW listed \in SUBSET File, List(listed) PROVE IInv'
  BY <1>18, StandingStill DEF List
<1>19. CASE Sweep
  BY <1>19, SweepStep
<1>20. CASE UNCHANGED vars
  BY <1>20, StandingStill DEF vars
<1> QED
  BY <1>1, <1>2, <1>3, <1>4, <1>5, <1>6, <1>7, <1>8, <1>9, <1>10, <1>11, <1>12, <1>13,
     <1>14, <1>15, <1>16, <1>17, <1>18, <1>19, <1>20 DEF Next

-----------------------------------------------------------------------------
(* No step takes a committed row of a lookup table away: what is committed *)
(* stays, or is replaced by what the connection sees, which is more.       *)
LEMMA CommittedStays ==
    ASSUME IInv, [Next]_vars
    PROVE  Added(db.tab, db'.tab)
<1>1. CASE db' = db
  BY <1>1, AddedSelf
<1>2. CASE db' # db
  <2> USE <1>2
  <2>1. ASSUME NEW f \in File, Delete(f) PROVE Added(db.tab, db'.tab)
    <3>1. PICK gone : conn' = [conn EXCEPT !.files = @ \ gone] /\ db' = conn'
      BY <2>1 DEF Delete
    <3> QED
      BY <3>1, FewerFiles DEF IInv
  <2>2. ASSUME NEW t \in Dimension, ResolveDim(t) PROVE Added(db.tab, db'.tab)
    <3>1. t \in Table
      BY DEF Table
    <3>2. PICK key : key = DimKey(t)
      OBVIOUS
    <3>3. /\ ~Refused(t, key) /\ conn' = ConnAfter(t, key) /\ cache' = CacheAfter(t, key)
          /\ db' = conn' /\ undone' = undone
      BY <2>2, <3>2 DEF ResolveDim
    <3> QED
      BY <3>1, <3>3, Statement
  <2>3. CASE ReadError
    <3>1. PICK gone : conn' = [conn EXCEPT !.files = @ \ gone] /\ db' = conn'
      BY <2>3 DEF ReadError, QuarantineFrom
    <3> QED
      BY <3>1, FewerFiles DEF IInv
  <2>4. CASE Rollback
    BY <2>4, RollingBack, AddedSelf
  <2>5. ASSUME NEW sums \in BOOLEAN, WriteRow(sums) PROVE Added(db.tab, db'.tab)
    <3>1. CASE Rollback
      BY <2>4, <3>1
    <3>2. CASE ~Rollback
      <4>1. \E rows : conn' = [conn EXCEPT !.files = rows] /\ db' = conn'
        BY <2>5, <3>2 DEF WriteRow
      <4> QED
        BY <4>1 DEF IInv, StoreInv
    <3> QED
      BY <3>1, <3>2
  <2>6. CASE ResolveSet
    BY <2>4, <2>6 DEF ResolveSet
  <2>7. CASE EditTags
    BY <2>7 DEF EditTags, IInv
  <2>8. CASE TxnFault
    BY <2>4, <2>8 DEF TxnFault
  <2>9. CASE Sweep
    BY <2>9, SweepTakes, FewerFiles DEF IInv
  <2>10. \/ \E f \in File : Delete(f)
         \/ \E t \in Dimension : ResolveDim(t)
         \/ \E sums \in BOOLEAN : WriteRow(sums)
         \/ ReadError \/ ResolveSet \/ EditTags \/ TxnFault \/ Sweep
    BY DEF Next, vars, Begin, DimRefused, Skip, ReadSummary, ResolveTopic, ResolveSchema, List,
           EditFault, DimFault, DimAutoRollback, Crash
  <2> QED
    BY <2>1, <2>2, <2>3, <2>5, <2>6, <2>7, <2>8, <2>9, <2>10
<1> QED
  BY <1>1, <1>2

-----------------------------------------------------------------------------
(* The theorems.                                                           *)

(* What is committed and what the connection sees are catalogs whose rows  *)
(* are one to an id and one to a key and find their parents, an open       *)
(* transaction only adds, and the caches are sound unless a rollback went  *)
(* unseen (builder.py:228).                                                *)
THEOREM Invariance == Spec => []IInv
<1>1. Init => IInv
  BY InitIInv
<1>2. IInv /\ [Next]_vars => IInv'
  BY NextIInv
<1> QED
  BY <1>1, <1>2, PTL DEF Spec

PassInv == pass \in [on : BOOLEAN, listed : SUBSET File]

(* What a step does to the pass: nothing, or an error ends it, or it lists *)
(* or sweeps.                                                              *)
LEMMA PassChange ==
    ASSUME [Next]_vars
    PROVE  \/ pass' = pass
           \/ pass' = NoPass /\ db' = db
           \/ \E listed \in SUBSET File : List(listed)
           \/ Sweep
BY DEF Next, vars, Begin, Delete, ResolveDim, DimRefused, Escapes, Skip, ReadError, ReadSummary,
       ResolveTopic, ResolveSchema, ResolveSet, WriteRow, Rollback, QuarantineFrom, EditTags,
       EditFault, DimFault, DimAutoRollback, TxnFault, Crash

LEMMA PassTyped == Spec => []PassInv
<1>1. Init => PassInv
  BY DEF Init, PassInv, NoPass
<1>2. PassInv /\ [Next]_vars => PassInv'
  <2> SUFFICES ASSUME PassInv, [Next]_vars PROVE PassInv'
    OBVIOUS
  <2>1. NoPass \in [on : BOOLEAN, listed : SUBSET File]
    BY DEF NoPass
  <2>2. ASSUME NEW listed \in SUBSET File, List(listed)
        PROVE  pass' \in [on : BOOLEAN, listed : SUBSET File]
    BY <2>2 DEF List
  <2>3. Sweep => pass' = NoPass
    BY DEF Sweep
  <2> QED
    BY <2>1, <2>2, <2>3, PassChange DEF PassInv
<1> QED
  BY <1>1, <1>2, PTL DEF Spec

(* The tables, the caches, the worker's object and its pass have their     *)
(* types, and no id is 0 (db.py:150).                                      *)
THEOREM TypeCorrect == Spec => []TypeOK
<1>1. IInv /\ PassInv => TypeOK
  <2> SUFFICES ASSUME IInv, PassInv PROVE TypeOK
    OBVIOUS
  <2>1. DOMAIN db = {"tab", "files"} /\ DOMAIN conn = {"tab", "files"}
    BY DEF IInv, StoreInv
  <2>2. \A t \in Table : \A r \in db.tab[t] \cup conn.tab[t] \cup cache[t] : RowShape(r)
    BY DEF IInv, StoreInv, Tables, TableInv, CacheInv
  <2>3. \A r : RowShape(r) => DOMAIN r = {"key", "id"} /\ r.id \in Nat \ {0}
    BY DEF RowShape
  <2>4. \A t \in Table : \A r \in db.tab[t] \cup conn.tab[t] \cup cache[t] :
            DOMAIN r = {"key", "id"} /\ r.id \in Nat \ {0}
    BY <2>2, <2>3
  <2> QED
    BY <2>1, <2>4 DEF IInv, WorkerInv, PassInv, TypeOK
<1> QED
  BY <1>1, Invariance, PassTyped, PTL

(* Every id a cache holds is the id its key has in the table the writer    *)
(* sees, as long as each rollback was followed by a reload                 *)
(* (builder.py:13).                                                        *)
THEOREM CacheSoundCorrect == Spec => []CacheSound
<1>1. IInv => CacheSound
  BY DEF IInv
<1> QED
  BY <1>1, Invariance, PTL

(* No committed row refers to an id that is not there, even once a cache   *)
(* is poisoned (db.py:81).                                                 *)
THEOREM NoDanglingIdCorrect == Spec => []NoDanglingId
<1>1. IInv => NoDanglingId
  BY DEF IInv, StoreInv, Linked, NoDanglingId
<1> QED
  BY <1>1, Invariance, PTL

(* A committed id keeps its meaning: the dictionaries are append-only      *)
(* (builder.py:142), and no two rows of a table share an id.               *)
THEOREM IdsAreStableCorrect == Spec => IdsAreStable
<1>1. ASSUME IInv, [Next]_vars
      PROVE  \A t \in Table : db.tab[t] \subseteq db'.tab[t]
                /\ \A r, s \in db'.tab[t] : r.id = s.id => r = s
  <2>1. Added(db.tab, db'.tab)
    BY <1>1, CommittedStays
  <2>2. IInv'
    BY <1>1, NextIInv
  <2> QED
    BY <2>1, <2>2 DEF Added, IInv, StoreInv, Tables, TableInv
<1>2. IInv /\ [Next]_vars =>
         [\A t \in Table : db.tab[t] \subseteq db'.tab[t]
            /\ \A r, s \in db'.tab[t] : r.id = s.id => r = s]_vars
  BY <1>1
<1> QED
  BY <1>2, Invariance, PTL DEF Spec, IdsAreStable

-----------------------------------------------------------------------------
(* The names behind the ids.                                               *)

Says(tab, t, key, id) == [key |-> key, id |-> id] \in tab[t]

\* A composite key of files, and the identity its ids lead back to.
KeySays(tab, c, f) ==
    /\ c = <<c[1], c[2], c[3], c[4], c[5]>> /\ f \in File /\ c[5] = f.name
    /\ Says(tab, "customers", <<0, f.customer>>, c[1])
    /\ Says(tab, "sites", <<c[1], f.site>>, c[2])
    /\ Says(tab, "robots", <<c[2], f.robot>>, c[3])
    /\ Says(tab, "sources", <<0, f.source>>, c[4])

\* The members of a topic set for the channels ch: one for each topic, under one of its schemas.
MembersSay(tab, members, ch) ==
    /\ \A m \in members : \E c \in ch : /\ Says(tab, "topic_names", <<0, c[1]>>, m[1])
                                        /\ Says(tab, "schemas", <<0, c[2]>>, m[2])
    /\ \A c \in ch : \E m \in members : Says(tab, "topic_names", <<0, c[1]>>, m[1])
    /\ \A m, n \in members : m[1] = n[1] => m = n

RowSays(tab, r) ==
    /\ KeySays(tab, r.comp, r.file)
    /\ r.content \in Content
    /\ \E s \in tab["topic_sets"] : s.id = r.set /\ MembersSay(tab, s.key, r.content)

\* The channels of the file in hand that are not yet among the members.
Ahead == job.left \cup (IF pc = "schema" THEN {job.channel} ELSE {})

KeyInHand ==
    /\ job.file \in File
    /\ pc # "customers" => Says(conn.tab, "customers", <<0, job.file.customer>>, job.ids["customers"])
    /\ pc \notin {"customers", "sites"} =>
          Says(conn.tab, "sites", <<job.ids["customers"], job.file.site>>, job.ids["sites"])
    /\ pc \notin {"customers", "sites", "robots"} =>
          Says(conn.tab, "robots", <<job.ids["sites"], job.file.robot>>, job.ids["robots"])
    /\ pc \notin Dimension =>
          Says(conn.tab, "sources", <<0, job.file.source>>, job.ids["sources"])

TopicsInHand ==
    /\ job.content \in Content /\ Ahead \subseteq job.content
    /\ MembersSay(conn.tab, job.members, job.content \ Ahead)
    /\ pc = "schema" => /\ job.channel \notin job.left
                        /\ Says(conn.tab, "topic_names", <<0, job.channel[1]>>, job.topic)
    /\ pc \in {"set", "write"} => job.left = {}
    /\ pc = "write" => Says(conn.tab, "topic_sets", job.members, job.set)

(* While no rollback went unseen: what the worker has in hand is what its  *)
(* ids say in the tables it sees, and so it is with every row.             *)
NamesInv ==
    /\ conn.files = db.files
    /\ undone = "never" =>
          /\ \A r \in db.files : RowSays(db.tab, r)
          /\ pc # "idle" => KeyInHand
          /\ pc \in Dimension \cup {"read"} => job.members = {}
          /\ pc \in {"channels", "schema", "set", "write"} => TopicsInHand

-----------------------------------------------------------------------------
(* What ids say stays said while rows are only added.                      *)

LEMMA TableNames ==
    {"customers", "sites", "robots", "sources", "topic_names", "schemas", "topic_sets"} = Table
BY DEF Table, Dimension

LEMMA KeyStays ==
    ASSUME NEW tab, NEW more, Added(tab, more), NEW c, NEW f, KeySays(tab, c, f)
    PROVE  KeySays(more, c, f)
BY TableNames DEF KeySays, Says, Added

LEMMA MembersStay ==
    ASSUME NEW tab, NEW more, Added(tab, more), NEW members, NEW ch, MembersSay(tab, members, ch)
    PROVE  MembersSay(more, members, ch)
<1>1. tab["topic_names"] \subseteq more["topic_names"] /\ tab["schemas"] \subseteq more["schemas"]
  BY TableNames DEF Added
<1> QED
  BY <1>1 DEF MembersSay, Says

LEMMA RowStays ==
    ASSUME NEW tab, NEW more, Added(tab, more), NEW r, RowSays(tab, r)
    PROVE  RowSays(more, r)
<1>1. KeySays(more, r.comp, r.file)
  BY KeyStays DEF RowSays
<1>2. PICK s \in tab["topic_sets"] : s.id = r.set /\ MembersSay(tab, s.key, r.content)
  BY DEF RowSays
<1>3. s \in more["topic_sets"]
  BY TableNames DEF Added
<1>4. MembersSay(more, s.key, r.content)
  BY <1>2, MembersStay
<1> QED
  BY <1>1, <1>2, <1>3, <1>4 DEF RowSays

\* A row of a lookup table is the only one of its id and of its key.
LEMMA OneSaid ==
    ASSUME NEW tab, Tables(tab), NEW t \in Table, NEW k1, NEW k2, NEW i1, NEW i2,
           Says(tab, t, k1, i1), Says(tab, t, k2, i2)
    PROVE  k1 = k2 <=> i1 = i2
<1>1. TableInv(tab[t])
  BY DEF Tables
<1>2. PICK r : r = [key |-> k1, id |-> i1]
  OBVIOUS
<1>3. PICK s : s = [key |-> k2, id |-> i2]
  OBVIOUS
<1>4. r \in tab[t] /\ s \in tab[t] /\ r.key = k1 /\ r.id = i1 /\ s.key = k2 /\ s.id = i2
  BY <1>2, <1>3 DEF Says
<1> QED
  BY <1>1, <1>4 DEF TableInv

\* Two composite keys are one if and only if they lead back to one identity.
LEMMA SameIdentity ==
    ASSUME NEW tab, Tables(tab), NEW c, NEW d, NEW f, NEW g, KeySays(tab, c, f), KeySays(tab, d, g)
    PROVE  c = d <=> f = g
<1>1. /\ f = [customer |-> f.customer, site |-> f.site, robot |-> f.robot,
              source |-> f.source, name |-> f.name]
      /\ g = [customer |-> g.customer, site |-> g.site, robot |-> g.robot,
              source |-> g.source, name |-> g.name]
  BY IdsAssumption DEF KeySays
<1>2. <<0, f.customer>> = <<0, g.customer>> <=> c[1] = d[1]
  BY TableNames, OneSaid DEF KeySays
<1>3. <<c[1], f.site>> = <<d[1], g.site>> <=> c[2] = d[2]
  BY TableNames, OneSaid DEF KeySays
<1>4. <<c[2], f.robot>> = <<d[2], g.robot>> <=> c[3] = d[3]
  BY TableNames, OneSaid DEF KeySays
<1>5. <<0, f.source>> = <<0, g.source>> <=> c[4] = d[4]
  BY TableNames, OneSaid DEF KeySays
<1>6. /\ c = <<c[1], c[2], c[3], c[4], c[5]>> /\ c[5] = f.name
      /\ d = <<d[1], d[2], d[3], d[4], d[5]>> /\ d[5] = g.name
  BY DEF KeySays
<1>7. ASSUME c = d PROVE f = g
  BY <1>1, <1>2, <1>3, <1>4, <1>5, <1>6, <1>7
<1>8. ASSUME f = g PROVE c = d
  <2>1. c[1] = d[1] /\ c[4] = d[4] /\ c[5] = d[5]
    BY <1>2, <1>5, <1>6, <1>8
  <2>2. c[2] = d[2]
    BY <1>3, <1>8, <2>1
  <2>3. c[3] = d[3]
    BY <1>4, <1>8, <2>2
  <2> QED
    BY <1>6, <2>1, <2>2, <2>3
<1> QED
  BY <1>7, <1>8

\* One channel more: its topic is new, or keeps the schema it has.
LEMMA ChannelAdded ==
    ASSUME NEW tab, Tables(tab), NEW members, NEW ch, MembersSay(tab, members, ch),
           NEW c, NEW topic, Says(tab, "topic_names", <<0, c[1]>>, topic),
           NEW schema, Says(tab, "schemas", <<0, c[2]>>, schema)
    PROVE  MembersSay(tab, IF \E m \in members : m[1] = topic THEN members
                           ELSE members \cup {<<topic, schema>>}, ch \cup {c})
<1>1. CASE \E m \in members : m[1] = topic
  BY <1>1 DEF MembersSay
<1>2. CASE ~ \E m \in members : m[1] = topic
  <2>1. PICK new : new = <<topic, schema>>
    OBVIOUS
  <2>2. new[1] = topic /\ new[2] = schema
    BY <2>1
  <2>3. \A m \in members \cup {new} : \E d \in ch \cup {c} :
            Says(tab, "topic_names", <<0, d[1]>>, m[1]) /\ Says(tab, "schemas", <<0, d[2]>>, m[2])
    BY <2>2 DEF MembersSay
  <2>4. \A d \in ch \cup {c} : \E m \in members \cup {new} : Says(tab, "topic_names", <<0, d[1]>>, m[1])
    BY <2>2 DEF MembersSay
  <2>5. \A m, n \in members \cup {new} : m[1] = n[1] => m = n
    BY <1>2, <2>2 DEF MembersSay
  <2>6. MembersSay(tab, members \cup {new}, ch \cup {c})
    BY <2>3, <2>4, <2>5 DEF MembersSay
  <2> QED
    BY <1>2, <2>1, <2>6
<1> QED
  BY <1>1, <1>2

\* What a statement that is not refused leaves said on the connection.
LEMMA StatementSays ==
    ASSUME IInv, undone = "never", NEW t \in Table, NEW key, ~Refused(t, key),
           conn' = ConnAfter(t, key), cache' = CacheAfter(t, key)
    PROVE  /\ Says(conn'.tab, t, key, ResolvedId(t, key))
           /\ Tables(conn'.tab) /\ Added(conn.tab, conn'.tab) /\ conn'.files = conn.files
<1>1. StoreInv(conn) /\ CacheInv /\ cache = conn.tab
  BY DEF IInv, CacheSound
<1>2. /\ StoreInv(ConnAfter(t, key)) /\ Added(conn.tab, ConnAfter(t, key).tab)
      /\ ConnAfter(t, key).files = conn.files
      /\ [key |-> key, id |-> ResolvedId(t, key)] \in CacheAfter(t, key)[t]
      /\ cache = conn.tab => CacheAfter(t, key) = ConnAfter(t, key).tab
  BY <1>1, Resolving
<1> QED
  BY <1>1, <1>2 DEF Says, StoreInv

-----------------------------------------------------------------------------
(* The steps.                                                              *)

\* Rows that stay say what they said.
LEMMA RowsStay ==
    ASSUME NamesInv, Added(db.tab, db'.tab), db'.files \subseteq db.files,
           undone' = "never" => undone = "never"
    PROVE  undone' = "never" => \A r \in db'.files : RowSays(db'.tab, r)
<1>1. PICK tab : tab = db.tab
  OBVIOUS
<1>2. PICK more : more = db'.tab
  OBVIOUS
<1>3. \A r : RowSays(tab, r) => RowSays(more, r)
  BY <1>1, <1>2, RowStays
<1> QED
  BY <1>1, <1>2, <1>3 DEF NamesInv

\* The worker comes to rest, or stays there.
LEMMA RestingNames ==
    ASSUME NamesInv, Added(db.tab, db'.tab), db'.files \subseteq db.files,
           undone' = "never" => undone = "never", pc' = "idle", conn'.files = db'.files
    PROVE  NamesInv'
<1>1. undone' = "never" => \A r \in db'.files : RowSays(db'.tab, r)
  BY RowsStay
<1> QED
  BY <1>1 DEF NamesInv, Dimension

LEMMA BeginNames == ASSUME IInv, NamesInv, NEW f \in File, Begin(f) PROVE NamesInv'
<1>1. /\ job' = [NoJob EXCEPT !.file = f] /\ pc' = "customers"
      /\ UNCHANGED <<db, conn, cache, faults, undone>>
  BY DEF Begin
<1>2. job'.file = f /\ job'.members = {}
  BY <1>1 DEF NoJob
<1>3. KeyInHand'
  BY <1>1, <1>2 DEF KeyInHand, Dimension
<1> QED
  BY <1>1, <1>2, <1>3 DEF NamesInv

(* A dimension more: what was resolved before it still says the same, and  *)
(* the row of this one hangs on the id of the one before.                  *)
LEMMA ResolveDimNames ==
    ASSUME IInv, NamesInv, Added(db.tab, db'.tab), NEW t \in Dimension, ResolveDim(t)
    PROVE  NamesInv'
<1>1. t \in Table
  BY DEF Table
<1>2. PICK key : key = DimKey(t)
  OBVIOUS
<1>3. PICK id : id = ResolvedId(t, key)
  OBVIOUS
<1>4. /\ pc = t /\ ~Refused(t, key) /\ conn' = ConnAfter(t, key) /\ cache' = CacheAfter(t, key)
      /\ job' = [job EXCEPT !.ids[t] = id] /\ pc' = NextPc[t]
      /\ db' = (IF t = "sources" THEN conn' ELSE db)
      /\ undone' = undone
  BY <1>2, <1>3 DEF ResolveDim
<1>5. /\ job'.ids = [job.ids EXCEPT ![t] = id] /\ job'.file = job.file /\ job'.members = job.members
      /\ job.ids \in [Dimension -> Nat]
  BY <1>4 DEF IInv, WorkerInv
<1>6. conn'.files = conn.files
  <2>1. StoreInv(conn) /\ CacheInv
    BY DEF IInv
  <2> QED
    BY <1>1, <1>4, <2>1, Resolving
<1>7. db'.files = db.files /\ conn'.files = db'.files
  BY <1>4, <1>6 DEF NamesInv
<1>8. undone' = "never" => \A r \in db'.files : RowSays(db'.tab, r)
  BY <1>4, <1>7, RowsStay
<1>9. ASSUME undone = "never"
      PROVE  KeyInHand' /\ job'.members = {}
  <2>1. Says(conn'.tab, t, key, id) /\ Added(conn.tab, conn'.tab)
    BY <1>1, <1>3, <1>4, <1>9, StatementSays
  <2>2. \A u \in Table : \A k, i : Says(conn.tab, u, k, i) => Says(conn'.tab, u, k, i)
    BY <2>1 DEF Says, Added
  <2>3. KeyInHand /\ job.members = {}
    BY <1>4, <1>9 DEF NamesInv, Dimension
  <2>4. CASE t = "customers"
    <3>1. key = <<0, job.file.customer>> /\ pc' = "sites"
      BY <1>2, <1>4, <2>4 DEF DimKey, NextPc
    <3> QED
      BY <1>5, <2>1, <2>3, <2>4, <3>1 DEF KeyInHand, Dimension
  <2>5. CASE t = "sites"
    <3>1. key = <<job.ids["customers"], job.file.site>> /\ pc' = "robots"
      BY <1>2, <1>4, <2>5 DEF DimKey, NextPc
    <3>2. Says(conn'.tab, "customers", <<0, job.file.customer>>, job.ids["customers"])
      BY <1>4, <2>2, <2>3, <2>5, TableNames DEF KeyInHand
    <3>3. job'.ids["customers"] = job.ids["customers"] /\ job'.ids["sites"] = id
      BY <1>5, <2>5 DEF Dimension
    <3> QED
      BY <1>5, <2>1, <2>3, <2>5, <3>1, <3>2, <3>3 DEF KeyInHand, Dimension
  <2>6. CASE t = "robots"
    <3>1. key = <<job.ids["sites"], job.file.robot>> /\ pc' = "sources"
      BY <1>2, <1>4, <2>6 DEF DimKey, NextPc
    <3>2. /\ Says(conn'.tab, "customers", <<0, job.file.customer>>, job.ids["customers"])
          /\ Says(conn'.tab, "sites", <<job.ids["customers"], job.file.site>>, job.ids["sites"])
      BY <1>4, <2>2, <2>3, <2>6, TableNames DEF KeyInHand
    <3>3. /\ job'.ids["customers"] = job.ids["customers"] /\ job'.ids["sites"] = job.ids["sites"]
          /\ job'.ids["robots"] = id
      BY <1>5, <2>6 DEF Dimension
    <3> QED
      BY <1>5, <2>1, <2>3, <2>6, <3>1, <3>2, <3>3 DEF KeyInHand, Dimension
  <2>7. CASE t = "sources"
    <3>1. key = <<0, job.file.source>> /\ pc' = "read"
      BY <1>2, <1>4, <2>7 DEF DimKey, NextPc
    <3>2. /\ Says(conn'.tab, "customers", <<0, job.file.customer>>, job.ids["customers"])
          /\ Says(conn'.tab, "sites", <<job.ids["customers"], job.file.site>>, job.ids["sites"])
          /\ Says(conn'.tab, "robots", <<job.ids["sites"], job.file.robot>>, job.ids["robots"])
      BY <1>4, <2>2, <2>3, <2>7, TableNames DEF KeyInHand
    <3>3. /\ job'.ids["customers"] = job.ids["customers"] /\ job'.ids["sites"] = job.ids["sites"]
          /\ job'.ids["robots"] = job.ids["robots"] /\ job'.ids["sources"] = id
      BY <1>5, <2>7 DEF Dimension
    <3> QED
      BY <1>5, <2>1, <2>3, <2>7, <3>1, <3>2, <3>3 DEF KeyInHand, Dimension
  <2>8. job'.members = {}
    BY <1>5, <2>3
  <2> QED
    BY <2>4, <2>5, <2>6, <2>7, <2>8 DEF Dimension
<1>10. pc' \in {"sites", "robots", "sources", "read"}
  BY <1>4 DEF Dimension, NextPc
<1> QED
  BY <1>4, <1>7, <1>8, <1>9, <1>10 DEF NamesInv

LEMMA ReadSummaryNames ==
    ASSUME IInv, NamesInv, NEW ch \in Content, ReadSummary(ch)
    PROVE  NamesInv'
<1>1. /\ job' = [[job EXCEPT !.left = ch] EXCEPT !.content = ch]
      /\ pc = "read" /\ pc' = "channels" /\ UNCHANGED <<db, conn, cache, faults, undone>>
  BY DEF ReadSummary
<1>2. /\ job'.file = job.file /\ job'.ids = job.ids /\ job'.members = job.members
      /\ job'.left = ch /\ job'.content = ch
  BY <1>1 DEF IInv, WorkerInv
<1>3. ASSUME undone = "never"
      PROVE  KeyInHand' /\ TopicsInHand'
  <2>1. KeyInHand /\ job.members = {}
    BY <1>1, <1>3 DEF NamesInv
  <2>2. KeyInHand'
    BY <1>1, <1>2, <2>1 DEF KeyInHand, Dimension
  <2>3. Ahead' = ch
    BY <1>1, <1>2 DEF Ahead
  <2>4. MembersSay(conn'.tab, job'.members, job'.content \ Ahead')
    BY <1>2, <2>1, <2>3 DEF MembersSay
  <2> QED
    BY <1>1, <1>2, <2>2, <2>3, <2>4 DEF TopicsInHand
<1> QED
  BY <1>1, <1>3 DEF NamesInv, Dimension

\* What a statement of the per-file transaction leaves of the rows and the key in hand.
LEMMA InTransaction ==
    ASSUME IInv, NamesInv, NEW t \in Table, NEW key, ~Refused(t, key),
           conn' = ConnAfter(t, key), cache' = CacheAfter(t, key), UNCHANGED <<db, undone>>,
           pc \in {"channels", "schema", "set"}, pc' \in {"channels", "schema", "set", "write"},
           job'.file = job.file, job'.ids = job.ids, undone = "never" => TopicsInHand'
    PROVE  NamesInv'
<1>1. conn'.files = db'.files
  <2>1. StoreInv(conn) /\ CacheInv
    BY DEF IInv
  <2> QED
    BY <2>1, Resolving DEF NamesInv
<1>2. ASSUME undone = "never"
      PROVE  KeyInHand'
  <2>1. Added(conn.tab, conn'.tab)
    BY <1>2, StatementSays
  <2>2. \A u \in Table : \A k, i : Says(conn.tab, u, k, i) => Says(conn'.tab, u, k, i)
    BY <2>1 DEF Says, Added
  <2>3. KeyInHand /\ pc \notin Dimension
    BY <1>2 DEF NamesInv, Dimension
  <2> QED
    BY <2>2, <2>3, TableNames DEF KeyInHand, Dimension
<1> QED
  BY <1>1, <1>2 DEF NamesInv, Dimension

LEMMA ResolveTopicNames ==
    ASSUME IInv, NamesInv, NEW c \in job.left, ResolveTopic(c)
    PROVE  NamesInv'
<1>1. "topic_names" \in Table
  BY TableNames
<1>2. PICK key : key = <<0, c[1]>>
  OBVIOUS
<1>3. PICK id : id = ResolvedId("topic_names", key)
  OBVIOUS
<1>4. /\ conn' = ConnAfter("topic_names", key) /\ cache' = CacheAfter("topic_names", key)
      /\ job' = [[[job EXCEPT !.left = @ \ {c}] EXCEPT !.channel = c] EXCEPT !.topic = id]
      /\ pc = "channels" /\ pc' = "schema" /\ UNCHANGED <<db, faults, undone>>
  BY <1>2, <1>3 DEF ResolveTopic
<1>5. ~Refused("topic_names", key)
  BY DEF Refused, ParentThere
<1>6. /\ job'.file = job.file /\ job'.ids = job.ids /\ job'.members = job.members
      /\ job'.content = job.content /\ job'.left = job.left \ {c} /\ job'.channel = c
      /\ job'.topic = id
  BY <1>4 DEF IInv, WorkerInv
<1>7. ASSUME undone = "never"
      PROVE  TopicsInHand'
  <2>1. TopicsInHand
    BY <1>4, <1>7 DEF NamesInv
  <2>2. Says(conn'.tab, "topic_names", key, id) /\ Added(conn.tab, conn'.tab)
    BY <1>1, <1>3, <1>4, <1>5, <1>7, StatementSays
  <2>3. Ahead' = Ahead
    BY <1>4, <1>6 DEF Ahead
  <2>4. MembersSay(conn'.tab, job'.members, job'.content \ Ahead')
    <3>1. PICK tab, more, members, ch : tab = conn.tab /\ more = conn'.tab /\ members = job.members
                                        /\ ch = job.content \ Ahead
      OBVIOUS
    <3>2. MembersSay(more, members, ch)
      BY <2>1, <2>2, <3>1, MembersStay DEF TopicsInHand
    <3> QED
      BY <1>6, <2>3, <3>1, <3>2
  <2> QED
    BY <1>2, <1>4, <1>6, <2>1, <2>2, <2>3, <2>4 DEF TopicsInHand
<1> QED
  BY <1>1, <1>4, <1>5, <1>6, <1>7, InTransaction

LEMMA ResolveSchemaNames ==
    ASSUME IInv, NamesInv, ResolveSchema
    PROVE  NamesInv'
<1>1. "schemas" \in Table
  BY TableNames
<1>2. PICK key : key = <<0, job.channel[2]>>
  OBVIOUS
<1>3. PICK id : id = ResolvedId("schemas", key)
  OBVIOUS
<1>4. PICK totals : totals = Counted(job.totals, job.topic, Messages[job.channel])
  OBVIOUS
<1>5. PICK members : members = IF \E m \in job.members : m[1] = job.topic THEN job.members
                               ELSE job.members \cup {<<job.topic, id>>}
  OBVIOUS
<1>6. /\ conn' = ConnAfter("schemas", key) /\ cache' = CacheAfter("schemas", key)
      /\ job' = [[job EXCEPT !.totals = totals] EXCEPT !.members = members]
      /\ pc = "schema" /\ pc' = (IF job.left = {} THEN "set" ELSE "channels")
      /\ UNCHANGED <<db, faults, undone>>
  BY <1>2, <1>3, <1>4, <1>5 DEF ResolveSchema
<1>7. ~Refused("schemas", key)
  BY DEF Refused, ParentThere
<1>8. /\ job'.file = job.file /\ job'.ids = job.ids /\ job'.members = members
      /\ job'.content = job.content /\ job'.left = job.left /\ job'.channel = job.channel
      /\ job'.topic = job.topic
  BY <1>6 DEF IInv, WorkerInv
<1>9. ASSUME undone = "never"
      PROVE  TopicsInHand'
  <2>1. TopicsInHand
    BY <1>6, <1>9 DEF NamesInv
  <2>2. Says(conn'.tab, "schemas", key, id) /\ Added(conn.tab, conn'.tab) /\ Tables(conn'.tab)
    BY <1>1, <1>3, <1>6, <1>7, <1>9, StatementSays
  <2>3. PICK tab, more, c : tab = conn.tab /\ more = conn'.tab /\ c = job.channel
    OBVIOUS
  <2>4. PICK ch : ch = job.content \ Ahead
    OBVIOUS
  <2>5. MembersSay(more, job.members, ch)
    BY <2>1, <2>2, <2>3, <2>4, MembersStay DEF TopicsInHand
  <2>6. Says(more, "topic_names", <<0, c[1]>>, job.topic)
    BY <1>6, <2>1, <2>2, <2>3, TableNames DEF TopicsInHand, Says, Added
  <2>7. Says(more, "schemas", <<0, c[2]>>, id) /\ Tables(more)
    BY <1>2, <2>2, <2>3
  <2>8. MembersSay(more, members, ch \cup {c})
    BY <1>5, <2>5, <2>6, <2>7, ChannelAdded
  <2>9. Ahead = job.left \cup {c} /\ Ahead' = job.left
    BY <1>6, <1>8, <2>3 DEF Ahead
  <2>10. job.content \ job.left = ch \cup {c}
    BY <1>6, <2>1, <2>3, <2>4, <2>9 DEF TopicsInHand
  <2> QED
    BY <1>6, <1>8, <2>1, <2>3, <2>8, <2>9, <2>10 DEF TopicsInHand
<1> QED
  BY <1>1, <1>6, <1>7, <1>8, <1>9, InTransaction

\* resolve_topic_set, not refused.
LEMMA ResolveSetNames ==
    ASSUME IInv, NamesInv, ResolveSet, ~Refused("topic_sets", job.members)
    PROVE  NamesInv'
<1>1. "topic_sets" \in Table
  BY TableNames
<1>2. PICK key : key = job.members
  OBVIOUS
<1>3. PICK id : id = ResolvedId("topic_sets", key)
  OBVIOUS
<1>4. /\ conn' = ConnAfter("topic_sets", key) /\ cache' = CacheAfter("topic_sets", key)
      /\ job' = [job EXCEPT !.set = id] /\ pc' = "write" /\ ~Refused("topic_sets", key)
      /\ pc = "set" \/ (pc = "channels" /\ job.left = {})
      /\ UNCHANGED <<db, faults, undone>>
  BY <1>2, <1>3 DEF ResolveSet
<1>5. /\ job'.file = job.file /\ job'.ids = job.ids /\ job'.members = job.members
      /\ job'.content = job.content /\ job'.left = job.left /\ job'.channel = job.channel
      /\ job'.topic = job.topic /\ job'.set = id
  BY <1>4 DEF IInv, WorkerInv
<1>6. ASSUME undone = "never"
      PROVE  TopicsInHand'
  <2>1. TopicsInHand /\ job.left = {}
    BY <1>4, <1>6 DEF NamesInv, TopicsInHand
  <2>2. Says(conn'.tab, "topic_sets", key, id) /\ Added(conn.tab, conn'.tab)
    BY <1>1, <1>3, <1>4, <1>6, StatementSays
  <2>3. PICK tab, more, members, ch : tab = conn.tab /\ more = conn'.tab /\ members = job.members
                                      /\ ch = job.content \ Ahead
    OBVIOUS
  <2>4. MembersSay(more, members, ch)
    BY <2>1, <2>2, <2>3, MembersStay DEF TopicsInHand
  <2>5. Ahead = {} /\ Ahead' = {}
    BY <1>4, <1>5, <2>1 DEF Ahead
  <2> QED
    BY <1>2, <1>4, <1>5, <2>1, <2>2, <2>3, <2>4, <2>5 DEF TopicsInHand
<1> QED
  BY <1>1, <1>4, <1>5, <1>6, InTransaction

\* The row that is written says what is in hand.
LEMMA WriteRowNames ==
    ASSUME IInv, NamesInv, Added(db.tab, db'.tab), NEW sums \in BOOLEAN, WriteRow(sums),
           sums, RowParentsThere,
           NEW row, row = [comp |-> Composite(job.ids, job.file), set |-> job.set,
                           counts |-> Blob(job.totals), file |-> job.file, content |-> job.content]
    PROVE  /\ NamesInv'
           /\ undone = "never" => RowSays(db'.tab, row)
           /\ db'.files = (db.files \ RowsOf(db, row.comp)) \cup {row}
           /\ UNCHANGED undone
<1>1. row.comp = Composite(job.ids, job.file)
  OBVIOUS
<1>2. /\ conn' = [conn EXCEPT !.files = (@ \ RowsOf(conn, row.comp)) \cup {row}]
      /\ db' = conn' /\ pc = "write" /\ pc' = "idle" /\ undone' = undone
  BY <1>1 DEF WriteRow, AtRest
<1>3. conn'.tab = conn.tab /\ conn'.files = (conn.files \ RowsOf(conn, row.comp)) \cup {row}
  BY <1>2 DEF IInv, StoreInv
<1>4. db'.files = (db.files \ RowsOf(db, row.comp)) \cup {row}
  BY <1>2, <1>3 DEF NamesInv, RowsOf
<1>5. ASSUME undone = "never"
      PROVE  RowSays(db'.tab, row)
  <2>1. KeyInHand /\ TopicsInHand /\ pc \notin Dimension /\ pc # "customers"
    BY <1>2, <1>5 DEF NamesInv, Dimension
  <2>2. KeySays(conn.tab, row.comp, job.file)
    BY <1>1, <2>1 DEF KeyInHand, KeySays, Composite, Dimension
  <2>3. job.content \ Ahead = job.content
    BY <1>2, <2>1 DEF TopicsInHand, Ahead
  <2>4. Says(conn.tab, "topic_sets", job.members, job.set) /\ job.content \in Content
        /\ MembersSay(conn.tab, job.members, job.content)
    BY <1>2, <2>1, <2>3 DEF TopicsInHand
  <2>5. PICK s : s = [key |-> job.members, id |-> job.set]
    OBVIOUS
  <2>6. s \in conn.tab["topic_sets"] /\ s.key = job.members /\ s.id = job.set
    BY <2>4, <2>5 DEF Says
  <2> QED
    BY <1>2, <1>3, <2>2, <2>4, <2>6 DEF RowSays
<1>6. ASSUME undone' = "never"
      PROVE  \A r \in db'.files : RowSays(db'.tab, r)
  <2>1. PICK tab, more : tab = db.tab /\ more = db'.tab
    OBVIOUS
  <2>2. \A r : RowSays(tab, r) => RowSays(more, r)
    BY <2>1, RowStays
  <2>3. \A r \in db.files : RowSays(more, r)
    BY <1>2, <1>6, <2>1, <2>2 DEF NamesInv
  <2> QED
    BY <1>2, <1>4, <1>5, <1>6, <2>1, <2>3
<1> QED
  BY <1>2, <1>4, <1>5, <1>6 DEF NamesInv, Dimension

LEMMA InitNames == Init => NamesInv
BY DEF Init, NamesInv, Dimension, NoJob

(* All that brings the worker to rest, or happens while it rests: rows go  *)
(* at most.                                                                *)
Rests == \/ \E f \in File : Delete(f)
         \/ \E t \in Dimension : DimRefused(t)
         \/ \E listed \in SUBSET File : List(listed)
         \/ Sweep \/ Skip \/ ReadError
         \/ EditTags \/ EditFault \/ DimFault \/ DimAutoRollback \/ Crash \/ Rollback

\* What brings the worker to rest takes rows away at most.
LEMMA RestsChange ==
    ASSUME IInv, NamesInv, Rests
    PROVE  /\ pc' = "idle"
           /\ undone' = "never" => undone = "never"
           /\ db'.files \subseteq db.files /\ conn'.files = db'.files
<1>1. pc' = "idle"
  BY DEF Rests, AtRest, Escapes, Delete, DimRefused, List, Sweep, Skip, ReadError, EditTags,
         EditFault, DimFault, DimAutoRollback, Crash, Rollback, QuarantineFrom
<1>2. undone' = "never" => undone = "never"
  BY DEF Rests, Undo, Reload, Delete, DimRefused, List, Sweep, Skip, ReadError, EditTags,
         EditFault, DimFault, DimAutoRollback, Crash, Rollback
<1>3. db'.files \subseteq db.files /\ conn'.files = db'.files
  <2> DEFINE Fewer == \E d \in {db, conn} : \E gone : conn' = [d EXCEPT !.files = @ \ gone] /\ db' = conn'
  <2>1. CASE Fewer
    BY <2>1 DEF IInv, StoreInv, NamesInv
  <2>2. CASE \E f \in File : Delete(f)
    <3>1. Fewer
      BY <2>2 DEF Delete
    <3> QED
      BY <2>1, <3>1
  <2>3. CASE ReadError \/ Rollback
    <3>1. Fewer
      BY <2>3 DEF ReadError, Rollback, QuarantineFrom
    <3> QED
      BY <2>1, <3>1
  <2>4. CASE Sweep
    <3>1. Fewer
      BY <2>4, SweepTakes
    <3> QED
      BY <2>1, <3>1
  <2>5. CASE ~(ReadError \/ Rollback \/ Sweep \/ \E f \in File : Delete(f))
    BY <2>5 DEF Rests, Undo, NamesInv, DimRefused, List, Skip, EditTags, EditFault, DimFault,
           DimAutoRollback, Crash
  <2> QED
    BY <2>2, <2>3, <2>4, <2>5
<1> QED
  BY <1>1, <1>2, <1>3

LEMMA RestsNames ==
    ASSUME IInv, NamesInv, Added(db.tab, db'.tab), Rests
    PROVE  NamesInv'
BY RestsChange, RestingNames

LEMMA NextNames == IInv /\ NamesInv /\ [Next]_vars => NamesInv'
<1> SUFFICES ASSUME IInv, NamesInv, [Next]_vars PROVE NamesInv'
  OBVIOUS
<1>1. Added(db.tab, db'.tab)
  BY CommittedStays
<1>2. CASE Rests
  BY <1>1, <1>2, RestsNames
<1>3. ASSUME NEW f \in File, Begin(f) PROVE NamesInv'
  BY <1>3, BeginNames
<1>4. ASSUME NEW t \in Dimension, ResolveDim(t) PROVE NamesInv'
  BY <1>1, <1>4, ResolveDimNames
<1>5. ASSUME NEW ch \in Content, ReadSummary(ch) PROVE NamesInv'
  BY <1>5, ReadSummaryNames
<1>6. ASSUME NEW c \in job.left, ResolveTopic(c) PROVE NamesInv'
  BY <1>6, ResolveTopicNames
<1>7. CASE ResolveSchema
  BY <1>7, ResolveSchemaNames
<1>8. CASE ResolveSet
  <2>1. CASE Refused("topic_sets", job.members)
    BY <1>2, <1>8, <2>1 DEF ResolveSet, Rests
  <2> QED
    BY <1>8, <2>1, ResolveSetNames
<1>9. ASSUME NEW sums \in BOOLEAN, WriteRow(sums) PROVE NamesInv'
  <2>1. CASE sums /\ RowParentsThere
    BY <1>1, <1>9, <2>1, WriteRowNames
  <2> QED
    BY <1>2, <1>9, <2>1 DEF WriteRow, Rests
<1>10. CASE TxnFault
  BY <1>2, <1>10 DEF TxnFault, Rests
<1>11. CASE UNCHANGED vars
  BY <1>11 DEF vars, NamesInv, KeyInHand, TopicsInHand, Ahead
<1> QED
  BY <1>2, <1>3, <1>4, <1>5, <1>6, <1>7, <1>8, <1>9, <1>10, <1>11 DEF Next, Rests

(* Through every failure, as long as the connection has not lost a         *)
(* statement: the committed rows of files, the composite key and the       *)
(* members in hand, each lead through the tables to the names they were    *)
(* resolved from.  Names repeat no id, so they lead nowhere else.          *)
THEOREM NamesInvariance == Spec => [](IInv /\ NamesInv)
<1>1. Init => NamesInv
  BY InitNames
<1>2. IInv /\ NamesInv /\ [Next]_vars => NamesInv'
  BY NextNames
<1> QED
  BY <1>1, <1>2, Invariance, PTL DEF Spec

-----------------------------------------------------------------------------
(* What a reader's joins find.                                             *)

LEMMA KeyFound ==
    ASSUME NEW tab, Tables(tab), NEW t \in Table, NEW key, NEW id, Says(tab, t, key, id)
    PROVE  KeyOf(tab, t, id) = key
<1>1. PICK r : r = [key |-> key, id |-> id]
  OBVIOUS
<1>2. r \in tab[t] /\ r.id = id /\ r.key = key
  BY <1>1 DEF Says
<1>3. \A s \in tab[t] : s.id = id => s = r
  BY <1>2 DEF Tables, TableInv
<1> QED
  BY <1>2, <1>3 DEF KeyOf

\* The topics of a row, member by member.
LEMMA TopicsFound ==
    ASSUME NEW tab, Tables(tab), NEW r, NEW s \in tab["topic_sets"], s.id = r.set
    PROVE  /\ KeyOf(tab, "topic_sets", r.set) = s.key
           /\ TopicsOf(tab, r) = {<<NameOf(tab, "topic_names", m[1]), NameOf(tab, "schemas", m[2])>>
                                    : m \in s.key}
           /\ TopicIds(tab, r) = {m[1] : m \in s.key}
<1>1. Says(tab, "topic_sets", s.key, r.set)
  BY TableNames DEF Tables, TableInv, RowShape, Says
<1>2. KeyOf(tab, "topic_sets", r.set) = s.key
  BY <1>1, TableNames, KeyFound
<1> QED
  BY <1>2 DEF TopicsOf, TopicIds

\* The names of a member are those of a channel of the file.
LEMMA MemberFound ==
    ASSUME NEW tab, Tables(tab), NEW members, NEW ch, MembersSay(tab, members, ch),
           \A c \in ch : c = <<c[1], c[2]>>, NEW m \in members
    PROVE  \E c \in ch : /\ <<NameOf(tab, "topic_names", m[1]), NameOf(tab, "schemas", m[2])>> = c
                         /\ Says(tab, "topic_names", <<0, c[1]>>, m[1])
                         /\ Says(tab, "schemas", <<0, c[2]>>, m[2])
<1>1. PICK c \in ch : /\ Says(tab, "topic_names", <<0, c[1]>>, m[1])
                      /\ Says(tab, "schemas", <<0, c[2]>>, m[2])
  BY DEF MembersSay
<1>2. KeyOf(tab, "topic_names", m[1]) = <<0, c[1]>> /\ KeyOf(tab, "schemas", m[2]) = <<0, c[2]>>
  BY <1>1, TableNames, KeyFound
<1>3. NameOf(tab, "topic_names", m[1]) = c[1] /\ NameOf(tab, "schemas", m[2]) = c[2]
  BY <1>2 DEF NameOf
<1>4. c = <<c[1], c[2]>>
  OBVIOUS
<1>5. <<NameOf(tab, "topic_names", m[1]), NameOf(tab, "schemas", m[2])>> = c
  BY <1>3, <1>4
<1> QED
  BY <1>1, <1>5

\* One topic for each that the file has, under one of its schemas.
LEMMA TopicsAreTheFiles ==
    ASSUME NEW tab, Tables(tab), NEW r, RowSays(tab, r)
    PROVE  /\ TopicsOf(tab, r) \subseteq r.content
           /\ {c[1] : c \in TopicsOf(tab, r)} = {c[1] : c \in r.content}
           /\ \A c, d \in TopicsOf(tab, r) : c[1] = d[1] => c = d
<1>1. PICK s \in tab["topic_sets"] : s.id = r.set /\ MembersSay(tab, s.key, r.content)
  BY DEF RowSays
<1>2. PICK names : names = [m \in s.key |-> <<NameOf(tab, "topic_names", m[1]), NameOf(tab, "schemas", m[2])>>]
  OBVIOUS
<1>3. TopicsOf(tab, r) = {names[m] : m \in s.key}
  BY <1>1, <1>2, TopicsFound
<1>4. \A c \in r.content : c = <<c[1], c[2]>>
  BY IdsAssumption DEF RowSays
<1>5. \A m \in s.key : /\ names[m] \in r.content
                       /\ Says(tab, "topic_names", <<0, names[m][1]>>, m[1])
  <2> SUFFICES ASSUME NEW m \in s.key
               PROVE  /\ names[m] \in r.content
                      /\ Says(tab, "topic_names", <<0, names[m][1]>>, m[1])
    OBVIOUS
  <2>1. MembersSay(tab, s.key, r.content)
    BY <1>1
  <2>2. PICK c \in r.content :
            /\ <<NameOf(tab, "topic_names", m[1]), NameOf(tab, "schemas", m[2])>> = c
            /\ Says(tab, "topic_names", <<0, c[1]>>, m[1])
    BY <1>4, <2>1, MemberFound
  <2>3. names[m] = c
    BY <1>2, <2>2
  <2> QED
    BY <2>2, <2>3
<1>6. TopicsOf(tab, r) \subseteq r.content
  BY <1>3, <1>5
<1>7. ASSUME NEW c \in r.content
      PROVE  \E d \in TopicsOf(tab, r) : d[1] = c[1]
  <2>1. PICK m \in s.key : Says(tab, "topic_names", <<0, c[1]>>, m[1])
    BY <1>1 DEF MembersSay
  <2>2. Says(tab, "topic_names", <<0, names[m][1]>>, m[1]) /\ "topic_names" \in Table
    BY <1>5, TableNames
  <2>3. <<0, c[1]>> = <<0, names[m][1]>>
    BY <2>1, <2>2, OneSaid
  <2> QED
    BY <1>3, <2>3
<1>8. ASSUME NEW c \in TopicsOf(tab, r), NEW d \in TopicsOf(tab, r), c[1] = d[1]
      PROVE  c = d
  <2>1. PICK m \in s.key, n \in s.key : c = names[m] /\ d = names[n]
    BY <1>3
  <2>2. Says(tab, "topic_names", <<0, c[1]>>, m[1]) /\ Says(tab, "topic_names", <<0, d[1]>>, n[1])
    BY <1>5, <2>1
  <2>3. m[1] = n[1]
    BY <1>8, <2>2, TableNames, OneSaid
  <2> QED
    BY <1>1, <2>1, <2>3 DEF MembersSay
<1> QED
  BY <1>6, <1>7, <1>8

LEMMA NamesFound ==
    ASSUME NEW tab, Tables(tab), NEW r, RowSays(tab, r)
    PROVE  NamesSayItsFile(tab, r) /\ NamedRow(tab, r).file = r.file
<1>1. /\ KeyOf(tab, "customers", r.comp[1]) = <<0, r.file.customer>>
      /\ KeyOf(tab, "sites", r.comp[2]) = <<r.comp[1], r.file.site>>
      /\ KeyOf(tab, "robots", r.comp[3]) = <<r.comp[2], r.file.robot>>
      /\ KeyOf(tab, "sources", r.comp[4]) = <<0, r.file.source>>
      /\ r.comp[5] = r.file.name
  BY TableNames, KeyFound DEF RowSays, KeySays
<1>2. NamesSayItsFile(tab, r)
  BY <1>1, TopicsAreTheFiles DEF NamesSayItsFile
<1>3. r.file = [customer |-> r.file.customer, site |-> r.file.site, robot |-> r.file.robot,
                source |-> r.file.source, name |-> r.file.name]
  BY IdsAssumption DEF RowSays, KeySays
<1> QED
  BY <1>1, <1>2, <1>3 DEF NamedRow, NameOf

(* A row says the same in every table with more rows.                      *)
LEMMA SameNames ==
    ASSUME NEW tab, Tables(tab), NEW more, Tables(more), Added(tab, more), NEW r, RowSays(tab, r)
    PROVE  NamedRow(more, r) = NamedRow(tab, r)
<1>1. \A t \in Table : \A key, id : Says(tab, t, key, id) =>
          KeyOf(tab, t, id) = key /\ KeyOf(more, t, id) = key
  <2>1. \A t \in Table : \A key, id : Says(tab, t, key, id) => Says(more, t, key, id)
    BY DEF Says, Added
  <2> QED
    BY <2>1, KeyFound
<1>2. PICK s \in tab["topic_sets"] : s.id = r.set /\ MembersSay(tab, s.key, r.content)
  BY DEF RowSays
<1>3. s \in more["topic_sets"]
  BY TableNames DEF Added
<1>4. \A m \in s.key : \E c : /\ Says(tab, "topic_names", <<0, c[1]>>, m[1])
                              /\ Says(tab, "schemas", <<0, c[2]>>, m[2])
  BY <1>2 DEF MembersSay
<1>5. \A m \in s.key : /\ NameOf(more, "topic_names", m[1]) = NameOf(tab, "topic_names", m[1])
                       /\ NameOf(more, "schemas", m[2]) = NameOf(tab, "schemas", m[2])
  BY <1>1, <1>4, TableNames DEF NameOf
<1>6. TopicsOf(more, r) = TopicsOf(tab, r)
  <2>1. TopicsOf(tab, r) = {<<NameOf(tab, "topic_names", m[1]), NameOf(tab, "schemas", m[2])>> : m \in s.key}
    BY <1>2, TopicsFound
  <2>2. TopicsOf(more, r) = {<<NameOf(more, "topic_names", m[1]), NameOf(more, "schemas", m[2])>> : m \in s.key}
    BY <1>2, <1>3, TopicsFound
  <2> QED
    BY <1>5, <2>1, <2>2
<1>7. /\ NameOf(more, "customers", r.comp[1]) = NameOf(tab, "customers", r.comp[1])
      /\ NameOf(more, "sites", r.comp[2]) = NameOf(tab, "sites", r.comp[2])
      /\ NameOf(more, "robots", r.comp[3]) = NameOf(tab, "robots", r.comp[3])
      /\ NameOf(more, "sources", r.comp[4]) = NameOf(tab, "sources", r.comp[4])
  BY <1>1, TableNames DEF NameOf, RowSays, KeySays
<1> QED
  BY <1>6, <1>7 DEF NamedRow

-----------------------------------------------------------------------------
(* NamedCatalog, step by step.                                             *)

\* The key in hand is whole once the dimensions are resolved.
LEMMA KeyWhole ==
    ASSUME NamesInv, undone = "never", pc \in {"read", "channels", "schema", "set", "write"}
    PROVE  KeySays(conn.tab, Composite(job.ids, job.file), job.file)
<1>1. KeyInHand /\ pc \notin Dimension /\ pc \notin {"customers", "sites", "robots"}
  BY DEF NamesInv, Dimension
<1>2. PICK c : c = Composite(job.ids, job.file)
  OBVIOUS
<1>3. /\ c = <<c[1], c[2], c[3], c[4], c[5]>> /\ c[1] = job.ids["customers"] /\ c[2] = job.ids["sites"]
      /\ c[3] = job.ids["robots"] /\ c[4] = job.ids["sources"] /\ c[5] = job.file.name
  BY <1>2 DEF Composite
<1>4. KeySays(conn.tab, c, job.file)
  BY <1>1, <1>3 DEF KeyInHand, KeySays
<1> QED
  BY <1>2, <1>4

\* The rows of a composite key are those of the identity it leads back to.
LEMMA RowsOfIdentity ==
    ASSUME IInv, NamesInv, undone = "never", NEW c, NEW f, KeySays(conn.tab, c, f), NEW r \in db.files
    PROVE  r \in RowsOf(db, c) <=> r.file = f
<1>1. PICK tab, more : tab = db.tab /\ more = conn.tab
  OBVIOUS
<1>2. Added(tab, more) /\ RowSays(tab, r) /\ Tables(more)
  BY <1>1 DEF IInv, StoreInv, NamesInv
<1>3. KeySays(more, r.comp, r.file)
  BY <1>2, RowStays DEF RowSays
<1>4. r.comp = c <=> r.file = f
  BY <1>1, <1>2, <1>3, SameIdentity
<1> QED
  BY <1>4 DEF RowsOf

(* The composite key of a deletion or a listing, whose ids come from the   *)
(* caches: where all are there, they are those of the identity ...         *)
LEMMA CachedSays ==
    ASSUME IInv, undone = "never", NEW f \in File, Cached(f)
    PROVE  KeySays(conn.tab, CachedKey(f), f)
<1> DEFINE id(t, key) == IF Has(cache[t], key) THEN IdOf(cache[t], key) ELSE 0
<1>1. PICK k1, k2, k3, k4 :
          /\ k1 = id("customers", <<0, f.customer>>) /\ k2 = id("sites", <<k1, f.site>>)
          /\ k3 = id("robots", <<k2, f.robot>>) /\ k4 = id("sources", <<0, f.source>>)
  OBVIOUS
<1>2. CachedIds(f) = [customers |-> k1, sites |-> k2, robots |-> k3, sources |-> k4]
  BY <1>1 DEF CachedIds
<1>3. CachedKey(f) = <<k1, k2, k3, k4, f.name>>
  BY <1>2 DEF CachedKey, Composite
<1>4. 0 \notin {k1, k2, k3, k4}
  BY <1>2 DEF Cached, Dimension
<1>5. ASSUME NEW t \in Table, NEW key, id(t, key) # 0
      PROVE  Says(conn.tab, t, key, id(t, key))
  <2>1. Has(cache[t], key) /\ id(t, key) = IdOf(cache[t], key)
    BY <1>5
  <2>2. cache = conn.tab /\ \A r \in cache[t] : RowShape(r)
    BY DEF IInv, CacheInv, CacheSound
  <2> HIDE DEF id
  <2> QED
    BY <2>1, <2>2, FoundRow DEF Says
<1> HIDE DEF id
<1>6. /\ Says(conn.tab, "customers", <<0, f.customer>>, k1) /\ Says(conn.tab, "sites", <<k1, f.site>>, k2)
      /\ Says(conn.tab, "robots", <<k2, f.robot>>, k3) /\ Says(conn.tab, "sources", <<0, f.source>>, k4)
  BY <1>1, <1>4, <1>5, TableNames
<1>7. PICK c : c = <<k1, k2, k3, k4, f.name>>
  OBVIOUS
<1>8. KeySays(conn.tab, c, f)
  BY <1>6, <1>7 DEF KeySays
<1> QED
  BY <1>3, <1>7, <1>8

(* ... and they are all there for an identity that has a key.              *)
LEMMA KeysAreCached ==
    ASSUME IInv, undone = "never", NEW f \in File, NEW c, KeySays(conn.tab, c, f)
    PROVE  Cached(f) /\ CachedKey(f) = c
<1> DEFINE id(t, key) == IF Has(cache[t], key) THEN IdOf(cache[t], key) ELSE 0
<1>1. ASSUME NEW t \in Table, NEW key, NEW k, Says(conn.tab, t, key, k)
      PROVE  id(t, key) = k /\ k # 0
  <2>1. PICK r : r = [key |-> key, id |-> k]
    OBVIOUS
  <2>2. /\ cache = conn.tab /\ Tables(conn.tab) /\ \A x \in cache[t] : RowShape(x)
    BY DEF IInv, CacheInv, CacheSound, StoreInv
  <2>3. r \in cache[t] /\ r.key = key /\ r.id = k
    BY <1>1, <2>1, <2>2 DEF Says
  <2>4. Has(cache[t], key)
    BY <2>3 DEF Has
  <2>5. Says(conn.tab, t, key, IdOf(cache[t], key))
    BY <2>2, <2>4, FoundRow DEF Says
  <2>6. IdOf(cache[t], key) = k
    BY <1>1, <2>2, <2>5, OneSaid
  <2>7. k # 0
    BY <2>2, <2>3 DEF RowShape
  <2> QED
    BY <2>4, <2>6, <2>7
<1>2. /\ Says(conn.tab, "customers", <<0, f.customer>>, c[1])
      /\ Says(conn.tab, "sites", <<c[1], f.site>>, c[2])
      /\ Says(conn.tab, "robots", <<c[2], f.robot>>, c[3])
      /\ Says(conn.tab, "sources", <<0, f.source>>, c[4])
      /\ c = <<c[1], c[2], c[3], c[4], c[5]>> /\ c[5] = f.name
  BY DEF KeySays
<1>3. PICK k1, k2, k3, k4 : k1 = c[1] /\ k2 = c[2] /\ k3 = c[3] /\ k4 = c[4]
  OBVIOUS
<1>4. /\ k1 = id("customers", <<0, f.customer>>) /\ k2 = id("sites", <<k1, f.site>>)
      /\ k3 = id("robots", <<k2, f.robot>>) /\ k4 = id("sources", <<0, f.source>>)
      /\ 0 \notin {k1, k2, k3, k4}
  <2> HIDE DEF id
  <2> QED
    BY <1>1, <1>2, <1>3, TableNames
<1>5. CachedIds(f) = [customers |-> k1, sites |-> k2, robots |-> k3, sources |-> k4]
  BY <1>4 DEF CachedIds
<1> HIDE DEF id
<1>6. Cached(f)
  BY <1>4, <1>5 DEF Cached, Dimension
<1>7. CachedKey(f) = <<k1, k2, k3, k4, f.name>>
  BY <1>5 DEF CachedKey, Composite
<1> QED
  BY <1>2, <1>3, <1>6, <1>7

LEMMA DeleteByNames ==
    ASSUME IInv, NamesInv, undone = "never", NEW f \in File, Delete(f)
    PROVE  \E c : KeySays(conn.tab, c, f) /\ db'.files = db.files \ RowsOf(db, c)
<1>1. Cached(f) /\ conn' = [conn EXCEPT !.files = @ \ RowsOf(conn, CachedKey(f))] /\ db' = conn'
  BY DEF Delete
<1>2. KeySays(conn.tab, CachedKey(f), f)
  BY <1>1, CachedSays
<1>3. db'.files = db.files \ RowsOf(db, CachedKey(f))
  BY <1>1 DEF IInv, StoreInv, NamesInv, RowsOf
<1> QED
  BY <1>2, <1>3

\* A sweep keeps the rows of the identities that were listed.
LEMMA SweepByNames ==
    ASSUME IInv, NamesInv, PassInv, undone = "never", Sweep
    PROVE  db'.files = {r \in db.files : r.file \in pass.listed}
<1>1. db'.files = {r \in db.files : r.comp \in Present}
  BY SweepTakes DEF IInv, StoreInv, NamesInv
<1>2. pass.listed \subseteq File
  BY DEF PassInv
<1>3. ASSUME NEW r \in db.files
      PROVE  r.comp \in Present <=> r.file \in pass.listed
  <2>1. RowSays(db.tab, r) /\ Added(db.tab, conn.tab)
    BY DEF IInv, NamesInv
  <2>2. KeySays(db.tab, r.comp, r.file)
    BY <2>1 DEF RowSays
  <2>3. KeySays(conn.tab, r.comp, r.file)
    BY <2>1, <2>2, KeyStays
  <2>4. ASSUME r.comp \in Present PROVE r.file \in pass.listed
    <3>1. PICK f \in pass.listed : Cached(f) /\ r.comp = CachedKey(f)
      BY <2>4 DEF Present
    <3>2. KeySays(conn.tab, r.comp, f)
      BY <1>2, <3>1, CachedSays
    <3>3. Tables(conn.tab)
      BY DEF IInv, StoreInv
    <3>4. r.file = f
      BY <2>3, <3>2, <3>3, SameIdentity
    <3> QED
      BY <3>1, <3>4
  <2>5. ASSUME r.file \in pass.listed PROVE r.comp \in Present
    <3>1. Cached(r.file) /\ CachedKey(r.file) = r.comp
      BY <1>2, <2>3, <2>5, KeysAreCached
    <3> QED
      BY <2>5, <3>1 DEF Present
  <2> QED
    BY <2>4, <2>5
<1> QED
  BY <1>1, <1>3

(* What a step does to the rows of files: it sweeps, or does nothing, or   *)
(* it takes those of one identity away, or it puts one in their place.     *)
LEMMA RowsChange ==
    ASSUME IInv, NamesInv, [Next]_vars, undone' = "never"
    PROVE  /\ undone = "never"
           /\ \/ Sweep
              \/ db'.files = db.files
              \/ \E f, c : KeySays(conn.tab, c, f) /\ db'.files = db.files \ RowsOf(db, c)
              \/ \E row : /\ KeySays(conn.tab, row.comp, row.file) /\ RowSays(db'.tab, row)
                          /\ db'.files = (db.files \ RowsOf(db, row.comp)) \cup {row}
<1>1. undone = "never"
  BY DEF Next, vars, Begin, Delete, List, Sweep, ResolveDim, DimRefused, Skip, ReadError, ReadSummary,
         ResolveTopic, ResolveSchema, ResolveSet, WriteRow, EditTags, EditFault, DimFault,
         DimAutoRollback, TxnFault, Crash, Rollback, Reload, Undo
<1> DEFINE Taken == \E f, c : KeySays(conn.tab, c, f) /\ db'.files = db.files \ RowsOf(db, c)
<1>2. ASSUME Rollback, pc \in {"channels", "schema", "set", "write"}
      PROVE  Taken
  <2>1. KeySays(conn.tab, Composite(job.ids, job.file), job.file)
    BY <1>1, <1>2, KeyWhole
  <2>2. db'.files = db.files \ RowsOf(db, Composite(job.ids, job.file))
    BY <1>2 DEF Rollback, QuarantineFrom, IInv, StoreInv
  <2> QED
    BY <2>1, <2>2
<1>3. CASE ReadError
  <2>1. KeySays(conn.tab, Composite(job.ids, job.file), job.file)
    BY <1>1, <1>3, KeyWhole DEF ReadError
  <2>2. db'.files = db.files \ RowsOf(db, Composite(job.ids, job.file))
    BY <1>3 DEF ReadError, QuarantineFrom, IInv, StoreInv, NamesInv, RowsOf
  <2> QED
    BY <1>1, <2>1, <2>2
<1>4. ASSUME NEW f \in File, Delete(f) PROVE Taken
  BY <1>1, <1>4, DeleteByNames
<1> DEFINE Placed == \E row : /\ KeySays(conn.tab, row.comp, row.file) /\ RowSays(db'.tab, row)
                              /\ db'.files = (db.files \ RowsOf(db, row.comp)) \cup {row}
<1>5. ASSUME NEW sums \in BOOLEAN, WriteRow(sums) PROVE Taken \/ Placed
  <2>1. CASE ~(sums /\ RowParentsThere)
    BY <1>1, <1>2, <1>5, <2>1 DEF WriteRow
  <2>2. CASE sums /\ RowParentsThere
    <3>1. PICK row : row = [comp |-> Composite(job.ids, job.file), set |-> job.set,
                            counts |-> Blob(job.totals), file |-> job.file, content |-> job.content]
      OBVIOUS
    <3>2. Added(db.tab, db'.tab)
      BY CommittedStays
    <3>3. RowSays(db'.tab, row) /\ db'.files = (db.files \ RowsOf(db, row.comp)) \cup {row}
      BY <1>1, <1>5, <2>2, <3>1, <3>2, WriteRowNames
    <3>4. KeySays(conn.tab, row.comp, row.file)
      BY <1>1, <1>5, <3>1, KeyWhole DEF WriteRow
    <3> QED
      BY <1>1, <3>3, <3>4
  <2> QED
    BY <2>1, <2>2
<1>6. CASE ResolveSet
  BY <1>1, <1>2, <1>6 DEF ResolveSet
<1>7. CASE TxnFault
  BY <1>1, <1>2, <1>7 DEF TxnFault
<1>8. ASSUME NEW t \in Dimension, ResolveDim(t) PROVE db'.files = db.files
  <2>1. PICK key : key = DimKey(t)
    OBVIOUS
  <2>2. ~Refused(t, key) /\ conn' = ConnAfter(t, key) /\ (db' = conn' \/ db' = db) /\ t \in Table
    BY <1>8, <2>1 DEF ResolveDim, Table
  <2>3. StoreInv(conn) /\ CacheInv
    BY DEF IInv
  <2>4. conn'.files = conn.files
    BY <2>2, <2>3, Resolving
  <2> QED
    BY <2>2, <2>4 DEF NamesInv
<1>9. CASE EditTags
  BY <1>1, <1>9 DEF EditTags, NamesInv
<1>10. \/ db'.files = db.files \/ ReadError \/ ResolveSet \/ TxnFault \/ EditTags \/ Sweep
       \/ \E sums \in BOOLEAN : WriteRow(sums)
       \/ \E f \in File : Delete(f)
       \/ \E t \in Dimension : ResolveDim(t)
  BY DEF Next, vars, Begin, DimRefused, Skip, ReadSummary, ResolveTopic, ResolveSchema, List,
         EditFault, DimFault, DimAutoRollback, Crash
<1> QED
  BY <1>1, <1>3, <1>4, <1>5, <1>6, <1>7, <1>8, <1>9, <1>10

NamedRows == {NamedRow(db.tab, r) : r \in db.files}

LEMMA NamedStep ==
    ASSUME IInv, NamesInv, PassInv, [Next]_vars
    PROVE  [Named!Next]_<<NamedRows, pass, undone = "never">>
<1>1. CASE undone' # "never"
  BY <1>1, Zenon DEF Named!Next
<1>2. CASE undone' = "never"
  <2>1. undone = "never" /\ IInv' /\ NamesInv' /\ Added(db.tab, db'.tab)
    BY <1>2, RowsChange, NextIInv, NextNames, CommittedStays
  <2>2. PICK tab, more, files : tab = db.tab /\ more = db'.tab /\ files = db.files
    OBVIOUS
  <2>3. Tables(tab) /\ Tables(more) /\ Added(tab, more) /\ \A r \in files : RowSays(tab, r)
    BY <2>1, <2>2 DEF IInv, StoreInv, NamesInv
  <2>4. \A r \in files : NamedRow(more, r) = NamedRow(tab, r) /\ NamedRow(tab, r).file = r.file
    BY <2>3, SameNames, NamesFound
  <2>5. NamedRows = {NamedRow(tab, r) : r \in files} /\ NamedRows' = {NamedRow(more, r) : r \in db'.files}
    BY <2>2 DEF NamedRows
  <2>6. ASSUME db'.files = db.files
        PROVE  NamedRows' = NamedRows
    BY <2>2, <2>4, <2>5, <2>6
  <2>7. ASSUME NEW f, NEW c, KeySays(conn.tab, c, f)
        PROVE  Named!Others(f) = {NamedRow(more, r) : r \in files \ RowsOf(db, c)}
    <3>1. \A r \in files : r \in RowsOf(db, c) <=> NamedRow(tab, r).file = f
      BY <2>1, <2>2, <2>4, <2>7, RowsOfIdentity
    <3>2. Named!Others(f) = {x \in NamedRows : x.file # f}
      BY DEF Named!Others, NamedRows
    <3> QED
      BY <2>4, <2>5, <3>1, <3>2
  <2>8. ASSUME NEW f, NEW c, KeySays(conn.tab, c, f), db'.files = db.files \ RowsOf(db, c), pass' = pass
        PROVE  Named!Next
    <3>1. NamedRows' = Named!Others(f)
      BY <2>2, <2>5, <2>7, <2>8
    <3>2. f \in File
      BY <2>8 DEF KeySays
    <3> QED
      BY <1>2, <2>1, <2>8, <3>1, <3>2 DEF Named!Next, Named!Remove, NamedRows
  <2>9. ASSUME NEW row, KeySays(conn.tab, row.comp, row.file), RowSays(more, row),
               db'.files = (db.files \ RowsOf(db, row.comp)) \cup {row}, pass' = pass
        PROVE  Named!Next
    <3>1. NamedRows' = Named!Others(row.file) \cup {NamedRow(more, row)}
      BY <2>2, <2>5, <2>7, <2>9
    <3>2. NamedRow(more, row) = [file |-> row.file, topics |-> TopicsOf(more, row)]
      BY <2>3, <2>9, NamesFound DEF NamedRow
    <3>3. TopicsOf(more, row) \in Named!OneSchemaEach(row.content)
      <4>1. PICK ts, ch : ts = TopicsOf(more, row) /\ ch = row.content
        OBVIOUS
      <4>2. ts \subseteq ch /\ {c[1] : c \in ts} = {c[1] : c \in ch} /\ \A c, d \in ts : c[1] = d[1] => c = d
        BY <2>3, <2>9, <4>1, TopicsAreTheFiles
      <4>3. \A c \in ch : \E m \in ts : m[1] = c[1]
        BY <4>2
      <4> QED
        BY <4>1, <4>2, <4>3 DEF Named!OneSchemaEach
    <3>4. row.file \in File /\ row.content \in Content
      BY <2>9 DEF RowSays, KeySays
    <3>5. Named!Write(row.file, row.content)
      BY <2>9, <3>1, <3>2, <3>3 DEF Named!Write, NamedRows
    <3> QED
      BY <1>2, <2>1, <3>4, <3>5 DEF Named!Next
  <2>10. ASSUME pass' = pass, ~Sweep
         PROVE  Named!Next \/ UNCHANGED <<NamedRows, pass, undone = "never">>
    BY <1>2, <2>1, <2>2, <2>6, <2>8, <2>9, <2>10, RowsChange
  <2>11. ASSUME pass' = NoPass, db' = db
         PROVE  Named!Next
    <3>1. NamedRows' = NamedRows
      BY <2>6, <2>11
    <3>2. Named!Abandon
      BY <2>11, <3>1 DEF Named!Abandon, Named!NoPass, NoPass, NamedRows
    <3> QED
      BY <1>2, <2>1, <3>2 DEF Named!Next
  <2>12. ASSUME NEW listed \in SUBSET File, List(listed)
         PROVE  Named!Next
    <3>1. NamedRows' = NamedRows
      BY <2>6, <2>12 DEF List
    <3>2. Named!List(listed)
      BY <2>12, <3>1 DEF List, Named!List, NamedRows
    <3> QED
      BY <1>2, <2>1, <3>2 DEF Named!Next
  <2>13. ASSUME Sweep
         PROVE  Named!Next
    <3>1. db'.files = {r \in files : r.file \in pass.listed}
      BY <2>1, <2>2, <2>13, SweepByNames
    <3>2. NamedRows' = {x \in NamedRows : x.file \in pass.listed}
      BY <2>4, <2>5, <3>1
    <3>3. Named!Sweep
      BY <2>13, <3>2 DEF Sweep, Named!Sweep, Named!NoPass, NoPass, NamedRows
    <3> QED
      BY <1>2, <2>1, <3>3 DEF Named!Next
  <2> QED
    BY <2>10, <2>11, <2>12, <2>13, PassChange
<1> QED
  BY <1>1, <1>2

(* Seen through its tables, the catalog is one of names: a commit puts the *)
(* row of one identity in place of those it had, or takes them away, or is *)
(* a sweep's and takes those of every identity its pass did not list; and  *)
(* no other row changes what it says, whatever ids were added meanwhile    *)
(* (builder.py:187, 370, reconcile.py:138).  So the ids may be left out of *)
(* CatalogSync.                                                            *)
THEOREM NamesComeAndGoCorrect == Spec => NamesComeAndGo
<1>1. Init => Named!Init
  BY DEF Init, Named!Init, Named!NoPass, NoPass
<1>2. IInv /\ NamesInv /\ PassInv /\ [Next]_vars => [Named!Next]_<<NamedRows, pass, undone = "never">>
  BY NamedStep
<1> QED
  BY <1>1, <1>2, NamesInvariance, PassTyped, PTL DEF Spec, NamesComeAndGo, Named!Spec, NamedRows

-----------------------------------------------------------------------------
(* The blob of counts.                                                     *)

\* A count has a varint, and what its definition says of it holds.
LEMMA VarintOf ==
    /\ EncodeVarint \in [Nat -> Seq(Nat)]
    /\ \A n \in Nat : EncodeVarint[n] =
          IF n < Continues THEN <<n>>
          ELSE <<Continues + (n % Continues)>> \o EncodeVarint[n \div Continues]
<1> DEFINE Value(n, g) == IF n < Continues THEN <<n>>
                          ELSE <<Continues + (n % Continues)>> \o g[n \div Continues]
           body(f) == [n \in Nat |-> IF n < Continues THEN <<n>>
                          ELSE <<Continues + (n % Continues)>> \o f[n \div Continues]]
           step == [n \in Nat |-> [g \in [Nat -> Seq(Nat)] |-> Value(n, g)]]
           rank == [n \in Nat |-> n]
<1>1. \A n \in Nat : n \div Continues \in Nat /\ Continues + (n % Continues) \in Nat
                     /\ (~ n < Continues => n \div Continues < n)
  BY DEF Continues
<1>2. \A n \in Nat : \A g \in [Nat -> Seq(Nat)] : Value(n, g) \in Seq(Nat)
  <2> SUFFICES ASSUME NEW n \in Nat, NEW g \in [Nat -> Seq(Nat)]
               PROVE  Value(n, g) \in Seq(Nat)
    OBVIOUS
  <2>1. g[n \div Continues] \in Seq(Nat) /\ Continues + (n % Continues) \in Nat
    BY <1>1
  <2> QED
    BY <2>1
<1>3. step \in [Nat -> [[Nat -> Seq(Nat)] -> Seq(Nat)]]
  <2> HIDE DEF Value
  <2> QED
    BY <1>2
<1>4. rank \in [Nat -> Nat]
  OBVIOUS
<1>a. Seq(Nat) # {}
  <2>1. <<>> \in Seq(Nat)
    OBVIOUS
  <2> QED
    BY <2>1
<1>5. \A n \in Nat : \A g, h \in [Nat -> Seq(Nat)] :
         (\A e \in Nat : rank[e] < rank[n] => g[e] = h[e]) => step[n][g] = step[n][h]
  <2> SUFFICES ASSUME NEW n \in Nat, NEW g \in [Nat -> Seq(Nat)], NEW h \in [Nat -> Seq(Nat)],
                      \A e \in Nat : e < n => g[e] = h[e]
               PROVE  Value(n, g) = Value(n, h)
    <3> HIDE DEF Value
    <3> QED
      OBVIOUS
  <2>1. ~ n < Continues => g[n \div Continues] = h[n \div Continues]
    BY <1>1
  <2> QED
    BY <2>1
<1>6. \E f \in [Nat -> Seq(Nat)] : \A n \in Nat : f[n] = Value(n, f)
  <2>1. \E f \in [Nat -> Seq(Nat)] : \A n \in Nat : f[n] = step[n][f]
    <3> HIDE DEF step, rank
    <3>1. Recursion(Nat, Seq(Nat), rank, step)
      BY <1>3, <1>4, <1>a, <1>5 DEF Recursion
    <3> QED
      BY <3>1, RecursionOnRank
  <2> HIDE DEF Value
  <2> QED
    BY <2>1
<1> PICK f \in [Nat -> Seq(Nat)] : \A n \in Nat : f[n] = Value(n, f)
  BY <1>6
<1>7. f = body(f)
  OBVIOUS
<1>8. EncodeVarint = body(EncodeVarint)
  BY <1>7, Zenon DEF EncodeVarint
<1>9. \A n \in Nat : EncodeVarint[n] =
          IF n < Continues THEN <<n>>
          ELSE <<Continues + (n % Continues)>> \o EncodeVarint[n \div Continues]
  BY <1>8, Zenon
<1>10. DOMAIN EncodeVarint = Nat
  BY <1>8, Zenon
<1> DEFINE S == {n \in Nat : EncodeVarint[n] \in Seq(Nat)}
<1>11. ASSUME NEW n \in Nat, \A e \in Nat : e < n => e \in S
       PROVE  n \in S
  <2>1. CASE n < Continues
    <3>1. EncodeVarint[n] = <<n>>
      BY <1>9, <2>1
    <3>2. <<n>> \in Seq(Nat)
      OBVIOUS
    <3> QED
      BY <3>1, <3>2
  <2>2. CASE ~ n < Continues
    <3>1. EncodeVarint[n \div Continues] \in Seq(Nat)
      BY <1>1, <1>11, <2>2
    <3>2. Continues + (n % Continues) \in Nat
      BY <1>1
    <3>3. EncodeVarint[n] = <<Continues + (n % Continues)>> \o EncodeVarint[n \div Continues]
      BY <1>9, <2>2
    <3>4. PICK a, b : a = Continues + (n % Continues) /\ b = EncodeVarint[n \div Continues]
      OBVIOUS
    <3>5. <<a>> \o b \in Seq(Nat)
      BY <3>1, <3>2, <3>4
    <3> QED
      BY <3>3, <3>4, <3>5
  <2> QED
    BY <2>1, <2>2
<1>12. Nat \subseteq S
  <2>1. \A n \in Nat : (\A e \in Nat : rank[e] < rank[n] => e \in S) => n \in S
    <3> HIDE DEF S
    <3> QED
      BY <1>11
  <2> HIDE DEF S, rank
  <2> QED
    BY <1>4, <2>1, InductionOnRank
<1>13. EncodeVarint = [n \in Nat |-> EncodeVarint[n]]
  BY <1>8, Zenon
<1>14. EncodeVarint \in [Nat -> Seq(Nat)]
  BY <1>12, <1>13
<1> QED
  BY <1>9, <1>14

\* What DecodeCounts has of a blob after some of its bytes.
Read == [counts : Seq(Nat), value : Nat, unit : Nat]

\* A byte more, and there is still a sequence of counts, a number and a unit.
LEMMA NextRead ==
    ASSUME NEW read \in Read, NEW byte \in Nat
    PROVE  NextByte(read, byte) \in Read
<1>1. CASE byte < Continues
  <2>1. read.value + byte * read.unit \in Nat /\ read.counts \in Seq(Nat)
    <3>1. read.value \in Nat /\ read.unit \in Nat /\ read.counts \in Seq(Nat)
      BY DEF Read
    <3>2. PICK v, u : v = read.value /\ u = read.unit
      OBVIOUS
    <3>3. byte * u \in Nat
      BY <3>1, <3>2
    <3>4. v + byte * u \in Nat
      BY <3>1, <3>2, <3>3
    <3> QED
      BY <3>1, <3>2, <3>4
  <2>2. PICK n, c : n = read.value + byte * read.unit /\ c = read.counts
    OBVIOUS
  <2>3. Append(c, n) \in Seq(Nat)
    BY <2>1, <2>2
  <2>4. NextByte(read, byte) = [counts |-> Append(c, n), value |-> 0, unit |-> 1]
    BY <1>1, <2>2 DEF NextByte
  <2> QED
    BY <2>3, <2>4 DEF Read
<1>2. CASE ~ byte < Continues
  <2>1. read.value \in Nat /\ read.unit \in Nat /\ byte - Continues \in Nat /\ read.counts \in Seq(Nat)
    BY <1>2 DEF Read, Continues
  <2>2. PICK n, u, c : /\ n = read.value + (byte - Continues) * read.unit
                       /\ u = read.unit * Continues /\ c = read.counts
    OBVIOUS
  <2>3. n \in Nat /\ u \in Nat
    BY <2>1, <2>2 DEF Continues
  <2>4. NextByte(read, byte) = [counts |-> c, value |-> n, unit |-> u]
    BY <1>2, <2>2 DEF NextByte
  <2> QED
    BY <2>1, <2>2, <2>3, <2>4 DEF Read
<1> QED
  BY <1>1, <1>2

\* A set of positions that is not empty has a last one.
LEMMA LastPosition ==
    ASSUME NEW n \in Nat, NEW s, s \subseteq 1..n, s # {}
    PROVE  /\ Max(s) \in s /\ \A y \in s : Max(s) >= y
           /\ IsFiniteSet(s) /\ Cardinality(s) \in Nat
           /\ IsFiniteSet(s \ {Max(s)}) /\ Cardinality(s \ {Max(s)}) < Cardinality(s)
<1> DEFINE back == {n - x : x \in s}
<1>1. back \subseteq Nat /\ back # {}
  OBVIOUS
<1>2. PICK m \in back : \A k \in back : m <= k
  BY <1>1, LeastNatural
<1>3. PICK x \in s : m = n - x
  BY <1>2
<1>4. \A y \in s : x >= y
  <2> SUFFICES ASSUME NEW y \in s PROVE x >= y
    OBVIOUS
  <2>1. m <= n - y
    BY <1>2
  <2> QED
    BY <1>3, <2>1
<1>5. Max(s) \in s /\ \A y \in s : Max(s) >= y
  <2>1. \E z \in s : \A y \in s : z >= y
    BY <1>4
  <2> HIDE DEF back
  <2> QED
    BY <2>1, Zenon DEF Max
<1>6. IsFiniteSet(s)
  <2>1. IsFiniteSet(1..n)
    BY FS_Interval
  <2> QED
    BY <2>1, FS_Subset
<1>7. Cardinality(s) \in Nat
  BY <1>6, FS_CardinalityType
<1> HIDE DEF back
<1>8. IsFiniteSet(s \ {Max(s)}) /\ Cardinality(s \ {Max(s)}) = Cardinality(s) - 1
  BY <1>5, <1>6, FS_RemoveElement
<1> QED
  BY <1>5, <1>6, <1>7, <1>8

(* What DecodeCounts reads, byte by byte: its definition as a fold, with a *)
(* function that has its value after every byte.                           *)
LEMMA ReadsOf ==
    ASSUME NEW blob \in Seq(Nat)
    PROVE  \E R \in [0..Len(blob) -> Read] :
              /\ R[0] = NoBytes
              /\ \A i \in 1..Len(blob) : R[i] = NextByte(R[i - 1], blob[i])
              /\ DecodeCounts(blob) = R[Len(blob)].counts
<1> DEFINE D == SUBSET (DOMAIN blob)
           Value(s, g) == IF s = {} THEN NoBytes ELSE NextByte(g[s \ {Max(s)}], blob[Max(s)])
           fold(g) == [s \in D |-> IF s = {} THEN NoBytes ELSE NextByte(g[s \ {Max(s)}], blob[Max(s)])]
           step == [s \in D |-> [g \in [D -> Read] |-> Value(s, g)]]
           rank == [s \in D |-> Cardinality(s)]
           it == CHOOSE g : g = fold(g)
<1>1. DOMAIN blob = 1..Len(blob) /\ Len(blob) \in Nat /\ NoBytes \in Read
  BY DEF Read, NoBytes
<1>2. \A s \in D : s # {} =>
         /\ Max(s) \in s /\ blob[Max(s)] \in Nat /\ s \ {Max(s)} \in D
         /\ Cardinality(s) \in Nat /\ Cardinality(s \ {Max(s)}) < Cardinality(s)
  <2> SUFFICES ASSUME NEW s \in D, s # {}
               PROVE  /\ Max(s) \in s /\ blob[Max(s)] \in Nat /\ s \ {Max(s)} \in D
                      /\ Cardinality(s) \in Nat /\ Cardinality(s \ {Max(s)}) < Cardinality(s)
    OBVIOUS
  <2>1. s \subseteq 1..Len(blob)
    BY <1>1
  <2>2. Max(s) \in s /\ Cardinality(s) \in Nat /\ Cardinality(s \ {Max(s)}) < Cardinality(s)
    BY <1>1, <2>1, LastPosition
  <2>3. \A i \in 1..Len(blob) : blob[i] \in Nat
    OBVIOUS
  <2> QED
    BY <2>1, <2>2, <2>3
<1>3. \A s \in D, g \in [D -> Read] : Value(s, g) \in Read
  <2> SUFFICES ASSUME NEW s \in D, NEW g \in [D -> Read], s # {}
               PROVE  NextByte(g[s \ {Max(s)}], blob[Max(s)]) \in Read
    BY <1>1
  <2>1. g[s \ {Max(s)}] \in Read /\ blob[Max(s)] \in Nat
    BY <1>2
  <2> QED
    BY <2>1, NextRead
<1>4. Recursion(D, Read, rank, step)
  <2>1. \A s \in D : Cardinality(s) \in Nat
    <3>1. Cardinality({}) = 0
      BY FS_EmptySet
    <3>2. ASSUME NEW s \in D
          PROVE  Cardinality(s) \in Nat
      <4>1. CASE s = {}
        BY <3>1, <4>1
      <4>2. CASE s # {}
        BY <1>2, <4>2
      <4> QED
        BY <4>1, <4>2
    <3> HIDE DEF D
    <3> QED
      BY <3>2
  <2>2. \A s \in D : \A g, h \in [D -> Read] :
           (\A e \in D : Cardinality(e) < Cardinality(s) => g[e] = h[e]) => Value(s, g) = Value(s, h)
    BY <1>2
  <2> HIDE DEF D, Value
  <2> QED
    BY <1>1, <1>3, <2>1, <2>2 DEF Recursion
<1>5. \E g \in [D -> Read] : g = fold(g)
  <2>1. \E g \in [D -> Read] : \A s \in D : g[s] = step[s][g]
    <3> HIDE DEF step, rank, D
    <3> QED
      BY <1>4, RecursionOnRank
  <2>2. PICK g \in [D -> Read] : \A s \in D : g[s] = step[s][g]
    BY <2>1
  <2>3. \A s \in D : g[s] = Value(s, g)
    <3> HIDE DEF Value, D
    <3> QED
      BY <2>2
  <2> HIDE DEF D
  <2> QED
    BY <2>3
<1>6. it = fold(it)
  <2> HIDE DEF fold
  <2> QED
    BY <1>5, Zenon
<1> HIDE DEF it
<1>7. \A s \in D : it[s] = Value(s, it)
  BY <1>6
<1>8. DecodeCounts(blob) = it[DOMAIN blob].counts
  BY Zenon DEF DecodeCounts, FoldLeft, MapThenFoldSet, it
<1>9. D \subseteq {s \in D : it[s] \in Read}
  <2> DEFINE S == {s \in D : it[s] \in Read}
  <2>1. ASSUME NEW s \in D, \A e \in D : Cardinality(e) < Cardinality(s) => e \in S
        PROVE  s \in S
    <3>1. CASE s = {}
      BY <1>1, <1>7, <3>1
    <3>2. CASE s # {}
      <4>1. it[s \ {Max(s)}] \in Read /\ blob[Max(s)] \in Nat
        BY <1>2, <2>1, <3>2
      <4>2. it[s] = NextByte(it[s \ {Max(s)}], blob[Max(s)])
        BY <1>7, <3>2
      <4> QED
        BY <4>1, <4>2, NextRead
    <3> QED
      BY <3>1, <3>2
  <2>2. rank \in [D -> Nat]
    BY <1>4 DEF Recursion
  <2>3. \A s \in D : (\A e \in D : rank[e] < rank[s] => e \in S) => s \in S
    <3> HIDE DEF S, D
    <3> QED
      BY <2>1
  <2>4. D \subseteq S
    <3> HIDE DEF S, D, rank
    <3> QED
      BY <2>2, <2>3, InductionOnRank
  <2> QED
    BY <2>4
<1> DEFINE R == [i \in 0..Len(blob) |-> it[1..i]]
<1>10. \A i \in 0..Len(blob) : 1..i \in D
  BY <1>1
<1>11. R \in [0..Len(blob) -> Read]
  <2> HIDE DEF D
  <2> QED
    BY <1>9, <1>10
<1>12. R[0] = NoBytes
  <2>1. 1..0 = {} /\ 0 \in 0..Len(blob)
    BY <1>1
  <2>2. it[1..0] = NoBytes
    BY <1>7, <2>1
  <2> QED
    BY <2>1, <2>2
<1>13. ASSUME NEW i \in 1..Len(blob)
       PROVE  R[i] = NextByte(R[i - 1], blob[i])
  <2>1. i \in 0..Len(blob) /\ i - 1 \in 0..Len(blob) /\ i \in Nat
    BY <1>1
  <2>2. Max(1..i) = i
    <3>1. 1..i # {} /\ 1..i \subseteq 1..i /\ i \in 1..i
      OBVIOUS
    <3>2. Max(1..i) \in 1..i /\ Max(1..i) >= i
      BY <2>1, <3>1, LastPosition
    <3> QED
      BY <2>1, <3>2
  <2>3. (1..i) \ {i} = 1..(i - 1) /\ 1..i # {}
    BY <2>1
  <2>4. it[1..i] = NextByte(it[1..(i - 1)], blob[i])
    <3>1. 1..i \in D
      BY <1>10, <2>1
    <3>2. it[1..i] = NextByte(it[(1..i) \ {Max(1..i)}], blob[Max(1..i)])
      BY <1>7, <2>3, <3>1
    <3> QED
      BY <2>2, <2>3, <3>2, Zenon
  <2> QED
    BY <2>1, <2>4
<1>14. DecodeCounts(blob) = R[Len(blob)].counts
  <2>1. Len(blob) \in 0..Len(blob)
    BY <1>1
  <2> QED
    BY <1>1, <1>8, <2>1
<1> HIDE DEF R
<1> QED
  BY <1>11, <1>12, <1>13, <1>14

\* A varint at a place of a blob.
SitsAt(blob, n, p) ==
    /\ p + Len(EncodeVarint[n]) <= Len(blob)
    /\ \A k \in 1..Len(EncodeVarint[n]) : blob[p + k] = EncodeVarint[n][k]

\* q groups of 128 and the rest, in any unit.
LEMMA Groups ==
    ASSUME NEW n \in Nat, NEW u \in Nat, NEW v \in Nat
    PROVE  v + (n % 128) * u + (n \div 128) * (u * 128) = v + n * u
<1> DEFINE q == n \div 128
           r == n % 128
<1>1. q \in Nat /\ r \in Nat /\ n = 128 * q + r
  OBVIOUS
<1> HIDE DEF q, r
<1>2. (128 * q + r) * u = q * (u * 128) + r * u
  BY <1>1
<1> QED
  BY <1>1, <1>2 DEF q, r

(* Reading the bytes of a varint adds its number, in the unit reached, to  *)
(* the number begun, and ends it.                                          *)
LEMMA VarintRead ==
    ASSUME NEW blob \in Seq(Nat), NEW R \in [0..Len(blob) -> Read],
           \A i \in 1..Len(blob) : R[i] = NextByte(R[i - 1], blob[i])
    PROVE  \A n \in Nat : \A p \in Nat : SitsAt(blob, n, p) =>
              R[p + Len(EncodeVarint[n])] =
                 [counts |-> Append(R[p].counts, R[p].value + n * R[p].unit), value |-> 0, unit |-> 1]
<1> DEFINE After(n, p) == [counts |-> Append(R[p].counts, R[p].value + n * R[p].unit),
                           value |-> 0, unit |-> 1]
           Reads(n) == \A p \in Nat : SitsAt(blob, n, p) => R[p + Len(EncodeVarint[n])] = After(n, p)
           S == {n \in Nat : Reads(n)}
           rank == [n \in Nat |-> n]
<1>1. Len(blob) \in Nat
  OBVIOUS
<1>2. ASSUME NEW n \in Nat, \A e \in Nat : e < n => e \in S, NEW p \in Nat, SitsAt(blob, n, p)
      PROVE  R[p + Len(EncodeVarint[n])] = After(n, p)
  <2>1. PICK e : e = EncodeVarint[n]
    OBVIOUS
  <2>2. e \in Seq(Nat) /\ Len(e) \in Nat
    BY <2>1, VarintOf
  <2>3. p + Len(e) <= Len(blob) /\ \A k \in 1..Len(e) : blob[p + k] = e[k]
    BY <1>2, <2>1 DEF SitsAt
  <2>4. ASSUME Len(e) >= 1
        PROVE  p + 1 \in 1..Len(blob) /\ p \in 0..Len(blob) /\ R[p + 1] = NextByte(R[p], e[1])
    <3>1. p + 1 \in 1..Len(blob) /\ p \in 0..Len(blob) /\ (p + 1) - 1 = p /\ 1 \in 1..Len(e)
      BY <1>1, <2>2, <2>3, <2>4
    <3>2. R[p + 1] = NextByte(R[(p + 1) - 1], blob[p + 1]) /\ blob[p + 1] = e[1]
      BY <2>3, <3>1
    <3> QED
      BY <3>1, <3>2
  <2>5. CASE n < Continues
    <3>1. e = <<n>>
      BY <2>1, <2>5, VarintOf
    <3>2. Len(e) = 1 /\ e[1] = n
      BY <3>1
    <3>3. R[p + 1] = NextByte(R[p], n)
      BY <2>4, <3>2
    <3>4. NextByte(R[p], n) = After(n, p)
      BY <2>5 DEF NextByte
    <3> HIDE DEF After
    <3> QED
      BY <2>1, <3>2, <3>3, <3>4
  <2>6. CASE ~ n < Continues
    <3>1. PICK q, r : q = n \div Continues /\ r = n % Continues
      OBVIOUS
    <3>2. q \in Nat /\ r \in Nat /\ q < n /\ Continues + r \in Nat /\ ~ Continues + r < Continues
          /\ (Continues + r) - Continues = r
      BY <2>6, <3>1 DEF Continues
    <3>3. PICK t : t = EncodeVarint[q]
      OBVIOUS
    <3>4. t \in Seq(Nat) /\ Len(t) \in Nat
      BY <3>2, <3>3, VarintOf
    <3>5. e = <<Continues + r>> \o t
      BY <2>1, <2>6, <3>1, <3>3, VarintOf
    <3>6. Len(e) = Len(t) + 1 /\ e[1] = Continues + r /\ \A k \in 1..Len(t) : e[k + 1] = t[k]
      <4>1. PICK b : b = Continues + r
        OBVIOUS
      <4>2. b \in Nat /\ e = <<b>> \o t
        BY <3>2, <3>5, <4>1
      <4>3. Len(e) = Len(t) + 1 /\ e[1] = b
        BY <3>4, <4>2
      <4>4. \A k \in 1..Len(t) : e[k + 1] = t[k]
        BY <3>4, <4>2
      <4> QED
        BY <4>1, <4>3, <4>4
    <3>7. /\ p + 1 \in 0..Len(blob) /\ p \in 0..Len(blob)
          /\ R[p + 1] = NextByte(R[p], Continues + r)
      BY <1>1, <2>4, <3>4, <3>6
    <3>8. R[p + 1] = [counts |-> R[p].counts, value |-> R[p].value + r * R[p].unit,
                      unit |-> R[p].unit * Continues]
      BY <3>2, <3>7 DEF NextByte
    <3>9. SitsAt(blob, q, p + 1)
      <4>1. (p + 1) + Len(t) <= Len(blob)
        BY <1>1, <2>3, <3>4, <3>6
      <4>2. ASSUME NEW k \in 1..Len(t)
            PROVE  blob[(p + 1) + k] = t[k]
        <5>1. k + 1 \in 1..Len(e) /\ p + (k + 1) = (p + 1) + k
          BY <3>4, <3>6
        <5> QED
          BY <2>3, <3>6, <5>1
      <4> QED
        BY <3>3, <4>1, <4>2 DEF SitsAt
    <3>10. R[(p + 1) + Len(t)] = After(q, p + 1)
      <4>1. q \in S
        BY <1>2, <3>2
      <4>2. Reads(q)
        BY <4>1
      <4>3. p + 1 \in Nat
        OBVIOUS
      <4> HIDE DEF After
      <4> QED
        BY <3>3, <3>9, <4>2, <4>3
    <3>11. After(q, p + 1) = After(n, p)
      <4>1. R[p] \in Read
        BY <3>7
      <4>2. PICK u, v, c : u = R[p].unit /\ v = R[p].value /\ c = R[p].counts
        OBVIOUS
      <4>3. u \in Nat /\ v \in Nat
        BY <4>1, <4>2 DEF Read
      <4>4. (v + r * u) + q * (u * 128) = v + n * u
        BY <3>1, <4>3, Groups DEF Continues
      <4>5. R[p + 1].counts = c /\ R[p + 1].value = v + r * u /\ R[p + 1].unit = u * 128
        BY <3>8, <4>2 DEF Continues
      <4> QED
        BY <4>2, <4>4, <4>5
    <3>12. (p + 1) + Len(t) = p + Len(e)
      BY <3>4, <3>6
    <3> HIDE DEF After
    <3> QED
      BY <2>1, <3>10, <3>11, <3>12
  <2> QED
    BY <2>5, <2>6
<1>3. Nat \subseteq S
  <2>1. \A n \in Nat : (\A e \in Nat : rank[e] < rank[n] => e \in S) => n \in S
    <3> SUFFICES ASSUME NEW n \in Nat, \A e \in Nat : e < n => e \in S
                 PROVE  n \in S
      <4> HIDE DEF S
      <4> QED
        OBVIOUS
    <3>1. Reads(n)
      <4> HIDE DEF After, S
      <4> QED
        BY <1>2
    <3> HIDE DEF Reads
    <3> QED
      BY <3>1
  <2>2. rank \in [Nat -> Nat]
    OBVIOUS
  <2> HIDE DEF S, rank
  <2> QED
    BY <2>1, <2>2, InductionOnRank
<1>4. \A n \in Nat : Reads(n)
  <2> HIDE DEF Reads
  <2> QED
    BY <1>3
<1> HIDE DEF After
<1> QED
  BY <1>4 DEF After

\* The blob of a sequence of counts has their varints one behind the other.
LEMMA BlobOf ==
    ASSUME NEW n \in Nat, NEW counts \in [1..n -> Nat]
    PROVE  /\ EncodeCounts(counts) \in Seq(Nat)
           /\ \E off \in [0..n -> Nat] :
                 /\ off[0] = 0 /\ off[n] = Len(EncodeCounts(counts))
                 /\ \A i \in 1..n : /\ SitsAt(EncodeCounts(counts), counts[i], off[i - 1])
                                    /\ off[i] = off[i - 1] + Len(EncodeVarint[counts[i]])
<1> DEFINE seqs == [i \in DOMAIN counts |-> EncodeVarint[counts[i]]]
           Value(i, g) == IF i = 1 THEN seqs[i] ELSE g[i - 1] \o seqs[i]
           join(g) == [i \in 1..Len(seqs) |-> IF i = 1 THEN seqs[i] ELSE g[i - 1] \o seqs[i]]
           step == [i \in 1..n |-> [g \in [1..n -> Seq(Nat)] |-> Value(i, g)]]
           rank == [i \in 1..n |-> i]
           flatten == CHOOSE g : g = join(g)
<1>1. DOMAIN counts = 1..n
  OBVIOUS
<1>2. seqs \in [1..n -> Seq(Nat)]
  BY <1>1, VarintOf
<1>3. seqs \in Seq(Seq(Nat)) /\ Len(seqs) = n
  BY <1>1, <1>2
<1>4. \A i \in 1..n : seqs[i] = EncodeVarint[counts[i]]
  BY <1>1
<1> HIDE DEF seqs
<1>5. \A i \in 1..n, g \in [1..n -> Seq(Nat)] : Value(i, g) \in Seq(Nat)
  <2> SUFFICES ASSUME NEW i \in 1..n, NEW g \in [1..n -> Seq(Nat)], i # 1
               PROVE  g[i - 1] \o seqs[i] \in Seq(Nat)
    BY <1>2
  <2>1. i - 1 \in 1..n
    OBVIOUS
  <2>2. g[i - 1] \in Seq(Nat) /\ seqs[i] \in Seq(Nat)
    BY <1>2, <2>1
  <2> QED
    BY <2>2
<1>6. Recursion(1..n, Seq(Nat), rank, step)
  <2>1. \A i \in 1..n : \A g, h \in [1..n -> Seq(Nat)] :
           (\A e \in 1..n : e < i => g[e] = h[e]) => Value(i, g) = Value(i, h)
    <3> SUFFICES ASSUME NEW i \in 1..n, NEW g \in [1..n -> Seq(Nat)], NEW h \in [1..n -> Seq(Nat)],
                        \A e \in 1..n : e < i => g[e] = h[e], i # 1
                 PROVE  g[i - 1] = h[i - 1]
      OBVIOUS
    <3>1. i - 1 \in 1..n /\ i - 1 < i
      OBVIOUS
    <3> QED
      BY <3>1
  <2>2. Seq(Nat) # {}
    <3>1. <<>> \in Seq(Nat)
      OBVIOUS
    <3> QED
      BY <3>1
  <2>3. step \in [1..n -> [[1..n -> Seq(Nat)] -> Seq(Nat)]]
    <3> HIDE DEF Value
    <3> QED
      BY <1>5
  <2>4. rank \in [1..n -> Nat]
    OBVIOUS
  <2>5. \A i \in 1..n : \A g, h \in [1..n -> Seq(Nat)] :
           (\A e \in 1..n : rank[e] < rank[i] => g[e] = h[e]) => step[i][g] = step[i][h]
    <3> HIDE DEF Value
    <3> QED
      BY <2>1
  <2> HIDE DEF step, rank
  <2> QED
    BY <2>2, <2>3, <2>4, <2>5 DEF Recursion
<1>7. \E g \in [1..n -> Seq(Nat)] : g = join(g)
  <2>0. \E g \in [1..n -> Seq(Nat)] : \A i \in 1..n : g[i] = step[i][g]
    <3> HIDE DEF step, rank, Value, join, flatten
    <3>1. PICK D, V, st, rk : D = 1..n /\ V = Seq(Nat) /\ st = step /\ rk = rank
      OBVIOUS
    <3>2. Recursion(D, V, rk, st)
      BY <1>6, <3>1
    <3>3. \E g \in [D -> V] : \A i \in D : g[i] = st[i][g]
      BY <3>2, RecursionOnRank, SMT
    <3> QED
      BY <3>1, <3>3
  <2>1. PICK g \in [1..n -> Seq(Nat)] : \A i \in 1..n : g[i] = step[i][g]
    BY <2>0
  <2>2. \A i \in 1..n : g[i] = Value(i, g)
    <3> HIDE DEF Value
    <3> QED
      BY <2>1
  <2> QED
    BY <1>3, <2>2
<1>8. flatten = join(flatten)
  <2> HIDE DEF join
  <2> QED
    BY <1>7, Zenon
<1>9. n # 0 => EncodeCounts(counts) = flatten[n]
  <2>1. seqs = [i \in DOMAIN counts |-> EncodeVarint[counts[i]]]
    BY DEF seqs
  <2>2. EncodeCounts(counts) = FlattenSeq(seqs)
    BY <2>1, Zenon DEF EncodeCounts
  <2>3. FlattenSeq(seqs) = IF Len(seqs) = 0 THEN seqs ELSE flatten[Len(seqs)]
    BY Zenon DEF FlattenSeq
  <2> HIDE DEF flatten
  <2> QED
    BY <1>3, <2>2, <2>3
<1>10. n = 0 => EncodeCounts(counts) = <<>>
  <2>1. seqs = [i \in DOMAIN counts |-> EncodeVarint[counts[i]]]
    BY DEF seqs
  <2>2. EncodeCounts(counts) = FlattenSeq(seqs)
    BY <2>1, Zenon DEF EncodeCounts
  <2>3. n = 0 => FlattenSeq(seqs) = seqs
    BY <1>3 DEF FlattenSeq
  <2>4. n = 0 => seqs = <<>>
    BY <1>3
  <2> QED
    BY <2>2, <2>3, <2>4
<1> HIDE DEF flatten
<1>11. \A i \in 1..n : flatten[i] = Value(i, flatten)
  BY <1>3, <1>8
<1>12. \A i \in 1..n : flatten[i] \in Seq(Nat)
  <2> DEFINE S == {i \in Nat : i \in 1..n => flatten[i] \in Seq(Nat)}
  <2>1. 0 \in S
    OBVIOUS
  <2>2. ASSUME NEW i \in Nat, i \in S
        PROVE  i + 1 \in S
    <3> SUFFICES ASSUME i + 1 \in 1..n PROVE flatten[i + 1] \in Seq(Nat)
      OBVIOUS
    <3>1. seqs[i + 1] \in Seq(Nat) /\ (i + 1) - 1 = i
      BY <1>2
    <3>2. CASE i = 0
      <4>1. flatten[1] = seqs[1]
        BY <1>11, <3>2
      <4> QED
        BY <3>1, <3>2, <4>1
    <3>3. CASE i # 0
      <4>1. flatten[i + 1] = flatten[i] \o seqs[i + 1]
        <5>1. flatten[i + 1] = Value(i + 1, flatten)
          BY <1>11
        <5>2. i + 1 # 1
          BY <3>3
        <5> QED
          BY <3>1, <5>1, <5>2
      <4>2. flatten[i] \in Seq(Nat)
        BY <2>2, <3>3
      <4> QED
        BY <3>1, <4>1, <4>2
    <3> QED
      BY <3>2, <3>3
  <2>3. Nat \subseteq S
    <3>1. \A i \in Nat : i \in S => i + 1 \in S
      <4> HIDE DEF S
      <4> QED
        BY <2>2
    <3> HIDE DEF S
    <3> QED
      BY <2>1, <3>1, InductionOnSet
  <2> QED
    BY <2>3
<1> DEFINE F == [i \in 0..n |-> IF i = 0 THEN <<>> ELSE flatten[i]]
<1>13. F \in [0..n -> Seq(Nat)]
  BY <1>12
<1>14. \A i \in 1..n : F[i] = F[i - 1] \o seqs[i]
  <2> SUFFICES ASSUME NEW i \in 1..n PROVE F[i] = F[i - 1] \o seqs[i]
    OBVIOUS
  <2>1. i \in 0..n /\ i - 1 \in 0..n /\ seqs[i] \in Seq(Nat) /\ F[i] = flatten[i]
    BY <1>2
  <2>2. CASE i = 1
    <3>1. F[i - 1] = <<>> /\ flatten[i] = seqs[i]
      BY <1>11, <2>1, <2>2
    <3>2. PICK b : b = seqs[i]
      OBVIOUS
    <3>3. b \in Seq(Nat)
      BY <2>1, <3>2
    <3>4. <<>> \o b = b
      BY <3>3
    <3> QED
      BY <2>1, <3>1, <3>2, <3>4
  <2>3. CASE i # 1
    <3>1. F[i - 1] = flatten[i - 1]
      BY <2>1, <2>3
    <3>2. flatten[i] = Value(i, flatten)
      BY <1>11
    <3>3. flatten[i] = flatten[i - 1] \o seqs[i]
      BY <2>3, <3>2
    <3> HIDE DEF F
    <3> QED
      BY <2>1, <3>1, <3>3
  <2> QED
    BY <2>2, <2>3
<1>15. F[n] = EncodeCounts(counts) /\ F[0] = <<>>
  BY <1>9, <1>10
<1> HIDE DEF F
<1> DEFINE off == [i \in 0..n |-> Len(F[i])]
<1>16. off \in [0..n -> Nat] /\ off[0] = 0 /\ off[n] = Len(EncodeCounts(counts))
  BY <1>13, <1>15
<1>17. ASSUME NEW i \in 1..n
       PROVE  /\ SitsAt(EncodeCounts(counts), counts[i], off[i - 1])
              /\ off[i] = off[i - 1] + Len(EncodeVarint[counts[i]])
  <2>1. /\ Len(F[i]) = Len(F[i - 1]) + Len(seqs[i])
        /\ Len(F[i]) <= Len(F[n])
        /\ \A k \in 1..Len(seqs[i]) : F[n][Len(F[i - 1]) + k] = seqs[i][k]
    BY <1>2, <1>13, <1>14, Pieces
  <2>2. off[i] = Len(F[i]) /\ off[i - 1] = Len(F[i - 1])
    OBVIOUS
  <2> HIDE DEF off
  <2> QED
    BY <1>4, <1>15, <2>1, <2>2 DEF SitsAt
<1>18. EncodeCounts(counts) \in Seq(Nat)
  BY <1>13, <1>15
<1> HIDE DEF off
<1> QED
  BY <1>16, <1>17, <1>18

(* decode_counts reads back what encode_counts wrote, whatever the counts  *)
(* and however many (varint.py, test_varint.py): no count is so large that *)
(* its bytes run into its neighbour's.                                     *)
THEOREM CountsReadBack ==
    ASSUME NEW n \in Nat, NEW counts \in [1..n -> Nat]
    PROVE  DecodeCounts(EncodeCounts(counts)) = counts
<1>1. PICK blob : blob = EncodeCounts(counts)
  OBVIOUS
<1>2. blob \in Seq(Nat)
  BY <1>1, BlobOf
<1>3. PICK off \in [0..n -> Nat] :
         /\ off[0] = 0 /\ off[n] = Len(blob)
         /\ \A i \in 1..n : /\ SitsAt(blob, counts[i], off[i - 1])
                            /\ off[i] = off[i - 1] + Len(EncodeVarint[counts[i]])
  BY <1>1, BlobOf
<1>4. PICK R \in [0..Len(blob) -> Read] :
         /\ R[0] = NoBytes
         /\ \A i \in 1..Len(blob) : R[i] = NextByte(R[i - 1], blob[i])
         /\ DecodeCounts(blob) = R[Len(blob)].counts
  BY <1>2, ReadsOf
<1>5. \A m \in Nat : \A p \in Nat : SitsAt(blob, m, p) =>
         R[p + Len(EncodeVarint[m])] =
            [counts |-> Append(R[p].counts, R[p].value + m * R[p].unit), value |-> 0, unit |-> 1]
  BY <1>2, <1>4, VarintRead
<1> DEFINE Upto(i) == [k \in 1..i |-> counts[k]]
           Holds(i) == R[off[i]] = [counts |-> Upto(i), value |-> 0, unit |-> 1]
           S == {i \in Nat : i <= n => Holds(i)}
<1>6. 0 \in S
  <2>1. R[off[0]] = NoBytes
    BY <1>3, <1>4
  <2>2. Upto(0) = <<>>
    OBVIOUS
  <2> HIDE DEF Upto
  <2> QED
    BY <2>1, <2>2 DEF NoBytes
<1>7. ASSUME NEW i \in Nat, i \in S
      PROVE  i + 1 \in S
  <2> SUFFICES ASSUME i + 1 <= n PROVE Holds(i + 1)
    OBVIOUS
  <2>1. i <= n /\ i \in 0..n /\ i + 1 \in 1..n /\ (i + 1) - 1 = i
    OBVIOUS
  <2>2. Holds(i)
    BY <1>7, <2>1
  <2>3. PICK m, p : m = counts[i + 1] /\ p = off[i]
    OBVIOUS
  <2>4. m \in Nat /\ p \in Nat
    BY <2>1, <2>3
  <2>5. SitsAt(blob, m, p) /\ off[i + 1] = p + Len(EncodeVarint[m])
    BY <1>3, <2>1, <2>3
  <2>6. R[off[i + 1]] = [counts |-> Append(R[p].counts, R[p].value + m * R[p].unit), value |-> 0, unit |-> 1]
    BY <1>5, <2>4, <2>5
  <2>7. R[p].counts = Upto(i) /\ R[p].value = 0 /\ R[p].unit = 1
    <3> HIDE DEF Upto
    <3> QED
      BY <2>2, <2>3
  <2>8. 0 + m * 1 = m
    BY <2>4
  <2>9. Append(Upto(i), m) = Upto(i + 1)
    <3>1. Upto(i) \in Seq(Nat) /\ Len(Upto(i)) = i
      <4>1. Upto(i) \in [1..i -> Nat]
        BY <2>1
      <4> HIDE DEF Upto
      <4> QED
        BY <4>1
    <3>2. Upto(i + 1) \in Seq(Nat) /\ Len(Upto(i + 1)) = i + 1
      <4>1. Upto(i + 1) \in [1..(i + 1) -> Nat]
        BY <2>1
      <4> HIDE DEF Upto
      <4> QED
        BY <4>1
    <3>3. \A k \in 1..i : Upto(i)[k] = Upto(i + 1)[k]
      OBVIOUS
    <3>4. Upto(i + 1)[i + 1] = m
      BY <2>3
    <3> PICK s, t : s = Upto(i) /\ t = Upto(i + 1)
      OBVIOUS
    <3> HIDE DEF Upto
    <3>5. /\ Append(s, m) \in Seq(Nat) /\ Len(Append(s, m)) = i + 1 /\ Append(s, m)[i + 1] = m
          /\ \A k \in 1..i : Append(s, m)[k] = s[k]
      BY <2>4, <3>1
    <3>6. \A k \in 1..(i + 1) : Append(s, m)[k] = t[k]
      <4> SUFFICES ASSUME NEW k \in 1..(i + 1) PROVE Append(s, m)[k] = t[k]
        OBVIOUS
      <4>1. CASE k = i + 1
        BY <3>4, <3>5, <4>1
      <4>2. CASE k # i + 1
        <5>1. k \in 1..i
          BY <4>2
        <5> QED
          BY <3>3, <3>5, <5>1
      <4> QED
        BY <4>1, <4>2
    <3>7. PICK u : u = Append(s, m)
      OBVIOUS
    <3>8. u \in Seq(Nat) /\ t \in Seq(Nat) /\ Len(u) = Len(t) /\ \A k \in 1..Len(u) : u[k] = t[k]
      BY <3>2, <3>5, <3>6, <3>7
    <3>9. u = t
      BY <3>8, SameElements
    <3> QED
      BY <3>7, <3>9
  <2> HIDE DEF Upto
  <2> QED
    BY <2>6, <2>7, <2>8, <2>9
<1>8. Nat \subseteq S
  <2>1. \A i \in Nat : i \in S => i + 1 \in S
    <3> HIDE DEF S
    <3> QED
      BY <1>7
  <2> HIDE DEF S
  <2> QED
    BY <1>6, <2>1, InductionOnSet
<1>9. Holds(n)
  <2> HIDE DEF Holds
  <2> QED
    BY <1>8
<1>10. R[Len(blob)].counts = Upto(n)
  <2> HIDE DEF Upto
  <2> QED
    BY <1>3, <1>9
<1>11. Upto(n) = counts
  OBVIOUS
<1> HIDE DEF Upto
<1> QED
  BY <1>1, <1>4, <1>10, <1>11

\* What the ids of a finite set are in ascending order, and where each of them is.
LEMMA AscendingIds ==
    ASSUME NEW ids, ids \subseteq Nat, IsFiniteSet(ids)
    PROVE  /\ Ascending(ids) \in [1..Cardinality(ids) -> ids]
           /\ \A t \in ids :
                 /\ Cardinality({u \in ids : u <= t}) \in 1..Cardinality(ids)
                 /\ Ascending(ids)[Cardinality({u \in ids : u <= t})] = t
<1> DEFINE N == Cardinality(ids)
           below(t) == {u \in ids : u <= t}
           nth == [t \in ids |-> Cardinality(below(t))]
           Rises(s) == \A i, j \in DOMAIN s : i < j => s[i] < s[j]
           s0 == [k \in 1..N |-> CHOOSE t \in ids : nth[t] = k]
<1>1. N \in Nat /\ IsFiniteSet(1..N) /\ Cardinality(1..N) = N
  <2>1. N \in Nat
    BY FS_CardinalityType
  <2> HIDE DEF N
  <2> QED
    BY <2>1, FS_Interval
<1>2. ASSUME NEW t \in ids
      PROVE  IsFiniteSet(below(t)) /\ nth[t] \in 1..N
  <2>1. below(t) \in SUBSET ids
    OBVIOUS
  <2>2. IsFiniteSet(below(t)) /\ Cardinality(below(t)) <= N
    <3> HIDE DEF below
    <3> QED
      BY <2>1, FS_Subset
  <2>3. t \in below(t)
    OBVIOUS
  <2>4. Cardinality(below(t)) \in Nat /\ Cardinality(below(t)) # 0
    <3> HIDE DEF below
    <3> QED
      BY <2>2, <2>3, FS_CardinalityType, FS_EmptySet
  <2>5. nth[t] = Cardinality(below(t))
    OBVIOUS
  <2> HIDE DEF below, nth, N
  <2> QED
    BY <1>1, <2>2, <2>4, <2>5
<1>3. ASSUME NEW t \in ids, NEW u \in ids, t < u
      PROVE  nth[t] < nth[u]
  <2>1. below(t) \in SUBSET below(u) /\ u \notin below(t) /\ u \in below(u)
    <3>1. t \in Nat /\ u \in Nat /\ ~ u <= t /\ u <= u
      BY <1>3
    <3>2. ASSUME NEW x \in ids, x <= t
          PROVE  x <= u
      <4>1. x \in Nat
        OBVIOUS
      <4> QED
        BY <1>3, <3>1, <3>2, <4>1
    <3> QED
      BY <3>1, <3>2
  <2>2. nth[t] = Cardinality(below(t)) /\ nth[u] = Cardinality(below(u))
    OBVIOUS
  <2>3. Cardinality(below(t)) <= Cardinality(below(u)) /\ Cardinality(below(t)) # Cardinality(below(u))
    <3> HIDE DEF below
    <3> QED
      BY <1>2, <2>1, FS_Subset
  <2>4. nth[t] \in Nat /\ nth[u] \in Nat
    BY <1>2
  <2> HIDE DEF below, nth
  <2> QED
    BY <2>2, <2>3, <2>4
<1>4. \A t, u \in ids : nth[t] = nth[u] => t = u
  <2> SUFFICES ASSUME NEW t \in ids, NEW u \in ids, nth[t] = nth[u], t # u PROVE FALSE
    OBVIOUS
  <2>1. (t < u \/ u < t) /\ nth[t] \in Nat
    BY <1>2
  <2> HIDE DEF nth
  <2> QED
    BY <1>3, <2>1
<1>5. \A k \in 1..N : \E t \in ids : nth[t] = k
  <2>1. nth \in [ids -> 1..N]
    BY <1>2
  <2> HIDE DEF nth, N
  <2>2. nth \in Injection(ids, 1..N)
    BY <1>4, <2>1 DEF Injection, IsInjective
  <2>3. Cardinality(ids) = Cardinality(1..N)
    BY <1>1 DEF N
  <2>4. nth \in Surjection(ids, 1..N)
    BY <1>1, <2>2, <2>3, FS_Injection
  <2> QED
    BY <2>4 DEF Surjection
<1>6. \E s \in [1..N -> ids] : Rises(s)
  <2>1. \A k \in 1..N : s0[k] \in ids /\ nth[s0[k]] = k
    <3> HIDE DEF nth
    <3> QED
      BY <1>5
  <2>2. s0 \in [1..N -> ids]
    BY <2>1
  <2>3. ASSUME NEW i \in 1..N, NEW j \in 1..N, i < j
        PROVE  s0[i] < s0[j]
    <3>1. PICK a, b : a = s0[i] /\ b = s0[j]
      OBVIOUS
    <3>2. a \in ids /\ b \in ids /\ nth[a] = i /\ nth[b] = j
      BY <2>1, <3>1
    <3> HIDE DEF nth, s0
    <3>3. ~ b < a /\ a # b
      BY <1>3, <2>3, <3>2
    <3>4. a \in Nat /\ b \in Nat
      BY <3>2
    <3> QED
      BY <3>1, <3>3, <3>4
  <2> HIDE DEF s0
  <2> QED
    BY <2>2, <2>3
<1>7. Ascending(ids) \in [1..N -> ids] /\ Rises(Ascending(ids))
  <2> HIDE DEF nth
  <2> QED
    BY <1>6, Zenon DEF Ascending
<1>8. PICK s : s = Ascending(ids)
  OBVIOUS
<1>9. s \in [1..N -> ids] /\ \A i, j \in 1..N : i < j => s[i] < s[j]
  BY <1>7, <1>8
<1>10. \A i, j \in 1..N : s[i] \in Nat /\ (s[i] <= s[j] <=> i <= j) /\ (s[i] = s[j] => i = j)
  <2> SUFFICES ASSUME NEW i \in 1..N, NEW j \in 1..N
               PROVE  s[i] \in Nat /\ (s[i] <= s[j] <=> i <= j) /\ (s[i] = s[j] => i = j)
    OBVIOUS
  <2>1. s[i] \in Nat /\ s[j] \in Nat
    BY <1>9
  <2>2. i < j \/ j < i \/ i = j
    BY <1>1
  <2>3. /\ i < j => s[i] < s[j]
        /\ j < i => s[j] < s[i]
    BY <1>9
  <2> HIDE DEF N
  <2> QED
    BY <1>1, <2>1, <2>2, <2>3
<1>11. \A t \in ids : \E k \in 1..N : s[k] = t
  <2> HIDE DEF N
  <2>1. s \in Injection(1..N, ids)
    BY <1>9, <1>10 DEF Injection, IsInjective
  <2>2. Cardinality(1..N) = Cardinality(ids)
    BY <1>1 DEF N
  <2>3. s \in Surjection(1..N, ids)
    BY <2>1, <2>2, FS_Injection
  <2> QED
    BY <2>3 DEF Surjection
<1>12. ASSUME NEW k \in 1..N
       PROVE  Cardinality(below(s[k])) = k
  <2>1. k \in Nat /\ \A i \in 1..k : i \in 1..N
    BY <1>1
  <2> DEFINE g == [i \in 1..k |-> s[i]]
  <2>2. \A i \in 1..k : s[i] \in below(s[k])
    BY <1>9, <1>10, <2>1
  <2>3. \A u \in below(s[k]) : \E i \in 1..k : s[i] = u
    <3> SUFFICES ASSUME NEW u \in below(s[k]) PROVE \E i \in 1..k : s[i] = u
      OBVIOUS
    <3>1. PICK i \in 1..N : s[i] = u
      BY <1>11
    <3>2. i <= k
      BY <1>10, <3>1
    <3>3. i \in 1..k
      BY <1>1, <3>2
    <3> QED
      BY <3>1, <3>3
  <2>4. \A i, j \in 1..k : s[i] = s[j] => i = j
    BY <1>10, <2>1
  <2> PICK S : S = below(s[k])
    OBVIOUS
  <2> HIDE DEF below, N, nth
  <2>5. g \in Bijection(1..k, S)
    BY <2>2, <2>3, <2>4 DEF Bijection, Injection, Surjection, IsInjective
  <2>6. ExistsBijection(1..k, S)
    BY <2>5 DEF ExistsBijection
  <2>7. IsFiniteSet(1..k) /\ Cardinality(1..k) = k
    BY <2>1, FS_Interval
  <2> QED
    BY <2>6, <2>7, FS_Bijection
<1>13. ASSUME NEW t \in ids
       PROVE  Cardinality(below(t)) \in 1..N /\ s[Cardinality(below(t))] = t
  <2>1. PICK k \in 1..N : s[k] = t
    BY <1>11
  <2>2. Cardinality(below(t)) = k
    BY <1>12, <2>1
  <2> QED
    BY <2>1, <2>2
<1> QED
  BY <1>7, <1>8, <1>13

(* Reading a blob back finds, at the place of an id among the ids, its     *)
(* total.                                                                  *)
LEMMA BlobSays ==
    ASSUME NEW ids, ids \subseteq Nat, IsFiniteSet(ids), NEW totals \in [ids -> Nat]
    PROVE  /\ Len(DecodeCounts(Blob(totals))) = Cardinality(ids)
           /\ \A t \in ids : DecodeCounts(Blob(totals))[Cardinality({u \in ids : u <= t})] = totals[t]
<1>1. PICK s, N : s = Ascending(ids) /\ N = Cardinality(ids)
  OBVIOUS
<1>2. N \in Nat /\ s \in [1..N -> ids]
  BY <1>1, FS_CardinalityType, AscendingIds
<1> DEFINE counts == [i \in 1..N |-> totals[s[i]]]
<1>3. counts \in [1..N -> Nat]
  BY <1>2
<1>4. Blob(totals) = EncodeCounts(counts)
  <2>1. DOMAIN totals = ids /\ DOMAIN s = 1..N
    BY <1>2
  <2> QED
    BY <1>1, <2>1 DEF Blob
<1>5. DecodeCounts(Blob(totals)) = counts
  <2> HIDE DEF counts
  <2> QED
    BY <1>2, <1>3, <1>4, CountsReadBack
<1>6. Len(counts) = N
  <2> HIDE DEF counts
  <2> QED
    BY <1>2, <1>3
<1>7. ASSUME NEW t \in ids
      PROVE  counts[Cardinality({u \in ids : u <= t})] = totals[t]
  <2>1. PICK k : k = Cardinality({u \in ids : u <= t})
    OBVIOUS
  <2>2. k \in 1..N /\ s[k] = t
    BY <1>1, <2>1, AscendingIds
  <2>3. counts[k] = totals[t]
    BY <2>2
  <2> QED
    BY <2>1, <2>3
<1> QED
  BY <1>1, <1>5, <1>6, <1>7

-----------------------------------------------------------------------------
(* The messages of a set of channels.                                      *)

TotalOf(S) == MapThenSumSet(LAMBDA c : Messages[c], S)

Summing(it, S) ==
    /\ it \in [SUBSET S -> Nat]
    /\ \A s \in SUBSET S : it[s] = IF s = {} THEN 0
                                   ELSE Messages[CHOOSE x \in s : TRUE] + it[s \ {CHOOSE x \in s : TRUE}]

LEMMA SomeMember ==
    ASSUME NEW s, s # {}
    PROVE  (CHOOSE x \in s : TRUE) \in s
BY Zenon

\* Its definition as a fold, with a function that holds its value on every subset.
LEMMA SumFolds ==
    ASSUME NEW S, IsFiniteSet(S), \A c \in S : Messages[c] \in Nat
    PROVE  \E it : Summing(it, S) /\ TotalOf(S) = it[S]
<1> DEFINE D == SUBSET S
           Pick(s) == CHOOSE x \in s : TRUE
           Value(s, g) == IF s = {} THEN 0 ELSE Messages[Pick(s)] + g[s \ {Pick(s)}]
           fold(g) == [s \in D |-> IF s = {} THEN 0
                          ELSE Messages[CHOOSE x \in s : TRUE] + g[s \ {CHOOSE x \in s : TRUE}]]
           step == [s \in D |-> [g \in [D -> Nat] |-> Value(s, g)]]
           rank == [s \in D |-> Cardinality(s)]
           it == CHOOSE g : g = fold(g)
<1>1. ASSUME NEW s \in D
      PROVE  IsFiniteSet(s) /\ Cardinality(s) \in Nat
  <2>1. IsFiniteSet(s)
    BY FS_Subset
  <2> QED
    BY <2>1, FS_CardinalityType
<1>2. ASSUME NEW s \in D, s # {}
      PROVE  /\ Messages[Pick(s)] \in Nat /\ s \ {Pick(s)} \in D
             /\ Cardinality(s \ {Pick(s)}) < Cardinality(s)
  <2>1. Pick(s) \in s
    BY <1>2, SomeMember
  <2> HIDE DEF Pick
  <2>2. Cardinality(s \ {Pick(s)}) = Cardinality(s) - 1
    BY <1>1, <2>1, FS_RemoveElement
  <2>3. Cardinality(s) \in Nat
    BY <1>1
  <2> QED
    BY <2>1, <2>2, <2>3
<1>3. ASSUME NEW s \in D, NEW g \in [D -> Nat]
      PROVE  Value(s, g) \in Nat
  <2>1. CASE s = {}
    BY <2>1
  <2>2. CASE s # {}
    <3>1. g[s \ {Pick(s)}] \in Nat /\ Messages[Pick(s)] \in Nat
      BY <1>2, <2>2
    <3> HIDE DEF Pick
    <3> QED
      BY <2>2, <3>1
  <2> QED
    BY <2>1, <2>2
<1>4. Recursion(D, Nat, rank, step)
  <2>1. \A s \in D : \A g, h \in [D -> Nat] :
           (\A e \in D : Cardinality(e) < Cardinality(s) => g[e] = h[e]) => Value(s, g) = Value(s, h)
    <3> SUFFICES ASSUME NEW s \in D, NEW g \in [D -> Nat], NEW h \in [D -> Nat],
                        \A e \in D : Cardinality(e) < Cardinality(s) => g[e] = h[e], s # {}
                 PROVE  g[s \ {Pick(s)}] = h[s \ {Pick(s)}]
      <4> HIDE DEF Pick, D
      <4> QED
        OBVIOUS
    <3> HIDE DEF Pick, D
    <3> QED
      BY <1>2
  <2>2. step \in [D -> [[D -> Nat] -> Nat]]
    <3> HIDE DEF Value, D
    <3> QED
      BY <1>3
  <2>3. rank \in [D -> Nat]
    <3> HIDE DEF D
    <3> QED
      BY <1>1
  <2>4. \A s \in D : \A g, h \in [D -> Nat] :
           (\A e \in D : rank[e] < rank[s] => g[e] = h[e]) => step[s][g] = step[s][h]
    <3> HIDE DEF Value, D
    <3> QED
      BY <2>1
  <2> HIDE DEF D, step, rank
  <2> QED
    BY <2>2, <2>3, <2>4 DEF Recursion
<1>5. \E g \in [D -> Nat] : g = fold(g)
  <2>1. \E g \in [D -> Nat] : \A s \in D : g[s] = step[s][g]
    <3> HIDE DEF step, rank, D
    <3> QED
      BY <1>4, RecursionOnRank
  <2>2. PICK g \in [D -> Nat] : \A s \in D : g[s] = step[s][g]
    BY <2>1
  <2>3. \A s \in D : g[s] = Value(s, g)
    <3> HIDE DEF Value, D
    <3> QED
      BY <2>2
  <2> HIDE DEF D
  <2> QED
    BY <2>3
<1>6. it = fold(it)
  <2> HIDE DEF fold
  <2> QED
    BY <1>5, Zenon
<1>7. TotalOf(S) = it[S]
  BY Zenon DEF TotalOf, MapThenSumSet, MapThenFoldSet
<1> HIDE DEF it
<1>8. \A s \in D : it[s] = Value(s, it)
  BY <1>6
<1>9. \A s \in D : it[s] \in Nat
  <2> DEFINE V == {s \in D : it[s] \in Nat}
  <2>1. ASSUME NEW s \in D, \A e \in D : Cardinality(e) < Cardinality(s) => e \in V
        PROVE  s \in V
    <3>1. CASE s = {}
      BY <1>8, <3>1
    <3>2. CASE s # {}
      <4>1. it[s \ {Pick(s)}] \in Nat /\ Messages[Pick(s)] \in Nat
        BY <1>2, <2>1, <3>2
      <4>2. it[s] = Messages[Pick(s)] + it[s \ {Pick(s)}]
        BY <1>8, <3>2
      <4> HIDE DEF Pick
      <4> QED
        BY <4>1, <4>2
    <3> QED
      BY <3>1, <3>2
  <2>2. rank \in [D -> Nat]
    BY <1>4 DEF Recursion
  <2>3. \A s \in D : (\A e \in D : rank[e] < rank[s] => e \in V) => s \in V
    <3> HIDE DEF V, D
    <3> QED
      BY <2>1
  <2>4. D \subseteq V
    <3> HIDE DEF V, D, rank
    <3> QED
      BY <2>2, <2>3, InductionOnRank
  <2> QED
    BY <2>4
<1>10. it \in [D -> Nat]
  BY <1>6, <1>9
<1>11. Summing(it, S)
  BY <1>8, <1>10 DEF Summing
<1> QED
  BY <1>7, <1>11

\* Two such functions agree where both are defined.
LEMMA SameSums ==
    ASSUME NEW S, IsFiniteSet(S), NEW U, S \subseteq U, NEW f, Summing(f, S), NEW g, Summing(g, U)
    PROVE  f[S] = g[S]
<1> DEFINE D == SUBSET S
           rank == [s \in D |-> Cardinality(s)]
           V == {s \in D : f[s] = g[s]}
<1>1. rank \in [D -> Nat]
  <2>1. \A s \in D : Cardinality(s) \in Nat
    <3> SUFFICES ASSUME NEW s \in D PROVE Cardinality(s) \in Nat
      OBVIOUS
    <3>1. IsFiniteSet(s)
      BY FS_Subset
    <3> QED
      BY <3>1, FS_CardinalityType
  <2> HIDE DEF D
  <2> QED
    BY <2>1
<1>2. ASSUME NEW s \in D, \A e \in D : Cardinality(e) < Cardinality(s) => e \in V
      PROVE  s \in V
  <2>1. s \in SUBSET S /\ s \in SUBSET U
    OBVIOUS
  <2>2. CASE s = {}
    BY <2>1, <2>2 DEF Summing
  <2>3. CASE s # {}
    <3>1. PICK x : x = CHOOSE y \in s : TRUE
      OBVIOUS
    <3>2. x \in s
      BY <2>3, <3>1, SomeMember
    <3>3. f[s] = Messages[x] + f[s \ {x}]
      BY <2>1, <2>3, <3>1 DEF Summing
    <3>4. g[s] = Messages[x] + g[s \ {x}]
      BY <2>1, <2>3, <3>1 DEF Summing
    <3>5. s \ {x} \in D
      OBVIOUS
    <3>6. Cardinality(s \ {x}) < Cardinality(s)
      <4>1. IsFiniteSet(s)
        BY FS_Subset
      <4>2. Cardinality(s) \in Nat /\ Cardinality(s \ {x}) = Cardinality(s) - 1
        BY <3>2, <4>1, FS_CardinalityType, FS_RemoveElement
      <4> QED
        BY <4>2
    <3>7. s \ {x} \in V
      <4> HIDE DEF V, D
      <4> QED
        BY <1>2, <3>5, <3>6
    <3> QED
      BY <3>3, <3>4, <3>7
  <2> QED
    BY <2>2, <2>3
<1>3. \A s \in D : (\A e \in D : rank[e] < rank[s] => e \in V) => s \in V
  <2> HIDE DEF V, D
  <2> QED
    BY <1>2
<1>4. D \subseteq V
  <2> HIDE DEF D, V, rank
  <2> QED
    BY <1>1, <1>3, InductionOnRank
<1>5. S \in D
  OBVIOUS
<1> QED
  BY <1>4, <1>5

\* Whichever member is taken out first, the rest makes up the sum.
LEMMA AnyMember ==
    ASSUME NEW U, IsFiniteSet(U), NEW it, Summing(it, U), \A c \in U : Messages[c] \in Nat
    PROVE  \A s \in SUBSET U : \A d \in s : it[s] = Messages[d] + it[s \ {d}]
<1> DEFINE D == SUBSET U
           rank == [s \in D |-> Cardinality(s)]
           V == {s \in D : \A d \in s : it[s] = Messages[d] + it[s \ {d}]}
<1>1. ASSUME NEW s \in D
      PROVE  /\ Cardinality(s) \in Nat
             /\ \A x \in s : s \ {x} \in D /\ Cardinality(s \ {x}) < Cardinality(s)
  <2>1. IsFiniteSet(s)
    BY FS_Subset
  <2>2. Cardinality(s) \in Nat
    BY <2>1, FS_CardinalityType
  <2>3. \A x \in s : Cardinality(s \ {x}) = Cardinality(s) - 1
    BY <2>1, FS_RemoveElement
  <2>4. \A x \in s : s \ {x} \in D
    OBVIOUS
  <2> QED
    BY <2>2, <2>3, <2>4
<1>2. rank \in [D -> Nat]
  <2> HIDE DEF D
  <2> QED
    BY <1>1
<1>3. \A s \in D : it[s] \in Nat /\ \A x \in s : Messages[x] \in Nat
  BY DEF Summing
<1>4. ASSUME NEW s \in D, \A e \in D : Cardinality(e) < Cardinality(s) => e \in V, NEW d \in s
      PROVE  it[s] = Messages[d] + it[s \ {d}]
  <2>1. PICK x : x = CHOOSE y \in s : TRUE
    OBVIOUS
  <2>2. x \in s
    BY <2>1, SomeMember
  <2>3. it[s] = Messages[x] + it[s \ {x}]
    BY <2>1, <2>2 DEF Summing
  <2>4. CASE x = d
    BY <2>3, <2>4
  <2>5. CASE x # d
    <3>1. s \ {x} \in V /\ s \ {d} \in V
      <4> HIDE DEF V, D
      <4> QED
        BY <1>1, <1>4, <2>2
    <3>2. d \in s \ {x} /\ x \in s \ {d}
      BY <2>2, <2>5
    <3>3. PICK r : r = (s \ {x}) \ {d}
      OBVIOUS
    <3>4. r = (s \ {d}) \ {x} /\ r \in D
      BY <3>3
    <3>5. it[s \ {x}] = Messages[d] + it[r] /\ it[s \ {d}] = Messages[x] + it[r]
      BY <3>1, <3>2, <3>3, <3>4
    <3>6. PICK a, b, e : a = Messages[x] /\ b = Messages[d] /\ e = it[r]
      OBVIOUS
    <3>7. a \in Nat /\ b \in Nat /\ e \in Nat
      <4>1. r \in D /\ s \in D
        BY <3>4
      <4> HIDE DEF D
      <4> QED
        BY <1>3, <2>2, <3>6, <4>1
    <3>8. it[s] = a + (b + e) /\ it[s \ {d}] = a + e
      BY <2>3, <3>5, <3>6
    <3> QED
      BY <3>6, <3>7, <3>8
  <2> QED
    BY <2>4, <2>5
<1>5. \A s \in D : (\A e \in D : rank[e] < rank[s] => e \in V) => s \in V
  <2>1. ASSUME NEW s \in D, \A e \in D : Cardinality(e) < Cardinality(s) => e \in V
        PROVE  s \in V
    <3>1. \A d \in s : it[s] = Messages[d] + it[s \ {d}]
      <4> HIDE DEF V, D
      <4> QED
        BY <1>4, <2>1
    <3> QED
      BY <3>1
  <2> HIDE DEF V, D
  <2> QED
    BY <2>1
<1>6. D \subseteq V
  <2> HIDE DEF D, V, rank
  <2> QED
    BY <1>2, <1>5, InductionOnRank
<1> QED
  BY <1>6

\* A channel more adds its messages.
LEMMA SumAdds ==
    ASSUME NEW S, IsFiniteSet(S), NEW d, d \notin S, \A c \in S \cup {d} : Messages[c] \in Nat
    PROVE  TotalOf(S \cup {d}) = Messages[d] + TotalOf(S) /\ TotalOf(S) \in Nat
<1> DEFINE U == S \cup {d}
<1>1. IsFiniteSet(U)
  BY FS_AddElement
<1>2. S \subseteq U /\ S \in SUBSET U /\ U \in SUBSET U /\ d \in U /\ U \ {d} = S
  OBVIOUS
<1>3. \A c \in U : Messages[c] \in Nat
  OBVIOUS
<1>4. PICK g : Summing(g, U) /\ TotalOf(U) = g[U]
  <2> HIDE DEF U
  <2> QED
    BY <1>1, <1>3, SumFolds
<1>5. PICK f : Summing(f, S) /\ TotalOf(S) = f[S]
  BY SumFolds
<1>6. f[S] = g[S]
  <2> HIDE DEF U
  <2> QED
    BY <1>2, <1>4, <1>5, SameSums
<1>7. g[U] = Messages[d] + g[U \ {d}]
  <2> HIDE DEF U
  <2> QED
    BY <1>1, <1>2, <1>3, <1>4, AnyMember
<1>8. f[S] \in Nat
  BY <1>5 DEF Summing
<1>9. TotalOf(U) = Messages[d] + TotalOf(S)
  <2> HIDE DEF U
  <2> QED
    BY <1>2, <1>4, <1>5, <1>6, <1>7
<1> QED
  BY <1>5, <1>8, <1>9

LEMMA SumOfNone == TotalOf({}) = 0
<1>1. PICK f : Summing(f, {}) /\ TotalOf({}) = f[{}]
  BY SumFolds, FS_EmptySet
<1> QED
  BY <1>1 DEF Summing

-----------------------------------------------------------------------------
(* The counts of a row.                                                    *)

(* totals holds, for each topic of the channels ch, the messages of its    *)
(* channels.                                                               *)
CountsSay(tab, totals, members, ch) ==
    /\ IsFiniteSet(ch)
    /\ totals \in [{m[1] : m \in members} -> Nat]
    /\ \A c \in ch : \E id \in DOMAIN totals : /\ Says(tab, "topic_names", <<0, c[1]>>, id)
                                               /\ totals[id] = TotalOf({d \in ch : d[1] = c[1]})

RowCounts(tab, r) ==
    \E s \in tab["topic_sets"] : s.id = r.set /\
       \E totals \in [{m[1] : m \in s.key} -> Nat] :
          CountsSay(tab, totals, s.key, r.content) /\ r.counts = Blob(totals)

CountsInv ==
    undone = "never" =>
        /\ \A r \in db.files : RowCounts(db.tab, r)
        /\ pc \in Dimension \cup {"read"} => job.totals = <<>>
        /\ pc \in {"channels", "schema", "set", "write"} =>
              CountsSay(conn.tab, job.totals, job.members, job.content \ Ahead)

LEMMA CountsStay ==
    ASSUME NEW tab, NEW more, Added(tab, more), NEW totals, NEW members, NEW ch,
           CountsSay(tab, totals, members, ch)
    PROVE  CountsSay(more, totals, members, ch)
<1>1. tab["topic_names"] \subseteq more["topic_names"]
  BY TableNames DEF Added
<1> QED
  BY <1>1 DEF CountsSay, Says

LEMMA RowCountsStay ==
    ASSUME NEW tab, NEW more, Added(tab, more), NEW r, RowCounts(tab, r)
    PROVE  RowCounts(more, r)
<1>1. PICK s \in tab["topic_sets"] : s.id = r.set /\
         \E totals \in [{m[1] : m \in s.key} -> Nat] :
            CountsSay(tab, totals, s.key, r.content) /\ r.counts = Blob(totals)
  BY DEF RowCounts
<1>4. \A totals : CountsSay(tab, totals, s.key, r.content) => CountsSay(more, totals, s.key, r.content)
  BY CountsStay
<1>2. s \in more["topic_sets"]
  BY TableNames DEF Added
<1> QED
  BY <1>1, <1>2, <1>4 DEF RowCounts

(* One channel more: its messages join those of its topic, which is a new  *)
(* one if none of the channels before had it.                              *)
LEMMA ChannelCounted ==
    ASSUME NEW tab, Tables(tab), NEW totals, NEW members, NEW ch,
           MembersSay(tab, members, ch), CountsSay(tab, totals, members, ch),
           NEW c, c \notin ch, \A d \in ch \cup {c} : Messages[d] \in Nat,
           NEW topic, Says(tab, "topic_names", <<0, c[1]>>, topic),
           NEW more, {m[1] : m \in more} = {m[1] : m \in members} \cup {topic}
    PROVE  CountsSay(tab, Counted(totals, topic, Messages[c]), more, ch \cup {c})
<1> DEFINE new == Counted(totals, topic, Messages[c])
           of(d) == {e \in ch : e[1] = d[1]}
           all(d) == {e \in ch \cup {c} : e[1] = d[1]}
<1>1. /\ IsFiniteSet(ch) /\ totals \in [{m[1] : m \in members} -> Nat]
      /\ \A d \in ch : \E id \in DOMAIN totals : /\ Says(tab, "topic_names", <<0, d[1]>>, id)
                                                 /\ totals[id] = TotalOf(of(d))
  BY DEF CountsSay
<1>2. IsFiniteSet(ch \cup {c})
  BY <1>1, FS_AddElement
<1>3. \A d, e, i, j : Says(tab, "topic_names", <<0, d>>, i) /\ Says(tab, "topic_names", <<0, e>>, j)
         => (d = e <=> i = j)
  <2> SUFFICES ASSUME NEW d, NEW e, NEW i, NEW j, Says(tab, "topic_names", <<0, d>>, i),
                      Says(tab, "topic_names", <<0, e>>, j)
               PROVE  d = e <=> i = j
    OBVIOUS
  <2>1. "topic_names" \in Table
    BY TableNames
  <2>2. <<0, d>> = <<0, e>> <=> i = j
    BY <2>1, OneSaid
  <2> QED
    BY <2>2
<1>4. topic \in DOMAIN totals => \E d \in ch : d[1] = c[1]
  <2> SUFFICES ASSUME topic \in DOMAIN totals PROVE \E d \in ch : d[1] = c[1]
    OBVIOUS
  <2>1. PICK m \in members : topic = m[1]
    BY <1>1
  <2>2. PICK d \in ch : Says(tab, "topic_names", <<0, d[1]>>, m[1])
    BY DEF MembersSay
  <2> QED
    BY <1>3, <2>1, <2>2
<1>5. /\ topic \in DOMAIN totals => totals[topic] = TotalOf(of(c))
      /\ topic \notin DOMAIN totals => of(c) = {}
  <2>1. ASSUME NEW d \in ch, d[1] = c[1]
        PROVE  topic \in DOMAIN totals /\ totals[topic] = TotalOf(of(c))
    <3>1. PICK id \in DOMAIN totals : /\ Says(tab, "topic_names", <<0, d[1]>>, id)
                                      /\ totals[id] = TotalOf(of(d))
      BY <1>1
    <3>2. id = topic /\ of(d) = of(c)
      BY <1>3, <2>1, <3>1
    <3> HIDE DEF of
    <3> QED
      BY <3>1, <3>2
  <2>2. of(c) # {} => \E d \in ch : d[1] = c[1]
    OBVIOUS
  <2> HIDE DEF of
  <2> QED
    BY <1>4, <2>1, <2>2
<1>6. TotalOf(all(c)) = Messages[c] + TotalOf(of(c)) /\ TotalOf(of(c)) \in Nat
  <2>1. all(c) = of(c) \cup {c} /\ c \notin of(c) /\ of(c) \in SUBSET ch
    OBVIOUS
  <2>2. \A d \in of(c) \cup {c} : Messages[d] \in Nat
    OBVIOUS
  <2> HIDE DEF all, of
  <2>3. IsFiniteSet(of(c))
    BY <1>1, <2>1, FS_Subset
  <2>4. TotalOf(of(c) \cup {c}) = Messages[c] + TotalOf(of(c)) /\ TotalOf(of(c)) \in Nat
    BY <2>1, <2>2, <2>3, SumAdds
  <2> QED
    BY <2>1, <2>4
<1>7. /\ DOMAIN new = DOMAIN totals \cup {topic}
      /\ \A x \in DOMAIN totals : x # topic => new[x] = totals[x]
      /\ new[topic] = TotalOf(all(c))
      /\ new = [x \in DOMAIN new |-> new[x]]
  <2>1. new = [x \in DOMAIN totals \cup {topic} |->
                 (IF x \in DOMAIN totals THEN totals[x] ELSE 0) + (IF x = topic THEN Messages[c] ELSE 0)]
    BY DEF Counted
  <2>2. DOMAIN new = DOMAIN totals \cup {topic}
    BY <2>1
  <2>3. ASSUME NEW x \in DOMAIN totals, x # topic
        PROVE  new[x] = totals[x]
    <3>1. totals[x] \in Nat
      BY <1>1
    <3>2. new[x] = totals[x] + 0
      BY <2>1, <2>3
    <3> HIDE DEF new
    <3> QED
      BY <3>1, <3>2
  <2>4. new[topic] = (IF topic \in DOMAIN totals THEN totals[topic] ELSE 0) + Messages[c]
    BY <2>1
  <2>5. (IF topic \in DOMAIN totals THEN totals[topic] ELSE 0) = TotalOf(of(c))
    <3>1. of(c) = {} => TotalOf(of(c)) = 0
      <4> HIDE DEF of
      <4> QED
        BY SumOfNone
    <3> HIDE DEF of
    <3> QED
      BY <1>5, <3>1
  <2>6. new[topic] = TotalOf(all(c))
    <3>1. Messages[c] \in Nat
      OBVIOUS
    <3> HIDE DEF new, of, all
    <3> QED
      BY <1>6, <2>4, <2>5, <3>1
  <2> HIDE DEF new
  <2> QED
    BY <2>1, <2>2, <2>3, <2>6
<1>8. new \in [{m[1] : m \in more} -> Nat]
  <2>1. DOMAIN new = {m[1] : m \in more}
    BY <1>1, <1>7
  <2>2. \A x \in DOMAIN new : new[x] \in Nat
    <3>1. TotalOf(all(c)) \in Nat
      <4>1. Messages[c] \in Nat
        OBVIOUS
      <4> HIDE DEF all, of
      <4> QED
        BY <1>6, <4>1
    <3>2. \A x \in DOMAIN totals : totals[x] \in Nat
      BY <1>1
    <3> HIDE DEF new, all
    <3> QED
      BY <1>7, <3>1, <3>2
  <2> HIDE DEF new
  <2> QED
    BY <1>7, <2>1, <2>2
<1>9. ASSUME NEW d \in ch \cup {c}
      PROVE  \E id \in DOMAIN new : /\ Says(tab, "topic_names", <<0, d[1]>>, id)
                                    /\ new[id] = TotalOf(all(d))
  <2>1. CASE d[1] = c[1]
    <3>1. all(d) = all(c)
      BY <2>1
    <3>2. topic \in DOMAIN new /\ Says(tab, "topic_names", <<0, d[1]>>, topic)
      BY <1>7, <2>1
    <3> HIDE DEF new, all
    <3> QED
      BY <1>7, <3>1, <3>2
  <2>2. CASE d[1] # c[1]
    <3>1. d \in ch /\ all(d) = of(d)
      BY <2>2
    <3>2. PICK id \in DOMAIN totals : /\ Says(tab, "topic_names", <<0, d[1]>>, id)
                                      /\ totals[id] = TotalOf(of(d))
      BY <1>1, <3>1
    <3>3. id # topic
      BY <1>3, <2>2, <3>2
    <3> HIDE DEF new, all, of
    <3> QED
      BY <1>7, <3>1, <3>2, <3>3
  <2> QED
    BY <2>1, <2>2
<1>10. CountsSay(tab, new, more, ch \cup {c})
  <2> HIDE DEF new
  <2>1. \A d \in ch \cup {c} : \E id \in DOMAIN new :
           /\ Says(tab, "topic_names", <<0, d[1]>>, id)
           /\ new[id] = TotalOf({e \in ch \cup {c} : e[1] = d[1]})
    BY <1>9
  <2> QED
    BY <1>2, <1>8, <2>1 DEF CountsSay
<1> QED
  BY <1>10

-----------------------------------------------------------------------------
(* The steps.                                                              *)

\* Rows that stay count what they counted.
LEMMA RowsCounted ==
    ASSUME CountsInv, Added(db.tab, db'.tab), db'.files \subseteq db.files,
           undone' = "never" => undone = "never"
    PROVE  undone' = "never" => \A r \in db'.files : RowCounts(db'.tab, r)
<1>1. PICK tab, more : tab = db.tab /\ more = db'.tab
  OBVIOUS
<1>2. \A r : RowCounts(tab, r) => RowCounts(more, r)
  BY <1>1, RowCountsStay
<1> QED
  BY <1>1, <1>2 DEF CountsInv

LEMMA InitCounts == Init => CountsInv
BY DEF Init, CountsInv, Dimension

LEMMA BeginCounts == ASSUME CountsInv, NEW f \in File, Begin(f) PROVE CountsInv'
<1>1. /\ job' = [NoJob EXCEPT !.file = f] /\ pc' = "customers"
      /\ UNCHANGED <<db, conn, cache, faults, undone>>
  BY DEF Begin
<1>2. job'.totals = <<>>
  BY <1>1 DEF NoJob
<1> QED
  BY <1>1, <1>2 DEF CountsInv, Dimension

LEMMA ResolveDimCounts ==
    ASSUME IInv, NamesInv, CountsInv, Added(db.tab, db'.tab), NEW t \in Dimension, ResolveDim(t)
    PROVE  CountsInv'
<1>1. PICK key : key = DimKey(t)
  OBVIOUS
<1>2. PICK id : id = ResolvedId(t, key)
  OBVIOUS
<1>3. /\ pc = t /\ ~Refused(t, key) /\ conn' = ConnAfter(t, key) /\ t \in Table
      /\ job' = [job EXCEPT !.ids[t] = id] /\ pc' = NextPc[t]
      /\ (db' = conn' \/ db' = db) /\ undone' = undone
  BY <1>1, <1>2 DEF ResolveDim, Table
<1>4. job'.totals = job.totals
  BY <1>3 DEF IInv, WorkerInv
<1>5. StoreInv(conn) /\ CacheInv
  BY DEF IInv
<1>6. conn'.files = conn.files
  BY <1>3, <1>5, Resolving
<1>7. db'.files = db.files
  BY <1>3, <1>6 DEF NamesInv
<1>8. undone' = "never" => \A r \in db'.files : RowCounts(db'.tab, r)
  BY <1>3, <1>7, RowsCounted
<1>9. pc' \in {"sites", "robots", "sources", "read"}
  BY <1>3 DEF Dimension, NextPc
<1> QED
  BY <1>3, <1>4, <1>8, <1>9 DEF CountsInv, Dimension

LEMMA ReadSummaryCounts ==
    ASSUME IInv, NamesInv, CountsInv, NEW ch \in Content, ReadSummary(ch)
    PROVE  CountsInv'
<1>1. /\ job' = [[job EXCEPT !.left = ch] EXCEPT !.content = ch]
      /\ pc = "read" /\ pc' = "channels" /\ UNCHANGED <<db, conn, cache, faults, undone>>
  BY DEF ReadSummary
<1>2. /\ job'.members = job.members /\ job'.totals = job.totals
      /\ job'.left = ch /\ job'.content = ch
  BY <1>1 DEF IInv, WorkerInv
<1>3. ASSUME undone = "never"
      PROVE  CountsSay(conn'.tab, job'.totals, job'.members, job'.content \ Ahead')
  <2>1. job.totals = <<>> /\ job.members = {}
    BY <1>1, <1>3 DEF CountsInv, NamesInv
  <2>2. job'.content \ Ahead' = {}
    BY <1>1, <1>2 DEF Ahead
  <2>3. <<>> \in [{m[1] : m \in {}} -> Nat]
    OBVIOUS
  <2>4. IsFiniteSet({})
    BY FS_EmptySet
  <2> QED
    BY <1>2, <2>1, <2>2, <2>3, <2>4 DEF CountsSay
<1> QED
  BY <1>1, <1>3 DEF CountsInv, Dimension

LEMMA ResolveTopicCounts ==
    ASSUME IInv, NamesInv, CountsInv, NEW c \in job.left, ResolveTopic(c)
    PROVE  CountsInv'
<1>1. "topic_names" \in Table
  BY TableNames
<1>2. PICK key : key = <<0, c[1]>>
  OBVIOUS
<1>3. PICK id : id = ResolvedId("topic_names", key)
  OBVIOUS
<1>4. /\ conn' = ConnAfter("topic_names", key) /\ cache' = CacheAfter("topic_names", key)
      /\ job' = [[[job EXCEPT !.left = @ \ {c}] EXCEPT !.channel = c] EXCEPT !.topic = id]
      /\ pc = "channels" /\ pc' = "schema" /\ UNCHANGED <<db, faults, undone>>
  BY <1>2, <1>3 DEF ResolveTopic
<1>5. ~Refused("topic_names", key)
  BY DEF Refused, ParentThere
<1>6. /\ job'.members = job.members /\ job'.totals = job.totals
      /\ job'.content = job.content /\ job'.left = job.left \ {c} /\ job'.channel = c
  BY <1>4 DEF IInv, WorkerInv
<1>7. ASSUME undone = "never"
      PROVE  CountsSay(conn'.tab, job'.totals, job'.members, job'.content \ Ahead')
  <2>1. Added(conn.tab, conn'.tab)
    BY <1>1, <1>4, <1>5, <1>7, StatementSays
  <2>2. Ahead' = Ahead
    BY <1>4, <1>6 DEF Ahead
  <2>3. PICK tab, more, ch : tab = conn.tab /\ more = conn'.tab /\ ch = job.content \ Ahead
    OBVIOUS
  <2>4. CountsSay(tab, job.totals, job.members, ch) /\ Added(tab, more)
    BY <1>4, <1>7, <2>1, <2>3 DEF CountsInv
  <2>5. CountsSay(more, job.totals, job.members, ch)
    BY <2>4, CountsStay
  <2> QED
    BY <1>6, <2>2, <2>3, <2>5
<1> QED
  BY <1>4, <1>7 DEF CountsInv, Dimension

\* The channel in hand joins those counted.
LEMMA ResolveSchemaCounts ==
    ASSUME IInv, NamesInv, CountsInv, ResolveSchema
    PROVE  CountsInv'
<1>1. "schemas" \in Table
  BY TableNames
<1>2. PICK key : key = <<0, job.channel[2]>>
  OBVIOUS
<1>3. PICK id : id = ResolvedId("schemas", key)
  OBVIOUS
<1>4. PICK totals : totals = Counted(job.totals, job.topic, Messages[job.channel])
  OBVIOUS
<1>5. PICK members : members = IF \E m \in job.members : m[1] = job.topic THEN job.members
                               ELSE job.members \cup {<<job.topic, id>>}
  OBVIOUS
<1>6. /\ conn' = ConnAfter("schemas", key) /\ cache' = CacheAfter("schemas", key)
      /\ job' = [[job EXCEPT !.totals = totals] EXCEPT !.members = members]
      /\ pc = "schema" /\ pc' = (IF job.left = {} THEN "set" ELSE "channels")
      /\ UNCHANGED <<db, faults, undone>>
  BY <1>2, <1>3, <1>4, <1>5 DEF ResolveSchema
<1>7. ~Refused("schemas", key)
  BY DEF Refused, ParentThere
<1>8. /\ job'.members = members /\ job'.totals = totals
      /\ job'.content = job.content /\ job'.left = job.left
  BY <1>6 DEF IInv, WorkerInv
<1>9. ASSUME undone = "never"
      PROVE  CountsSay(conn'.tab, job'.totals, job'.members, job'.content \ Ahead')
  <2>1. TopicsInHand
    BY <1>6, <1>9 DEF NamesInv
  <2>2. Added(conn.tab, conn'.tab) /\ Tables(conn'.tab)
    BY <1>1, <1>6, <1>7, <1>9, StatementSays
  <2>3. PICK tab, more, c : tab = conn.tab /\ more = conn'.tab /\ c = job.channel
    OBVIOUS
  <2>4. PICK ch : ch = job.content \ Ahead
    OBVIOUS
  <2>5. MembersSay(more, job.members, ch) /\ CountsSay(more, job.totals, job.members, ch)
    <3>1. CountsSay(tab, job.totals, job.members, ch) /\ MembersSay(tab, job.members, ch) /\ Added(tab, more)
      BY <1>6, <1>9, <2>1, <2>2, <2>3, <2>4 DEF CountsInv, TopicsInHand
    <3> QED
      BY <3>1, MembersStay, CountsStay
  <2>6. Says(more, "topic_names", <<0, c[1]>>, job.topic) /\ Tables(more)
    BY <1>6, <2>1, <2>2, <2>3, TableNames DEF TopicsInHand, Says, Added
  <2>7. Ahead = job.left \cup {c} /\ Ahead' = job.left
    BY <1>6, <1>8, <2>3 DEF Ahead
  <2>8. job.content \ job.left = ch \cup {c} /\ c \notin ch /\ ch \cup {c} \subseteq job.content
    BY <1>6, <2>1, <2>3, <2>4, <2>7 DEF TopicsInHand
  <2>9. \A d \in ch \cup {c} : Messages[d] \in Nat
    BY <2>1, <2>8, IdsAssumption DEF TopicsInHand
  <2>10. {m[1] : m \in members} = {m[1] : m \in job.members} \cup {job.topic}
    <3>1. <<job.topic, id>>[1] = job.topic
      OBVIOUS
    <3> QED
      BY <1>5, <3>1
  <2>11. CountsSay(more, Counted(job.totals, job.topic, Messages[c]), members, ch \cup {c})
    BY <2>5, <2>6, <2>8, <2>9, <2>10, ChannelCounted
  <2> QED
    BY <1>4, <1>8, <2>3, <2>7, <2>8, <2>11
<1> QED
  BY <1>6, <1>9 DEF CountsInv, Dimension

LEMMA ResolveSetCounts ==
    ASSUME IInv, NamesInv, CountsInv, ResolveSet, ~Refused("topic_sets", job.members)
    PROVE  CountsInv'
<1>1. "topic_sets" \in Table
  BY TableNames
<1>2. PICK key : key = job.members
  OBVIOUS
<1>3. PICK id : id = ResolvedId("topic_sets", key)
  OBVIOUS
<1>4. /\ conn' = ConnAfter("topic_sets", key) /\ cache' = CacheAfter("topic_sets", key)
      /\ job' = [job EXCEPT !.set = id] /\ pc' = "write" /\ ~Refused("topic_sets", key)
      /\ pc = "set" \/ (pc = "channels" /\ job.left = {})
      /\ UNCHANGED <<db, faults, undone>>
  BY <1>2, <1>3 DEF ResolveSet
<1>5. /\ job'.members = job.members /\ job'.totals = job.totals
      /\ job'.content = job.content /\ job'.left = job.left
  BY <1>4 DEF IInv, WorkerInv
<1>6. ASSUME undone = "never"
      PROVE  CountsSay(conn'.tab, job'.totals, job'.members, job'.content \ Ahead')
  <2>1. Added(conn.tab, conn'.tab)
    BY <1>1, <1>4, <1>6, StatementSays
  <2>2. PICK tab, more, ch : tab = conn.tab /\ more = conn'.tab /\ ch = job.content \ Ahead
    OBVIOUS
  <2>3. CountsSay(tab, job.totals, job.members, ch) /\ Added(tab, more)
    BY <1>4, <1>6, <2>1, <2>2 DEF CountsInv
  <2>4. CountsSay(more, job.totals, job.members, ch)
    BY <2>3, CountsStay
  <2>5. Ahead' = Ahead
    BY <1>4, <1>5 DEF Ahead
  <2> QED
    BY <1>5, <2>2, <2>4, <2>5
<1> QED
  BY <1>4, <1>6 DEF CountsInv, Dimension

LEMMA WriteRowCounts ==
    ASSUME IInv, NamesInv, CountsInv, Added(db.tab, db'.tab), NEW sums \in BOOLEAN,
           WriteRow(sums), sums, RowParentsThere
    PROVE  CountsInv'
<1>1. PICK row : row = [comp |-> Composite(job.ids, job.file), set |-> job.set,
                        counts |-> Blob(job.totals), file |-> job.file, content |-> job.content]
  OBVIOUS
<1>2. /\ db'.files = (db.files \ RowsOf(db, row.comp)) \cup {row} /\ UNCHANGED undone
  BY <1>1, WriteRowNames
<1>3. pc = "write" /\ pc' = "idle" /\ db'.tab = conn.tab
  <2>1. /\ conn' = [conn EXCEPT !.files = (@ \ RowsOf(conn, row.comp)) \cup {row}]
        /\ db' = conn' /\ pc = "write" /\ pc' = "idle"
    BY <1>1 DEF WriteRow, AtRest
  <2> QED
    BY <2>1 DEF IInv, StoreInv
<1>4. ASSUME undone = "never"
      PROVE  RowCounts(db'.tab, row)
  <2>1. TopicsInHand /\ Ahead = {} /\ Says(conn.tab, "topic_sets", job.members, job.set)
    BY <1>3, <1>4 DEF NamesInv, TopicsInHand, Ahead
  <2>2. CountsSay(conn.tab, job.totals, job.members, job.content)
    <3>1. job.content \ Ahead = job.content
      BY <2>1
    <3>2. CountsSay(conn.tab, job.totals, job.members, job.content \ Ahead)
      BY <1>3, <1>4 DEF CountsInv
    <3> QED
      BY <3>1, <3>2
  <2>3. PICK s : s = [key |-> job.members, id |-> job.set]
    OBVIOUS
  <2>4. s \in conn.tab["topic_sets"] /\ s.key = job.members /\ s.id = job.set
    BY <2>1, <2>3 DEF Says
  <2>5. PICK totals : totals = job.totals
    OBVIOUS
  <2>6. totals \in [{m[1] : m \in s.key} -> Nat]
    BY <2>2, <2>4, <2>5 DEF CountsSay
  <2>7. row.set = job.set /\ row.counts = Blob(totals) /\ row.content = job.content
    BY <1>1, <2>5
  <2> QED
    BY <1>3, <2>2, <2>4, <2>5, <2>6, <2>7 DEF RowCounts
<1>5. ASSUME undone' = "never"
      PROVE  \A r \in db'.files : RowCounts(db'.tab, r)
  <2>1. PICK tab, more : tab = db.tab /\ more = db'.tab
    OBVIOUS
  <2>2. \A r : RowCounts(tab, r) => RowCounts(more, r)
    BY <2>1, RowCountsStay
  <2>3. \A r \in db.files : RowCounts(more, r)
    BY <1>2, <1>5, <2>1, <2>2 DEF CountsInv
  <2> QED
    BY <1>2, <1>4, <1>5, <2>1, <2>3
<1> QED
  BY <1>3, <1>5 DEF CountsInv, Dimension

LEMMA RestsCounts ==
    ASSUME IInv, NamesInv, CountsInv, Added(db.tab, db'.tab), Rests
    PROVE  CountsInv'
<1>1. /\ pc' = "idle"
      /\ undone' = "never" => undone = "never"
      /\ db'.files \subseteq db.files
  BY RestsChange
<1>2. undone' = "never" => \A r \in db'.files : RowCounts(db'.tab, r)
  BY <1>1, RowsCounted
<1> QED
  BY <1>1, <1>2 DEF CountsInv, Dimension

LEMMA NextCounts == IInv /\ NamesInv /\ CountsInv /\ [Next]_vars => CountsInv'
<1> SUFFICES ASSUME IInv, NamesInv, CountsInv, [Next]_vars PROVE CountsInv'
  OBVIOUS
<1>1. Added(db.tab, db'.tab)
  BY CommittedStays
<1>2. CASE Rests
  BY <1>1, <1>2, RestsCounts
<1>3. ASSUME NEW f \in File, Begin(f) PROVE CountsInv'
  BY <1>3, BeginCounts
<1>4. ASSUME NEW t \in Dimension, ResolveDim(t) PROVE CountsInv'
  BY <1>1, <1>4, ResolveDimCounts
<1>5. ASSUME NEW ch \in Content, ReadSummary(ch) PROVE CountsInv'
  BY <1>5, ReadSummaryCounts
<1>6. ASSUME NEW c \in job.left, ResolveTopic(c) PROVE CountsInv'
  BY <1>6, ResolveTopicCounts
<1>7. CASE ResolveSchema
  BY <1>7, ResolveSchemaCounts
<1>8. CASE ResolveSet
  <2>1. CASE Refused("topic_sets", job.members)
    BY <1>2, <1>8, <2>1 DEF ResolveSet, Rests
  <2> QED
    BY <1>8, <2>1, ResolveSetCounts
<1>9. ASSUME NEW sums \in BOOLEAN, WriteRow(sums) PROVE CountsInv'
  <2>1. CASE sums /\ RowParentsThere
    BY <1>1, <1>9, <2>1, WriteRowCounts
  <2> QED
    BY <1>2, <1>9, <2>1 DEF WriteRow, Rests
<1>10. CASE TxnFault
  BY <1>2, <1>10 DEF TxnFault, Rests
<1>11. CASE UNCHANGED vars
  BY <1>11 DEF vars, CountsInv, Ahead
<1> QED
  BY <1>2, <1>3, <1>4, <1>5, <1>6, <1>7, <1>8, <1>9, <1>10, <1>11 DEF Next, Rests

\* The topic ids of a row are as many as its channels allow: finitely many numbers.
LEMMA IdsOfMembers ==
    ASSUME NEW tab, Tables(tab), NEW members, NEW ch, MembersSay(tab, members, ch), IsFiniteSet(ch)
    PROVE  IsFiniteSet({m[1] : m \in members}) /\ {m[1] : m \in members} \subseteq Nat
<1> DEFINE ids == {m[1] : m \in members}
           f == [c \in ch |-> CHOOSE id \in ids : Says(tab, "topic_names", <<0, c[1]>>, id)]
<1>1. \A c \in ch : \E id \in ids : Says(tab, "topic_names", <<0, c[1]>>, id)
  BY DEF MembersSay
<1>2. \A c \in ch : f[c] \in ids /\ Says(tab, "topic_names", <<0, c[1]>>, f[c])
  <2> HIDE DEF ids
  <2> QED
    BY <1>1
<1>3. \A id \in ids : \E c \in ch : f[c] = id
  <2> SUFFICES ASSUME NEW id \in ids PROVE \E c \in ch : f[c] = id
    OBVIOUS
  <2>1. PICK c \in ch : Says(tab, "topic_names", <<0, c[1]>>, id)
    BY DEF MembersSay
  <2>2. Says(tab, "topic_names", <<0, c[1]>>, f[c]) /\ "topic_names" \in Table
    BY <1>2, TableNames
  <2>3. f[c] = id
    <3> HIDE DEF f
    <3> QED
      BY <2>1, <2>2, OneSaid
  <2> QED
    BY <2>3
<1>4. f \in [ch -> ids]
  BY <1>2
<1>5. IsFiniteSet(ids)
  <2> HIDE DEF f, ids
  <2>1. f \in Surjection(ch, ids)
    BY <1>3, <1>4 DEF Surjection
  <2> QED
    BY <2>1, FS_Surjection
<1>6. ids \subseteq Nat
  <2>1. ASSUME NEW id \in ids
        PROVE  id \in Nat
    <3>1. PICK c \in ch : Says(tab, "topic_names", <<0, c[1]>>, id)
      BY DEF MembersSay
    <3>2. PICK r : r = [key |-> <<0, c[1]>>, id |-> id]
      OBVIOUS
    <3>3. r \in tab["topic_names"] /\ r.id = id
      BY <3>1, <3>2 DEF Says
    <3> QED
      BY <3>3, TableNames DEF Tables, TableInv, RowShape
  <2> QED
    BY <2>1
<1> QED
  BY <1>5, <1>6

\* The counts of a row, as its reader finds them.
LEMMA CountsFound ==
    ASSUME NEW tab, Tables(tab), NEW r, RowSays(tab, r), RowCounts(tab, r)
    PROVE  CountsSayItsFile(tab, r)
<1>1. PICK s \in tab["topic_sets"] : s.id = r.set /\
         \E totals \in [{m[1] : m \in s.key} -> Nat] :
            CountsSay(tab, totals, s.key, r.content) /\ r.counts = Blob(totals)
  BY DEF RowCounts
<1>2. PICK totals \in [{m[1] : m \in s.key} -> Nat] :
         CountsSay(tab, totals, s.key, r.content) /\ r.counts = Blob(totals)
  BY <1>1
<1>3. MembersSay(tab, s.key, r.content)
  <2>1. PICK u \in tab["topic_sets"] : u.id = r.set /\ MembersSay(tab, u.key, r.content)
    BY DEF RowSays
  <2>2. u = s
    BY <1>1, <2>1, TableNames DEF Tables, TableInv
  <2> QED
    BY <2>1, <2>2
<1>4. PICK ids : ids = {m[1] : m \in s.key}
  OBVIOUS
<1>5. TopicIds(tab, r) = ids
  BY <1>1, <1>4, TopicsFound
<1>6. IsFiniteSet(ids) /\ ids \subseteq Nat /\ totals \in [ids -> Nat]
  BY <1>2, <1>3, <1>4, IdsOfMembers DEF CountsSay
<1>7. PICK counts : counts = DecodeCounts(r.counts)
  OBVIOUS
<1>8. /\ Len(counts) = Cardinality(ids)
      /\ \A t \in ids : counts[Cardinality({u \in ids : u <= t})] = totals[t]
  BY <1>2, <1>6, <1>7, BlobSays
<1>9. ASSUME NEW t \in ids
      PROVE  totals[t] = TotalOf({c \in r.content : c[1] = NameOf(tab, "topic_names", t)})
  <2>1. PICK c \in r.content : Says(tab, "topic_names", <<0, c[1]>>, t)
    BY <1>3, <1>4 DEF MembersSay
  <2>2. PICK id \in DOMAIN totals : /\ Says(tab, "topic_names", <<0, c[1]>>, id)
                                    /\ totals[id] = TotalOf({d \in r.content : d[1] = c[1]})
    BY <1>2 DEF CountsSay
  <2>3. "topic_names" \in Table
    BY TableNames
  <2>4. id = t
    BY <2>1, <2>2, <2>3, OneSaid
  <2>5. KeyOf(tab, "topic_names", t) = <<0, c[1]>>
    BY <2>1, <2>3, KeyFound
  <2>6. NameOf(tab, "topic_names", t) = c[1]
    BY <2>5 DEF NameOf
  <2> QED
    BY <2>2, <2>4, <2>6
<1>10. \A t \in ids : counts[Cardinality({u \in ids : u <= t})] =
           MapThenSumSet(LAMBDA c : Messages[c],
                         {c \in r.content : c[1] = NameOf(tab, "topic_names", t)})
  BY <1>8, <1>9 DEF TotalOf
<1> QED
  BY <1>5, <1>7, <1>8, <1>10 DEF CountsSayItsFile

(* Through every failure, as long as the connection has not lost a         *)
(* statement: the totals in hand are the messages of the channels          *)
(* resolved so far, by topic id, and the blob of every committed row is    *)
(* that of the totals of its channels.                                     *)
THEOREM CountsInvariance == Spec => [](IInv /\ NamesInv /\ CountsInv)
<1>1. Init => CountsInv
  BY InitCounts
<1>2. IInv /\ NamesInv /\ CountsInv /\ [Next]_vars => CountsInv'
  BY NextCounts
<1> QED
  BY <1>1, <1>2, NamesInvariance, PTL DEF Spec

(* A committed row, read through the tables, names its object and the      *)
(* topics and schemas of its channels, and its blob holds, at the place of *)
(* each topic id among the ids of the set, the messages of that topic      *)
(* (builder.py:159, 179): however large the counts, in whichever order the *)
(* channels come, and in whichever order their topics got their ids.       *)
THEOREM RowsMeanTheirFileCorrect == Spec => []RowsMeanTheirFile
<1>1. IInv /\ NamesInv /\ CountsInv => RowsMeanTheirFile
  <2> SUFFICES ASSUME IInv, NamesInv, CountsInv, undone = "never", NEW r \in db.files
               PROVE  NamesSayItsFile(db.tab, r) /\ CountsSayItsFile(db.tab, r)
    BY DEF RowsMeanTheirFile
  <2>1. PICK tab : tab = db.tab
    OBVIOUS
  <2>2. Tables(tab) /\ RowSays(tab, r) /\ RowCounts(tab, r)
    BY <2>1 DEF IInv, StoreInv, NamesInv, CountsInv
  <2>3. NamesSayItsFile(tab, r) /\ CountsSayItsFile(tab, r)
    BY <2>2, NamesFound, CountsFound
  <2> QED
    BY <2>1, <2>3
<1> QED
  BY <1>1, CountsInvariance, PTL

=============================================================================

------------------------ MODULE CatalogSync_proofs ------------------------
(***************************************************************************)
(* Theorems about CatalogSync, for every set of keys, contents and         *)
(* identities and for every bound.                                         *)
(***************************************************************************)
EXTENDS CatalogSync, TLAPS

(* What the type invariant needs to be inductive: the progress of a key    *)
(* holds what its next step will use.                                      *)
HasTok == {"dims", "read", "listed", "queued", "doubt", "ready", "error", "vanished"}
HasEff == {"read", "queued", "doubt", "ready", "error", "vanished"}

WorkReady ==
    \A k \in Path :
        /\ work[k].at \in HasTok => work[k].tok # None
        /\ work[k].at \in HasEff => work[k].eff # None
        /\ work[k].eff # None => Dims[work[k].eff] # None
        /\ work[k].at = "ready" => work[k].ver # None

TInv == TypeOK /\ WorkReady

USE DEF Phase

\* A fresh daemon is in the invariant.
LEMMA InitTInv == Init => TInv
<1> SUFFICES ASSUME Init PROVE TInv
  OBVIOUS
<1> QED
  BY NoneAssumption, ParamAssumption
     DEF Init, TInv, TypeOK, WorkReady, AllToDo, Untouched, Progress, At, Final,
         HasTok, HasEff, Note

\* The bucket's clients and the delivery disturb only the bucket and the notifications.
LEMMA StorageTInv ==
    ASSUME TInv, Storage PROVE TInv'
<1> USE NoneAssumption, ParamAssumption
<1> USE DEF TInv, TypeOK
<1>1. ASSUME NEW k \in Path, NEW v \in Version, Put(k, v) PROVE TInv'
  <2>1. [tok |-> TokenOf(v, ops + 1), ver |-> v] \in Object
    BY DEF TokenOf, Token, Object
  <2>2. bucket' \in [Path -> Object \cup {None}]
    BY <1>1, <2>1 DEF Put
  <2>3. Notice("catalog", k) \in Note
    BY DEF Notice, Note
  <2>4. notes' \subseteq Note /\ ops' \in Nat /\ steady' \subseteq Path \X Ident
    BY <1>1, <2>3 DEF Put
  <2> QED
    BY <1>1, <2>2, <2>4 DEF Put, dbVars, WorkReady
<1>2. ASSUME NEW k \in Path, Remove(k) PROVE TInv'
  <2>1. Notice("delete", k) \in Note
    BY DEF Notice, Note
  <2>2. notes' \subseteq Note /\ ops' \in Nat /\ steady' \subseteq Path \X Ident
    BY <1>2, <2>1 DEF Remove
  <2>3. bucket' \in [Path -> Object \cup {None}]
    BY <1>2 DEF Remove
  <2> QED
    BY <1>2, <2>2, <2>3 DEF Remove, dbVars, WorkReady
<1>3. ASSUME NEW n \in notes, Lose(n) PROVE TInv'
  BY <1>3 DEF Lose, dbVars, WorkReady
<1> QED
  BY <1>1, <1>2, <1>3 DEF Storage

-----------------------------------------------------------------------------
(* The two writes of the builder keep the tables well formed.              *)

\* _quarantine_existing leaves well-typed tables.
LEMMA QuarantineType ==
    ASSUME TypeOK, NEW d \in Ident, NEW e \in Key, Quarantine(d, e)
    PROVE  files' \in [Ident -> Row \cup {None}] /\ failures' \subseteq Key
BY DEF TypeOK, Quarantine

\* _write_file_row leaves well-typed tables.
LEMMA WriteRowType ==
    ASSUME TypeOK, NEW d \in Ident, NEW e \in Key, NEW k \in Path,
           NEW tok \in Token, NEW ver \in Version, WriteRow(d, e, k, tok, ver)
    PROVE  files' \in [Ident -> Row \cup {None}] /\ failures' \subseteq Key
<1>1. (IF files[d] = None THEN None ELSE files[d].ovr) \in Tag \cup {None}
  BY DEF TypeOK, Row
<1> DEFINE r == [tok |-> tok, ver |-> ver, src |-> k,
                 ovr |-> IF files[d] = None THEN None ELSE files[d].ovr]
<1>2. r \in Row
  BY <1>1 DEF Row
<1>3. files' = [files EXCEPT ![d] = r] /\ failures' = failures \ {e}
  BY DEF WriteRow
<1> HIDE DEF r
<1> QED
  BY <1>2, <1>3 DEF TypeOK

\* So does the per-file transaction, whether it commits or quarantines.
LEMMA ApplyType ==
    ASSUME TypeOK, NEW d \in Ident, NEW e \in Key, NEW k \in Path,
           NEW tok \in Token, NEW ver \in Version, Apply(d, e, k, tok, ver)
    PROVE  files' \in [Ident -> Row \cup {None}] /\ failures' \subseteq Key
BY QuarantineType, WriteRowType DEF Apply

\* A worker that has finished, or begins a pass, holds no stale progress.
LEMMA FreshWork ==
    ASSUME work' = NoWork \/ work' = AllToDo
    PROVE  work' \in [Path -> Progress] /\ WorkReady'
BY NoneAssumption
   DEF NoWork, AllToDo, Untouched, Progress, At, Final, WorkReady, HasTok, HasEff

\* resolve_key_dims ends at a key of the system.
LEMMA IntendedKeyType ==
    ASSUME TypeOK, NEW k \in Path PROVE IntendedKey(bucket, k) \in Key
BY NoneAssumption, ParamAssumption DEF TypeOK, IntendedKey, Object

(* One key moves on: its new progress decides.                             *)
LEMMA OneKeyMoves ==
    ASSUME TInv, NEW k \in Path, NEW w \in Progress,
           work' = [work EXCEPT ![k] = w],
           w.at \in HasTok => w.tok # None,
           w.at \in HasEff => w.eff # None,
           w.eff # None => Dims[w.eff] # None,
           w.at = "ready" => w.ver # None
    PROVE  work' \in [Path -> Progress] /\ WorkReady'
BY DEF TInv, TypeOK, WorkReady

-----------------------------------------------------------------------------
\* Taking a notification.
LEMMA EventTInv ==
    ASSUME TInv, NEW n \in notes, TakeCatalog(n) \/ TakeDelete(n) PROVE TInv'
<1>1. n \in Note /\ n.key \in Path
  BY DEF TInv, TypeOK, Note
<1>2. notes' \subseteq Note /\ dups' \in Nat
  <2> DEFINE m == [n EXCEPT !.again = TRUE]
  <2>1. m \in Note
    BY <1>1 DEF Note
  <2>2. \/ notes' = notes \ {n} /\ UNCHANGED dups
        \/ notes' = (notes \ {n}) \cup {m} /\ dups' = dups + 1
    BY DEF TakeCatalog, TakeDelete, Take
  <2>3. notes \subseteq Note /\ dups \in Nat
    BY DEF TInv, TypeOK
  <2> HIDE DEF m
  <2> QED
    BY <2>1, <2>2, <2>3
<1>3. CASE TakeCatalog(n)
  <2> DEFINE w == [work[n.key] EXCEPT !.at = "stat"]
  <2>1. w \in Progress /\ w.at = "stat" /\ w.eff = work[n.key].eff
    BY <1>1 DEF TInv, TypeOK, Progress, At
  <2>2. work' = [work EXCEPT ![n.key] = w]
    BY <1>3 DEF TakeCatalog
  <2>3. work' \in [Path -> Progress] /\ WorkReady'
    <3> HIDE DEF w
    <3> QED
      BY <1>1, <2>1, <2>2, OneKeyMoves DEF TInv, WorkReady, HasTok, HasEff
  <2> QED
    BY <1>2, <1>3, <2>3 DEF TakeCatalog, Take, TInv, TypeOK
<1>4. CASE TakeDelete(n)
  <2>1. files' \in [Ident -> Row \cup {None}] /\ failures' \subseteq Key
    BY <1>1, <1>4, ParamAssumption DEF TakeDelete, TInv, TypeOK
  <2>2. UNCHANGED work
    BY <1>4 DEF TakeDelete
  <2> QED
    BY <1>2, <1>4, <2>1, <2>2 DEF TakeDelete, Take, TInv, TypeOK, WorkReady
<1> QED
  BY <1>3, <1>4

\* The stat of catalog_object.
LEMMA CatalogStatTInv ==
    ASSUME TInv, NEW k \in Path, CatalogStat(k) PROVE TInv'
<1>1. work' \in [Path -> Progress] /\ WorkReady'
  <2>1. CASE bucket[k] = None
    BY <2>1, FreshWork DEF CatalogStat, Finish
  <2>2. CASE bucket[k] # None
    <3> DEFINE w == [work[k] EXCEPT !.at = "dims", !.tok = bucket[k].tok]
    <3>1. bucket[k].tok \in Token /\ bucket[k].tok # None
      BY <2>2, NoneAssumption DEF TInv, TypeOK, Object, Token
    <3>2. w \in Progress /\ w.at = "dims" /\ w.tok # None /\ w.eff = work[k].eff
      BY <3>1 DEF TInv, TypeOK, Progress, At
    <3>3. work' = [work EXCEPT ![k] = w]
      BY <2>2 DEF CatalogStat
    <3> HIDE DEF w
    <3> QED
      BY <3>2, <3>3, OneKeyMoves DEF TInv, WorkReady, HasEff
  <2> QED
    BY <2>1, <2>2
<1> QED
  BY <1>1 DEF CatalogStat, Finish, envVars, dbVars, TInv, TypeOK, Phase

\* The identity and the fingerprint skip, sound or after an unreadable record.
LEMMA CatalogResolveTInv ==
    ASSUME TInv, NEW k \in Path, NEW e \in Key, CatalogResolve(k, e),
           faults' \in Nat
    PROVE  TInv'
<1>1. k \in Key
  BY ParamAssumption
<1>2. failures' \subseteq Key
  BY <1>1 DEF CatalogResolve, TInv, TypeOK
<1>3. work' \in [Path -> Progress] /\ WorkReady' /\ phase' \in Phase
  <2>1. CASE Finish
    BY <2>1, FreshWork DEF Finish, Phase
  <2>2. CASE ~Finish
    <3> DEFINE w == [work[k] EXCEPT !.at = "read", !.eff = e]
    <3>1. /\ work' = [work EXCEPT ![k] = w]
          /\ UNCHANGED phase
          /\ Dims[e] # None
          /\ work[k].at = "dims"
      BY <2>2 DEF CatalogResolve
    <3>2. e # None /\ work[k].tok # None
      BY <3>1, NoneAssumption DEF TInv, WorkReady, HasTok
    <3>3. /\ w \in Progress /\ w.at = "read" /\ w.eff = e
          /\ w.tok = work[k].tok
      BY DEF TInv, TypeOK, Progress, At
    <3> HIDE DEF w
    <3> QED
      BY <3>1, <3>2, <3>3, OneKeyMoves DEF TInv, TypeOK
  <2> QED
    BY <2>1, <2>2
<1> QED
  BY <1>2, <1>3 DEF CatalogResolve, envVars, TInv, TypeOK

\* Quarantine applied to a key whose progress carries its effective key.
LEMMA QuarantineReady ==
    ASSUME TInv, NEW k \in Path, work[k].at \in HasEff
    PROVE  /\ work[k].eff \in Key
           /\ Dims[work[k].eff] \in Ident
           /\ work[k].tok \in Token
           /\ work[k].at = "ready" => work[k].ver \in Version
BY ParamAssumption DEF TInv, TypeOK, WorkReady, Progress, HasEff, HasTok

\* The summary read of catalog_object and its transaction.
LEMMA CatalogReadTInv ==
    ASSUME TInv, NEW k \in Path, CatalogRead(k) PROVE TInv'
<1>1. work[k].eff \in Key /\ Dims[work[k].eff] \in Ident /\ work[k].tok \in Token
  BY QuarantineReady DEF CatalogRead, HasEff
<1>2. CanRead(k) => bucket[k].ver \in Version
  BY DEF CanRead, TInv, TypeOK, Object
<1>3. files' \in [Ident -> Row \cup {None}] /\ failures' \subseteq Key
  BY <1>1, <1>2, QuarantineType, ApplyType DEF CatalogRead, TInv
<1>4. work' \in [Path -> Progress] /\ WorkReady'
  BY FreshWork DEF CatalogRead, Finish
<1> QED
  BY <1>3, <1>4 DEF CatalogRead, Finish, envVars, TInv, TypeOK, Phase

-----------------------------------------------------------------------------
\* full_reconcile begins, from a rescan or a restart.
LEMMA BeginScanTInv ==
    ASSUME TInv, BeginScan, UNCHANGED <<envVars, dbVars>>, faults' \in Nat
    PROVE  TInv'
<1>1. work' \in [Path -> Progress] /\ WorkReady'
  BY FreshWork DEF BeginScan
<1>2. steady' \subseteq Path \X Ident
  BY DEF BeginScan, Claims
<1> QED
  BY <1>1, <1>2 DEF BeginScan, envVars, dbVars, TInv, TypeOK, Phase

\* A step of the pass that only moves a key on.
LEMMA ScanMovesTInv ==
    ASSUME TInv, NEW k \in Path, NEW w \in Progress,
           work' = [work EXCEPT ![k] = w],
           w.at \in HasTok => w.tok # None,
           w.at \in HasEff => work[k].at \in HasEff,
           w.eff = work[k].eff,
           w.at = "ready" => w.ver # None,
           UNCHANGED <<envVars, dbVars, phase, failed>>,
           steady' \subseteq steady, faults' \in Nat
    PROVE  TInv'
<1>1. /\ w.at \in HasEff => w.eff # None
      /\ w.eff # None => Dims[w.eff] # None
  BY DEF TInv, WorkReady
<1>2. work' \in [Path -> Progress] /\ WorkReady'
  BY <1>1, OneKeyMoves
<1> QED
  BY <1>2 DEF envVars, dbVars, TInv, TypeOK

\* One key of the listing.
LEMMA ListKeyTInv ==
    ASSUME TInv, NEW k \in Path, ListKey(k) PROVE TInv'
<1>1. work[k] \in Progress /\ bucket[k] \in Object \cup {None}
  BY DEF TInv, TypeOK
<1>2. faults' \in Nat /\ UNCHANGED <<envVars, dbVars, phase, failed, steady>>
  BY DEF ListKey, TInv, TypeOK
<1>3. CASE bucket[k] = None
  <2> DEFINE w == [work[k] EXCEPT !.at = "absent"]
  <2>1. w \in Progress /\ w.at = "absent" /\ w.eff = work[k].eff
    BY <1>1 DEF Progress, At, Final
  <2>2. work' = [work EXCEPT ![k] = w]
    BY <1>3 DEF ListKey
  <2> HIDE DEF w
  <2> QED
    BY <1>2, <2>1, <2>2, ScanMovesTInv DEF HasTok, HasEff
<1>4. CASE bucket[k] # None
  <2> DEFINE w == [work[k] EXCEPT !.at = "listed", !.tok = bucket[k].tok]
  <2>1. bucket[k].tok \in Token /\ bucket[k].tok # None
    BY <1>1, <1>4, NoneAssumption DEF Object
  <2>2. w \in Progress /\ w.at = "listed" /\ w.eff = work[k].eff /\ w.tok # None
    BY <1>1, <2>1 DEF Progress, At
  <2>3. work' = [work EXCEPT ![k] = w]
    BY <1>4 DEF ListKey
  <2> HIDE DEF w
  <2> QED
    BY <1>2, <2>2, <2>3, ScanMovesTInv DEF HasEff
<1> QED
  BY <1>3, <1>4

\* A file the listing cannot stat.
LEMMA ListFaultTInv ==
    ASSUME TInv, NEW k \in Path, ListFault(k) PROVE TInv'
<1> DEFINE w == [work[k] EXCEPT !.at = "absent"]
<1>1. w \in Progress /\ w.at = "absent" /\ w.eff = work[k].eff
  BY DEF TInv, TypeOK, Progress, At, Final
<1>2. work' = [work EXCEPT ![k] = w]
  BY DEF ListFault
<1>3. /\ faults' \in Nat /\ steady' \subseteq steady
      /\ UNCHANGED <<envVars, dbVars, phase, failed>>
  BY DEF ListFault, Taken, Fault, TInv, TypeOK
<1> HIDE DEF w
<1> QED
  BY <1>1, <1>2, <1>3, ScanMovesTInv DEF HasTok, HasEff

\* One turn of the classify loop.
LEMMA ClassifyKeyTInv ==
    ASSUME TInv, NEW k \in Path, NEW e \in Key, ClassifyKey(k, e),
           steady' \subseteq steady, faults' \in Nat
    PROVE  TInv'
<1>1. k \in Key /\ e # None /\ work[k] \in Progress
  BY ParamAssumption, NoneAssumption DEF TInv, TypeOK
<1>2. work[k].at = "listed" /\ work[k].tok # None
  BY DEF ClassifyKey, Scanning, TInv, WorkReady, HasTok
<1>3. CASE Dims[e] = None
  <2> DEFINE w == [work[k] EXCEPT !.at = "unparseable"]
  <2>1. work' = [work EXCEPT ![k] = w]
    BY <1>3 DEF ClassifyKey
  <2>2. w \in Progress /\ w.at = "unparseable" /\ w.eff = work[k].eff
    BY <1>1 DEF Progress, At, Final
  <2>3. work' \in [Path -> Progress] /\ WorkReady'
    <3> HIDE DEF w
    <3> QED
      BY <2>1, <2>2, OneKeyMoves DEF TInv, WorkReady, HasTok, HasEff
  <2> QED
    BY <1>1, <1>3, <2>3 DEF ClassifyKey, envVars, TInv, TypeOK
<1>4. CASE Dims[e] # None
  <2> DEFINE a == IF Unchanged(Dims[e], work[k].tok) THEN "skipped" ELSE "queued"
             w == [work[k] EXCEPT !.at = a, !.eff = e]
  <2>1. a \in {"skipped", "queued"}
    OBVIOUS
  <2>2. work' = [work EXCEPT ![k] = w]
    BY <1>4 DEF ClassifyKey
  <2>3. w \in Progress /\ w.at = a /\ w.eff = e /\ w.tok = work[k].tok
    <3> HIDE DEF a
    <3> QED
      BY <1>1, <2>1 DEF Progress, At, Final
  <2>4. work' \in [Path -> Progress] /\ WorkReady'
    <3> HIDE DEF w, a
    <3> QED
      BY <1>1, <1>2, <1>4, <2>1, <2>2, <2>3, OneKeyMoves DEF HasTok, HasEff
  <2> QED
    BY <1>4, <2>4 DEF ClassifyKey, envVars, TInv, TypeOK
<1> QED
  BY <1>3, <1>4

\* A read or a HEAD, sound or faulty, that only sets the stage of a key.
LEMMA StageTInv ==
    ASSUME TInv, NEW k \in Path, NEW at \in {"doubt", "vanished", "error"},
           work' = [work EXCEPT ![k].at = at],
           work[k].at \in {"queued", "doubt"},
           UNCHANGED <<envVars, dbVars, phase, failed, steady>>, faults' \in Nat
    PROVE  TInv'
<1> DEFINE w == [work[k] EXCEPT !.at = at]
<1>1. work[k].tok # None
  BY DEF TInv, WorkReady, HasTok
<1>2. w \in Progress /\ w.at = at /\ w.eff = work[k].eff /\ w.tok = work[k].tok
  BY DEF TInv, TypeOK, Progress, At
<1>3. work' = [work EXCEPT ![k] = w]
  OBVIOUS
<1> HIDE DEF w
<1> QED
  BY <1>1, <1>2, <1>3, ScanMovesTInv DEF HasEff

\* The summary read of the pool and its HEAD.
LEMMA ExtractReadTInv ==
    ASSUME TInv, NEW k \in Path, ExtractRead(k) PROVE TInv'
<1>1. work[k] \in Progress /\ work[k].at = "queued" /\ work[k].tok # None
  BY DEF TInv, TypeOK, ExtractRead, Scanning, WorkReady, HasTok
<1>2. faults' \in Nat /\ UNCHANGED <<envVars, dbVars, phase, failed, steady>>
  BY DEF ExtractRead, TInv, TypeOK
<1>3. CASE CanRead(k)
  <2> DEFINE w == [work[k] EXCEPT !.at = "ready", !.ver = bucket[k].ver]
  <2>1. bucket[k].ver \in Version /\ bucket[k].ver # None
    BY <1>3, NoneAssumption DEF CanRead, TInv, TypeOK, Object
  <2>2. /\ w \in Progress /\ w.at = "ready" /\ w.eff = work[k].eff
        /\ w.tok = work[k].tok /\ w.ver # None
    BY <1>1, <2>1 DEF Progress, At
  <2>3. work' = [work EXCEPT ![k] = w]
    BY <1>3 DEF ExtractRead
  <2> HIDE DEF w
  <2> QED
    BY <1>1, <1>2, <2>2, <2>3, ScanMovesTInv DEF HasEff
<1>4. CASE ~CanRead(k)
  <2>1. work' = [work EXCEPT ![k].at = "doubt"]
    BY <1>4 DEF ExtractRead
  <2> QED
    BY <1>1, <1>2, <2>1, StageTInv
<1> QED
  BY <1>3, <1>4

\* apply_extract on each of its three outcomes.
LEMMA ApplyExtractTInv ==
    ASSUME TInv, NEW k \in Path, ApplyExtract(k) PROVE TInv'
<1>1. /\ work[k].eff \in Key /\ Dims[work[k].eff] \in Ident
      /\ work[k].tok \in Token
      /\ work[k].at = "ready" => work[k].ver \in Version
      /\ work[k].tok # None
  BY QuarantineReady DEF ApplyExtract, HasEff, TInv, WorkReady, HasTok
<1>2. files' \in [Ident -> Row \cup {None}] /\ failures' \subseteq Key
  <2>1. CASE work[k].at = "ready"
    BY <1>1, <2>1, ApplyType DEF ApplyExtract, TInv
  <2>2. CASE work[k].at = "error"
    BY <1>1, <2>2, QuarantineType DEF ApplyExtract, TInv
  <2>3. CASE work[k].at = "vanished"
    BY <2>3 DEF ApplyExtract, TInv, TypeOK
  <2> QED
    BY <2>1, <2>2, <2>3 DEF ApplyExtract
<1>3. PICK at \in {"done", "gone"} : work' = [work EXCEPT ![k].at = at]
  BY DEF ApplyExtract
<1>4. work' \in [Path -> Progress] /\ WorkReady'
  <2> DEFINE w == [work[k] EXCEPT !.at = at]
  <2>1. w \in Progress /\ w.at = at /\ w.eff = work[k].eff
    BY DEF TInv, TypeOK, Progress, At, Final
  <2>2. work' = [work EXCEPT ![k] = w]
    BY <1>3
  <2> HIDE DEF w
  <2> QED
    BY <2>1, <2>2, OneKeyMoves DEF TInv, WorkReady, HasTok, HasEff
<1>5. failed' \in BOOLEAN
  BY DEF ApplyExtract, TInv, TypeOK
<1> QED
  BY <1>2, <1>4, <1>5 DEF ApplyExtract, envVars, TInv, TypeOK

\* The sweep only removes rows.
LEMMA SweepTInv ==
    ASSUME TInv, Sweep PROVE TInv'
BY DEF Sweep, envVars, TInv, TypeOK, WorkReady, Phase

\* A tag edit changes one field of one row.
LEMMA TagEditTInv ==
    ASSUME TInv, NEW i \in Ident, NEW t \in Tag \cup {None}, TagEdit(i, t)
    PROVE  TInv'
<1> DEFINE r == [files[i] EXCEPT !.ovr = t]
<1>1. r \in Row
  BY DEF TagEdit, TInv, TypeOK, Row
<1>2. files' = [files EXCEPT ![i] = r]
  BY DEF TagEdit
<1>3. files' \in [Ident -> Row \cup {None}]
  <2> HIDE DEF r
  <2> QED
    BY <1>1, <1>2 DEF TInv, TypeOK
<1> QED
  BY <1>3 DEF TagEdit, envVars, TInv, TypeOK, WorkReady

\* The steps that end an operation without writing a row.
LEMMA FinishTInv ==
    ASSUME TInv, Finish, UNCHANGED <<envVars, files, failures>>,
           failed' \in BOOLEAN, build' \in {"none", "ok", "partial"},
           steady' \subseteq Path \X Ident, faults' \in Nat
    PROVE  TInv'
<1>1. work' \in [Path -> Progress] /\ WorkReady' /\ phase' \in Phase
  BY FreshWork DEF Finish, Phase
<1> QED
  BY <1>1 DEF envVars, TInv, TypeOK

\* record_build ends the pass.
LEMMA StampTInv ==
    ASSUME TInv, Stamp PROVE TInv'
<1>1. /\ UNCHANGED <<envVars, files, failures>>
      /\ failed' \in BOOLEAN /\ build' \in {"none", "ok", "partial"}
      /\ steady' \subseteq Path \X Ident /\ faults' \in Nat /\ Finish
  BY DEF Stamp, TInv, TypeOK
<1> QED
  BY <1>1, FinishTInv

\* Every step of the worker thread.
LEMMA WorkerTInv ==
    ASSUME TInv, Worker PROVE TInv'
<1>1. ASSUME NEW k \in Path, CatalogStep(k) PROVE TInv'
  <2>1. IntendedKey(bucket, k) \in Key /\ (UNCHANGED faults => faults' \in Nat)
    BY IntendedKeyType DEF TInv, TypeOK
  <2> QED
    BY <1>1, <2>1, CatalogStatTInv, CatalogResolveTInv, CatalogReadTInv DEF CatalogStep
<1>2. ASSUME NEW k \in Path, ScanStep(k) PROVE TInv'
  <2>1. IntendedKey(bucket, k) \in Key /\ (UNCHANGED faults => faults' \in Nat)
    BY IntendedKeyType DEF TInv, TypeOK
  <2>2. ASSUME ExtractHead(k) PROVE TInv'
    <3>1. faults' \in Nat /\ work[k].at = "doubt"
      BY <2>2 DEF ExtractHead, Scanning, TInv, TypeOK
    <3>2. PICK at \in {"vanished", "error"} : work' = [work EXCEPT ![k].at = at]
      BY <2>2 DEF ExtractHead
    <3> QED
      BY <2>2, <3>1, <3>2, StageTInv DEF ExtractHead
  <2> QED
    BY <1>2, <2>1, <2>2, ListKeyTInv, ClassifyKeyTInv, ExtractReadTInv, ApplyExtractTInv
       DEF ScanStep
<1>3. ASSUME StartRescan PROVE TInv'
  BY <1>3, BeginScanTInv DEF StartRescan, TInv, TypeOK
<1> QED
  BY <1>1, <1>2, <1>3, EventTInv, SweepTInv, StampTInv DEF Worker

\* A failing read or look in the pool only sets the stage of its key.
LEMMA FaultStage ==
    ASSUME NEW k \in Path, ExtractFault(k) \/ HeadFault(k)
    PROVE  \E at \in {"doubt", "vanished", "error"} : work' = [work EXCEPT ![k].at = at]
<1>1. CASE ExtractFault(k)
  BY <1>1 DEF ExtractFault
<1>2. CASE HeadFault(k) /\ Local
  BY <1>2 DEF HeadFault
<1>3. CASE HeadFault(k) /\ ~Local
  BY <1>3 DEF HeadFault
<1> QED
  BY <1>1, <1>2, <1>3

\* Every transient error, the abandoned pass and the crash.
LEMMA TroubleTInv ==
    ASSUME TInv, Trouble PROVE TInv'
<1>1. ASSUME NEW b, Fault(b) PROVE faults' \in Nat
  BY <1>1 DEF Fault, TInv, TypeOK
<1>2. ASSUME NEW k \in Path, StatFault(k) PROVE TInv'
  <2>1. /\ UNCHANGED <<envVars, files, failures>> /\ failed' \in BOOLEAN
        /\ build' \in {"none", "ok", "partial"} /\ steady' \subseteq Path \X Ident
        /\ faults' \in Nat /\ Finish
    BY <1>1, <1>2 DEF StatFault, dbVars, TInv, TypeOK
  <2> QED
    BY <2>1, FinishTInv
<1>3. ASSUME NEW k \in Path, ReadFault(k) PROVE TInv'
  <2>1. work[k].eff \in Key /\ Dims[work[k].eff] \in Ident
    BY <1>3, QuarantineReady DEF ReadFault, HasEff
  <2>2. files' \in [Ident -> Row \cup {None}] /\ failures' \subseteq Key
    BY <1>3, <2>1, QuarantineType DEF ReadFault, TInv
  <2>3. work' \in [Path -> Progress] /\ WorkReady' /\ phase' \in Phase
    BY <1>3, FreshWork DEF ReadFault, Finish, Phase
  <2> QED
    BY <1>1, <1>3, <2>2, <2>3 DEF ReadFault, envVars, TInv, TypeOK
<1>4. ASSUME NEW k \in Path, ResolveFault(k) \/ ClassifyFault(k) PROVE TInv'
  <2>1. k \in Key
    BY ParamAssumption
  <2>2. CASE ResolveFault(k)
    BY <1>1, <2>1, <2>2, CatalogResolveTInv DEF ResolveFault
  <2>3. CASE ClassifyFault(k)
    BY <1>1, <2>1, <2>3, ClassifyKeyTInv DEF ClassifyFault, Taken
  <2> QED
    BY <1>4, <2>2, <2>3
<1>5. ASSUME NEW k \in Path, ExtractFault(k) \/ HeadFault(k) PROVE TInv'
  <2>1. PICK at \in {"doubt", "vanished", "error"} : work' = [work EXCEPT ![k].at = at]
    BY <1>5, FaultStage
  <2>2. work[k].at \in {"queued", "doubt"}
    BY <1>5 DEF ExtractFault, HeadFault, Scanning
  <2>3. UNCHANGED <<envVars, dbVars, phase, failed, steady>> /\ faults' \in Nat
    BY <1>1, <1>5 DEF ExtractFault, HeadFault
  <2> QED
    BY <2>1, <2>2, <2>3, StageTInv
<1>6. ASSUME AbortScan PROVE TInv'
  <2>1. /\ UNCHANGED <<envVars, files, failures>> /\ failed' \in BOOLEAN
        /\ build' \in {"none", "ok", "partial"} /\ steady' \subseteq Path \X Ident
        /\ faults' \in Nat /\ Finish
    BY <1>1, <1>6 DEF AbortScan, dbVars, TInv, TypeOK
  <2> QED
    BY <2>1, FinishTInv
<1>7. ASSUME Crash PROVE TInv'
  BY <1>1, <1>7, BeginScanTInv DEF Crash
<1> QED
  BY <1>2, <1>3, <1>4, <1>5, <1>6, <1>7, ListFaultTInv DEF Trouble

\* The invariant is inductive.
LEMMA NextTInv == TInv /\ [Next]_vars => TInv'
<1> SUFFICES ASSUME TInv, [Next]_vars PROVE TInv'
  OBVIOUS
<1>1. CASE UNCHANGED vars
  BY <1>1 DEF vars, dbVars, TInv, TypeOK, WorkReady
<1>2. CASE Edit
  BY <1>2, TagEditTInv DEF Edit
<1> QED
  BY <1>1, <1>2, StorageTInv, WorkerTInv, TroubleTInv DEF Next

(* Every reachable state of the catalog, the bucket and the worker is well *)
(* formed: rows carry a token and a content, and no step of an operation   *)
(* meets a key whose progress lacks what the step uses.                    *)
THEOREM TypeCorrect == Spec => []TypeOK
<1>1. TInv => TypeOK
  BY DEF TInv
<1> QED
  BY <1>1, InitTInv, NextTInv, PTL DEF Spec

-----------------------------------------------------------------------------
(* Where keys are authoritative (object storage: intended_key is always    *)
(* None), a row stands at the identity of its own key, so the quarantine   *)
(* of a key deletes every row written from it.                             *)

NoOverrides == \A v \in Version : Intended[v] = None

RowAtItsIdent == \A i \in Ident : files[i] # None => Dims[files[i].src] = i
OwnKey        == \A k \in Path : work[k].eff # None => work[k].eff = k

NInv == NeverBoth /\ RowAtItsIdent /\ OwnKey

\* Without s3_key records an object is cataloged under its own key.
LEMMA OwnIntendedKey ==
    ASSUME NoOverrides, TypeOK, NEW k \in Path PROVE IntendedKey(bucket, k) = k
BY DEF NoOverrides, TypeOK, IntendedKey, Object

\* Quarantine removes the row of the key it records.
LEMMA QuarantineNInv ==
    ASSUME TInv, NInv, NEW k \in Path, Dims[k] \in Ident, Quarantine(Dims[k], k)
    PROVE  NeverBoth' /\ RowAtItsIdent'
BY NoneAssumption DEF TInv, TypeOK, NInv, NeverBoth, RowAtItsIdent, Quarantine

\* The per-file transaction clears, or records and removes, but never both.
LEMMA ApplyNInv ==
    ASSUME TInv, NInv, NEW k \in Path, Dims[k] \in Ident,
           NEW tok \in Token, NEW ver \in Version, Apply(Dims[k], k, k, tok, ver)
    PROVE  NeverBoth' /\ RowAtItsIdent'
<1> DEFINE d == Dims[k]
           r == [tok |-> tok, ver |-> ver, src |-> k,
                 ovr |-> IF files[d] = None THEN None ELSE files[d].ovr]
<1>1. CASE WriteRow(d, k, k, tok, ver)
  <2>1. files' = [files EXCEPT ![d] = r] /\ failures' = failures \ {k}
    BY <1>1 DEF WriteRow
  <2>2. r.src = k
    OBVIOUS
  <2> HIDE DEF r
  <2> QED
    BY <2>1, <2>2 DEF TInv, TypeOK, NInv, NeverBoth, RowAtItsIdent
<1> QED
  BY <1>1, QuarantineNInv DEF Apply

\* A key that does not parse has no row to contradict its failure.
LEMMA NeverBothUnparseable ==
    ASSUME TInv, NInv, NEW k \in Path, Dims[k] = None,
           UNCHANGED files, failures' = failures \cup {k}
    PROVE  NeverBoth' /\ RowAtItsIdent'
BY NoneAssumption DEF NInv, NeverBoth, RowAtItsIdent

\* Finishing, or beginning a pass, leaves no effective key behind.
LEMMA FreshOwnKey ==
    ASSUME work' = NoWork \/ work' = AllToDo PROVE OwnKey'
BY DEF NoWork, AllToDo, Untouched, OwnKey

\* One key moves on, with its own key as the effective one.
LEMMA OneKeyOwns ==
    ASSUME NInv, work \in [Path -> Progress], NEW k \in Path, NEW w,
           work' = [work EXCEPT ![k] = w], w.eff \in {work[k].eff, k}
    PROVE  OwnKey'
BY DEF NInv, OwnKey

\* Progress that keeps the effective key.
LEMMA KeptOwnKey ==
    ASSUME TInv, NInv, \A k \in Path : work'[k].eff = work[k].eff PROVE OwnKey'
BY DEF NInv, OwnKey

\* Taking a notification keeps rows and failures apart.
LEMMA EventNInv ==
    ASSUME TInv, NInv, NEW n \in notes, TakeCatalog(n) \/ TakeDelete(n) PROVE NInv'
<1>1. n.key \in Path
  BY DEF TInv, TypeOK, Note
<1>2. CASE TakeCatalog(n)
  <2>1. \A k \in Path : work'[k].eff = work[k].eff
    BY <1>1, <1>2 DEF TakeCatalog, TInv, TypeOK, Progress
  <2> QED
    BY <1>2, <2>1, KeptOwnKey DEF TakeCatalog, NInv, NeverBoth, RowAtItsIdent
<1>3. CASE TakeDelete(n)
  <2>1. NeverBoth' /\ RowAtItsIdent'
    BY <1>1, <1>3, ParamAssumption, NoneAssumption
       DEF TakeDelete, TInv, TypeOK, NInv, NeverBoth, RowAtItsIdent
  <2> QED
    BY <1>3, <2>1 DEF TakeDelete, NInv, OwnKey
<1> QED
  BY <1>2, <1>3

\* An unparseable key, in the event path or in the pass.
LEMMA ResolveNInv ==
    ASSUME TInv, NInv, NEW k \in Path, CatalogResolve(k, k) \/ ClassifyKey(k, k)
    PROVE  NInv'
<1>1. NeverBoth' /\ RowAtItsIdent'
  <2>1. UNCHANGED files
    BY DEF CatalogResolve, ClassifyKey
  <2>2. \/ UNCHANGED failures
        \/ Dims[k] = None /\ failures' = failures \cup {k}
    BY DEF CatalogResolve, ClassifyKey
  <2> QED
    BY <2>1, <2>2, NeverBothUnparseable DEF NInv, NeverBoth, RowAtItsIdent
<1>2. OwnKey'
  <2>1. CASE Finish
    BY <2>1, FreshOwnKey DEF Finish
  <2>2. CASE ~Finish
    <3>1. work \in [Path -> Progress] /\ work[k] \in Progress
      BY DEF TInv, TypeOK
    <3>2. CASE CatalogResolve(k, k)
      <4> DEFINE w == [work[k] EXCEPT !.at = "read", !.eff = k]
      <4>1. work' = [work EXCEPT ![k] = w] /\ w.eff = k
        BY <2>2, <3>1, <3>2 DEF CatalogResolve, Progress
      <4> HIDE DEF w
      <4> QED
        BY <3>1, <4>1, OneKeyOwns
    <3>3. CASE ClassifyKey(k, k) /\ Dims[k] = None
      <4> DEFINE w == [work[k] EXCEPT !.at = "unparseable"]
      <4>1. work' = [work EXCEPT ![k] = w] /\ w.eff = work[k].eff
        BY <3>1, <3>3 DEF ClassifyKey, Progress
      <4> HIDE DEF w
      <4> QED
        BY <3>1, <4>1, OneKeyOwns
    <3>4. CASE ClassifyKey(k, k) /\ Dims[k] # None
      <4> DEFINE a == IF Unchanged(Dims[k], work[k].tok) THEN "skipped" ELSE "queued"
                 w == [work[k] EXCEPT !.at = a, !.eff = k]
      <4>1. work' = [work EXCEPT ![k] = w]
        BY <3>4 DEF ClassifyKey
      <4>2. w.eff = k
        <5> HIDE DEF a
        <5> QED
          BY <3>1 DEF Progress
      <4> HIDE DEF w
      <4> QED
        BY <3>1, <4>1, <4>2, OneKeyOwns
    <3> QED
      BY <3>2, <3>3, <3>4
  <2> QED
    BY <2>1, <2>2
<1> QED
  BY <1>1, <1>2 DEF NInv

\* The summary read of catalog_object.
LEMMA ReadNInv ==
    ASSUME TInv, NInv, NEW k \in Path, CatalogRead(k) \/ ReadFault(k) PROVE NInv'
<1>1. /\ work[k].eff = k /\ Dims[k] \in Ident /\ work[k].tok \in Token
  BY QuarantineReady, NoneAssumption
     DEF CatalogRead, ReadFault, HasEff, NInv, OwnKey, TInv, WorkReady
<1>2. CanRead(k) => bucket[k].ver \in Version
  BY DEF CanRead, TInv, TypeOK, Object
<1>3. NeverBoth' /\ RowAtItsIdent'
  BY <1>1, <1>2, ApplyNInv, QuarantineNInv DEF CatalogRead, ReadFault
<1>4. OwnKey'
  BY FreshOwnKey DEF CatalogRead, ReadFault, Finish
<1> QED
  BY <1>3, <1>4 DEF NInv

\* apply_extract.
LEMMA ApplyExtractNInv ==
    ASSUME TInv, NInv, NEW k \in Path, ApplyExtract(k) PROVE NInv'
<1>1. /\ work[k].eff = k /\ Dims[k] \in Ident /\ work[k].tok \in Token
      /\ work[k].at = "ready" => work[k].ver \in Version
  BY QuarantineReady, NoneAssumption
     DEF ApplyExtract, HasEff, NInv, OwnKey, TInv, WorkReady
<1>2. NeverBoth' /\ RowAtItsIdent'
  <2>1. CASE work[k].at = "ready"
    BY <1>1, <2>1, ApplyNInv DEF ApplyExtract
  <2>2. CASE work[k].at = "error"
    BY <1>1, <2>2, QuarantineNInv DEF ApplyExtract
  <2>3. CASE work[k].at = "vanished"
    BY <2>3 DEF ApplyExtract, NInv, NeverBoth, RowAtItsIdent
  <2> QED
    BY <2>1, <2>2, <2>3 DEF ApplyExtract
<1>3. \A j \in Path : work'[j].eff = work[j].eff
  BY DEF ApplyExtract, TInv, TypeOK, Progress
<1> QED
  BY <1>2, <1>3, KeptOwnKey DEF NInv

\* The steps that touch neither rows nor failures nor effective keys.
LEMMA QuietNInv ==
    ASSUME TInv, NInv, UNCHANGED <<files, failures>>,
           \/ \A k \in Path : work'[k].eff = work[k].eff
           \/ work' = NoWork \/ work' = AllToDo
    PROVE  NInv'
BY KeptOwnKey, FreshOwnKey DEF NInv, NeverBoth, RowAtItsIdent

\* The invariant is inductive.
LEMMA NextNInv == NoOverrides => (TInv /\ NInv /\ [Next]_vars => NInv')
<1> SUFFICES ASSUME NoOverrides, TInv, NInv, [Next]_vars PROVE NInv'
  OBVIOUS
<1> USE DEF envVars, dbVars
<1>1. CASE UNCHANGED vars
  BY <1>1, QuietNInv DEF vars
<1>2. ASSUME Storage PROVE NInv'
  BY <1>2, QuietNInv DEF Storage, Put, Remove, Lose
<1>3. ASSUME NEW i \in Ident, NEW t \in Tag \cup {None}, TagEdit(i, t) PROVE NInv'
  <2>1. \A j \in Ident : /\ files'[j] # None => files[j] # None
                         /\ files[j] # None => files'[j].src = files[j].src
    BY <1>3 DEF TagEdit, TInv, TypeOK, Row
  <2> QED
    BY <1>3, <2>1 DEF TagEdit, NInv, NeverBoth, RowAtItsIdent, OwnKey
<1>4. ASSUME NEW k \in Path, CatalogStep(k) \/ ScanStep(k) PROVE NInv'
  <2>1. IntendedKey(bucket, k) = k
    BY OwnIntendedKey DEF TInv
  <2>2. ASSUME CatalogStat(k) \/ ListKey(k) \/ ExtractRead(k) \/ ExtractHead(k) PROVE NInv'
    <3>1. \/ \A j \in Path : work'[j].eff = work[j].eff
          \/ work' = NoWork
      BY <2>2 DEF CatalogStat, Finish, ListKey, ExtractRead, ExtractHead, TInv, TypeOK,
                  Progress
    <3> QED
      BY <2>2, <3>1, QuietNInv DEF CatalogStat, ListKey, ExtractRead, ExtractHead
  <2> QED
    BY <1>4, <2>1, <2>2, ResolveNInv, ReadNInv, ApplyExtractNInv DEF CatalogStep, ScanStep
<1>5. ASSUME StartRescan \/ Stamp PROVE NInv'
  BY <1>5, QuietNInv DEF StartRescan, BeginScan, Stamp, Finish
<1>6. ASSUME Sweep PROVE NInv'
  BY <1>6 DEF Sweep, NInv, NeverBoth, RowAtItsIdent, OwnKey
<1>7. ASSUME Worker PROVE NInv'
  BY <1>4, <1>5, <1>6, <1>7, EventNInv DEF Worker
<1>8. ASSUME Trouble PROVE NInv'
  <2>1. ASSUME NEW k \in Path, ResolveFault(k) \/ ClassifyFault(k) PROVE NInv'
    BY <2>1, ResolveNInv DEF ResolveFault, ClassifyFault
  <2>2. ASSUME NEW k \in Path, ListFault(k) \/ ExtractFault(k) \/ HeadFault(k)
        PROVE  NInv'
    <3>1. \A j \in Path : work'[j].eff = work[j].eff
      BY <2>2 DEF ListFault, ExtractFault, HeadFault, TInv, TypeOK, Progress
    <3> QED
      BY <2>2, <3>1, QuietNInv DEF ListFault, ExtractFault, HeadFault
  <2>3. ASSUME NEW k \in Path, StatFault(k) PROVE NInv'
    BY <2>3, QuietNInv DEF StatFault, Finish
  <2>4. ASSUME AbortScan \/ Crash PROVE NInv'
    BY <2>4, QuietNInv DEF AbortScan, Crash, Finish, BeginScan
  <2> QED
    BY <1>8, <2>1, <2>2, <2>3, <2>4, ReadNInv DEF Trouble
<1> QED
  BY <1>1, <1>2, <1>3, <1>7, <1>8 DEF Next, Edit

(* On object storage no file is ever both cataloged and failed, whatever   *)
(* the interleaving of events, passes, faults and crashes, and even where  *)
(* two keys parse to one identity (builder.py:336, quarantine).            *)
THEOREM NeverBothCorrect == NoOverrides => (Spec => []NeverBoth)
<1> SUFFICES ASSUME NoOverrides PROVE Spec => []NeverBoth
  OBVIOUS
<1>1. Init => NInv
  BY DEF Init, NInv, NeverBoth, RowAtItsIdent, OwnKey, AllToDo, Untouched
<1>2. NInv => NeverBoth
  BY DEF NInv
<1>3. TInv /\ NInv /\ [Next]_vars => NInv'
  BY NextNInv
<1> QED
  BY <1>1, <1>2, <1>3, InitTInv, NextTInv, PTL DEF Spec

-----------------------------------------------------------------------------
(* Where every write has a token of its own (GCS generations, local        *)
(* mtimes), a token held by a row or by the operation in hand is never the *)
(* token of a later write; so a content read after its token was seen, and *)
(* still carrying that token, is the content the token stands for.         *)

OldToks ==
    /\ \A k \in Path : bucket[k] # None => bucket[k].tok.gen <= ops
    /\ \A k \in Path : work[k].tok # None => work[k].tok.gen <= ops
    /\ \A i \in Ident : files[i] # None => files[i].tok.gen <= ops

ReadyFresh ==
    \A k \in Path :
        (work[k].at = "ready" /\ bucket[k] # None /\ bucket[k].tok = work[k].tok)
            => work[k].ver = bucket[k].ver

SInv == SkipSound /\ OldToks /\ ReadyFresh

\* A write gives a token that no progress and no row carries yet.
LEMMA StorageSInv ==
    ASSUME ~ContentHash, TInv, SInv, Storage PROVE SInv'
<1>1. ASSUME NEW k \in Path, NEW v \in Version, Put(k, v) PROVE SInv'
  <2> DEFINE o == [tok |-> TokenOf(v, ops + 1), ver |-> v]
  <2>1. o.tok.gen = ops + 1 /\ o # None
    BY NoneAssumption DEF TokenOf, Object, Token, TInv, TypeOK
  <2>2. bucket' = [bucket EXCEPT ![k] = o] /\ ops' = ops + 1
        /\ UNCHANGED <<files, work>>
    BY <1>1 DEF Put, dbVars
  <2>3. /\ \A j \in Path : bucket[j] # None => bucket[j].tok.gen \in Nat
        /\ \A j \in Path : work[j].tok # None => work[j].tok.gen \in Nat
        /\ \A i \in Ident : files[i] # None =>
               files[i].tok.gen \in Nat /\ files[i].src \in Path
        /\ ops \in Nat /\ bucket \in [Path -> Object \cup {None}]
    BY DEF TInv, TypeOK, Object, Progress, Row, Token
  <2>4. \A j \in Path : bucket'[j] = IF j = k THEN o ELSE bucket[j]
    BY <2>2, <2>3
  <2> HIDE DEF o
  <2>5. OldToks'
    BY <2>1, <2>2, <2>3, <2>4 DEF SInv, OldToks
  <2>6. SkipSound'
    <3> SUFFICES ASSUME NEW i \in Ident, files[i] # None,
                        bucket'[files[i].src].tok = files[i].tok
                 PROVE  bucket'[files[i].src] = bucket[files[i].src]
      BY <2>2 DEF SInv, SkipSound
    <3>1. files[i].tok.gen <= ops
      BY DEF SInv, OldToks
    <3> QED
      BY <2>1, <2>3, <2>4, <3>1
  <2>7. ReadyFresh'
    <3> SUFFICES ASSUME NEW j \in Path, work[j].at = "ready",
                        bucket'[j].tok = work[j].tok
                 PROVE  bucket'[j] = bucket[j]
      BY <2>2 DEF SInv, ReadyFresh
    <3>1. work[j].tok # None /\ work[j].tok.gen <= ops
      BY DEF TInv, WorkReady, HasTok, SInv, OldToks
    <3> QED
      BY <2>1, <2>3, <2>4, <3>1
  <2> QED
    BY <2>5, <2>6, <2>7 DEF SInv
<1>2. ASSUME NEW k \in Path, Remove(k) PROVE SInv'
  <2>1. /\ \A j \in Path : bucket'[j] \in {bucket[j], None}
        /\ ops' = ops + 1 /\ UNCHANGED <<files, work>>
    BY <1>2 DEF Remove, dbVars, TInv, TypeOK
  <2>2. /\ \A j \in Path : bucket[j] # None => bucket[j].tok.gen \in Nat
        /\ \A j \in Path : work[j].tok # None => work[j].tok.gen \in Nat
        /\ \A i \in Ident : files[i] # None =>
               files[i].tok.gen \in Nat /\ files[i].src \in Path
        /\ ops \in Nat
    BY DEF TInv, TypeOK, Object, Progress, Row, Token
  <2> QED
    BY <2>1, <2>2 DEF SInv, SkipSound, OldToks, ReadyFresh
<1>3. ASSUME NEW n \in notes, Lose(n) PROVE SInv'
  BY <1>3 DEF Lose, dbVars, SInv, SkipSound, OldToks, ReadyFresh
<1> QED
  BY <1>1, <1>2, <1>3 DEF Storage

(* While the bucket is as it was, it is enough to look at new rows and at  *)
(* the progress that changed.                                              *)
OldRow(i) == files[i] # None /\ files'[i].tok = files[i].tok
                /\ files'[i].ver = files[i].ver /\ files'[i].src = files[i].src

FreshRow(r) == /\ r.tok.gen <= ops
               /\ (bucket[r.src] # None /\ bucket[r.src].tok = r.tok)
                     => r.ver = bucket[r.src].ver

FreshWorkOf(k) ==
    /\ work'[k].tok # None => work'[k].tok.gen <= ops
    /\ (work'[k].at = "ready" /\ bucket[k] # None /\ bucket[k].tok = work'[k].tok)
          => work'[k].ver = bucket[k].ver

\* With the bucket as it was, it is enough that rows and progress are old or fresh.
LEMMA StillBucket ==
    ASSUME SInv, UNCHANGED <<bucket, ops>>,
           \A i \in Ident : files'[i] # None => OldRow(i) \/ FreshRow(files'[i]),
           \A k \in Path : FreshWorkOf(k)
    PROVE  SInv'
BY DEF SInv, SkipSound, OldToks, ReadyFresh, OldRow, FreshRow, FreshWorkOf

\* A key that kept its token, and whatever it had read, is as fresh as before.
LEMMA SameWork ==
    ASSUME SInv, NEW k \in Path,
           work'[k].tok = work[k].tok,
           work'[k].at # "ready" \/ (work'[k].at = work[k].at /\ work'[k].ver = work[k].ver)
    PROVE  FreshWorkOf(k)
BY DEF SInv, OldToks, ReadyFresh, FreshWorkOf

\* So is a key whose operation ended or begins.
LEMMA ResetWork ==
    ASSUME work' = NoWork \/ work' = AllToDo, NEW k \in Path PROVE FreshWorkOf(k)
BY DEF NoWork, AllToDo, Untouched, FreshWorkOf

\* An untouched row is an old row.
LEMMA SameRow ==
    ASSUME NEW i \in Ident, files'[i] = files[i], files'[i] # None PROVE OldRow(i)
BY DEF OldRow

\* What the builder writes for object k with the token and content in hand.
LEMMA ApplyFresh ==
    ASSUME TInv, SInv, NEW k \in Path, NEW d \in Ident, NEW e \in Key,
           work[k].tok \in Token, work[k].tok # None,
           NEW ver \in Version,
           (bucket[k] # None /\ bucket[k].tok = work[k].tok) => ver = bucket[k].ver,
           Apply(d, e, k, work[k].tok, ver) \/ Quarantine(d, e),
           NEW i \in Ident, files'[i] # None
    PROVE  OldRow(i) \/ FreshRow(files'[i])
<1>1. work[k].tok.gen <= ops
  BY DEF SInv, OldToks
<1>2. CASE Quarantine(d, e)
  BY <1>2, SameRow DEF Quarantine, TInv, TypeOK
<1>3. CASE WriteRow(d, e, k, work[k].tok, ver)
  <2> DEFINE r == [tok |-> work[k].tok, ver |-> ver, src |-> k,
                   ovr |-> IF files[d] = None THEN None ELSE files[d].ovr]
  <2>1. files' = [files EXCEPT ![d] = r]
    BY <1>3 DEF WriteRow
  <2>2. r.tok = work[k].tok /\ r.ver = ver /\ r.src = k
    OBVIOUS
  <2> HIDE DEF r
  <2>3. files'[i] = IF i = d THEN r ELSE files[i]
    BY <2>1 DEF TInv, TypeOK
  <2> QED
    BY <1>1, <2>2, <2>3, SameRow DEF FreshRow
<1> QED
  BY <1>2, <1>3 DEF Apply

\* The summary read of catalog_object: what is read is at least as new as its token.
LEMMA ReadSInv ==
    ASSUME TInv, SInv, NEW k \in Path, CatalogRead(k) \/ ReadFault(k) PROVE SInv'
<1>1. /\ work[k].eff \in Key /\ Dims[work[k].eff] \in Ident
      /\ work[k].tok \in Token /\ work[k].tok # None
  BY QuarantineReady DEF CatalogRead, ReadFault, HasEff, HasTok, TInv, WorkReady
<1>2. CanRead(k) => bucket[k].ver \in Version
  BY DEF CanRead, TInv, TypeOK, Object
<1>3. ASSUME NEW i \in Ident, files'[i] # None PROVE OldRow(i) \/ FreshRow(files'[i])
  <2> DEFINE e == work[k].eff
  <2>1. CASE Quarantine(Dims[e], e)
    BY <1>3, <2>1, SameRow DEF Quarantine, TInv, TypeOK
  <2>2. CASE CanRead(k) /\ Apply(Dims[e], e, k, work[k].tok, bucket[k].ver)
    BY <1>1, <1>2, <1>3, <2>2, ApplyFresh
  <2> QED
    BY <2>1, <2>2 DEF CatalogRead, ReadFault
<1>4. \A j \in Path : FreshWorkOf(j)
  BY ResetWork DEF CatalogRead, ReadFault, Finish
<1>5. UNCHANGED <<bucket, ops>>
  BY DEF CatalogRead, ReadFault, envVars
<1> QED
  BY <1>3, <1>4, <1>5, StillBucket

\* apply_extract writes a content read after its token was listed.
LEMMA ApplyExtractSInv ==
    ASSUME TInv, SInv, NEW k \in Path, ApplyExtract(k) PROVE SInv'
<1>1. /\ work[k].eff \in Key /\ Dims[work[k].eff] \in Ident
      /\ work[k].tok \in Token /\ work[k].tok # None
      /\ work[k].at = "ready" => work[k].ver \in Version
  BY QuarantineReady DEF ApplyExtract, HasEff, HasTok, TInv, WorkReady
<1>2. ASSUME NEW i \in Ident, files'[i] # None PROVE OldRow(i) \/ FreshRow(files'[i])
  <2> DEFINE e == work[k].eff
  <2>1. CASE work[k].at = "ready"
    <3>1. Apply(Dims[e], e, k, work[k].tok, work[k].ver)
      BY <2>1 DEF ApplyExtract
    <3>2. (bucket[k] # None /\ bucket[k].tok = work[k].tok) => work[k].ver = bucket[k].ver
      BY <2>1 DEF SInv, ReadyFresh
    <3> QED
      BY <1>1, <1>2, <2>1, <3>1, <3>2, ApplyFresh
  <2>2. CASE work[k].at = "error"
    BY <1>2, <2>2, SameRow DEF ApplyExtract, Quarantine, TInv, TypeOK
  <2>3. CASE work[k].at = "vanished"
    BY <1>2, <2>3, SameRow DEF ApplyExtract
  <2> QED
    BY <2>1, <2>2, <2>3 DEF ApplyExtract
<1>3. ASSUME NEW j \in Path PROVE FreshWorkOf(j)
  <2>1. work'[j].tok = work[j].tok /\ work'[j].ver = work[j].ver
        /\ (work'[j].at # "ready" \/ work'[j].at = work[j].at)
    BY DEF ApplyExtract, TInv, TypeOK, Progress
  <2> QED
    BY <2>1, SameWork
<1>4. UNCHANGED <<bucket, ops>>
  BY DEF ApplyExtract, envVars
<1> QED
  BY <1>2, <1>3, <1>4, StillBucket

\* The steps that write no row: tokens come from the bucket as it is.
LEMMA LookSInv ==
    ASSUME TInv, SInv, NEW k \in Path, UNCHANGED <<bucket, ops, files>>,
           NEW w \in Progress, work' = [work EXCEPT ![k] = w],
           \/ w.tok = work[k].tok
           \/ bucket[k] # None /\ w.tok = bucket[k].tok,
           w.at = "ready" => bucket[k] # None /\ w.ver = bucket[k].ver
    PROVE  SInv'
<1>1. \A j \in Path : work'[j] = IF j = k THEN w ELSE work[j]
  BY DEF TInv, TypeOK
<1>2. ASSUME NEW j \in Path PROVE FreshWorkOf(j)
  <2>1. CASE j = k
    BY <1>1, <2>1 DEF FreshWorkOf, SInv, OldToks
  <2>2. CASE j # k
    BY <1>1, <2>2, SameWork
  <2> QED
    BY <2>1, <2>2
<1>3. \A i \in Ident : files'[i] # None => OldRow(i)
  BY SameRow
<1> QED
  BY <1>2, <1>3, StillBucket

\* A step that ends an operation, or begins a pass, and writes no row.
LEMMA ResetSInv ==
    ASSUME SInv, UNCHANGED <<bucket, ops, files>>, work' = NoWork \/ work' = AllToDo
    PROVE  SInv'
BY StillBucket, SameRow, ResetWork

\* Taking a notification.
LEMMA EventSInv ==
    ASSUME TInv, SInv, NEW n \in notes, TakeCatalog(n) \/ TakeDelete(n) PROVE SInv'
<1>1. n.key \in Path
  BY DEF TInv, TypeOK, Note
<1>2. CASE TakeCatalog(n)
  <2> DEFINE w == [work[n.key] EXCEPT !.at = "stat"]
  <2>1. w \in Progress /\ w.at = "stat" /\ w.tok = work[n.key].tok
    BY <1>1 DEF TInv, TypeOK, Progress, At
  <2>2. work' = [work EXCEPT ![n.key] = w] /\ UNCHANGED <<bucket, ops, files>>
    BY <1>2 DEF TakeCatalog, Take
  <2> HIDE DEF w
  <2> QED
    BY <1>1, <2>1, <2>2, LookSInv
<1>3. CASE TakeDelete(n)
  <2>1. \A i \in Ident : files'[i] # None => files'[i] = files[i]
    BY <1>3 DEF TakeDelete, TInv, TypeOK
  <2>2. UNCHANGED <<bucket, ops, work>>
    BY <1>3 DEF TakeDelete, Take
  <2> QED
    BY <2>1, <2>2, SameRow, SameWork, StillBucket
<1> QED
  BY <1>2, <1>3

\* The identity and the fingerprint skip, in the event path and in the pass.
LEMMA ResolveSInv ==
    ASSUME TInv, SInv, NEW k \in Path, NEW e \in Key,
           CatalogResolve(k, e) \/ ClassifyKey(k, e)
    PROVE  SInv'
<1>1. UNCHANGED <<bucket, ops, files>> /\ work[k] \in Progress
  BY DEF CatalogResolve, ClassifyKey, envVars, TInv, TypeOK
<1>2. CASE Finish
  BY <1>1, <1>2, ResetSInv DEF Finish
<1>3. CASE CatalogResolve(k, e) /\ ~Finish
  <2> DEFINE w == [work[k] EXCEPT !.at = "read", !.eff = e]
  <2>1. w \in Progress /\ w.at = "read" /\ w.tok = work[k].tok
    BY <1>1 DEF Progress, At
  <2>2. work' = [work EXCEPT ![k] = w]
    BY <1>3 DEF CatalogResolve
  <2> HIDE DEF w
  <2> QED
    BY <1>1, <2>1, <2>2, LookSInv
<1>4. CASE ClassifyKey(k, e) /\ Dims[e] = None
  <2> DEFINE w == [work[k] EXCEPT !.at = "unparseable"]
  <2>1. w \in Progress /\ w.at = "unparseable" /\ w.tok = work[k].tok
    BY <1>1 DEF Progress, At, Final
  <2>2. work' = [work EXCEPT ![k] = w]
    BY <1>4 DEF ClassifyKey
  <2> HIDE DEF w
  <2> QED
    BY <1>1, <2>1, <2>2, LookSInv
<1>5. CASE ClassifyKey(k, e) /\ Dims[e] # None
  <2> DEFINE a == IF Unchanged(Dims[e], work[k].tok) THEN "skipped" ELSE "queued"
             w == [work[k] EXCEPT !.at = a, !.eff = e]
  <2>1. a \in {"skipped", "queued"}
    OBVIOUS
  <2>2. work' = [work EXCEPT ![k] = w]
    BY <1>5 DEF ClassifyKey
  <2>3. w \in Progress /\ w.at = a /\ w.tok = work[k].tok
    <3> HIDE DEF a
    <3> QED
      BY <1>1, <2>1 DEF Progress, At, Final
  <2> HIDE DEF w, a
  <2> QED
    BY <1>1, <2>1, <2>2, <2>3, LookSInv
<1> QED
  BY <1>2, <1>3, <1>4, <1>5

\* A look at the bucket: stat, listing, summary read, HEAD, or its failure.
LEMMA LooksSInv ==
    ASSUME TInv, SInv, NEW k \in Path,
           \/ CatalogStat(k) \/ ListKey(k) \/ ExtractRead(k) \/ ExtractHead(k)
           \/ ListFault(k) \/ ExtractFault(k) \/ HeadFault(k)
    PROVE  SInv'
<1> DEFINE tok == bucket[k].tok
           ver == bucket[k].ver
           W(at) == [work[k] EXCEPT !.at = at]
           T(at) == [work[k] EXCEPT !.at = at, !.tok = tok]
           R     == [work[k] EXCEPT !.at = "ready", !.ver = ver]
<1>1. UNCHANGED <<bucket, ops, files>> /\ work[k] \in Progress
  BY DEF CatalogStat, ListKey, ExtractRead, ExtractHead, ListFault, ExtractFault,
         HeadFault, envVars, dbVars, TInv, TypeOK
<1>2. CASE Finish
  BY <1>1, <1>2, ResetSInv DEF Finish
<1>3. ASSUME NEW at \in {"absent", "doubt", "vanished", "error"},
             work' = [work EXCEPT ![k] = W(at)]
      PROVE  SInv'
  <2>1. W(at) \in Progress /\ W(at).at = at /\ W(at).tok = work[k].tok
    BY <1>1 DEF Progress, At, Final
  <2> HIDE DEF W
  <2> QED
    BY <1>1, <1>3, <2>1, LookSInv
<1>4. ASSUME NEW at \in {"dims", "listed"}, bucket[k] # None,
             work' = [work EXCEPT ![k] = T(at)]
      PROVE  SInv'
  <2>1. tok \in Token
    BY <1>4 DEF TInv, TypeOK, Object
  <2>2. T(at) \in Progress /\ T(at).at = at /\ T(at).tok = tok
    <3> HIDE DEF tok
    <3> QED
      BY <1>1, <2>1 DEF Progress, At
  <2> HIDE DEF T
  <2> QED
    BY <1>1, <1>4, <2>2, LookSInv
<1>5. ASSUME CanRead(k), work' = [work EXCEPT ![k] = R] PROVE SInv'
  <2>1. ver \in Version /\ bucket[k] # None
    BY <1>5 DEF CanRead, TInv, TypeOK, Object
  <2>2. R \in Progress /\ R.at = "ready" /\ R.tok = work[k].tok /\ R.ver = ver
    <3> HIDE DEF ver
    <3> QED
      BY <1>1, <2>1 DEF Progress, At
  <2> HIDE DEF R
  <2> QED
    BY <1>1, <1>5, <2>1, <2>2, LookSInv
<1>6. CASE CatalogStat(k)
  BY <1>2, <1>4, <1>6 DEF CatalogStat
<1>7. CASE ListKey(k)
  BY <1>3, <1>4, <1>7 DEF ListKey
<1>8. CASE ExtractRead(k)
  BY <1>3, <1>5, <1>8 DEF ExtractRead
<1>9. CASE ExtractHead(k)
  BY <1>3, <1>9 DEF ExtractHead
<1>10. CASE ListFault(k)
  BY <1>3, <1>10 DEF ListFault
<1>11. CASE ExtractFault(k) \/ HeadFault(k)
  <2>1. PICK at \in {"doubt", "vanished", "error"} : work' = [work EXCEPT ![k].at = at]
    BY <1>11, FaultStage
  <2> QED
    BY <1>3, <2>1
<1> QED
  BY <1>6, <1>7, <1>8, <1>9, <1>10, <1>11

\* The invariant is inductive.
LEMMA NextSInv == ~ContentHash => (TInv /\ SInv /\ [Next]_vars => SInv')
<1> SUFFICES ASSUME ~ContentHash, TInv, SInv, [Next]_vars PROVE SInv'
  OBVIOUS
<1> USE DEF envVars, dbVars
<1>1. ASSUME UNCHANGED <<bucket, ops, files, work>> PROVE SInv'
  BY <1>1, SameRow, SameWork, StillBucket
<1>2. ASSUME NEW i \in Ident, NEW t \in Tag \cup {None}, TagEdit(i, t) PROVE SInv'
  <2>1. \A j \in Ident : files'[j] # None => OldRow(j)
    <3>1. files \in [Ident -> Row \cup {None}] /\ files[i] \in Row
      BY <1>2 DEF TagEdit, TInv, TypeOK
    <3>2. files' = [files EXCEPT ![i].ovr = t]
      BY <1>2 DEF TagEdit
    <3> QED
      BY <1>2, <3>1, <3>2 DEF OldRow, Row, TagEdit
  <2>2. UNCHANGED <<bucket, ops, work>>
    BY <1>2 DEF TagEdit
  <2> QED
    BY <2>1, <2>2, SameWork, StillBucket
<1>3. ASSUME NEW k \in Path, CatalogStep(k) \/ ScanStep(k) PROVE SInv'
  <2>1. IntendedKey(bucket, k) \in Key
    BY IntendedKeyType DEF TInv
  <2> QED
    BY <1>3, <2>1, LooksSInv, ResolveSInv, ReadSInv, ApplyExtractSInv
       DEF CatalogStep, ScanStep
<1>4. ASSUME StartRescan \/ Stamp PROVE SInv'
  BY <1>4, ResetSInv DEF StartRescan, BeginScan, Stamp, Finish
<1>5. ASSUME Sweep PROVE SInv'
  <2>1. \A i \in Ident : files'[i] # None => files'[i] = files[i]
    BY <1>5 DEF Sweep
  <2>2. UNCHANGED <<bucket, ops, work>>
    BY <1>5 DEF Sweep
  <2> QED
    BY <2>1, <2>2, SameRow, SameWork, StillBucket
<1>6. ASSUME Worker PROVE SInv'
  BY <1>3, <1>4, <1>5, <1>6, EventSInv DEF Worker
<1>7. ASSUME Trouble PROVE SInv'
  <2>1. ASSUME NEW k \in Path, ResolveFault(k) \/ ClassifyFault(k) PROVE SInv'
    BY <2>1, ResolveSInv, ParamAssumption DEF ResolveFault, ClassifyFault
  <2>2. ASSUME NEW k \in Path, StatFault(k) PROVE SInv'
    BY <2>2, ResetSInv DEF StatFault, Finish
  <2>3. ASSUME AbortScan \/ Crash PROVE SInv'
    BY <2>3, ResetSInv DEF AbortScan, Crash, Finish, BeginScan
  <2> QED
    BY <1>7, <2>1, <2>2, <2>3, LooksSInv, ReadSInv DEF Trouble
<1>8. CASE UNCHANGED vars
  BY <1>1, <1>8 DEF vars
<1>9. CASE Edit
  BY <1>2, <1>9 DEF Edit
<1> QED
  BY <1>6, <1>7, <1>8, <1>9, StorageSInv DEF Next

(* Where every write of an object has its own change token, skipping an    *)
(* object by its token is sound: the row it leaves alone was written from  *)
(* the very content the object has now.  With a content hash for a token   *)
(* this is false: contents may change and change back within a pass.       *)
THEOREM SkipSoundCorrect == ~ContentHash => (Spec => []SkipSound)
<1> SUFFICES ASSUME ~ContentHash PROVE Spec => []SkipSound
  OBVIOUS
<1>1. Init => SInv
  BY DEF Init, SInv, SkipSound, OldToks, ReadyFresh, AllToDo, Untouched
<1>2. SInv => SkipSound
  BY DEF SInv
<1>3. TInv /\ SInv /\ [Next]_vars => SInv'
  BY NextSInv
<1> QED
  BY <1>1, <1>2, <1>3, InitTInv, NextTInv, PTL DEF Spec

-----------------------------------------------------------------------------
(* The sweep.  An identity is resolved the same way while its object does *)
(* not change and its looks succeed, so the pass lists every standing      *)
(* claim under its identity; a look that fails takes away the claims that  *)
(* it mistakes, and no others.                                             *)

Seen(c) == /\ work[c[1]].at # "absent"
           /\ \/ work[c[1]].at \in {"todo", "listed"}
              \/ work[c[1]].eff # None /\ Dims[work[c[1]].eff] = c[2]

LInv == /\ steady \subseteq Claims(bucket)
        /\ phase = "scan" => \A c \in steady : Seen(c)

\* A claim stands for an identity of an object that is there.
LEMMA ClaimIs ==
    ASSUME NEW c \in Claims(bucket)
    PROVE  /\ c[1] \in Path /\ c[2] \in Ident /\ bucket[c[1]] # None
           /\ Dims[IntendedKey(bucket, c[1])] = c[2] /\ c[2] # None
BY NoneAssumption DEF Claims

\* One key of the pass moves on, and the claims on it stay seen.
LEMMA SeenMove ==
    ASSUME TInv, LInv, NEW k \in Path, NEW w,
           phase = "scan", UNCHANGED <<bucket, phase>>, steady' \subseteq steady,
           work' = [work EXCEPT ![k] = w],
           \A c \in steady' : c[1] = k =>
              /\ w.at # "absent"
              /\ \/ w.at \in {"todo", "listed"}
                 \/ w.eff # None /\ Dims[w.eff] = c[2]
    PROVE  LInv'
<1>1. work \in [Path -> Progress]
  BY DEF TInv, TypeOK
<1>2. (steady \subseteq Claims(bucket))'
  BY DEF LInv, Claims, IntendedKey
<1>3. ASSUME NEW c \in steady' PROVE Seen(c)'
  <2>1. c \in steady /\ c \in Claims(bucket)
    BY DEF LInv
  <2>2. c[1] \in Path
    BY <2>1, ClaimIs
  <2>3. CASE c[1] = k
    <3>1. work'[c[1]] = w
      BY <1>1, <2>2, <2>3
    <3> QED
      BY <2>3, <3>1 DEF Seen
  <2>4. CASE c[1] # k
    <3>1. work'[c[1]] = work[c[1]]
      BY <1>1, <2>2, <2>4
    <3>2. Seen(c)
      BY <2>1 DEF LInv
    <3> QED
      BY <3>1, <3>2 DEF Seen
  <2> QED
    BY <2>3, <2>4
<1> QED
  BY <1>2, <1>3 DEF LInv

\* Nothing was asked of the listing, or no pass is on.
LEMMA SeenRest ==
    ASSUME LInv, UNCHANGED bucket, steady' \subseteq steady,
           phase' = "scan" => phase = "scan" /\ UNCHANGED work
    PROVE  LInv'
<1>1. (steady \subseteq Claims(bucket))'
  BY DEF LInv, Claims, IntendedKey
<1> QED
  BY <1>1 DEF LInv, Seen

\* A pass begins: every standing claim is still to be listed.
LEMMA SeenBegin ==
    ASSUME TInv, LInv, BeginScan, UNCHANGED bucket PROVE LInv'
<1>1. (steady \subseteq Claims(bucket))'
  BY DEF BeginScan, Claims, IntendedKey
<1>2. ASSUME NEW c \in steady' PROVE Seen(c)'
  <2>1. c[1] \in Path
    BY <1>2, ClaimIs DEF BeginScan
  <2> QED
    BY <2>1 DEF BeginScan, AllToDo, Untouched, Seen
<1> QED
  BY <1>1, <1>2 DEF LInv

\* The bucket changes: only the claims that still stand are kept.
LEMMA SeenStorage ==
    ASSUME LInv, Storage PROVE LInv'
<1>1. UNCHANGED <<phase, work>> /\ (steady' = steady \cap Claims(bucket)' \/ UNCHANGED <<bucket, steady>>)
  BY DEF Storage, Put, Remove, Lose, Claims, IntendedKey
<1>2. CASE UNCHANGED <<bucket, steady>>
  BY <1>1, <1>2, SeenRest
<1>3. CASE steady' = steady \cap Claims(bucket)'
  BY <1>1, <1>3 DEF LInv, Seen
<1> QED
  BY <1>1, <1>2, <1>3

\* The listing finds the object of a claim that stands.
LEMMA SeenList ==
    ASSUME TInv, LInv, NEW k \in Path, ListKey(k) PROVE LInv'
<1> DEFINE w == IF bucket[k] = None THEN [work[k] EXCEPT !.at = "absent"]
                ELSE [[work[k] EXCEPT !.at = "listed"] EXCEPT !.tok = bucket[k].tok]
<1>1. work' = [work EXCEPT ![k] = w]
  BY DEF ListKey
<1>2. work[k] \in Progress
  BY DEF TInv, TypeOK
<1>3. bucket[k] # None => w.at = "listed"
  BY <1>2 DEF Progress
<1>4. \A c \in steady : c[1] = k => bucket[k] # None
  BY ClaimIs DEF LInv
<1>5. phase = "scan" /\ UNCHANGED <<steady, bucket, phase>>
  BY DEF ListKey, Scanning, envVars
<1> HIDE DEF w
<1>6. \A c \in steady : c[1] = k => w.at # "absent" /\ w.at \in {"todo", "listed"}
  BY <1>3, <1>4
<1> QED
  BY <1>1, <1>5, <1>6, SeenMove

\* A local file whose stat fails is left out, and its claims with it.
LEMMA SeenUnlisted ==
    ASSUME TInv, LInv, NEW k \in Path, ListFault(k) PROVE LInv'
<1> DEFINE w == [work[k] EXCEPT !.at = "absent"]
<1>1. work' = [work EXCEPT ![k] = w]
  BY DEF ListFault
<1>2. phase = "scan" /\ UNCHANGED <<bucket, phase>> /\ steady' \subseteq steady
  BY DEF ListFault, Scanning, envVars, Taken
<1>3. ASSUME NEW c \in steady' PROVE c[1] # k
  <2>1. c[1] = k => c[2] = None
    BY <1>3 DEF ListFault, Taken
  <2>2. c[2] # None
    BY <1>2, ClaimIs DEF LInv
  <2> QED
    BY <2>1, <2>2
<1> HIDE DEF w
<1> QED
  BY <1>1, <1>2, <1>3, SeenMove

\* The classify loop resolves it to the identity of the claims that stay.
LEMMA SeenClassifyAs ==
    ASSUME TInv, LInv, NEW k \in Path, NEW e \in Key, ClassifyKey(k, e),
           steady' \subseteq steady,
           \A c \in steady' : c[1] = k => Dims[e] = c[2]
    PROVE  LInv'
<1>1. e # None
  BY NoneAssumption
<1>2. work[k] \in Progress
  BY DEF TInv, TypeOK
<1>3. phase = "scan" /\ UNCHANGED <<bucket, phase>> /\ steady' \subseteq steady
  BY DEF ClassifyKey, Scanning, envVars
<1>4. \A c \in steady' : c[1] = k => Dims[e] = c[2] /\ Dims[e] # None
  BY ClaimIs DEF LInv
<1>5. CASE Dims[e] = None
  <2> DEFINE w == [work[k] EXCEPT !.at = "unparseable"]
  <2>1. work' = [work EXCEPT ![k] = w]
    BY <1>5 DEF ClassifyKey
  <2> HIDE DEF w
  <2>2. \A c \in steady' : c[1] # k
    BY <1>4, <1>5
  <2> QED
    BY <1>3, <2>1, <2>2, SeenMove
<1>6. CASE Dims[e] # None
  <2> DEFINE a == IF Unchanged(Dims[e], work[k].tok) THEN "skipped" ELSE "queued"
             w == [[work[k] EXCEPT !.at = a] EXCEPT !.eff = e]
  <2>1. work' = [work EXCEPT ![k] = w]
    BY <1>6 DEF ClassifyKey
  <2>2. a # "absent"
    OBVIOUS
  <2> HIDE DEF a
  <2>3. w.at = a /\ w.eff = e
    BY <1>2 DEF Progress
  <2> HIDE DEF w
  <2>4. \A c \in steady' : c[1] = k =>
           /\ w.at # "absent"
           /\ \/ w.at \in {"todo", "listed"}
              \/ w.eff # None /\ Dims[w.eff] = c[2]
    BY <1>1, <1>4, <2>2, <2>3
  <2> QED
    BY <1>3, <2>1, <2>4, SeenMove
<1> QED
  BY <1>5, <1>6

\* With its record read, that is the identity the object stands for ...
LEMMA SeenClassify ==
    ASSUME TInv, LInv, NEW k \in Path, ClassifyKey(k, IntendedKey(bucket, k)),
           UNCHANGED steady
    PROVE  LInv'
<1>1. IntendedKey(bucket, k) \in Key
  BY IntendedKeyType DEF TInv
<1>2. \A c \in steady : c[1] = k => Dims[IntendedKey(bucket, k)] = c[2]
  BY ClaimIs DEF LInv
<1> QED
  BY <1>1, <1>2, SeenClassifyAs

\* ... and with a record that cannot be read, the identity of its path.
LEMMA SeenMisread ==
    ASSUME TInv, LInv, NEW k \in Path, ClassifyFault(k) PROVE LInv'
<1>1. k \in Key /\ ClassifyKey(k, k)
  BY ParamAssumption DEF ClassifyFault
<1>2. steady' \subseteq steady /\ \A c \in steady' : c[1] = k => Dims[k] = c[2]
  BY DEF ClassifyFault, Taken
<1> QED
  BY <1>1, <1>2, SeenClassifyAs

\* Reads, HEADs and writes leave the identity of the object alone.
LEMMA LaterMove ==
    ASSUME TInv, NEW k \in Path,
           \/ ExtractRead(k) \/ ExtractHead(k) \/ ApplyExtract(k)
           \/ ExtractFault(k) \/ HeadFault(k)
    PROVE  /\ phase = "scan" /\ UNCHANGED <<steady, bucket, phase>>
           /\ work[k].at \in {"queued", "doubt", "ready", "error", "vanished"}
           /\ \E w \in Progress :
                 /\ work' = [work EXCEPT ![k] = w]
                 /\ w.eff = work[k].eff
                 /\ w.at \in {"ready", "doubt", "vanished", "error", "done", "gone"}
                 /\ w.at \in {"done", "gone"} => ApplyExtract(k)
<1>1. work[k] \in Progress
  BY DEF TInv, TypeOK
<1>2. /\ phase = "scan" /\ UNCHANGED <<steady, bucket, phase>>
      /\ work[k].at \in {"queued", "doubt", "ready", "error", "vanished"}
  BY DEF ExtractRead, ExtractHead, ApplyExtract, ExtractFault, HeadFault, Scanning,
         envVars
<1>3. CASE ExtractRead(k) /\ CanRead(k)
  <2> DEFINE w == [[work[k] EXCEPT !.at = "ready"] EXCEPT !.ver = bucket[k].ver]
  <2>1. work' = [work EXCEPT ![k] = w]
    BY <1>3 DEF ExtractRead
  <2>2. bucket[k].ver \in Version
    BY <1>3 DEF CanRead, TInv, TypeOK, Object
  <2>3. w \in Progress /\ w.eff = work[k].eff /\ w.at = "ready"
    BY <1>1, <2>2 DEF Progress, At
  <2> HIDE DEF w
  <2> QED
    BY <1>2, <2>1, <2>3
<1>4. CASE ~(ExtractRead(k) /\ CanRead(k))
  <2>1. PICK a \in {"doubt", "vanished", "error", "done", "gone"} :
           /\ work' = [work EXCEPT ![k].at = a]
           /\ a \in {"done", "gone"} => ApplyExtract(k)
    BY <1>4, FaultStage DEF ExtractRead, ExtractHead, ApplyExtract
  <2> DEFINE w == [work[k] EXCEPT !.at = a]
  <2>2. work' = [work EXCEPT ![k] = w]
    BY <2>1
  <2>3. w \in Progress /\ w.eff = work[k].eff /\ w.at = a
    BY <1>1 DEF Progress, At, Final
  <2> HIDE DEF w
  <2> QED
    BY <1>2, <2>1, <2>2, <2>3
<1> QED
  BY <1>3, <1>4

LEMMA SeenLater ==
    ASSUME TInv, LInv, NEW k \in Path,
           \/ ExtractRead(k) \/ ExtractHead(k) \/ ApplyExtract(k)
           \/ ExtractFault(k) \/ HeadFault(k)
    PROVE  LInv'
<1>1. /\ phase = "scan" /\ UNCHANGED <<steady, bucket, phase>>
      /\ work[k].at \in {"queued", "doubt", "ready", "error", "vanished"}
  BY LaterMove
<1>2. PICK w \in Progress :
         /\ work' = [work EXCEPT ![k] = w]
         /\ w.eff = work[k].eff
         /\ w.at \in {"ready", "doubt", "vanished", "error", "done", "gone"}
  BY LaterMove
<1>3. \A c \in steady : c[1] = k =>
         /\ w.at # "absent"
         /\ \/ w.at \in {"todo", "listed"}
            \/ w.eff # None /\ Dims[w.eff] = c[2]
  BY <1>1, <1>2 DEF LInv, Seen
<1>4. /\ phase = "scan" /\ UNCHANGED <<bucket, phase>>
      /\ steady' = steady /\ steady' \subseteq steady
  BY <1>1
<1>5. work' = [work EXCEPT ![k] = w]
  BY <1>2
<1>6. \A c \in steady' : c[1] = k =>
         /\ w.at # "absent"
         /\ \/ w.at \in {"todo", "listed"}
            \/ w.eff # None /\ Dims[w.eff] = c[2]
  BY <1>3, <1>4
<1> QED
  BY <1>4, <1>5, <1>6, SeenMove

LEMMA NextLInv == TInv /\ LInv /\ [Next]_vars => LInv'
<1> SUFFICES ASSUME TInv, LInv, [Next]_vars PROVE LInv'
  OBVIOUS
<1>1. CASE UNCHANGED vars
  BY <1>1, SeenRest DEF vars
<1>2. CASE Edit
  BY <1>2, SeenRest DEF Edit, TagEdit, envVars
<1>3. ASSUME NEW k \in Path, CatalogStep(k) PROVE LInv'
  <2>1. UNCHANGED <<bucket, steady>> /\ phase' # "scan"
    BY <1>3 DEF CatalogStep, CatalogStat, CatalogResolve, CatalogRead, envVars, Finish
  <2> QED
    BY <2>1, SeenRest
<1>4. ASSUME NEW k \in Path, ScanStep(k) PROVE LInv'
  BY <1>4, SeenList, SeenClassify, SeenLater DEF ScanStep
<1>5. ASSUME NEW n \in notes, TakeCatalog(n) \/ TakeDelete(n) PROVE LInv'
  <2>1. UNCHANGED <<bucket, steady>> /\ phase' # "scan"
    BY <1>5 DEF TakeCatalog, TakeDelete, Take
  <2> QED
    BY <2>1, SeenRest
<1>6. CASE StartRescan
  BY <1>6, SeenBegin DEF StartRescan, envVars
<1>7. CASE Sweep \/ Stamp
  <2>1. UNCHANGED bucket /\ steady' \subseteq steady /\ phase' # "scan"
    BY <1>7 DEF Sweep, Stamp, Finish, envVars
  <2> QED
    BY <2>1, SeenRest
<1>8. CASE Worker
  BY <1>3, <1>4, <1>5, <1>6, <1>7, <1>8 DEF Worker
<1>9. CASE Trouble
  <2>1. ASSUME NEW k \in Path, StatFault(k) \/ ResolveFault(k) \/ ReadFault(k)
        PROVE LInv'
    <3>1. UNCHANGED <<bucket, steady>> /\ phase' # "scan"
      BY <2>1 DEF StatFault, ResolveFault, ReadFault, CatalogResolve, Finish, envVars
    <3> QED
      BY <3>1, SeenRest
  <2>2. CASE AbortScan
    <3>1. UNCHANGED bucket /\ steady' \subseteq steady /\ phase' # "scan"
      BY <2>2 DEF AbortScan, Finish, envVars
    <3> QED
      BY <3>1, SeenRest
  <2>3. CASE Crash
    BY <2>3, SeenBegin DEF Crash, envVars
  <2> QED
    BY <1>9, <2>1, <2>2, <2>3, SeenUnlisted, SeenMisread, SeenLater DEF Trouble
<1> QED
  BY <1>1, <1>2, <1>8, <1>9, SeenStorage DEF Next

\* Every claim that still stands is among the identities of the listing.
LEMMA SweepSpares ==
    ASSUME TInv, LInv, Sweep, NEW c \in steady, files[c[2]] # None
    PROVE  files'[c[2]] # None
<1>1. c[1] \in Path /\ c[2] \in Ident
  BY ClaimIs DEF LInv
<1>2. phase = "scan" /\ work[c[1]].at \in Final
  BY <1>1 DEF Sweep, AllApplied
<1>3. Seen(c)
  BY <1>2 DEF LInv
<1>4. work[c[1]].eff # None /\ Dims[work[c[1]].eff] = c[2]
  BY <1>2, <1>3 DEF Seen, Final
<1>5. c[2] \in Present
  BY <1>1, <1>4 DEF Present
<1> QED
  BY <1>1, <1>5 DEF Sweep

\* The sweep of full_reconcile deletes no row whose identity an object has
\* claimed ever since the pass began, on object storage and in a local folder,
\* through failing reads, failing looks, aborted passes and crashes.  Exempt is
\* the object that the pass itself took for gone or for another's: a local file
\* whose stat failed (LocalSource.stat says "gone") or whose s3_key record could
\* not be read (extract_s3_key says "none").
THEOREM NoLiveRowSweptCorrect == Spec => NoLiveRowSwept
<1> DEFINE Spares == Sweep => \A c \in steady : files[c[2]] # None => files'[c[2]] # None
<1>1. Init => LInv
  BY DEF Init, LInv
<1>2. TInv /\ LInv /\ [Next]_vars => LInv'
  BY NextLInv
<1>3. TInv /\ LInv /\ [Next]_vars => [Spares]_vars
  BY SweepSpares
<1> QED
  BY <1>1, <1>2, <1>3, InitTInv, NextTInv, PTL DEF Spec, NoLiveRowSwept

-----------------------------------------------------------------------------
(* The stamp.  As long as nothing has failed, what is skipped or written   *)
(* has its row, and nothing of it is lost before the stamp: whatever takes *)
(* a row away in a pass is a failure or the sweep, which spares it.        *)

HasRow(k) == work[k].eff # None /\ files[Dims[work[k].eff]] # None

HInv == /\ phase = "stamp" => AllApplied
        /\ phase \in {"scan", "stamp"} /\ ~failed =>
              \A k \in Path : /\ work[k].at \notin {"unparseable", "gone"}
                              /\ work[k].at \in {"skipped", "done"} => HasRow(k)

\* One key of the pass moves on; unless the pass has failed, no row goes.
LEMMA RowMove ==
    ASSUME TInv, HInv, NEW k \in Path, NEW w,
           phase = "scan", UNCHANGED phase, failed => failed',
           work' = [work EXCEPT ![k] = w],
           ~failed' => /\ \A i \in Ident : files[i] # None => files'[i] # None
                       /\ w.at \notin {"unparseable", "gone"}
                       /\ w.at \in {"skipped", "done"} =>
                             w.eff # None /\ files'[Dims[w.eff]] # None
    PROVE  HInv'
<1>1. work \in [Path -> Progress]
  BY DEF TInv, TypeOK
<1>2. phase' # "stamp"
  OBVIOUS
<1>3. ASSUME ~failed', NEW j \in Path
      PROVE  /\ work'[j].at \notin {"unparseable", "gone"}
             /\ work'[j].at \in {"skipped", "done"} => HasRow(j)'
  <2>1. CASE j = k
    BY <1>1, <1>3, <2>1 DEF HasRow
  <2>2. CASE j # k
    <3>1. work'[j] = work[j]
      BY <1>1, <2>2
    <3>2. /\ work[j].at \notin {"unparseable", "gone"}
          /\ work[j].at \in {"skipped", "done"} => HasRow(j)
      BY <1>3 DEF HInv
    <3>3. work[j].eff # None => Dims[work[j].eff] \in Ident
      BY ParamAssumption DEF TInv, WorkReady, TypeOK, Progress
    <3> QED
      BY <1>3, <3>1, <3>2, <3>3 DEF HasRow
  <2> QED
    BY <2>1, <2>2
<1> QED
  BY <1>2, <1>3 DEF HInv

\* A pass begins with everything to do; outside a pass there is nothing to say.
LEMMA RowReset ==
    ASSUME \/ phase' \in {"idle", "one"}
           \/ phase' = "scan" /\ work' = AllToDo
    PROVE  HInv'
BY DEF HInv, AllToDo, Untouched

LEMMA RowRest ==
    ASSUME HInv, UNCHANGED <<files, phase, work, failed>> PROVE HInv'
BY DEF HInv, HasRow, AllApplied

\* A write adds a row and takes none.
LEMMA WriteRowAdds ==
    ASSUME TypeOK, NEW d \in Ident, NEW e \in Key, NEW k \in Path,
           NEW tok \in Token, NEW ver \in Version, WriteRow(d, e, k, tok, ver)
    PROVE  files'[d] # None /\ \A i \in Ident : files[i] # None => files'[i] # None
<1> DEFINE r == [tok |-> tok, ver |-> ver, src |-> k,
                 ovr |-> IF files[d] = None THEN None ELSE files[d].ovr]
<1>1. files' = [files EXCEPT ![d] = r]
  BY DEF WriteRow
<1>2. (IF files[d] = None THEN None ELSE files[d].ovr) \in Tag \cup {None}
  BY DEF TypeOK, Row
<1>3. r \in Row
  BY <1>2 DEF Row
<1>4. r # None
  BY <1>3, NoneAssumption
<1> HIDE DEF r
<1> QED
  BY <1>1, <1>4 DEF TypeOK

LEMMA RowList ==
    ASSUME TInv, HInv, NEW k \in Path, ListKey(k) PROVE HInv'
<1> DEFINE w == IF bucket[k] = None THEN [work[k] EXCEPT !.at = "absent"]
                ELSE [[work[k] EXCEPT !.at = "listed"] EXCEPT !.tok = bucket[k].tok]
<1>1. work' = [work EXCEPT ![k] = w]
  BY DEF ListKey
<1>2. work[k] \in Progress
  BY DEF TInv, TypeOK
<1>3. w.at \in {"absent", "listed"}
  BY <1>2 DEF Progress
<1>4. phase = "scan" /\ UNCHANGED <<files, failed, phase>>
  BY DEF ListKey, Scanning, dbVars
<1> HIDE DEF w
<1> QED
  BY <1>1, <1>3, <1>4, RowMove

LEMMA RowUnlisted ==
    ASSUME TInv, HInv, NEW k \in Path, ListFault(k) PROVE HInv'
<1> DEFINE w == [work[k] EXCEPT !.at = "absent"]
<1>1. work' = [work EXCEPT ![k] = w]
  BY DEF ListFault
<1>2. w.at = "absent"
  BY DEF TInv, TypeOK, Progress
<1>3. phase = "scan" /\ UNCHANGED <<files, failed, phase>>
  BY DEF ListFault, Scanning, dbVars
<1> HIDE DEF w
<1> QED
  BY <1>1, <1>2, <1>3, RowMove

\* Whatever identity it resolves to, a skipped object has its row.
LEMMA RowClassify ==
    ASSUME TInv, HInv, NEW k \in Path, NEW e \in Key, ClassifyKey(k, e) PROVE HInv'
<1>1. work[k] \in Progress /\ e # None
  BY NoneAssumption DEF TInv, TypeOK
<1>2. phase = "scan" /\ UNCHANGED <<files, phase>> /\ (failed => failed')
  BY DEF ClassifyKey, Scanning
<1>3. CASE Dims[e] = None
  <2> DEFINE w == [work[k] EXCEPT !.at = "unparseable"]
  <2>1. work' = [work EXCEPT ![k] = w] /\ failed'
    BY <1>3 DEF ClassifyKey
  <2> HIDE DEF w
  <2> QED
    BY <1>2, <2>1, RowMove
<1>4. CASE Dims[e] # None
  <2> DEFINE a == IF Unchanged(Dims[e], work[k].tok) THEN "skipped" ELSE "queued"
             w == [[work[k] EXCEPT !.at = a] EXCEPT !.eff = e]
  <2>1. work' = [work EXCEPT ![k] = w]
    BY <1>4 DEF ClassifyKey
  <2>2. a \in {"skipped", "queued"} /\ (a = "skipped" => files[Dims[e]] # None)
    BY DEF Unchanged
  <2> HIDE DEF a
  <2>3. w.at = a /\ w.eff = e
    BY <1>1 DEF Progress
  <2> HIDE DEF w
  <2>4. w.at \notin {"unparseable", "gone"}
    BY <2>2, <2>3
  <2>5. w.at \in {"skipped", "done"} => w.eff # None /\ files'[Dims[w.eff]] # None
    BY <1>1, <1>2, <2>2, <2>3
  <2> QED
    BY <1>2, <2>1, <2>4, <2>5, RowMove
<1> QED
  BY <1>3, <1>4

\* What is applied without a failure has its row.
LEMMA RowLater ==
    ASSUME TInv, HInv, NEW k \in Path,
           \/ ExtractRead(k) \/ ExtractHead(k) \/ ApplyExtract(k)
           \/ ExtractFault(k) \/ HeadFault(k)
    PROVE  HInv'
<1>1. /\ phase = "scan" /\ UNCHANGED phase
      /\ work[k].at \in {"queued", "doubt", "ready", "error", "vanished"}
  BY LaterMove
<1>2. PICK w \in Progress :
         /\ work' = [work EXCEPT ![k] = w]
         /\ w.eff = work[k].eff
         /\ w.at \in {"ready", "doubt", "vanished", "error", "done", "gone"}
         /\ w.at \in {"done", "gone"} => ApplyExtract(k)
  BY LaterMove
<1>3. CASE ApplyExtract(k)
  <2>1. CASE work[k].at = "ready" /\ work[k].ver \in Coherent
    <3>1. /\ work[k].eff \in Key /\ Dims[work[k].eff] \in Ident
          /\ work[k].tok \in Token /\ work[k].ver \in Version
      BY <2>1, QuarantineReady DEF HasEff
    <3>2. WriteRow(Dims[work[k].eff], work[k].eff, k, work[k].tok, work[k].ver)
      BY <1>3, <2>1 DEF ApplyExtract, Apply
    <3>3. /\ files'[Dims[work[k].eff]] # None
          /\ \A i \in Ident : files[i] # None => files'[i] # None
      BY <3>1, <3>2, WriteRowAdds DEF TInv
    <3>4. work[k].eff # None
      BY <3>1, NoneAssumption
    <3>5. failed => failed'
      BY <1>3 DEF ApplyExtract
    <3>6. w.at # "gone"
      <4>1. work' = [work EXCEPT ![k].at = "done"]
        BY <1>3, <2>1 DEF ApplyExtract
      <4>2. work'[k] = w /\ work'[k].at = "done"
        BY <1>2, <4>1 DEF TInv, TypeOK, Progress
      <4> QED
        BY <4>2
    <3>7. w.at \notin {"unparseable", "gone"}
      BY <1>2, <3>6
    <3> QED
      BY <1>1, <1>2, <3>3, <3>4, <3>5, <3>7, RowMove
  <2>2. CASE ~(work[k].at = "ready" /\ work[k].ver \in Coherent)
    <3>1. failed'
      BY <1>3, <2>2 DEF ApplyExtract
    <3> QED
      BY <1>1, <1>2, <3>1, RowMove
  <2> QED
    BY <2>1, <2>2
<1>4. CASE ~ApplyExtract(k)
  <2>1. UNCHANGED <<files, failed>>
    BY <1>4 DEF ExtractRead, ExtractHead, ExtractFault, HeadFault, dbVars
  <2>2. w.at \notin {"unparseable", "gone", "skipped", "done"}
    BY <1>2, <1>4
  <2> QED
    BY <1>1, <1>2, <2>1, <2>2, RowMove
<1> QED
  BY <1>3, <1>4

\* The sweep spares the identities of the listing.
LEMMA RowSweep ==
    ASSUME TInv, HInv, Sweep PROVE HInv'
<1>1. phase = "scan" /\ phase' = "stamp" /\ UNCHANGED <<work, failed>> /\ AllApplied
  BY DEF Sweep
<1>2. AllApplied'
  BY <1>1 DEF AllApplied
<1>3. ASSUME NEW k \in Path, HasRow(k) PROVE HasRow(k)'
  <2>1. Dims[work[k].eff] \in Ident /\ Dims[work[k].eff] \in Present
    BY <1>3, ParamAssumption DEF HasRow, Present, TInv, WorkReady, TypeOK, Progress
  <2>2. files'[Dims[work[k].eff]] = files[Dims[work[k].eff]]
    BY <2>1 DEF Sweep
  <2> QED
    BY <1>1, <1>3, <2>2 DEF HasRow
<1> QED
  BY <1>1, <1>2, <1>3 DEF HInv

LEMMA NextHInv == TInv /\ HInv /\ [Next]_vars => HInv'
<1> SUFFICES ASSUME TInv, HInv, [Next]_vars PROVE HInv'
  OBVIOUS
<1>1. CASE UNCHANGED vars
  BY <1>1, RowRest DEF vars
<1>2. CASE Storage
  <2>1. UNCHANGED <<files, phase, work, failed>>
    BY <1>2 DEF Storage, Put, Remove, Lose, dbVars
  <2> QED
    BY <2>1, RowRest
<1>3. CASE Edit
  <2>1. phase' = "idle"
    BY <1>3 DEF Edit, TagEdit
  <2> QED
    BY <2>1, RowReset
<1>4. ASSUME NEW k \in Path,
             CatalogStep(k) \/ StatFault(k) \/ ResolveFault(k) \/ ReadFault(k)
      PROVE HInv'
  <2>1. phase' \in {"idle", "one"}
    BY <1>4 DEF CatalogStep, CatalogStat, CatalogResolve, CatalogRead, StatFault,
                ResolveFault, ReadFault, Finish
  <2> QED
    BY <2>1, RowReset
<1>5. ASSUME NEW k \in Path, ScanStep(k) \/ ClassifyFault(k) PROVE HInv'
  <2>1. IntendedKey(bucket, k) \in Key /\ k \in Key
    BY IntendedKeyType, ParamAssumption DEF TInv
  <2> QED
    BY <1>5, <2>1, RowList, RowClassify, RowLater DEF ScanStep, ClassifyFault
<1>6. ASSUME NEW n \in notes, TakeCatalog(n) \/ TakeDelete(n) PROVE HInv'
  <2>1. phase' \in {"idle", "one"}
    BY <1>6 DEF TakeCatalog, TakeDelete, Take
  <2> QED
    BY <2>1, RowReset
<1>7. CASE StartRescan \/ Stamp \/ AbortScan \/ Crash
  BY <1>7, RowReset DEF StartRescan, Stamp, AbortScan, Crash, BeginScan, Finish
<1>8. CASE Worker
  BY <1>4, <1>5, <1>6, <1>7, <1>8, RowSweep DEF Worker
<1>9. CASE Trouble
  BY <1>4, <1>5, <1>7, <1>9, RowUnlisted, RowLater DEF Trouble
<1> QED
  BY <1>1, <1>2, <1>3, <1>8, <1>9 DEF Next

\* A pass that record_build stamps "ok" left a row for every object it
\* listed, with or without s3_key records, through any faults and crashes.
THEOREM OutcomeHonestCorrect == Spec => OutcomeHonest
<1> DEFINE Honest == (Stamp /\ build' = "ok") =>
                        \A k \in Path : work[k].at # "absent" =>
                           work[k].eff # None /\ files[Dims[work[k].eff]] # None
<1>1. Init => HInv
  BY DEF Init, HInv, AllToDo, Untouched
<1>2. TInv /\ HInv /\ [Next]_vars => HInv'
  BY NextHInv
<1>3. HInv => Honest
  <2> SUFFICES ASSUME HInv, Stamp, build' = "ok", NEW k \in Path, work[k].at # "absent"
               PROVE  HasRow(k)
    BY DEF HasRow
  <2>1. phase = "stamp" /\ ~failed
    BY DEF Stamp
  <2>2. work[k].at \in Final
    BY <2>1 DEF HInv, AllApplied
  <2>3. work[k].at \in {"skipped", "done"}
    BY <2>1, <2>2 DEF HInv, Final
  <2> QED
    BY <2>1, <2>3 DEF HInv
<1> QED
  BY <1>1, <1>2, <1>3, InitTInv, NextTInv, PTL DEF Spec, OutcomeHonest

=============================================================================

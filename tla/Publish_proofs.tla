--------------------------- MODULE Publish_proofs ----------------------------
(***************************************************************************)
(* Theorems about Publish, for any recordings and connections, any number  *)
(* of builds, attempts, failures and deaths.                               *)
(***************************************************************************)
EXTENDS Publish, TLAPS

\* A temp build is under way; its database is open, or closed.
Filling == {"opened", "seeded", "returned", "carried"}
Gated   == {"closed", "ready"}

(* The build under way is of a generation nobody has seen; its -wal goes   *)
(* into its main file before the gate, complete and stamped.               *)
TempInv ==
    /\ pc \in Filling \cup Gated =>
          /\ temp # None /\ temp.main.gen = gens /\ gens \in Gen /\ served # gens
          /\ \A r \in Reader : reader[r] # None => reader[r].gen # gens
    /\ pc \in Filling => temp.log \in Content /\ temp.log.gen = gens
    /\ pc = "carried" => temp.log.stamp = "built"
    /\ pc \in Gated => temp.main.stamp = "built"

\* Generations are numbered as their builds begin.
GenInv ==
    /\ served # None => served <= gens
    /\ \A r \in Reader : reader[r] # None => reader[r].gen <= gens

(* The frames beside the served file are its own, are stamped, and come    *)
(* after what the main file holds; a connection that lost their path still *)
(* has frames of its own file.                                             *)
FramesInv ==
    served # None =>
      /\ HasFrames(wal) => /\ wal.gen = served /\ wal.stamp = "built"
                           /\ main[served].build <= wal.build
      /\ \A r \in Reader :
           reader[r] # None /\ reader[r].gen = served /\ ~reader[r].attached
             /\ HasFrames(reader[r].log) => reader[r].log.gen = served

\* Around the rename there are no frames at the served path.
SwapInv ==
    /\ pc \in {"ready", "replaced"} => ~HasFrames(wal)
    /\ pc = "running" => Readable

\* What the build has taken from the old catalog so far.
Done == IF pc \in Filling THEN temp.log ELSE temp.main
SeedInv ==
    /\ pc \in {"down", "opened", "swept", "running"} => job = NoJob
    /\ pc \in Filling \ {"carried"} => ~job.kept
    /\ pc \in Filling => ~job.garbage
    /\ pc \in Filling \cup Gated /\ served # None /\ job.floor # None =>
          /\ Shown.build <= job.floor
          /\ Done.stamp = "built" => job.floor < Done.build
    /\ pc = "seeded" /\ job.floor # None => temp.log.build = job.floor
    /\ pc \in {"opened", "seeded"} => temp.log.stamp # "built"
    /\ pc \in {"carried"} \cup Gated /\ served # None /\ job.kept /\ ~job.garbage =>
          Shown.tags \cap Done.files \subseteq Done.tags

IInv == TypeOK /\ TempInv /\ GenInv /\ FramesInv /\ SwapInv /\ SeedInv /\ ServedFinished

-----------------------------------------------------------------------------
(* Contents and what is shown.                                             *)

LEMMA ContentShape ==
    ASSUME NEW c \in Content
    PROVE  /\ c = [gen |-> c.gen, stamp |-> c.stamp, build |-> c.build, files |-> c.files,
                   tags |-> c.tags]
           /\ c.gen \in Gen /\ c.stamp \in {"none", "seeded", "built", "garbage"}
           /\ c.build \in 0..MaxBuildId /\ c.files \in SUBSET File /\ c.tags \in SUBSET File
           /\ HasFrames(c)
BY MarkAssumption DEF Content, HasFrames

LEMMA ContentMade ==
    ASSUME NEW g \in Gen, NEW s \in {"none", "seeded", "built", "garbage"},
           NEW b \in 0..MaxBuildId, NEW fs \in SUBSET File, NEW ts \in SUBSET File
    PROVE  [gen |-> g, stamp |-> s, build |-> b, files |-> fs, tags |-> ts] \in Content
BY DEF Content

\* What a commit of a build makes of a content.
LEMMA Recorded ==
    ASSUME NEW g, NEW st, NEW b, NEW fs0, NEW ts, NEW fs, NEW db,
           db = [gen |-> g, stamp |-> st, build |-> b, files |-> fs0, tags |-> ts]
    PROVE  RecordBuild(db, fs) =
              [gen |-> g, stamp |-> "built", build |-> b + 1, files |-> fs, tags |-> ts \cap fs]
<1>1. PICK d1 : d1 = [db EXCEPT !.stamp = "built"]
  OBVIOUS
<1>2. PICK d2 : d2 = [d1 EXCEPT !.build = b + 1]
  OBVIOUS
<1>3. PICK d3 : d3 = [d2 EXCEPT !.files = fs]
  OBVIOUS
<1>4. PICK d4 : d4 = [d3 EXCEPT !.tags = ts \cap fs]
  OBVIOUS
<1>5. RecordBuild(db, fs) = d4
  BY <1>1, <1>2, <1>3, <1>4 DEF RecordBuild
<1>6. d1 = [gen |-> g, stamp |-> "built", build |-> b, files |-> fs0, tags |-> ts]
  BY <1>1
<1>7. d2 = [gen |-> g, stamp |-> "built", build |-> b + 1, files |-> fs0, tags |-> ts]
  BY <1>2, <1>6
<1>8. d3 = [gen |-> g, stamp |-> "built", build |-> b + 1, files |-> fs, tags |-> ts]
  BY <1>3, <1>7
<1> QED
  BY <1>4, <1>5, <1>8

LEMMA Contents0 == \A g \in Gen : Content0(g) \in Content
BY PublishAssumption DEF Content, Content0

LEMMA FramesAreContent ==
    ASSUME NEW log \in Log
    PROVE  HasFrames(log) <=> log \in Content
BY MarkAssumption DEF Log, HasFrames

LEMMA ShownIsContent == ASSUME TypeOK, served # None PROVE Shown \in Content
<1>1. wal \in Log /\ served \in Gen /\ main \in [Gen -> Content]
  BY DEF TypeOK
<1> QED
  BY <1>1, FramesAreContent DEF Shown

\* Looking at the served path leaves what it shows.
LEMMA LookingLeaves ==
    ASSUME TypeOK, Attaching
    PROVE  wal' \in Log /\ (HasFrames(wal') <=> HasFrames(wal)) /\ (HasFrames(wal) => wal' = wal)
BY DEF TypeOK, Attaching, HasFrames, Log

\* What unlinking the sidecars does to the connections.
LEMMA SidecarsGo ==
    ASSUME TypeOK, RemoveSidecars
    PROVE  /\ wal' = None /\ wal' \in Log /\ ~HasFrames(wal')
           /\ reader' \in [Reader -> Handle \cup {None}]
           /\ \A r \in Reader :
                 /\ reader'[r] # None <=> reader[r] # None
                 /\ reader[r] # None => /\ reader'[r].gen = reader[r].gen
                                        /\ ~reader'[r].attached
                                        /\ reader'[r].log = Seen(r)
<1>1. wal' = None /\ wal' \in Log /\ ~HasFrames(wal')
  BY DEF RemoveSidecars, HasFrames, Log
<1>2. ASSUME NEW r \in Reader
      PROVE  /\ reader'[r] \in Handle \cup {None}
             /\ reader'[r] # None <=> reader[r] # None
             /\ reader[r] # None => /\ reader'[r].gen = reader[r].gen
                                    /\ ~reader'[r].attached
                                    /\ reader'[r].log = Seen(r)
  <2>1. reader[r] \in Handle \cup {None} /\ wal \in Log
    BY DEF TypeOK
  <2>2. reader'[r] = IF Attached(r) THEN [reader[r] EXCEPT !.attached = FALSE, !.log = wal]
                     ELSE reader[r]
    BY DEF RemoveSidecars
  <2>3. CASE reader[r] = None
    BY <2>2, <2>3 DEF Attached
  <2>4. CASE reader[r] \in Handle /\ reader[r].attached
    <3>1. reader'[r] = [gen |-> reader[r].gen, attached |-> FALSE, log |-> wal,
                        reading |-> reader[r].reading]
      BY <2>1, <2>2, <2>4, MarkAssumption DEF Attached, Handle
    <3>2. reader'[r] \in Handle
      BY <2>1, <2>4, <3>1 DEF Handle
    <3>3. reader[r] # None /\ reader'[r] # None
      BY <2>4, <3>2, MarkAssumption
    <3>4. Seen(r) = wal
      BY <2>4 DEF Seen
    <3>5. reader'[r].gen = reader[r].gen /\ reader'[r].attached = FALSE /\ reader'[r].log = wal
      BY <3>1
    <3> QED
      BY <3>2, <3>3, <3>4, <3>5
  <2>5. CASE reader[r] \in Handle /\ ~reader[r].attached
    BY <2>2, <2>5, MarkAssumption DEF Attached, Seen
  <2> QED
    BY <2>1, <2>3, <2>4, <2>5 DEF Handle
<1>3. reader' \in [Reader -> Handle \cup {None}]
  BY <1>2 DEF RemoveSidecars
<1> QED
  BY <1>1, <1>2, <1>3

-----------------------------------------------------------------------------
LEMMA InitIInv == Init => IInv
<1> SUFFICES ASSUME Init PROVE IInv
  OBVIOUS
<1>1. TypeOK
  BY Contents0, PublishAssumption DEF Init, TypeOK, Log, Phase, NoJob
<1>2. TempInv /\ GenInv /\ FramesInv /\ SwapInv /\ ServedFinished
  BY DEF Init, TempInv, Filling, Gated, GenInv, FramesInv, SwapInv, ServedFinished
<1>3. SeedInv
  BY DEF Init, SeedInv, Filling, Gated, NoJob
<1> QED
  BY <1>1, <1>2, <1>3 DEF IInv

LEMMA UnchangedIInv == IInv /\ UNCHANGED vars => IInv'
BY DEF IInv, vars, TypeOK, TempInv, GenInv, FramesInv, SwapInv, SeedInv, ServedFinished,
       Done, Shown, Readable, Sound

-----------------------------------------------------------------------------
(* The steps of the temp build, which touch nothing of the served file but *)
(* an absent -wal that a look at it creates.                               *)

LEMMA QuietStep ==
    ASSUME IInv, UNCHANGED <<served, main, reader>>, gens' \in {gens, gens + 1},
           Attaching \/ UNCHANGED wal
    PROVE  /\ GenInv' /\ FramesInv' /\ ServedFinished'
           /\ wal' \in Log /\ (HasFrames(wal') <=> HasFrames(wal))
           /\ Shown' = Shown /\ (Readable' <=> Readable)
<1>1. wal' \in Log /\ (HasFrames(wal') <=> HasFrames(wal)) /\ (HasFrames(wal) => wal' = wal)
  BY LookingLeaves DEF IInv, TypeOK
<1>2. gens \in Nat /\ (served # None => served \in Nat)
      /\ \A r \in Reader : reader[r] # None => reader[r].gen \in Nat
  BY PublishAssumption DEF IInv, TypeOK, Gen, Handle
<1>3. GenInv'
  BY <1>2 DEF IInv, GenInv
<1>4. FramesInv'
  BY <1>1 DEF IInv, FramesInv
<1>5. Shown' = Shown /\ (Readable' <=> Readable)
  BY <1>1 DEF Shown, Readable, Sound
<1> QED
  BY <1>1, <1>3, <1>4, <1>5 DEF IInv, ServedFinished

LEMMA FaultCounted == ASSUME TypeOK, Fault \/ NoFault PROVE faults' \in 0..MaxFaults
BY PublishAssumption DEF TypeOK, Fault, NoFault

LEMMA AbortStep == ASSUME IInv, Abort, Fault \/ NoFault PROVE IInv'
<1>1. /\ temp' = None /\ pc' = "down" /\ job' = NoJob
      /\ UNCHANGED <<served, main, wal, reader, gens>>
  BY DEF Abort
<1>2. GenInv' /\ FramesInv' /\ ServedFinished'
  BY <1>1, QuietStep
<1>3. TypeOK'
  BY <1>1, FaultCounted, PublishAssumption DEF IInv, TypeOK, NoJob, Phase
<1>4. TempInv' /\ SwapInv' /\ SeedInv'
  BY <1>1 DEF TempInv, SwapInv, SeedInv, Filling, Gated
<1> QED
  BY <1>2, <1>3, <1>4 DEF IInv

LEMMA OpenTempStep == ASSUME IInv, OpenTemp PROVE IInv'
<1>1. /\ pc = "down" /\ gens' = gens + 1 /\ gens < MaxGen /\ pc' = "opened"
      /\ temp' = [main |-> Content0(gens + 1), log |-> Content0(gens + 1)]
      /\ UNCHANGED <<served, main, wal, reader, job, faults>>
  BY DEF OpenTemp, NoFault
<1>2. GenInv' /\ FramesInv' /\ ServedFinished'
  BY <1>1, QuietStep
<1>3. gens + 1 \in Gen /\ gens + 1 \in 0..MaxGen /\ gens \in Nat
  BY <1>1, PublishAssumption DEF IInv, TypeOK, Gen
<1>4. Content0(gens + 1) \in Content /\ Content0(gens + 1).gen = gens + 1
      /\ Content0(gens + 1).stamp = "none"
  BY <1>3, Contents0 DEF Content0
<1>5. temp' \in [main : Content, log : Log] /\ temp' # None
  BY <1>1, <1>4, MarkAssumption DEF Log
<1>6. TypeOK'
  BY <1>1, <1>3, <1>5 DEF IInv, TypeOK, Phase
<1>7. TempInv'
  <2>1. served # gens + 1 /\ \A r \in Reader : reader[r] # None => reader[r].gen # gens + 1
    BY <1>3, MarkAssumption DEF IInv, GenInv, Gen, TypeOK, Handle
  <2>2. temp'.main = Content0(gens + 1) /\ temp'.log = Content0(gens + 1)
    BY <1>1
  <2> QED
    BY <1>1, <1>3, <1>4, <1>5, <2>1, <2>2 DEF TempInv, Filling, Gated
<1>8. SwapInv' /\ SeedInv'
  <2>1. temp'.log.stamp = "none"
    BY <1>1, <1>4
  <2> QED
    BY <1>1, <2>1 DEF IInv, SwapInv, SeedInv, Filling, Gated, NoJob, Done
<1> QED
  BY <1>2, <1>6, <1>7, <1>8 DEF IInv

\* The database of a temp build that is open.
LEMMA TempOpen ==
    ASSUME IInv, pc \in Filling
    PROVE  /\ temp = [main |-> temp.main, log |-> temp.log] /\ temp # None
           /\ temp.main \in Content /\ temp.log \in Content
           /\ temp.main.gen = gens /\ temp.log.gen = gens /\ gens \in Gen
           /\ HasFrames(temp.log) /\ Building = temp.log
<1>1. temp \in [main : Content, log : Log] /\ temp # None /\ temp.log \in Content
      /\ temp.main.gen = gens /\ temp.log.gen = gens /\ gens \in Gen
  BY DEF IInv, TypeOK, TempInv
<1>2. HasFrames(temp.log)
  BY <1>1, ContentShape
<1> QED
  BY <1>1, <1>2 DEF Building

LEMMA Looked ==
    ASSUME IInv, NEW ok \in BOOLEAN, LookAtOld(ok), UNCHANGED <<served, main, reader, gens>>
    PROVE  /\ GenInv' /\ FramesInv' /\ ServedFinished'
           /\ wal' \in Log /\ (HasFrames(wal') <=> HasFrames(wal))
           /\ Shown' = Shown /\ (Readable' <=> Readable)
           /\ faults' \in 0..MaxFaults
           /\ ok => Readable
<1>1. (Attaching \/ UNCHANGED wal) /\ (Fault \/ NoFault) /\ (ok => Readable)
  BY DEF LookAtOld
<1>2. gens' \in {gens, gens + 1}
  OBVIOUS
<1>3. faults' \in 0..MaxFaults
  BY <1>1, FaultCounted DEF IInv
<1> QED
  BY <1>1, <1>2, <1>3, QuietStep

(* The build goes on: its database is written, nothing else is.            *)
LEMMA BuildGoesOn ==
    ASSUME IInv, pc \in Filling, pc' \in Filling, NEW c \in Content, c.gen = gens,
           temp' = [temp EXCEPT !.log = c],
           UNCHANGED <<served, reader, gens>>
    PROVE  /\ temp' \in [main : Content, log : Log] /\ temp'.log = c
           /\ (pc' = "carried" => c.stamp = "built") => TempInv'
<1>1. temp' = [main |-> temp.main, log |-> c] /\ temp.main \in Content /\ c \in Log
      /\ temp.main.gen = gens
  BY TempOpen DEF Log
<1>2. temp' \in [main : Content, log : Log] /\ temp'.log = c /\ temp'.main = temp.main
  BY <1>1
<1>3. temp' # None
  BY <1>2, MarkAssumption
<1>4. pc' \notin Gated
  BY DEF Filling, Gated
<1> QED
  BY <1>1, <1>2, <1>3, <1>4 DEF IInv, TempInv

LEMMA SeedStep == ASSUME IInv, Seed PROVE IInv'
<1>1. pc = "opened" /\ pc' = "seeded" /\ UNCHANGED <<served, main, reader, gens>>
      /\ pc \in Filling /\ pc' \in Filling
  BY DEF Seed, Filling
<1>2. job = NoJob /\ temp.log.stamp # "built" /\ Content \subseteq Log
  BY <1>1 DEF IInv, SeedInv, Log
<1>3. PICK ok \in BOOLEAN :
         /\ LookAtOld(ok)
         /\ \/ /\ ok /\ job' = [job EXCEPT !.floor = Shown.build]
               /\ temp' = [temp EXCEPT !.log.stamp = "seeded", !.log.build = Shown.build]
            \/ ~ok /\ UNCHANGED <<job, temp>>
  BY DEF Seed
<1>4. /\ GenInv' /\ FramesInv' /\ ServedFinished' /\ wal' \in Log
      /\ Shown' = Shown /\ faults' \in 0..MaxFaults /\ (ok => Readable)
  BY <1>1, <1>3, Looked
<1>5. CASE ok
  <2>1. Shown \in Content /\ Shown.build \in 0..MaxBuildId
    BY <1>4, <1>5, ShownIsContent, ContentShape DEF IInv, Readable
  <2>b. PICK b, old : b = temp.log /\ old = Shown.build
    OBVIOUS
  <2>m. PICK stamped : stamped = [b EXCEPT !.stamp = "seeded"]
    OBVIOUS
  <2>2. PICK c : c = [stamped EXCEPT !.build = old]
    OBVIOUS
  <2>3. /\ c = [gen |-> gens, stamp |-> "seeded", build |-> Shown.build,
                files |-> b.files, tags |-> b.tags]
        /\ b \in Content /\ gens \in Gen
    <3>1. /\ b = [gen |-> gens, stamp |-> b.stamp, build |-> b.build, files |-> b.files,
                  tags |-> b.tags]
          /\ b \in Content /\ gens \in Gen
      BY <1>1, <2>b, TempOpen, ContentShape
    <3>2. stamped = [gen |-> gens, stamp |-> "seeded", build |-> b.build,
                     files |-> b.files, tags |-> b.tags]
      BY <2>m, <3>1
    <3>3. c = [gen |-> gens, stamp |-> "seeded", build |-> old,
               files |-> b.files, tags |-> b.tags]
      BY <2>2, <3>2
    <3> QED
      BY <2>b, <3>1, <3>3
  <2>4. c \in Content
    BY <2>1, <2>3, ContentShape, ContentMade
  <2>5. temp' = [temp EXCEPT !.log = c]
    BY <1>1, <1>3, <1>5, <2>b, <2>m, <2>2, TempOpen
  <2>6. temp' \in [main : Content, log : Log] /\ temp'.log = c /\ TempInv'
    BY <1>1, <2>3, <2>4, <2>5, BuildGoesOn
  <2>7. job' = [floor |-> Shown.build, kept |-> FALSE, leaked |-> FALSE, garbage |-> FALSE,
                tries |-> 0]
    <3>1. job' = [job EXCEPT !.floor = Shown.build]
      BY <1>3, <1>5
    <3> QED
      BY <1>2, <3>1 DEF NoJob
  <2>8. TypeOK'
    BY <1>1, <1>4, <2>1, <2>6, <2>7, PublishAssumption DEF IInv, TypeOK, Phase
  <2>9. SeedInv'
    BY <1>1, <1>4, <2>1, <2>3, <2>6, <2>7 DEF SeedInv, Done, Filling, Gated, NoJob
  <2> QED
    BY <1>1, <1>4, <2>6, <2>8, <2>9 DEF IInv, SwapInv
<1>6. CASE ~ok
  <2>1. UNCHANGED <<job, temp>>
    BY <1>3, <1>6
  <2>2. TypeOK' /\ TempInv'
    BY <1>1, <1>4, <2>1 DEF IInv, TypeOK, TempInv, Phase, Filling, Gated
  <2>3. SeedInv'
    BY <1>1, <1>2, <2>1 DEF SeedInv, Done, Filling, Gated, NoJob
  <2> QED
    BY <1>1, <1>4, <2>2, <2>3 DEF IInv, SwapInv
<1> QED
  BY <1>5, <1>6

LEMMA BuildStep == ASSUME IInv, Build PROVE IInv'
<1>1. pc = "seeded" /\ pc' = "returned" /\ UNCHANGED <<served, main, wal, reader, gens>>
      /\ pc \in Filling /\ pc' \in Filling /\ Building.build < MaxBuildId
  BY DEF Build, Filling
<1>2. PICK fs \in SUBSET File, stamped \in BOOLEAN, leaks \in BOOLEAN :
         /\ temp' = [temp EXCEPT !.log = IF stamped THEN RecordBuild(@, fs)
                                         ELSE [@ EXCEPT !.files = fs]]
         /\ job' = [job EXCEPT !.leaked = leaks]
         /\ Fault \/ NoFault
  BY DEF Build
<1>3. PICK c : c = IF stamped THEN RecordBuild(temp.log, fs) ELSE [temp.log EXCEPT !.files = fs]
  OBVIOUS
<1>4. PICK b : b = temp.log
  OBVIOUS
<1>5. /\ b = [gen |-> b.gen, stamp |-> b.stamp, build |-> b.build, files |-> b.files,
              tags |-> b.tags]
      /\ b \in Content /\ b.gen = gens /\ gens \in Gen /\ b.build \in Nat /\ b.build < MaxBuildId
      /\ b.stamp \in {"none", "seeded", "built", "garbage"} /\ b.build \in 0..MaxBuildId
      /\ b.files \in SUBSET File /\ b.tags \in SUBSET File
  BY <1>1, <1>4, TempOpen, ContentShape
<1>6. c = [gen |-> gens, stamp |-> IF stamped THEN "built" ELSE b.stamp,
           build |-> IF stamped THEN b.build + 1 ELSE b.build, files |-> fs,
           tags |-> IF stamped THEN b.tags \cap fs ELSE b.tags]
  BY <1>3, <1>4, <1>5 DEF RecordBuild
<1>7. c \in Content
  <2>1. (IF stamped THEN "built" ELSE b.stamp) \in {"none", "seeded", "built", "garbage"}
    BY <1>5
  <2>2. (IF stamped THEN b.build + 1 ELSE b.build) \in 0..MaxBuildId
    BY <1>5, PublishAssumption
  <2>3. (IF stamped THEN b.tags \cap fs ELSE b.tags) \in SUBSET File
    BY <1>5
  <2> QED
    BY <1>5, <1>6, <2>1, <2>2, <2>3, ContentMade
<1>8. temp' = [temp EXCEPT !.log = c]
  BY <1>1, <1>2, <1>3, TempOpen
<1>9. temp' \in [main : Content, log : Log] /\ temp'.log = c /\ TempInv'
  BY <1>1, <1>6, <1>7, <1>8, BuildGoesOn
<1>10. GenInv' /\ FramesInv' /\ ServedFinished' /\ Shown' = Shown
  BY <1>1, QuietStep
<1>11. faults' \in 0..MaxFaults
  BY <1>2, FaultCounted DEF IInv
<1>12. TypeOK'
  BY <1>1, <1>2, <1>9, <1>11 DEF IInv, TypeOK, Phase
<1>13. SeedInv'
  <2>1. /\ job'.floor = job.floor /\ job'.kept = job.kept /\ job'.garbage = job.garbage
        /\ ~job.kept /\ ~job.garbage /\ b.stamp # "built"
        /\ served # None /\ job.floor # None => Shown.build <= job.floor /\ b.build = job.floor
    BY <1>1, <1>2, <1>4 DEF IInv, TypeOK, SeedInv, Filling
  <2>2. Done' = c /\ c.stamp = (IF stamped THEN "built" ELSE b.stamp)
        /\ c.build = (IF stamped THEN b.build + 1 ELSE b.build)
    BY <1>1, <1>6, <1>9 DEF Done
  <2> QED
    BY <1>1, <1>5, <1>10, <2>1, <2>2 DEF SeedInv, Filling, Gated
<1> QED
  BY <1>1, <1>9, <1>10, <1>12, <1>13 DEF IInv, SwapInv

LEMMA CarryForwardStep == ASSUME IInv, CarryForward PROVE IInv'
<1>1. pc = "returned" /\ pc' = "carried" /\ UNCHANGED <<served, main, reader, gens>>
      /\ pc \in Filling /\ pc' \in Filling /\ Building.stamp = "built"
  BY DEF CarryForward, Filling
<1>2. temp.log.stamp = "built" /\ ~job.kept /\ ~job.garbage /\ Content \subseteq Log
  BY <1>1, TempOpen DEF IInv, SeedInv, Log
<1>3. PICK ok \in BOOLEAN :
         /\ LookAtOld(ok)
         /\ \/ /\ ok /\ job' = [job EXCEPT !.kept = TRUE]
               /\ temp' = [temp EXCEPT !.log.tags = OldTags \cap Building.files]
            \/ ~ok /\ UNCHANGED <<job, temp>>
  BY DEF CarryForward
<1>4. /\ GenInv' /\ FramesInv' /\ ServedFinished' /\ wal' \in Log
      /\ Shown' = Shown /\ faults' \in 0..MaxFaults /\ (ok => Readable)
  BY <1>1, <1>3, Looked
<1>5. CASE ok
  <2>1. Shown \in Content /\ Shown.tags \in SUBSET File
    BY <1>4, <1>5, ShownIsContent, ContentShape DEF IInv, Readable
  <2>2. PICK b : b = temp.log
    OBVIOUS
  <2>3. /\ b = [gen |-> gens, stamp |-> "built", build |-> b.build, files |-> b.files,
                tags |-> b.tags]
        /\ b.build \in 0..MaxBuildId /\ b.files \in SUBSET File /\ gens \in Gen /\ Building = b
    BY <1>1, <1>2, <2>2, TempOpen, ContentShape
  <2>4. PICK c : c = [b EXCEPT !.tags = Shown.tags \cap b.files]
    OBVIOUS
  <2>5. c = [gen |-> gens, stamp |-> "built", build |-> b.build, files |-> b.files,
             tags |-> Shown.tags \cap b.files]
    BY <2>3, <2>4
  <2>6. c \in Content
    BY <2>3, <2>5, ContentMade
  <2>7. temp' = [temp EXCEPT !.log = c]
    BY <1>1, <1>3, <1>5, <2>2, <2>3, <2>4, TempOpen DEF OldTags
  <2>8. temp' \in [main : Content, log : Log] /\ temp'.log = c /\ TempInv'
    BY <1>1, <2>5, <2>6, <2>7, BuildGoesOn
  <2>9. TypeOK'
    BY <1>1, <1>3, <1>4, <1>5, <2>8 DEF IInv, TypeOK, Phase
  <2>10. SeedInv'
    <3>1. /\ job'.floor = job.floor /\ job'.garbage = job.garbage
          /\ served # None /\ job.floor # None => Shown.build <= job.floor /\ job.floor < b.build
      BY <1>1, <1>2, <1>3, <1>5, <2>2 DEF IInv, TypeOK, SeedInv, Filling, Done
    <3>2. Done' = c
      BY <1>1, <2>8 DEF Done
    <3> QED
      BY <1>1, <1>2, <1>4, <2>5, <3>1, <3>2 DEF SeedInv, Filling, Gated
  <2> QED
    BY <1>1, <1>4, <2>8, <2>9, <2>10 DEF IInv, SwapInv
<1>6. CASE ~ok
  <2>1. UNCHANGED <<job, temp>>
    BY <1>3, <1>6
  <2>2. TypeOK' /\ TempInv'
    BY <1>1, <1>2, <1>4, <2>1 DEF IInv, TypeOK, TempInv, Phase, Filling, Gated
  <2>3. SeedInv'
    BY <1>1, <1>2, <1>4, <2>1 DEF IInv, SeedInv, Done, Filling, Gated, NoJob
  <2> QED
    BY <1>1, <1>4, <2>2, <2>3 DEF IInv, SwapInv
<1> QED
  BY <1>5, <1>6

LEMMA CheckpointTempStep == ASSUME IInv, CheckpointTemp PROVE IInv'
<1>1. /\ pc = "carried" /\ pc' = "closed" /\ temp' = [main |-> temp.log, log |-> None]
      /\ UNCHANGED <<served, main, wal, reader, job, gens, faults>>
      /\ temp.log \in Content /\ temp.log.gen = gens /\ temp.log.stamp = "built"
  BY TempOpen DEF CheckpointTemp, NoFault, Filling, IInv, TempInv
<1>2. temp' \in [main : Content, log : Log] /\ temp'.main = temp.log /\ temp'.log = None
  BY <1>1 DEF Log
<1>3. temp' # None
  BY <1>2, MarkAssumption
<1>4. GenInv' /\ FramesInv' /\ ServedFinished' /\ Shown' = Shown
  BY <1>1, QuietStep
<1>5. TypeOK' /\ TempInv'
  BY <1>1, <1>2, <1>3 DEF IInv, TypeOK, TempInv, Phase, Filling, Gated
<1>6. SeedInv'
  <2>1. Done' = Done
    BY <1>1, <1>2 DEF Done, Filling
  <2> QED
    BY <1>1, <1>4, <2>1 DEF IInv, SeedInv, Filling, Gated
<1> QED
  BY <1>1, <1>4, <1>5, <1>6 DEF IInv, SwapInv

-----------------------------------------------------------------------------
(* The gate and the swap.                                                  *)

\* Frames a connection to the served file sees are the file's own.
LEMMA SeenIsOwn ==
    ASSUME IInv, served # None, NEW r \in Reader, reader[r] # None, reader[r].gen = served,
           HasFrames(Seen(r))
    PROVE  Seen(r).gen = served
BY DEF IInv, FramesInv, Seen

\* What is shown is finished, and no older than the main file.
LEMMA ShownIsFinished ==
    ASSUME IInv, served # None
    PROVE  /\ Shown \in Content /\ Shown.build \in 0..MaxBuildId
           /\ main[served] \in Content /\ main[served].build <= Shown.build
           /\ Shown.stamp \in {"built", "garbage"}
           /\ Sound => Shown.stamp = "built"
<1>1. Shown \in Content /\ main[served] \in Content
  BY ShownIsContent DEF IInv, TypeOK
<1>2. Shown.build \in 0..MaxBuildId /\ main[served].build \in 0..MaxBuildId
  BY <1>1, ContentShape
<1>3. CASE HasFrames(wal)
  BY <1>1, <1>2, <1>3 DEF IInv, FramesInv, Shown
<1>4. CASE ~HasFrames(wal)
  BY <1>1, <1>2, <1>4 DEF IInv, ServedFinished, Shown, Sound
<1> QED
  BY <1>1, <1>2, <1>3, <1>4

\* The frames go into the main file.
LEMMA Moved ==
    ASSUME IInv, served # None, UNCHANGED served, main' = [main EXCEPT ![served] = Shown]
    PROVE  /\ main' \in [Gen -> Content] /\ main'[served] = Shown
           /\ ServedFinished' /\ (~HasFrames(wal') => Shown' = Shown)
<1>1. served \in Gen /\ main \in [Gen -> Content]
  BY DEF IInv, TypeOK
<1>2. main' \in [Gen -> Content] /\ main'[served] = Shown
  BY <1>1, ShownIsFinished
<1>3. ServedFinished'
  BY <1>2, ShownIsFinished DEF ServedFinished
<1>4. ~HasFrames(wal') => Shown' = main'[served']
  BY DEF Shown
<1> QED
  BY <1>2, <1>3, <1>4

\* The sidecars go, with the frames moved before or not.
LEMMA Sweep ==
    ASSUME IInv, RemoveSidecars, UNCHANGED <<served, gens>>,
           \/ main' = main
           \/ served # None /\ main' = [main EXCEPT ![served] = Shown]
    PROVE  /\ GenInv' /\ FramesInv' /\ ServedFinished' /\ main' \in [Gen -> Content]
           /\ wal' \in Log /\ ~HasFrames(wal')
           /\ reader' \in [Reader -> Handle \cup {None}]
           /\ \A r \in Reader : /\ reader'[r] # None <=> reader[r] # None
                                /\ reader[r] # None => reader'[r].gen = reader[r].gen
           /\ served # None => Shown' = main'[served]
<1>1. /\ wal' \in Log /\ ~HasFrames(wal') /\ reader' \in [Reader -> Handle \cup {None}]
      /\ \A r \in Reader :
            /\ reader'[r] # None <=> reader[r] # None
            /\ reader[r] # None => /\ reader'[r].gen = reader[r].gen
                                   /\ ~reader'[r].attached
                                   /\ reader'[r].log = Seen(r)
  BY SidecarsGo DEF IInv
<1>2. GenInv'
  BY <1>1 DEF IInv, GenInv
<1>3. FramesInv'
  BY <1>1, SeenIsOwn DEF FramesInv
<1>4. ServedFinished' /\ main' \in [Gen -> Content]
  BY Moved DEF IInv, ServedFinished, TypeOK
<1>5. Shown' = main'[served']
  BY <1>1 DEF Shown
<1> QED
  BY <1>1, <1>2, <1>3, <1>4, <1>5

LEMMA GateOkStep == ASSUME IInv, GateOk PROVE IInv'
<1>1. /\ pc = "closed" /\ pc' = "ready" /\ served # None
      /\ main' = [main EXCEPT ![served] = Shown]
      /\ UNCHANGED <<served, temp, job, gens, faults>>
      /\ (wal' = Empty /\ UNCHANGED reader) \/ RemoveSidecars
  BY DEF GateOk, Gating, Readable, NoFault
<1>2. /\ GenInv' /\ FramesInv' /\ ServedFinished' /\ main' \in [Gen -> Content]
      /\ wal' \in Log /\ ~HasFrames(wal') /\ reader' \in [Reader -> Handle \cup {None}]
      /\ \A r \in Reader : /\ reader'[r] # None <=> reader[r] # None
                           /\ reader[r] # None => reader'[r].gen = reader[r].gen
  <2>1. CASE RemoveSidecars
    BY <1>1, <2>1, Sweep
  <2>2. CASE wal' = Empty /\ UNCHANGED reader
    <3>1. wal' \in Log /\ ~HasFrames(wal')
      BY <2>2 DEF Log, HasFrames
    <3>2. main' \in [Gen -> Content] /\ ServedFinished'
      BY <1>1, Moved
    <3>3. FramesInv'
      BY <1>1, <2>2, <3>1 DEF IInv, FramesInv
    <3> QED
      BY <1>1, <2>2, <3>1, <3>2, <3>3 DEF IInv, GenInv, TypeOK
  <2> QED
    BY <1>1, <2>1, <2>2
<1>3. Shown' = Shown
  BY <1>1, <1>2, Moved
<1>4. TypeOK'
  BY <1>1, <1>2 DEF IInv, TypeOK, Phase
<1>5. TempInv'
  BY <1>1, <1>2 DEF IInv, TempInv, Filling, Gated
<1>6. SwapInv' /\ SeedInv'
  BY <1>1, <1>2, <1>3 DEF IInv, SwapInv, SeedInv, Filling, Gated, Done
<1> QED
  BY <1>2, <1>4, <1>5, <1>6 DEF IInv

LEMMA GateBusyStep == ASSUME IInv, GateBusy PROVE IInv'
<1>1. /\ pc = "closed" /\ served # None /\ HasFrames(wal) /\ job.tries < MaxTries
      /\ main' \in {main, [main EXCEPT ![served] = Shown]}
      /\ job' = [job EXCEPT !.tries = @ + 1]
      /\ UNCHANGED <<served, wal, temp, reader, pc, gens, faults>>
  BY DEF GateBusy, Gating, Readable, Held, NoFault
<1>2. main' \in [Gen -> Content] /\ ServedFinished'
  BY <1>1, Moved DEF IInv, ServedFinished, TypeOK
<1>3. Shown' = Shown /\ Shown = wal
  BY <1>1 DEF Shown
<1>4. main'[served].build <= wal.build
  <2>1. main[served].build <= wal.build
    BY <1>1 DEF IInv, FramesInv
  <2>2. main' # main => main'[served] = wal
    BY <1>1, <1>3, Moved
  <2>3. wal.build \in Nat
    BY <1>1, <1>3, ShownIsFinished
  <2> QED
    BY <2>1, <2>2, <2>3
<1>5. TypeOK'
  BY <1>1, <1>2, PublishAssumption DEF IInv, TypeOK
<1>6. job'.floor = job.floor /\ job'.kept = job.kept /\ job'.garbage = job.garbage
  BY <1>1 DEF IInv, TypeOK
<1>7. TempInv' /\ GenInv' /\ SwapInv'
  BY <1>1 DEF IInv, TempInv, GenInv, SwapInv, Filling, Gated
<1>8. FramesInv'
  BY <1>1, <1>4 DEF IInv, FramesInv
<1>9. SeedInv'
  BY <1>1, <1>3, <1>6 DEF IInv, SeedInv, Filling, Gated, Done
<1> QED
  BY <1>2, <1>5, <1>7, <1>8, <1>9 DEF IInv

LEMMA GateGarbageStep == ASSUME IInv, GateGarbage PROVE IInv'
<1>1. /\ pc = "closed" /\ pc' = "ready" /\ served # None /\ RemoveSidecars
      /\ job' = [job EXCEPT !.garbage = TRUE] /\ (Fault \/ NoFault)
      /\ UNCHANGED <<served, main, temp, gens>>
  BY DEF GateGarbage
<1>2. /\ GenInv' /\ FramesInv' /\ ServedFinished' /\ main' \in [Gen -> Content]
      /\ wal' \in Log /\ ~HasFrames(wal') /\ reader' \in [Reader -> Handle \cup {None}]
      /\ \A r \in Reader : /\ reader'[r] # None <=> reader[r] # None
                           /\ reader[r] # None => reader'[r].gen = reader[r].gen
      /\ Shown' = main[served]
  BY <1>1, Sweep
<1>3. faults' \in 0..MaxFaults
  BY <1>1, FaultCounted DEF IInv
<1>4. TypeOK'
  BY <1>1, <1>2, <1>3 DEF IInv, TypeOK, Phase
<1>5. job'.floor = job.floor /\ job'.kept = job.kept /\ job'.garbage
  BY <1>1 DEF IInv, TypeOK
<1>6. TempInv' /\ SwapInv'
  BY <1>1, <1>2 DEF IInv, TempInv, SwapInv, Filling, Gated
<1>7. SeedInv'
  <2>1. /\ main[served].build \in Nat /\ Shown.build \in Nat /\ main[served].build <= Shown.build
    BY <1>1, ShownIsFinished, ContentShape
  <2>2. job.floor # None => job.floor \in Nat
    BY DEF IInv, TypeOK
  <2>3. Done' = Done
    BY <1>1 DEF Done, Filling
  <2>4. job.floor # None => Shown.build <= job.floor
                              /\ (Done.stamp = "built" => job.floor < Done.build)
    BY <1>1 DEF IInv, SeedInv, Gated
  <2> QED
    BY <1>1, <1>2, <1>5, <2>1, <2>2, <2>3, <2>4 DEF SeedInv, Filling, Gated
<1> QED
  BY <1>2, <1>4, <1>6, <1>7 DEF IInv

LEMMA ClearOrphansStep == ASSUME IInv, ClearOrphans PROVE IInv'
<1>1. /\ pc = "closed" /\ pc' = "ready" /\ served = None /\ RemoveSidecars
      /\ UNCHANGED <<served, main, temp, job, gens, faults>>
  BY DEF ClearOrphans, NoFault
<1>2. /\ GenInv' /\ FramesInv' /\ ServedFinished' /\ main' \in [Gen -> Content]
      /\ wal' \in Log /\ ~HasFrames(wal') /\ reader' \in [Reader -> Handle \cup {None}]
      /\ \A r \in Reader : /\ reader'[r] # None <=> reader[r] # None
                           /\ reader[r] # None => reader'[r].gen = reader[r].gen
  BY <1>1, Sweep
<1>3. TypeOK'
  BY <1>1, <1>2 DEF IInv, TypeOK, Phase
<1>4. TempInv' /\ SwapInv' /\ SeedInv'
  BY <1>1, <1>2 DEF IInv, TempInv, SwapInv, SeedInv, Filling, Gated
<1> QED
  BY <1>2, <1>3, <1>4 DEF IInv

LEMMA ReplaceStep == ASSUME IInv, Replace PROVE IInv'
<1>1. /\ pc = "ready" /\ pc' = "replaced" /\ temp' = None /\ served' = temp.main.gen
      /\ main' = [main EXCEPT ![temp.main.gen] = temp.main]
      /\ UNCHANGED <<wal, reader, job, gens, faults>>
  BY DEF Replace, NoFault
<1>2. /\ temp.main \in Content /\ temp.main.gen = gens /\ gens \in Gen
      /\ temp.main.stamp = "built" /\ ~HasFrames(wal)
      /\ \A r \in Reader : reader[r] # None => reader[r].gen # gens
  BY <1>1 DEF IInv, TypeOK, TempInv, SwapInv, Gated
<1>3. main' \in [Gen -> Content] /\ main'[gens] = temp.main
  BY <1>1, <1>2 DEF IInv, TypeOK
<1>4. TypeOK'
  BY <1>1, <1>2, <1>3 DEF IInv, TypeOK, Phase
<1>5. GenInv'
  BY <1>1, <1>2, PublishAssumption DEF IInv, GenInv, Gen
<1>6. FramesInv' /\ ServedFinished'
  BY <1>1, <1>2, <1>3 DEF FramesInv, ServedFinished
<1>7. TempInv' /\ SwapInv' /\ SeedInv'
  BY <1>1, <1>2 DEF TempInv, SwapInv, SeedInv, Filling, Gated
<1> QED
  BY <1>4, <1>5, <1>6, <1>7 DEF IInv

LEMMA UnlinkStep == ASSUME IInv, Unlink PROVE IInv'
<1>1. /\ pc = "replaced" /\ pc' = "swept" /\ job' = NoJob /\ RemoveSidecars
      /\ UNCHANGED <<served, main, temp, gens, faults>>
  BY DEF Unlink, NoFault
<1>2. /\ GenInv' /\ FramesInv' /\ ServedFinished' /\ main' \in [Gen -> Content]
      /\ wal' \in Log /\ reader' \in [Reader -> Handle \cup {None}]
  BY <1>1, Sweep
<1>3. TypeOK'
  BY <1>1, <1>2, PublishAssumption DEF IInv, TypeOK, Phase, NoJob
<1>4. TempInv' /\ SwapInv' /\ SeedInv'
  BY <1>1 DEF TempInv, SwapInv, SeedInv, Filling, Gated
<1> QED
  BY <1>2, <1>3, <1>4 DEF IInv

-----------------------------------------------------------------------------
(* The process in place, and what happens between two processes.           *)

\* With no build under way, little has to be known of the writer.
LEMMA NotBuilding ==
    ASSUME IInv, pc' \in {"down", "swept", "running"}, job' = NoJob,
           pc' = "running" => Readable'
    PROVE  TempInv' /\ SwapInv' /\ SeedInv'
BY DEF TempInv, SwapInv, SeedInv, Filling, Gated

LEMMA ExitStep == ASSUME IInv, Exit PROVE IInv'
<1>1. /\ pc' = "down" /\ job' = NoJob /\ UNCHANGED <<served, main, wal, temp, reader, gens, faults>>
  BY DEF Exit, NoFault, IInv, SeedInv
<1>2. GenInv' /\ FramesInv' /\ ServedFinished'
  BY <1>1, QuietStep
<1>3. TypeOK'
  BY <1>1, PublishAssumption DEF IInv, TypeOK, Phase, NoJob
<1> QED
  BY <1>1, <1>2, <1>3, NotBuilding DEF IInv

LEMMA OpenInPlaceStep == ASSUME IInv, OpenInPlace PROVE IInv'
<1>1. /\ pc' = "running" /\ Readable /\ job' = NoJob /\ Attaching
      /\ UNCHANGED <<served, main, temp, reader, gens, faults>>
  BY DEF OpenInPlace, NoFault, IInv, SeedInv
<1>2. GenInv' /\ FramesInv' /\ ServedFinished' /\ wal' \in Log /\ Readable'
  BY <1>1, QuietStep
<1>3. TypeOK'
  BY <1>1, <1>2, PublishAssumption DEF IInv, TypeOK, Phase, NoJob
<1> QED
  BY <1>1, <1>2, <1>3, NotBuilding DEF IInv

LEMMA CommitStep == ASSUME IInv, Commit PROVE IInv'
<1>1. /\ pc = "running" /\ UNCHANGED <<served, main, temp, reader, pc, job, gens, faults>>
      /\ served # None /\ Sound /\ Readable /\ job = NoJob
  BY DEF Commit, NoFault, IInv, SwapInv, SeedInv, Readable
<1>2. PICK old : old = Shown
  OBVIOUS
<1>3. /\ old = [gen |-> old.gen, stamp |-> "built", build |-> old.build, files |-> old.files,
                tags |-> old.tags]
      /\ old.build \in 0..MaxBuildId /\ old.files \in SUBSET File /\ old.tags \in SUBSET File
      /\ served \in Gen /\ main[served].build \in Nat /\ main[served].build <= old.build
  BY <1>1, <1>2, ShownIsFinished, ContentShape DEF IInv, TypeOK
<1>4. /\ wal' \in Content /\ wal'.gen = served /\ wal'.stamp = "built"
      /\ main[served].build <= wal'.build
  <2>1. ASSUME NEW fs \in SUBSET File, old.build < MaxBuildId,
               wal' = [RecordBuild(old, fs) EXCEPT !.gen = served]
        PROVE  /\ wal' \in Content /\ wal'.gen = served /\ wal'.stamp = "built"
               /\ main[served].build <= wal'.build
    <3>1. RecordBuild(old, fs) = [gen |-> old.gen, stamp |-> "built", build |-> old.build + 1,
                                  files |-> fs, tags |-> old.tags \cap fs]
      BY <1>3, Recorded
    <3>2. wal' = [gen |-> served, stamp |-> "built", build |-> old.build + 1,
                  files |-> fs, tags |-> old.tags \cap fs]
      BY <2>1, <3>1
    <3>3. old.build + 1 \in 0..MaxBuildId /\ main[served].build <= old.build + 1
      BY <1>3, <2>1, PublishAssumption
    <3>4. old.tags \cap fs \in SUBSET File
      BY <1>3
    <3> QED
      BY <1>3, <3>2, <3>3, <3>4, ContentMade
  <2>2. ASSUME NEW f \in old.files,
               wal' = [old EXCEPT !.gen = served,
                                  !.tags = IF f \in @ THEN @ \ {f} ELSE @ \cup {f}]
        PROVE  /\ wal' \in Content /\ wal'.gen = served /\ wal'.stamp = "built"
               /\ main[served].build <= wal'.build
    <3>1. PICK tags \in SUBSET File :
             tags = IF f \in old.tags THEN old.tags \ {f} ELSE old.tags \cup {f}
      BY <1>3
    <3>2. PICK mine : mine = [old EXCEPT !.gen = served]
      OBVIOUS
    <3>3. mine = [gen |-> served, stamp |-> "built", build |-> old.build,
                  files |-> old.files, tags |-> old.tags]
      BY <1>3, <3>2
    <3>4. wal' = [mine EXCEPT !.tags = tags]
      BY <1>3, <2>2, <3>1, <3>2
    <3>5. wal' = [gen |-> served, stamp |-> "built", build |-> old.build,
                  files |-> old.files, tags |-> tags]
      BY <3>3, <3>4
    <3> QED
      BY <1>3, <3>5, ContentMade
  <2> QED
    BY <1>2, <2>1, <2>2 DEF Commit
<1>5. TypeOK'
  BY <1>1, <1>4 DEF IInv, TypeOK, Log
<1>6. FramesInv'
  BY <1>1, <1>4 DEF IInv, FramesInv
<1>7. Readable'
  BY <1>1 DEF Readable, Sound
<1>8. TempInv' /\ SwapInv' /\ SeedInv'
  BY <1>1, <1>7, NotBuilding
<1>9. GenInv' /\ ServedFinished'
  BY <1>1 DEF IInv, GenInv, ServedFinished
<1> QED
  BY <1>5, <1>6, <1>8, <1>9 DEF IInv

LEMMA StopStep == ASSUME IInv, Stop PROVE IInv'
<1>1. /\ pc = "running" /\ pc' = "down" /\ CloseServed /\ job' = NoJob /\ served # None
      /\ UNCHANGED <<served, temp, gens, faults>>
  BY DEF Stop, NoFault, IInv, SwapInv, SeedInv, Readable
<1>2. TempInv' /\ SwapInv' /\ SeedInv'
  BY <1>1, NotBuilding
<1>3. CASE UNCHANGED <<main, wal, reader>>
  <2>1. GenInv' /\ FramesInv' /\ ServedFinished'
    BY <1>1, <1>3, QuietStep
  <2>2. TypeOK'
    BY <1>1, <1>3, PublishAssumption DEF IInv, TypeOK, Phase, NoJob
  <2> QED
    BY <1>2, <2>1, <2>2 DEF IInv
<1>4. CASE main' = [main EXCEPT ![served] = Shown] /\ RemoveSidecars
  <2>1. /\ GenInv' /\ FramesInv' /\ ServedFinished' /\ main' \in [Gen -> Content]
        /\ wal' \in Log /\ reader' \in [Reader -> Handle \cup {None}]
    BY <1>1, <1>4, Sweep
  <2>2. TypeOK'
    BY <1>1, <2>1, PublishAssumption DEF IInv, TypeOK, Phase, NoJob
  <2> QED
    BY <1>2, <2>1, <2>2 DEF IInv
<1> QED
  BY <1>1, <1>3, <1>4 DEF CloseServed

LEMMA CrashStep == ASSUME IInv, Crash PROVE IInv'
<1>1. pc' = "down" /\ job' = NoJob /\ Fault /\ UNCHANGED <<served, main, wal, temp, reader, gens>>
  BY DEF Crash
<1>2. GenInv' /\ FramesInv' /\ ServedFinished'
  BY <1>1, QuietStep
<1>3. TypeOK'
  BY <1>1, FaultCounted, PublishAssumption DEF IInv, TypeOK, Phase, NoJob
<1> QED
  BY <1>1, <1>2, <1>3, NotBuilding DEF IInv

LEMMA DeleteMainStep == ASSUME IInv, DeleteMain PROVE IInv'
<1>1. /\ pc = "down" /\ served' = None /\ Fault /\ job = NoJob
      /\ UNCHANGED <<main, wal, temp, reader, pc, job, gens>>
  BY DEF DeleteMain, IInv, SeedInv
<1>2. TypeOK'
  BY <1>1, FaultCounted DEF IInv, TypeOK
<1>3. GenInv' /\ FramesInv' /\ ServedFinished'
  BY <1>1 DEF IInv, GenInv, FramesInv, ServedFinished
<1> QED
  BY <1>1, <1>2, <1>3, NotBuilding DEF IInv

LEMMA SpoilStep == ASSUME IInv, Spoil PROVE IInv'
<1>1. /\ pc = "down" /\ served # None /\ Fault /\ job = NoJob
      /\ main' = [main EXCEPT ![served].stamp = "garbage"]
      /\ UNCHANGED <<served, wal, temp, reader, pc, job, gens>>
  BY DEF Spoil, IInv, SeedInv, Readable
<1>2. PICK old : old = main[served]
  OBVIOUS
<1>3. /\ old = [gen |-> old.gen, stamp |-> old.stamp, build |-> old.build,
                files |-> old.files, tags |-> old.tags]
      /\ old \in Content /\ old.gen \in Gen /\ old.build \in 0..MaxBuildId
      /\ old.files \in SUBSET File /\ old.tags \in SUBSET File
      /\ served \in Gen /\ main \in [Gen -> Content]
  BY <1>1, <1>2, ContentShape DEF IInv, TypeOK
<1>4. PICK spoilt : spoilt = [old EXCEPT !.stamp = "garbage"]
  OBVIOUS
<1>5. spoilt = [gen |-> old.gen, stamp |-> "garbage", build |-> old.build,
                files |-> old.files, tags |-> old.tags]
  BY <1>3, <1>4
<1>6. spoilt \in Content
  BY <1>3, <1>5, ContentMade
<1>7. main' = [main EXCEPT ![served] = spoilt]
  BY <1>1, <1>2, <1>3, <1>4
<1>8. main' \in [Gen -> Content] /\ main'[served] = spoilt
  BY <1>3, <1>6, <1>7
<1>9. TypeOK'
  BY <1>1, <1>8, FaultCounted DEF IInv, TypeOK
<1>10. GenInv' /\ ServedFinished'
  BY <1>1, <1>5, <1>8 DEF IInv, GenInv, ServedFinished
<1>11. FramesInv'
  BY <1>1, <1>2, <1>5, <1>8 DEF IInv, FramesInv
<1> QED
  BY <1>1, <1>9, <1>10, <1>11, NotBuilding DEF IInv

-----------------------------------------------------------------------------
(* Connections of the server.                                              *)

LEMMA ConnectionStep == ASSUME IInv, NEW r \in Reader, Connection(r) PROVE IInv'
<1>1. UNCHANGED <<served, main, temp, pc, job, gens, faults>>
  BY DEF Connection
<1>2. PICK h \in Handle \cup {None} :
         /\ reader' = [reader EXCEPT ![r] = h]
         /\ h # None =>
               /\ served # None /\ h.gen = served /\ h.attached
               \/ /\ reader[r] # None /\ h.gen = reader[r].gen
                  /\ h.attached = reader[r].attached /\ h.log = reader[r].log
  <2>1. CASE Open(r)
    <3>1. PICK h : h = [gen |-> served, attached |-> TRUE, log |-> None, reading |-> FALSE]
      OBVIOUS
    <3>2. served # None /\ served \in Gen
      BY <2>1 DEF Open, Readable, IInv, TypeOK
    <3>3. h \in Handle /\ h.gen = served /\ h.attached
      BY <3>1, <3>2 DEF Handle, Log
    <3>4. reader' = [reader EXCEPT ![r] = h]
      BY <2>1, <3>1 DEF Open
    <3> QED
      BY <3>2, <3>3, <3>4
  <2>2. CASE Query(r)
    <3>1. PICK old : old = reader[r]
      OBVIOUS
    <3>2. old \in Handle /\ old # None
      BY <2>2, <3>1 DEF Query, IInv, TypeOK
    <3>3. PICK h : h = [old EXCEPT !.reading = ~@]
      OBVIOUS
    <3>4. h \in Handle /\ h.gen = old.gen /\ h.attached = old.attached /\ h.log = old.log
      BY <3>2, <3>3 DEF Handle
    <3>5. reader' = [reader EXCEPT ![r] = h]
      BY <2>2, <3>1, <3>3 DEF Query, IInv, TypeOK
    <3> QED
      BY <3>1, <3>2, <3>4, <3>5
  <2>3. CASE Close(r)
    BY <2>3 DEF Close
  <2> QED
    BY <2>1, <2>2, <2>3 DEF Connection
<1>3. /\ wal' \in Log /\ (HasFrames(wal') <=> HasFrames(wal)) /\ (HasFrames(wal) => wal' = wal)
  BY LookingLeaves DEF Connection, Open, Query, Close, IInv, TypeOK
<1>4. Shown' = Shown /\ (Readable' <=> Readable)
  BY <1>1, <1>3 DEF Shown, Readable, Sound
<1>5. /\ reader \in [Reader -> Handle \cup {None}]
      /\ reader' \in [Reader -> Handle \cup {None}] /\ reader'[r] = h
      /\ \A q \in Reader \ {r} : reader'[q] = reader[q]
  BY <1>2 DEF IInv, TypeOK
<1>6. TypeOK'
  BY <1>1, <1>3, <1>5 DEF IInv, TypeOK
<1>7. TempInv' /\ GenInv'
  BY <1>1, <1>2, <1>5 DEF IInv, TempInv, GenInv
<1>8. FramesInv'
  BY <1>1, <1>2, <1>3, <1>5 DEF IInv, FramesInv
<1>9. SwapInv' /\ SeedInv' /\ ServedFinished'
  BY <1>1, <1>3, <1>4 DEF IInv, SwapInv, SeedInv, ServedFinished, Done
<1> QED
  BY <1>6, <1>7, <1>8, <1>9 DEF IInv

-----------------------------------------------------------------------------
\* A step, by what it does to the writer.
LEMMA NextIInv == IInv /\ [Next]_vars => IInv'
<1> SUFFICES ASSUME IInv, [Next]_vars PROVE IInv'
  OBVIOUS
<1>1. CASE BuildAside
  <2>1. CASE Abort /\ (Fault \/ NoFault)
    BY <2>1, AbortStep
  <2>2. (Unstamped \/ BuildFault \/ CheckpointPartial) => Abort /\ (Fault \/ NoFault)
    BY DEF Unstamped, BuildFault, CheckpointPartial
  <2> QED
    BY <1>1, <2>1, <2>2, OpenTempStep, SeedStep, BuildStep, CarryForwardStep, CheckpointTempStep
       DEF BuildAside
<1>2. CASE Swap
  <2>1. GateTimeout => IInv'
    BY AbortStep DEF GateTimeout
  <2> QED
    BY <1>2, <2>1, GateOkStep, GateBusyStep, GateGarbageStep, ClearOrphansStep, ReplaceStep,
       UnlinkStep DEF Swap
<1>3. CASE Daemon
  BY <1>3, ExitStep, OpenInPlaceStep, CommitStep, StopStep, CrashStep, DeleteMainStep, SpoilStep
     DEF Daemon
<1>4. ASSUME NEW r \in Reader, Connection(r) PROVE IInv'
  BY <1>4, ConnectionStep
<1>5. CASE UNCHANGED vars
  BY <1>5, UnchangedIInv
<1> QED
  BY <1>1, <1>2, <1>3, <1>4, <1>5 DEF Next

-----------------------------------------------------------------------------
(* The theorems.                                                           *)

(* A build under way is of a generation nobody has opened, the frames      *)
(* beside the served file are its own and come after it, and what the      *)
(* build took from the old catalog is what that one still shows            *)
(* (publish.py:338-423).                                                   *)
THEOREM Invariance == Spec => []IInv
<1>1. Init => IInv
  BY InitIInv
<1>2. IInv /\ [Next]_vars => IInv'
  BY NextIInv
<1> QED
  BY <1>1, <1>2, PTL DEF Spec

(* The files, the connections and the writer keep their types, build_id    *)
(* its bound included.                                                     *)
THEOREM TypeCorrect == Spec => []TypeOK
<1>1. IInv => TypeOK
  BY DEF IInv
<1> QED
  BY <1>1, Invariance, PTL

(* Whatever a build met, what is served was stamped by a whole build       *)
(* (publish.py step 2, UnstampedBuildError).                               *)
THEOREM ServedFinishedCorrect == Spec => []ServedFinished
<1>1. IInv => ServedFinished
  BY DEF IInv
<1> QED
  BY <1>1, Invariance, PTL

(* No connection to the served file, old or to come, replays the frames of *)
(* another file into it (publish.py steps 3 and 5).                        *)
THEOREM NoStaleReplayCorrect == Spec => []NoStaleReplay
<1>1. IInv => NoStaleReplay
  <2> SUFFICES ASSUME IInv, served # None PROVE NoStaleReplay
    BY DEF NoStaleReplay
  <2>1. HasFrames(wal) => wal.gen = served
    BY DEF IInv, FramesInv
  <2>2. \A r \in Reader :
           reader[r] # None /\ reader[r].gen = served /\ HasFrames(Seen(r))
             => Seen(r).gen = served
    BY SeenIsOwn
  <2> QED
    BY <2>1, <2>2 DEF NoStaleReplay
<1> QED
  BY <1>1, Invariance, PTL

\* Only the rename puts another file at the served path.
LEMMA OnlyReplace ==
    ASSUME IInv, [Next]_vars, served' \notin {served, None}
    PROVE  /\ Replace /\ pc = "ready" /\ Done = temp.main /\ main'[served'] = temp.main
           /\ temp.main \in Content /\ temp.main.stamp = "built"
<1>1. Replace
  BY DEF Next, vars, BuildAside, Swap, Daemon, Connection, OpenTemp, Seed, Build, Unstamped,
         BuildFault, Abort, CarryForward, CheckpointTemp, CheckpointPartial, GateOk, GateBusy,
         GateTimeout, GateGarbage, ClearOrphans, Unlink, Exit, OpenInPlace, Commit, Stop, Crash,
         DeleteMain, Spoil
<1>2. pc = "ready" /\ served' = temp.main.gen /\ main' = [main EXCEPT ![temp.main.gen] = temp.main]
  BY <1>1 DEF Replace
<1>3. temp.main \in Content /\ temp.main.stamp = "built" /\ temp.main.gen \in Gen
  BY <1>2 DEF IInv, TypeOK, TempInv, Gated
<1>4. main'[served'] = temp.main
  BY <1>2, <1>3 DEF IInv, TypeOK
<1>5. Done = temp.main
  BY <1>2 DEF Done, Filling
<1> QED
  BY <1>1, <1>2, <1>3, <1>4, <1>5

LEMMA ShownStays ==
    ASSUME IInv, [Next]_vars, pc \notin {"down", "running"}, served # None, served' = served,
           ~job.garbage, ~job'.garbage
    PROVE  Shown' = Shown
<1>1. CASE UNCHANGED <<served, main, reader, gens>> /\ (Attaching \/ UNCHANGED wal)
  BY <1>1, QuietStep
<1>2. CASE GateOk
  <2>1. main' = [main EXCEPT ![served] = Shown] /\ ~HasFrames(wal')
    BY <1>2 DEF GateOk, RemoveSidecars, HasFrames
  <2> QED
    BY <2>1, Moved
<1>3. CASE GateBusy
  BY <1>3 DEF GateBusy, Held, Shown
<1>4. CASE GateGarbage
  BY <1>4 DEF GateGarbage, IInv, TypeOK
<1>5. CASE Replace
  BY <1>5 DEF Replace, IInv, TempInv, Gated
<1>6. CASE Unlink
  <2>1. Shown' = main'[served] /\ main' = main /\ pc = "replaced"
    BY <1>6, Sweep DEF Unlink
  <2>2. ~HasFrames(wal)
    BY <2>1 DEF IInv, SwapInv
  <2> QED
    BY <2>1, <2>2 DEF Shown
<1>7. CASE BuildAside
  <2>1. UNCHANGED <<served, main, reader, gens>>
    BY <1>7 DEF BuildAside, OpenTemp, Seed, Build, Unstamped, BuildFault, Abort, CarryForward,
                CheckpointTemp, CheckpointPartial
  <2>2. Attaching \/ UNCHANGED wal
    BY <1>7 DEF BuildAside, OpenTemp, Seed, Build, Unstamped, BuildFault, Abort, CarryForward,
                CheckpointTemp, CheckpointPartial, LookAtOld
  <2> QED
    BY <1>1, <2>1, <2>2
<1>8. CASE Swap
  BY <1>1, <1>2, <1>3, <1>4, <1>5, <1>6, <1>8 DEF Swap, GateTimeout, Abort, ClearOrphans
<1>9. CASE Daemon
  BY <1>1, <1>9 DEF Daemon, Exit, OpenInPlace, Commit, Stop, Crash, DeleteMain, Spoil
<1>10. ASSUME NEW r \in Reader, Connection(r) PROVE Shown' = Shown
  <2>1. wal' \in Log /\ (HasFrames(wal') <=> HasFrames(wal)) /\ (HasFrames(wal) => wal' = wal)
    BY <1>10, LookingLeaves DEF Connection, Open, Query, Close, IInv, TypeOK
  <2>2. main' = main
    BY <1>10 DEF Connection
  <2> QED
    BY <2>1, <2>2 DEF Shown
<1>11. CASE UNCHANGED vars
  BY <1>11 DEF vars, Shown
<1> QED
  BY <1>7, <1>8, <1>9, <1>10, <1>11 DEF Next

(* Until it is replaced, the served catalog shows what it showed, whatever *)
(* happens to the publish: "the served DB untouched" (publish.py:310).     *)
THEOREM UntouchedCorrect == Spec => Untouched
<1>1. IInv /\ [Next]_vars =>
         [pc \notin {"down", "running"} /\ served # None /\ served' = served
            /\ ~job.garbage /\ ~job'.garbage => Shown' = Shown]_vars
  BY ShownStays
<1> QED
  BY <1>1, Invariance, PTL DEF Spec, Untouched

(* A publish that could read the old build_id serves a greater one         *)
(* (_seed_build_id_floor).                                                 *)
THEOREM BuildIdGrowsCorrect == Spec => BuildIdGrows
<1>1. IInv /\ [Next]_vars =>
         [served # None /\ served' \notin {served, None} /\ job.floor # None
            => main'[served'].build > Shown.build]_vars
  <2> SUFFICES ASSUME IInv, Next, served # None, served' \notin {served, None}, job.floor # None
               PROVE  main'[served'].build > Shown.build
    OBVIOUS
  <2>1. /\ pc = "ready" /\ Done = temp.main /\ main'[served'] = temp.main
        /\ temp.main \in Content /\ temp.main.stamp = "built"
    BY OnlyReplace
  <2>2. Shown.build <= job.floor /\ job.floor < temp.main.build
    BY <2>1 DEF IInv, SeedInv, Gated
  <2>3. Shown.build \in Nat /\ job.floor \in Nat /\ temp.main.build \in Nat
    BY <2>1, ShownIsFinished, ContentShape DEF IInv, TypeOK
  <2> QED
    BY <2>1, <2>2, <2>3
<1> QED
  BY <1>1, Invariance, PTL DEF Spec, BuildIdGrows

(* A publish that could read the old overrides serves every tag of every   *)
(* file of the new build, those in the -wal included                       *)
(* (_carry_forward_tags_override).                                         *)
THEOREM TagsCarriedCorrect == Spec => TagsCarried
<1>1. IInv /\ [Next]_vars =>
         [served # None /\ served' \notin {served, None} /\ job.kept /\ ~job.garbage
            => Shown.tags \cap main'[served'].files \subseteq main'[served'].tags]_vars
  <2> SUFFICES ASSUME IInv, Next, served # None, served' \notin {served, None},
                      job.kept, ~job.garbage
               PROVE  Shown.tags \cap main'[served'].files \subseteq main'[served'].tags
    OBVIOUS
  <2>1. pc = "ready" /\ Done = temp.main /\ main'[served'] = temp.main
    BY OnlyReplace
  <2> QED
    BY <2>1 DEF IInv, SeedInv, Gated
<1> QED
  BY <1>1, Invariance, PTL DEF Spec, TagsCarried

=============================================================================

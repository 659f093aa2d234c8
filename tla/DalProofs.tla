------------------------------- MODULE DalProofs -------------------------------
(***************************************************************************)
(* Proofs about the DAL, for every value of the constants: MartPipeline,   *)
(* which writes the mart file and reads it back; and DalLayers, what the   *)
(* layers keep of a database, for every database, every cutoff and all     *)
(* window lengths: the sums they form, the club of every row, no look      *)
(* ahead, and a cut that gives back history.                               *)
(***************************************************************************)
EXTENDS MartPipeline, DalLayers, FiniteSums

(* The counters of a run() index no read and no layer beyond the last; and  *)
(* a handle said to write the file at a path has a file there.              *)
Bookkeeping ==
  \A r \in Runners :
    /\ pc[r] = "stage" => job[r].reads < NumEntities
    /\ pc[r] = "build" => job[r].layer < NumLayers
    /\ pc[r] \in {"clean", "hash", "consult"} => job[r].reads = 0
    /\ pc[r] \in {"clean", "hash", "consult", "stage"} => job[r].layer = 0

HandlesNameFiles ==
  \A r \in Runners : /\ handle[r] = "tmp" => tmp # None
                     /\ handle[r] = "mart" => mart # None

TypeInv == TypeOK /\ Bookkeeping /\ HandlesNameFiles

LEMMA NoJobIsJob == NoJob \in Job /\ NoJob.reads = 0 /\ NoJob.layer = 0 /\ NoJob.outcome = "OK"
BY PipelineAssumption DEF NoJob, Job, Calls

LEMMA JobBuildIsBuild ==
  ASSUME TypeOK, NEW r \in Runners, NEW shared \in BOOLEAN
  PROVE  JobBuild(r, shared) \in Build /\ Partial(shared) \in Build
BY DEF JobBuild, Partial, Build, TypeOK, Job, NotGiven

LEMMA TypeInit == Init => TypeInv
<1> SUFFICES ASSUME Init PROVE TypeInv
  OBVIOUS
<1>1. TypeOK
  BY NoJobIsJob DEF Init, TypeOK, RunnerPcs
<1>2. Bookkeeping
  BY DEF Init, Bookkeeping
<1>3. HandlesNameFiles
  BY DEF Init, HandlesNameFiles
<1>4. QED
  BY <1>1, <1>2, <1>3 DEF TypeInv

(* A step keeps every variable in its type. *)
LEMMA TypeStep == TypeInv /\ [Next]_vars => TypeInv'
<1> SUFFICES ASSUME TypeInv, [Next]_vars PROVE TypeInv'
  OBVIOUS
<1> USE PipelineAssumption
<1>1. CASE Ingest
  BY <1>1 DEF Ingest, TypeInv, TypeOK, Bookkeeping, HandlesNameFiles, files, runner, history
<1>2. CASE CodeChange
  BY <1>2 DEF CodeChange, TypeInv, TypeOK, Bookkeeping, HandlesNameFiles, files, runner, history
<1>3. ASSUME NEW r \in Runners, NEW force \in BOOLEAN, NEW call \in Calls, Start(r, force, call)
      PROVE TypeInv'
  <2> DEFINE new == [NoJob EXCEPT !.call = call, !.force = force, !.schema = code]
  <2>1. new \in Job /\ new.reads = 0 /\ new.layer = 0
    BY NoJobIsJob DEF NoJob, Job, TypeInv, TypeOK
  <2>2. job' = [job EXCEPT ![r] = new]
    BY <1>3 DEF Start
  <2> HIDE DEF new
  <2>3. TypeOK'
    BY <1>3, <2>1, <2>2 DEF Start, TypeInv, TypeOK, Goto, RunnerPcs,
                            world, files, history
  <2>4. Bookkeeping'
    BY <1>3, <2>1, <2>2 DEF Start, TypeInv, TypeOK, Bookkeeping, Goto
  <2>5. HandlesNameFiles'
    BY <1>3 DEF Start, TypeInv, HandlesNameFiles, files
  <2>6. QED
    BY <2>3, <2>4, <2>5 DEF TypeInv
<1>4. ASSUME NEW r \in Runners, CleanTmp(r) PROVE TypeInv'
  BY <1>4 DEF CleanTmp, TypeInv, TypeOK, Bookkeeping, HandlesNameFiles, Goto, RunnerPcs,
              world, history
<1>5. ASSUME NEW r \in Runners, HashDb(r) PROVE TypeInv'
  <2> DEFINE new == [job[r] EXCEPT !.hash = db]
  <2>1. new \in Job /\ new.reads = job[r].reads /\ new.layer = job[r].layer
    BY <1>5 DEF Job, TypeInv, TypeOK
  <2>2. job' = [job EXCEPT ![r] = new]
    BY <1>5 DEF HashDb, TypeInv, TypeOK
  <2> HIDE DEF new
  <2>3. TypeOK'
    BY <1>5, <2>1, <2>2 DEF HashDb, TypeInv, TypeOK, Goto, RunnerPcs,
                            world, files, history
  <2>4. Bookkeeping'
    BY <1>5, <2>1, <2>2 DEF HashDb, TypeInv, TypeOK, Bookkeeping, Goto
  <2>5. HandlesNameFiles'
    BY <1>5 DEF HashDb, TypeInv, HandlesNameFiles, files
  <2>6. QED
    BY <2>3, <2>4, <2>5 DEF TypeInv
<1>6. ASSUME NEW r \in Runners, CacheHit(r) PROVE TypeInv'
  BY <1>6 DEF CacheHit, TypeInv, TypeOK, Bookkeeping, HandlesNameFiles, Goto, RunnerPcs,
              world, files, history
<1>7. ASSUME NEW r \in Runners, Return(r) PROVE TypeInv'
  BY <1>7, NoJobIsJob DEF Return, End, TypeInv, TypeOK, Bookkeeping, HandlesNameFiles, Goto, RunnerPcs,
     world, files, history
<1>8. ASSUME NEW r \in Runners, CacheMiss(r) PROVE TypeInv'
  BY <1>8 DEF CacheMiss, TypeInv, TypeOK, Bookkeeping, HandlesNameFiles, Goto, Job, RunnerPcs,
              world, files, history
<1>9. ASSUME NEW r \in Runners, ReadEntity(r) PROVE TypeInv'
  <2> DEFINE lo == IF job[r].reads = 0 THEN db ELSE job[r].lo
             new == [job[r] EXCEPT !.reads = @ + 1, !.lo = lo, !.hi = db]
  <2>1. job[r] \in Job /\ job[r].reads < NumEntities /\ job[r].layer = 0 /\ db \in Nat
    BY <1>9 DEF ReadEntity, TypeInv, TypeOK, Bookkeeping
  <2>2. new \in Job /\ new.reads = job[r].reads + 1 /\ new.layer = 0
    <3>1. lo \in Nat /\ job[r].reads + 1 \in 0..NumEntities
      BY <2>1 DEF Job
    <3> HIDE DEF lo
    <3>2. new \in Job
      BY <2>1, <3>1 DEF Job
    <3>3. new.reads = job[r].reads + 1 /\ new.layer = 0
      BY <2>1 DEF Job
    <3>4. QED
      BY <3>2, <3>3
  <2>3. job' = [job EXCEPT ![r] = new]
    BY <1>9 DEF ReadEntity
  <2> HIDE DEF new
  <2>4. TypeOK'
    BY <1>9, <2>2, <2>3 DEF ReadEntity, TypeInv, TypeOK, Goto, RunnerPcs,
                            world, files, history
  <2>5. Bookkeeping'
    BY <1>9, <2>1, <2>2, <2>3 DEF ReadEntity, TypeInv, TypeOK, Bookkeeping, Goto
  <2>6. HandlesNameFiles'
    BY <1>9 DEF ReadEntity, TypeInv, HandlesNameFiles, files
  <2>7. QED
    BY <2>4, <2>5, <2>6 DEF TypeInv
<1>10. ASSUME NEW r \in Runners, LayerDone(r) PROVE TypeInv'
  <2> DEFINE last == job[r].layer + 1 = NumLayers
             new == [job[r] EXCEPT !.layer = @ + 1]
  <2>1. job[r] \in Job /\ job[r].layer < NumLayers
    BY <1>10 DEF LayerDone, TypeInv, TypeOK, Bookkeeping
  <2>2. new.layer = job[r].layer + 1
    BY <2>1 DEF Job
  <2>3. job[r].layer + 1 \in 0..NumLayers /\ (~last => job[r].layer + 1 < NumLayers)
    BY <2>1 DEF Job
  <2>4. new \in Job
    BY <2>1, <2>3 DEF Job
  <2>5. job' = [job EXCEPT ![r] = new] /\ pc' = [pc EXCEPT ![r] = IF last THEN "open" ELSE "build"]
    BY <1>10 DEF LayerDone, Goto, TypeInv, TypeOK
  <2> HIDE DEF new, last
  <2>6. TypeOK'
    BY <1>10, <2>4, <2>5 DEF LayerDone, TypeInv, TypeOK, RunnerPcs, world, files, history
  <2>7. Bookkeeping'
    BY <1>10, <2>2, <2>3, <2>4, <2>5 DEF TypeInv, TypeOK, Bookkeeping
  <2>8. HandlesNameFiles'
    BY <1>10 DEF LayerDone, TypeInv, HandlesNameFiles, files
  <2>9. QED
    BY <2>6, <2>7, <2>8 DEF TypeInv
<1>11. ASSUME NEW r \in Runners, NEW kind \in {"violation", "error"}, LayerFails(r, kind)
       PROVE TypeInv'
  BY <1>11 DEF LayerFails, TypeInv, TypeOK, Bookkeeping, HandlesNameFiles, Goto, Job, RunnerPcs,
               world, files, history
<1>12. ASSUME NEW r \in Runners, OpenTmp(r) PROVE TypeInv'
  <2>1. tmp' \in Build \/ UNCHANGED <<tmp, handle>>
    BY <1>12, JobBuildIsBuild DEF OpenTmp, TypeInv
  <2>2. handle' \in [Runners -> {"none", "tmp", "mart", "lost"}]
    BY <1>12 DEF OpenTmp, TypeInv, TypeOK
  <2>3. TypeOK'
    BY <1>12, <2>1, <2>2 DEF OpenTmp, TypeInv, TypeOK, Goto, RunnerPcs, world, history
  <2>4. Bookkeeping'
    BY <1>12 DEF OpenTmp, TypeInv, TypeOK, Bookkeeping, Goto
  <2>5. HandlesNameFiles'
    BY <1>12, <2>1, NoneIsNoFile DEF OpenTmp, TypeInv, TypeOK, HandlesNameFiles
  <2>6. QED
    BY <2>3, <2>4, <2>5 DEF TypeInv
<1>13. ASSUME NEW r \in Runners, CloseTmp(r) PROVE TypeInv'
  <2> DEFINE file(whole, old) == IF whole THEN JobBuild(r, old.shared) ELSE Partial(old.shared)
  <2>1. PICK whole \in BOOLEAN :
          /\ tmp' = IF handle[r] = "tmp" THEN file(whole, tmp) ELSE tmp
          /\ mart' = IF handle[r] = "mart" THEN file(whole, mart) ELSE mart
    BY <1>13 DEF CloseTmp
  <2>2. /\ handle[r] = "tmp" => tmp' \in Build
        /\ handle[r] = "mart" => mart' \in Build
    <3>1. handle[r] = "tmp" => tmp \in Build /\ tmp.shared \in BOOLEAN
      BY DEF TypeInv, TypeOK, Bookkeeping, HandlesNameFiles, Build
    <3>2. handle[r] = "mart" => mart \in Build /\ mart.shared \in BOOLEAN
      BY DEF TypeInv, TypeOK, Bookkeeping, HandlesNameFiles, Build
    <3>3. QED
      BY <2>1, <3>1, <3>2, JobBuildIsBuild DEF TypeInv
  <2>3. TypeOK'
    BY <1>13, <2>1, <2>2 DEF CloseTmp, TypeInv, TypeOK, Goto, RunnerPcs, world, history
  <2>4. Bookkeeping'
    BY <1>13 DEF CloseTmp, TypeInv, TypeOK, Bookkeeping, Goto
  <2>5. HandlesNameFiles'
    <3>1. (tmp # None => tmp' # None) /\ (mart # None => mart' # None)
      BY <2>1, <2>2, NoneIsNoFile
    <3>2. \A q \in Runners : handle'[q] = "none" \/ handle'[q] = handle[q]
      BY <1>13 DEF CloseTmp, TypeInv, TypeOK
    <3>3. QED
      BY <3>1, <3>2 DEF TypeInv, HandlesNameFiles
  <2>6. QED
    BY <2>3, <2>4, <2>5 DEF TypeInv
<1>14. ASSUME NEW r \in Runners, Rename(r) PROVE TypeInv'
  <2>1. TypeOK'
    BY <1>14 DEF Rename, RecordServed, Visible, TypeInv, TypeOK, Goto, RunnerPcs, world
  <2>2. Bookkeeping'
    BY <1>14 DEF Rename, TypeInv, TypeOK, Bookkeeping, Goto
  <2>3. HandlesNameFiles'
    BY <1>14 DEF Rename, TypeInv, TypeOK, HandlesNameFiles
  <2>4. QED
    BY <2>1, <2>2, <2>3 DEF TypeInv
<1>15. ASSUME NEW r \in Runners, RenameFails(r) PROVE TypeInv'
  BY <1>15, NoJobIsJob DEF RenameFails, End, TypeInv, TypeOK, Bookkeeping, HandlesNameFiles, Goto, RunnerPcs,
     world, files, history
<1>16. ASSUME NEW r \in Runners, TruncateManifest(r) PROVE TypeInv'
  BY <1>16 DEF TruncateManifest, TypeInv, TypeOK, Bookkeeping, HandlesNameFiles, Goto, RunnerPcs, world
<1>17. ASSUME NEW r \in Runners, CompleteManifest(r) PROVE TypeInv'
  <2>1. manifest' \in Manifest \cup {None, Torn}
    BY <1>17 DEF CompleteManifest, JobManifest, OnMart, Manifest, TypeInv, TypeOK, Job, NotGiven
  <2>2. job' \in [Runners -> Job] /\ pc' \in [Runners -> RunnerPcs]
    BY <1>17, NoJobIsJob DEF CompleteManifest, End, TypeInv, TypeOK, Goto, RunnerPcs
  <2>3. served' \in Build \cup {None}
    BY <1>17 DEF CompleteManifest, RecordServed, Visible, TypeInv, TypeOK
  <2>4. TypeOK'
    BY <1>17, <2>1, <2>2, <2>3 DEF CompleteManifest, TypeInv, TypeOK, world
  <2>5. Bookkeeping'
    BY <1>17, NoJobIsJob DEF CompleteManifest, End, TypeInv, TypeOK, Bookkeeping, Goto
  <2>6. HandlesNameFiles'
    BY <1>17 DEF CompleteManifest, TypeInv, HandlesNameFiles
  <2>7. QED
    BY <2>4, <2>5, <2>6 DEF TypeInv
<1>18. ASSUME NEW r \in Runners, DropMart(r) PROVE TypeInv'
  BY <1>18, NoJobIsJob DEF DropMart, End, TypeInv, TypeOK, Bookkeeping, HandlesNameFiles, Goto, RunnerPcs,
                           world
<1>19. ASSUME NEW r \in Runners, Crash(r) PROVE TypeInv'
  BY <1>19, NoJobIsJob DEF Crash, End, TypeInv, TypeOK, Bookkeeping, HandlesNameFiles, Goto, RunnerPcs,
     world, files, history
<1>20. ASSUME NEW l \in Loaders, Load(l) PROVE TypeInv'
  <2>1. CASE ReadManifest(l)
    BY <1>20, <2>1 DEF ReadManifest, Usable, LoadManifest, TypeInv, TypeOK, Bookkeeping, HandlesNameFiles,
                       world, files, runner, history
  <2>2. CASE ReadMart(l)
    BY <1>20, <2>2 DEF ReadMart, TypeInv, TypeOK, Bookkeeping, HandlesNameFiles, world, files, runner, history
  <2>3. QED
    BY <1>20, <2>1, <2>2 DEF Load
<1>21. CASE UNCHANGED vars
  BY <1>21 DEF vars, TypeInv, TypeOK, Bookkeeping, HandlesNameFiles
<1>22. QED
  BY <1>1, <1>2, <1>3, <1>4, <1>5, <1>6, <1>7, <1>8, <1>9, <1>10, <1>11, <1>12, <1>13,
     <1>14, <1>15, <1>16, <1>17, <1>18, <1>19, <1>20, <1>21
     DEF Next, StartAny, Progress, MoveTmp, Fault

(* Every variable of the pipeline keeps its type, whatever the number of    *)
(* runs, loads, entities and layers, with or without overlapping writers.   *)
THEOREM TypeCorrect == Spec => []TypeOK
<1>1. TypeInv => TypeOK
  BY DEF TypeInv
<1>2. QED
  BY <1>1, TypeInit, TypeStep, PTL DEF Spec

--------------------------------------------------------------------------------
(* The safety properties, under the documented assumption that calls of run() *)
(* do not overlap (SingleWriter).                                              *)

(* Between HashDb and the rename, and between the rename and the end. *)
Hashed == {"consult", "hit", "stage", "build", "open", "writing", "rename"}
Recording == {"truncate", "complete", "drop"}
AllRead == {"build", "open", "writing", "rename"}

OneWriter == \A r, q \in Runners : ~Idle(r) /\ ~Idle(q) => r = q

(* Only the run() that writes it has a handle on .tmp, and what it renames  *)
(* is its own complete file.                                                *)
OwnTmp ==
  \A r \in Runners :
    /\ handle[r] = IF pc[r] = "writing" /\ OnMart(r) THEN "tmp" ELSE "none"
    /\ pc[r] = "writing" /\ OnMart(r) => tmp # None /\ ~tmp.shared
    /\ pc[r] = "rename" /\ OnMart(r) => tmp = JobBuild(r, FALSE)

Outcomes ==
  \A r \in Runners :
    /\ pc[r] \notin Recording => job[r].outcome = "OK"
    /\ pc[r] = "drop" => job[r].outcome = "violation"

(* The database was hashed before it was read, and read in order. *)
HashThenRead ==
  \A r \in Runners :
    /\ pc[r] \in Hashed \cup Recording => job[r].hash <= db
    /\ pc[r] \in AllRead \/ (pc[r] = "stage" /\ job[r].reads > 0) =>
         job[r].hash <= job[r].lo /\ job[r].lo <= job[r].hi /\ job[r].hi <= db

MartOrdered == mart # None => mart.lo <= mart.hi /\ mart.hi <= db

(* A manifest names a version no newer than the one the run() under way     *)
(* hashed, nor, if it names the mart and can be loaded, than the first the  *)
(* mart was read from: a run() that moves the mart alone only renews it.    *)
ManifestOrdered ==
  LoadManifest # None =>
    /\ LoadManifest.hash <= db
    /\ \A r \in Runners : pc[r] \in Hashed \cup Recording => LoadManifest.hash <= job[r].hash
    /\ Usable(LoadManifest) /\ LoadManifest.names /\ mart # None => LoadManifest.hash <= mart.lo

(* From the rename on, the mart is the build of the run() under way. *)
Published ==
  \A r \in Runners : pc[r] \in Recording /\ job[r].outcome = "OK" /\ OnMart(r) =>
    mart # None /\ job[r].hash <= mart.lo /\ ~condemned

CondemnedUnusable == condemned => ~(Usable(LoadManifest) /\ LoadManifest.names)

(* What a run() finds when it consults the cache is not newer than its hash. *)
MartBeforeHash ==
  \A r \in Runners :
    /\ pc[r] \in {"consult", "hit"} /\ mart # None => mart.hi <= job[r].hash
    /\ pc[r] = "hit" /\ job[r].call = "pair" /\ Names(LoadManifest) =>
         mart # None /\ job[r].hash <= mart.lo

LoaderOrdered ==
  \A l \in Loaders : seen[l] # None =>
    /\ seen[l].hash <= db
    /\ \A r \in Runners : pc[r] \in Hashed \cup Recording => seen[l].hash <= job[r].hash
    /\ seen[l].names /\ mart # None => seen[l].hash <= mart.lo

ServedOrdered ==
  served # None =>
    /\ served.hi <= db
    /\ \A r \in Runners :
         /\ pc[r] \in Hashed => served.hi <= job[r].hash
         /\ pc[r] \in Recording /\ job[r].outcome = "OK" /\ OnMart(r) =>
              served = mart \/ served.hi <= mart.lo

VisibleServed == Visible # None => served = Visible

SafeInv ==
  /\ OneWriter /\ OwnTmp /\ LiveMartWhole /\ Outcomes /\ HashThenRead /\ MartOrdered
  /\ ManifestOrdered /\ Published /\ CondemnedUnusable /\ MartBeforeHash
  /\ LoaderOrdered /\ ServedOrdered /\ VisibleServed

--------------------------------------------------------------------------------
LEMMA OthersIdle ==
  ASSUME OneWriter, NEW r \in Runners, ~Idle(r)
  PROVE  \A q \in Runners : q # r => pc[q] = "idle"
BY DEF OneWriter, Idle

LEMMA VersionsAreNat ==
  ASSUME TypeOK
  PROVE  /\ db \in Nat
         /\ mart # None => mart.lo \in Nat /\ mart.hi \in Nat
         /\ served # None => served.lo \in Nat /\ served.hi \in Nat
         /\ LoadManifest # None => LoadManifest.hash \in Nat
         /\ \A r \in Runners : job[r].hash \in Nat /\ job[r].lo \in Nat /\ job[r].hi \in Nat
         /\ \A l \in Loaders : seen[l] # None => seen[l].hash \in Nat
BY DEF TypeOK, Build, Manifest, Job, LoadManifest

(* What load() offers depends on the two files only. *)
LEMMA SameFiles ==
  ASSUME mart' = mart, manifest' = manifest
  PROVE  LoadManifest' = LoadManifest /\ Visible' = Visible /\ Loadable' = Loadable
BY DEF LoadManifest, Visible, Loadable, Accepts, Usable, Names

LEMMA SafeInit == Init => SafeInv
<1> SUFFICES ASSUME Init PROVE SafeInv
  OBVIOUS
<1> USE DEF Init
<1>1. OneWriter /\ OwnTmp /\ LiveMartWhole /\ MartOrdered /\ Published /\ CondemnedUnusable
  BY DEF OneWriter, Idle, OwnTmp, LiveMartWhole, MartOrdered, Published, Recording, CondemnedUnusable
<1>2. Outcomes /\ HashThenRead /\ MartBeforeHash /\ LoaderOrdered /\ ServedOrdered
  BY NoJobIsJob DEF Outcomes, HashThenRead, Hashed, Recording, AllRead, MartBeforeHash,
                    LoaderOrdered, ServedOrdered
<1>3. LoadManifest = None
  BY DEF LoadManifest
<1>4. ManifestOrdered /\ VisibleServed
  BY <1>3 DEF ManifestOrdered, VisibleServed, Visible, Loadable, Usable
<1>5. QED
  BY <1>1, <1>2, <1>4 DEF SafeInv

--------------------------------------------------------------------------------
(* The environment and the loaders leave the runs alone. *)

LEMMA IngestSafe == ASSUME TypeOK, SafeInv, Ingest PROVE SafeInv'
<1> USE DEF Ingest, files, runner, history
<1>1. db' = db + 1
  OBVIOUS
<1>2. LoadManifest' = LoadManifest /\ Visible' = Visible
  BY SameFiles
<1>3. OneWriter' /\ OwnTmp' /\ LiveMartWhole' /\ Outcomes' /\ Published' /\ MartBeforeHash'
  BY <1>2 DEF SafeInv, OneWriter, Idle, OwnTmp, OnMart, JobBuild, LiveMartWhole, Outcomes, Published,
              MartBeforeHash, Names
<1>4. HashThenRead'
  BY <1>1, VersionsAreNat DEF SafeInv, HashThenRead
<1>5. MartOrdered' /\ ManifestOrdered' /\ CondemnedUnusable' /\ VisibleServed'
  BY <1>1, <1>2, VersionsAreNat
     DEF SafeInv, MartOrdered, ManifestOrdered, CondemnedUnusable, VisibleServed, Usable
<1>6. LoaderOrdered' /\ ServedOrdered'
  BY <1>1, VersionsAreNat DEF SafeInv, LoaderOrdered, ServedOrdered, OnMart
<1>7. QED
  BY <1>3, <1>4, <1>5, <1>6 DEF SafeInv

LEMMA CodeChangeSafe == ASSUME SafeInv, CodeChange PROVE SafeInv'
<1> USE DEF CodeChange, files, runner, history
<1>1. LoadManifest' = LoadManifest /\ Visible' = Visible
  BY SameFiles
<1>2. QED
  BY <1>1 DEF SafeInv, OneWriter, Idle, OwnTmp, OnMart, JobBuild, LiveMartWhole, Outcomes, HashThenRead,
              MartOrdered, ManifestOrdered, Usable, Names, Published, CondemnedUnusable, MartBeforeHash,
              LoaderOrdered, ServedOrdered, VisibleServed

(* A step of a load() leaves everything but the loaders as it is. *)
LEMMA LoadSafe == ASSUME TypeOK, SafeInv, NEW l \in Loaders, Load(l) PROVE SafeInv'
<1>1. UNCHANGED <<world, files, runner, history>>
  BY DEF Load, ReadManifest, ReadMart
<1> USE DEF world, files, runner, history
<1>2. LoadManifest' = LoadManifest /\ Visible' = Visible
  BY <1>1, SameFiles
<1>3. /\ OneWriter' /\ OwnTmp' /\ LiveMartWhole' /\ Outcomes' /\ HashThenRead' /\ MartOrdered'
      /\ ManifestOrdered' /\ Published' /\ CondemnedUnusable' /\ MartBeforeHash'
      /\ ServedOrdered' /\ VisibleServed'
  BY <1>1, <1>2 DEF SafeInv, OneWriter, Idle, OwnTmp, OnMart, JobBuild, LiveMartWhole, Outcomes, HashThenRead,
                    MartOrdered, ManifestOrdered, Usable, Names, Published, CondemnedUnusable,
                    MartBeforeHash, ServedOrdered, VisibleServed
<1>4. LoaderOrdered'
  <2>1. CASE ReadManifest(l)
    BY <1>1, <2>1 DEF ReadManifest, SafeInv, LoaderOrdered, ManifestOrdered, Usable, TypeOK
  <2>2. CASE ReadMart(l)
    BY <1>1, <2>2 DEF ReadMart, SafeInv, LoaderOrdered, TypeOK
  <2>3. QED
    BY <2>1, <2>2 DEF Load
<1>5. QED
  BY <1>3, <1>4 DEF SafeInv

--------------------------------------------------------------------------------
(* Steps of a run() that leave the mart and the manifest alone. *)

(* What such a step of one run() owes: the other runs are idle, so that     *)
(* only its own label, locals, handle and .tmp are at stake.                *)
LEMMA LocalStep ==
  ASSUME TypeOK, SafeInv, NEW r \in Runners,
         UNCHANGED <<db, mart, manifest, seen, condemned, served>>,
         \A q \in Runners : q # r => /\ pc[q] = "idle" /\ pc'[q] = "idle"
                                     /\ job'[q] = job[q] /\ handle'[q] = handle[q],
         pc'[r] \in Hashed \cup Recording =>
           /\ pc[r] \in Hashed \cup Recording
           /\ job'[r].hash = job[r].hash /\ job'[r].call = job[r].call,
         pc'[r] \in Hashed => pc[r] \in Hashed,
         pc'[r] \in Recording /\ job'[r].outcome = "OK" => pc[r] \in Recording /\ job[r].outcome = "OK"
  PROVE  /\ OneWriter' /\ LiveMartWhole' /\ MartOrdered' /\ ManifestOrdered' /\ Published'
         /\ CondemnedUnusable' /\ LoaderOrdered' /\ ServedOrdered' /\ VisibleServed'
<1>1. LoadManifest' = LoadManifest /\ Visible' = Visible
  BY SameFiles
<1>2. OneWriter' /\ LiveMartWhole' /\ MartOrdered' /\ CondemnedUnusable' /\ VisibleServed'
  BY <1>1 DEF SafeInv, OneWriter, Idle, LiveMartWhole, MartOrdered, CondemnedUnusable, Usable, VisibleServed
<1>3. ManifestOrdered'
  BY <1>1 DEF SafeInv, ManifestOrdered, Usable, Hashed, Recording
<1>4. Published' /\ ServedOrdered'
  BY DEF SafeInv, Published, ServedOrdered, OnMart, Hashed, Recording
<1>5. LoaderOrdered'
  BY DEF SafeInv, LoaderOrdered, Hashed, Recording
<1>6. QED
  BY <1>2, <1>3, <1>4, <1>5

(* The conjuncts LocalStep does not settle, for a step of r that leaves its *)
(* handle and .tmp alone.                                                   *)
LEMMA LocalRest ==
  ASSUME TypeOK, SafeInv, NEW r \in Runners,
         UNCHANGED <<db, mart, tmp, handle>>,
         pc[r] \notin {"writing", "rename"}, pc'[r] \notin {"writing", "rename"},
         \A q \in Runners : q # r => /\ pc[q] = "idle" /\ pc'[q] = "idle"
                                     /\ job'[q] = job[q]
  PROVE  OwnTmp'
BY DEF SafeInv, OwnTmp, OnMart, JobBuild

LEMMA StartSafe ==
  ASSUME TypeOK, SafeInv, SingleWriter, NEW r \in Runners, NEW force \in BOOLEAN,
         NEW call \in Calls, Start(r, force, call)
  PROVE  SafeInv'
<1> DEFINE new == [NoJob EXCEPT !.call = call, !.force = force, !.schema = code]
<1>1. /\ \A q \in Runners : q # r => pc[q] = "idle" /\ pc'[q] = "idle" /\ job'[q] = job[q]
      /\ pc'[r] = "clean" /\ pc[r] = "idle" /\ job'[r] = new
  BY DEF Start, Idle, Goto, TypeOK
<1>2. new.outcome = "OK"
  BY DEF NoJob
<1> HIDE DEF new
<1>3. UNCHANGED <<world, files, handle, seen, history>>
  BY DEF Start
<1> USE DEF world, files, history
<1>4. /\ OneWriter' /\ LiveMartWhole' /\ MartOrdered' /\ ManifestOrdered' /\ Published'
      /\ CondemnedUnusable' /\ LoaderOrdered' /\ ServedOrdered' /\ VisibleServed'
  BY <1>1, <1>3, LocalStep DEF Hashed, Recording
<1>5. OwnTmp'
  BY <1>1, <1>3, LocalRest
<1>6. Outcomes' /\ HashThenRead' /\ MartBeforeHash'
  BY <1>1, <1>2, <1>3 DEF SafeInv, Outcomes, HashThenRead, MartBeforeHash, Hashed, Recording, AllRead
<1>7. QED
  BY <1>4, <1>5, <1>6 DEF SafeInv

LEMMA CleanTmpSafe == ASSUME TypeOK, SafeInv, NEW r \in Runners, CleanTmp(r) PROVE SafeInv'
<1>1. /\ \A q \in Runners : q # r => pc[q] = "idle" /\ pc'[q] = "idle"
      /\ pc'[r] = "hash" /\ pc[r] = "clean" /\ job' = job
  BY OthersIdle DEF CleanTmp, Idle, Goto, TypeOK, SafeInv
<1>2. UNCHANGED <<world, mart, manifest, seen, history>>
  BY DEF CleanTmp
<1>3. handle' = handle
  BY <1>1 DEF CleanTmp, SafeInv, OwnTmp, TypeOK
<1> USE DEF world, history
<1>4. /\ OneWriter' /\ LiveMartWhole' /\ MartOrdered' /\ ManifestOrdered' /\ Published'
      /\ CondemnedUnusable' /\ LoaderOrdered' /\ ServedOrdered' /\ VisibleServed'
  BY <1>1, <1>2, <1>3, LocalStep DEF Hashed, Recording
<1>5. OwnTmp'
  BY <1>1, <1>3 DEF SafeInv, OwnTmp
<1>6. Outcomes' /\ HashThenRead' /\ MartBeforeHash'
  BY <1>1, <1>2 DEF SafeInv, Outcomes, HashThenRead, MartBeforeHash, Hashed, Recording, AllRead
<1>7. QED
  BY <1>4, <1>5, <1>6 DEF SafeInv

(* The version hashed is the current one, so nothing recorded is newer. *)
LEMMA HashDbSafe == ASSUME TypeOK, SafeInv, NEW r \in Runners, HashDb(r) PROVE SafeInv'
<1> DEFINE new == [job[r] EXCEPT !.hash = db]
<1>1. /\ \A q \in Runners : q # r => pc[q] = "idle" /\ pc'[q] = "idle" /\ job'[q] = job[q]
      /\ pc'[r] = "consult" /\ pc[r] = "hash" /\ job'[r] = new
  BY OthersIdle DEF HashDb, Idle, Goto, TypeOK, SafeInv
<1>2. new.hash = db /\ new.outcome = job[r].outcome /\ new.call = job[r].call
  BY DEF TypeOK, Job
<1> HIDE DEF new
<1>3. UNCHANGED <<world, files, handle, seen, history>>
  BY DEF HashDb
<1> USE DEF world, files, history
<1>4. LoadManifest' = LoadManifest /\ Visible' = Visible
  BY <1>3, SameFiles
<1>5. OneWriter' /\ LiveMartWhole' /\ MartOrdered' /\ CondemnedUnusable' /\ VisibleServed'
  BY <1>1, <1>3, <1>4 DEF SafeInv, OneWriter, Idle, LiveMartWhole, MartOrdered, CondemnedUnusable, Usable, VisibleServed
<1>6. ManifestOrdered'
  BY <1>1, <1>2, <1>3, <1>4 DEF SafeInv, ManifestOrdered, Usable, Hashed, Recording
<1>7. Published' /\ ServedOrdered'
  BY <1>1, <1>2, <1>3 DEF SafeInv, Published, ServedOrdered, Hashed, Recording
<1>8. LoaderOrdered'
  BY <1>1, <1>2, <1>3 DEF SafeInv, LoaderOrdered, Hashed, Recording
<1>9. OwnTmp'
  BY <1>1, <1>3, LocalRest
<1>10. Outcomes' /\ HashThenRead'
  BY <1>1, <1>2, <1>3, VersionsAreNat DEF SafeInv, Outcomes, HashThenRead, Hashed, Recording, AllRead
<1>11. MartBeforeHash'
  BY <1>1, <1>2, <1>3 DEF SafeInv, MartBeforeHash, MartOrdered
<1>12. QED
  BY <1>5, <1>6, <1>7, <1>8, <1>9, <1>10, <1>11 DEF SafeInv

LEMMA CacheHitSafe == ASSUME TypeOK, SafeInv, NEW r \in Runners, CacheHit(r) PROVE SafeInv'
<1>1. /\ \A q \in Runners : q # r => pc[q] = "idle" /\ pc'[q] = "idle" /\ job'[q] = job[q]
      /\ pc'[r] = "hit" /\ pc[r] = "consult" /\ job' = job
  BY OthersIdle DEF CacheHit, Idle, Goto, TypeOK, SafeInv
<1>2. UNCHANGED <<world, files, handle, seen, history>>
  BY DEF CacheHit
<1> USE DEF world, files, history
<1>3. /\ OneWriter' /\ LiveMartWhole' /\ MartOrdered' /\ ManifestOrdered' /\ Published'
      /\ CondemnedUnusable' /\ LoaderOrdered' /\ ServedOrdered' /\ VisibleServed'
  BY <1>1, <1>2, LocalStep DEF Hashed, Recording
<1>4. OwnTmp'
  BY <1>1, <1>2, LocalRest
<1>5. Outcomes' /\ HashThenRead'
  BY <1>1, <1>2 DEF SafeInv, Outcomes, HashThenRead, Hashed, Recording, AllRead
<1>6. MartBeforeHash'
  <2>1. job[r].call = "pair" /\ Names(LoadManifest) => mart # None /\ job[r].hash <= mart.lo
    BY DEF CacheHit, MayHit, Answers, OnMart, OnManifest, Names, SafeInv, ManifestOrdered, Usable
  <2>2. LoadManifest' = LoadManifest
    BY <1>2, SameFiles
  <2>3. QED
    BY <1>1, <1>2, <2>1, <2>2 DEF SafeInv, MartBeforeHash, Names
<1>7. QED
  BY <1>3, <1>4, <1>5, <1>6 DEF SafeInv

(* A run() that ends without touching mart, manifest or history. *)
LEMMA EndSafe ==
  ASSUME TypeOK, SafeInv, NEW r \in Runners, ~Idle(r), End(r),
         UNCHANGED <<world, mart, manifest, tmp, seen, history>>,
         \A q \in Runners : handle'[q] = IF q = r THEN "none" ELSE handle[q]
  PROVE  SafeInv'
<1> USE DEF world, history
<1>1. /\ \A q \in Runners : q # r => pc[q] = "idle" /\ pc'[q] = "idle" /\ job'[q] = job[q]
      /\ pc'[r] = "idle" /\ job'[r] = NoJob
  BY OthersIdle DEF End, Goto, TypeOK, SafeInv
<1>2. /\ OneWriter' /\ LiveMartWhole' /\ MartOrdered' /\ ManifestOrdered' /\ Published'
      /\ CondemnedUnusable' /\ LoaderOrdered' /\ ServedOrdered' /\ VisibleServed'
  BY <1>1, LocalStep DEF Hashed, Recording
<1>3. OwnTmp'
  BY <1>1 DEF SafeInv, OwnTmp
<1>4. Outcomes' /\ HashThenRead' /\ MartBeforeHash'
  BY <1>1, NoJobIsJob DEF SafeInv, Outcomes, HashThenRead, MartBeforeHash, Hashed, Recording, AllRead
<1>5. QED
  BY <1>2, <1>3, <1>4 DEF SafeInv

LEMMA ReturnSafe == ASSUME TypeOK, SafeInv, NEW r \in Runners, Return(r) PROVE SafeInv'
<1>1. \A q \in Runners : handle'[q] = IF q = r THEN "none" ELSE handle[q]
  BY DEF Return, SafeInv, OwnTmp
<1>2. QED
  BY <1>1, EndSafe DEF Return, Idle, files

LEMMA RenameFailsSafe == ASSUME TypeOK, SafeInv, NEW r \in Runners, RenameFails(r) PROVE SafeInv'
<1>1. \A q \in Runners : handle'[q] = IF q = r THEN "none" ELSE handle[q]
  BY DEF RenameFails, SafeInv, OwnTmp
<1>2. QED
  BY <1>1, EndSafe DEF RenameFails, Idle, files

LEMMA CrashSafe == ASSUME TypeOK, SafeInv, NEW r \in Runners, Crash(r) PROVE SafeInv'
<1>1. \A q \in Runners : handle'[q] = IF q = r THEN "none" ELSE handle[q]
  BY DEF Crash, TypeOK
<1>2. QED
  BY <1>1, EndSafe DEF Crash, files

LEMMA CacheMissSafe == ASSUME TypeOK, TypeInv, SafeInv, NEW r \in Runners, CacheMiss(r) PROVE SafeInv'
<1>1. /\ \A q \in Runners : q # r => pc[q] = "idle" /\ pc'[q] = "idle" /\ job'[q] = job[q]
      /\ pc'[r] = "stage" /\ pc[r] = "consult" /\ job' = job
  BY OthersIdle DEF CacheMiss, Idle, Goto, TypeOK, SafeInv
<1>2. UNCHANGED <<world, files, handle, seen, history>>
  BY DEF CacheMiss
<1> USE DEF world, files, history
<1>3. /\ OneWriter' /\ LiveMartWhole' /\ MartOrdered' /\ ManifestOrdered' /\ Published'
      /\ CondemnedUnusable' /\ LoaderOrdered' /\ ServedOrdered' /\ VisibleServed'
  BY <1>1, <1>2, LocalStep DEF Hashed, Recording
<1>4. OwnTmp'
  BY <1>1, <1>2, LocalRest
<1>5. Outcomes' /\ HashThenRead' /\ MartBeforeHash'
  BY <1>1, <1>2 DEF TypeInv, Bookkeeping, SafeInv, Outcomes, HashThenRead, MartBeforeHash, Hashed, Recording, AllRead
<1>6. QED
  BY <1>3, <1>4, <1>5 DEF SafeInv

LEMMA ReadEntitySafe == ASSUME TypeInv, SafeInv, NEW r \in Runners, ReadEntity(r) PROVE SafeInv'
<1> DEFINE new == [job[r] EXCEPT !.reads = @ + 1, !.lo = IF job[r].reads = 0 THEN db ELSE @, !.hi = db]
<1>1. TypeOK
  BY DEF TypeInv
<1>2. /\ \A q \in Runners : q # r => pc[q] = "idle" /\ pc'[q] = "idle" /\ job'[q] = job[q]
      /\ pc'[r] \in {"stage", "build"} /\ pc[r] = "stage" /\ job'[r] = new
  BY <1>1, OthersIdle DEF ReadEntity, Idle, Goto, TypeOK, SafeInv
<1>3. /\ new.hash = job[r].hash /\ new.outcome = job[r].outcome /\ new.call = job[r].call
      /\ new.reads = job[r].reads + 1
      /\ new.hi = db /\ new.lo = IF job[r].reads = 0 THEN db ELSE job[r].lo
  BY <1>1 DEF TypeOK, Job
<1> HIDE DEF new
<1>4. UNCHANGED <<world, files, handle, seen, history>>
  BY DEF ReadEntity
<1> USE DEF world, files, history
<1>5. /\ OneWriter' /\ LiveMartWhole' /\ MartOrdered' /\ ManifestOrdered' /\ Published'
      /\ CondemnedUnusable' /\ LoaderOrdered' /\ ServedOrdered' /\ VisibleServed'
  BY <1>1, <1>2, <1>3, <1>4, LocalStep DEF Hashed, Recording
<1>6. OwnTmp'
  BY <1>1, <1>2, <1>4, LocalRest
<1>7. Outcomes' /\ MartBeforeHash'
  BY <1>2, <1>3, <1>4 DEF SafeInv, Outcomes, MartBeforeHash, Recording
<1>8. HashThenRead'
  <2>1. job[r].hash \in Nat /\ job[r].reads \in Nat /\ job[r].lo \in Nat /\ job[r].hi \in Nat /\ db \in Nat
    BY <1>1 DEF TypeOK, Job
  <2>2. job[r].hash <= db /\ (job[r].reads > 0 => job[r].hash <= job[r].lo /\ job[r].lo <= db)
    BY <1>2, <2>1 DEF SafeInv, HashThenRead, Hashed
  <2>3. new.hash <= new.lo /\ new.lo <= new.hi /\ new.hi <= db
    BY <1>3, <2>1, <2>2
  <2>4. QED
    BY <1>2, <1>3, <1>4, <2>2, <2>3 DEF SafeInv, HashThenRead, Hashed, Recording, AllRead
<1>9. QED
  BY <1>5, <1>6, <1>7, <1>8 DEF SafeInv

LEMMA LayerDoneSafe == ASSUME TypeOK, SafeInv, NEW r \in Runners, LayerDone(r) PROVE SafeInv'
<1> DEFINE new == [job[r] EXCEPT !.layer = @ + 1]
<1>1. /\ \A q \in Runners : q # r => pc[q] = "idle" /\ pc'[q] = "idle" /\ job'[q] = job[q]
      /\ pc'[r] \in {"open", "build"} /\ pc[r] = "build" /\ job'[r] = new
  BY OthersIdle DEF LayerDone, Idle, Goto, TypeOK, SafeInv
<1>2. /\ new.hash = job[r].hash /\ new.outcome = job[r].outcome /\ new.call = job[r].call
      /\ new.lo = job[r].lo /\ new.hi = job[r].hi
  BY DEF TypeOK, Job
<1> HIDE DEF new
<1>3. UNCHANGED <<world, files, handle, seen, history>>
  BY DEF LayerDone
<1> USE DEF world, files, history
<1>4. /\ OneWriter' /\ LiveMartWhole' /\ MartOrdered' /\ ManifestOrdered' /\ Published'
      /\ CondemnedUnusable' /\ LoaderOrdered' /\ ServedOrdered' /\ VisibleServed'
  BY <1>1, <1>2, <1>3, LocalStep DEF Hashed, Recording
<1>5. OwnTmp'
  BY <1>1, <1>3, LocalRest
<1>6. Outcomes' /\ HashThenRead' /\ MartBeforeHash'
  BY <1>1, <1>2, <1>3 DEF SafeInv, Outcomes, HashThenRead, MartBeforeHash, Hashed, Recording, AllRead
<1>7. QED
  BY <1>4, <1>5, <1>6 DEF SafeInv

LEMMA LayerFailsSafe ==
  ASSUME TypeOK, SafeInv, NEW r \in Runners, NEW kind \in {"violation", "error"}, LayerFails(r, kind)
  PROVE  SafeInv'
<1>1. /\ \A q \in Runners : q # r => pc[q] = "idle" /\ pc'[q] = "idle" /\ job'[q] = job[q]
      /\ pc'[r] = "truncate" /\ pc[r] \in {"stage", "build"}
      /\ job'[r].outcome = kind /\ job'[r].hash = job[r].hash /\ job'[r].call = job[r].call
  BY OthersIdle DEF LayerFails, Idle, Goto, TypeOK, SafeInv, Job
<1>2. UNCHANGED <<world, files, handle, seen, history>>
  BY DEF LayerFails
<1> USE DEF world, files, history
<1>3. /\ OneWriter' /\ LiveMartWhole' /\ MartOrdered' /\ ManifestOrdered' /\ Published'
      /\ CondemnedUnusable' /\ LoaderOrdered' /\ ServedOrdered' /\ VisibleServed'
  BY <1>1, <1>2, LocalStep DEF Hashed, Recording
<1>4. OwnTmp'
  BY <1>1, <1>2, LocalRest
<1>5. Outcomes' /\ HashThenRead' /\ MartBeforeHash'
  BY <1>1, <1>2 DEF SafeInv, Outcomes, HashThenRead, MartBeforeHash, Hashed, Recording, AllRead
<1>6. QED
  BY <1>3, <1>4, <1>5 DEF SafeInv

(* No other run() has a handle on .tmp, so the file is not shared. *)
LEMMA OpenTmpSafe == ASSUME TypeOK, SafeInv, NEW r \in Runners, OpenTmp(r) PROVE SafeInv'
<1>1. /\ \A q \in Runners : q # r => pc[q] = "idle" /\ pc'[q] = "idle" /\ handle'[q] = handle[q]
      /\ pc'[r] = "writing" /\ pc[r] = "open" /\ job' = job
      /\ handle'[r] = IF OnMart(r) THEN "tmp" ELSE handle[r]
  BY OthersIdle DEF OpenTmp, Idle, Goto, TypeOK, SafeInv
<1>2. UNCHANGED <<world, mart, manifest, seen, history>>
  BY DEF OpenTmp
<1> USE DEF world, history
<1>3. /\ OneWriter' /\ LiveMartWhole' /\ MartOrdered' /\ ManifestOrdered' /\ Published'
      /\ CondemnedUnusable' /\ LoaderOrdered' /\ ServedOrdered' /\ VisibleServed'
  BY <1>1, <1>2, LocalStep DEF Hashed, Recording
<1>4. OwnTmp'
  <2>1. \A q \in Runners : handle[q] = "none"
    BY <1>1 DEF SafeInv, OwnTmp
  <2>2. OnMart(r) => tmp' = Partial(FALSE)
    BY <2>1 DEF OpenTmp
  <2>3. OnMart(r) => tmp' # None /\ ~tmp'.shared
    <3>1. Partial(FALSE) \in Build /\ Partial(FALSE) # None
      BY JobBuildIsBuild, NoneIsNoFile
    <3>2. ~Partial(FALSE).shared
      BY DEF Partial
    <3>3. QED
      BY <2>2, <3>1, <3>2
  <2>4. QED
    BY <1>1, <2>1, <2>3 DEF OwnTmp, OnMart
<1>5. Outcomes' /\ HashThenRead' /\ MartBeforeHash'
  BY <1>1, <1>2 DEF SafeInv, Outcomes, HashThenRead, MartBeforeHash, Hashed, Recording, AllRead
<1>6. QED
  BY <1>3, <1>4, <1>5 DEF SafeInv

LEMMA CloseTmpSafe == ASSUME TypeOK, SafeInv, NEW r \in Runners, CloseTmp(r) PROVE SafeInv'
<1>1. /\ \A q \in Runners : q # r => pc[q] = "idle" /\ pc'[q] = "idle" /\ handle'[q] = handle[q]
      /\ pc'[r] = "rename" /\ pc[r] = "writing" /\ job' = job /\ handle'[r] = "none"
  BY OthersIdle DEF CloseTmp, Idle, Goto, TypeOK, SafeInv
<1>2. IF OnMart(r) THEN handle[r] = "tmp" /\ ~tmp.shared /\ tmp # None ELSE handle[r] = "none"
  BY <1>1 DEF SafeInv, OwnTmp
<1>3. mart' = mart /\ (OnMart(r) => tmp' = JobBuild(r, FALSE))
  BY <1>2 DEF CloseTmp, JobBuild, TypeOK, Build
<1>4. UNCHANGED <<world, manifest, seen, history>>
  BY DEF CloseTmp
<1> USE DEF world, history
<1>5. /\ OneWriter' /\ LiveMartWhole' /\ MartOrdered' /\ ManifestOrdered' /\ Published'
      /\ CondemnedUnusable' /\ LoaderOrdered' /\ ServedOrdered' /\ VisibleServed'
  BY <1>1, <1>3, <1>4, LocalStep DEF Hashed, Recording
<1>6. OwnTmp'
  BY <1>1, <1>3 DEF SafeInv, OwnTmp, OnMart, JobBuild
<1>7. Outcomes' /\ HashThenRead' /\ MartBeforeHash'
  BY <1>1, <1>3, <1>4 DEF SafeInv, Outcomes, HashThenRead, MartBeforeHash, Hashed, Recording, AllRead
<1>8. QED
  BY <1>5, <1>6, <1>7 DEF SafeInv

--------------------------------------------------------------------------------
(* Steps of a run() on the mart and the manifest. *)

(* The build published was read after everything recorded was; a call that  *)
(* moves another mart leaves the watched files alone.                       *)
LEMMA RenameSafe == ASSUME TypeOK, SafeInv, NEW r \in Runners, Rename(r) PROVE SafeInv'
<1>1. /\ \A q \in Runners : q # r => pc[q] = "idle" /\ pc'[q] = "idle"
      /\ pc'[r] = "truncate" /\ pc[r] = "rename" /\ job' = job
  BY OthersIdle DEF Rename, Idle, Goto, TypeOK, SafeInv
<1>2. UNCHANGED <<world, manifest, seen>>
  BY DEF Rename
<1> USE DEF world
<1>3. LoadManifest' = LoadManifest
  BY <1>2 DEF LoadManifest
<1>4. \A q \in Runners : handle[q] = "none"
  BY <1>1 DEF SafeInv, OwnTmp
<1>5. \A q \in Runners : handle'[q] = "none"
  BY <1>4 DEF Rename
<1>6. OneWriter' /\ OwnTmp' /\ Outcomes' /\ HashThenRead' /\ MartBeforeHash'
  BY <1>1, <1>2, <1>5 DEF SafeInv, OneWriter, Idle, OwnTmp, Outcomes, HashThenRead, MartBeforeHash,
                          Hashed, Recording, AllRead
<1>7. served' = IF Visible' # None THEN mart' ELSE served
  BY DEF Rename, RecordServed, Visible
<1>8. CASE OnMart(r)
  <2>1. condemned' = FALSE
    BY <1>8 DEF Rename
  <2>2. /\ mart' = JobBuild(r, FALSE) /\ mart' # None /\ mart'.whole
        /\ mart'.lo = job[r].lo /\ mart'.hi = job[r].hi
    BY <1>1, <1>8 DEF Rename, SafeInv, OwnTmp, JobBuild
  <2>3. /\ job[r].hash \in Nat /\ job[r].lo \in Nat /\ job[r].hi \in Nat /\ db \in Nat
        /\ job[r].hash <= job[r].lo /\ job[r].lo <= job[r].hi /\ job[r].hi <= db
    BY <1>1, VersionsAreNat DEF SafeInv, HashThenRead, AllRead
  <2> DEFINE first == mart'.lo
  <2>4. first \in Nat /\ job[r].hash <= first
    BY <2>2, <2>3
  <2>5. LiveMartWhole' /\ MartOrdered' /\ CondemnedUnusable' /\ VisibleServed'
    BY <1>2, <1>7, <2>1, <2>2, <2>3
       DEF LiveMartWhole, MartOrdered, CondemnedUnusable, VisibleServed, Visible
  <2>6. ManifestOrdered'
    <3>1. LoadManifest # None => LoadManifest.hash \in Nat /\ LoadManifest.hash <= job[r].hash
      BY <1>1, VersionsAreNat DEF SafeInv, ManifestOrdered, Hashed
    <3>2. LoadManifest # None => LoadManifest.hash <= first
      <4> HIDE DEF first
      <4>1. QED
        BY <2>3, <2>4, <3>1
    <3>3. QED
      BY <1>1, <1>2, <1>3, <3>1, <3>2 DEF SafeInv, ManifestOrdered, Hashed, Recording
  <2>7. Published'
    BY <1>1, <1>2, <2>1, <2>2, <2>3 DEF Published, Recording
  <2>8. LoaderOrdered'
    <3>1. \A l \in Loaders : seen[l] # None => seen[l].hash \in Nat /\ seen[l].hash <= job[r].hash
      BY <1>1, VersionsAreNat DEF SafeInv, LoaderOrdered, Hashed
    <3>2. \A l \in Loaders : seen[l] # None => seen[l].hash <= first
      <4> HIDE DEF first
      <4>1. QED
        BY <2>3, <2>4, <3>1
    <3>3. QED
      BY <1>1, <1>2, <3>1, <3>2 DEF SafeInv, LoaderOrdered, Hashed, Recording
  <2>9. ServedOrdered'
    <3>1. served # None => served.hi \in Nat /\ served.hi <= db /\ served.hi <= job[r].hash
      BY <1>1, VersionsAreNat DEF SafeInv, ServedOrdered, Hashed
    <3>2. served # None => served.hi <= first
      <4> HIDE DEF first
      <4>1. QED
        BY <2>3, <2>4, <3>1
    <3>3. QED
      BY <1>1, <1>2, <1>7, <2>2, <2>3, <3>1, <3>2 DEF ServedOrdered, Hashed, Recording
  <2>10. QED
    BY <1>6, <2>5, <2>6, <2>7, <2>8, <2>9 DEF SafeInv
<1>9. CASE ~OnMart(r)
  <2>1. UNCHANGED <<mart, condemned>>
    BY <1>9 DEF Rename
  <2>2. Visible' = Visible
    BY <1>2, <2>1, SameFiles
  <2>3. served' = served
    BY <1>7, <2>1, <2>2 DEF SafeInv, VisibleServed, Visible
  <2>4. LiveMartWhole' /\ MartOrdered' /\ CondemnedUnusable' /\ VisibleServed'
    BY <1>2, <1>3, <2>1, <2>2, <2>3
       DEF SafeInv, LiveMartWhole, MartOrdered, CondemnedUnusable, VisibleServed, Usable
  <2>5. ManifestOrdered' /\ LoaderOrdered'
    BY <1>1, <1>2, <1>3, <2>1 DEF SafeInv, ManifestOrdered, LoaderOrdered, Usable, Hashed, Recording
  <2>6. Published' /\ ServedOrdered'
    BY <1>1, <1>2, <1>9, <2>1, <2>3 DEF SafeInv, Published, ServedOrdered, OnMart, Hashed, Recording
  <2>7. QED
    BY <1>6, <2>4, <2>5, <2>6 DEF SafeInv
<1>10. QED
  BY <1>8, <1>9

(* Either the manifest is torn, or it and the history are as they were. *)
LEMMA TruncateManifestSafe ==
  ASSUME TypeOK, SafeInv, NEW r \in Runners, TruncateManifest(r) PROVE SafeInv'
<1>1. /\ \A q \in Runners : q # r => pc[q] = "idle" /\ pc'[q] = "idle"
      /\ pc'[r] = "complete" /\ pc[r] = "truncate" /\ job' = job
  BY OthersIdle DEF TruncateManifest, Idle, Goto, TypeOK, SafeInv
<1>2. /\ UNCHANGED <<world, mart, tmp, handle, seen, served>>
      /\ condemned' = (condemned \/ Condemns(r))
  BY DEF TruncateManifest
<1> USE DEF world
<1>3. OneWriter' /\ LiveMartWhole' /\ MartOrdered'
  BY <1>1, <1>2 DEF SafeInv, OneWriter, Idle, LiveMartWhole, MartOrdered
<1>4. ManifestOrdered' /\ CondemnedUnusable' /\ VisibleServed'
  <2>1. CASE OnManifest(r)
    <3>1. LoadManifest' = None
      BY <2>1 DEF TruncateManifest, LoadManifest
    <3>2. ~Usable(LoadManifest)' /\ Visible' = None
      BY <3>1 DEF Usable, Visible, Loadable
    <3>3. QED
      BY <3>1, <3>2 DEF ManifestOrdered, CondemnedUnusable, VisibleServed
  <2>2. CASE ~OnManifest(r)
    <3>1. manifest' = manifest /\ ~Condemns(r)
      BY <2>2 DEF TruncateManifest, Condemns, OnManifest
    <3>2. LoadManifest' = LoadManifest /\ Visible' = Visible
      BY <1>2, <3>1, SameFiles
    <3>3. QED
      BY <1>1, <1>2, <3>1, <3>2
         DEF SafeInv, ManifestOrdered, CondemnedUnusable, VisibleServed, Usable, Hashed, Recording
  <2>3. QED
    BY <2>1, <2>2
<1>5. OwnTmp'
  BY <1>1, <1>2, LocalRest
<1>6. Outcomes' /\ HashThenRead' /\ MartBeforeHash'
  BY <1>1, <1>2 DEF SafeInv, Outcomes, HashThenRead, MartBeforeHash, Hashed, Recording, AllRead
<1>7. Published' /\ ServedOrdered' /\ LoaderOrdered'
  BY <1>1, <1>2 DEF SafeInv, Published, ServedOrdered, LoaderOrdered, Condemns, OnMart, Hashed, Recording
<1>8. QED
  BY <1>3, <1>4, <1>5, <1>6, <1>7 DEF SafeInv

LEMMA CompleteManifestSafe ==
  ASSUME TypeOK, SafeInv, NEW r \in Runners, CompleteManifest(r) PROVE SafeInv'
<1>1. /\ \A q \in Runners : q # r => pc[q] = "idle" /\ pc'[q] = "idle" /\ job'[q] = job[q]
      /\ pc[r] = "complete"
  BY OthersIdle DEF CompleteManifest, End, Idle, Goto, TypeOK, SafeInv
<1>2. IF job[r].outcome = "violation" THEN pc'[r] = "drop" /\ job' = job
                                      ELSE pc'[r] = "idle" /\ job'[r] = NoJob
  BY DEF CompleteManifest, End, Goto, TypeOK
<1>3. UNCHANGED <<world, mart, tmp, handle, seen, condemned>>
  BY DEF CompleteManifest
<1> USE DEF world
<1>4. served' = IF Visible' # None THEN mart ELSE served
  BY <1>3 DEF CompleteManifest, RecordServed, Visible
<1>5. OneWriter' /\ LiveMartWhole' /\ MartOrdered'
  BY <1>1, <1>2, <1>3 DEF SafeInv, OneWriter, Idle, LiveMartWhole, MartOrdered
<1>6. OwnTmp'
  BY <1>1, <1>2, <1>3 DEF SafeInv, OwnTmp
<1>7. Outcomes' /\ HashThenRead' /\ MartBeforeHash'
  BY <1>1, <1>2, <1>3, NoJobIsJob
     DEF SafeInv, Outcomes, HashThenRead, MartBeforeHash, Hashed, Recording, AllRead
<1>8. Published'
  BY <1>1, <1>2 DEF Published, Recording
<1>9. LoaderOrdered'
  BY <1>1, <1>2, <1>3 DEF SafeInv, LoaderOrdered, Hashed, Recording
<1>10. \A q \in Runners : pc'[q] \notin Hashed /\ (pc'[q] \in Recording => job'[q].outcome # "OK")
  BY <1>1, <1>2 DEF Hashed, Recording
<1>11. CASE OnManifest(r)
  <2>1. /\ LoadManifest' = manifest' /\ LoadManifest' \in Manifest
        /\ LoadManifest'.hash = job[r].hash
        /\ LoadManifest'.status = IF job[r].outcome = "OK" THEN "OK" ELSE "FAIL"
        /\ LoadManifest'.names = OnMart(r)
    <3>1. JobManifest(r) \in Manifest
      BY DEF JobManifest, Manifest, OnMart, TypeOK, Job, NotGiven
    <3>2. /\ JobManifest(r).hash = job[r].hash
          /\ JobManifest(r).status = IF job[r].outcome = "OK" THEN "OK" ELSE "FAIL"
          /\ JobManifest(r).names = OnMart(r)
      BY DEF JobManifest
    <3>3. manifest' = JobManifest(r)
      BY <1>11 DEF CompleteManifest
    <3>4. LoadManifest' = JobManifest(r)
      BY <3>1, <3>3, TornIsNoManifest DEF LoadManifest
    <3>5. QED
      BY <3>1, <3>2, <3>3, <3>4
  <2>2. LoadManifest' # None
    BY <2>1, NoneIsNoFile
  <2>3. Usable(LoadManifest)' /\ LoadManifest'.names =>
          job[r].outcome = "OK" /\ mart # None /\ job[r].hash <= mart.lo /\ ~condemned
    <3>1. Usable(LoadManifest)' /\ LoadManifest'.names => job[r].outcome = "OK" /\ OnMart(r)
      BY <2>1 DEF Usable
    <3>2. QED
      BY <1>1, <3>1 DEF SafeInv, Published, Recording
  <2>4. Visible' # None => Visible' = mart /\ Usable(LoadManifest)' /\ LoadManifest'.names
    BY <1>3 DEF Visible, Loadable, Names
  <2>5. CondemnedUnusable' /\ VisibleServed'
    BY <1>3, <1>4, <2>3, <2>4 DEF CondemnedUnusable, VisibleServed
  <2>6. job[r].hash \in Nat /\ job[r].hash <= db
    BY <1>1, VersionsAreNat DEF SafeInv, HashThenRead, Recording
  <2>7. ManifestOrdered'
    BY <1>1, <1>2, <1>3, <2>1, <2>3, <2>6 DEF ManifestOrdered, Hashed, Recording
  <2>8. ServedOrdered'
    <3>1. mart # None => mart.hi <= db
      BY DEF SafeInv, MartOrdered
    <3>2. QED
      BY <1>3, <1>4, <1>10, <2>3, <2>4, <3>1 DEF SafeInv, ServedOrdered
  <2>9. QED
    BY <1>5, <1>6, <1>7, <1>8, <1>9, <2>5, <2>7, <2>8 DEF SafeInv
<1>12. CASE ~OnManifest(r)
  <2>1. manifest' = manifest
    BY <1>12 DEF CompleteManifest
  <2>2. LoadManifest' = LoadManifest /\ Visible' = Visible
    BY <1>3, <2>1, SameFiles
  <2>3. served' = served
    BY <1>4, <2>2 DEF SafeInv, VisibleServed, Visible
  <2>4. CondemnedUnusable' /\ VisibleServed'
    BY <1>3, <2>2, <2>3 DEF SafeInv, CondemnedUnusable, VisibleServed, Usable
  <2>5. ManifestOrdered'
    BY <1>1, <1>2, <1>3, <2>2 DEF SafeInv, ManifestOrdered, Usable, Hashed, Recording
  <2>6. ServedOrdered'
    BY <1>3, <1>10, <2>3 DEF SafeInv, ServedOrdered
  <2>7. QED
    BY <1>5, <1>6, <1>7, <1>8, <1>9, <2>4, <2>5, <2>6 DEF SafeInv
<1>13. QED
  BY <1>11, <1>12

LEMMA DropMartSafe == ASSUME TypeOK, SafeInv, NEW r \in Runners, DropMart(r) PROVE SafeInv'
<1>1. /\ \A q \in Runners : q # r => pc[q] = "idle" /\ pc'[q] = "idle" /\ job'[q] = job[q]
      /\ pc'[r] = "idle" /\ pc[r] = "drop" /\ job'[r] = NoJob
  BY OthersIdle DEF DropMart, End, Idle, Goto, TypeOK, SafeInv
<1>2. /\ UNCHANGED <<world, tmp, manifest, seen, served>>
      /\ IF OnMart(r) THEN mart' = None /\ condemned' = FALSE ELSE UNCHANGED <<mart, condemned>>
  BY DEF DropMart, TypeOK
<1>3. handle' = handle
  BY <1>1 DEF DropMart, SafeInv, OwnTmp, TypeOK
<1> USE DEF world
<1>4. LoadManifest' = LoadManifest /\ (IF OnMart(r) THEN Visible' = None ELSE Visible' = Visible)
  BY <1>2, SameFiles DEF LoadManifest, Visible, Loadable, Accepts
<1>5. OneWriter' /\ LiveMartWhole' /\ MartOrdered' /\ CondemnedUnusable' /\ VisibleServed' /\ Published'
  BY <1>1, <1>2, <1>4 DEF SafeInv, OneWriter, Idle, LiveMartWhole, MartOrdered, CondemnedUnusable, Usable,
                          VisibleServed, Published, Recording
<1>6. OwnTmp'
  BY <1>1, <1>2, <1>3 DEF SafeInv, OwnTmp
<1>7. Outcomes' /\ HashThenRead' /\ MartBeforeHash'
  BY <1>1, <1>2, NoJobIsJob DEF SafeInv, Outcomes, HashThenRead, MartBeforeHash, Hashed, Recording, AllRead
<1>8. ManifestOrdered' /\ LoaderOrdered' /\ ServedOrdered'
  BY <1>1, <1>2, <1>4 DEF SafeInv, ManifestOrdered, LoaderOrdered, ServedOrdered, Usable, Hashed, Recording
<1>9. QED
  BY <1>5, <1>6, <1>7, <1>8 DEF SafeInv

--------------------------------------------------------------------------------
LEMMA SafeStep == ASSUME SingleWriter, TypeInv, SafeInv, [Next]_vars PROVE SafeInv'
<1>1. TypeOK
  BY DEF TypeInv
<1>2. CASE Ingest \/ CodeChange
  BY <1>1, <1>2, IngestSafe, CodeChangeSafe
<1>3. ASSUME NEW l \in Loaders, Load(l) PROVE SafeInv'
  BY <1>1, <1>3, LoadSafe
<1>4. ASSUME NEW r \in Runners, StartAny(r) PROVE SafeInv'
  BY <1>1, <1>4, StartSafe DEF StartAny
<1>5. ASSUME NEW r \in Runners, Progress(r) PROVE SafeInv'
  <2>1. CASE CleanTmp(r) \/ HashDb(r) \/ CacheHit(r) \/ Return(r) \/ CacheMiss(r)
    BY <1>1, <2>1, CleanTmpSafe, HashDbSafe, CacheHitSafe, ReturnSafe, CacheMissSafe
  <2>2. CASE ReadEntity(r) \/ LayerDone(r) \/ OpenTmp(r) \/ CloseTmp(r)
    BY <1>1, <2>2, ReadEntitySafe, LayerDoneSafe, OpenTmpSafe, CloseTmpSafe
  <2>3. CASE Rename(r) \/ RenameFails(r) \/ TruncateManifest(r) \/ CompleteManifest(r) \/ DropMart(r)
    BY <1>1, <2>3, RenameSafe, RenameFailsSafe, TruncateManifestSafe, CompleteManifestSafe, DropMartSafe
  <2>4. QED
    BY <1>5, <2>1, <2>2, <2>3 DEF Progress, MoveTmp
<1>6. ASSUME NEW r \in Runners, Fault(r) PROVE SafeInv'
  BY <1>1, <1>6, CrashSafe, LayerFailsSafe DEF Fault
<1>7. CASE UNCHANGED vars
  <2>1. LoadManifest' = LoadManifest /\ Visible' = Visible
    BY <1>7, SameFiles DEF vars
  <2>2. QED
    BY <1>7, <2>1 DEF vars, SafeInv, OneWriter, Idle, OwnTmp, OnMart, JobBuild, LiveMartWhole, Outcomes, HashThenRead,
              MartOrdered, ManifestOrdered, Usable, Names, Published, CondemnedUnusable, MartBeforeHash,
              LoaderOrdered, ServedOrdered, VisibleServed
<1>8. QED
  BY <1>2, <1>3, <1>4, <1>5, <1>6, <1>7 DEF Next

(* The strengthened invariant, of which every property below is a consequence. *)
LEMMA Safe == ASSUME SingleWriter PROVE Spec => [](TypeInv /\ SafeInv)
<1>1. Init => TypeInv /\ SafeInv
  BY TypeInit, SafeInit
<1>2. TypeInv /\ SafeInv /\ [Next]_vars => (TypeInv /\ SafeInv)'
  BY TypeStep, SafeStep
<1>3. QED
  BY <1>1, <1>2, PTL DEF Spec

(* One run() at a time never leaves a partial parquet at the live path,     *)
(* wherever it dies (pipeline.py:152-154).                                  *)
THEOREM MartStaysWhole == ASSUME SingleWriter PROVE Spec => []LiveMartWhole
<1>1. SafeInv => LiveMartWhole
  BY DEF SafeInv
<1>2. QED
  BY <1>1, Safe, PTL

(* Once a contract violation has begun to be recorded, nothing is loadable  *)
(* through a manifest of the mart's path until the next mart is published   *)
(* there (pipeline.py:156-158).                                             *)
THEOREM ViolationsFailClosed == ASSUME SingleWriter PROVE Spec => []FailClosed
<1>1. SafeInv => FailClosed
  BY DEF SafeInv, CondemnedUnusable, FailClosed, Visible, Loadable, Names
<1>2. QED
  BY <1>1, Safe, PTL

(* A run() started now is answered from the cache, by a manifest written    *)
(* for the mart path it asks for, only with a mart that was read from       *)
(* exactly the current database: whatever calls moved the mart or the       *)
(* manifest alone in between (pipeline.py:115-127, :181-182).               *)
THEOREM CacheIsSound == ASSUME SingleWriter PROVE Spec => []CacheSound
<1>1. TypeInv /\ SafeInv => CacheSound
  <2> SUFFICES ASSUME TypeInv, SafeInv, CacheValid(LoadManifest, db), Names(LoadManifest)
               PROVE  mart.lo = db /\ mart.hi = db
    BY DEF CacheSound
  <2>1. mart # None /\ Usable(LoadManifest) /\ LoadManifest.hash = db
    BY DEF CacheValid, Answers, Usable
  <2>2. db <= mart.lo /\ mart.lo <= mart.hi /\ mart.hi <= db
    BY <2>1 DEF SafeInv, ManifestOrdered, MartOrdered, Names
  <2>3. db \in Nat /\ mart.lo \in Nat /\ mart.hi \in Nat
    BY <2>1, VersionsAreNat DEF TypeInv
  <2>4. QED
    BY <2>2, <2>3
<1>2. QED
  BY <1>1, Safe, PTL

(* A cached answer by a manifest of the mart's path was exact for the       *)
(* version the run() hashed, whatever the ingest did since                  *)
(* (pipeline.py:189-192).                                                   *)
THEOREM HitsAreExact == ASSUME SingleWriter PROVE Spec => []HitIsExact
<1>1. TypeInv /\ SafeInv => HitIsExact
  <2> SUFFICES ASSUME TypeInv, SafeInv, NEW r \in Runners,
                      pc[r] = "hit", job[r].call = "pair", Names(LoadManifest)
               PROVE  mart.lo = job[r].hash /\ mart.hi = job[r].hash
    BY DEF HitIsExact
  <2>1. mart # None /\ job[r].hash <= mart.lo /\ mart.lo <= mart.hi /\ mart.hi <= job[r].hash
    BY DEF SafeInv, MartBeforeHash, MartOrdered
  <2>2. job[r].hash \in Nat /\ mart.lo \in Nat /\ mart.hi \in Nat
    BY <2>1, VersionsAreNat DEF TypeInv
  <2>3. QED
    BY <2>1, <2>2
<1>2. QED
  BY <1>1, Safe, PTL

(* A load() that races a run() never pairs a manifest of the mart's path    *)
(* with an older mart (pipeline.py:349-382).                                *)
THEOREM LoadsAreNotOlder == ASSUME SingleWriter PROVE Spec => []LoadNotOlder
<1>1. SafeInv => LoadNotOlder
  BY DEF SafeInv, LoaderOrdered, LoadNotOlder, Names, Accepts
<1>2. QED
  BY <1>1, Safe, PTL

--------------------------------------------------------------------------------
(* The refinement of MartStore. *)

LEMMA StoreStep ==
  ASSUME SingleWriter, TypeInv, SafeInv, TypeInv', SafeInv', [Next]_vars
  PROVE  [Store!StoreNext]_(Store!storeVars)
<1> USE DEF Store!storeVars
<1>1. TypeOK
  BY DEF TypeInv
(* Steps that leave the files and the history alone stutter. *)
<1>2. CASE UNCHANGED <<mart, manifest, history>>
  BY <1>2, SameFiles DEF history
(* After any other step that leaves nothing to load, the store has hidden. *)
<1>3. ASSUME Visible' = None, served' = served PROVE Store!StoreNext
  BY <1>3 DEF Store!StoreNext, Store!Hide, TypeInv, TypeOK
<1>4. ASSUME NEW r \in Runners, Rename(r), OnMart(r) PROVE Store!StoreNext
  <2>1. CASE Visible' = None
    BY <1>3, <1>4, <2>1 DEF Rename, RecordServed
  <2>2. CASE Visible' # None
    <3>1. pc[r] = "rename" /\ mart' = JobBuild(r, FALSE) /\ condemned' = FALSE
      BY <1>4 DEF Rename, SafeInv, OwnTmp
    <3>2. Visible' = mart' /\ served' = mart' /\ mart' \in Build /\ mart'.whole
      <4>1. Visible' = mart' /\ served' = mart' /\ mart' # None
        BY <1>4, <2>2 DEF Rename, RecordServed, Visible
      <4>2. mart' \in Build /\ mart'.whole
        BY <4>1 DEF TypeInv, TypeOK, SafeInv, LiveMartWhole
      <4>3. QED
        BY <4>1, <4>2
    <3>3. served # None => served.hi <= mart'.lo
      <4>1. mart'.lo = job[r].lo
        BY <3>1 DEF JobBuild
      <4>2. served # None => /\ served.hi <= job[r].hash /\ job[r].hash <= job[r].lo
                             /\ served.hi \in Nat /\ job[r].hash \in Nat /\ job[r].lo \in Nat
        BY <1>1, <3>1, VersionsAreNat DEF SafeInv, ServedOrdered, HashThenRead, Hashed, AllRead
      <4>3. served # None => served.hi <= job[r].lo
        BY <4>2
      <4>4. QED
        BY <4>1, <4>3
    <3>4. QED
      BY <3>1, <3>2, <3>3 DEF Store!StoreNext, Store!Reveal, Store!NotBefore
  <2>3. QED
    BY <2>1, <2>2
<1>5. ASSUME NEW r \in Runners, TruncateManifest(r), OnManifest(r) PROVE Store!StoreNext
  BY <1>3, <1>5 DEF TruncateManifest, Visible, Loadable, Usable, LoadManifest
<1>6. ASSUME NEW r \in Runners, CompleteManifest(r), OnManifest(r) PROVE Store!StoreNext
  <2>1. CASE Visible' = None
    BY <1>3, <1>6, <2>1 DEF CompleteManifest, RecordServed
  <2>2. CASE Visible' # None
    <3>1. Visible' = mart /\ served' = mart /\ mart' = mart /\ condemned' = condemned /\ mart # None
      BY <1>6, <2>2 DEF CompleteManifest, RecordServed, Visible
    <3>2. job[r].outcome = "OK" /\ OnMart(r) /\ pc[r] = "complete"
      <4>1. LoadManifest'.status = "OK" /\ LoadManifest'.names
        BY <2>2 DEF Visible, Loadable, Usable, Names
      <4>2. /\ manifest'.status = IF job[r].outcome = "OK" THEN "OK" ELSE "FAIL"
            /\ manifest'.names = OnMart(r)
        BY <1>6 DEF CompleteManifest, JobManifest
      <4>3. manifest' # Torn
        BY <2>2 DEF Visible, Loadable, Usable, LoadManifest
      <4>4. QED
        BY <1>6, <4>1, <4>2, <4>3 DEF CompleteManifest, LoadManifest
    <3>3. ~condemned /\ mart \in Build /\ mart.whole
      BY <1>1, <3>1, <3>2 DEF SafeInv, Published, Recording, LiveMartWhole, TypeOK
    <3>4. served = None \/ served = mart \/ served.hi <= mart.lo
      BY <3>2 DEF SafeInv, ServedOrdered, Recording
    <3>5. QED
      BY <3>1, <3>3, <3>4 DEF Store!StoreNext, Store!Reveal, Store!NotBefore
  <2>3. QED
    BY <2>1, <2>2
<1>7. ASSUME NEW r \in Runners, DropMart(r), OnMart(r) PROVE Store!StoreNext
  BY <1>3, <1>7 DEF DropMart, Visible, Loadable, Accepts
(* A call on another mart or another manifest stutters where it writes that file. *)
<1>8. ASSUME NEW r \in Runners,
              \/ (Rename(r) \/ DropMart(r)) /\ ~OnMart(r)
              \/ (TruncateManifest(r) \/ CompleteManifest(r)) /\ ~OnManifest(r)
       PROVE UNCHANGED <<mart, manifest, history>>
  <2>1. UNCHANGED <<mart, manifest, condemned>>
    BY <1>1, <1>8 DEF Rename, DropMart, TruncateManifest, CompleteManifest, Condemns, OnManifest, TypeOK
  <2>2. Visible' = Visible
    BY <2>1, SameFiles
  <2>3. served' = served
    BY <1>8, <2>2 DEF Rename, DropMart, TruncateManifest, CompleteManifest, RecordServed,
                       SafeInv, VisibleServed
  <2>4. QED
    BY <2>1, <2>3 DEF history
<1>9. ASSUME NEW r \in Runners, CloseTmp(r) PROVE UNCHANGED <<mart, manifest, history>>
  <2>1. handle[r] # "mart" /\ pc[r] = "writing"
    BY <1>9 DEF CloseTmp, SafeInv, OwnTmp
  <2>2. QED
    BY <1>9, <2>1 DEF CloseTmp
<1>10. ASSUME NEW r \in Runners,
             \/ StartAny(r) \/ Fault(r)
             \/ CleanTmp(r) \/ HashDb(r) \/ CacheHit(r) \/ Return(r) \/ CacheMiss(r)
             \/ ReadEntity(r) \/ LayerDone(r) \/ OpenTmp(r) \/ RenameFails(r)
      PROVE UNCHANGED <<mart, manifest, history>>
  BY <1>10 DEF StartAny, Fault, Start, Crash, LayerFails, CleanTmp, HashDb, CacheHit, Return, CacheMiss,
              ReadEntity, LayerDone, OpenTmp, RenameFails, files
<1>11. ASSUME NEW l \in Loaders, Load(l) PROVE UNCHANGED <<mart, manifest, history>>
  BY <1>11 DEF Load, ReadManifest, ReadMart, files
<1>12. CASE Ingest \/ CodeChange \/ UNCHANGED vars
  BY <1>2, <1>12 DEF Ingest, CodeChange, vars, files, history
<1>13. QED
  BY <1>2, <1>4, <1>5, <1>6, <1>7, <1>9, <1>10, <1>11, <1>12, <1>8 DEF Next, Progress, MoveTmp

(* What load() offers is a MartStore: whole builds only, never a condemned  *)
(* one, over database versions that never go backwards.                     *)
THEOREM ImplementsMartStore == ASSUME SingleWriter PROVE Spec => Refinement
<1>1. Init => Store!StoreInit
  BY DEF Init, Store!StoreInit, Visible, Loadable, Usable, LoadManifest
<1>2. TypeInv /\ SafeInv /\ TypeInv' /\ SafeInv' /\ [Next]_vars => [Store!StoreNext]_(Store!storeVars)
  BY StoreStep
<1>3. QED
  BY <1>1, <1>2, Safe, PTL DEF Spec, Refinement, Store!StoreSpec

--------------------------------------------------------------------------------
(* What each layer leaves to the next. *)

Cut == IF cutoff = Null THEN DefaultCutoff(spine) ELSE cutoff

LayersHold ==
  /\ source \in Sources /\ cutoff \in CutPoints \cup {Null}
  /\ stage \in {"staging", "intermediate", "fct", "feat", "done", "violation", "error"}
  /\ stage \in {"intermediate", "fct", "feat", "done"} => \A h \in source.histories : h.minutes # Null
  /\ stage \in {"fct", "feat", "done"} => base = PlayerFixtures(source) /\ ~JoinsFail(source)
  /\ stage \in {"feat", "done"} => spine = Spine(source.events, base) /\ SpineOutcome(source, base) = "ok"
  /\ stage = "done" => table = CutAt(Features(spine), Cut)

LEMMA LayersInit == BuildInit => LayersHold
BY DEF BuildInit, LayersHold

LEMMA LayersStep == LayersHold /\ [BuildNext]_buildVars => LayersHold'
<1> SUFFICES ASSUME LayersHold, [BuildNext]_buildVars PROVE LayersHold'
  OBVIOUS
<1>1. CASE Stage
  BY <1>1 DEF Stage, Advance, LayersHold
<1>2. CASE Integrate
  <2>1. CASE JoinsFail(source)
    BY <1>2, <2>1 DEF Integrate, Advance, LayersHold
  <2>2. CASE ~JoinsFail(source)
    BY <1>2, <2>2 DEF Integrate, Advance, LayersHold
  <2> QED
    BY <2>1, <2>2
<1>3. CASE BuildSpine
  <2>1. SpineOutcome(source, base) \in {"ok", "violation", "error"}
    BY DEF SpineOutcome
  <2>2. CASE SpineOutcome(source, base) = "ok"
    BY <1>3, <2>2 DEF BuildSpine, Advance, LayersHold
  <2>3. CASE SpineOutcome(source, base) # "ok"
    BY <1>3, <2>1, <2>3 DEF BuildSpine, Advance, LayersHold
  <2> QED
    BY <2>2, <2>3
<1>4. CASE BuildMart
  <2> DEFINE outcome == IF Cut <= 0 THEN "error"
                        ELSE IF Governed(CutAt(Features(spine), Cut)) THEN "ok" ELSE "violation"
  <2>1. /\ stage = "feat" /\ stage' = IF outcome = "ok" THEN "done" ELSE outcome
        /\ table' = IF outcome = "ok" THEN CutAt(Features(spine), Cut) ELSE table
        /\ UNCHANGED <<source, cutoff, base, spine>>
    BY <1>4 DEF BuildMart, Advance, Cut
  <2>2. Cut' = Cut
    BY <2>1 DEF Cut
  <2>3. outcome \in {"ok", "violation", "error"}
    OBVIOUS
  <2> HIDE DEF outcome
  <2> QED
    BY <2>1, <2>2, <2>3 DEF LayersHold
<1>5. CASE UNCHANGED buildVars
  BY <1>5 DEF buildVars, LayersHold, Cut
<1> QED
  BY <1>1, <1>2, <1>3, <1>4, <1>5 DEF BuildNext

--------------------------------------------------------------------------------
(* Player fixtures, row by row. *)
RowOf(s, h) ==
  [player |-> h.player, gw |-> h.gw, fixture |-> h.fixture, home |-> h.home, minutes |-> h.minutes,
   price |-> h.price, position |-> PositionOf(s, h.player), team |-> TeamOf(s, h)]

LEMMA FixtureRows ==
  ASSUME NEW s
  PROVE  \A r : r \in PlayerFixtures(s) <=> \E h \in s.histories : r = RowOf(s, h)
BY DEF PlayerFixtures, RowOf

(* A base as the second layer leaves it. *)
WellBased(b) ==
  /\ IsFiniteSet(b)
  /\ \A r \in b : r.gw \in Int /\ r.player \in Int
  /\ \A x, y \in b : x.player = y.player => x.position = y.position

LEMMA BaseIsWell ==
  ASSUME NEW s, IsFiniteSet(s.histories), s.histories \subseteq HistoryRow
  PROVE  WellBased(PlayerFixtures(s))
<1> DEFINE row == [h \in s.histories |-> RowOf(s, h)]
<1>1. PlayerFixtures(s) = {row[h] : h \in s.histories}
  BY FixtureRows
<1>2. IsFiniteSet(PlayerFixtures(s))
  <2> HIDE DEF row
  <2> QED
    BY <1>1, FiniteImage
<1>3. \A h \in s.histories : h.gw \in Int /\ h.player \in Int
  BY DEF HistoryRow
<1> QED
  BY <1>2, <1>3, FixtureRows DEF WellBased, RowOf

LEMMA BaseGameweeks ==
  ASSUME NEW b, WellBased(b), b # {}
  PROVE  SomeInts(GwsIn(b)) /\ PlayersIn(b) # {}
<1> DEFINE gw == [r \in b |-> r.gw]
<1>1. GwsIn(b) = {gw[r] : r \in b}
  BY DEF GwsIn
<1>2. IsFiniteSet(GwsIn(b))
  <2> HIDE DEF gw
  <2> QED
    BY <1>1, FiniteImage DEF WellBased
<1> QED
  BY <1>2 DEF WellBased, SomeInts, GwsIn, PlayersIn

(* The range of a base's gameweeks. *)
LEMMA RangeOfBase ==
  ASSUME NEW b, WellBased(b), b # {}
  PROVE  /\ \A r \in b : r.gw \in GwRange(b) /\ Min(GwsIn(b)) <= r.gw /\ r.gw <= Max(GwsIn(b))
         /\ Min(GwsIn(b)) \in Int /\ Max(GwsIn(b)) \in Int
         /\ \E r \in b : r.gw = Min(GwsIn(b))
         /\ \E r \in b : r.gw = Max(GwsIn(b))
         /\ GwRange(b) = Min(GwsIn(b))..Max(GwsIn(b)) /\ GwRange(b) # {}
<1> DEFINE lo == Min(GwsIn(b))
           hi == Max(GwsIn(b))
<1>1. /\ lo \in GwsIn(b) /\ \A y \in GwsIn(b) : lo <= y
      /\ hi \in GwsIn(b) /\ \A y \in GwsIn(b) : y <= hi
  BY BaseGameweeks, Extremes
<1>2. \A g : g \in GwsIn(b) <=> \E r \in b : r.gw = g
  BY DEF GwsIn
<1>3. GwsIn(b) \subseteq Int
  BY DEF GwsIn, WellBased
<1>4. GwRange(b) = lo..hi
  BY DEF GwRange
<1> HIDE DEF lo, hi
<1>5. \A r \in b : r.gw \in lo..hi /\ lo <= r.gw /\ r.gw <= hi
  BY <1>1, <1>2, <1>3
<1>6. lo \in Int /\ hi \in Int /\ (\E r \in b : r.gw = lo) /\ \E r \in b : r.gw = hi
  BY <1>1, <1>2, <1>3
<1>7. lo..hi # {}
  BY <1>5, <1>6
<1> QED
  BY <1>4, <1>5, <1>6, <1>7 DEF lo, hi

(* The game a row takes its club and price from. *)
LEMMA KnownGame ==
  ASSUME NEW b, WellBased(b), NEW p \in PlayersIn(b), NEW g \in Int
  PROVE  LET k == Known(b, p, g)
             own == {r \in b : r.player = p} IN
           /\ k \in own
           /\ \/ k.gw <= g /\ \A q \in own : q.gw <= g => q.gw <= k.gw
              \/ (\A q \in own : g < q.gw) /\ \A q \in own : k.gw <= q.gw
<1> DEFINE own == {r \in b : r.player = p}
           before == {r \in b : r.player = p /\ r.gw <= g}
           after == {r \in b : r.player = p /\ r.gw >= g}
<1>1. IsFiniteSet(before) /\ IsFiniteSet(after) /\ own # {}
  BY FS_Subset DEF WellBased, PlayersIn
<1>2. \A r \in b : r.gw \in Int
  BY DEF WellBased
<1>3. CASE before # {}
  <2>1. WellBased(before)
    BY <1>1 DEF WellBased
  <2>2. \E r \in before : \A q \in before : q.gw <= r.gw
    <3> HIDE DEF before
    <3> QED
      BY <1>3, <2>1, RangeOfBase
  <2> DEFINE k == CHOOSE r \in before : \A q \in before : q.gw <= r.gw
  <2>3. k \in before /\ \A q \in before : q.gw <= k.gw
    <3> HIDE DEF before
    <3> QED
      BY <2>2
  <2>4. Known(b, p, g) = k
    BY <1>3 DEF Known
  <2> HIDE DEF k
  <2> QED
    BY <2>3, <2>4
<1>4. CASE before = {}
  <2>1. after = own
    BY <1>2, <1>4
  <2>2. WellBased(after) /\ after # {}
    BY <1>1, <2>1 DEF WellBased
  <2>3. \E r \in after : \A q \in after : r.gw <= q.gw
    <3> HIDE DEF after
    <3> QED
      BY <2>2, RangeOfBase
  <2> DEFINE k == CHOOSE r \in after : \A q \in after : r.gw <= q.gw
  <2>4. k \in after /\ \A q \in after : k.gw <= q.gw
    <3> HIDE DEF after
    <3> QED
      BY <2>3
  <2>5. Known(b, p, g) = k
    BY <1>4 DEF Known
  <2>6. \A q \in own : g < q.gw
    BY <1>2, <1>4
  <2> HIDE DEF k
  <2> QED
    BY <2>1, <2>4, <2>5, <2>6
<1> QED
  BY <1>3, <1>4

--------------------------------------------------------------------------------
(* Two spines that show the same minutes of a player before gameweek g give *)
(* him the same windows there.                                               *)
SameBefore(sp, tp, p, g) ==
  \A j \in Int : j < g =>
    /\ <<p, j>> \in DOMAIN sp <=> <<p, j>> \in DOMAIN tp
    /\ <<p, j>> \in DOMAIN sp => sp[<<p, j>>].minutes = tp[<<p, j>>].minutes

Before(gws, g) == \A j \in gws : j \in Int /\ j < g

LEMMA SameMeans ==
  ASSUME NEW sp, NEW tp, NEW p, NEW g \in Int, SameBefore(sp, tp, p, g),
         NEW gws, Before(gws, g)
  PROVE  MeanOver(sp, p, gws) = MeanOver(tp, p, gws)
<1>1. Observed(sp, p, gws) = Observed(tp, p, gws)
  BY DEF Observed, SameBefore, Before
<1> DEFINE o == Observed(tp, p, gws)
<1>2. \A j \in o : sp[<<p, j>>].minutes = tp[<<p, j>>].minutes
  BY DEF Observed, SameBefore, Before
<1>3. [j \in o |-> sp[<<p, j>>].minutes] = [j \in o |-> tp[<<p, j>>].minutes]
  BY <1>2
<1> QED
  BY <1>1, <1>3 DEF MeanOver

LEMMA SameLagged ==
  ASSUME NEW sp, NEW tp, NEW p, NEW g \in Int, SameBefore(sp, tp, p, g)
  PROVE  /\ \A n \in Windows : Roll(sp, p, g, n) = Roll(tp, p, g, n)
         /\ MinutesTrend(sp, p, g) = MinutesTrend(tp, p, g)
<1>0. Windows \subseteq Nat \ {0} /\ Trend \in Nat \ {0}
  BY LayersAssumption
<1>1. \A n \in Windows : Roll(sp, p, g, n) = Roll(tp, p, g, n)
  <2> TAKE n \in Windows
  <2>1. Before((g - n)..(g - 1), g)
    BY <1>0 DEF Before
  <2> QED
    BY <2>1, SameMeans DEF Roll
<1>2. MinutesTrend(sp, p, g) = MinutesTrend(tp, p, g)
  <2>1. Before((g - Trend)..(g - 1), g) /\ Before((g - 2 * Trend + 1)..(g - Trend), g)
    BY <1>0 DEF Before
  <2>2. MeanOver(sp, p, (g - Trend)..(g - 1)) = MeanOver(tp, p, (g - Trend)..(g - 1))
    BY <2>1, SameMeans
  <2>3. MeanOver(sp, p, (g - 2 * Trend + 1)..(g - Trend)) = MeanOver(tp, p, (g - 2 * Trend + 1)..(g - Trend))
    BY <2>1, SameMeans
  <2> QED
    BY <2>2, <2>3 DEF MinutesTrend
<1> QED
  BY <1>1, <1>2

LEMMA SpineMinutes ==
  ASSUME NEW e, NEW b, NEW k \in DOMAIN Spine(e, b)
  PROVE  /\ k[1] \in PlayersIn(b) /\ k[2] \in GwRange(b) /\ k = <<k[1], k[2]>>
         /\ Spine(e, b)[k] = SpineRow(e, b, k[1], k[2])
         /\ Spine(e, b)[k].minutes = IF Games(b, k[1], k[2]) = {} THEN Null ELSE Minutes(Games(b, k[1], k[2]))
         /\ Spine(e, b)[k].blank = (Games(b, k[1], k[2]) = {})
BY DEF Spine, SpineRow

LEMMA SpineDomain ==
  ASSUME NEW e, NEW b, NEW p, NEW j
  PROVE  <<p, j>> \in DOMAIN Spine(e, b) <=> p \in PlayersIn(b) /\ j \in GwRange(b)
BY DEF Spine

(* Two bases with the same range and the same games before g. *)
LEMMA SameGamesBefore ==
  ASSUME NEW e, NEW b, NEW f, NEW d, GwRange(b) \subseteq Int, NEW p, NEW g \in Int,
         p \in PlayersIn(b) <=> p \in PlayersIn(d),
         \A j \in Int : j < g => (j \in GwRange(b) <=> j \in GwRange(d)) /\ Games(b, p, j) = Games(d, p, j)
  PROVE  SameBefore(Spine(e, b), Spine(f, d), p, g)
<1> SUFFICES ASSUME NEW j \in Int, j < g
             PROVE  /\ <<p, j>> \in DOMAIN Spine(e, b) <=> <<p, j>> \in DOMAIN Spine(f, d)
                    /\ <<p, j>> \in DOMAIN Spine(e, b) => Spine(e, b)[<<p, j>>].minutes = Spine(f, d)[<<p, j>>].minutes
  BY DEF SameBefore
<1>2. <<p, j>> \in DOMAIN Spine(e, b) <=> <<p, j>> \in DOMAIN Spine(f, d)
  <2>1. j \in GwRange(b) <=> j \in GwRange(d)
    OBVIOUS
  <2>2. /\ <<p, j>> \in DOMAIN Spine(e, b) <=> p \in PlayersIn(b) /\ j \in GwRange(b)
        /\ <<p, j>> \in DOMAIN Spine(f, d) <=> p \in PlayersIn(d) /\ j \in GwRange(d)
    BY SpineDomain
  <2> QED
    BY <2>1, <2>2
<1>3. ASSUME <<p, j>> \in DOMAIN Spine(e, b) PROVE Spine(e, b)[<<p, j>>].minutes = Spine(f, d)[<<p, j>>].minutes
  <2>1. Games(b, p, j) = Games(d, p, j)
    OBVIOUS
  <2>2. Spine(e, b)[<<p, j>>].minutes = IF Games(b, p, j) = {} THEN Null ELSE Minutes(Games(b, p, j))
    BY <1>3 DEF Spine, SpineRow
  <2>3. Spine(f, d)[<<p, j>>].minutes = IF Games(d, p, j) = {} THEN Null ELSE Minutes(Games(d, p, j))
    BY <1>2, <1>3 DEF Spine, SpineRow
  <2> QED
    BY <2>1, <2>2, <2>3
<1> QED
  BY <1>2, <1>3

(* What a finished build holds. *)
LEMMA FinishedMart ==
  ASSUME LayersHold, stage = "done"
  PROVE  /\ source \in Sources /\ base = PlayerFixtures(source) /\ spine = Spine(source.events, base)
         /\ WellBased(base) /\ base # {} /\ SpineOutcome(source, base) = "ok"
         /\ DOMAIN spine = PlayersIn(base) \X GwRange(base)
         /\ DOMAIN table = {k \in DOMAIN spine : k[2] <= Cut}
         /\ \A k \in DOMAIN table : table[k] = Features(spine)[k]
<1>1. /\ source \in Sources /\ base = PlayerFixtures(source) /\ spine = Spine(source.events, base)
      /\ SpineOutcome(source, base) = "ok" /\ table = CutAt(Features(spine), Cut)
  BY DEF LayersHold
<1>2. IsFiniteSet(source.histories) /\ source.histories \subseteq HistoryRow
  BY <1>1, LayersAssumption
<1>3. WellBased(base)
  BY <1>1, <1>2, BaseIsWell
<1>4. base # {}
  BY <1>1 DEF SpineOutcome
<1>5. DOMAIN spine = PlayersIn(base) \X GwRange(base)
  BY <1>1 DEF Spine
<1>6. DOMAIN Features(spine) = DOMAIN spine
  BY DEF Features
<1>7. /\ DOMAIN table = {k \in DOMAIN spine : k[2] <= Cut}
      /\ \A k \in DOMAIN table : table[k] = Features(spine)[k]
  BY <1>1, <1>6 DEF CutAt, Restrict
<1> QED
  BY <1>1, <1>3, <1>4, <1>5, <1>7

(* A database whose histories of gameweek g and after say nothing. *)
LEMMA BlindedGames ==
  ASSUME NEW s \in Sources, NEW g \in Int
  PROVE  /\ PlayersIn(PlayerFixtures(Blinded(s, g))) = PlayersIn(PlayerFixtures(s))
         /\ GwRange(PlayerFixtures(Blinded(s, g))) = GwRange(PlayerFixtures(s))
         /\ \A p, j : j \in Int /\ j < g =>
              Games(PlayerFixtures(Blinded(s, g)), p, j) = Games(PlayerFixtures(s), p, j)
<1> DEFINE dim(h) == IF h.gw < g THEN h ELSE [h EXCEPT !.minutes = 0]
           t == Blinded(s, g)
<1>1. /\ s.histories \subseteq HistoryRow
      /\ DOMAIN s = {"teams", "players", "fixtures", "events", "histories"}
  BY LayersAssumption
<1>2. /\ t.histories = {dim(h) : h \in s.histories}
      /\ t.players = s.players /\ t.fixtures = s.fixtures
  BY <1>1 DEF Blinded
<1>3. \A h \in s.histories : /\ dim(h).player = h.player /\ dim(h).gw = h.gw /\ dim(h).fixture = h.fixture
                             /\ dim(h).home = h.home /\ h.gw \in Int
                             /\ h.gw < g => dim(h) = h
  BY <1>1 DEF HistoryRow
<1>4. \A h : RowOf(t, h) = RowOf(s, h)
  <2>1. \A p : PositionOf(t, p) = PositionOf(s, p)
    BY <1>2 DEF PositionOf
  <2>2. \A h : FixtureOf(t, h) = FixtureOf(s, h)
    BY <1>2 DEF FixtureOf, Scheduled
  <2>3. \A h : TeamOf(t, h) = TeamOf(s, h)
    BY <2>2 DEF TeamOf
  <2> HIDE DEF t
  <2> QED
    BY <2>1, <2>3 DEF RowOf
<1> HIDE DEF t, dim
<1>5. \A r : r \in PlayerFixtures(t) <=> \E h \in s.histories : r = RowOf(s, dim(h))
  BY <1>2, <1>4, FixtureRows
<1>6. \A r : r \in PlayerFixtures(s) <=> \E h \in s.histories : r = RowOf(s, h)
  BY FixtureRows
<1>7. \A h : RowOf(s, h).player = h.player /\ RowOf(s, h).gw = h.gw
  BY DEF RowOf
<1>8. \A p : p \in PlayersIn(PlayerFixtures(t)) <=> \E h \in s.histories : p = h.player
  BY <1>3, <1>5, <1>7 DEF PlayersIn
<1>9. \A p : p \in PlayersIn(PlayerFixtures(s)) <=> \E h \in s.histories : p = h.player
  BY <1>6, <1>7 DEF PlayersIn
<1>10. \A w : w \in GwsIn(PlayerFixtures(t)) <=> \E h \in s.histories : w = h.gw
  BY <1>3, <1>5, <1>7 DEF GwsIn
<1>11. \A w : w \in GwsIn(PlayerFixtures(s)) <=> \E h \in s.histories : w = h.gw
  BY <1>6, <1>7 DEF GwsIn
<1>12. PlayersIn(PlayerFixtures(t)) = PlayersIn(PlayerFixtures(s))
  BY <1>8, <1>9
<1>13. GwsIn(PlayerFixtures(t)) = GwsIn(PlayerFixtures(s))
  BY <1>10, <1>11
<1>14. ASSUME NEW p, NEW j \in Int, j < g
       PROVE  Games(PlayerFixtures(t), p, j) = Games(PlayerFixtures(s), p, j)
  <2>1. \A r : r \in Games(PlayerFixtures(t), p, j)
                <=> \E h \in s.histories : r = RowOf(s, dim(h)) /\ h.player = p /\ h.gw = j
    BY <1>3, <1>5, <1>7 DEF Games
  <2>2. \A r : r \in Games(PlayerFixtures(s), p, j)
                <=> \E h \in s.histories : r = RowOf(s, h) /\ h.player = p /\ h.gw = j
    BY <1>6, <1>7 DEF Games
  <2>3. \A h \in s.histories : h.gw = j => dim(h) = h
    BY <1>3, <1>14
  <2>4. \A r : r \in Games(PlayerFixtures(t), p, j) <=> r \in Games(PlayerFixtures(s), p, j)
    BY <2>1, <2>2, <2>3
  <2> QED
    BY <2>4
<1> QED
  BY <1>12, <1>13, <1>14 DEF GwRange, t

LEMMA BlindWindows ==
  ASSUME LayersHold, stage = "done", NEW g \in {k[2] : k \in DOMAIN table}, NEW p \in PlayersIn(base)
  PROVE  LET blind == Spine(source.events, PlayerFixtures(Blinded(source, g))) IN
           /\ \A n \in Windows : Roll(blind, p, g, n) = table[<<p, g>>].rolls[n]
           /\ MinutesTrend(blind, p, g) = table[<<p, g>>].trend
<1> DEFINE d == PlayerFixtures(Blinded(source, g))
<1>1. PICK k \in DOMAIN table : g = k[2]
  OBVIOUS
<1>2. /\ source \in Sources /\ base = PlayerFixtures(source) /\ spine = Spine(source.events, base) /\ WellBased(base)
      /\ base # {}
      /\ DOMAIN spine = PlayersIn(base) \X GwRange(base)
      /\ DOMAIN table = {x \in DOMAIN spine : x[2] <= Cut}
      /\ \A x \in DOMAIN table : table[x] = Features(spine)[x]
  BY FinishedMart
<1>3. GwRange(base) \subseteq Int /\ g \in GwRange(base) /\ g \in Int
  BY <1>1, <1>2, RangeOfBase
<1>4. <<p, g>> \in DOMAIN table
  BY <1>1, <1>2, <1>3
<1>5. /\ PlayersIn(d) = PlayersIn(base) /\ GwRange(d) = GwRange(base)
      /\ \A q, j : j \in Int /\ j < g => Games(d, q, j) = Games(base, q, j)
  BY <1>2, <1>3, BlindedGames
<1> HIDE DEF d
<1>6. SameBefore(Spine(source.events, d), Spine(source.events, base), p, g)
  BY <1>3, <1>5, SameGamesBefore
<1>7. /\ \A n \in Windows : Roll(Spine(source.events, d), p, g, n) = Roll(spine, p, g, n)
      /\ MinutesTrend(Spine(source.events, d), p, g) = MinutesTrend(spine, p, g)
  BY <1>2, <1>3, <1>6, SameLagged
<1>8. /\ table[<<p, g>>].rolls = [n \in Windows |-> Roll(spine, p, g, n)]
      /\ table[<<p, g>>].trend = MinutesTrend(spine, p, g)
  <2>1. <<p, g>> \in DOMAIN spine /\ table[<<p, g>>] = Features(spine)[<<p, g>>]
    BY <1>2, <1>4
  <2> QED
    BY <2>1 DEF Features
<1> QED
  BY <1>7, <1>8 DEF d

(* No lagged feature depends on what was played in its gameweek or later,    *)
(* whatever the database and the window lengths.                             *)
THEOREM LagsAreSafe == BuildSpec => []NoLookAhead
<1>1. LayersHold => NoLookAhead
  BY BlindWindows DEF NoLookAhead
<1> QED
  BY <1>1, LayersInit, LayersStep, PTL DEF BuildSpec

--------------------------------------------------------------------------------
(* The club of a row. *)
LEMMA OneClubPerWeek ==
  ASSUME LayersHold, stage = "done"
  PROVE  \A h, i \in source.histories :
           h.player = i.player /\ h.gw = i.gw => TeamOf(source, h) = TeamOf(source, i) /\ h.price = i.price
<1>1. Invariant(base) /\ base = PlayerFixtures(source)
  BY FinishedMart DEF SpineOutcome
<1>2. \A h \in source.histories : RowOf(source, h) \in base
  BY <1>1, FixtureRows
<1>3. \A h : /\ RowOf(source, h).player = h.player /\ RowOf(source, h).gw = h.gw
             /\ RowOf(source, h).team = TeamOf(source, h) /\ RowOf(source, h).price = h.price
  BY DEF RowOf
<1> QED
  BY <1>1, <1>2, <1>3 DEF Invariant

LEMMA ClubOfRow ==
  ASSUME LayersHold, stage = "done", NEW k \in DOMAIN table
  PROVE  LET yet == {h \in source.histories : h.player = k[1]} IN
         \E h \in yet :
           /\ table[k].row.team = TeamOf(source, h)
           /\ \/ h.gw <= k[2] /\ \A i \in yet : i.gw <= k[2] => i.gw <= h.gw
              \/ (\A i \in yet : ~(i.gw <= k[2])) /\ \A i \in yet : h.gw <= i.gw
<1> DEFINE p == k[1]
           g == k[2]
           known == Known(base, p, g)
<1>1. /\ source \in Sources /\ base = PlayerFixtures(source) /\ spine = Spine(source.events, base) /\ WellBased(base)
      /\ base # {} /\ k \in DOMAIN spine /\ table[k] = Features(spine)[k]
  BY FinishedMart
<1>2. p \in PlayersIn(base) /\ g \in Int /\ spine[k] = SpineRow(source.events, base, p, g)
  BY <1>1, SpineMinutes, RangeOfBase
<1>3. table[k].row.team = known.team
  <2>1. table[k].row = spine[k]
    BY <1>1 DEF Features
  <2> QED
    BY <1>2, <2>1 DEF SpineRow
<1>4. /\ known \in base /\ known.player = p
      /\ \/ known.gw <= g /\ \A q \in base : q.player = p /\ q.gw <= g => q.gw <= known.gw
         \/ /\ \A q \in base : q.player = p => g < q.gw
            /\ \A q \in base : q.player = p => known.gw <= q.gw
  BY <1>1, <1>2, KnownGame
<1> HIDE DEF known
<1>5. PICK h \in source.histories : known = RowOf(source, h)
  BY <1>1, <1>4, FixtureRows
<1>6. \A i \in source.histories : RowOf(source, i) \in base /\ i.gw \in Int
  BY <1>1, FixtureRows, LayersAssumption DEF HistoryRow
<1>7. \A i : RowOf(source, i).player = i.player /\ RowOf(source, i).gw = i.gw
             /\ RowOf(source, i).team = TeamOf(source, i)
  BY DEF RowOf
<1>8. \A i \in source.histories : i.player = p => (g < i.gw <=> ~(i.gw <= g))
  BY <1>2, <1>6
<1> QED
  BY <1>3, <1>4, <1>5, <1>6, <1>7, <1>8

(* A row shows the club of the player's latest game up to it, or of his      *)
(* first game when he has none yet, for every database.                      *)
THEOREM ClubsArePlayedFor == BuildSpec => []ClubChangesByPlaying
<1>1. LayersHold => ClubChangesByPlaying
  <2> SUFFICES ASSUME LayersHold, stage = "done", NEW k \in DOMAIN table
               PROVE  LET played == {h \in source.histories : h.player = k[1] /\ h.gw <= k[2]}
                          yet == {h \in source.histories : h.player = k[1]} IN
                      IF played # {}
                      THEN {table[k].row.team} = {TeamOf(source, h) : h \in {h \in played : \A i \in played : i.gw <= h.gw}}
                      ELSE {table[k].row.team} = {TeamOf(source, h) : h \in {h \in yet : \A i \in yet : h.gw <= i.gw}}
    BY DEF ClubChangesByPlaying, TeamOf
  <2> DEFINE yet == {h \in source.histories : h.player = k[1]}
             played == {h \in source.histories : h.player = k[1] /\ h.gw <= k[2]}
             latest == {h \in played : \A i \in played : i.gw <= h.gw}
             first == {h \in yet : \A i \in yet : h.gw <= i.gw}
  <2>1. PICK h \in yet :
          /\ table[k].row.team = TeamOf(source, h)
          /\ \/ h.gw <= k[2] /\ \A i \in yet : i.gw <= k[2] => i.gw <= h.gw
             \/ (\A i \in yet : ~(i.gw <= k[2])) /\ \A i \in yet : h.gw <= i.gw
    BY ClubOfRow
  <2>2. \A i, j \in yet : i.gw = j.gw => TeamOf(source, i) = TeamOf(source, j)
    BY OneClubPerWeek
  <2>3. \A i \in yet : i.gw \in Int
    BY LayersAssumption DEF LayersHold, HistoryRow
  <2>4. ASSUME played # {} PROVE {table[k].row.team} = {TeamOf(source, i) : i \in latest}
    <3>1. h \in latest
      BY <2>1, <2>4
    <3>2. \A i \in latest : i \in yet /\ h \in yet /\ i.gw = h.gw
      BY <2>3, <3>1
    <3>3. \A i \in latest : TeamOf(source, i) = table[k].row.team
      BY <2>1, <2>2, <3>2
    <3> HIDE DEF latest
    <3> QED
      BY <3>1, <3>3
  <2>5. ASSUME played = {} PROVE {table[k].row.team} = {TeamOf(source, i) : i \in first}
    <3>1. h \in first
      BY <2>1, <2>5
    <3>2. \A i \in first : i \in yet /\ h \in yet /\ i.gw = h.gw
      BY <2>3, <3>1
    <3>3. \A i \in first : TeamOf(source, i) = table[k].row.team
      BY <2>1, <2>2, <3>2
    <3> HIDE DEF first
    <3> QED
      BY <3>1, <3>3
  <2> QED
    BY <2>4, <2>5
<1> QED
  BY <1>1, LayersInit, LayersStep, PTL DEF BuildSpec
--------------------------------------------------------------------------------
(* A base cut at one of its gameweeks. *)
UpTo(b, c) == {r \in b : r.gw <= c}

LEMMA CutRange ==
  ASSUME NEW b, WellBased(b), NEW c \in GwsIn(b)
  PROVE  /\ c \in Int /\ b # {} /\ UpTo(b, c) # {} /\ WellBased(UpTo(b, c))
         /\ Min(GwsIn(UpTo(b, c))) = Min(GwsIn(b)) /\ Max(GwsIn(UpTo(b, c))) = c
         /\ c <= Max(GwsIn(b))
<1> DEFINE d == UpTo(b, c)
<1>1. PICK r \in b : r.gw = c
  BY DEF GwsIn
<1>2. c \in Int /\ r \in d
  BY <1>1 DEF WellBased, UpTo
<1>3. WellBased(d)
  <2>1. IsFiniteSet(d)
    BY FS_Subset DEF UpTo, WellBased
  <2> QED
    BY <2>1 DEF WellBased, UpTo
<1>4. \A q : q \in d <=> q \in b /\ q.gw <= c
  BY DEF UpTo
<1> HIDE DEF d
<1>5. /\ Min(GwsIn(d)) \in Int /\ Max(GwsIn(d)) \in Int /\ Min(GwsIn(b)) \in Int /\ Max(GwsIn(b)) \in Int
      /\ \A q \in d : Min(GwsIn(d)) <= q.gw /\ q.gw <= Max(GwsIn(d))
      /\ \A q \in b : Min(GwsIn(b)) <= q.gw /\ q.gw <= Max(GwsIn(b))
      /\ \E q \in d : q.gw = Min(GwsIn(d))
      /\ \E q \in d : q.gw = Max(GwsIn(d))
      /\ \E q \in b : q.gw = Min(GwsIn(b))
  BY <1>1, <1>2, <1>3, RangeOfBase
<1> DEFINE lod == Min(GwsIn(d))
           hid == Max(GwsIn(d))
           lob == Min(GwsIn(b))
           hib == Max(GwsIn(b))
<1> HIDE DEF lod, hid, lob, hib
<1>6. /\ lod \in Int /\ hid \in Int /\ lob \in Int /\ hib \in Int
      /\ \A q \in d : lod <= q.gw /\ q.gw <= hid
      /\ \A q \in b : lob <= q.gw /\ q.gw <= hib
      /\ \E q \in d : q.gw = lod
      /\ \E q \in d : q.gw = hid
      /\ \E q \in b : q.gw = lob
  BY <1>5 DEF lod, hid, lob, hib
<1>7. c <= hib /\ lob <= c
  BY <1>1, <1>6
<1>8. hid = c
  BY <1>1, <1>2, <1>4, <1>6
<1>9. lod = lob
  <2>1. PICK q \in b : q.gw = lob
    BY <1>6
  <2>2. q \in d
    BY <1>4, <1>7, <2>1
  <2>3. lod <= lob
    BY <1>6, <2>1, <2>2
  <2>4. lob <= lod
    BY <1>4, <1>6
  <2> QED
    BY <1>6, <2>3, <2>4
<1> QED
  BY <1>1, <1>2, <1>3, <1>7, <1>8, <1>9 DEF d, lod, hid, lob, hib

LEMMA CutGames ==
  ASSUME NEW b, WellBased(b), NEW c \in Int, NEW g \in Int, g <= c, NEW p
  PROVE  /\ Games(UpTo(b, c), p, g) = Games(b, p, g)
         /\ {r \in UpTo(b, c) : r.player = p /\ r.gw <= g} = {r \in b : r.player = p /\ r.gw <= g}
<1>1. \A r \in b : r.gw \in Int
  BY DEF WellBased
<1> QED
  BY <1>1 DEF Games, UpTo

(* A row up to the cut is the row of the cut base, but for its status. *)
LEMMA CutRow ==
  ASSUME NEW e, NEW f, NEW b, WellBased(b), Invariant(b), NEW c \in GwsIn(b),
         NEW p \in PlayersIn(UpTo(b, c)), NEW g \in Int, g <= c
  PROVE  SpineRow(f, UpTo(b, c), p, g) = [SpineRow(e, b, p, g) EXCEPT !.status = EventOf(f, g).status]
<1> DEFINE d == UpTo(b, c)
           x == Known(b, p, g)
           y == Known(d, p, g)
           before == {r \in b : r.player = p /\ r.gw <= g}
<1>1. c \in Int /\ WellBased(d)
  BY CutRange
<1>2. Games(d, p, g) = Games(b, p, g) /\ {r \in d : r.player = p /\ r.gw <= g} = before
  BY <1>1, CutGames
<1>3. ASSUME before # {} PROVE x = y
  <2>1. x = CHOOSE r \in before : \A q \in before : q.gw <= r.gw
    BY <1>3 DEF Known
  <2>2. y = CHOOSE r \in before : \A q \in before : q.gw <= r.gw
    <3> DEFINE own == {r \in d : r.player = p /\ r.gw <= g}
    <3>1. own # {}
      BY <1>2, <1>3
    <3>2. y = CHOOSE r \in own : \A q \in own : q.gw <= r.gw
      BY <3>1 DEF Known
    <3> HIDE DEF own, y, before
    <3> QED
      BY <1>2, <3>2 DEF own
  <2> QED
    BY <2>1, <2>2
<1>4. p \in PlayersIn(b)
  BY DEF UpTo, PlayersIn
<1>5. ASSUME before = {} PROVE Games(b, p, g) = {} /\ x.team = y.team /\ x.price = y.price /\ x.position = y.position
  <2>1. Games(b, p, g) = {}
    BY <1>5 DEF Games
  <2>2. /\ x \in b /\ x.player = p
        /\ \/ x.gw <= g
           \/ \A q \in b : q.player = p => x.gw <= q.gw
    BY <1>4, KnownGame
  <2>3. /\ y \in d /\ y.player = p
        /\ \/ y.gw <= g
           \/ \A q \in d : q.player = p => y.gw <= q.gw
    BY <1>1, KnownGame
  <2>4. \A q : q \in d <=> q \in b /\ q.gw <= c
    BY DEF UpTo
  <2>5. \A q \in b : q.player = p => ~(q.gw <= g)
    BY <1>5
  <2>6. \A q \in b : q.gw \in Int
    BY DEF WellBased
  <2> HIDE DEF x, y, d
  <2>7. x.gw <= y.gw /\ x \in d
    BY <1>1, <2>2, <2>3, <2>4, <2>5, <2>6
  <2>8. y.gw <= x.gw /\ y \in b
    BY <2>2, <2>3, <2>4, <2>5, <2>7
  <2>9. x.gw = y.gw
    BY <2>2, <2>6, <2>7, <2>8
  <2> QED
    BY <2>1, <2>2, <2>3, <2>8, <2>9 DEF Invariant, WellBased
<1>6. Cardinality(Games(b, p, g)) = 1 => before # {}
  <2>1. Games(b, p, g) = {} => Cardinality(Games(b, p, g)) = 0
    BY FS_EmptySet
  <2> QED
    BY <1>5, <2>1
<1>7. /\ x.team = y.team /\ x.price = y.price /\ x.position = y.position
      /\ Cardinality(Games(b, p, g)) = 1 => x.home = y.home
  BY <1>3, <1>5, <1>6
<1> DEFINE gs == Games(b, p, g)
<1>8. SpineRow(e, b, p, g) =
        [blank |-> gs = {}, double |-> Cardinality(gs) >= 2, minutes |-> IF gs = {} THEN Null ELSE Minutes(gs),
         home |-> IF Cardinality(gs) = 1 THEN x.home ELSE Null,
         homeGames |-> Cardinality({r \in gs : r.home}),
         team |-> x.team, price |-> x.price, position |-> x.position, status |-> EventOf(e, g).status]
  BY DEF SpineRow
<1>9. SpineRow(f, d, p, g) =
        [blank |-> gs = {}, double |-> Cardinality(gs) >= 2, minutes |-> IF gs = {} THEN Null ELSE Minutes(gs),
         home |-> IF Cardinality(gs) = 1 THEN y.home ELSE Null,
         homeGames |-> Cardinality({r \in gs : r.home}),
         team |-> y.team, price |-> y.price, position |-> y.position, status |-> EventOf(f, g).status]
  BY <1>2 DEF SpineRow
<1> HIDE DEF x, y, gs, d
<1>10. (IF Cardinality(gs) = 1 THEN x.home ELSE Null) = (IF Cardinality(gs) = 1 THEN y.home ELSE Null)
  BY <1>7 DEF gs
<1> QED
  BY <1>7, <1>8, <1>9, <1>10 DEF d

(* The gameweeks of a spine. *)
LEMMA WeeksOfSpine ==
  ASSUME NEW e, NEW b, PlayersIn(b) # {}
  PROVE  {k[2] : k \in DOMAIN Spine(e, b)} = GwRange(b)
<1>1. DOMAIN Spine(e, b) = PlayersIn(b) \X GwRange(b)
  BY DEF Spine
<1>2. \A P, R : P # {} => {k[2] : k \in P \X R} = R
  <2> SUFFICES ASSUME NEW P, NEW R, P # {} PROVE {k[2] : k \in P \X R} = R
    OBVIOUS
  <2>1. PICK q \in P : TRUE
    OBVIOUS
  <2>2. \A r \in R : <<q, r>> \in P \X R /\ <<q, r>>[2] = r
    BY <2>1
  <2>3. \A k \in P \X R : k[2] \in R
    OBVIOUS
  <2>4. \A r \in R : r \in {k[2] : k \in P \X R}
    BY <2>2
  <2> QED
    BY <2>3, <2>4
<1> QED
  BY <1>1, <1>2

(* The first gameweek of a spine. *)
LEMMA FirstOfSpine ==
  ASSUME NEW e, NEW b, WellBased(b), b # {}
  PROVE  FirstGw(Spine(e, b)) = Min(GwsIn(b))
<1> DEFINE lo == Min(GwsIn(b))
           hi == Max(GwsIn(b))
<1>1. lo \in Int /\ hi \in Int /\ GwRange(b) = lo..hi /\ GwRange(b) # {}
  BY RangeOfBase
<1>2. PlayersIn(b) # {}
  BY BaseGameweeks
<1>3. {k[2] : k \in DOMAIN Spine(e, b)} = GwRange(b)
  BY <1>2, WeeksOfSpine
<1> HIDE DEF lo, hi
<1>4. Min(lo..hi) = lo
  <2>1. lo \in lo..hi /\ \A z \in lo..hi : lo <= z
    BY <1>1
  <2>2. \A m \in lo..hi : (\A z \in lo..hi : m <= z) => m = lo
    BY <1>1
  <2> QED
    BY <2>1, <2>2 DEF Min
<1> QED
  BY <1>1, <1>3, <1>4 DEF FirstGw, lo

(* Before the cut nothing of a row but its status changes, its windows
   included. *)
LEMMA CutFeatures ==
  ASSUME NEW e, NEW f, NEW b, WellBased(b), Invariant(b), NEW c \in GwsIn(b),
         NEW k \in DOMAIN Spine(f, UpTo(b, c))
  PROVE  /\ k \in DOMAIN Spine(e, b)
         /\ Features(Spine(f, UpTo(b, c)))[k] = Redated(Features(Spine(e, b))[k], EventOf(f, k[2]).status)
<1> DEFINE d == UpTo(b, c)
           p == k[1]
           g == k[2]
           lo == Min(GwsIn(b))
           hi == Max(GwsIn(b))
<1>1. c \in Int /\ b # {} /\ d # {} /\ WellBased(d) /\ Min(GwsIn(d)) = lo /\ Max(GwsIn(d)) = c /\ c <= hi
  BY CutRange
<1>2. GwRange(b) = lo..hi /\ lo \in Int /\ hi \in Int /\ GwRange(d) = lo..c
  BY <1>1, RangeOfBase
<1>3. p \in PlayersIn(d) /\ g \in lo..c /\ k = <<p, g>> /\ Spine(f, d)[k] = SpineRow(f, d, p, g)
  <2>1. k \in DOMAIN Spine(f, d)
    OBVIOUS
  <2> HIDE DEF d, lo
  <2>2. /\ p \in PlayersIn(d) /\ g \in GwRange(d) /\ k = <<p, g>>
        /\ Spine(f, d)[k] = SpineRow(f, d, p, g)
    BY <2>1, SpineMinutes
  <2> QED
    BY <1>2, <2>2
<1> HIDE DEF lo, hi
<1>4. g \in Int /\ g <= c /\ g \in lo..hi
  BY <1>1, <1>2, <1>3
<1>5. p \in PlayersIn(b)
  BY <1>3 DEF PlayersIn, UpTo
<1>6. k \in DOMAIN Spine(e, b)
  BY <1>2, <1>3, <1>4, <1>5, SpineDomain
<1>7. Spine(e, b)[k] = SpineRow(e, b, p, g)
  BY <1>6, SpineMinutes
<1>8. Spine(f, d)[k] = [Spine(e, b)[k] EXCEPT !.status = EventOf(f, g).status]
  BY <1>3, <1>4, <1>7, CutRow
<1>9. SameBefore(Spine(f, d), Spine(e, b), p, g)
  <2>1. ASSUME NEW j \in Int, j < g
        PROVE  (j \in GwRange(d) <=> j \in GwRange(b)) /\ Games(d, p, j) = Games(b, p, j)
    <3>1. j <= c /\ (j \in lo..c <=> j \in lo..hi)
      BY <1>1, <1>2, <1>4, <2>1
    <3>2. Games(d, p, j) = Games(b, p, j)
      BY <1>1, <2>1, <3>1, CutGames
    <3> QED
      BY <1>2, <3>1, <3>2
  <2>2. GwRange(d) \subseteq Int
    BY <1>1, <1>2
  <2> HIDE DEF d
  <2> QED
    BY <1>3, <1>4, <1>5, <2>1, <2>2, SameGamesBefore
<1>10. /\ \A n \in Windows : Roll(Spine(f, d), p, g, n) = Roll(Spine(e, b), p, g, n)
       /\ MinutesTrend(Spine(f, d), p, g) = MinutesTrend(Spine(e, b), p, g)
  BY <1>4, <1>9, SameLagged
<1>11. FirstGw(Spine(f, d)) = FirstGw(Spine(e, b))
  <2>1. FirstGw(Spine(f, d)) = Min(GwsIn(d)) /\ FirstGw(Spine(e, b)) = Min(GwsIn(b))
    BY <1>1, FirstOfSpine
  <2> QED
    BY <1>1, <2>1 DEF lo
<1> DEFINE sd == Spine(f, d)
           sb == Spine(e, b)
           new == EventOf(f, g).status
           feature(row, rolls, trend, first) ==
             [row |-> row, rolls |-> rolls, trend |-> trend,
              context |-> IF row.blank THEN "BGW" ELSE IF row.double THEN "DGW" ELSE "SGW",
              warmup |-> g = first]
<1>12. \A sp : k \in DOMAIN sp => Features(sp)[k] =
          feature(sp[k], [n \in Windows |-> Roll(sp, p, g, n)], MinutesTrend(sp, p, g), FirstGw(sp))
  BY DEF Features
<1>13. k \in DOMAIN sd /\ k \in DOMAIN sb
  BY <1>6
<1>14. [n \in Windows |-> Roll(sd, p, g, n)] = [n \in Windows |-> Roll(sb, p, g, n)]
  BY <1>10
<1>15. [sb[k] EXCEPT !.status = new].blank = sb[k].blank /\ [sb[k] EXCEPT !.status = new].double = sb[k].double
  BY <1>7 DEF SpineRow
<1>16. \A row, rolls, trend, first :
         [row EXCEPT !.status = new].blank = row.blank /\ [row EXCEPT !.status = new].double = row.double =>
           feature([row EXCEPT !.status = new], rolls, trend, first) = Redated(feature(row, rolls, trend, first), new)
  BY DEF Redated
<1> HIDE DEF feature, sd, sb, new
<1>17. Features(sd)[k] = Redated(Features(sb)[k], new)
  <2> DEFINE rolls == [n \in Windows |-> Roll(sb, p, g, n)]
             trend == MinutesTrend(sb, p, g)
             first == FirstGw(sb)
  <2>1. sd[k] = [sb[k] EXCEPT !.status = new]
    BY <1>8 DEF sd, sb, new
  <2>2. MinutesTrend(sd, p, g) = trend /\ FirstGw(sd) = first
    BY <1>10, <1>11 DEF sd, sb
  <2>3. Features(sd)[k] = feature(sd[k], rolls, trend, first)
    BY <1>12, <1>13, <1>14, <2>2
  <2>4. Features(sb)[k] = feature(sb[k], rolls, trend, first)
    BY <1>12, <1>13
  <2> HIDE DEF rolls, trend, first
  <2> QED
    BY <1>15, <1>16, <2>1, <2>3, <2>4
<1> QED
  BY <1>6, <1>17 DEF sd, sb, d, new

LEMMA CutOutcome ==
  ASSUME NEW s, NEW b, WellBased(b), SpineOutcome(s, b) = "ok", NEW c \in GwsIn(b)
  PROVE  SpineOutcome(s, UpTo(b, c)) = "ok"
<1> DEFINE d == UpTo(b, c)
           lo == Min(GwsIn(b))
           hi == Max(GwsIn(b))
<1>1. /\ Invariant(b) /\ ~EventsFail(s) /\ GwRange(b) \subseteq EventGws(s)
      /\ ~\E r \in b : r.position = Null
      /\ ~\E r \in b : Cardinality(Games(b, r.player, r.gw)) > 2
  BY DEF SpineOutcome
<1>2. c \in Int /\ b # {} /\ d # {} /\ WellBased(d) /\ Min(GwsIn(d)) = lo /\ Max(GwsIn(d)) = c /\ c <= hi
  BY CutRange
<1>3. GwRange(b) = lo..hi /\ lo \in Int /\ hi \in Int /\ GwRange(d) = lo..c
  BY <1>2, RangeOfBase
<1>4. d \subseteq b /\ \A r \in d : r.gw <= c
  BY DEF UpTo
<1>5. Invariant(d)
  BY <1>1, <1>4 DEF Invariant
<1>6. GwRange(d) \subseteq EventGws(s)
  <2> HIDE DEF lo, hi
  <2>1. \A g \in lo..c : g \in lo..hi
    BY <1>2, <1>3
  <2> QED
    BY <1>1, <1>3, <2>1
<1>7. \A r \in d : Games(d, r.player, r.gw) = Games(b, r.player, r.gw)
  <2> TAKE r \in d
  <2>1. r.gw \in Int /\ r.gw <= c
    BY <1>2, <1>4 DEF WellBased
  <2> QED
    BY <1>2, <2>1, CutGames
<1>8. (~\E r \in d : r.position = Null) /\ ~\E r \in d : Cardinality(Games(d, r.player, r.gw)) > 2
  BY <1>1, <1>4, <1>7
<1> HIDE DEF d
<1>9. SpineOutcome(s, d) = "ok"
  BY <1>1, <1>2, <1>5, <1>6, <1>8 DEF SpineOutcome
<1> QED
  BY <1>9 DEF d

(* The events table of an earlier day differs in its status column alone. *)
LEMMA EarlierEvents ==
  ASSUME NEW s \in Sources, NEW c
  PROVE  /\ EventGws(AsOf(s, c)) = EventGws(s)
         /\ \A g \in EventGws(s) : EventOf(AsOf(s, c).events, g).status = StatusOn(c, g)
         /\ ~EventsFail(s) => ~EventsFail(AsOf(s, c))
<1> DEFINE t == AsOf(s, c)
           old(e) == [e EXCEPT !.status = StatusOn(c, e.gw)]
<1>1. /\ DOMAIN s = {"teams", "players", "fixtures", "events", "histories"}
      /\ \A e \in s.events : e = [x \in DOMAIN e |-> e[x]] /\ {"gw", "status"} \subseteq DOMAIN e
  BY LayersAssumption
<1>2. t.events = {old(e) : e \in s.events}
  BY <1>1 DEF AsOf
<1>3. \A e \in s.events : old(e).gw = e.gw /\ old(e).status = StatusOn(c, e.gw)
  BY <1>1
<1> HIDE DEF t, old
<1>4. EventGws(t) = EventGws(s)
  BY <1>2, <1>3 DEF EventGws
<1>5. ASSUME NEW g \in EventGws(s) PROVE EventOf(t.events, g).status = StatusOn(c, g)
  <2>1. \E e \in t.events : e.gw = g
    BY <1>4, <1>5 DEF EventGws
  <2>2. EventOf(t.events, g) \in t.events /\ EventOf(t.events, g).gw = g
    BY <2>1 DEF EventOf
  <2> QED
    BY <1>2, <1>3, <2>2
<1>6. Unique(s.events, {"gw"}) => Unique(t.events, {"gw"})
  BY <1>2, <1>3 DEF Unique
<1>7. s.events = {} <=> t.events = {}
  BY <1>2
<1> QED
  BY <1>4, <1>5, <1>6, <1>7 DEF EventsFail, t

LEMMA BaseAsOf ==
  ASSUME NEW s \in Sources, NEW c
  PROVE  PlayerFixtures(AsOf(s, c)) = UpTo(PlayerFixtures(s), c)
<1> DEFINE t == AsOf(s, c)
<1>1. DOMAIN s = {"teams", "players", "fixtures", "events", "histories"}
  BY LayersAssumption
<1>2. /\ t.histories = {h \in s.histories : h.gw <= c}
      /\ t.players = s.players /\ t.fixtures = s.fixtures
  BY <1>1 DEF AsOf
<1>3. \A h : RowOf(t, h) = RowOf(s, h)
  <2>1. \A p : PositionOf(t, p) = PositionOf(s, p)
    BY <1>2 DEF PositionOf
  <2>2. \A h : FixtureOf(t, h) = FixtureOf(s, h)
    BY <1>2 DEF FixtureOf, Scheduled
  <2>3. \A h : TeamOf(t, h) = TeamOf(s, h)
    BY <2>2 DEF TeamOf
  <2> HIDE DEF t
  <2> QED
    BY <2>1, <2>3 DEF RowOf
<1> HIDE DEF t
<1>4. \A r : r \in PlayerFixtures(t) <=> \E h \in s.histories : h.gw <= c /\ r = RowOf(s, h)
  BY <1>2, <1>3, FixtureRows
<1>5. \A h : RowOf(s, h).gw = h.gw
  BY DEF RowOf
<1>6. \A r : r \in UpTo(PlayerFixtures(s), c) <=> \E h \in s.histories : h.gw <= c /\ r = RowOf(s, h)
  BY <1>5, FixtureRows DEF UpTo
<1> QED
  BY <1>4, <1>6 DEF t

(* A mart cut at a gameweek is, the status of the gameweeks aside, the mart  *)
(* of the database as it was then, for every database and every cutoff: a    *)
(* replay reads what was known.                                              *)
THEOREM CutsGiveBackHistory == BuildSpec => []CutIsHistory
<1>1. LayersHold => CutIsHistory
  <2> SUFFICES ASSUME LayersHold, stage = "done", NEW c \in GwsIn(base)
               PROVE  LET then == AsOf(source, c)
                          rows == Features(Spine(then.events, PlayerFixtures(then))) IN
                        /\ SpineOutcome(then, PlayerFixtures(then)) = "ok"
                        /\ \A k \in DOMAIN rows \cap DOMAIN table :
                             rows[k] = Redated(table[k], StatusOn(c, k[2]))
    BY DEF CutIsHistory
  <2> DEFINE d == UpTo(base, c)
             then == AsOf(source, c)
             rows == Features(Spine(then.events, d))
  <2>1. /\ source \in Sources /\ base = PlayerFixtures(source) /\ spine = Spine(source.events, base)
        /\ WellBased(base) /\ SpineOutcome(source, base) = "ok"
        /\ \A k \in DOMAIN table : table[k] = Features(spine)[k]
    BY FinishedMart
  <2>2. PlayerFixtures(then) = d
    BY <2>1, BaseAsOf
  <2>3. /\ EventGws(then) = EventGws(source)
        /\ \A g \in EventGws(source) : EventOf(then.events, g).status = StatusOn(c, g)
        /\ ~EventsFail(source) => ~EventsFail(then)
    BY <2>1, EarlierEvents
  <2>4. Invariant(base) /\ ~EventsFail(source) /\ GwRange(base) \subseteq EventGws(source)
    BY <2>1 DEF SpineOutcome
  <2>5. SpineOutcome(source, d) = "ok"
    BY <2>1, CutOutcome
  <2> HIDE DEF d, then
  <2>6. SpineOutcome(then, d) = "ok"
    BY <2>3, <2>4, <2>5 DEF SpineOutcome
  <2>7. ASSUME NEW k \in DOMAIN rows, k \in DOMAIN table
        PROVE  rows[k] = Redated(table[k], StatusOn(c, k[2]))
    <3>1. k \in DOMAIN Spine(then.events, d)
      BY DEF Features
    <3>2. /\ k \in DOMAIN Spine(source.events, base)
          /\ rows[k] = Redated(Features(spine)[k], EventOf(then.events, k[2]).status)
      BY <2>1, <2>4, <3>1, CutFeatures DEF d
    <3>3. k[2] \in GwRange(base)
      BY <3>2, SpineMinutes
    <3> QED
      BY <2>1, <2>3, <2>4, <2>7, <3>2, <3>3
  <2> QED
    BY <2>2, <2>6, <2>7 DEF then
<1> QED
  BY <1>1, LayersInit, LayersStep, PTL DEF BuildSpec

--------------------------------------------------------------------------------
LEMMA FeatureRow ==
  ASSUME NEW sp, NEW k \in DOMAIN sp
  PROVE  Features(sp)[k].row = sp[k]
BY DEF Features

(* The minutes of a player's rows up to the cutoff are those of his games:   *)
(* his rows part the games by gameweek, and each game is one history row.    *)
LEMMA MinutesArrive ==
  ASSUME LayersHold, stage = "done", NEW p \in {h.player : h \in source.histories}
  PROVE  LET rows == {k \in DOMAIN table : k[1] = p /\ ~table[k].row.blank}
             played == {h \in source.histories : h.player = p /\ h.gw <= Cut} IN
           SumFunctionOnSet([k \in rows |-> table[k].row.minutes], rows)
             = SumFunctionOnSet([h \in played |-> h.minutes], played)
<1> DEFINE rows == {k \in DOMAIN table : k[1] = p /\ ~table[k].row.blank}
           played == {h \in source.histories : h.player = p /\ h.gw <= Cut}
           kept == {r \in base : r.player = p /\ r.gw <= Cut}
           row == [h \in played |-> RowOf(source, h)]
           part == [k \in rows |-> Games(base, k[1], k[2])]
           scored == [k \in rows |-> table[k].row.minutes]
           of == [r \in base |-> r.minutes]
           had == [h \in played |-> h.minutes]
<1>1. /\ source \in Sources /\ base = PlayerFixtures(source) /\ spine = Spine(source.events, base) /\ WellBased(base)
      /\ base # {}
      /\ DOMAIN spine = PlayersIn(base) \X GwRange(base)
      /\ DOMAIN table = {k \in DOMAIN spine : k[2] <= Cut}
      /\ \A k \in DOMAIN table : table[k] = Features(spine)[k]
  BY FinishedMart
<1>2. /\ IsFiniteSet(source.histories) /\ source.histories \subseteq HistoryRow
      /\ \A h \in source.histories : h.minutes # Null
  BY <1>1, LayersAssumption DEF LayersHold
<1>3. \A h \in source.histories : h.minutes \in Int /\ h.gw \in Int
  BY <1>2 DEF HistoryRow
<1>4. \A h : /\ RowOf(source, h).player = h.player /\ RowOf(source, h).gw = h.gw
             /\ RowOf(source, h).minutes = h.minutes
  BY DEF RowOf
<1>5. \A r : r \in base <=> \E h \in source.histories : r = RowOf(source, h)
  BY <1>1, FixtureRows
<1>6. kept = {row[h] : h \in played}
  <2>1. \A h \in played : row[h] = RowOf(source, h)
    OBVIOUS
  <2> HIDE DEF row
  <2>2. \A r : r \in kept <=> \E h \in played : r = row[h]
    BY <1>4, <1>5, <2>1
  <2> QED
    BY <2>2
<1>7. IsFiniteSet(played) /\ IsFiniteSet(kept) /\ IsFiniteSet(base)
  BY <1>1, <1>2, FS_Subset DEF WellBased
<1>8. IntOn(had, played) /\ IntOn(of, base)
  BY <1>3, <1>4, <1>5, <1>7 DEF IntOn
<1>9. \A h, i \in played : row[h] = row[i] => h = i
  <2> SUFFICES ASSUME NEW h \in played, NEW i \in played, RowOf(source, h) = RowOf(source, i) PROVE h = i
    OBVIOUS
  <2>1. /\ h.player = i.player /\ h.gw = i.gw /\ h.fixture = i.fixture /\ h.home = i.home
        /\ h.minutes = i.minutes /\ h.price = i.price
    BY DEF RowOf
  <2>2. h \in HistoryRow /\ i \in HistoryRow
    BY <1>2
  <2> QED
    BY <2>1, <2>2 DEF HistoryRow
<1>10. \A h \in played : of[row[h]] = had[h]
  BY <1>4, <1>5
<1>11. SumFunctionOnSet(of, kept) = SumFunctionOnSet(had, played)
  <2>1. SumFunctionOnSet(of, {row[h] : h \in played}) = SumFunctionOnSet(had, played)
    <3> HIDE DEF row, of, had, played
    <3> QED
      BY <1>8, <1>9, <1>10, SumRenamed
  <2> QED
    BY <1>6, <2>1
<1>12. \A k \in rows : /\ k \in DOMAIN spine /\ k[1] = p /\ k[2] <= Cut
                       /\ Games(base, k[1], k[2]) # {}
                       /\ scored[k] = Minutes(Games(base, k[1], k[2]))
  <2> TAKE k \in rows
  <2>1. k \in DOMAIN table /\ k \in DOMAIN spine /\ table[k].row = spine[k] /\ k[1] = p /\ k[2] <= Cut
    <3>1. k \in DOMAIN table /\ k \in DOMAIN spine /\ table[k] = Features(spine)[k]
      BY <1>1
    <3> QED
      BY <1>1, <3>1, FeatureRow
  <2>2. /\ spine[k].minutes = IF Games(base, k[1], k[2]) = {} THEN Null ELSE Minutes(Games(base, k[1], k[2]))
        /\ spine[k].blank = (Games(base, k[1], k[2]) = {})
    BY <1>1, <2>1, SpineMinutes
  <2> QED
    BY <2>1, <2>2
<1>13. ASSUME NEW k \in rows
       PROVE  IntOn(of, part[k]) /\ scored[k] = SumFunctionOnSet(of, part[k])
  <2> DEFINE gs == Games(base, k[1], k[2])
  <2>1. gs \subseteq base /\ part[k] = gs
    BY DEF Games
  <2>2. IntOn(of, gs)
    <3>1. IsFiniteSet(gs)
      BY <1>7, <2>1, FS_Subset
    <3>2. \A x \in gs : of[x] \in Int
      BY <1>8, <2>1 DEF IntOn
    <3> QED
      BY <3>1, <3>2 DEF IntOn
  <2>3. scored[k] = SumFunctionOnSet([r \in gs |-> r.minutes], gs)
    BY <1>12 DEF Minutes
  <2>4. SumFunctionOnSet([r \in gs |-> r.minutes], gs) = SumFunctionOnSet(of, gs)
    <3> DEFINE own == [r \in gs |-> r.minutes]
    <3>1. IsFiniteSet(gs) /\ \A r \in gs : own[r] = of[r]
      BY <2>1, <2>2 DEF IntOn
    <3> HIDE DEF own, of, gs
    <3>2. SumFunctionOnSet(own, gs) = SumFunctionOnSet(of, gs)
      BY <3>1, SumSame
    <3> QED
      BY <3>2 DEF own
  <2> QED
    BY <2>1, <2>2, <2>3, <2>4
<1>14. \A k, l \in rows : k # l => part[k] \cap part[l] = {}
  <2> SUFFICES ASSUME NEW k \in rows, NEW l \in rows, NEW r \in part[k], r \in part[l] PROVE k = l
    OBVIOUS
  <2>1. r.player = k[1] /\ r.gw = k[2] /\ r.player = l[1] /\ r.gw = l[2]
    BY DEF Games
  <2>2. k = <<k[1], k[2]>> /\ l = <<l[1], l[2]>>
    BY <1>1, <1>12
  <2> QED
    BY <2>1, <2>2
<1>15. ASSUME NEW r \in kept PROVE <<p, r.gw>> \in rows /\ r \in part[<<p, r.gw>>]
  <2> DEFINE k == <<p, r.gw>>
  <2>1. r.gw \in GwRange(base) /\ p \in PlayersIn(base)
    BY <1>1, RangeOfBase DEF PlayersIn
  <2>2. k \in DOMAIN spine /\ k[1] = p /\ k[2] = r.gw
    BY <1>1, <2>1
  <2>3. k \in DOMAIN table /\ r \in Games(base, k[1], k[2])
    BY <1>1, <2>2 DEF Games
  <2>4. table[k].row = spine[k] /\ spine[k].blank = (Games(base, k[1], k[2]) = {})
    <3>1. table[k].row = spine[k]
      <4>1. table[k] = Features(spine)[k] /\ k \in DOMAIN spine
        BY <1>1, <2>2, <2>3
      <4> QED
        BY <4>1, FeatureRow
    <3>2. spine[k].blank = (Games(base, k[1], k[2]) = {})
      BY <1>1, <2>2, SpineMinutes
    <3> QED
      BY <3>1, <3>2
  <2>5. ~table[k].row.blank
    BY <2>3, <2>4
  <2> QED
    BY <2>2, <2>3, <2>5
<1>16. kept = UNION {part[k] : k \in rows}
  <2>1. \A k \in rows : \A r \in part[k] : r \in kept
    BY <1>12 DEF Games
  <2> HIDE DEF rows, part, kept
  <2> QED
    BY <1>15, <2>1
<1>17. IsFiniteSet(rows)
  <2> DEFINE at == [r \in kept |-> <<p, r.gw>>]
  <2>1. IsFiniteSet({at[r] : r \in kept})
    <3> HIDE DEF at
    <3> QED
      BY <1>7, FiniteImage
  <2>2. \A k \in rows : k \in {at[r] : r \in kept}
    <3> TAKE k \in rows
    <3>1. PICK r \in Games(base, k[1], k[2]) : TRUE
      BY <1>12
    <3>2. r \in kept /\ k = <<p, r.gw>>
      BY <1>1, <1>12, <3>1 DEF Games
    <3> QED
      BY <3>2
  <2> QED
    BY <2>1, <2>2, FS_Subset
<1> HIDE DEF rows, part, scored, of, had, played, kept
<1>18. SumFunctionOnSet(scored, rows) = SumFunctionOnSet(of, UNION {part[k] : k \in rows})
  BY <1>13, <1>14, <1>17, SumOfSums
<1> QED
  BY <1>11, <1>16, <1>18 DEF rows, scored, had, played
--------------------------------------------------------------------------------
(* A regular database passes every check of every layer. *)
LEMMA AtMostOne ==
  ASSUME NEW S, \A x, y \in S : x = y
  PROVE  ~(Cardinality(S) > 1)
<1>1. CASE S = {}
  BY <1>1, FS_EmptySet
<1>2. CASE S # {}
  <2>1. PICK x \in S : TRUE
    BY <1>2
  <2>2. S = {x}
    BY <2>1
  <2>3. Cardinality({x}) = 1
    BY FS_Singleton
  <2> QED
    BY <2>2, <2>3
<1> QED
  BY <1>1, <1>2

LEMMA UniqueIds ==
  ASSUME NEW rows, Unique(rows, {"id"})
  PROVE  \A x, y \in rows : x["id"] = y["id"] => x = y
BY DEF Unique

LEMMA RegularJoins ==
  ASSUME NEW s \in Sources, Regular(s)
  PROVE  ~JoinsFail(s)
<1>1. Unique(s.teams, {"id"}) /\ Unique(s.players, {"id"}) /\ Unique(s.fixtures, {"id"})
  BY DEF Regular
<1>2. ASSUME NEW left, NEW f, NEW right, Unique(right, {"id"}) PROVE ~FansOut(left, f, right, "id")
  <2> SUFFICES ASSUME NEW x \in left PROVE ~(Cardinality({y \in right : y["id"] = x[f]}) > 1)
    BY DEF FansOut
  <2>1. \A y, z \in {y \in right : y["id"] = x[f]} : y = z
    BY <1>2, UniqueIds
  <2> DEFINE S == {y \in right : y["id"] = x[f]}
  <2> HIDE DEF S
  <2>2. ~(Cardinality(S) > 1)
    BY <2>1, AtMostOne DEF S
  <2> QED
    BY <2>2 DEF S
<1>3. /\ ~FansOut(s.fixtures, "home", s.teams, "id") /\ ~FansOut(s.fixtures, "away", s.teams, "id")
      /\ ~FansOut(s.histories, "player", s.players, "id")
  BY <1>1, <1>2
<1>4. Unique(Scheduled(s), {"id"})
  BY <1>1 DEF Unique, Scheduled
<1>5. \A h \in s.histories : \E f \in Scheduled(s) : f.id = h.fixture
  <2> TAKE h \in s.histories
  <2>1. PICK f \in s.fixtures : f.id = h.fixture /\ f.gw = h.gw
    BY DEF Regular
  <2>2. h.gw \in Int /\ Null \notin Int
    BY LayersAssumption DEF HistoryRow
  <2> QED
    BY <2>1, <2>2 DEF Scheduled
<1>6. Unique(s.histories, {"player", "gw", "fixture"})
  <2>1. Unique(s.histories, {"player", "fixture"})
    BY DEF Regular
  <2> QED
    BY <2>1 DEF Unique
<1> QED
  BY <1>3, <1>4, <1>5, <1>6 DEF JoinsFail

(* The fixture and the position of a history row. *)
LEMMA RegularRow ==
  ASSUME NEW s \in Sources, Regular(s), NEW h \in s.histories
  PROVE  /\ FixtureOf(s, h) \in s.fixtures /\ FixtureOf(s, h).id = h.fixture /\ FixtureOf(s, h).gw = h.gw
         /\ TeamOf(s, h) \in {FixtureOf(s, h).home, FixtureOf(s, h).away}
         /\ PositionOf(s, h.player) \in 1..4
         /\ h.gw \in EventGws(s)
         /\ h.gw > 0
<1>1. PICK f \in s.fixtures : f.id = h.fixture /\ f.gw = h.gw
  BY DEF Regular
<1>2. h.gw \in Int /\ Null \notin Int
  BY LayersAssumption DEF HistoryRow
<1>3. f \in Scheduled(s)
  BY <1>1, <1>2 DEF Scheduled
<1>4. FixtureOf(s, h) \in Scheduled(s) /\ FixtureOf(s, h).id = h.fixture
  BY <1>1, <1>3 DEF FixtureOf
<1>5. FixtureOf(s, h) \in s.fixtures
  BY <1>4 DEF Scheduled
<1>6. \A x, y \in s.fixtures : x["id"] = y["id"] => x = y
  BY UniqueIds DEF Regular
<1>7. FixtureOf(s, h) = f
  BY <1>1, <1>4, <1>5, <1>6
<1>8. TeamOf(s, h) \in {FixtureOf(s, h).home, FixtureOf(s, h).away}
  BY DEF TeamOf
<1>9. PositionOf(s, h.player) \in 1..4
  <2>1. PICK x \in s.players : x.id = h.player /\ x.position \in 1..4
    BY DEF Regular
  <2>2. \A y, z \in s.players : y["id"] = z["id"] => y = z
    BY UniqueIds DEF Regular
  <2> DEFINE y == CHOOSE y \in s.players : y.id = h.player
  <2>3. y \in s.players /\ y.id = h.player
    BY <2>1
  <2>4. PositionOf(s, h.player) = y.position
    BY <2>1 DEF PositionOf
  <2> HIDE DEF y
  <2>5. y = x
    BY <2>1, <2>2, <2>3
  <2> QED
    BY <2>1, <2>4, <2>5
<1>10. h.gw \in EventGws(s) /\ h.gw > 0
  BY DEF Regular, EventGws
<1> QED
  BY <1>1, <1>4, <1>5, <1>7, <1>8, <1>9, <1>10

(* At most two games a gameweek: a player's games are fixtures of his club. *)
LEMMA RegularGames ==
  ASSUME NEW s \in Sources, Regular(s), NEW r \in PlayerFixtures(s)
  PROVE  ~(Cardinality(Games(PlayerFixtures(s), r.player, r.gw)) > 2)
<1> DEFINE b == PlayerFixtures(s)
           p == r.player
           g == r.gw
           club == r.team
           gs == Games(b, p, g)
           fs == {f \in s.fixtures : f.gw = g /\ club \in {f.home, f.away}}
           fixture == [x \in gs |-> CHOOSE f \in fs : f.id = x.fixture]
<1>1. \A h : /\ RowOf(s, h).player = h.player /\ RowOf(s, h).gw = h.gw /\ RowOf(s, h).fixture = h.fixture
             /\ RowOf(s, h).team = TeamOf(s, h)
  BY DEF RowOf
<1>2. \A x : x \in gs <=> \E h \in s.histories : x = RowOf(s, h) /\ h.player = p /\ h.gw = g
  BY <1>1, FixtureRows DEF Games
<1>3. PICK i \in s.histories : r = RowOf(s, i)
  BY FixtureRows
<1>4. \A h \in s.histories : h.player = p /\ h.gw = g => TeamOf(s, h) = club
  BY <1>1, <1>3 DEF Regular
<1>5. \A x \in gs : \E f \in fs : f.id = x.fixture
  <2> TAKE x \in gs
  <2>1. PICK h \in s.histories : x = RowOf(s, h) /\ h.player = p /\ h.gw = g
    BY <1>2
  <2>2. FixtureOf(s, h) \in fs /\ FixtureOf(s, h).id = x.fixture
    BY <1>1, <1>4, <2>1, RegularRow
  <2> QED
    BY <2>2
<1>6. \A x, y \in gs : x.fixture = y.fixture => x = y
  <2> SUFFICES ASSUME NEW x \in gs, NEW y \in gs, x.fixture = y.fixture PROVE x = y
    OBVIOUS
  <2>1. PICK h \in s.histories : x = RowOf(s, h) /\ h.player = p
    BY <1>2
  <2>2. PICK j \in s.histories : y = RowOf(s, j) /\ j.player = p
    BY <1>2
  <2>3. h["fixture"] = j["fixture"] /\ h["player"] = j["player"]
    BY <1>1, <2>1, <2>2
  <2>4. Unique(s.histories, {"player", "fixture"})
    BY DEF Regular
  <2>5. h = j
    BY <2>3, <2>4 DEF Unique
  <2> QED
    BY <2>1, <2>2, <2>5
<1>7. \A x \in gs : fixture[x] \in fs /\ fixture[x].id = x.fixture
  <2> HIDE DEF gs, fs
  <2> QED
    BY <1>5
<1>8. fixture \in Injection(gs, fs)
  <2>1. fixture \in [gs -> fs]
    <3> HIDE DEF gs, fs
    <3> QED
      BY <1>7
  <2>2. \A x, y \in gs : fixture[x] = fixture[y] => x = y
    <3> HIDE DEF fixture
    <3> QED
      BY <1>6, <1>7
  <2> HIDE DEF fixture, gs, fs
  <2> QED
    BY <2>1, <2>2 DEF Injection, IsInjective
<1>9. IsFiniteSet(fs)
  <2>1. IsFiniteSet(s.fixtures)
    BY LayersAssumption
  <2> QED
    BY <2>1, FS_Subset
<1>10. Cardinality(fs) <= 2
  <2>1. FixtureOf(s, i) \in s.fixtures /\ club \in {FixtureOf(s, i).home, FixtureOf(s, i).away} /\ g \in EventGws(s)
    BY <1>1, <1>3, RegularRow
  <2>2. club \in {x.id : x \in s.teams}
    BY <2>1 DEF Regular
  <2> QED
    BY <2>1, <2>2 DEF Regular
<1>11. Cardinality(gs) <= Cardinality(fs) /\ Cardinality(gs) \in Nat /\ Cardinality(fs) \in Nat
  <2> HIDE DEF fixture, gs, fs
  <2> QED
    BY <1>8, <1>9, FS_Injection, FS_CardinalityType
<1> HIDE DEF gs, fs
<1>12. ~(Cardinality(gs) > 2)
  BY <1>10, <1>11
<1> QED
  BY <1>12 DEF gs

LEMMA RegularEvents ==
  ASSUME NEW s \in Sources, Regular(s)
  PROVE  /\ ~EventsFail(s)
         /\ \A d, e \in EventGws(s) : d..e \subseteq EventGws(s)
<1>1. IsFiniteSet(s.events) /\ \A e \in s.events : e.gw \in Int
  BY LayersAssumption
<1>2. \A d, e \in EventGws(s) : d..e \subseteq EventGws(s)
  BY DEF Regular, EventGws
<1>3. ASSUME s.events # {} PROVE EventGws(s) = Min(EventGws(s))..Max(EventGws(s))
  <2> DEFINE gw == [e \in s.events |-> e.gw]
             S == EventGws(s)
             lo == Min(S)
             hi == Max(S)
  <2>1. S = {gw[e] : e \in s.events}
    BY DEF EventGws
  <2>2. IsFiniteSet({gw[e] : e \in s.events})
    <3> HIDE DEF gw
    <3> QED
      BY <1>1, FiniteImage
  <2>3. \A y \in S : y \in Int
    BY <1>1 DEF EventGws
  <2>4. SomeInts(S)
    BY <1>3, <2>1, <2>2, <2>3 DEF SomeInts, EventGws
  <2> HIDE DEF S
  <2>5. lo \in S /\ hi \in S /\ (\A y \in S : lo <= y) /\ \A y \in S : y <= hi
    BY <2>4, Extremes
  <2>6. lo..hi \subseteq S
    BY <1>2, <2>5 DEF S
  <2> HIDE DEF lo, hi
  <2>7. \A y \in S : y \in lo..hi
    BY <2>3, <2>5
  <2>8. S = lo..hi
    BY <2>6, <2>7
  <2> QED
    BY <2>8 DEF S, lo, hi
<1>4. Unique(s.events, {"gw"})
  BY DEF Regular
<1> QED
  BY <1>2, <1>3, <1>4 DEF EventsFail

LEMMA RegularSpine ==
  ASSUME NEW s \in Sources, Regular(s)
  PROVE  /\ SpineOutcome(s, PlayerFixtures(s)) = "ok"
         /\ \A r \in PlayerFixtures(s) : r.gw > 0 /\ r.position \in 1..4
<1> DEFINE b == PlayerFixtures(s)
<1>1. \A h : /\ RowOf(s, h).player = h.player /\ RowOf(s, h).gw = h.gw /\ RowOf(s, h).price = h.price
             /\ RowOf(s, h).team = TeamOf(s, h) /\ RowOf(s, h).position = PositionOf(s, h.player)
  BY DEF RowOf
<1>2. \A r : r \in b <=> \E h \in s.histories : r = RowOf(s, h)
  BY FixtureRows
<1>3. WellBased(b) /\ b # {}
  <2>1. IsFiniteSet(s.histories) /\ s.histories \subseteq HistoryRow
    BY LayersAssumption
  <2>2. s.histories # {}
    BY DEF Regular
  <2> QED
    BY <1>2, <2>1, <2>2, BaseIsWell
<1>4. \A r \in b : r.gw > 0 /\ r.position \in 1..4 /\ r.gw \in EventGws(s)
  BY <1>1, <1>2, RegularRow
<1>5. Invariant(b)
  <2>1. \A h, i \in s.histories : i.player = h.player /\ i.gw = h.gw => TeamOf(s, i) = TeamOf(s, h) /\ i.price = h.price
    BY DEF Regular
  <2> HIDE DEF b
  <2> QED
    BY <1>1, <1>2, <2>1 DEF Invariant
<1>6. GwRange(b) \subseteq EventGws(s)
  <2>1. /\ \E r \in b : r.gw = Min(GwsIn(b))
        /\ \E r \in b : r.gw = Max(GwsIn(b))
        /\ GwRange(b) = Min(GwsIn(b))..Max(GwsIn(b))
    BY <1>3, RangeOfBase
  <2>2. Min(GwsIn(b)) \in EventGws(s) /\ Max(GwsIn(b)) \in EventGws(s)
    BY <1>4, <2>1
  <2> QED
    BY <2>1, <2>2, RegularEvents
<1>7. ~\E r \in b : r.position = Null
  BY <1>4, LayersAssumption
<1>8. ~\E r \in b : Cardinality(Games(b, r.player, r.gw)) > 2
  BY RegularGames
<1>9. ~EventsFail(s)
  BY RegularEvents
<1> HIDE DEF b
<1>10. SpineOutcome(s, b) = "ok"
  BY <1>3, <1>5, <1>6, <1>7, <1>8, <1>9 DEF SpineOutcome
<1> QED
  BY <1>4, <1>10 DEF b

LEMMA LastOfSpine ==
  ASSUME NEW e, NEW b, WellBased(b), b # {}
  PROVE  DefaultCutoff(Spine(e, b)) \in GwRange(b)
<1> DEFINE lo == Min(GwsIn(b))
           hi == Max(GwsIn(b))
<1>1. lo \in Int /\ hi \in Int /\ GwRange(b) = lo..hi /\ GwRange(b) # {} /\ PlayersIn(b) # {}
  BY RangeOfBase, BaseGameweeks
<1>2. {k[2] : k \in DOMAIN Spine(e, b)} = GwRange(b)
  BY <1>1, WeeksOfSpine
<1> HIDE DEF lo, hi
<1>3. SomeInts(GwRange(b))
  <2>1. IsFiniteSet(lo..hi) /\ lo..hi \subseteq Int
    BY <1>1, FS_Interval
  <2> QED
    BY <1>1, <2>1 DEF SomeInts
<1>4. Max(GwRange(b)) \in GwRange(b)
  BY <1>3, Extremes
<1> QED
  BY <1>2, <1>4 DEF DefaultCutoff

LEMMA RegularMart ==
  ASSUME LayersHold, stage = "feat", Regular(source), cutoff = Null \/ cutoff > 0
  PROVE  Cut > 0 /\ Governed(CutAt(Features(spine), Cut))
<1>1. /\ source \in Sources /\ base = PlayerFixtures(source) /\ spine = Spine(source.events, base)
      /\ SpineOutcome(source, base) = "ok" /\ cutoff \in CutPoints \cup {Null}
  BY DEF LayersHold
<1>2. WellBased(base) /\ base # {}
  <2>1. IsFiniteSet(source.histories) /\ source.histories \subseteq HistoryRow
    BY <1>1, LayersAssumption
  <2> QED
    BY <1>1, <2>1, BaseIsWell DEF SpineOutcome
<1>3. \A r \in base : r.gw > 0 /\ r.position \in 1..4
  BY <1>1, RegularSpine
<1>4. Cut > 0
  <2>1. CASE cutoff = Null
    <3>1. DefaultCutoff(spine) \in GwRange(base)
      BY <1>1, <1>2, LastOfSpine
    <3>2. /\ Min(GwsIn(base)) \in Int /\ Max(GwsIn(base)) \in Int
          /\ GwRange(base) = Min(GwsIn(base))..Max(GwsIn(base))
          /\ \E r \in base : r.gw = Min(GwsIn(base))
      BY <1>2, RangeOfBase
    <3> DEFINE lo == Min(GwsIn(base))
               hi == Max(GwsIn(base))
    <3>3. lo > 0
      BY <1>3, <3>2
    <3> HIDE DEF lo, hi
    <3>4. DefaultCutoff(spine) > 0
      BY <3>1, <3>2, <3>3 DEF lo, hi
    <3> QED
      BY <2>1, <3>4 DEF Cut
  <2>2. CASE cutoff # Null
    BY <2>2 DEF Cut
  <2> QED
    BY <2>1, <2>2
<1>5. ASSUME NEW k \in DOMAIN CutAt(Features(spine), Cut)
      PROVE  CutAt(Features(spine), Cut)[k].row.position \in 1..4
  <2>1. DOMAIN Features(spine) = DOMAIN spine
    BY DEF Features
  <2>2. k \in DOMAIN spine /\ CutAt(Features(spine), Cut)[k] = Features(spine)[k]
    BY <2>1, <1>5 DEF CutAt, Restrict
  <2>3. CutAt(Features(spine), Cut)[k].row = spine[k]
    BY <2>2, FeatureRow
  <2>4. k[1] \in PlayersIn(base) /\ k[2] \in Int /\ spine[k] = SpineRow(source.events, base, k[1], k[2])
    BY <1>1, <1>2, <2>2, SpineMinutes, RangeOfBase
  <2>5. Known(base, k[1], k[2]) \in base
    BY <1>2, <2>4, KnownGame
  <2>6. spine[k].position = Known(base, k[1], k[2]).position
    BY <2>4 DEF SpineRow
  <2> QED
    BY <1>3, <2>3, <2>5, <2>6
<1>6. Governed(CutAt(Features(spine), Cut))
  BY <1>5 DEF Governed
<1> QED
  BY <1>4, <1>6

NotRefused == Regular(source) /\ (cutoff = Null \/ cutoff > 0) => stage \notin {"violation", "error"}

LEMMA NeverRefused == LayersHold /\ NotRefused /\ [BuildNext]_buildVars => NotRefused'
<1> SUFFICES ASSUME LayersHold, NotRefused, [BuildNext]_buildVars,
                    Regular(source)', (cutoff = Null \/ cutoff > 0)'
             PROVE  stage' \notin {"violation", "error"}
  BY DEF NotRefused
<1>1. source' = source /\ cutoff' = cutoff
  BY DEF BuildNext, Stage, Integrate, BuildSpine, BuildMart, buildVars
<1>2. Regular(source)
  BY <1>1
<1>3. (cutoff = Null \/ cutoff > 0) /\ source \in Sources
  BY <1>1 DEF LayersHold
<1>4. stage \notin {"violation", "error"}
  BY <1>2, <1>3 DEF NotRefused
<1>5. CASE Stage
  <2>1. ~\E h \in source.histories : h.minutes = Null
    BY <1>2 DEF Regular
  <2> QED
    BY <1>5, <2>1 DEF Stage, Advance
<1>6. CASE Integrate
  <2>1. ~JoinsFail(source)
    BY <1>2, <1>3, RegularJoins
  <2> QED
    BY <1>6, <2>1 DEF Integrate, Advance
<1>7. CASE BuildSpine
  <2>1. base = PlayerFixtures(source)
    BY <1>7 DEF BuildSpine, LayersHold
  <2>2. SpineOutcome(source, base) = "ok"
    BY <1>2, <1>3, <2>1, RegularSpine
  <2> QED
    BY <1>7, <2>2 DEF BuildSpine, Advance
<1>8. CASE BuildMart
  <2>1. Cut > 0 /\ Governed(CutAt(Features(spine), Cut))
    BY <1>2, <1>3, <1>8, RegularMart DEF BuildMart
  <2>2. Cut \in Int
    <3>1. source \in Sources /\ base = PlayerFixtures(source) /\ spine = Spine(source.events, base)
          /\ SpineOutcome(source, base) = "ok" /\ cutoff \in CutPoints \cup {Null}
      BY <1>8 DEF LayersHold, BuildMart
    <3>2. IsFiniteSet(source.histories) /\ source.histories \subseteq HistoryRow
      BY <3>1, LayersAssumption
    <3>3. WellBased(base) /\ base # {}
      BY <3>1, <3>2, BaseIsWell DEF SpineOutcome
    <3>4. GwRange(base) \subseteq Int
      BY <3>3, RangeOfBase
    <3>5. DefaultCutoff(spine) \in Int
      BY <3>1, <3>3, <3>4, LastOfSpine
    <3> QED
      BY <3>1, <3>5, LayersAssumption DEF Cut
  <2>3. ~(Cut <= 0)
    BY <2>1, <2>2
  <2>4. stage' = "done"
    BY <1>8, <2>1, <2>3 DEF BuildMart, Advance, Cut
  <2> QED
    BY <2>4
<1>9. CASE UNCHANGED buildVars
  BY <1>4, <1>9 DEF buildVars
<1> QED
  BY <1>5, <1>6, <1>7, <1>8, <1>9 DEF BuildNext

(* A regular database is never refused, players and gameweeks are crossed     *)
(* without a gap, and every minute played up to the cutoff arrives once.      *)
THEOREM MinutesAreConserved == BuildSpec => []MinutesConserved
<1>1. BuildInit => NotRefused
  BY DEF BuildInit, NotRefused
<1>2. LayersHold /\ NotRefused => MinutesConserved
  <2> SUFFICES ASSUME LayersHold, stage = "done"
               PROVE  /\ DOMAIN spine = PlayersIn(base) \X GwRange(base)
                      /\ \A p \in {h.player : h \in source.histories} :
                           LET rows == {k \in DOMAIN table : k[1] = p /\ ~table[k].row.blank}
                               played == {h \in source.histories : h.player = p /\ h.gw <= Cut} IN
                             SumFunctionOnSet([k \in rows |-> table[k].row.minutes], rows)
                               = SumFunctionOnSet([h \in played |-> h.minutes], played)
    BY DEF MinutesConserved, NotRefused, Cut
  <2>1. DOMAIN spine = PlayersIn(base) \X GwRange(base)
    BY FinishedMart
  <2> QED
    BY <2>1, MinutesArrive
<1> QED
  BY <1>1, <1>2, LayersInit, LayersStep, NeverRefused, PTL DEF BuildSpec
================================================================================

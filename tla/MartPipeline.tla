----------------------------- MODULE MartPipeline -----------------------------
(***************************************************************************)
(* dal/pipeline.py: run() builds the mart through the five layers, writes  *)
(* it to <mart>.tmp, renames it over the live path and only then records   *)
(* the manifest; load() reads the manifest, then the mart.  Nothing is     *)
(* locked: crashes, a concurrent ingest into the source DB, code changes   *)
(* between processes and loads fall between any two file operations.       *)
(*                                                                         *)
(* One mart path and one manifest path are watched, and the loads of that  *)
(* pair.  A run() may be given both, or one of them with another path for  *)
(* the other file: such a call moves half of the pair.  What the files at  *)
(* other paths hold is left open.                                          *)
(*                                                                         *)
(* Abstraction: a DB version is named by the last gameweek it holds and    *)
(* stands for its sha256; versions only grow.  A schema fingerprint is the *)
(* code version that produced the frame.  A file keeps an inode identity   *)
(* as far as an open write handle can tell (handle).  The cutoff of a      *)
(* run() is left out: no condition here reads it back (see DalLayers).     *)
(***************************************************************************)
EXTENDS Naturals

CONSTANTS Runners,       \* processes calling run()
          Loaders,       \* processes calling load()
          NumEntities,   \* entity reads of the staging layer (six in the code)
          NumLayers,     \* layers after staging (four in the code)
          SingleWriter,  \* run() calls never overlap (the documented assumption)
          None,          \* no file
          Torn,          \* a manifest that is not JSON
          MaxDb,         \* bound: last DB version ingested
          MaxCode,       \* bound: last code version deployed
          MaxFaults      \* bound: crashes and failed layers

ASSUME PipelineAssumption ==
  /\ NumEntities \in Nat \ {0}
  /\ NumLayers \in Nat \ {0}
  /\ SingleWriter \in BOOLEAN
  /\ MaxDb \in Nat
  /\ MaxCode \in Nat
  /\ MaxFaults \in Nat

NotGiven == 0            \* no schema recorded

(* Which of the two watched paths a run() resolves its mart_path and        *)
(* manifest_path to: both, the mart's alone, the manifest's alone.          *)
Calls == {"pair", "mart", "manifest"}

(* A parquet file: the first and last DB version its rows were read from,  *)
(* the schema, whether it is complete, and whether two handles were ever   *)
(* writing it at once.                                                     *)
Build == [lo : Nat, hi : Nat, schema : Nat, whole : BOOLEAN, shared : BOOLEAN]

(* names: the mart_path it records is the watched one. *)
Manifest == [hash : Nat, status : {"OK", "FAIL"}, schema : Nat, names : BOOLEAN]

ASSUME NoneIsNoFile == None \notin Build \cup Manifest
ASSUME TornIsNoManifest == Torn \notin Manifest /\ Torn # None

Job == [call : Calls, force : BOOLEAN, schema : Nat, hash : Nat,
        reads : 0..NumEntities, lo : Nat, hi : Nat, layer : 0..NumLayers,
        outcome : {"OK", "violation", "error"}]

VARIABLES db,         \* version of the source database
          code,       \* version of the deployed code
          mart,       \* the file at the live mart path
          tmp,        \* the file at the .tmp path
          manifest,   \* the manifest file
          pc,         \* where each run() is
          job,        \* the locals of each run()
          handle,     \* which path, if any, names the file a run() is writing
          seen,       \* the manifest each load() under way has parsed
          condemned,  \* history: the live mart was there when a violation was recorded
          served,     \* history: the last visible build
          faults      \* faults so far

world == <<db, code>>
files == <<mart, tmp, manifest>>
runner == <<pc, job, handle>>
history == <<condemned, served>>
vars == <<db, code, mart, tmp, manifest, pc, job, handle, seen, condemned,
          served, faults>>

RunnerPcs == {"idle", "clean", "hash", "consult", "hit", "stage", "build",
              "open", "writing", "rename", "truncate", "complete", "drop"}

NoJob == [call |-> "pair", force |-> FALSE, schema |-> 0, hash |-> 0,
          reads |-> 0, lo |-> 0, hi |-> 0, layer |-> 0, outcome |-> "OK"]

TypeOK ==
  /\ db \in Nat /\ code \in Nat /\ faults \in Nat
  /\ mart \in Build \cup {None}
  /\ tmp \in Build \cup {None}
  /\ manifest \in Manifest \cup {None, Torn}
  /\ pc \in [Runners -> RunnerPcs]
  /\ job \in [Runners -> Job]
  /\ handle \in [Runners -> {"none", "tmp", "mart", "lost"}]
  /\ seen \in [Loaders -> Manifest \cup {None}]
  /\ condemned \in BOOLEAN
  /\ served \in Build \cup {None}

Init ==
  /\ db = 1 /\ code = 1 /\ faults = 0
  /\ mart = None /\ tmp = None /\ manifest = None
  /\ pc = [r \in Runners |-> "idle"]
  /\ job = [r \in Runners |-> NoJob]
  /\ handle = [r \in Runners |-> "none"]
  /\ seen = [l \in Loaders |-> None]
  /\ condemned = FALSE
  /\ served = None

--------------------------------------------------------------------------------
(* The environment. *)

(* The ingest (outside this repository) commits a new database version. *)
Ingest ==
  /\ db < MaxDb
  /\ db' = db + 1
  /\ UNCHANGED <<code, files, runner, seen, history, faults>>

(* A deployment changes the columns or dtypes of the mart. *)
CodeChange ==
  /\ code < MaxCode
  /\ code' = code + 1
  /\ UNCHANGED <<db, files, runner, seen, history, faults>>

--------------------------------------------------------------------------------
(* What a manifest says. *)

(* _load_manifest: an absent or unparsable file is None. *)
LoadManifest == IF manifest = Torn THEN None ELSE manifest

(* Three of the four conditions of a cache hit; the mart_path a manifest    *)
(* records is not compared with the one asked for.                          *)
Answers(m, hash) ==
  /\ m # None
  /\ m.hash = hash
  /\ m.status = "OK"
  /\ m.schema # NotGiven

(* With the fourth, for a call on the watched pair. *)
CacheValid(m, hash) == Answers(m, hash) /\ mart # None

(* load() goes past the manifest only if it parses and no layer failed. *)
Usable(m) == m # None /\ m.status = "OK"

(* read_parquet succeeds and the frame has the schema the manifest records. *)
Accepts(m, b) == b # None /\ b.whole /\ b.schema = m.schema

Loadable == Usable(LoadManifest) /\ Accepts(LoadManifest, mart)

(* The manifest is the record of a build for the watched mart path. *)
Names(m) == m # None /\ m.names

(* What load() offers of the mart its manifest was written for. *)
Visible == IF Loadable /\ Names(LoadManifest) THEN mart ELSE None

--------------------------------------------------------------------------------
(* run(). *)

Goto(r, label) == pc' = [pc EXCEPT ![r] = label]

(* run() returns or raises, or its process dies: its locals are gone. *)
End(r) == Goto(r, "idle") /\ job' = [job EXCEPT ![r] = NoJob]

Idle(r) == pc[r] = "idle"

(* The file operations of r on its mart path, and on its manifest path, are *)
(* operations on the watched ones.                                          *)
OnMart(r) == job[r].call # "manifest"
OnManifest(r) == job[r].call # "mart"

(* A call of run(); the process has the code deployed when it starts. *)
Start(r, force, call) ==
  /\ Idle(r)
  /\ SingleWriter => \A q \in Runners : Idle(q)
  /\ job' = [job EXCEPT ![r] =
               [NoJob EXCEPT !.call = call, !.force = force, !.schema = code]]
  /\ Goto(r, "clean")
  /\ UNCHANGED <<world, files, handle, seen, history, faults>>

(* Mutant: a .tmp that a dead run left behind is refused, as a lock would be. *)
CleanTmpRefused(r) ==
  /\ pc[r] = "clean"
  /\ IF OnMart(r) /\ tmp # None THEN End(r) ELSE Goto(r, "hash") /\ UNCHANGED job
  /\ UNCHANGED <<world, files, handle, seen, history, faults>>

(* Unlink a stale .tmp; a handle still writing it then names no path. *)
CleanTmp(r) ==
  /\ pc[r] = "clean"
  /\ tmp' = IF OnMart(r) THEN None ELSE tmp
  /\ handle' = [q \in Runners |->
                  IF OnMart(r) /\ handle[q] = "tmp" THEN "lost" ELSE handle[q]]
  /\ Goto(r, "hash")
  /\ UNCHANGED <<world, mart, manifest, job, seen, history, faults>>

HashDb(r) ==
  /\ pc[r] = "hash"
  /\ job' = [job EXCEPT ![r].hash = db]
  /\ Goto(r, "consult")
  /\ UNCHANGED <<world, files, handle, seen, history, faults>>

(* The conditions of a hit, as far as the watched files decide them. *)
MayHit(r) ==
  /\ OnManifest(r) => Answers(LoadManifest, job[r].hash)
  /\ OnMart(r) => mart # None

(* The existing manifest is returned as it is. *)
CacheHit(r) ==
  /\ pc[r] = "consult"
  /\ ~job[r].force
  /\ MayHit(r)
  /\ Goto(r, "hit")
  /\ UNCHANGED <<world, files, job, handle, seen, history, faults>>

Return(r) ==
  /\ pc[r] = "hit"
  /\ End(r)
  /\ UNCHANGED <<world, files, handle, seen, history, faults>>

CacheMiss(r) ==
  /\ pc[r] = "consult"
  /\ job[r].force \/ ~MayHit(r) \/ job[r].call # "pair"
  /\ Goto(r, "stage")
  /\ UNCHANGED <<world, files, job, handle, seen, history, faults>>

(* Mutant: the database is hashed after it was read. *)
ReadEntityThenHash(r) ==
  /\ pc[r] = "stage"
  /\ job' = [job EXCEPT ![r] =
               [job[r] EXCEPT !.reads = @ + 1,
                              !.lo = IF job[r].reads = 0 THEN db ELSE @,
                              !.hi = db,
                              !.hash = db]]
  /\ Goto(r, IF job[r].reads + 1 < NumEntities THEN "stage" ELSE "build")
  /\ UNCHANGED <<world, files, handle, seen, history, faults>>

(* Mutant: one entity read too many. *)
ReadEntityOnceMore(r) ==
  /\ pc[r] = "stage"
  /\ job' = [job EXCEPT ![r] =
               [job[r] EXCEPT !.reads = @ + 1,
                              !.lo = IF job[r].reads = 0 THEN db ELSE @,
                              !.hi = db]]
  /\ Goto(r, IF job[r].reads < NumEntities THEN "stage" ELSE "build")
  /\ UNCHANGED <<world, files, handle, seen, history, faults>>

(* The staging layer opens the database once per entity: an ingest may      *)
(* commit between two reads.  player_histories, which decides the gameweeks *)
(* of the spine, is the first.                                              *)
ReadEntity(r) ==
  /\ pc[r] = "stage"
  /\ job' = [job EXCEPT ![r] =
               [job[r] EXCEPT !.reads = @ + 1,
                              !.lo = IF job[r].reads = 0 THEN db ELSE @,
                              !.hi = db]]
  /\ Goto(r, IF job[r].reads + 1 < NumEntities THEN "stage" ELSE "build")
  /\ UNCHANGED <<world, files, handle, seen, history, faults>>

(* A layer after staging succeeds. *)
LayerDone(r) ==
  /\ pc[r] = "build"
  /\ job' = [job EXCEPT ![r].layer = @ + 1]
  /\ Goto(r, IF job[r].layer + 1 = NumLayers THEN "open" ELSE "build")
  /\ UNCHANGED <<world, files, handle, seen, history, faults>>

(* A layer raises: DALContractViolation or anything else. *)
LayerFails(r, kind) ==
  /\ pc[r] \in {"stage", "build"}
  /\ faults < MaxFaults
  /\ faults' = faults + 1
  /\ job' = [job EXCEPT ![r].outcome = kind]
  /\ Goto(r, "truncate")
  /\ UNCHANGED <<world, files, handle, seen, history>>

(* A file that is not complete has no readable rows. *)
Partial(shared) ==
  [lo |-> 0, hi |-> 0, schema |-> NotGiven, whole |-> FALSE, shared |-> shared]

JobBuild(r, shared) ==
  [lo |-> job[r].lo, hi |-> job[r].hi, schema |-> job[r].schema,
   whole |-> TRUE, shared |-> shared]

(* Mutant: the parquet is written at the live path. *)
OpenInPlace(r) ==
  /\ pc[r] = "open"
  /\ mart' = Partial(FALSE)
  /\ tmp' = Partial(FALSE)
  /\ handle' = [handle EXCEPT ![r] = "tmp"]
  /\ Goto(r, "writing")
  /\ UNCHANGED <<world, manifest, job, seen, history, faults>>

(* to_parquet opens the .tmp path: an existing file there is truncated in   *)
(* place, also under another writer's handle.                               *)
OpenTmp(r) ==
  /\ pc[r] = "open"
  /\ IF OnMart(r)
       THEN /\ tmp' = Partial(\E q \in Runners : handle[q] = "tmp")
            /\ handle' = [handle EXCEPT ![r] = "tmp"]
       ELSE UNCHANGED <<tmp, handle>>
  /\ Goto(r, "writing")
  /\ UNCHANGED <<world, mart, manifest, job, seen, history, faults>>

(* The last bytes are written.  A file two handles wrote may be anything.   *)
CloseTmp(r) ==
  /\ pc[r] = "writing"
  /\ \E whole \in BOOLEAN :
       LET file(old) == IF whole THEN JobBuild(r, old.shared) ELSE Partial(old.shared) IN
         /\ handle[r] = "tmp" /\ ~tmp.shared => whole
         /\ handle[r] = "mart" /\ ~mart.shared => whole
         /\ tmp' = IF handle[r] = "tmp" THEN file(tmp) ELSE tmp
         /\ mart' = IF handle[r] = "mart" THEN file(mart) ELSE mart
  /\ handle' = [handle EXCEPT ![r] = "none"]
  /\ Goto(r, "rename")
  /\ UNCHANGED <<world, manifest, job, seen, history, faults>>

(* History: the build that is loadable after a step, if any. *)
RecordServed == served' = IF Visible' # None THEN Visible' ELSE served

(* os.rename of .tmp over the live path. *)
Rename(r) ==
  /\ pc[r] = "rename"
  /\ OnMart(r) => tmp # None
  /\ IF OnMart(r)
       THEN /\ mart' = tmp
            /\ tmp' = None
            /\ handle' = [q \in Runners |->
                            IF handle[q] = "tmp" THEN "mart"
                            ELSE IF handle[q] = "mart" THEN "lost" ELSE handle[q]]
            /\ condemned' = FALSE
       ELSE UNCHANGED <<mart, tmp, handle, condemned>>
  /\ UNCHANGED manifest
  /\ RecordServed
  /\ Goto(r, "truncate")
  /\ UNCHANGED <<world, job, seen, faults>>

(* Another writer took the .tmp away: FileNotFoundError. *)
RenameFails(r) ==
  /\ pc[r] = "rename"
  /\ OnMart(r) /\ tmp = None
  /\ End(r)
  /\ UNCHANGED <<world, files, handle, seen, history, faults>>

(* os.rename raises only where writers overlap. *)
MoveTmp(r) == IF OnMart(r) /\ tmp = None THEN RenameFails(r) ELSE Rename(r)

(* A violation is about to be recorded where loads of the live mart look.   *)
Condemns(r) == job[r].call = "pair" /\ job[r].outcome = "violation" /\ mart # None

(* Mutant: a violation unlinks the mart without recording FAIL first. *)
TruncateUnlessViolation(r) ==
  /\ pc[r] = "truncate"
  /\ manifest' = IF OnManifest(r) /\ job[r].outcome # "violation" THEN Torn ELSE manifest
  /\ condemned' = (condemned \/ Condemns(r))
  /\ Goto(r, IF job[r].outcome = "violation" THEN "drop" ELSE "complete")
  /\ UNCHANGED <<world, mart, tmp, job, handle, seen, served, faults>>

(* write_text truncates the manifest ... *)
TruncateManifest(r) ==
  /\ pc[r] = "truncate"
  /\ manifest' = IF OnManifest(r) THEN Torn ELSE manifest
  /\ condemned' = (condemned \/ Condemns(r))
  /\ Goto(r, "complete")
  /\ UNCHANGED <<world, mart, tmp, job, handle, seen, served, faults>>

JobManifest(r) ==
  LET ok == job[r].outcome = "OK" IN
    [hash |-> job[r].hash,
     status |-> IF ok THEN "OK" ELSE "FAIL",
     schema |-> IF ok THEN job[r].schema ELSE NotGiven,
     names |-> OnMart(r)]

(* ... then writes it.  The schema is recorded by the last layer.           *)
CompleteManifest(r) ==
  /\ pc[r] = "complete"
  /\ manifest' = IF OnManifest(r) THEN JobManifest(r) ELSE manifest
  /\ UNCHANGED <<mart, tmp, condemned>>
  /\ RecordServed
  /\ IF job[r].outcome = "violation" THEN Goto(r, "drop") /\ UNCHANGED job ELSE End(r)
  /\ UNCHANGED <<world, handle, seen, faults>>

(* Fail-closed: the mart is unlinked, then the violation is re-raised. *)
DropMart(r) ==
  /\ pc[r] = "drop"
  /\ mart' = IF OnMart(r) THEN None ELSE mart
  /\ handle' = [q \in Runners |->
                  IF OnMart(r) /\ handle[q] = "mart" THEN "lost" ELSE handle[q]]
  /\ condemned' = (condemned /\ ~OnMart(r))
  /\ End(r)
  /\ UNCHANGED <<world, tmp, manifest, seen, served, faults>>

(* The process dies, or an exception run() does not catch (a full disk      *)
(* under to_parquet or the manifest) ends it: files stay as they are.       *)
Crash(r) ==
  /\ ~Idle(r)
  /\ faults < MaxFaults
  /\ faults' = faults + 1
  /\ handle' = [handle EXCEPT ![r] = "none"]
  /\ End(r)
  /\ UNCHANGED <<world, files, seen, history>>

--------------------------------------------------------------------------------
(* load(). *)

(* The manifest is read; a missing or failed one raises and changes nothing. *)
ReadManifest(l) ==
  /\ seen[l] = None
  /\ Usable(LoadManifest)
  /\ seen' = [seen EXCEPT ![l] = LoadManifest]
  /\ UNCHANGED <<world, files, runner, history, faults>>

(* The mart is read and its schema compared with the manifest read before:  *)
(* the MartResult holds it, or MartNotBuiltError, MartSchemaError or a      *)
(* parquet error is raised.                                                 *)
ReadMart(l) ==
  /\ seen[l] # None
  /\ seen' = [seen EXCEPT ![l] = None]
  /\ UNCHANGED <<world, files, runner, history, faults>>

--------------------------------------------------------------------------------
StartAny(r) ==
  \E force \in BOOLEAN, call \in Calls : Start(r, force, call)

(* A step of a run() that is under way and neither fails nor dies. *)
Progress(r) ==
  \/ CleanTmp(r) \/ HashDb(r) \/ CacheHit(r) \/ Return(r) \/ CacheMiss(r)
  \/ ReadEntity(r) \/ LayerDone(r) \/ OpenTmp(r) \/ CloseTmp(r)
  \/ MoveTmp(r)
  \/ TruncateManifest(r) \/ CompleteManifest(r) \/ DropMart(r)

Fault(r) == Crash(r) \/ \E kind \in {"violation", "error"} : LayerFails(r, kind)

Load(l) == ReadManifest(l) \/ ReadMart(l)

Next ==
  \/ Ingest
  \/ CodeChange
  \/ \E r \in Runners : StartAny(r) \/ Progress(r) \/ Fault(r)
  \/ \E l \in Loaders : Load(l)

Spec == Init /\ [][Next]_vars

(* A forced rebuild of the whole season keeps being requested for the pair  *)
(* of paths (the cure the docstring names), and a run() that is under way keeps going.             *)
Fairness ==
  /\ \A r \in Runners : WF_vars(Progress(r))
  /\ SF_vars(\E r \in Runners : Start(r, TRUE, "pair"))

FairSpec == Spec /\ Fairness

--------------------------------------------------------------------------------
(* Properties, for SingleWriter unless said otherwise. *)

(* The live path never holds a partial parquet, whatever crashes: the write *)
(* goes to .tmp, and only a closed .tmp of the same run is renamed          *)
(* (pipeline.py:152-154, :316-317).                                         *)
LiveMartWhole == mart # None => mart.whole

(* Once a contract violation has begun to be recorded, the mart it condemns *)
(* is not loaded through a manifest of its own, even if the process dies    *)
(* before it unlinks the mart (pipeline.py:156-158): the FAIL or torn       *)
(* manifest closes the gap.                                                 *)
FailClosed == Visible # None => ~condemned

(* If a run() started now would be answered from the cache, by a manifest   *)
(* written for the mart path it asks for, the mart was computed from        *)
(* exactly the current database: although the hash and the six entity reads *)
(* are separate and an ingest may fall between them, and although other     *)
(* calls replace or unlink the mart, or record over the manifest, without   *)
(* the other (pipeline.py:115-127, :189-192, stg_entities.py:47-54).        *)
CacheSound ==
  CacheValid(LoadManifest, db) /\ Names(LoadManifest) => mart.lo = db /\ mart.hi = db

(* A cached answer by such a manifest was right for the database version    *)
(* the run hashed.                                                          *)
HitIsExact ==
  \A r \in Runners :
    pc[r] = "hit" /\ job[r].call = "pair" /\ Names(LoadManifest) =>
      mart.lo = job[r].hash /\ mart.hi = job[r].hash

(* A load that races a run() never returns a mart older than the database   *)
(* version its manifest names, if the manifest was written for that mart    *)
(* path: the mart is published before the manifest and read after it.       *)
LoadNotOlder ==
  \A l \in Loaders :
    Names(seen[l]) /\ Accepts(seen[l], mart) => seen[l].hash <= mart.lo

(* What load() offers through a manifest of the mart's path implements      *)
(* MartStore: only whole builds are revealed, never a condemned one, and    *)
(* over DB versions that never go backwards.                                *)
Store == INSTANCE MartStore WITH visible <- Visible, banned <- condemned
Refinement == Store!StoreSpec

(* Every ingested version is eventually loadable once faults stop. *)
EveryIngestServed ==
  \A v \in 1..MaxDb : db >= v ~> Visible # None /\ mart.lo >= v
================================================================================

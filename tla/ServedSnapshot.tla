---------------------------- MODULE ServedSnapshot ----------------------------
(***************************************************************************)
(* warehouse/served.py: refresh() copies the warehouse's publish file by   *)
(* file into <snapshot_root>/<run_id>/ and records it as the pin; a study  *)
(* reads the pin once and loads under it.  The producer overwrites served/ *)
(* in place meanwhile, refreshes may overlap, and any of them may die.     *)
(*                                                                         *)
(* Abstraction: the bytes of a file are the number of the publish they     *)
(* belong to, which is also their sha256; a publish's run_id is its        *)
(* number.  File 1 is the manifest, the first file fetched.                *)
(***************************************************************************)
EXTENDS Naturals

CONSTANTS Refreshers,   \* processes calling refresh()
          Studies,      \* processes loading both frame sets under one pin
          NumFiles,     \* the manifest and the tables (seven in the code)
          None,         \* no pin file
          Torn,         \* a pin file that is not JSON
          MaxPublish,   \* bound: publishes made
          MaxFaults     \* bound: failed fetches and crashes

ASSUME SnapshotAssumption ==
  /\ NumFiles \in Nat \ {0}
  /\ MaxPublish \in Nat \ {0}
  /\ MaxFaults \in Nat

Files == 1..NumFiles
ManifestFile == 1
Absent == 0                       \* the bytes of a missing file
RunIds == 1..MaxPublish
Bytes == 0..MaxPublish
Contents == [Files -> Bytes]
Nothing == [f \in Files |-> Absent]

Pin == [run : RunIds, sha : [Files -> RunIds]]

ASSUME NoPinAssumption == None \notin Pin /\ Torn \notin Pin /\ None # Torn

VARIABLES publish,   \* the publish being made or last made
          served,    \* external: the files under served/
          made,      \* run_ids whose snapshot directory exists
          dir,       \* the files of each snapshot directory
          pinFile,   \* the pin on disk
          pc,        \* where each refresh() is
          staging,   \* the temporary directory of each refresh()
          spc,       \* where each study is
          held,      \* the pin each study read
          frames,    \* what load() returned to each study
          managers,  \* what load_managers() returned to each study
          synced,    \* history: the pin file was last written by a refresh here
          faults     \* faults so far

source == <<publish, served>>
disk == <<made, dir, pinFile, synced>>
refresher == <<pc, staging>>
study == <<spc, held, frames, managers>>
vars == <<publish, served, made, dir, pinFile, synced, pc, staging,
          spc, held, frames, managers, faults>>

RefreshPcs == {"idle", "fetch", "decide", "makedir", "copy", "truncate", "complete"}
StudyPcs == {"idle", "verify", "read", "verifyManagers", "readManagers", "running"}

TypeOK ==
  /\ publish \in RunIds
  /\ served \in [Files -> RunIds]
  /\ made \subseteq RunIds
  /\ dir \in [RunIds -> Contents]
  /\ pinFile \in Pin \cup {None, Torn}
  /\ pc \in [Refreshers -> RefreshPcs]
  /\ staging \in [Refreshers -> Contents]
  /\ spc \in [Studies -> StudyPcs]
  /\ held \in [Studies -> Pin \cup {None}]
  /\ frames \in [Studies -> Contents]
  /\ managers \in [Studies -> Contents]
  /\ synced \in BOOLEAN
  /\ faults \in Nat

Init ==
  /\ publish = 1 /\ served = [f \in Files |-> 1]
  /\ made = {} /\ dir = [run \in RunIds |-> Nothing]
  /\ pinFile = None /\ synced = FALSE
  /\ pc = [r \in Refreshers |-> "idle"]
  /\ staging = [r \in Refreshers |-> Nothing]
  /\ spc = [s \in Studies |-> "idle"]
  /\ held = [s \in Studies |-> None]
  /\ frames = [s \in Studies |-> Nothing]
  /\ managers = [s \in Studies |-> Nothing]
  /\ faults = 0

--------------------------------------------------------------------------------
(* The producer: a publish overwrites the files of served/ one by one. *)

BeginPublish ==
  /\ \A f \in Files : served[f] = publish
  /\ publish < MaxPublish
  /\ publish' = publish + 1
  /\ UNCHANGED <<served, disk, refresher, study, faults>>

PublishFile(f) ==
  /\ served[f] # publish
  /\ served' = [served EXCEPT ![f] = publish]
  /\ UNCHANGED <<publish, disk, refresher, study, faults>>

(* The pin file is under version control and the snapshots are not: a       *)
(* checkout brings the pin of a publish synced on another machine.          *)
CheckoutPin(run) ==
  /\ run <= publish
  /\ pinFile' = [run |-> run, sha |-> [f \in Files |-> run]]
  /\ pinFile' # pinFile
  /\ synced' = FALSE
  /\ UNCHANGED <<source, made, dir, refresher, study, faults>>

--------------------------------------------------------------------------------
(* refresh(). *)

Goto(r, label) == pc' = [pc EXCEPT ![r] = label]

(* refresh() returns, raises or dies; its temporary directory is gone. *)
End(r) == Goto(r, "idle") /\ staging' = [staging EXCEPT ![r] = Nothing]

StartRefresh(r) ==
  /\ pc[r] = "idle"
  /\ Goto(r, "fetch")
  /\ UNCHANGED <<source, disk, staging, study, faults>>

NextFile(r, f) == staging[r][f] = Absent /\ \A g \in 1..(f - 1) : staging[r][g] # Absent

FetchFile(r, f) ==
  /\ pc[r] = "fetch"
  /\ NextFile(r, f)
  /\ staging' = [staging EXCEPT ![r] = [@ EXCEPT ![f] = served[f]]]
  /\ Goto(r, IF f = NumFiles THEN "decide" ELSE "fetch")
  /\ UNCHANGED <<source, disk, study, faults>>

Target(r) == staging[r][ManifestFile]

(* Mutant: a file the held snapshot lacks does not make it differ. *)
SameSnapshotAsFarAsHeld(held_, fetched) ==
  \A f \in Files : held_[f] \in {Absent, fetched[f]}

(* pin_of reads every file, so an incomplete directory raises. *)
SameSnapshot(held_, fetched) == held_ = fetched

(* The run_id is held already, and is what was fetched. *)
KeepHeld(r) ==
  /\ pc[r] = "decide"
  /\ Target(r) \in made
  /\ SameSnapshot(dir[Target(r)], staging[r])
  /\ Goto(r, "truncate")
  /\ UNCHANGED <<source, disk, staging, study, faults>>

(* It is held but differs, or a crash left it incomplete. *)
RefuseHeld(r) ==
  /\ pc[r] = "decide"
  /\ Target(r) \in made
  /\ ~SameSnapshot(dir[Target(r)], staging[r])
  /\ End(r)
  /\ UNCHANGED <<source, disk, study, faults>>

SeeNoTarget(r) ==
  /\ pc[r] = "decide"
  /\ Target(r) \notin made
  /\ Goto(r, "makedir")
  /\ UNCHANGED <<source, disk, staging, study, faults>>

(* copytree creates the directory; another refresh may have come first. *)
MakeDir(r) ==
  /\ pc[r] = "makedir"
  /\ Target(r) \notin made
  /\ made' = made \cup {Target(r)}
  /\ Goto(r, "copy")
  /\ UNCHANGED <<source, dir, pinFile, synced, staging, study, faults>>

MakeDirFails(r) ==
  /\ pc[r] = "makedir"
  /\ Target(r) \in made
  /\ End(r)
  /\ UNCHANGED <<source, disk, study, faults>>

(* copytree copies the files in whatever order the directory lists them. *)
CopyFile(r, f) ==
  /\ pc[r] = "copy"
  /\ dir[Target(r)][f] # staging[r][f]
  /\ dir' = [dir EXCEPT ![Target(r)] = [@ EXCEPT ![f] = staging[r][f]]]
  /\ Goto(r, IF dir'[Target(r)] = staging[r] THEN "truncate" ELSE "copy")
  /\ UNCHANGED <<source, made, pinFile, synced, staging, study, faults>>

(* write_pin truncates the pin file ... *)
TruncatePin(r) ==
  /\ pc[r] = "truncate"
  /\ pinFile' = Torn
  /\ synced' = TRUE
  /\ Goto(r, "complete")
  /\ UNCHANGED <<source, made, dir, staging, study, faults>>

(* ... then writes it. *)
CompletePin(r) ==
  /\ pc[r] = "complete"
  /\ pinFile' = [run |-> Target(r), sha |-> staging[r]]
  /\ synced' = TRUE
  /\ End(r)
  /\ UNCHANGED <<source, made, dir, study, faults>>

(* A fetch fails or names no version, or the process dies. *)
RefreshFails(r) ==
  /\ pc[r] # "idle"
  /\ faults < MaxFaults
  /\ faults' = faults + 1
  /\ End(r)
  /\ UNCHANGED <<source, disk, study>>

--------------------------------------------------------------------------------
(* A study: _load of operational/starting_xi_stage5.py under one pin. *)

Step(s, label) == spc' = [spc EXCEPT ![s] = label]

GiveUp(s) ==
  /\ Step(s, "idle")
  /\ held' = [held EXCEPT ![s] = None]
  /\ frames' = [frames EXCEPT ![s] = Nothing]
  /\ managers' = [managers EXCEPT ![s] = Nothing]

(* A missing or torn pin file raises. *)
ReadPin(s) ==
  /\ spc[s] = "idle"
  /\ pinFile \notin {None, Torn}
  /\ held' = [held EXCEPT ![s] = pinFile]
  /\ Step(s, "verify")
  /\ UNCHANGED <<source, disk, refresher, frames, managers, faults>>

(* _verify: the bytes of every file are those the pin names. *)
Verified(pin) == dir[pin.run] = pin.sha

VerifyFrames(s) ==
  /\ spc[s] = "verify"
  /\ Verified(held[s])
  /\ Step(s, "read")
  /\ UNCHANGED <<source, disk, refresher, held, frames, managers, faults>>

ReadFrames(s) ==
  /\ spc[s] = "read"
  /\ frames' = [frames EXCEPT ![s] = dir[held[s].run]]
  /\ Step(s, "verifyManagers")
  /\ UNCHANGED <<source, disk, refresher, held, managers, faults>>

VerifyManagers(s) ==
  /\ spc[s] = "verifyManagers"
  /\ Verified(held[s])
  /\ Step(s, "readManagers")
  /\ UNCHANGED <<source, disk, refresher, held, frames, managers, faults>>

(* Mutant: load_managers without the pin argument. *)
ReadManagersOfCurrentPin(s) ==
  /\ spc[s] = "readManagers"
  /\ pinFile \notin {None, Torn}
  /\ managers' = [managers EXCEPT ![s] = dir[pinFile.run]]
  /\ Step(s, "running")
  /\ UNCHANGED <<source, disk, refresher, held, frames, faults>>

ReadManagers(s) ==
  /\ spc[s] = "readManagers"
  /\ managers' = [managers EXCEPT ![s] = dir[held[s].run]]
  /\ Step(s, "running")
  /\ UNCHANGED <<source, disk, refresher, held, frames, faults>>

(* ServedContractError. *)
VerifyFails(s) ==
  /\ spc[s] \in {"verify", "verifyManagers"}
  /\ ~Verified(held[s])
  /\ GiveUp(s)
  /\ UNCHANGED <<source, disk, refresher, faults>>

FinishStudy(s) ==
  /\ spc[s] = "running"
  /\ GiveUp(s)
  /\ UNCHANGED <<source, disk, refresher, faults>>

--------------------------------------------------------------------------------
Publisher == BeginPublish \/ \E f \in Files : PublishFile(f)

Refresh(r) ==
  \/ \E f \in Files : FetchFile(r, f) \/ CopyFile(r, f)
  \/ KeepHeld(r) \/ RefuseHeld(r) \/ SeeNoTarget(r) \/ MakeDir(r) \/ MakeDirFails(r)
  \/ TruncatePin(r) \/ CompletePin(r)

Study(s) ==
  \/ ReadPin(s) \/ VerifyFrames(s) \/ ReadFrames(s)
  \/ VerifyManagers(s) \/ ReadManagers(s) \/ FinishStudy(s)

Next ==
  \/ Publisher
  \/ \E run \in RunIds : CheckoutPin(run)
  \/ \E r \in Refreshers : StartRefresh(r) \/ Refresh(r) \/ RefreshFails(r)
  \/ \E s \in Studies : Study(s) \/ VerifyFails(s)

Spec == Init /\ [][Next]_vars

--------------------------------------------------------------------------------
(* The pin a refresh wrote names a snapshot that is complete and has the    *)
(* pinned bytes: the copy precedes the pin, and neither a crash in between nor an  *)
(* overlapping refresh of the same run_id can leave a pin dangling          *)
(* (served.py:241-250).                                                     *)
PinnedSnapshotWhole == synced /\ pinFile # Torn => dir[pinFile.run] = pinFile.sha

(* A study computes on exactly the bytes of the pin it read, in both of its *)
(* loads, although each verifies first and reads later and a refresh may    *)
(* move the pin in between (served.py:299-311, :403-405).                   *)
StudyReadsItsPin ==
  \A s \in Studies : spc[s] = "running" =>
    frames[s] = held[s].sha /\ managers[s] = held[s].sha

(* A file of a snapshot, once written, is never replaced or removed: old    *)
(* pins stay loadable (served.py:233).                                      *)
SnapshotsKept ==
  [][\A run \in RunIds, f \in Files : dir[run][f] # Absent => dir'[run][f] = dir[run][f]]_vars
================================================================================

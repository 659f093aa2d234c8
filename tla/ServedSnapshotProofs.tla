-------------------------- MODULE ServedSnapshotProofs --------------------------
(* Proofs about ServedSnapshot, for every value of its constants. *)
EXTENDS ServedSnapshot, TLAPS

Full(c) == \A f \in Files : c[f] # Absent

(* A refresh past its fetches holds every file. *)
StagingFull ==
  \A r \in Refreshers :
    pc[r] \in {"decide", "makedir", "copy", "truncate", "complete"} => Full(staging[r])

(* Only refresh() makes a snapshot directory, and the files in it come      *)
(* after it.                                                                *)
UnmadeIsEmpty == \A run \in RunIds : run \notin made => dir[run] = Nothing

(* Whoever copies made the directory, and nobody else copies into it.       *)
OneCopier ==
  \A r \in Refreshers : pc[r] = "copy" =>
    /\ Target(r) \in made
    /\ \A f \in Files : dir[Target(r)][f] \in {Absent, staging[r][f]}
    /\ \A q \in Refreshers : pc[q] = "copy" /\ Target(q) = Target(r) => q = r

(* A refresh writes the pin of a snapshot that is there. *)
CopiedBeforePinned ==
  \A r \in Refreshers : pc[r] \in {"truncate", "complete"} => dir[Target(r)] = staging[r]

PinWhole == synced /\ pinFile # Torn => pinFile \in Pin /\ dir[pinFile.run] = pinFile.sha

(* A study past its first verification holds a pin whose snapshot is whole, *)
(* and what it has read is that snapshot.                                   *)
StudyHolds ==
  \A s \in Studies :
    /\ spc[s] # "idle" => held[s] \in Pin
    /\ spc[s] \in {"read", "verifyManagers", "readManagers", "running"} => dir[held[s].run] = held[s].sha
    /\ spc[s] \in {"verifyManagers", "readManagers", "running"} => frames[s] = held[s].sha
    /\ spc[s] = "running" => managers[s] = held[s].sha

Inv == /\ TypeOK
       /\ StagingFull
       /\ UnmadeIsEmpty
       /\ OneCopier
       /\ CopiedBeforePinned
       /\ PinWhole
       /\ StudyHolds

--------------------------------------------------------------------------------
LEMMA NothingIsContents == Nothing \in Contents
BY SnapshotAssumption DEF Nothing, Contents, Bytes, Absent

LEMMA InitInv == Init => Inv
<1> SUFFICES ASSUME Init PROVE Inv
  OBVIOUS
<1>1. TypeOK
  <2>1. publish \in RunIds /\ served \in [Files -> RunIds]
    BY SnapshotAssumption DEF Init, RunIds
  <2>2. /\ dir \in [RunIds -> Contents] /\ staging \in [Refreshers -> Contents]
        /\ frames \in [Studies -> Contents] /\ managers \in [Studies -> Contents]
    BY NothingIsContents DEF Init
  <2>3. pc \in [Refreshers -> RefreshPcs] /\ spc \in [Studies -> StudyPcs]
    BY DEF Init, RefreshPcs, StudyPcs
  <2>4. /\ made \subseteq RunIds /\ synced \in BOOLEAN /\ faults \in Nat
        /\ pinFile \in Pin \cup {None, Torn} /\ held \in [Studies -> Pin \cup {None}]
    BY DEF Init
  <2>5. QED
    BY <2>1, <2>2, <2>3, <2>4 DEF TypeOK
<1>2. StagingFull /\ OneCopier /\ CopiedBeforePinned
  BY DEF Init, StagingFull, OneCopier, CopiedBeforePinned
<1>3. UnmadeIsEmpty
  BY DEF Init, UnmadeIsEmpty
<1>4. PinWhole /\ StudyHolds
  BY DEF Init, PinWhole, StudyHolds
<1>5. QED
  BY <1>1, <1>2, <1>3, <1>4 DEF Inv

(* The manifest of a full copy names a run. *)
LEMMA TargetIsRun ==
  ASSUME TypeOK, NEW r \in Refreshers, Full(staging[r])
  PROVE  Target(r) \in RunIds /\ staging[r] \in [Files -> RunIds]
<1>1. \A f \in Files : staging[r][f] \in RunIds
  BY SnapshotAssumption DEF TypeOK, Full, Contents, Bytes, RunIds, Absent
<1>2. staging[r] = [f \in Files |-> staging[r][f]]
  BY DEF TypeOK, Contents
<1>3. ManifestFile \in Files
  BY SnapshotAssumption DEF ManifestFile, Files
<1>4. QED
  BY <1>1, <1>2, <1>3 DEF Target

(* Every step keeps every variable in its type. *)
LEMMA TypeStep == TypeOK /\ StagingFull /\ StudyHolds /\ [Next]_vars => TypeOK'
<1> SUFFICES ASSUME TypeOK, StagingFull, StudyHolds, [Next]_vars PROVE TypeOK'
  OBVIOUS
<1> USE SnapshotAssumption DEF source, disk, refresher, study
<1>1. CASE BeginPublish
  BY <1>1 DEF BeginPublish, TypeOK, RunIds
<1>2. ASSUME NEW f \in Files, PublishFile(f) PROVE TypeOK'
  BY <1>2 DEF PublishFile, TypeOK
<1>3. ASSUME NEW run \in RunIds, CheckoutPin(run) PROVE TypeOK'
  BY <1>3 DEF CheckoutPin, TypeOK, Pin
<1>4. ASSUME NEW r \in Refreshers, StartRefresh(r) PROVE TypeOK'
  BY <1>4 DEF StartRefresh, Goto, TypeOK, RefreshPcs
<1>5. ASSUME NEW r \in Refreshers, NEW f \in Files, FetchFile(r, f) PROVE TypeOK'
  <2>1. [staging[r] EXCEPT ![f] = served[f]] \in Contents
    BY <1>5 DEF TypeOK, Contents, Bytes, RunIds
  <2>2. QED
    BY <1>5, <2>1 DEF FetchFile, Goto, TypeOK, RefreshPcs
<1>6. ASSUME NEW r \in Refreshers, NEW f \in Files, CopyFile(r, f) PROVE TypeOK'
  <2>1. Target(r) \in RunIds /\ staging[r] \in [Files -> RunIds]
    BY <1>6, TargetIsRun DEF CopyFile, StagingFull
  <2>2. QED
    <3>1. [dir[Target(r)] EXCEPT ![f] = staging[r][f]] \in Contents
      BY <2>1 DEF TypeOK, Contents, Bytes, RunIds
    <3>2. QED
      BY <1>6, <2>1, <3>1 DEF CopyFile, Goto, TypeOK, RefreshPcs
<1>7. ASSUME NEW r \in Refreshers, KeepHeld(r) \/ RefuseHeld(r) \/ SeeNoTarget(r) PROVE TypeOK'
  BY <1>7, NothingIsContents DEF KeepHeld, RefuseHeld, SeeNoTarget, Goto, End, TypeOK, RefreshPcs
<1>8. ASSUME NEW r \in Refreshers, MakeDir(r) \/ MakeDirFails(r) PROVE TypeOK'
  <2>1. Target(r) \in RunIds
    BY <1>8, TargetIsRun DEF MakeDir, MakeDirFails, StagingFull
  <2>2. QED
    BY <1>8, <2>1, NothingIsContents DEF MakeDir, MakeDirFails, Goto, End, TypeOK, RefreshPcs
<1>9. ASSUME NEW r \in Refreshers, TruncatePin(r) PROVE TypeOK'
  BY <1>9 DEF TruncatePin, Goto, TypeOK, RefreshPcs
<1>10. ASSUME NEW r \in Refreshers, CompletePin(r) PROVE TypeOK'
  <2>1. Target(r) \in RunIds /\ staging[r] \in [Files -> RunIds]
    BY <1>10, TargetIsRun DEF CompletePin, StagingFull
  <2>2. QED
    BY <1>10, <2>1, NothingIsContents DEF CompletePin, Goto, End, TypeOK, Pin, RefreshPcs
<1>11. ASSUME NEW r \in Refreshers, RefreshFails(r) PROVE TypeOK'
  BY <1>11, NothingIsContents DEF RefreshFails, Goto, End, TypeOK, RefreshPcs
<1>12. ASSUME NEW s \in Studies, ReadPin(s) \/ VerifyFrames(s) \/ VerifyManagers(s) PROVE TypeOK'
  BY <1>12 DEF ReadPin, VerifyFrames, VerifyManagers, Step, TypeOK, StudyPcs
<1>13. ASSUME NEW s \in Studies, ReadFrames(s) \/ ReadManagers(s) PROVE TypeOK'
  <2>1. held[s].run \in RunIds
    BY <1>13 DEF ReadFrames, ReadManagers, StudyHolds, Pin
  <2>2. QED
    BY <1>13, <2>1 DEF ReadFrames, ReadManagers, Step, TypeOK, StudyPcs
<1>14. ASSUME NEW s \in Studies, VerifyFails(s) \/ FinishStudy(s) PROVE TypeOK'
  BY <1>14, NothingIsContents DEF VerifyFails, FinishStudy, GiveUp, Step, TypeOK, StudyPcs
<1>15. CASE UNCHANGED vars
  BY <1>15 DEF vars, TypeOK
<1>16. QED
  BY <1>1, <1>2, <1>3, <1>4, <1>5, <1>6, <1>7, <1>8, <1>9, <1>10, <1>11, <1>12, <1>13, <1>14, <1>15
     DEF Next, Publisher, Refresh, Study

--------------------------------------------------------------------------------
(* No step replaces or removes a file of a snapshot: only a copy writes     *)
(* one, and what is there it wrote itself.                                  *)
LEMMA FileStays ==
  ASSUME Inv, [Next]_vars, NEW run \in RunIds, NEW f \in Files, dir[run][f] # Absent
  PROVE  dir'[run][f] = dir[run][f]
<1>1. CASE \E r \in Refreshers, g \in Files : CopyFile(r, g)
  <2>1. PICK r \in Refreshers, g \in Files : CopyFile(r, g)
    BY <1>1
  <2>2. dir' = [dir EXCEPT ![Target(r)] = [@ EXCEPT ![g] = staging[r][g]]]
    BY <2>1 DEF CopyFile
  <2>3. dir[Target(r)][g] = Absent
    BY <2>1 DEF CopyFile, Inv, OneCopier
  <2>4. run # Target(r) \/ f # g
    BY <2>3
  <2>5. QED
    BY <2>2, <2>4 DEF Inv, TypeOK, Contents
<1>2. CASE ~\E r \in Refreshers, g \in Files : CopyFile(r, g)
  <2>1. dir' = dir
    BY <1>2 DEF Next, Publisher, Refresh, Study, BeginPublish, PublishFile, CheckoutPin, StartRefresh,
          FetchFile, KeepHeld, RefuseHeld, SeeNoTarget, MakeDir, MakeDirFails, TruncatePin, CompletePin,
          RefreshFails, ReadPin, VerifyFrames, ReadFrames, VerifyManagers, ReadManagers, VerifyFails,
          FinishStudy, disk, vars
  <2>2. QED
    BY <2>1
<1>3. QED
  BY <1>1, <1>2

LEMMA WholeStays ==
  ASSUME Inv, [Next]_vars, TypeOK', NEW run \in RunIds, Full(dir[run])
  PROVE  dir'[run] = dir[run]
<1>1. \A f \in Files : dir'[run][f] = dir[run][f]
  BY FileStays DEF Full
<1>2. QED
  BY <1>1 DEF Inv, TypeOK, Contents

(* Pins name whole snapshots. *)
LEMMA PinIsFull ==
  ASSUME NEW pin \in Pin
  PROVE  pin.run \in RunIds /\ Full(pin.sha)
BY SnapshotAssumption DEF Pin, Full, RunIds, Absent

(* What a study and the pin rely on survives a step that leaves them alone. *)
LEMMA PinStaysWhole ==
  ASSUME Inv, [Next]_vars, TypeOK', UNCHANGED <<pinFile, synced>>
  PROVE  PinWhole'
<1> SUFFICES ASSUME synced, pinFile # Torn
             PROVE  pinFile \in Pin /\ dir'[pinFile.run] = pinFile.sha
  BY DEF PinWhole
<1>1. pinFile \in Pin /\ dir[pinFile.run] = pinFile.sha
  BY DEF Inv, PinWhole
<1>2. QED
  BY <1>1, PinIsFull, WholeStays

LEMMA StudiesStay ==
  ASSUME Inv, [Next]_vars, TypeOK', UNCHANGED study
  PROVE  StudyHolds'
<1> SUFFICES ASSUME NEW s \in Studies,
                    spc[s] \in {"read", "verifyManagers", "readManagers", "running"}
             PROVE  dir'[held[s].run] = held[s].sha
  BY DEF StudyHolds, Inv, study
<1>1. held[s] \in Pin /\ dir[held[s].run] = held[s].sha
  BY DEF Inv, StudyHolds
<1>2. QED
  BY <1>1, PinIsFull, WholeStays

--------------------------------------------------------------------------------
(* The parts that speak of the refreshes. *)
Copies == StagingFull /\ UnmadeIsEmpty /\ OneCopier /\ CopiedBeforePinned

(* Steps of others leave the refreshes and the snapshots as they are. *)
LEMMA CopiesStay == Inv /\ UNCHANGED <<made, dir, pc, staging>> => Copies'
BY DEF Inv, Copies, StagingFull, UnmadeIsEmpty, OneCopier, CopiedBeforePinned, Target

(* A refresh that ends, or goes on without copying, disturbs no other. *)
LEMMA CopiesStayOnEnd ==
  ASSUME Inv, NEW r \in Refreshers, UNCHANGED <<made, dir>>, End(r)
  PROVE  Copies'
<1> USE DEF Inv, TypeOK, End, Goto
<1>1. StagingFull'
  BY DEF StagingFull
<1>2. UnmadeIsEmpty'
  BY DEF UnmadeIsEmpty
<1>3. OneCopier'
  BY DEF OneCopier, Target
<1>4. CopiedBeforePinned'
  BY DEF CopiedBeforePinned, Target
<1>5. QED
  BY <1>1, <1>2, <1>3, <1>4 DEF Copies

LEMMA CopiesStayOnGoto ==
  ASSUME Inv, NEW r \in Refreshers, UNCHANGED <<made, dir, staging>>,
         NEW label \in {"fetch", "decide", "makedir", "truncate", "complete"}, Goto(r, label),
         label # "fetch" => Full(staging[r]),
         label \in {"truncate", "complete"} => dir[Target(r)] = staging[r]
  PROVE  Copies'
<1> USE DEF Inv, TypeOK, Goto
<1>1. StagingFull'
  BY DEF StagingFull
<1>2. UnmadeIsEmpty'
  BY DEF UnmadeIsEmpty
<1>3. OneCopier'
  BY DEF OneCopier, Target
<1>4. CopiedBeforePinned'
  BY DEF CopiedBeforePinned, Target
<1>5. QED
  BY <1>1, <1>2, <1>3, <1>4 DEF Copies

LEMMA CopiesStep == Inv /\ [Next]_vars /\ TypeOK' => Copies'
<1> SUFFICES ASSUME Inv, [Next]_vars, TypeOK' PROVE Copies'
  OBVIOUS
<1>1. CASE Publisher \/ (\E run \in RunIds : CheckoutPin(run)) \/ UNCHANGED vars
  BY <1>1, CopiesStay DEF Publisher, BeginPublish, PublishFile, CheckoutPin, disk, refresher, vars
<1>2. ASSUME NEW s \in Studies, Study(s) \/ VerifyFails(s) PROVE Copies'
  BY <1>2, CopiesStay DEF Study, ReadPin, VerifyFrames, ReadFrames, VerifyManagers, ReadManagers,
                          VerifyFails, FinishStudy, disk, refresher
<1>3. ASSUME NEW r \in Refreshers, StartRefresh(r) PROVE Copies'
  BY <1>3, CopiesStayOnGoto DEF StartRefresh, disk
<1>4. ASSUME NEW r \in Refreshers, NEW f \in Files, FetchFile(r, f) PROVE Copies'
  <2>1. \A q \in Refreshers : q # r => staging'[q] = staging[q] /\ pc'[q] = pc[q]
    BY <1>4 DEF FetchFile, Goto, Inv, TypeOK
  <2>2. pc'[r] = "fetch" \/ (pc'[r] = "decide" /\ Full(staging'[r]))
    <3>1. CASE f = NumFiles
      <4>1. \A g \in Files : g # f => staging[r][g] # Absent
        BY <1>4, <3>1, SnapshotAssumption DEF FetchFile, NextFile, Files
      <4>2. served[f] # Absent
        BY SnapshotAssumption DEF Inv, TypeOK, RunIds, Absent
      <4>3. staging'[r] = [staging[r] EXCEPT ![f] = served[f]]
        BY <1>4 DEF FetchFile, Inv, TypeOK
      <4>4. Full(staging'[r])
        BY <4>1, <4>2, <4>3 DEF Full, Inv, TypeOK, Contents
      <4>5. QED
        BY <1>4, <3>1, <4>4 DEF FetchFile, Goto, Inv, TypeOK
    <3>2. CASE f # NumFiles
      BY <1>4, <3>2 DEF FetchFile, Goto, Inv, TypeOK
    <3>3. QED
      BY <3>1, <3>2
  <2>3. made' = made /\ dir' = dir
    BY <1>4 DEF FetchFile, disk
  <2>4. StagingFull' /\ UnmadeIsEmpty'
    BY <2>1, <2>2, <2>3 DEF Inv, StagingFull, UnmadeIsEmpty, Full
  <2>5. OneCopier' /\ CopiedBeforePinned'
    BY <2>1, <2>2, <2>3 DEF Inv, OneCopier, CopiedBeforePinned, Target
  <2>6. QED
    BY <2>4, <2>5 DEF Copies
<1>5. ASSUME NEW r \in Refreshers, KeepHeld(r) \/ SeeNoTarget(r) \/ TruncatePin(r) PROVE Copies'
  <2>1. Full(staging[r])
    BY <1>5 DEF KeepHeld, SeeNoTarget, TruncatePin, Inv, StagingFull
  <2>2. CASE KeepHeld(r)
    BY <2>1, <2>2, CopiesStayOnGoto DEF KeepHeld, SameSnapshot, disk
  <2>3. CASE SeeNoTarget(r)
    BY <2>1, <2>3, CopiesStayOnGoto DEF SeeNoTarget, disk
  <2>4. CASE TruncatePin(r)
    BY <2>1, <2>4, CopiesStayOnGoto DEF TruncatePin, Inv, CopiedBeforePinned
  <2>5. QED
    BY <1>5, <2>2, <2>3, <2>4
<1>6. ASSUME NEW r \in Refreshers,
             RefuseHeld(r) \/ MakeDirFails(r) \/ CompletePin(r) \/ RefreshFails(r)
      PROVE Copies'
  BY <1>6, CopiesStayOnEnd DEF RefuseHeld, MakeDirFails, CompletePin, RefreshFails, disk
<1>7. ASSUME NEW r \in Refreshers, MakeDir(r) PROVE Copies'
  <2>1. /\ Target(r) \notin made /\ made' = made \cup {Target(r)}
        /\ pc' = [pc EXCEPT ![r] = "copy"] /\ dir' = dir /\ staging' = staging
    BY <1>7 DEF MakeDir, Goto
  <2>2. Full(staging[r]) /\ Target(r) \in RunIds
    BY <1>7, TargetIsRun DEF MakeDir, Inv, StagingFull
  <2>3. dir[Target(r)] = Nothing
    BY <2>1, <2>2 DEF Inv, UnmadeIsEmpty
  <2>4. StagingFull' /\ UnmadeIsEmpty' /\ CopiedBeforePinned'
    BY <2>1, <2>2 DEF Inv, TypeOK, StagingFull, UnmadeIsEmpty, CopiedBeforePinned, Target
  <2>5. OneCopier'
    BY <2>1, <2>2, <2>3 DEF Inv, TypeOK, OneCopier, Target, Nothing, Absent
  <2>6. QED
    BY <2>4, <2>5 DEF Copies
<1>8. ASSUME NEW r \in Refreshers, NEW f \in Files, CopyFile(r, f) PROVE Copies'
  <2>1. Full(staging[r]) /\ Target(r) \in RunIds
    BY <1>8, TargetIsRun DEF CopyFile, Inv, StagingFull
  <2>2. /\ pc[r] = "copy" /\ made' = made /\ staging' = staging
        /\ dir' = [dir EXCEPT ![Target(r)] = [dir[Target(r)] EXCEPT ![f] = staging[r][f]]]
        /\ pc' = [pc EXCEPT ![r] = IF dir'[Target(r)] = staging[r] THEN "truncate" ELSE "copy"]
    BY <1>8 DEF CopyFile, Goto
  <2>3. Target(r) \in made /\ dir[Target(r)][f] = Absent
    BY <1>8 DEF CopyFile, Inv, OneCopier
  <2>4. \A q \in Refreshers : pc[q] \in {"copy", "truncate", "complete"} /\ q # r => Target(q) # Target(r)
    BY <2>2, <2>3 DEF Inv, OneCopier, CopiedBeforePinned, StagingFull, Full
  <2>5. StagingFull' /\ UnmadeIsEmpty'
    BY <2>1, <2>2, <2>3 DEF Inv, TypeOK, StagingFull, UnmadeIsEmpty
  <2>6. CopiedBeforePinned'
    BY <2>1, <2>2, <2>4 DEF Inv, TypeOK, CopiedBeforePinned, Target
  <2>7. \A g \in Files : dir'[Target(r)][g] \in {Absent, staging[r][g]}
    BY <2>1, <2>2 DEF Inv, TypeOK, Contents, OneCopier
  <2>8. OneCopier'
    BY <2>1, <2>2, <2>4, <2>7 DEF Inv, TypeOK, OneCopier, Target
  <2>9. QED
    BY <2>5, <2>6, <2>8 DEF Copies
<1>9. QED
  BY <1>1, <1>2, <1>3, <1>4, <1>5, <1>6, <1>7, <1>8 DEF Next, Refresh

--------------------------------------------------------------------------------
(* The pin a refresh writes is of the snapshot it copied or found. *)
LEMMA PinStep == Inv /\ [Next]_vars /\ TypeOK' => PinWhole'
<1> SUFFICES ASSUME Inv, [Next]_vars, TypeOK' PROVE PinWhole'
  OBVIOUS
<1>1. CASE UNCHANGED <<pinFile, synced>>
  BY <1>1, PinStaysWhole
<1>2. ASSUME NEW run \in RunIds, CheckoutPin(run) PROVE PinWhole'
  BY <1>2 DEF CheckoutPin, PinWhole
<1>3. ASSUME NEW r \in Refreshers, TruncatePin(r) PROVE PinWhole'
  BY <1>3 DEF TruncatePin, PinWhole
<1>4. ASSUME NEW r \in Refreshers, CompletePin(r) PROVE PinWhole'
  <2>1. Target(r) \in RunIds /\ staging[r] \in [Files -> RunIds]
    BY <1>4, TargetIsRun DEF CompletePin, Inv, StagingFull
  <2>2. dir[Target(r)] = staging[r] /\ dir' = dir
    BY <1>4 DEF CompletePin, Inv, CopiedBeforePinned
  <2>3. pinFile' = [run |-> Target(r), sha |-> staging[r]]
    BY <1>4 DEF CompletePin
  <2>4. QED
    BY <2>1, <2>2, <2>3 DEF PinWhole, Pin
<1>5. QED
  BY <1>1, <1>2, <1>3, <1>4
     DEF Next, Publisher, Refresh, Study, BeginPublish, PublishFile, StartRefresh, FetchFile, CopyFile,
         KeepHeld, RefuseHeld, SeeNoTarget, MakeDir, MakeDirFails, RefreshFails, ReadPin, VerifyFrames,
         ReadFrames, VerifyManagers, ReadManagers, VerifyFails, FinishStudy, disk, vars

(* A study verifies before it reads, and what it verified cannot change. *)
LEMMA StudyStep == Inv /\ [Next]_vars /\ TypeOK' => StudyHolds'
<1> SUFFICES ASSUME Inv, [Next]_vars, TypeOK' PROVE StudyHolds'
  OBVIOUS
<1>1. CASE UNCHANGED study
  BY <1>1, StudiesStay
<1>2. ASSUME NEW s \in Studies, ReadPin(s) PROVE StudyHolds'
  <2>1. pinFile \in Pin /\ dir' = dir
    BY <1>2 DEF ReadPin, disk, Inv, TypeOK
  <2>2. QED
    BY <1>2, <2>1 DEF ReadPin, Step, Inv, TypeOK, StudyHolds
<1>3. ASSUME NEW s \in Studies, VerifyFrames(s) \/ VerifyManagers(s) PROVE StudyHolds'
  BY <1>3 DEF VerifyFrames, VerifyManagers, Verified, disk, Step, Inv, TypeOK, StudyHolds
<1>4. ASSUME NEW s \in Studies, ReadFrames(s) \/ ReadManagers(s) PROVE StudyHolds'
  BY <1>4 DEF ReadFrames, ReadManagers, disk, Step, Inv, TypeOK, StudyHolds
<1>5. ASSUME NEW s \in Studies, VerifyFails(s) \/ FinishStudy(s) PROVE StudyHolds'
  BY <1>5 DEF VerifyFails, FinishStudy, GiveUp, Step, disk, Inv, TypeOK, StudyHolds
<1>6. CASE UNCHANGED vars
  BY <1>1, <1>6 DEF vars, study
<1>7. QED
  BY <1>1, <1>2, <1>3, <1>4, <1>5, <1>6
     DEF Next, Publisher, Refresh, Study, BeginPublish, PublishFile, CheckoutPin, StartRefresh, FetchFile,
         CopyFile, KeepHeld, RefuseHeld, SeeNoTarget, MakeDir, MakeDirFails, TruncatePin, CompletePin,
         RefreshFails

THEOREM SnapshotInvariant == Spec => []Inv
<1>1. Init => Inv
  BY InitInv
<1>2. Inv /\ [Next]_vars => Inv'
  <2>1. Inv /\ [Next]_vars => TypeOK'
    BY TypeStep DEF Inv
  <2>2. QED
    BY <2>1, CopiesStep, PinStep, StudyStep DEF Inv, Copies
<1>3. QED
  BY <1>1, <1>2, PTL DEF Spec

(* served.py, refresh(): whatever dies or overlaps, a pin a refresh wrote   *)
(* names a complete snapshot with the pinned bytes.                         *)
THEOREM PinsNameWholeSnapshots == Spec => []PinnedSnapshotWhole
<1>1. Inv => PinnedSnapshotWhole
  BY DEF Inv, PinWhole, PinnedSnapshotWhole
<1>2. QED
  BY <1>1, SnapshotInvariant, PTL

(* served.py, load() and load_managers() under one pin: a study computes on *)
(* the bytes of the pin it read, wherever the pin file has moved since.     *)
THEOREM StudiesReadTheirPin == Spec => []StudyReadsItsPin
<1>1. Inv => StudyReadsItsPin
  BY DEF Inv, StudyHolds, StudyReadsItsPin
<1>2. QED
  BY <1>1, SnapshotInvariant, PTL

(* served.py, refresh(): no step replaces or removes a file of a snapshot.  *)
THEOREM SnapshotsAreKept == Spec => SnapshotsKept
<1>1. Inv /\ [Next]_vars =>
        [\A run \in RunIds, f \in Files : dir[run][f] # Absent => dir'[run][f] = dir[run][f]]_vars
  BY FileStays
<1>2. QED
  BY <1>1, SnapshotInvariant, PTL DEF Spec, SnapshotsKept

(* The store, the pin and every refresh and study stay well formed.        *)
THEOREM Typing == Spec => []TypeOK
<1>1. Inv => TypeOK
  BY DEF Inv
<1>2. QED
  BY <1>1, SnapshotInvariant, PTL
================================================================================

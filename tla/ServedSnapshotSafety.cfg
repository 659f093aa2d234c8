SPECIFICATION Spec
CONSTANTS
  Refreshers = {r1, r2}
  Studies = {s1}
  NumFiles = 3
  None = None
  Torn = Torn
  MaxPublish = 2
  MaxFaults = 1
SYMMETRY Symmetry
INVARIANTS
  PinnedSnapshotWhole
  StudyReadsItsPin

---------------------------- MODULE LabVerdictProofs ----------------------------
(***************************************************************************)
(* Proofs about the power lab's three parts, for every value of their      *)
(* constants: PowerLab, the runner that computes the grid's cells;         *)
(* FamilyVerdict, the verdict each cell simulates; and Stage5Verdict, what *)
(* is read from the finished grid.                                         *)
(***************************************************************************)
EXTENDS PowerLab, FamilyVerdict, Stage5Verdict, FiniteSetTheorems, SequenceTheorems, WellFoundedInduction, TLAPS

Active == {"schedule", "wait", "record", "write", "replace"}

(* Between sittings nothing of the last one is left. *)
IdleIsClean ==
  pc = "idle" => running = {} /\ batch = {} /\ ~stopped /\ clock = 0

(* wait() is called with every earlier outcome recorded, and a checkpoint   *)
(* is replaced for a cell of the batch by a .tmp that was written out.      *)
BatchInHand ==
  /\ pc \in {"schedule", "wait"} => batch = {}
  /\ pc \in {"write", "replace"} => writing \in batch
  /\ pc = "replace" => tmp[writing] = "whole"

(* The budget stops a sitting with a cell left over. *)
StopLeavesCells == pc \in Active /\ stopped => queue # {}

(* What the pool computes is due inside the budget. *)
DueInBudget ==
  /\ \A c \in running : due[c] <= Budget
  /\ pc # "exit" => clock <= Budget

LabInv == /\ SittingsTypeOK
          /\ NoTornCheckpoint
          /\ IdleIsClean
          /\ BatchInHand
          /\ StopLeavesCells
          /\ DueInBudget
          /\ NothingTwiceNothingLost
          /\ ReturnAccountsForAll

LEMMA LabInvInit == SittingsInit => LabInv
<1> SUFFICES ASSUME SittingsInit PROVE LabInv
  OBVIOUS
<1>1. SittingsTypeOK
  BY DEF SittingsInit, SittingsTypeOK, NoCell
<1>2. NoTornCheckpoint /\ IdleIsClean /\ BatchInHand
  BY DEF SittingsInit, NoTornCheckpoint, IdleIsClean, BatchInHand
<1>3. StopLeavesCells /\ DueInBudget
  BY LabAssumption DEF SittingsInit, StopLeavesCells, DueInBudget
<1>4. NothingTwiceNothingLost /\ ReturnAccountsForAll
  BY DEF SittingsInit, NothingTwiceNothingLost, ReturnAccountsForAll
<1>5. QED
  BY <1>1, <1>2, <1>3, <1>4 DEF LabInv

(* However a sitting ends, the checkpoints stay. *)
LEMMA EndStep ==
  ASSUME LabInv, EndSitting, faults' \in Nat
  PROVE  LabInv'
<1> USE DEF EndSitting
<1>1. SittingsTypeOK'
  BY DEF LabInv, SittingsTypeOK, NoCell
<1>2. NoTornCheckpoint'
  BY DEF LabInv, NoTornCheckpoint
<1>3. IdleIsClean' /\ BatchInHand'
  BY DEF IdleIsClean, BatchInHand
<1>4. StopLeavesCells' /\ DueInBudget'
  BY LabAssumption DEF StopLeavesCells, DueInBudget
<1>5. NothingTwiceNothingLost' /\ ReturnAccountsForAll'
  BY DEF NothingTwiceNothingLost, ReturnAccountsForAll
<1>6. QED
  BY <1>1, <1>2, <1>3, <1>4, <1>5 DEF LabInv

LEMMA LabInvStep == LabInv /\ [SittingsNext]_sittingVars => LabInv'
<1> SUFFICES ASSUME LabInv, [SittingsNext]_sittingVars PROVE LabInv'
  OBVIOUS
<1> USE LabAssumption DEF pool
<1>1. CASE StartSitting
  <2> USE <1>1 DEF StartSitting, LabInv, SittingsTypeOK
  <2>1. SittingsTypeOK' /\ NoTornCheckpoint' /\ DueInBudget'
    BY DEF NoTornCheckpoint, DueInBudget
  <2>2. IdleIsClean' /\ BatchInHand' /\ StopLeavesCells' /\ ReturnAccountsForAll'
    BY DEF IdleIsClean, BatchInHand, StopLeavesCells, ReturnAccountsForAll
  <2>3. NothingTwiceNothingLost'
    BY DEF IdleIsClean, NothingTwiceNothingLost, InFlight, Saved
  <2>4. QED
    BY <2>1, <2>2, <2>3
<1>2. ASSUME NEW c \in Cells, Submit(c) PROVE LabInv'
  <2> USE <1>2 DEF Submit, MaySubmit, IsHead, LabInv, SittingsTypeOK
  <2>1. clock + CellWall(c) \in Nat
    BY DEF CellWall
  <2>2. SittingsTypeOK' /\ NoTornCheckpoint'
    BY <2>1 DEF NoTornCheckpoint
  <2>3. DueInBudget'
    BY <2>1 DEF DueInBudget, Fits
  <2>4. IdleIsClean' /\ BatchInHand' /\ StopLeavesCells' /\ ReturnAccountsForAll'
    BY DEF IdleIsClean, BatchInHand, StopLeavesCells, ReturnAccountsForAll
  <2>5. NothingTwiceNothingLost'
    BY DEF BatchInHand, NothingTwiceNothingLost, InFlight, Saved
  <2>6. QED
    BY <2>2, <2>3, <2>4, <2>5
<1>3. ASSUME NEW c \in Cells, StopForBudget(c) PROVE LabInv'
  BY <1>3 DEF StopForBudget, MaySubmit, LabInv, SittingsTypeOK, NoTornCheckpoint, IdleIsClean, BatchInHand,
              StopLeavesCells, DueInBudget, NothingTwiceNothingLost, InFlight, Saved, ReturnAccountsForAll
<1>4. CASE BeginWait
  BY <1>4 DEF BeginWait, LabInv, SittingsTypeOK, NoTornCheckpoint, IdleIsClean, BatchInHand, StopLeavesCells,
              DueInBudget, NothingTwiceNothingLost, InFlight, Saved, ReturnAccountsForAll, Active
<1>5. CASE Finish
  <2> USE <1>5 DEF Finish, LabInv, SittingsTypeOK
  <2>1. stopped <=> queue # {}
    BY FS_EmptySet DEF MaySubmit, StopLeavesCells, Active
  <2>2. Cells \ Saved = queue
    BY DEF NothingTwiceNothingLost, InFlight, BatchInHand
  <2>3. ReturnAccountsForAll'
    BY <2>1, <2>2 DEF ReturnAccountsForAll, Saved
  <2>4. /\ SittingsTypeOK' /\ NoTornCheckpoint' /\ IdleIsClean' /\ BatchInHand' /\ StopLeavesCells'
        /\ DueInBudget' /\ NothingTwiceNothingLost'
    BY DEF NoTornCheckpoint, IdleIsClean, BatchInHand, StopLeavesCells, DueInBudget,
           NothingTwiceNothingLost, Active
  <2>5. QED
    BY <2>3, <2>4
<1>6. CASE Tick
  <2> USE <1>6 DEF Tick, LabInv, SittingsTypeOK
  <2>1. DueInBudget'
    BY DEF DueInBudget
  <2>2. /\ SittingsTypeOK' /\ NoTornCheckpoint' /\ IdleIsClean' /\ BatchInHand' /\ StopLeavesCells'
        /\ NothingTwiceNothingLost' /\ ReturnAccountsForAll'
    BY DEF NoTornCheckpoint, IdleIsClean, BatchInHand, StopLeavesCells, NothingTwiceNothingLost, InFlight,
           Saved, ReturnAccountsForAll, Active
  <2>3. QED
    BY <2>1, <2>2
<1>7. ASSUME NEW c \in Cells, CellFinishes(c) \/ CellRaises(c) PROVE LabInv'
  BY <1>7 DEF CellFinishes, CellRaises, LabInv, SittingsTypeOK, NoTornCheckpoint, IdleIsClean, BatchInHand,
              StopLeavesCells, DueInBudget, NothingTwiceNothingLost, InFlight, Saved, ReturnAccountsForAll
<1>8. CASE WaitReturns
  <2> USE <1>8 DEF WaitReturns, LabInv, SittingsTypeOK
  <2>1. NothingTwiceNothingLost'
    BY DEF BatchInHand, NothingTwiceNothingLost, InFlight, Saved
  <2>2. /\ SittingsTypeOK' /\ NoTornCheckpoint' /\ IdleIsClean' /\ BatchInHand' /\ StopLeavesCells'
        /\ DueInBudget' /\ ReturnAccountsForAll'
    BY DEF NoTornCheckpoint, IdleIsClean, BatchInHand, StopLeavesCells, DueInBudget, ReturnAccountsForAll, Active
  <2>3. QED
    BY <2>1, <2>2
<1>9. ASSUME NEW c \in Cells, OpenTmp(c) PROVE LabInv'
  BY <1>9 DEF OpenTmp, LabInv, SittingsTypeOK, NoTornCheckpoint, IdleIsClean, BatchInHand, StopLeavesCells,
              DueInBudget, NothingTwiceNothingLost, InFlight, Saved, ReturnAccountsForAll, Active
<1>9a. CASE CloseTmp
  BY <1>9a DEF CloseTmp, LabInv, SittingsTypeOK, NoTornCheckpoint, IdleIsClean, BatchInHand, StopLeavesCells,
               DueInBudget, NothingTwiceNothingLost, InFlight, Saved, ReturnAccountsForAll, Active
<1>10. CASE Replace
  <2> USE <1>10 DEF Replace, LabInv, SittingsTypeOK
  <2>1. writing \in batch /\ writing \in Cells /\ tmp[writing] = "whole"
    BY DEF BatchInHand
  <2>2. Saved' = Saved \cup {writing}
    BY <2>1 DEF Saved
  <2>3. NothingTwiceNothingLost'
    BY <2>1, <2>2 DEF NothingTwiceNothingLost, InFlight
  <2>4. /\ SittingsTypeOK' /\ NoTornCheckpoint' /\ IdleIsClean' /\ BatchInHand' /\ StopLeavesCells'
        /\ DueInBudget' /\ ReturnAccountsForAll'
    BY <2>1 DEF NoTornCheckpoint, IdleIsClean, BatchInHand, StopLeavesCells, DueInBudget,
                ReturnAccountsForAll, Active, NoCell
  <2>5. QED
    BY <2>3, <2>4
<1>11. ASSUME NEW c \in Cells, RecordRaises(c) PROVE LabInv'
  BY <1>11 DEF RecordRaises, LabInv, SittingsTypeOK, NoTornCheckpoint, IdleIsClean, BatchInHand, StopLeavesCells,
               DueInBudget, NothingTwiceNothingLost, ReturnAccountsForAll, Active
<1>12. CASE ExitPool \/ Return \/ Kill
  BY <1>12, EndStep DEF ExitPool, Return, Kill, LabInv, SittingsTypeOK
<1>13. CASE UNCHANGED sittingVars
  BY <1>13 DEF sittingVars, LabInv, SittingsTypeOK, NoTornCheckpoint, IdleIsClean, BatchInHand, StopLeavesCells,
               DueInBudget, NothingTwiceNothingLost, InFlight, Saved, ReturnAccountsForAll
<1>14. QED
  BY <1>1, <1>2, <1>3, <1>4, <1>5, <1>6, <1>7, <1>8, <1>9, <1>9a, <1>10, <1>11, <1>12, <1>13
     DEF SittingsNext, Sitting, Pool

THEOREM LabInvariant == Sittings => []LabInv
<1>1. LabInv /\ [SittingsNext]_sittingVars => LabInv'
  BY LabInvStep
<1>2. QED
  BY LabInvInit, <1>1, PTL DEF Sittings

(* power_lab.py, run_lab(): over all its sittings no cell is lost between   *)
(* the queue, the pool and the batch, and none that is saved is computed    *)
(* again.                                                                   *)
THEOREM NoCellTwiceOrLost == Sittings => []NothingTwiceNothingLost
<1>1. LabInv => NothingTwiceNothingLost
  BY DEF LabInv
<1>2. QED
  BY <1>1, LabInvariant, PTL

(* power_lab.py, run_lab(): a sitting that returns has saved every cell it  *)
(* does not report as not run.                                              *)
THEOREM ReturnsAccount == Sittings => []ReturnAccountsForAll
<1>1. LabInv => ReturnAccountsForAll
  BY DEF LabInv
<1>2. QED
  BY <1>1, LabInvariant, PTL

(* power_lab.py, run_lab(): pricing only the next cell keeps the sitting    *)
(* inside its budget, for any number of workers.                            *)
THEOREM BudgetIsKept == Sittings => []WithinBudget
<1>1. LabInv => WithinBudget
  BY DEF LabInv, DueInBudget, WithinBudget
<1>2. QED
  BY <1>1, LabInvariant, PTL

(* power_lab.py, record(): a kill between opening the .tmp and its end      *)
(* leaves a torn .tmp, never a torn checkpoint.                             *)
THEOREM CheckpointsAreWhole == Sittings => []NoTornCheckpoint
<1>1. LabInv => NoTornCheckpoint
  BY DEF LabInv
<1>2. QED
  BY <1>1, LabInvariant, PTL

(* Every checkpoint, result and worker of a sitting stays well formed.       *)
THEOREM SittingsTyping == Sittings => []SittingsTypeOK
<1>1. LabInv => SittingsTypeOK
  BY DEF LabInv
<1>2. QED
  BY <1>1, LabInvariant, PTL

--------------------------------------------------------------------------------
(* The verdict on a family of tests. *)

(* A p-value that is one. *)
Fractions == Nat \X (Nat \ {0})

LEMMA FractionParts ==
  ASSUME NEW a \in Fractions
  PROVE  a[1] \in Nat /\ a[2] \in Nat /\ a[2] > 0 /\ ~IsNaN(a)
  BY DEF Fractions, IsNaN


(* Multiplying out keeps an order, and a positive factor can be cancelled.  *)
LEMMA Scaled ==
  ASSUME NEW x \in Int, NEW y \in Int, NEW c \in Int, c > 0
  PROVE  /\ x <= y <=> x * c <= y * c
         /\ x < y <=> x * c < y * c
  BY SMT

LEMMA AtMostTransitive ==
  ASSUME NEW a \in Fractions, NEW b \in Fractions, NEW c \in Fractions, AtMost(a, b), AtMost(b, c)
  PROVE  AtMost(a, c) /\ (Less(a, b) \/ Less(b, c) => Less(a, c))
<1> DEFINE a1 == a[1]
           a2 == a[2]
           b1 == b[1]
           b2 == b[2]
           c1 == c[1]
           c2 == c[2]
<1>1. /\ a1 \in Nat /\ a2 \in Nat /\ a2 > 0 /\ b1 \in Nat /\ b2 \in Nat /\ b2 > 0
      /\ c1 \in Nat /\ c2 \in Nat /\ c2 > 0
  BY FractionParts
<1>2. a1 * b2 <= b1 * a2 /\ b1 * c2 <= c1 * b2
  BY DEF AtMost
<1>3. /\ Less(a, b) => a1 * b2 < b1 * a2
      /\ Less(b, c) => b1 * c2 < c1 * b2
  BY DEF Less
<1>4. /\ (a1 * c2 <= c1 * a2) => AtMost(a, c)
      /\ (a1 * c2 < c1 * a2) => Less(a, c)
  BY DEF AtMost, Less
<1> HIDE DEF a1, a2, b1, b2, c1, c2
<1>5. (a1 * b2) * c2 <= (b1 * a2) * c2 /\ (Less(a, b) => (a1 * b2) * c2 < (b1 * a2) * c2)
  <2>1. a1 * b2 \in Int /\ b1 * a2 \in Int
    BY <1>1
  <2> QED
    BY <2>1, <1>1, <1>2, <1>3, Scaled
<1>6. (b1 * c2) * a2 <= (c1 * b2) * a2 /\ (Less(b, c) => (b1 * c2) * a2 < (c1 * b2) * a2)
  <2>1. b1 * c2 \in Int /\ c1 * b2 \in Int
    BY <1>1
  <2> QED
    BY <2>1, <1>1, <1>2, <1>3, Scaled
<1>7. /\ (a1 * b2) * c2 = (a1 * c2) * b2
      /\ (b1 * a2) * c2 = (b1 * c2) * a2
      /\ (c1 * b2) * a2 = (c1 * a2) * b2
  BY <1>1
<1>8. a1 * c2 \in Int /\ c1 * a2 \in Int
  BY <1>1
<1> DEFINE l == a1 * c2
           r == c1 * a2
           m == (b1 * c2) * a2
<1>9. l * b2 <= m /\ m <= r * b2 /\ (Less(a, b) => l * b2 < m) /\ (Less(b, c) => m < r * b2)
  BY <1>5, <1>6, <1>7
<1>10. l * b2 \in Int /\ r * b2 \in Int /\ m \in Int
  BY <1>1
<1>11. l * b2 <= r * b2 /\ (Less(a, b) \/ Less(b, c) => l * b2 < r * b2)
  <2> HIDE DEF l, r, m
  <2> QED
    BY <1>9, <1>10
<1>12. l <= r /\ (Less(a, b) \/ Less(b, c) => l < r)
  BY <1>1, <1>8, <1>11, Scaled
<1> QED
  BY <1>4, <1>12

LEMMA AtMostOrLess ==
  ASSUME NEW a \in Fractions, NEW b \in Fractions
  PROVE  /\ AtMost(a, b) <=> ~Less(b, a)
         /\ Less(a, b) => AtMost(a, b)
<1>1. a[1] \in Nat /\ a[2] \in Nat /\ b[1] \in Nat /\ b[2] \in Nat
  BY FractionParts
<1>2. a[1] * b[2] \in Int /\ b[1] * a[2] \in Int
  BY <1>1
<1> QED
  BY <1>2 DEF AtMost, Less

(* A family of p-values none of which is NaN. *)
IsFamily(q) == q \in Seq(Fractions)

LEMMA FamilyParts ==
  ASSUME NEW q, IsFamily(q)
  PROVE  /\ Len(q) \in Nat /\ DOMAIN q = 1..Len(q) /\ DOMAIN q \subseteq Nat
         /\ \A i \in DOMAIN q : q[i] \in Fractions
         /\ IsFiniteSet(DOMAIN q) /\ Cardinality(DOMAIN q) = Len(q)
<1>1. /\ Len(q) \in Nat /\ DOMAIN q = 1..Len(q)
      /\ \A i \in DOMAIN q : q[i] \in Fractions
  BY DEF IsFamily
<1>2. IsFiniteSet(1..Len(q)) /\ Cardinality(1..Len(q)) = Len(q)
  BY <1>1, FS_Interval
<1> QED
  BY <1>1, <1>2

(* Ahead in the sort, on a family without NaN. *)
LEMMA BeforeMeans ==
  ASSUME NEW q, IsFamily(q), NEW i \in DOMAIN q, NEW j \in DOMAIN q
  PROVE  /\ Before(q, i, j) <=> Less(q[i], q[j]) \/ (AtMost(q[i], q[j]) /\ i < j)
         /\ Before(q, i, j) => AtMost(q[i], q[j])
<1>1. q[i] \in Fractions /\ q[j] \in Fractions
  BY FamilyParts
<1>2. ~IsNaN(q[i]) /\ ~IsNaN(q[j])
  BY <1>1, FractionParts
<1>3. (AtMost(q[i], q[j]) <=> ~Less(q[j], q[i])) /\ (Less(q[i], q[j]) => AtMost(q[i], q[j]))
  BY <1>1, AtMostOrLess
<1> QED
  BY <1>2, <1>3 DEF Before

LEMMA BeforeIsOrder ==
  ASSUME NEW q, IsFamily(q), NEW i \in DOMAIN q, NEW j \in DOMAIN q
  PROVE  /\ ~Before(q, i, i)
         /\ i = j \/ Before(q, i, j) \/ Before(q, j, i)
         /\ \A k \in DOMAIN q : Before(q, i, j) /\ Before(q, j, k) => Before(q, i, k)
<1>1. q[i] \in Fractions /\ q[j] \in Fractions /\ i \in Nat /\ j \in Nat
  BY FamilyParts
<1>2. /\ AtMost(q[i], q[i]) <=> ~Less(q[i], q[i])
      /\ AtMost(q[j], q[i]) <=> ~Less(q[i], q[j])
      /\ AtMost(q[i], q[j]) <=> ~Less(q[j], q[i])
      /\ Less(q[i], q[i]) => AtMost(q[i], q[i])
      /\ Less(q[i], q[j]) => AtMost(q[i], q[j])
  BY <1>1, AtMostOrLess
<1>3. ~Before(q, i, i)
  BY <1>1, <1>2, BeforeMeans
<1>4. i = j \/ Before(q, i, j) \/ Before(q, j, i)
  BY <1>1, <1>2, BeforeMeans
<1>5. ASSUME NEW k \in DOMAIN q, Before(q, i, j), Before(q, j, k) PROVE Before(q, i, k)
  <2>1. q[k] \in Fractions /\ k \in Nat
    BY FamilyParts
  <2>2. /\ AtMost(q[i], q[j]) /\ AtMost(q[j], q[k])
        /\ Less(q[i], q[j]) \/ i < j
        /\ Less(q[j], q[k]) \/ j < k
    BY <1>5, BeforeMeans
  <2>3. AtMost(q[i], q[k]) /\ (Less(q[i], q[j]) \/ Less(q[j], q[k]) => Less(q[i], q[k]))
    BY <1>1, <2>1, <2>2, AtMostTransitive
  <2>4. Less(q[i], q[k]) \/ i < k
    BY <1>1, <2>1, <2>2, <2>3
  <2> QED
    BY <2>3, <2>4, BeforeMeans
<1> QED
  BY <1>3, <1>4, <1>5

(* Those ahead of a hypothesis. *)
AheadOf(q, i) == {j \in DOMAIN q : Before(q, j, i)}

LEMMA RankParts ==
  ASSUME NEW q, IsFamily(q), NEW i \in DOMAIN q
  PROVE  /\ IsFiniteSet(AheadOf(q, i)) /\ Cardinality(AheadOf(q, i)) \in Nat
         /\ RankOf(q, i) = 1 + Cardinality(AheadOf(q, i))
         /\ RankOf(q, i) \in 1..Len(q)
<1>1. IsFiniteSet(DOMAIN q) /\ Cardinality(DOMAIN q) = Len(q) /\ Len(q) \in Nat
  BY FamilyParts
<1>2. AheadOf(q, i) \in SUBSET DOMAIN q /\ i \notin AheadOf(q, i)
  BY BeforeIsOrder DEF AheadOf
<1>3. /\ IsFiniteSet(AheadOf(q, i))
      /\ Cardinality(AheadOf(q, i)) <= Cardinality(DOMAIN q)
      /\ Cardinality(AheadOf(q, i)) = Cardinality(DOMAIN q) => DOMAIN q = AheadOf(q, i)
  BY <1>1, <1>2, FS_Subset
<1>4. Cardinality(AheadOf(q, i)) \in Nat
  BY <1>3, FS_CardinalityType
<1>5. Cardinality(AheadOf(q, i)) # Cardinality(DOMAIN q)
  BY <1>2, <1>3
<1> QED
  BY <1>1, <1>3, <1>4, <1>5 DEF RankOf, AheadOf

(* The ranks rise along the sort. *)
LEMMA RanksFollowSort ==
  ASSUME NEW q, IsFamily(q), NEW i \in DOMAIN q, NEW j \in DOMAIN q
  PROVE  RankOf(q, j) <= RankOf(q, i) <=> j = i \/ Before(q, j, i)
<1>1. ASSUME NEW k \in DOMAIN q, NEW l \in DOMAIN q, Before(q, k, l) PROVE RankOf(q, k) < RankOf(q, l)
  <2>1. AheadOf(q, k) \in SUBSET AheadOf(q, l)
    BY <1>1, BeforeIsOrder DEF AheadOf
  <2>2. k \in AheadOf(q, l) /\ k \notin AheadOf(q, k)
    BY <1>1, BeforeIsOrder DEF AheadOf
  <2>3. IsFiniteSet(AheadOf(q, l)) /\ Cardinality(AheadOf(q, l)) \in Nat /\ Cardinality(AheadOf(q, k)) \in Nat
    BY RankParts
  <2>4. Cardinality(AheadOf(q, k)) < Cardinality(AheadOf(q, l))
    BY <2>1, <2>2, <2>3, FS_Subset
  <2> QED
    BY <2>3, <2>4, RankParts
<1>2. RankOf(q, i) \in Nat /\ RankOf(q, j) \in Nat
  BY RankParts, FamilyParts
<1>3. i = j \/ Before(q, i, j) \/ Before(q, j, i)
  BY BeforeIsOrder
<1>4. Before(q, i, j) => RankOf(q, i) < RankOf(q, j)
  BY <1>1
<1>5. Before(q, j, i) => RankOf(q, j) < RankOf(q, i)
  BY <1>1
<1> QED
  BY <1>2, <1>3, <1>4, <1>5

(* From a hypothesis on: as many as the divisor of its threshold. *)
FromOn(q, i) == {k \in DOMAIN q : RankOf(q, i) <= RankOf(q, k)}

LEMMA FromOnCounts ==
  ASSUME NEW q, IsFamily(q), NEW i \in DOMAIN q
  PROVE  /\ i \in FromOn(q, i) /\ FromOn(q, i) \subseteq DOMAIN q
         /\ Cardinality(FromOn(q, i)) = Len(q) - RankOf(q, i) + 1
<1>1. IsFiniteSet(DOMAIN q) /\ Cardinality(DOMAIN q) = Len(q) /\ Len(q) \in Nat
  BY FamilyParts
<1>2. RankOf(q, i) \in Nat
  BY RankParts, FamilyParts
<1>3. FromOn(q, i) = DOMAIN q \ AheadOf(q, i)
  <2>1. ASSUME NEW k \in DOMAIN q PROVE RankOf(q, i) <= RankOf(q, k) <=> ~Before(q, k, i)
    <3>1. RankOf(q, i) <= RankOf(q, k) <=> i = k \/ Before(q, i, k)
      BY RanksFollowSort
    <3>2. /\ ~Before(q, i, i)
          /\ i = k \/ Before(q, i, k) \/ Before(q, k, i)
          /\ ~(Before(q, i, k) /\ Before(q, k, i))
      BY BeforeIsOrder
    <3> QED
      BY <3>1, <3>2
  <2> QED
    BY <2>1 DEF FromOn, AheadOf
<1>4. AheadOf(q, i) \in SUBSET DOMAIN q
  BY DEF AheadOf
<1>5. /\ IsFiniteSet(AheadOf(q, i)) /\ Cardinality(AheadOf(q, i)) \in Nat
      /\ RankOf(q, i) = 1 + Cardinality(AheadOf(q, i))
  BY RankParts
<1>6. DOMAIN q \cap AheadOf(q, i) = AheadOf(q, i)
  BY <1>4
<1>7. Cardinality(DOMAIN q \ AheadOf(q, i)) = Cardinality(DOMAIN q) - Cardinality(AheadOf(q, i))
  <2>1. Cardinality(DOMAIN q \ AheadOf(q, i))
          = Cardinality(DOMAIN q) - Cardinality(DOMAIN q \cap AheadOf(q, i))
    BY <1>1, FS_Difference, Zenon
  <2> QED
    BY <2>1, <1>6, Zenon
<1>8. i \in FromOn(q, i) /\ FromOn(q, i) \subseteq DOMAIN q
  BY <1>2 DEF FromOn
<1>9. Cardinality(FromOn(q, i)) = Len(q) - Cardinality(AheadOf(q, i))
  BY <1>1, <1>3, <1>7
<1> QED
  BY <1>1, <1>5, <1>8, <1>9

(* Within the n-th part of alpha. *)
WithinPart(a, n) == AtMost(a, <<AlphaNum, AlphaDen * n>>)

LEMMA PartsShrink ==
  ASSUME NEW a \in Fractions, NEW m \in Nat, NEW n \in Nat, n <= m, WithinPart(a, m)
  PROVE  WithinPart(a, n)
<1>1. a[1] \in Nat /\ a[2] \in Nat /\ AlphaNum \in Nat /\ AlphaDen \in Nat
  BY FractionParts, VerdictAssumption
<1>2. a[1] * (AlphaDen * m) <= AlphaNum * a[2]
  BY DEF WithinPart, AtMost
<1>3. a[1] * (AlphaDen * n) <= a[1] * (AlphaDen * m)
  <2>1. PICK k \in Nat : m = n + k
    <3>1. m - n \in Nat /\ m = n + (m - n)
      OBVIOUS
    <3> QED
      BY <3>1
  <2> DEFINE x == a[1]
  <2>2. x \in Nat
    BY <1>1
  <2> HIDE DEF x
  <2>3. x * (AlphaDen * (n + k)) = x * (AlphaDen * n) + x * (AlphaDen * k)
    BY <1>1, <2>1, <2>2
  <2>4. x * (AlphaDen * n) \in Nat /\ x * (AlphaDen * k) \in Nat
    BY <1>1, <2>1, <2>2
  <2>5. x * (AlphaDen * n) <= x * (AlphaDen * m)
    BY <2>1, <2>3, <2>4
  <2> QED
    BY <2>5 DEF x
<1>4. /\ a[1] * (AlphaDen * n) \in Int /\ a[1] * (AlphaDen * m) \in Int
      /\ AlphaNum * a[2] \in Int
  BY <1>1
<1>5. a[1] * (AlphaDen * n) <= AlphaNum * a[2]
  BY <1>2, <1>3, <1>4
<1> QED
  BY <1>5 DEF WithinPart, AtMost

LEMMA SmallerIsWithin ==
  ASSUME NEW a \in Fractions, NEW b \in Fractions, NEW n \in Nat, n > 0, AtMost(a, b), WithinPart(b, n)
  PROVE  WithinPart(a, n)
<1>1. AlphaDen * n \in Nat /\ AlphaDen * n > 0
  BY VerdictAssumption
<1>2. <<AlphaNum, AlphaDen * n>> \in Fractions
  BY <1>1, VerdictAssumption DEF Fractions
<1> QED
  BY <1>2, AtMostTransitive DEF WithinPart

(* The step-down and the closed test, in these terms. *)
LEMMA HolmMeans ==
  ASSUME NEW q, IsFamily(q), NEW i \in DOMAIN q
  PROVE  Holm(q)[i] <=> \A j \in DOMAIN q :
           RankOf(q, j) <= RankOf(q, i) => WithinPart(q[j], Len(q) - RankOf(q, j) + 1)
  BY DEF Holm, WithinPart, Threshold

LEMMA ClosedMeans ==
  ASSUME NEW q, IsFamily(q), NEW i \in DOMAIN q
  PROVE  ClosedTest(q)[i] <=> \A I \in SUBSET DOMAIN q :
           i \in I => \E j \in I : WithinPart(q[j], Cardinality(I))
  BY DEF ClosedTest, JointlyRejected, WithinPart

LEMMA LeastRank ==
  ASSUME NEW R \in SUBSET Nat, R # {}
  PROVE  \E r \in R : \A t \in R : r <= t
<1> DEFINE Upto == {0..n : n \in R}
<1>1. Upto \subseteq FiniteSubsetsOf(Nat) /\ Upto # {}
  <2>1. \A n \in R : 0..n \in FiniteSubsetsOf(Nat)
    <3> TAKE n \in R
    <3>1. IsFiniteSet(0..n)
      BY FS_Interval
    <3> QED
      BY <3>1 DEF FiniteSubsetsOf
  <2> QED
    BY <2>1
<1>2. PICK U \in Upto : \A V \in Upto : <<V, U>> \notin StrictSubsetOrdering(Nat)
  <2> HIDE DEF Upto
  <2> QED
    BY <1>1, FS_StrictSubsetOrderingWellFounded, WFMin
<1>3. PICK r \in R : U = 0..r
  OBVIOUS
<1>4. ASSUME NEW t \in R, t < r PROVE FALSE
  <2>1. r \in 0..r /\ r \notin 0..t /\ 0..t \subseteq 0..r /\ 0..r \subseteq Nat
    BY <1>4
  <2>2. <<0..t, 0..r>> \in StrictSubsetOrdering(Nat)
    BY <2>1 DEF StrictSubsetOrdering
  <2> QED
    BY <1>2, <1>3, <2>2
<1> QED
  BY <1>4

(* A part of a family, from its first in the sort on. *)
LEMMA FirstOfPart ==
  ASSUME NEW q, IsFamily(q), NEW I \in SUBSET DOMAIN q, I # {}
  PROVE  \E j \in I : /\ \A k \in I : RankOf(q, j) <= RankOf(q, k)
                      /\ Cardinality(I) \in Nat /\ Cardinality(I) <= Len(q) - RankOf(q, j) + 1
<1> DEFINE R == {RankOf(q, k) : k \in I}
<1>1. \A k \in DOMAIN q : RankOf(q, k) \in Nat
  BY RankParts, FamilyParts
<1>2. R \in SUBSET Nat /\ R # {}
  BY <1>1
<1>3. PICK r \in R : \A t \in R : r <= t
  <2> HIDE DEF R
  <2>1. \E r \in R : \A t \in R : r <= t
    BY <1>2, LeastRank
  <2> QED
    BY <2>1
<1>4. PICK j \in I : RankOf(q, j) = r
  BY <1>3
<1>5. \A k \in I : RankOf(q, j) <= RankOf(q, k)
  BY <1>3, <1>4
<1>6. j \in DOMAIN q
  OBVIOUS
<1>7. I \in SUBSET FromOn(q, j)
  BY <1>5 DEF FromOn
<1>8. IsFiniteSet(FromOn(q, j)) /\ Cardinality(FromOn(q, j)) = Len(q) - RankOf(q, j) + 1
  BY <1>6, FromOnCounts, FamilyParts, FS_Subset
<1>9. IsFiniteSet(I) /\ Cardinality(I) <= Cardinality(FromOn(q, j))
  BY <1>7, <1>8, FS_Subset
<1>10. Cardinality(I) \in Nat
  BY <1>9, FS_CardinalityType
<1> QED
  BY <1>5, <1>8, <1>9, <1>10

(* The step-down's shortcut is exact: it decides as the closed test. *)
LEMMA HolmIsClosed ==
  ASSUME NEW q, IsFamily(q)
  PROVE  Holm(q) = ClosedTest(q)
<1>1. Len(q) \in Nat /\ (\A i \in DOMAIN q : q[i] \in Fractions /\ RankOf(q, i) \in 1..Len(q))
  BY FamilyParts, RankParts
<1>2. ASSUME NEW i \in DOMAIN q, Holm(q)[i] PROVE ClosedTest(q)[i]
  <2>1. \A j \in DOMAIN q : RankOf(q, j) <= RankOf(q, i) => WithinPart(q[j], Len(q) - RankOf(q, j) + 1)
    BY <1>2, HolmMeans
  <2>2. ASSUME NEW I \in SUBSET DOMAIN q, i \in I PROVE \E j \in I : WithinPart(q[j], Cardinality(I))
    <3>1. PICK j \in I : /\ \A k \in I : RankOf(q, j) <= RankOf(q, k)
                         /\ Cardinality(I) \in Nat /\ Cardinality(I) <= Len(q) - RankOf(q, j) + 1
      BY <2>2, FirstOfPart
    <3>2. RankOf(q, j) <= RankOf(q, i) /\ j \in DOMAIN q
      BY <2>2, <3>1
    <3>3. WithinPart(q[j], Len(q) - RankOf(q, j) + 1)
      BY <2>1, <3>2
    <3>4. Len(q) - RankOf(q, j) + 1 \in Nat
      BY <1>1, <3>2
    <3>5. WithinPart(q[j], Cardinality(I))
      BY <1>1, <3>1, <3>2, <3>3, <3>4, PartsShrink
    <3> QED
      BY <3>5
  <2> QED
    BY <2>2, ClosedMeans
<1>3. ASSUME NEW i \in DOMAIN q, ClosedTest(q)[i] PROVE Holm(q)[i]
  <2>1. ASSUME NEW j \in DOMAIN q, RankOf(q, j) <= RankOf(q, i)
        PROVE  WithinPart(q[j], Len(q) - RankOf(q, j) + 1)
    <3>1. /\ FromOn(q, j) \in SUBSET DOMAIN q
          /\ Cardinality(FromOn(q, j)) = Len(q) - RankOf(q, j) + 1
      BY FromOnCounts
    <3>2. i \in FromOn(q, j)
      BY <2>1 DEF FromOn
    <3>3. PICK k \in FromOn(q, j) : WithinPart(q[k], Cardinality(FromOn(q, j)))
      BY <1>3, <3>1, <3>2, ClosedMeans
    <3>4. k \in DOMAIN q /\ RankOf(q, j) <= RankOf(q, k)
      BY <3>3 DEF FromOn
    <3>5. j = k \/ Before(q, j, k)
      BY <3>4, RanksFollowSort
    <3>6. q[j] \in Fractions /\ q[k] \in Fractions
      BY <1>1, <3>4
    <3>7. AtMost(q[j], q[k])
      <4>1. CASE j = k
        BY <4>1, <3>6, AtMostOrLess
      <4>2. CASE Before(q, j, k)
        BY <4>2, <3>4, BeforeMeans
      <4> QED
        BY <3>5, <4>1, <4>2
    <3>8. Len(q) - RankOf(q, j) + 1 \in Nat /\ Len(q) - RankOf(q, j) + 1 > 0
      BY <1>1
    <3>9. WithinPart(q[k], Len(q) - RankOf(q, j) + 1)
      BY <3>1, <3>3
    <3> QED
      BY <3>6, <3>7, <3>8, <3>9, SmallerIsWithin
  <2> QED
    BY <2>1, HolmMeans
<1>4. \A i \in DOMAIN q : Holm(q)[i] \in BOOLEAN /\ ClosedTest(q)[i] \in BOOLEAN
  BY DEF Holm, ClosedTest
<1>5. \A i \in DOMAIN q : Holm(q)[i] = ClosedTest(q)[i]
  BY <1>2, <1>3, <1>4
<1> QED
  BY <1>5 DEF Holm, ClosedTest

--------------------------------------------------------------------------------
(* Fewer legs. *)

(* Every leg falls when every part of the family does. *)
EveryPartFalls(q) ==
  \A I \in SUBSET DOMAIN q : I # {} => \E j \in I : WithinPart(q[j], Cardinality(I))

LEMMA PassingMeans ==
  ASSUME NEW q, IsFamily(q)
  PROVE  Passes(Holm(q)) <=> Len(q) # 0 /\ EveryPartFalls(q)
<1>1. DOMAIN Holm(q) = DOMAIN q /\ DOMAIN q = 1..Len(q) /\ Len(q) \in Nat
  BY FamilyParts DEF Holm
<1>2. Holm(q) # <<>> <=> Len(q) # 0
  <2>1. CASE Len(q) = 0
    <3>1. DOMAIN Holm(q) = 1..0
      BY <1>1, <2>1
    <3>2. Holm(q) = [i \in DOMAIN q |-> Holm(q)[i]]
      BY <1>1 DEF Holm
    <3>3. Holm(q) \in [1..0 -> BOOLEAN]
      BY <1>1, <2>1 DEF Holm
    <3>4. Holm(q) = <<>>
      BY <3>3
    <3> QED
      BY <2>1, <3>4
  <2>2. CASE Len(q) # 0
    <3>1. 1 \in DOMAIN Holm(q)
      BY <1>1, <2>2
    <3>2. DOMAIN <<>> = {}
      OBVIOUS
    <3> QED
      BY <2>2, <3>1, <3>2
  <2> QED
    BY <2>1, <2>2
<1>3. (\A i \in DOMAIN q : Holm(q)[i]) <=> EveryPartFalls(q)
  <2>1. \A i \in DOMAIN q : Holm(q)[i] <=> ClosedTest(q)[i]
    BY HolmIsClosed
  <2>2. \A i \in DOMAIN q : ClosedTest(q)[i] <=> \A I \in SUBSET DOMAIN q :
          i \in I => \E j \in I : WithinPart(q[j], Cardinality(I))
    BY ClosedMeans
  <2> QED
    BY <2>1, <2>2 DEF EveryPartFalls
<1> QED
  BY <1>1, <1>2, <1>3 DEF Passes

(* The place in the family of the k-th leg left. *)
Past(i, k) == IF k < i THEN k ELSE k + 1

LEMMA OneLegLess ==
  ASSUME NEW q, IsFamily(q), NEW i \in DOMAIN q
  PROVE  /\ IsFamily(RemoveAt(q, i))
         /\ Len(RemoveAt(q, i)) = Len(q) - 1
         /\ \A k \in 1..(Len(q) - 1) : RemoveAt(q, i)[k] = q[Past(i, k)]
<1> DEFINE s1 == SubSeq(q, 1, i - 1)
           s2 == SubSeq(q, i + 1, Len(q))
<1>1. i \in 1..Len(q) /\ Len(q) \in Nat /\ i \in Nat /\ (\A k \in 1..Len(q) : q[k] \in Fractions)
  BY FamilyParts
<1>2. /\ s1 \in Seq(Fractions) /\ Len(s1) = i - 1
      /\ \A k \in 1..(i - 1) : s1[k] = q[k]
  <2>1. \A k \in 1..(i - 1) : q[k] \in Fractions
    BY <1>1
  <2>2. /\ s1 \in Seq(Fractions) /\ Len(s1) = IF 1 <= i - 1 THEN (i - 1) - 1 + 1 ELSE 0
        /\ \A k \in 1..((i - 1) - 1 + 1) : s1[k] = q[1 + k - 1]
    BY <1>1, <2>1, SubSeqProperties
  <2> HIDE DEF s1
  <2>3. Len(s1) = i - 1
    BY <1>1, <2>2
  <2>4. \A k \in 1..(i - 1) : s1[k] = q[k]
    BY <1>1, <2>2
  <2> QED
    BY <2>2, <2>3, <2>4
<1>3. /\ s2 \in Seq(Fractions) /\ Len(s2) = Len(q) - i
      /\ \A k \in 1..(Len(q) - i) : s2[k] = q[i + k]
  <2>1. \A k \in (i + 1)..Len(q) : q[k] \in Fractions
    BY <1>1
  <2>2. /\ s2 \in Seq(Fractions) /\ Len(s2) = IF i + 1 <= Len(q) THEN Len(q) - (i + 1) + 1 ELSE 0
        /\ \A k \in 1..(Len(q) - (i + 1) + 1) : s2[k] = q[(i + 1) + k - 1]
    BY <1>1, <2>1, SubSeqProperties
  <2> HIDE DEF s2
  <2>3. Len(s2) = Len(q) - i
    BY <1>1, <2>2
  <2>4. \A k \in 1..(Len(q) - i) : s2[k] = q[i + k]
    BY <1>1, <2>2
  <2> QED
    BY <2>2, <2>3, <2>4
<1>4. RemoveAt(q, i) = s1 \o s2
  BY DEF RemoveAt
<1> HIDE DEF s1, s2
<1>5. /\ s1 \o s2 \in Seq(Fractions)
      /\ Len(s1 \o s2) = Len(q) - 1
      /\ \A k \in 1..(Len(q) - 1) : (s1 \o s2)[k] = IF k <= i - 1 THEN s1[k] ELSE s2[k - (i - 1)]
  <2>1. /\ s1 \o s2 \in Seq(Fractions)
        /\ Len(s1 \o s2) = Len(s1) + Len(s2)
        /\ \A k \in 1..(Len(s1) + Len(s2)) : (s1 \o s2)[k] = IF k <= Len(s1) THEN s1[k] ELSE s2[k - Len(s1)]
    BY <1>2, <1>3, ConcatProperties
  <2>2. Len(s1) + Len(s2) = Len(q) - 1
    BY <1>1, <1>2, <1>3
  <2> QED
    BY <1>2, <2>1, <2>2
<1>6. ASSUME NEW k \in 1..(Len(q) - 1) PROVE (s1 \o s2)[k] = q[Past(i, k)]
  <2>1. CASE k < i
    BY <1>1, <1>2, <1>5, <2>1 DEF Past
  <2>2. CASE ~(k < i)
    <3>1. k - (i - 1) \in 1..(Len(q) - i) /\ i + (k - (i - 1)) = k + 1
      BY <1>1, <2>2
    <3>2. (s1 \o s2)[k] = s2[k - (i - 1)]
      BY <1>1, <1>5, <2>2
    <3>3. s2[k - (i - 1)] = q[i + (k - (i - 1))]
      BY <1>3, <3>1
    <3> QED
      BY <2>2, <3>1, <3>2, <3>3 DEF Past
  <2> QED
    BY <2>1, <2>2
<1> QED
  BY <1>4, <1>5, <1>6 DEF IsFamily

(* A family that passes still does without one of its legs. *)
LEMMA PassesWithFewer ==
  ASSUME NEW q, IsFamily(q), NEW i \in DOMAIN q, Len(q) > 1, Passes(Holm(q))
  PROVE  Passes(Holm(RemoveAt(q, i)))
<1> DEFINE r == RemoveAt(q, i)
<1>1. /\ IsFamily(r) /\ Len(r) = Len(q) - 1
      /\ \A k \in 1..(Len(q) - 1) : r[k] = q[Past(i, k)]
  BY OneLegLess
<1> HIDE DEF r
<1>2. /\ Len(q) \in Nat /\ DOMAIN q = 1..Len(q) /\ i \in Nat
      /\ DOMAIN r = 1..(Len(q) - 1) /\ IsFiniteSet(DOMAIN r)
  BY <1>1, FamilyParts
<1>3. ASSUME NEW I \in SUBSET DOMAIN r, I # {} PROVE \E j \in I : WithinPart(r[j], Cardinality(I))
  <2> DEFINE J == {Past(i, k) : k \in I}
             f == [k \in I |-> Past(i, k)]
  <2>1. J \in SUBSET DOMAIN q /\ J # {}
    BY <1>2, <1>3 DEF Past
  <2>2. f \in Bijection(I, J)
    <3>1. f \in [I -> J] /\ (\A m \in J : \E k \in I : f[k] = m)
      OBVIOUS
    <3>2. ASSUME NEW k \in I, NEW l \in I, f[k] = f[l] PROVE k = l
      <4>1. k \in Nat /\ l \in Nat /\ Past(i, k) = Past(i, l)
        BY <1>2, <3>2
      <4> QED
        BY <1>2, <4>1 DEF Past
    <3> HIDE DEF f, J
    <3> QED
      BY <3>1, <3>2 DEF Bijection, Injection, Surjection, IsInjective
  <2>3. Cardinality(J) = Cardinality(I)
    <3>1. IsFiniteSet(I)
      BY <1>2, FS_Subset
    <3>2. ExistsBijection(I, J)
      BY <2>2 DEF ExistsBijection
    <3> QED
      BY <3>1, <3>2, FS_Bijection
  <2>4. EveryPartFalls(q)
    BY PassingMeans
  <2>5. PICK m \in J : WithinPart(q[m], Cardinality(J))
    <3> HIDE DEF J
    <3> QED
      BY <2>1, <2>4 DEF EveryPartFalls
  <2>6. PICK k \in I : m = Past(i, k)
    BY <2>5
  <2>7. r[k] = q[m]
    BY <1>1, <1>2, <2>6
  <2> QED
    BY <2>3, <2>5, <2>7
<1>4. EveryPartFalls(r)
  BY <1>3 DEF EveryPartFalls
<1>5. Len(r) # 0
  BY <1>1, <1>2
<1> QED
  BY <1>1, <1>4, <1>5, PassingMeans DEF r

--------------------------------------------------------------------------------
(* The bootstrap's noise. *)

LEMMA Product == \A x, y \in Int : x * y \in Int
  OBVIOUS

LEMMA Squares ==
  ASSUME NEW x \in Int, NEW y \in Int, y * y < x * x
  PROVE  /\ x <= 0 => x < y
         /\ x >= 0 => y < x
<1>1. ASSUME x <= 0, y <= x PROVE FALSE
  <2> DEFINE u == 0 - x
             d == x - y
  <2>1. u \in Nat /\ d \in Nat /\ x = 0 - u /\ y = 0 - (u + d)
    BY <1>1
  <2> HIDE DEF u, d
  <2>2. y * y = x * x + (2 * (u * d) + d * d)
    BY <2>1
  <2>3. u * d \in Nat /\ d * d \in Nat /\ x * x \in Int
    BY <2>1
  <2> QED
    BY <2>2, <2>3
<1>2. ASSUME x >= 0, x <= y PROVE FALSE
  <2> DEFINE d == y - x
  <2>1. d \in Nat /\ x \in Nat /\ y = x + d
    BY <1>2
  <2> HIDE DEF d
  <2>2. y * y = x * x + (2 * (x * d) + d * d)
    BY <2>1
  <2>3. x * d \in Nat /\ d * d \in Nat /\ x * x \in Int
    BY <2>1
  <2> QED
    BY <2>2, <2>3
<1> QED
  BY <1>1, <1>2

(* Two standard errors from a do not reach past what lies farther. *)
LEMMA NearerThan ==
  ASSUME NEW a \in Fractions, NEW b \in Fractions, NEW t \in Fractions, Near(a, b), ~Near(a, t)
  PROVE  /\ AtMost(a, t) => AtMost(b, t)
         /\ Less(t, a) => Less(t, b)
<1> DEFINE a1 == a[1]
           a2 == a[2]
           b1 == b[1]
           b2 == b[2]
           t1 == t[1]
           t2 == t[2]
           n == NResamples
           x == a1 * t2 - t1 * a2
           y == a1 * b2 - b1 * a2
           v == 4 * a1 * (a2 - a1)
<1>1. /\ a1 \in Nat /\ a2 \in Nat /\ a2 > 0 /\ b1 \in Nat /\ b2 \in Nat /\ b2 > 0
      /\ t1 \in Nat /\ t2 \in Nat /\ t2 > 0 /\ n \in Nat /\ n > 0
  BY FractionParts, VerdictAssumption
<1>2. (y * y) * n <= v * (b2 * b2) /\ v * (t2 * t2) < (x * x) * n
  <2>1. (x * x) * n \in Int /\ v * (t2 * t2) \in Int
    BY <1>1
  <2>2. (y * y) * n <= v * (b2 * b2)
    BY DEF Near, Square
  <2>3. ~((x * x) * n <= v * (t2 * t2))
    BY DEF Near, Square
  <2> HIDE DEF x, y, v, t2, n
  <2> QED
    BY <2>1, <2>2, <2>3
<1>3. /\ AtMost(a, t) <=> a1 * t2 <= t1 * a2
      /\ Less(t, a) <=> t1 * a2 < a1 * t2
      /\ AtMost(b, t) <=> b1 * t2 <= t1 * b2
      /\ Less(t, b) <=> t1 * b2 < b1 * t2
  BY DEF AtMost, Less
<1>4. x \in Int /\ y \in Int /\ v \in Int
  BY <1>1
<1> HIDE DEF v
<1> DEFINE xx == x * b2
           yy == y * t2
<1>5. yy * yy < xx * xx
  <2> HIDE DEF a1, a2, b1, b2, t1, t2, n
  <2>1. b2 * b2 \in Int /\ b2 * b2 > 0 /\ t2 * t2 \in Int /\ t2 * t2 > 0
    BY <1>1, Scaled
  <2>2. x * x \in Int /\ y * y \in Int
    BY <1>4
  <2> HIDE DEF x, y
  <2> DEFINE bb == b2 * b2
             tt == t2 * t2
             sx == x * x
             sy == y * y
  <2>3. (sy * n) * tt <= (v * bb) * tt
    <3>1. sy * n \in Int /\ v * bb \in Int
      BY <1>1, <1>4, <2>1, <2>2
    <3> HIDE DEF bb, tt, sy
    <3> QED
      BY <1>2, <2>1, <3>1, Scaled DEF bb, tt, sy
  <2>4. (v * tt) * bb < (sx * n) * bb
    <3>1. sx * n \in Int /\ v * tt \in Int
      BY <1>1, <1>4, <2>1, <2>2
    <3> HIDE DEF bb, tt, sx
    <3> QED
      BY <1>2, <2>1, <3>1, Scaled DEF bb, tt, sx
  <2>5. bb \in Int /\ tt \in Int /\ sx \in Int /\ sy \in Int /\ v \in Int /\ n \in Int
    BY <1>1, <1>4, <2>1, <2>2
  <2>6. (sy * tt) * n < (sx * bb) * n
    <3> HIDE DEF bb, tt, sx, sy
    <3>1. /\ (sy * n) * tt = (sy * tt) * n
          /\ (v * bb) * tt = (v * tt) * bb
          /\ (sx * n) * bb = (sx * bb) * n
      BY <2>5
    <3>2. (sy * tt) * n \in Int /\ (v * tt) * bb \in Int /\ (sx * bb) * n \in Int
      BY <2>5
    <3> QED
      BY <2>3, <2>4, <3>1, <3>2
  <2>7. sy * tt < sx * bb
    <3>1. sy * tt \in Int /\ sx * bb \in Int
      BY <2>5
    <3> HIDE DEF bb, tt, sx, sy
    <3> QED
      BY <1>1, <2>5, <2>6, <3>1, Scaled
  <2>8. yy * yy = sy * tt /\ xx * xx = sx * bb
    BY <1>1, <1>4
  <2> QED
    BY <2>7, <2>8
<1>6. xx \in Int /\ yy \in Int
  BY <1>1, <1>4
<1>7. (xx <= 0 => xx < yy) /\ (xx >= 0 => yy < xx)
  <2> HIDE DEF xx, yy
  <2> QED
    BY <1>5, <1>6, Squares
<1>8. (x <= 0 => xx <= 0) /\ (x >= 0 => xx >= 0)
  <2> HIDE DEF x
  <2> QED
    BY <1>1, <1>4
<1>9. /\ xx < yy => (b1 * t2) * a2 < (t1 * b2) * a2
      /\ yy < xx => (t1 * b2) * a2 < (b1 * t2) * a2
  <2> HIDE DEF a1, a2, b1, b2, t1, t2, n
  <2>1. xx = (a1 * t2) * b2 - (t1 * b2) * a2 /\ yy = (a1 * t2) * b2 - (b1 * t2) * a2
    BY <1>1
  <2>2. (a1 * t2) * b2 \in Int /\ (t1 * b2) * a2 \in Int /\ (b1 * t2) * a2 \in Int
    BY <1>1
  <2> HIDE DEF xx, yy
  <2> QED
    BY <2>1, <2>2
<1>10. /\ xx < yy => b1 * t2 < t1 * b2
       /\ yy < xx => t1 * b2 < b1 * t2
  <2>1. b1 * t2 \in Int /\ t1 * b2 \in Int
    BY <1>1
  <2> HIDE DEF xx, yy, a1, a2, b1, b2, t1, t2, n
  <2> QED
    BY <1>1, <1>9, <2>1, Scaled
<1>11. /\ AtMost(a, t) => x <= 0
       /\ Less(t, a) => x >= 0
  <2>1. a1 * t2 \in Int /\ t1 * a2 \in Int
    BY <1>1
  <2> HIDE DEF a1, a2, t1, t2
  <2> QED
    BY <1>3, <2>1
<1>12. b1 * t2 \in Int /\ t1 * b2 \in Int
  BY <1>1
<1> HIDE DEF a1, a2, b1, b2, t1, t2, n, x, y, xx, yy
<1> QED
  BY <1>3, <1>7, <1>8, <1>10, <1>11, <1>12

LEMMA NatProduct == \A x, y \in Nat : x * y \in Nat
  OBVIOUS

LEMMA ProductsRise ==
  ASSUME NEW a \in Nat, NEW b \in Nat, NEW c \in Nat, NEW d \in Nat, a <= b, c <= d
  PROVE  a * c <= b * d
<1> DEFINE e == b - a
           f == d - c
<1>1. e \in Nat /\ f \in Nat /\ b = a + e /\ d = c + f
  OBVIOUS
<1> HIDE DEF e, f
<1>2. b * d = a * c + (a * f + e * c + e * f)
  BY <1>1
<1>3. a * c \in Nat /\ a * f \in Nat /\ e * c \in Nat /\ e * f \in Nat
  BY <1>1
<1> QED
  BY <1>2, <1>3

(* The distance from a point below grows faster than the standard error:    *)
(* with common denominator d, what is far above t stays far above it.       *)
LEMMA FarStaysFar ==
  ASSUME NEW n \in Nat, NEW d \in Nat, NEW t \in Nat, NEW x \in Nat, NEW y \in Nat,
         t < x, x <= y, y <= d,
         4 * (x * (d - x)) < ((x - t) * (x - t)) * n
  PROVE  4 * (y * (d - y)) < ((y - t) * (y - t)) * n
<1> DEFINE u == x - t
           w == y - t
           vx == d - x
           vy == d - y
<1>1. u \in Nat /\ u > 0 /\ w \in Nat /\ w > 0 /\ vx \in Nat /\ vy \in Nat /\ vy <= vx /\ u <= w
  OBVIOUS
<1>2. y * u <= x * w
  <2> DEFINE e == y - x
  <2>1. e \in Nat /\ y = x + e /\ w = u + e /\ x = u + t
    OBVIOUS
  <2> HIDE DEF e, u, w
  <2>2. x * w = y * u + t * e
    BY <1>1, <2>1
  <2>3. t * e \in Nat /\ y * u \in Nat /\ x * w \in Nat
    BY <1>1, <2>1
  <2> QED
    BY <2>2, <2>3
<1>3. 4 * (x * vx) < (u * u) * n
  OBVIOUS
<1>4. ((w * w) * n) \in Nat /\ (y * vy) \in Nat /\ (x * vx) \in Nat /\ (u * u) * n \in Nat
      /\ u * u \in Nat /\ w * w \in Nat /\ u * u > 0 /\ w * w > 0
  <2> HIDE DEF u, w, vx, vy
  <2>1. u * u \in Nat /\ w * w \in Nat /\ (y * vy) \in Nat /\ (x * vx) \in Nat
    BY <1>1
  <2>2. u * u > 0 /\ w * w > 0
    BY <1>1
  <2>3. (w * w) * n \in Nat /\ (u * u) * n \in Nat
    BY <2>1, NatProduct
  <2> QED
    BY <2>1, <2>2, <2>3
<1> HIDE DEF u, w, vx, vy
<1>5. (y * u) * (vy * u) <= (x * w) * (vx * w)
  <2>1. vy * u <= vx * w
    BY <1>1, ProductsRise
  <2>2. y * u \in Nat /\ x * w \in Nat /\ vy * u \in Nat /\ vx * w \in Nat
    BY <1>1
  <2> QED
    BY <1>2, <2>1, <2>2, ProductsRise
<1> DEFINE uu == u * u
           ww == w * w
           sx == x * vx
           sy == y * vy
<1>6. sy * uu <= sx * ww
  <2>1. (y * u) * (vy * u) = sy * uu /\ (x * w) * (vx * w) = sx * ww
    BY <1>1
  <2> QED
    BY <1>5, <2>1
<1>7. uu \in Nat /\ uu > 0 /\ ww \in Nat /\ ww > 0 /\ sx \in Nat /\ sy \in Nat
  BY <1>4
<1>8. 4 * sx < uu * n
  BY <1>3
<1> HIDE DEF uu, ww, sx, sy
<1>9. (4 * sx) * ww < (uu * n) * ww
  <2>1. 4 * sx \in Int /\ uu * n \in Int
    BY <1>7
  <2> QED
    BY <1>7, <1>8, <2>1, Scaled
<1>10. (4 * sy) * uu < (ww * n) * uu
  <2>1. /\ (4 * sy) * uu = 4 * (sy * uu)
        /\ (4 * sx) * ww = 4 * (sx * ww)
        /\ (uu * n) * ww = (ww * n) * uu
    BY <1>7
  <2>2. sy * uu \in Nat /\ sx * ww \in Nat /\ (ww * n) * uu \in Nat
    BY <1>7, NatProduct
  <2> QED
    BY <1>6, <1>9, <2>1, <2>2
<1>11. 4 * sy < ww * n
  <2>1. 4 * sy \in Int /\ ww * n \in Int
    BY <1>7
  <2> QED
    BY <1>7, <1>10, <2>1, Scaled
<1> QED
  BY <1>11 DEF sy, ww, vy, w

(* The same of p-values. *)
LEMMA StaysFar ==
  ASSUME NEW a \in Fractions, NEW b \in Fractions, NEW t \in Fractions,
         Less(t, a), AtMost(a, b), b[1] <= b[2], ~Near(a, t)
  PROVE  ~Near(b, t)
<1> DEFINE a1 == a[1]
           a2 == a[2]
           b1 == b[1]
           b2 == b[2]
           t1 == t[1]
           t2 == t[2]
           n == NResamples
           x == (a1 * b2) * t2
           y == (b1 * a2) * t2
           z == (t1 * a2) * b2
           d == (a2 * b2) * t2
<1>1. /\ a1 \in Nat /\ a2 \in Nat /\ a2 > 0 /\ b1 \in Nat /\ b2 \in Nat /\ b2 > 0
      /\ t1 \in Nat /\ t2 \in Nat /\ t2 > 0 /\ n \in Nat /\ n > 0
  BY FractionParts, VerdictAssumption
<1>2. t1 * a2 < a1 * t2 /\ a1 * b2 <= b1 * a2 /\ b1 <= b2
  BY DEF Less, AtMost
<1>3. /\ Near(a, t) <=> ((a1 * t2 - t1 * a2) * (a1 * t2 - t1 * a2)) * n <= 4 * a1 * (a2 - a1) * (t2 * t2)
      /\ Near(b, t) <=> ((b1 * t2 - t1 * b2) * (b1 * t2 - t1 * b2)) * n <= 4 * b1 * (b2 - b1) * (t2 * t2)
  BY DEF Near, Square
<1> HIDE DEF a1, a2, b1, b2, t1, t2, n
<1>4. x \in Nat /\ y \in Nat /\ z \in Nat /\ d \in Nat
  BY <1>1, NatProduct
<1>5. z < x /\ x <= y /\ y <= d
  <2>1. t1 * a2 \in Int /\ a1 * t2 \in Int /\ a1 * b2 \in Int /\ b1 * a2 \in Int /\ a2 * b2 \in Int
    BY <1>1
  <2>2. (t1 * a2) * b2 < (a1 * t2) * b2
    BY <1>1, <1>2, <2>1, Scaled
  <2>3. (a1 * t2) * b2 = x
    BY <1>1
  <2>4. x <= y
    BY <1>1, <1>2, <2>1, Scaled
  <2>5. b1 * a2 <= b2 * a2
    BY <1>1, <1>2, Scaled
  <2>6. b2 * a2 = a2 * b2
    BY <1>1
  <2>7. y <= d
    BY <1>1, <2>1, <2>5, <2>6, Scaled
  <2> QED
    BY <2>2, <2>3, <2>4, <2>7
<1>6. /\ ((x - z) * (x - z)) * n = (((a1 * t2 - t1 * a2) * (a1 * t2 - t1 * a2)) * n) * (b2 * b2)
      /\ 4 * (x * (d - x)) = (4 * a1 * (a2 - a1) * (t2 * t2)) * (b2 * b2)
  <2>1. x - z = (a1 * t2 - t1 * a2) * b2 /\ d - x = ((a2 - a1) * b2) * t2
    BY <1>1
  <2> DEFINE s == a1 * t2 - t1 * a2
             r == a2 - a1
  <2>2. s \in Int /\ r \in Int
    BY <1>1
  <2>3. ((s * b2) * (s * b2)) * n = ((s * s) * n) * (b2 * b2)
    <3> HIDE DEF s
    <3> QED
      BY <1>1, <2>2
  <2>4. 4 * (((a1 * b2) * t2) * ((r * b2) * t2)) = (4 * a1 * r * (t2 * t2)) * (b2 * b2)
    <3> HIDE DEF r
    <3> QED
      BY <1>1, <2>2
  <2> QED
    BY <2>1, <2>3, <2>4
<1>7. /\ ((y - z) * (y - z)) * n = (((b1 * t2 - t1 * b2) * (b1 * t2 - t1 * b2)) * n) * (a2 * a2)
      /\ 4 * (y * (d - y)) = (4 * b1 * (b2 - b1) * (t2 * t2)) * (a2 * a2)
  <2>1. y - z = (b1 * t2 - t1 * b2) * a2 /\ d - y = ((b2 - b1) * a2) * t2
    BY <1>1
  <2> DEFINE s == b1 * t2 - t1 * b2
             r == b2 - b1
  <2>2. s \in Int /\ r \in Int
    BY <1>1
  <2>3. ((s * a2) * (s * a2)) * n = ((s * s) * n) * (a2 * a2)
    <3> HIDE DEF s
    <3> QED
      BY <1>1, <2>2
  <2>4. 4 * (((b1 * a2) * t2) * ((r * a2) * t2)) = (4 * b1 * r * (t2 * t2)) * (a2 * a2)
    <3> HIDE DEF r
    <3> QED
      BY <1>1, <2>2
  <2> QED
    BY <2>1, <2>3, <2>4
<1> DEFINE la == ((a1 * t2 - t1 * a2) * (a1 * t2 - t1 * a2)) * n
           ra == 4 * a1 * (a2 - a1) * (t2 * t2)
           lb == ((b1 * t2 - t1 * b2) * (b1 * t2 - t1 * b2)) * n
           rb == 4 * b1 * (b2 - b1) * (t2 * t2)
<1>8. la \in Int /\ ra \in Int /\ lb \in Int /\ rb \in Int /\ a2 * a2 \in Int /\ b2 * b2 \in Int
  BY <1>1
<1>9. a2 * a2 > 0 /\ b2 * b2 > 0
  BY <1>1
<1>10. ra < la
  <2> HIDE DEF la, ra
  <2> QED
    BY <1>3, <1>8 DEF la, ra
<1> HIDE DEF x, y, z, d, la, ra, lb, rb
<1>11. 4 * (x * (d - x)) < ((x - z) * (x - z)) * n
  <2>1. ra * (b2 * b2) < la * (b2 * b2)
    BY <1>8, <1>9, <1>10, Scaled
  <2> QED
    BY <1>6, <2>1 DEF la, ra
<1>12. 4 * (y * (d - y)) < ((y - z) * (y - z)) * n
  BY <1>1, <1>4, <1>5, <1>11, FarStaysFar
<1>13. rb * (a2 * a2) < lb * (a2 * a2)
  BY <1>7, <1>12 DEF lb, rb
<1>14. rb < lb
  BY <1>8, <1>9, <1>13, Scaled
<1> QED
  BY <1>3, <1>8, <1>14 DEF lb, rb

(* Decisions no p-value is near enough to be unsettled by: moving each by   *)
(* up to two standard errors leaves them what they are.                     *)
LEMMA SettledDecisions ==
  ASSUME NEW q, IsFamily(q), NEW r, IsFamily(r), DOMAIN r = DOMAIN q,
         \A i \in DOMAIN q : q[i][1] <= q[i][2],
         ~NeedsRerun(q),
         \A i \in DOMAIN q : Near(q[i], r[i])
  PROVE  Holm(r) = Holm(q)
<1> DEFINE T(j) == Threshold(Len(q), RankOf(q, j))
           Part(j) == Len(q) - RankOf(q, j) + 1
<1>1. /\ Len(q) \in Nat
      /\ \A i \in DOMAIN q : q[i] \in Fractions /\ r[i] \in Fractions /\ RankOf(q, i) \in 1..Len(q)
  BY FamilyParts, RankParts
<1>2. \A j \in DOMAIN q : Part(j) \in Nat /\ Part(j) > 0
  BY <1>1
<1>3. \A j \in DOMAIN q : T(j) \in Fractions
  <2>1. ASSUME NEW j \in DOMAIN q PROVE T(j) \in Fractions
    <3>1. AlphaDen * Part(j) \in Nat \ {0}
      BY <1>2, VerdictAssumption
    <3> QED
      BY <3>1, VerdictAssumption DEF Threshold, Fractions
  <2> QED
    BY <2>1
<1>4. \A j \in DOMAIN q : ~Near(q[j], T(j))
  BY <1>1, FractionParts DEF NeedsRerun
<1>5. \A a, j : WithinPart(a, Part(j)) <=> AtMost(a, T(j))
  BY DEF WithinPart, Threshold
<1> HIDE DEF T
<1>6. ASSUME NEW i \in DOMAIN q, Holm(q)[i] PROVE ClosedTest(r)[i]
  <2>1. ASSUME NEW I \in SUBSET DOMAIN r, i \in I PROVE \E j \in I : WithinPart(r[j], Cardinality(I))
    <3>1. PICK j \in I : /\ \A k \in I : RankOf(q, j) <= RankOf(q, k)
                         /\ Cardinality(I) \in Nat /\ Cardinality(I) <= Part(j)
      BY <2>1, FirstOfPart
    <3>2. j \in DOMAIN q /\ RankOf(q, j) <= RankOf(q, i)
      BY <2>1, <3>1
    <3>3. WithinPart(q[j], Part(j))
      BY <1>6, <3>2, HolmMeans
    <3>4. AtMost(q[j], T(j))
      BY <1>5, <3>3
    <3>5. AtMost(r[j], T(j))
      BY <1>1, <1>3, <1>4, <3>2, <3>4, NearerThan
    <3>6. WithinPart(r[j], Part(j))
      BY <1>5, <3>5
    <3>7. WithinPart(r[j], Cardinality(I))
      BY <1>1, <1>2, <3>1, <3>2, <3>6, PartsShrink
    <3> QED
      BY <3>7
  <2> QED
    BY <2>1, ClosedMeans
<1>7. ASSUME NEW i \in DOMAIN q, ClosedTest(r)[i] PROVE Holm(q)[i]
  <2>1. SUFFICES ASSUME NEW j \in DOMAIN q, RankOf(q, j) <= RankOf(q, i), ~WithinPart(q[j], Part(j))
                 PROVE  FALSE
    BY HolmMeans
  <2>2. /\ FromOn(q, j) \in SUBSET DOMAIN r
        /\ Cardinality(FromOn(q, j)) = Part(j)
    BY FromOnCounts
  <2>3. i \in FromOn(q, j)
    BY <2>1 DEF FromOn
  <2>4. PICK k \in FromOn(q, j) : WithinPart(r[k], Part(j))
    BY <1>7, <2>2, <2>3, ClosedMeans
  <2>5. k \in DOMAIN q /\ RankOf(q, j) <= RankOf(q, k)
    BY <2>4 DEF FromOn
  <2>6. AtMost(q[j], q[k])
    <3>1. j = k \/ Before(q, j, k)
      BY <2>5, RanksFollowSort
    <3>2. CASE j = k
      BY <1>1, <3>2, AtMostOrLess
    <3>3. CASE Before(q, j, k)
      BY <2>5, <3>3, BeforeMeans
    <3> QED
      BY <3>1, <3>2, <3>3
  <2>7. Less(T(j), q[j])
    <3>1. ~AtMost(q[j], T(j))
      BY <1>5, <2>1
    <3> QED
      BY <1>1, <1>3, <3>1, AtMostOrLess
  <2>8. ~Near(q[k], T(j))
    BY <1>1, <1>3, <1>4, <2>5, <2>6, <2>7, StaysFar
  <2>9. Less(T(j), q[k])
    <3>1. AtMost(T(j), q[j])
      BY <1>1, <1>3, <2>7, AtMostOrLess
    <3> QED
      BY <1>1, <1>3, <2>5, <2>6, <2>7, <3>1, AtMostTransitive
  <2>10. Less(T(j), r[k])
    BY <1>1, <1>3, <2>5, <2>8, <2>9, NearerThan
  <2>11. AtMost(r[k], T(j))
    BY <1>5, <2>4
  <2> QED
    BY <1>1, <1>3, <2>5, <2>10, <2>11, AtMostOrLess
<1>8. \A i \in DOMAIN q : Holm(q)[i] \in BOOLEAN /\ Holm(r)[i] \in BOOLEAN
  BY DEF Holm
<1>9. Holm(r) = ClosedTest(r)
  BY HolmIsClosed
<1>10. \A i \in DOMAIN q : Holm(r)[i] = Holm(q)[i]
  BY <1>6, <1>7, <1>8, <1>9
<1> QED
  BY <1>10 DEF Holm

--------------------------------------------------------------------------------
(* The procedure. *)

Tails == [tail : Nat, valid : Nat]

LEMMA TwoSidedParts ==
  ASSUME NEW d \in Tails
  PROVE  ~IsNaN(TwoSided(d)) => TwoSided(d) \in Fractions /\ TwoSided(d)[1] <= TwoSided(d)[2]
<1>1. d.tail \in Nat /\ d.valid \in Nat
  BY DEF Tails
<1>2. CASE d.valid = 0
  BY <1>2 DEF TwoSided, NaN, IsNaN
<1>3. CASE d.valid # 0
  <2> DEFINE n == 2 * (1 + d.tail)
             a == IF n > 1 + d.valid THEN 1 + d.valid ELSE n
  <2>1. TwoSided(d) = <<a, 1 + d.valid>>
    BY <1>3 DEF TwoSided
  <2>2. a \in Nat /\ a <= 1 + d.valid /\ 1 + d.valid \in Nat \ {0}
    BY <1>1
  <2> HIDE DEF a
  <2> QED
    BY <2>1, <2>2 DEF Fractions
<1> QED
  BY <1>2, <1>3

LEMMA OneSidedParts ==
  ASSUME NEW d \in Tails
  PROVE  ~IsNaN(OneSided(d)) => OneSided(d) \in Fractions
<1>1. d.tail \in Nat /\ d.valid \in Nat
  BY DEF Tails
<1>2. 1 + d.tail \in Nat /\ 1 + d.valid \in Nat \ {0}
  BY <1>1
<1> QED
  BY <1>2 DEF OneSided, NaN, IsNaN, Fractions

(* What the decision is taken on. *)
LastDraws == IF needed /\ apply THEN second ELSE first

VerdictInv ==
  /\ kind \in Procedures /\ apply \in BOOLEAN /\ needed \in BOOLEAN
  /\ \E m \in Nat : first \in [1..m -> Bootstraps[kind]]
  /\ needed /\ apply => kind = "starting_xi" /\ second \in [DOMAIN first -> Rebootstraps]
  /\ step \in {"bootstrap", "rerun"} => ~needed
  /\ step = "rerun" => kind = "starting_xi"
  /\ step # "bootstrap" => pRaw = PValues(kind, LastDraws)
  /\ step \in {"adjust", "done"} /\ kind = "starting_xi" => needed = NeedsRerun(PValues(kind, first))
  /\ step = "done" => /\ \A i \in DOMAIN pRaw : ~IsNaN(pRaw[i])
                      /\ reject = Holm(pRaw)
                      /\ passed => Passes(reject)

LEMMA VerdictInvInit == VerdictInit => VerdictInv
<1> SUFFICES ASSUME VerdictInit PROVE VerdictInv
  OBVIOUS
<1>1. kind \in Procedures /\ apply \in BOOLEAN /\ needed = FALSE /\ step = "bootstrap"
  BY DEF VerdictInit
<1>2. \E m \in Nat : first \in [1..m -> Bootstraps[kind]]
  BY <1>1, VerdictAssumption DEF VerdictInit
<1> QED
  BY <1>1, <1>2 DEF VerdictInv

LEMMA VerdictInvStep == VerdictInv /\ [VerdictNext]_verdictVars => VerdictInv'
<1> SUFFICES ASSUME VerdictInv, [VerdictNext]_verdictVars PROVE VerdictInv'
  OBVIOUS
<1>1. CASE Draw
  <2>1. ~needed /\ UNCHANGED <<kind, apply, first, second, needed>> /\ step' \in {"rerun", "adjust"}
    BY <1>1 DEF VerdictInv, Draw
  <2>2. step' = "rerun" <=> kind = "starting_xi"
    BY <1>1 DEF Draw
  <2>3. pRaw' = PValues(kind, first) /\ LastDraws' = first
    BY <1>1, <2>1 DEF Draw, LastDraws
  <2> QED
    BY <2>1, <2>2, <2>3 DEF VerdictInv
<1>2. CASE Redraw
  <2>1. ~needed /\ UNCHANGED <<kind, apply, first>> /\ step' = "adjust" /\ pRaw = PValues(kind, first)
        /\ step = "rerun"
    BY <1>2 DEF VerdictInv, Redraw, LastDraws
  <2>2. needed' = NeedsRerun(pRaw) /\ needed' \in BOOLEAN
    BY <1>2 DEF Redraw, NeedsRerun
  <2>3. CASE needed' /\ apply
    <3>1. second' \in [DOMAIN first -> Rebootstraps] /\ pRaw' = PValues(kind, second') /\ apply' /\ LastDraws' = second'
      BY <1>2, <2>1, <2>3 DEF Redraw, LastDraws
    <3> QED
      BY <2>1, <2>2, <3>1 DEF VerdictInv
  <2>4. CASE ~(needed' /\ apply)
    <3>1. pRaw' = pRaw /\ LastDraws' = first
      BY <1>2, <2>1, <2>4 DEF Redraw, LastDraws
    <3> QED
      BY <2>1, <2>2, <2>4, <3>1 DEF VerdictInv
  <2> QED
    BY <2>3, <2>4
<1>3. CASE Refuse
  <2>1. UNCHANGED <<kind, apply, first, second, pRaw, needed, LastDraws>> /\ step' = "refused" /\ step = "adjust"
    BY <1>3 DEF Refuse, LastDraws
  <2> QED
    BY <2>1 DEF VerdictInv
<1>4. CASE Adjust
  <2>1. UNCHANGED <<kind, apply, first, second, pRaw, needed, LastDraws>> /\ step' = "done" /\ step = "adjust"
    BY <1>4 DEF Adjust, LastDraws
  <2>2. reject' = Holm(pRaw) /\ (\A i \in DOMAIN pRaw : ~IsNaN(pRaw[i])) /\ (passed' => Passes(reject'))
    BY <1>4 DEF Adjust
  <2> QED
    BY <2>1, <2>2 DEF VerdictInv
<1>5. CASE UNCHANGED verdictVars
  BY <1>5 DEF verdictVars, VerdictInv, LastDraws
<1> QED
  BY <1>1, <1>2, <1>3, <1>4, <1>5 DEF VerdictNext

LEMMA VerdictInvariant == VerdictSpec => []VerdictInv
  BY VerdictInvInit, VerdictInvStep, PTL DEF VerdictSpec

(* What a verdict is taken on has no NaN. *)
LEMMA DecidedOnFamily ==
  ASSUME VerdictInv, step = "done"
  PROVE  /\ pRaw = PValues(kind, LastDraws) /\ IsFamily(pRaw)
         /\ kind = "starting_xi" => \A i \in DOMAIN pRaw : pRaw[i][1] <= pRaw[i][2]
<1>1. /\ pRaw = PValues(kind, LastDraws)
      /\ \A i \in DOMAIN pRaw : ~IsNaN(pRaw[i])
  BY DEF VerdictInv
<1>2. PICK m \in Nat : LastDraws \in [1..m -> Tails]
  <2>1. PICK m \in Nat : first \in [1..m -> Bootstraps[kind]]
    BY DEF VerdictInv
  <2>2. Bootstraps[kind] \subseteq Tails /\ Rebootstraps \subseteq Tails
    BY VerdictAssumption DEF VerdictInv, Tails
  <2>3. CASE needed /\ apply
    <3>1. second \in [1..m -> Rebootstraps]
      BY <2>1, <2>3 DEF VerdictInv
    <3> QED
      BY <2>2, <2>3, <3>1 DEF LastDraws
  <2>4. CASE ~(needed /\ apply)
    BY <2>1, <2>2, <2>4 DEF LastDraws
  <2> QED
    BY <2>3, <2>4
<1>3. /\ DOMAIN pRaw = 1..m
      /\ \A i \in 1..m : pRaw[i] = IF kind = "free_hit" THEN OneSided(LastDraws[i]) ELSE TwoSided(LastDraws[i])
      /\ pRaw = [i \in 1..m |-> pRaw[i]]
  BY <1>1, <1>2 DEF PValues
<1>4. \A i \in 1..m : pRaw[i] \in Fractions
  BY <1>1, <1>2, <1>3, OneSidedParts, TwoSidedParts
<1>5. pRaw \in Seq(Fractions)
  BY <1>3, <1>4
<1>6. kind = "starting_xi" => \A i \in DOMAIN pRaw : pRaw[i][1] <= pRaw[i][2]
  BY <1>1, <1>2, <1>3, TwoSidedParts
<1> QED
  BY <1>1, <1>5, <1>6 DEF IsFamily

(* verdict.py and multiplicity.py: in either procedure the step-down's      *)
(* decisions are those of the closed test on the bootstrap in use, whatever *)
(* the size of the family and whatever ties.                                *)
THEOREM StepDownIsClosed == VerdictSpec => []DecidesAsClosedTest
<1>1. VerdictInv => DecidesAsClosedTest
  <2> SUFFICES ASSUME VerdictInv, step = "done"
               PROVE  reject = ClosedTest(PValues(kind, LastDraws))
    BY DEF DecidesAsClosedTest, LastDraws
  <2>1. pRaw = PValues(kind, LastDraws) /\ IsFamily(pRaw)
    BY DecidedOnFamily
  <2>2. reject = Holm(pRaw)
    BY DEF VerdictInv
  <2> QED
    BY <2>1, <2>2, HolmIsClosed
<1> QED
  BY <1>1, VerdictInvariant, PTL

(* starting_xi/verdict.py, needs_rerun(): where no re-run is asked for, no  *)
(* move of the p-values by up to two standard errors changes a decision,    *)
(* although it may change their ranks.                                      *)
THEOREM SettledStaysSettled == VerdictSpec => []SettledWithoutRerun
<1>1. VerdictInv => SettledWithoutRerun
  <2> SUFFICES ASSUME VerdictInv, step = "done", kind = "starting_xi", ~needed,
                      NEW q \in [DOMAIN pRaw -> UNION {Neighbours(pRaw[i]) : i \in DOMAIN pRaw}],
                      \A i \in DOMAIN pRaw : q[i] \in Neighbours(pRaw[i])
               PROVE  Holm(q) = reject
    BY DEF SettledWithoutRerun
  <2>1. /\ pRaw = PValues(kind, LastDraws) /\ IsFamily(pRaw)
        /\ \A i \in DOMAIN pRaw : pRaw[i][1] <= pRaw[i][2]
    BY DecidedOnFamily
  <2>2. LastDraws = first /\ needed = NeedsRerun(PValues(kind, first)) /\ reject = Holm(pRaw)
    BY DEF LastDraws, VerdictInv
  <2>3. ~NeedsRerun(pRaw)
    BY <2>1, <2>2
  <2>4. Bootstraps["starting_xi"] \subseteq Tails
    BY VerdictAssumption DEF Procedures, Tails
  <2>5. \A i \in DOMAIN pRaw : q[i] \in Fractions /\ Near(pRaw[i], q[i])
    BY <2>4, TwoSidedParts DEF Neighbours
  <2>6. DOMAIN q = DOMAIN pRaw /\ IsFamily(q)
    <3>1. PICK m \in Nat : DOMAIN pRaw = 1..m
      BY <2>1, FamilyParts
    <3>2. q \in [1..m -> Fractions]
      BY <2>5, <3>1
    <3> QED
      BY <3>1, <3>2 DEF IsFamily
  <2>7. Holm(q) = Holm(pRaw)
    BY <2>1, <2>3, <2>5, <2>6, SettledDecisions
  <2> QED
    BY <2>2, <2>7
<1> QED
  BY <1>1, VerdictInvariant, PTL

(* free_hit/verdict.py, verdict(): a PASS has a leg, and it survives        *)
(* without any one of its legs.                                             *)
THEOREM MoreLegsAreHarder == VerdictSpec => []MoreLegsNeverHelp
<1>1. VerdictInv => MoreLegsNeverHelp
  <2> SUFFICES ASSUME VerdictInv, step = "done", passed
               PROVE  pRaw # <<>> /\ \A i \in DOMAIN pRaw : Len(pRaw) > 1 => Passes(Holm(RemoveAt(pRaw, i)))
    BY DEF MoreLegsNeverHelp
  <2>1. IsFamily(pRaw) /\ Passes(Holm(pRaw))
    BY DecidedOnFamily DEF VerdictInv
  <2>2. Len(pRaw) # 0
    BY <2>1, PassingMeans
  <2>3. pRaw # <<>>
    BY <2>2
  <2> QED
    BY <2>1, <2>3, PassesWithFewer
<1> QED
  BY <1>1, VerdictInvariant, PTL

--------------------------------------------------------------------------------
(* What the lab writes about the probe is what the finished grid would say. *)
LabIsFinal ==
  /\ lab.command = "probe" => lab.text = ProbeReport(tally)
  /\ lab.command = "report" => lab.text.probe = ProbeReport(tally)
  /\ IsWhole(probe) => probe.text = ProbeReport(tally)
  /\ IsWhole(report) => report.text.probe = ProbeReport(tally)

Checked == {"load", "measure", "realism", "realism open", "feed", "feed open", "verdict", "verdict open"}
Measured == {"realism", "realism open", "feed", "feed open", "verdict", "verdict open"}
RealismWritten == {"feed", "feed open", "verdict", "verdict open"}

(* A run holds one checked pin, and what it wrote so far is that pin's. *)
RunHolds ==
  /\ run \in Checked => pin \in HasIdentity
  /\ run \in Checked \ {"load"} => pin \in HasGameweeks
  /\ run \in Measured => levels = ShockLevels(tally)
  /\ run \in RealismWritten => realism = Whole(RealismText(pin, levels))
  /\ run \in {"verdict", "verdict open"} => feed = Whole(pin)

(* Nothing is written before the levels are read. *)
NothingWrittenYet ==
  run \in {"idle", "refused", "pin", "load", "measure", "realism"} => files = before

(* The answers of a report without a table, and of any other one. *)
Silent(text) ==
  text.table = {} /\ text.mde = {} /\ text.rows = {} /\ text.needed = {} /\ text.managers = {}
Settled(text) == IF text.noTable THEN Silent(text) ELSE text = BuildReport(tally)

(* A report claims nothing, or what the finished grid would say. *)
ReportIsFinal ==
  /\ lab.command = "report" => Settled(lab.text)
  /\ IsWhole(report) => Settled(report.text)

RealismIsFinal ==
  IsWhole(realism) => \E p \in Pins : realism.text = RealismText(p, ShockLevels(tally))

Inv ==
  /\ TypeOK
  /\ LabIsFinal
  /\ ReportIsFinal
  /\ RunHolds
  /\ NothingWrittenYet
  /\ RealismIsFinal
  /\ VerdictOnOnePin

--------------------------------------------------------------------------------
LEMMA FileStates ==
  /\ NoFile.state = "none" /\ Torn.state = "torn"
  /\ \A text : Whole(text).state = "whole" /\ Whole(text).text = text
  BY DEF NoFile, Torn, Whole

LEMMA SameLevels == \A spread, L : LevelsIn(LabelRows(spread, L)) = LevelsIn(L)
<1> TAKE spread, L
<1> DEFINE Row(l) == [gameweeks |-> l.gameweeks, level |-> l.level,
                      applies |-> {spread <= points : points \in l.level}]
           Level(l) == [gameweeks |-> l.gameweeks, level |-> l.level]
<1>1. LabelRows(spread, L) = {Row(l) : l \in L}
  BY DEF LabelRows
<1>2. \A l : Level(Row(l)) = Level(l)
  OBVIOUS
<1>3. \A S : LevelsIn(S) = {Level(l) : l \in S}
  BY DEF LevelsIn
<1> HIDE DEF Row, Level
<1>4. {Level(r) : r \in {Row(l) : l \in L}} = {Level(l) : l \in L}
  BY <1>2
<1>5. QED
  BY <1>1, <1>3, <1>4

(* Once every no-edge and probe cell is saved, the probe reads the same as  *)
(* off the finished grid.                                                   *)
LEMMA ProbeIsFinal ==
  ASSUME tally \in [GridCells -> Nat], saved \subseteq GridCells, ProbeReadable
  PROVE  ShockLevels(Results) = ShockLevels(tally) /\ ProbeReport(Results) = ProbeReport(tally)
<1>1. \A s \in Settings \cup ProbeSettings : Firings(Results, s) = Firings(tally, s)
  <2> TAKE s \in Settings \cup ProbeSettings
  <2>1. <<s, NullShare>> \in saved
    BY DEF ProbeReadable
  <2>2. <<s, NullShare>> \in DOMAIN tally /\ <<s, NullShare>> \in DOMAIN Results
    BY <2>1 DEF Results, Restrict
  <2>3. Results[<<s, NullShare>>] = tally[<<s, NullShare>>]
    BY <2>1 DEF Results, Restrict
  <2>4. QED
    BY <2>2, <2>3 DEF Firings
<1>2. \A g : Valid(Results, g) = Valid(tally, g)
  BY <1>1 DEF Valid, FalseAlarmOk, AtCount
<1>3. \A g : FalseAlarmOk(Results, {s \in ProbeSettings : Gameweeks[s] = g})
           = FalseAlarmOk(tally, {s \in ProbeSettings : Gameweeks[s] = g})
  BY <1>1 DEF FalseAlarmOk
<1>4. \A g : ShockLevel(Results, g) = ShockLevel(tally, g)
  BY <1>2, <1>3 DEF ShockLevel
<1>5. ShockLevels(Results) = ShockLevels(tally)
  BY <1>4 DEF ShockLevels
<1>6. OverLimit(Results) = OverLimit(tally)
  BY <1>1 DEF OverLimit
<1>7. QED
  BY <1>5, <1>6 DEF ProbeReport

--------------------------------------------------------------------------------
(* The answers of a report, off any results. *)

LEMMA LeastElement ==
  ASSUME NEW S, S \subseteq Nat, S # {}
  PROVE  Min(S) \in S /\ \A y \in S : Min(S) <= y
<1> DEFINE Upto == {0..n : n \in S}
<1>1. Upto \subseteq FiniteSubsetsOf(Nat) /\ Upto # {}
  <2>1. \A n \in S : 0..n \in FiniteSubsetsOf(Nat)
    <3> TAKE n \in S
    <3>1. IsFiniteSet(0..n)
      BY FS_Interval
    <3>2. QED
      BY <3>1 DEF FiniteSubsetsOf
  <2>2. QED
    BY <2>1
<1>2. PICK U \in Upto : \A V \in Upto : <<V, U>> \notin StrictSubsetOrdering(Nat)
  <2> HIDE DEF Upto
  <2>1. QED
    BY <1>1, FS_StrictSubsetOrderingWellFounded, WFMin
<1>3. PICK x \in S : U = 0..x
  OBVIOUS
<1>4. \A y \in S : x <= y
  <2> SUFFICES ASSUME NEW y \in S, y < x PROVE FALSE
    OBVIOUS
  <2>1. x \in 0..x /\ x \notin 0..y /\ 0..y \subseteq 0..x /\ 0..x \subseteq Nat
    OBVIOUS
  <2>2. <<0..y, 0..x>> \in StrictSubsetOrdering(Nat)
    BY <2>1 DEF StrictSubsetOrdering
  <2>3. QED
    BY <1>2, <1>3, <2>2
<1>5. QED
  BY <1>4 DEF Min

(* A count's weakest setting is one of its settings, with the least power   *)
(* and, of those, the least id.                                             *)
Weakest(r, S, s) ==
  /\ s \in S
  /\ \A u \in S :
       \/ r[<<s, HeadlineEdge>>] < r[<<u, HeadlineEdge>>]
       \/ r[<<s, HeadlineEdge>>] = r[<<u, HeadlineEdge>>] /\ s <= u

LEMMA WeakestSetting ==
  ASSUME NEW r, NEW g \in GameweekSweep,
         \A s \in Settings : r[<<s, HeadlineEdge>>] \in Nat
  PROVE  Weakest(r, AtCount(g), LowestPower(r, AtCount(g)))
<1> DEFINE S == AtCount(g)
           Power(s) == r[<<s, HeadlineEdge>>]
           Powers == {Power(s) : s \in S}
           Equals == {s \in S : Power(s) = Min(Powers)}
<1>1. S \subseteq Nat /\ S # {} /\ \A s \in S : Power(s) \in Nat
  BY GridAssumption DEF AtCount, GameweekSweep
<1>2. LowestPower(r, S) = CHOOSE s : Weakest(r, S, s)
  BY DEF LowestPower, Weakest
<1> HIDE DEF S, Power
<1>3. Min(Powers) \in Powers /\ \A s \in S : Min(Powers) <= Power(s)
  BY <1>1, LeastElement
<1>4. Equals \subseteq Nat /\ Equals # {}
  BY <1>1, <1>3
<1>5. Min(Equals) \in Equals /\ \A s \in Equals : Min(Equals) <= s
  <2> HIDE DEF Equals
  <2>1. QED
    BY <1>4, LeastElement
<1>6. Weakest(r, S, Min(Equals))
  <2>1. Min(Equals) \in S /\ Power(Min(Equals)) = Min(Powers)
    BY <1>5
  <2>2. \A u \in S : Power(u) \in Nat /\ Min(Powers) <= Power(u)
    BY <1>1, <1>3
  <2>3. Min(Powers) \in Nat
    BY <1>1, <1>3
  <2>4. \A u \in S : Power(u) = Min(Powers) => Min(Equals) <= u
    BY <1>5
  <2> DEFINE p == Min(Powers)
             e == Min(Equals)
  <2> HIDE DEF p, e, Powers, Equals
  <2>5. \A u \in S : Power(e) < Power(u) \/ (Power(e) = Power(u) /\ e <= u)
    BY <2>1, <2>2, <2>3, <2>4 DEF p, e
  <2>6. QED
    BY <2>1, <2>5 DEF Weakest, Power, e
<1>7. QED
  BY <1>2, <1>6 DEF S

LEMMA OneWeakest ==
  ASSUME NEW r, NEW q, NEW S, S \subseteq Nat,
         \A s \in S : r[<<s, HeadlineEdge>>] \in Nat /\ q[<<s, HeadlineEdge>>] = r[<<s, HeadlineEdge>>],
         NEW s, Weakest(r, S, s), NEW u, Weakest(q, S, u)
  PROVE  s = u
<1> DEFINE a == r[<<s, HeadlineEdge>>]
           b == r[<<u, HeadlineEdge>>]
<1>1. s \in Nat /\ u \in Nat /\ a \in Nat /\ b \in Nat
  BY DEF Weakest
<1>2. (a < b \/ (a = b /\ s <= u)) /\ (b < a \/ (b = a /\ u <= s))
  BY DEF Weakest
<1> HIDE DEF a, b
<1>3. QED
  BY <1>1, <1>2

(* Two readings of one finished grid. *)
SameGrid(r, q) ==
  /\ \A s \in Settings, w \in Shares : r[<<s, w>>] \in Nat /\ q[<<s, w>>] = r[<<s, w>>]
  /\ \A s \in Settings : Firings(r, s) = Firings(q, s)

LEMMA SameRows ==
  ASSUME NEW r, NEW q, SameGrid(r, q)
  PROVE  /\ \A g : Valid(r, g) = Valid(q, g)
         /\ \A g \in GameweekSweep : GameweekRow(r, g) = GameweekRow(q, g)
<1>1. \A g : Valid(r, g) = Valid(q, g)
  BY DEF SameGrid, Valid, FalseAlarmOk, AtCount
<1>2. ASSUME NEW g \in GameweekSweep PROVE GameweekRow(r, g) = GameweekRow(q, g)
  <2> DEFINE weakest == LowestPower(r, AtCount(g))
  <2>1. \A s \in Settings : r[<<s, HeadlineEdge>>] \in Nat /\ q[<<s, HeadlineEdge>>] = r[<<s, HeadlineEdge>>]
    BY GridAssumption DEF SameGrid
  <2>2. AtCount(g) \subseteq Settings /\ AtCount(g) \subseteq Nat
    BY GridAssumption DEF AtCount
  <2>3. Weakest(r, AtCount(g), weakest) /\ Weakest(q, AtCount(g), LowestPower(q, AtCount(g)))
    BY <2>1, WeakestSetting
  <2>4. LowestPower(q, AtCount(g)) = weakest
    BY <2>1, <2>2, <2>3, OneWeakest
  <2>5. weakest \in Settings
    BY <2>2, <2>3 DEF Weakest
  <2> HIDE DEF weakest
  <2>6. Curve(r, weakest) = Curve(q, weakest)
    BY <2>5 DEF Curve, SameGrid
  <2>7. QED
    BY <1>1, <2>4, <2>6 DEF GameweekRow, weakest
<1>3. QED
  BY <1>1, <1>2

Entry(r, s, w) ==
  [setting |-> s, share |-> w, power |-> IF Valid(r, Gameweeks[s]) THEN {r[<<s, w>>]} ELSE {}]

LEMMA SameAnswers ==
  ASSUME NEW r, NEW q, SameGrid(r, q)
  PROVE  /\ PowerTable(r) = PowerTable(q) /\ ManagerSweep(r) = ManagerSweep(q)
         /\ MdeByGameweeks(r) = MdeByGameweeks(q) /\ MdeReading(r) = MdeReading(q)
         /\ \A e \in Shares : GameweeksNeeded(r, e) = GameweeksNeeded(q, e)
<1>1. \A g : Valid(r, g) = Valid(q, g)
  BY SameRows
<1>2. \A g \in GameweekSweep : GameweekRow(r, g) = GameweekRow(q, g)
  BY SameRows
<1>3. \A s \in Settings, w \in Shares : r[<<s, w>>] = q[<<s, w>>]
  BY DEF SameGrid
<1>4. PowerTable(r) = PowerTable(q)
  <2>1. \A s \in Settings, w \in Shares : Entry(r, s, w) = Entry(q, s, w)
    BY <1>1, <1>3 DEF Entry
  <2>2. PowerTable(r) = {Entry(r, s, w) : s \in Settings, w \in Shares}
    BY DEF PowerTable, Entry
  <2>3. PowerTable(q) = {Entry(q, s, w) : s \in Settings, w \in Shares}
    BY DEF PowerTable, Entry
  <2>4. QED
    BY <2>1, <2>2, <2>3
<1>5. ManagerSweep(r) = ManagerSweep(q)
  BY <1>1, <1>3, GridAssumption DEF ManagerSweep
<1>6. MdeByGameweeks(r) = MdeByGameweeks(q)
  BY <1>2 DEF MdeByGameweeks
<1>7. MdeReading(r) = MdeReading(q)
  <2> DEFINE valid == {g \in GameweekSweep : Valid(r, g)}
  <2>1. valid = {g \in GameweekSweep : Valid(q, g)}
    BY <1>1
  <2>2. valid # {} => Min(valid) \in GameweekSweep
    <3>1. valid \subseteq Nat
      BY GridAssumption DEF GameweekSweep
    <3>2. QED
      BY <3>1, LeastElement
  <2> HIDE DEF valid
  <2>3. QED
    BY <1>2, <2>1, <2>2 DEF MdeReading, valid
<1>8. ASSUME NEW e \in Shares PROVE GameweeksNeeded(r, e) = GameweeksNeeded(q, e)
  <2>1. \A g : AtCount(g) \subseteq Settings
    BY DEF AtCount
  <2>2. {g \in GameweekSweep : Valid(r, g) /\ \A s \in AtCount(g) : r[<<s, e>>] >= PassMark}
      = {g \in GameweekSweep : Valid(q, g) /\ \A s \in AtCount(g) : q[<<s, e>>] >= PassMark}
    BY <1>1, <1>3, <2>1
  <2>3. QED
    BY <2>2 DEF GameweeksNeeded
<1>9. QED
  BY <1>4, <1>5, <1>6, <1>7, <1>8

(* A report says nothing, or what the finished grid would. *)
LEMMA BuildIsSettled ==
  ASSUME tally \in [GridCells -> Nat], saved \subseteq GridCells, Reportable
  PROVE  Settled(BuildReport(Results))
<1>1. Results = [c \in saved |-> tally[c]]
  BY DEF Results, Restrict
<1>2. ASSUME NEW c \in saved PROVE c \in DOMAIN Results /\ c \in DOMAIN tally /\ Results[c] = tally[c]
  BY <1>1
<1>3. SameGrid(Results, tally)
  <2>1. \A s \in Settings, w \in Shares : <<s, w>> \in saved
    BY DEF Reportable
  <2>2. \A s \in Settings : <<s, NullShare>> \in saved
    BY DEF Reportable, ProbeReadable
  <2>3. QED
    BY <1>2, <2>1, <2>2 DEF SameGrid, Firings
<1>4. CASE SensitivityFailed(Results)
  BY <1>4 DEF BuildReport, Settled, Silent
<1>5. CASE ~SensitivityFailed(Results)
  <2>1. SensitivityFailed(tally) = FALSE /\ SensitivityFailed(Results) = FALSE
    BY <1>1, <1>2, <1>5 DEF SensitivityFailed
  <2>2. {s \in Settings : Firings(Results, s) > Limit} = {s \in Settings : Firings(tally, s) > Limit}
    BY <1>3 DEF SameGrid
  <2>3. ProbeReport(Results) = ProbeReport(tally)
    BY ProbeIsFinal DEF Reportable
  <2>4. \A e \in {HeadlineEdge, SecondaryEdge} : GameweeksNeeded(Results, e) = GameweeksNeeded(tally, e)
    BY <1>3, SameAnswers, GridAssumption
  <2>5. BuildReport(Results) = BuildReport(tally)
    BY <1>3, <2>1, <2>2, <2>3, <2>4, SameAnswers DEF BuildReport
  <2>6. QED
    <3>1. BuildReport(Results).noTable = FALSE
      BY <2>1 DEF BuildReport
    <3>2. QED
      BY <2>5, <3>1 DEF Settled
<1>6. QED
  BY <1>4, <1>5

LEMMA InvInit == Init => Inv
<1> SUFFICES ASSUME Init PROVE Inv
  OBVIOUS
<1>1. TypeOK
  BY DEF Init, LabInit, TypeOK, LabTypeOK, Idle, NoFile, Torn, Files, NoPin
<1>2. LabIsFinal /\ ReportIsFinal /\ RealismIsFinal /\ VerdictOnOnePin
  BY DEF Init, LabInit, LabIsFinal, ReportIsFinal, RealismIsFinal, VerdictOnOnePin, Idle, NoFile, IsWhole
<1>3. RunHolds /\ NothingWrittenYet
  BY DEF Init, RunHolds, NothingWrittenYet, Checked, Measured, RealismWritten
<1>4. QED
  BY <1>1, <1>2, <1>3 DEF Inv

--------------------------------------------------------------------------------
(* The lab's steps. *)
LEMMA LabTypeStep ==
  ASSUME Inv, LabNext
  PROVE  LabTypeOK'
<1> USE DEF Inv, TypeOK, LabTypeOK, Files
<1>0. Idle.command = "none"
  BY DEF Idle
<1>1. CASE \E c \in GridCells \ saved : SaveCell(c)
  BY <1>1 DEF SaveCell
<1>2. CASE StartProbe
  BY <1>0, <1>2, FileStates DEF StartProbe
<1>3. CASE StartReport
  BY <1>0, <1>3, FileStates DEF StartReport
<1>4. CASE FinishFile
  BY <1>0, <1>4, FileStates DEF FinishFile
<1>5. CASE LabDies
  BY <1>0, <1>5 DEF LabDies
<1>6. QED
  BY <1>1, <1>2, <1>3, <1>4, <1>5 DEF LabNext

LEMMA LabFinalStep ==
  ASSUME Inv, LabNext
  PROVE  LabIsFinal' /\ tally' = tally
<1>1. tally \in [GridCells -> Nat] /\ saved \subseteq GridCells
  BY GridAssumption DEF Inv, TypeOK, LabTypeOK
<1>2. CASE \E c \in GridCells \ saved : SaveCell(c)
  BY <1>2 DEF Inv, LabIsFinal, SaveCell
<1>3. CASE StartProbe
  <2>1. ProbeReport(Results) = ProbeReport(tally)
    BY <1>1, <1>3, ProbeIsFinal DEF StartProbe
  <2>2. QED
    BY <1>3, <2>1 DEF Inv, LabIsFinal, StartProbe, Torn, IsWhole
<1>4. CASE StartReport
  <2>1. ProbeReport(Results) = ProbeReport(tally)
    BY <1>1, <1>4, ProbeIsFinal DEF StartReport, Reportable
  <2>2. BuildReport(Results).probe = ProbeReport(Results)
    BY DEF BuildReport
  <2>3. QED
    BY <1>4, <2>1, <2>2 DEF Inv, LabIsFinal, StartReport, Torn, IsWhole
<1>5. CASE FinishFile
  BY <1>5 DEF Inv, LabIsFinal, FinishFile, Whole, IsWhole, Idle
<1>6. CASE LabDies
  BY <1>6 DEF Inv, LabIsFinal, LabDies, Idle
<1>7. QED
  BY <1>2, <1>3, <1>4, <1>5, <1>6 DEF LabNext

(* What a report says of the finished grid moves only with the tally. *)
LEMMA SettledStays ==
  ASSUME tally' = tally, NEW text, Settled(text)
  PROVE  Settled(text)'
<1>1. BuildReport(tally)' = BuildReport(tally)
  <2>1. PowerTable(tally)' = PowerTable(tally) /\ ManagerSweep(tally)' = ManagerSweep(tally)
    BY DEF PowerTable, ManagerSweep, Valid, FalseAlarmOk, Firings
  <2>2. MdeReading(tally)' = MdeReading(tally) /\ MdeByGameweeks(tally)' = MdeByGameweeks(tally)
    BY DEF MdeReading, MdeByGameweeks, GameweekRow, LowestPower, Curve, Valid, FalseAlarmOk, Firings
  <2>3. \A e : GameweeksNeeded(tally, e)' = GameweeksNeeded(tally, e)
    BY DEF GameweeksNeeded, Valid, FalseAlarmOk, Firings
  <2>4. SensitivityFailed(tally)' = SensitivityFailed(tally) /\ ProbeReport(tally)' = ProbeReport(tally)
    BY DEF SensitivityFailed, ProbeReport, ShockLevels, ShockLevel, OverLimit, Valid, FalseAlarmOk, Firings
  <2>5. QED
    BY <2>1, <2>2, <2>3, <2>4 DEF BuildReport, Firings
<1>2. QED
  BY <1>1 DEF Settled, Silent

LEMMA ReportFinalStep ==
  ASSUME Inv, LabNext
  PROVE  ReportIsFinal'
<1>1. tally \in [GridCells -> Nat] /\ saved \subseteq GridCells /\ tally' = tally
  BY GridAssumption, LabFinalStep DEF Inv, TypeOK, LabTypeOK
<1>2. \A text : Settled(text) => Settled(text)'
  BY <1>1, SettledStays
<1> USE DEF Inv, ReportIsFinal, IsWhole
<1>3. CASE \E c \in GridCells \ saved : SaveCell(c)
  BY <1>2, <1>3 DEF SaveCell
<1>4. CASE StartProbe
  BY <1>2, <1>4 DEF StartProbe
<1>5. CASE StartReport
  <2>1. Settled(BuildReport(Results))
    BY <1>1, <1>5, BuildIsSettled DEF StartReport
  <2>2. lab'.text = BuildReport(Results) /\ report'.state = "torn"
    BY <1>5 DEF StartReport, Torn
  <2>3. QED
    BY <1>2, <2>1, <2>2
<1>6. CASE FinishFile
  BY <1>2, <1>6, FileStates DEF FinishFile, Idle
<1>7. CASE LabDies
  BY <1>2, <1>7 DEF LabDies, Idle
<1>8. QED
  BY <1>3, <1>4, <1>5, <1>6, <1>7 DEF LabNext

LEMMA LabStep ==
  ASSUME Inv, LabNext, UNCHANGED runVars
  PROVE  Inv'
<1>1. LabTypeOK' /\ LabIsFinal' /\ tally' = tally
  BY LabTypeStep, LabFinalStep
<1>2. TypeOK'
  BY <1>1 DEF Inv, TypeOK, runVars, files
<1>3. RunHolds' /\ RealismIsFinal' /\ VerdictOnOnePin'
  BY <1>1 DEF Inv, RunHolds, RealismIsFinal, VerdictOnOnePin, RealismText, ShockLevels, ShockLevel, Valid,
              FalseAlarmOk, Firings, runVars, files, IsWhole
<1>4. NothingWrittenYet'
  BY DEF Inv, NothingWrittenYet, runVars, files
<1>5. QED
  BY <1>1, <1>2, <1>3, <1>4, ReportFinalStep DEF Inv

--------------------------------------------------------------------------------
(* The verdict run's steps. *)
LEMMA RunTypeStep ==
  ASSUME Inv, RunNext, UNCHANGED labVars
  PROVE  TypeOK'
<1> USE DEF Inv, TypeOK, labVars, files, Leave, Files
<1>1. LabTypeOK'
  BY DEF LabTypeOK
<1>2. CASE Start
  BY <1>1, <1>2 DEF Start
<1>3. CASE ReadPin
  BY <1>1, <1>3 DEF ReadPin
<1>4. CASE Load
  BY <1>1, <1>4 DEF Load
<1>5. CASE Measure
  BY <1>1, <1>5 DEF Measure
<1>6. CASE OpenRealism \/ OpenFeed \/ OpenVerdict
  BY <1>1, <1>6, FileStates DEF OpenRealism, OpenFeed, OpenVerdict
<1>7. CASE CloseRealism \/ CloseFeed \/ CloseVerdict
  BY <1>1, <1>7, FileStates DEF CloseRealism, CloseFeed, CloseVerdict
<1>8. CASE RunDies \/ MovePin
  BY <1>1, <1>8 DEF RunDies, MovePin
<1>9. QED
  BY <1>2, <1>3, <1>4, <1>5, <1>6, <1>7, <1>8 DEF RunNext

LEMMA RunHoldsStep ==
  ASSUME Inv, RunNext, UNCHANGED labVars
  PROVE  RunHolds'
<1> USE DEF Inv, RunHolds, Checked, Measured, RealismWritten, labVars, files, Leave
<1>1. ShockLevels(tally)' = ShockLevels(tally)
  BY DEF ShockLevels, ShockLevel, Valid, FalseAlarmOk, Firings
<1>2. CASE Start \/ RunDies \/ MovePin
  BY <1>1, <1>2 DEF Start, RunDies, MovePin
<1>3. CASE ReadPin \/ Load
  BY <1>1, <1>3 DEF ReadPin, Load
<1>4. CASE Measure
  <2>1. ProbeReadable => ShockLevels(Results) = ShockLevels(tally)
    BY GridAssumption, ProbeIsFinal DEF TypeOK, LabTypeOK
  <2>2. QED
    BY <1>1, <1>4, <2>1 DEF Measure
<1>5. CASE OpenRealism \/ OpenFeed \/ OpenVerdict
  BY <1>1, <1>5 DEF OpenRealism, OpenFeed, OpenVerdict
<1>6. CASE CloseRealism \/ CloseFeed
  BY <1>1, <1>6 DEF CloseRealism, CloseFeed
<1>7. CASE CloseVerdict
  BY <1>1, <1>7 DEF CloseVerdict
<1>8. QED
  BY <1>2, <1>3, <1>4, <1>5, <1>6, <1>7 DEF RunNext

LEMMA NothingWrittenStep ==
  ASSUME Inv, RunNext
  PROVE  NothingWrittenYet'
<1> USE DEF Inv, NothingWrittenYet, files, Leave
<1>1. CASE Start \/ RunDies \/ MovePin
  BY <1>1 DEF Start, RunDies, MovePin
<1>2. CASE ReadPin \/ Load \/ Measure
  BY <1>2 DEF ReadPin, Load, Measure
<1>3. CASE OpenRealism \/ OpenFeed \/ OpenVerdict
  BY <1>3 DEF OpenRealism, OpenFeed, OpenVerdict
<1>4. CASE CloseRealism \/ CloseFeed \/ CloseVerdict
  BY <1>4 DEF CloseRealism, CloseFeed, CloseVerdict
<1>5. QED
  BY <1>1, <1>2, <1>3, <1>4 DEF RunNext

LEMMA RunFilesStep ==
  ASSUME Inv, RunNext, UNCHANGED labVars
  PROVE  LabIsFinal' /\ RealismIsFinal' /\ VerdictOnOnePin'
<1>1. ShockLevels(tally)' = ShockLevels(tally)
  BY DEF labVars, ShockLevels, ShockLevel, Valid, FalseAlarmOk, Firings
<1>2. LabIsFinal'
  BY DEF Inv, LabIsFinal, labVars, IsWhole, ProbeReport, ShockLevels, ShockLevel, Valid, FalseAlarmOk, Firings, OverLimit
<1> USE DEF Inv, RealismIsFinal, VerdictOnOnePin, RealismText, IsWhole, files, Leave
<1>3. CASE CloseRealism
  <2>1. pin \in Pins /\ levels = ShockLevels(tally)
    BY <1>3, PinsAssumption DEF RunHolds, Checked, Measured, CloseRealism
  <2>2. RealismIsFinal'
    BY <1>1, <1>3, <2>1 DEF CloseRealism, Whole
  <2>3. QED
    BY <1>1, <1>2, <1>3, <2>2 DEF CloseRealism
<1>4. CASE CloseVerdict
  <2>1. pin \in HasIdentity \cap HasGameweeks /\ realism.text = RealismText(pin, ShockLevels(tally))
    <3>1. /\ pin \in HasIdentity \cap HasGameweeks /\ levels = ShockLevels(tally)
          /\ realism = Whole(RealismText(pin, levels))
      BY <1>4 DEF RunHolds, Checked, Measured, RealismWritten, CloseVerdict
    <3>2. QED
      BY <3>1, FileStates
  <2>2. VerdictOnOnePin'
    BY <1>1, <1>4, <2>1 DEF CloseVerdict, VerdictText, Whole
  <2>3. QED
    BY <1>1, <1>2, <1>4, <2>2 DEF CloseVerdict
<1>5. CASE Start \/ ReadPin \/ Load \/ Measure \/ RunDies \/ MovePin
  BY <1>1, <1>2, <1>5 DEF Start, ReadPin, Load, Measure, RunDies, MovePin
<1>6. CASE OpenRealism \/ OpenFeed \/ CloseFeed \/ OpenVerdict
  BY <1>1, <1>2, <1>6, FileStates DEF OpenRealism, OpenFeed, CloseFeed, OpenVerdict
<1>7. QED
  BY <1>3, <1>4, <1>5, <1>6 DEF RunNext

LEMMA ReportStays ==
  ASSUME Inv, UNCHANGED labVars
  PROVE  ReportIsFinal'
<1>1. \A text : Settled(text) => Settled(text)'
  BY SettledStays DEF labVars
<1>2. QED
  BY <1>1 DEF Inv, ReportIsFinal, IsWhole, labVars

--------------------------------------------------------------------------------
LEMMA InvNext == Inv /\ [Next]_vars => Inv'
<1> SUFFICES ASSUME Inv, [Next]_vars PROVE Inv'
  OBVIOUS
<1>1. CASE LabNext /\ UNCHANGED runVars
  BY <1>1, LabStep
<1>2. CASE RunNext /\ UNCHANGED labVars
  BY <1>2, RunTypeStep, RunHoldsStep, NothingWrittenStep, RunFilesStep, ReportStays DEF Inv
<1>3. CASE UNCHANGED vars
  <2> USE <1>3 DEF vars, labVars, runVars, files, Inv
  <2>1. ShockLevels(tally)' = ShockLevels(tally) /\ ProbeReport(tally)' = ProbeReport(tally)
    BY DEF ProbeReport, ShockLevels, ShockLevel, Valid, FalseAlarmOk, Firings, OverLimit
  <2>2. TypeOK' /\ NothingWrittenYet'
    BY DEF TypeOK, LabTypeOK, NothingWrittenYet
  <2>3. LabIsFinal'
    BY <2>1 DEF LabIsFinal, IsWhole
  <2>4. RunHolds'
    BY <2>1 DEF RunHolds, RealismText
  <2>5. RealismIsFinal' /\ VerdictOnOnePin'
    BY <2>1 DEF RealismIsFinal, VerdictOnOnePin, RealismText, IsWhole
  <2>6. QED
    BY <2>2, <2>3, <2>4, <2>5, ReportStays
<1>4. QED
  BY <1>1, <1>2, <1>3 DEF Next

(* Every reachable state satisfies the inductive invariant. *)
THEOREM InvHolds == Spec => []Inv
  BY InvInit, InvNext, PTL DEF Spec

(* The variables keep their types, and a file is open only while written    *)
(* (power_report and stage5 write in place).                                *)
THEOREM Typing == Spec => []TypeOK
<1>1. Inv => TypeOK
  BY DEF Inv
<1>2. QED
  BY <1>1, InvHolds, PTL

(* A written verdict rests on one checked pin for any pins, any lab and any *)
(* interleaving with crashes and pin moves (verdict()).                     *)
THEOREM OnePin == Spec => []VerdictOnOnePin
<1>1. Inv => VerdictOnOnePin
  BY DEF Inv
<1>2. QED
  BY <1>1, InvHolds, PTL

(* Every refusal comes before the first write (verdict()). *)
THEOREM NoTrace == Spec => []RefusedRunsLeaveNoTrace
<1>1. Inv => RefusedRunsLeaveNoTrace
  BY DEF Inv, NothingWrittenYet, RefusedRunsLeaveNoTrace
<1>2. QED
  BY <1>1, InvHolds, PTL

(* The three files name the same levels whenever they stand whole           *)
(* (probe_report() under probe(), report() and verdict()).                  *)
THEOREM LevelsAgree == Spec => []FilesAgreeOnLevels
<1>1. ASSUME Inv PROVE FilesAgreeOnLevels
  <2>1. IsWhole(probe) => LevelsIn(probe.text.levels) = LevelsIn(ShockLevels(tally))
    BY <1>1 DEF Inv, LabIsFinal, ProbeReport
  <2>2. IsWhole(report) => LevelsIn(report.text.probe.levels) = LevelsIn(ShockLevels(tally))
    BY <1>1 DEF Inv, LabIsFinal, ProbeReport
  <2>3. IsWhole(realism) => LevelsIn(realism.text.rows) = LevelsIn(ShockLevels(tally))
    <3>1. ASSUME IsWhole(realism)
          PROVE  \E p \in Pins : realism.text.rows = LabelRows(Spread[p], ShockLevels(tally))
      <4>1. PICK p \in Pins : realism.text = RealismText(p, ShockLevels(tally))
        BY <1>1, <3>1 DEF Inv, RealismIsFinal
      <4>2. RealismText(p, ShockLevels(tally)).rows = LabelRows(Spread[p], ShockLevels(tally))
        BY DEF RealismText
      <4>3. QED
        BY <4>1, <4>2
    <3>2. QED
      BY <3>1, SameLevels
  <2>4. QED
    BY <2>1, <2>2, <2>3 DEF FilesAgreeOnLevels
<1>2. QED
  BY <1>1, InvHolds, PTL

--------------------------------------------------------------------------------
(* The answers of the finished grid. *)

FinishedGrid == tally \in [GridCells -> Nat]

LEMMA FinishedCells ==
  ASSUME FinishedGrid
  PROVE  /\ SameGrid(tally, tally)
         /\ \A s \in Settings : Firings(tally, s) = tally[<<s, NullShare>>]
         /\ \A s \in Settings : tally[<<s, HeadlineEdge>>] \in Nat
<1>1. \A s \in Settings, w \in Shares \cup {NullShare} : <<s, w>> \in GridCells
  BY DEF GridCells
<1>2. QED
  BY <1>1, GridAssumption DEF FinishedGrid, SameGrid, Firings

LEMMA FailedAreInvalid ==
  ASSUME FinishedGrid, NEW g \in GameweekSweep
  PROVE  g \in FailedCounts <=> ~Valid(tally, g)
<1>1. \A s \in AtCount(g) : Firings(tally, s) = tally[<<s, NullShare>>] /\ tally[<<s, NullShare>>] \in Nat
  <2>1. \A s \in Settings : <<s, NullShare>> \in GridCells
    BY DEF GridCells
  <2>2. QED
    BY <2>1, FinishedCells DEF AtCount, FinishedGrid
<1>2. Limit \in Nat
  BY GridAssumption
<1>3. \A s \in AtCount(g) : Firings(tally, s) <= Limit <=> ~(tally[<<s, NullShare>>] > Limit)
  BY <1>1, <1>2
<1>4. QED
  BY <1>3 DEF FailedCounts, Valid, FalseAlarmOk

LEMMA EnoughCounts ==
  ASSUME FinishedGrid, NEW e
  PROVE  \A g \in GameweeksNeeded(tally, e) :
           g \in GameweekSweep /\ Valid(tally, g) /\ \A s \in AtCount(g) : tally[<<s, e>>] >= PassMark
<1> DEFINE enough == {g \in GameweekSweep : Valid(tally, g) /\ \A s \in AtCount(g) : tally[<<s, e>>] >= PassMark}
<1>1. enough \subseteq Nat
  BY GridAssumption DEF GameweekSweep
<1>2. enough # {} => Min(enough) \in enough
  <2> HIDE DEF enough
  <2>1. QED
    BY <1>1, LeastElement
<1>3. QED
  BY <1>2 DEF GameweeksNeeded

(* At a count that failed its false-alarm check nothing in a report claims  *)
(* power, for every grid and every tally (label_row(), manager_sweep(),     *)
(* gameweeks_needed()).                                                     *)
THEOREM QuietWhereInvalid == Spec => []NoPowerWhereInvalid
<1>1. ASSUME Inv, IsWhole(report) PROVE NoPowerWhereInvalid
  <2> DEFINE text == report.text
  <2>1. FinishedGrid /\ Settled(text)
    BY <1>1, GridAssumption DEF Inv, TypeOK, LabTypeOK, ReportIsFinal, FinishedGrid
  <2>2. CASE text.noTable
    <3>1. Silent(text)
      BY <2>1, <2>2 DEF Settled
    <3>2. QED
      BY <3>1 DEF NoPowerWhereInvalid, Silent
  <2>3. CASE ~text.noTable
    <3>1. text = BuildReport(tally) /\ ~SensitivityFailed(tally)
      BY <2>1, <2>3 DEF Settled, BuildReport
    <3>2. /\ text.rows = MdeByGameweeks(tally) /\ text.mde = MdeReading(tally)
          /\ text.table = PowerTable(tally) /\ text.managers = ManagerSweep(tally)
          /\ text.needed = {[edge |-> e, count |-> GameweeksNeeded(tally, e)] : e \in {HeadlineEdge, SecondaryEdge}}
      BY <3>1 DEF BuildReport
    <3>3. \A row \in text.rows \cup text.mde : \E g \in GameweekSweep : row = GameweekRow(tally, g)
      <4> DEFINE valid == {g \in GameweekSweep : Valid(tally, g)}
      <4>1. valid \subseteq Nat
        BY GridAssumption DEF GameweekSweep
      <4>2. valid # {} => Min(valid) \in valid
        <5> HIDE DEF valid
        <5>1. QED
          BY <4>1, LeastElement
      <4>3. \A row \in MdeReading(tally) : \E g \in GameweekSweep : row = GameweekRow(tally, g)
        BY <4>2 DEF MdeReading
      <4>4. QED
        BY <3>2, <4>3 DEF MdeByGameweeks
    <3>4. ASSUME NEW row \in text.rows \cup text.mde, row.gameweeks \in FailedCounts
          PROVE  row.label.power = {} /\ row.label.mde = {}
      <4>1. PICK g \in GameweekSweep : row = GameweekRow(tally, g)
        BY <3>3
      <4>2. g = row.gameweeks /\ ~Valid(tally, g)
        BY <2>1, <3>4, <4>1, FailedAreInvalid DEF GameweekRow
      <4>3. row.label = NoRow
        BY <4>1, <4>2 DEF GameweekRow, LabelRow
      <4>4. QED
        BY <4>3 DEF NoRow
    <3>5. ASSUME NEW e \in text.table \cup text.managers, Gameweeks[e.setting] \in FailedCounts
          PROVE  e.power = {}
      <4>1. \E s \in Settings : e.setting = s /\ (e.power # {} => Valid(tally, Gameweeks[s]))
        <5>1. CASE e \in text.table
          <6>1. PowerTable(tally) = {Entry(tally, s, w) : s \in Settings, w \in Shares}
            BY DEF PowerTable, Entry
          <6>2. PICK s \in Settings, w \in Shares : e = Entry(tally, s, w)
            BY <3>2, <5>1, <6>1
          <6>3. QED
            BY <6>2 DEF Entry
        <5>2. CASE e \in text.managers
          <6>1. e \in ManagerSweep(tally)
            BY <3>2, <5>2
          <6>2. PICK s \in Settings :
                  e = [setting |-> s,
                       power |-> IF Valid(tally, Gameweeks[s]) THEN {tally[<<s, HeadlineEdge>>]} ELSE {}]
            BY <6>1 DEF ManagerSweep
          <6>3. QED
            BY <6>2
        <5>3. QED
          BY <5>1, <5>2
      <4>2. QED
        BY <2>1, <3>5, <4>1, FailedAreInvalid DEF GameweekSweep
    <3>6. \A n \in text.needed : n.count \cap FailedCounts = {}
      <4>1. \A e : GameweeksNeeded(tally, e) \cap FailedCounts = {}
        BY <2>1, EnoughCounts, FailedAreInvalid
      <4>2. QED
        BY <3>2, <4>1
    <3>7. QED
      BY <3>4, <3>5, <3>6 DEF NoPowerWhereInvalid
  <2>4. QED
    BY <2>2, <2>3
<1>2. Inv => NoPowerWhereInvalid
  BY <1>1 DEF NoPowerWhereInvalid
<1>3. QED
  BY <1>2, InvHolds, PTL
(* A count's row, whatever shape its weakest setting's curve has.           *)
LEMMA HeadlineRows ==
  ASSUME tally \in Tallies, NEW g \in GameweekSweep
  PROVE  LET label == GameweekRow(tally, g).label IN
         /\ label.status = Fine => Detectable(label, HeadlineEdge)
         /\ (\E p \in label.power : p >= PassMark)
              <=> Valid(tally, g) /\ \A s \in AtCount(g) : tally[<<s, HeadlineEdge>>] >= PassMark
         /\ \A p \in label.power, s \in AtCount(g) : p <= tally[<<s, HeadlineEdge>>]
<1> DEFINE weakest == LowestPower(tally, AtCount(g))
           curve == Curve(tally, weakest)
           ok == Valid(tally, g)
           reachable == ThresholdReachable(g)
           label == LabelRow(curve, reachable, ok)
           headline == tally[<<weakest, HeadlineEdge>>]
           reaching == {w \in Shares : curve[w] >= PassMark}
<1>1. GameweekRow(tally, g).label = label /\ ok \in BOOLEAN /\ reachable \in BOOLEAN
  BY DEF GameweekRow, Valid, FalseAlarmOk, ThresholdReachable
<1>2. /\ \A s \in Settings : tally[<<s, HeadlineEdge>>] \in Nat
      /\ Weakest(tally, AtCount(g), weakest)
  BY GridAssumption, FinishedCells, WeakestSetting DEF FinishedGrid
<1>3. weakest \in AtCount(g) /\ weakest \in Settings /\ headline \in Nat
  BY <1>2 DEF Weakest, AtCount
<1>4. \A s \in AtCount(g) : headline <= tally[<<s, HeadlineEdge>>] /\ tally[<<s, HeadlineEdge>>] \in Nat
  BY <1>2, <1>3 DEF Weakest, AtCount
<1>5. (\A s \in AtCount(g) : tally[<<s, HeadlineEdge>>] >= PassMark) <=> headline >= PassMark
  <2> HIDE DEF weakest
  <2>1. PassMark \in Nat
    BY GridAssumption
  <2>2. QED
    BY <1>3, <1>4, <2>1
<1>6. curve[HeadlineEdge] = headline /\ HeadlineEdge \in Shares
  BY GridAssumption DEF Curve
<1>7. ~ok => label.status # Fine /\ label.power = {}
  BY DEF LabelRow, NoRow, Invalid, Fine
<1>8. ok => label.power = {headline}
  BY <1>1, <1>6 DEF LabelRow
<1>9. label.status = Fine =>
        headline >= PassMark /\ label.mde = IF reaching = {} THEN {} ELSE {Min(reaching)}
  <2>1. PassMark \in Nat
    BY GridAssumption
  <2>2. label.status = Fine =>
          ~(headline < PassMark) /\ label.mde = IF reaching = {} THEN {} ELSE {Min(reaching)}
    BY <1>1, <1>6 DEF LabelRow, NoRow, Invalid, Undetermined, Underpowered, Fine
  <2> HIDE DEF label, reaching, headline
  <2>3. QED
    BY <1>3, <2>1, <2>2
<1>10. headline >= PassMark => reaching # {} /\ Min(reaching) <= HeadlineEdge
  <2>1. reaching \subseteq Nat /\ (headline >= PassMark => HeadlineEdge \in reaching)
    BY <1>6, GridAssumption
  <2> HIDE DEF reaching, headline
  <2>2. QED
    BY <2>1, LeastElement
<1> HIDE DEF label, headline, reaching, weakest, curve, ok, reachable
<1>11. label.status = Fine => Detectable(label, HeadlineEdge)
  BY <1>9, <1>10 DEF Detectable
<1>12. (\E p \in label.power : p >= PassMark) <=> ok /\ headline >= PassMark
  BY <1>7, <1>8, <1>1
<1>13. \A p \in label.power, s \in AtCount(g) : p <= tally[<<s, HeadlineEdge>>]
  BY <1>1, <1>4, <1>7, <1>8
<1>14. QED
  BY <1>1, <1>5, <1>11, <1>12, <1>13 DEF ok

(* The report's answers on the headline edge rest on one another, and are   *)
(* final, for every outcome of the cells (mde_by_gameweeks(),               *)
(* manager_sweep(), gameweeks_needed()).                                    *)
THEOREM AnswersRestOnOneAnother == Spec => []AnswersAgree
<1>1. ASSUME Inv, IsWhole(report), ~report.text.noTable PROVE AnswersAgree
  <2> DEFINE text == report.text
             powered == {row \in text.rows : \E p \in row.label.power : p >= PassMark}
             enough == {g \in GameweekSweep :
                          Valid(tally, g) /\ \A s \in AtCount(g) : tally[<<s, HeadlineEdge>>] >= PassMark}
  <2>1. tally \in Tallies /\ text = BuildReport(tally)
    BY <1>1 DEF Inv, TypeOK, LabTypeOK, ReportIsFinal, Settled
  <2>2. ~SensitivityFailed(tally)
    BY <1>1, <2>1 DEF BuildReport
  <2>3. /\ text.rows = MdeByGameweeks(tally) /\ text.managers = ManagerSweep(tally)
        /\ text.needed = {[edge |-> e, count |-> GameweeksNeeded(tally, e)] : e \in {HeadlineEdge, SecondaryEdge}}
    BY <2>1, <2>2 DEF BuildReport
  <2>4. \A g \in GameweekSweep :
          LET row == GameweekRow(tally, g) IN
          /\ row.gameweeks = g
          /\ row.label.status = Fine => Detectable(row.label, HeadlineEdge)
          /\ (\E p \in row.label.power : p >= PassMark) <=> g \in enough
          /\ \A p \in row.label.power, s \in AtCount(g) : p <= tally[<<s, HeadlineEdge>>]
    BY <2>1, HeadlineRows DEF GameweekRow
  <2>5. \A row \in text.rows, e \in text.managers :
          Gameweeks[e.setting] = row.gameweeks => \A p \in row.label.power, q \in e.power : p <= q
    <3> SUFFICES ASSUME NEW row \in text.rows, NEW e \in text.managers,
                        Gameweeks[e.setting] = row.gameweeks,
                        NEW p \in row.label.power, NEW q \in e.power
                 PROVE  p <= q
      OBVIOUS
    <3>1. PICK g \in GameweekSweep : row = GameweekRow(tally, g)
      BY <2>3 DEF MdeByGameweeks
    <3>2. PICK s \in Settings :
            e = [setting |-> s,
                 power |-> IF Valid(tally, Gameweeks[s]) THEN {tally[<<s, HeadlineEdge>>]} ELSE {}]
      BY <2>3 DEF ManagerSweep
    <3>3. e.setting = s /\ q = tally[<<s, HeadlineEdge>>]
      BY <3>2
    <3>4. s \in AtCount(g)
      BY <2>4, <3>1, <3>3 DEF AtCount
    <3>5. QED
      BY <2>4, <3>1, <3>3, <3>4
  <2> HIDE DEF enough, text
  <2>6. /\ powered = {GameweekRow(tally, g) : g \in enough}
        /\ \A row \in text.rows : row.label.status = Fine => Detectable(row.label, HeadlineEdge)
    BY <2>3, <2>4 DEF MdeByGameweeks, enough
  <2> HIDE DEF powered
  <2>7. {row.gameweeks : row \in powered} = enough
    <3>1. \A g \in enough : GameweekRow(tally, g).gameweeks = g
      BY <2>4 DEF enough
    <3>2. QED
      BY <2>6, <3>1
  <2>8. GameweeksNeeded(tally, HeadlineEdge) = IF powered = {} THEN {} ELSE {Min({row.gameweeks : row \in powered})}
    <3>1. powered = {} <=> enough = {}
      BY <2>6
    <3>2. QED
      BY <2>7, <3>1 DEF GameweeksNeeded, enough
  <2>9. [edge |-> HeadlineEdge, count |-> GameweeksNeeded(tally, HeadlineEdge)] \in text.needed
    BY <2>3
  <2>10. QED
    BY <2>1, <2>5, <2>6, <2>8, <2>9 DEF AnswersAgree, powered, text
<1>2. Inv => AnswersAgree
  BY <1>1 DEF AnswersAgree
<1>3. QED
  BY <1>2, InvHolds, PTL
================================================================================

------------------------------- MODULE LabReport -------------------------------
(***************************************************************************)
(* decisions/starting_xi/power_report.py and the commands that write the   *)
(* power lab's files, operational/starting_xi_power_lab.py: what PROBE.md  *)
(* and REPORT.md claim, read off the cells saved so far.                   *)
(*                                                                         *)
(* A cell's result is one number: the family-wise firings at no edge, the  *)
(* power in percent elsewhere.  A rendered file is the record it renders.  *)
(***************************************************************************)
EXTENDS Integers, FiniteSetsExt, Functions

CONSTANTS Settings,       \* the grid's settings, ids in the order of SETTINGS
          ProbeSettings,  \* the probe's
          Gameweeks,      \* the count of either
          Corner,         \* WORST_CASE_CORNER
          Shares,         \* TRUE_WIN_SHARES, in percent
          NullShare, HeadlineEdge, SecondaryEdge, SensitivityShare,
          Limit,          \* false_alarm_max_firings
          PassMark, SensitivityMinPower,
          HolmInverse,    \* 1 / HOLM_STRICTEST
          InnerResamples,
          ProbeShock, LargestSweptShock,
          Tallies         \* what the cells may come to

GridCells ==
  (Settings \X (Shares \cup {NullShare})) \cup (ProbeSettings \X {NullShare})
    \cup {<<Corner, SensitivityShare>>}

GameweekSweep == {Gameweeks[s] : s \in Settings}
ProbeGameweeks == {Gameweeks[s] : s \in ProbeSettings}

ASSUME GridAssumption ==
  /\ Settings \subseteq Nat /\ ProbeSettings \cap Settings = {}
  /\ Corner \in Settings
  /\ Gameweeks \in [Settings \cup ProbeSettings -> Nat]
  /\ ProbeGameweeks \subseteq GameweekSweep
  /\ Shares \subseteq Nat /\ {HeadlineEdge, SecondaryEdge} \subseteq Shares
  /\ NullShare \notin Shares /\ SensitivityShare \notin Shares \cup {NullShare}
  /\ {Limit, PassMark} \subseteq Nat
  /\ Tallies \subseteq [GridCells -> Nat]

VARIABLES tally,  \* what each cell comes to: seeds are fixed, so every run finds the same
          saved,  \* the cells on disk
          lab,    \* the report or probe command: what it is writing
          probe,  \* PROBE.md
          report  \* REPORT.md

labVars == <<tally, saved, lab, probe, report>>

NoFile == [state |-> "none"]
Torn == [state |-> "torn"]
Whole(text) == [state |-> "whole", text |-> text]
IsWhole(file) == file.state = "whole"

Idle == [command |-> "none"]

--------------------------------------------------------------------------------
(* Reading the grid: r holds the result of every saved cell. *)

Results == Restrict(tally, saved)

AtCount(g) == {s \in Settings : Gameweeks[s] = g}

(* Read once the cell is known to be saved. *)
Firings(r, s) == IF <<s, NullShare>> \in DOMAIN r THEN r[<<s, NullShare>>] ELSE 0

FalseAlarmOk(r, S) == \A s \in S : Firings(r, s) <= Limit

Valid(r, g) == FalseAlarmOk(r, AtCount(g))

(* min() keeps the first of equals. *)
LowestPower(r, S) ==
  CHOOSE s \in S : \A u \in S :
    \/ r[<<s, HeadlineEdge>>] < r[<<u, HeadlineEdge>>]
    \/ r[<<s, HeadlineEdge>>] = r[<<u, HeadlineEdge>>] /\ s <= u

Curve(r, s) == [w \in Shares |-> r[<<s, w>>]]

(* resolution(): both steps of the p-value at or below Holm's strictest threshold. *)
ThresholdReachable(g) == g^g >= 2 * HolmInverse /\ InnerResamples + 1 >= 2 * HolmInverse

Invalid == "invalid"
Undetermined == "undetermined"
Underpowered == "underpowered"
Fine == "none"

(* A value that may be absent is a set of at most one element. *)
NoRow == [status |-> Invalid, defined |-> FALSE, mde |-> {}, power |-> {}]

LabelRow(curve, reachable, ok) ==
  LET headline == curve[HeadlineEdge]
      reaching == {w \in Shares : curve[w] >= PassMark} IN
  CASE ~ok -> NoRow
    [] ok /\ ~reachable -> [status |-> Undetermined, defined |-> FALSE, mde |-> {}, power |-> {headline}]
    [] OTHER -> [status |-> IF headline < PassMark THEN Underpowered ELSE Fine,
                 defined |-> TRUE,
                 mde |-> IF reaching = {} THEN {} ELSE {Min(reaching)},
                 power |-> {headline}]

BeyondSweep(label) == label.defined /\ label.mde = {}
Detectable(label, edge) == \E w \in label.mde : w <= edge

(* check_row(): the combinations that fail the build. *)
RowProblem(label) ==
  \/ BeyondSweep(label) /\ label.status # Underpowered
  \/ label.status \in {Invalid, Undetermined} /\ label.defined
  \/ label.status = Invalid /\ label.power # {}
  \/ label.status = Undetermined /\ label.power = {}

GameweekRow(r, g) ==
  LET weakest == LowestPower(r, AtCount(g)) IN
  [gameweeks |-> g, setting |-> weakest,
   label |-> LabelRow(Curve(r, weakest), ThresholdReachable(g), Valid(r, g))]

MdeByGameweeks(r) == {GameweekRow(r, g) : g \in GameweekSweep}

(* The smallest valid count's row; none where no count is valid. *)
MdeReading(r) ==
  LET valid == {g \in GameweekSweep : Valid(r, g)} IN
  IF valid = {} THEN {} ELSE {GameweekRow(r, Min(valid))}

(* Mutant: the count is found on its strongest setting. *)
NeededAtTheStrongest(r, edge) ==
  LET enough == {g \in GameweekSweep : Valid(r, g) /\ \E s \in AtCount(g) : r[<<s, edge>>] >= PassMark} IN
  IF enough = {} THEN {} ELSE {Min(enough)}

GameweeksNeeded(r, edge) ==
  LET enough == {g \in GameweekSweep : Valid(r, g) /\ \A s \in AtCount(g) : r[<<s, edge>>] >= PassMark} IN
  IF enough = {} THEN {} ELSE {Min(enough)}

(* Mutant: every setting's power is listed. *)
ManagersUngated(r) == {[setting |-> s, power |-> {r[<<s, HeadlineEdge>>]}] : s \in Settings}

ManagerSweep(r) ==
  {[setting |-> s, power |-> IF Valid(r, Gameweeks[s]) THEN {r[<<s, HeadlineEdge>>]} ELSE {}] : s \in Settings}

PowerTable(r) ==
  {[setting |-> s, share |-> w, power |-> IF Valid(r, Gameweeks[s]) THEN {r[<<s, w>>]} ELSE {}] :
     s \in Settings, w \in Shares}

--------------------------------------------------------------------------------
(* The probe *)

(* Mutant: only the probe's own cells are asked for. *)
ProbeCellsSaved == ProbeSettings \X {NullShare} \subseteq saved

(* probe_report() refuses a missing probe or no-edge cell. *)
ProbeReadable == (ProbeSettings \cup Settings) \X {NullShare} \subseteq saved

(* The largest shock at which a count stays within the limit. *)
ShockLevel(r, g) ==
  [gameweeks |-> g,
   level |->
     CASE ~Valid(r, g) -> {}
       [] Valid(r, g) /\ g \notin ProbeGameweeks -> {LargestSweptShock}
       [] OTHER -> IF FalseAlarmOk(r, {s \in ProbeSettings : Gameweeks[s] = g})
                     THEN {ProbeShock} ELSE {LargestSweptShock}]

ShockLevels(r) == {ShockLevel(r, g) : g \in GameweekSweep}

OverLimit(r) == {s \in ProbeSettings : Firings(r, s) > Limit}

ProbeReport(r) == [levels |-> ShockLevels(r), over |-> OverLimit(r)]

--------------------------------------------------------------------------------
(* The report *)

(* build_report() refuses a partial grid and a missing probe cell.  The     *)
(* sensitivity cell is not asked for: without it the power is NaN.          *)
Reportable == ProbeReadable /\ Settings \X Shares \subseteq saved

SensitivityFailed(r) ==
  IF <<Corner, SensitivityShare>> \in DOMAIN r
    THEN r[<<Corner, SensitivityShare>>] < SensitivityMinPower
    ELSE TRUE

BuildReport(r) ==
  LET failed == SensitivityFailed(r) IN
  [failedChecks |-> {s \in Settings : Firings(r, s) > Limit},
   noTable |-> failed,
   table |-> IF failed THEN {} ELSE PowerTable(r),
   mde |-> IF failed THEN {} ELSE MdeReading(r),
   rows |-> IF failed THEN {} ELSE MdeByGameweeks(r),
   needed |-> IF failed THEN {}
              ELSE {[edge |-> e, count |-> GameweeksNeeded(r, e)] : e \in {HeadlineEdge, SecondaryEdge}},
   managers |-> IF failed THEN {} ELSE ManagerSweep(r),
   probe |-> ProbeReport(r)]

--------------------------------------------------------------------------------
LabInit ==
  /\ tally \in Tallies
  /\ saved \in SUBSET GridCells
  /\ lab = Idle
  /\ probe = NoFile
  /\ report = NoFile

(* Off the lab's registration each command refuses before it reads or      *)
(* writes; this is the lab on it.                                           *)

(* A sitting of the runner saves one more cell (PowerLab). *)
SaveCell(c) ==
  /\ saved' = saved \cup {c}
  /\ UNCHANGED <<tally, lab, probe, report>>

(* The `probe` command, its cells complete: the text is made, then the file *)
(* is opened for writing, which empties it.                                 *)
StartProbe ==
  /\ lab = Idle
  /\ ProbeReadable
  /\ lab' = [command |-> "probe", text |-> ProbeReport(Results)]
  /\ probe' = Torn
  /\ UNCHANGED <<tally, saved, report>>

(* The `report` command.  A row problem fails the build before any write.   *)
StartReport ==
  /\ lab = Idle
  /\ Reportable
  /\ \A row \in MdeByGameweeks(Results) : ~RowProblem(row.label)
  /\ lab' = [command |-> "report", text |-> BuildReport(Results)]
  /\ report' = Torn
  /\ UNCHANGED <<tally, saved, probe>>

FinishFile ==
  /\ \/ lab.command = "probe" /\ probe' = Whole(lab.text) /\ UNCHANGED report
     \/ lab.command = "report" /\ report' = Whole(lab.text) /\ UNCHANGED probe
  /\ lab' = Idle
  /\ UNCHANGED <<tally, saved>>

(* The command dies: its file stays as it is, truncated. *)
LabDies ==
  /\ lab # Idle
  /\ lab' = Idle
  /\ UNCHANGED <<tally, saved, probe, report>>

LabNext ==
  \/ \E c \in GridCells \ saved : SaveCell(c)
  \/ StartProbe \/ StartReport \/ FinishFile \/ LabDies

--------------------------------------------------------------------------------
Files == {"none", "torn", "whole"}

LabTypeOK ==
  /\ tally \in Tallies
  /\ saved \subseteq GridCells
  /\ lab.command \in {"none", "probe", "report"}
  /\ probe.state \in Files /\ report.state \in Files
  /\ lab.command = "probe" => probe = Torn
  /\ lab.command = "report" => report = Torn

(* Counts a whole report would have to keep quiet about. *)
FailedCounts == {g \in GameweekSweep : \E s \in AtCount(g) : tally[<<s, NullShare>>] > Limit}

(* At a count whose verdict procedure failed its false-alarm check, nothing *)
(* in the report claims power: not its rows, the table, the managers, the   *)
(* headline MDE or the gameweeks needed (power_report.py:15-17, D-GATE).    *)
NoPowerWhereInvalid ==
  IsWhole(report) =>
    /\ \A row \in report.text.rows \cup report.text.mde :
         row.gameweeks \in FailedCounts => row.label.power = {} /\ row.label.mde = {}
    /\ \A e \in report.text.table \cup report.text.managers :
         Gameweeks[e.setting] \in FailedCounts => e.power = {}
    /\ \A n \in report.text.needed : n.count \cap FailedCounts = {}

(* The report's answers on the headline edge rest on one another, whatever  *)
(* shape the simulated curves have: a row it calls fine is detectable there,*)
(* the power of a row is the least its count's managers show, the count     *)
(* needed is the smallest whose row shows the pass mark                     *)
(* (power_report.py:8-14, :216-218, :243-247); and cells saved after it     *)
(* could not change a word of it.                                           *)
AnswersAgree ==
  IsWhole(report) /\ ~report.text.noTable =>
    LET powered == {row \in report.text.rows : \E p \in row.label.power : p >= PassMark} IN
      /\ report.text = BuildReport(tally)
      /\ \A row \in report.text.rows : row.label.status = Fine => Detectable(row.label, HeadlineEdge)
      /\ \A row \in report.text.rows, e \in report.text.managers :
           Gameweeks[e.setting] = row.gameweeks => \A p \in row.label.power, q \in e.power : p <= q
      /\ [edge |-> HeadlineEdge,
          count |-> IF powered = {} THEN {} ELSE {Min({row.gameweeks : row \in powered})}] \in report.text.needed

================================================================================

----------------------------- MODULE Stage5Verdict -----------------------------
(***************************************************************************)
(* operational/starting_xi_stage5.py, verdict() and check_feed(), with     *)
(* decisions/starting_xi/realism.py: one run checks the registration and   *)
(* the pin, builds the feed, reads the lab's levels and writes REALISM.md, *)
(* FEED.csv and VERDICT.md in turn, beside a lab that may still be at      *)
(* work, while pin.json may move and any run may die.                      *)
(*                                                                         *)
(* The feed is a function of the pin (the rule draws nothing, the snapshot *)
(* is fixed), so FEED.csv is the pin it was built from.                    *)
(***************************************************************************)
EXTENDS LabReport

CONSTANTS Pins,            \* what pin.json may hold
          HasIdentity,     \* the pins that name their warehouse build
          HasGameweeks,    \* the pins whose snapshot holds every verdict gameweek
          Spread           \* the realism check's measurement of a pin

ASSUME PinsAssumption ==
  /\ HasIdentity \subseteq Pins /\ HasGameweeks \subseteq Pins
  /\ Spread \in [Pins -> Nat]

VARIABLES registered, \* code and PRE_REGISTRATION.yaml agree
          pinFile,    \* pin.json
          run,        \* where the verdict run is
          pin,        \* the pin it read
          levels,     \* the lab's levels it read
          realism,    \* REALISM.md
          feed,       \* FEED.csv
          verdict,    \* VERDICT.md
          before      \* the three files as the run found them (history)

files == <<realism, feed, verdict>>
runVars == <<registered, pinFile, run, pin, levels, files, before>>
vars == <<labVars, runVars>>

NoPin == "no pin"

(* label_rows(): the real spread against each swept count's own level. *)
LabelRows(spread, shockLevels) ==
  {[gameweeks |-> l.gameweeks, level |-> l.level,
    applies |-> {spread <= points : points \in l.level}] : l \in shockLevels}

RealismText(p, l) == [spread |-> Spread[p], rows |-> LabelRows(Spread[p], l)]

(* The header's pin, the feed's hash and the realism file's. *)
VerdictText(p) == [pin |-> p, feed |-> p, realism |-> realism.text]

--------------------------------------------------------------------------------
Init ==
  /\ LabInit
  /\ registered \in BOOLEAN
  /\ pinFile \in Pins
  /\ run = "idle"
  /\ pin = NoPin
  /\ levels = {}
  /\ realism = NoFile /\ feed = NoFile /\ verdict = NoFile
  /\ before = files

(* What the run held in memory is gone. *)
Leave(how) ==
  /\ run' = how
  /\ pin' = NoPin
  /\ levels' = {}
  /\ before' = IF how = "refused" THEN before ELSE files'

Start ==
  /\ run \in {"idle", "refused"}
  /\ run' = IF registered THEN "pin" ELSE "refused"
  /\ before' = files
  /\ UNCHANGED <<registered, pinFile, pin, levels, files>>

(* The pin is read once, and must name its build. *)
ReadPin ==
  /\ run = "pin"
  /\ IF pinFile \in HasIdentity
       THEN pin' = pinFile /\ run' = "load" /\ UNCHANGED <<levels, before>>
       ELSE Leave("refused")
  /\ UNCHANGED <<registered, pinFile, files>>

(* Mutant: the load takes the pin again. *)
LoadAgain ==
  /\ run = "load"
  /\ IF pin \in HasGameweeks
       THEN pin' = pinFile /\ run' = "measure" /\ UNCHANGED <<levels, before>>
       ELSE Leave("refused")
  /\ UNCHANGED <<registered, pinFile, files>>

(* The header and the feed are loaded through that pin; the verdict's       *)
(* gameweeks must all be there.                                             *)
Load ==
  /\ run = "load"
  /\ IF pin \in HasGameweeks
       THEN run' = "measure" /\ UNCHANGED <<pin, levels, before>>
       ELSE Leave("refused")
  /\ UNCHANGED <<registered, pinFile, files>>

(* Mutant: the feed is written as soon as it is built. *)
MeasureAfterFeed ==
  /\ run = "measure"
  /\ feed' = Whole(pin)
  /\ UNCHANGED <<registered, pinFile, realism, verdict>>
  /\ IF ProbeReadable
       THEN levels' = ShockLevels(Results) /\ run' = "realism" /\ UNCHANGED <<pin, before>>
       ELSE Leave("refused")

(* The lab's cells are read for their levels: refused while one is missing. *)
Measure ==
  /\ run = "measure"
  /\ UNCHANGED <<registered, pinFile, files>>
  /\ IF ProbeReadable
       THEN levels' = ShockLevels(Results) /\ run' = "realism" /\ UNCHANGED <<pin, before>>
       ELSE Leave("refused")

OpenRealism ==
  /\ run = "realism"
  /\ realism' = Torn
  /\ run' = "realism open"
  /\ UNCHANGED <<registered, pinFile, pin, levels, feed, verdict, before>>

CloseRealism ==
  /\ run = "realism open"
  /\ realism' = Whole(RealismText(pin, levels))
  /\ run' = "feed"
  /\ UNCHANGED <<registered, pinFile, pin, levels, feed, verdict, before>>

OpenFeed ==
  /\ run = "feed"
  /\ feed' = Torn
  /\ run' = "feed open"
  /\ UNCHANGED <<registered, pinFile, pin, levels, realism, verdict, before>>

CloseFeed ==
  /\ run = "feed open"
  /\ feed' = Whole(pin)
  /\ run' = "verdict"
  /\ UNCHANGED <<registered, pinFile, pin, levels, realism, verdict, before>>

OpenVerdict ==
  /\ run = "verdict"
  /\ verdict' = Torn
  /\ run' = "verdict open"
  /\ UNCHANGED <<registered, pinFile, pin, levels, realism, feed, before>>

(* REALISM.md is read back for its hash. *)
CloseVerdict ==
  /\ run = "verdict open"
  /\ verdict' = Whole(VerdictText(pin))
  /\ UNCHANGED <<registered, pinFile, realism, feed>>
  /\ Leave("idle")

RunDies ==
  /\ run \notin {"idle", "refused"}
  /\ UNCHANGED <<registered, pinFile, files>>
  /\ Leave("idle")

(* Another pin is committed. *)
MovePin ==
  /\ pinFile' \in Pins \ {pinFile}
  /\ UNCHANGED <<registered, run, pin, levels, files, before>>

RunNext ==
  \/ Start \/ ReadPin \/ Load \/ Measure
  \/ OpenRealism \/ CloseRealism \/ OpenFeed \/ CloseFeed \/ OpenVerdict \/ CloseVerdict
  \/ RunDies \/ MovePin

Next == (LabNext /\ UNCHANGED runVars) \/ (RunNext /\ UNCHANGED labVars)

Spec == Init /\ [][Next]_vars

--------------------------------------------------------------------------------
TypeOK ==
  /\ LabTypeOK
  /\ registered \in BOOLEAN /\ pinFile \in Pins /\ pin \in Pins \cup {NoPin}
  /\ run \in {"idle", "refused", "pin", "load", "measure", "realism", "realism open",
              "feed", "feed open", "verdict", "verdict open"}
  /\ \A f \in {realism.state, feed.state, verdict.state} : f \in Files

(* A written verdict rests on one pin, whatever pin.json did meanwhile: the *)
(* pin of its header gave the feed and the realism file it records, names   *)
(* its build and holds the verdict's gameweeks (starting_xi_stage5.py:14-16,*)
(* D-N12).                                                                  *)
VerdictOnOnePin ==
  IsWhole(verdict) =>
    LET p == verdict.text.pin IN
      /\ p \in HasIdentity \cap HasGameweeks
      /\ verdict.text.feed = p
      /\ verdict.text.realism = RealismText(p, ShockLevels(tally))

(* A refused run leaves the files as it found them: every check and every   *)
(* reading that can fail comes before the first write                       *)
(* (starting_xi_stage5.py:79, :361-362).                                    *)
RefusedRunsLeaveNoTrace == run = "refused" => files = before

(* PROBE.md, REPORT.md and REALISM.md name the same level for a count,      *)
(* though each is read off the cells saved by then (starting_xi_stage5.py:  *)
(* 14-16, realism.py:19-21).                                                *)
LevelsIn(rows) == {[gameweeks |-> l.gameweeks, level |-> l.level] : l \in rows}
FilesAgreeOnLevels ==
  \A a, b \in {LevelsIn(probe.text.levels) : x \in IF IsWhole(probe) THEN {1} ELSE {}}
              \cup {LevelsIn(report.text.probe.levels) : x \in IF IsWhole(report) THEN {1} ELSE {}}
              \cup {LevelsIn(realism.text.rows) : x \in IF IsWhole(realism) THEN {1} ELSE {}} :
    a = b
================================================================================

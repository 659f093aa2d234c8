---------------------------- MODULE MCFamilyVerdict ----------------------------
(***************************************************************************)
(* Four groups at 59 resamples and a family-wise alpha of 2/5: p-values on *)
(* both sides of the thresholds 1/10, 2/15, 1/5 and 2/5, near and far.     *)
(***************************************************************************)
EXTENDS FamilyVerdict

Full(tails) == {[tail |-> k, valid |-> 59] : k \in tails}

MCSizes == [k \in Procedures |-> IF k = "starting_xi" THEN {4} ELSE 0..3]

(* One group may have no manager, and one may vanish from some resamples. *)
MCBootstraps ==
  [k \in Procedures |->
     IF k = "starting_xi"
       THEN Full({0, 3, 8, 11, 14}) \cup {[tail |-> 0, valid |-> 0]}
       ELSE Full({0, 5, 7, 11, 17, 23}) \cup {[tail |-> 0, valid |-> 0], [tail |-> 3, valid |-> 31]}]

MCRebootstraps == {[tail |-> k, valid |-> 119] : k \in {2, 9, 13}}
================================================================================

------------------------------ MODULE MCPowerLab ------------------------------
(* Small instances of PowerLab for TLC. *)
EXTENDS PowerLab

(* Cells of different sizes: with two workers and a budget of six, two      *)
(* small ones fit after one another and the large one only at the start.    *)
MCShare == [c \in Cells |-> IF c % 2 = 1 THEN 1 ELSE 3]
================================================================================

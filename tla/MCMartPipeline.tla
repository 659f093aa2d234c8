---------------------------- MODULE MCMartPipeline ----------------------------
(* Small instances of MartPipeline for TLC. *)
EXTENDS MartPipeline, TLC

(* Runners are interchangeable, and so are loaders; used by safety runs only. *)
Symmetry == Permutations(Runners) \cup Permutations(Loaders)
================================================================================

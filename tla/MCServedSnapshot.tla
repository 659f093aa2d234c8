--------------------------- MODULE MCServedSnapshot ---------------------------
(* Small instances of ServedSnapshot for TLC. *)
EXTENDS ServedSnapshot, TLC

(* Refreshers are interchangeable, and so are studies. *)
Symmetry == Permutations(Refreshers) \cup Permutations(Studies)
================================================================================

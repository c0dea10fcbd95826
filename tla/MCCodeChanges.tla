--------------------------- MODULE MCCodeChanges ---------------------------
(* CodeChanges on small instances. *)
EXTENDS CodeChanges, TLC

CONSTANTS q1, q2, f1, f2

(* Requests are interchangeable, and so are the findings. *)
Symmetry == Permutations(Requests) \cup Permutations(Findings)
=============================================================================

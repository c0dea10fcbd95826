---------------------------- MODULE MCRevisions ----------------------------
(* Revisions on small instances. *)
EXTENDS Revisions, TLC

CONSTANTS r1, r2

(* Requests are interchangeable. *)
Symmetry == Permutations(Requests)
=============================================================================

---------------------------- MODULE MCUserTwins ----------------------------
(* User Twins on small instances. *)
EXTENDS UserTwins, TLC

CONSTANTS t1, t2, r1, r2, survey

(* Twins are interchangeable, and so are requests. *)
Symmetry == Permutations(Twins) \union Permutations(Requests)
=============================================================================

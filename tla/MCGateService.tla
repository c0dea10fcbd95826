---------------------------- MODULE MCGateService ----------------------------
(* GateService on small instances. *)
EXTENDS GateService, TLC

(* Requests are interchangeable; safety runs only. *)
Symmetry == Permutations(Requests)
=============================================================================

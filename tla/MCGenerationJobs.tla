-------------------------- MODULE MCGenerationJobs --------------------------
(* Generation jobs on small instances. *)
EXTENDS GenerationJobs

CONSTANTS o1, o2, k1, k2, q
=============================================================================

-------------------------- MODULE MCProposalLedger --------------------------
(* The evidence ledger on small instances. *)
EXTENDS ProposalLedger, TLC

CONSTANTS c1, c2, p1, p2

Symmetric == Permutations({c1, c2}) \union Permutations({p1, p2})
=============================================================================

------------------------------ MODULE MCSignIns ------------------------------
(* Sign-ins on small instances: a tab sends its refreshes and its logins   *)
(* and logouts as two senders.                                             *)
EXTENDS SignIns, TLC

CONSTANTS p1, p2, t1, t2, r1, r2, g1, g2

RefresherOf == t1 :> r1 @@ t2 :> r2

GateOf == t1 :> g1 @@ t2 :> g2
Alike == Permutations({p1, p2})
=============================================================================

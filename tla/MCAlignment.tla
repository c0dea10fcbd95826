---------------------------- MODULE MCAlignment ----------------------------
(* Bounds on the versions of each section, for the configurations.         *)
EXTENDS Alignment, TLC

TwiceThenThrice == [k \in Section |-> IF k \in {"brief", "team"} THEN 2 ELSE 3]
=============================================================================

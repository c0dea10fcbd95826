--------------------------- MODULE ApprovalRounds ---------------------------
(***************************************************************************)
(* What a gate service promises, without gates, events or transactions: at *)
(* any time one artifact version is before the owner, in one status, and a *)
(* number of attempts is left.  Opening a round spends an attempt, only an *)
(* approval gives them back, and after CANCELLED or PAUSED_NEEDS_HUMAN no  *)
(* round opens again.                                                      *)
(***************************************************************************)
EXTENDS Naturals

CONSTANT Limit         \* attempts an approval gives

VARIABLES current,     \* the latest version; 0 when there is none
          artifact,    \* the version before the owner; 0 before the first
          status,      \* "NONE" before the first round
          left         \* attempts left

vars == <<current, artifact, status, left>>

Init == current = 0 /\ artifact = 0 /\ status = "NONE" /\ left = Limit

Supersedable == status \notin {"NONE", "STALE", "CANCELLED"}

Become(from, to) == status \in from /\ status' = to

(* A new version; the service may supersede the round with it. *)
Edit ==
  /\ current' = current + 1
  /\ \/ status' = status
     \/ Supersedable /\ status' = "STALE"
  /\ UNCHANGED <<artifact, left>>

Supersede ==
  /\ Supersedable
  /\ status' = "STALE"
  /\ UNCHANGED <<current, artifact, left>>

Open ==
  /\ status \notin {"CANCELLED", "PAUSED_NEEDS_HUMAN"}
  /\ left > 0
  /\ artifact' \in (1..current) \ {artifact}
  /\ status' = "PENDING_APPROVAL"
  /\ left' = left - 1
  /\ UNCHANGED current

Approve ==
  /\ Become({"PENDING_APPROVAL"}, "APPROVED")
  /\ left' = Limit
  /\ UNCHANGED <<current, artifact>>

(* A revision asked for in the last attempt needs a human. *)
RequestRevision ==
  /\ Become({"PENDING_APPROVAL"},
            IF left = 0 THEN "PAUSED_NEEDS_HUMAN" ELSE "REVISION_REQUESTED")
  /\ UNCHANGED <<current, artifact, left>>

OtherDecision ==
  /\ \/ Become({"PENDING_APPROVAL"}, "REJECTED")
     \/ Become({"PENDING_APPROVAL"}, "PAUSED")
     \/ Become({"PAUSED"}, "PENDING_APPROVAL")
     \/ Become({"PENDING_APPROVAL", "PAUSED", "REVISION_REQUESTED",
                "PAUSED_NEEDS_HUMAN"}, "CANCELLED")
  /\ UNCHANGED <<current, artifact, left>>

Next == Edit \/ Supersede \/ Open \/ Approve \/ RequestRevision \/ OtherDecision

Spec == Init /\ [][Next]_vars
=============================================================================

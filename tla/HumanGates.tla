----------------------------- MODULE HumanGates -----------------------------
(***************************************************************************)
(* The human gate of orchestwin.workflow: an immutable record bound to one *)
(* exact artifact version, moved by owner actions and by the system when   *)
(* its artifact is superseded.  Every operator here is a pure function of  *)
(* the code; GateService gives them a database and concurrent requests.    *)
(*                                                                         *)
(* An artifact reference (project, type, id, version, hash) is its version *)
(* number: within one project and one gate type the number determines the  *)
(* rest.  Owner, project and the reason's text are left out: a service     *)
(* acts on gates it queried by that owner, and of a reason only its        *)
(* presence matters.                                                       *)
(***************************************************************************)
EXTENDS Naturals, Sequences

CONSTANT IterationLimit   \* DEFAULT_GATE_ITERATION_LIMIT

ASSUME LimitAssumption == IterationLimit \in Nat \ {0}

Statuses == {"DRAFT", "PENDING_APPROVAL", "APPROVED", "REJECTED",
             "REVISION_REQUESTED", "PAUSED", "CANCELLED", "STALE",
             "PAUSED_NEEDS_HUMAN"}

Actions == {"SUBMIT", "APPROVE", "REJECT", "REQUEST_REVISION", "PAUSE",
            "RESUME", "CANCEL"}

EventKinds == Actions \cup {"ARTIFACT_SUPERSEDED"}

NoStatus == "NONE"        \* a None status: no resume status, no target

Gate == [artifact: Nat, iteration: Nat, max: Nat, status: Statuses,
         resume: Statuses \cup {NoStatus}, seq: Nat, updated: Nat]

Event == [gate: Nat, seq: Nat, kind: EventKinds, previous: Statuses,
          resulting: Statuses, artifact: Nat, at: Nat]

-----------------------------------------------------------------------------

(***************************************************************************)
(* Owner actions.                                                          *)
(***************************************************************************)

TargetStatus(gate, action) ==
  CASE gate.status = "DRAFT" /\ action = "SUBMIT"            -> "PENDING_APPROVAL"
    [] gate.status = "PENDING_APPROVAL" /\ action = "APPROVE" -> "APPROVED"
    [] gate.status = "PENDING_APPROVAL" /\ action = "REJECT"  -> "REJECTED"
    [] gate.status = "PENDING_APPROVAL" /\ action = "REQUEST_REVISION" ->
         IF gate.iteration >= gate.max THEN "PAUSED_NEEDS_HUMAN"
                                       ELSE "REVISION_REQUESTED"
    [] gate.status \in {"DRAFT", "PENDING_APPROVAL"} /\ action = "PAUSE" -> "PAUSED"
    [] gate.status = "PAUSED" /\ action = "RESUME"            -> gate.resume
    [] /\ action = "CANCEL"
       /\ gate.status \in {"DRAFT", "PENDING_APPROVAL", "PAUSED",
                           "REVISION_REQUESTED", "PAUSED_NEEDS_HUMAN"} -> "CANCELLED"
    [] OTHER -> NoStatus

ResumeStatus(gate, action) == IF action = "PAUSE" THEN gate.status ELSE NoStatus

ReasonMissing(action, reason) == action \in {"REJECT", "REQUEST_REVISION"} /\ ~reason

(* Mutant: the timestamp may go back. *)
AppliesOutOfOrder(gate, action, reason, at) ==
  ~ReasonMissing(action, reason) /\ TargetStatus(gate, action) # NoStatus

(* transition_human_gate applies: the timestamp does not go back, a reason *)
(* is there where one is needed, and the state machine has the arrow.      *)
Applies(gate, action, reason, at) ==
  /\ at >= gate.updated
  /\ ~ReasonMissing(action, reason)
  /\ TargetStatus(gate, action) # NoStatus

Transitioned(gate, action, at) ==
  [gate EXCEPT !.status = TargetStatus(gate, action),
               !.resume = ResumeStatus(gate, action),
               !.seq = gate.seq + 1,
               !.updated = at]

TransitionEvent(gate, action, at) ==
  [gate |-> gate.iteration, seq |-> gate.seq + 1, kind |-> action,
   previous |-> gate.status, resulting |-> TargetStatus(gate, action),
   artifact |-> gate.artifact, at |-> at]

-----------------------------------------------------------------------------

(***************************************************************************)
(* The system event: another artifact has become current.                  *)
(***************************************************************************)

StaleApplies(gate, artifact, at) ==
  /\ at >= gate.updated
  /\ artifact # gate.artifact
  /\ gate.status \notin {"STALE", "CANCELLED"}

Staled(gate, at) ==
  [gate EXCEPT !.status = "STALE", !.resume = NoStatus,
               !.seq = gate.seq + 1, !.updated = at]

StaleEvent(gate, artifact, at) ==
  [gate |-> gate.iteration, seq |-> gate.seq + 1, kind |-> "ARTIFACT_SUPERSEDED",
   previous |-> gate.status, resulting |-> "STALE", artifact |-> artifact, at |-> at]

-----------------------------------------------------------------------------

(***************************************************************************)
(* The attempt budget and the creation of the next gate.                   *)
(***************************************************************************)

DraftGate(artifact, iteration, max, at) ==
  [artifact |-> artifact, iteration |-> iteration, max |-> max, status |-> "DRAFT",
   resume |-> NoStatus, seq |-> 0, updated |-> at]

(* Mutant: superseding an approved gate loses its approval. *)
ApprovalSeenNow(latest, log) == latest.status = "APPROVED"

(* The gate was approved, now or before it was superseded. *)
ApprovalSeen(latest, log) ==
  \/ latest.status = "APPROVED"
  \/ \E i \in DOMAIN log : /\ log[i].gate = latest.iteration
                           /\ log[i].kind = "ARTIFACT_SUPERSEDED"
                           /\ log[i].previous = "APPROVED"

NextIteration(latest) == latest.iteration + 1

(* Mutant: every gate renews the cap. *)
NextMaxAlways(latest, log) == NextIteration(latest) + IterationLimit - 1

NextMax(latest, log) ==
  IF ApprovalSeen(latest, log) THEN NextIteration(latest) + IterationLimit - 1
                               ELSE latest.max

(* Mutant: one attempt too many. *)
BudgetSpentLate(latest, log) ==
  ~ApprovalSeen(latest, log) /\ NextIteration(latest) > latest.max + 1

(* next_human_gate_iteration returns None *)
BudgetSpent(latest, log) ==
  ~ApprovalSeen(latest, log) /\ NextIteration(latest) > latest.max
=============================================================================

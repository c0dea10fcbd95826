------------------------------ MODULE GateFlow ------------------------------
(***************************************************************************)
(* gate_flow.py: what a submission and a decision do to the latest gate of *)
(* one project and type, as operators.  GateService runs them in the       *)
(* transactions of the five services, DesignGate beside a second writer.   *)
(*                                                                         *)
(* gate is the latest gate as the transaction read it, NoGate when there   *)
(* is none; artifact is the current version of the service.                *)
(***************************************************************************)
EXTENDS HumanGates

NoGate == DraftGate(0, 0, 0, 0)

LatestOf(gates) == IF gates = <<>> THEN NoGate ELSE gates[Len(gates)]

-----------------------------------------------------------------------------

(***************************************************************************)
(* submit_artifact                                                         *)
(***************************************************************************)

Blocked(gate) == gate.status \in {"CANCELLED", "PAUSED_NEEDS_HUMAN"}

(* Mutant: only a gate that is still pending is superseded. *)
NeedsStalingPending(gate) == gate.status = "PENDING_APPROVAL"

NeedsStaling(gate) == gate # NoGate /\ gate.status # "STALE"

(* GATE_BLOCKED, or TRANSITION_REJECTED by a timestamp that went back. *)
SubmissionRefused(gate, artifact, at) ==
  /\ gate.artifact # artifact
  /\ \/ Blocked(gate)
     \/ ~Blocked(gate) /\ NeedsStaling(gate) /\ at < gate.updated

(* The submission goes on: the gate of the previous artifact is stale. *)
SubmissionProceeds(gate, artifact, at) ==
  /\ gate.artifact # artifact
  /\ ~Blocked(gate)
  /\ NeedsStaling(gate) => StaleApplies(gate, artifact, at)

Superseded(gate, at) == IF NeedsStaling(gate) THEN Staled(gate, at) ELSE gate

WithLatestSuperseded(gates, gate, at) ==
  IF NeedsStaling(gate) THEN [gates EXCEPT ![Len(gates)] = Superseded(gate, at)]
                        ELSE gates

WithSupersession(log, gate, artifact, at) ==
  IF NeedsStaling(gate) THEN Append(log, StaleEvent(gate, artifact, at)) ELSE log

(* ITERATION_LIMIT_REACHED; log holds the supersession already. *)
OverLimit(gate, log, at) == gate # NoGate /\ BudgetSpent(Superseded(gate, at), log)

NextDraft(gate, log, artifact, at) ==
  IF gate = NoGate
  THEN DraftGate(artifact, 1, IterationLimit, at)
  ELSE DraftGate(artifact, NextIteration(gate), NextMax(Superseded(gate, at), log), at)

-----------------------------------------------------------------------------

(***************************************************************************)
(* decide_current                                                          *)
(***************************************************************************)

(* The decision concerns an artifact that is no longer the gate's. *)
DecisionSupersedes(gate, artifact, at) ==
  gate # NoGate /\ gate.artifact # artifact /\ StaleApplies(gate, artifact, at)

(* Mutant: the decision does not compare the gate with the current version. *)
DecisionAppliesToLatest(gate, artifact, action, reason, at) ==
  gate # NoGate /\ Applies(gate, action, reason, at)

DecisionApplies(gate, artifact, action, reason, at) ==
  gate # NoGate /\ gate.artifact = artifact /\ Applies(gate, action, reason, at)

-----------------------------------------------------------------------------

(***************************************************************************)
(* What gates and events together say, for the specifications that use     *)
(* them as state.                                                          *)
(***************************************************************************)

ApprovedOnce(log, g) == \E i \in DOMAIN log : log[i].gate = g /\ log[i].kind = "APPROVE"

(* Event i follows the one before it in the history of its gate. *)
EventFollows(log, i) ==
  IF log[i].seq = 1
  THEN log[i].previous = "DRAFT"
  ELSE \E j \in 1..(i - 1) : /\ log[j].gate = log[i].gate
                             /\ log[j].seq = log[i].seq - 1
                             /\ log[j].resulting = log[i].previous
                             /\ log[j].at <= log[i].at

(* Event i is the last of gate g and leads to its status. *)
EventExplains(log, i, gate, g) ==
  /\ log[i].gate = g
  /\ log[i].seq = gate.seq
  /\ log[i].resulting = gate.status
  /\ log[i].at = gate.updated
=============================================================================

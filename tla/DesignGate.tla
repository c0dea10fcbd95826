----------------------------- MODULE DesignGate -----------------------------
(***************************************************************************)
(* The Design gate has two writers.  LocalDesignGateService submits and    *)
(* decides the Design package by the shared protocol of GateFlow;          *)
(* SqlAlchemyWorkflowInputsService saves, submits and decides a prototype  *)
(* that the owner provides, by rules of its own.  Both write the gates of  *)
(* the same project and type.                                              *)
(*                                                                         *)
(* Requests are atomic here: both writers hold the project row while they  *)
(* look at a gate and move it, and GateService has the rest of their       *)
(* races.  Time stands still: the prototype's writer reads its clock under *)
(* the row, so nothing it does is refused for its timestamp.  A request    *)
(* that is refused changes nothing and is no step.                         *)
(***************************************************************************)
EXTENDS GateFlow

CONSTANTS MaxArtifacts,     \* bound: design artifacts created
          MaxDefinitions,   \* bound: versions of the Definition
          Decisions         \* the decisions the owner takes on a package

ASSUME DesignAssumption ==
  /\ MaxArtifacts \in Nat
  /\ MaxDefinitions \in Nat
  /\ Decisions \in SUBSET (Actions \ {"SUBMIT"})

VARIABLES definition,   \* the current version of the Definition
          chain,        \* is it ready: approved, and built on what is approved
          artifacts,    \* packages and prototypes, in order of creation
          gates,        \* the Design gates in order of iteration
          log           \* human_gate_events

vars == <<definition, chain, artifacts, gates, log>>

Latest == LatestOf(gates)

(* The last artifact of these sources; 0 when there is none. *)
CurrentOf(sources) ==
  LET made == {i \in DOMAIN artifacts : artifacts[i].source \in sources}
  IN  IF made = {} THEN 0 ELSE CHOOSE i \in made : \A j \in made : j <= i

CurrentPackage == CurrentOf({"package", "incomplete"})

CurrentPrototype == CurrentOf({"prototype"})

(* The unique constraint of human_gates on the artifact version. *)
HasGate(artifact) == \E i \in DOMAIN gates : gates[i].artifact = artifact

Init ==
  /\ definition = 0
  /\ chain = "none"
  /\ artifacts = <<>>
  /\ gates = <<>>
  /\ log = <<>>

-----------------------------------------------------------------------------

(***************************************************************************)
(* The sections before the Design.                                         *)
(***************************************************************************)

NewDefinition ==
  /\ definition < MaxDefinitions
  /\ definition' = definition + 1
  /\ chain' = "open"
  /\ UNCHANGED <<artifacts, gates, log>>

(* The owner approves the Definition; later something before it changes. *)
ChainMoves ==
  /\ \/ chain = "open"  /\ chain' = "ready"
     \/ chain = "ready" /\ chain' = "behind"
  /\ UNCHANGED <<definition, artifacts, gates, log>>

-----------------------------------------------------------------------------

(***************************************************************************)
(* The Design package.                                                     *)
(***************************************************************************)

AppendPackage ==
  /\ Len(artifacts) < MaxArtifacts
  /\ chain # "none"
  /\ \E source \in {"package", "incomplete"} :
       artifacts' = Append(artifacts, [source |-> source, on |-> definition])
  /\ UNCHANGED <<definition, chain, gates, log>>

PackageProceeds ==
  /\ CurrentPackage # 0
  /\ artifacts[CurrentPackage].source = "package"
  /\ SubmissionProceeds(Latest, CurrentPackage, 0)

LogAfterStaling == WithSupersession(log, Latest, CurrentPackage, 0)

(* ITERATION_LIMIT_REACHED *)
SubmitPackageOverLimit ==
  /\ PackageProceeds
  /\ OverLimit(Latest, LogAfterStaling, 0)
  /\ gates' = WithLatestSuperseded(gates, Latest, 0)
  /\ log' = LogAfterStaling
  /\ UNCHANGED <<definition, chain, artifacts>>

SubmitPackage ==
  LET draft == NextDraft(Latest, LogAfterStaling, CurrentPackage, 0) IN
  /\ PackageProceeds
  /\ ~OverLimit(Latest, LogAfterStaling, 0)
  /\ ~HasGate(CurrentPackage)
  /\ gates' = Append(WithLatestSuperseded(gates, Latest, 0), Transitioned(draft, "SUBMIT", 0))
  /\ log' = Append(LogAfterStaling, TransitionEvent(draft, "SUBMIT", 0))
  /\ UNCHANGED <<definition, chain, artifacts>>

(* A decision on the package supersedes whatever gate is the latest, the   *)
(* prototype's too.                                                        *)
DecidePackageStale ==
  /\ CurrentPackage # 0
  /\ DecisionSupersedes(Latest, CurrentPackage, 0)
  /\ gates' = [gates EXCEPT ![Len(gates)] = Staled(Latest, 0)]
  /\ log' = Append(log, StaleEvent(Latest, CurrentPackage, 0))
  /\ UNCHANGED <<definition, chain, artifacts>>

DecidePackage ==
  \E action \in Decisions :
    /\ CurrentPackage # 0
    /\ DecisionApplies(Latest, CurrentPackage, action, TRUE, 0)
    /\ gates' = [gates EXCEPT ![Len(gates)] = Transitioned(Latest, action, 0)]
    /\ log' = Append(log, TransitionEvent(Latest, action, 0))
    /\ UNCHANGED <<definition, chain, artifacts>>

-----------------------------------------------------------------------------

(***************************************************************************)
(* The provided prototype.                                                 *)
(***************************************************************************)

SavePrototype ==
  LET saved == Len(artifacts) + 1
      stales == Latest # NoGate /\ StaleApplies(Latest, saved, 0) IN
  /\ Len(artifacts) < MaxArtifacts
  /\ chain = "ready"
  /\ artifacts' = Append(artifacts, [source |-> "prototype", on |-> definition])
  /\ gates' = IF stales THEN [gates EXCEPT ![Len(gates)] = Staled(Latest, 0)] ELSE gates
  /\ log' = IF stales THEN Append(log, StaleEvent(Latest, saved, 0)) ELSE log
  /\ UNCHANGED <<definition, chain>>

(* Mutant: the Definition may have moved on since the prototype was saved. *)
PrototypeReadyOnAny == CurrentPrototype # 0 /\ chain = "ready"

PrototypeReady ==
  /\ CurrentPrototype # 0
  /\ chain = "ready"
  /\ artifacts[CurrentPrototype].on = definition

ProvidedDraft ==
  IF Latest = NoGate
  THEN DraftGate(CurrentPrototype, 1, 3, 0)
  ELSE DraftGate(CurrentPrototype, NextIteration(Latest), NextMax(Latest, log), 0)

(* Mutant: no budget. *)
SubmitPrototypeUnlimited ==
  /\ PrototypeReady
  /\ ~HasGate(CurrentPrototype)
  /\ gates' = Append(gates, Transitioned(ProvidedDraft, "SUBMIT", 0))
  /\ log' = Append(log, TransitionEvent(ProvidedDraft, "SUBMIT", 0))
  /\ UNCHANGED <<definition, chain, artifacts>>

(* Neither Blocked nor NeedsStaling is asked of the latest gate. *)
SubmitPrototype ==
  /\ PrototypeReady
  /\ ~HasGate(CurrentPrototype)
  /\ Latest # NoGate => ~BudgetSpent(Latest, log)
  /\ gates' = Append(gates, Transitioned(ProvidedDraft, "SUBMIT", 0))
  /\ log' = Append(log, TransitionEvent(ProvidedDraft, "SUBMIT", 0))
  /\ UNCHANGED <<definition, chain, artifacts>>

DecidePrototype ==
  \E action \in {"APPROVE", "REJECT", "REQUEST_REVISION"} :
    /\ PrototypeReady
    /\ DecisionApplies(Latest, CurrentPrototype, action, TRUE, 0)
    /\ gates' = [gates EXCEPT ![Len(gates)] = Transitioned(Latest, action, 0)]
    /\ log' = Append(log, TransitionEvent(Latest, action, 0))
    /\ UNCHANGED <<definition, chain, artifacts>>

-----------------------------------------------------------------------------

Next ==
  \/ NewDefinition
  \/ ChainMoves
  \/ AppendPackage
  \/ SubmitPackageOverLimit
  \/ SubmitPackage
  \/ DecidePackageStale
  \/ DecidePackage
  \/ SavePrototype
  \/ SubmitPrototype
  \/ DecidePrototype

Spec == Init /\ [][Next]_vars

-----------------------------------------------------------------------------

(***************************************************************************)
(* Properties.                                                             *)
(***************************************************************************)

(* The cap on attempts is one for both writers: a gate beyond the limit    *)
(* owes its place to an approval among the gates before it, although the   *)
(* prototype's service takes its next attempt from a gate it leaves alive. *)
BudgetRespected ==
  \A g \in DOMAIN gates :
    g > IterationLimit =>
      \E h \in (g - IterationLimit)..(g - 1) : ApprovedOnce(log, h)

(* After PAUSED_NEEDS_HUMAN no gate opens again, by either writer and not  *)
(* even when a saved prototype or a decision has made that gate stale.     *)
WaitsForHumanForGood ==
  \A i \in DOMAIN log : log[i].resulting = "PAUSED_NEEDS_HUMAN" => log[i].gate = Len(gates)

(* An approval falls on the current artifact of its writer, and one of a   *)
(* prototype on the approved Definition it was made for.                   *)
ApprovesCurrentDesign ==
  [][\A g \in DOMAIN gates' :
       /\ gates'[g].status = "APPROVED"
       /\ g \in DOMAIN gates => gates[g].status # "APPROVED"
       => \/ gates'[g].artifact = CurrentPackage'
          \/ /\ gates'[g].artifact = CurrentPrototype'
             /\ artifacts[gates'[g].artifact].on = definition
             /\ chain = "ready"]_vars
=============================================================================

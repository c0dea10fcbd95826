---------------------- MODULE DesignAndAlignment_proofs ----------------------
(***************************************************************************)
(* Theorems about the two specifications beside GateService that submit    *)
(* and decide: DesignGate, with its two writers, and Alignment, which      *)
(* walks the gates of the sections behind.                                 *)
(*                                                                         *)
(* DesignGate: the first attempt of a prototype has three attempts by a    *)
(* number of its own in the code, those of a package                       *)
(* DEFAULT_GATE_ITERATION_LIMIT; what counts attempts is proved for a      *)
(* limit of 3.                                                             *)
(*                                                                         *)
(* Alignment: SectionsInv and ContentInv hold whoever gets in between;     *)
(* AloneInv is about an alignment that nobody gets in between.             *)
(***************************************************************************)
EXTENDS DesignGate, Alignment, GateFlow_proofs

Sources == {"package", "incomplete", "prototype"}

Artifact == [source: Sources, on: Nat]

-----------------------------------------------------------------------------

(***************************************************************************)
(* The current artifacts.                                                  *)
(***************************************************************************)

Made(list, sources) == {i \in DOMAIN list : list[i].source \in sources}

HasLast(list, sources) ==
  Made(list, sources) # {} =>
    \E i \in Made(list, sources) : \A j \in Made(list, sources) : j <= i

LEMMA AppendHasLast ==
  ASSUME NEW list \in Seq(Artifact), NEW x \in Artifact, NEW sources, HasLast(list, sources)
  PROVE  HasLast(Append(list, x), sources)
<1> DEFINE longer == Append(list, x)
           k      == Len(list) + 1
           made   == Made(list, sources)
           more   == Made(longer, sources)
<1>1. /\ Len(list) \in Nat /\ DOMAIN list = 1..Len(list)
      /\ DOMAIN longer = DOMAIN list \cup {k} /\ k \notin DOMAIN list /\ longer[k] = x
      /\ \A i \in DOMAIN list : longer[i] = list[i]
  BY AppendIs
<1> HIDE DEF longer
<1>2. more = IF x.source \in sources THEN made \cup {k} ELSE made
  BY <1>1 DEF Made
<1>3. \A i \in made : i \in Nat /\ i <= k
  BY <1>1 DEF Made
<1>4. made # {} => \E i \in made : \A j \in made : j <= i
  BY DEF HasLast
<1>5. k \in Nat BY <1>1
<1> HIDE DEF made, more, k
<1>6. more # {} => \E i \in more : \A j \in more : j <= i
  <2>1. CASE x.source \in sources
    <3>1. k \in more /\ \A j \in more : j <= k
      BY <1>2, <1>3, <1>5, <2>1
    <3> QED BY <3>1
  <2>2. CASE x.source \notin sources BY <1>2, <1>4, <2>2
  <2> QED BY <2>1, <2>2
<1> QED BY <1>6 DEF HasLast, more, longer

LEMMA CurrentOfType ==
  ASSUME artifacts \in Seq(Artifact), NEW sources, HasLast(artifacts, sources)
  PROVE  CurrentOf(sources) \in Nat
<1> DEFINE made == {i \in DOMAIN artifacts : artifacts[i].source \in sources}
<1>1. made = {} \/ \E i \in made : \A j \in made : j <= i
  BY DEF HasLast, Made
<1>2. \A i \in made : i \in Nat
  OBVIOUS
<1>3. CurrentOf(sources) = IF made = {} THEN 0 ELSE CHOOSE i \in made : \A j \in made : j <= i
  BY DEF CurrentOf
<1> HIDE DEF made
<1> QED BY <1>1, <1>2, <1>3

-----------------------------------------------------------------------------

(***************************************************************************)
(* Both writers keep one history of gates.                                 *)
(***************************************************************************)

Waits == {"PAUSED_NEEDS_HUMAN"}

PackageSources == {"package", "incomplete"}

DesignInv ==
  /\ definition \in Nat
  /\ artifacts \in Seq(Artifact)
  /\ HasLast(artifacts, PackageSources)
  /\ HasLast(artifacts, {"prototype"})
  /\ History(gates, log)
  /\ EndsAt(log, Waits, Len(gates))

LEMMA CurrentTypes ==
  ASSUME DesignInv
  PROVE  CurrentPackage \in Nat /\ CurrentPrototype \in Nat
BY CurrentOfType DEF DesignInv, PackageSources, CurrentPackage, CurrentPrototype

LEMMA LatestAt ==
  ASSUME DesignInv, Latest # NoGate
  PROVE  /\ Len(gates) \in DOMAIN gates /\ Len(gates) # 0 /\ gates # <<>>
         /\ Latest = gates[Len(gates)] /\ Latest \in Gate
         /\ Latest.iteration = Len(gates)
BY LatestIs DEF DesignInv, Latest

(* A gate that moves stays the last one.                                   *)
LEMMA MoveKeepsEnds ==
  ASSUME DesignInv, NEW n, n = Len(gates), NEW next \in Gate,
         NEW event \in Event, event.gate = n
  PROVE  EndsAt(Append(log, event), Waits, Len([gates EXCEPT ![n] = next]))
<1>1. Len([gates EXCEPT ![n] = next]) = n
  BY ReplaceLast DEF DesignInv, History
<1>2. EndsAt(Append(log, event), Waits, n)
  BY EventOfLast DEF DesignInv, History
<1> QED BY <1>1, <1>2

LEMMA DesignStaling ==
  ASSUME DesignInv, Latest # NoGate, NEW artifact \in Nat, StaleApplies(Latest, artifact, 0),
         gates' = [gates EXCEPT ![Len(gates)] = Staled(Latest, 0)],
         log' = Append(log, StaleEvent(Latest, artifact, 0))
  PROVE  History(gates', log') /\ EndsAt(log', Waits, Len(gates'))
<1>1. 0 \in Nat /\ Latest \in Gate /\ Latest.iteration = Len(gates)
  BY LatestAt
<1>2. History(gates', log')
  BY <1>1, StalingKeepsHistory DEF DesignInv, Latest
<1>3. Staled(Latest, 0) \in Gate /\ StaleEvent(Latest, artifact, 0) \in Event
  BY <1>1, StaledType
<1>4. StaleEvent(Latest, artifact, 0).gate = Len(gates)
  BY <1>1 DEF StaleEvent
<1>5. EndsAt(log', Waits, Len(gates'))
  BY <1>3, <1>4, MoveKeepsEnds
<1> QED BY <1>2, <1>5

LEMMA DesignDecision ==
  ASSUME DesignInv, Latest # NoGate, NEW action \in Actions, NEW reason,
         Applies(Latest, action, reason, 0),
         gates' = [gates EXCEPT ![Len(gates)] = Transitioned(Latest, action, 0)],
         log' = Append(log, TransitionEvent(Latest, action, 0))
  PROVE  History(gates', log') /\ EndsAt(log', Waits, Len(gates'))
<1>1. 0 \in Nat /\ Latest \in Gate /\ Latest.iteration = Len(gates)
  BY LatestAt
<1>2. History(gates', log')
  BY <1>1, DecisionKeepsHistory DEF DesignInv, Latest
<1>3. Transitioned(Latest, action, 0) \in Gate /\ TransitionEvent(Latest, action, 0) \in Event
  BY <1>1, TransitionedType DEF Applies
<1>4. TransitionEvent(Latest, action, 0).gate = Len(gates)
  BY <1>1 DEF TransitionEvent
<1>5. EndsAt(log', Waits, Len(gates'))
  BY <1>3, <1>4, MoveKeepsEnds
<1> QED BY <1>2, <1>5

(* A submission ends nothing.                                              *)
LEMMA DesignSubmission ==
  ASSUME NEW gates1, NEW log1, log1 \in Seq(Event), EndsAt(log1, Waits, Len(gates1)),
         \A i \in DOMAIN log1 :
           log1[i].gate = Len(gates1) => log1[i].resulting # "PAUSED_NEEDS_HUMAN",
         NEW draft \in Gate, draft.status = "DRAFT", NEW m
  PROVE  EndsAt(Append(log1, TransitionEvent(draft, "SUBMIT", 0)), Waits, m)
<1> DEFINE event == TransitionEvent(draft, "SUBMIT", 0)
<1>1. TargetStatus(draft, "SUBMIT") = "PENDING_APPROVAL" /\ "SUBMIT" \in Actions /\ 0 \in Nat
  BY SubmittedDraft DEF Actions
<1>2. event \in Event
  BY <1>1, TransitionedType DEF NoStatus
<1>3. event.resulting \notin Waits
  BY <1>1 DEF TransitionEvent, Waits
<1> HIDE DEF event
<1>4. EndsAt(Append(log1, event), Waits, m)
  BY <1>2, <1>3, EventOfNext DEF Waits
<1> QED BY <1>4 DEF event

(* The package's submission.                                               *)
LEMMA PackageRead ==
  ASSUME DesignInv, PackageProceeds
  PROVE  /\ CurrentPackage \in Nat /\ 0 \in Nat /\ Latest = LatestOf(gates)
         /\ History(gates, log)
         /\ EndsAt(log, Waits, Len(gates))
         /\ SubmissionProceeds(Latest, CurrentPackage, 0)
         /\ LogAfterStaling = WithSupersession(log, Latest, CurrentPackage, 0)
BY CurrentTypes DEF PackageProceeds, DesignInv, Latest, LogAfterStaling

LEMMA PackageOverLimitKeeps ==
  ASSUME DesignInv, SubmitPackageOverLimit
  PROVE  History(gates', log') /\ EndsAt(log', Waits, Len(gates'))
<1> DEFINE gate == Latest
           seen == CurrentPackage
<1>1. /\ gates' = WithLatestSuperseded(gates, gate, 0)
      /\ log' = WithSupersession(log, gate, seen, 0)
      /\ PackageProceeds
  BY DEF SubmitPackageOverLimit, LogAfterStaling
<1>2. /\ seen \in Nat /\ 0 \in Nat /\ gate = LatestOf(gates) /\ History(gates, log)
      /\ EndsAt(log, Waits, Len(gates)) /\ SubmissionProceeds(gate, seen, 0)
  BY <1>1, PackageRead
<1> HIDE DEF gate, seen
<1>3. History(gates', log') /\ Len(gates') = Len(gates)
  BY <1>1, <1>2, SupersessionKeepsHistory
<1>4. EndsAt(log', Waits, Len(gates))
  BY <1>1, <1>2, SupersessionKeepsEnds
<1> QED BY <1>3, <1>4

LEMMA PackageKeeps ==
  ASSUME DesignInv, SubmitPackage
  PROVE  History(gates', log') /\ EndsAt(log', Waits, Len(gates'))
<1> DEFINE gate   == Latest
           seen   == CurrentPackage
           gates1 == WithLatestSuperseded(gates, gate, 0)
           log1   == WithSupersession(log, gate, seen, 0)
           draft  == NextDraft(gate, log1, seen, 0)
           m      == Len(gates')
<1>1. /\ gates' = Append(gates1, Transitioned(draft, "SUBMIT", 0))
      /\ log' = Append(log1, TransitionEvent(draft, "SUBMIT", 0))
      /\ PackageProceeds /\ ~OverLimit(gate, log1, 0)
  BY DEF SubmitPackage, LogAfterStaling
<1>2. /\ seen \in Nat /\ 0 \in Nat /\ gate = LatestOf(gates) /\ History(gates, log)
      /\ EndsAt(log, Waits, Len(gates)) /\ SubmissionProceeds(gate, seen, 0)
  BY <1>1, PackageRead
<1>3. draft.status = "DRAFT"
  BY DEF NextDraft, DraftGate
<1> HIDE DEF gate, seen
<1>4. History(gates', log')
  BY <1>1, <1>2, SubmissionKeepsHistory
<1>5. Len(gates1) = Len(gates) /\ History(gates1, log1)
  BY <1>1, <1>2, SupersessionKeepsHistory
<1>6. EndsAt(log1, Waits, Len(gates1))
  BY <1>2, <1>5, SupersessionKeepsEnds
<1>7. ASSUME NEW i \in DOMAIN log1, log1[i].gate = Len(gates1)
      PROVE  log1[i].resulting # "PAUSED_NEEDS_HUMAN"
  BY <1>1, <1>2, <1>5, <1>7, SubmissionAfterNoEnd
<1>8. draft \in Gate
  <2>1. gate \in Gate BY <1>2, LatestOfType DEF History
  <2> QED BY <1>2, <2>1, NextDraftType
<1>9. log1 \in Seq(Event)
  BY <1>5 DEF History
<1> HIDE DEF gates1, log1, draft, m
<1>10. EndsAt(Append(log1, TransitionEvent(draft, "SUBMIT", 0)), Waits, m)
  BY <1>3, <1>6, <1>7, <1>8, <1>9, DesignSubmission
<1> QED BY <1>1, <1>4, <1>10 DEF m

(* The prototype's submission: it opens behind a gate that it leaves.      *)
LEMMA PrototypeKeeps ==
  ASSUME IterationLimit = 3, DesignInv, SubmitPrototype
  PROVE  History(gates', log') /\ EndsAt(log', Waits, Len(gates'))
<1> DEFINE n     == Len(gates)
           seen  == CurrentPrototype
           draft == ProvidedDraft
           m     == Len(gates')
           max   == IF Latest = NoGate THEN 3 ELSE NextMax(Latest, log)
<1>1. /\ gates' = Append(gates, Transitioned(draft, "SUBMIT", 0))
      /\ log' = Append(log, TransitionEvent(draft, "SUBMIT", 0))
      /\ Latest # NoGate => ~BudgetSpent(Latest, log)
  BY DEF SubmitPrototype
<1>2. /\ seen \in Nat /\ 0 \in Nat /\ History(gates, log) /\ n \in Nat
      /\ EndsAt(log, Waits, n) /\ log \in Seq(Event)
  BY CurrentTypes DEF DesignInv, History
<1>3. Latest = NoGate => n = 0
  BY <1>2, LatestIs DEF Latest
<1>4. Latest # NoGate => n # 0 /\ Latest = gates[n] /\ Latest.iteration = n
  BY LatestAt
<1>5. draft = DraftGate(seen, n + 1, max, 0)
  <2>1. CASE Latest = NoGate BY <1>3, <2>1 DEF ProvidedDraft
  <2>2. CASE Latest # NoGate BY <1>4, <2>2 DEF ProvidedDraft, NextIteration
  <2> QED BY <2>1, <2>2
<1>6. /\ max \in Nat
      /\ \/ n = 0 /\ max = IterationLimit
         \/ n # 0 /\ ApprovalSeen(gates[n], log) /\ max = n + IterationLimit
         \/ n # 0 /\ ~ApprovalSeen(gates[n], log) /\ max = gates[n].max /\ n + 1 <= max
  <2>1. CASE Latest = NoGate BY <1>3, <2>1
  <2>2. CASE Latest # NoGate
    <3>1. n # 0 /\ ~BudgetSpent(gates[n], log) /\ max = NextMax(gates[n], log)
      BY <1>1, <1>4, <2>2
    <3> HIDE DEF max, n
    <3> QED BY <1>2, <3>1, NextCap DEF n
  <2> QED BY <2>1, <2>2
<1> HIDE DEF max, draft, seen
<1>7. History(gates', log')
  BY <1>1, <1>2, <1>5, <1>6, DraftKeepsHistory
<1>8. draft.status = "DRAFT" /\ draft \in Gate
  <2>1. n + 1 \in Nat BY <1>2
  <2>2. draft \in Gate BY <1>2, <1>5, <1>6, <2>1, DraftGateType
  <2> QED BY <1>5, <2>2 DEF DraftGate
<1>9. ASSUME NEW i \in DOMAIN log, log[i].gate = n, log[i].resulting = "PAUSED_NEEDS_HUMAN"
      PROVE  FALSE
  <2>1. n \in DOMAIN gates /\ BudgetSpent(gates[n], log)
    BY <1>2, <1>9, HumanIsLast
  <2>2. Latest # NoGate BY <1>2, <1>3, <2>1
  <2> QED BY <1>1, <1>4, <2>1, <2>2
<1> HIDE DEF m
<1>10. EndsAt(log', Waits, m)
  BY <1>1, <1>2, <1>8, <1>9, DesignSubmission
<1> QED BY <1>7, <1>10 DEF m

-----------------------------------------------------------------------------

(***************************************************************************)
(* The invariant, and what it says.                                        *)
(***************************************************************************)

LEMMA ArtifactsGrow ==
  ASSUME DesignInv, NEW source \in Sources,
         artifacts' = Append(artifacts, [source |-> source, on |-> definition])
  PROVE  /\ artifacts' \in Seq(Artifact)
         /\ HasLast(artifacts', PackageSources) /\ HasLast(artifacts', {"prototype"})
<1>1. [source |-> source, on |-> definition] \in Artifact
  BY DEF DesignInv, Artifact
<1> QED BY <1>1, AppendIs, AppendHasLast DEF DesignInv

LEMMA StepKeepsDesign ==
  ASSUME IterationLimit = 3, DesignInv, [Next]_vars
  PROVE  DesignInv'
<1>1. CASE UNCHANGED <<artifacts, gates, log>> /\ definition' \in Nat
  BY <1>1 DEF DesignInv
<1>2. CASE AppendPackage
  <2>1. UNCHANGED <<definition, gates, log>>
    BY <1>2 DEF AppendPackage
  <2>2. PICK source \in {"package", "incomplete"} :
          artifacts' = Append(artifacts, [source |-> source, on |-> definition])
    BY <1>2 DEF AppendPackage
  <2>3. source \in Sources BY DEF Sources
  <2> QED BY <2>1, <2>2, <2>3, ArtifactsGrow DEF DesignInv
<1>3. CASE SavePrototype
  <2> DEFINE saved == Len(artifacts) + 1
  <2>1. /\ artifacts' = Append(artifacts, [source |-> "prototype", on |-> definition])
        /\ definition' = definition
    BY <1>3 DEF SavePrototype
  <2>2. "prototype" \in Sources BY DEF Sources
  <2>3. /\ artifacts' \in Seq(Artifact)
        /\ HasLast(artifacts', PackageSources) /\ HasLast(artifacts', {"prototype"})
    BY <2>1, <2>2, ArtifactsGrow
  <2>4. saved \in Nat BY DEF DesignInv
  <2>5. History(gates', log') /\ EndsAt(log', Waits, Len(gates'))
    <3>1. CASE Latest # NoGate /\ StaleApplies(Latest, saved, 0)
      <4>1. /\ gates' = [gates EXCEPT ![Len(gates)] = Staled(Latest, 0)]
            /\ log' = Append(log, StaleEvent(Latest, saved, 0))
        BY <1>3, <3>1 DEF SavePrototype
      <4> QED BY <2>4, <3>1, <4>1, DesignStaling
    <3>2. CASE ~(Latest # NoGate /\ StaleApplies(Latest, saved, 0))
      BY <1>3, <3>2 DEF SavePrototype, DesignInv
    <3> QED BY <3>1, <3>2
  <2> QED BY <2>1, <2>3, <2>5 DEF DesignInv
<1>4. CASE /\ UNCHANGED <<definition, artifacts>>
           /\ History(gates', log') /\ EndsAt(log', Waits, Len(gates'))
  BY <1>4 DEF DesignInv
<1>5. ASSUME SubmitPackageOverLimit \/ SubmitPackage \/ SubmitPrototype PROVE DesignInv'
  <2>1. UNCHANGED <<definition, artifacts>>
    BY <1>5 DEF SubmitPackageOverLimit, SubmitPackage, SubmitPrototype
  <2> QED BY <1>4, <1>5, <2>1, PackageOverLimitKeeps, PackageKeeps, PrototypeKeeps
<1>6. ASSUME DecidePackageStale PROVE DesignInv'
  <2>1. /\ UNCHANGED <<definition, artifacts>> /\ CurrentPackage \in Nat
        /\ Latest # NoGate /\ StaleApplies(Latest, CurrentPackage, 0)
        /\ gates' = [gates EXCEPT ![Len(gates)] = Staled(Latest, 0)]
        /\ log' = Append(log, StaleEvent(Latest, CurrentPackage, 0))
    BY <1>6, CurrentTypes DEF DecidePackageStale, DecisionSupersedes
  <2> QED BY <1>4, <2>1, DesignStaling
<1>7. ASSUME DecidePackage \/ DecidePrototype PROVE DesignInv'
  <2>1. ASSUME NEW action \in Actions, DecisionApplies(Latest, CurrentPackage, action, TRUE, 0)
               \/ DecisionApplies(Latest, CurrentPrototype, action, TRUE, 0)
        PROVE  Latest # NoGate /\ Applies(Latest, action, TRUE, 0)
    BY <2>1 DEF DecisionApplies
  <2>2. /\ UNCHANGED <<definition, artifacts>>
        /\ \E action \in Actions :
             /\ \/ DecisionApplies(Latest, CurrentPackage, action, TRUE, 0)
                \/ DecisionApplies(Latest, CurrentPrototype, action, TRUE, 0)
             /\ gates' = [gates EXCEPT ![Len(gates)] = Transitioned(Latest, action, 0)]
             /\ log' = Append(log, TransitionEvent(Latest, action, 0))
    <3>1. CASE DecidePackage
      BY <3>1, DesignAssumption DEF DecidePackage
    <3>2. CASE DecidePrototype
      <4>1. {"APPROVE", "REJECT", "REQUEST_REVISION"} \subseteq Actions BY DEF Actions
      <4> QED BY <3>2, <4>1 DEF DecidePrototype
    <3> QED BY <1>7, <3>1, <3>2
  <2> QED BY <1>4, <2>1, <2>2, DesignDecision
<1>8. ASSUME NewDefinition \/ ChainMoves \/ UNCHANGED vars PROVE DesignInv'
  <2>1. UNCHANGED <<artifacts, gates, log>> /\ definition' \in Nat
    BY <1>8 DEF NewDefinition, ChainMoves, vars, DesignInv
  <2> QED BY <1>1, <2>1
<1> QED BY <1>2, <1>3, <1>5, <1>6, <1>7, <1>8 DEF Next

LEMMA DesignHolds == ASSUME IterationLimit = 3 PROVE Spec => []DesignInv
<1>1. Init => DesignInv
  <2> SUFFICES ASSUME Init PROVE DesignInv
    OBVIOUS
  <2>1. artifacts = <<>> /\ gates = <<>> /\ log = <<>> /\ definition = 0
    BY DEF Init
  <2>2. History(gates, log) BY <2>1, NoHistory
  <2>3. artifacts \in Seq(Artifact) /\ DOMAIN artifacts = {} /\ DOMAIN log = {}
    BY <2>1
  <2> QED BY <2>1, <2>2, <2>3 DEF DesignInv, HasLast, Made, EndsAt
<1>2. DesignInv /\ [Next]_vars => DesignInv'
  BY StepKeepsDesign
<1> QED BY <1>1, <1>2, PTL DEF Spec

(* The cap on attempts is one for both writers of the Design gate: a gate  *)
(* beyond the limit owes its place to an approval among those before it.   *)
THEOREM BudgetIsOne == ASSUME IterationLimit = 3 PROVE Spec => []BudgetRespected
<1>1. DesignInv => BudgetRespected
  BY CapCounts DEF DesignInv, BudgetRespected
<1> QED BY <1>1, DesignHolds, PTL

(* After a request for a human no gate opens again, by either writer, also *)
(* when the gate that asked has been superseded in the meantime.           *)
THEOREM WaitsForGood == ASSUME IterationLimit = 3 PROVE Spec => []WaitsForHumanForGood
<1>1. DesignInv => WaitsForHumanForGood
  BY DEF DesignInv, EndsAt, Waits, WaitsForHumanForGood
<1> QED BY <1>1, DesignHolds, PTL

-----------------------------------------------------------------------------

(***************************************************************************)
(* What an approval falls on.                                              *)
(***************************************************************************)

(* Gate g becomes APPROVED.                                                *)
Approves(g) ==
  /\ g \in DOMAIN gates'
  /\ gates'[g].status = "APPROVED"
  /\ g \in DOMAIN gates => gates[g].status # "APPROVED"

LEMMA StalingApprovesNothing ==
  ASSUME DesignInv, NEW g, NEW gates2,
         gates2 = [gates EXCEPT ![Len(gates)] = Staled(Latest, 0)],
         g \in DOMAIN gates2, gates2[g].status = "APPROVED", Latest # NoGate
  PROVE  g \in DOMAIN gates /\ gates[g].status = "APPROVED"
<1>1. Latest \in Gate /\ 0 \in Nat
  BY LatestAt
<1>2. Staled(Latest, 0) \in Gate /\ Staled(Latest, 0).status = "STALE"
  BY <1>1, StaledType DEF Staled, Gate
<1>3. gates \in Seq(Gate) /\ DOMAIN gates2 = DOMAIN gates
  BY DEF DesignInv, History
<1>4. gates2[g] = IF g = Len(gates) THEN Staled(Latest, 0) ELSE gates[g]
  BY <1>2, <1>3
<1> QED BY <1>2, <1>3, <1>4

LEMMA OpeningApprovesNothing ==
  ASSUME NEW list \in Seq(Gate), NEW draft \in Gate, draft.status = "DRAFT", NEW g, NEW longer,
         longer = Append(list, Transitioned(draft, "SUBMIT", 0)),
         g \in DOMAIN longer, longer[g].status = "APPROVED"
  PROVE  g \in DOMAIN list /\ list[g].status = "APPROVED"
<1> DEFINE next == Transitioned(draft, "SUBMIT", 0)
<1>1. TargetStatus(draft, "SUBMIT") = "PENDING_APPROVAL" /\ "SUBMIT" \in Actions /\ 0 \in Nat
  BY SubmittedDraft DEF Actions
<1>2. next \in Gate /\ next.status = "PENDING_APPROVAL"
  BY <1>1, TransitionedType DEF NoStatus, Transitioned, Gate
<1> HIDE DEF next
<1>3. /\ DOMAIN longer = DOMAIN list \cup {Len(list) + 1} /\ longer[Len(list) + 1] = next
      /\ \A i \in DOMAIN list : longer[i] = list[i]
  BY <1>2, AppendIs DEF next
<1> QED BY <1>2, <1>3

(* A decision approves the latest gate, on the artifact that it decides.   *)
LEMMA DecisionApproves ==
  ASSUME DesignInv, NEW artifact, NEW action \in Actions,
         DecisionApplies(Latest, artifact, action, TRUE, 0),
         gates' = [gates EXCEPT ![Len(gates)] = Transitioned(Latest, action, 0)],
         NEW g, Approves(g)
  PROVE  gates'[g].artifact = artifact
<1>1. Latest # NoGate /\ Latest.artifact = artifact
  BY DEF DecisionApplies
<1>2. Latest \in Gate /\ Latest = gates[Len(gates)]
  BY <1>1, LatestAt
<1>3. gates \in Seq(Gate) /\ DOMAIN gates' = DOMAIN gates
  BY DEF DesignInv, History
<1>4. g \in DOMAIN gates /\ gates'[g] # gates[g]
  BY <1>3 DEF Approves
<1>5. g = Len(gates) /\ gates'[g] = Transitioned(Latest, action, 0)
  BY <1>3, <1>4
<1>6. Transitioned(Latest, action, 0).artifact = artifact
  BY <1>1, <1>2 DEF Transitioned, Gate
<1> QED BY <1>5, <1>6

LEMMA SubmissionApprovesNothing ==
  ASSUME IterationLimit = 3, DesignInv, SubmitPackageOverLimit \/ SubmitPackage \/ SubmitPrototype,
         NEW g
  PROVE  ~Approves(g)
<1> SUFFICES ASSUME Approves(g) PROVE FALSE
  OBVIOUS
<1>1. gates \in Seq(Gate) /\ 0 \in Nat
  BY DEF DesignInv, History
<1>2. ASSUME NEW list, list = WithLatestSuperseded(gates, Latest, 0),
             g \in DOMAIN list, list[g].status = "APPROVED"
      PROVE  FALSE
  <2>1. CASE NeedsStaling(Latest)
    <3>1. list = [gates EXCEPT ![Len(gates)] = Staled(Latest, 0)] /\ Latest # NoGate
      BY <1>2, <2>1 DEF WithLatestSuperseded, Superseded, NeedsStaling
    <3> QED BY <1>2, <3>1, StalingApprovesNothing DEF Approves
  <2>2. CASE ~NeedsStaling(Latest)
    BY <1>2, <2>2 DEF WithLatestSuperseded, Approves
  <2> QED BY <2>1, <2>2
<1>3. CASE SubmitPackageOverLimit
  <2>1. gates' = WithLatestSuperseded(gates, Latest, 0)
    BY <1>3 DEF SubmitPackageOverLimit
  <2> QED BY <1>2, <2>1 DEF Approves
<1>4. CASE SubmitPackage
  <2> DEFINE list  == WithLatestSuperseded(gates, Latest, 0)
             draft == NextDraft(Latest, LogAfterStaling, CurrentPackage, 0)
  <2>1. gates' = Append(list, Transitioned(draft, "SUBMIT", 0)) /\ PackageProceeds
    BY <1>4 DEF SubmitPackage
  <2>2. CurrentPackage \in Nat /\ Latest \in Gate /\ log \in Seq(Event)
    BY <1>1, CurrentTypes, LatestOfType DEF Latest, DesignInv, History
  <2>3. draft \in Gate /\ list \in Seq(Gate)
    BY <1>1, <2>2, NextDraftType, SupersessionType
  <2>4. draft.status = "DRAFT" BY DEF NextDraft, DraftGate
  <2> HIDE DEF list, draft
  <2>5. g \in DOMAIN list /\ list[g].status = "APPROVED"
    BY <2>1, <2>3, <2>4, OpeningApprovesNothing DEF Approves
  <2> QED BY <1>2, <2>5 DEF list
<1>5. CASE SubmitPrototype
  <2>1. gates' = Append(gates, Transitioned(ProvidedDraft, "SUBMIT", 0))
    BY <1>5 DEF SubmitPrototype
  <2>2. CurrentPrototype \in Nat /\ Latest \in Gate
    BY <1>1, CurrentTypes, LatestOfType DEF Latest
  <2>3. ProvidedDraft \in Gate
    <3>1. NextIteration(Latest) \in Nat /\ NextMax(Latest, log) \in Nat
      BY <2>2, NextMaxType
    <3> QED BY <1>1, <2>2, <3>1, DraftGateType DEF ProvidedDraft
  <2>4. ProvidedDraft.status = "DRAFT" BY DEF ProvidedDraft, DraftGate
  <2> QED BY <1>1, <2>1, <2>3, <2>4, OpeningApprovesNothing DEF Approves
<1> QED BY <1>3, <1>4, <1>5

(* An approval falls on the current artifact of its writer, and one of a   *)
(* prototype on the approved Definition that the prototype was made for.   *)
THEOREM ApprovalsAreOfTheCurrent == ASSUME IterationLimit = 3 PROVE Spec => ApprovesCurrentDesign
<1> DEFINE IsCurrent(g) == \/ gates'[g].artifact = CurrentPackage'
                           \/ /\ gates'[g].artifact = CurrentPrototype'
                              /\ artifacts[gates'[g].artifact].on = definition
                              /\ chain = "ready"
<1>1. ASSUME DesignInv, [Next]_vars, NEW g \in DOMAIN gates', Approves(g)
      PROVE  IsCurrent(g)
  <2>1. CASE UNCHANGED gates
    BY <1>1, <2>1 DEF Approves
  <2>2. ASSUME SubmitPackageOverLimit \/ SubmitPackage \/ SubmitPrototype PROVE FALSE
    BY <1>1, <2>2, SubmissionApprovesNothing
  <2>3. ASSUME SavePrototype \/ DecidePackageStale, ~UNCHANGED gates PROVE FALSE
    <3>1. gates' = [gates EXCEPT ![Len(gates)] = Staled(Latest, 0)] /\ Latest # NoGate
      BY <2>3 DEF SavePrototype, DecidePackageStale, DecisionSupersedes
    <3> QED BY <1>1, <3>1, StalingApprovesNothing DEF Approves
  <2>4. CASE DecidePackage
    <3>1. PICK action \in Decisions :
            /\ DecisionApplies(Latest, CurrentPackage, action, TRUE, 0)
            /\ gates' = [gates EXCEPT ![Len(gates)] = Transitioned(Latest, action, 0)]
      BY <2>4 DEF DecidePackage
    <3>2. action \in Actions BY DesignAssumption
    <3>3. gates'[g].artifact = CurrentPackage
      BY <1>1, <3>1, <3>2, DecisionApproves
    <3>4. CurrentPackage' = CurrentPackage
      BY <2>4 DEF DecidePackage, CurrentPackage, CurrentOf
    <3> QED BY <3>3, <3>4
  <2>5. CASE DecidePrototype
    <3>1. PICK action \in {"APPROVE", "REJECT", "REQUEST_REVISION"} :
            /\ DecisionApplies(Latest, CurrentPrototype, action, TRUE, 0)
            /\ gates' = [gates EXCEPT ![Len(gates)] = Transitioned(Latest, action, 0)]
      BY <2>5 DEF DecidePrototype
    <3>2. action \in Actions BY DEF Actions
    <3>3. gates'[g].artifact = CurrentPrototype
      BY <1>1, <3>1, <3>2, DecisionApproves
    <3>4. CurrentPrototype' = CurrentPrototype
      BY <2>5 DEF DecidePrototype, CurrentPrototype, CurrentOf
    <3>5. artifacts[CurrentPrototype].on = definition /\ chain = "ready"
      BY <2>5 DEF DecidePrototype, PrototypeReady
    <3> QED BY <3>3, <3>4, <3>5
  <2>6. ASSUME NewDefinition \/ ChainMoves \/ AppendPackage \/ UNCHANGED vars
        PROVE  UNCHANGED gates
    BY <2>6 DEF NewDefinition, ChainMoves, AppendPackage, vars
  <2> QED BY <1>1, <2>1, <2>2, <2>3, <2>4, <2>5, <2>6 DEF Next
<1>2. DesignInv /\ [Next]_vars
      => [\A g \in DOMAIN gates' :
            /\ gates'[g].status = "APPROVED"
            /\ g \in DOMAIN gates => gates[g].status # "APPROVED"
            => IsCurrent(g)]_vars
  BY <1>1 DEF Approves
<1> QED BY <1>2, DesignHolds, PTL DEF Spec, ApprovesCurrentDesign

-----------------------------------------------------------------------------

(***************************************************************************)
(* The invariant of the sections.                                          *)
(***************************************************************************)

Positions == {"idle", "section", "budget", "upstream", "realign", "submit", "decide"}

Later == Section \ {"brief"}

Request ==
  [pc: Positions, todo: Seq(Later), read: Nat, ready: BOOLEAN, alone: BOOLEAN,
   edited: SUBSET Section]

LinesOK ==
  /\ DOMAIN lines = Section
  /\ \A k \in Section : lines[k] \in Seq(Version(k)) /\ lines[k] # <<>>

GatesOK ==
  /\ gateOf \in [Section -> Gate] /\ past \in [Section -> Seq(Event)]
  /\ \A k \in Section : /\ gateOf[k].updated = 0 /\ gateOf[k].artifact \in 1..Cur(k)
                        /\ gateOf[k].resume # "APPROVED"

Change(k) == [base: 1..Cur(k), of: Parts(k)]

WaitingOK ==
  /\ DOMAIN pending = Section /\ \A k \in Section : pending[k] \subseteq Change(k)
  /\ updates \subseteq Twins

AlignOK == align \in Request /\ (align.pc # "idle" => align.todo # <<>>)

ApprovalsOK ==
  /\ approvals \in [Section -> SUBSET Nat]
  /\ \A k \in Section : approvals[k] \subseteq 1..Cur(k)

(* What a gate approves has been approved; the gate of an approved version *)
(* that is current still approves it.                                      *)
ApprovalsAgree ==
  \A k \in Section :
    /\ gateOf[k].status = "APPROVED" => gateOf[k].artifact \in approvals[k]
    /\ Cur(k) \in approvals[k] => Approved(k)

(* No anchor is ahead of the versions there are.                           *)
AnchorsKnown ==
  \A k \in Section : \A v \in 1..Cur(k) : \A u \in Anchors[k] : lines[k][v].on[u] \in 1..Cur(u)

(* The upstream version an alignment has read and found ready is approved. *)
ReadIsApproved ==
  align.pc = "realign" /\ Key \notin {"team", "twins"} =>
    /\ align.read \in 1..Cur(Source[Key])
    /\ align.ready => align.read \in approvals[Source[Key]]

StoredInv ==
  /\ LinesOK /\ GatesOK /\ WaitingOK /\ ApprovalsOK
  /\ ApprovalsAgree /\ AnchorsKnown /\ RestsOnApproved

SectionsInv == StoredInv /\ AlignOK /\ ReadIsApproved

(***************************************************************************)
(* The invariant of an alignment with nobody in between.                   *)
(***************************************************************************)

IsBehind(k) == Behind(SectionOf[k])

EarlierThan ==
  [brief |-> {}, team |-> {"brief"}, twins |-> {"brief", "team"},
   requirements |-> {"brief", "team", "twins"},
   design |-> {"brief", "team", "twins", "requirements"}]

EarlierFine == \A u \in EarlierThan[Key] : Approved(u) /\ ~IsBehind(u)

(* Until the section at work is re-anchored, what is left to do is what is *)
(* behind; then, what is behind is left to do after it.                    *)
TodoIsBehind ==
  /\ align.pc \in {"section", "budget", "upstream", "realign"} => ToAlign = align.todo
  /\ align.pc \in {"submit", "decide"} => ToAlign = Tail(align.todo)

KeyMayGo ==
  /\ align.pc \in {"budget", "upstream", "realign"} => ~SectionOf[Key].blocked
  /\ align.pc = "realign" /\ Key \notin {"team", "twins"} =>
       align.read = Cur(Source[Key]) /\ align.ready = UpstreamReady[Key]

KeyIsRealigned ==
  align.pc \in {"submit", "decide"} =>
    /\ EarlierFine
    /\ Current(Key).on = AnchoredTo(Key, Cur(Source[Key]))
    /\ align.pc = "submit" => gateOf[Key].status = "APPROVED" /\ gateOf[Key].artifact # Cur(Key)
    /\ align.pc = "decide" =>
         gateOf[Key].status = "PENDING_APPROVAL" /\ gateOf[Key].artifact = Cur(Key)

AloneInv == align.alone /\ align.pc # "idle" => TodoIsBehind /\ KeyMayGo /\ KeyIsRealigned
-----------------------------------------------------------------------------

(***************************************************************************)
(* The sections and their versions.                                        *)
(***************************************************************************)

LEMMA SectionFacts ==
  /\ Section = {"brief", "team", "twins", "requirements", "design"}
  /\ \A k \in Section : Anchors[k] \subseteq Section /\ k \notin Anchors[k]
  /\ \A k \in Later : /\ k \in Section /\ k # "brief"
                      /\ Source[k] \in Section /\ Source[k] # k /\ Source[k] \in Anchors[k]
  /\ \A k \in Later \ {"twins"} : Anchors[k] \ {Source[k]} \subseteq Anchors[Source[k]]
  /\ Anchors["brief"] = {} /\ Source["team"] = "brief" /\ Source["twins"] = "team"
  /\ Source["requirements"] = "twins" /\ Source["design"] = "requirements"
BY DEF Section, Later, Anchors, Source

LEMMA VersionFacts ==
  ASSUME LinesOK, NEW k \in Section
  PROVE  /\ Cur(k) \in Nat /\ Cur(k) >= 1 /\ DOMAIN lines[k] = 1..Cur(k)
         /\ \A v \in 1..Cur(k) : lines[k][v] \in Version(k)
         /\ Current(k) \in Version(k) /\ Current(k) = lines[k][Cur(k)]
<1>1. lines[k] \in Seq(Version(k)) /\ lines[k] # <<>>
  BY DEF LinesOK
<1> DEFINE s == lines[k]
<1> HIDE DEF s
<1>2. ASSUME s \in Seq(Version(k)), s # <<>>
      PROVE  /\ Len(s) \in Nat /\ Len(s) >= 1 /\ DOMAIN s = 1..Len(s)
             /\ \A v \in 1..Len(s) : s[v] \in Version(k)
  BY <1>2
<1>3. /\ Cur(k) \in Nat /\ Cur(k) >= 1 /\ DOMAIN s = 1..Cur(k)
      /\ \A v \in 1..Cur(k) : s[v] \in Version(k)
  BY <1>1, <1>2 DEF Cur, s
<1>4. Current(k) = lines[k][Cur(k)]
  BY DEF Current
<1> QED BY <1>3, <1>4 DEF s

(* The anchors a section gets from an upstream version that exists exist.  *)
LEMMA AnchoredToFacts ==
  ASSUME LinesOK, AnchorsKnown, NEW k \in Later, NEW v \in 1..Cur(Source[k])
  PROVE  /\ AnchoredTo(k, v) \in [Anchors[k] -> Nat]
         /\ AnchoredTo(k, v)[Source[k]] = v
         /\ \A u \in Anchors[k] : AnchoredTo(k, v)[u] \in 1..Cur(u)
<1>1. /\ k \in Section /\ Source[k] \in Section /\ Source[k] \in Anchors[k]
      /\ Anchors[k] \subseteq Section
      /\ k # "twins" => Anchors[k] \ {Source[k]} \subseteq Anchors[Source[k]]
  BY SectionFacts
<1>2. \A u \in Section : Cur(u) \in Nat /\ Cur(u) >= 1
  BY VersionFacts
<1>3. \A u \in Anchors[Source[k]] : lines[Source[k]][v].on[u] \in 1..Cur(u)
  BY <1>1 DEF AnchorsKnown
<1>4. \A u \in Anchors[k] :
        AnchoredTo(k, v)[u] = IF u = Source[k] THEN v
                              ELSE IF k = "twins" THEN Cur(u) ELSE lines[Source[k]][v].on[u]
  BY DEF AnchoredTo
<1>5. \A u \in Anchors[k] : AnchoredTo(k, v)[u] \in 1..Cur(u)
  BY <1>1, <1>2, <1>3, <1>4
<1>6. \A u \in Anchors[k] : AnchoredTo(k, v)[u] \in Nat
  BY <1>1, <1>2, <1>5
<1>7. AnchoredTo(k, v) = [u \in Anchors[k] |-> AnchoredTo(k, v)[u]]
  BY DEF AnchoredTo
<1>8. AnchoredTo(k, v) \in [Anchors[k] -> Nat]
  BY <1>6, <1>7
<1>9. AnchoredTo(k, v)[Source[k]] = v
  BY <1>1, <1>4
<1> QED BY <1>5, <1>8, <1>9

(* The current version of what is ready is approved.                       *)
LEMMA ReadyIsApproved ==
  ASSUME ApprovalsAgree, NEW k \in Later, UpstreamReady[k]
  PROVE  Approved(Source[k]) /\ Cur(Source[k]) \in approvals[Source[k]]
<1>1. Approved(Source[k])
  <2>1. k \in {"team", "twins", "requirements", "design"} BY SectionFacts DEF Later
  <2>2. CASE k = "team" BY <2>2, SectionFacts DEF UpstreamReady
  <2>3. CASE k = "twins"
    <3>1. TeamReady BY <2>3 DEF UpstreamReady
    <3> QED BY <3>1, <2>3, SectionFacts DEF TeamReady
  <2>4. CASE k = "requirements" BY <2>4, SectionFacts DEF UpstreamReady, TwinsReady
  <2>5. CASE k = "design" BY <2>5, SectionFacts DEF UpstreamReady
  <2> QED BY <2>1, <2>2, <2>3, <2>4, <2>5
<1>2. Source[k] \in Section
  BY SectionFacts
<1> QED BY <1>1, <1>2 DEF ApprovalsAgree, Approved

(* A version more.                                                         *)
LEMMA AppendedFacts ==
  ASSUME LinesOK, NEW k \in Section, NEW version \in Version(k), lines' = Appended(k, version)
  PROVE  /\ LinesOK'
         /\ Cur(k)' = Cur(k) + 1 /\ lines'[k][Cur(k) + 1] = version
         /\ \A v \in 1..Cur(k) : lines'[k][v] = lines[k][v]
         /\ \A j \in Section \ {k} : lines'[j] = lines[j] /\ Cur(j)' = Cur(j)
<1>1. lines' = [lines EXCEPT ![k] = Append(lines[k], version)]
  BY DEF Appended
<1>2. DOMAIN lines = Section /\ \A j \in Section : lines[j] \in Seq(Version(j)) /\ lines[j] # <<>>
  BY DEF LinesOK
<1>3. /\ DOMAIN lines' = Section /\ lines'[k] = Append(lines[k], version)
      /\ \A j \in Section \ {k} : lines'[j] = lines[j]
  BY <1>1, <1>2
<1>4. ASSUME NEW S, NEW s \in Seq(S), NEW x \in S
      PROVE  /\ Append(s, x) \in Seq(S) /\ Append(s, x) # <<>>
             /\ Len(Append(s, x)) = Len(s) + 1 /\ Append(s, x)[Len(s) + 1] = x
             /\ \A v \in 1..Len(s) : Append(s, x)[v] = s[v]
  OBVIOUS
<1>5. /\ lines'[k] \in Seq(Version(k)) /\ lines'[k] # <<>>
      /\ Len(lines'[k]) = Len(lines[k]) + 1 /\ lines'[k][Len(lines[k]) + 1] = version
      /\ \A v \in 1..Len(lines[k]) : lines'[k][v] = lines[k][v]
  BY <1>2, <1>3, <1>4
<1>6. LinesOK'
  BY <1>2, <1>3, <1>5 DEF LinesOK, Version
<1> QED BY <1>3, <1>5, <1>6 DEF Cur

-----------------------------------------------------------------------------

(***************************************************************************)
(* What is stored keeps its invariant.                                     *)
(***************************************************************************)

(* Versions are added, approvals too.                                      *)
Grows == \A j \in Section : Cur(j) <= Cur(j)' /\ approvals[j] \subseteq approvals'[j]

(* What waits after a step is based on versions there were before it.      *)
WaitingFits ==
  /\ DOMAIN pending' = Section /\ \A j \in Section : pending'[j] \subseteq Change(j)
  /\ updates' \subseteq Twins

LEMMA SameWaiting ==
  ASSUME StoredInv, UNCHANGED <<pending, updates>>
  PROVE  WaitingFits
BY DEF StoredInv, WaitingOK, WaitingFits

LEMMA WaitingStays ==
  ASSUME WaitingFits, \A j \in Section : Cur(j) \in Nat /\ Cur(j)' \in Nat /\ Cur(j) <= Cur(j)'
  PROVE  WaitingOK'
<1>1. \A j \in Section : 1..Cur(j) \subseteq 1..Cur(j)'
  OBVIOUS
<1>2. \A j \in Section : Change(j) \subseteq Change(j)'
  BY <1>1 DEF Change
<1> QED BY <1>2 DEF WaitingFits, WaitingOK

(* A version more, whatever the gates do beside it.                        *)
LEMMA LinesKeep ==
  ASSUME StoredInv, NEW k \in Section, NEW version \in Version(k),
         \A u \in Anchors[k] : version.on[u] \in 1..Cur(u),
         k # "brief" => version.on[Source[k]] \in approvals[Source[k]],
         lines' = Appended(k, version), WaitingFits,
         \A j \in Section : approvals[j] \subseteq approvals'[j],
         GatesOK', ApprovalsOK', ApprovalsAgree'
  PROVE  StoredInv' /\ Grows
<1>1. /\ LinesOK'
      /\ Cur(k)' = Cur(k) + 1 /\ lines'[k][Cur(k) + 1] = version
      /\ \A v \in 1..Cur(k) : lines'[k][v] = lines[k][v]
      /\ \A j \in Section \ {k} : lines'[j] = lines[j] /\ Cur(j)' = Cur(j)
  BY AppendedFacts DEF StoredInv
<1>2. \A j \in Section : Cur(j) \in Nat /\ Cur(j) >= 1
  BY VersionFacts DEF StoredInv
<1>3. \A j \in Section : Cur(j)' \in Nat /\ Cur(j) <= Cur(j)'
  BY <1>1, <1>2
<1>4. Grows
  BY <1>3 DEF Grows
<1>5. WaitingOK'
  BY <1>2, <1>3, WaitingStays
<1>6. \A j \in Section : \A v \in 1..Cur(j)' :
        \/ v \in 1..Cur(j) /\ lines'[j][v] = lines[j][v]
        \/ j = k /\ v = Cur(k) + 1 /\ lines'[j][v] = version
  BY <1>1, <1>2
<1>7. AnchorsKnown'
  <2>1. \A j \in Section : Anchors[j] \subseteq Section
    BY SectionFacts
  <2>2. \A j \in Section : \A v \in 1..Cur(j)' : \A u \in Anchors[j] :
          lines'[j][v].on[u] \in 1..Cur(u)
    BY <1>6 DEF StoredInv, AnchorsKnown
  <2> QED BY <1>2, <1>3, <2>1, <2>2 DEF AnchorsKnown
<1>8. RestsOnApproved'
  <2>1. \A j \in Section : DOMAIN lines[j] = 1..Cur(j)
    BY VersionFacts DEF StoredInv
  <2>2. \A j \in Section : DOMAIN lines'[j] = 1..Cur(j)'
    BY <1>1, VersionFacts DEF LinesOK, Cur
  <2>3. ASSUME NEW j \in Section \ {"brief"}, NEW v \in 1..Cur(j)'
        PROVE  lines'[j][v].on[Source[j]] \in approvals[Source[j]]
    <3>1. CASE v \in 1..Cur(j) /\ lines'[j][v] = lines[j][v]
      BY <2>1, <3>1 DEF StoredInv, RestsOnApproved
    <3>2. CASE j = k /\ lines'[j][v] = version
      BY <3>2
    <3> QED BY <1>6, <3>1, <3>2
  <2>4. \A j \in Section \ {"brief"} : Source[j] \in Section
    BY SectionFacts DEF Later
  <2> QED BY <2>2, <2>3, <2>4 DEF RestsOnApproved
<1> QED BY <1>1, <1>4, <1>5, <1>7, <1>8 DEF StoredInv

(* A version that its gate knows nothing of.                               *)
LEMMA VersionKeeps ==
  ASSUME StoredInv, NEW k \in Section, NEW version \in Version(k),
         \A u \in Anchors[k] : version.on[u] \in 1..Cur(u),
         k # "brief" => version.on[Source[k]] \in approvals[Source[k]],
         lines' = Appended(k, version), UNCHANGED <<gateOf, past, approvals>>, WaitingFits
  PROVE  StoredInv' /\ Grows
<1>1. /\ Cur(k)' = Cur(k) + 1
      /\ \A j \in Section \ {k} : Cur(j)' = Cur(j)
  BY AppendedFacts DEF StoredInv
<1>2. \A j \in Section : Cur(j) \in Nat /\ Cur(j) >= 1
  BY VersionFacts DEF StoredInv
<1>3. \A j \in Section : Cur(j)' \in Nat /\ Cur(j) <= Cur(j)'
  BY <1>1, <1>2
<1>4. GatesOK'
  BY <1>2, <1>3 DEF StoredInv, GatesOK
<1>5. ApprovalsOK'
  BY <1>2, <1>3 DEF StoredInv, ApprovalsOK
<1>6. ApprovalsAgree'
  <2>1. Cur(k)' \notin approvals[k]
    BY <1>1, <1>2 DEF StoredInv, ApprovalsOK
  <2>2. \A j \in Section \ {k} : Approved(j)' <=> Approved(j)
    BY <1>1 DEF Approved
  <2> QED BY <1>1, <2>1, <2>2 DEF StoredInv, ApprovalsAgree
<1> QED BY <1>4, <1>5, <1>6, LinesKeep

(* A version that is approved in the transaction that writes it.           *)
LEMMA ApprovedVersionKeeps ==
  ASSUME StoredInv, NEW k \in Section, NEW version \in Version(k),
         \A u \in Anchors[k] : version.on[u] \in 1..Cur(u),
         k # "brief" => version.on[Source[k]] \in approvals[Source[k]],
         lines' = Appended(k, version), WaitingFits,
         NEW gate \in Gate, gate.status = "APPROVED", gate.artifact = Cur(k) + 1,
         gate.updated = 0, gate.resume # "APPROVED", gateOf' = [gateOf EXCEPT ![k] = gate],
         past' = [past EXCEPT ![k] = <<>>],
         approvals' = [approvals EXCEPT ![k] = @ \cup {Cur(k) + 1}]
  PROVE  StoredInv' /\ Grows
<1>1. /\ Cur(k)' = Cur(k) + 1
      /\ \A j \in Section \ {k} : Cur(j)' = Cur(j)
  BY AppendedFacts DEF StoredInv
<1>2. \A j \in Section : Cur(j) \in Nat /\ Cur(j) >= 1
  BY VersionFacts DEF StoredInv
<1>3. gateOf'[k] = gate /\ \A j \in Section \ {k} : gateOf'[j] = gateOf[j]
  BY DEF StoredInv, GatesOK
<1>4. /\ approvals'[k] = approvals[k] \cup {Cur(k) + 1}
      /\ \A j \in Section \ {k} : approvals'[j] = approvals[j]
  BY DEF StoredInv, ApprovalsOK
<1>5. GatesOK'
  <2>1. <<>> \in Seq(Event)
    OBVIOUS
  <2>2. gateOf' \in [Section -> Gate] /\ past' \in [Section -> Seq(Event)]
    BY <2>1 DEF StoredInv, GatesOK
  <2>3. \A j \in Section : /\ gateOf'[j].updated = 0 /\ gateOf'[j].artifact \in 1..Cur(j)'
                          /\ gateOf'[j].resume # "APPROVED"
    BY <1>1, <1>2, <1>3 DEF StoredInv, GatesOK
  <2> QED BY <2>2, <2>3 DEF GatesOK
<1>6. ApprovalsOK'
  <2>1. approvals' \in [Section -> SUBSET Nat]
    BY <1>2 DEF StoredInv, ApprovalsOK
  <2>2. \A j \in Section : approvals[j] \subseteq 1..Cur(j)
    BY DEF StoredInv, ApprovalsOK
  <2>3. \A j \in Section : approvals'[j] \subseteq 1..Cur(j)'
    BY <1>1, <1>2, <1>4, <2>2
  <2> QED BY <2>1, <2>3 DEF ApprovalsOK
<1>7. ApprovalsAgree'
  <2>1. Approved(k)' /\ gateOf'[k].artifact \in approvals'[k]
    BY <1>1, <1>3, <1>4 DEF Approved
  <2>2. \A j \in Section \ {k} : Approved(j)' <=> Approved(j)
    BY <1>1, <1>3 DEF Approved
  <2> QED BY <1>1, <1>3, <1>4, <2>1, <2>2 DEF StoredInv, ApprovalsAgree
<1> QED BY <1>4, <1>5, <1>6, <1>7, LinesKeep

(* A gate moves.                                                           *)
LEMMA GateKeeps ==
  ASSUME StoredInv, NEW k \in Section, NEW gate \in Gate,
         gate.updated = 0, gate.artifact \in 1..Cur(k), gate.resume # "APPROVED",
         UNCHANGED <<lines, pending, updates>>, gateOf' = [gateOf EXCEPT ![k] = gate],
         NEW events \in Seq(Event), past' = [past EXCEPT ![k] = events] \/ past' = past,
         gate.status # "APPROVED" => ~Approved(k) /\ approvals' = approvals,
         gate.status = "APPROVED" =>
           gate.artifact = Cur(k) /\ approvals' = [approvals EXCEPT ![k] = @ \cup {Cur(k)}]
  PROVE  StoredInv' /\ Grows
<1>1. \A j \in Section : Cur(j) \in Nat /\ Cur(j) >= 1
  BY VersionFacts DEF StoredInv
<1>2. \A j \in Section : Cur(j)' = Cur(j) /\ lines'[j] = lines[j]
  BY DEF Cur
<1>3. /\ DOMAIN approvals' = Section
      /\ \A j \in Section : /\ approvals[j] \subseteq approvals'[j]
                            /\ approvals'[j] \subseteq approvals[j] \cup {Cur(j)}
                            /\ j # k => approvals'[j] = approvals[j]
  BY DEF StoredInv, ApprovalsOK
<1>4. LinesOK' /\ WaitingOK'
  BY <1>1, <1>2, SameWaiting, WaitingStays DEF StoredInv, LinesOK
<1>5. GatesOK'
  BY <1>2 DEF StoredInv, GatesOK
<1>6. ApprovalsOK'
  BY <1>1, <1>2, <1>3 DEF StoredInv, ApprovalsOK
<1>7. ApprovalsAgree'
  <2>1. gateOf'[k] = gate /\ \A j \in Section \ {k} : gateOf'[j] = gateOf[j]
    BY DEF StoredInv, GatesOK
  <2>2. ASSUME NEW j \in Section \ {k}
        PROVE  /\ gateOf'[j].status = "APPROVED" => gateOf'[j].artifact \in approvals'[j]
               /\ Cur(j)' \in approvals'[j] => Approved(j)'
    BY <1>2, <1>3, <2>1 DEF StoredInv, ApprovalsAgree, Approved
  <2>3. CASE gate.status # "APPROVED"
    <3>1. Cur(k) \notin approvals[k] /\ approvals' = approvals
      BY <2>3 DEF StoredInv, ApprovalsAgree
    <3> QED BY <1>2, <2>1, <2>2, <2>3, <3>1 DEF ApprovalsAgree
  <2>4. CASE gate.status = "APPROVED"
    <3>1. Cur(k) \in approvals'[k] /\ gate.artifact = Cur(k)
      BY <2>4 DEF StoredInv, ApprovalsOK
    <3>2. Approved(k)'
      BY <1>2, <2>1, <2>4, <3>1 DEF Approved
    <3> QED BY <1>2, <2>1, <2>2, <3>1, <3>2 DEF ApprovalsAgree
  <2> QED BY <2>3, <2>4
<1>8. AnchorsKnown'
  BY <1>2 DEF StoredInv, AnchorsKnown, Cur
<1>9. RestsOnApproved'
  <2>1. \A j \in Section \ {"brief"} : Source[j] \in Section
    BY SectionFacts DEF Later
  <2> QED BY <1>2, <1>3, <2>1 DEF StoredInv, RestsOnApproved
<1>10. Grows
  BY <1>1, <1>2, <1>3 DEF Grows
<1> QED BY <1>4, <1>5, <1>6, <1>7, <1>8, <1>9, <1>10 DEF StoredInv

(* What a submission, and a decision about another version, make of a gate. *)
LEMMA GateFacts ==
  ASSUME StoredInv, NEW k \in Section
  PROVE  /\ gateOf[k] \in Gate /\ gateOf[k] # NoGate /\ gateOf[k].updated = 0
         /\ gateOf[k].artifact \in 1..Cur(k) /\ gateOf[k].resume # "APPROVED"
         /\ past[k] \in Seq(Event) /\ Cur(k) \in Nat /\ Cur(k) >= 1
<1>1. Cur(k) \in Nat /\ Cur(k) >= 1
  BY VersionFacts DEF StoredInv
<1>2. /\ gateOf[k] \in Gate /\ gateOf[k].updated = 0
      /\ gateOf[k].artifact \in 1..Cur(k) /\ gateOf[k].resume # "APPROVED"
      /\ past[k] \in Seq(Event)
  BY DEF StoredInv, GatesOK
<1>3. gateOf[k].artifact # 0 /\ NoGate.artifact = 0
  BY <1>1, <1>2 DEF NoGate, DraftGate
<1> QED BY <1>1, <1>2, <1>3

LEMMA StalingOfSection ==
  ASSUME StoredInv, NEW k \in Section
  PROVE  /\ PastAfterStaling(k) \in Seq(Event)
         /\ Staled(gateOf[k], 0) \in Gate /\ Staled(gateOf[k], 0).status = "STALE"
         /\ Staled(gateOf[k], 0).artifact = gateOf[k].artifact
         /\ Staled(gateOf[k], 0).updated = 0 /\ Staled(gateOf[k], 0).resume = NoStatus
<1>1. /\ gateOf[k] \in Gate /\ past[k] \in Seq(Event) /\ Cur(k) \in Nat /\ 0 \in Nat
  BY GateFacts
<1>2. StaleEvent(gateOf[k], Cur(k), 0) \in Event /\ Staled(gateOf[k], 0) \in Gate
  BY <1>1, StaledType
<1>3. PastAfterStaling(k) \in Seq(Event)
  BY <1>1, <1>2 DEF PastAfterStaling, WithSupersession
<1>4. ASSUME NEW gate \in Gate
      PROVE  /\ Staled(gate, 0).status = "STALE" /\ Staled(gate, 0).artifact = gate.artifact
             /\ Staled(gate, 0).updated = 0 /\ Staled(gate, 0).resume = NoStatus
  BY DEF Staled, Gate
<1> QED BY <1>1, <1>2, <1>3, <1>4

LEMMA DraftOfSection ==
  ASSUME StoredInv, NEW k \in Section
  PROVE  LET draft == NextDraft(gateOf[k], PastAfterStaling(k), Cur(k), 0)
             gate  == Transitioned(draft, "SUBMIT", 0)
         IN  /\ gate \in Gate /\ gate.status = "PENDING_APPROVAL"
             /\ gate.artifact = Cur(k) /\ gate.updated = 0 /\ gate.resume = NoStatus
<1> DEFINE draft == NextDraft(gateOf[k], PastAfterStaling(k), Cur(k), 0)
           gate  == Transitioned(draft, "SUBMIT", 0)
<1>1. draft \in Gate /\ gate \in Gate
  BY GateFacts, NextDraftType
<1>2. draft.status = "DRAFT" /\ draft.artifact = Cur(k)
  BY DEF NextDraft, DraftGate
<1>3. TargetStatus(draft, "SUBMIT") = "PENDING_APPROVAL"
  BY <1>2, SubmittedDraft
<1>4. ResumeStatus(draft, "SUBMIT") = NoStatus
  BY DEF ResumeStatus
<1> HIDE DEF draft
<1>5. /\ gate.status = "PENDING_APPROVAL" /\ gate.artifact = Cur(k) /\ gate.updated = 0
      /\ gate.resume = NoStatus
  BY <1>1, <1>2, <1>3, <1>4 DEF Transitioned, Gate
<1> QED BY <1>1, <1>5 DEF draft

LEMMA DecisionOfSection ==
  ASSUME StoredInv, NEW k \in Section, NEW action \in Actions,
         DecisionApplies(gateOf[k], Cur(k), action, TRUE, 0)
  PROVE  LET gate == Transitioned(gateOf[k], action, 0)
         IN  /\ gate \in Gate /\ gate.updated = 0 /\ gate.artifact = Cur(k)
             /\ gate.resume # "APPROVED" /\ (gate.status = "APPROVED" <=> action = "APPROVE")
             /\ ~Approved(k)
<1> DEFINE g == gateOf[k]
           gate == Transitioned(g, action, 0)
<1>1. g \in Gate /\ g.updated = 0 /\ g.resume # "APPROVED"
  BY GateFacts
<1>2. g.artifact = Cur(k) /\ TargetStatus(g, action) # NoStatus
  BY DEF DecisionApplies, Applies
<1>3. ~Approved(k)
  <2>1. ASSUME g.status = "APPROVED" PROVE FALSE
    BY <1>2, <2>1 DEF TargetStatus
  <2> QED BY <2>1 DEF Approved
<1> HIDE DEF g
<1>4. gate \in Gate
  BY <1>1, <1>2, TransitionedType
<1>5. /\ gate.updated = 0 /\ gate.artifact = g.artifact
      /\ gate.status = TargetStatus(g, action) /\ gate.resume = ResumeStatus(g, action)
  BY <1>1 DEF Transitioned, Gate
<1>6. ResumeStatus(g, action) # "APPROVED"
  BY <1>2 DEF ResumeStatus, TargetStatus, NoStatus
<1>7. TargetStatus(g, action) = "APPROVED" <=> action = "APPROVE"
  BY <1>1, <1>2 DEF TargetStatus, Actions, NoStatus
<1> QED BY <1>2, <1>3, <1>4, <1>5, <1>6, <1>7 DEF g

LEMMA SubmitKeeps ==
  ASSUME StoredInv, NEW k \in Section, SubmitOpens(k) \/ SubmitOverLimit(k),
         UNCHANGED <<lines, pending, approvals, updates>>
  PROVE  StoredInv' /\ Grows
<1>1. gateOf[k].artifact # Cur(k)
  BY DEF SubmitOpens, SubmitOverLimit, SubmissionProceeds
<1>2. ~Approved(k)
  BY <1>1 DEF Approved
<1>3. Cur(k) \in 1..Cur(k) /\ 0 \in Nat /\ <<>> \in Seq(Event)
  BY GateFacts
<1>4. CASE SubmitOpens(k)
  <2> DEFINE gate == Transitioned(NextDraft(gateOf[k], PastAfterStaling(k), Cur(k), 0),
                                  "SUBMIT", 0)
  <2>1. /\ gate \in Gate /\ gate.status = "PENDING_APPROVAL"
        /\ gate.artifact = Cur(k) /\ gate.updated = 0 /\ gate.resume = NoStatus
    BY DraftOfSection
  <2>2. gateOf' = [gateOf EXCEPT ![k] = gate] /\ past' = [past EXCEPT ![k] = <<>>]
    BY <1>4 DEF SubmitOpens
  <2> HIDE DEF gate
  <2>3. gate.status # "APPROVED" /\ gate.resume # "APPROVED" /\ gate.artifact \in 1..Cur(k)
    BY <1>3, <2>1 DEF NoStatus
  <2> QED BY <1>2, <1>3, <2>1, <2>2, <2>3, GateKeeps
<1>5. CASE SubmitOverLimit(k)
  <2> DEFINE gate == Superseded(gateOf[k], 0)
  <2>1. gate = IF gateOf[k].status # "STALE" THEN Staled(gateOf[k], 0) ELSE gateOf[k]
    BY GateFacts DEF Superseded, NeedsStaling
  <2>2. gateOf' = [gateOf EXCEPT ![k] = gate]
        /\ past' = [past EXCEPT ![k] = PastAfterStaling(k)]
    BY <1>5 DEF SubmitOverLimit
  <2> HIDE DEF gate
  <2>3. /\ gate \in Gate /\ gate.status = "STALE"
        /\ gate.artifact = gateOf[k].artifact /\ gate.updated = 0 /\ gate.resume # "APPROVED"
    BY <2>1, GateFacts, StalingOfSection DEF NoStatus
  <2>4. gate.artifact \in 1..Cur(k) /\ PastAfterStaling(k) \in Seq(Event)
    BY <2>3, GateFacts, StalingOfSection
  <2> QED BY <1>2, <2>2, <2>3, <2>4, GateKeeps
<1> QED BY <1>4, <1>5

LEMMA DecideKeeps ==
  ASSUME StoredInv, NEW k \in Section, UNCHANGED <<lines, pending, updates>>,
         DecideStales(k) \/ \E action \in Actions : Decide(k, action)
  PROVE  StoredInv' /\ Grows
<1>1. CASE DecideStales(k)
  <2> DEFINE gate == Staled(gateOf[k], 0)
  <2>1. /\ gateOf' = [gateOf EXCEPT ![k] = gate] /\ approvals' = approvals
        /\ past' = [past EXCEPT ![k] = PastAfterStaling(k)]
        /\ gateOf[k].artifact # Cur(k)
    BY <1>1 DEF DecideStales, DecisionSupersedes
  <2>2. ~Approved(k)
    BY <2>1 DEF Approved
  <2>3. /\ gate \in Gate /\ gate.status = "STALE" /\ gate.artifact = gateOf[k].artifact
        /\ gate.updated = 0 /\ gate.resume = NoStatus /\ PastAfterStaling(k) \in Seq(Event)
        /\ gateOf[k].artifact \in 1..Cur(k)
    BY GateFacts, StalingOfSection
  <2> HIDE DEF gate
  <2>4. gate.status # "APPROVED" /\ gate.resume # "APPROVED" /\ gate.artifact \in 1..Cur(k)
    BY <2>3 DEF NoStatus
  <2> QED BY <2>1, <2>2, <2>3, <2>4, GateKeeps
<1>2. CASE \E action \in Actions : Decide(k, action)
  <2>1. PICK action \in Actions : Decide(k, action)
    BY <1>2
  <2> DEFINE gate == Transitioned(gateOf[k], action, 0)
  <2>2. /\ gateOf' = [gateOf EXCEPT ![k] = gate] /\ past' = past
        /\ approvals' = [approvals EXCEPT ![k] = IF action = "APPROVE" THEN @ \cup {Cur(k)} ELSE @]
        /\ DecisionApplies(gateOf[k], Cur(k), action, TRUE, 0)
    BY <2>1 DEF Decide
  <2>3. /\ gate \in Gate /\ gate.updated = 0 /\ gate.artifact = Cur(k)
        /\ gate.resume # "APPROVED" /\ (gate.status = "APPROVED" <=> action = "APPROVE")
        /\ ~Approved(k)
    BY <2>2, DecisionOfSection
  <2> HIDE DEF gate
  <2>4. gate.artifact \in 1..Cur(k) /\ <<>> \in Seq(Event)
    BY <2>3, GateFacts
  <2>5. action # "APPROVE" => approvals' = approvals
    BY <2>2 DEF StoredInv, ApprovalsOK
  <2>6. action = "APPROVE" => approvals' = [approvals EXCEPT ![k] = @ \cup {Cur(k)}]
    BY <2>2
  <2> QED BY <2>2, <2>3, <2>4, <2>5, <2>6, GateKeeps
<1> QED BY <1>1, <1>2

-----------------------------------------------------------------------------

(***************************************************************************)
(* Every step keeps the invariant of the sections.                         *)
(***************************************************************************)

LEMMA ToAlignType == ToAlign \in Seq(Later)
<1> DEFINE If(k) == IF Behind(SectionOf[k]) THEN <<k>> ELSE <<>>
<1>1. {"team", "twins", "requirements", "design"} \subseteq Later
  BY DEF Later, Section
<1>2. /\ If("team") \in Seq(Later) /\ If("twins") \in Seq(Later)
      /\ If("requirements") \in Seq(Later) /\ If("design") \in Seq(Later)
  BY <1>1
<1>3. ToAlign = If("team") \o If("twins") \o If("requirements") \o If("design")
  BY DEF ToAlign
<1> HIDE DEF If
<1> QED BY <1>2, <1>3

LEMMA UpstreamReadyType == \A k \in Section : UpstreamReady[k] \in BOOLEAN
<1>1. TeamReady \in BOOLEAN /\ TwinsReady \in BOOLEAN
  BY DEF TeamReady, TwinsReady
<1>2. \A k \in Section : Approved(k) \in BOOLEAN
  BY DEF Approved
<1> SUFFICES ASSUME NEW k \in Section PROVE UpstreamReady[k] \in BOOLEAN
  OBVIOUS
<1>3. CASE k = "brief" BY <1>3 DEF UpstreamReady
<1>4. CASE k = "team" BY <1>2, <1>4, SectionFacts DEF UpstreamReady
<1>5. CASE k = "twins" BY <1>1, <1>5 DEF UpstreamReady
<1>6. CASE k = "requirements" BY <1>1, <1>6 DEF UpstreamReady
<1>7. CASE k = "design" BY <1>2, <1>7, SectionFacts DEF UpstreamReady
<1> QED BY <1>3, <1>4, <1>5, <1>6, <1>7, SectionFacts

LEMMA KeyFacts ==
  ASSUME AlignOK, align.pc # "idle"
  PROVE  /\ Key \in Later /\ align.todo \in Seq(Later) /\ align.todo # <<>>
         /\ Tail(align.todo) \in Seq(Later)
<1>1. align.todo \in Seq(Later) /\ align.todo # <<>>
  BY DEF AlignOK, Request
<1> QED BY <1>1 DEF Key

(* The versions a step appends.                                            *)
LEMMA NewVersionFacts ==
  ASSUME StoredInv, NEW k \in Section, NEW origin \in Nat, NEW drops \in BOOLEAN, NEW on,
         \/ on = Current(k).on
         \/ k # "brief" /\ \E v \in approvals[Source[k]] : on = AnchoredTo(k, v)
  PROVE  LET version == [origin |-> origin, drops |-> drops, on |-> on]
         IN  /\ version \in Version(k)
             /\ \A u \in Anchors[k] : version.on[u] \in 1..Cur(u)
             /\ k # "brief" => version.on[Source[k]] \in approvals[Source[k]]
<1>1. /\ Cur(k) \in Nat /\ Cur(k) >= 1 /\ Current(k) \in Version(k)
      /\ Current(k) = lines[k][Cur(k)] /\ DOMAIN lines[k] = 1..Cur(k)
  BY VersionFacts DEF StoredInv
<1>2. /\ on \in [Anchors[k] -> Nat]
      /\ \A u \in Anchors[k] : on[u] \in 1..Cur(u)
      /\ k # "brief" => on[Source[k]] \in approvals[Source[k]]
  <2>1. CASE on = Current(k).on
    BY <1>1, <2>1 DEF StoredInv, AnchorsKnown, RestsOnApproved, Version
  <2>2. CASE k # "brief" /\ \E v \in approvals[Source[k]] : on = AnchoredTo(k, v)
    <3>1. k \in Later /\ Source[k] \in Section
      BY <2>2, SectionFacts DEF Later
    <3>2. PICK v \in approvals[Source[k]] : on = AnchoredTo(k, v)
      BY <2>2
    <3>3. v \in 1..Cur(Source[k])
      BY <3>1 DEF StoredInv, ApprovalsOK
    <3> QED BY <3>1, <3>2, <3>3, AnchoredToFacts DEF StoredInv
  <2> QED BY <2>1, <2>2
<1> QED BY <1>2 DEF Version

LEMMA NewVersionKeeps ==
  ASSUME StoredInv, NEW k \in Section, NEW origin \in Nat, NEW drops \in BOOLEAN, NEW on,
         \/ on = Current(k).on
         \/ k # "brief" /\ \E v \in approvals[Source[k]] : on = AnchoredTo(k, v),
         lines' = Appended(k, [origin |-> origin, drops |-> drops, on |-> on]),
         UNCHANGED <<gateOf, past, approvals>>, WaitingFits
  PROVE  StoredInv' /\ Grows
<1> DEFINE version == [origin |-> origin, drops |-> drops, on |-> on]
<1>1. /\ version \in Version(k)
      /\ \A u \in Anchors[k] : version.on[u] \in 1..Cur(u)
      /\ k # "brief" => version.on[Source[k]] \in approvals[Source[k]]
  BY NewVersionFacts
<1>2. lines' = Appended(k, version)
  OBVIOUS
<1> HIDE DEF version
<1> QED BY <1>1, <1>2, VersionKeeps

(* The twins' gate that evidence opens and approves.                       *)
LEMMA EvidenceGate ==
  ASSUME StoredInv, NEW k \in Section, NEW events
  PROVE  LET draft == NextDraft(gateOf[k], events, Cur(k) + 1, 0)
             gate  == Transitioned(Transitioned(draft, "SUBMIT", 0), "APPROVE", 0)
         IN  /\ gate \in Gate /\ gate.status = "APPROVED" /\ gate.artifact = Cur(k) + 1
             /\ gate.updated = 0 /\ gate.resume # "APPROVED"
<1> DEFINE draft == NextDraft(gateOf[k], events, Cur(k) + 1, 0)
           sent  == Transitioned(draft, "SUBMIT", 0)
           gate  == Transitioned(sent, "APPROVE", 0)
<1>1. Cur(k) + 1 \in Nat /\ 0 \in Nat /\ gateOf[k] \in Gate
  BY GateFacts
<1>2. draft \in Gate /\ sent \in Gate
  BY <1>1, NextDraftType
<1>3. draft.status = "DRAFT" /\ draft.artifact = Cur(k) + 1
  BY DEF NextDraft, DraftGate
<1>4. TargetStatus(draft, "SUBMIT") = "PENDING_APPROVAL"
  BY <1>3, SubmittedDraft
<1> HIDE DEF draft
<1>5. sent.status = "PENDING_APPROVAL" /\ sent.artifact = Cur(k) + 1
  BY <1>2, <1>3, <1>4 DEF Transitioned, Gate
<1> HIDE DEF sent
<1>6. TargetStatus(sent, "APPROVE") = "APPROVED" /\ "APPROVED" # NoStatus
  BY <1>5 DEF TargetStatus, NoStatus
<1>7. gate \in Gate
  BY <1>1, <1>2, <1>6, TransitionedType DEF Actions
<1>8. ResumeStatus(sent, "APPROVE") = NoStatus
  BY DEF ResumeStatus
<1>9. /\ gate.status = "APPROVED" /\ gate.artifact = Cur(k) + 1
      /\ gate.updated = 0 /\ gate.resume = NoStatus
  BY <1>2, <1>5, <1>6, <1>8 DEF Transitioned, Gate
<1> QED BY <1>7, <1>9 DEF NoStatus, draft, sent

(* New profiles of twins, approved at once or not.                         *)
LEMMA ProfilesKeep ==
  ASSUME StoredInv, AppendsProfiles, WaitingFits,
         ApprovedAtOnce \/ UNCHANGED <<gateOf, past, approvals>>
  PROVE  StoredInv' /\ Grows
<1>1. PICK k \in Section : k = "twins"
  BY DEF Section
<1>2. Cur(k) + 1 \in Nat /\ FALSE \in BOOLEAN
  BY VersionFacts DEF StoredInv
<1>3. PICK on : on = Current(k).on
  OBVIOUS
<1> DEFINE version == [origin |-> Cur(k) + 1, drops |-> FALSE, on |-> on]
<1>4. lines' = Appended(k, version)
  BY <1>1, <1>3 DEF AppendsProfiles
<1>5. CASE ApprovedAtOnce
  <2>1. PICK events : events = WithSupersession(past[k], gateOf[k], Cur(k) + 1, 0)
    OBVIOUS
  <2> DEFINE draft == NextDraft(gateOf[k], events, Cur(k) + 1, 0)
             gate  == Transitioned(Transitioned(draft, "SUBMIT", 0), "APPROVE", 0)
  <2>2. /\ gateOf' = [gateOf EXCEPT ![k] = gate] /\ past' = [past EXCEPT ![k] = <<>>]
        /\ approvals' = [approvals EXCEPT ![k] = @ \cup {Cur(k) + 1}]
    BY <1>1, <1>5, <2>1 DEF ApprovedAtOnce
  <2>3. /\ gate \in Gate /\ gate.status = "APPROVED" /\ gate.artifact = Cur(k) + 1
        /\ gate.updated = 0 /\ gate.resume # "APPROVED"
    BY EvidenceGate
  <2> HIDE DEF gate
  <2>4. /\ version \in Version(k)
        /\ \A u \in Anchors[k] : version.on[u] \in 1..Cur(u)
        /\ k # "brief" => version.on[Source[k]] \in approvals[Source[k]]
    BY <1>2, <1>3, NewVersionFacts
  <2> HIDE DEF version
  <2> QED BY <1>4, <2>2, <2>3, <2>4, ApprovedVersionKeeps
<1>6. CASE UNCHANGED <<gateOf, past, approvals>>
  BY <1>2, <1>3, <1>4, <1>6, NewVersionKeeps
<1> QED BY <1>5, <1>6

(* The owner's other requests leave the alignment where it is.             *)
LEMMA InBetweenKeeps ==
  ASSUME SectionsInv, StoredInv', Grows, NEW edited \in SUBSET Section, InBetween(edited)
  PROVE  SectionsInv'
<1>1. align \in Request
  BY DEF SectionsInv, AlignOK
<1>2. /\ align' \in Request /\ align'.pc = align.pc /\ align'.todo = align.todo
      /\ align'.read = align.read /\ align'.ready = align.ready
  BY <1>1 DEF InBetween, Request
<1>3. AlignOK' /\ Key' = Key
  BY <1>2 DEF SectionsInv, AlignOK, Key
<1>4. ReadIsApproved'
  <2> SUFFICES ASSUME align.pc = "realign", Key \notin {"team", "twins"}
               PROVE  /\ align.read \in 1..Cur(Source[Key])'
                      /\ align.ready => align.read \in approvals'[Source[Key]]
    BY <1>2, <1>3 DEF ReadIsApproved
  <2>1. PICK u \in Section : u = Source[Key]
    BY KeyFacts, SectionFacts DEF SectionsInv
  <2>2. Cur(u) \in Nat /\ Cur(u)' \in Nat
    BY VersionFacts DEF SectionsInv, StoredInv, LinesOK, Cur
  <2>3. Cur(u) <= Cur(u)' /\ approvals[u] \subseteq approvals'[u]
    BY DEF Grows
  <2>4. align.read \in 1..Cur(u) /\ (align.ready => align.read \in approvals[u])
    BY <2>1 DEF SectionsInv, ReadIsApproved
  <2>5. align.read \in 1..Cur(u)' /\ (align.ready => align.read \in approvals'[u])
    BY <2>2, <2>3, <2>4
  <2> QED BY <1>3, <2>1, <2>5 DEF Cur
<1> QED BY <1>3, <1>4 DEF SectionsInv

LEMMA WaitingKeeps ==
  ASSUME StoredInv, UNCHANGED <<lines, gateOf, past, approvals>>, WaitingFits
  PROVE  StoredInv' /\ Grows
<1>1. \A j \in Section : Cur(j)' = Cur(j) /\ Cur(j) \in Nat
  BY VersionFacts DEF Cur, StoredInv
<1>2. WaitingOK'
  BY <1>1, WaitingStays
<1>3. /\ LinesOK' /\ GatesOK' /\ ApprovalsOK' /\ ApprovalsAgree' /\ AnchorsKnown'
      /\ RestsOnApproved'
  BY DEF StoredInv, LinesOK, GatesOK, ApprovalsOK, ApprovalsAgree, AnchorsKnown,
         RestsOnApproved, Cur, Approved
<1> QED BY <1>1, <1>2, <1>3 DEF StoredInv, Grows

(* What the owner does to a section, and to what the twins learn.          *)
SectionRequest(k) ==
  \/ Create(k) \/ Propose(k) \/ RejectChange(k) \/ ApproveChange(k)
  \/ OwnerRealigns(k) \/ OwnerSubmits(k) \/ OwnerDecides(k)

LearningRequest ==
  \/ \E twin \in Twins : StoreUpdate(twin) \/ DropUpdate(twin) \/ ApproveEvidence(twin)
  \/ RetireEvidence

(* A proposal, or what a decision leaves of the proposals.                 *)
LEMMA ChangesFit ==
  ASSUME StoredInv, NEW k \in Section, NEW changes \in SUBSET Change(k),
         pending' = [pending EXCEPT ![k] = changes], updates' = updates
  PROVE  WaitingFits
BY DEF StoredInv, WaitingOK, WaitingFits

LEMMA DecidedFits ==
  ASSUME StoredInv, NEW k \in Section, NEW change, Decided(k, change), updates' = updates
  PROVE  WaitingFits
<1>1. pending' = [pending EXCEPT ![k] = pending[k] \ {change}]
  BY DEF Decided
<1>2. pending[k] \ {change} \in SUBSET Change(k)
  BY DEF StoredInv, WaitingOK
<1> QED BY <1>1, <1>2, ChangesFit

LEMMA OwnerKeeps ==
  ASSUME SectionsInv, NEW k \in Section, SectionRequest(k)
  PROVE  SectionsInv'
<1>1. StoredInv /\ Cur(k) \in Nat /\ Cur(k) >= 1 /\ Current(k) \in Version(k)
  BY VersionFacts DEF SectionsInv, StoredInv
<1>2. /\ Cur(k) + 1 \in Nat /\ Current(k).origin \in Nat /\ FALSE \in BOOLEAN
      /\ {} \in SUBSET Section /\ {k} \in SUBSET Section
  BY <1>1 DEF Version
<1>3. CASE Create(k)
  <2>1. PICK drops \in Drops(k) :
          lines' = Appended(k, [origin |-> Cur(k) + 1, drops |-> drops,
                     on |-> IF k = "brief" THEN Current(k).on ELSE AnchoredTo(k, Cur(Source[k]))])
    BY <1>3 DEF Create
  <2>2. drops \in BOOLEAN
    BY DEF Drops
  <2>3. /\ UpstreamReady[k] /\ UNCHANGED <<gateOf, past, pending, approvals, updates>>
        /\ InBetween({k})
    BY <1>3 DEF Create
  <2>4. PICK on : on = IF k = "brief" THEN Current(k).on ELSE AnchoredTo(k, Cur(Source[k]))
    OBVIOUS
  <2>5. \/ on = Current(k).on
        \/ k # "brief" /\ \E v \in approvals[Source[k]] : on = AnchoredTo(k, v)
    BY <1>1, <2>3, <2>4, ReadyIsApproved DEF StoredInv, Later
  <2>6. WaitingFits
    BY <1>1, <2>3, SameWaiting
  <2>7. StoredInv' /\ Grows
    BY <1>1, <1>2, <2>1, <2>2, <2>3, <2>4, <2>5, <2>6, NewVersionKeeps
  <2> QED BY <1>2, <2>3, <2>7, InBetweenKeeps
<1>4. CASE Propose(k)
  <2>1. PICK part \in Parts(k) :
          pending' = [pending EXCEPT ![k] = @ \cup {[base |-> Cur(k), of |-> part]}]
    BY <1>4 DEF Propose
  <2>2. UNCHANGED <<lines, gateOf, past, approvals, updates>> /\ InBetween({})
    BY <1>4 DEF Propose
  <2>3. [base |-> Cur(k), of |-> part] \in Change(k) /\ pending[k] \subseteq Change(k)
    BY <1>1 DEF Change, StoredInv, WaitingOK
  <2>4. PICK changes \in SUBSET Change(k) :
          changes = pending[k] \cup {[base |-> Cur(k), of |-> part]}
    BY <2>3
  <2>5. pending' = [pending EXCEPT ![k] = changes]
    BY <2>1, <2>4
  <2>6. WaitingFits
    BY <1>1, <2>2, <2>5, ChangesFit
  <2> QED BY <1>1, <1>2, <2>2, <2>6, WaitingKeeps, InBetweenKeeps
<1>5. CASE RejectChange(k)
  <2>1. PICK change \in pending[k] : Decided(k, change)
    BY <1>5 DEF RejectChange
  <2>2. UNCHANGED <<lines, gateOf, past, approvals, updates>> /\ InBetween({})
    BY <1>5 DEF RejectChange
  <2>3. WaitingFits
    BY <1>1, <2>1, <2>2, DecidedFits
  <2> QED BY <1>1, <1>2, <2>2, <2>3, WaitingKeeps, InBetweenKeeps
<1>6. CASE ApproveChange(k)
  <2>1. PICK drops \in BOOLEAN :
          lines' = Appended(k, [origin |-> Cur(k) + 1, drops |-> drops, on |-> Current(k).on])
    BY <1>6 DEF ApproveChange, Drops
  <2>2. UNCHANGED <<gateOf, past, approvals, updates>> /\ InBetween({k})
    BY <1>6 DEF ApproveChange
  <2>3. PICK change \in pending[k] : Decided(k, change)
    BY <1>6 DEF ApproveChange
  <2>4. WaitingFits
    BY <1>1, <2>2, <2>3, DecidedFits
  <2>5. PICK on : on = Current(k).on
    OBVIOUS
  <2>6. StoredInv' /\ Grows
    BY <1>1, <1>2, <2>1, <2>2, <2>4, <2>5, NewVersionKeeps
  <2> QED BY <1>2, <2>2, <2>6, InBetweenKeeps
<1>7. CASE OwnerRealigns(k)
  <2>1. /\ k # "brief" /\ UpstreamReady[k] /\ InBetween({})
        /\ lines' = Appended(k, Realigned(k, Cur(Source[k])))
        /\ UNCHANGED <<gateOf, past, pending, approvals, updates>>
    BY <1>7 DEF OwnerRealigns, CanRealign
  <2>2. Cur(Source[k]) \in approvals[Source[k]]
    BY <1>1, <2>1, ReadyIsApproved DEF StoredInv, Later
  <2>3. PICK on : on = AnchoredTo(k, Cur(Source[k]))
    OBVIOUS
  <2>4. lines' = Appended(k, [origin |-> Current(k).origin, drops |-> FALSE, on |-> on])
    BY <2>1, <2>3 DEF Realigned
  <2>5. k # "brief" /\ \E v \in approvals[Source[k]] : on = AnchoredTo(k, v)
    BY <2>1, <2>2, <2>3
  <2>6. WaitingFits
    BY <1>1, <2>1, SameWaiting
  <2>7. StoredInv' /\ Grows
    BY <1>1, <1>2, <2>1, <2>4, <2>5, <2>6, NewVersionKeeps
  <2> QED BY <1>2, <2>1, <2>7, InBetweenKeeps
<1>8. CASE OwnerSubmits(k)
  <2>1. /\ SubmitOpens(k) \/ SubmitOverLimit(k)
        /\ UNCHANGED <<lines, pending, approvals, updates>> /\ InBetween({})
    BY <1>8 DEF OwnerSubmits
  <2> QED BY <1>1, <1>2, <2>1, SubmitKeeps, InBetweenKeeps
<1>9. CASE OwnerDecides(k)
  <2>1. /\ DecideStales(k) \/ \E action \in Actions : Decide(k, action)
        /\ UNCHANGED <<lines, pending, updates>> /\ InBetween({})
    BY <1>9, AlignmentAssumption DEF OwnerDecides
  <2> QED BY <1>1, <1>2, <2>1, DecideKeeps, InBetweenKeeps
<1> QED BY <1>3, <1>4, <1>5, <1>6, <1>7, <1>8, <1>9 DEF SectionRequest

LEMMA LearningKeeps ==
  ASSUME SectionsInv, LearningRequest
  PROVE  SectionsInv'
<1>1. /\ StoredInv /\ updates \subseteq Twins
      /\ {} \in SUBSET Section /\ {"twins"} \in SUBSET Section
  BY DEF SectionsInv, StoredInv, WaitingOK, Section
<1>2. ASSUME pending' = pending, updates' \subseteq Twins PROVE WaitingFits
  BY <1>1, <1>2 DEF StoredInv, WaitingOK, WaitingFits
<1>3. ASSUME NEW twin \in Twins, StoreUpdate(twin) \/ DropUpdate(twin) PROVE SectionsInv'
  <2>1. /\ UNCHANGED <<lines, gateOf, past, pending, approvals>> /\ InBetween({})
        /\ updates' \subseteq Twins
    BY <1>1, <1>3 DEF StoreUpdate, DropUpdate
  <2> QED BY <1>1, <1>2, <2>1, WaitingKeeps, InBetweenKeeps
<1>4. ASSUME NEW twin \in Twins, ApproveEvidence(twin) PROVE SectionsInv'
  <2>1. /\ AppendsProfiles /\ ApprovedAtOnce /\ InBetween({})
        /\ updates' \subseteq Twins /\ pending' = pending
    BY <1>1, <1>4 DEF ApproveEvidence
  <2> QED BY <1>1, <1>2, <2>1, ProfilesKeep, InBetweenKeeps
<1>5. CASE RetireEvidence
  <2>1. /\ AppendsProfiles /\ updates' \subseteq Twins /\ pending' = pending
        /\ ApprovedAtOnce \/ UNCHANGED <<gateOf, past, approvals>>
        /\ InBetween({}) \/ InBetween({"twins"})
    BY <1>1, <1>5 DEF RetireEvidence
  <2> QED BY <1>1, <1>2, <2>1, ProfilesKeep, InBetweenKeeps
<1> QED BY <1>3, <1>4, <1>5 DEF LearningRequest

(* A step that only moves the alignment, or stops it.                      *)
LEMMA MovesKeep ==
  ASSUME SectionsInv, StoredInv', align.pc # "idle",
         \/ Stop
         \/ Aligned
         \/ \E pc \in Positions \ {"idle"} :
              GoTo(pc) /\ (pc = "realign" => Key \in {"team", "twins"})
  PROVE  SectionsInv'
<1>1. align \in Request /\ align.todo # <<>>
  BY DEF SectionsInv, AlignOK
<1>2. CASE align' = Idle
  <2>1. Idle \in Request /\ Idle.pc = "idle"
    BY DEF Idle, Request, Positions
  <2>2. AlignOK' /\ ReadIsApproved'
    BY <1>2, <2>1 DEF AlignOK, ReadIsApproved
  <2> QED BY <2>2 DEF SectionsInv
<1>3. CASE Aligned /\ Tail(align.todo) # <<>>
  <2>1. Tail(align.todo) \in Seq(Later)
    BY KeyFacts DEF SectionsInv
  <2>2. PICK rest \in Seq(Later) : rest = Tail(align.todo)
    BY <2>1
  <2>3. align' = [align EXCEPT !.pc = "section", !.todo = rest, !.read = 0, !.ready = FALSE]
    BY <1>3, <2>2 DEF Aligned
  <2>4. align' \in Request /\ align'.pc = "section" /\ align'.todo = rest
    BY <1>1, <2>3 DEF Request, Positions
  <2>5. AlignOK' /\ ReadIsApproved'
    BY <1>3, <2>2, <2>4 DEF AlignOK, ReadIsApproved
  <2> QED BY <2>5 DEF SectionsInv
<1>4. ASSUME NEW pc \in Positions \ {"idle"}, GoTo(pc),
             pc = "realign" => Key \in {"team", "twins"}
      PROVE  SectionsInv'
  <2>1. /\ align' \in Request /\ align'.pc = pc /\ align'.todo = align.todo
    BY <1>1, <1>4 DEF GoTo, Request
  <2>2. AlignOK' /\ ReadIsApproved'
    BY <1>1, <1>4, <2>1 DEF AlignOK, ReadIsApproved, Key
  <2> QED BY <2>2 DEF SectionsInv
<1> QED BY <1>2, <1>3, <1>4 DEF Stop, Aligned

(* Nothing that is stored changes.                                         *)
LEMMA StoredUnchanged ==
  ASSUME StoredInv, UNCHANGED stored
  PROVE  StoredInv'
BY SameWaiting, WaitingKeeps DEF stored

LEMMA AlignmentKeeps ==
  ASSUME SectionsInv,
         \/ Begin \/ NextSection \/ CheckBudget \/ ReadUpstream \/ RealignRefused
         \/ Realign \/ Submit \/ Approve \/ Crash
  PROVE  SectionsInv'
<1>1. StoredInv /\ align \in Request
  BY DEF SectionsInv, AlignOK
<1>2. {"section", "budget", "upstream", "realign", "submit", "decide"} = Positions \ {"idle"}
  BY DEF Positions
<1>3. CASE Begin
  <2>1. /\ align' = [Idle EXCEPT !.pc = "budget", !.todo = ToAlign] /\ ToAlign # <<>>
        /\ UNCHANGED stored
    BY <1>3 DEF Begin
  <2>2. PICK todo \in Seq(Later) : todo = ToAlign
    BY ToAlignType
  <2>3. align' = [Idle EXCEPT !.pc = "budget", !.todo = todo] /\ todo # <<>>
    BY <2>1, <2>2
  <2>4. align' \in Request /\ align'.pc = "budget" /\ align'.todo = todo
    BY <2>3 DEF Idle, Request, Positions
  <2>5. AlignOK' /\ ReadIsApproved'
    BY <2>3, <2>4 DEF AlignOK, ReadIsApproved
  <2> QED BY <1>1, <2>1, <2>5, StoredUnchanged DEF SectionsInv
<1>4. CASE NextSection
  <2>1. align.pc # "idle" /\ (Stop \/ GoTo("budget"))
    BY <1>4 DEF NextSection
  <2>2. StoredInv'
    BY <1>1, <1>4, StoredUnchanged DEF NextSection
  <2> QED BY <1>2, <2>1, <2>2, MovesKeep
<1>5. CASE CheckBudget
  <2>1. /\ align.pc # "idle"
        /\ Stop \/ GoTo("upstream") \/ (GoTo("realign") /\ Key \in {"team", "twins"})
    BY <1>5 DEF CheckBudget
  <2>2. StoredInv'
    BY <1>1, <1>5, StoredUnchanged DEF CheckBudget
  <2> QED BY <1>2, <2>1, <2>2, MovesKeep
<1>6. CASE ReadUpstream
  <2>1. StoredInv' /\ align.pc = "upstream" /\ lines' = lines /\ approvals' = approvals
    BY <1>1, <1>6, StoredUnchanged DEF ReadUpstream, stored
  <2>2. Key \in Later /\ Source[Key] \in Section
    BY <2>1, KeyFacts, SectionFacts DEF SectionsInv
  <2>3. /\ Cur(Source[Key]) \in Nat /\ Cur(Source[Key]) >= 1
        /\ UpstreamReady[Key] \in BOOLEAN
        /\ UpstreamReady[Key] => Cur(Source[Key]) \in approvals[Source[Key]]
    BY <1>1, <2>2, VersionFacts, UpstreamReadyType, ReadyIsApproved, SectionFacts DEF StoredInv
  <2>4. PICK read \in Nat, ready \in BOOLEAN : read = Cur(Source[Key]) /\ ready = UpstreamReady[Key]
    BY <2>3
  <2>5. align' = [align EXCEPT !.pc = "realign", !.read = read, !.ready = ready]
    BY <1>6, <2>4 DEF ReadUpstream
  <2>6. /\ align' \in Request /\ align'.pc = "realign" /\ align'.todo = align.todo
        /\ align'.read = read /\ align'.ready = ready
    BY <1>1, <2>5 DEF Request, Positions
  <2>7. AlignOK'
    BY <2>1, <2>6 DEF SectionsInv, AlignOK
  <2>8. ReadIsApproved'
    BY <2>1, <2>3, <2>4, <2>6 DEF ReadIsApproved, Key, Cur
  <2> QED BY <2>1, <2>7, <2>8 DEF SectionsInv
<1>7. CASE RealignRefused
  BY <1>1, <1>7, StoredUnchanged, MovesKeep DEF RealignRefused
<1>8. CASE Realign
  <2>1. /\ align.pc = "realign" /\ CanRealign(Key, Found, FoundReady)
        /\ lines' = Appended(Key, Realigned(Key, Found)) /\ GoTo("submit")
        /\ UNCHANGED <<gateOf, past, pending, approvals, updates>>
    BY <1>8 DEF Realign
  <2>2. PICK k \in Section : k = Key /\ k # "brief" /\ k \in Later
    BY <2>1, KeyFacts, SectionFacts DEF SectionsInv
  <2>3. Found \in approvals[Source[k]]
    <3>1. CASE Key \in {"team", "twins"}
      BY <1>1, <2>1, <2>2, <3>1, ReadyIsApproved DEF Found, FoundReady, CanRealign, StoredInv
    <3>2. CASE Key \notin {"team", "twins"}
      BY <2>1, <2>2, <3>2 DEF SectionsInv, ReadIsApproved, Found, FoundReady, CanRealign
    <3> QED BY <3>1, <3>2
  <2>4. PICK on : on = AnchoredTo(k, Found)
    OBVIOUS
  <2>5. lines' = Appended(k, [origin |-> Current(k).origin, drops |-> FALSE, on |-> on])
    BY <2>1, <2>2, <2>4 DEF Realigned
  <2>6. Current(k).origin \in Nat
    BY <1>1, VersionFacts DEF StoredInv, Version
  <2>7. k # "brief" /\ \E v \in approvals[Source[k]] : on = AnchoredTo(k, v)
    BY <2>2, <2>3, <2>4
  <2>8. StoredInv'
    BY <1>1, <2>1, <2>5, <2>6, <2>7, SameWaiting, NewVersionKeeps
  <2> QED BY <1>2, <2>1, <2>8, MovesKeep
<1>9. CASE Submit
  <2>1. /\ align.pc = "submit" /\ UNCHANGED <<lines, pending, approvals, updates>>
        /\ \/ SubmitOpens(Key) /\ GoTo("decide")
           \/ SubmitOverLimit(Key) /\ Stop
           \/ UNCHANGED <<gateOf, past>> /\ (Aligned \/ GoTo("decide") \/ Stop)
    BY <1>9 DEF Submit
  <2>2. PICK k \in Section : k = Key
    BY <2>1, KeyFacts, SectionFacts DEF SectionsInv
  <2>3. StoredInv'
    BY <1>1, <2>1, <2>2, SubmitKeeps, StoredUnchanged DEF stored
  <2> QED BY <1>2, <2>1, <2>3, MovesKeep
<1>10. CASE Approve
  <2>1. /\ align.pc = "decide" /\ UNCHANGED <<lines, pending, updates>>
        /\ \/ Decide(Key, "APPROVE") /\ Aligned
           \/ DecideStales(Key) /\ Stop
           \/ UNCHANGED <<gateOf, past, approvals>> /\ Stop
    BY <1>10 DEF Approve
  <2>2. PICK k \in Section : k = Key
    BY <2>1, KeyFacts, SectionFacts DEF SectionsInv
  <2>3. "APPROVE" \in Actions
    BY DEF Actions
  <2>4. StoredInv'
    BY <1>1, <2>1, <2>2, <2>3, DecideKeeps, StoredUnchanged DEF stored
  <2> QED BY <1>2, <2>1, <2>4, MovesKeep
<1>11. CASE Crash
  BY <1>1, <1>11, StoredUnchanged, MovesKeep DEF Crash
<1> QED BY <1>3, <1>4, <1>5, <1>6, <1>7, <1>8, <1>9, <1>10, <1>11

LEMMA SectionsStart ==
  ASSUME AlignmentInit
  PROVE  SectionsInv
<1> DEFINE first(k) == [origin |-> 1, drops |-> FALSE, on |-> [u \in Anchors[k] |-> 1]]
           draft == DraftGate(1, 1, IterationLimit, 0)
           sent == Transitioned(draft, "SUBMIT", 0)
           approved == Transitioned(sent, "APPROVE", 0)
<1>1. /\ lines = [k \in Section |-> <<first(k)>>]
      /\ gateOf = [k \in Section |-> approved] /\ past = [k \in Section |-> <<>>]
      /\ pending = [k \in Section |-> {}] /\ updates = {}
      /\ approvals = [k \in Section |-> {1}] /\ align = Idle
  BY DEF AlignmentInit
<1>2. /\ approved \in Gate /\ approved.status = "APPROVED" /\ approved.artifact = 1
      /\ approved.updated = 0 /\ approved.resume = NoStatus
  <2>1. draft \in Gate /\ draft.status = "DRAFT" /\ draft.artifact = 1
    BY DraftGateType, LimitAssumption DEF DraftGate
  <2>2. TargetStatus(draft, "SUBMIT") = "PENDING_APPROVAL" /\ "PENDING_APPROVAL" # NoStatus
    BY <2>1, SubmittedDraft DEF NoStatus
  <2>3. sent \in Gate
    BY <2>1, <2>2, TransitionedType DEF Actions
  <2> HIDE DEF draft
  <2>4. sent.status = "PENDING_APPROVAL" /\ sent.artifact = 1
    BY <2>1, <2>2 DEF Transitioned, Gate
  <2> HIDE DEF sent
  <2>5. TargetStatus(sent, "APPROVE") = "APPROVED" /\ "APPROVED" # NoStatus
    BY <2>4 DEF TargetStatus, NoStatus
  <2>6. approved \in Gate
    BY <2>3, <2>5, TransitionedType DEF Actions
  <2>7. ResumeStatus(sent, "APPROVE") = NoStatus
    BY DEF ResumeStatus
  <2>8. /\ approved.status = "APPROVED" /\ approved.artifact = 1
        /\ approved.updated = 0 /\ approved.resume = NoStatus
    BY <2>3, <2>4, <2>5, <2>7 DEF Transitioned, Gate
  <2> QED BY <2>6, <2>8
<1> HIDE DEF approved
<1>3. \A k \in Section : first(k) \in Version(k) /\ first(k).on \in [Anchors[k] -> {1}]
  BY DEF Version
<1> HIDE DEF first
<1>4. /\ DOMAIN lines = Section
      /\ \A k \in Section : lines[k] = <<first(k)>>
  BY <1>1
<1>5. \A k \in Section : Len(lines[k]) = 1 /\ DOMAIN lines[k] = {1} /\ lines[k][1] = first(k)
  BY <1>4
<1>6. \A k \in Section : Cur(k) = 1
  BY <1>5 DEF Cur
<1>7. LinesOK
  <2>1. ASSUME NEW S, NEW x \in S PROVE <<x>> \in Seq(S) /\ <<x>> # <<>>
    OBVIOUS
  <2>2. \A k \in Section : lines[k] \in Seq(Version(k)) /\ lines[k] # <<>>
    BY <1>3, <1>4, <2>1
  <2> QED BY <1>4, <2>2 DEF LinesOK
<1>8. GatesOK
  BY <1>1, <1>2, <1>6 DEF GatesOK, NoStatus
<1>9. WaitingOK /\ ApprovalsOK
  BY <1>1, <1>6 DEF WaitingOK, ApprovalsOK
<1>10. ApprovalsAgree
  BY <1>1, <1>2, <1>6 DEF ApprovalsAgree, Approved
<1>11. AnchorsKnown
  <2>1. \A k \in Section : \A u \in Anchors[k] : u \in Section /\ first(k).on[u] = 1
    BY <1>3, SectionFacts
  <2> QED BY <1>5, <1>6, <2>1 DEF AnchorsKnown
<1>12. RestsOnApproved
  BY <1>1, <1>3, <1>5, SectionFacts DEF RestsOnApproved, Later
<1>13. AlignOK /\ ReadIsApproved
  BY <1>1 DEF AlignOK, ReadIsApproved, Idle, Request, Positions
<1> QED BY <1>7, <1>8, <1>9, <1>10, <1>11, <1>12, <1>13 DEF SectionsInv, StoredInv

LEMMA StutterKeeps ==
  ASSUME SectionsInv, UNCHANGED alignmentVars
  PROVE  SectionsInv'
<1>1. StoredInv'
  BY StoredUnchanged DEF SectionsInv, alignmentVars, stored
<1>2. AlignOK' /\ ReadIsApproved'
  BY DEF SectionsInv, AlignOK, ReadIsApproved, alignmentVars, stored, Key, Cur
<1> QED BY <1>1, <1>2 DEF SectionsInv

LEMMA SectionsInvariant == AlignmentSpec => []SectionsInv
<1>1. ASSUME SectionsInv, [AlignmentNext]_alignmentVars PROVE SectionsInv'
  BY <1>1, OwnerKeeps, LearningKeeps, AlignmentKeeps, StutterKeeps
     DEF AlignmentNext, SectionRequest, LearningRequest
<1> QED BY <1>1, SectionsStart, PTL DEF AlignmentSpec

(* The state of the alignment keeps its type: no version, gate, event or   *)
(* request is built that is none, for any limits on the versions.          *)
THEOREM AlignmentTypeCorrect == AlignmentSpec => []TypeOK
<1>1. ASSUME SectionsInv PROVE TypeOK
  <2>1. \A k \in Section :
          /\ lines[k] \in Seq(Version(k)) /\ lines[k] # <<>> /\ DOMAIN lines[k] = 1..Cur(k)
    BY <1>1, VersionFacts DEF SectionsInv, StoredInv, LinesOK
  <2>2. \A k \in Section :
          /\ gateOf[k] \in Gate /\ past[k] \in Seq(Event)
          /\ pending[k] \subseteq [base: 1..Cur(k), of: Parts(k)]
          /\ approvals[k] \subseteq DOMAIN lines[k]
    BY <1>1, <2>1 DEF SectionsInv, StoredInv, GatesOK, WaitingOK, Change, ApprovalsOK
  <2>3. align \in Request /\ (align.pc # "idle" => align.todo # <<>>)
    BY <1>1 DEF SectionsInv, AlignOK
  <2>4. /\ align.pc \in Positions /\ align.read \in Nat /\ align.ready \in BOOLEAN
        /\ align.alone \in BOOLEAN /\ align.edited \subseteq Section
    BY <2>3 DEF Request
  <2>5. /\ align.pc \in {"idle", "section", "budget", "upstream", "realign", "submit", "decide"}
        /\ align.pc # "idle" => align.todo # <<>>
    BY <2>3, <2>4 DEF Positions
  <2>6. ASSUME NEW k \in Section
        PROVE  /\ lines[k] \in Seq(Version(k)) /\ lines[k] # <<>>
               /\ gateOf[k] \in Gate
               /\ past[k] \in Seq(Event)
               /\ pending[k] \subseteq [base: 1..Cur(k), of: Parts(k)]
               /\ approvals[k] \subseteq DOMAIN lines[k]
    BY <2>1, <2>2
  <2>7. updates \subseteq Twins
    BY <1>1 DEF SectionsInv, StoredInv, WaitingOK
  <2> QED BY <2>4, <2>5, <2>6, <2>7, Zenon DEF TypeOK
<1> QED BY <1>1, SectionsInvariant, PTL

(* However the owner's requests and an alignment interleave, no version    *)
(* rests on a version of its source that was never approved: what an       *)
(* alignment has read and found ready stays approved until it is used.     *)
THEOREM VersionsRestOnApproved == AlignmentSpec => []RestsOnApproved
<1>1. SectionsInv => RestsOnApproved
  BY DEF SectionsInv, StoredInv
<1> QED BY <1>1, SectionsInvariant, PTL

-----------------------------------------------------------------------------

(***************************************************************************)
(* What is behind.                                                         *)
(***************************************************************************)

LEMMA DerivedFacts ==
  ASSUME NEW k, NEW behind \in BOOLEAN, NEW upstream
  PROVE  LET section == Derived(k, behind, upstream)
         IN  /\ Behind(section) <=> Approved(k) /\ behind
             /\ (section.state = "FINE") <=> Approved(k) /\ ~behind
             /\ (section.state = "IN_PROGRESS") <=> ~Approved(k)
             /\ section.blocked <=> Behind(section) /\ (~Ready(upstream) \/ Obstructed(k))
BY DEF Derived, Behind

(* Why a section is behind, and what holds it back.                        *)
Reason ==
  [brief |-> FALSE,
   team |-> Moved("team", "brief"),
   twins |-> Moved("twins", "brief") \/ Moved("twins", "team") \/ IsBehind("team"),
   requirements |-> \/ \E u \in Anchors["requirements"] : Moved("requirements", u)
                    \/ IsBehind("team") \/ IsBehind("twins"),
   design |-> \/ Moved("design", "requirements")
              \/ IsBehind("requirements")
              \/ \E u \in {"team", "twins"} : Anchor("design", u) # Anchor("requirements", u)
              \/ Moved("design", "twins")]

Upstream == [k \in Section |-> {SectionOf[u] : u \in EarlierThan[k]}]

LEMMA SectionIs ==
  ASSUME NEW k \in Section
  PROVE  Reason[k] \in BOOLEAN /\ SectionOf[k] = Derived(k, Reason[k], Upstream[k])
<1>1. \A j \in Section, u \in Section : Moved(j, u) \in BOOLEAN
  BY DEF Moved
<1>2. \A j \in Section : IsBehind(j) \in BOOLEAN
  BY DEF IsBehind, Behind
<1>3. /\ SectionOf["brief"] = BriefSection /\ SectionOf["team"] = TeamSection
      /\ SectionOf["twins"] = TwinsSection /\ SectionOf["requirements"] = RequirementsSection
      /\ SectionOf["design"] = DesignSection
  BY DEF SectionOf
<1>4. CASE k = "brief"
  <2>1. Upstream["brief"] = {} /\ Reason["brief"] = FALSE
    BY SectionFacts DEF Upstream, EarlierThan, Reason
  <2> QED BY <1>3, <1>4, <2>1 DEF BriefSection
<1>5. CASE k = "team"
  <2>1. Upstream["team"] = {BriefSection} /\ Reason["team"] = Moved("team", "brief")
    BY <1>3, SectionFacts DEF Upstream, EarlierThan, Reason
  <2> QED BY <1>1, <1>3, <1>5, <2>1, SectionFacts DEF TeamSection
<1>6. CASE k = "twins"
  <2>1. Upstream["twins"] = {BriefSection, TeamSection}
    BY <1>3, SectionFacts DEF Upstream, EarlierThan
  <2>2. Reason["twins"] = (Moved("twins", "brief") \/ Moved("twins", "team") \/ Behind(TeamSection))
    BY <1>3 DEF Reason, IsBehind
  <2>3. Reason["twins"] \in BOOLEAN
    BY <2>2
  <2> QED BY <1>3, <1>6, <2>1, <2>2, <2>3 DEF TwinsSection
<1>7. CASE k = "requirements"
  <2>1. Upstream["requirements"] = {BriefSection, TeamSection, TwinsSection}
    BY <1>3, SectionFacts DEF Upstream, EarlierThan
  <2>2. Reason["requirements"] =
          (\/ \E u \in Anchors["requirements"] : Moved("requirements", u)
           \/ Behind(TeamSection)
           \/ Behind(TwinsSection))
    BY <1>3 DEF Reason, IsBehind
  <2>3. Reason["requirements"] \in BOOLEAN
    BY <2>2
  <2>4. Anchors["requirements"] = Anchors.requirements
    OBVIOUS
  <2> QED BY <1>3, <1>7, <2>1, <2>2, <2>3, <2>4 DEF RequirementsSection
<1>8. CASE k = "design"
  <2>1. Upstream["design"] = {BriefSection, TeamSection, TwinsSection, RequirementsSection}
    BY <1>3, SectionFacts DEF Upstream, EarlierThan
  <2>2. Reason["design"] =
          (\/ Moved("design", "requirements")
           \/ Behind(RequirementsSection)
           \/ \E u \in {"team", "twins"} : Anchor("design", u) # Anchor("requirements", u)
           \/ Moved("design", "twins"))
    BY <1>3 DEF Reason, IsBehind
  <2>3. Reason["design"] \in BOOLEAN
    BY <2>2
  <2> QED BY <1>3, <1>8, <2>1, <2>2, <2>3 DEF DesignSection
<1> QED BY <1>4, <1>5, <1>6, <1>7, <1>8, SectionFacts

LEMMA StateIs ==
  ASSUME NEW k \in Section
  PROVE  /\ IsBehind(k) <=> Approved(k) /\ Reason[k]
         /\ (SectionOf[k].state = "FINE") <=> Approved(k) /\ ~IsBehind(k)
         /\ (SectionOf[k].state = "IN_PROGRESS") <=> ~Approved(k)
         /\ SectionOf[k].blocked <=> IsBehind(k) /\ (~Ready(Upstream[k]) \/ Obstructed(k))
<1>1. Reason[k] \in BOOLEAN /\ SectionOf[k] = Derived(k, Reason[k], Upstream[k])
  BY SectionIs
<1>2. ASSUME NEW behind \in BOOLEAN, NEW upstream, NEW section,
             section = Derived(k, behind, upstream)
      PROVE  /\ Behind(section) <=> Approved(k) /\ behind
             /\ (section.state = "FINE") <=> Approved(k) /\ ~Behind(section)
             /\ (section.state = "IN_PROGRESS") <=> ~Approved(k)
             /\ section.blocked <=> Behind(section) /\ (~Ready(upstream) \/ Obstructed(k))
  BY <1>2, DerivedFacts
<1> QED BY <1>1, <1>2 DEF IsBehind

(* A section that is behind and not blocked has everything before it       *)
(* approved and not blocked.                                               *)
LEMMA UnblockedIs ==
  ASSUME NEW k \in Section, IsBehind(k), ~SectionOf[k].blocked
  PROVE  /\ ~Obstructed(k)
         /\ \A u \in EarlierThan[k] : Approved(u) /\ ~SectionOf[u].blocked
<1>1. Ready(Upstream[k]) /\ ~Obstructed(k)
  BY StateIs
<1>2. \A u \in EarlierThan[k] : SectionOf[u] \in Upstream[k] /\ u \in Section
  BY SectionFacts DEF Upstream, EarlierThan
<1>3. \A u \in EarlierThan[k] : SectionOf[u].state # "IN_PROGRESS" /\ ~SectionOf[u].blocked
  BY <1>1, <1>2 DEF Ready
<1> QED BY <1>1, <1>2, <1>3, StateIs

(* With the reasons spelled out.                                           *)
WhatIsBehind ==
  /\ ~IsBehind("brief")
  /\ IsBehind("team") <=> Approved("team") /\ Moved("team", "brief")
  /\ IsBehind("twins") <=>
       Approved("twins") /\ (Moved("twins", "brief") \/ Moved("twins", "team") \/ IsBehind("team"))
  /\ IsBehind("requirements") <=>
       /\ Approved("requirements")
       /\ \/ Moved("requirements", "brief") \/ Moved("requirements", "team")
          \/ Moved("requirements", "twins") \/ IsBehind("team") \/ IsBehind("twins")
  /\ IsBehind("design") <=>
       /\ Approved("design")
       /\ \/ Moved("design", "requirements") \/ Moved("design", "twins")
          \/ IsBehind("requirements")
          \/ Anchor("design", "team") # Anchor("requirements", "team")
          \/ Anchor("design", "twins") # Anchor("requirements", "twins")

LEMMA BehindIs == WhatIsBehind
<1>1. \A k \in Section : IsBehind(k) <=> Approved(k) /\ Reason[k]
  BY StateIs
<1>2. ~Reason["brief"] /\ (Reason["team"] <=> Moved("team", "brief"))
  BY DEF Reason
<1>3. Reason["twins"] <=> Moved("twins", "brief") \/ Moved("twins", "team") \/ IsBehind("team")
  BY DEF Reason
<1>4. Reason["requirements"] <=>
        \/ Moved("requirements", "brief") \/ Moved("requirements", "team")
        \/ Moved("requirements", "twins") \/ IsBehind("team") \/ IsBehind("twins")
  <2>1. Anchors["requirements"] = {"brief", "team", "twins"}
    BY DEF Anchors
  <2> QED BY <2>1 DEF Reason
<1>5. Reason["design"] <=>
        \/ Moved("design", "requirements") \/ Moved("design", "twins")
        \/ IsBehind("requirements")
        \/ Anchor("design", "team") # Anchor("requirements", "team")
        \/ Anchor("design", "twins") # Anchor("requirements", "twins")
  BY DEF Reason
<1> QED BY <1>1, <1>2, <1>3, <1>4, <1>5, SectionFacts DEF WhatIsBehind

LEMMA BehindIsNext == WhatIsBehind'
BY BehindIs, PTL

LEMMA SourceApproved ==
  ASSUME StoredInv, NEW k \in Later, ~Moved(k, Source[k])
  PROVE  Approved(Source[k])
<1>1. k \in Section \ {"brief"} /\ Source[k] \in Section
  BY SectionFacts
<1>2. Current(k) = lines[k][Cur(k)] /\ Cur(k) \in DOMAIN lines[k]
  BY <1>1, VersionFacts DEF StoredInv
<1>3. Current(k).on[Source[k]] \in approvals[Source[k]]
  BY <1>1, <1>2 DEF StoredInv, RestsOnApproved
<1>4. Current(k).on[Source[k]] = Cur(Source[k])
  BY DEF Moved, Anchor
<1> QED BY <1>1, <1>3, <1>4 DEF StoredInv, ApprovalsAgree

(* Not behind and approved up to the Design: nothing is behind.            *)
LEMMA Chain ==
  ASSUME StoredInv, Approved("design"), ~IsBehind("design")
  PROVE  \A k \in Section : Approved(k) /\ ~IsBehind(k)
<1>1. {"team", "twins", "requirements", "design"} \subseteq Later
  BY DEF Later, Section
<1>2. /\ ~Moved("design", "requirements") /\ ~IsBehind("requirements")
  BY BehindIs DEF WhatIsBehind
<1>3. Approved("requirements")
  BY <1>1, <1>2, SourceApproved, SectionFacts
<1>4. ~Moved("requirements", "twins") /\ ~IsBehind("twins") /\ ~IsBehind("team")
  BY <1>2, <1>3, BehindIs DEF WhatIsBehind
<1>5. Approved("twins")
  BY <1>1, <1>4, SourceApproved, SectionFacts
<1>6. ~Moved("twins", "team")
  BY <1>4, <1>5, BehindIs DEF WhatIsBehind
<1>7. Approved("team")
  BY <1>1, <1>6, SourceApproved, SectionFacts
<1>8. ~Moved("team", "brief")
  BY <1>4, <1>7, BehindIs DEF WhatIsBehind
<1>9. Approved("brief")
  BY <1>1, <1>8, SourceApproved, SectionFacts
<1> QED BY <1>2, <1>3, <1>4, <1>5, <1>7, <1>9, BehindIs, SectionFacts DEF WhatIsBehind

(* A Design that is up to date has the whole chain before it approved and  *)
(* up to date: each section vouches for the one it is anchored to, because *)
(* no version rests on one that was not approved.                          *)
THEOREM FineDesignChain == AlignmentSpec => []FineDesignMeansFineChain
<1>1. ASSUME SectionsInv PROVE FineDesignMeansFineChain
  <2>1. SectionOf["design"] = DesignSection /\ "design" \in Section
    BY DEF SectionOf, Section
  <2>2. ASSUME DesignSection.state = "FINE" PROVE Approved("design") /\ ~IsBehind("design")
    BY <2>1, <2>2, StateIs
  <2>3. ASSUME DesignSection.state = "FINE" PROVE \A k \in Section : SectionOf[k].state = "FINE"
    BY <1>1, <2>2, <2>3, Chain, StateIs DEF SectionsInv
  <2> QED BY <2>3 DEF FineDesignMeansFineChain
<1> QED BY <1>1, SectionsInvariant, PTL

-----------------------------------------------------------------------------

(***************************************************************************)
(* What is left to align.                                                  *)
(***************************************************************************)

IfBehind(k) == IF IsBehind(k) THEN <<k>> ELSE <<>>

(* What is behind after a section.                                         *)
Rest ==
  [team |-> IfBehind("twins") \o IfBehind("requirements") \o IfBehind("design"),
   twins |-> IfBehind("requirements") \o IfBehind("design"),
   requirements |-> IfBehind("design"),
   design |-> <<>>]

LEMMA ConcatFacts ==
  ASSUME NEW S, NEW s \in Seq(S), NEW t \in Seq(S), NEW k \in S
  PROVE  /\ <<>> \o s = s /\ s \o <<>> = s /\ s \o t \in Seq(S)
         /\ <<k>> \o s \in Seq(S) /\ <<k>> \o s # <<>>
         /\ Head(<<k>> \o s) = k /\ Tail(<<k>> \o s) = s
<1>1. <<k>> \in Seq(S) /\ <<>> \in Seq(S)
  OBVIOUS
<1>2. <<>> \o s = s /\ s \o <<>> = s /\ s \o t \in Seq(S)
  OBVIOUS
<1>3. <<k>> \o s \in Seq(S) /\ <<k>> \o s # <<>> /\ Head(<<k>> \o s) = k
  OBVIOUS
<1>4. Tail(<<k>> \o s) = s
  OBVIOUS
<1> QED BY <1>2, <1>3, <1>4

LEMMA RestFacts ==
  /\ \A k \in Later : Rest[k] \in Seq(Later)
  /\ ToAlign = IfBehind("team") \o Rest["team"]
  /\ Rest["team"] = IfBehind("twins") \o Rest["twins"]
  /\ Rest["twins"] = IfBehind("requirements") \o Rest["requirements"]
  /\ Rest["requirements"] = IfBehind("design") \o Rest["design"]
<1>1. Later = {"team", "twins", "requirements", "design"}
  BY DEF Later, Section
<1>2. \A k \in Later : IfBehind(k) \in Seq(Later)
  BY DEF IfBehind
<1>3. /\ ToAlign = IfBehind("team") \o IfBehind("twins") \o IfBehind("requirements")
                     \o IfBehind("design")
  BY DEF ToAlign, IfBehind, IsBehind
<1>4. \A a, b, c \in Seq(Later) : (a \o b) \o c = a \o (b \o c) /\ b \o c \in Seq(Later)
  OBVIOUS
<1>5. <<>> \in Seq(Later)
  OBVIOUS
<1>6. /\ Rest["team"] = (IfBehind("twins") \o IfBehind("requirements")) \o IfBehind("design")
      /\ Rest["twins"] = IfBehind("requirements") \o IfBehind("design")
      /\ Rest["requirements"] = IfBehind("design") /\ Rest["design"] = <<>>
  BY DEF Rest
<1>7. IfBehind("design") \o <<>> = IfBehind("design")
  BY <1>1, <1>2
<1> DEFINE a == IfBehind("team")
           b == IfBehind("twins")
           c == IfBehind("requirements")
           d == IfBehind("design")
<1>8. a \in Seq(Later) /\ b \in Seq(Later) /\ c \in Seq(Later) /\ d \in Seq(Later)
  BY <1>1, <1>2
<1>9. ToAlign = ((a \o b) \o c) \o d
  BY <1>3
<1> HIDE DEF a, b, c, d
<1>10. /\ b \o c \in Seq(Later) /\ c \o d \in Seq(Later) /\ (b \o c) \o d = b \o (c \o d)
       /\ b \o (c \o d) \in Seq(Later) /\ a \o b \in Seq(Later)
       /\ ((a \o b) \o c) \o d = (a \o b) \o (c \o d)
       /\ (a \o b) \o (c \o d) = a \o (b \o (c \o d))
  <2>1. b \o c \in Seq(Later) /\ c \o d \in Seq(Later) /\ a \o b \in Seq(Later)
    BY <1>4, <1>8
  <2>2. (b \o c) \o d = b \o (c \o d) /\ b \o (c \o d) \in Seq(Later)
    BY <1>4, <1>8, <2>1
  <2>3. ((a \o b) \o c) \o d = (a \o b) \o (c \o d)
    <3> DEFINE ab == a \o b
    <3>1. ab \in Seq(Later) BY <2>1
    <3> HIDE DEF ab
    <3>2. (ab \o c) \o d = ab \o (c \o d) BY <1>4, <1>8, <3>1
    <3> QED BY <3>2 DEF ab
  <2>4. (a \o b) \o (c \o d) = a \o (b \o (c \o d))
    <3> DEFINE cd == c \o d
    <3>1. cd \in Seq(Later) BY <2>1
    <3> HIDE DEF cd
    <3>2. (a \o b) \o cd = a \o (b \o cd) BY <1>4, <1>8, <3>1
    <3> QED BY <3>2 DEF cd
  <2> QED BY <2>1, <2>2, <2>3, <2>4
<1>11. /\ Rest["team"] = b \o (c \o d) /\ Rest["twins"] = c \o d
       /\ Rest["requirements"] = d /\ Rest["design"] = <<>>
  BY <1>6, <1>10 DEF b, c, d
<1>12. ToAlign = a \o Rest["team"]
  BY <1>9, <1>10, <1>11
<1>13. Rest["team"] = b \o Rest["twins"] /\ Rest["twins"] = c \o Rest["requirements"]
  BY <1>11
<1>14. Rest["requirements"] = d \o Rest["design"]
  BY <1>7, <1>11 DEF d
<1>15. \A k \in Later : Rest[k] \in Seq(Later)
  BY <1>1, <1>5, <1>8, <1>10, <1>11
<1> QED BY <1>12, <1>13, <1>14, <1>15 DEF a, b, c, d

(* The first section to align is behind, nothing before it is, and what    *)
(* follows is what is behind after it.                                     *)
LEMMA HeadOfToAlign ==
  ASSUME NEW k, ToAlign # <<>>, k = Head(ToAlign)
  PROVE  /\ k \in Later /\ IsBehind(k) /\ \A u \in EarlierThan[k] : ~IsBehind(u)
         /\ Tail(ToAlign) = Rest[k]
<1>1. Later = {"team", "twins", "requirements", "design"}
  BY DEF Later, Section
<1>2. \A j \in Later : /\ IsBehind(j) => IfBehind(j) = <<j>>
                       /\ ~IsBehind(j) => IfBehind(j) = <<>>
  BY DEF IfBehind
<1>3. /\ EarlierThan["team"] = {"brief"} /\ EarlierThan["twins"] = {"brief", "team"}
      /\ EarlierThan["requirements"] = {"brief", "team", "twins"}
      /\ EarlierThan["design"] = {"brief", "team", "twins", "requirements"}
  BY DEF EarlierThan
<1>4. \A j \in Later : /\ Rest[j] \in Seq(Later) /\ <<>> \o Rest[j] = Rest[j]
                       /\ Head(<<j>> \o Rest[j]) = j /\ Tail(<<j>> \o Rest[j]) = Rest[j]
  BY RestFacts, ConcatFacts
<1>5. Rest["design"] = <<>>
  BY DEF Rest
<1>6. CASE IsBehind("team")
  BY <1>1, <1>2, <1>3, <1>4, <1>6, RestFacts, BehindIs DEF WhatIsBehind
<1>7. CASE ~IsBehind("team") /\ IsBehind("twins")
  <2>1. ToAlign = <<"twins">> \o Rest["twins"]
    BY <1>1, <1>2, <1>4, <1>7, RestFacts
  <2> QED BY <1>1, <1>3, <1>4, <1>7, <2>1, BehindIs DEF WhatIsBehind
<1>8. CASE ~IsBehind("team") /\ ~IsBehind("twins") /\ IsBehind("requirements")
  <2>1. ToAlign = Rest["twins"]
    BY <1>1, <1>2, <1>4, <1>8, RestFacts
  <2>2. ToAlign = <<"requirements">> \o Rest["requirements"]
    BY <1>1, <1>2, <1>4, <1>8, <2>1, RestFacts
  <2> QED BY <1>1, <1>3, <1>4, <1>8, <2>2, BehindIs DEF WhatIsBehind
<1>9. CASE ~IsBehind("team") /\ ~IsBehind("twins") /\ ~IsBehind("requirements")
  <2>1. ToAlign = Rest["twins"]
    BY <1>1, <1>2, <1>4, <1>9, RestFacts
  <2>2. ToAlign = Rest["requirements"]
    BY <1>1, <1>2, <1>4, <1>9, <2>1, RestFacts
  <2>3. CASE IsBehind("design")
    <3>1. ToAlign = <<"design">> \o Rest["design"]
      BY <1>1, <1>2, <2>2, <2>3, RestFacts
    <3> QED BY <1>1, <1>3, <1>4, <1>9, <2>3, <3>1, BehindIs DEF WhatIsBehind
  <2>4. CASE ~IsBehind("design")
    BY <1>1, <1>2, <1>4, <1>5, <2>2, <2>4, RestFacts
  <2> QED BY <2>3, <2>4
<1> QED BY <1>6, <1>7, <1>8, <1>9

(* With nothing behind up to a section, what is behind after it is left.   *)
LEMMA ToAlignIs ==
  ASSUME NEW k \in Later, ~IsBehind(k), \A u \in EarlierThan[k] : ~IsBehind(u)
  PROVE  ToAlign = Rest[k]
<1>1. Later = {"team", "twins", "requirements", "design"}
  BY DEF Later, Section
<1>2. \A j \in Later : ~IsBehind(j) => IfBehind(j) = <<>>
  BY DEF IfBehind
<1>3. /\ EarlierThan["team"] = {"brief"} /\ EarlierThan["twins"] = {"brief", "team"}
      /\ EarlierThan["requirements"] = {"brief", "team", "twins"}
      /\ EarlierThan["design"] = {"brief", "team", "twins", "requirements"}
  BY DEF EarlierThan
<1>4. \A j \in Later : <<>> \o Rest[j] = Rest[j]
  BY RestFacts, ConcatFacts
<1>5. ~IsBehind("team") => ToAlign = Rest["team"]
  BY <1>1, <1>2, <1>4, RestFacts
<1>6. ~IsBehind("twins") => Rest["team"] = Rest["twins"]
  BY <1>1, <1>2, <1>4, RestFacts
<1>7. ~IsBehind("requirements") => Rest["twins"] = Rest["requirements"]
  BY <1>1, <1>2, <1>4, RestFacts
<1>8. ~IsBehind("design") => Rest["requirements"] = Rest["design"]
  BY <1>1, <1>2, <1>4, RestFacts
<1>9. CASE k = "team" BY <1>5, <1>9
<1>10. CASE k = "twins" BY <1>3, <1>5, <1>6, <1>10
<1>11. CASE k = "requirements" BY <1>3, <1>5, <1>6, <1>7, <1>11
<1>12. CASE k = "design" BY <1>3, <1>5, <1>6, <1>7, <1>8, <1>12
<1> QED BY <1>1, <1>9, <1>10, <1>11, <1>12

LEMMA ToAlignIsNext ==
  (\A k \in Later :
     ~IsBehind(k) /\ (\A u \in EarlierThan[k] : ~IsBehind(u)) => ToAlign = Rest[k])'
<1>1. \A k \in Later :
        ~IsBehind(k) /\ (\A u \in EarlierThan[k] : ~IsBehind(u)) => ToAlign = Rest[k]
  BY ToAlignIs
<1> QED BY <1>1, PTL

-----------------------------------------------------------------------------

(***************************************************************************)
(* What the steps of an alignment do to what is behind.                    *)
(***************************************************************************)

LEMMA SameVersions ==
  ASSUME UNCHANGED lines
  PROVE  /\ \A k : Cur(k)' = Cur(k) /\ Current(k)' = Current(k)
         /\ \A k, u : Moved(k, u)' = Moved(k, u) /\ Anchor(k, u)' = Anchor(k, u)
         /\ \A k, v : AnchoredTo(k, v)' = AnchoredTo(k, v)
<1>1. \A k : Cur(k)' = Cur(k)
  BY DEF Cur
<1>2. \A k : Current(k)' = Current(k)
  BY <1>1 DEF Current
<1>3. \A k, u : Anchor(k, u)' = Anchor(k, u)
  BY <1>2 DEF Anchor
<1>4. \A k, u : Moved(k, u)' = Moved(k, u)
  BY <1>1, <1>3 DEF Moved
<1>5. \A k, v : AnchoredTo(k, v)' = AnchoredTo(k, v)
  BY <1>1 DEF AnchoredTo
<1> QED BY <1>1, <1>2, <1>3, <1>4, <1>5

LEMMA SameSections ==
  ASSUME UNCHANGED <<lines, gateOf, pending>>
  PROVE  SectionOf' = SectionOf /\ ToAlign' = ToAlign /\ UpstreamReady' = UpstreamReady
<1>1. /\ \A k : Cur(k)' = Cur(k) /\ Current(k)' = Current(k)
      /\ \A k, u : Moved(k, u)' = Moved(k, u) /\ Anchor(k, u)' = Anchor(k, u)
      /\ \A k, v : AnchoredTo(k, v)' = AnchoredTo(k, v)
  BY SameVersions
<1>2. \A k : Approved(k)' = Approved(k) /\ RevisionPending(k)' = RevisionPending(k)
  BY <1>1 DEF Approved, RevisionPending
<1>3. \A k, u : MadeFor(k, u)' = MadeFor(k, u)
  BY <1>1 DEF MadeFor
<1>4. \A u, v, w : Lost(u, v, w)' = Lost(u, v, w)
  BY DEF Lost
<1>5. \A k, on : Fits(k, on)' = Fits(k, on)
  BY <1>3, <1>4 DEF Fits
<1>6. \A k : Obstructed(k)' = Obstructed(k)
  BY <1>1, <1>2, <1>5 DEF Obstructed
<1>7. \A k, behind, upstream : Derived(k, behind, upstream)' = Derived(k, behind, upstream)
  BY <1>2, <1>6 DEF Derived
<1>8. BriefSection' = BriefSection /\ TeamSection' = TeamSection
  BY <1>1, <1>7 DEF BriefSection, TeamSection
<1>9. TwinsSection' = TwinsSection
  BY <1>1, <1>7, <1>8 DEF TwinsSection
<1>10. RequirementsSection' = RequirementsSection
  BY <1>1, <1>7, <1>8, <1>9 DEF RequirementsSection
<1>11. DesignSection' = DesignSection
  BY <1>1, <1>7, <1>8, <1>9, <1>10 DEF DesignSection
<1>12. SectionOf' = SectionOf
  BY <1>8, <1>9, <1>10, <1>11 DEF SectionOf
<1>13. ToAlign' = ToAlign
  BY <1>12 DEF ToAlign
<1>14. UpstreamReady' = UpstreamReady
  BY <1>1, <1>2 DEF UpstreamReady, TeamReady, TwinsReady
<1> QED BY <1>12, <1>13, <1>14

(* A gate that moves while the versions stand: the sections before it are  *)
(* as they were, and it is the only one that may be behind or not.         *)
LEMMA GateMoves ==
  ASSUME NEW k \in Later, UNCHANGED lines, ~IsBehind(k), ~IsBehind(k)',
         \A j \in Section \ {k} : gateOf'[j] = gateOf[j]
  PROVE  \A j \in Section : IsBehind(j)' = IsBehind(j)
<1>1. \A j, u : Moved(j, u)' = Moved(j, u) /\ Anchor(j, u)' = Anchor(j, u)
  BY SameVersions
<1>2. \A j \in Section \ {k} : Approved(j)' = Approved(j)
  BY SameVersions DEF Approved
<1>3. WhatIsBehind /\ WhatIsBehind' /\ k \in Section
  BY BehindIs, BehindIsNext, SectionFacts
<1>4. \A j \in Section : IsBehind(j) \in BOOLEAN
  BY DEF IsBehind, Behind
<1>5. \A j \in Section : IsBehind(j)' \in BOOLEAN
  BY DEF IsBehind, Behind
<1>6. IsBehind("brief")' = IsBehind("brief")
  BY <1>3, <1>4, <1>5, SectionFacts DEF WhatIsBehind
<1>7. IsBehind("team")' = IsBehind("team")
  BY <1>1, <1>2, <1>3, <1>4, <1>5, SectionFacts DEF WhatIsBehind
<1>8. IsBehind("twins")' = IsBehind("twins")
  BY <1>1, <1>2, <1>3, <1>4, <1>5, <1>7, SectionFacts DEF WhatIsBehind
<1>9. IsBehind("requirements")' = IsBehind("requirements")
  BY <1>1, <1>2, <1>3, <1>4, <1>5, <1>7, <1>8, SectionFacts DEF WhatIsBehind
<1>10. IsBehind("design")' = IsBehind("design")
  BY <1>1, <1>2, <1>3, <1>4, <1>5, <1>9, SectionFacts DEF WhatIsBehind
<1> QED BY <1>6, <1>7, <1>8, <1>9, <1>10, SectionFacts

LEMMA EarlierFacts ==
  /\ EarlierThan["brief"] = {} /\ EarlierThan["team"] = {"brief"}
  /\ EarlierThan["twins"] = {"brief", "team"}
  /\ EarlierThan["requirements"] = {"brief", "team", "twins"}
  /\ EarlierThan["design"] = {"brief", "team", "twins", "requirements"}
  /\ Later = {"team", "twins", "requirements", "design"}
  /\ \A k \in Section : /\ EarlierThan[k] \subseteq Section \ {k}
                        /\ Anchors[k] \subseteq EarlierThan[k]
  /\ \A k \in Later : Source[k] \in EarlierThan[k]
BY DEF EarlierThan, Later, Section, Anchors, Source

(* A section that gets the anchors of a re-anchoring while everything      *)
(* before it is up to date is up to date.                                  *)
LEMMA RealignedIsFine ==
  ASSUME LinesOK, AnchorsKnown, NEW k \in Later,
         \A u \in EarlierThan[k] : Approved(u) /\ ~IsBehind(u),
         Current(k).on = AnchoredTo(k, Cur(Source[k]))
  PROVE  ~IsBehind(k)
<1>1. \A j \in Section : Cur(j) \in Nat /\ Cur(j) >= 1
  BY VersionFacts
<1>2. Cur(Source[k]) \in 1..Cur(Source[k]) /\ Source[k] \in Section
  BY <1>1, SectionFacts
<1>3. Anchor(k, Source[k]) = Cur(Source[k])
  BY <1>2, AnchoredToFacts DEF Anchor
<1>4. \A u \in Anchors[k] : u # Source[k] /\ k # "twins" => Anchor(k, u) = Anchor(Source[k], u)
  BY DEF AnchoredTo, Anchor, Current
<1>5. \A u \in Anchors[k] : u # Source[k] /\ k = "twins" => Anchor(k, u) = Cur(u)
  BY DEF AnchoredTo, Anchor
<1>6. /\ Anchors["twins"] = {"brief", "team"}
      /\ Anchors["requirements"] = {"brief", "team", "twins"}
      /\ Anchors["design"] = {"team", "twins", "requirements"}
  BY DEF Anchors
<1>7. CASE k = "team"
  BY <1>3, <1>7, BehindIs, SectionFacts DEF WhatIsBehind, Moved
<1>8. CASE k = "twins"
  <2>1. ~Moved("twins", "team") /\ ~Moved("twins", "brief") /\ ~IsBehind("team")
    BY <1>3, <1>5, <1>6, <1>8, SectionFacts, EarlierFacts DEF Moved
  <2> QED BY <1>8, <2>1, BehindIs DEF WhatIsBehind
<1>9. CASE k = "requirements"
  <2>1. /\ Approved("twins") /\ ~IsBehind("twins") /\ ~IsBehind("team")
    BY <1>9, EarlierFacts
  <2>2. ~Moved("twins", "team") /\ ~Moved("twins", "brief")
    BY <2>1, BehindIs DEF WhatIsBehind
  <2>3. /\ ~Moved("requirements", "twins") /\ ~Moved("requirements", "brief")
        /\ ~Moved("requirements", "team")
    BY <1>3, <1>4, <1>6, <1>9, <2>2, SectionFacts DEF Moved
  <2> QED BY <1>9, <2>1, <2>3, BehindIs DEF WhatIsBehind
<1>10. CASE k = "design"
  <2>1. Approved("requirements") /\ ~IsBehind("requirements")
    BY <1>10, EarlierFacts
  <2>2. ~Moved("requirements", "twins")
    BY <2>1, BehindIs DEF WhatIsBehind
  <2>3. /\ Anchor("design", "team") = Anchor("requirements", "team")
        /\ Anchor("design", "twins") = Anchor("requirements", "twins")
        /\ ~Moved("design", "requirements")
    BY <1>3, <1>4, <1>6, <1>10, SectionFacts DEF Moved
  <2>4. ~Moved("design", "twins")
    BY <2>2, <2>3 DEF Moved
  <2> QED BY <1>10, <2>1, <2>3, <2>4, BehindIs DEF WhatIsBehind
<1> QED BY <1>7, <1>8, <1>9, <1>10, EarlierFacts

LEMMA RealignedIsFineNext ==
  (\A k \in Later :
     /\ LinesOK /\ AnchorsKnown /\ \A u \in EarlierThan[k] : Approved(u) /\ ~IsBehind(u)
     /\ Current(k).on = AnchoredTo(k, Cur(Source[k]))
     => ~IsBehind(k))'
<1>1. \A k \in Later :
        /\ LinesOK /\ AnchorsKnown /\ \A u \in EarlierThan[k] : Approved(u) /\ ~IsBehind(u)
        /\ Current(k).on = AnchoredTo(k, Cur(Source[k]))
        => ~IsBehind(k)
  BY RealignedIsFine
<1> QED BY <1>1, PTL

(* Re-anchoring a section that is behind, the first one that is, takes it  *)
(* off what is behind and puts nothing on: what is behind after it was so  *)
(* before.                                                                 *)
LEMMA RealignSettles ==
  ASSUME StoredInv, NEW k \in Later, IsBehind(k),
         \A u \in EarlierThan[k] : ~IsBehind(u),
         NEW version \in Version(k), lines' = Appended(k, version), UNCHANGED gateOf
  PROVE  /\ ~IsBehind(k)' /\ \A j \in Section \ {k} : IsBehind(j)' = IsBehind(j)
         /\ \A j \in Section \ {k} : Approved(j)' = Approved(j)
<1>1. LinesOK /\ k \in Section
  BY SectionFacts DEF StoredInv
<1>2. /\ Cur(k)' = Cur(k) + 1 /\ lines'[k][Cur(k) + 1] = version
      /\ \A j \in Section \ {k} : lines'[j] = lines[j] /\ Cur(j)' = Cur(j)
  BY <1>1, AppendedFacts
<1>3. \A j \in Section : Cur(j) \in Nat /\ Cur(j) >= 1
  BY <1>1, VersionFacts
<1>4. \A j \in Section \ {k} : Current(j)' = Current(j) /\ Approved(j)' = Approved(j)
  BY <1>2 DEF Current, Approved
<1>5. \A j \in Section \ {k} : \A u : Anchor(j, u)' = Anchor(j, u)
  BY <1>4 DEF Anchor
<1>6. \A j, u \in Section \ {k} : Moved(j, u)' = Moved(j, u)
  BY <1>2, <1>5 DEF Moved
<1>7. \A j \in Section \ {k} : k \in Anchors[j] => Moved(j, k)'
  <2> SUFFICES ASSUME NEW j \in Section \ {k}, k \in Anchors[j] PROVE Moved(j, k)'
    OBVIOUS
  <2>1. Anchor(j, k) \in 1..Cur(k)
    <3>1. Cur(j) \in 1..Cur(j) /\ Current(j) = lines[j][Cur(j)]
      BY <1>1, <1>3, VersionFacts
    <3> QED BY <3>1 DEF StoredInv, AnchorsKnown, Anchor
  <2> QED BY <1>1, <1>2, <1>3, <1>5, <2>1 DEF Moved
<1>8. ~Approved(k)'
  <2>1. gateOf[k].artifact \in 1..Cur(k) /\ gateOf'[k] = gateOf[k]
    BY <1>1, GateFacts
  <2> QED BY <1>1, <1>2, <1>3, <2>1 DEF Approved
<1>9. WhatIsBehind /\ WhatIsBehind'
  BY BehindIs, BehindIsNext
<1>10. \A j \in Section : IsBehind(j) \in BOOLEAN
  BY DEF IsBehind, Behind
<1>11. \A j \in Section : IsBehind(j)' \in BOOLEAN
  BY DEF IsBehind, Behind
<1>12. Approved("design") => IsBehind("design")
  BY <1>1, Chain
<1>13. Approved(k)
  BY <1>1, <1>9, SectionFacts DEF WhatIsBehind
<1>14. ~IsBehind(k)'
  BY <1>1, <1>8, <1>9, SectionFacts DEF WhatIsBehind
<1>15. ASSUME k = "team" PROVE \A j \in Section \ {k} : IsBehind(j)' = IsBehind(j)
  <2>1. IsBehind("twins")' = IsBehind("twins")
    <3>1. Moved("twins", "team")' /\ Approved("twins")' = Approved("twins")
      BY <1>4, <1>7, <1>15, SectionFacts DEF Anchors
    <3> QED BY <1>9, <1>10, <1>11, <1>15, <3>1, SectionFacts DEF WhatIsBehind
  <2>2. IsBehind("requirements")' = IsBehind("requirements")
    <3>1. Moved("requirements", "team")' /\ Approved("requirements")' = Approved("requirements")
      BY <1>4, <1>7, <1>15, SectionFacts DEF Anchors
    <3> QED BY <1>9, <1>10, <1>11, <1>15, <3>1, SectionFacts DEF WhatIsBehind
  <2>3. IsBehind("design")' = IsBehind("design")
    <3>1. /\ Approved("design")' = Approved("design")
          /\ Moved("design", "requirements")' = Moved("design", "requirements")
          /\ Moved("design", "twins")' = Moved("design", "twins")
          /\ \A u : /\ Anchor("design", u)' = Anchor("design", u)
                    /\ Anchor("requirements", u)' = Anchor("requirements", u)
      BY <1>4, <1>5, <1>6, <1>15, SectionFacts
    <3> QED BY <1>9, <1>10, <1>11, <2>2, <3>1, SectionFacts DEF WhatIsBehind
  <2>4. IsBehind("brief")' = IsBehind("brief")
    BY <1>9, <1>10, <1>11, SectionFacts DEF WhatIsBehind
  <2> QED BY <1>15, <2>1, <2>2, <2>3, <2>4, SectionFacts
<1>16. ASSUME k = "twins" PROVE \A j \in Section \ {k} : IsBehind(j)' = IsBehind(j)
  <2>1. IsBehind("team")' = IsBehind("team")
    <3>1. Moved("team", "brief")' = Moved("team", "brief") /\ Approved("team")' = Approved("team")
      BY <1>4, <1>6, <1>16, SectionFacts
    <3> QED BY <1>9, <1>10, <1>11, <3>1, SectionFacts DEF WhatIsBehind
  <2>2. IsBehind("requirements")' = IsBehind("requirements")
    <3>1. Moved("requirements", "twins")' /\ Approved("requirements")' = Approved("requirements")
      BY <1>4, <1>7, <1>16, SectionFacts DEF Anchors
    <3> QED BY <1>9, <1>10, <1>11, <1>16, <3>1, SectionFacts DEF WhatIsBehind
  <2>3. IsBehind("design")' = IsBehind("design")
    <3>1. Moved("design", "twins")' /\ Approved("design")' = Approved("design")
      BY <1>4, <1>7, <1>16, SectionFacts DEF Anchors
    <3> QED BY <1>9, <1>10, <1>11, <1>12, <3>1, SectionFacts DEF WhatIsBehind
  <2>4. IsBehind("brief")' = IsBehind("brief")
    BY <1>9, <1>10, <1>11, SectionFacts DEF WhatIsBehind
  <2> QED BY <1>16, <2>1, <2>2, <2>3, <2>4, SectionFacts
<1>17. ASSUME k = "requirements" \/ k = "design"
       PROVE  \A j \in {"brief", "team", "twins"} : IsBehind(j)' = IsBehind(j)
  <2>1. IsBehind("team")' = IsBehind("team")
    <3>1. Moved("team", "brief")' = Moved("team", "brief") /\ Approved("team")' = Approved("team")
      BY <1>4, <1>6, <1>17, SectionFacts
    <3> QED BY <1>9, <1>10, <1>11, <3>1, SectionFacts DEF WhatIsBehind
  <2>2. IsBehind("twins")' = IsBehind("twins")
    <3>1. /\ Moved("twins", "brief")' = Moved("twins", "brief")
          /\ Moved("twins", "team")' = Moved("twins", "team")
          /\ Approved("twins")' = Approved("twins")
      BY <1>4, <1>6, <1>17, SectionFacts
    <3> QED BY <1>9, <1>10, <1>11, <2>1, <3>1, SectionFacts DEF WhatIsBehind
  <2>3. IsBehind("brief")' = IsBehind("brief")
    BY <1>9, <1>10, <1>11, SectionFacts DEF WhatIsBehind
  <2> QED BY <2>1, <2>2, <2>3
<1>18. ASSUME k = "requirements" PROVE \A j \in Section \ {k} : IsBehind(j)' = IsBehind(j)
  <2>1. IsBehind("design")' = IsBehind("design")
    <3>1. Moved("design", "requirements")' /\ Approved("design")' = Approved("design")
      BY <1>4, <1>7, <1>18, SectionFacts DEF Anchors
    <3> QED BY <1>9, <1>10, <1>11, <1>12, <3>1, SectionFacts DEF WhatIsBehind
  <2> QED BY <1>17, <1>18, <2>1, SectionFacts
<1>19. ASSUME k = "design" PROVE \A j \in Section \ {k} : IsBehind(j)' = IsBehind(j)
  <2>1. IsBehind("requirements")' = IsBehind("requirements")
    <3>1. /\ \A u \in {"brief", "team", "twins"} :
               Moved("requirements", u)' = Moved("requirements", u)
          /\ Approved("requirements")' = Approved("requirements")
      BY <1>4, <1>6, <1>19, SectionFacts
    <3> QED BY <1>9, <1>10, <1>11, <1>17, <1>19, <3>1, SectionFacts DEF WhatIsBehind
  <2> QED BY <1>17, <1>19, <2>1, SectionFacts
<1> QED BY <1>4, <1>14, <1>15, <1>16, <1>18, <1>19, EarlierFacts

-----------------------------------------------------------------------------

(***************************************************************************)
(* An alignment with nobody in between.                                    *)
(***************************************************************************)

AtWork == align.pc \in {"section", "budget", "upstream", "realign"}

(* The section at work, until it is re-anchored.                           *)
LEMMA KeyAtWork ==
  ASSUME SectionsInv, AloneInv, align.alone, AtWork
  PROVE  /\ Key \in Later /\ IsBehind(Key) /\ Approved(Key)
         /\ \A u \in EarlierThan[Key] : ~IsBehind(u)
         /\ ToAlign = align.todo /\ Tail(align.todo) = Rest[Key]
<1>1. ToAlign = align.todo /\ align.todo # <<>>
  BY DEF AtWork, AloneInv, TodoIsBehind, SectionsInv, AlignOK
<1>2. Key = Head(ToAlign)
  BY <1>1 DEF Key
<1>3. /\ Key \in Later /\ IsBehind(Key) /\ \A u \in EarlierThan[Key] : ~IsBehind(u)
      /\ Tail(ToAlign) = Rest[Key]
  BY <1>1, <1>2, HeadOfToAlign
<1>4. Approved(Key)
  BY <1>3, StateIs, SectionFacts
<1> QED BY <1>1, <1>3, <1>4

(* What the derivation calls unblocked, the service that re-anchors takes, *)
(* but for twins with an update that waits.                                *)
LEMMA UnblockedCanRealign ==
  ASSUME StoredInv, NEW k \in Later, IsBehind(k), ~SectionOf[k].blocked,
         \A u \in EarlierThan[k] : ~IsBehind(u)
  PROVE  /\ UpstreamReady[k] /\ \A u \in EarlierThan[k] : Approved(u)
         /\ CanRealign(k, Cur(Source[k]), UpstreamReady[k]) <=> ~(k = "twins" /\ updates # {})
<1>1. k \in Section /\ ~Obstructed(k) /\ \A u \in EarlierThan[k] : Approved(u)
  BY UnblockedIs, SectionFacts
<1>2. UpstreamReady[k]
  <2>1. CASE k = "team" BY <1>1, <2>1, EarlierFacts, SectionFacts DEF UpstreamReady
  <2>2. ASSUME Approved("brief"), Approved("team"), ~IsBehind("team") PROVE TeamReady
    BY <2>2, BehindIs DEF WhatIsBehind, TeamReady
  <2>3. CASE k = "twins"
    <3>1. TeamReady BY <1>1, <2>2, <2>3, EarlierFacts
    <3> QED BY <2>3, <3>1, SectionFacts DEF UpstreamReady
  <2>4. CASE k = "requirements"
    <3>1. TeamReady BY <1>1, <2>2, <2>4, EarlierFacts
    <3>2. Approved("twins") /\ ~IsBehind("twins") BY <1>1, <2>4, EarlierFacts
    <3>3. TwinsReady BY <3>1, <3>2, BehindIs DEF WhatIsBehind, TwinsReady
    <3> QED BY <2>4, <3>3, SectionFacts DEF UpstreamReady
  <2>5. CASE k = "design" BY <1>1, <2>5, EarlierFacts, SectionFacts DEF UpstreamReady
  <2> QED BY <2>1, <2>3, <2>4, <2>5, EarlierFacts
<1>3. Current(k).on # AnchoredTo(k, Cur(Source[k]))
  BY <1>1, RealignedIsFine DEF StoredInv
<1>4. k = "team" => Approved("team")
  BY StateIs, SectionFacts
<1>5. Fits(k, AnchoredTo(k, Cur(Source[k]))) /\ ~RevisionPending(k)
  BY <1>1 DEF Obstructed
<1>6. ChangeWaits(k) <=> k = "twins" /\ updates # {}
  BY <1>5 DEF ChangeWaits
<1> QED BY <1>1, <1>2, <1>3, <1>4, <1>5, <1>6 DEF CanRealign

LEMMA AlonePromises ==
  ASSUME SectionsInv, AloneInv, align.alone
  PROVE  /\ align.pc = "budget" => ~BudgetSpent(gateOf[Key], <<>>)
         /\ align.pc = "realign" =>
              /\ Found = Cur(Source[Key])
              /\ CanRealign(Key, Found, FoundReady) <=> ~(Key = "twins" /\ updates # {})
              /\ \A u \in EarlierThan[Key] : Approved(u)
         /\ align.pc = "submit" => SubmissionProceeds(gateOf[Key], Cur(Key), 0)
         /\ align.pc = "decide" => DecisionApplies(gateOf[Key], Cur(Key), "APPROVE", TRUE, 0)
<1>1. StoredInv
  BY DEF SectionsInv
<1>2. ASSUME align.pc = "budget" PROVE ~BudgetSpent(gateOf[Key], <<>>)
  BY <1>2, KeyAtWork DEF AtWork, Approved, BudgetSpent, ApprovalSeen
<1>3. ASSUME align.pc = "realign"
      PROVE  /\ Found = Cur(Source[Key])
             /\ CanRealign(Key, Found, FoundReady) <=> ~(Key = "twins" /\ updates # {})
             /\ \A u \in EarlierThan[Key] : Approved(u)
  <2>1. /\ Key \in Later /\ IsBehind(Key) /\ ~SectionOf[Key].blocked
        /\ \A u \in EarlierThan[Key] : ~IsBehind(u)
    BY <1>3, KeyAtWork DEF AtWork, AloneInv, KeyMayGo
  <2>2. Found = Cur(Source[Key]) /\ FoundReady = UpstreamReady[Key]
    BY <1>3 DEF Found, FoundReady, AloneInv, KeyMayGo
  <2> QED BY <1>1, <2>1, <2>2, UnblockedCanRealign
<1>4. ASSUME align.pc \in {"submit", "decide"} PROVE Key \in Section
  BY <1>4, KeyFacts, SectionFacts DEF SectionsInv
<1>5. ASSUME align.pc = "submit" PROVE SubmissionProceeds(gateOf[Key], Cur(Key), 0)
  <2>1. /\ gateOf[Key].status = "APPROVED" /\ gateOf[Key].artifact # Cur(Key)
        /\ gateOf[Key].updated = 0
    BY <1>1, <1>4, <1>5, GateFacts DEF AloneInv, KeyIsRealigned
  <2> QED BY <2>1 DEF SubmissionProceeds, Blocked, StaleApplies
<1>6. ASSUME align.pc = "decide"
      PROVE  DecisionApplies(gateOf[Key], Cur(Key), "APPROVE", TRUE, 0)
  <2>1. /\ gateOf[Key].status = "PENDING_APPROVAL" /\ gateOf[Key].artifact = Cur(Key)
        /\ gateOf[Key].updated = 0 /\ gateOf[Key] # NoGate
    BY <1>1, <1>4, <1>6, GateFacts DEF AloneInv, KeyIsRealigned
  <2>2. TargetStatus(gateOf[Key], "APPROVE") = "APPROVED"
    BY <2>1 DEF TargetStatus
  <2> QED BY <2>1, <2>2 DEF DecisionApplies, Applies, ReasonMissing, NoStatus
<1> QED BY <1>2, <1>3, <1>5, <1>6

(* Steps that only read.                                                   *)
LEMMA ReadingKeepsAlone ==
  ASSUME SectionsInv, AloneInv, UNCHANGED <<lines, gateOf, pending, approvals>>,
         \/ align' = Idle
         \/ Begin
         \/ NextSection
         \/ CheckBudget
         \/ ReadUpstream
  PROVE  AloneInv'
<1>1. SectionOf' = SectionOf /\ ToAlign' = ToAlign /\ UpstreamReady' = UpstreamReady
  BY SameSections
<1>2. align \in Request
  BY DEF SectionsInv, AlignOK
<1>3. CASE align' = Idle
  BY <1>3 DEF AloneInv, Idle
<1>4. CASE Begin
  <2>1. PICK todo : todo = ToAlign
    OBVIOUS
  <2>2. /\ align' = [Idle EXCEPT !.pc = "budget", !.todo = todo]
        /\ ~SectionOf[Head(todo)].blocked
    BY <1>4, <2>1 DEF Begin
  <2>3. align'.pc = "budget" /\ align'.todo = todo
    BY <2>2 DEF Idle
  <2>4. Key' = Head(todo)
    BY <2>3 DEF Key
  <2> QED BY <1>1, <2>1, <2>2, <2>3, <2>4 DEF AloneInv, TodoIsBehind, KeyMayGo, KeyIsRealigned
<1>5. CASE NextSection /\ align' # Idle
  <2>1. /\ align.pc = "section" /\ ~SectionOf[Key].blocked
        /\ align' = [align EXCEPT !.pc = "budget"]
    BY <1>5 DEF NextSection, Stop, GoTo
  <2>2. align'.pc = "budget" /\ align'.todo = align.todo /\ align'.alone = align.alone /\ Key' = Key
    BY <1>2, <2>1 DEF Request, Key
  <2> QED BY <1>1, <2>1, <2>2 DEF AloneInv, TodoIsBehind, KeyMayGo, KeyIsRealigned
<1>6. CASE CheckBudget /\ align' # Idle
  <2>1. PICK pc \in {"upstream", "realign"} :
          /\ pc = "realign" => Key \in {"team", "twins"}
          /\ align.pc = "budget" /\ align' = [align EXCEPT !.pc = pc]
    BY <1>6 DEF CheckBudget, Stop, GoTo
  <2>2. align'.pc = pc /\ align'.todo = align.todo /\ align'.alone = align.alone /\ Key' = Key
    BY <1>2, <2>1 DEF Request, Key
  <2> QED BY <1>1, <2>1, <2>2 DEF AloneInv, TodoIsBehind, KeyMayGo, KeyIsRealigned
<1>7. CASE ReadUpstream
  <2>1. PICK read, ready : read = Cur(Source[Key]) /\ ready = UpstreamReady[Key]
    OBVIOUS
  <2>2. /\ align.pc = "upstream"
        /\ align' = [align EXCEPT !.pc = "realign", !.read = read, !.ready = ready]
    BY <1>7, <2>1 DEF ReadUpstream
  <2>3. /\ align'.pc = "realign" /\ align'.todo = align.todo /\ align'.alone = align.alone
        /\ align'.read = read /\ align'.ready = ready /\ Key' = Key
    BY <1>2, <2>2 DEF Request, Key
  <2>4. Cur(Source[Key])' = Cur(Source[Key])
    BY <2>3, SameVersions
  <2> QED BY <1>1, <2>1, <2>2, <2>3, <2>4 DEF AloneInv, TodoIsBehind, KeyMayGo, KeyIsRealigned
<1> QED BY <1>3, <1>4, <1>5, <1>6, <1>7

LEMMA RealignKeepsAlone ==
  ASSUME SectionsInv, SectionsInv', AloneInv, Realign
  PROVE  AloneInv'
<1>1. /\ align.pc = "realign" /\ lines' = Appended(Key, Realigned(Key, Found))
      /\ align' = [align EXCEPT !.pc = "submit"]
      /\ UNCHANGED <<gateOf, past, pending, approvals, updates>>
  BY DEF Realign, GoTo
<1>2. /\ align'.pc = "submit" /\ align'.todo = align.todo /\ align'.alone = align.alone
      /\ Key' = Key
  BY <1>1 DEF SectionsInv, AlignOK, Request, Key
<1> SUFFICES ASSUME align.alone PROVE AloneInv'
  BY <1>2 DEF AloneInv
<1>3. PICK k \in Later : k = Key
  BY <1>1, KeyAtWork DEF AtWork
<1>4. /\ k \in Section /\ Source[k] \in Section \ {k} /\ Source[k] \in EarlierThan[k]
      /\ EarlierThan[k] \subseteq Section \ {k} /\ Anchors[k] \subseteq EarlierThan[k]
  BY SectionFacts, EarlierFacts
<1>5. /\ IsBehind(k) /\ Approved(k) /\ \A u \in EarlierThan[k] : Approved(u) /\ ~IsBehind(u)
      /\ Tail(align.todo) = Rest[k] /\ Found = Cur(Source[k])
  BY <1>1, <1>3, KeyAtWork, AlonePromises DEF AtWork
<1>6. StoredInv /\ LinesOK /\ AnchorsKnown /\ Current(k) \in Version(k)
  BY <1>4, VersionFacts DEF SectionsInv, StoredInv
<1>7. /\ \A j \in Section : Cur(j) \in Nat /\ Cur(j) >= 1
  BY <1>6, VersionFacts
<1>8. PICK on : on = AnchoredTo(k, Cur(Source[k]))
  OBVIOUS
<1>9. on \in [Anchors[k] -> Nat]
  BY <1>4, <1>6, <1>7, <1>8, AnchoredToFacts
<1>10. PICK version : version = [origin |-> Current(k).origin, drops |-> FALSE, on |-> on]
  OBVIOUS
<1>11. version \in Version(k) /\ version.on = on /\ version.origin = Current(k).origin
  BY <1>6, <1>9, <1>10 DEF Version
<1>12. lines' = Appended(k, version)
  BY <1>1, <1>3, <1>5, <1>8, <1>10 DEF Realigned
<1>13. /\ ~IsBehind(k)' /\ \A j \in Section \ {k} : IsBehind(j)' = IsBehind(j)
       /\ \A j \in Section \ {k} : Approved(j)' = Approved(j)
  BY <1>1, <1>5, <1>6, <1>11, <1>12, RealignSettles
<1>14. /\ Cur(k)' = Cur(k) + 1 /\ lines'[k][Cur(k) + 1] = version
       /\ \A v \in 1..Cur(k) : lines'[k][v] = lines[k][v]
       /\ \A j \in Section \ {k} : lines'[j] = lines[j] /\ Cur(j)' = Cur(j)
  BY <1>4, <1>6, <1>11, <1>12, AppendedFacts
<1>15. Current(k)' = version
  BY <1>14 DEF Current
<1>16. ToAlign' = Tail(align.todo)
  <2>1. ToAlign' = Rest[k]'
    BY <1>4, <1>5, <1>13, ToAlignIsNext
  <2>2. \A j \in Later \ (EarlierThan[k] \cup {k}) : IfBehind(j)' = IfBehind(j)
    BY <1>13, SectionFacts DEF IfBehind
  <2>3. Rest[k]' = Rest[k]
    <3>1. CASE k = "team" BY <2>2, <3>1, EarlierFacts DEF Rest
    <3>2. CASE k = "twins" BY <2>2, <3>2, EarlierFacts DEF Rest
    <3>3. CASE k = "requirements" BY <2>2, <3>3, EarlierFacts DEF Rest
    <3>4. CASE k = "design" BY <3>4, EarlierFacts DEF Rest
    <3> QED BY <3>1, <3>2, <3>3, <3>4, EarlierFacts
  <2> QED BY <1>5, <2>1, <2>3
<1>17. \A u \in EarlierThan[k] : Approved(u)' /\ ~IsBehind(u)'
  BY <1>4, <1>5, <1>13
<1>18. AnchoredTo(k, Cur(Source[k]))' = AnchoredTo(k, Cur(Source[k]))
  <2>1. Cur(Source[k])' = Cur(Source[k]) /\ lines'[Source[k]] = lines[Source[k]]
    BY <1>4, <1>14
  <2>2. \A u \in Anchors[k] : Cur(u)' = Cur(u)
    BY <1>4, <1>14
  <2> QED BY <2>1, <2>2 DEF AnchoredTo
<1>19. Current(k)'.on = AnchoredTo(k, Cur(Source[k]))'
  BY <1>8, <1>11, <1>15, <1>18
<1>20. gateOf'[k].status = "APPROVED" /\ gateOf'[k].artifact # Cur(k)'
  BY <1>1, <1>4, <1>5, <1>7, <1>14 DEF Approved
<1>21. TodoIsBehind' /\ KeyMayGo'
  BY <1>2, <1>16 DEF TodoIsBehind, KeyMayGo
<1>22. KeyIsRealigned'
  BY <1>2, <1>3, <1>17, <1>19, <1>20 DEF KeyIsRealigned, EarlierFine
<1> QED BY <1>21, <1>22 DEF AloneInv

(* The section at work, once it is re-anchored.                            *)
LEMMA KeyRealigned ==
  ASSUME SectionsInv, AloneInv, align.alone, align.pc \in {"submit", "decide"}
  PROVE  /\ Key \in Later /\ EarlierFine /\ ~Approved(Key) /\ ~IsBehind(Key)
         /\ ToAlign = Tail(align.todo)
         /\ Current(Key).on = AnchoredTo(Key, Cur(Source[Key]))
<1>1. Key \in Later
  BY KeyFacts DEF SectionsInv
<1>2. /\ EarlierFine /\ ToAlign = Tail(align.todo)
      /\ Current(Key).on = AnchoredTo(Key, Cur(Source[Key]))
  BY DEF AloneInv, TodoIsBehind, KeyIsRealigned
<1>3. ~Approved(Key)
  BY DEF AloneInv, KeyIsRealigned, Approved
<1>4. ~IsBehind(Key)
  BY <1>1, <1>3, StateIs, SectionFacts
<1> QED BY <1>1, <1>2, <1>3, <1>4

LEMMA SameToAlign ==
  ASSUME \A j \in Section : IsBehind(j)' = IsBehind(j)
  PROVE  ToAlign' = ToAlign
<1>1. \A j \in Section : Behind(SectionOf[j])' = Behind(SectionOf[j])
  BY DEF IsBehind
<1>2. {"team", "twins", "requirements", "design"} \subseteq Section
  BY DEF Section
<1> QED BY <1>1, <1>2 DEF ToAlign

LEMMA SubmitKeepsAlone ==
  ASSUME SectionsInv, SectionsInv', AloneInv, Submit
  PROVE  AloneInv'
<1>1. align.pc = "submit" /\ lines' = lines /\ approvals' = approvals
  BY DEF Submit
<1>2. CASE align' = Idle
  BY <1>2 DEF AloneInv, Idle
<1>3. CASE align' # Idle /\ align.alone
  <2>1. gateOf[Key].status = "APPROVED" /\ gateOf[Key].artifact # Cur(Key)
    BY <1>1, <1>3 DEF AloneInv, KeyIsRealigned
  <2>2. SubmitOpens(Key) /\ align' = [align EXCEPT !.pc = "decide"]
    BY <1>3, <2>1 DEF Submit, Stop, GoTo
  <2>3. align'.pc = "decide" /\ align'.todo = align.todo /\ align'.alone = align.alone /\ Key' = Key
    BY <2>2 DEF SectionsInv, AlignOK, Request, Key
  <2>4. PICK k \in Later : k = Key
    BY <1>1, <1>3, KeyRealigned
  <2>5. /\ \A u \in EarlierThan[k] : Approved(u) /\ ~IsBehind(u)
        /\ ~Approved(k) /\ ~IsBehind(k) /\ ToAlign = Tail(align.todo)
        /\ Current(k).on = AnchoredTo(k, Cur(Source[k]))
    BY <1>1, <1>3, <2>4, KeyRealigned DEF EarlierFine
  <2>6. k \in Section /\ EarlierThan[k] \subseteq Section \ {k} /\ StoredInv
    BY SectionFacts, EarlierFacts DEF SectionsInv
  <2> DEFINE gate == Transitioned(NextDraft(gateOf[k], PastAfterStaling(k), Cur(k), 0), "SUBMIT", 0)
  <2>7. gate.status = "PENDING_APPROVAL" /\ gate.artifact = Cur(k)
    BY <2>6, DraftOfSection
  <2>8. gateOf' = [gateOf EXCEPT ![k] = gate]
    BY <2>2, <2>4 DEF SubmitOpens
  <2> HIDE DEF gate
  <2>9. DOMAIN gateOf = Section
    BY <2>6 DEF StoredInv, GatesOK
  <2>10. gateOf'[k] = gate /\ \A j \in Section \ {k} : gateOf'[j] = gateOf[j]
    BY <2>6, <2>8, <2>9
  <2>11. \A j : Cur(j)' = Cur(j) /\ Current(j)' = Current(j)
    BY <1>1, SameVersions
  <2>12. ~Approved(k)' /\ \A j \in Section \ {k} : Approved(j)' = Approved(j)
    BY <2>7, <2>10, <2>11 DEF Approved
  <2>13. ~IsBehind(k)'
    BY <2>4, <2>12, BehindIsNext, EarlierFacts DEF WhatIsBehind
  <2>14. \A j \in Section : IsBehind(j)' = IsBehind(j)
    BY <1>1, <2>5, <2>10, <2>13, GateMoves
  <2>15. ToAlign' = Tail(align.todo)
    BY <2>5, <2>14, SameToAlign
  <2>16. \A u \in EarlierThan[k] : Approved(u)' /\ ~IsBehind(u)'
    BY <2>5, <2>6, <2>12, <2>14
  <2>17. Current(k)'.on = AnchoredTo(k, Cur(Source[k]))'
    BY <1>1, <2>5, <2>11 DEF AnchoredTo
  <2>18. gateOf'[k].status = "PENDING_APPROVAL" /\ gateOf'[k].artifact = Cur(k)'
    BY <2>7, <2>10, <2>11
  <2>19. TodoIsBehind' /\ KeyMayGo'
    BY <2>3, <2>15 DEF TodoIsBehind, KeyMayGo
  <2>20. KeyIsRealigned'
    BY <2>3, <2>4, <2>16, <2>17, <2>18 DEF KeyIsRealigned, EarlierFine
  <2> QED BY <2>19, <2>20 DEF AloneInv
<1>4. CASE align' # Idle /\ ~align.alone
  <2>1. /\ align \in Request
        /\ \/ align' = [align EXCEPT !.pc = "decide"]
           \/ align' = [align EXCEPT !.pc = "section", !.todo = Tail(@),
                                     !.read = 0, !.ready = FALSE]
    BY <1>4 DEF Submit, Stop, GoTo, Aligned, SectionsInv, AlignOK
  <2>2. align'.alone = align.alone
    BY <2>1 DEF Request
  <2> QED BY <1>4, <2>2 DEF AloneInv
<1> QED BY <1>2, <1>3, <1>4

(* Approving the section at work takes nothing else off what is behind.    *)
LEMMA ApprovalSettles ==
  ASSUME SectionsInv, SectionsInv', AloneInv, align.alone, align.pc = "decide", UNCHANGED lines,
         Decide(Key, "APPROVE")
  PROVE  ToAlign' = Tail(align.todo)
<1>1. PICK k \in Later : k = Key
  BY KeyRealigned
<1>2. /\ \A u \in EarlierThan[k] : Approved(u) /\ ~IsBehind(u)
      /\ ~IsBehind(k) /\ ToAlign = Tail(align.todo)
      /\ Current(k).on = AnchoredTo(k, Cur(Source[k]))
  BY <1>1, KeyRealigned DEF EarlierFine
<1>3. /\ k \in Section /\ EarlierThan[k] \subseteq Section \ {k}
      /\ LinesOK' /\ AnchorsKnown' /\ DOMAIN gateOf = Section
  BY SectionFacts, EarlierFacts DEF SectionsInv, StoredInv, GatesOK
<1>4. \A j \in Section \ {k} : gateOf'[j] = gateOf[j]
  BY <1>1, <1>3 DEF Decide
<1>5. /\ \A j : Cur(j)' = Cur(j) /\ Current(j)' = Current(j)
      /\ \A j, u : Moved(j, u)' = Moved(j, u)
  BY SameVersions
<1>6. \A j \in Section \ {k} : Approved(j)' = Approved(j)
  BY <1>4, <1>5 DEF Approved
<1>7. \A u \in EarlierThan[k] : ~IsBehind(u)'
  <2>1. WhatIsBehind /\ WhatIsBehind'
    BY BehindIs, BehindIsNext
  <2>2. ~IsBehind("brief")'
    BY <2>1 DEF WhatIsBehind
  <2>3. ASSUME k # "team" PROVE ~IsBehind("team")'
    <3>1. "team" \in EarlierThan[k] /\ "team" \in Section \ {k}
      BY <2>3, EarlierFacts, SectionFacts
    <3> QED BY <1>2, <1>5, <1>6, <2>1, <3>1 DEF WhatIsBehind
  <2>4. ASSUME k \notin {"team", "twins"} PROVE ~IsBehind("twins")'
    <3>1. "twins" \in EarlierThan[k] /\ "twins" \in Section \ {k}
      BY <2>4, EarlierFacts, SectionFacts
    <3> QED BY <1>2, <1>5, <1>6, <2>1, <2>3, <2>4, <3>1 DEF WhatIsBehind
  <2>5. ASSUME k = "design" PROVE ~IsBehind("requirements")'
    <3>1. "requirements" \in EarlierThan[k] /\ "requirements" \in Section \ {k}
      BY <2>5, EarlierFacts, SectionFacts
    <3> QED BY <1>2, <1>5, <1>6, <2>1, <2>3, <2>4, <2>5, <3>1 DEF WhatIsBehind
  <2> QED BY <2>2, <2>3, <2>4, <2>5, EarlierFacts
<1>8. Current(k)'.on = AnchoredTo(k, Cur(Source[k]))'
  BY <1>2, <1>5 DEF AnchoredTo
<1>9. ~IsBehind(k)'
  <2>1. \A u \in EarlierThan[k] : Approved(u)'
    BY <1>2, <1>3, <1>6
  <2> QED BY <1>3, <1>7, <1>8, <2>1, RealignedIsFineNext
<1>10. \A j \in Section : IsBehind(j)' = IsBehind(j)
  BY <1>2, <1>4, <1>9, GateMoves
<1> QED BY <1>2, <1>10, SameToAlign

LEMMA ApproveKeepsAlone ==
  ASSUME SectionsInv, SectionsInv', AloneInv, Approve
  PROVE  AloneInv'
<1>1. CASE align' = Idle
  BY <1>1 DEF AloneInv, Idle
<1>2. CASE align' # Idle
  <2>1. /\ align.pc = "decide" /\ lines' = lines /\ Decide(Key, "APPROVE")
        /\ align' = [align EXCEPT !.pc = "section", !.todo = Tail(@), !.read = 0, !.ready = FALSE]
    BY <1>2 DEF Approve, Stop, Aligned
  <2>2. PICK rest : rest = Tail(align.todo)
    OBVIOUS
  <2>3. align' = [align EXCEPT !.pc = "section", !.todo = rest, !.read = 0, !.ready = FALSE]
    BY <2>1, <2>2
  <2>4. align'.pc = "section" /\ align'.todo = rest /\ align'.alone = align.alone
    BY <2>3 DEF SectionsInv, AlignOK, Request
  <2>5. align.alone => ToAlign' = rest
    BY <2>1, <2>2, ApprovalSettles
  <2> QED BY <2>4, <2>5 DEF AloneInv, TodoIsBehind, KeyMayGo, KeyIsRealigned
<1> QED BY <1>1, <1>2

LEMMA OwnerEndsAlone ==
  ASSUME SectionsInv, LearningRequest \/ \E k \in Section : SectionRequest(k)
  PROVE  align'.pc = align.pc /\ (align.pc # "idle" => ~align'.alone)
<1>1. \E edited \in SUBSET Section : InBetween(edited)
  <2>1. {} \in SUBSET Section /\ \A k \in Section : {k} \in SUBSET Section
    OBVIOUS
  <2>2. "twins" \in Section
    BY DEF Section
  <2>3. CASE LearningRequest
    BY <2>1, <2>2, <2>3 DEF LearningRequest, StoreUpdate, DropUpdate, ApproveEvidence, RetireEvidence
  <2>4. CASE \E k \in Section : SectionRequest(k)
    BY <2>1, <2>4 DEF SectionRequest, Create, Propose, RejectChange, ApproveChange, OwnerRealigns,
                      OwnerSubmits, OwnerDecides
  <2> QED BY <2>3, <2>4
<1> QED BY <1>1 DEF InBetween, SectionsInv, AlignOK, Request

LEMMA AloneKeeps ==
  ASSUME SectionsInv, SectionsInv', AloneInv, [AlignmentNext]_alignmentVars
  PROVE  AloneInv'
<1>1. CASE LearningRequest \/ \E k \in Section : SectionRequest(k)
  BY <1>1, OwnerEndsAlone DEF AloneInv
<1>2. CASE Begin \/ NextSection \/ CheckBudget \/ ReadUpstream
  BY <1>2, ReadingKeepsAlone DEF Begin, NextSection, CheckBudget, ReadUpstream, stored
<1>3. CASE RealignRefused \/ Crash
  BY <1>3 DEF RealignRefused, Crash, Stop, AloneInv, Idle
<1>4. CASE UNCHANGED alignmentVars
  <2>1. SectionOf' = SectionOf /\ ToAlign' = ToAlign /\ UpstreamReady' = UpstreamReady
    BY <1>4, SameSections DEF alignmentVars, stored
  <2>2. align' = align /\ approvals' = approvals /\ gateOf' = gateOf /\ lines' = lines
    BY <1>4 DEF alignmentVars, stored
  <2>3. /\ \A j : Cur(j)' = Cur(j) /\ Current(j)' = Current(j)
        /\ \A j, v : AnchoredTo(j, v)' = AnchoredTo(j, v)
    BY <2>2, SameVersions
  <2>4. Key' = Key
    BY <2>2 DEF Key
  <2>5. TodoIsBehind' = TodoIsBehind
    BY <2>1, <2>2 DEF TodoIsBehind
  <2>6. KeyMayGo' = KeyMayGo
    BY <2>1, <2>2, <2>3, <2>4 DEF KeyMayGo
  <2>7. \A j : Approved(j)' = Approved(j) /\ IsBehind(j)' = IsBehind(j)
    BY <2>1, <2>2, <2>3 DEF Approved, IsBehind
  <2>8. EarlierFine' = EarlierFine
    BY <2>4, <2>7 DEF EarlierFine
  <2>9. AnchoredTo(Key, Cur(Source[Key]))' = AnchoredTo(Key, Cur(Source[Key]))
    BY <2>3, <2>4
  <2>10. KeyIsRealigned' = KeyIsRealigned
    BY <2>2, <2>3, <2>4, <2>8, <2>9 DEF KeyIsRealigned
  <2> QED BY <2>2, <2>5, <2>6, <2>10 DEF AloneInv
<1> QED BY <1>1, <1>2, <1>3, <1>4, RealignKeepsAlone, SubmitKeepsAlone, ApproveKeepsAlone
        DEF AlignmentNext, SectionRequest, LearningRequest

LEMMA AloneInvariant == AlignmentSpec => []AloneInv
<1>1. AlignmentInit => AloneInv
  BY DEF AlignmentInit, AloneInv, Idle
<1>2. SectionsInv /\ SectionsInv' /\ AloneInv /\ [AlignmentNext]_alignmentVars => AloneInv'
  BY AloneKeeps
<1> QED BY <1>1, <1>2, SectionsInvariant, PTL DEF AlignmentSpec

(* What the sections promise, the services keep, but for one obstacle that *)
(* the sections do not show: with no other request of the owner in         *)
(* between, a section that is read as unblocked has attempts left, and no  *)
(* service refuses its submission, its approval or, unless an update waits *)
(* for the twins, its re-anchoring; the twins are then always refused.     *)
THEOREM PromisesAreKept == AlignmentSpec => []SectionsKeepTheirPromise
<1>1. SectionsInv /\ AloneInv => SectionsKeepTheirPromise
  BY AlonePromises DEF SectionsKeepTheirPromise
<1> QED BY <1>1, SectionsInvariant, AloneInvariant, PTL

(* Only an approval that is not refused is one: of the steps that end the  *)
(* decision, a cancelled request approves nothing.                         *)
LEMMA WhatApproves ==
  ASSUME SectionsInv, AloneInv, align.alone, [AlignmentNext]_alignmentVars,
         NEW k \in Section, AlignmentApproves(k)
  PROVE  k = Key /\ align.pc = "decide" /\ UNCHANGED lines /\ Decide(Key, "APPROVE") /\ Aligned
<1>1. k = Key /\ align.pc = "decide" /\ align'.pc # "decide" /\ Approved(k)'
  BY DEF AlignmentApproves
<1>2. ASSUME UNCHANGED <<lines, gateOf>> PROVE FALSE
  <2>1. ~Approved(k)
    BY <1>1, KeyRealigned
  <2>2. Approved(k)' = Approved(k)
    BY <1>2, SameVersions DEF Approved
  <2> QED BY <1>1, <2>1, <2>2
<1>3. ASSUME LearningRequest \/ \E j \in Section : SectionRequest(j) PROVE FALSE
  BY <1>1, <1>3, OwnerEndsAlone
<1>4. Approve
  BY <1>1, <1>2, <1>3
     DEF AlignmentNext, alignmentVars, stored, SectionRequest, LearningRequest, Begin, NextSection,
         CheckBudget, ReadUpstream, RealignRefused, Realign, Submit, Crash
<1>5. gateOf[Key].artifact = Cur(Key)
  BY <1>1 DEF AloneInv, KeyIsRealigned
<1>6. ~DecideStales(Key)
  BY <1>5 DEF DecideStales, DecisionSupersedes
<1> QED BY <1>1, <1>2, <1>4, <1>6 DEF Approve

(* With nobody in between, an alignment that reaches its end leaves no     *)
(* section behind: each approval takes its section off what is behind and  *)
(* puts none on.                                                           *)
THEOREM AlignmentLeavesNothingBehind == AlignmentSpec => AlignmentSettles
<1>1. ASSUME SectionsInv, SectionsInv', AloneInv, [AlignmentNext]_alignmentVars,
             NEW k \in Section, AlignmentApproves(k), align.alone, align'.pc = "idle"
      PROVE  ToAlign' = <<>>
  <2>1. align.pc = "decide" /\ UNCHANGED lines /\ Decide(Key, "APPROVE") /\ Aligned
    BY <1>1, WhatApproves
  <2>2. ToAlign' = Tail(align.todo)
    BY <1>1, <2>1, ApprovalSettles
  <2>3. Tail(align.todo) = <<>>
    <3>1. ASSUME align' = [align EXCEPT !.pc = "section", !.todo = Tail(@),
                                        !.read = 0, !.ready = FALSE]
          PROVE  FALSE
      BY <1>1, <3>1 DEF SectionsInv, AlignOK, Request
    <3> QED BY <2>1, <3>1 DEF Aligned
  <2> QED BY <2>2, <2>3
<1>2. SectionsInv /\ SectionsInv' /\ AloneInv /\ [AlignmentNext]_alignmentVars =>
        [\A k \in Section :
           AlignmentApproves(k) /\ align.alone /\ align'.pc = "idle"
             => ToAlign' = <<>>]_alignmentVars
  BY <1>1
<1> QED BY <1>2, SectionsInvariant, AloneInvariant, PTL DEF AlignmentSpec, AlignmentSettles

-----------------------------------------------------------------------------

(***************************************************************************)
(* What an alignment approves, whoever gets in between.                    *)
(***************************************************************************)

(* The owner has approved the content, or has given the section new        *)
(* content since the alignment began.                                      *)
KnownContent == {k \in Later : k \in align.edited \/ ContentApproved(k)}

ContentInv == align.pc # "idle" => align.todo \in Seq(KnownContent)

LEMMA LargerSeq ==
  ASSUME NEW S, NEW T, S \subseteq T, NEW s \in Seq(S)
  PROVE  s \in Seq(T)
OBVIOUS

LEMMA AppendKeepsContent ==
  ASSUME StoredInv, NEW k \in Section, NEW version, lines' = Appended(k, version),
         \A j \in Section : approvals[j] \subseteq approvals'[j]
  PROVE  /\ \A j \in Section \ {k} : ContentApproved(j) => ContentApproved(j)'
         /\ version.origin = Current(k).origin /\ ContentApproved(k) => ContentApproved(k)'
         /\ Cur(k) + 1 \in approvals'[k] => ContentApproved(k)'
<1>1. DOMAIN lines = Section /\ lines[k] \in Seq(Version(k))
  BY DEF StoredInv, LinesOK
<1>2. lines'[k] = Append(lines[k], version) /\ \A j \in Section \ {k} : lines'[j] = lines[j]
  BY <1>1 DEF Appended
<1>3. ASSUME NEW S, NEW s \in Seq(S), NEW x
      PROVE  /\ Len(Append(s, x)) = Len(s) + 1 /\ Append(s, x)[Len(s) + 1] = x
             /\ \A v \in 1..Len(s) : Append(s, x)[v] = s[v]
  OBVIOUS
<1>4. /\ Cur(k)' = Cur(k) + 1 /\ lines'[k][Cur(k) + 1] = version
      /\ \A v \in 1..Cur(k) : lines'[k][v] = lines[k][v]
  BY <1>1, <1>2, <1>3 DEF Cur
<1>5. \A j \in Section \ {k} : Current(j)' = Current(j)
  BY <1>2 DEF Current, Cur
<1>6. Current(k)' = version
  BY <1>4 DEF Current
<1>7. approvals[k] \subseteq 1..Cur(k)
  BY DEF StoredInv, ApprovalsOK
<1>8. \A j \in Section \ {k} : ContentApproved(j) => ContentApproved(j)'
  BY <1>2, <1>5 DEF ContentApproved
<1>9. version.origin = Current(k).origin /\ ContentApproved(k) => ContentApproved(k)'
  <2> SUFFICES ASSUME version.origin = Current(k).origin, ContentApproved(k)
               PROVE  ContentApproved(k)'
    OBVIOUS
  <2>1. PICK v \in approvals[k] : lines[k][v].origin = Current(k).origin
    BY DEF ContentApproved
  <2>2. v \in approvals'[k] /\ lines'[k][v].origin = Current(k)'.origin
    BY <1>4, <1>6, <1>7, <2>1
  <2> QED BY <2>2 DEF ContentApproved
<1>10. Cur(k) + 1 \in approvals'[k] => ContentApproved(k)'
  BY <1>4, <1>6 DEF ContentApproved
<1> QED BY <1>8, <1>9, <1>10

LEMMA LinesKeepContent ==
  ASSUME UNCHANGED lines, \A j \in Section : approvals[j] \subseteq approvals'[j]
  PROVE  \A j \in Section : ContentApproved(j) => ContentApproved(j)'
BY SameVersions DEF ContentApproved

LEMMA DecideApproves ==
  ASSUME StoredInv, NEW k \in Section, DecideStales(k) \/ \E action \in Actions : Decide(k, action)
  PROVE  \A j \in Section : approvals[j] \subseteq approvals'[j]
<1>1. \/ approvals' = approvals
      \/ \E more \in {approvals[k], approvals[k] \cup {Cur(k)}} :
           approvals' = [approvals EXCEPT ![k] = more]
  BY DEF DecideStales, Decide
<1> QED BY <1>1 DEF StoredInv, ApprovalsOK

(* What a request that gets in between leaves without approved content it  *)
(* has noted as edited.                                                    *)
LEMMA OwnerKeepsContent ==
  ASSUME SectionsInv, LearningRequest \/ \E k \in Section : SectionRequest(k)
  PROVE  \E edited \in SUBSET Section :
           /\ InBetween(edited)
           /\ \A j \in Section : ContentApproved(j) => j \in edited \/ ContentApproved(j)'
<1>1. StoredInv /\ {} \in SUBSET Section /\ \A k \in Section : {k} \in SUBSET Section
  BY DEF SectionsInv
<1>2. \A j \in Section : approvals[j] \subseteq approvals[j]
  OBVIOUS
<1>3. ASSUME NEW k \in Section, SectionRequest(k)
      PROVE  \E edited \in SUBSET Section :
               /\ InBetween(edited)
               /\ \A j \in Section : ContentApproved(j) => j \in edited \/ ContentApproved(j)'
  <2>1. CASE Create(k) \/ ApproveChange(k)
    <3>1. /\ InBetween({k}) /\ approvals' = approvals
          /\ \E version : lines' = Appended(k, version)
      BY <2>1 DEF Create, ApproveChange
    <3>2. \A j \in Section \ {k} : ContentApproved(j) => ContentApproved(j)'
      BY <1>1, <1>2, <3>1, AppendKeepsContent
    <3> QED BY <1>1, <3>1, <3>2
  <2>2. CASE OwnerRealigns(k)
    <3>1. /\ InBetween({}) /\ approvals' = approvals
          /\ lines' = Appended(k, Realigned(k, Cur(Source[k])))
      BY <2>2 DEF OwnerRealigns
    <3>2. Realigned(k, Cur(Source[k])).origin = Current(k).origin
      BY DEF Realigned
    <3>3. \A j \in Section : ContentApproved(j) => ContentApproved(j)'
      BY <1>1, <1>2, <3>1, <3>2, AppendKeepsContent
    <3> QED BY <1>1, <3>1, <3>3
  <2>3. CASE Propose(k) \/ RejectChange(k) \/ OwnerSubmits(k) \/ OwnerDecides(k)
    <3>1. InBetween({}) /\ lines' = lines
      BY <2>3 DEF Propose, RejectChange, OwnerSubmits, OwnerDecides
    <3>2. \A j \in Section : approvals[j] \subseteq approvals'[j]
      <4>1. CASE OwnerDecides(k)
        BY <1>1, <4>1, AlignmentAssumption, DecideApproves DEF OwnerDecides
      <4>2. CASE Propose(k) \/ RejectChange(k) \/ OwnerSubmits(k)
        BY <1>2, <4>2 DEF Propose, RejectChange, OwnerSubmits
      <4> QED BY <2>3, <4>1, <4>2
    <3> QED BY <1>1, <3>1, <3>2, LinesKeepContent
  <2> QED BY <1>3, <2>1, <2>2, <2>3 DEF SectionRequest
<1>4. CASE LearningRequest
  <2>1. PICK k \in Section : k = "twins"
    BY DEF Section
  <2>2. ASSUME AppendsProfiles, ApprovedAtOnce
        PROVE  \A j \in Section : ContentApproved(j) => ContentApproved(j)'
    <3>1. PICK version : lines' = Appended(k, version)
      BY <2>1, <2>2 DEF AppendsProfiles
    <3>2. approvals' = [approvals EXCEPT ![k] = @ \cup {Cur(k) + 1}]
      BY <2>1, <2>2 DEF ApprovedAtOnce
    <3>3. /\ \A j \in Section : approvals[j] \subseteq approvals'[j]
          /\ Cur(k) + 1 \in approvals'[k]
      BY <1>1, <3>2 DEF StoredInv, ApprovalsOK
    <3> QED BY <1>1, <3>1, <3>3, AppendKeepsContent
  <2>3. CASE \E twin \in Twins : StoreUpdate(twin) \/ DropUpdate(twin)
    <3>1. InBetween({}) /\ lines' = lines /\ approvals' = approvals
      BY <2>3 DEF StoreUpdate, DropUpdate
    <3> QED BY <1>1, <1>2, <3>1, LinesKeepContent
  <2>4. CASE \E twin \in Twins : ApproveEvidence(twin)
    <3>1. InBetween({}) /\ AppendsProfiles /\ ApprovedAtOnce
      BY <2>4 DEF ApproveEvidence
    <3> QED BY <1>1, <2>2, <3>1
  <2>5. CASE RetireEvidence /\ EvidenceContext
    <3>1. InBetween({}) /\ AppendsProfiles /\ ApprovedAtOnce
      BY <2>5 DEF RetireEvidence
    <3> QED BY <1>1, <2>2, <3>1
  <2>6. CASE RetireEvidence /\ ~EvidenceContext
    <3>1. /\ InBetween({k}) /\ approvals' = approvals
          /\ \E version : lines' = Appended(k, version)
      BY <2>1, <2>6 DEF RetireEvidence, AppendsProfiles
    <3>2. \A j \in Section \ {k} : ContentApproved(j) => ContentApproved(j)'
      BY <1>1, <1>2, <3>1, AppendKeepsContent
    <3> QED BY <1>1, <3>1, <3>2
  <2> QED BY <1>4, <2>3, <2>4, <2>5, <2>6 DEF LearningRequest
<1> QED BY <1>3, <1>4

(* The sections an alignment sets out with are approved.                   *)
LEMMA BehindIsKnown ==
  ASSUME StoredInv
  PROVE  ToAlign \in Seq({k \in Later : ContentApproved(k)})
<1> DEFINE Known == {k \in Later : ContentApproved(k)}
           If(k) == IF Behind(SectionOf[k]) THEN <<k>> ELSE <<>>
<1>1. ASSUME NEW k \in Later, Behind(SectionOf[k]) PROVE k \in Known
  <2>1. k \in Section /\ Approved(k)
    BY <1>1, StateIs, SectionFacts DEF IsBehind
  <2>2. Cur(k) \in approvals[k]
    BY <2>1 DEF Approved, StoredInv, ApprovalsAgree
  <2> QED BY <2>2 DEF ContentApproved, Current
<1> HIDE DEF Known
<1>2. \A k \in Later : If(k) \in Seq(Known)
  BY <1>1
<1>3. {"team", "twins", "requirements", "design"} \subseteq Later
  BY DEF Later, Section
<1>4. ToAlign = If("team") \o If("twins") \o If("requirements") \o If("design")
  BY DEF ToAlign
<1>5. /\ If("team") \in Seq(Known) /\ If("twins") \in Seq(Known)
      /\ If("requirements") \in Seq(Known) /\ If("design") \in Seq(Known)
  BY <1>2, <1>3
<1> HIDE DEF If
<1>6. ToAlign \in Seq(Known)
  BY <1>4, <1>5
<1> QED BY <1>6 DEF Known

LEMMA ContentKeeps ==
  ASSUME SectionsInv, ContentInv, [AlignmentNext]_alignmentVars
  PROVE  ContentInv'
<1>1. StoredInv /\ align \in Request /\ Later \subseteq Section
  BY DEF SectionsInv, AlignOK, Later
<1>2. CASE align'.pc = "idle"
  BY <1>2 DEF ContentInv
(* The sections left keep content that is known.                           *)
<1>3. ASSUME align.pc # "idle", align'.todo = align.todo \/ align'.todo = Tail(align.todo),
             NEW edited \in SUBSET Section, align'.edited = align.edited \cup edited,
             \A j \in Section : ContentApproved(j) => j \in edited \/ ContentApproved(j)'
      PROVE  ContentInv'
  <2>1. KnownContent \subseteq KnownContent'
    BY <1>1, <1>3 DEF KnownContent
  <2>2. align.todo \in Seq(KnownContent) /\ align.todo # <<>>
    BY <1>3 DEF ContentInv, SectionsInv, AlignOK
  <2>3. Tail(align.todo) \in Seq(KnownContent)
    BY <2>2
  <2>4. align'.todo \in Seq(KnownContent)
    BY <1>3, <2>2, <2>3
  <2>5. align'.todo \in Seq(KnownContent')
    BY <2>1, <2>4, LargerSeq
  <2> QED BY <2>5 DEF ContentInv
<1>4. CASE LearningRequest \/ \E k \in Section : SectionRequest(k)
  <2>1. PICK edited \in SUBSET Section :
          /\ InBetween(edited)
          /\ \A j \in Section : ContentApproved(j) => j \in edited \/ ContentApproved(j)'
    BY <1>4, OwnerKeepsContent
  <2>2. CASE align.pc = "idle"
    BY <1>2, <2>1, <2>2 DEF InBetween
  <2>3. CASE align.pc # "idle"
    <3>1. align'.todo = align.todo /\ align'.edited = align.edited \cup edited
      BY <1>1, <2>1, <2>3 DEF InBetween, Request
    <3> QED BY <1>3, <2>1, <2>3, <3>1
  <2> QED BY <2>2, <2>3
<1>5. CASE Begin
  <2>1. align' = [Idle EXCEPT !.pc = "budget", !.todo = ToAlign] /\ UNCHANGED stored
    BY <1>5 DEF Begin
  <2>2. \A j \in Section : ContentApproved(j) => ContentApproved(j)'
    BY <2>1, LinesKeepContent DEF stored
  <2>3. {k \in Later : ContentApproved(k)} \subseteq KnownContent'
    BY <1>1, <2>2 DEF KnownContent
  <2>4. PICK todo \in Seq({k \in Later : ContentApproved(k)}) : todo = ToAlign
    BY <1>1, BehindIsKnown
  <2>5. align'.todo = todo
    BY <2>1, <2>4 DEF Idle
  <2> QED BY <2>3, <2>5, LargerSeq DEF ContentInv
(* The steps of an alignment under way.                                    *)
<1>6. ASSUME align.pc # "idle", align' # Idle,
             \/ UNCHANGED align
             \/ Aligned \/ \E pc \in Positions : GoTo(pc)
             \/ \E read, ready : align' = [align EXCEPT !.pc = "realign", !.read = read,
                                                        !.ready = ready]
      PROVE  /\ align'.todo = align.todo \/ align'.todo = Tail(align.todo)
             /\ align'.edited = align.edited
  <2>1. PICK rest : rest = Tail(align.todo)
    OBVIOUS
  <2>2. CASE Aligned
    <3>1. align' = [align EXCEPT !.pc = "section", !.todo = rest, !.read = 0, !.ready = FALSE]
      BY <1>6, <2>1, <2>2 DEF Aligned
    <3> QED BY <1>1, <2>1, <3>1 DEF Request
  <2>3. CASE ~Aligned
    BY <1>1, <1>6, <2>3 DEF GoTo, Request
  <2> QED BY <2>2, <2>3
<1>7. ASSUME align.pc # "idle", align' # Idle,
             align'.todo = align.todo \/ align'.todo = Tail(align.todo),
             align'.edited = align.edited,
             \A j \in Section : ContentApproved(j) => ContentApproved(j)'
      PROVE  ContentInv'
  <2>1. align'.edited = align.edited \cup {} /\ {} \in SUBSET Section
    BY <1>7
  <2> QED BY <1>3, <1>7, <2>1
<1>8. CASE align' = Idle
  BY <1>2, <1>8 DEF Idle
<1>9. CASE align.pc # "idle" /\ align' # Idle /\
           (NextSection \/ CheckBudget \/ ReadUpstream \/ Submit \/ Approve)
  <2>1. lines' = lines
    BY <1>9 DEF NextSection, CheckBudget, ReadUpstream, Submit, Approve, stored
  <2>2. \A j \in Section : approvals[j] \subseteq approvals'[j]
    <3>1. Key \in Section /\ "APPROVE" \in Actions
      BY <1>9, KeyFacts, SectionFacts DEF SectionsInv, Actions
    <3>2. CASE Approve
      BY <1>1, <1>9, <3>1, <3>2, DecideApproves DEF Approve, Stop
    <3>3. CASE NextSection \/ CheckBudget \/ ReadUpstream \/ Submit
      BY <3>3 DEF NextSection, CheckBudget, ReadUpstream, Submit, stored
    <3> QED BY <1>9, <3>2, <3>3
  <2>3. \A j \in Section : ContentApproved(j) => ContentApproved(j)'
    BY <2>1, <2>2, LinesKeepContent
  <2>4. \/ Aligned \/ \E pc \in Positions : GoTo(pc)
        \/ \E read, ready : align' = [align EXCEPT !.pc = "realign", !.read = read,
                                                   !.ready = ready]
    BY <1>9 DEF NextSection, CheckBudget, ReadUpstream, Submit, Approve, Stop, Positions
  <2> QED BY <1>6, <1>7, <1>9, <2>3, <2>4
<1>10. CASE align' # Idle /\ Realign
  <2>1. /\ align.pc = "realign" /\ GoTo("submit") /\ approvals' = approvals
        /\ lines' = Appended(Key, Realigned(Key, Found))
    BY <1>10 DEF Realign
  <2>2. PICK k \in Section : k = Key
    BY <2>1, KeyFacts, SectionFacts DEF SectionsInv
  <2>3. lines' = Appended(k, Realigned(k, Found)) /\ Realigned(k, Found).origin = Current(k).origin
    BY <2>1, <2>2 DEF Realigned
  <2>4. \A j \in Section : ContentApproved(j) => ContentApproved(j)'
    BY <1>1, <2>1, <2>3, AppendKeepsContent
  <2>5. align.pc # "idle" /\ "submit" \in Positions
    BY <2>1 DEF Positions
  <2> QED BY <1>6, <1>7, <1>10, <2>1, <2>4, <2>5
<1>11. CASE align.pc # "idle" /\ align' # Idle /\ UNCHANGED alignmentVars
  <2>1. UNCHANGED align /\ lines' = lines /\ approvals' = approvals
    BY <1>11 DEF alignmentVars, stored
  <2>2. \A j \in Section : ContentApproved(j) => ContentApproved(j)'
    BY <2>1, LinesKeepContent
  <2> QED BY <1>6, <1>7, <1>11, <2>1, <2>2
<1>12. CASE UNCHANGED alignmentVars /\ align.pc = "idle"
  BY <1>2, <1>12 DEF alignmentVars
<1>13. \/ LearningRequest \/ \E k \in Section : SectionRequest(k)
       \/ Begin \/ NextSection \/ CheckBudget \/ ReadUpstream \/ RealignRefused
       \/ Realign \/ Submit \/ Approve \/ Crash \/ UNCHANGED alignmentVars
  BY DEF AlignmentNext, SectionRequest, LearningRequest
<1>14. NextSection \/ CheckBudget \/ ReadUpstream \/ Submit \/ Approve => align.pc # "idle"
  BY DEF NextSection, CheckBudget, ReadUpstream, Submit, Approve
<1>15. RealignRefused \/ Crash => align' = Idle
  BY DEF RealignRefused, Crash, Stop
<1> QED BY <1>4, <1>5, <1>8, <1>9, <1>10, <1>11, <1>12, <1>13, <1>14, <1>15

(* Whoever gets in between, what an alignment approves has the content of  *)
(* a version the owner approved before, unless a request of the owner gave *)
(* the section new content while the alignment was under way: "Update and  *)
(* confirm" confirms no other content.                                     *)
THEOREM ApprovesKnownContent == AlignmentSpec => KeepsContent
<1>1. AlignmentInit => ContentInv
  BY DEF AlignmentInit, ContentInv, Idle
<1>2. SectionsInv /\ ContentInv /\ [AlignmentNext]_alignmentVars => ContentInv'
  BY ContentKeeps
<1>3. ASSUME SectionsInv, ContentInv, NEW k \in Section, AlignmentApproves(k)
      PROVE  k \in align.edited \/ ContentApproved(k)
  <2>1. k = Head(align.todo) /\ align.pc = "decide"
    BY <1>3 DEF AlignmentApproves, Key
  <2>2. align.todo \in Seq(KnownContent) /\ align.todo # <<>>
    BY <1>3, <2>1 DEF ContentInv, SectionsInv, AlignOK
  <2>3. k \in KnownContent
    BY <2>1, <2>2
  <2> QED BY <2>3 DEF KnownContent
<1>4. SectionsInv /\ ContentInv /\ [AlignmentNext]_alignmentVars =>
        [\A k \in Section :
           AlignmentApproves(k) => k \in align.edited \/ ContentApproved(k)]_alignmentVars
  BY <1>3
<1> QED BY <1>1, <1>2, <1>4, SectionsInvariant, PTL DEF AlignmentSpec, KeepsContent
=============================================================================

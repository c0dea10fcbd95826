------------------------- MODULE GateService_proofs -------------------------
(***************************************************************************)
(* Theorems about GateService for every set of requests, every bound, both *)
(* lock orders and every attempt limit.                                    *)
(***************************************************************************)
EXTENDS GateService, GateFlow_proofs

-----------------------------------------------------------------------------

(***************************************************************************)
(* Type correctness.                                                       *)
(***************************************************************************)

LEMMA LatestType ==
  ASSUME gates \in Seq(Gate)
  PROVE  Latest \in Gate
BY LatestOfType DEF Latest

LEMMA IdleTxType == IdleTx \in Tx
BY NoGateType DEF IdleTx, Tx, Phases, Ops, Actions

(* The end of a transaction keeps the types of what it writes. *)
LEMMA ReleaseType ==
  ASSUME TypeOK, NEW r \in Requests, Release(r)
  PROVE  /\ clock' \in Nat
         /\ served' \in Nat
         /\ project' \in Requests \cup {NoRequest}
         /\ tx' \in [Requests -> Tx]
BY IdleTxType DEF TypeOK, Release

(* What a submission writes when it supersedes the gate it has read. *)
LEMMA StalingType ==
  ASSUME TypeOK, NEW r \in Requests
  PROVE  /\ GatesAfterStaling(r) \in Seq(Gate)
         /\ LogAfterStaling(r) \in Seq(Event)
<1>1. tx[r].gate \in Gate /\ tx[r].at \in Nat /\ tx[r].seen \in Nat
  BY DEF TypeOK, Tx
<1> QED
  BY <1>1, SupersessionType DEF GatesAfterStaling, LogAfterStaling, TypeOK

(* The draft a submission opens, and its submission. *)
LEMMA DraftType ==
  ASSUME TypeOK, NEW r \in Requests
  PROVE  /\ Draft(r) \in Gate
         /\ Transitioned(Draft(r), "SUBMIT", tx[r].at) \in Gate
         /\ TransitionEvent(Draft(r), "SUBMIT", tx[r].at) \in Event
<1>1. tx[r].gate \in Gate /\ tx[r].at \in Nat /\ tx[r].seen \in Nat
  BY DEF TypeOK, Tx
<1> QED BY <1>1, NextDraftType DEF Draft

LEMMA BeginType ==
  ASSUME TypeOK, NEW r \in Requests, NEW op \in Ops, NEW action \in Actions,
         NEW reason \in BOOLEAN, Begin(r, op, action, reason)
  PROVE  TypeOK'
<1>1. PICK at \in {clock, clock + 1} :
        /\ clock' = at
        /\ tx' = [tx EXCEPT ![r] = [IdleTx EXCEPT !.phase = "begun", !.op = op,
                                      !.action = action, !.reason = reason,
                                      !.at = at, !.base = Current]]
  BY DEF Begin
<1>2. at \in Nat /\ Current \in Nat
  BY DEF TypeOK, Current
<1>3. [IdleTx EXCEPT !.phase = "begun", !.op = op, !.action = action,
                     !.reason = reason, !.at = at, !.base = Current] \in Tx
  BY <1>2, IdleTxType DEF Tx, Phases
<1>4. tx' \in [Requests -> Tx]
  BY <1>1, <1>3 DEF TypeOK
<1> QED BY <1>1, <1>2, <1>4 DEF TypeOK, Begin

(* Every step of a request keeps the types. *)
LEMMA StepType ==
  ASSUME TypeOK, NEW r \in Requests, Step(r)
  PROVE  TypeOK'
<1>0. tx[r] \in Tx /\ Current \in Nat /\ Latest \in Gate
  BY LatestType DEF TypeOK, Current
<1>a. tx[r].gate \in Gate /\ tx[r].at \in Nat /\ tx[r].seen \in Nat /\ tx[r].action \in Actions
  BY <1>0 DEF Tx
<1>1. CASE ReadVersion(r)
  BY <1>0, <1>1 DEF ReadVersion, TypeOK, Tx, Phases
<1>2. CASE LockVersion(r)
  BY <1>0, <1>2 DEF LockVersion, TypeOK, Tx, Phases
<1>3. CASE LockProjectFirst(r)
  BY <1>0, <1>3 DEF LockProjectFirst, TypeOK, Tx, Phases
<1>4. CASE LockProjectForGate(r)
  BY <1>0, <1>4 DEF LockProjectForGate, TypeOK, Tx, Phases
<1>5. CASE Answer(r)
  BY <1>5, ReleaseType DEF Answer, TypeOK
<1>6. CASE SubmitOverLimit(r)
  BY <1>6, ReleaseType, StalingType DEF SubmitOverLimit, TypeOK
<1>7. CASE SubmitNewGate(r)
  <2>1. gates' \in Seq(Gate) /\ log' \in Seq(Event)
    BY <1>7, StalingType, DraftType DEF SubmitNewGate
  <2> QED BY <1>7, <2>1, ReleaseType DEF SubmitNewGate, TypeOK
<1>8. CASE DecideStale(r)
  <2>1. gates' \in Seq(Gate) /\ log' \in Seq(Event)
    BY SMTT(20), <1>a, <1>8, StaledType, ReplaceLast DEF DecideStale, TypeOK
  <2> QED BY <1>8, <2>1, ReleaseType DEF DecideStale, TypeOK
<1>9. CASE DecideApplied(r)
  <2>1. TargetStatus(tx[r].gate, tx[r].action) # NoStatus
    BY <1>9 DEF DecideApplied, DecisionApplies, Applies
  <2>2. gates' \in Seq(Gate) /\ log' \in Seq(Event)
    BY <1>a, <1>9, <2>1, TransitionedType, ReplaceLast DEF DecideApplied, TypeOK
  <2> QED BY <1>9, <2>2, ReleaseType DEF DecideApplied, TypeOK
<1>10. CASE DraftAppended(r)
  <2>1. versions' \in Seq(Kinds)
    BY <1>10, ServiceAssumption DEF DraftAppended, TypeOK, Kinds
  <2> QED BY <1>10, <2>1, ReleaseType DEF DraftAppended, TypeOK
<1>11. CASE EditAppended(r)
  <2>1. versions' \in Seq(Kinds)
    BY <1>11 DEF EditAppended, TypeOK, Kinds
  <2>2. gates' \in Seq(Gate) /\ log' \in Seq(Event)
    <3>1. Current + 1 \in Nat
      BY <1>0
    <3>2. /\ Staled(tx[r].gate, tx[r].at) \in Gate
          /\ StaleEvent(tx[r].gate, Current + 1, tx[r].at) \in Event
      BY <1>a, <3>1, StaledType
    <3>3. CASE EditStalesGate(r)
      <4>1. /\ gates' = [gates EXCEPT ![Len(gates)] = Staled(tx[r].gate, tx[r].at)]
            /\ log' = Append(log, StaleEvent(tx[r].gate, Current + 1, tx[r].at))
        BY <1>11, <3>3 DEF EditAppended
      <4> QED BY <3>2, <4>1, ReplaceLast DEF TypeOK
    <3>4. CASE ~EditStalesGate(r)
      BY <1>11, <3>4 DEF EditAppended, TypeOK
    <3> QED BY <3>3, <3>4
  <2> QED BY <1>11, <2>1, <2>2, ReleaseType DEF EditAppended, TypeOK
<1> QED
  BY <1>1, <1>2, <1>3, <1>4, <1>5, <1>6, <1>7, <1>8, <1>9, <1>10, <1>11
  DEF Step, AnswerNotReady, ResubmitExisting, SubmitRefused, SubmitDuplicate,
      DecideRefused, AppendRefused, EditRolledBack

(* Every variable keeps its type: gates and histories stay well formed,    *)
(* whatever requests arrive and however they interleave.                   *)
THEOREM TypeCorrect == Spec => []TypeOK
<1>1. Init => TypeOK
  BY IdleTxType DEF Init, TypeOK
<1>2. TypeOK /\ [Next]_vars => TypeOK'
  <2> SUFFICES ASSUME TypeOK, [Next]_vars PROVE TypeOK'
    OBVIOUS
  <2>1. ASSUME NEW r \in Requests, Open(r) PROVE TypeOK'
    <3>1. {"submit", "draft", "edit", "decide"} \subseteq Ops
      BY DEF Ops
    <3>2. Decisions \subseteq Actions /\ "APPROVE" \in Actions
      BY ServiceAssumption DEF Actions
    <3>3. CASE BeginSubmit(r)
      BY <3>1, <3>2, <3>3, BeginType DEF BeginSubmit
    <3>4. CASE BeginDraft(r)
      BY <3>1, <3>2, <3>4, BeginType DEF BeginDraft
    <3>5. CASE BeginEdit(r)
      BY <3>1, <3>2, <3>5, BeginType DEF BeginEdit
    <3>6. CASE BeginDecide(r)
      <4>1. PICK action \in Decisions, reason \in BOOLEAN :
              Begin(r, "decide", action, reason)
        BY <3>6 DEF BeginDecide
      <4> QED BY <3>1, <3>2, <4>1, BeginType
    <3> QED BY <2>1, <3>3, <3>4, <3>5, <3>6 DEF Open
  <2>2. CASE UNCHANGED vars
    BY <2>2 DEF vars, TypeOK
  <2> QED BY <2>1, <2>2, StepType DEF Next
<1> QED BY <1>1, <1>2, PTL DEF Spec

-----------------------------------------------------------------------------

(***************************************************************************)
(* The project row protects the gate a request has read.                   *)
(***************************************************************************)

(* A request that moves a gate holds the project row, or nobody does. *)
LEMMA NobodyElseLocked ==
  ASSUME ReadGateIsCurrent, NEW r \in Requests,
         tx[r].phase = "locked" \/ project = NoRequest
  PROVE  \A o \in Requests \ {r} : tx[o].phase # "locked"
BY ServiceAssumption DEF ReadGateIsCurrent

(* The end of a transaction takes the row from no other request. *)
LEMMA ReleaseKeepsOthers ==
  ASSUME TypeOK, NEW r \in Requests, Release(r)
  PROVE  /\ tx'[r].phase = "idle"
         /\ \A o \in Requests \ {r} : tx'[o] = tx[o]
         /\ \A o \in Requests \ {r} : project = o => project' = o
BY DEF TypeOK, Release, IdleTx

LEMMA AnswerKeepsRead ==
  ASSUME TypeOK, ReadGateIsCurrent, NEW r \in Requests, Answer(r)
  PROVE  ReadGateIsCurrent'
<1>1. Latest' = Latest
  BY DEF Answer, Latest
<1> QED BY <1>1, ReleaseKeepsOthers DEF Answer, ReadGateIsCurrent

LEMMA CommitKeepsRead ==
  ASSUME TypeOK, ReadGateIsCurrent, NEW r \in Requests, Release(r),
         tx[r].phase = "locked" \/ project = NoRequest
  PROVE  ReadGateIsCurrent'
BY NobodyElseLocked, ReleaseKeepsOthers DEF ReadGateIsCurrent

LEMMA BeginKeepsRead ==
  ASSUME TypeOK, ReadGateIsCurrent, NEW r \in Requests, NEW op, NEW action, NEW reason,
         Begin(r, op, action, reason)
  PROVE  ReadGateIsCurrent'
<1>1. tx'[r].phase = "begun" /\ \A o \in Requests \ {r} : tx'[o] = tx[o]
  BY DEF Begin, TypeOK, IdleTx
<1>2. project' = project /\ Latest' = Latest
  BY DEF Begin, Latest
<1> QED BY <1>1, <1>2 DEF ReadGateIsCurrent

LEMMA StepKeepsRead ==
  ASSUME TypeOK, ReadGateIsCurrent, NEW r \in Requests, Step(r)
  PROVE  ReadGateIsCurrent'
<1>1. CASE ReadVersion(r) \/ LockVersion(r)
  <2>1. tx'[r].phase # "locked" /\ \A o \in Requests \ {r} : tx'[o] = tx[o]
    BY <1>1 DEF ReadVersion, LockVersion, TypeOK, Tx
  <2>2. project' = project /\ Latest' = Latest
    BY <1>1 DEF ReadVersion, LockVersion, Latest
  <2> QED BY <2>1, <2>2 DEF ReadGateIsCurrent
<1>2. CASE LockProjectFirst(r) \/ LockProjectForGate(r)
  <2>1. project = NoRequest
    BY <1>2 DEF LockProjectFirst, LockProjectForGate
  <2>2. tx'[r].gate = Latest /\ \A o \in Requests \ {r} : tx'[o] = tx[o]
    BY <1>2 DEF LockProjectFirst, LockProjectForGate, TypeOK, Tx
  <2>3. project' = r /\ Latest' = Latest
    BY <1>2 DEF LockProjectFirst, LockProjectForGate, Latest
  <2> QED BY <2>1, <2>2, <2>3, NobodyElseLocked DEF ReadGateIsCurrent
<1>3. CASE Answer(r)
  BY <1>3, AnswerKeepsRead
<1>4. CASE SubmitOverLimit(r) \/ SubmitNewGate(r)
  BY <1>4, CommitKeepsRead DEF SubmitOverLimit, SubmitNewGate, Superseding, Submitting
<1>5. CASE DecideStale(r) \/ DecideApplied(r)
  BY <1>5, CommitKeepsRead DEF DecideStale, DecideApplied, Deciding
<1>6. CASE DraftAppended(r) \/ EditAppended(r)
  BY <1>6, CommitKeepsRead DEF DraftAppended, EditAppended, MayAppend, Appending
<1> QED
  BY <1>1, <1>2, <1>3, <1>4, <1>5, <1>6
  DEF Step, AnswerNotReady, ResubmitExisting, SubmitRefused, SubmitDuplicate,
      DecideRefused, AppendRefused, EditRolledBack

(* The gate a request works on is the stored one until its transaction     *)
(* ends, in both lock orders: save_transition never finds it changed.      *)
THEOREM GateReadStaysCurrent == Spec => []ReadGateIsCurrent
<1>1. Init => ReadGateIsCurrent
  BY DEF Init, ReadGateIsCurrent, IdleTx
<1>2. TypeOK /\ ReadGateIsCurrent /\ [Next]_vars => ReadGateIsCurrent'
  <2> SUFFICES ASSUME TypeOK, ReadGateIsCurrent, [Next]_vars PROVE ReadGateIsCurrent'
    OBVIOUS
  <2>1. ASSUME NEW r \in Requests, Open(r) PROVE ReadGateIsCurrent'
    BY <2>1, BeginKeepsRead DEF Open, BeginSubmit, BeginDraft, BeginEdit, BeginDecide
  <2>2. CASE UNCHANGED vars
    BY <2>2 DEF vars, ReadGateIsCurrent, Latest
  <2> QED BY <2>1, <2>2, StepKeepsRead DEF Next
<1> QED BY <1>1, <1>2, TypeCorrect, PTL DEF Spec

-----------------------------------------------------------------------------

(***************************************************************************)
(* One gate is alive.  The invariant needs the numbering of the gates (so  *)
(* that NoGate stands for no gate at all) and that a request which moves a *)
(* gate does so under the project row, with the stored gate in hand.       *)
(***************************************************************************)

Line(s) ==
  \A g \in 1..Len(s) : s[g].iteration = g /\ (g < Len(s) => s[g].status = "STALE")

EditsLockProject ==
  \A r \in Requests : /\ tx[r].op = "edit" => OwnerEdits
                      /\ tx[r].phase \in {"waiting", "holding"} => ~LocksProjectFirst

LineInv == EditsLockProject /\ Line(gates)

(* The last gate moves and the line stays. *)
LEMMA LastMoves ==
  ASSUME NEW s \in Seq(Gate), Line(s), NEW x \in Gate, s # <<>> => x.iteration = Len(s)
  PROVE  Line([s EXCEPT ![Len(s)] = x])
<1>1. Len(s) \in Nat /\ (s # <<>> <=> Len(s) > 0)
  OBVIOUS
<1> QED BY <1>1, ReplaceLast DEF Line

(* A gate joins a line whose last gate is stale. *)
LEMMA GateJoins ==
  ASSUME NEW s \in Seq(Gate), Line(s), NEW x \in Gate, x.iteration = Len(s) + 1,
         s # <<>> => s[Len(s)].status = "STALE"
  PROVE  Line(Append(s, x))
<1>1. /\ Len(s) \in Nat
      /\ Len(Append(s, x)) = Len(s) + 1
      /\ Append(s, x)[Len(s) + 1] = x
      /\ \A g \in 1..Len(s) : Append(s, x)[g] = s[g]
  OBVIOUS
<1>2. Len(s) # 0 => s # <<>>
  OBVIOUS
<1> QED BY <1>1, <1>2 DEF Line

(* Among stored gates NoGate cannot be met. *)
LEMMA LatestInLine ==
  ASSUME gates \in Seq(Gate), Line(gates)
  PROVE  /\ Latest = NoGate <=> gates = <<>>
         /\ gates # <<>> => Latest = gates[Len(gates)] /\ Latest.iteration = Len(gates)
<1>1. gates # <<>> => Len(gates) \in 1..Len(gates)
  OBVIOUS
<1>2. gates # <<>> => Latest = gates[Len(gates)] /\ Latest.iteration = Len(gates)
  <2> SUFFICES ASSUME gates # <<>>
               PROVE  Latest = gates[Len(gates)] /\ Latest.iteration = Len(gates)
    OBVIOUS
  <2>1. gates[Len(gates)].iteration = Len(gates)
    BY <1>1 DEF Line
  <2>2. Latest = gates[Len(gates)]
    BY DEF Latest, LatestOf
  <2> QED BY <2>1, <2>2
<1>3. NoGate.iteration = 0
  BY DEF NoGate, DraftGate
<1> QED BY <1>1, <1>2, <1>3 DEF Latest, LatestOf

(* Superseding the gate in hand leaves a line whose last gate is stale. *)
LEMMA StalingKeepsLine ==
  ASSUME TypeOK, ReadGateIsCurrent, LineInv, NEW r \in Requests, tx[r].phase = "locked"
  PROVE  /\ Line(GatesAfterStaling(r))
         /\ Len(GatesAfterStaling(r)) = Len(gates)
         /\ gates # <<>> => GatesAfterStaling(r)[Len(gates)].status = "STALE"
<1>1. gates \in Seq(Gate) /\ Line(gates) /\ tx[r].gate = Latest
  BY DEF LineInv, TypeOK, ReadGateIsCurrent
<1>2. CASE NeedsStaling(tx[r].gate)
  <2>1. gates # <<>>
    BY <1>1, <1>2, LatestInLine DEF NeedsStaling
  <2>2. Superseded(tx[r].gate, tx[r].at) \in Gate
    BY <1>1, SupersededType DEF TypeOK, Tx
  <2>3. Superseded(tx[r].gate, tx[r].at) = Staled(tx[r].gate, tx[r].at)
    BY <1>2 DEF Superseded
  <2>4. /\ Superseded(tx[r].gate, tx[r].at).iteration = Len(gates)
        /\ Superseded(tx[r].gate, tx[r].at).status = "STALE"
    BY <1>1, <2>1, <2>3, LatestInLine, LatestType DEF Staled, Gate
  <2>5. GatesAfterStaling(r) =
          [gates EXCEPT ![Len(gates)] = Superseded(tx[r].gate, tx[r].at)]
    BY <1>2 DEF GatesAfterStaling, WithLatestSuperseded
  <2>6. Len(gates) \in 1..Len(gates)
    BY <1>1, <2>1
  <2>7. Line(GatesAfterStaling(r))
    BY <1>1, <2>2, <2>4, <2>5, LastMoves
  <2>8. /\ Len(GatesAfterStaling(r)) = Len(gates)
        /\ GatesAfterStaling(r)[Len(gates)] = Superseded(tx[r].gate, tx[r].at)
    BY <1>1, <2>2, <2>5, <2>6, ReplaceLast
  <2> QED BY <2>4, <2>7, <2>8
<1>3. CASE ~NeedsStaling(tx[r].gate)
  BY <1>1, <1>3, LatestInLine DEF NeedsStaling, GatesAfterStaling, WithLatestSuperseded
<1> QED BY <1>2, <1>3

LEMMA StepKeepsLine ==
  ASSUME TypeOK, ReadGateIsCurrent, LineInv, NEW r \in Requests, Step(r)
  PROVE  Line(gates')
<1>1. gates \in Seq(Gate) /\ Line(gates) /\ tx[r] \in Tx /\ TypeOK
  BY DEF LineInv, TypeOK
<1>2. tx[r].phase = "locked" =>
        /\ tx[r].gate = Latest
        /\ gates # <<>> => tx[r].gate.iteration = Len(gates)
        /\ tx[r].gate = NoGate <=> gates = <<>>
  BY <1>1, LatestInLine DEF LineInv, ReadGateIsCurrent
<1>3. tx[r].gate \in Gate /\ tx[r].at \in Nat /\ tx[r].action \in Actions
  BY <1>1 DEF Tx
<1>4. CASE UNCHANGED gates
  BY <1>1, <1>4
<1>5. CASE SubmitOverLimit(r)
  BY <1>5, StalingKeepsLine DEF SubmitOverLimit, Superseding, Submitting
<1>6. CASE SubmitNewGate(r)
  <2>1. tx[r].phase = "locked"
    BY <1>6 DEF SubmitNewGate, Superseding, Submitting
  <2> DEFINE next == Transitioned(Draft(r), "SUBMIT", tx[r].at)
  <2>2. next \in Gate /\ Draft(r) \in Gate
    BY <1>1, DraftType
  <2>3. Draft(r).iteration = Len(gates) + 1
    <3>1. CASE tx[r].gate = NoGate
      BY <1>2, <2>1, <3>1 DEF Draft, NextDraft, DraftGate
    <3>2. CASE tx[r].gate # NoGate
      BY <1>2, <2>1, <3>2 DEF Draft, NextDraft, DraftGate, NextIteration
    <3> QED BY <3>1, <3>2
  <2>4. next.iteration = Len(gates) + 1
    BY <2>2, <2>3 DEF Transitioned, Gate
  <2>5. GatesAfterStaling(r) \in Seq(Gate)
    BY <1>1, StalingType
  <2>6. gates' = Append(GatesAfterStaling(r), next)
    BY <1>6 DEF SubmitNewGate
  <2> HIDE DEF next
  <2>7. GatesAfterStaling(r) # <<>> => gates # <<>>
    BY <1>1, <2>1, <2>5, StalingKeepsLine
  <2> QED BY <2>1, <2>2, <2>4, <2>5, <2>6, <2>7, StalingKeepsLine, GateJoins
<1>7. CASE DecideStale(r)
  <2>1. tx[r].phase = "locked"
    BY <1>7 DEF DecideStale, Deciding
  <2>2. Staled(tx[r].gate, tx[r].at) \in Gate
    BY <1>3, StaledType, <1>1 DEF Tx
  <2>3. gates # <<>> => Staled(tx[r].gate, tx[r].at).iteration = Len(gates)
    BY <1>2, <1>3, <2>1 DEF Staled, Gate
  <2> QED BY <1>1, <1>7, <2>2, <2>3, LastMoves DEF DecideStale
<1>8. CASE DecideApplied(r)
  <2>1. tx[r].phase = "locked"
    BY <1>8 DEF DecideApplied, Deciding
  <2> DEFINE moved == Transitioned(tx[r].gate, tx[r].action, tx[r].at)
  <2>2. moved \in Gate
    BY <1>3, <1>8, TransitionedType DEF DecideApplied, DecisionApplies, Applies
  <2>3. gates # <<>> => moved.iteration = Len(gates)
    BY <1>2, <1>3, <2>1 DEF Transitioned, Gate
  <2>4. gates' = [gates EXCEPT ![Len(gates)] = moved]
    BY <1>8 DEF DecideApplied
  <2> HIDE DEF moved
  <2> QED BY <1>1, <2>2, <2>3, <2>4, LastMoves
<1>9. CASE EditAppended(r)
  <2>1. tx[r].phase = "locked"
    BY <1>9, ServiceAssumption DEF EditAppended, MayAppend, Appending, LineInv, EditsLockProject
  <2>2. Staled(tx[r].gate, tx[r].at) \in Gate
    BY <1>3, StaledType, <1>1 DEF Tx
  <2>3. gates # <<>> => Staled(tx[r].gate, tx[r].at).iteration = Len(gates)
    BY <1>2, <1>3, <2>1 DEF Staled, Gate
  <2>4. CASE EditStalesGate(r)
    <3>1. gates' = [gates EXCEPT ![Len(gates)] = Staled(tx[r].gate, tx[r].at)]
      BY <1>9, <2>4 DEF EditAppended
    <3> QED BY <1>1, <2>2, <2>3, <3>1, LastMoves
  <2>5. CASE ~EditStalesGate(r)
    BY <1>4, <1>9, <2>5 DEF EditAppended
  <2> QED BY <2>4, <2>5
<1> QED
  BY <1>4, <1>5, <1>6, <1>7, <1>8, <1>9
  DEF Step, ReadVersion, LockVersion, LockProjectFirst, LockProjectForGate,
      DraftAppended, AnswerNotReady, ResubmitExisting, SubmitRefused,
      SubmitDuplicate, DecideRefused, AppendRefused, EditRolledBack, Answer

LEMMA StepKeepsEditsLockProject ==
  ASSUME TypeOK, EditsLockProject, NEW r \in Requests, Step(r)
  PROVE  EditsLockProject'
<1>1. CASE ReadVersion(r) \/ LockVersion(r)
  <2>1. /\ \A o \in Requests \ {r} : tx'[o] = tx[o]
        /\ tx'[r].op = tx[r].op
    BY <1>1 DEF ReadVersion, LockVersion, TypeOK, Tx
  <2>2. ~LocksProjectFirst
    BY <1>1 DEF ReadVersion, LockVersion, EditsLockProject
  <2> QED BY <2>1, <2>2 DEF EditsLockProject
<1>2. CASE LockProjectFirst(r) \/ LockProjectForGate(r)
  <2>1. /\ \A o \in Requests \ {r} : tx'[o] = tx[o]
        /\ tx'[r].op = tx[r].op
        /\ tx'[r].phase = "locked"
    BY <1>2 DEF LockProjectFirst, LockProjectForGate, TypeOK, Tx
  <2> QED BY <2>1 DEF EditsLockProject
<1>3. CASE Release(r)
  <2>1. /\ \A o \in Requests \ {r} : tx'[o] = tx[o]
        /\ tx'[r].op = "submit"
        /\ tx'[r].phase = "idle"
    BY <1>3 DEF Release, TypeOK, IdleTx
  <2> QED BY <2>1 DEF EditsLockProject
<1> QED
  BY <1>1, <1>2, <1>3
  DEF Step, AnswerNotReady, ResubmitExisting, SubmitRefused, SubmitOverLimit,
      SubmitNewGate, SubmitDuplicate, DecideRefused, DecideStale, DecideApplied,
      AppendRefused, DraftAppended, EditAppended, EditRolledBack, Answer

LEMMA BeginKeepsEditsLockProject ==
  ASSUME TypeOK, EditsLockProject, NEW r \in Requests, NEW op, NEW action, NEW reason,
         Begin(r, op, action, reason), op = "edit" => OwnerEdits
  PROVE  EditsLockProject'
<1>1. /\ \A o \in Requests \ {r} : tx'[o] = tx[o]
      /\ tx'[r].op = op
      /\ tx'[r].phase = "begun"
  BY DEF Begin, TypeOK, IdleTx
<1> QED BY <1>1 DEF EditsLockProject

LEMMA OpenKeepsEditsLockProject ==
  ASSUME TypeOK, EditsLockProject, NEW r \in Requests, Open(r)
  PROVE  EditsLockProject'
<1>1. CASE BeginSubmit(r) \/ BeginDraft(r)
  BY <1>1, BeginKeepsEditsLockProject DEF BeginSubmit, BeginDraft
<1>2. CASE BeginEdit(r)
  BY <1>2, BeginKeepsEditsLockProject DEF BeginEdit
<1>3. CASE BeginDecide(r)
  BY <1>3, BeginKeepsEditsLockProject DEF BeginDecide
<1> QED BY <1>1, <1>2, <1>3 DEF Open

(* A request that begins writes nothing yet. *)
LEMMA OpenWritesNothing ==
  ASSUME NEW r \in Requests, Open(r)
  PROVE  UNCHANGED <<versions, gates, log>>
<1>1. CASE BeginSubmit(r) \/ BeginDraft(r)
  BY <1>1 DEF BeginSubmit, BeginDraft, Begin
<1>2. CASE BeginEdit(r)
  BY <1>2 DEF BeginEdit, Begin
<1>3. CASE BeginDecide(r)
  BY <1>3 DEF BeginDecide, Begin
<1> QED BY <1>1, <1>2, <1>3 DEF Open

(* At most the last gate of a project and type can still be decided or     *)
(* count as approved: every earlier one is stale, however requests race.   *)
THEOREM OneGateLives == Spec => []OnlyLatestGateLives
<1>1. Init => LineInv
  BY DEF Init, LineInv, EditsLockProject, Line, IdleTx
<1>2. TypeOK /\ ReadGateIsCurrent /\ LineInv /\ [Next]_vars => LineInv'
  <2> SUFFICES ASSUME TypeOK, ReadGateIsCurrent, LineInv, [Next]_vars PROVE LineInv'
    OBVIOUS
  <2>1. ASSUME NEW r \in Requests, Open(r) PROVE LineInv'
    <3>1. gates' = gates
      BY <2>1, OpenWritesNothing
    <3>2. EditsLockProject'
      BY <2>1, OpenKeepsEditsLockProject DEF LineInv
    <3> QED BY <3>1, <3>2 DEF LineInv
  <2>2. ASSUME NEW r \in Requests, Step(r) PROVE LineInv'
    BY <2>2, StepKeepsLine, StepKeepsEditsLockProject DEF LineInv
  <2>3. CASE UNCHANGED vars
    BY <2>3 DEF vars, LineInv, EditsLockProject
  <2> QED BY <2>1, <2>2, <2>3 DEF Next
<1>3. TypeOK /\ LineInv => OnlyLatestGateLives
  <2> SUFFICES ASSUME TypeOK, Line(gates) PROVE OnlyLatestGateLives
    BY DEF LineInv
  <2>1. DOMAIN gates = 1..Len(gates)
    BY DEF TypeOK
  <2> QED BY <2>1 DEF OnlyLatestGateLives, Line
<1> QED BY <1>1, <1>2, <1>3, TypeCorrect, GateReadStaysCurrent, PTL DEF Spec

-----------------------------------------------------------------------------

(***************************************************************************)
(* The history of the gates.                                               *)
(***************************************************************************)

(* The gate in hand is the last of the history when a request moves it.    *)
LEMMA InHand ==
  ASSUME TypeOK, ReadGateIsCurrent, NEW r \in Requests, tx[r].phase = "locked"
  PROVE  /\ tx[r].gate = LatestOf(gates)
         /\ tx[r].at \in Nat /\ tx[r].seen \in Nat /\ tx[r].action \in Actions
         /\ Current \in Nat /\ Current + 1 \in Nat
BY DEF TypeOK, Tx, ReadGateIsCurrent, Latest, Current

(* Which steps move a gate, and that the project row is held then.         *)
LEMMA GateMoves ==
  ASSUME TypeOK, LineInv, NEW r \in Requests, Step(r)
  PROVE  \/ UNCHANGED <<gates, log>>
         \/ /\ tx[r].phase = "locked"
            /\ \/ SubmitOverLimit(r)
               \/ SubmitNewGate(r)
               \/ DecideStale(r)
               \/ DecideApplied(r)
               \/ EditAppended(r) /\ EditStalesGate(r)
<1>1. CASE SubmitOverLimit(r) \/ SubmitNewGate(r)
  BY <1>1 DEF SubmitOverLimit, SubmitNewGate, Superseding, Submitting
<1>2. CASE DecideStale(r) \/ DecideApplied(r)
  BY <1>2 DEF DecideStale, DecideApplied, Deciding
<1>3. CASE EditAppended(r)
  <2>1. tx[r].phase = "locked"
    BY <1>3, ServiceAssumption DEF EditAppended, MayAppend, Appending, LineInv, EditsLockProject
  <2>2. ~EditStalesGate(r) => UNCHANGED <<gates, log>>
    BY <1>3 DEF EditAppended
  <2> QED BY <1>3, <2>1, <2>2
<1>4. CASE ReadVersion(r) \/ LockVersion(r) \/ LockProjectFirst(r) \/ LockProjectForGate(r)
  BY <1>4 DEF ReadVersion, LockVersion, LockProjectFirst, LockProjectForGate
<1>5. CASE DraftAppended(r)
  BY <1>5 DEF DraftAppended
<1>6. CASE Answer(r)
  BY <1>6 DEF Answer
<1> QED
  BY <1>1, <1>2, <1>3, <1>4, <1>5, <1>6
  DEF Step, AnswerNotReady, ResubmitExisting, SubmitRefused, SubmitDuplicate,
      DecideRefused, AppendRefused, EditRolledBack

(* An edit that supersedes the gate does so by the rules of the gate.      *)
LEMMA EditSupersedes ==
  ASSUME NEW r \in Requests, EditAppended(r), EditStalesGate(r)
  PROVE  /\ tx[r].gate # NoGate /\ StaleApplies(tx[r].gate, Current + 1, tx[r].at)
         /\ gates' = [gates EXCEPT ![Len(gates)] = Staled(tx[r].gate, tx[r].at)]
         /\ log' = Append(log, StaleEvent(tx[r].gate, Current + 1, tx[r].at))
BY DEF EditAppended, EditStalesGate

LEMMA StepKeepsHistory ==
  ASSUME TypeOK, ReadGateIsCurrent, LineInv, History(gates, log), NEW r \in Requests, Step(r)
  PROVE  History(gates', log')
<1> DEFINE gate == tx[r].gate
           at   == tx[r].at
           seen == tx[r].seen
<1>1. CASE UNCHANGED <<gates, log>>
  BY <1>1
<1>2. CASE tx[r].phase = "locked" /\ SubmitOverLimit(r)
  <2>1. /\ gate = LatestOf(gates) /\ at \in Nat /\ seen \in Nat
        /\ SubmissionProceeds(gate, seen, at)
    BY <1>2, InHand DEF SubmitOverLimit, Superseding
  <2>2. /\ gates' = WithLatestSuperseded(gates, gate, at)
        /\ log' = WithSupersession(log, gate, seen, at)
    BY <1>2 DEF SubmitOverLimit, GatesAfterStaling, LogAfterStaling
  <2> HIDE DEF gate, at, seen
  <2> QED BY <2>1, <2>2, SupersessionKeepsHistory
<1>3. CASE tx[r].phase = "locked" /\ SubmitNewGate(r)
  <2> DEFINE gates1 == WithLatestSuperseded(gates, gate, at)
             log1   == WithSupersession(log, gate, seen, at)
             draft  == NextDraft(gate, log1, seen, at)
  <2>1. /\ gate = LatestOf(gates) /\ at \in Nat /\ seen \in Nat
        /\ SubmissionProceeds(gate, seen, at) /\ ~OverLimit(gate, log1, at)
    BY <1>3, InHand DEF SubmitNewGate, Superseding, OutOfBudget, LogAfterStaling
  <2>2. /\ gates' = Append(gates1, Transitioned(draft, "SUBMIT", at))
        /\ log' = Append(log1, TransitionEvent(draft, "SUBMIT", at))
    BY <1>3 DEF SubmitNewGate, GatesAfterStaling, LogAfterStaling, Draft
  <2> HIDE DEF gate, at, seen
  <2> QED BY <2>1, <2>2, SubmissionKeepsHistory
<1>4. CASE tx[r].phase = "locked" /\ DecideStale(r)
  <2>1. /\ gate = LatestOf(gates) /\ at \in Nat /\ seen \in Nat
        /\ gate # NoGate /\ StaleApplies(gate, seen, at)
    BY <1>4, InHand DEF DecideStale, DecisionSupersedes
  <2>2. /\ gates' = [gates EXCEPT ![Len(gates)] = Staled(gate, at)]
        /\ log' = Append(log, StaleEvent(gate, seen, at))
    BY <1>4 DEF DecideStale
  <2> HIDE DEF gate, at, seen
  <2> QED BY <2>1, <2>2, StalingKeepsHistory
<1>5. CASE tx[r].phase = "locked" /\ DecideApplied(r)
  <2> DEFINE action == tx[r].action
             reason == tx[r].reason
  <2>1. /\ gate = LatestOf(gates) /\ at \in Nat /\ action \in Actions
        /\ gate # NoGate /\ Applies(gate, action, reason, at)
    BY <1>5, InHand DEF DecideApplied, DecisionApplies
  <2>2. /\ gates' = [gates EXCEPT ![Len(gates)] = Transitioned(gate, action, at)]
        /\ log' = Append(log, TransitionEvent(gate, action, at))
    BY <1>5 DEF DecideApplied
  <2> HIDE DEF gate, at, seen, action, reason
  <2> QED BY <2>1, <2>2, DecisionKeepsHistory
<1>6. CASE tx[r].phase = "locked" /\ EditAppended(r) /\ EditStalesGate(r)
  <2> DEFINE next == Current + 1
  <2>1. /\ gate = LatestOf(gates) /\ at \in Nat /\ next \in Nat
        /\ gate # NoGate /\ StaleApplies(gate, next, at)
    BY <1>6, InHand, EditSupersedes
  <2>2. /\ gates' = [gates EXCEPT ![Len(gates)] = Staled(gate, at)]
        /\ log' = Append(log, StaleEvent(gate, next, at))
    BY <1>6, EditSupersedes
  <2> HIDE DEF gate, at, next
  <2> QED BY <2>1, <2>2, StalingKeepsHistory
<1> QED BY <1>1, <1>2, <1>3, <1>4, <1>5, <1>6, GateMoves

HistoryInv == TypeOK /\ ReadGateIsCurrent /\ LineInv /\ History(gates, log)

LEMMA HistoryHolds == Spec => []HistoryInv
<1>1. Init => LineInv /\ History(gates, log)
  BY NoHistory DEF Init, LineInv, EditsLockProject, Line, IdleTx
<1>2. TypeOK /\ ReadGateIsCurrent /\ LineInv /\ History(gates, log) /\ [Next]_vars =>
        LineInv' /\ History(gates, log)'
  <2> SUFFICES ASSUME TypeOK, ReadGateIsCurrent, LineInv, History(gates, log), [Next]_vars
               PROVE  LineInv' /\ History(gates', log')
    OBVIOUS
  <2>1. ASSUME NEW r \in Requests, Open(r) PROVE LineInv' /\ History(gates', log')
    <3>1. gates' = gates /\ log' = log
      BY <2>1, OpenWritesNothing
    <3>2. EditsLockProject'
      BY <2>1, OpenKeepsEditsLockProject DEF LineInv
    <3> QED BY <3>1, <3>2 DEF LineInv
  <2>2. ASSUME NEW r \in Requests, Step(r) PROVE LineInv' /\ History(gates', log')
    BY <2>2, StepKeepsLine, StepKeepsEditsLockProject, StepKeepsHistory DEF LineInv
  <2>3. CASE UNCHANGED vars
    BY <2>3 DEF vars, LineInv, EditsLockProject
  <2> QED BY <2>1, <2>2, <2>3 DEF Next
<1> QED BY <1>1, <1>2, TypeCorrect, GateReadStaysCurrent, PTL DEF Spec, HistoryInv

(* The history of every gate tells its life without a gap, a fork or a     *)
(* step back in time, and ends in the status the gate has, for every set   *)
(* of requests, both lock orders and every limit.                          *)
THEOREM HistoryIsTold == Spec => []HistoryTellsTheGate
<1>1. HistoryInv => HistoryTellsTheGate
  BY DEF HistoryInv, History, Told, HistoryTellsTheGate
<1> QED BY <1>1, HistoryHolds, PTL

(* A stored gate can be loaded again: it passes the checks of the record.  *)
THEOREM GatesLoad == Spec => []StoredGatesLoad
<1>1. HistoryInv => StoredGatesLoad
  BY DEF HistoryInv, History, Stored, StoredGatesLoad
<1> QED BY <1>1, HistoryHolds, PTL

(* ITERATION_LIMIT_REACHED is answered only when as many gates as the      *)
(* limit lie behind without an approval among them.                        *)
THEOREM RefusalsAreEarned == Spec => []RefusedOnlyWhenSpent
<1>1. HistoryInv => RefusedOnlyWhenSpent
  <2> SUFFICES ASSUME HistoryInv, NEW r \in Requests, Superseding(r), OutOfBudget(r)
               PROVE  /\ Len(gates) >= IterationLimit
                      /\ \A h \in (Len(gates) - IterationLimit + 1)..Len(gates) :
                           ~ApprovedOnce(log, h)
    BY DEF RefusedOnlyWhenSpent
  <2> DEFINE gate == tx[r].gate
             at   == tx[r].at
             seen == tx[r].seen
  <2>1. tx[r].phase = "locked" /\ History(gates, log) /\ TypeOK /\ ReadGateIsCurrent
    BY DEF HistoryInv, Superseding, Submitting
  <2>2. /\ gate = LatestOf(gates) /\ at \in Nat /\ seen \in Nat
        /\ SubmissionProceeds(gate, seen, at)
        /\ OverLimit(gate, WithSupersession(log, gate, seen, at), at)
    BY <2>1, InHand DEF Superseding, OutOfBudget, LogAfterStaling
  <2> HIDE DEF gate, at, seen
  <2> QED BY <2>1, <2>2, RefusedHasSpent
<1> QED BY <1>1, HistoryHolds, PTL

-----------------------------------------------------------------------------

(***************************************************************************)
(* What blocks, blocks for good.                                           *)
(***************************************************************************)

(* CANCELLED and PAUSED_NEEDS_HUMAN are results of the latest gate only.   *)
EndResults == {"CANCELLED", "PAUSED_NEEDS_HUMAN"}

LEMMA StepKeepsBlocked ==
  ASSUME HistoryInv, EndsAt(log, EndResults, Len(gates)), NEW r \in Requests, Step(r)
  PROVE  EndsAt(log', EndResults, Len(gates'))
<1> DEFINE gate == tx[r].gate
           at   == tx[r].at
           seen == tx[r].seen
           n    == Len(gates)
<1>1. /\ TypeOK /\ ReadGateIsCurrent /\ LineInv /\ History(gates, log)
      /\ gates \in Seq(Gate) /\ log \in Seq(Event)
  BY DEF HistoryInv, History
<1>2. CASE UNCHANGED <<gates, log>>
  BY <1>2
<1>3. CASE tx[r].phase = "locked" /\ SubmitOverLimit(r)
  <2>1. /\ gate = LatestOf(gates) /\ at \in Nat /\ seen \in Nat
        /\ SubmissionProceeds(gate, seen, at)
    BY <1>1, <1>3, InHand DEF SubmitOverLimit, Superseding
  <2>2. /\ gates' = WithLatestSuperseded(gates, gate, at)
        /\ log' = WithSupersession(log, gate, seen, at)
    BY <1>3 DEF SubmitOverLimit, GatesAfterStaling, LogAfterStaling
  <2> HIDE DEF gate, at, seen
  <2>3. Len(gates') = n
    BY <1>1, <2>1, <2>2, SupersessionKeepsHistory
  <2> QED BY <1>1, <2>1, <2>2, <2>3, SupersessionKeepsEnds
<1>4. CASE tx[r].phase = "locked" /\ SubmitNewGate(r)
  <2> DEFINE gates1 == WithLatestSuperseded(gates, gate, at)
             log1   == WithSupersession(log, gate, seen, at)
             draft  == NextDraft(gate, log1, seen, at)
             event  == TransitionEvent(draft, "SUBMIT", at)
             last   == Len(gates')
  <2>1. /\ gate = LatestOf(gates) /\ at \in Nat /\ seen \in Nat
        /\ SubmissionProceeds(gate, seen, at) /\ ~OverLimit(gate, log1, at)
    BY <1>1, <1>4, InHand DEF SubmitNewGate, Superseding, OutOfBudget, LogAfterStaling
  <2>2. log' = Append(log1, event)
    BY <1>4 DEF SubmitNewGate, LogAfterStaling, Draft
  <2> HIDE DEF gate, at, seen
  <2>3. gate \in Gate
    BY <1>1, <2>1, LatestOfType
  <2>4. log1 \in Seq(Event) /\ event \in Event
    BY <1>1, <2>1, <2>3, NextDraftType, SupersessionType
  <2>5. EndsAt(log1, EndResults, n)
    BY <1>1, <2>1, SupersessionKeepsEnds
  <2>6. ASSUME NEW i \in DOMAIN log1, log1[i].gate = n
        PROVE  log1[i].resulting \notin EndResults
    BY <1>1, <2>1, <2>6, SubmissionAfterNoEnd DEF EndResults
  <2>7. event.resulting \notin EndResults
    <3>1. draft.status = "DRAFT" BY DEF NextDraft, DraftGate
    <3> QED BY <3>1, SubmittedDraft DEF TransitionEvent, EndResults
  <2> HIDE DEF log1, event, last
  <2>8. EndsAt(Append(log1, event), EndResults, last)
    BY <2>4, <2>5, <2>6, <2>7, EventOfNext
  <2> QED BY <2>2, <2>8 DEF last
<1>5. CASE tx[r].phase = "locked" /\ DecideStale(r)
  <2>1. /\ gate = LatestOf(gates) /\ at \in Nat /\ seen \in Nat /\ gate # NoGate
    BY <1>1, <1>5, InHand DEF DecideStale, DecisionSupersedes
  <2>2. /\ gates' = [gates EXCEPT ![n] = Staled(gate, at)]
        /\ log' = Append(log, StaleEvent(gate, seen, at))
    BY <1>5 DEF DecideStale
  <2> HIDE DEF gate, at, seen
  <2>3. gate \in Gate /\ gate.iteration = n
    BY <1>1, <2>1, LatestIs
  <2>4. StaleEvent(gate, seen, at) \in Event /\ Staled(gate, at) \in Gate
    BY <2>1, <2>3, StaledType
  <2>5. StaleEvent(gate, seen, at).gate = n
    BY <2>3 DEF StaleEvent
  <2>6. Len(gates') = n
    BY <1>1, <2>2, <2>4, ReplaceLast
  <2> QED BY <1>1, <2>2, <2>4, <2>5, <2>6, EventOfLast
<1>6. CASE tx[r].phase = "locked" /\ DecideApplied(r)
  <2> DEFINE action == tx[r].action
             event  == TransitionEvent(gate, action, at)
             next   == Transitioned(gate, action, at)
  <2>1. /\ gate = LatestOf(gates) /\ at \in Nat /\ action \in Actions
        /\ gate # NoGate /\ TargetStatus(gate, action) # NoStatus
    BY <1>1, <1>6, InHand DEF DecideApplied, DecisionApplies, Applies
  <2>2. gates' = [gates EXCEPT ![n] = next] /\ log' = Append(log, event)
    BY <1>6 DEF DecideApplied
  <2> HIDE DEF gate, at, seen, action
  <2>3. gate \in Gate /\ gate.iteration = n
    BY <1>1, <2>1, LatestIs
  <2>4. event \in Event /\ next \in Gate
    BY <2>1, <2>3, TransitionedType
  <2>5. event.gate = n
    BY <2>3 DEF TransitionEvent
  <2>6. Len(gates') = n
    BY <1>1, <2>2, <2>4, ReplaceLast
  <2> QED BY <1>1, <2>2, <2>4, <2>5, <2>6, EventOfLast
<1>7. CASE tx[r].phase = "locked" /\ EditAppended(r) /\ EditStalesGate(r)
  <2> DEFINE version == Current + 1
  <2>1. /\ gate = LatestOf(gates) /\ at \in Nat /\ version \in Nat /\ gate # NoGate
    BY <1>1, <1>7, InHand, EditSupersedes
  <2>2. /\ gates' = [gates EXCEPT ![n] = Staled(gate, at)]
        /\ log' = Append(log, StaleEvent(gate, version, at))
    BY <1>7, EditSupersedes
  <2> HIDE DEF gate, at, version
  <2>3. gate \in Gate /\ gate.iteration = n
    BY <1>1, <2>1, LatestIs
  <2>4. StaleEvent(gate, version, at) \in Event /\ Staled(gate, at) \in Gate
    BY <2>1, <2>3, StaledType
  <2>5. StaleEvent(gate, version, at).gate = n
    BY <2>3 DEF StaleEvent
  <2>6. Len(gates') = n
    BY <1>1, <2>2, <2>4, ReplaceLast
  <2> QED BY <1>1, <2>2, <2>4, <2>5, <2>6, EventOfLast
<1> QED BY <1>1, <1>2, <1>3, <1>4, <1>5, <1>6, <1>7, GateMoves

(* After a cancelled gate, or one that waits for a human, no gate opens,   *)
(* even when a decision has superseded the latter in the meantime.         *)
THEOREM BlocksForGood == Spec => []BlockedForGood
<1>1. Init => EndsAt(log, EndResults, Len(gates))
  BY DEF Init, EndsAt
<1>2. HistoryInv /\ EndsAt(log, EndResults, Len(gates)) /\ [Next]_vars
        => EndsAt(log, EndResults, Len(gates))'
  <2> SUFFICES ASSUME HistoryInv, EndsAt(log, EndResults, Len(gates)), [Next]_vars
               PROVE  EndsAt(log', EndResults, Len(gates'))
    OBVIOUS
  <2>1. ASSUME NEW r \in Requests, Open(r) PROVE gates' = gates /\ log' = log
    BY <2>1, OpenWritesNothing
  <2>2. CASE UNCHANGED vars
    BY <2>2 DEF vars
  <2> QED BY <2>1, <2>2, StepKeepsBlocked DEF Next
<1>3. EndsAt(log, EndResults, Len(gates)) => BlockedForGood
  BY DEF EndsAt, BlockedForGood, EndResults
<1> QED BY <1>1, <1>2, <1>3, HistoryHolds, PTL DEF Spec

-----------------------------------------------------------------------------

(***************************************************************************)
(* What a step writes, for the properties that relate gates and versions.  *)
(***************************************************************************)

(* The latest gate moves: it is superseded by the version a request has    *)
(* read or has just made, or takes the owner's decision on this version.   *)
LatestMoves(r, next, event) ==
  LET n == Len(gates) IN
  /\ tx[r].phase = "locked" /\ gates # <<>>
  /\ gates' = [gates EXCEPT ![n] = next] /\ log' = Append(log, event)
  /\ Follows(gates[n], next, event) /\ NextFits(gates[n], next, event)
  /\ \/ /\ UNCHANGED versions
        /\ event.kind = "ARTIFACT_SUPERSEDED"
        /\ event.artifact = tx[r].seen /\ tx[r].seen # gates[n].artifact
     \/ /\ tx[r].op = "edit" /\ versions' = Append(versions, "edited")
        /\ event.kind = "ARTIFACT_SUPERSEDED"
        /\ event.artifact = Current + 1
     \/ /\ UNCHANGED versions
        /\ event.kind \in Actions /\ gates[n].artifact = tx[r].seen
        /\ next.status = TargetStatus(gates[n], event.kind)
        /\ TargetStatus(gates[n], event.kind) # NoStatus

(* A gate opens behind a latest one that is stale by now.                  *)
GateOpens(r, gates1, log1, next, event) ==
  LET n == Len(gates) IN
  /\ tx[r].phase = "locked" /\ UNCHANGED versions
  /\ \/ gates1 = gates /\ log1 = log
     \/ \E e \in Event :
          /\ gates # <<>> /\ log1 = Append(log, e)
          /\ e.kind = "ARTIFACT_SUPERSEDED" /\ e.gate = n /\ e.artifact = tx[r].seen
          /\ \E g \in Gate : /\ gates1 = [gates EXCEPT ![n] = g]
                             /\ g.artifact = gates[n].artifact /\ g.max = gates[n].max
                             /\ g.iteration = gates[n].iteration /\ g.status = "STALE"
  /\ History(gates1, log1) /\ Len(gates1) = n
  /\ gates # <<>> => /\ gates[n].status \notin {"CANCELLED", "PAUSED_NEEDS_HUMAN"}
                     /\ gates[n].artifact # tx[r].seen
                     /\ ~BudgetSpent(gates1[n], log1)
  /\ gates' = Append(gates1, next) /\ log' = Append(log1, event)
  /\ tx[r].seen # 0
  /\ next.artifact = tx[r].seen /\ next.status = "PENDING_APPROVAL" /\ next.iteration = n + 1
  /\ next.max = IF gates = <<>> THEN IterationLimit ELSE NextMax(gates1[n], log1)
  /\ event.kind = "SUBMIT" /\ event.gate = n + 1

LEMMA StalingMoves ==
  ASSUME HistoryInv, NEW r \in Requests, tx[r].phase = "locked", tx[r].gate # NoGate,
         StaleApplies(tx[r].gate, tx[r].seen, tx[r].at), UNCHANGED versions,
         gates' = [gates EXCEPT ![Len(gates)] = Staled(tx[r].gate, tx[r].at)],
         log' = Append(log, StaleEvent(tx[r].gate, tx[r].seen, tx[r].at))
  PROVE  \E next \in Gate, event \in Event : LatestMoves(r, next, event)
<1> DEFINE gate  == tx[r].gate
           next  == Staled(gate, tx[r].at)
           event == StaleEvent(gate, tx[r].seen, tx[r].at)
<1>1. /\ TypeOK /\ ReadGateIsCurrent /\ History(gates, log)
      /\ gate = LatestOf(gates) /\ tx[r].at \in Nat /\ tx[r].seen \in Nat
  BY InHand DEF HistoryInv
<1>2. gates # <<>> /\ gate = gates[Len(gates)] /\ gate \in Gate /\ Stored(gate)
  BY <1>1, LatestIs
<1>3. next \in Gate /\ event \in Event
  BY <1>1, <1>2, StaledType
<1>4. Follows(gate, next, event) /\ NextFits(gate, next, event)
  BY <1>1, <1>2, StalingFits
<1>5. /\ event.kind = "ARTIFACT_SUPERSEDED" /\ event.artifact = tx[r].seen
      /\ tx[r].seen # gate.artifact
  BY DEF StaleEvent, StaleApplies
<1>6. gates' = [gates EXCEPT ![Len(gates)] = next] /\ log' = Append(log, event)
  OBVIOUS
<1> HIDE DEF next, event
<1>7. LatestMoves(r, next, event)
  BY <1>2, <1>4, <1>5, <1>6 DEF LatestMoves
<1> QED BY <1>3, <1>7

LEMMA EditMoves ==
  ASSUME HistoryInv, NEW r \in Requests, tx[r].phase = "locked",
         EditAppended(r), EditStalesGate(r)
  PROVE  \E next \in Gate, event \in Event : LatestMoves(r, next, event)
<1> DEFINE gate  == tx[r].gate
           next  == Staled(gate, tx[r].at)
           event == StaleEvent(gate, Current + 1, tx[r].at)
<1>1. /\ TypeOK /\ ReadGateIsCurrent /\ History(gates, log)
      /\ gate = LatestOf(gates) /\ tx[r].at \in Nat /\ Current + 1 \in Nat
  BY InHand DEF HistoryInv
<1>2. gate # NoGate /\ StaleApplies(gate, Current + 1, tx[r].at)
  BY EditSupersedes
<1>3. gates # <<>> /\ gate = gates[Len(gates)] /\ gate \in Gate /\ Stored(gate)
  BY <1>1, <1>2, LatestIs
<1>4. next \in Gate /\ event \in Event
  BY <1>1, <1>3, StaledType
<1>5. Follows(gate, next, event) /\ NextFits(gate, next, event)
  BY <1>1, <1>2, <1>3, StalingFits
<1>6. event.kind = "ARTIFACT_SUPERSEDED" /\ event.artifact = Current + 1
  BY DEF StaleEvent
<1>7. /\ gates' = [gates EXCEPT ![Len(gates)] = next] /\ log' = Append(log, event)
      /\ tx[r].op = "edit" /\ versions' = Append(versions, "edited")
  BY EditSupersedes DEF EditAppended
<1> HIDE DEF next, event
<1>8. LatestMoves(r, next, event)
  BY <1>3, <1>5, <1>6, <1>7 DEF LatestMoves
<1> QED BY <1>4, <1>8

LEMMA DecisionMoves ==
  ASSUME HistoryInv, NEW r \in Requests, tx[r].phase = "locked", DecideApplied(r)
  PROVE  \E next \in Gate, event \in Event : LatestMoves(r, next, event)
<1> DEFINE gate   == tx[r].gate
           action == tx[r].action
           next   == Transitioned(gate, action, tx[r].at)
           event  == TransitionEvent(gate, action, tx[r].at)
<1>1. /\ TypeOK /\ ReadGateIsCurrent /\ History(gates, log)
      /\ gate = LatestOf(gates) /\ tx[r].at \in Nat /\ action \in Actions
  BY InHand DEF HistoryInv
<1>2. /\ gate # NoGate /\ Applies(gate, action, tx[r].reason, tx[r].at)
      /\ gate.artifact = tx[r].seen
  BY DEF DecideApplied, DecisionApplies
<1>3. gates # <<>> /\ gate = gates[Len(gates)] /\ gate \in Gate /\ Stored(gate)
  BY <1>1, <1>2, LatestIs
<1>4. next \in Gate /\ event \in Event
  BY <1>1, <1>2, <1>3, TransitionedType DEF Applies
<1>5. Follows(gate, next, event) /\ NextFits(gate, next, event)
  BY <1>1, <1>2, <1>3, TransitionFits
<1>6. event.kind = action /\ TargetStatus(gate, action) # NoStatus
  BY <1>2 DEF TransitionEvent, Applies
<1>7. next.status = TargetStatus(gate, action)
  BY <1>3 DEF Transitioned, Gate
<1>8. /\ gates' = [gates EXCEPT ![Len(gates)] = next] /\ log' = Append(log, event)
      /\ UNCHANGED versions
  BY DEF DecideApplied
<1> HIDE DEF next, event, action
<1>9. LatestMoves(r, next, event)
  BY <1>1, <1>2, <1>3, <1>5, <1>6, <1>7, <1>8 DEF LatestMoves
<1> QED BY <1>4, <1>9

LEMMA OpeningMoves ==
  ASSUME HistoryInv, NEW r \in Requests, tx[r].phase = "locked", SubmitNewGate(r)
  PROVE  \E gates1 \in Seq(Gate), log1 \in Seq(Event), next \in Gate, event \in Event :
           GateOpens(r, gates1, log1, next, event)
<1> DEFINE gate   == tx[r].gate
           at     == tx[r].at
           seen   == tx[r].seen
           n      == Len(gates)
           gates1 == WithLatestSuperseded(gates, gate, at)
           log1   == WithSupersession(log, gate, seen, at)
           draft  == NextDraft(gate, log1, seen, at)
           next   == Transitioned(draft, "SUBMIT", at)
           event  == TransitionEvent(draft, "SUBMIT", at)
<1>1. /\ TypeOK /\ ReadGateIsCurrent /\ History(gates, log)
      /\ gate = LatestOf(gates) /\ at \in Nat /\ seen \in Nat
      /\ gates \in Seq(Gate) /\ log \in Seq(Event)
  BY InHand DEF HistoryInv, History
<1>2. /\ SubmissionProceeds(gate, seen, at) /\ ~OverLimit(gate, log1, at) /\ seen # 0
  BY DEF SubmitNewGate, Superseding, Submitting, Ready, OutOfBudget, LogAfterStaling
<1>3. /\ gates' = Append(gates1, next) /\ log' = Append(log1, event) /\ UNCHANGED versions
  BY DEF SubmitNewGate, GatesAfterStaling, LogAfterStaling, Draft
<1> HIDE DEF gate, at, seen
<1>4. /\ gates # <<>> <=> gate # NoGate
      /\ gates # <<>> => gate = gates[n] /\ gate.iteration = n
      /\ gates = <<>> => n = 0
      /\ gate \in Gate
  <2>1. gate \in Gate BY <1>1, LatestOfType
  <2> QED BY <1>1, <2>1, LatestIs
<1>5. /\ History(gates1, log1) /\ Len(gates1) = n
      /\ gate # NoGate => gates1[n] = Superseded(gate, at)
  <2>1. History(gates, log) /\ gate = LatestOf(gates) /\ seen \in Nat /\ at \in Nat
    BY <1>1
  <2>2. SubmissionProceeds(gate, seen, at)
    BY <1>2
  <2> QED BY ONLY <2>1, <2>2, SupersessionKeepsHistory
<1>6. gates1 \in Seq(Gate) /\ log1 \in Seq(Event)
  BY <1>5 DEF History
<1>7. next \in Gate /\ event \in Event /\ draft \in Gate
  BY <1>1, <1>4, NextDraftType
<1>8. draft.artifact = seen /\ draft.status = "DRAFT" /\ draft.iteration = n + 1
      /\ draft.max = IF gates = <<>> THEN IterationLimit ELSE NextMax(gates1[n], log1)
  <2>1. CASE gates = <<>>
    BY <1>4, <2>1 DEF NextDraft, DraftGate
  <2>2. CASE gates # <<>>
    BY <1>4, <1>5, <2>2 DEF NextDraft, DraftGate, NextIteration
  <2> QED BY <2>1, <2>2
<1>9. TargetStatus(draft, "SUBMIT") = "PENDING_APPROVAL"
  BY <1>8, SubmittedDraft
<1>10. /\ next.artifact = draft.artifact /\ next.iteration = draft.iteration
       /\ next.max = draft.max /\ next.status = "PENDING_APPROVAL"
  BY <1>7, <1>9 DEF Transitioned, Gate
<1>11. event.kind = "SUBMIT" /\ event.gate = draft.iteration
  BY DEF TransitionEvent
<1>12. gates # <<>> => /\ gates[n].status \notin {"CANCELLED", "PAUSED_NEEDS_HUMAN"}
                       /\ gates[n].artifact # seen
                       /\ ~BudgetSpent(gates1[n], log1)
  BY <1>2, <1>4, <1>5 DEF SubmissionProceeds, Blocked, OverLimit
<1>13. \/ gates1 = gates /\ log1 = log
       \/ \E e \in Event :
            /\ gates # <<>> /\ log1 = Append(log, e)
            /\ e.kind = "ARTIFACT_SUPERSEDED" /\ e.gate = n /\ e.artifact = seen
            /\ \E g \in Gate : /\ gates1 = [gates EXCEPT ![n] = g]
                               /\ g.artifact = gates[n].artifact /\ g.max = gates[n].max
                               /\ g.iteration = gates[n].iteration /\ g.status = "STALE"
  <2>1. CASE ~NeedsStaling(gate)
    BY <2>1 DEF WithLatestSuperseded, WithSupersession
  <2>2. CASE NeedsStaling(gate)
    <3> DEFINE g == Staled(gate, at)
               e == StaleEvent(gate, seen, at)
    <3>1. gates1 = [gates EXCEPT ![n] = g] /\ log1 = Append(log, e)
      BY <2>2 DEF WithLatestSuperseded, WithSupersession, Superseded
    <3>2. gates # <<>> /\ gate = gates[n] /\ gate.iteration = n
      BY <1>4, <2>2 DEF NeedsStaling
    <3>3. g \in Gate /\ e \in Event
      BY <1>1, <1>4, StaledType
    <3>4. e.kind = "ARTIFACT_SUPERSEDED" /\ e.gate = n /\ e.artifact = seen
      BY <3>2 DEF StaleEvent
    <3>5. /\ g.artifact = gate.artifact /\ g.max = gate.max
          /\ g.iteration = gate.iteration /\ g.status = "STALE"
      BY <1>4 DEF Staled, Gate
    <3> HIDE DEF g, e, gates1, log1
    <3> QED BY <3>1, <3>2, <3>3, <3>4, <3>5
  <2> QED BY <2>1, <2>2
<1> HIDE DEF gates1, log1, draft, next, event
<1>14. GateOpens(r, gates1, log1, next, event)
  BY <1>2, <1>3, <1>5, <1>8, <1>10, <1>11, <1>12, <1>13 DEF GateOpens, seen
<1> QED BY <1>6, <1>7, <1>14

LEMMA StepWrites ==
  ASSUME HistoryInv, NEW r \in Requests, Step(r)
  PROVE  \/ UNCHANGED <<gates, log>>
         \/ \E next \in Gate, event \in Event : LatestMoves(r, next, event)
         \/ \E gates1 \in Seq(Gate), log1 \in Seq(Event), next \in Gate, event \in Event :
              GateOpens(r, gates1, log1, next, event)
<1>1. CASE tx[r].phase = "locked" /\ SubmitOverLimit(r)
  <2>1. CASE NeedsStaling(tx[r].gate)
    <3>1. /\ gates' = [gates EXCEPT ![Len(gates)] = Staled(tx[r].gate, tx[r].at)]
          /\ log' = Append(log, StaleEvent(tx[r].gate, tx[r].seen, tx[r].at))
          /\ UNCHANGED versions
      BY <1>1, <2>1
      DEF SubmitOverLimit, GatesAfterStaling, LogAfterStaling, WithLatestSuperseded,
          WithSupersession, Superseded
    <3>2. tx[r].gate # NoGate /\ StaleApplies(tx[r].gate, tx[r].seen, tx[r].at)
      BY <1>1, <2>1 DEF SubmitOverLimit, Superseding, SubmissionProceeds, NeedsStaling
    <3> QED BY <1>1, <3>1, <3>2, StalingMoves
  <2>2. CASE ~NeedsStaling(tx[r].gate)
    BY <1>1, <2>2
    DEF SubmitOverLimit, GatesAfterStaling, LogAfterStaling, WithLatestSuperseded,
        WithSupersession
  <2> QED BY <2>1, <2>2
<1>2. CASE tx[r].phase = "locked" /\ DecideStale(r)
  <2>1. /\ gates' = [gates EXCEPT ![Len(gates)] = Staled(tx[r].gate, tx[r].at)]
        /\ log' = Append(log, StaleEvent(tx[r].gate, tx[r].seen, tx[r].at))
        /\ UNCHANGED versions
        /\ tx[r].gate # NoGate /\ StaleApplies(tx[r].gate, tx[r].seen, tx[r].at)
    BY <1>2 DEF DecideStale, DecisionSupersedes
  <2> QED BY <1>2, <2>1, StalingMoves
<1> QED BY <1>1, <1>2, EditMoves, DecisionMoves, OpeningMoves, GateMoves DEF HistoryInv

-----------------------------------------------------------------------------

(***************************************************************************)
(* Gates and versions.                                                     *)
(***************************************************************************)

SeenIsVersion == \A r \in Requests : tx[r].seen <= Current

(* The version a request works on is the current one, where the project is *)
(* locked before it is read.                                               *)
SeenIsCurrent ==
  LocksProjectFirst => \A r \in Requests : tx[r].phase = "locked" => tx[r].seen = Current

GatesHaveVersions == \A g \in DOMAIN gates : gates[g].artifact \in 1..Current

EditsByOwner ==
  \A v \in DOMAIN versions : versions[v] = "edited" => OwnerEdits /\ LocksProjectFirst

VersionInv == SeenIsVersion /\ SeenIsCurrent /\ GatesHaveVersions /\ EditsByOwner

(* A version is only ever added, by a request whose row no other holds.    *)
LEMMA VersionsGrow ==
  ASSUME HistoryInv, NEW r \in Requests, Step(r)
  PROVE  \/ UNCHANGED versions
         \/ /\ Current' = Current + 1
            /\ \E kind \in Kinds :
                 /\ versions' = Append(versions, kind)
                 /\ kind = "edited" => EditAppended(r) /\ OwnerEdits /\ LocksProjectFirst
            /\ Release(r) /\ \A o \in Requests \ {r} : tx[o].phase # "locked"
            /\ tx[r].seen = Current
            /\ DraftAppended(r) \/ EditAppended(r)
<1>1. CASE DraftAppended(r) \/ EditAppended(r)
  <2>1. /\ tx[r].phase = "locked" \/ project = NoRequest
        /\ tx[r].seen = Current /\ Release(r)
    BY <1>1 DEF DraftAppended, EditAppended, MayAppend, Appending
  <2>2. \A o \in Requests \ {r} : tx[o].phase # "locked"
    BY <2>1, NobodyElseLocked DEF HistoryInv
  <2>3. \E kind \in Kinds :
          /\ versions' = Append(versions, kind)
          /\ kind = "edited" => EditAppended(r) /\ OwnerEdits /\ LocksProjectFirst
    <3>1. CASE DraftAppended(r)
      BY <3>1, ServiceAssumption DEF DraftAppended, Kinds
    <3>2. CASE EditAppended(r)
      <4>1. versions' = Append(versions, "edited") /\ tx[r].op = "edit"
        BY <3>2 DEF EditAppended
      <4>2. OwnerEdits /\ LocksProjectFirst
        BY <4>1, ServiceAssumption DEF HistoryInv, LineInv, EditsLockProject
      <4> QED BY <3>2, <4>1, <4>2 DEF Kinds
    <3> QED BY <1>1, <3>1, <3>2
  <2>4. Current' = Current + 1
    BY <2>3 DEF HistoryInv, TypeOK, Current
  <2> QED BY <1>1, <2>1, <2>2, <2>3, <2>4
<1> QED
  BY <1>1
  DEF Step, AnswerNotReady, ResubmitExisting, SubmitRefused, SubmitDuplicate,
      DecideRefused, AppendRefused, EditRolledBack, Answer, ReadVersion, LockVersion,
      LockProjectFirst, LockProjectForGate, SubmitOverLimit, SubmitNewGate, DecideStale,
      DecideApplied

LEMMA StepKeepsSeen ==
  ASSUME HistoryInv, SeenIsVersion, SeenIsCurrent, NEW r \in Requests, Step(r)
  PROVE  SeenIsVersion' /\ SeenIsCurrent'
<1>1. /\ tx \in [Requests -> Tx] /\ Current \in Nat
      /\ \A o \in Requests : tx[o].seen \in Nat
  BY DEF HistoryInv, TypeOK, Tx, Current
<1>2. CASE UNCHANGED versions /\ Release(r)
  <2>1. Current' = Current BY <1>2 DEF Current
  <2>2. tx'[r].seen = 0 /\ tx'[r].phase = "idle" /\ \A o \in Requests \ {r} : tx'[o] = tx[o]
    BY <1>1, <1>2 DEF Release, IdleTx
  <2> QED BY <1>1, <2>1, <2>2 DEF SeenIsVersion, SeenIsCurrent
<1>3. CASE /\ Release(r) /\ Current' = Current + 1
           /\ \A o \in Requests \ {r} : tx[o].phase # "locked"
  <2>1. tx'[r].seen = 0 /\ tx'[r].phase = "idle" /\ \A o \in Requests \ {r} : tx'[o] = tx[o]
    BY <1>1, <1>3 DEF Release, IdleTx
  <2> QED BY <1>1, <1>3, <2>1 DEF SeenIsVersion, SeenIsCurrent
<1>4. CASE ReadVersion(r) \/ LockVersion(r)
  <2>1. /\ Current' = Current /\ ~LocksProjectFirst
        /\ tx'[r].seen \in {Current, tx[r].seen}
        /\ \A o \in Requests \ {r} : tx'[o] = tx[o]
    BY <1>1, <1>4 DEF ReadVersion, LockVersion, Current, Tx, HistoryInv, LineInv, EditsLockProject
  <2> QED BY <1>1, <2>1 DEF SeenIsVersion, SeenIsCurrent
<1>5. CASE LockProjectFirst(r)
  <2>1. /\ Current' = Current /\ tx'[r].seen = Current
        /\ \A o \in Requests \ {r} : tx'[o] = tx[o]
    BY <1>1, <1>5 DEF LockProjectFirst, Current, Tx
  <2> QED BY <1>1, <2>1 DEF SeenIsVersion, SeenIsCurrent
<1>6. CASE LockProjectForGate(r)
  <2>1. /\ Current' = Current /\ ~LocksProjectFirst /\ tx'[r].seen = tx[r].seen
        /\ \A o \in Requests \ {r} : tx'[o] = tx[o]
    BY <1>1, <1>6 DEF LockProjectForGate, Current, Tx, HistoryInv, LineInv, EditsLockProject
  <2> QED BY <1>1, <2>1 DEF SeenIsVersion, SeenIsCurrent
<1>7. Release(r) \/ ReadVersion(r) \/ LockVersion(r) \/ LockProjectFirst(r) \/ LockProjectForGate(r)
  BY DEF Step, AnswerNotReady, ResubmitExisting, SubmitRefused, SubmitDuplicate,
         DecideRefused, AppendRefused, EditRolledBack, Answer, SubmitOverLimit,
         SubmitNewGate, DecideStale, DecideApplied, DraftAppended, EditAppended
<1> QED BY <1>2, <1>3, <1>4, <1>5, <1>6, <1>7, VersionsGrow

(* The latest gate moves: what becomes of the gates.                       *)
Moved(n, next, event) ==
  /\ DOMAIN gates' = DOMAIN gates /\ n \in DOMAIN gates /\ gates' # <<>>
  /\ gates'[n] = next /\ next.artifact = gates[n].artifact
  /\ \A g \in DOMAIN gates \ {n} : gates'[g] = gates[g]
  /\ Latest = gates[n] /\ Latest' = next /\ Len(gates') = n /\ n \in Nat
  /\ DOMAIN log' = DOMAIN log \cup {Len(log) + 1}
  /\ log'[Len(log) + 1] = event /\ event.gate = n
  /\ \A i \in DOMAIN log : log'[i] = log[i]

LEMMA MovedGates ==
  ASSUME HistoryInv, NEW r \in Requests, NEW next \in Gate, NEW event \in Event,
         LatestMoves(r, next, event)
  PROVE  Moved(Len(gates), next, event)
<1> DEFINE n == Len(gates)
<1>0. n = Len(gates)
  OBVIOUS
<1> HIDE DEF n
<1>1. /\ gates \in Seq(Gate) /\ log \in Seq(Event) /\ gates # <<>>
      /\ gates' = [gates EXCEPT ![n] = next] /\ log' = Append(log, event)
      /\ Follows(gates[n], next, event)
  BY <1>0 DEF HistoryInv, History, LatestMoves
<1>2. n \in Nat /\ DOMAIN gates = 1..n /\ n \in 1..n
  BY <1>0, <1>1
<1>3. /\ gates' \in Seq(Gate) /\ Len(gates') = n
      /\ gates'[n] = next /\ \A g \in DOMAIN gates \ {n} : gates'[g] = gates[g]
  BY <1>0, <1>1, <1>2, ReplaceLast
<1>4. DOMAIN gates' = DOMAIN gates /\ gates' # <<>>
  BY <1>2, <1>3
<1>5. Latest = gates[n] /\ Latest' = next
  BY <1>0, <1>1, <1>3, <1>4 DEF Latest, LatestOf
<1>6. next.artifact = gates[n].artifact /\ event.gate = n
  <2>1. gates[n].iteration = n
    BY <1>2 DEF HistoryInv, History, Numbered
  <2> QED BY <1>1, <2>1 DEF Follows
<1>7. /\ DOMAIN log' = DOMAIN log \cup {Len(log) + 1}
      /\ log'[Len(log) + 1] = event
      /\ \A i \in DOMAIN log : log'[i] = log[i]
  BY <1>1, AppendIs
<1>8. Moved(n, next, event)
  BY <1>2, <1>3, <1>4, <1>5, <1>6, <1>7 DEF Moved
<1> QED BY <1>0, <1>8

(* The events that opening a gate behind gate n adds.                      *)
EventsAdded(r, n) ==
  \A i \in DOMAIN log' :
    \/ i \in DOMAIN log /\ log'[i] = log[i]
    \/ log'[i].kind = "SUBMIT"
    \/ /\ log'[i].kind = "ARTIFACT_SUPERSEDED" /\ log'[i].gate = n
       /\ n \in DOMAIN gates
       /\ log'[i].artifact = tx[r].seen /\ tx[r].seen # gates[n].artifact

(* A gate opens: what becomes of the gates.                                *)
Opened(r, n, next) ==
  /\ DOMAIN gates' = DOMAIN gates \cup {n + 1} /\ n + 1 \notin DOMAIN gates
  /\ gates'[n + 1] = next /\ gates' # <<>> /\ Len(gates') = n + 1 /\ n \in Nat
  /\ Latest' = next
  /\ \A g \in DOMAIN gates : /\ gates'[g].artifact = gates[g].artifact
                             /\ gates'[g].status \in {gates[g].status, "STALE"}
  /\ EventsAdded(r, n)

LEMMA OpenedGates ==
  ASSUME HistoryInv, NEW r \in Requests, NEW gates1 \in Seq(Gate), NEW log1 \in Seq(Event),
         NEW next \in Gate, NEW event \in Event,
         GateOpens(r, gates1, log1, next, event)
  PROVE  Opened(r, Len(gates), next)
<1> DEFINE n == Len(gates)
<1>0. n = Len(gates)
  OBVIOUS
<1> HIDE DEF n
<1>1. /\ gates \in Seq(Gate) /\ log \in Seq(Event)
      /\ gates' = Append(gates1, next) /\ log' = Append(log1, event)
      /\ Len(gates1) = n /\ event.kind = "SUBMIT"
  BY <1>0 DEF HistoryInv, History, GateOpens
<1>2. n \in Nat /\ DOMAIN gates = 1..n /\ DOMAIN gates1 = 1..n
  BY <1>0, <1>1
<1>3. /\ DOMAIN gates' = DOMAIN gates \cup {n + 1} /\ n + 1 \notin DOMAIN gates
      /\ gates'[n + 1] = next /\ gates' \in Seq(Gate) /\ Len(gates') = n + 1
      /\ \A g \in DOMAIN gates : gates'[g] = gates1[g]
  BY <1>1, <1>2, AppendIs
<1>4. gates' # <<>> /\ Latest' = next
  BY <1>2, <1>3 DEF Latest, LatestOf
<1>5. /\ DOMAIN log' = DOMAIN log1 \cup {Len(log1) + 1} /\ log'[Len(log1) + 1] = event
      /\ \A i \in DOMAIN log1 : log'[i] = log1[i]
  BY <1>1, AppendIs
<1>6. CASE gates1 = gates /\ log1 = log
  BY <1>1, <1>2, <1>3, <1>4, <1>5, <1>6 DEF EventsAdded, Opened
<1>7. CASE \E e \in Event :
             /\ gates # <<>> /\ log1 = Append(log, e)
             /\ e.kind = "ARTIFACT_SUPERSEDED" /\ e.gate = n /\ e.artifact = tx[r].seen
             /\ \E g \in Gate : /\ gates1 = [gates EXCEPT ![n] = g]
                                /\ g.artifact = gates[n].artifact /\ g.max = gates[n].max
                                /\ g.iteration = gates[n].iteration /\ g.status = "STALE"
  <2>1. PICK e \in Event :
             /\ gates # <<>> /\ log1 = Append(log, e)
             /\ e.kind = "ARTIFACT_SUPERSEDED" /\ e.gate = n /\ e.artifact = tx[r].seen
             /\ \E g \in Gate : /\ gates1 = [gates EXCEPT ![n] = g]
                                /\ g.artifact = gates[n].artifact /\ g.max = gates[n].max
                                /\ g.iteration = gates[n].iteration /\ g.status = "STALE"
    BY <1>7
  <2>2. PICK stale \in Gate : /\ gates1 = [gates EXCEPT ![n] = stale]
                              /\ stale.artifact = gates[n].artifact /\ stale.status = "STALE"
    BY <2>1
  <2>3. \A g \in 1..n : gates1[g] = IF g = n THEN stale ELSE gates[g]
    BY <1>0, <1>1, <2>1, <2>2, ReplaceLast
  <2>4. \A g \in DOMAIN gates : /\ gates'[g].artifact = gates[g].artifact
                                /\ gates'[g].status \in {gates[g].status, "STALE"}
    BY <1>2, <1>3, <2>2, <2>3
  <2>5. /\ DOMAIN log1 = DOMAIN log \cup {Len(log) + 1} /\ log1[Len(log) + 1] = e
        /\ \A i \in DOMAIN log : log1[i] = log[i]
    BY <1>1, <2>1, AppendIs
  <2>6. tx[r].seen # gates[n].artifact /\ n \in DOMAIN gates
    BY <1>0, <1>1, <1>2, <2>1 DEF GateOpens
  <2>7. ASSUME NEW i \in DOMAIN log'
        PROVE  \/ i \in DOMAIN log /\ log'[i] = log[i]
               \/ log'[i].kind = "SUBMIT"
               \/ /\ log'[i].kind = "ARTIFACT_SUPERSEDED" /\ log'[i].gate = n
                  /\ n \in DOMAIN gates
                  /\ log'[i].artifact = tx[r].seen /\ tx[r].seen # gates[n].artifact
    <3>1. CASE i = Len(log1) + 1 BY <1>1, <1>5, <3>1
    <3>2. CASE i \in DOMAIN log1 /\ i = Len(log) + 1 BY <1>5, <2>1, <2>5, <2>6, <3>2
    <3>3. CASE i \in DOMAIN log BY <1>5, <2>5, <3>3
    <3> QED BY <1>5, <2>5, <3>1, <3>2, <3>3
  <2>8. EventsAdded(r, n) BY <2>7 DEF EventsAdded
  <2> QED BY <1>2, <1>3, <1>4, <2>4, <2>8 DEF Opened
<1>8. Opened(r, n, next)
  BY <1>0, <1>6, <1>7 DEF GateOpens
<1> QED BY <1>0, <1>8

LEMMA StepKeepsVersions ==
  ASSUME HistoryInv, VersionInv, NEW r \in Requests, Step(r)
  PROVE  VersionInv'
<1>1. SeenIsVersion' /\ SeenIsCurrent'
  BY StepKeepsSeen DEF VersionInv
<1>2. Current \in Nat /\ Current' \in {Current, Current + 1}
  BY VersionsGrow DEF HistoryInv, TypeOK, Current
<1>3. GatesHaveVersions'
  <2>1. \A g \in DOMAIN gates : gates[g].artifact \in 1..Current'
    BY <1>2 DEF VersionInv, GatesHaveVersions
  <2>2. CASE UNCHANGED <<gates, log>>
    BY <2>1, <2>2 DEF GatesHaveVersions
  <2>3. ASSUME NEW next \in Gate, NEW event \in Event, LatestMoves(r, next, event)
        PROVE  GatesHaveVersions'
    <3>0. Moved(Len(gates), next, event)
      BY <2>3, MovedGates
    <3>1. /\ DOMAIN gates' = DOMAIN gates
          /\ \A g \in DOMAIN gates : gates'[g].artifact = gates[g].artifact
      BY <3>0 DEF Moved
    <3> QED BY <2>1, <3>1 DEF GatesHaveVersions
  <2>4. ASSUME NEW gates1 \in Seq(Gate), NEW log1 \in Seq(Event),
               NEW next \in Gate, NEW event \in Event, GateOpens(r, gates1, log1, next, event)
        PROVE  GatesHaveVersions'
    <3> DEFINE n == Len(gates)
    <3>0. Opened(r, n, next)
      BY <2>4, OpenedGates
    <3> HIDE DEF n
    <3>1. /\ DOMAIN gates' = DOMAIN gates \cup {n + 1}
          /\ gates'[n + 1] = next
          /\ \A g \in DOMAIN gates : gates'[g].artifact = gates[g].artifact
      BY <3>0 DEF Opened
    <3>2. next.artifact \in 1..Current'
      <4>1. next.artifact = tx[r].seen /\ tx[r].seen # 0
        BY <2>4 DEF GateOpens
      <4>2. tx[r].seen \in Nat /\ tx[r].seen <= Current
        BY DEF HistoryInv, TypeOK, Tx, VersionInv, SeenIsVersion
      <4> QED BY <1>2, <4>1, <4>2
    <3> QED BY <2>1, <3>1, <3>2 DEF GatesHaveVersions
  <2> QED BY <2>2, <2>3, <2>4, StepWrites
<1>4. EditsByOwner'
  <2>1. CASE UNCHANGED versions
    BY <2>1 DEF VersionInv, EditsByOwner
  <2>2. CASE \E kind \in Kinds :
               /\ versions' = Append(versions, kind)
               /\ kind = "edited" => EditAppended(r) /\ OwnerEdits /\ LocksProjectFirst
    <3>1. PICK kind \in Kinds :
               /\ versions' = Append(versions, kind)
               /\ kind = "edited" => OwnerEdits /\ LocksProjectFirst
      BY <2>2
    <3>2. /\ DOMAIN versions' = DOMAIN versions \cup {Len(versions) + 1}
          /\ versions'[Len(versions) + 1] = kind
          /\ \A v \in DOMAIN versions : versions'[v] = versions[v]
      BY <3>1, AppendIs DEF HistoryInv, TypeOK
    <3> QED BY <3>1, <3>2 DEF VersionInv, EditsByOwner
  <2> QED BY <2>1, <2>2, VersionsGrow
<1> QED BY <1>1, <1>3, <1>4 DEF VersionInv

LEMMA VersionsHold == Spec => []VersionInv
<1>1. Init => VersionInv
  BY DEF Init, VersionInv, SeenIsVersion, SeenIsCurrent, GatesHaveVersions, EditsByOwner,
         IdleTx, Current
<1>2. HistoryInv /\ VersionInv /\ [Next]_vars => VersionInv'
  <2> SUFFICES ASSUME HistoryInv, VersionInv, [Next]_vars PROVE VersionInv'
    OBVIOUS
  <2>1. ASSUME NEW r \in Requests, Open(r) PROVE VersionInv'
    <3>1. PICK op, action, reason : Begin(r, op, action, reason)
      BY <2>1 DEF Open, BeginSubmit, BeginDraft, BeginEdit, BeginDecide
    <3>2. /\ tx'[r].seen = 0 /\ tx'[r].phase = "begun"
          /\ \A o \in Requests \ {r} : tx'[o] = tx[o]
          /\ UNCHANGED <<versions, gates>>
      BY <3>1 DEF Begin, IdleTx, HistoryInv, TypeOK
    <3>3. Current \in Nat /\ Current' = Current
      BY <3>2 DEF Current, HistoryInv, TypeOK
    <3> QED
      BY <3>2, <3>3
      DEF VersionInv, SeenIsVersion, SeenIsCurrent, GatesHaveVersions, EditsByOwner
  <2>2. CASE UNCHANGED vars
    BY <2>2
    DEF vars, VersionInv, SeenIsVersion, SeenIsCurrent, GatesHaveVersions, EditsByOwner, Current
  <2> QED BY <2>1, <2>2, StepKeepsVersions DEF Next
<1> QED BY <1>1, <1>2, HistoryHolds, PTL DEF Spec

LEMMA StepSupersedesByNewer ==
  ASSUME LocksProjectFirst, HistoryInv, VersionInv, SupersededByNewer,
         NEW r \in Requests, Step(r)
  PROVE  SupersededByNewer'
<1>1. \A i \in DOMAIN log : log[i].gate \in DOMAIN gates
  BY DEF HistoryInv, History, Recorded
<1>2. Current \in Nat /\ \A g \in DOMAIN gates : gates[g].artifact \in 1..Current
  BY DEF HistoryInv, TypeOK, Current, VersionInv, GatesHaveVersions
<1>3. tx[r].phase = "locked" => tx[r].seen = Current
  BY DEF VersionInv, SeenIsCurrent
<1>4. CASE UNCHANGED <<gates, log>>
  BY <1>4 DEF SupersededByNewer
<1>5. ASSUME NEW next \in Gate, NEW event \in Event, LatestMoves(r, next, event)
      PROVE  SupersededByNewer'
  <2> DEFINE n == Len(gates)
             k == Len(log) + 1
  <2>a. Moved(n, next, event)
    BY <1>5, MovedGates
  <2>b. LatestMoves(r, next, event) => \/ event.artifact = tx[r].seen
                                         /\ event.artifact # gates[n].artifact
                                         /\ tx[r].phase = "locked"
                                      \/ event.artifact = Current + 1
                                      \/ event.kind # "ARTIFACT_SUPERSEDED"
    BY DEF LatestMoves, Actions
  <2> HIDE DEF n
  <2>1. /\ n \in DOMAIN gates /\ DOMAIN log' = DOMAIN log \cup {k} /\ log'[k] = event
        /\ event.gate = n /\ \A i \in DOMAIN log : log'[i] = log[i]
        /\ \A g \in DOMAIN gates : gates'[g].artifact = gates[g].artifact
    BY <2>a DEF Moved
  <2>2. event.kind = "ARTIFACT_SUPERSEDED" => event.artifact > gates[n].artifact
    <3>1. gates[n].artifact \in 1..Current BY <1>2, <2>1
    <3>2. \/ event.artifact = Current /\ event.artifact # gates[n].artifact
          \/ event.artifact = Current + 1
          \/ event.kind # "ARTIFACT_SUPERSEDED"
      BY <1>3, <1>5, <2>b
    <3> QED BY <1>2, <3>1, <3>2
  <2> HIDE DEF n, k
  <2>3. ASSUME NEW i \in DOMAIN log', log'[i].kind = "ARTIFACT_SUPERSEDED"
        PROVE  log'[i].artifact > gates'[log'[i].gate].artifact
    <3>1. CASE i = k BY <2>1, <2>2, <2>3, <3>1
    <3>2. CASE i \in DOMAIN log
      <4>1. log[i].artifact > gates[log[i].gate].artifact
        BY <2>1, <2>3, <3>2 DEF SupersededByNewer
      <4> QED BY <1>1, <2>1, <3>2, <4>1
    <3> QED BY <2>1, <3>1, <3>2
  <2> QED BY <2>3 DEF SupersededByNewer
<1>6. ASSUME NEW gates1 \in Seq(Gate), NEW log1 \in Seq(Event), NEW next \in Gate,
             NEW event \in Event, GateOpens(r, gates1, log1, next, event)
      PROVE  SupersededByNewer'
  <2> DEFINE n == Len(gates)
  <2>a. Opened(r, n, next)
    BY <1>6, OpenedGates
  <2>1. /\ EventsAdded(r, n)
        /\ \A g \in DOMAIN gates : gates'[g].artifact = gates[g].artifact
    BY <2>a DEF Opened
  <2>2. tx[r].seen = Current BY <1>3, <1>6 DEF GateOpens
  <2> HIDE DEF n
  <2>3. ASSUME NEW i \in DOMAIN log', log'[i].kind = "ARTIFACT_SUPERSEDED"
        PROVE  log'[i].artifact > gates'[log'[i].gate].artifact
    <3>1. CASE i \in DOMAIN log /\ log'[i] = log[i]
      <4>1. log[i].artifact > gates[log[i].gate].artifact
        BY <2>3, <3>1 DEF SupersededByNewer
      <4> QED BY <1>1, <2>1, <3>1, <4>1
    <3>2. CASE /\ log'[i].gate = n /\ n \in DOMAIN gates
               /\ log'[i].artifact = tx[r].seen /\ tx[r].seen # gates[n].artifact
      <4>1. gates[n].artifact \in 1..Current /\ gates'[n].artifact = gates[n].artifact
        BY <1>2, <2>1, <3>2
      <4>2. Current > gates[n].artifact
        BY <1>2, <2>2, <3>2, <4>1
      <4> QED BY <2>2, <3>2, <4>1, <4>2
    <3> QED BY <2>1, <2>3, <3>1, <3>2 DEF EventsAdded
  <2> QED BY <2>3 DEF SupersededByNewer
<1> QED BY <1>4, <1>5, <1>6, StepWrites

(* Where the project is locked before the version is read, a gate becomes  *)
(* stale only because a newer version than its own is current.             *)
THEOREM NewerSupersedes ==
  ASSUME LocksProjectFirst
  PROVE  Spec => []SupersededByNewer
<1>1. Init => SupersededByNewer
  BY DEF Init, SupersededByNewer
<1>2. HistoryInv /\ VersionInv /\ SupersededByNewer /\ [Next]_vars => SupersededByNewer'
  <2> SUFFICES ASSUME HistoryInv, VersionInv, SupersededByNewer, [Next]_vars
               PROVE  SupersededByNewer'
    OBVIOUS
  <2>1. ASSUME NEW r \in Requests, Open(r) PROVE gates' = gates /\ log' = log
    BY <2>1, OpenWritesNothing
  <2>2. gates' = gates /\ log' = log => SupersededByNewer'
    BY DEF SupersededByNewer
  <2>3. CASE UNCHANGED vars
    BY <2>2, <2>3 DEF vars
  <2> QED BY <2>1, <2>2, <2>3, StepSupersedesByNewer DEF Next
<1> QED BY <1>1, <1>2, HistoryHolds, VersionsHold, PTL DEF Spec

(* What still counts for a version before an edit is superseded.           *)
LEMMA StepKeepsEditsCovered ==
  ASSUME HistoryInv, VersionInv, EditsNeedTheirOwnGate, NEW r \in Requests, Step(r)
  PROVE  EditsNeedTheirOwnGate'
<1> DEFINE n == Len(gates)
<1>1. Current \in Nat /\ DOMAIN versions = 1..Current /\ versions \in Seq(Kinds)
  BY DEF HistoryInv, TypeOK, Current
<1>2. CASE EditAppended(r)
  <2>1. Current' = Current + 1
    BY <1>1, <1>2 DEF EditAppended, Current
  <2>2. CASE EditStalesGate(r)
    <3>1. tx[r].phase = "locked"
      BY <1>2, ServiceAssumption
      DEF EditAppended, MayAppend, Appending, HistoryInv, LineInv, EditsLockProject
    <3>2. PICK next \in Gate, event \in Event : LatestMoves(r, next, event)
      BY <1>2, <2>2, <3>1, EditMoves
    <3>3. event.kind = "ARTIFACT_SUPERSEDED"
      BY <1>1, <2>1, <3>2 DEF LatestMoves, Current
    <3>4. next.status = "STALE"
      BY <3>2, <3>3 DEF LatestMoves, NextFits
    <3>5. Latest' = next
      BY <3>2, MovedGates DEF Moved
    <3> QED BY <3>4, <3>5 DEF EditsNeedTheirOwnGate
  <2>3. CASE ~EditStalesGate(r)
    <3>1. UNCHANGED <<gates, log>> /\ Latest' = Latest
      BY <1>2, <2>3 DEF EditAppended, Latest
    <3>2. tx[r].phase = "locked"
      BY <1>2, ServiceAssumption
      DEF EditAppended, MayAppend, Appending, HistoryInv, LineInv, EditsLockProject
    <3>3. tx[r].gate = Latest /\ (Latest = NoGate <=> gates = <<>>)
      BY <3>2, LatestInLine DEF HistoryInv, ReadGateIsCurrent, LineInv, TypeOK
    <3>4. gates = <<>> \/ Latest.status \in {"STALE", "CANCELLED"}
      BY <2>3, <3>3 DEF EditStalesGate
    <3> QED BY <3>1, <3>4 DEF EditsNeedTheirOwnGate
  <2> QED BY <2>2, <2>3
<1>3. CASE ~EditAppended(r)
  <2>1. \A v \in DOMAIN versions' :
          versions'[v] = "edited" => v \in DOMAIN versions /\ versions[v] = "edited"
    <3>1. CASE UNCHANGED versions BY <3>1
    <3>2. CASE \E kind \in Kinds : versions' = Append(versions, kind) /\ kind # "edited"
      <4>1. PICK kind \in Kinds : versions' = Append(versions, kind) /\ kind # "edited"
        BY <3>2
      <4>2. /\ DOMAIN versions' = DOMAIN versions \cup {Len(versions) + 1}
            /\ versions'[Len(versions) + 1] = kind
            /\ \A v \in DOMAIN versions : versions'[v] = versions[v]
        BY <1>1, <4>1, AppendIs
      <4> QED BY <4>1, <4>2
    <3> QED BY <1>3, <3>1, <3>2, VersionsGrow
  <2>2. SUFFICES ASSUME NEW v \in DOMAIN versions, versions[v] = "edited"
                 PROVE  \/ gates' = <<>> \/ Latest'.artifact >= v
                        \/ Latest'.status \in {"STALE", "CANCELLED"}
    BY <2>1 DEF EditsNeedTheirOwnGate
  <2>3. \/ gates = <<>> \/ Latest.artifact >= v \/ Latest.status \in {"STALE", "CANCELLED"}
    BY <2>2 DEF EditsNeedTheirOwnGate
  <2>4. CASE UNCHANGED <<gates, log>>
    BY <2>3, <2>4 DEF Latest
  <2>5. ASSUME NEW next \in Gate, NEW event \in Event, LatestMoves(r, next, event)
        PROVE  Latest'.artifact >= v
    <3>1. Latest = gates[n] /\ Latest' = next /\ next.artifact = gates[n].artifact
      BY <2>5, MovedGates DEF Moved
    <3>2. gates # <<>> /\ gates[n].status \notin {"STALE", "CANCELLED"}
      BY <2>5 DEF LatestMoves, NextFits
    <3> QED BY <2>3, <3>1, <3>2
  <2>6. ASSUME NEW gates1 \in Seq(Gate), NEW log1 \in Seq(Event), NEW next \in Gate,
               NEW event \in Event, GateOpens(r, gates1, log1, next, event)
        PROVE  Latest'.artifact >= v
    <3>1. Latest' = next BY <2>6, OpenedGates DEF Opened
    <3>2. LocksProjectFirst BY <2>2 DEF VersionInv, EditsByOwner
    <3>3. next.artifact = Current
      BY <2>6, <3>2 DEF GateOpens, VersionInv, SeenIsCurrent
    <3> QED BY <1>1, <3>1, <3>3
  <2> QED BY <2>4, <2>5, <2>6, StepWrites
<1> QED BY <1>2, <1>3

(* A version the owner edited by hand never stands beside a gate that can  *)
(* still be decided, or counts as approved, for a version before it.       *)
THEOREM EditsAreCovered == Spec => []EditsNeedTheirOwnGate
<1>1. Init => EditsNeedTheirOwnGate
  BY DEF Init, EditsNeedTheirOwnGate
<1>2. HistoryInv /\ VersionInv /\ EditsNeedTheirOwnGate /\ [Next]_vars => EditsNeedTheirOwnGate'
  <2> SUFFICES ASSUME HistoryInv, VersionInv, EditsNeedTheirOwnGate, [Next]_vars
               PROVE  EditsNeedTheirOwnGate'
    OBVIOUS
  <2>1. ASSUME NEW r \in Requests, Open(r) PROVE gates' = gates /\ versions' = versions
    BY <2>1, OpenWritesNothing
  <2>2. gates' = gates /\ versions' = versions => EditsNeedTheirOwnGate'
    BY DEF EditsNeedTheirOwnGate, Latest
  <2>3. CASE UNCHANGED vars
    BY <2>2, <2>3 DEF vars
  <2> QED BY <2>1, <2>2, <2>3, StepKeepsEditsCovered DEF Next
<1> QED BY <1>1, <1>2, HistoryHolds, VersionsHold, PTL DEF Spec

LEMMA StepApprovesCurrent ==
  ASSUME LocksProjectFirst, HistoryInv, VersionInv, NEW r \in Requests, Step(r),
         NEW g \in DOMAIN gates', gates'[g].status = "APPROVED",
         g \in DOMAIN gates => gates[g].status # "APPROVED"
  PROVE  gates'[g].artifact = Current'
<1>1. ~UNCHANGED <<gates, log>>
  OBVIOUS
<1>2. ASSUME NEW next \in Gate, NEW event \in Event, LatestMoves(r, next, event)
      PROVE  gates'[g].artifact = Current'
  <2> DEFINE n == Len(gates)
  <2>a. Moved(n, next, event)
    BY <1>2, MovedGates
  <2>1. /\ DOMAIN gates' = DOMAIN gates /\ gates'[n] = next
        /\ next.artifact = gates[n].artifact
        /\ \A h \in DOMAIN gates \ {n} : gates'[h] = gates[h]
    BY <2>a DEF Moved
  <2>2. g = n BY <2>1
  <2>3. event.kind = "APPROVE" BY <1>2, <2>1, <2>2 DEF LatestMoves, NextFits
  <2>4. UNCHANGED versions /\ gates[n].artifact = tx[r].seen /\ tx[r].phase = "locked"
    BY <1>2, <2>3 DEF LatestMoves
  <2>5. tx[r].seen = Current BY <2>4 DEF VersionInv, SeenIsCurrent
  <2> QED BY <2>1, <2>2, <2>4, <2>5 DEF Current
<1>3. ASSUME NEW gates1 \in Seq(Gate), NEW log1 \in Seq(Event), NEW next \in Gate,
             NEW event \in Event, GateOpens(r, gates1, log1, next, event)
      PROVE  FALSE
  <2> DEFINE n == Len(gates)
  <2>a. Opened(r, n, next)
    BY <1>3, OpenedGates
  <2>1. /\ DOMAIN gates' = DOMAIN gates \cup {n + 1} /\ gates'[n + 1] = next
        /\ \A h \in DOMAIN gates : gates'[h].status \in {gates[h].status, "STALE"}
    BY <2>a DEF Opened
  <2>2. next.status = "PENDING_APPROVAL" BY <1>3 DEF GateOpens
  <2> QED BY <2>1, <2>2
<1> QED BY <1>1, <1>2, <1>3, StepWrites

(* Where the project is locked before the version is read, the owner's     *)
(* approval falls on the version that is current as it commits.            *)
THEOREM ApprovalsAreCurrent ==
  ASSUME LocksProjectFirst
  PROVE  Spec => ApprovesOnlyCurrent
<1> DEFINE Approves == \A g \in DOMAIN gates' :
                         /\ gates'[g].status = "APPROVED"
                         /\ g \in DOMAIN gates => gates[g].status # "APPROVED"
                         => gates'[g].artifact = Current'
<1>1. HistoryInv /\ VersionInv /\ [Next]_vars => [Approves]_vars
  <2> SUFFICES ASSUME HistoryInv, VersionInv, Next PROVE Approves
    OBVIOUS
  <2>1. ASSUME NEW r \in Requests, Open(r) PROVE Approves
    <3>1. gates' = gates
      BY <2>1, OpenWritesNothing
    <3>2. \A g \in DOMAIN gates : gates'[g].status = gates[g].status
      BY <3>1
    <3>3. DOMAIN gates' = DOMAIN gates
      BY <3>1
    <3> QED BY <3>2, <3>3
  <2>2. ASSUME NEW r \in Requests, Step(r) PROVE Approves
    BY <2>2, StepApprovesCurrent
  <2> QED BY <2>1, <2>2 DEF Next
<1> QED BY <1>1, HistoryHolds, VersionsHold, PTL DEF Spec, ApprovesOnlyCurrent

-----------------------------------------------------------------------------

(***************************************************************************)
(* GateService implements ApprovalRounds.                                  *)
(***************************************************************************)

RoundStatus == IF gates = <<>> THEN "NONE" ELSE Latest.status

LEMMA ApprovalsIn ==
  ASSUME NEW events \in Seq(Event), NEW event \in Event, NEW g
  PROVE  ApprovedOnce(Append(events, event), g) <=>
           ApprovedOnce(events, g) \/ (event.gate = g /\ event.kind = "APPROVE")
<1> DEFINE longer == Append(events, event)
           k      == Len(events) + 1
<1>1. /\ DOMAIN longer = DOMAIN events \cup {k} /\ longer[k] = event
      /\ \A i \in DOMAIN events : longer[i] = events[i]
  BY AppendIs
<1> HIDE DEF longer, k
<1>2. (\E i \in DOMAIN longer : longer[i].gate = g /\ longer[i].kind = "APPROVE") <=>
        \/ \E i \in DOMAIN events : longer[i].gate = g /\ longer[i].kind = "APPROVE"
        \/ longer[k].gate = g /\ longer[k].kind = "APPROVE"
  BY <1>1
<1>3. (\E i \in DOMAIN events : longer[i].gate = g /\ longer[i].kind = "APPROVE") <=>
        \E i \in DOMAIN events : events[i].gate = g /\ events[i].kind = "APPROVE"
  BY <1>1
<1>4. ApprovedOnce(longer, g) <=>
        ApprovedOnce(events, g) \/ (event.gate = g /\ event.kind = "APPROVE")
  BY <1>1, <1>2, <1>3 DEF ApprovedOnce
<1> QED BY <1>4 DEF longer

(* The attempts left behind the latest gate.                               *)
LEMMA LeftIs ==
  ASSUME HistoryInv, gates # <<>>, NEW n, n = Len(gates)
  PROVE  /\ AttemptsLeft = IF ApprovedOnce(log, n) THEN IterationLimit
                                                   ELSE gates[n].max - n
         /\ gates[n].max \in Nat /\ n \in 1..gates[n].max /\ gates[n].iteration = n
         /\ RoundStatus = gates[n].status /\ gates[n].status \in Statuses
         /\ gates[n] \in Gate /\ Stored(gates[n])
         /\ gates[n].status = "PENDING_APPROVAL" => ~ApprovedOnce(log, n)
<1>1. History(gates, log) /\ Latest = LatestOf(gates)
  BY DEF HistoryInv, Latest
<1>2. /\ Latest = gates[n] /\ n \in DOMAIN gates /\ gates[n].iteration = n
      /\ gates[n] \in Gate /\ Stored(gates[n])
  BY <1>1, LatestIs
<1>3. gates[n].max \in Nat /\ n \in 1..gates[n].max /\ gates[n].status \in Statuses
  BY <1>2 DEF Stored, Gate
<1>4. ASSUME gates[n].status = "PENDING_APPROVAL" PROVE ~ApprovedOnce(log, n)
  <2>1. ~ApprovalSeen(gates[n], log)
    BY <1>1, <1>2, <1>4 DEF History, Final, ApprovalSeen
  <2> QED BY <1>1, <1>2, <2>1 DEF History, Seen
<1>5. AttemptsLeft = IF ApprovedOnce(log, n) THEN IterationLimit ELSE gates[n].max - n
  BY <1>2 DEF AttemptsLeft
<1> QED BY <1>2, <1>3, <1>4, <1>5 DEF RoundStatus

(* One step of the rounds, for the values the gates give.                  *)
RoundStep ==
  \/ Rounds!Next
  \/ /\ Current' = Current /\ Latest'.artifact = Latest.artifact
     /\ RoundStatus' = RoundStatus /\ AttemptsLeft' = AttemptsLeft

LEMMA MoveIsRound ==
  ASSUME HistoryInv, NEW r \in Requests, NEW next \in Gate, NEW event \in Event,
         LatestMoves(r, next, event)
  PROVE  Rounds!Next
<1> DEFINE n  == Len(gates)
           st == gates[n].status
<1>0. n = Len(gates)
  OBVIOUS
<1> HIDE DEF n
<1>1. Moved(n, next, event)
  BY <1>0, MovedGates
<1>2. /\ gates # <<>> /\ gates' # <<>> /\ log \in Seq(Event) /\ log' = Append(log, event)
      /\ Follows(gates[n], next, event) /\ NextFits(gates[n], next, event)
  BY <1>0, <1>1 DEF LatestMoves, HistoryInv, TypeOK, Moved
<1>3. /\ AttemptsLeft = IF ApprovedOnce(log, n) THEN IterationLimit ELSE gates[n].max - n
      /\ gates[n].max \in Nat /\ n \in 1..gates[n].max /\ gates[n].iteration = n
      /\ RoundStatus = gates[n].status /\ gates[n].status \in Statuses
      /\ gates[n] \in Gate /\ Stored(gates[n])
      /\ gates[n].status = "PENDING_APPROVAL" => ~ApprovedOnce(log, n)
  BY <1>0, <1>2, LeftIs
<1>4. Latest'.artifact = Latest.artifact /\ RoundStatus' = next.status /\ event.gate = n
  BY <1>1, <1>2 DEF Moved, RoundStatus
<1>5. next.max = gates[n].max /\ next.iteration = n
  BY <1>2, <1>3 DEF Follows
<1>6. ApprovedOnce(log', n) <=> ApprovedOnce(log, n) \/ event.kind = "APPROVE"
  BY <1>2, <1>4, ApprovalsIn
<1>7. AttemptsLeft' = IF ApprovedOnce(log', n) THEN IterationLimit ELSE gates[n].max - n
  <2>1. gates' # <<>> /\ Len(gates') = n /\ Latest' = next
    BY <1>1 DEF Moved
  <2> QED BY <1>5, <2>1 DEF AttemptsLeft
<1>8. event.kind # "APPROVE" => AttemptsLeft' = AttemptsLeft
  BY <1>3, <1>6, <1>7
<1>9. st \notin {"NONE", "STALE", "CANCELLED"}
  BY <1>2, <1>3 DEF NextFits, Statuses
<1>10. RoundStatus = st
  BY <1>3
<1>11. CASE UNCHANGED versions /\ event.kind = "ARTIFACT_SUPERSEDED"
  <2>1. next.status = "STALE" BY <1>2, <1>11 DEF NextFits
  <2>2. Current' = Current BY <1>11 DEF Current
  <2>3. Rounds!Supersede
    BY <1>4, <1>8, <1>9, <1>10, <1>11, <2>1, <2>2
    DEF Rounds!Supersede, Rounds!Supersedable, RoundStatus
  <2> QED BY <2>3 DEF Rounds!Next
<1>12. CASE versions' = Append(versions, "edited") /\ event.kind = "ARTIFACT_SUPERSEDED"
  <2>1. next.status = "STALE" BY <1>2, <1>12 DEF NextFits
  <2>2. Current' = Current + 1 BY <1>12 DEF Current, HistoryInv, TypeOK
  <2>3. Rounds!Edit
    BY <1>4, <1>8, <1>9, <1>10, <1>12, <2>1, <2>2
    DEF Rounds!Edit, Rounds!Supersedable, RoundStatus
  <2> QED BY <2>3 DEF Rounds!Next
<1>13. CASE /\ UNCHANGED versions /\ event.kind \in Actions
            /\ next.status = TargetStatus(gates[n], event.kind)
            /\ TargetStatus(gates[n], event.kind) # NoStatus
  <2> DEFINE action == event.kind
             to     == next.status
  <2>1. Current' = Current BY <1>13 DEF Current
  <2>2. \/ st = "PENDING_APPROVAL" /\ action = "APPROVE" /\ to = "APPROVED"
        \/ st = "PENDING_APPROVAL" /\ action = "REJECT" /\ to = "REJECTED"
        \/ /\ st = "PENDING_APPROVAL" /\ action = "REQUEST_REVISION"
           /\ to = IF gates[n].iteration >= gates[n].max THEN "PAUSED_NEEDS_HUMAN"
                                                         ELSE "REVISION_REQUESTED"
        \/ st = "PENDING_APPROVAL" /\ action = "PAUSE" /\ to = "PAUSED"
        \/ st = "PAUSED" /\ action = "RESUME" /\ to = "PENDING_APPROVAL"
        \/ /\ st \in {"PENDING_APPROVAL", "PAUSED", "REVISION_REQUESTED",
                      "PAUSED_NEEDS_HUMAN"}
           /\ action = "CANCEL" /\ to = "CANCELLED"
    BY <1>3, <1>13, StoredTarget
  <2>3. RoundStatus' = to BY <1>4
  <2> HIDE DEF to, st, action
  <2>4. CASE st = "PENDING_APPROVAL" /\ action = "APPROVE" /\ to = "APPROVED"
    <3>1. AttemptsLeft' = IterationLimit BY <1>6, <1>7, <2>4 DEF action
    <3>2. Rounds!Approve
      BY <1>4, <1>10, <2>1, <2>3, <2>4, <3>1 DEF Rounds!Approve, Rounds!Become, RoundStatus
    <3> QED BY <3>2 DEF Rounds!Next
  <2>5. CASE /\ st = "PENDING_APPROVAL" /\ action = "REQUEST_REVISION"
             /\ to = IF gates[n].iteration >= gates[n].max THEN "PAUSED_NEEDS_HUMAN"
                                                           ELSE "REVISION_REQUESTED"
    <3>1. AttemptsLeft = gates[n].max - n /\ gates[n].iteration = n
      BY <1>3, <2>5 DEF st
    <3>2. gates[n].iteration >= gates[n].max <=> AttemptsLeft = 0
      BY <1>3, <3>1
    <3>3. AttemptsLeft' = AttemptsLeft BY <1>8, <2>5 DEF action
    <3>4. to = IF AttemptsLeft = 0 THEN "PAUSED_NEEDS_HUMAN" ELSE "REVISION_REQUESTED"
      BY <2>5, <3>2
    <3>5. Rounds!RequestRevision
      BY <1>4, <1>10, <2>1, <2>3, <2>5, <3>3, <3>4
      DEF Rounds!RequestRevision, Rounds!Become, RoundStatus
    <3> QED BY <3>5 DEF Rounds!Next
  <2>6. CASE \/ st = "PENDING_APPROVAL" /\ action = "REJECT" /\ to = "REJECTED"
             \/ st = "PENDING_APPROVAL" /\ action = "PAUSE" /\ to = "PAUSED"
             \/ st = "PAUSED" /\ action = "RESUME" /\ to = "PENDING_APPROVAL"
             \/ /\ st \in {"PENDING_APPROVAL", "PAUSED", "REVISION_REQUESTED",
                           "PAUSED_NEEDS_HUMAN"}
                /\ action = "CANCEL" /\ to = "CANCELLED"
    <3>1. AttemptsLeft' = AttemptsLeft BY <1>8, <2>6 DEF action
    <3>2. Rounds!OtherDecision
      BY <1>4, <1>10, <2>1, <2>3, <2>6, <3>1
      DEF Rounds!OtherDecision, Rounds!Become, RoundStatus
    <3> QED BY <3>2 DEF Rounds!Next
  <2> QED BY <2>2, <2>4, <2>5, <2>6
<1> QED BY <1>0, <1>11, <1>12, <1>13 DEF LatestMoves

LEMMA OpeningIsRound ==
  ASSUME HistoryInv, VersionInv, NEW r \in Requests,
         NEW gates1 \in Seq(Gate), NEW log1 \in Seq(Event), NEW next \in Gate,
         NEW event \in Event, GateOpens(r, gates1, log1, next, event)
  PROVE  Rounds!Open
<1> DEFINE n == Len(gates)
           seen == tx[r].seen
<1>0. n = Len(gates)
  OBVIOUS
<1> HIDE DEF n, seen
<1>1. Opened(r, n, next)
  BY <1>0, OpenedGates
<1>2. /\ n \in Nat /\ gates' # <<>> /\ Len(gates') = n + 1 /\ Latest' = next
      /\ n + 1 \notin DOMAIN gates
  BY <1>1 DEF Opened
<1>3. /\ UNCHANGED versions /\ History(gates1, log1) /\ Len(gates1) = n
      /\ log' = Append(log1, event) /\ event.kind = "SUBMIT" /\ event.gate = n + 1
      /\ next.artifact = seen /\ next.status = "PENDING_APPROVAL" /\ next.iteration = n + 1
      /\ next.max = IF gates = <<>> THEN IterationLimit ELSE NextMax(gates1[n], log1)
      /\ seen # 0
  BY <1>0 DEF GateOpens, seen
<1>4. gates # <<>> => /\ gates[n].status \notin {"CANCELLED", "PAUSED_NEEDS_HUMAN"}
                      /\ gates[n].artifact # seen
                      /\ ~BudgetSpent(gates1[n], log1)
  BY <1>0 DEF GateOpens, seen
<1>5. seen \in 1..Current /\ Current \in Nat
  BY <1>3 DEF seen, HistoryInv, TypeOK, Tx, Current, VersionInv, SeenIsVersion
<1>6. Current' = Current /\ Latest'.artifact = seen /\ RoundStatus' = "PENDING_APPROVAL"
  BY <1>2, <1>3 DEF Current, RoundStatus
<1>7. ~ApprovedOnce(log', n + 1)
  <2>1. ~ApprovedOnce(log1, n + 1)
    <3>1. DOMAIN gates1 = 1..n BY <1>3 DEF History
    <3>2. n + 1 \notin DOMAIN gates1 BY <1>2, <3>1
    <3> QED BY <1>3, <3>2 DEF History, Recorded, ApprovedOnce
  <2> QED BY <1>3, <2>1, ApprovalsIn
<1>8. AttemptsLeft' = next.max - (n + 1)
  BY <1>2, <1>3, <1>7 DEF AttemptsLeft
<1>9. AttemptsLeft > 0 /\ AttemptsLeft' = AttemptsLeft - 1
  <2>1. CASE gates = <<>>
    <3>1. AttemptsLeft = IterationLimit /\ next.max = IterationLimit /\ n = 0
      BY <1>0, <1>3, <2>1 DEF AttemptsLeft
    <3> QED BY <1>8, <3>1, LimitAssumption
  <2>2. CASE gates # <<>>
    <3>1. /\ AttemptsLeft = IF ApprovedOnce(log, n) THEN IterationLimit ELSE gates[n].max - n
          /\ gates[n].max \in Nat /\ n \in 1..gates[n].max
      BY <1>0, <2>2, LeftIs
    <3>2. /\ ApprovedOnce(log1, n) <=> ApprovedOnce(log, n)
          /\ gates1[n].max = gates[n].max
      <4>1. gates \in Seq(Gate) /\ log \in Seq(Event) /\ n \in 1..Len(gates)
        BY <1>0, <2>2, <3>1 DEF HistoryInv, TypeOK
      <4>2. CASE gates1 = gates /\ log1 = log BY <4>2
      <4>3. CASE \E e \in Event :
                   /\ gates # <<>> /\ log1 = Append(log, e)
                   /\ e.kind = "ARTIFACT_SUPERSEDED" /\ e.gate = n /\ e.artifact = seen
                   /\ \E g \in Gate : /\ gates1 = [gates EXCEPT ![n] = g]
                                      /\ g.artifact = gates[n].artifact
                                      /\ g.max = gates[n].max
                                      /\ g.iteration = gates[n].iteration
                                      /\ g.status = "STALE"
        <5>1. PICK e \in Event, g \in Gate : /\ log1 = Append(log, e)
                                             /\ e.kind = "ARTIFACT_SUPERSEDED"
                                             /\ gates1 = [gates EXCEPT ![n] = g]
                                             /\ g.max = gates[n].max
          BY <4>3
        <5>2. gates1[n] = g BY <1>0, <4>1, <5>1, ReplaceLast
        <5>3. ApprovedOnce(log1, n) <=> ApprovedOnce(log, n) BY <4>1, <5>1, ApprovalsIn
        <5> QED BY <5>1, <5>2, <5>3
      <4> QED BY <1>0, <4>2, <4>3 DEF GateOpens, seen
    <3>3. /\ n \in DOMAIN gates1 /\ gates1[n].iteration = n
          /\ ApprovalSeen(gates1[n], log1) <=> ApprovedOnce(log1, n)
      <4>1. n \in DOMAIN gates1 BY <1>3, <3>1 DEF History
      <4> QED BY <1>3, <4>1 DEF History, Numbered, Seen
    <3>4. CASE ApprovedOnce(log, n)
      <4>1. next.max = n + 1 + IterationLimit - 1
        BY <1>3, <2>2, <3>2, <3>3, <3>4 DEF NextMax, NextIteration
      <4>2. AttemptsLeft = IterationLimit BY <3>1, <3>4
      <4> QED BY <1>2, <1>8, <4>1, <4>2, LimitAssumption
    <3>5. CASE ~ApprovedOnce(log, n)
      <4>1. next.max = gates[n].max /\ ~(n + 1 > gates[n].max)
        BY <1>3, <1>4, <2>2, <3>2, <3>3, <3>5 DEF NextMax, NextIteration, BudgetSpent
      <4>2. AttemptsLeft = gates[n].max - n BY <3>1, <3>5
      <4> DEFINE m == gates[n].max
      <4>3. m \in Nat /\ n \in Nat /\ ~(n + 1 > m) BY <1>2, <3>1, <4>1
      <4>4. AttemptsLeft = m - n /\ AttemptsLeft' = m - (n + 1) BY <1>8, <4>1, <4>2
      <4> HIDE DEF m
      <4> QED BY <4>3, <4>4
    <3> QED BY <3>4, <3>5
  <2> QED BY <2>1, <2>2
<1>10. RoundStatus \notin {"CANCELLED", "PAUSED_NEEDS_HUMAN"} /\ seen # Latest.artifact
  <2>1. CASE gates = <<>>
    BY <1>3, <2>1 DEF RoundStatus, Latest, LatestOf, NoGate, DraftGate
  <2>2. CASE gates # <<>>
    <3>1. Latest = gates[n] BY <1>0, <2>2 DEF Latest, LatestOf
    <3> QED BY <1>4, <2>2, <3>1 DEF RoundStatus
  <2> QED BY <2>1, <2>2
<1> QED BY <1>5, <1>6, <1>9, <1>10 DEF Rounds!Open, RoundStatus

LEMMA StepIsRound ==
  ASSUME HistoryInv, VersionInv, NEW r \in Requests, Step(r)
  PROVE  RoundStep
<1>1. CASE UNCHANGED <<gates, log>>
  <2>1. Latest' = Latest /\ RoundStatus' = RoundStatus /\ AttemptsLeft' = AttemptsLeft
    BY <1>1 DEF Latest, RoundStatus, AttemptsLeft
  <2>2. CASE Current' = Current
    BY <2>1, <2>2 DEF RoundStep
  <2>3. CASE Current' = Current + 1
    <3>1. Rounds!Edit BY <2>1, <2>3 DEF Rounds!Edit, RoundStatus
    <3> QED BY <3>1 DEF Rounds!Next, RoundStep
  <2> QED BY <2>2, <2>3, VersionsGrow DEF Current
<1>2. ASSUME NEW next \in Gate, NEW event \in Event, LatestMoves(r, next, event)
      PROVE  RoundStep
  BY <1>2, MoveIsRound DEF RoundStep
<1>3. ASSUME NEW gates1 \in Seq(Gate), NEW log1 \in Seq(Event), NEW next \in Gate,
             NEW event \in Event, GateOpens(r, gates1, log1, next, event)
      PROVE  RoundStep
  BY <1>3, OpeningIsRound DEF RoundStep, Rounds!Next
<1> QED BY <1>1, <1>2, <1>3, StepWrites

(* Requests, transactions, locks, gates and histories together do what     *)
(* ApprovalRounds promises: every step opens, decides or supersedes a      *)
(* round, adds a version, or changes nothing the promise speaks of.        *)
THEOREM RoundsAreImplemented == Spec => ImplementsRounds
<1>1. Init => Rounds!Init
  <2> SUFFICES ASSUME Init PROVE Rounds!Init
    OBVIOUS
  <2>1. gates = <<>> /\ versions = <<>>
    BY DEF Init
  <2>2. Current = 0 /\ Latest.artifact = 0
    BY <2>1 DEF Current, Latest, LatestOf, NoGate, DraftGate
  <2>3. AttemptsLeft = IterationLimit
    BY <2>1 DEF AttemptsLeft
  <2> QED BY <2>1, <2>2, <2>3 DEF Rounds!Init
<1>2. HistoryInv /\ VersionInv /\ [Next]_vars => [Rounds!Next]_(Rounds!vars)
  <2> SUFFICES ASSUME HistoryInv, VersionInv, [Next]_vars PROVE RoundStep
    BY DEF RoundStep, Rounds!vars, RoundStatus
  <2>1. ASSUME UNCHANGED <<versions, gates, log>> PROVE RoundStep
    BY <2>1 DEF RoundStep, Current, Latest, RoundStatus, AttemptsLeft
  <2>2. ASSUME NEW r \in Requests, Open(r) PROVE UNCHANGED <<versions, gates, log>>
    BY <2>2, OpenWritesNothing
  <2>3. CASE UNCHANGED vars
    BY <2>1, <2>3 DEF vars
  <2> QED BY <2>1, <2>2, <2>3, StepIsRound DEF Next
<1> QED BY <1>1, <1>2, HistoryHolds, VersionsHold, PTL DEF Spec, ImplementsRounds, Rounds!Spec
=============================================================================

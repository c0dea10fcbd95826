----------------------------- MODULE GateService -----------------------------
(***************************************************************************)
(* One gate of one project as its service runs it: concurrent requests of  *)
(* the owner (browser tabs, the ut command, an agent) submit the current   *)
(* artifact version, decide its gate, or append a new version, each in a   *)
(* READ COMMITTED transaction of its own.                                  *)
(*                                                                         *)
(* The five services share gate_flow.py and differ in two constants:       *)
(*   LocksProjectFirst  Brief, Perspectives and User Twins lock the        *)
(*                      project row before they read the version; the      *)
(*                      Definition and the Design lock the version row     *)
(*                      only, and the project later, with the gate;        *)
(*   OwnerEdits         the owner may edit the Perspectives, and the edit  *)
(*                      supersedes the gate in its own transaction; every  *)
(*                      other new version (a generation, an approved       *)
(*                      change, a realignment) leaves the gate alone.      *)
(* Drafts says which such versions exist: a Brief or a Design may be       *)
(* incomplete, and then it cannot be submitted.                            *)
(***************************************************************************)
EXTENDS GateFlow, FiniteSets

CONSTANTS Requests,           \* the requests that can be in flight together
          NoRequest,          \* no request: the project row is free
          MaxRequests,        \* bound: requests begun in a behaviour
          LocksProjectFirst,
          OwnerEdits,
          Drafts,
          Decisions           \* the decisions the owner takes

ASSUME ServiceAssumption ==
  /\ NoRequest \notin Requests
  /\ MaxRequests \in Nat
  /\ LocksProjectFirst \in BOOLEAN
  /\ OwnerEdits \in BOOLEAN
  /\ Drafts \in SUBSET {"complete", "incomplete"}
  /\ Decisions \in SUBSET (Actions \ {"SUBMIT"})   \* the endpoint refuses SUBMIT
  /\ OwnerEdits => LocksProjectFirst

VARIABLES versions,   \* the kinds of the committed versions, in order
          gates,      \* committed gates in order of iteration
          log,        \* human_gate_events, append-only, in commit order
          clock,      \* the latest instant a request has read
          served,     \* requests begun so far
          project,    \* the request that holds the project row, or NoRequest
          tx          \* the transaction of every request

vars == <<versions, gates, log, clock, served, project, tx>>

Current == Len(versions)      \* 0: no version yet

Latest == LatestOf(gates)

Phases == {"idle", "begun", "waiting", "holding", "locked"}

Ops == {"submit", "decide", "draft", "edit"}

Kinds == {"complete", "incomplete", "edited"}

Tx == [phase: Phases, op: Ops, action: Actions, reason: BOOLEAN,
       at: Nat, base: Nat, seen: Nat, gate: Gate]

IdleTx == [phase |-> "idle", op |-> "submit", action |-> "APPROVE",
           reason |-> FALSE, at |-> 0, base |-> 0, seen |-> 0, gate |-> NoGate]

-----------------------------------------------------------------------------

Init ==
  /\ versions = <<>>
  /\ gates = <<>>
  /\ log = <<>>
  /\ clock = 0
  /\ served = 0
  /\ project = NoRequest
  /\ tx = [r \in Requests |-> IdleTx]

(***************************************************************************)
(* A request reads the clock before it opens its transaction, so a later   *)
(* request may overtake it with a later timestamp.                         *)
(***************************************************************************)
Begin(r, op, action, reason) ==
  /\ tx[r].phase = "idle"
  /\ served < MaxRequests
  /\ \E at \in {clock, clock + 1} :
       /\ clock' = at
       /\ tx' = [tx EXCEPT ![r] = [IdleTx EXCEPT !.phase = "begun", !.op = op,
                                     !.action = action, !.reason = reason,
                                     !.at = at, !.base = Current]]
  /\ served' = served + 1
  /\ UNCHANGED <<versions, gates, log, project>>

BeginSubmit(r) == Begin(r, "submit", "APPROVE", FALSE)

BeginDraft(r) == Begin(r, "draft", "APPROVE", FALSE)

BeginEdit(r) == OwnerEdits /\ Begin(r, "edit", "APPROVE", FALSE)

BeginDecide(r) ==
  \E action \in Decisions :
    \E reason \in (IF ReasonMissing(action, FALSE) THEN BOOLEAN ELSE {TRUE}) :
      Begin(r, "decide", action, reason)

-----------------------------------------------------------------------------

(***************************************************************************)
(* Locks.  A SELECT ... ORDER BY version_number DESC LIMIT 1 FOR UPDATE    *)
(* picks its row from the snapshot of its first instant and then waits for *)
(* that row: a version committed while it waits is not seen.  Version rows *)
(* never change, so the wait does not end in a second look either.         *)
(***************************************************************************)

ReadVersion(r) ==
  /\ ~LocksProjectFirst
  /\ tx[r].phase = "begun"
  /\ tx' = [tx EXCEPT ![r].phase = "waiting", ![r].seen = Current]
  /\ UNCHANGED <<versions, gates, log, clock, served, project>>

VersionRowFree(r) ==
  \/ tx[r].seen = 0
  \/ \A o \in Requests \ {r} :
       tx[o].phase \in {"holding", "locked"} => tx[o].seen # tx[r].seen

LockVersion(r) ==
  /\ tx[r].phase = "waiting"
  /\ VersionRowFree(r)
  /\ tx' = [tx EXCEPT ![r].phase = "holding"]
  /\ UNCHANGED <<versions, gates, log, clock, served, project>>

(* Otherwise (no version, or an incomplete one) the request ends here. *)
Ready(r) ==
  /\ tx[r].seen # 0
  /\ tx[r].op = "submit" => versions[tx[r].seen] # "incomplete"

(* Mutant: the version is the one the request saw before the lock. *)
LockProjectStaleRead(r) ==
  /\ LocksProjectFirst
  /\ tx[r].phase = "begun"
  /\ project = NoRequest
  /\ project' = r
  /\ tx' = [tx EXCEPT ![r].phase = "locked", ![r].seen = tx[r].base, ![r].gate = Latest]
  /\ UNCHANGED <<versions, gates, log, clock, served>>

(* The project row is taken before the version is read ... *)
LockProjectFirst(r) ==
  /\ LocksProjectFirst
  /\ tx[r].phase = "begun"
  /\ project = NoRequest
  /\ project' = r
  /\ tx' = [tx EXCEPT ![r].phase = "locked", ![r].base = Current,
                      ![r].seen = Current, ![r].gate = Latest]
  /\ UNCHANGED <<versions, gates, log, clock, served>>

(* Mutant: the gate is read without a lock. *)
ReadGateUnlocked(r) ==
  /\ tx[r].phase = "holding"
  /\ tx[r].op \in {"submit", "decide"}
  /\ Ready(r)
  /\ project' = r
  /\ tx' = [tx EXCEPT ![r].phase = "locked", ![r].gate = Latest]
  /\ UNCHANGED <<versions, gates, log, clock, served>>

(* ... or after it, when the latest gate is read for update. *)
LockProjectForGate(r) ==
  /\ tx[r].phase = "holding"
  /\ tx[r].op \in {"submit", "decide"}
  /\ Ready(r)
  /\ project = NoRequest
  /\ project' = r
  /\ tx' = [tx EXCEPT ![r].phase = "locked", ![r].gate = Latest]
  /\ UNCHANGED <<versions, gates, log, clock, served>>

(* Mutant: an answer leaves its transaction open. *)
ReleaseNothing(r) ==
  /\ tx' = [tx EXCEPT ![r] = IdleTx]
  /\ UNCHANGED <<clock, served, project>>

(* The transaction ends, by a commit or a rollback, and its locks go. *)
Release(r) ==
  /\ project' = IF project = r THEN NoRequest ELSE project
  /\ tx' = [tx EXCEPT ![r] = IdleTx]
  /\ UNCHANGED <<clock, served>>

Answer(r) == Release(r) /\ UNCHANGED <<versions, gates, log>>

-----------------------------------------------------------------------------

(***************************************************************************)
(* submit_artifact                                                         *)
(***************************************************************************)

AnswerNotReady(r) ==
  /\ tx[r].phase \in {"holding", "locked"}
  /\ tx[r].op \in {"submit", "decide"}
  /\ ~Ready(r)
  /\ Answer(r)

Submitting(r) == tx[r].phase = "locked" /\ tx[r].op = "submit" /\ Ready(r)

(* ALREADY_PENDING, ALREADY_APPROVED, GATE_BLOCKED, NEW_..._REQUIRED: the  *)
(* artifact has its gate.  (A stored gate is never a DRAFT.)               *)
ResubmitExisting(r) ==
  /\ Submitting(r)
  /\ tx[r].gate.artifact = tx[r].seen
  /\ Answer(r)

SubmitRefused(r) ==
  /\ Submitting(r)
  /\ SubmissionRefused(tx[r].gate, tx[r].seen, tx[r].at)
  /\ Answer(r)

Superseding(r) == Submitting(r) /\ SubmissionProceeds(tx[r].gate, tx[r].seen, tx[r].at)

GatesAfterStaling(r) == WithLatestSuperseded(gates, tx[r].gate, tx[r].at)

LogAfterStaling(r) == WithSupersession(log, tx[r].gate, tx[r].seen, tx[r].at)

OutOfBudget(r) == OverLimit(tx[r].gate, LogAfterStaling(r), tx[r].at)

(* ITERATION_LIMIT_REACHED commits the staling all the same. *)
SubmitOverLimit(r) ==
  /\ Superseding(r)
  /\ OutOfBudget(r)
  /\ gates' = GatesAfterStaling(r)
  /\ log' = LogAfterStaling(r)
  /\ UNCHANGED versions
  /\ Release(r)

ArtifactHasGate(a) == \E i \in DOMAIN gates : gates[i].artifact = a

Draft(r) == NextDraft(tx[r].gate, LogAfterStaling(r), tx[r].seen, tx[r].at)

SubmitNewGate(r) ==
  /\ Superseding(r)
  /\ ~OutOfBudget(r)
  /\ ~ArtifactHasGate(tx[r].seen)
  /\ gates' = Append(GatesAfterStaling(r), Transitioned(Draft(r), "SUBMIT", tx[r].at))
  /\ log' = Append(LogAfterStaling(r), TransitionEvent(Draft(r), "SUBMIT", tx[r].at))
  /\ UNCHANGED versions
  /\ Release(r)

(* The unique constraint on the artifact rolls the whole submission back. *)
SubmitDuplicate(r) ==
  /\ Superseding(r)
  /\ ~OutOfBudget(r)
  /\ ArtifactHasGate(tx[r].seen)
  /\ Answer(r)

-----------------------------------------------------------------------------

(***************************************************************************)
(* decide_current                                                          *)
(***************************************************************************)

Deciding(r) == tx[r].phase = "locked" /\ tx[r].op = "decide" /\ Ready(r)

(* GATE_NOT_FOUND; ARTIFACT_STALE without a change; REJECTED. *)
DecideRefused(r) ==
  /\ Deciding(r)
  /\ ~DecisionSupersedes(tx[r].gate, tx[r].seen, tx[r].at)
  /\ ~DecisionApplies(tx[r].gate, tx[r].seen, tx[r].action, tx[r].reason, tx[r].at)
  /\ Answer(r)

DecideStale(r) ==
  LET gate == tx[r].gate IN
  /\ Deciding(r)
  /\ DecisionSupersedes(gate, tx[r].seen, tx[r].at)
  /\ gates' = [gates EXCEPT ![Len(gates)] = Staled(gate, tx[r].at)]
  /\ log' = Append(log, StaleEvent(gate, tx[r].seen, tx[r].at))
  /\ UNCHANGED versions
  /\ Release(r)

DecideApplied(r) ==
  LET gate == tx[r].gate IN
  /\ Deciding(r)
  /\ DecisionApplies(gate, tx[r].seen, tx[r].action, tx[r].reason, tx[r].at)
  /\ gates' = [gates EXCEPT ![Len(gates)] = Transitioned(gate, tx[r].action, tx[r].at)]
  /\ log' = Append(log, TransitionEvent(gate, tx[r].action, tx[r].at))
  /\ UNCHANGED versions
  /\ Release(r)

-----------------------------------------------------------------------------

(***************************************************************************)
(* A new version.  The insert checks its foreign key, so it waits while    *)
(* another transaction holds the project row for update.                   *)
(***************************************************************************)

Appending(r) ==
  /\ tx[r].op \in {"draft", "edit"}
  /\ \/ tx[r].phase = "locked"
     \/ tx[r].phase = "holding" /\ project = NoRequest

(* PROPOSAL_NOT_FOUND: there is no version to edit.  VERSION_CONFLICT: the *)
(* locked row is not the base the version was made on, or a version with   *)
(* the next number is there already.                                       *)
AppendRefused(r) ==
  /\ Appending(r)
  /\ \/ tx[r].op = "edit" /\ tx[r].seen = 0
     \/ tx[r].seen # tx[r].base
     \/ tx[r].seen # Current
  /\ Answer(r)

MayAppend(r) ==
  /\ Appending(r)
  /\ tx[r].op = "edit" => tx[r].seen # 0
  /\ tx[r].seen = tx[r].base
  /\ tx[r].seen = Current

DraftAppended(r) ==
  /\ MayAppend(r)
  /\ tx[r].op = "draft"
  /\ \E kind \in Drafts : versions' = Append(versions, kind)
  /\ UNCHANGED <<gates, log>>
  /\ Release(r)

(* Mutant: an approved gate survives the edit of its artifact. *)
EditStalesPendingGate(r) == tx[r].gate.status = "PENDING_APPROVAL"

EditStalesGate(r) ==
  tx[r].gate # NoGate /\ tx[r].gate.status \notin {"STALE", "CANCELLED"}

EditAppended(r) ==
  LET next == Current + 1 IN
  /\ MayAppend(r)
  /\ tx[r].op = "edit"
  /\ EditStalesGate(r) => StaleApplies(tx[r].gate, next, tx[r].at)
  /\ versions' = Append(versions, "edited")
  /\ IF EditStalesGate(r)
     THEN /\ gates' = [gates EXCEPT ![Len(gates)] = Staled(tx[r].gate, tx[r].at)]
          /\ log' = Append(log, StaleEvent(tx[r].gate, next, tx[r].at))
     ELSE UNCHANGED <<gates, log>>
  /\ Release(r)

(* "current Agent Team gate could not be marked stale": all rolled back. *)
EditRolledBack(r) ==
  /\ MayAppend(r)
  /\ tx[r].op = "edit"
  /\ EditStalesGate(r)
  /\ ~StaleApplies(tx[r].gate, Current + 1, tx[r].at)
  /\ Answer(r)

-----------------------------------------------------------------------------

Open(r) == BeginSubmit(r) \/ BeginDraft(r) \/ BeginEdit(r) \/ BeginDecide(r)

Step(r) ==
  \/ ReadVersion(r)
  \/ LockVersion(r)
  \/ LockProjectFirst(r)
  \/ LockProjectForGate(r)
  \/ AnswerNotReady(r)
  \/ ResubmitExisting(r)
  \/ SubmitRefused(r)
  \/ SubmitOverLimit(r)
  \/ SubmitNewGate(r)
  \/ SubmitDuplicate(r)
  \/ DecideRefused(r)
  \/ DecideStale(r)
  \/ DecideApplied(r)
  \/ AppendRefused(r)
  \/ DraftAppended(r)
  \/ EditAppended(r)
  \/ EditRolledBack(r)

Next == \E r \in Requests : Open(r) \/ Step(r)

Spec == Init /\ [][Next]_vars

(* PostgreSQL queues lock waiters and every statement returns: a request   *)
(* that has begun keeps stepping.  Nobody has to send a request.           *)
FairSpec == Spec /\ \A r \in Requests : SF_vars(Step(r))

-----------------------------------------------------------------------------

(***************************************************************************)
(* Properties.                                                             *)
(***************************************************************************)

TypeOK ==
  /\ versions \in Seq(Kinds)
  /\ gates \in Seq(Gate)
  /\ log \in Seq(Event)
  /\ clock \in Nat
  /\ served \in Nat
  /\ project \in Requests \cup {NoRequest}
  /\ tx \in [Requests -> Tx]

(* A request works on the gate as it is stored until its transaction ends: *)
(* the compare-and-set of save_transition never raises HumanGateStateConflict. *)
ReadGateIsCurrent ==
  \A r \in Requests :
    tx[r].phase = "locked" => project = r /\ tx[r].gate = Latest

(* At most one gate is alive: submit_artifact opens a new one only after   *)
(* every earlier one has become stale, however requests interleave.        *)
OnlyLatestGateLives ==
  \A g \in DOMAIN gates : g < Len(gates) => gates[g].status = "STALE"

(* The history of a gate tells its life without a gap, a fork or a step    *)
(* back in time, and ends in the status the gate has.                      *)
HistoryTellsTheGate ==
  /\ \A i \in DOMAIN log : EventFollows(log, i)
  /\ \A i, j \in DOMAIN log :
       log[i].gate = log[j].gate /\ log[i].seq = log[j].seq => i = j
  /\ \A g \in DOMAIN gates : \E i \in DOMAIN log : EventExplains(log, i, gates[g], g)

(* A stored gate passes the checks of HumanGate.__post_init__ when it is   *)
(* read again: else the project could never be decided any more.           *)
StoredGatesLoad ==
  \A g \in DOMAIN gates :
    LET gate == gates[g] IN
    /\ gate.iteration \in 1..gate.max
    /\ gate.status = "DRAFT" \/ gate.seq >= 1
    /\ gate.status = "PAUSED" <=> gate.resume # NoStatus
    /\ gate.resume \in {NoStatus, "DRAFT", "PENDING_APPROVAL"}
    /\ gate.status = "PAUSED_NEEDS_HUMAN" => gate.iteration = gate.max

(* ITERATION_LIMIT_REACHED is never answered while an approval still has   *)
(* attempts ahead of it: superseding the approved gate does not lose it.   *)
RefusedOnlyWhenSpent ==
  \A r \in Requests :
    Superseding(r) /\ OutOfBudget(r) =>
      /\ Len(gates) >= IterationLimit
      /\ \A h \in (Len(gates) - IterationLimit + 1)..Len(gates) : ~ApprovedOnce(log, h)

(* No submission gets through any more after a cancelled gate or one that  *)
(* waits for a human, not even when a decision supersedes the latter.      *)
BlockedForGood ==
  \A i \in DOMAIN log :
    log[i].resulting \in {"CANCELLED", "PAUSED_NEEDS_HUMAN"} => log[i].gate = Len(gates)

(* A gate becomes stale because a newer version than its own is current.   *)
SupersededByNewer ==
  \A i \in DOMAIN log :
    log[i].kind = "ARTIFACT_SUPERSEDED" => log[i].artifact > gates[log[i].gate].artifact

(* A version the owner edited by hand never stands beside a gate that can  *)
(* still be decided, or counts as approved, for a version before it.       *)
EditsNeedTheirOwnGate ==
  \A v \in DOMAIN versions :
    versions[v] = "edited" =>
      gates = <<>> \/ Latest.artifact >= v \/ Latest.status \in {"STALE", "CANCELLED"}

(* The owner's approval falls on the version that is current as it commits *)
(* (services that lock the project before they read the version).          *)
ApprovesOnlyCurrent ==
  [][\A g \in DOMAIN gates' :
       /\ gates'[g].status = "APPROVED"
       /\ g \in DOMAIN gates => gates[g].status # "APPROVED"
       => gates'[g].artifact = Current']_vars

(* Every request that has begun is answered: the order of the locks leaves *)
(* no two requests waiting for each other.                                 *)
RequestsEnd == \A r \in Requests : tx[r].phase # "idle" ~> tx[r].phase = "idle"

AttemptsLeft ==
  IF gates = <<>> \/ ApprovedOnce(log, Len(gates)) THEN IterationLimit
                                              ELSE Latest.max - Latest.iteration

Rounds == INSTANCE ApprovalRounds WITH
            Limit    <- IterationLimit,
            current  <- Current,
            artifact <- Latest.artifact,
            status   <- IF gates = <<>> THEN "NONE" ELSE Latest.status,
            left     <- AttemptsLeft

(* Gates, histories, locks and transactions together do what ApprovalRounds *)
(* promises: in particular the attempts that next_human_gate_iteration      *)
(* reads off a gate and its events are those a single counter would give.   *)
ImplementsRounds == Rounds!Spec
=============================================================================

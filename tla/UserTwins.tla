------------------------------ MODULE UserTwins ------------------------------
(***************************************************************************)
(* The User Twins of a project, the research evidence they cite and what   *)
(* they learn.  Revisions by the owner, evidence updates, withdrawals,     *)
(* re-anchoring and regeneration all replace the current snapshot; each    *)
(* writes in one transaction that locks the project, so that a transaction *)
(* is one step.  What waits for the model reads in one transaction and     *)
(* writes in a later one.                                                  *)
(*                                                                         *)
(* Of a twin's content the model keeps the evidence sources it cites; what *)
(* an owner writes in a revision cites nothing new.  Revisions and updates *)
(* that are decided are forgotten.  A project keeps its twins, and each    *)
(* profile stays PROJECT_GROUNDED_UT: the revision of another one could    *)
(* only be rejected.                                                       *)
(***************************************************************************)
EXTENDS Integers, FiniteSetsExt

CONSTANTS Twins, Sources, Requests,
          NoSource,           \* an update that cites no evidence
          LearnedLimit,       \* MAX_LEARNED_OBSERVATIONS
          MaxSnapshots,       \* bound: snapshot versions
          MaxVersions,        \* bound: versions of all evidence sources
          MaxDevelopment,     \* bound: development versions of all twins
          MaxChanges,         \* bound: changes of the governed inputs
          MaxDiffs            \* bound: revisions that wait at once

ASSUME TwinsAssumption ==
  /\ NoSource \notin Sources
  /\ {LearnedLimit, MaxSnapshots, MaxVersions, MaxDevelopment, MaxChanges, MaxDiffs}
       \subseteq Nat \ {0}

VARIABLES snapshot,  \* the current User Modeling snapshot
          approved,  \* the snapshot that Gate 3 has approved last
          diffs,     \* the PROPOSED revisions
          updates,   \* the PROPOSED updates
          sources,   \* the latest version of every evidence source; 0 before it is added
          used,      \* the evidence changes in force: which source, in which twin
          learned,   \* learned observations of every twin
          inputs,    \* the approved Brief and team, the archetypes
          tx         \* the requests that wait for the model

twinVars == <<snapshot, approved, used>>

vars == <<snapshot, approved, diffs, updates, sources, used, learned, inputs, tx>>

Inputs == [context : 0..MaxChanges, archetypes : 0..MaxChanges]

(* bound *)
MayChange == inputs.context + inputs.archetypes < MaxChanges

Profile == [version : 1..MaxSnapshots, cites : SUBSET Sources]

Diff == [base : 1..MaxSnapshots, twin : Twins, cites : SUBSET Sources]

(* source, evidence: what the update cites and the version of it; profile, *)
(* development: the versions of the twin it was written for.  An update    *)
(* without evidence is not held to a profile.                              *)
Update ==
  [twin : Twins, source : Sources \union {NoSource}, evidence : Nat,
   profile : Nat, development : Nat]

Idle == [op |-> "none"]

Tx == {Idle} \union [op : {"update"}, update : Update]
             \union [op : {"regenerate"}, base : 1..MaxSnapshots, inputs : Inputs]

Init ==
  /\ snapshot = [number |-> 1, inputs |-> [context |-> 0, archetypes |-> 0],
                 twins |-> [t \in Twins |-> [version |-> 1, cites |-> {}]]]
  /\ approved = 1
  /\ diffs = {}
  /\ updates = {}
  /\ sources = [s \in Sources |-> [version |-> 0, active |-> FALSE]]
  /\ used = {}
  /\ learned = [t \in Twins |-> [development |-> 1, active |-> 1]]
  /\ inputs = [context |-> 0, archetypes |-> 0]
  /\ tx = [r \in Requests |-> Idle]

-----------------------------------------------------------------------------
(* What the transactions ask under the lock of the project.                *)

Approved == approved = snapshot.number

PendingRevision == diffs # {}

(* The column holds JSON null, not NULL, in an update without evidence, so *)
(* that has_pending_evidence_update finds any update that waits.           *)
PendingUpdate == updates # {}

(* has_pending_revision.                                                   *)
Pending == PendingRevision \/ PendingUpdate

HasUpdate(t) == \E u \in updates : u.twin = t

InForce(u) == sources[u.source].active /\ sources[u.source].version = u.evidence

(* A new snapshot, in which the given twins have a new version.            *)
Append(twins, ins) ==
  /\ snapshot.number < MaxSnapshots
  /\ snapshot' = [number |-> snapshot.number + 1, twins |-> twins, inputs |-> ins]

Rewritten(cites) ==
  [t \in Twins |->
     IF t \in DOMAIN cites
     THEN [version |-> snapshot.twins[t].version + 1, cites |-> cites[t]]
     ELSE snapshot.twins[t]]

Ends(r) == tx' = [tx EXCEPT ![r] = Idle]

-----------------------------------------------------------------------------
(* Revisions by the owner.                                                 *)

ProposeRevision(t) ==
  /\ ~ PendingUpdate
  /\ \A d \in diffs : ~ (d.base = snapshot.number /\ d.twin = t)
  /\ Cardinality(diffs) < MaxDiffs
  /\ \E cites \in SUBSET snapshot.twins[t].cites :
       diffs' = diffs \union {[base |-> snapshot.number, twin |-> t, cites |-> cites]}
  /\ UNCHANGED <<twinVars, updates, sources, learned, inputs, tx>>

(* MUTANT of Decidable: a revision is decided on any snapshot.             *)
DecidableAnytime(d) == TRUE

(* CONTEXT_CHANGED otherwise, for an approval and for a rejection.         *)
Decidable(d) == d.base = snapshot.number

ApproveRevision(d) ==
  /\ Decidable(d)
  /\ Append(Rewritten([t \in {d.twin} |-> d.cites]), snapshot.inputs)
  /\ diffs' = diffs \ {d}
  /\ UNCHANGED <<approved, updates, sources, used, learned, inputs, tx>>

RejectRevision(d) ==
  /\ Decidable(d)
  /\ diffs' = diffs \ {d}
  /\ UNCHANGED <<twinVars, updates, sources, learned, inputs, tx>>

(* Gate 3, submission and approval: always about the current snapshot      *)
(* (GateService).                                                          *)
ApproveSnapshot ==
  /\ ~ Approved
  /\ approved' = snapshot.number
  /\ UNCHANGED <<snapshot, diffs, updates, sources, used, learned, inputs, tx>>

-----------------------------------------------------------------------------
(* Evidence.                                                               *)

(* bound *)
MayVersion == MapThenSumSet(LAMBDA s : sources[s].version, Sources) < MaxVersions

AddSource(s) ==
  /\ sources[s].version = 0
  /\ MayVersion
  /\ sources' = [sources EXCEPT ![s] = [version |-> 1, active |-> TRUE]]
  /\ UNCHANGED <<twinVars, diffs, updates, learned, inputs, tx>>

(* Updates that wait for a decision on an older version are rejected.      *)
Outdated(s) == {u \in updates : u.source = s}

ReviseSource(s) ==
  /\ sources[s].active
  /\ MayVersion
  /\ sources' = [sources EXCEPT ![s].version = @ + 1]
  /\ updates' = updates \ Outdated(s)
  /\ UNCHANGED <<twinVars, diffs, learned, inputs, tx>>

Affected(s) == {t \in Twins : <<s, t>> \in used}

(* Those that cite the source, and all that wait on a twin it changes.     *)
Withdrawn(s) == Outdated(s) \union {u \in updates : u.twin \in Affected(s)}

(* The twins that cite the source lose the citation in new versions, which *)
(* are approved at once only if the snapshot they replace was.             *)
RetireSource(s) ==
  /\ sources[s].version > 0
  /\ sources' = [sources EXCEPT ![s].active = FALSE]
  /\ IF Affected(s) = {} THEN UNCHANGED <<snapshot, approved>>
     ELSE /\ Append(Rewritten([t \in Affected(s) |-> snapshot.twins[t].cites \ {s}]),
                    snapshot.inputs)
          /\ approved' = IF Approved /\ ~ PendingRevision THEN snapshot.number + 1
                                                          ELSE approved
  /\ used' = {c \in used : c[1] # s}
  /\ updates' = updates \ Withdrawn(s)
  /\ UNCHANGED <<diffs, learned, inputs, tx>>

-----------------------------------------------------------------------------
(* Updates: the model reads the evidence, or what was built and tested.    *)

(* _evidence_context_guard.                                                *)
EvidenceContext == ~ PendingRevision /\ Approved

StartUpdate(r, t, s) ==
  /\ tx[r] = Idle
  /\ ~ HasUpdate(t)
  /\ IF s = NoSource THEN Approved ELSE EvidenceContext /\ sources[s].active
  /\ tx' = [tx EXCEPT ![r] =
       [op |-> "update",
        update |-> [twin |-> t, source |-> s,
                    evidence |-> IF s = NoSource THEN 0 ELSE sources[s].version,
                    profile |-> IF s = NoSource THEN 0 ELSE snapshot.twins[t].version,
                    development |-> learned[t].development]]]
  /\ UNCHANGED <<twinVars, diffs, updates, sources, learned, inputs>>

(* MUTANT of StillInContext: what was read first is not read again.        *)
InContextOnce(u) == TRUE

StillInContext(u) ==
  u.source # NoSource =>
    /\ EvidenceContext
    /\ InForce(u)
    /\ snapshot.twins[u.twin].version = u.profile
    /\ learned[u.twin].development = u.development

(* MUTANT of MayWait: create_update stores what it is given.               *)
MayWaitAnyway(u) == StillInContext(u)

MayWait(u) == StillInContext(u) /\ ~ HasUpdate(u.twin)

StoreUpdate(r) ==
  /\ tx[r].op = "update"
  /\ MayWait(tx[r].update)
  /\ updates' = updates \union {tx[r].update}
  /\ Ends(r)
  /\ UNCHANGED <<twinVars, diffs, sources, learned, inputs>>

(* Refused on a context that has changed, nothing found, or failed.        *)
GiveUp(r) ==
  /\ tx[r] # Idle
  /\ Ends(r)
  /\ UNCHANGED <<twinVars, diffs, updates, sources, learned, inputs>>

Learns(t, n) ==
  /\ learned[t].active + n <= LearnedLimit
  /\ MapThenSumSet(LAMBDA u : learned[u].development, Twins) < MaxDevelopment
  /\ learned' = [learned EXCEPT ![t] = [development |-> @.development + 1,
                                        active |-> @.active + n]]

(* The owner keeps n of the observations a twin has proposed.              *)
ApproveUpdate(u, n) ==
  /\ u.source = NoSource
  /\ learned[u.twin].development = u.development
  /\ Learns(u.twin, n)
  /\ updates' = updates \ {u}
  /\ UNCHANGED <<twinVars, diffs, sources, inputs, tx>>

(* _decide_evidence and apply_update_changes: the twin cites the source,   *)
(* and its new version is submitted and approved in the same transaction.  *)
ApproveEvidence(u) ==
  /\ u.source # NoSource
  /\ EvidenceContext
  /\ learned[u.twin].development = u.development
  /\ InForce(u)
  /\ snapshot.twins[u.twin].version = u.profile
  /\ Append(Rewritten([t \in {u.twin} |-> snapshot.twins[t].cites \union {u.source}]),
            snapshot.inputs)
  /\ approved' = snapshot.number + 1
  /\ used' = used \union {<<u.source, u.twin>>}
  /\ updates' = updates \ {u}
  /\ UNCHANGED <<diffs, sources, learned, inputs, tx>>

RejectUpdate(u) ==
  /\ updates' = updates \ {u}
  /\ UNCHANGED <<twinVars, diffs, sources, learned, inputs, tx>>

(* An observation the owner writes, or takes back.  That the twin is       *)
(* approved was asked before, in a transaction of its own.                 *)
Learn(t) ==
  /\ ~ HasUpdate(t)
  /\ Learns(t, 1)
  /\ UNCHANGED <<twinVars, diffs, updates, sources, inputs, tx>>

Unlearn(t) ==
  /\ ~ HasUpdate(t)
  /\ learned[t].active > 0
  /\ Learns(t, -1)
  /\ UNCHANGED <<twinVars, diffs, updates, sources, inputs, tx>>

-----------------------------------------------------------------------------
(* The inputs upstream, and the snapshots made for them.                   *)

ContextMoves ==
  /\ MayChange
  /\ inputs' = [inputs EXCEPT !.context = @ + 1]
  /\ UNCHANGED <<twinVars, diffs, updates, sources, learned, tx>>

EditArchetypes ==
  /\ ~ Pending
  /\ MayChange
  /\ inputs' = [inputs EXCEPT !.archetypes = @ + 1]
  /\ UNCHANGED <<twinVars, diffs, updates, sources, learned, tx>>

(* The same twins, on the current Brief and team.                          *)
Realign ==
  /\ snapshot.inputs.archetypes = inputs.archetypes
  /\ snapshot.inputs.context # inputs.context
  /\ ~ Pending
  /\ Append(Rewritten([t \in Twins |-> snapshot.twins[t].cites]), inputs)
  /\ UNCHANGED <<approved, diffs, updates, sources, used, learned, inputs, tx>>

StartRegeneration(r) ==
  /\ tx[r] = Idle
  /\ ~ Pending
  /\ snapshot.inputs # inputs
  /\ tx' = [tx EXCEPT ![r] = [op |-> "regenerate", base |-> snapshot.number,
                              inputs |-> inputs]]
  /\ UNCHANGED <<twinVars, diffs, updates, sources, learned, inputs>>

(* The model knows no evidence: new profiles cite none.                    *)
Regenerate(r) ==
  /\ tx[r].op = "regenerate"
  /\ ~ Pending
  /\ inputs = tx[r].inputs
  /\ snapshot.number = tx[r].base
  /\ Append(Rewritten([t \in Twins |-> {}]), inputs)
  /\ Ends(r)
  /\ UNCHANGED <<approved, diffs, updates, sources, used, learned, inputs>>

-----------------------------------------------------------------------------
Next ==
  \/ \E t \in Twins : ProposeRevision(t) \/ Learn(t) \/ Unlearn(t)
  \/ \E d \in diffs : ApproveRevision(d) \/ RejectRevision(d)
  \/ \E s \in Sources : AddSource(s) \/ ReviseSource(s) \/ RetireSource(s)
  \/ \E r \in Requests : \/ \E t \in Twins, s \in Sources \union {NoSource} : StartUpdate(r, t, s)
                         \/ StoreUpdate(r) \/ GiveUp(r)
                         \/ StartRegeneration(r) \/ Regenerate(r)
  \/ \E u \in updates : \/ ApproveEvidence(u) \/ RejectUpdate(u)
                        \/ \E n \in 1..LearnedLimit : ApproveUpdate(u, n)
  \/ ApproveSnapshot \/ ContextMoves \/ EditArchetypes \/ Realign

Spec == Init /\ [][Next]_vars

-----------------------------------------------------------------------------
(* Properties.                                                             *)

TypeOK ==
  /\ snapshot \in [number : 1..MaxSnapshots, twins : [Twins -> Profile], inputs : Inputs]
  /\ approved \in 1..MaxSnapshots
  /\ diffs \subseteq Diff
  /\ updates \subseteq Update
  /\ sources \in [Sources -> [version : Nat, active : BOOLEAN]]
  /\ used \subseteq Sources \X Twins
  /\ learned \in [Twins -> [development : Nat, active : 0..LearnedLimit]]
  /\ inputs \in Inputs
  /\ tx \in [Requests -> Tx]

(* An evidence update that waits can be approved as it is: the citation it *)
(* shows is of the latest version of an active source, the twin and what   *)
(* it has learned are those the model worked on, the snapshot is approved  *)
(* and no revision waits beside it - whatever was decided, withdrawn,      *)
(* re-anchored or regenerated meanwhile.                                   *)
WaitingEvidenceHolds ==
  \A u \in updates : u.source # NoSource =>
    /\ EvidenceContext
    /\ InForce(u)
    /\ snapshot.twins[u.twin].version = u.profile
    /\ learned[u.twin].development = u.development

(* A source that was withdrawn is cited by no current twin: no revision,   *)
(* update or regeneration that was written before the withdrawal brings    *)
(* the citation back.                                                      *)
WithdrawnIsGone ==
  \A t \in Twins : \A s \in snapshot.twins[t].cites : sources[s].active

(* A twin has one update to decide at a time, although the model works on  *)
(* several requests at once (TWIN_UPDATE_PENDING).                         *)
OneUpdatePerTwin ==
  \A u, v \in updates : u.twin = v.twin => u = v

(* cli/messages/archetypes.py, "Decide the pending User Twin revision      *)
(* first.": when archetypes, re-anchoring and regeneration are refused for *)
(* something that waits, there is something to decide.                     *)
PendingCanBeDecided ==
  Pending => PendingUpdate \/ \E d \in diffs : Decidable(d)
=============================================================================

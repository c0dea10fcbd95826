----------------------------- MODULE Revisions -----------------------------
(***************************************************************************)
(* Revision diffs: how the Definition and the Design get their versions    *)
(* after the first.  A change is proposed as a diff on the current version *)
(* and decided later; re-anchoring, regeneration and a restore append      *)
(* versions of their own.  A request is a sequence of transactions of      *)
(* read-committed statements, and several requests interleave.             *)
(*                                                                         *)
(* The content of a version is the set of the changes it holds; a diff     *)
(* brings the change that has its number.  The anchor of a version is the  *)
(* upstream version it cites.  Everything a transaction writes appears at  *)
(* its commit.                                                             *)
(***************************************************************************)
EXTENDS Integers, Sequences

CONSTANTS Lines,         \* the services considered
          Requests,      \* requests in progress at once
          MaxVersions,   \* bound: versions
          MaxDiffs,      \* bound: diffs
          MaxUpstream    \* bound: upstream versions

ASSUME RevisionsAssumption ==
  /\ Lines \in SUBSET {"requirements", "design"}
  /\ MaxVersions \in Nat \ {0}
  /\ MaxDiffs \in Nat
  /\ MaxUpstream \in Nat \ {0}

VARIABLES line,      \* the service at work, fixed
          versions,  \* the versions, in order
          diffs,     \* the diffs, in the order of their creation
          upstream,  \* the approved upstream version
          tx,        \* per request, what it is at and what it has read
          locked     \* per request, the version row it holds for update

vars == <<line, versions, diffs, upstream, tx, locked>>

Changes == 1..MaxDiffs

Version ==
  [content : SUBSET Changes, anchor : 1..MaxUpstream, diff : 0..MaxDiffs,
   by : {"generation", "realignment", "revision"}]

Diff ==
  [base : 1..MaxVersions, content : SUBSET Changes, anchor : 1..MaxUpstream,
   by : {"owner", "model"}, status : {"PROPOSED", "APPROVED", "REJECTED"}]

Operations ==
  {"edit", "change", "approve", "reject", "realign", "regenerate", "restore"}

(* seen is the version a model works from, base the one it builds on,  *)
(* row the version row it waits for, diff the diff it decides, anchor the  *)
(* upstream version it has read, content what it wants to store.           *)
Idle ==
  [op |-> "none", pc |-> "idle", seen |-> 0, base |-> 0, row |-> 0, diff |-> 0,
   anchor |-> 0, content |-> {}]

Tx ==
  [op : Operations \union {"none"},
   pc : {"idle", "recheck", "propose", "create", "row", "wait", "save"},
   seen : 0..MaxVersions, base : 0..MaxVersions, row : 0..MaxVersions,
   diff : 0..MaxDiffs, anchor : 0..MaxUpstream, content : SUBSET Changes]

Latest == Len(versions)

Current == versions[Latest]

(* current_proposed: a diff that waits for a decision on version n.        *)
Pending(n) == \E d \in DOMAIN diffs : diffs[d].base = n /\ diffs[d].status = "PROPOSED"

Begins(op, pc) == [Idle EXCEPT !.op = op, !.pc = pc]

Goes(r, pc) == tx' = [tx EXCEPT ![r].pc = pc]

(* The request is answered; what it held is released.                      *)
Ends(r) ==
  /\ tx' = [tx EXCEPT ![r] = Idle]
  /\ locked' = [locked EXCEPT ![r] = 0]

Refused(r) == Ends(r) /\ UNCHANGED <<line, versions, diffs, upstream>>

-----------------------------------------------------------------------------
(* Proposals.                                                              *)

(* propose_revision, from the API: the owner sends the content as changed  *)
(* on a page that shows a version, not always the current one.             *)
EditStart(r, n) ==
  /\ tx[r].pc = "idle"
  /\ tx' = [tx EXCEPT ![r] =
       [Begins("edit", "propose") EXCEPT !.anchor = versions[n].anchor,
                                            !.content = versions[n].content]]
  /\ UNCHANGED <<line, versions, diffs, upstream, locked>>

(* request_change reads the current version and its pending diff, and the  *)
(* Definition's also that the version cites the current upstream one; then *)
(* the model works.                                                        *)
ChangeStart(r) ==
  /\ tx[r].pc = "idle"
  /\ ~ Pending(Latest)
  /\ line = "requirements" => Current.anchor = upstream
  /\ tx' = [tx EXCEPT ![r] =
       [Begins("change", IF line = "requirements" THEN "recheck" ELSE "propose")
          EXCEPT !.seen = Latest, !.anchor = Current.anchor, !.content = Current.content]]
  /\ UNCHANGED <<line, versions, diffs, upstream, locked>>

(* _unchanged: what the Definition's change was written for still holds.   *)
ChangeUnchanged(r) == upstream = tx[r].anchor /\ Latest = tx[r].seen

ChangeRecheck(r) ==
  /\ tx[r].pc = "recheck"
  /\ tx[r].op = "change"
  /\ \/ /\ ChangeUnchanged(r)
        /\ Goes(r, "propose")
        /\ UNCHANGED <<line, versions, diffs, upstream, locked>>
     \/ /\ ~ ChangeUnchanged(r)
        /\ Refused(r)

(* MUTANT of SameContext: a proposal is not held to its context.           *)
AnyContext(r) == TRUE

(* A proposal stays inside the context of the version it is made on.       *)
SameContext(r) == tx[r].anchor = Current.anchor

(* propose_revision reads the version that is current now: the diff's base.*)
Propose(r) ==
  /\ tx[r].pc = "propose"
  /\ \/ /\ ~ Pending(Latest)
        /\ SameContext(r)
        /\ tx' = [tx EXCEPT ![r].pc = "create", ![r].base = Latest, ![r].seen = 0]
        /\ UNCHANGED <<line, versions, diffs, upstream, locked>>
     \/ /\ Pending(Latest) \/ ~ SameContext(r)
        /\ Refused(r)

(* MUTANT of BaseRowFree: a diff without a foreign key on its base.        *)
BaseRowIgnored(r) == TRUE

(* The foreign key of a new diff needs its base's row, which a request may *)
(* hold for update.                                                        *)
BaseRowFree(r) == \A s \in Requests \ {r} : locked[s] # tx[r].base

(* The insertion; one diff at a time may be proposed on a version.         *)
CreateDiff(r) ==
  /\ tx[r].pc = "create"
  /\ BaseRowFree(r)
  /\ \/ /\ ~ Pending(tx[r].base)
        /\ Len(diffs) < MaxDiffs
        /\ diffs' = Append(diffs,
             [base |-> tx[r].base, anchor |-> tx[r].anchor, status |-> "PROPOSED",
              content |-> tx[r].content \union {Len(diffs) + 1},
              by |-> IF tx[r].op = "change" THEN "model" ELSE "owner"])
        /\ Ends(r)
        /\ UNCHANGED <<line, versions, upstream>>
     \/ /\ Pending(tx[r].base)
        /\ Refused(r)

-----------------------------------------------------------------------------
(* Decisions and the other appends.                                        *)

(* decide_revision: the diff is still proposed and its base is current.    *)
Decidable(d) == diffs[d].status = "PROPOSED" /\ diffs[d].base = Latest

ApproveStart(r, d) ==
  /\ tx[r].pc = "idle"
  /\ Decidable(d)
  /\ tx' = [tx EXCEPT ![r] =
       [Begins("approve", "row") EXCEPT !.diff = d, !.base = Latest,
          !.anchor = diffs[d].anchor, !.content = diffs[d].content]]
  /\ UNCHANGED <<line, versions, diffs, upstream, locked>>

RejectStart(r, d) ==
  /\ tx[r].pc = "idle"
  /\ Decidable(d)
  /\ tx' = [tx EXCEPT ![r] = [Begins("reject", "save") EXCEPT !.diff = d]]
  /\ UNCHANGED <<line, versions, diffs, upstream, locked>>

(* realign reads the upstream version in a transaction before its own.     *)
RealignStart(r) ==
  /\ tx[r].pc = "idle"
  /\ tx' = [tx EXCEPT ![r] = [Begins("realign", "row") EXCEPT !.anchor = upstream]]
  /\ UNCHANGED <<line, versions, diffs, upstream, locked>>

(* regenerate: a new Design for the current Definition, from nothing.      *)
RegenerateStart(r) ==
  /\ line = "design"
  /\ tx[r].pc = "idle"
  /\ tx' = [tx EXCEPT ![r] =
       [Begins("regenerate", "recheck") EXCEPT !.anchor = upstream, !.seen = Latest]]
  /\ UNCHANGED <<line, versions, diffs, upstream, locked>>

RegenerateRecheck(r) ==
  /\ tx[r].pc = "recheck"
  /\ tx[r].op = "regenerate"
  /\ \/ /\ upstream = tx[r].anchor
        /\ Latest = tx[r].seen
        /\ tx' = [tx EXCEPT ![r].pc = "row", ![r].base = Latest, ![r].seen = 0]
        /\ UNCHANGED <<line, versions, diffs, upstream, locked>>
     \/ /\ upstream # tx[r].anchor \/ Latest # tx[r].seen
        /\ Refused(r)

(* restore_version: an older content, on the anchor of the current one.    *)
RestoreStart(r, n) ==
  /\ line = "design"
  /\ tx[r].pc = "idle"
  /\ n # Latest
  /\ ~ Pending(Latest)
  /\ versions[n].content # Current.content
  /\ tx' = [tx EXCEPT ![r] =
       [Begins("restore", "row") EXCEPT !.base = Latest, !.anchor = Current.anchor,
                                           !.content = versions[n].content]]
  /\ UNCHANGED <<line, versions, diffs, upstream, locked>>

(* SELECT ... ORDER BY version_number DESC LIMIT 1 FOR UPDATE picks the    *)
(* row in the statement's snapshot ...                                     *)
ChooseRow(r) ==
  /\ tx[r].pc = "row"
  /\ tx' = [tx EXCEPT ![r].pc = "wait", ![r].row = Latest]
  /\ UNCHANGED <<line, versions, diffs, upstream, locked>>

RowFree(r) == \A s \in Requests \ {r} : locked[s] # tx[r].row

(* MUTANT of Numbered: the number of the new version is not compared.      *)
Renumbered(r) == TRUE

(* ... and returns that row when its lock is granted, whatever has been    *)
(* appended meanwhile.  append compares the new number with that row; the  *)
(* unique version number refuses what the comparison lets through.         *)
Numbered(r) == tx[r].op = "realign" \/ tx[r].base = tx[r].row

Insertable(r) ==
  /\ Numbered(r)
  /\ Latest = tx[r].row

(* What else is asked once the row is locked: a re-anchoring needs a newer *)
(* upstream version and no pending diff, a restore stores a diff first.    *)
Allowed(r) ==
  /\ tx[r].op \in {"realign", "restore"} => ~ Pending(tx[r].row)
  /\ tx[r].op = "realign" => versions[tx[r].row].anchor # tx[r].anchor

LockRow(r) ==
  /\ tx[r].pc = "wait"
  /\ RowFree(r)
  /\ \/ /\ Insertable(r)
        /\ Allowed(r)
        /\ Latest < MaxVersions
        /\ locked' = [locked EXCEPT ![r] = tx[r].row]
        /\ tx' = [tx EXCEPT ![r].pc = "save", ![r].base = tx[r].row]
        /\ UNCHANGED <<line, versions, diffs, upstream>>
     \/ /\ ~ (Insertable(r) /\ Allowed(r))
        /\ Refused(r)

(* MUTANT of StillProposed: a decision is saved whatever the diff's status.*)
AnyStatus(d) == TRUE

(* save_decision updates the diff only while it is proposed.               *)
StillProposed(d) == diffs[d].status = "PROPOSED"

Appended(r, content, d, by) ==
  versions' = Append(versions,
    [content |-> content, anchor |-> tx[r].anchor, diff |-> d, by |-> by])

CommitApproval(r) ==
  /\ tx[r].pc = "save"
  /\ tx[r].op = "approve"
  /\ \/ /\ StillProposed(tx[r].diff)
        /\ Appended(r, tx[r].content, tx[r].diff, "revision")
        /\ diffs' = [diffs EXCEPT ![tx[r].diff].status = "APPROVED"]
        /\ Ends(r)
        /\ UNCHANGED <<line, upstream>>
     \/ /\ ~ StillProposed(tx[r].diff)
        /\ Refused(r)

CommitRejection(r) ==
  /\ tx[r].pc = "save"
  /\ tx[r].op = "reject"
  /\ \/ /\ StillProposed(tx[r].diff)
        /\ diffs' = [diffs EXCEPT ![tx[r].diff].status = "REJECTED"]
        /\ Ends(r)
        /\ UNCHANGED <<line, versions, upstream>>
     \/ /\ ~ StillProposed(tx[r].diff)
        /\ Refused(r)

CommitRealignment(r) ==
  /\ tx[r].pc = "save"
  /\ tx[r].op = "realign"
  /\ Appended(r, versions[tx[r].row].content, 0, "realignment")
  /\ Ends(r)
  /\ UNCHANGED <<line, diffs, upstream>>

CommitRegeneration(r) ==
  /\ tx[r].pc = "save"
  /\ tx[r].op = "regenerate"
  /\ Appended(r, {}, 0, "generation")
  /\ Ends(r)
  /\ UNCHANGED <<line, diffs, upstream>>

(* The restore's diff is stored approved, with the version it made.        *)
CommitRestore(r) ==
  /\ tx[r].pc = "save"
  /\ tx[r].op = "restore"
  /\ Len(diffs) < MaxDiffs
  /\ Appended(r, tx[r].content, Len(diffs) + 1, "revision")
  /\ diffs' = Append(diffs,
       [base |-> tx[r].base, anchor |-> tx[r].anchor, status |-> "APPROVED",
        content |-> tx[r].content, by |-> "owner"])
  /\ Ends(r)
  /\ UNCHANGED <<line, upstream>>

(* A request that is cancelled or fails is rolled back.                    *)
Abandon(r) == tx[r].pc # "idle" /\ Refused(r)

(* The section upstream gets a new approved version.                       *)
UpstreamMoves ==
  /\ upstream < MaxUpstream
  /\ upstream' = upstream + 1
  /\ UNCHANGED <<line, versions, diffs, tx, locked>>

-----------------------------------------------------------------------------
Init ==
  /\ line \in Lines
  /\ versions = <<[content |-> {}, anchor |-> 1, diff |-> 0, by |-> "generation"]>>
  /\ diffs = <<>>
  /\ upstream = 1
  /\ tx = [r \in Requests |-> Idle]
  /\ locked = [r \in Requests |-> 0]

Step(r) ==
  \/ \E n \in DOMAIN versions : EditStart(r, n) \/ RestoreStart(r, n)
  \/ \E d \in DOMAIN diffs : ApproveStart(r, d) \/ RejectStart(r, d)
  \/ ChangeStart(r) \/ ChangeRecheck(r) \/ Propose(r) \/ CreateDiff(r)
  \/ RealignStart(r) \/ RegenerateStart(r) \/ RegenerateRecheck(r)
  \/ ChooseRow(r) \/ LockRow(r)
  \/ CommitApproval(r) \/ CommitRejection(r)
  \/ CommitRealignment(r) \/ CommitRegeneration(r) \/ CommitRestore(r)
  \/ Abandon(r)

Next == UpstreamMoves \/ \E r \in Requests : Step(r)

Spec == Init /\ [][Next]_vars

-----------------------------------------------------------------------------
(* Properties.                                                             *)

(* Versions, diffs and requests have the shape the tables and the services *)
(* give them; an update lock is held by a request about to commit.         *)
TypeOK ==
  /\ line \in Lines
  /\ versions \in Seq(Version)
  /\ Len(versions) \in 1..MaxVersions
  /\ diffs \in Seq(Diff)
  /\ Len(diffs) <= MaxDiffs
  /\ upstream \in 1..MaxUpstream
  /\ tx \in [Requests -> Tx]
  /\ locked \in [Requests -> 0..MaxVersions]
  /\ \A r \in Requests : locked[r] # 0 => tx[r].pc = "save" /\ locked[r] = tx[r].row

(* An approval and its version are one: an approved diff has made exactly  *)
(* the version after its base, with its content and its anchor, and a      *)
(* version made by a diff stands for an approval - whatever raced with the *)
(* decision (decide_revision commits both or neither).                     *)
ApprovalIsAVersion ==
  /\ \A d \in DOMAIN diffs : diffs[d].status = "APPROVED" =>
       \A n \in DOMAIN versions : versions[n].diff = d <=> n = diffs[d].base + 1
  /\ \A n \in DOMAIN versions : versions[n].diff # 0 =>
       LET d == versions[n].diff IN
       /\ d \in DOMAIN diffs
       /\ diffs[d].status = "APPROVED"
       /\ diffs[d].base + 1 = n
       /\ diffs[d].content = versions[n].content
       /\ diffs[d].anchor = versions[n].anchor

(* A change of content never changes what the content rests on: a version  *)
(* made by a revision cites the same upstream version as the one before    *)
(* it, also when the proposal was written before a re-anchoring.           *)
RevisionsKeepTheAnchor ==
  \A n \in DOMAIN versions :
    versions[n].by = "revision" => versions[n].anchor = versions[n - 1].anchor

(* A decision is taken once: of an approval and a rejection that race, one *)
(* stands and the other changes nothing.                                   *)
DecidedOnce ==
  [][\A d \in DOMAIN diffs : diffs[d].status # "PROPOSED" => diffs'[d] = diffs[d]]_vars

(* A re-anchoring never passes over a proposal that waits on the version   *)
(* it replaces (REQUIREMENTS_REVISION_PENDING, DESIGN_REVISION_PENDING),   *)
(* also when the proposal is stored while the re-anchoring runs.           *)
RealignmentSparesProposals ==
  [][Len(versions') > Len(versions) /\ versions'[Len(versions')].by = "realignment"
       => ~ Pending(Latest)]_vars

(* test_design_change_application.py, "a change proposes a revision with   *)
(* the changed alternative only": beside the requested change, the diff    *)
(* leaves its base as it is.                                               *)
RequestedChangeOnly ==
  \A d \in DOMAIN diffs : diffs[d].by = "model" =>
    diffs[d].content = versions[diffs[d].base].content \union {d}
=============================================================================

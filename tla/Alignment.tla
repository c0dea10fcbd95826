----------------------------- MODULE Alignment -----------------------------
(***************************************************************************)
(* SectionsService.align: "Update and confirm".  One request walks through *)
(* the sections that are behind and, for each, reads, re-anchors, submits  *)
(* and approves in transactions of their own.  Between two of them other   *)
(* requests of the owner get through: they create versions, propose and    *)
(* decide changes, submit and decide.  Each transaction is atomic here;    *)
(* GateService has the races inside the gates' ones.  Time stands still.   *)
(*                                                                         *)
(* A project starts with its first pass behind it: every section has one   *)
(* version, approved, anchored to the ones before it.                      *)
(***************************************************************************)
EXTENDS Sections

CONSTANTS Edited,       \* the sections the owner makes new content for
          MaxVersions,  \* bound: versions of a section
          Verdicts      \* what the owner decides on a gate

ASSUME AlignmentAssumption ==
  /\ Edited \in SUBSET Section
  /\ MaxVersions \in [Section -> Nat \ {0}]
  /\ Verdicts \in SUBSET (Actions \ {"SUBMIT"})

VARIABLES approvals,  \* per section, the versions approved so far
          updates,    \* the twins with an update that waits
          align       \* the request

stored == <<lines, gateOf, past, pending, approvals, updates>>

alignmentVars == <<stored, align>>

(* pc is the next transaction; todo the sections still behind, the one at  *)
(* work first; read the upstream version found and whether it was ready;   *)
(* alone is false once another request changed something meanwhile, and    *)
(* edited has the sections such requests gave content still to approve.    *)
Idle == [pc |-> "idle", todo |-> <<>>, read |-> 0, ready |-> FALSE, alone |-> TRUE,
         edited |-> {}]

Key == Head(align.todo)

AlignmentInit ==
  /\ lines = [k \in Section |-> <<[origin |-> 1, drops |-> FALSE, on |-> [u \in Anchors[k] |-> 1]]>>]
  /\ gateOf = [k \in Section |-> Transitioned(
                 Transitioned(DraftGate(1, 1, IterationLimit, 0), "SUBMIT", 0), "APPROVE", 0)]
  /\ past = [k \in Section |-> <<>>]
  /\ pending = [k \in Section |-> {}]
  /\ approvals = [k \in Section |-> {1}]
  /\ updates = {}
  /\ align = Idle

-----------------------------------------------------------------------------

(***************************************************************************)
(* The parts that the owner's requests and the alignment have in common.   *)
(***************************************************************************)

(* READY_FOR_MAIN_WORKFLOW, and snapshot_context_is_current.               *)
TeamReady == Approved("brief") /\ Approved("team") /\ ~Moved("team", "brief")

TwinsReady ==
  /\ Approved("twins")
  /\ TeamReady
  /\ ~Moved("twins", "brief")
  /\ ~Moved("twins", "team")

UpstreamReady ==
  [brief |-> TRUE, team |-> Approved("brief"), twins |-> TeamReady,
   requirements |-> TwinsReady, design |-> Approved("requirements")]

HasRoom(k) == Cur(k) < MaxVersions[k]

(* _revision_pending of each service.  For the twins, has_pending_revision *)
(* finds the updates that wait as well, which the sections do not look at. *)
ChangeWaits(k) == RevisionPending(k) \/ (k = "twins" /\ updates # {})

(* Mutant: the upstream need not be approved. *)
CanRealignUnready(k, found, ready) ==
  /\ Current(k).on # AnchoredTo(k, found)
  /\ k = "team" => Approved("team")
  /\ Fits(k, AnchoredTo(k, found))
  /\ ~ChangeWaits(k)

(* The realign of a section to a version of its source that was found      *)
(* ready.  Only the Perspectives ask that their own version be approved.   *)
CanRealign(k, found, ready) ==
  /\ ready
  /\ Current(k).on # AnchoredTo(k, found)
  /\ k = "team" => Approved("team")
  /\ Fits(k, AnchoredTo(k, found))
  /\ ~ChangeWaits(k)

Realigned(k, found) ==
  [origin |-> Current(k).origin, drops |-> FALSE, on |-> AnchoredTo(k, found)]

Appended(k, version) == [lines EXCEPT ![k] = Append(@, version)]

PastAfterStaling(k) == WithSupersession(past[k], gateOf[k], Cur(k), 0)

SubmitOverLimit(k) ==
  /\ SubmissionProceeds(gateOf[k], Cur(k), 0)
  /\ OverLimit(gateOf[k], PastAfterStaling(k), 0)
  /\ gateOf' = [gateOf EXCEPT ![k] = Superseded(gateOf[k], 0)]
  /\ past' = [past EXCEPT ![k] = PastAfterStaling(k)]

SubmitOpens(k) ==
  /\ SubmissionProceeds(gateOf[k], Cur(k), 0)
  /\ ~OverLimit(gateOf[k], PastAfterStaling(k), 0)
  /\ gateOf' = [gateOf EXCEPT ![k] =
                 Transitioned(NextDraft(gateOf[k], PastAfterStaling(k), Cur(k), 0), "SUBMIT", 0)]
  /\ past' = [past EXCEPT ![k] = <<>>]

DecideStales(k) ==
  /\ DecisionSupersedes(gateOf[k], Cur(k), 0)
  /\ gateOf' = [gateOf EXCEPT ![k] = Staled(gateOf[k], 0)]
  /\ past' = [past EXCEPT ![k] = PastAfterStaling(k)]
  /\ UNCHANGED approvals

Decide(k, action) ==
  /\ DecisionApplies(gateOf[k], Cur(k), action, TRUE, 0)
  /\ gateOf' = [gateOf EXCEPT ![k] = Transitioned(gateOf[k], action, 0)]
  /\ approvals' = [approvals EXCEPT ![k] = IF action = "APPROVE" THEN @ \cup {Cur(k)} ELSE @]
  /\ UNCHANGED past

-----------------------------------------------------------------------------

(***************************************************************************)
(* The owner's other requests.                                             *)
(***************************************************************************)

(* Another request comes between two transactions of the alignment, and    *)
(* gives these sections content that nobody has approved yet.              *)
InBetween(edited) ==
  align' = IF align.pc = "idle" THEN align
           ELSE [align EXCEPT !.alone = FALSE, !.edited = @ \cup edited]

(* A loss makes a difference where a later section holds on to this one.  *)
Drops(k) == IF \E d \in Section : k \in HoldsOn[d] THEN BOOLEAN ELSE {FALSE}

(* A brief that is edited, a team that is proposed or edited, twins that   *)
(* are prepared (again: the archetypes they come from may have changed).   *)
(* The Definition changes by proposals; a Design made anew is not ready    *)
(* for its gate, and DesignGate has it.                                    *)
Create(k) ==
  /\ k \in Edited \cap {"brief", "team", "twins"}
  /\ HasRoom(k)
  /\ UpstreamReady[k]
  /\ ~ChangeWaits(k)
  /\ \E drops \in Drops(k) :
       lines' = Appended(k,
         [origin |-> Cur(k) + 1, drops |-> drops,
          on |-> IF k = "brief" THEN Current(k).on ELSE AnchoredTo(k, Cur(Source[k]))])
  /\ InBetween({k})
  /\ UNCHANGED <<gateOf, past, pending, approvals, updates>>

(* A twin can have one revision on each snapshot, and none while an update *)
(* waits.                                                                  *)
Propose(k) ==
  /\ k \in Edited \cap {"twins", "requirements", "design"}
  /\ k = "twins" => updates = {}
  /\ \E part \in Parts(k) :
       LET change == [base |-> Cur(k), of |-> part] IN
         /\ change \notin pending[k]
         /\ pending' = [pending EXCEPT ![k] = @ \cup {change}]
  /\ InBetween({})
  /\ UNCHANGED <<lines, gateOf, past, approvals, updates>>

(* A decision on a change whose base is no longer current is refused       *)
(* (CONTEXT_CHANGED): the change stays proposed.                           *)
Decided(k, change) ==
  /\ change.base = Cur(k)
  /\ pending' = [pending EXCEPT ![k] = @ \ {change}]

RejectChange(k) ==
  /\ \E change \in pending[k] : Decided(k, change)
  /\ InBetween({})
  /\ UNCHANGED <<lines, gateOf, past, approvals, updates>>

(* A revision leaves every twin in its place.                              *)
ApproveChange(k) ==
  /\ HasRoom(k)
  /\ \E change \in pending[k] : Decided(k, change)
  /\ \E drops \in IF k = "twins" THEN {FALSE} ELSE Drops(k) :
       lines' = Appended(k, [origin |-> Cur(k) + 1, drops |-> drops, on |-> Current(k).on])
  /\ InBetween({k})
  /\ UNCHANGED <<gateOf, past, approvals, updates>>

(* The route of one section: it re-anchors and leaves the gate alone. *)
OwnerRealigns(k) ==
  /\ k \in Edited \ {"brief"}
  /\ CanRealign(k, Cur(Source[k]), UpstreamReady[k])
  /\ HasRoom(k)
  /\ lines' = Appended(k, Realigned(k, Cur(Source[k])))
  /\ InBetween({})
  /\ UNCHANGED <<gateOf, past, pending, approvals, updates>>

OwnerSubmits(k) ==
  /\ SubmitOverLimit(k) \/ SubmitOpens(k)
  /\ InBetween({})
  /\ UNCHANGED <<lines, pending, approvals, updates>>

OwnerDecides(k) ==
  /\ DecideStales(k) \/ \E action \in Verdicts : Decide(k, action)
  /\ InBetween({})
  /\ UNCHANGED <<lines, pending, updates>>

-----------------------------------------------------------------------------

(***************************************************************************)
(* What the twins learn (UserTwins has it in full).  An update waits for   *)
(* the owner; one with evidence is approved where the twins stand approved *)
(* and no revision waits.  Every kind of update is modelled by the twin it *)
(* is about: one without evidence is stored whatever has happened since it *)
(* was asked for, and has_pending_evidence_update finds it as well (its    *)
(* column holds JSON null, not NULL).                                      *)
(***************************************************************************)

StoreUpdate(twin) ==
  /\ "twins" \in Edited
  /\ twin \notin updates
  /\ updates' = updates \cup {twin}
  /\ InBetween({})
  /\ UNCHANGED <<lines, gateOf, past, pending, approvals>>

(* Rejected; or approved without evidence: only the memory of the twin     *)
(* changes.                                                                *)
DropUpdate(twin) ==
  /\ twin \in updates
  /\ updates' = updates \ {twin}
  /\ InBetween({})
  /\ UNCHANGED <<lines, gateOf, past, pending, approvals>>

(* append_evidence_profiles: the twins with new profiles, on the versions  *)
(* they are anchored to.                                                   *)
AppendsProfiles ==
  /\ HasRoom("twins")
  /\ lines' = Appended("twins", [origin |-> Cur("twins") + 1, drops |-> FALSE,
                                 on |-> Current("twins").on])

(* Its approve: the gate of the new version opens and is approved in the   *)
(* same transaction.                                                       *)
ApprovedAtOnce ==
  LET version == Cur("twins") + 1
      log     == WithSupersession(past["twins"], gateOf["twins"], version, 0)
      sent    == Transitioned(NextDraft(gateOf["twins"], log, version, 0), "SUBMIT", 0)
  IN  /\ ~OverLimit(gateOf["twins"], log, 0)
      /\ gateOf' = [gateOf EXCEPT !["twins"] = Transitioned(sent, "APPROVE", 0)]
      /\ past' = [past EXCEPT !["twins"] = <<>>]
      /\ approvals' = [approvals EXCEPT !["twins"] = @ \cup {version}]

(* _evidence_context_guard *)
EvidenceContext == Approved("twins") /\ pending["twins"] = {}

ApproveEvidence(twin) ==
  /\ twin \in updates
  /\ EvidenceContext
  /\ AppendsProfiles
  /\ ApprovedAtOnce
  /\ updates' = updates \ {twin}
  /\ InBetween({})
  /\ UNCHANGED pending

(* Twins that cite a source which is withdrawn lose what it told them, and *)
(* what waits for them, or cites the source, is rejected.                  *)
RetireEvidence ==
  /\ "twins" \in Edited
  /\ AppendsProfiles
  /\ \/ EvidenceContext /\ ApprovedAtOnce /\ InBetween({})
     \/ ~EvidenceContext /\ UNCHANGED <<gateOf, past, approvals>> /\ InBetween({"twins"})
  /\ \E affected \in SUBSET Twins, citing \in SUBSET updates :
       affected # {} /\ updates' = updates \ (affected \cup citing)
  /\ UNCHANGED pending

-----------------------------------------------------------------------------

(***************************************************************************)
(* The alignment, transaction by transaction.                              *)
(***************************************************************************)

GoTo(pc) == align' = [align EXCEPT !.pc = pc]

(* BLOCKED: the sections that follow are skipped. *)
Stop == align' = Idle

Begin ==
  /\ align.pc = "idle"
  /\ LET todo == ToAlign IN
       /\ todo # <<>>
       /\ ~SectionOf[Head(todo)].blocked
       /\ align' = [Idle EXCEPT !.pc = "budget", !.todo = todo]
  /\ UNCHANGED stored

(* The sections are read again, but only the block is looked at. *)
NextSection ==
  /\ align.pc = "section"
  /\ IF SectionOf[Key].blocked THEN Stop ELSE GoTo("budget")
  /\ UNCHANGED stored

(* next_human_gate_iteration without the gate's events *)
CheckBudget ==
  /\ align.pc = "budget"
  /\ IF BudgetSpent(gateOf[Key], <<>>)
     THEN Stop
     ELSE GoTo(IF Key \in {"team", "twins"} THEN "realign" ELSE "upstream")
  /\ UNCHANGED stored

(* The Definition and the Design read what they rest on before they lock   *)
(* their own line.                                                         *)
ReadUpstream ==
  /\ align.pc = "upstream"
  /\ align' = [align EXCEPT !.pc = "realign", !.read = Cur(Source[Key]),
                            !.ready = UpstreamReady[Key]]
  /\ UNCHANGED stored

(* Team and twins are re-anchored to what is found under the lock.        *)
Found == IF Key \in {"team", "twins"} THEN Cur(Source[Key]) ELSE align.read

FoundReady == IF Key \in {"team", "twins"} THEN UpstreamReady[Key] ELSE align.ready

RealignRefused ==
  /\ align.pc = "realign"
  /\ ~CanRealign(Key, Found, FoundReady)
  /\ Stop
  /\ UNCHANGED stored

Realign ==
  /\ align.pc = "realign"
  /\ CanRealign(Key, Found, FoundReady)
  /\ HasRoom(Key)
  /\ lines' = Appended(Key, Realigned(Key, Found))
  /\ GoTo("submit")
  /\ UNCHANGED <<gateOf, past, pending, approvals, updates>>

(* ALIGNED *)
Aligned ==
  IF Tail(align.todo) = <<>>
  THEN align' = Idle
  ELSE align' = [align EXCEPT !.pc = "section", !.todo = Tail(@), !.read = 0, !.ready = FALSE]

Submit ==
  /\ align.pc = "submit"
  /\ \/ SubmitOpens(Key) /\ GoTo("decide")
     \/ SubmitOverLimit(Key) /\ Stop
     \/ /\ gateOf[Key].artifact = Cur(Key)
        /\ CASE gateOf[Key].status = "APPROVED" -> Aligned
             [] gateOf[Key].status = "PENDING_APPROVAL" -> GoTo("decide")
             [] OTHER -> Stop
        /\ UNCHANGED <<gateOf, past>>
     \/ SubmissionRefused(gateOf[Key], Cur(Key), 0) /\ Stop /\ UNCHANGED <<gateOf, past>>
  /\ UNCHANGED <<lines, pending, approvals, updates>>

Approve ==
  /\ align.pc = "decide"
  /\ \/ Decide(Key, "APPROVE") /\ Aligned
     \/ DecideStales(Key) /\ Stop
     \/ /\ ~DecisionApplies(gateOf[Key], Cur(Key), "APPROVE", TRUE, 0)
        /\ ~DecisionSupersedes(gateOf[Key], Cur(Key), 0)
        /\ Stop
        /\ UNCHANGED <<gateOf, past, approvals>>
  /\ UNCHANGED <<lines, pending, updates>>

(* The request is cancelled, or the server restarts. *)
Crash ==
  /\ align.pc # "idle"
  /\ Stop
  /\ UNCHANGED stored

-----------------------------------------------------------------------------

AlignmentNext ==
  \/ \E k \in Section :
       \/ Create(k)
       \/ Propose(k)
       \/ RejectChange(k)
       \/ ApproveChange(k)
       \/ OwnerRealigns(k)
       \/ OwnerSubmits(k)
       \/ OwnerDecides(k)
  \/ \E twin \in Twins :
       \/ StoreUpdate(twin)
       \/ DropUpdate(twin)
       \/ ApproveEvidence(twin)
  \/ RetireEvidence
  \/ Begin
  \/ NextSection
  \/ CheckBudget
  \/ ReadUpstream
  \/ RealignRefused
  \/ Realign
  \/ Submit
  \/ Approve
  \/ Crash

AlignmentSpec == AlignmentInit /\ [][AlignmentNext]_alignmentVars

-----------------------------------------------------------------------------

(***************************************************************************)
(* Properties.                                                             *)
(***************************************************************************)

Version(k) == [origin: Nat, drops: BOOLEAN, on: [Anchors[k] -> Nat]]

TypeOK ==
  /\ \A k \in Section :
       /\ lines[k] \in Seq(Version(k)) /\ lines[k] # <<>>
       /\ gateOf[k] \in Gate
       /\ past[k] \in Seq(Event)
       /\ pending[k] \subseteq [base: 1..Cur(k), of: Parts(k)]
       /\ approvals[k] \subseteq DOMAIN lines[k]
  /\ updates \subseteq Twins
  /\ align.pc \in {"idle", "section", "budget", "upstream", "realign", "submit", "decide"}
  /\ align.pc # "idle" => align.todo # <<>>
  /\ align.read \in Nat
  /\ align.ready \in BOOLEAN
  /\ align.alone \in BOOLEAN
  /\ align.edited \subseteq Section

(* However requests interleave, no version rests on a version of its       *)
(* source that the owner never approved.                                   *)
RestsOnApproved ==
  \A k \in Section \ {"brief"} : \A v \in DOMAIN lines[k] :
    lines[k][v].on[Source[k]] \in approvals[Source[k]]

(* A Design that is up to date tells the truth about the whole chain:      *)
(* everything before it is approved and up to date as well.                *)
FineDesignMeansFineChain ==
  DesignSection.state = "FINE" => \A k \in Section : SectionOf[k].state = "FINE"

(* What the sections promise, the services keep, but for one obstacle that *)
(* the sections do not show: with nobody in between, a section that is     *)
(* read as unblocked is re-anchored, submitted and approved, and no        *)
(* service refuses; only the twins are refused (and always are,            *)
(* USER_TWIN_REVISION_PENDING) while an update waits, although their       *)
(* section reads unblocked.                                                *)
SectionsKeepTheirPromise ==
  align.alone =>
    /\ align.pc = "budget" => ~BudgetSpent(gateOf[Key], <<>>)
    /\ align.pc = "realign" =>
         (CanRealign(Key, Found, FoundReady) <=> ~(Key = "twins" /\ updates # {}))
    /\ align.pc = "submit" => SubmissionProceeds(gateOf[Key], Cur(Key), 0)
    /\ align.pc = "decide" => DecisionApplies(gateOf[Key], Cur(Key), "APPROVE", TRUE, 0)

(* The alignment approves the section it is at. *)
AlignmentApproves(k) ==
  align.pc = "decide" /\ align'.pc # "decide" /\ k = Key /\ Approved(k)'

(* With nobody in between, an alignment that reaches its end leaves no     *)
(* section behind.                                                         *)
AlignmentSettles ==
  [][\A k \in Section :
       AlignmentApproves(k) /\ align.alone /\ align'.pc = "idle" => ToAlign' = <<>>]_alignmentVars

(* The owner has approved this content before. *)
ContentApproved(k) ==
  \E v \in approvals[k] : lines[k][v].origin = Current(k).origin

(* Whoever gets in between, what an alignment approves has the content of  *)
(* a version the owner approved before, unless a request of the owner gave *)
(* the section new content while this alignment was under way.             *)
KeepsContent ==
  [][\A k \in Section :
       AlignmentApproves(k) => k \in align.edited \/ ContentApproved(k)]_alignmentVars
=============================================================================

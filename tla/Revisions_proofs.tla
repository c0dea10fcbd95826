--------------------------- MODULE Revisions_proofs ---------------------------
(***************************************************************************)
(* Theorems about Revisions for any set of requests and any bounds.        *)
(***************************************************************************)
EXTENDS Revisions, TLAPS

-----------------------------------------------------------------------------
(* Types.                                                                  *)

LEMMA Bounds ==
  /\ MaxVersions \in Nat \ {0} /\ MaxDiffs \in Nat /\ MaxUpstream \in Nat \ {0}
BY RevisionsAssumption

LEMMA IdleType == Idle \in Tx
BY Bounds DEF Idle, Tx

LEMMA CurrentType ==
  ASSUME TypeOK
  PROVE  /\ Latest \in 1..MaxVersions /\ Latest \in Nat /\ DOMAIN versions = 1..Latest
         /\ \A n \in DOMAIN versions : versions[n] \in Version
         /\ Current \in Version
         /\ Len(diffs) \in Nat /\ DOMAIN diffs = 1..Len(diffs)
         /\ \A d \in DOMAIN diffs : diffs[d] \in Diff
BY Bounds DEF TypeOK, Latest, Current

LEMMA EndsType ==
  ASSUME TypeOK, NEW r \in Requests, Ends(r)
  PROVE  /\ tx' \in [Requests -> Tx] /\ locked' \in [Requests -> 0..MaxVersions]
         /\ \A s \in Requests : locked'[s] # 0 => tx'[s].pc = "save" /\ locked'[s] = tx'[s].row
<1>1. tx' \in [Requests -> Tx] BY IdleType DEF TypeOK, Ends
<1>2. locked' \in [Requests -> 0..MaxVersions] BY Bounds DEF TypeOK, Ends
<1> QED BY <1>1, <1>2 DEF TypeOK, Ends


LEMMA FieldTypes ==
  ASSUME NEW t \in Tx
  PROVE  /\ \A v \in Operations \union {"none"} : [t EXCEPT !.op = v] \in Tx
         /\ \A v \in {"idle", "recheck", "propose", "create", "row", "wait", "save"} :
              [t EXCEPT !.pc = v] \in Tx
         /\ \A v \in 0..MaxVersions : /\ [t EXCEPT !.seen = v] \in Tx
                                      /\ [t EXCEPT !.base = v] \in Tx
                                      /\ [t EXCEPT !.row = v] \in Tx
         /\ \A v \in 0..MaxDiffs : [t EXCEPT !.diff = v] \in Tx
         /\ \A v \in 0..MaxUpstream : [t EXCEPT !.anchor = v] \in Tx
         /\ \A v \in SUBSET Changes : [t EXCEPT !.content = v] \in Tx
<1>1. \A v \in Operations \union {"none"} : [t EXCEPT !.op = v] \in Tx BY DEF Tx
<1>2. \A v \in {"idle", "recheck", "propose", "create", "row", "wait", "save"} :
        [t EXCEPT !.pc = v] \in Tx
  BY DEF Tx
<1>3. \A v \in 0..MaxVersions : [t EXCEPT !.seen = v] \in Tx BY DEF Tx
<1>4. \A v \in 0..MaxVersions : [t EXCEPT !.base = v] \in Tx BY DEF Tx
<1>5. \A v \in 0..MaxVersions : [t EXCEPT !.row = v] \in Tx BY DEF Tx
<1>6. \A v \in 0..MaxDiffs : [t EXCEPT !.diff = v] \in Tx BY DEF Tx
<1>7. \A v \in 0..MaxUpstream : [t EXCEPT !.anchor = v] \in Tx BY DEF Tx
<1>8. \A v \in SUBSET Changes : [t EXCEPT !.content = v] \in Tx BY DEF Tx
<1> QED BY <1>1, <1>2, <1>3, <1>4, <1>5, <1>6, <1>7, <1>8

LEMMA FieldsOf ==
  ASSUME NEW t \in Tx
  PROVE  /\ t.op \in Operations \union {"none"}
         /\ t.seen \in 0..MaxVersions /\ t.base \in 0..MaxVersions /\ t.row \in 0..MaxVersions
         /\ t.diff \in 0..MaxDiffs
         /\ t.anchor \in 0..MaxUpstream
         /\ t.content \in SUBSET Changes
BY DEF Tx

(* A request that begins has read existing versions and diffs.             *)
Asks(op, pc, seen, base, diff, anchor, content) ==
  [op |-> op, pc |-> pc, seen |-> seen, base |-> base, row |-> 0, diff |-> diff,
   anchor |-> anchor, content |-> content]

LEMMA AsksType ==
  ASSUME NEW op \in Operations, NEW pc \in {"recheck", "propose", "row", "save"},
         NEW seen \in 0..MaxVersions, NEW base \in 0..MaxVersions, NEW diff \in 0..MaxDiffs,
         NEW anchor \in 0..MaxUpstream, NEW content \in SUBSET Changes
  PROVE  Asks(op, pc, seen, base, diff, anchor, content) \in Tx
BY Bounds DEF Asks, Tx

Starts(r) ==
  \/ \E n \in DOMAIN versions : EditStart(r, n) \/ RestoreStart(r, n)
  \/ \E d \in DOMAIN diffs : ApproveStart(r, d) \/ RejectStart(r, d)
  \/ ChangeStart(r) \/ RealignStart(r) \/ RegenerateStart(r)

(* What a request knows as it begins.                                      *)
Begun(r, t) ==
  \/ \E n \in DOMAIN versions :
       t = Asks("edit", "propose", 0, 0, 0, versions[n].anchor, versions[n].content)
  \/ \E n \in DOMAIN versions :
       t = Asks("restore", "row", 0, Latest, 0, Current.anchor, versions[n].content)
  \/ \E d \in DOMAIN diffs : Decidable(d) /\
       t = Asks("approve", "row", 0, Latest, d, diffs[d].anchor, diffs[d].content)
  \/ \E d \in DOMAIN diffs : Decidable(d) /\ t = Asks("reject", "save", 0, 0, d, 0, {})
  \/ \E pc \in {"recheck", "propose"} :
       t = Asks("change", pc, Latest, 0, 0, Current.anchor, Current.content)
  \/ t = Asks("realign", "row", 0, 0, 0, upstream, {})
  \/ t = Asks("regenerate", "recheck", Latest, 0, 0, upstream, {})

LEMMA StartsWith ==
  ASSUME TypeOK, NEW r \in Requests, Starts(r)
  PROVE  /\ UNCHANGED <<line, versions, diffs, upstream, locked>>
         /\ Begun(r, tx'[r]) /\ tx'[r] \in Tx
         /\ tx' = [tx EXCEPT ![r] = tx'[r]]
         /\ tx[r].pc = "idle"
<1> USE DEF Begins, Idle, Asks
<1>1. ASSUME NEW n \in DOMAIN versions, EditStart(r, n)
      PROVE  tx'[r] = Asks("edit", "propose", 0, 0, 0, versions[n].anchor, versions[n].content)
  BY <1>1 DEF EditStart, TypeOK
<1>2. ASSUME NEW n \in DOMAIN versions, RestoreStart(r, n)
      PROVE  tx'[r] = Asks("restore", "row", 0, Latest, 0, Current.anchor, versions[n].content)
  BY <1>2 DEF RestoreStart, TypeOK
<1>3. ASSUME NEW d \in DOMAIN diffs, ApproveStart(r, d)
      PROVE  tx'[r] = Asks("approve", "row", 0, Latest, d, diffs[d].anchor, diffs[d].content)
  BY <1>3 DEF ApproveStart, TypeOK
<1>4. ASSUME NEW d \in DOMAIN diffs, RejectStart(r, d)
      PROVE  tx'[r] = Asks("reject", "save", 0, 0, d, 0, {})
  BY <1>4 DEF RejectStart, TypeOK
<1>5. ASSUME ChangeStart(r)
      PROVE  \E pc \in {"recheck", "propose"} :
               tx'[r] = Asks("change", pc, Latest, 0, 0, Current.anchor, Current.content)
  BY <1>5 DEF ChangeStart, TypeOK
<1>6. ASSUME RealignStart(r)
      PROVE  tx'[r] = Asks("realign", "row", 0, 0, 0, upstream, {})
  BY <1>6 DEF RealignStart, TypeOK
<1>7. ASSUME RegenerateStart(r)
      PROVE  tx'[r] = Asks("regenerate", "recheck", Latest, 0, 0, upstream, {})
  BY <1>7 DEF RegenerateStart, TypeOK
<1> HIDE DEF Begins, Idle, Asks
<1>8. \A t : Begun(r, t) => t \in Tx
  <2>1. /\ Latest \in 0..MaxVersions /\ upstream \in 0..MaxUpstream /\ 0 \in 0..MaxVersions
        /\ 0 \in 0..MaxDiffs /\ 0 \in 0..MaxUpstream /\ {} \in SUBSET Changes
    BY Bounds, CurrentType DEF TypeOK
  <2>2. \A n \in DOMAIN versions : /\ versions[n].anchor \in 0..MaxUpstream
                                   /\ versions[n].content \in SUBSET Changes
    BY Bounds, CurrentType DEF Version
  <2>3. \A d \in DOMAIN diffs : /\ d \in 0..MaxDiffs
                                /\ diffs[d].anchor \in 0..MaxUpstream
                                /\ diffs[d].content \in SUBSET Changes
    BY Bounds, CurrentType DEF Diff, TypeOK
  <2>4. Current.anchor \in 0..MaxUpstream /\ Current.content \in SUBSET Changes
    BY Bounds, CurrentType DEF Version
  <2>5. {"edit", "change", "approve", "reject", "realign", "regenerate", "restore"}
          \subseteq Operations
    BY DEF Operations
  <2> QED BY <2>1, <2>2, <2>3, <2>4, <2>5, AsksType DEF Begun
<1>9. /\ UNCHANGED <<line, versions, diffs, upstream, locked>>
      /\ tx[r].pc = "idle"
  BY DEF Starts, EditStart, RestoreStart, ApproveStart, RejectStart, ChangeStart, RealignStart,
         RegenerateStart
<1>10. Begun(r, tx'[r])
  <2>1. \A d \in DOMAIN diffs : ApproveStart(r, d) \/ RejectStart(r, d) => Decidable(d)
    BY DEF ApproveStart, RejectStart
  <2> QED BY <1>1, <1>2, <1>3, <1>4, <1>5, <1>6, <1>7, <2>1 DEF Starts, Begun
<1>11. tx' = [tx EXCEPT ![r] = tx'[r]]
  <2>1. \E t : tx' = [tx EXCEPT ![r] = t]
    BY Zenon DEF Starts, EditStart, RestoreStart, ApproveStart, RejectStart, ChangeStart,
                 RealignStart, RegenerateStart
  <2> QED BY <2>1 DEF TypeOK
<1> QED BY <1>8, <1>9, <1>10, <1>11

(* A request that goes on: it has looked again, or waits for a row, or has *)
(* it.  What it is about stays.                                            *)
GoesOn(r) ==
  /\ tx' = [tx EXCEPT ![r] = tx'[r]]
  /\ tx'[r].op = tx[r].op /\ tx'[r].diff = tx[r].diff
  /\ tx'[r].anchor = tx[r].anchor /\ tx'[r].content = tx[r].content
  /\ UNCHANGED <<line, versions, diffs, upstream>>

Asking(r) ==
  /\ GoesOn(r)
  /\ UNCHANGED locked
  /\ \/ tx[r].pc = "recheck" /\ tx'[r].pc = "propose" /\ tx[r].op = "change"
     \/ /\ tx[r].pc = "propose" /\ tx'[r].pc = "create"
        /\ tx'[r].base = Latest /\ tx[r].anchor = Current.anchor
     \/ tx[r].pc = "recheck" /\ tx'[r].pc = "row" /\ tx[r].op = "regenerate"
     \/ tx[r].pc = "row" /\ tx'[r].pc = "wait" /\ tx'[r].base = tx[r].base

Locking(r) ==
  /\ GoesOn(r)
  /\ locked' = [locked EXCEPT ![r] = Latest]
  /\ \A s \in Requests \ {r} : locked[s] # Latest
  /\ tx[r].pc = "wait"
  /\ tx'[r].pc = "save" /\ tx'[r].row = Latest /\ tx'[r].base = Latest
  /\ tx[r].op = "realign" \/ tx[r].base = Latest
  /\ tx[r].op = "realign" => ~ Pending(Latest)
  /\ Latest < MaxVersions

Begs(r) == ChangeRecheck(r) \/ Propose(r) \/ RegenerateRecheck(r) \/ ChooseRow(r)

LEMMA Moved ==
  ASSUME TypeOK, NEW r \in Requests, Begs(r) \/ LockRow(r)
  PROVE  tx'[r] \in Tx /\ (Asking(r) \/ Locking(r) \/ Refused(r))
<1> DEFINE t == tx[r]
<1>1. t \in Tx /\ tx \in [Requests -> Tx] BY DEF TypeOK
<1>2. ASSUME NEW u \in Tx, tx' = [tx EXCEPT ![r] = u]
      PROVE  tx'[r] = u /\ tx' = [tx EXCEPT ![r] = tx'[r]]
  BY <1>1, <1>2
<1>3. Latest \in 0..MaxVersions /\ Latest \in Nat /\ 0 \in 0..MaxVersions
  BY CurrentType, Bounds
<1>4. Refused(r) => tx'[r] \in Tx BY EndsType DEF Refused
<1>5. ASSUME tx' = [tx EXCEPT ![r].pc = "propose"]
      PROVE  tx' = [tx EXCEPT ![r] = [t EXCEPT !.pc = "propose"]]
  BY <1>1, <1>5
<1>6. CASE ChangeRecheck(r) /\ ~ Refused(r)
  <2> DEFINE u == [t EXCEPT !.pc = "propose"]
  <2>1. u \in Tx BY <1>1, FieldTypes
  <2>2. tx'[r] = u /\ tx' = [tx EXCEPT ![r] = tx'[r]]
    BY <1>2, <1>5, <1>6, <2>1 DEF ChangeRecheck, Goes
  <2>3. /\ u.op = t.op /\ u.diff = t.diff /\ u.anchor = t.anchor /\ u.content = t.content
        /\ u.pc = "propose"
    BY <1>1 DEF Tx
  <2>4. /\ UNCHANGED <<line, versions, diffs, upstream, locked>>
        /\ t.op = "change" /\ t.pc = "recheck"
    BY <1>6 DEF ChangeRecheck
  <2> HIDE DEF u
  <2>5. GoesOn(r) BY <2>2, <2>3, <2>4 DEF GoesOn
  <2> QED BY <2>1, <2>2, <2>3, <2>4, <2>5 DEF Asking
<1>7. CASE Propose(r) /\ ~ Refused(r)
  <2> DEFINE u == [t EXCEPT !.pc = "create", !.base = Latest, !.seen = 0]
  <2>1. u \in Tx BY <1>1, <1>3, FieldTypes
  <2>2. tx' = [tx EXCEPT ![r] = u] BY <1>1, <1>7 DEF Propose
  <2>3. tx'[r] = u /\ tx' = [tx EXCEPT ![r] = tx'[r]] BY <1>2, <2>1, <2>2
  <2>4. /\ u.op = t.op /\ u.diff = t.diff /\ u.anchor = t.anchor /\ u.content = t.content
        /\ u.pc = "create" /\ u.base = Latest
    BY <1>1 DEF Tx
  <2>5. /\ UNCHANGED <<line, versions, diffs, upstream, locked>>
        /\ t.pc = "propose" /\ t.anchor = Current.anchor
    BY <1>7 DEF Propose, SameContext
  <2> HIDE DEF u
  <2>6. GoesOn(r) BY <2>3, <2>4, <2>5 DEF GoesOn
  <2> QED BY <2>1, <2>3, <2>4, <2>5, <2>6 DEF Asking
<1>8. CASE RegenerateRecheck(r) /\ ~ Refused(r)
  <2> DEFINE u == [t EXCEPT !.pc = "row", !.base = Latest, !.seen = 0]
  <2>1. u \in Tx BY <1>1, <1>3, FieldTypes
  <2>2. tx' = [tx EXCEPT ![r] = u] BY <1>1, <1>8 DEF RegenerateRecheck
  <2>3. tx'[r] = u /\ tx' = [tx EXCEPT ![r] = tx'[r]] BY <1>2, <2>1, <2>2
  <2>4. /\ u.op = t.op /\ u.diff = t.diff /\ u.anchor = t.anchor /\ u.content = t.content
        /\ u.pc = "row"
    BY <1>1 DEF Tx
  <2>5. /\ UNCHANGED <<line, versions, diffs, upstream, locked>>
        /\ t.op = "regenerate" /\ t.pc = "recheck"
    BY <1>8 DEF RegenerateRecheck
  <2> HIDE DEF u
  <2>6. GoesOn(r) BY <2>3, <2>4, <2>5 DEF GoesOn
  <2> QED BY <2>1, <2>3, <2>4, <2>5, <2>6 DEF Asking
<1>9. CASE ChooseRow(r)
  <2> DEFINE u == [t EXCEPT !.pc = "wait", !.row = Latest]
  <2>1. u \in Tx BY <1>1, <1>3, FieldTypes
  <2>2. tx' = [tx EXCEPT ![r] = u] BY <1>1, <1>9 DEF ChooseRow
  <2>3. tx'[r] = u /\ tx' = [tx EXCEPT ![r] = tx'[r]] BY <1>2, <2>1, <2>2
  <2>4. /\ u.op = t.op /\ u.diff = t.diff /\ u.anchor = t.anchor /\ u.content = t.content
        /\ u.pc = "wait" /\ u.base = t.base
    BY <1>1 DEF Tx
  <2>5. UNCHANGED <<line, versions, diffs, upstream, locked>> /\ t.pc = "row"
    BY <1>9 DEF ChooseRow
  <2> HIDE DEF u
  <2>6. GoesOn(r) BY <2>3, <2>4, <2>5 DEF GoesOn
  <2> QED BY <2>1, <2>3, <2>4, <2>5, <2>6 DEF Asking
<1>10. CASE LockRow(r) /\ ~ Refused(r)
  <2> DEFINE u == [t EXCEPT !.pc = "save", !.base = t.row]
  <2>1. u \in Tx BY <1>1, FieldTypes, FieldsOf
  <2>2. tx' = [tx EXCEPT ![r] = u] BY <1>1, <1>10 DEF LockRow
  <2>3. tx'[r] = u /\ tx' = [tx EXCEPT ![r] = tx'[r]] BY <1>2, <2>1, <2>2
  <2>4. /\ u.op = t.op /\ u.diff = t.diff /\ u.anchor = t.anchor /\ u.content = t.content
        /\ u.pc = "save" /\ u.row = t.row /\ u.base = t.row
    BY <1>1 DEF Tx
  <2>5. /\ UNCHANGED <<line, versions, diffs, upstream>>
        /\ t.row = Latest /\ t.pc = "wait"
        /\ locked' = [locked EXCEPT ![r] = t.row]
        /\ \A s \in Requests \ {r} : locked[s] # t.row
        /\ t.op = "realign" \/ t.base = t.row
        /\ t.op = "realign" => ~ Pending(t.row)
        /\ Latest < MaxVersions
    BY <1>10 DEF LockRow, Insertable, Numbered, Allowed, RowFree
  <2> HIDE DEF u
  <2>6. GoesOn(r) BY <2>3, <2>4, <2>5 DEF GoesOn
  <2> QED BY <2>1, <2>3, <2>4, <2>5, <2>6 DEF Locking
<1> QED BY <1>4, <1>6, <1>7, <1>8, <1>9, <1>10 DEF Begs

-----------------------------------------------------------------------------
(* The invariant.                                                          *)

(* A decision is about a diff as it is stored, and whatever is going to be *)
(* stored on a version keeps the anchor of that version.                   *)
Knows(r) ==
  LET t == tx[r] IN
  /\ t.op \in {"approve", "reject"} => t.diff \in DOMAIN diffs
  /\ t.op = "approve" => /\ diffs[t.diff].base = t.base
                         /\ diffs[t.diff].content = t.content
                         /\ diffs[t.diff].anchor = t.anchor
  /\ t.op = "reject" => t.pc = "save"
  /\ t.pc \in {"propose", "create"} => t.op \in {"edit", "change"}
  /\ t.pc = "create" \/ t.op = "restore" =>
       t.base \in DOMAIN versions /\ t.anchor = versions[t.base].anchor
  /\ t.op \notin {"none", "reject"} => t.anchor \in 1..MaxUpstream

(* Who is about to append holds the row of the current version.            *)
Holds(r) ==
  /\ locked[r] # 0 <=> tx[r].pc = "save" /\ tx[r].op # "reject"
  /\ locked[r] # 0 => /\ locked[r] = Latest /\ Latest < MaxVersions
                      /\ tx[r].row = Latest /\ tx[r].base = Latest

LockedOnce == \A r, s \in Requests : r # s /\ locked[r] # 0 => locked[s] # locked[r]

(* No diff waits on a version that is about to be re-anchored.             *)
Spares(r) == tx[r].pc = "save" /\ tx[r].op = "realign" => ~ Pending(Latest)

Anchored ==
  \A d \in DOMAIN diffs :
    diffs[d].base \in DOMAIN versions /\ diffs[d].anchor = versions[diffs[d].base].anchor

(* An approved diff has a version after its base.                          *)
Applied == \A d \in DOMAIN diffs : diffs[d].status = "APPROVED" => diffs[d].base < Latest

RequestsInv == LockedOnce /\ \A r \in Requests : Knows(r) /\ Holds(r) /\ Spares(r)

FirstGenerated == versions[1].by = "generation"

VersionsInv == Anchored /\ Applied /\ ApprovalIsAVersion /\ RevisionsKeepTheAnchor

IInv == TypeOK /\ RequestsInv /\ VersionsInv /\ FirstGenerated

-----------------------------------------------------------------------------
(* What one step leaves alone.                                             *)

VersionsGrow ==
  /\ Latest' \in Nat /\ DOMAIN versions' = 1..Latest'
  /\ \A n \in DOMAIN versions : n \in DOMAIN versions' /\ versions'[n] = versions[n]

DiffsGrow ==
  \A d \in DOMAIN diffs :
    /\ d \in DOMAIN diffs'
    /\ diffs'[d].base = diffs[d].base /\ diffs'[d].content = diffs[d].content
    /\ diffs'[d].anchor = diffs[d].anchor
    /\ diffs[d].status # "PROPOSED" => diffs'[d] = diffs[d]

LEMMA OthersKeep ==
  ASSUME IInv, NEW r \in Requests, NEW s \in Requests \ {r},
         VersionsGrow, DiffsGrow, tx'[s] = tx[s], locked'[s] = locked[s],
         Latest' = Latest \/ locked[r] # 0
  PROVE  Knows(s)' /\ Holds(s)'
<1>1. Knows(s) /\ Holds(s) /\ Holds(r) /\ LockedOnce BY DEF IInv, RequestsInv
<1>2. Knows(s)' BY <1>1 DEF Knows, VersionsGrow, DiffsGrow
<1>3. locked[r] # 0 => locked[s] = 0 BY <1>1 DEF Holds, LockedOnce
<1> QED BY <1>1, <1>2, <1>3 DEF Holds

LEMMA IdleKeeps ==
  ASSUME IInv, NEW r \in Requests, Ends(r)
  PROVE  /\ Knows(r)' /\ Holds(r)' /\ Spares(r)' /\ LockedOnce'
         /\ \A s \in Requests \ {r} : tx'[s] = tx[s] /\ locked'[s] = locked[s]
<1>1. tx'[r] = Idle /\ locked'[r] = 0
  BY DEF IInv, TypeOK, Ends
<1>2. \A s \in Requests \ {r} : tx'[s] = tx[s] /\ locked'[s] = locked[s]
  BY DEF IInv, TypeOK, Ends
<1>3. LockedOnce' BY <1>1, <1>2 DEF IInv, RequestsInv, LockedOnce
<1> QED BY <1>1, <1>2, <1>3 DEF Knows, Holds, Spares, Idle

LEMMA QuietKeeps ==
  ASSUME IInv, NEW r \in Requests, UNCHANGED <<versions, diffs>>, upstream' \in 1..MaxUpstream,
         line' = line,
         tx' \in [Requests -> Tx], locked' \in [Requests -> 0..MaxVersions],
         Knows(r)', Holds(r)', Spares(r)', LockedOnce',
         \A s \in Requests \ {r} : tx'[s] = tx[s] /\ locked'[s] = locked[s]
  PROVE  IInv'
<1>1. VersionsGrow /\ DiffsGrow /\ Latest' = Latest
  BY CurrentType DEF IInv, VersionsGrow, DiffsGrow, Latest
<1>2. \A s \in Requests \ {r} : Knows(s)' /\ Holds(s)'
  BY <1>1, OthersKeep
<1>3. \A s \in Requests \ {r} : Spares(s)'
  BY <1>1 DEF IInv, RequestsInv, Spares, Pending
<1>4. TypeOK'
  BY <1>2 DEF IInv, TypeOK, Holds
<1>5. VersionsInv' /\ FirstGenerated'
  BY <1>1 DEF IInv, VersionsInv, Anchored, Applied, ApprovalIsAVersion, RevisionsKeepTheAnchor,
              FirstGenerated
<1> QED BY <1>2, <1>3, <1>4, <1>5 DEF IInv, RequestsInv

-----------------------------------------------------------------------------
(* Steps that store nothing.                                               *)

LEMMA RefusedKeeps ==
  ASSUME IInv, NEW r \in Requests, Refused(r)
  PROVE  IInv'
<1>1. UNCHANGED <<line, versions, diffs, upstream>> /\ Ends(r) BY DEF Refused
<1>2. upstream' \in 1..MaxUpstream BY <1>1 DEF IInv, TypeOK
<1> QED BY <1>1, <1>2, EndsType, IdleKeeps, QuietKeeps DEF IInv

LEMMA AsksFields ==
  ASSUME NEW op, NEW pc, NEW seen, NEW base, NEW diff, NEW anchor, NEW content, NEW t,
         t = Asks(op, pc, seen, base, diff, anchor, content)
  PROVE  t.op = op /\ t.pc = pc /\ t.base = base /\ t.diff = diff /\ t.anchor = anchor
         /\ t.content = content
BY DEF Asks

LEMMA BegunKnows ==
  ASSUME TypeOK, NEW r \in Requests, NEW t, Begun(r, t)
  PROVE  /\ t.pc = "save" => t.op = "reject"
         /\ t.op \in {"approve", "reject"} => t.diff \in DOMAIN diffs
         /\ t.op = "approve" => /\ diffs[t.diff].base = t.base
                                /\ diffs[t.diff].content = t.content
                                /\ diffs[t.diff].anchor = t.anchor
         /\ t.pc = "create" \/ t.op = "restore" =>
              t.base \in DOMAIN versions /\ t.anchor = versions[t.base].anchor
         /\ t.op = "reject" => t.pc = "save"
         /\ t.pc \in {"propose", "create"} => t.op \in {"edit", "change"}
         /\ t.op \notin {"none", "reject"} => t.anchor \in 1..MaxUpstream
<1>1. /\ Latest \in DOMAIN versions /\ upstream \in 1..MaxUpstream
      /\ Current = versions[Latest]
  BY CurrentType DEF TypeOK, Current
<1>2. \A n \in DOMAIN versions : versions[n].anchor \in 1..MaxUpstream
  BY CurrentType DEF Version
<1>3. \A d \in DOMAIN diffs : diffs[d].anchor \in 1..MaxUpstream
  BY CurrentType DEF Diff
<1>4. \A d \in DOMAIN diffs : Decidable(d) => diffs[d].base = Latest
  BY DEF Decidable
<1>5. CASE \E n \in DOMAIN versions :
             t = Asks("edit", "propose", 0, 0, 0, versions[n].anchor, versions[n].content)
  BY <1>2, <1>5, AsksFields
<1>6. CASE \E n \in DOMAIN versions :
             t = Asks("restore", "row", 0, Latest, 0, Current.anchor, versions[n].content)
  BY <1>1, <1>2, <1>6, AsksFields
<1>7. CASE \E d \in DOMAIN diffs : Decidable(d) /\
             t = Asks("approve", "row", 0, Latest, d, diffs[d].anchor, diffs[d].content)
  BY <1>3, <1>4, <1>7, AsksFields
<1>8. CASE \E d \in DOMAIN diffs : Decidable(d) /\ t = Asks("reject", "save", 0, 0, d, 0, {})
  BY <1>8, AsksFields
<1>9. CASE \E pc \in {"recheck", "propose"} :
             t = Asks("change", pc, Latest, 0, 0, Current.anchor, Current.content)
  BY <1>1, <1>2, <1>9, AsksFields
<1>10. CASE t = Asks("realign", "row", 0, 0, 0, upstream, {})
  BY <1>1, <1>10, AsksFields
<1>11. CASE t = Asks("regenerate", "recheck", Latest, 0, 0, upstream, {})
  BY <1>1, <1>11, AsksFields
<1> QED BY <1>5, <1>6, <1>7, <1>8, <1>9, <1>10, <1>11 DEF Begun

LEMMA StartsKeep ==
  ASSUME IInv, NEW r \in Requests, Starts(r)
  PROVE  IInv'
<1> DEFINE u == tx'[r]
<1>1. /\ UNCHANGED <<line, versions, diffs, upstream, locked>>
      /\ Begun(r, u) /\ u \in Tx /\ tx' = [tx EXCEPT ![r] = u] /\ tx[r].pc = "idle"
  BY StartsWith DEF IInv
<1>2. /\ tx' \in [Requests -> Tx] /\ locked' \in [Requests -> 0..MaxVersions]
      /\ upstream' \in 1..MaxUpstream
      /\ \A s \in Requests \ {r} : tx'[s] = tx[s] /\ locked'[s] = locked[s]
  BY <1>1 DEF IInv, TypeOK
<1>3. locked'[r] = 0 BY <1>1 DEF IInv, TypeOK
<1>7. /\ u.pc = "save" => u.op = "reject"
      /\ u.op \in {"approve", "reject"} => u.diff \in DOMAIN diffs
      /\ u.op = "approve" => /\ diffs[u.diff].base = u.base
                             /\ diffs[u.diff].content = u.content
                             /\ diffs[u.diff].anchor = u.anchor
      /\ u.pc = "create" \/ u.op = "restore" =>
           u.base \in DOMAIN versions /\ u.anchor = versions[u.base].anchor
      /\ u.op = "reject" => u.pc = "save"
      /\ u.pc \in {"propose", "create"} => u.op \in {"edit", "change"}
      /\ u.op \notin {"none", "reject"} => u.anchor \in 1..MaxUpstream
  BY <1>1, BegunKnows DEF IInv
<1>4. Holds(r)' /\ Spares(r)' BY <1>3, <1>7 DEF Holds, Spares
<1>5. LockedOnce' BY <1>1 DEF IInv, RequestsInv, LockedOnce
<1>6. Knows(r)' BY <1>1, <1>7 DEF Knows
<1> QED BY <1>1, <1>2, <1>4, <1>5, <1>6, QuietKeeps

LEMMA MovesKeep ==
  ASSUME IInv, NEW r \in Requests, Begs(r) \/ LockRow(r)
  PROVE  IInv'
<1>1. /\ Knows(r) /\ Holds(r) /\ LockedOnce /\ TypeOK
      /\ Latest \in DOMAIN versions /\ Latest \in Nat \ {0} /\ Latest \in 0..MaxVersions
      /\ Current = versions[Latest]
  BY CurrentType DEF IInv, RequestsInv, Current
<1>2. CASE Refused(r) BY <1>2, RefusedKeeps
<1>3. ASSUME Asking(r) \/ Locking(r)
      PROVE  /\ UNCHANGED <<line, versions, diffs, upstream>>
             /\ tx' \in [Requests -> Tx]
             /\ upstream' \in 1..MaxUpstream
             /\ tx'[r].op = tx[r].op /\ tx'[r].diff = tx[r].diff
             /\ tx'[r].anchor = tx[r].anchor /\ tx'[r].content = tx[r].content
             /\ \A s \in Requests \ {r} : tx'[s] = tx[s]
  <2>1. GoesOn(r) BY <1>3 DEF Asking, Locking
  <2>2. tx'[r] \in Tx BY <1>1, Moved
  <2>3. tx \in [Requests -> Tx] /\ upstream \in 1..MaxUpstream BY <1>1 DEF TypeOK
  <2> QED BY <2>1, <2>2, <2>3 DEF GoesOn
<1>4. CASE Asking(r)
  <2>1. locked' = locked BY <1>4 DEF Asking
  <2>2. locked' \in [Requests -> 0..MaxVersions] BY <1>1, <2>1 DEF TypeOK
  <2>3. tx[r].pc # "save" /\ tx'[r].pc # "save" /\ tx[r].op # "reject"
    BY <1>1, <1>4 DEF Asking, Knows, TypeOK
  <2>4. Holds(r)' /\ Spares(r)' BY <1>1, <2>1, <2>3 DEF Holds, Spares
  <2>5. LockedOnce' BY <1>1, <2>1 DEF LockedOnce
  <2>6. Knows(r)' BY <1>1, <1>3, <1>4, <2>3 DEF Asking, Knows
  <2> QED BY <1>3, <1>4, <2>1, <2>2, <2>4, <2>5, <2>6, QuietKeeps
<1>5. CASE Locking(r)
  <2>1. /\ locked' \in [Requests -> 0..MaxVersions] /\ locked'[r] = Latest
        /\ \A s \in Requests \ {r} : locked'[s] = locked[s] /\ locked[s] # Latest
        /\ Latest' = Latest
    BY <1>1, <1>3, <1>5 DEF Locking, TypeOK, Latest
  <2>2. tx'[r].pc = "save" /\ tx[r].op # "reject"
    BY <1>1, <1>5 DEF Locking, Knows
  <2>3. Holds(r)' BY <1>1, <1>3, <1>5, <2>1, <2>2 DEF Holds, Locking
  <2>4. Spares(r)' BY <1>3, <1>5, <2>1 DEF Spares, Locking, Pending
  <2>5. LockedOnce' BY <1>1, <2>1 DEF LockedOnce
  <2>6. Knows(r)' BY <1>1, <1>3, <1>5, <2>2 DEF Locking, Knows
  <2> QED BY <1>3, <1>5, <2>1, <2>3, <2>4, <2>5, <2>6, QuietKeeps
<1> QED BY <1>1, <1>2, <1>4, <1>5, Moved

LEMMA UpstreamKeeps == IInv /\ UpstreamMoves => IInv'
<1> SUFFICES ASSUME IInv, UpstreamMoves PROVE IInv' OBVIOUS
<1>1. UNCHANGED <<line, versions, diffs, tx, locked>> /\ upstream' \in 1..MaxUpstream
  BY Bounds DEF UpstreamMoves, IInv, TypeOK
<1>2. TypeOK' BY <1>1 DEF IInv, TypeOK
<1>3. RequestsInv' BY <1>1 DEF IInv, RequestsInv, LockedOnce, Knows, Holds, Spares, Pending, Latest
<1>4. VersionsInv' /\ FirstGenerated'
  BY <1>1 DEF IInv, VersionsInv, Anchored, Applied, ApprovalIsAVersion, RevisionsKeepTheAnchor,
              FirstGenerated, Latest
<1> QED BY <1>2, <1>3, <1>4 DEF IInv

-----------------------------------------------------------------------------
(* Steps that store a diff or a decision.                                  *)

LEMMA StoredDiffs ==
  ASSUME IInv, NEW e \in Diff, diffs' = Append(diffs, e), Len(diffs) < MaxDiffs
  PROVE  /\ diffs' \in Seq(Diff) /\ Len(diffs') = Len(diffs) + 1 /\ Len(diffs') <= MaxDiffs
         /\ DOMAIN diffs' = 1..Len(diffs) + 1 /\ DOMAIN diffs = 1..Len(diffs)
         /\ Len(diffs) \in Nat
         /\ diffs'[Len(diffs) + 1] = e
         /\ \A d \in DOMAIN diffs : d \in DOMAIN diffs' /\ diffs'[d] = diffs[d]
         /\ DiffsGrow
<1>1. diffs \in Seq(Diff) /\ Len(diffs) \in Nat /\ DOMAIN diffs = 1..Len(diffs)
  BY CurrentType DEF IInv, TypeOK
<1> QED BY <1>1, Bounds DEF DiffsGrow

LEMMA CreateKeeps ==
  ASSUME IInv, NEW r \in Requests, CreateDiff(r)
  PROVE  IInv'
<1> DEFINE t == tx[r]
           n == Len(diffs) + 1
           e == [base |-> t.base, anchor |-> t.anchor, status |-> "PROPOSED",
                 content |-> t.content \union {n},
                 by |-> IF t.op = "change" THEN "model" ELSE "owner"]
<1>1. CASE Refused(r) BY <1>1, RefusedKeeps
<1>2. CASE /\ ~ Pending(t.base) /\ Len(diffs) < MaxDiffs
           /\ diffs' = Append(diffs, e)
           /\ Ends(r) /\ UNCHANGED <<line, versions, upstream>>
  <2>1. /\ Knows(r) /\ Holds(r) /\ t \in Tx /\ t.pc = "create" /\ BaseRowFree(r)
        /\ Latest' = Latest
    BY <1>2 DEF IInv, RequestsInv, TypeOK, CreateDiff, Latest
  <2>2. t.base \in DOMAIN versions /\ t.anchor = versions[t.base].anchor
    BY <2>1 DEF Knows
  <2>3. e \in Diff
    <3>1. t.base \in 1..MaxVersions /\ t.anchor \in 1..MaxUpstream
      BY <2>2, CurrentType, Bounds DEF IInv, Version
    <3>2. t.content \union {n} \in SUBSET Changes
      BY <1>2, <2>1, FieldsOf, CurrentType, Bounds DEF IInv, Changes
    <3> HIDE DEF n
    <3> QED BY <3>1, <3>2 DEF Diff
  <2> HIDE DEF e
  <2>4. /\ diffs' \in Seq(Diff) /\ Len(diffs') <= MaxDiffs
        /\ DOMAIN diffs' = 1..n /\ DOMAIN diffs = 1..Len(diffs) /\ Len(diffs) \in Nat
        /\ diffs'[n] = e
        /\ \A d \in DOMAIN diffs : d \in DOMAIN diffs' /\ diffs'[d] = diffs[d]
        /\ DiffsGrow
    BY <1>2, <2>3, StoredDiffs
  <2>5. e.base = t.base /\ e.anchor = t.anchor /\ e.status = "PROPOSED"
    BY DEF e
  <2>6. VersionsGrow
    BY <1>2, CurrentType DEF IInv, VersionsGrow, Latest
  <2>7. /\ Knows(r)' /\ Holds(r)' /\ Spares(r)' /\ LockedOnce'
        /\ \A s \in Requests \ {r} : tx'[s] = tx[s] /\ locked'[s] = locked[s]
    BY <1>2, IdleKeeps
  <2>8. \A s \in Requests \ {r} : Knows(s)' /\ Holds(s)'
    BY <2>1, <2>4, <2>6, <2>7, OthersKeep
  <2>9. ASSUME NEW s \in Requests \ {r} PROVE Spares(s)'
    <3>1. Holds(s) /\ Spares(s) BY DEF IInv, RequestsInv
    <3>2. SUFFICES ASSUME tx[s].pc = "save", tx[s].op = "realign"
                   PROVE  ~ Pending(Latest)'
      BY <2>7 DEF Spares
    <3>3. locked[s] = Latest /\ t.base # Latest
      BY <2>1, <3>1, <3>2 DEF Holds, BaseRowFree
    <3> QED BY <2>1, <2>4, <2>5, <3>1, <3>2, <3>3 DEF Spares, Pending
  <2>10. TypeOK'
    BY <1>2, <2>4, EndsType DEF IInv, TypeOK
  <2>11. Anchored' /\ Applied'
    BY <1>2, <2>1, <2>2, <2>4, <2>5 DEF IInv, VersionsInv, Anchored, Applied
  <2>12. ApprovalIsAVersion'
    BY <1>2, <2>4, <2>5 DEF IInv, VersionsInv, ApprovalIsAVersion
  <2>13. RevisionsKeepTheAnchor' /\ FirstGenerated'
    BY <1>2 DEF IInv, VersionsInv, RevisionsKeepTheAnchor, FirstGenerated
  <2> QED BY <2>7, <2>8, <2>9, <2>10, <2>11, <2>12, <2>13 DEF IInv, RequestsInv, VersionsInv
<1> QED BY <1>1, <1>2 DEF CreateDiff

LEMMA DecidedDiffs ==
  ASSUME IInv, NEW e \in DOMAIN diffs, StillProposed(e), NEW status \in {"APPROVED", "REJECTED"},
         diffs' = [diffs EXCEPT ![e].status = status]
  PROVE  /\ diffs' \in Seq(Diff) /\ Len(diffs') = Len(diffs) /\ DOMAIN diffs' = DOMAIN diffs
         /\ \A d \in DOMAIN diffs \ {e} : diffs'[d] = diffs[d]
         /\ diffs'[e].status = status /\ diffs'[e].base = diffs[e].base
         /\ diffs'[e].content = diffs[e].content /\ diffs'[e].anchor = diffs[e].anchor
         /\ DiffsGrow
         /\ \A n : Pending(n)' => Pending(n)
<1>1. diffs \in Seq(Diff) /\ diffs[e] \in Diff
  BY DEF IInv, TypeOK
<1>2. /\ [diffs[e] EXCEPT !.status = status] \in Diff
      /\ [diffs[e] EXCEPT !.status = status].status = status
      /\ [diffs[e] EXCEPT !.status = status].base = diffs[e].base
      /\ [diffs[e] EXCEPT !.status = status].content = diffs[e].content
      /\ [diffs[e] EXCEPT !.status = status].anchor = diffs[e].anchor
  BY <1>1 DEF Diff
<1>3. diffs' = [diffs EXCEPT ![e] = [diffs[e] EXCEPT !.status = status]]
  OBVIOUS
<1>4. /\ diffs' \in Seq(Diff) /\ Len(diffs') = Len(diffs) /\ DOMAIN diffs' = DOMAIN diffs
      /\ \A d \in DOMAIN diffs \ {e} : diffs'[d] = diffs[d]
      /\ diffs'[e] = [diffs[e] EXCEPT !.status = status]
  BY <1>1, <1>2, <1>3
<1>5. DiffsGrow BY <1>2, <1>4 DEF DiffsGrow, StillProposed
<1>6. \A n : Pending(n)' => Pending(n)
  BY <1>2, <1>4 DEF Pending, StillProposed
<1> QED BY <1>2, <1>4, <1>5, <1>6

LEMMA RejectionKeeps ==
  ASSUME IInv, NEW r \in Requests, CommitRejection(r)
  PROVE  IInv'
<1> DEFINE e == tx[r].diff
<1>1. CASE Refused(r) BY <1>1, RefusedKeeps
<1>2. CASE /\ StillProposed(e) /\ diffs' = [diffs EXCEPT ![e].status = "REJECTED"]
           /\ Ends(r) /\ UNCHANGED <<line, versions, upstream>>
  <2>1. e \in DOMAIN diffs BY DEF IInv, RequestsInv, Knows, CommitRejection
  <2>2. /\ diffs' \in Seq(Diff) /\ Len(diffs') = Len(diffs) /\ DOMAIN diffs' = DOMAIN diffs
        /\ \A d \in DOMAIN diffs \ {e} : diffs'[d] = diffs[d]
        /\ diffs'[e].status = "REJECTED" /\ diffs'[e].base = diffs[e].base
        /\ diffs'[e].content = diffs[e].content /\ diffs'[e].anchor = diffs[e].anchor
        /\ DiffsGrow
        /\ \A n : Pending(n)' => Pending(n)
    BY <1>2, <2>1, DecidedDiffs
  <2>3. VersionsGrow /\ Latest' = Latest
    BY <1>2, CurrentType DEF IInv, VersionsGrow, Latest
  <2>4. /\ Knows(r)' /\ Holds(r)' /\ Spares(r)' /\ LockedOnce'
        /\ \A s \in Requests \ {r} : tx'[s] = tx[s] /\ locked'[s] = locked[s]
    BY <1>2, IdleKeeps
  <2>5. \A s \in Requests \ {r} : Knows(s)' /\ Holds(s)'
    BY <2>2, <2>3, <2>4, OthersKeep
  <2>6. \A s \in Requests \ {r} : Spares(s)'
    <3>1. Pending(Latest)' => Pending(Latest) BY <1>2, <2>2 DEF Pending, Latest
    <3> QED BY <2>4, <3>1 DEF IInv, RequestsInv, Spares
  <2>7. TypeOK' BY <1>2, <2>2, EndsType DEF IInv, TypeOK
  <2>8. Anchored' /\ Applied'
    BY <1>2, <2>2, <2>3 DEF IInv, VersionsInv, Anchored, Applied
  <2>9. ApprovalIsAVersion'
    BY <1>2, <2>1, <2>2 DEF IInv, VersionsInv, ApprovalIsAVersion, StillProposed
  <2>10. RevisionsKeepTheAnchor' /\ FirstGenerated'
    BY <1>2 DEF IInv, VersionsInv, RevisionsKeepTheAnchor, FirstGenerated
  <2> QED BY <2>4, <2>5, <2>6, <2>7, <2>8, <2>9, <2>10 DEF IInv, RequestsInv, VersionsInv
<1> QED BY <1>1, <1>2 DEF CommitRejection

-----------------------------------------------------------------------------
(* Steps that append a version.                                            *)

LEMMA Appends ==
  ASSUME IInv, NEW r \in Requests, tx[r].pc = "save", tx[r].op # "reject",
         NEW v \in Version, versions' = Append(versions, v)
  PROVE  /\ locked[r] # 0 /\ tx[r].base = Latest /\ tx[r].row = Latest
         /\ Latest \in Nat /\ Latest \in DOMAIN versions /\ Latest + 1 <= MaxVersions
         /\ Latest' = Latest + 1 /\ DOMAIN versions = 1..Latest
         /\ DOMAIN versions' = 1..Latest + 1 /\ versions'[Latest + 1] = v
         /\ versions' \in Seq(Version) /\ Len(versions') \in 1..MaxVersions
         /\ \A n \in DOMAIN versions : versions'[n] = versions[n]
         /\ VersionsGrow
<1>1. /\ locked[r] # 0 /\ tx[r].base = Latest /\ tx[r].row = Latest /\ Latest < MaxVersions
  BY DEF IInv, RequestsInv, Holds
<1>2. /\ Latest \in Nat \ {0} /\ DOMAIN versions = 1..Latest /\ versions \in Seq(Version)
  BY CurrentType DEF IInv, TypeOK
<1>3. /\ Len(versions') = Latest + 1 /\ versions' \in Seq(Version)
      /\ versions'[Latest + 1] = v
      /\ \A n \in DOMAIN versions : versions'[n] = versions[n]
  BY <1>2 DEF Latest
<1>4. Latest' = Latest + 1 /\ DOMAIN versions' = 1..Latest + 1
  BY <1>2, <1>3 DEF Latest
<1>5. VersionsGrow BY <1>2, <1>3, <1>4 DEF VersionsGrow
<1> QED BY <1>1, <1>2, <1>3, <1>4, <1>5, Bounds

LEMMA AppendKeeps ==
  ASSUME IInv, NEW r \in Requests, tx[r].pc = "save", tx[r].op # "reject",
         NEW v \in Version, versions' = Append(versions, v),
         Ends(r), UNCHANGED <<line, upstream>>,
         diffs' \in Seq(Diff), Len(diffs') <= MaxDiffs, DiffsGrow,
         \A n : Pending(n)' => Pending(n),
         Anchored', Applied', ApprovalIsAVersion',
         v.by = "revision" => v.anchor = Current.anchor
  PROVE  IInv'
<1>1. /\ locked[r] # 0 /\ Latest \in Nat /\ Latest \in DOMAIN versions
      /\ DOMAIN versions = 1..Latest
      /\ DOMAIN versions' = 1..Latest + 1 /\ versions'[Latest + 1] = v
      /\ versions' \in Seq(Version) /\ Len(versions') \in 1..MaxVersions
      /\ \A n \in DOMAIN versions : versions'[n] = versions[n]
      /\ VersionsGrow
  BY Appends
<1>2. /\ Knows(r)' /\ Holds(r)' /\ Spares(r)' /\ LockedOnce'
      /\ \A s \in Requests \ {r} : tx'[s] = tx[s] /\ locked'[s] = locked[s]
  BY IdleKeeps
<1>3. \A s \in Requests \ {r} : Knows(s)' /\ Holds(s)'
  BY <1>1, <1>2, OthersKeep
<1>4. \A s \in Requests \ {r} : Spares(s)'
  <2>1. \A s \in Requests \ {r} : tx[s].pc = "save" => tx[s].op = "reject"
    BY <1>1 DEF IInv, RequestsInv, LockedOnce, Holds
  <2> QED BY <1>2, <2>1 DEF Spares
<1>5. TypeOK' BY <1>1, EndsType DEF IInv, TypeOK
<1>6. RevisionsKeepTheAnchor'
  <2>1. Current = versions[Latest] BY DEF Current
  <2>2. ASSUME NEW n \in DOMAIN versions', versions'[n].by = "revision"
        PROVE  versions'[n].anchor = versions'[n - 1].anchor
    <3>1. CASE n = Latest + 1
      <4>1. n - 1 = Latest /\ versions'[n] = v /\ versions'[Latest] = versions[Latest]
        BY <1>1, <3>1
      <4>2. v.anchor = Current.anchor BY <2>2, <4>1
      <4> QED BY <2>1, <4>1, <4>2
    <3>2. CASE n \in DOMAIN versions
      <4>1. versions'[n] = versions[n] /\ versions[n].by = "revision" BY <1>1, <2>2, <3>2
      <4>2. n # 1 BY <4>1 DEF IInv, FirstGenerated
      <4>3. n - 1 \in DOMAIN versions BY <1>1, <3>2, <4>2
      <4>4. versions[n].anchor = versions[n - 1].anchor
        BY <3>2, <4>1 DEF IInv, VersionsInv, RevisionsKeepTheAnchor
      <4> QED BY <1>1, <4>1, <4>3, <4>4
    <3>3. n = Latest + 1 \/ n \in DOMAIN versions BY <1>1
    <3> QED BY <3>1, <3>2, <3>3
  <2> QED BY <2>2 DEF RevisionsKeepTheAnchor
<1>7. FirstGenerated' BY <1>1 DEF IInv, FirstGenerated
<1> QED BY <1>2, <1>3, <1>4, <1>5, <1>6, <1>7 DEF IInv, RequestsInv, VersionsInv

LEMMA ApprovalKeeps ==
  ASSUME IInv, NEW r \in Requests, CommitApproval(r)
  PROVE  IInv'
<1> DEFINE t == tx[r]
           e == t.diff
           v == [content |-> t.content, anchor |-> t.anchor, diff |-> e, by |-> "revision"]
<1>1. CASE Refused(r) BY <1>1, RefusedKeeps
<1>2. CASE /\ StillProposed(e) /\ versions' = Append(versions, v)
           /\ diffs' = [diffs EXCEPT ![e].status = "APPROVED"]
           /\ Ends(r) /\ UNCHANGED <<line, upstream>>
  <2>1. /\ e \in DOMAIN diffs /\ t.op = "approve" /\ t.pc = "save" /\ t.anchor \in 1..MaxUpstream
        /\ diffs[e].base = t.base /\ diffs[e].content = t.content /\ diffs[e].anchor = t.anchor
    BY DEF IInv, RequestsInv, Knows, CommitApproval
  <2>2. t \in Tx BY DEF IInv, TypeOK
  <2>3. v \in Version BY <2>1, <2>2, FieldsOf DEF Version
  <2>4. /\ v.content = t.content /\ v.anchor = t.anchor /\ v.diff = e /\ v.by = "revision"
    OBVIOUS
  <2> HIDE DEF v
  <2>5. /\ t.base = Latest /\ Latest \in Nat /\ Latest \in DOMAIN versions
        /\ Latest' = Latest + 1 /\ DOMAIN versions = 1..Latest
        /\ DOMAIN versions' = 1..Latest + 1 /\ versions'[Latest + 1] = v
        /\ \A n \in DOMAIN versions : versions'[n] = versions[n]
    BY <1>2, <2>1, <2>3, Appends
  <2>6. /\ diffs' \in Seq(Diff) /\ Len(diffs') = Len(diffs) /\ DOMAIN diffs' = DOMAIN diffs
        /\ \A d \in DOMAIN diffs \ {e} : diffs'[d] = diffs[d]
        /\ diffs'[e].status = "APPROVED" /\ diffs'[e].base = diffs[e].base
        /\ diffs'[e].content = diffs[e].content /\ diffs'[e].anchor = diffs[e].anchor
        /\ DiffsGrow
        /\ \A n : Pending(n)' => Pending(n)
    BY <1>2, <2>1, DecidedDiffs
  <2>7. \A d \in DOMAIN diffs : diffs[d].base \in DOMAIN versions
                              /\ diffs[d].anchor = versions[diffs[d].base].anchor
    BY DEF IInv, VersionsInv, Anchored
  <2>8. Anchored' BY <2>5, <2>6, <2>7 DEF Anchored
  <2>9. Applied' BY <2>1, <2>5, <2>6, <2>7 DEF IInv, VersionsInv, Applied
  <2>10. ApprovalIsAVersion'
    <3>1. \A n \in DOMAIN versions : versions[n].diff # e
      BY <1>2, <2>1, <2>5, CurrentType
      DEF IInv, VersionsInv, ApprovalIsAVersion, StillProposed
    <3>2. ASSUME NEW d \in DOMAIN diffs', diffs'[d].status = "APPROVED", NEW n \in DOMAIN versions'
          PROVE  versions'[n].diff = d <=> n = diffs'[d].base + 1
      <4>1. CASE d = e BY <2>1, <2>4, <2>5, <2>6, <3>1, <4>1
      <4>2. CASE d # e /\ n = Latest + 1
        <5>1. diffs[d].base < Latest BY <2>6, <3>2, <4>2 DEF IInv, VersionsInv, Applied
        <5> QED BY <2>4, <2>5, <2>6, <2>7, <4>2, <5>1
      <4>3. CASE d # e /\ n \in DOMAIN versions
        BY <2>5, <2>6, <3>2, <4>3 DEF IInv, VersionsInv, ApprovalIsAVersion
      <4> QED BY <2>5, <4>1, <4>2, <4>3
    <3>3. ASSUME NEW n \in DOMAIN versions', versions'[n].diff # 0, NEW d, d = versions'[n].diff
          PROVE  /\ d \in DOMAIN diffs' /\ diffs'[d].status = "APPROVED"
                 /\ diffs'[d].base + 1 = n
                 /\ diffs'[d].content = versions'[n].content
                 /\ diffs'[d].anchor = versions'[n].anchor
      <4>1. CASE n = Latest + 1 BY <2>1, <2>4, <2>5, <2>6, <3>3, <4>1
      <4>2. CASE n \in DOMAIN versions
        BY <2>5, <2>6, <3>1, <3>3, <4>2 DEF IInv, VersionsInv, ApprovalIsAVersion
      <4> QED BY <2>5, <4>1, <4>2
    <3> QED BY <3>2, <3>3 DEF ApprovalIsAVersion
  <2>11. v.anchor = Current.anchor BY <2>1, <2>4, <2>5, <2>7 DEF Current
  <2>12. Len(diffs') <= MaxDiffs BY <2>6 DEF IInv, TypeOK
  <2> QED BY <1>2, <2>1, <2>3, <2>6, <2>8, <2>9, <2>10, <2>11, <2>12, AppendKeeps
<1> QED BY <1>1, <1>2 DEF CommitApproval, Appended

(* A version that no diff has made leaves the approvals as they are.       *)
LEMMA PlainKeeps ==
  ASSUME IInv, NEW r \in Requests, tx[r].pc = "save", tx[r].op # "reject",
         NEW v \in Version, v.diff = 0, v.by # "revision", versions' = Append(versions, v),
         Ends(r), UNCHANGED <<line, diffs, upstream>>
  PROVE  IInv'
<1>1. /\ Latest \in Nat /\ Latest' = Latest + 1 /\ DOMAIN versions = 1..Latest
      /\ DOMAIN versions' = 1..Latest + 1 /\ versions'[Latest + 1] = v
      /\ \A n \in DOMAIN versions : versions'[n] = versions[n]
  BY Appends
<1>2. \A d \in DOMAIN diffs : diffs[d].base \in DOMAIN versions
                            /\ diffs[d].anchor = versions[diffs[d].base].anchor
  BY DEF IInv, VersionsInv, Anchored
<1>3. Anchored' BY <1>1, <1>2 DEF Anchored
<1>4. Applied' BY <1>1, <1>2 DEF IInv, VersionsInv, Applied
<1>5. ApprovalIsAVersion'
  <2>1. ASSUME NEW d \in DOMAIN diffs, diffs[d].status = "APPROVED", NEW n \in DOMAIN versions'
        PROVE  versions'[n].diff = d <=> n = diffs[d].base + 1
    <3>1. CASE n = Latest + 1
      <4>1. diffs[d].base < Latest BY <2>1 DEF IInv, VersionsInv, Applied
      <4>2. d # 0 BY CurrentType DEF IInv
      <4> QED BY <1>1, <1>2, <3>1, <4>1, <4>2
    <3>2. CASE n \in DOMAIN versions
      BY <1>1, <2>1, <3>2 DEF IInv, VersionsInv, ApprovalIsAVersion
    <3> QED BY <1>1, <3>1, <3>2
  <2>2. \A n \in DOMAIN versions' : versions'[n].diff # 0 => n \in DOMAIN versions
    BY <1>1
  <2> QED BY <1>1, <2>1, <2>2 DEF IInv, VersionsInv, ApprovalIsAVersion
<1>6. DiffsGrow /\ diffs' \in Seq(Diff) /\ Len(diffs') <= MaxDiffs
  BY DEF DiffsGrow, IInv, TypeOK
<1>7. \A n : Pending(n)' => Pending(n) BY DEF Pending
<1> QED BY <1>3, <1>4, <1>5, <1>6, <1>7, AppendKeeps

LEMMA RealignmentKeeps ==
  ASSUME IInv, NEW r \in Requests, CommitRealignment(r)
  PROVE  IInv'
<1> DEFINE t == tx[r]
           v == [content |-> versions[t.row].content, anchor |-> t.anchor, diff |-> 0,
                 by |-> "realignment"]
<1>1. /\ t.pc = "save" /\ t.op = "realign" /\ versions' = Append(versions, v)
      /\ Ends(r) /\ UNCHANGED <<line, diffs, upstream>>
  BY DEF CommitRealignment, Appended
<1>2. t.anchor \in 1..MaxUpstream /\ t.row = Latest
  BY <1>1 DEF IInv, RequestsInv, Knows, Holds
<1>3. versions[t.row].content \in SUBSET Changes
  BY <1>2, CurrentType DEF IInv, Version
<1>4. v \in Version BY <1>2, <1>3, Bounds DEF Version
<1>5. v.diff = 0 /\ v.by # "revision" OBVIOUS
<1> HIDE DEF v
<1> QED BY <1>1, <1>4, <1>5, PlainKeeps

LEMMA RegenerationKeeps ==
  ASSUME IInv, NEW r \in Requests, CommitRegeneration(r)
  PROVE  IInv'
<1> DEFINE t == tx[r]
           v == [content |-> {}, anchor |-> t.anchor, diff |-> 0, by |-> "generation"]
<1>1. /\ t.pc = "save" /\ t.op = "regenerate" /\ versions' = Append(versions, v)
      /\ Ends(r) /\ UNCHANGED <<line, diffs, upstream>>
  BY DEF CommitRegeneration, Appended
<1>2. t.anchor \in 1..MaxUpstream BY <1>1 DEF IInv, RequestsInv, Knows
<1>3. v \in Version BY <1>2, Bounds DEF Version
<1>4. v.diff = 0 /\ v.by # "revision" OBVIOUS
<1> HIDE DEF v
<1> QED BY <1>1, <1>3, <1>4, PlainKeeps

LEMMA RestoreKeeps ==
  ASSUME IInv, NEW r \in Requests, CommitRestore(r)
  PROVE  IInv'
<1> DEFINE t == tx[r]
           m == Len(diffs) + 1
           e == [base |-> t.base, anchor |-> t.anchor, status |-> "APPROVED",
                 content |-> t.content, by |-> "owner"]
           v == [content |-> t.content, anchor |-> t.anchor, diff |-> m, by |-> "revision"]
<1>1. /\ t.pc = "save" /\ t.op = "restore" /\ versions' = Append(versions, v)
      /\ diffs' = Append(diffs, e) /\ Len(diffs) < MaxDiffs
      /\ Ends(r) /\ UNCHANGED <<line, upstream>>
  BY DEF CommitRestore, Appended
<1>2. /\ t.anchor \in 1..MaxUpstream /\ t.base = Latest
      /\ t.anchor = versions[Latest].anchor /\ t.base \in DOMAIN versions
  BY <1>1 DEF IInv, RequestsInv, Knows, Holds
<1>3. t \in Tx /\ Latest \in 1..MaxVersions /\ Len(diffs) \in Nat /\ DOMAIN diffs = 1..Len(diffs)
  BY CurrentType DEF IInv, TypeOK
<1>4. e \in Diff /\ v \in Version
  <2>1. t.content \in SUBSET Changes BY <1>3, FieldsOf
  <2>2. m \in 0..MaxDiffs BY <1>1, <1>3, Bounds
  <2> QED BY <1>2, <1>3, <2>1, <2>2 DEF Diff, Version
<1>5. /\ e.base = Latest /\ e.anchor = t.anchor /\ e.status = "APPROVED" /\ e.content = t.content
      /\ v.content = t.content /\ v.anchor = t.anchor /\ v.diff = m /\ v.by = "revision"
  BY <1>2
<1> HIDE DEF e, v
<1>6. /\ Latest \in Nat /\ Latest \in DOMAIN versions
      /\ Latest' = Latest + 1 /\ DOMAIN versions = 1..Latest
      /\ DOMAIN versions' = 1..Latest + 1 /\ versions'[Latest + 1] = v
      /\ \A n \in DOMAIN versions : versions'[n] = versions[n]
  BY <1>1, <1>4, Appends
<1>7. /\ diffs' \in Seq(Diff) /\ Len(diffs') = m /\ Len(diffs') <= MaxDiffs
      /\ DOMAIN diffs' = 1..m /\ diffs'[m] = e
      /\ \A d \in DOMAIN diffs : diffs'[d] = diffs[d]
      /\ DiffsGrow
  BY <1>1, <1>4, StoredDiffs
<1>8. \A n : Pending(n)' => Pending(n)
  BY <1>3, <1>5, <1>7 DEF Pending
<1>9. \A d \in DOMAIN diffs : diffs[d].base \in DOMAIN versions
                            /\ diffs[d].anchor = versions[diffs[d].base].anchor
  BY DEF IInv, VersionsInv, Anchored
<1>10. DOMAIN diffs' = DOMAIN diffs \union {m} /\ m \notin DOMAIN diffs /\ m # 0
  BY <1>3, <1>7
<1>11. DOMAIN versions' = DOMAIN versions \union {Latest + 1} /\ Latest + 1 \notin DOMAIN versions
  BY <1>6
<1> HIDE DEF m
<1>12. Anchored'
  <2>1. ASSUME NEW d \in DOMAIN diffs'
        PROVE  diffs'[d].base \in DOMAIN versions'
               /\ diffs'[d].anchor = versions'[diffs'[d].base].anchor
    <3>1. CASE d = m BY <1>2, <1>5, <1>6, <1>7, <1>11, <3>1
    <3>2. CASE d \in DOMAIN diffs BY <1>6, <1>7, <1>9, <1>11, <3>2
    <3> QED BY <1>10, <3>1, <3>2
  <2> QED BY <2>1 DEF Anchored
<1>13. Applied'
  <2>1. ASSUME NEW d \in DOMAIN diffs', diffs'[d].status = "APPROVED"
        PROVE  diffs'[d].base < Latest'
    <3>1. CASE d = m BY <1>5, <1>6, <1>7, <3>1
    <3>2. CASE d \in DOMAIN diffs
      <4>1. diffs[d].base < Latest BY <1>7, <2>1, <3>2 DEF IInv, VersionsInv, Applied
      <4> QED BY <1>6, <1>7, <1>9, <3>2, <4>1
    <3> QED BY <1>10, <3>1, <3>2
  <2> QED BY <2>1 DEF Applied
<1>14. ApprovalIsAVersion'
  <2>1. \A n \in DOMAIN versions : versions[n].diff # m
    BY <1>10 DEF IInv, VersionsInv, ApprovalIsAVersion
  <2>2. ASSUME NEW d \in DOMAIN diffs', diffs'[d].status = "APPROVED", NEW n \in DOMAIN versions'
        PROVE  versions'[n].diff = d <=> n = diffs'[d].base + 1
    <3>1. CASE d = m BY <1>5, <1>6, <1>7, <1>11, <2>1, <3>1
    <3>2. CASE d # m /\ n = Latest + 1
      <4>1. d \in DOMAIN diffs /\ diffs[d].base < Latest
        BY <1>7, <1>10, <2>2, <3>2 DEF IInv, VersionsInv, Applied
      <4> QED BY <1>5, <1>6, <1>7, <1>9, <3>2, <4>1
    <3>3. CASE d # m /\ n \in DOMAIN versions
      <4>1. /\ d \in DOMAIN diffs /\ diffs'[d] = diffs[d] /\ versions'[n] = versions[n]
            /\ diffs[d].status = "APPROVED"
        BY <1>6, <1>7, <1>10, <2>2, <3>3
      <4>2. versions[n].diff = d <=> n = diffs[d].base + 1
        BY <3>3, <4>1 DEF IInv, VersionsInv, ApprovalIsAVersion
      <4> QED BY <4>1, <4>2
    <3> QED BY <1>11, <3>1, <3>2, <3>3
  <2>3. ASSUME NEW n \in DOMAIN versions', versions'[n].diff # 0, NEW d, d = versions'[n].diff
        PROVE  /\ d \in DOMAIN diffs' /\ diffs'[d].status = "APPROVED"
               /\ diffs'[d].base + 1 = n
               /\ diffs'[d].content = versions'[n].content
               /\ diffs'[d].anchor = versions'[n].anchor
    <3>1. CASE n = Latest + 1 BY <1>5, <1>6, <1>7, <1>10, <2>3, <3>1
    <3>2. CASE n \in DOMAIN versions
      <4>1. versions'[n] = versions[n] /\ versions[n].diff # 0 /\ d = versions[n].diff
        BY <1>6, <2>3, <3>2
      <4>2. /\ d \in DOMAIN diffs /\ diffs[d].status = "APPROVED" /\ diffs[d].base + 1 = n
            /\ diffs[d].content = versions[n].content /\ diffs[d].anchor = versions[n].anchor
        BY <3>2, <4>1 DEF IInv, VersionsInv, ApprovalIsAVersion
      <4>3. diffs'[d] = diffs[d] /\ d \in DOMAIN diffs' BY <1>7, <1>10, <4>2
      <4> QED BY <4>1, <4>2, <4>3
    <3> QED BY <1>11, <3>1, <3>2
  <2> QED BY <2>2, <2>3 DEF ApprovalIsAVersion
<1>15. v.anchor = Current.anchor BY <1>2, <1>5 DEF Current
<1> QED BY <1>1, <1>4, <1>7, <1>8, <1>12, <1>13, <1>14, <1>15, AppendKeeps

-----------------------------------------------------------------------------
(* The whole.                                                              *)

LEMMA InitInv == Init => IInv
<1> SUFFICES ASSUME Init PROVE IInv OBVIOUS
<1> DEFINE first == [content |-> {}, anchor |-> 1, diff |-> 0, by |-> "generation"]
<1>1. /\ first \in Version /\ first.diff = 0 /\ first.by = "generation"
  BY Bounds DEF Version
<1> HIDE DEF first
<1>2. /\ versions = <<first>> /\ versions \in Seq(Version) /\ Len(versions) = 1
      /\ DOMAIN versions = {1} /\ versions[1] = first
      /\ diffs = <<>> /\ diffs \in Seq(Diff) /\ Len(diffs) = 0 /\ DOMAIN diffs = {}
  BY <1>1 DEF Init, first
<1>3. TypeOK
  <2>1. /\ tx \in [Requests -> Tx] /\ locked \in [Requests -> 0..MaxVersions]
        /\ \A r \in Requests : locked[r] = 0
    BY IdleType, Bounds DEF Init
  <2>2. line \in Lines /\ upstream \in 1..MaxUpstream BY Bounds DEF Init
  <2> QED BY <1>2, <2>1, <2>2, Bounds DEF TypeOK
<1>4. RequestsInv
  <2>1. \A r \in Requests : locked[r] = 0 /\ tx[r].op = "none" /\ tx[r].pc = "idle"
    BY DEF Init, Idle
  <2> QED BY <2>1 DEF RequestsInv, LockedOnce, Knows, Holds, Spares
<1>5. VersionsInv /\ FirstGenerated
  BY <1>1, <1>2 DEF VersionsInv, Anchored, Applied, ApprovalIsAVersion, RevisionsKeepTheAnchor,
                    FirstGenerated
<1> QED BY <1>3, <1>4, <1>5 DEF IInv

LEMMA NextInv == IInv /\ [Next]_vars => IInv'
<1> SUFFICES ASSUME IInv, [Next]_vars PROVE IInv' OBVIOUS
<1>1. CASE UNCHANGED vars
  <2>1. /\ UNCHANGED <<line, versions, diffs, upstream, tx, locked>>
        /\ Latest' = Latest /\ \A n : Pending(n)' = Pending(n)
    BY <1>1 DEF vars, Latest, Pending
  <2>2. TypeOK' BY <2>1 DEF IInv, TypeOK
  <2>3. RequestsInv'
    BY <2>1 DEF IInv, RequestsInv, LockedOnce, Knows, Holds, Spares
  <2>4. VersionsInv' /\ FirstGenerated'
    BY <2>1 DEF IInv, VersionsInv, Anchored, Applied, ApprovalIsAVersion, RevisionsKeepTheAnchor,
                FirstGenerated
  <2> QED BY <2>2, <2>3, <2>4 DEF IInv
<1>2. CASE UpstreamMoves BY <1>2, UpstreamKeeps
<1>3. ASSUME NEW r \in Requests, Step(r)
      PROVE  IInv'
  <2>1. CASE Starts(r) BY <2>1, StartsKeep
  <2>2. CASE Begs(r) \/ LockRow(r) BY <2>2, MovesKeep
  <2>3. CASE CreateDiff(r) BY <2>3, CreateKeeps
  <2>4. CASE CommitApproval(r) BY <2>4, ApprovalKeeps
  <2>5. CASE CommitRejection(r) BY <2>5, RejectionKeeps
  <2>6. CASE CommitRealignment(r) BY <2>6, RealignmentKeeps
  <2>7. CASE CommitRegeneration(r) BY <2>7, RegenerationKeeps
  <2>8. CASE CommitRestore(r) BY <2>8, RestoreKeeps
  <2>9. CASE Abandon(r) BY <2>9, RefusedKeeps DEF Abandon
  <2> QED
    BY <1>3, <2>1, <2>2, <2>3, <2>4, <2>5, <2>6, <2>7, <2>8, <2>9 DEF Step, Starts, Begs
<1> QED BY <1>1, <1>2, <1>3 DEF Next

LEMMA Inductive == Spec => []IInv
BY InitInv, NextInv, PTL DEF Spec

-----------------------------------------------------------------------------
(* Theorems.                                                               *)

(* Whatever interleaves, versions, diffs and requests have their shape, the*)
(* bounds on their numbers hold, and a row is held for update only by a    *)
(* request that is about to commit on it.                                  *)
THEOREM TypeCorrect == Spec => []TypeOK
<1>1. IInv => TypeOK BY DEF IInv
<1> QED BY <1>1, Inductive, PTL

(* An approved diff and the version after its base are one, for any number *)
(* of requests that race with the decision (decide_revision).              *)
THEOREM ApprovalsAreVersions == Spec => []ApprovalIsAVersion
<1>1. IInv => ApprovalIsAVersion BY DEF IInv, VersionsInv
<1> QED BY <1>1, Inductive, PTL

(* A version made by a revision cites what the version before it cites,    *)
(* also with re-anchorings between the proposal and the decision.          *)
THEOREM AnchorsAreKept == Spec => []RevisionsKeepTheAnchor
<1>1. IInv => RevisionsKeepTheAnchor BY DEF IInv, VersionsInv
<1> QED BY <1>1, Inductive, PTL

(* Every step keeps the diffs that are decided: of decisions that race,    *)
(* one stands (save_decision).                                             *)
THEOREM DecisionsStand == Spec => DecidedOnce
<1> DEFINE Keeps == \A d \in DOMAIN diffs : diffs[d].status # "PROPOSED" => diffs'[d] = diffs[d]
<1>1. ASSUME IInv, Next
      PROVE  Keeps
  <2>1. CASE diffs' = diffs BY <2>1
  <2>2. ASSUME NEW r \in Requests, CreateDiff(r) \/ CommitRestore(r)
        PROVE  Keeps
    <3>1. diffs' = diffs \/ \E e : diffs' = Append(diffs, e)
      BY <2>2 DEF CreateDiff, CommitRestore, Refused
    <3> QED BY <1>1, <3>1 DEF IInv, TypeOK
  <2>3. ASSUME NEW r \in Requests, CommitApproval(r) \/ CommitRejection(r)
        PROVE  Keeps
    <3> DEFINE e == tx[r].diff
    <3>1. /\ e \in DOMAIN diffs
          /\ \/ diffs' = diffs
             \/ /\ StillProposed(e)
                /\ \E status \in {"APPROVED", "REJECTED"} :
                     diffs' = [diffs EXCEPT ![e].status = status]
      BY <1>1, <2>3 DEF CommitApproval, CommitRejection, Refused, IInv, RequestsInv, Knows
    <3> QED BY <1>1, <3>1, DecidedDiffs DEF DiffsGrow
  <2>4. ASSUME NEW r \in Requests, Step(r)
        PROVE  diffs' = diffs \/ CreateDiff(r) \/ CommitRestore(r)
               \/ CommitApproval(r) \/ CommitRejection(r)
    <3>1. CASE Starts(r)
      BY <3>1, StartsWith, <1>1 DEF IInv
    <3>2. CASE Begs(r) \/ LockRow(r)
      BY <3>2, Moved, <1>1 DEF IInv, Asking, Locking, GoesOn, Refused
    <3>3. CASE CommitRealignment(r) \/ CommitRegeneration(r) \/ Abandon(r)
      BY <3>3 DEF CommitRealignment, CommitRegeneration, Abandon, Refused
    <3> QED BY <2>4, <3>1, <3>2, <3>3 DEF Step, Starts, Begs
  <2>5. CASE UpstreamMoves BY <2>1, <2>5 DEF UpstreamMoves
  <2> QED BY <1>1, <2>1, <2>2, <2>3, <2>4, <2>5 DEF Next
<1>2. ASSUME IInv, [Next]_vars
      PROVE  [Keeps]_vars
  BY <1>1, <1>2
<1> QED BY <1>2, Inductive, PTL DEF Spec, DecidedOnce

(* Every step that appends a re-anchored version finds no proposal waiting *)
(* on the version it replaces, whatever has been stored since the          *)
(* re-anchoring looked.                                                    *)
THEOREM ProposalsAreSpared == Spec => RealignmentSparesProposals
<1> DEFINE Spared == Len(versions') > Len(versions)
                     /\ versions'[Len(versions')].by = "realignment" => ~ Pending(Latest)
<1>1. ASSUME IInv, Next
      PROVE  Spared
  <2>1. CASE versions' = versions
    <3>1. Len(versions) \in Nat BY <1>1, CurrentType DEF IInv, Latest
    <3> QED BY <2>1, <3>1
  <2>2. ASSUME NEW r \in Requests, CommitRealignment(r)
        PROVE  ~ Pending(Latest)
    BY <1>1, <2>2 DEF CommitRealignment, IInv, RequestsInv, Spares
  <2>3. ASSUME NEW r \in Requests, CommitApproval(r) \/ CommitRegeneration(r) \/ CommitRestore(r)
        PROVE  Spared
    <3>1. versions' = versions
          \/ \E v : versions' = Append(versions, v) /\ v.by # "realignment"
      BY <2>3 DEF CommitApproval, CommitRegeneration, CommitRestore, Refused, Appended
    <3> QED BY <1>1, <2>1, <3>1 DEF IInv, TypeOK
  <2>4. ASSUME NEW r \in Requests, Step(r)
        PROVE  versions' = versions \/ CommitRealignment(r) \/ CommitApproval(r)
               \/ CommitRegeneration(r) \/ CommitRestore(r)
    <3>1. CASE Starts(r)
      BY <3>1, StartsWith, <1>1 DEF IInv
    <3>2. CASE Begs(r) \/ LockRow(r)
      BY <3>2, Moved, <1>1 DEF IInv, Asking, Locking, GoesOn, Refused
    <3>3. CASE CreateDiff(r) \/ CommitRejection(r) \/ Abandon(r)
      BY <3>3 DEF CreateDiff, CommitRejection, Abandon, Refused
    <3> QED BY <2>4, <3>1, <3>2, <3>3 DEF Step, Starts, Begs
  <2>5. CASE UpstreamMoves BY <2>1, <2>5 DEF UpstreamMoves
  <2> QED BY <1>1, <2>1, <2>2, <2>3, <2>4, <2>5 DEF Next
<1>2. ASSUME IInv, [Next]_vars
      PROVE  [Spared]_vars
  BY <1>1, <1>2
<1> QED BY <1>2, Inductive, PTL DEF Spec, RealignmentSparesProposals
=============================================================================

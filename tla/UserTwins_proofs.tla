--------------------------- MODULE UserTwins_proofs ---------------------------
(***************************************************************************)
(* Theorems about UserTwins for every set of twins, sources and requests   *)
(* and any bounds.                                                         *)
(***************************************************************************)
EXTENDS UserTwins, TLAPS

(* A profile has no more versions than there were snapshots.               *)
VersionsBelow == \A t \in Twins : snapshot.twins[t].version <= snapshot.number

(* What an owner may still approve cites nothing the twin does not cite.   *)
DiffsBelow ==
  \A d \in diffs :
    /\ d.base <= snapshot.number
    /\ d.base = snapshot.number => d.cites \subseteq snapshot.twins[d.twin].cites

(* Every citation is on record, and what is on record is active.           *)
Cited == \A t \in Twins : \A s \in snapshot.twins[t].cites : <<s, t>> \in used

InUse == \A c \in used : sources[c[1]].active

Typed == TypeOK /\ VersionsBelow

LEMMA Bounds ==
  /\ LearnedLimit \in Nat \ {0}
  /\ MaxSnapshots \in Nat \ {0}
  /\ MaxChanges \in Nat \ {0}
BY TwinsAssumption

(* A snapshot that replaces the current one.                               *)
LEMMA Appended ==
  ASSUME Typed, NEW twins \in SUBSET Twins, NEW cites \in [twins -> SUBSET Sources],
         NEW ins \in Inputs, Append(Rewritten(cites), ins)
  PROVE  /\ snapshot' \in [number : 1..MaxSnapshots, twins : [Twins -> Profile], inputs : Inputs]
         /\ snapshot'.number = snapshot.number + 1
         /\ VersionsBelow'
         /\ \A t \in twins : /\ snapshot'.twins[t].cites = cites[t]
                             /\ snapshot'.twins[t].version = snapshot.twins[t].version + 1
         /\ \A t \in Twins \ twins : snapshot'.twins[t] = snapshot.twins[t]
<1>1. /\ snapshot.number \in 1..MaxSnapshots
      /\ snapshot.number < MaxSnapshots
      /\ snapshot.twins \in [Twins -> Profile]
      /\ MaxSnapshots \in Nat
  BY Bounds DEF Typed, TypeOK, Append
<1>2. snapshot' = [number |-> snapshot.number + 1, twins |-> Rewritten(cites), inputs |-> ins]
  BY DEF Append
<1>3. ASSUME NEW t \in Twins
      PROVE  /\ Rewritten(cites)[t] \in Profile
             /\ Rewritten(cites)[t].version <= snapshot.number + 1
             /\ t \in twins => /\ Rewritten(cites)[t].cites = cites[t]
                               /\ Rewritten(cites)[t].version = snapshot.twins[t].version + 1
             /\ t \notin twins => Rewritten(cites)[t] = snapshot.twins[t]
  <2>1. /\ snapshot.twins[t] \in Profile
        /\ snapshot.twins[t].version \in 1..MaxSnapshots
        /\ snapshot.twins[t].version <= snapshot.number
    BY <1>1 DEF Typed, VersionsBelow, Profile
  <2>2. snapshot.twins[t].version + 1 \in 1..MaxSnapshots
    BY <1>1, <2>1
  <2>3. CASE t \in twins
    <3>1. Rewritten(cites)[t] = [version |-> snapshot.twins[t].version + 1, cites |-> cites[t]]
      BY <2>3 DEF Rewritten
    <3> QED BY <1>1, <2>1, <2>2, <2>3, <3>1 DEF Profile
  <2>4. CASE t \notin twins
    <3>1. Rewritten(cites)[t] = snapshot.twins[t]
      BY <2>4 DEF Rewritten
    <3> QED BY <1>1, <2>1, <2>4, <3>1
  <2> QED BY <2>3, <2>4
<1>4. Rewritten(cites) \in [Twins -> Profile]
  BY <1>3 DEF Rewritten
<1>5. snapshot.number + 1 \in 1..MaxSnapshots
  BY <1>1
<1> HIDE DEF Rewritten
<1> QED BY <1>2, <1>3, <1>4, <1>5 DEF VersionsBelow

LEMMA RequestTypes ==
  ASSUME TypeOK, NEW r \in Requests
  PROVE  /\ tx[r].op = "update" => tx[r].update \in Update
         /\ tx[r].op = "regenerate" => tx[r].inputs \in Inputs
BY DEF TypeOK, Tx, Idle

LEMMA EndsType ==
  ASSUME TypeOK, NEW r \in Requests, Ends(r)
  PROVE  tx' \in [Requests -> Tx]
BY DEF TypeOK, Ends, Tx

LEMMA LearnsType ==
  ASSUME TypeOK, NEW t \in Twins, NEW n \in Int, Learns(t, n), learned[t].active + n >= 0
  PROVE  /\ learned' \in [Twins -> [development : Nat, active : 0..LearnedLimit]]
         /\ \A u \in Twins \ {t} : learned'[u] = learned[u]
<1> DEFINE new == [development |-> learned[t].development + 1, active |-> learned[t].active + n]
<1>1. learned[t] \in [development : Nat, active : 0..LearnedLimit] /\ LearnedLimit \in Nat
  BY Bounds DEF TypeOK
<1>2. learned[t].development + 1 \in Nat /\ learned[t].active + n \in 0..LearnedLimit
  BY <1>1 DEF Learns
<1>3. new \in [development : Nat, active : 0..LearnedLimit]
  BY <1>2
<1>4. learned' = [learned EXCEPT ![t] = new]
  BY DEF Learns
<1> HIDE DEF new
<1> QED BY <1>3, <1>4 DEF TypeOK

-----------------------------------------------------------------------------

(***************************************************************************)
(* Types.                                                                  *)
(***************************************************************************)

LEMMA InitTyped == Init => Typed
<1> SUFFICES ASSUME Init PROVE Typed
  OBVIOUS
<1>1. 1 \in 1..MaxSnapshots /\ 0 \in 0..MaxChanges /\ 1 \in 0..LearnedLimit
  BY Bounds
<1>2. [t \in Twins |-> [version |-> 1, cites |-> {}]] \in [Twins -> Profile]
  BY <1>1 DEF Profile
<1>3. [context |-> 0, archetypes |-> 0] \in Inputs
  BY <1>1 DEF Inputs
<1>4. snapshot \in [number : 1..MaxSnapshots, twins : [Twins -> Profile], inputs : Inputs]
  BY <1>1, <1>2, <1>3 DEF Init
<1>5. learned \in [Twins -> [development : Nat, active : 0..LearnedLimit]]
  BY <1>1 DEF Init
<1> QED BY <1>1, <1>3, <1>4, <1>5 DEF Init, Typed, TypeOK, VersionsBelow, Tx, Idle

(* Steps that leave the snapshot alone.                                    *)
LEMMA SmallStepsTyped ==
  ASSUME Typed,
         \/ \E t \in Twins : ProposeRevision(t) \/ Learn(t) \/ Unlearn(t)
         \/ \E d \in diffs : RejectRevision(d)
         \/ \E s \in Sources : AddSource(s) \/ ReviseSource(s)
         \/ \E r \in Requests : StoreUpdate(r) \/ GiveUp(r)
         \/ \E u \in updates : RejectUpdate(u) \/ \E n \in 1..LearnedLimit : ApproveUpdate(u, n)
         \/ ApproveSnapshot \/ ContextMoves \/ EditArchetypes
         \/ UNCHANGED vars
  PROVE  Typed'
<1> USE DEF Typed
<1>0. /\ MaxSnapshots \in Nat /\ LearnedLimit \in Nat /\ MaxChanges \in Nat
      /\ snapshot.number \in 1..MaxSnapshots
      /\ \A t \in Twins : snapshot.twins[t].cites \subseteq Sources
  BY Bounds DEF TypeOK, Profile
<1>1. ASSUME NEW t \in Twins, ProposeRevision(t) PROVE Typed'
  <2>1. PICK cites \in SUBSET snapshot.twins[t].cites :
          diffs' = diffs \union {[base |-> snapshot.number, twin |-> t, cites |-> cites]}
    BY <1>1 DEF ProposeRevision
  <2>2. [base |-> snapshot.number, twin |-> t, cites |-> cites] \in Diff
    BY <1>0, <2>1 DEF Diff
  <2>3. diffs' \subseteq Diff
    BY <2>1, <2>2 DEF TypeOK
  <2> QED BY <1>1, <2>3 DEF ProposeRevision, twinVars, TypeOK, VersionsBelow
<1>2. ASSUME NEW t \in Twins, Learn(t) \/ Unlearn(t) PROVE Typed'
  <2>1. learned[t].active \in 0..LearnedLimit
    BY DEF TypeOK
  <2>2. CASE Learn(t)
    <3>1. learned' \in [Twins -> [development : Nat, active : 0..LearnedLimit]]
      BY <1>0, <2>1, <2>2, LearnsType DEF Learn
    <3> QED BY <2>2, <3>1 DEF Learn, twinVars, TypeOK, VersionsBelow
  <2>3. CASE Unlearn(t)
    <3>1. learned' \in [Twins -> [development : Nat, active : 0..LearnedLimit]]
      BY <1>0, <2>1, <2>3, LearnsType DEF Unlearn
    <3> QED BY <2>3, <3>1 DEF Unlearn, twinVars, TypeOK, VersionsBelow
  <2> QED BY <1>2, <2>2, <2>3
<1>3. ASSUME NEW d \in diffs, RejectRevision(d) PROVE Typed'
  BY <1>3 DEF RejectRevision, twinVars, TypeOK, VersionsBelow
<1>4. ASSUME NEW s \in Sources, AddSource(s) \/ ReviseSource(s) PROVE Typed'
  <2>1. sources' \in [Sources -> [version : Nat, active : BOOLEAN]]
    <3>1. CASE AddSource(s)
      BY <3>1 DEF AddSource, TypeOK
    <3>2. CASE ReviseSource(s)
      <4>1. sources[s] \in [version : Nat, active : BOOLEAN]
        BY DEF TypeOK
      <4>2. [sources[s] EXCEPT !.version = @ + 1] \in [version : Nat, active : BOOLEAN]
        BY <4>1
      <4> QED BY <3>2, <4>2 DEF ReviseSource, TypeOK
    <3> QED BY <1>4, <3>1, <3>2
  <2> QED BY <1>4, <2>1 DEF AddSource, ReviseSource, twinVars, TypeOK, VersionsBelow
<1>5. ASSUME NEW r \in Requests, StoreUpdate(r) \/ GiveUp(r) PROVE Typed'
  <2>1. tx' \in [Requests -> Tx]
    BY <1>5, EndsType DEF StoreUpdate, GiveUp
  <2>2. updates' \subseteq Update
    BY <1>5, RequestTypes DEF StoreUpdate, GiveUp, TypeOK
  <2> QED BY <1>5, <2>1, <2>2 DEF StoreUpdate, GiveUp, twinVars, TypeOK, VersionsBelow
<1>6. ASSUME NEW u \in updates, RejectUpdate(u) PROVE Typed'
  BY <1>6 DEF RejectUpdate, twinVars, TypeOK, VersionsBelow
<1>7. ASSUME NEW u \in updates, NEW n \in 1..LearnedLimit, ApproveUpdate(u, n) PROVE Typed'
  <2>1. u.twin \in Twins
    BY DEF TypeOK, Update
  <2>2. n \in Int /\ learned[u.twin].active + n >= 0
    BY <1>0, <2>1 DEF TypeOK
  <2>3. learned' \in [Twins -> [development : Nat, active : 0..LearnedLimit]]
    BY <1>7, <2>1, <2>2, LearnsType DEF ApproveUpdate
  <2> QED BY <1>7, <2>3 DEF ApproveUpdate, twinVars, TypeOK, VersionsBelow
<1>8. ASSUME ApproveSnapshot PROVE Typed'
  BY <1>0, <1>8 DEF ApproveSnapshot, TypeOK, VersionsBelow
<1>9. ASSUME ContextMoves \/ EditArchetypes PROVE Typed'
  <2>1. inputs \in Inputs /\ inputs.context + inputs.archetypes < MaxChanges
    BY <1>9 DEF ContextMoves, EditArchetypes, MayChange, TypeOK
  <2>2. inputs.context + 1 \in 0..MaxChanges /\ inputs.archetypes + 1 \in 0..MaxChanges
    BY <1>0, <2>1 DEF Inputs
  <2>3. inputs' \in Inputs
    BY <1>9, <2>1, <2>2 DEF ContextMoves, EditArchetypes, Inputs
  <2> QED BY <1>9, <2>3 DEF ContextMoves, EditArchetypes, twinVars, TypeOK, VersionsBelow
<1>10. ASSUME UNCHANGED vars PROVE Typed'
  BY <1>10 DEF vars, twinVars, TypeOK, VersionsBelow
<1> QED BY <1>1, <1>2, <1>3, <1>4, <1>5, <1>6, <1>7, <1>8, <1>9, <1>10

(* Requests that begin to wait for the model.                              *)
LEMMA StartsTyped ==
  ASSUME Typed, NEW r \in Requests,
         \/ \E t \in Twins, s \in Sources \union {NoSource} : StartUpdate(r, t, s)
         \/ StartRegeneration(r)
  PROVE  Typed'
<1> USE DEF Typed
<1>1. ASSUME NEW t \in Twins, NEW s \in Sources \union {NoSource}, StartUpdate(r, t, s)
      PROVE  Typed'
  <2> DEFINE update == [twin |-> t, source |-> s,
                        evidence |-> IF s = NoSource THEN 0 ELSE sources[s].version,
                        profile |-> IF s = NoSource THEN 0 ELSE snapshot.twins[t].version,
                        development |-> learned[t].development]
  <2>1. /\ learned[t].development \in Nat
        /\ snapshot.twins[t].version \in Nat
        /\ s # NoSource => sources[s].version \in Nat
    BY Bounds DEF TypeOK, Profile
  <2>2. update \in Update
    BY <2>1 DEF Update
  <2>3. tx' = [tx EXCEPT ![r] = [op |-> "update", update |-> update]]
    BY <1>1 DEF StartUpdate
  <2> HIDE DEF update
  <2>4. tx' \in [Requests -> Tx]
    BY <2>2, <2>3 DEF TypeOK, Tx
  <2> QED BY <1>1, <2>4 DEF StartUpdate, twinVars, TypeOK, VersionsBelow
<1>2. ASSUME StartRegeneration(r) PROVE Typed'
  <2>1. snapshot.number \in 1..MaxSnapshots /\ inputs \in Inputs
    BY DEF TypeOK
  <2>2. tx' \in [Requests -> Tx]
    BY <1>2, <2>1 DEF StartRegeneration, TypeOK, Tx
  <2> QED BY <1>2, <2>2 DEF StartRegeneration, twinVars, TypeOK, VersionsBelow
<1> QED BY <1>1, <1>2

(* What the new versions of the twins cite, step by step.                  *)
Uncited(s) == [t \in Affected(s) |-> snapshot.twins[t].cites \ {s}]

LEMMA ReplacedTwins ==
  ASSUME Typed
  PROVE  /\ \A d \in diffs : /\ d.twin \in Twins
                             /\ [t \in {d.twin} |-> d.cites] \in [{d.twin} -> SUBSET Sources]
         /\ \A s : /\ Affected(s) \in SUBSET Twins
                   /\ Uncited(s) \in [Affected(s) -> SUBSET Sources]
         /\ \A u \in updates :
              /\ u.twin \in Twins
              /\ u.source # NoSource =>
                   [t \in {u.twin} |-> snapshot.twins[t].cites \union {u.source}]
                     \in [{u.twin} -> SUBSET Sources]
         /\ [t \in Twins |-> snapshot.twins[t].cites] \in [Twins -> SUBSET Sources]
         /\ [t \in Twins |-> {}] \in [Twins -> SUBSET Sources]
         /\ snapshot.inputs \in Inputs /\ inputs \in Inputs
<1>1. \A t \in Twins : snapshot.twins[t].cites \in SUBSET Sources
  BY DEF Typed, TypeOK, Profile
<1>2. \A d \in diffs : d.twin \in Twins /\ d.cites \in SUBSET Sources
  BY DEF Typed, TypeOK, Diff
<1>3. \A u \in updates : u.twin \in Twins /\ u.source \in Sources \union {NoSource}
  BY DEF Typed, TypeOK, Update
<1>4. \A s : Affected(s) \in SUBSET Twins
  BY DEF Affected
<1>5. snapshot.inputs \in Inputs /\ inputs \in Inputs
  BY DEF Typed, TypeOK
<1> QED BY <1>1, <1>2, <1>3, <1>4, <1>5 DEF Uncited

(* The effect of every step that replaces the snapshot.                    *)
LEMMA ApprovedRevision ==
  ASSUME Typed, NEW d \in diffs, ApproveRevision(d)
  PROVE  /\ Typed'
         /\ snapshot'.number = snapshot.number + 1
         /\ snapshot'.twins[d.twin].cites = d.cites
         /\ \A t \in Twins \ {d.twin} : snapshot'.twins[t] = snapshot.twins[t]
<1> DEFINE cites == [t \in {d.twin} |-> d.cites]
<1>1. /\ d.twin \in Twins /\ {d.twin} \in SUBSET Twins
      /\ cites \in [{d.twin} -> SUBSET Sources] /\ snapshot.inputs \in Inputs
  BY ReplacedTwins
<1>2. Append(Rewritten(cites), snapshot.inputs)
  BY DEF ApproveRevision
<1>3. cites[d.twin] = d.cites
  OBVIOUS
<1> HIDE DEF cites
<1>4. /\ snapshot' \in [number : 1..MaxSnapshots, twins : [Twins -> Profile], inputs : Inputs]
      /\ snapshot'.number = snapshot.number + 1
      /\ VersionsBelow'
      /\ \A t \in {d.twin} : snapshot'.twins[t].cites = cites[t]
      /\ \A t \in Twins \ {d.twin} : snapshot'.twins[t] = snapshot.twins[t]
  BY <1>1, <1>2, Appended
<1>5. Typed'
  BY <1>4 DEF ApproveRevision, Typed, TypeOK
<1> QED BY <1>1, <1>3, <1>4, <1>5

LEMMA RetiredSource ==
  ASSUME Typed, NEW s \in Sources, RetireSource(s)
  PROVE  /\ Typed'
         /\ snapshot'.number >= snapshot.number
         /\ Affected(s) # {} => snapshot'.number = snapshot.number + 1
         /\ \A t \in Affected(s) : snapshot'.twins[t].cites = snapshot.twins[t].cites \ {s}
         /\ \A t \in Twins \ Affected(s) : snapshot'.twins[t] = snapshot.twins[t]
<1>1. /\ Affected(s) \in SUBSET Twins /\ Uncited(s) \in [Affected(s) -> SUBSET Sources]
      /\ snapshot.inputs \in Inputs
      /\ snapshot.number \in Nat /\ MaxSnapshots \in Nat
  BY ReplacedTwins, Bounds DEF Typed, TypeOK
<1>2. /\ sources' \in [Sources -> [version : Nat, active : BOOLEAN]]
      /\ used' \subseteq Sources \X Twins
      /\ updates' \subseteq Update
  <2>1. [sources[s] EXCEPT !.active = FALSE] \in [version : Nat, active : BOOLEAN]
    BY DEF Typed, TypeOK
  <2> QED BY <2>1 DEF RetireSource, Typed, TypeOK
<1>3. CASE Affected(s) = {}
  <2>1. UNCHANGED <<snapshot, approved>>
    BY <1>3 DEF RetireSource
  <2>2. Typed'
    BY <1>2, <2>1 DEF RetireSource, Typed, TypeOK, VersionsBelow
  <2> QED BY <1>1, <1>3, <2>1, <2>2
<1>4. CASE Affected(s) # {}
  <2>1. Append(Rewritten(Uncited(s)), snapshot.inputs)
    BY <1>4 DEF RetireSource, Uncited
  <2>2. /\ snapshot' \in [number : 1..MaxSnapshots, twins : [Twins -> Profile], inputs : Inputs]
        /\ snapshot'.number = snapshot.number + 1
        /\ VersionsBelow'
        /\ \A t \in Affected(s) : snapshot'.twins[t].cites = Uncited(s)[t]
        /\ \A t \in Twins \ Affected(s) : snapshot'.twins[t] = snapshot.twins[t]
    BY <1>1, <2>1, Appended
  <2>3. approved' \in 1..MaxSnapshots
    <3>1. approved' = snapshot'.number \/ approved' = approved
      BY <1>4, <2>2 DEF RetireSource
    <3> QED BY <2>2, <3>1 DEF Typed, TypeOK
  <2>4. Typed'
    BY <1>2, <2>2, <2>3 DEF RetireSource, Typed, TypeOK
  <2> QED BY <1>1, <2>2, <2>4 DEF Uncited
<1> QED BY <1>3, <1>4

LEMMA ApprovedEvidence ==
  ASSUME Typed, NEW u \in updates, ApproveEvidence(u)
  PROVE  /\ Typed'
         /\ snapshot'.number = snapshot.number + 1
         /\ approved' = snapshot'.number
         /\ snapshot'.twins[u.twin].cites = snapshot.twins[u.twin].cites \union {u.source}
         /\ \A t \in Twins \ {u.twin} : snapshot'.twins[t] = snapshot.twins[t]
<1> DEFINE cites == [t \in {u.twin} |-> snapshot.twins[t].cites \union {u.source}]
<1>1. /\ u.twin \in Twins /\ {u.twin} \in SUBSET Twins /\ u.source \in Sources
      /\ cites \in [{u.twin} -> SUBSET Sources] /\ snapshot.inputs \in Inputs
  BY ReplacedTwins DEF ApproveEvidence, Typed, TypeOK, Update
<1>2. Append(Rewritten(cites), snapshot.inputs)
  BY DEF ApproveEvidence
<1>3. cites[u.twin] = snapshot.twins[u.twin].cites \union {u.source}
  OBVIOUS
<1> HIDE DEF cites
<1>4. /\ snapshot' \in [number : 1..MaxSnapshots, twins : [Twins -> Profile], inputs : Inputs]
      /\ snapshot'.number = snapshot.number + 1
      /\ VersionsBelow'
      /\ \A t \in {u.twin} : snapshot'.twins[t].cites = cites[t]
      /\ \A t \in Twins \ {u.twin} : snapshot'.twins[t] = snapshot.twins[t]
  BY <1>1, <1>2, Appended
<1>5. approved' = snapshot'.number /\ approved' \in 1..MaxSnapshots
  BY <1>4 DEF ApproveEvidence
<1>6. used' \subseteq Sources \X Twins
  BY <1>1 DEF ApproveEvidence, Typed, TypeOK
<1>7. Typed'
  BY <1>4, <1>5, <1>6 DEF ApproveEvidence, Typed, TypeOK
<1> QED BY <1>1, <1>3, <1>4, <1>5, <1>7

LEMMA Realigned ==
  ASSUME Typed, Realign
  PROVE  /\ Typed'
         /\ snapshot'.number = snapshot.number + 1
         /\ \A t \in Twins : snapshot'.twins[t].cites = snapshot.twins[t].cites
<1> DEFINE cites == [t \in Twins |-> snapshot.twins[t].cites]
<1>1. cites \in [Twins -> SUBSET Sources] /\ inputs \in Inputs
  BY ReplacedTwins
<1>2. Append(Rewritten(cites), inputs)
  BY DEF Realign
<1>3. \A t \in Twins : cites[t] = snapshot.twins[t].cites
  OBVIOUS
<1> HIDE DEF cites
<1>4. /\ snapshot' \in [number : 1..MaxSnapshots, twins : [Twins -> Profile], inputs : Inputs]
      /\ snapshot'.number = snapshot.number + 1
      /\ VersionsBelow'
      /\ \A t \in Twins : snapshot'.twins[t].cites = cites[t]
  BY <1>1, <1>2, Appended
<1>5. Typed'
  BY <1>4 DEF Realign, Typed, TypeOK
<1> QED BY <1>3, <1>4, <1>5

LEMMA Regenerated ==
  ASSUME Typed, NEW r \in Requests, Regenerate(r)
  PROVE  /\ Typed'
         /\ snapshot'.number = snapshot.number + 1
         /\ \A t \in Twins : snapshot'.twins[t].cites = {}
<1> DEFINE cites == [t \in Twins |-> {}]
<1>1. cites \in [Twins -> SUBSET Sources] /\ inputs \in Inputs
  BY ReplacedTwins
<1>2. Append(Rewritten(cites), inputs)
  BY DEF Regenerate
<1>3. \A t \in Twins : cites[t] = {}
  OBVIOUS
<1> HIDE DEF cites
<1>4. /\ snapshot' \in [number : 1..MaxSnapshots, twins : [Twins -> Profile], inputs : Inputs]
      /\ snapshot'.number = snapshot.number + 1
      /\ VersionsBelow'
      /\ \A t \in Twins : snapshot'.twins[t].cites = cites[t]
  BY <1>1, <1>2, Appended
<1>5. tx' \in [Requests -> Tx]
  BY EndsType DEF Typed, Regenerate
<1>6. Typed'
  BY <1>4, <1>5 DEF Regenerate, Typed, TypeOK
<1> QED BY <1>3, <1>4, <1>6

LEMMA NextTyped ==
  ASSUME Typed, [Next]_vars
  PROVE  Typed'
BY SmallStepsTyped, StartsTyped, ApprovedRevision, RetiredSource, ApprovedEvidence, Realigned,
   Regenerated DEF Next

(* Whatever is decided, withdrawn or generated, in whatever order, the     *)
(* records keep their shape: no twin outgrows the snapshots, no twin       *)
(* learns more than MAX_LEARNED_OBSERVATIONS, and what a request brings    *)
(* back from the model fits the project it is stored in.                   *)
THEOREM TypeCorrect == Spec => []TypeOK
<1>1. Typed => TypeOK
  BY DEF Typed
<1> QED BY <1>1, InitTyped, NextTyped, PTL DEF Spec

-----------------------------------------------------------------------------

(***************************************************************************)
(* Citations.                                                              *)
(***************************************************************************)

Citations == DiffsBelow /\ Cited /\ InUse

LEMMA InitCitations == Init => Citations
BY DEF Init, Citations, DiffsBelow, Cited, InUse

LEMMA NextCitations ==
  ASSUME Typed, Citations, [Next]_vars
  PROVE  Citations'
<1> USE DEF Citations
<1>0. snapshot.number \in Nat /\ \A d \in diffs : d.base \in Nat /\ d.twin \in Twins
  BY Bounds DEF Typed, TypeOK, Diff
<1>1. ASSUME NEW t \in Twins, ProposeRevision(t) PROVE Citations'
  <2>1. PICK cites \in SUBSET snapshot.twins[t].cites :
          diffs' = diffs \union {[base |-> snapshot.number, twin |-> t, cites |-> cites]}
    BY <1>1 DEF ProposeRevision
  <2>2. UNCHANGED <<snapshot, used, sources>>
    BY <1>1 DEF ProposeRevision, twinVars
  <2>3. DiffsBelow'
    BY <1>0, <2>1, <2>2 DEF DiffsBelow
  <2> QED BY <2>2, <2>3 DEF Cited, InUse
<1>2. ASSUME NEW d \in diffs, ApproveRevision(d) PROVE Citations'
  <2>1. UNCHANGED <<used, sources>> /\ diffs' = diffs \ {d} /\ d.base = snapshot.number
    BY <1>2 DEF ApproveRevision, Decidable
  <2>2. d.cites \subseteq snapshot.twins[d.twin].cites
    BY <2>1 DEF DiffsBelow
  <2>3. DiffsBelow'
    BY <1>0, <1>2, <2>1, ApprovedRevision DEF DiffsBelow
  <2>4. Cited'
    BY <1>0, <1>2, <2>1, <2>2, ApprovedRevision DEF Cited
  <2> QED BY <2>1, <2>3, <2>4 DEF InUse
<1>3. ASSUME NEW s \in Sources, RetireSource(s) PROVE Citations'
  <2>1. /\ UNCHANGED diffs /\ used' = {c \in used : c[1] # s}
        /\ sources' = [sources EXCEPT ![s].active = FALSE]
    BY <1>3 DEF RetireSource
  <2>2. used \subseteq Sources \X Twins /\ sources \in [Sources -> [version : Nat, active : BOOLEAN]]
    BY DEF Typed, TypeOK
  <2>3. InUse'
    <3> SUFFICES ASSUME NEW c \in used' PROVE sources'[c[1]].active
      BY DEF InUse
    <3>1. c \in used /\ c[1] # s /\ c[1] \in Sources
      BY <2>1, <2>2
    <3>2. sources'[c[1]] = sources[c[1]]
      BY <2>1, <2>2, <3>1
    <3> QED BY <3>1, <3>2 DEF InUse
  <2>4. Cited'
    <3> SUFFICES ASSUME NEW t \in Twins, NEW c \in snapshot'.twins[t].cites
                 PROVE  <<c, t>> \in used'
      BY DEF Cited
    <3>1. CASE t \in Affected(s)
      <4>1. c # s /\ c \in snapshot.twins[t].cites
        BY <1>3, <3>1, RetiredSource
      <4>2. <<c, t>>[1] # s /\ <<c, t>> \in used
        BY <4>1 DEF Cited
      <4> QED BY <2>1, <4>2
    <3>2. CASE t \notin Affected(s)
      <4>1. c \in snapshot.twins[t].cites
        BY <1>3, <3>2, RetiredSource
      <4>2. <<c, t>> \in used /\ c # s
        BY <3>2, <4>1 DEF Cited, Affected
      <4>3. <<c, t>>[1] # s
        BY <4>2
      <4> QED BY <2>1, <4>2, <4>3
    <3> QED BY <3>1, <3>2
  <2>5. DiffsBelow'
    <3>1. snapshot'.number = snapshot.number + 1 \/ Affected(s) = {}
      BY <1>3, RetiredSource
    <3>2. CASE Affected(s) = {}
      <4>1. UNCHANGED snapshot
        BY <1>3, <3>2 DEF RetireSource
      <4> QED BY <2>1, <4>1 DEF DiffsBelow
    <3>3. CASE snapshot'.number = snapshot.number + 1
      BY <1>0, <2>1, <3>3 DEF DiffsBelow
    <3> QED BY <3>1, <3>2, <3>3
  <2> QED BY <2>3, <2>4, <2>5
<1>4. ASSUME NEW u \in updates, ApproveEvidence(u) PROVE Citations'
  <2>1. /\ UNCHANGED <<sources, diffs>> /\ used' = used \union {<<u.source, u.twin>>}
        /\ sources[u.source].active
    BY <1>4 DEF ApproveEvidence, InForce
  <2>2. InUse'
    BY <2>1 DEF InUse
  <2>3. Cited'
    <3>1. /\ snapshot'.twins[u.twin].cites = snapshot.twins[u.twin].cites \union {u.source}
          /\ \A t \in Twins \ {u.twin} : snapshot'.twins[t] = snapshot.twins[t]
      BY <1>4, ApprovedEvidence
    <3>2. \A t \in Twins : \A s \in snapshot.twins[t].cites : <<s, t>> \in used
      BY DEF Cited
    <3>3. ASSUME NEW t \in Twins, NEW s \in snapshot'.twins[t].cites
          PROVE  <<s, t>> \in used'
      <4>1. CASE s \in snapshot.twins[t].cites BY <2>1, <3>2, <4>1
      <4>2. CASE s \notin snapshot.twins[t].cites
        <5>1. t = u.twin /\ s = u.source BY <3>1, <3>3, <4>2
        <5> QED BY <2>1, <5>1
      <4> QED BY <4>1, <4>2
    <3> QED BY <3>3 DEF Cited
  <2>4. DiffsBelow'
    BY <1>0, <1>4, <2>1, ApprovedEvidence DEF DiffsBelow
  <2> QED BY <2>2, <2>3, <2>4
<1>5. ASSUME Realign PROVE Citations'
  <2>1. UNCHANGED <<sources, diffs, used>>
    BY <1>5 DEF Realign
  <2> QED BY <1>0, <1>5, <2>1, Realigned DEF DiffsBelow, Cited, InUse
<1>6. ASSUME NEW r \in Requests, Regenerate(r) PROVE Citations'
  <2>1. UNCHANGED <<sources, diffs, used>>
    BY <1>6 DEF Regenerate
  <2> QED BY <1>0, <1>6, <2>1, Regenerated DEF DiffsBelow, Cited, InUse
<1>7. ASSUME NEW s \in Sources, AddSource(s) \/ ReviseSource(s) PROVE Citations'
  <2>1. UNCHANGED <<snapshot, used, diffs>>
    BY <1>7 DEF AddSource, ReviseSource, twinVars
  <2>2. \A q \in Sources : sources[q].active => sources'[q].active
    BY <1>7 DEF AddSource, ReviseSource, Typed, TypeOK
  <2>3. \A c \in used : c[1] \in Sources
    BY DEF Typed, TypeOK
  <2> QED BY <2>1, <2>2, <2>3 DEF DiffsBelow, Cited, InUse
<1>8. ASSUME NEW d \in diffs, RejectRevision(d) PROVE Citations'
  BY <1>8 DEF RejectRevision, twinVars, DiffsBelow, Cited, InUse
<1>9. ASSUME UNCHANGED <<snapshot, used, diffs, sources>> PROVE Citations'
  BY <1>9 DEF DiffsBelow, Cited, InUse
<1>10. CASE \/ \E t \in Twins : Learn(t) \/ Unlearn(t)
            \/ \E r \in Requests : \/ \E t \in Twins, s \in Sources \union {NoSource} :
                                        StartUpdate(r, t, s)
                                   \/ StoreUpdate(r) \/ GiveUp(r) \/ StartRegeneration(r)
            \/ \E u \in updates : RejectUpdate(u) \/ \E n \in 1..LearnedLimit : ApproveUpdate(u, n)
            \/ ApproveSnapshot \/ ContextMoves \/ EditArchetypes
            \/ UNCHANGED vars
  BY <1>9, <1>10 DEF Learn, Unlearn, StartUpdate, StoreUpdate, GiveUp, StartRegeneration,
                     RejectUpdate, ApproveUpdate, ApproveSnapshot, ContextMoves, EditArchetypes,
                     vars, twinVars
<1> QED BY <1>1, <1>2, <1>3, <1>4, <1>5, <1>6, <1>7, <1>8, <1>10 DEF Next

(* A withdrawn source stays out of the current twins, however many twins,  *)
(* sources, revisions and requests there are.                              *)
THEOREM WithdrawnStaysGone == Spec => []WithdrawnIsGone
<1>1. Citations => WithdrawnIsGone
  BY DEF Citations, Cited, InUse, WithdrawnIsGone
<1>2. Init => Typed /\ Citations
  BY InitTyped, InitCitations
<1>3. Typed /\ Citations /\ [Next]_vars => Typed' /\ Citations'
  BY NextTyped, NextCitations
<1> QED BY <1>1, <1>2, <1>3, PTL DEF Spec

-----------------------------------------------------------------------------

(***************************************************************************)
(* Updates that wait.                                                      *)
(***************************************************************************)

(* Only what was added is active.                                          *)
Added == \A s \in Sources : sources[s].active => sources[s].version > 0

LEMMA NextAdded ==
  ASSUME Typed, Added, [Next]_vars
  PROVE  Added'
<1>0. /\ sources \in [Sources -> [version : Nat, active : BOOLEAN]]
      /\ \A s \in Sources : sources[s].version \in Nat
  BY DEF Typed, TypeOK
<1>1. ASSUME NEW s \in Sources, AddSource(s) PROVE Added'
  BY <1>0, <1>1 DEF AddSource, Added
<1>2. ASSUME NEW s \in Sources, ReviseSource(s) PROVE Added'
  <2>1. /\ sources'[s].version = sources[s].version + 1
        /\ \A q \in Sources \ {s} : sources'[q] = sources[q]
    BY <1>0, <1>2 DEF ReviseSource
  <2> QED BY <1>0, <2>1 DEF Added
<1>3. ASSUME NEW s \in Sources, RetireSource(s) PROVE Added'
  <2>1. /\ sources'[s].active = FALSE
        /\ \A q \in Sources \ {s} : sources'[q] = sources[q]
    BY <1>0, <1>3 DEF RetireSource
  <2> QED BY <2>1 DEF Added
<1>4. CASE UNCHANGED sources
  BY <1>4 DEF Added
<1> QED BY <1>1, <1>2, <1>3, <1>4
     DEF Next, vars, ProposeRevision, Learn, Unlearn, ApproveRevision, RejectRevision, StartUpdate,
         StoreUpdate, GiveUp, StartRegeneration, Regenerate, ApproveEvidence, RejectUpdate,
         ApproveUpdate, ApproveSnapshot, ContextMoves, EditArchetypes, Realign

Waiting == OneUpdatePerTwin /\ WaitingEvidenceHolds

LEMMA InitWaiting == Init => Added /\ Waiting
BY DEF Init, Added, Waiting, OneUpdatePerTwin, WaitingEvidenceHolds

(* An update that a step leaves alone, and what it was written for.        *)
LEMMA WaitsOn ==
  ASSUME Waiting, updates' \subseteq updates,
         \A u \in updates' : u.source # NoSource =>
           /\ EvidenceContext => EvidenceContext'
           /\ InForce(u) => InForce(u)'
           /\ snapshot.twins[u.twin].version = u.profile =>
                snapshot'.twins[u.twin].version = u.profile
           /\ learned'[u.twin].development = learned[u.twin].development
  PROVE  Waiting'
<1>1. OneUpdatePerTwin'
  BY DEF Waiting, OneUpdatePerTwin
<1>2. WaitingEvidenceHolds'
  BY DEF Waiting, WaitingEvidenceHolds
<1> QED BY <1>1, <1>2 DEF Waiting

LEMMA NextWaiting ==
  ASSUME Typed, Added, Waiting, [Next]_vars
  PROVE  Waiting'
<1>0. /\ \A u \in updates : /\ u.twin \in Twins
                            /\ u.source # NoSource => /\ u.source \in Sources
                                                      /\ EvidenceContext /\ InForce(u)
      /\ snapshot.number \in Nat
  BY Bounds DEF Typed, TypeOK, Update, Waiting, WaitingEvidenceHolds
<1>1. CASE updates = {} /\ updates' = {}
  BY <1>1 DEF Waiting, OneUpdatePerTwin, WaitingEvidenceHolds
<1>2. CASE (\E t \in Twins : ProposeRevision(t)) \/ EditArchetypes \/ Realign
           \/ \E r \in Requests : Regenerate(r)
  BY <1>1, <1>2 DEF ProposeRevision, EditArchetypes, Realign, Regenerate, Pending, PendingUpdate
<1>3. CASE \/ \E d \in diffs : ApproveRevision(d) \/ RejectRevision(d)
           \/ ApproveSnapshot
  <2>1. UNCHANGED updates /\ ~ EvidenceContext
    BY <1>3 DEF ApproveRevision, RejectRevision, ApproveSnapshot, EvidenceContext, PendingRevision
  <2>2. \A u \in updates' : u.source = NoSource
    BY <1>0, <2>1
  <2> QED BY <2>1, <2>2, WaitsOn
<1>4. ASSUME NEW t \in Twins, Learn(t) \/ Unlearn(t) PROVE Waiting'
  <2>1. UNCHANGED <<snapshot, approved, diffs, updates, sources>>
    BY <1>4 DEF Learn, Unlearn, twinVars
  <2>2. \A u \in Twins \ {t} : learned'[u] = learned[u]
    BY <1>4 DEF Learn, Unlearn, Learns, Typed, TypeOK
  <2>3. \A u \in updates' : u.twin \in Twins \ {t}
    BY <1>0, <1>4, <2>1 DEF Learn, Unlearn, HasUpdate
  <2> QED BY <2>1, <2>2, <2>3, WaitsOn
        DEF EvidenceContext, PendingRevision, Approved, InForce
<1>5. ASSUME NEW s \in Sources, AddSource(s) PROVE Waiting'
  <2>1. UNCHANGED <<snapshot, approved, diffs, updates, learned>>
    BY <1>5 DEF AddSource, twinVars
  <2>2. \A q \in Sources : sources[q].version > 0 => sources'[q] = sources[q]
    BY <1>5 DEF AddSource, Typed, TypeOK
  <2>3. \A u \in updates : u.source # NoSource => sources[u.source].version > 0
    BY <1>0 DEF Added, InForce
  <2>4. \A u \in updates : u.source # NoSource => sources'[u.source] = sources[u.source]
    BY <1>0, <2>2, <2>3
  <2> QED BY <2>1, <2>4, WaitsOn DEF EvidenceContext, PendingRevision, Approved, InForce
<1>6. ASSUME NEW s \in Sources, ReviseSource(s) PROVE Waiting'
  <2>1. UNCHANGED <<snapshot, approved, diffs, learned>> /\ updates' = updates \ Outdated(s)
    BY <1>6 DEF ReviseSource, twinVars
  <2>2. \A q \in Sources \ {s} : sources'[q] = sources[q]
    BY <1>6 DEF ReviseSource, Typed, TypeOK
  <2>3. \A u \in updates' : u.source # NoSource => u.source \in Sources \ {s}
    BY <1>0, <2>1 DEF Outdated
  <2> QED BY <2>1, <2>2, <2>3, WaitsOn
        DEF EvidenceContext, PendingRevision, Approved, InForce
<1>7. ASSUME NEW s \in Sources, RetireSource(s) PROVE Waiting'
  <2>1. UNCHANGED <<diffs, learned>> /\ updates' = updates \ Withdrawn(s)
    BY <1>7 DEF RetireSource
  <2>2. \A q \in Sources \ {s} : sources'[q] = sources[q]
    BY <1>7 DEF RetireSource, Typed, TypeOK
  <2>3. \A u \in updates' : /\ u \in updates
                            /\ u.twin \in Twins \ Affected(s)
                            /\ u.source # NoSource => u.source \in Sources \ {s}
    BY <1>0, <2>1 DEF Withdrawn, Outdated
  <2>4. \A u \in updates' : snapshot'.twins[u.twin] = snapshot.twins[u.twin]
    BY <1>7, <2>3, RetiredSource
  <2>5. EvidenceContext => EvidenceContext'
    <3>1. CASE Affected(s) = {}
      BY <1>7, <2>1, <3>1 DEF RetireSource, EvidenceContext, PendingRevision, Approved
    <3>2. CASE Affected(s) # {}
      BY <1>7, <2>1, <3>2, RetiredSource
         DEF RetireSource, EvidenceContext, PendingRevision, Approved
    <3> QED BY <3>1, <3>2
  <2>6. \A u \in updates' : u.source # NoSource => (InForce(u) => InForce(u)')
    BY <2>2, <2>3 DEF InForce
  <2> QED BY <2>1, <2>3, <2>4, <2>5, <2>6, WaitsOn
<1>8. ASSUME NEW r \in Requests, StoreUpdate(r) PROVE Waiting'
  <2> DEFINE new == tx[r].update
  <2>1. /\ UNCHANGED <<snapshot, approved, diffs, sources, learned>>
        /\ updates' = updates \union {new}
        /\ StillInContext(new) /\ ~ HasUpdate(new.twin)
    BY <1>8 DEF StoreUpdate, twinVars, MayWait
  <2> HIDE DEF new
  <2>2. OneUpdatePerTwin'
    BY <2>1 DEF Waiting, OneUpdatePerTwin, HasUpdate
  <2>3. WaitingEvidenceHolds'
    BY <2>1 DEF Waiting, WaitingEvidenceHolds, StillInContext, EvidenceContext, PendingRevision,
                Approved, InForce
  <2> QED BY <2>2, <2>3 DEF Waiting
<1>9. ASSUME NEW u \in updates, ApproveEvidence(u) PROVE Waiting'
  <2>1. /\ UNCHANGED <<diffs, sources, learned>> /\ updates' = updates \ {u}
        /\ EvidenceContext
    BY <1>9 DEF ApproveEvidence
  <2>2. \A v \in updates' : v \in updates /\ v.twin \in Twins \ {u.twin}
    BY <1>0, <2>1 DEF Waiting, OneUpdatePerTwin
  <2>3. EvidenceContext'
    BY <1>9, <2>1, ApprovedEvidence DEF EvidenceContext, PendingRevision, Approved
  <2>4. \A v \in updates' : snapshot'.twins[v.twin] = snapshot.twins[v.twin]
    BY <1>9, <2>2, ApprovedEvidence
  <2> QED BY <2>1, <2>2, <2>3, <2>4, WaitsOn DEF InForce
<1>10. ASSUME NEW u \in updates, NEW n \in 1..LearnedLimit, ApproveUpdate(u, n) PROVE Waiting'
  <2>1. /\ UNCHANGED <<snapshot, approved, diffs, sources>> /\ updates' = updates \ {u}
    BY <1>10 DEF ApproveUpdate, twinVars
  <2>2. \A v \in updates' : v.twin \in Twins \ {u.twin}
    BY <1>0, <2>1 DEF Waiting, OneUpdatePerTwin
  <2>3. \A t \in Twins \ {u.twin} : learned'[t] = learned[t]
    BY <1>10 DEF ApproveUpdate, Learns, Typed, TypeOK
  <2> QED BY <2>1, <2>2, <2>3, WaitsOn
        DEF EvidenceContext, PendingRevision, Approved, InForce
<1>11. CASE \/ \E r \in Requests : \/ \E t \in Twins, s \in Sources \union {NoSource} :
                                        StartUpdate(r, t, s)
                                   \/ GiveUp(r) \/ StartRegeneration(r)
            \/ \E u \in updates : RejectUpdate(u)
            \/ ContextMoves
            \/ UNCHANGED vars
  <2>1. UNCHANGED <<snapshot, approved, diffs, sources, learned>> /\ updates' \subseteq updates
    BY <1>11 DEF StartUpdate, GiveUp, StartRegeneration, RejectUpdate, ContextMoves, vars, twinVars
  <2> QED BY <2>1, WaitsOn DEF EvidenceContext, PendingRevision, Approved, InForce
<1> QED BY <1>2, <1>3, <1>4, <1>5, <1>6, <1>7, <1>8, <1>9, <1>10, <1>11 DEF Next

(* One update per twin, and an evidence update that waits can be approved  *)
(* as it is, for every number of twins, sources and requests.              *)
THEOREM UpdatesWaitAlone == Spec => []OneUpdatePerTwin
<1>1. Waiting => OneUpdatePerTwin
  BY DEF Waiting
<1>2. Init => Typed /\ Added /\ Waiting
  BY InitTyped, InitWaiting
<1>3. Typed /\ Added /\ Waiting /\ [Next]_vars => Typed' /\ Added' /\ Waiting'
  BY NextTyped, NextAdded, NextWaiting
<1> QED BY <1>1, <1>2, <1>3, PTL DEF Spec

(* What the owner sees in an evidence update that waits is what the twin,  *)
(* the source and the snapshot are now.                                    *)
THEOREM WaitingEvidence == Spec => []WaitingEvidenceHolds
<1>1. Waiting => WaitingEvidenceHolds
  BY DEF Waiting
<1>2. Init => Typed /\ Added /\ Waiting
  BY InitTyped, InitWaiting
<1>3. Typed /\ Added /\ Waiting /\ [Next]_vars => Typed' /\ Added' /\ Waiting'
  BY NextTyped, NextAdded, NextWaiting
<1> QED BY <1>1, <1>2, <1>3, PTL DEF Spec
=============================================================================

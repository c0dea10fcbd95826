-------------------------- MODULE GateFlow_proofs --------------------------
(***************************************************************************)
(* Lemmas about the gate and about what a submission does to it, for the   *)
(* theorems of the specifications that keep gates as state.                *)
(***************************************************************************)
EXTENDS GateFlow, TLAPS

-----------------------------------------------------------------------------

(***************************************************************************)
(* Lemmas about the operators of HumanGates.                               *)
(***************************************************************************)

(* A new gate is a gate. *)
LEMMA DraftGateType ==
  ASSUME NEW artifact \in Nat, NEW iteration \in Nat, NEW max \in Nat, NEW at \in Nat
  PROVE  DraftGate(artifact, iteration, max, at) \in Gate
BY DEF DraftGate, Gate, Statuses, NoStatus

(* An owner action that the state machine has leads to a status. *)
LEMMA TargetStatusType ==
  ASSUME NEW gate \in Gate, NEW action \in Actions,
         TargetStatus(gate, action) # NoStatus
  PROVE  TargetStatus(gate, action) \in Statuses
BY DEF TargetStatus, Gate, Statuses, Actions, NoStatus

(* ... and to a gate and an event. *)
LEMMA TransitionedType ==
  ASSUME NEW gate \in Gate, NEW action \in Actions, NEW at \in Nat,
         TargetStatus(gate, action) # NoStatus
  PROVE  /\ Transitioned(gate, action, at) \in Gate
         /\ TransitionEvent(gate, action, at) \in Event
<1>1. TargetStatus(gate, action) \in Statuses
  BY TargetStatusType
<1>2. ResumeStatus(gate, action) \in Statuses \cup {NoStatus}
  BY DEF ResumeStatus, Gate
<1>3. gate.seq + 1 \in Nat
  BY DEF Gate
<1>4. Transitioned(gate, action, at) \in Gate
  <2> DEFINE status == TargetStatus(gate, action)
             resume == ResumeStatus(gate, action)
             seq    == gate.seq + 1
  <2>1. status \in Statuses /\ resume \in Statuses \cup {NoStatus} /\ seq \in Nat
    BY <1>1, <1>2, <1>3
  <2> HIDE DEF status, resume, seq
  <2>2. [gate EXCEPT !.status = status, !.resume = resume, !.seq = seq,
                     !.updated = at] \in Gate
    BY <2>1 DEF Gate
  <2> QED BY <2>2 DEF Transitioned, status, resume, seq
<1>5. TransitionEvent(gate, action, at) \in Event
  BY <1>1, <1>3 DEF TransitionEvent, Gate, Event, EventKinds
<1> QED BY <1>4, <1>5

(* A supersession leads to a gate and an event. *)
LEMMA StaledType ==
  ASSUME NEW gate \in Gate, NEW artifact \in Nat, NEW at \in Nat
  PROVE  Staled(gate, at) \in Gate /\ StaleEvent(gate, artifact, at) \in Event
<1>1. gate.seq + 1 \in Nat /\ "STALE" \in Statuses
  BY DEF Gate, Statuses
<1>2. Staled(gate, at) \in Gate
  <2> DEFINE seq == gate.seq + 1
  <2>1. seq \in Nat
    BY <1>1
  <2> HIDE DEF seq
  <2>2. [gate EXCEPT !.status = "STALE", !.resume = NoStatus, !.seq = seq,
                     !.updated = at] \in Gate
    BY <1>1, <2>1 DEF Gate
  <2> QED BY <2>2 DEF Staled, seq
<1>3. StaleEvent(gate, artifact, at) \in Event
  BY <1>1 DEF StaleEvent, Gate, Event, EventKinds
<1> QED BY <1>2, <1>3

(* SUBMIT takes every new gate to the owner. *)
LEMMA SubmittedDraft ==
  ASSUME NEW gate, gate.status = "DRAFT"
  PROVE  TargetStatus(gate, "SUBMIT") = "PENDING_APPROVAL"
BY DEF TargetStatus

(* The cap of the next gate is a number. *)
LEMMA NextMaxType ==
  ASSUME NEW gate \in Gate, NEW events
  PROVE  NextIteration(gate) \in Nat /\ NextMax(gate, events) \in Nat
BY LimitAssumption DEF NextIteration, NextMax, Gate

(* Replacing the last element of a sequence. *)
LEMMA ReplaceLast ==
  ASSUME NEW S, NEW s \in Seq(S), NEW x \in S
  PROVE  /\ [s EXCEPT ![Len(s)] = x] \in Seq(S)
         /\ Len([s EXCEPT ![Len(s)] = x]) = Len(s)
         /\ \A i \in 1..Len(s) :
              [s EXCEPT ![Len(s)] = x][i] = IF i = Len(s) THEN x ELSE s[i]
<1> DEFINE t == [s EXCEPT ![Len(s)] = x]
<1>1. Len(s) \in Nat /\ DOMAIN t = 1..Len(s)
  OBVIOUS
<1>2. \A i \in 1..Len(s) : t[i] = IF i = Len(s) THEN x ELSE s[i]
  OBVIOUS
<1>3. \A i \in 1..Len(s) : s[i] \in S
  OBVIOUS
<1>4. t = [i \in 1..Len(s) |-> t[i]]
  BY <1>1
<1>5. t \in [1..Len(s) -> S]
  BY <1>2, <1>3, <1>4
<1>6. t \in Seq(S) /\ Len(t) = Len(s)
  BY <1>1, <1>5
<1> QED BY <1>2, <1>6

-----------------------------------------------------------------------------

(***************************************************************************)
(* Submissions.                                                            *)
(***************************************************************************)

LEMMA NoGateType == NoGate \in Gate
BY DraftGateType DEF NoGate

LEMMA LatestOfType ==
  ASSUME NEW gates \in Seq(Gate)
  PROVE  LatestOf(gates) \in Gate
BY NoGateType DEF LatestOf

LEMMA SupersededType ==
  ASSUME NEW gate \in Gate, NEW at \in Nat
  PROVE  Superseded(gate, at) \in Gate
<1>1. 0 \in Nat
  OBVIOUS
<1> QED BY <1>1, StaledType DEF Superseded

(* What a submission writes when it supersedes the gate it has read. *)
LEMMA SupersessionType ==
  ASSUME NEW gates \in Seq(Gate), NEW log \in Seq(Event),
         NEW gate \in Gate, NEW artifact \in Nat, NEW at \in Nat
  PROVE  /\ WithLatestSuperseded(gates, gate, at) \in Seq(Gate)
         /\ WithSupersession(log, gate, artifact, at) \in Seq(Event)
<1>1. StaleEvent(gate, artifact, at) \in Event
  BY StaledType
<1>2. Superseded(gate, at) \in Gate
  BY SupersededType
<1>3. WithLatestSuperseded(gates, gate, at) \in Seq(Gate)
  BY <1>2, ReplaceLast DEF WithLatestSuperseded
<1>4. WithSupersession(log, gate, artifact, at) \in Seq(Event)
  BY <1>1 DEF WithSupersession
<1> QED BY <1>3, <1>4

(* The draft a submission opens, and its submission. *)
LEMMA NextDraftType ==
  ASSUME NEW gate \in Gate, NEW log, NEW artifact \in Nat, NEW at \in Nat
  PROVE  LET draft == NextDraft(gate, log, artifact, at) IN
         /\ draft \in Gate
         /\ Transitioned(draft, "SUBMIT", at) \in Gate
         /\ TransitionEvent(draft, "SUBMIT", at) \in Event
<1> DEFINE draft == NextDraft(gate, log, artifact, at)
<1>1. NextIteration(gate) \in Nat /\ NextMax(Superseded(gate, at), log) \in Nat
  BY SupersededType, NextMaxType
<1>2. draft \in Gate
  BY <1>1, DraftGateType, LimitAssumption DEF NextDraft
<1>3. draft.status = "DRAFT"
  BY DEF NextDraft, DraftGate
<1>4. TargetStatus(draft, "SUBMIT") # NoStatus
  BY <1>3, SubmittedDraft DEF NoStatus
<1>5. "SUBMIT" \in Actions
  BY DEF Actions
<1> QED BY <1>2, <1>4, <1>5, TransitionedType

-----------------------------------------------------------------------------

(***************************************************************************)
(* Gates and their history.  Whoever writes them, a gate is only moved as  *)
(* the last one, by an owner's action or a supersession, and opened within *)
(* the budget; the following holds of gates and events moved in this way.  *)
(***************************************************************************)

Numbered(gates) == \A g \in DOMAIN gates : gates[g].iteration = g

Recorded(gates, log) ==
  \A i \in DOMAIN log : /\ log[i].gate \in DOMAIN gates
                        /\ log[i].seq \in 1..gates[log[i].gate].seq

Told(gates, log) ==
  /\ \A i \in DOMAIN log : EventFollows(log, i)
  /\ \A i, j \in DOMAIN log :
       log[i].gate = log[j].gate /\ log[i].seq = log[j].seq => i = j
  /\ \A g \in DOMAIN gates : \E i \in DOMAIN log : EventExplains(log, i, gates[g], g)

(* A stored gate is no draft.                                              *)
Stored(gate) ==
  /\ gate.iteration \in 1..gate.max
  /\ gate.status # "DRAFT"
  /\ gate.seq >= 1
  /\ gate.status = "PAUSED" <=> gate.resume # NoStatus
  /\ gate.resume \in {NoStatus, "PENDING_APPROVAL"}
  /\ gate.status = "PAUSED_NEEDS_HUMAN" => gate.iteration = gate.max

(* What no gate comes back from.                                           *)
Final(gates, log) ==
  /\ \A i \in DOMAIN log :
       log[i].kind = "ARTIFACT_SUPERSEDED" => gates[log[i].gate].status = "STALE"
  /\ \A i \in DOMAIN log :
       log[i].resulting = "CANCELLED" => gates[log[i].gate].status = "CANCELLED"
  /\ \A i \in DOMAIN log :
       log[i].resulting = "PAUSED_NEEDS_HUMAN" =>
         /\ gates[log[i].gate].status \in {"PAUSED_NEEDS_HUMAN", "CANCELLED", "STALE"}
         /\ gates[log[i].gate].iteration = gates[log[i].gate].max
         /\ ~ApprovedOnce(log, log[i].gate)

(* next_human_gate_iteration sees an approval whatever became of its gate. *)
Seen(gates, log) ==
  \A g \in DOMAIN gates : ApprovedOnce(log, g) <=> ApprovalSeen(gates[g], log)

(* The cap of a gate counts from the last approval before it.              *)
Capped(gates, log) ==
  \A g \in DOMAIN gates :
    /\ gates[g].max - IterationLimit \in 0..(g - 1)
    /\ \A h \in (gates[g].max - IterationLimit + 1)..(g - 1) : ~ApprovedOnce(log, h)
    /\ gates[g].max # IterationLimit => ApprovedOnce(log, gates[g].max - IterationLimit)

History(gates, log) ==
  /\ gates \in Seq(Gate)
  /\ log \in Seq(Event)
  /\ Numbered(gates)
  /\ Recorded(gates, log)
  /\ Told(gates, log)
  /\ \A g \in DOMAIN gates : Stored(gates[g])
  /\ Final(gates, log)
  /\ Seen(gates, log)
  /\ Capped(gates, log)

LEMMA NoHistory == History(<<>>, <<>>)
<1>1. DOMAIN <<>> = {} /\ <<>> \in Seq(Gate) /\ <<>> \in Seq(Event)
  OBVIOUS
<1> QED BY <1>1 DEF History, Numbered, Recorded, Told, Final, Seen, Capped

LEMMA AppendIs ==
  ASSUME NEW S, NEW s \in Seq(S), NEW x \in S
  PROVE  /\ Append(s, x) \in Seq(S) /\ Len(s) \in Nat /\ Len(Append(s, x)) = Len(s) + 1
         /\ DOMAIN s = 1..Len(s)
         /\ DOMAIN Append(s, x) = DOMAIN s \cup {Len(s) + 1}
         /\ Len(s) + 1 \notin DOMAIN s
         /\ Append(s, x)[Len(s) + 1] = x
         /\ \A i \in DOMAIN s : Append(s, x)[i] = s[i] /\ i \in 1..Len(s)
OBVIOUS

(* An event and what it makes of its gate.                                 *)
Follows(gate, next, event) ==
  /\ next.artifact = gate.artifact /\ next.iteration = gate.iteration /\ next.max = gate.max
  /\ next.seq = gate.seq + 1 /\ next.updated >= gate.updated
  /\ event.gate = gate.iteration /\ event.seq = next.seq /\ event.at = next.updated
  /\ event.previous = gate.status /\ event.resulting = next.status

(* A gate that moves is not over; an approval is only ever superseded, and *)
(* who waits for a human gets no approval any more.                        *)
NextFits(gate, next, event) ==
  /\ gate.status \notin {"STALE", "CANCELLED"}
  /\ event.kind = "ARTIFACT_SUPERSEDED" <=> next.status = "STALE"
  /\ event.kind = "APPROVE" <=> next.status = "APPROVED"
  /\ gate.status = "APPROVED" => next.status = "STALE"
  /\ gate.status = "PAUSED_NEEDS_HUMAN" => next.status \in {"CANCELLED", "STALE"}
  /\ next.status = "PAUSED_NEEDS_HUMAN" => gate.status = "PENDING_APPROVAL"
  /\ Stored(next)

LEMMA StalingFits ==
  ASSUME NEW gate \in Gate, Stored(gate), NEW artifact \in Nat, NEW at \in Nat,
         StaleApplies(gate, artifact, at)
  PROVE  /\ Follows(gate, Staled(gate, at), StaleEvent(gate, artifact, at))
         /\ NextFits(gate, Staled(gate, at), StaleEvent(gate, artifact, at))
<1> DEFINE seq  == gate.seq + 1
           next == [gate EXCEPT !.status = "STALE", !.resume = NoStatus, !.seq = seq,
                                !.updated = at]
<1>1. seq \in Nat /\ seq >= 1 /\ gate.seq \in Nat
  BY DEF Gate
<1> HIDE DEF seq
<1>2. /\ next.status = "STALE" /\ next.resume = NoStatus /\ next.seq = seq
      /\ next.updated = at /\ next.artifact = gate.artifact
      /\ next.iteration = gate.iteration /\ next.max = gate.max
  BY DEF Gate
<1> HIDE DEF next
<1>3. Staled(gate, at) = next
  BY DEF Staled, next, seq
<1>4. LET e == StaleEvent(gate, artifact, at) IN
      /\ e.gate = gate.iteration /\ e.seq = seq /\ e.kind = "ARTIFACT_SUPERSEDED"
      /\ e.previous = gate.status /\ e.resulting = "STALE" /\ e.at = at
  BY DEF StaleEvent, seq
<1>5. Follows(gate, next, StaleEvent(gate, artifact, at))
  BY <1>2, <1>4 DEF Follows, StaleApplies, seq
<1>6. Stored(next)
  BY <1>1, <1>2 DEF Stored
<1>7. NextFits(gate, next, StaleEvent(gate, artifact, at))
  BY <1>2, <1>4, <1>6 DEF NextFits, StaleApplies
<1> QED BY <1>3, <1>5, <1>7

(* The arrows of the state machine from a stored gate.                     *)
LEMMA StoredTarget ==
  ASSUME NEW gate \in Gate, Stored(gate), NEW action \in Actions,
         TargetStatus(gate, action) # NoStatus, NEW to, to = TargetStatus(gate, action)
  PROVE  \/ gate.status = "PENDING_APPROVAL" /\ action = "APPROVE" /\ to = "APPROVED"
         \/ gate.status = "PENDING_APPROVAL" /\ action = "REJECT" /\ to = "REJECTED"
         \/ /\ gate.status = "PENDING_APPROVAL" /\ action = "REQUEST_REVISION"
            /\ to = IF gate.iteration >= gate.max THEN "PAUSED_NEEDS_HUMAN"
                                                  ELSE "REVISION_REQUESTED"
         \/ gate.status = "PENDING_APPROVAL" /\ action = "PAUSE" /\ to = "PAUSED"
         \/ gate.status = "PAUSED" /\ action = "RESUME" /\ to = "PENDING_APPROVAL"
         \/ /\ gate.status \in {"PENDING_APPROVAL", "PAUSED", "REVISION_REQUESTED",
                                "PAUSED_NEEDS_HUMAN"}
            /\ action = "CANCEL" /\ to = "CANCELLED"
BY DEF TargetStatus, Stored, Actions, NoStatus

LEMMA TransitionFits ==
  ASSUME NEW gate \in Gate, Stored(gate), NEW action \in Actions, NEW reason, NEW at \in Nat,
         Applies(gate, action, reason, at)
  PROVE  /\ Follows(gate, Transitioned(gate, action, at), TransitionEvent(gate, action, at))
         /\ NextFits(gate, Transitioned(gate, action, at), TransitionEvent(gate, action, at))
<1> DEFINE seq    == gate.seq + 1
           to     == TargetStatus(gate, action)
           resume == ResumeStatus(gate, action)
           next == [gate EXCEPT !.status = to, !.resume = resume, !.seq = seq, !.updated = at]
<1>1. seq \in Nat /\ seq >= 1 /\ gate.iteration \in Nat /\ gate.max \in Nat
  BY DEF Gate
<1>2. to # NoStatus /\ at >= gate.updated
  BY DEF Applies
<1>3. resume = IF action = "PAUSE" THEN gate.status ELSE NoStatus
  BY DEF ResumeStatus
<1>4. /\ Transitioned(gate, action, at) = next
  BY DEF Transitioned
<1>5. LET e == TransitionEvent(gate, action, at) IN
      /\ e.gate = gate.iteration /\ e.seq = seq /\ e.kind = action
      /\ e.previous = gate.status /\ e.resulting = to /\ e.at = at
  BY DEF TransitionEvent
<1> HIDE DEF to, resume
<1>6. \/ gate.status = "PENDING_APPROVAL" /\ action = "APPROVE" /\ to = "APPROVED"
      \/ gate.status = "PENDING_APPROVAL" /\ action = "REJECT" /\ to = "REJECTED"
      \/ /\ gate.status = "PENDING_APPROVAL" /\ action = "REQUEST_REVISION"
         /\ to = IF gate.iteration >= gate.max THEN "PAUSED_NEEDS_HUMAN"
                                               ELSE "REVISION_REQUESTED"
      \/ gate.status = "PENDING_APPROVAL" /\ action = "PAUSE" /\ to = "PAUSED"
      \/ gate.status = "PAUSED" /\ action = "RESUME" /\ to = "PENDING_APPROVAL"
      \/ /\ gate.status \in {"PENDING_APPROVAL", "PAUSED", "REVISION_REQUESTED",
                             "PAUSED_NEEDS_HUMAN"}
         /\ action = "CANCEL" /\ to = "CANCELLED"
  BY <1>2, StoredTarget DEF to
<1>7. /\ next.status = to /\ next.resume = resume /\ next.seq = seq
      /\ next.updated = at /\ next.artifact = gate.artifact
      /\ next.iteration = gate.iteration /\ next.max = gate.max
  BY DEF Gate
<1> HIDE DEF next
<1>8. Follows(gate, next, TransitionEvent(gate, action, at))
  BY <1>2, <1>5, <1>7 DEF Follows
<1>9. Stored(next)
  BY <1>1, <1>3, <1>6, <1>7 DEF Stored, NoStatus
<1>10. NextFits(gate, next, TransitionEvent(gate, action, at))
  BY <1>5, <1>6, <1>7, <1>9 DEF NextFits
<1> QED BY <1>4, <1>8, <1>10

(* The last gate moves, and its history goes on.                           *)
LEMMA MoveKeepsHistory ==
  ASSUME NEW gates, NEW log, History(gates, log), NEW n, n = Len(gates), gates # <<>>,
         NEW next \in Gate, NEW event \in Event,
         Follows(gates[n], next, event), NextFits(gates[n], next, event),
         NEW gates2, gates2 = [gates EXCEPT ![n] = next],
         NEW log2, log2 = Append(log, event)
  PROVE  History(gates2, log2)
<1> DEFINE k == Len(log) + 1
<1>1. /\ gates \in Seq(Gate) /\ log \in Seq(Event)
      /\ n \in Nat /\ DOMAIN gates = 1..n /\ n \in DOMAIN gates
  BY DEF History
<1>2. /\ gates2 \in Seq(Gate) /\ Len(gates2) = n /\ DOMAIN gates2 = DOMAIN gates
      /\ gates2[n] = next /\ \A g \in DOMAIN gates \ {n} : gates2[g] = gates[g]
  BY <1>1, ReplaceLast
<1>3. /\ log2 \in Seq(Event) /\ k \in Nat
      /\ DOMAIN log2 = DOMAIN log \cup {k} /\ k \notin DOMAIN log
      /\ log2[k] = event
      /\ \A i \in DOMAIN log : log2[i] = log[i] /\ i \in Nat /\ 1 <= i /\ i <= k - 1
  BY <1>1, AppendIs
<1> HIDE DEF k
<1>4. /\ next.artifact = gates[n].artifact /\ next.iteration = n /\ next.max = gates[n].max
      /\ next.seq = gates[n].seq + 1 /\ next.updated >= gates[n].updated
      /\ event.gate = n /\ event.seq = next.seq /\ event.at = next.updated
      /\ event.previous = gates[n].status /\ event.resulting = next.status
      /\ gates[n].iteration = n
  BY <1>1 DEF History, Numbered, Follows
<1>5. gates[n].seq \in Nat /\ gates[n].seq >= 1 /\ gates[n] \in Gate
  <2>1. gates[n] \in Gate BY <1>1
  <2>2. Stored(gates[n]) BY <1>1 DEF History
  <2> QED BY <2>1, <2>2 DEF Stored, Gate
<1>6. Numbered(gates2)
  BY <1>1, <1>2, <1>4 DEF History, Numbered
<1>7. Recorded(gates2, log2)
  <2>1. ASSUME NEW i \in DOMAIN log
        PROVE  log2[i].gate \in DOMAIN gates2 /\ log2[i].seq \in 1..gates2[log2[i].gate].seq
    <3>1. log[i].gate \in DOMAIN gates /\ log[i].seq \in 1..gates[log[i].gate].seq
      BY DEF History, Recorded
    <3>2. CASE log[i].gate = n
      <4>1. log2[i] = log[i] /\ DOMAIN gates2 = DOMAIN gates BY <1>2, <1>3
      <4>2. gates2[n].seq = gates[n].seq + 1 BY <1>2, <1>4
      <4> QED BY <1>5, <3>1, <3>2, <4>1, <4>2
    <3>3. CASE log[i].gate # n BY <1>2, <1>3, <3>1, <3>3
    <3> QED BY <3>2, <3>3
  <2>2. log2[k].gate \in DOMAIN gates2 /\ log2[k].seq \in 1..gates2[log2[k].gate].seq
    BY <1>1, <1>2, <1>3, <1>4, <1>5
  <2> QED BY <1>3, <2>1, <2>2 DEF Recorded
<1>8. Told(gates2, log2)
  <2>1. ASSUME NEW i \in DOMAIN log PROVE EventFollows(log2, i)
    <3>1. EventFollows(log, i) BY DEF History, Told
    <3>2. CASE log[i].seq = 1 BY <1>3, <3>1, <3>2 DEF EventFollows
    <3>3. CASE log[i].seq # 1
      <4>1. PICK j \in 1..(i - 1) : /\ log[j].gate = log[i].gate
                                   /\ log[j].seq = log[i].seq - 1
                                   /\ log[j].resulting = log[i].previous
                                   /\ log[j].at <= log[i].at
        BY <3>1, <3>3 DEF EventFollows
      <4>2. j \in DOMAIN log BY <1>1, <1>3, <4>1
      <4> QED BY <1>3, <3>3, <4>1, <4>2 DEF EventFollows
    <3> QED BY <3>2, <3>3
  <2>2. PICK j \in DOMAIN log : EventExplains(log, j, gates[n], n)
    BY <1>1 DEF History, Told
  <2>3. EventFollows(log2, k)
    <3>1. /\ log[j].gate = n /\ log[j].seq = gates[n].seq
          /\ log[j].resulting = gates[n].status /\ log[j].at = gates[n].updated
      BY <2>2 DEF EventExplains
    <3>2. event.seq = gates[n].seq + 1 /\ event.at >= gates[n].updated
      BY <1>4
    <3>3. gates[n].updated \in Nat /\ next.updated \in Nat
      BY <1>5 DEF Gate
    <3>4. event.seq # 1 /\ gates[n].seq = event.seq - 1 /\ gates[n].updated <= event.at
      <4>1. event.seq # 1 /\ gates[n].seq = event.seq - 1
        BY ONLY <1>5, <3>2
      <4>2. event.at = next.updated BY <1>4
      <4>3. gates[n].updated <= event.at BY ONLY <3>2, <3>3, <4>2
      <4> QED BY ONLY <4>1, <4>3
    <3>5. log2[j] = log[j] /\ j \in 1..(k - 1) /\ log2[k] = event
      BY <1>3
    <3> QED BY <1>4, <3>1, <3>4, <3>5 DEF EventFollows
  <2>4. \A i \in DOMAIN log : ~(log[i].gate = event.gate /\ log[i].seq = event.seq)
    <3>1. ASSUME NEW i \in DOMAIN log, log[i].gate = n
          PROVE  log[i].seq # gates[n].seq + 1
      BY <1>5, <3>1 DEF History, Recorded
    <3> QED BY <1>4, <3>1
  <2>5. \A i, l \in DOMAIN log2 :
          log2[i].gate = log2[l].gate /\ log2[i].seq = log2[l].seq => i = l
    BY <1>3, <2>4 DEF History, Told
  <2>6. ASSUME NEW g \in DOMAIN gates2
        PROVE  \E i \in DOMAIN log2 : EventExplains(log2, i, gates2[g], g)
    <3>1. CASE g = n
      <4>1. EventExplains(log2, k, gates2[n], n) BY <1>2, <1>3, <1>4 DEF EventExplains
      <4> QED BY <1>3, <3>1, <4>1
    <3>2. CASE g # n
      <4>1. PICK i \in DOMAIN log : EventExplains(log, i, gates[g], g)
        BY <1>2 DEF History, Told
      <4>2. EventExplains(log2, i, gates2[g], g)
        BY <1>2, <1>3, <2>6, <3>2, <4>1 DEF EventExplains
      <4> QED BY <1>3, <4>2
    <3> QED BY <3>1, <3>2
  <2> QED BY <1>3, <2>1, <2>3, <2>5, <2>6 DEF Told
<1>9. \A g \in DOMAIN gates2 : Stored(gates2[g])
  BY <1>2 DEF History, NextFits
<1>10. \A i \in DOMAIN log : log[i].gate = n => log[i].kind # "ARTIFACT_SUPERSEDED"
                                           /\ log[i].resulting # "CANCELLED"
  BY DEF History, Final, NextFits
<1>11. \A g : ApprovedOnce(log2, g) <=> ApprovedOnce(log, g) \/ (g = n /\ event.kind = "APPROVE")
  <2> SUFFICES ASSUME NEW g
               PROVE  ApprovedOnce(log2, g) <=>
                        ApprovedOnce(log, g) \/ (g = n /\ event.kind = "APPROVE")
    OBVIOUS
  <2>1. (\E i \in DOMAIN log2 : log2[i].gate = g /\ log2[i].kind = "APPROVE") <=>
          \/ \E i \in DOMAIN log : log2[i].gate = g /\ log2[i].kind = "APPROVE"
          \/ log2[k].gate = g /\ log2[k].kind = "APPROVE"
    BY <1>3
  <2>2. (\E i \in DOMAIN log : log2[i].gate = g /\ log2[i].kind = "APPROVE") <=>
          \E i \in DOMAIN log : log[i].gate = g /\ log[i].kind = "APPROVE"
    BY <1>3
  <2> QED BY <1>3, <1>4, <2>1, <2>2 DEF ApprovedOnce
<1>12. ApprovedOnce(log, n) <=> gates[n].status = "APPROVED"
  <2>1. ApprovedOnce(log, n) <=> ApprovalSeen(gates[n], log)
    BY <1>1 DEF History, Seen
  <2> QED BY <1>4, <1>10, <2>1 DEF ApprovalSeen
<1>13. Final(gates2, log2)
  <2>1. ASSUME NEW i \in DOMAIN log2, log2[i].kind = "ARTIFACT_SUPERSEDED"
        PROVE  gates2[log2[i].gate].status = "STALE"
    <3>1. CASE i = k BY <1>2, <1>3, <1>4, <2>1, <3>1 DEF NextFits
    <3>2. CASE i \in DOMAIN log
      BY <1>2, <1>3, <1>10, <2>1, <3>2 DEF History, Final, Recorded
    <3> QED BY <1>3, <3>1, <3>2
  <2>2. ASSUME NEW i \in DOMAIN log2, log2[i].resulting = "CANCELLED"
        PROVE  gates2[log2[i].gate].status = "CANCELLED"
    <3>1. CASE i = k BY <1>2, <1>3, <1>4, <2>2, <3>1
    <3>2. CASE i \in DOMAIN log
      BY <1>2, <1>3, <1>10, <2>2, <3>2 DEF History, Final, Recorded
    <3> QED BY <1>3, <3>1, <3>2
  <2>3. ASSUME NEW i \in DOMAIN log2, log2[i].resulting = "PAUSED_NEEDS_HUMAN"
        PROVE  /\ gates2[log2[i].gate].status \in {"PAUSED_NEEDS_HUMAN", "CANCELLED", "STALE"}
               /\ gates2[log2[i].gate].iteration = gates2[log2[i].gate].max
               /\ ~ApprovedOnce(log2, log2[i].gate)
    <3>1. CASE i = k
      <4>1. next.status = "PAUSED_NEEDS_HUMAN" /\ log2[i].gate = n
        BY <1>3, <1>4, <2>3, <3>1
      <4>2. gates[n].status = "PENDING_APPROVAL" /\ next.iteration = next.max
            /\ event.kind # "APPROVE"
        BY <4>1 DEF NextFits, Stored
      <4> QED BY <1>2, <1>11, <1>12, <4>1, <4>2
    <3>2. CASE i \in DOMAIN log
      <4>1. /\ log2[i].gate = log[i].gate /\ log[i].gate \in DOMAIN gates
            /\ gates[log[i].gate].status \in {"PAUSED_NEEDS_HUMAN", "CANCELLED", "STALE"}
            /\ gates[log[i].gate].iteration = gates[log[i].gate].max
            /\ ~ApprovedOnce(log, log[i].gate)
        BY <1>3, <2>3, <3>2 DEF History, Final, Recorded
      <4>2. CASE log[i].gate = n
        <5>1. next.status \in {"CANCELLED", "STALE"} /\ event.kind # "APPROVE"
          BY <4>1, <4>2 DEF NextFits
        <5> QED BY <1>2, <1>4, <1>11, <4>1, <4>2, <5>1
      <4>3. CASE log[i].gate # n
        BY <1>2, <1>11, <4>1, <4>3
      <4> QED BY <4>2, <4>3
    <3> QED BY <1>3, <3>1, <3>2
  <2> QED BY <2>1, <2>2, <2>3 DEF Final
<1>14. Seen(gates2, log2)
  <2>1. ASSUME NEW g \in DOMAIN gates, g # n
        PROVE  ApprovedOnce(log2, g) <=> ApprovalSeen(gates2[g], log2)
    <3>1. gates[g].iteration = g BY DEF History, Numbered
    <3>2. gates2[g] = gates[g] BY <1>2, <2>1
    <3>3. ~(log2[k].gate = g) BY <1>3, <1>4, <2>1
    <3>4. (\E i \in DOMAIN log2 : /\ log2[i].gate = g /\ log2[i].previous = "APPROVED"
                                  /\ log2[i].kind = "ARTIFACT_SUPERSEDED") <=>
          (\E i \in DOMAIN log : /\ log[i].gate = g /\ log[i].previous = "APPROVED"
                                 /\ log[i].kind = "ARTIFACT_SUPERSEDED")
      BY <1>3, <3>3
    <3>5. ApprovalSeen(gates2[g], log2) <=> ApprovalSeen(gates[g], log)
      BY <3>1, <3>2, <3>4 DEF ApprovalSeen
    <3>6. ApprovedOnce(log2, g) <=> ApprovedOnce(log, g)
      BY <1>11, <2>1
    <3>7. ApprovedOnce(log, g) <=> ApprovalSeen(gates[g], log)
      BY DEF History, Seen
    <3> QED BY <3>5, <3>6, <3>7
  <2>2. ApprovedOnce(log2, n) <=> ApprovalSeen(gates2[n], log2)
    <3>1. ApprovalSeen(gates2[n], log2) <=>
            \/ next.status = "APPROVED"
            \/ event.kind = "ARTIFACT_SUPERSEDED" /\ gates[n].status = "APPROVED"
      <4>1. gates2[n].iteration = n /\ gates2[n].status = next.status BY <1>2, <1>4
      <4>2. (\E i \in DOMAIN log2 : /\ log2[i].gate = n /\ log2[i].previous = "APPROVED"
                                    /\ log2[i].kind = "ARTIFACT_SUPERSEDED") <=>
              event.kind = "ARTIFACT_SUPERSEDED" /\ gates[n].status = "APPROVED"
        BY <1>3, <1>4, <1>10
      <4> QED BY <4>1, <4>2 DEF ApprovalSeen
    <3>2. ApprovedOnce(log2, n) <=> gates[n].status = "APPROVED" \/ event.kind = "APPROVE"
      BY <1>11, <1>12
    <3> QED BY <3>1, <3>2 DEF NextFits
  <2> QED BY <1>2, <2>1, <2>2 DEF Seen
<1>15. Capped(gates2, log2)
  <2>1. \A g \in DOMAIN gates : gates2[g].max = gates[g].max
    BY <1>2, <1>4
  <2>3. ASSUME NEW g \in DOMAIN gates
        PROVE  /\ gates[g].max - IterationLimit \in 0..(g - 1)
               /\ \A h \in (gates[g].max - IterationLimit + 1)..(g - 1) : ~ApprovedOnce(log2, h)
               /\ gates[g].max # IterationLimit => ApprovedOnce(log2, gates[g].max - IterationLimit)
    <3>1. /\ gates[g].max - IterationLimit \in 0..(g - 1)
          /\ \A h \in (gates[g].max - IterationLimit + 1)..(g - 1) : ~ApprovedOnce(log, h)
          /\ gates[g].max # IterationLimit => ApprovedOnce(log, gates[g].max - IterationLimit)
      BY DEF History, Capped
    <3>2. ASSUME NEW h \in (gates[g].max - IterationLimit + 1)..(g - 1)
          PROVE  ~ApprovedOnce(log2, h)
      <4>1. h # n BY <1>1, <3>1
      <4> QED BY <1>11, <3>1, <4>1
    <3>3. ApprovedOnce(log, gates[g].max - IterationLimit) =>
            ApprovedOnce(log2, gates[g].max - IterationLimit)
      BY <1>11
    <3> QED BY <3>1, <3>2, <3>3
  <2> QED BY <1>2, <2>1, <2>3 DEF Capped
<1> QED
  BY <1>2, <1>3, <1>6, <1>7, <1>8, <1>9, <1>13, <1>14, <1>15 DEF History

(* A gate is opened behind the last one, within the budget.                *)
LEMMA OpenKeepsHistory ==
  ASSUME NEW gates, NEW log, History(gates, log), NEW n, n = Len(gates),
         NEW next \in Gate, NEW event \in Event,
         /\ next.iteration = n + 1 /\ next.status = "PENDING_APPROVAL"
         /\ next.resume = NoStatus /\ next.seq = 1,
         /\ event.gate = n + 1 /\ event.seq = 1 /\ event.kind = "SUBMIT"
         /\ event.previous = "DRAFT" /\ event.resulting = "PENDING_APPROVAL"
         /\ event.at = next.updated,
         \/ n = 0 /\ next.max = IterationLimit
         \/ n # 0 /\ ApprovalSeen(gates[n], log) /\ next.max = n + IterationLimit
         \/ /\ n # 0 /\ ~ApprovalSeen(gates[n], log)
            /\ next.max = gates[n].max /\ n + 1 <= next.max,
         NEW gates2, gates2 = Append(gates, next),
         NEW log2, log2 = Append(log, event)
  PROVE  History(gates2, log2)
<1> DEFINE k == Len(log) + 1
           m == n + 1
<1>1. gates \in Seq(Gate) /\ log \in Seq(Event) /\ n \in Nat /\ m \in Nat /\ m >= 1
  BY DEF History
<1>2. /\ gates2 \in Seq(Gate) /\ DOMAIN gates = 1..n
      /\ DOMAIN gates2 = DOMAIN gates \cup {m} /\ m \notin DOMAIN gates
      /\ gates2[m] = next /\ \A g \in DOMAIN gates : gates2[g] = gates[g]
  BY <1>1, AppendIs
<1>3. /\ log2 \in Seq(Event) /\ k \in Nat
      /\ DOMAIN log2 = DOMAIN log \cup {k} /\ k \notin DOMAIN log
      /\ log2[k] = event
      /\ \A i \in DOMAIN log : log2[i] = log[i] /\ i \in Nat /\ 1 <= i /\ i <= k - 1
  BY <1>1, AppendIs
<1>4. /\ next.iteration = m /\ event.gate = m
      /\ event.seq = 1 /\ event.kind = "SUBMIT" /\ event.previous = "DRAFT"
      /\ event.resulting = "PENDING_APPROVAL" /\ event.at = next.updated
  OBVIOUS
<1> HIDE DEF k
<1>5. \A i \in DOMAIN log : log[i].gate \in DOMAIN gates /\ log[i].gate # m
  BY <1>2 DEF History, Recorded
<1>6. next.max \in Nat /\ IterationLimit \in Nat /\ IterationLimit >= 1
  BY LimitAssumption DEF Gate
<1>7. Stored(next)
  <2>1. next.iteration \in 1..next.max BY <1>1, <1>6
  <2> QED BY <2>1 DEF Stored, NoStatus
<1>8. ASSUME NEW g PROVE ApprovedOnce(log2, g) <=> ApprovedOnce(log, g)
  <2>1. (\E i \in DOMAIN log2 : log2[i].gate = g /\ log2[i].kind = "APPROVE") <=>
          (\E i \in DOMAIN log : log[i].gate = g /\ log[i].kind = "APPROVE")
    BY <1>3, <1>4
  <2> QED BY <2>1 DEF ApprovedOnce
<1>9. ~ApprovedOnce(log2, m)
  BY <1>5, <1>8 DEF ApprovedOnce
<1>10. ASSUME NEW g \in DOMAIN gates
       PROVE  ApprovalSeen(gates2[g], log2) <=> ApprovalSeen(gates[g], log)
  <2>1. gates[g].iteration = g /\ gates2[g] = gates[g] BY <1>2 DEF History, Numbered
  <2>2. (\E i \in DOMAIN log2 : /\ log2[i].gate = g /\ log2[i].kind = "ARTIFACT_SUPERSEDED"
                                /\ log2[i].previous = "APPROVED") <=>
          (\E i \in DOMAIN log : /\ log[i].gate = g /\ log[i].kind = "ARTIFACT_SUPERSEDED"
                                 /\ log[i].previous = "APPROVED")
    BY <1>3, <1>4
  <2> QED BY <2>1, <2>2 DEF ApprovalSeen
<1>11. Numbered(gates2)
  BY <1>2 DEF History, Numbered
<1>12. Recorded(gates2, log2)
  <2>1. ASSUME NEW i \in DOMAIN log
        PROVE  log2[i].gate \in DOMAIN gates2 /\ log2[i].seq \in 1..gates2[log2[i].gate].seq
    <3>1. log[i].gate \in DOMAIN gates /\ log[i].seq \in 1..gates[log[i].gate].seq
      BY DEF History, Recorded
    <3> QED BY <1>2, <1>3, <3>1
  <2>2. log2[k].gate \in DOMAIN gates2 /\ log2[k].seq \in 1..gates2[log2[k].gate].seq
    BY <1>2, <1>3
  <2> QED BY <1>3, <2>1, <2>2 DEF Recorded
<1>13. Told(gates2, log2)
  <2>1. ASSUME NEW i \in DOMAIN log PROVE EventFollows(log2, i)
    <3>1. EventFollows(log, i) BY DEF History, Told
    <3>2. CASE log[i].seq = 1 BY <1>3, <3>1, <3>2 DEF EventFollows
    <3>3. CASE log[i].seq # 1
      <4>1. PICK j \in 1..(i - 1) : /\ log[j].gate = log[i].gate
                                   /\ log[j].seq = log[i].seq - 1
                                   /\ log[j].resulting = log[i].previous
                                   /\ log[j].at <= log[i].at
        BY <3>1, <3>3 DEF EventFollows
      <4>2. j \in DOMAIN log BY <1>1, <1>3, <4>1
      <4> QED BY <1>3, <3>3, <4>1, <4>2 DEF EventFollows
    <3> QED BY <3>2, <3>3
  <2>2. EventFollows(log2, k)
    BY <1>3, <1>4 DEF EventFollows
  <2>3. \A i, l \in DOMAIN log2 :
          log2[i].gate = log2[l].gate /\ log2[i].seq = log2[l].seq => i = l
    BY <1>3, <1>4, <1>5 DEF History, Told
  <2>4. ASSUME NEW g \in DOMAIN gates2
        PROVE  \E i \in DOMAIN log2 : EventExplains(log2, i, gates2[g], g)
    <3>1. CASE g = m
      <4>1. EventExplains(log2, k, gates2[m], m) BY <1>2, <1>3, <1>4 DEF EventExplains
      <4> QED BY <1>3, <3>1, <4>1
    <3>2. CASE g \in DOMAIN gates
      <4>1. PICK i \in DOMAIN log : EventExplains(log, i, gates[g], g)
        BY <3>2 DEF History, Told
      <4>2. EventExplains(log2, i, gates2[g], g)
        BY <1>2, <1>3, <3>2, <4>1 DEF EventExplains
      <4> QED BY <1>3, <4>2
    <3> QED BY <1>2, <3>1, <3>2
  <2> QED BY <1>3, <2>1, <2>2, <2>3, <2>4 DEF Told
<1>14. \A g \in DOMAIN gates2 : Stored(gates2[g])
  BY <1>2, <1>7 DEF History
<1>15. Final(gates2, log2)
  <2>1. \A i \in DOMAIN log : gates2[log[i].gate] = gates[log[i].gate]
    BY <1>2, <1>5
  <2>2. /\ log2[k].kind # "ARTIFACT_SUPERSEDED" /\ log2[k].resulting # "CANCELLED"
        /\ log2[k].resulting # "PAUSED_NEEDS_HUMAN"
    BY <1>3, <1>4
  <2>3. ASSUME NEW i \in DOMAIN log2, log2[i].kind = "ARTIFACT_SUPERSEDED"
        PROVE  gates2[log2[i].gate].status = "STALE"
    <3>1. i \in DOMAIN log /\ log2[i] = log[i] BY <1>3, <2>2, <2>3
    <3>2. gates[log[i].gate].status = "STALE" BY <2>3, <3>1 DEF History, Final
    <3> QED BY <2>1, <3>1, <3>2
  <2>4. ASSUME NEW i \in DOMAIN log2, log2[i].resulting = "CANCELLED"
        PROVE  gates2[log2[i].gate].status = "CANCELLED"
    <3>1. i \in DOMAIN log /\ log2[i] = log[i] BY <1>3, <2>2, <2>4
    <3>2. gates[log[i].gate].status = "CANCELLED" BY <2>4, <3>1 DEF History, Final
    <3> QED BY <2>1, <3>1, <3>2
  <2>5. ASSUME NEW i \in DOMAIN log2, log2[i].resulting = "PAUSED_NEEDS_HUMAN"
        PROVE  /\ gates2[log2[i].gate].status \in {"PAUSED_NEEDS_HUMAN", "CANCELLED", "STALE"}
               /\ gates2[log2[i].gate].iteration = gates2[log2[i].gate].max
               /\ ~ApprovedOnce(log2, log2[i].gate)
    <3>1. i \in DOMAIN log /\ log2[i] = log[i] BY <1>3, <2>2, <2>5
    <3>2. /\ gates[log[i].gate].status \in {"PAUSED_NEEDS_HUMAN", "CANCELLED", "STALE"}
          /\ gates[log[i].gate].iteration = gates[log[i].gate].max
          /\ ~ApprovedOnce(log, log[i].gate)
      BY <2>5, <3>1 DEF History, Final
    <3> QED BY <1>8, <2>1, <3>1, <3>2
  <2> QED BY <2>3, <2>4, <2>5 DEF Final
<1>16. Seen(gates2, log2)
  <2>1. ASSUME NEW g \in DOMAIN gates
        PROVE  ApprovedOnce(log2, g) <=> ApprovalSeen(gates2[g], log2)
    BY <1>8, <1>10 DEF History, Seen
  <2>2. ~ApprovalSeen(gates2[m], log2)
    BY <1>2, <1>3, <1>4, <1>5 DEF ApprovalSeen
  <2> QED BY <1>2, <1>9, <2>1, <2>2 DEF Seen
<1>17. Capped(gates2, log2)
  <2>1. ASSUME NEW g \in DOMAIN gates
        PROVE  /\ gates2[g].max - IterationLimit \in 0..(g - 1)
               /\ \A h \in (gates2[g].max - IterationLimit + 1)..(g - 1) : ~ApprovedOnce(log2, h)
               /\ gates2[g].max # IterationLimit =>
                    ApprovedOnce(log2, gates2[g].max - IterationLimit)
    <3>1. /\ gates[g].max - IterationLimit \in 0..(g - 1)
          /\ \A h \in (gates[g].max - IterationLimit + 1)..(g - 1) : ~ApprovedOnce(log, h)
          /\ gates[g].max # IterationLimit => ApprovedOnce(log, gates[g].max - IterationLimit)
      BY DEF History, Capped
    <3>2. gates2[g] = gates[g] BY <1>2
    <3> QED BY <1>8, <3>1, <3>2
  <2>2. /\ next.max - IterationLimit \in 0..(m - 1)
        /\ \A h \in (next.max - IterationLimit + 1)..(m - 1) : ~ApprovedOnce(log2, h)
        /\ next.max # IterationLimit => ApprovedOnce(log2, next.max - IterationLimit)
    <3>1. CASE n = 0 /\ next.max = IterationLimit
      BY <1>1, <1>6, <3>1
    <3>2. CASE n # 0 /\ ApprovalSeen(gates[n], log) /\ next.max = n + IterationLimit
      <4>1. ApprovedOnce(log2, n) BY <1>1, <1>2, <1>8, <3>2 DEF History, Seen
      <4>2. next.max - IterationLimit = n BY <1>1, <1>6, <3>2
      <4> QED BY <1>1, <4>1, <4>2
    <3>3. CASE n # 0 /\ ~ApprovalSeen(gates[n], log) /\ next.max = gates[n].max
      <4>1. n \in DOMAIN gates BY <1>1, <1>2, <3>3
      <4>2. ~ApprovedOnce(log2, n) BY <1>8, <3>3, <4>1 DEF History, Seen
      <4>3. /\ gates2[n].max - IterationLimit \in 0..(n - 1)
            /\ \A h \in (gates2[n].max - IterationLimit + 1)..(n - 1) : ~ApprovedOnce(log2, h)
            /\ gates2[n].max # IterationLimit =>
                 ApprovedOnce(log2, gates2[n].max - IterationLimit)
        BY <2>1, <4>1
      <4>4. gates2[n].max = next.max BY <1>2, <3>3, <4>1
      <4> DEFINE base == next.max - IterationLimit
      <4>5. /\ base \in 0..(n - 1)
            /\ \A h \in (base + 1)..(n - 1) : ~ApprovedOnce(log2, h)
            /\ next.max # IterationLimit => ApprovedOnce(log2, base)
        BY <4>3, <4>4
      <4> HIDE DEF base
      <4>6. base \in 0..(m - 1) BY <1>1, <4>5
      <4>7. ASSUME NEW h \in (base + 1)..(m - 1) PROVE ~ApprovedOnce(log2, h)
        <5>1. h = n \/ h \in (base + 1)..(n - 1) BY <1>1, <4>5
        <5> QED BY <4>2, <4>5, <5>1
      <4> QED BY <4>5, <4>6, <4>7 DEF base
    <3> QED BY <3>1, <3>2, <3>3
  <2> QED BY <1>2, <2>1, <2>2 DEF Capped
<1> QED
  BY <1>2, <1>3, <1>11, <1>12, <1>13, <1>14, <1>15, <1>16, <1>17 DEF History

LEMMA LatestIs ==
  ASSUME NEW gates, NEW log, History(gates, log), NEW n, n = Len(gates),
         NEW gate, gate = LatestOf(gates)
  PROVE  /\ gate = NoGate <=> gates = <<>>
         /\ n = 0 <=> gates = <<>>
         /\ gates # <<>> => /\ gate = gates[n] /\ n \in DOMAIN gates /\ gate.iteration = n
                            /\ gate \in Gate /\ Stored(gate)
<1>1. gates \in Seq(Gate) /\ (n = 0 <=> gates = <<>>) /\ (gates # <<>> => n \in DOMAIN gates)
  BY DEF History
<1>2. CASE gates = <<>>
  BY <1>1, <1>2 DEF LatestOf
<1>3. CASE gates # <<>>
  <2>1. gate = gates[n] /\ n \in DOMAIN gates BY <1>1, <1>3 DEF LatestOf
  <2>2. gate \in Gate BY <1>1, <2>1
  <2>3. gate.iteration = n /\ Stored(gate) BY <2>1 DEF History, Numbered
  <2>4. NoGate.iteration = 0 /\ n # 0 BY <1>1, <1>3 DEF NoGate, DraftGate
  <2> QED BY <1>1, <1>3, <2>1, <2>2, <2>3, <2>4
<1> QED BY <1>2, <1>3

(* The latest gate is superseded.                                          *)
LEMMA StalingKeepsHistory ==
  ASSUME NEW gates, NEW log, History(gates, log), NEW gate, gate = LatestOf(gates),
         gate # NoGate, NEW artifact \in Nat, NEW at \in Nat,
         StaleApplies(gate, artifact, at)
  PROVE  History([gates EXCEPT ![Len(gates)] = Staled(gate, at)],
                 Append(log, StaleEvent(gate, artifact, at)))
<1> DEFINE n == Len(gates)
<1>1. gates # <<>> /\ gate = gates[n] /\ gate \in Gate /\ Stored(gate)
  BY LatestIs
<1>2. Staled(gate, at) \in Gate /\ StaleEvent(gate, artifact, at) \in Event
  BY <1>1, StaledType
<1>3. /\ Follows(gates[n], Staled(gate, at), StaleEvent(gate, artifact, at))
      /\ NextFits(gates[n], Staled(gate, at), StaleEvent(gate, artifact, at))
  BY <1>1, StalingFits
<1> QED BY <1>1, <1>2, <1>3, MoveKeepsHistory

(* An owner's decision on the latest gate.                                 *)
LEMMA DecisionKeepsHistory ==
  ASSUME NEW gates, NEW log, History(gates, log), NEW gate, gate = LatestOf(gates),
         gate # NoGate, NEW action \in Actions, NEW reason, NEW at \in Nat,
         Applies(gate, action, reason, at)
  PROVE  History([gates EXCEPT ![Len(gates)] = Transitioned(gate, action, at)],
                 Append(log, TransitionEvent(gate, action, at)))
<1> DEFINE n == Len(gates)
<1>1. gates # <<>> /\ gate = gates[n] /\ gate \in Gate /\ Stored(gate)
  BY LatestIs
<1>2. Transitioned(gate, action, at) \in Gate /\ TransitionEvent(gate, action, at) \in Event
  BY <1>1, TransitionedType DEF Applies
<1>3. /\ Follows(gates[n], Transitioned(gate, action, at), TransitionEvent(gate, action, at))
      /\ NextFits(gates[n], Transitioned(gate, action, at), TransitionEvent(gate, action, at))
  BY <1>1, TransitionFits
<1> QED BY <1>1, <1>2, <1>3, MoveKeepsHistory

(* A submission supersedes the latest gate where it has to.                *)
LEMMA SupersessionKeepsHistory ==
  ASSUME NEW gates, NEW log, History(gates, log), NEW gate, gate = LatestOf(gates),
         NEW artifact \in Nat, NEW at \in Nat, SubmissionProceeds(gate, artifact, at)
  PROVE  /\ History(WithLatestSuperseded(gates, gate, at),
                    WithSupersession(log, gate, artifact, at))
         /\ Len(WithLatestSuperseded(gates, gate, at)) = Len(gates)
         /\ gate # NoGate =>
              WithLatestSuperseded(gates, gate, at)[Len(gates)] = Superseded(gate, at)
<1>1. CASE ~NeedsStaling(gate)
  <2>1. /\ WithLatestSuperseded(gates, gate, at) = gates
        /\ WithSupersession(log, gate, artifact, at) = log
        /\ Superseded(gate, at) = gate
    BY <1>1 DEF WithLatestSuperseded, WithSupersession, Superseded
  <2>2. gate # NoGate => gates[Len(gates)] = gate
    BY LatestIs
  <2> QED BY <2>1, <2>2
<1>2. CASE NeedsStaling(gate)
  <2>1. gate # NoGate /\ StaleApplies(gate, artifact, at)
    BY <1>2 DEF NeedsStaling, SubmissionProceeds
  <2>2. gates # <<>> /\ gate \in Gate /\ gates \in Seq(Gate)
    BY <2>1, LatestIs DEF History
  <2>3. /\ WithLatestSuperseded(gates, gate, at) = [gates EXCEPT ![Len(gates)] = Staled(gate, at)]
        /\ WithSupersession(log, gate, artifact, at) = Append(log, StaleEvent(gate, artifact, at))
        /\ Superseded(gate, at) = Staled(gate, at)
    BY <1>2 DEF WithLatestSuperseded, WithSupersession, Superseded
  <2>4. Staled(gate, at) \in Gate
    BY <2>2, StaledType
  <2>5. Len(gates) \in 1..Len(gates)
    BY <2>2
  <2>6. /\ Len([gates EXCEPT ![Len(gates)] = Staled(gate, at)]) = Len(gates)
        /\ [gates EXCEPT ![Len(gates)] = Staled(gate, at)][Len(gates)] = Staled(gate, at)
    BY <2>2, <2>4, <2>5, ReplaceLast
  <2>7. History([gates EXCEPT ![Len(gates)] = Staled(gate, at)],
                Append(log, StaleEvent(gate, artifact, at)))
    BY <2>1, StalingKeepsHistory
  <2> QED BY <2>3, <2>6, <2>7
<1> QED BY <1>1, <1>2

(* A draft is submitted behind the last gate.                              *)
LEMMA DraftKeepsHistory ==
  ASSUME NEW gates, NEW log, History(gates, log), NEW n, n = Len(gates),
         NEW artifact \in Nat, NEW max \in Nat, NEW at \in Nat,
         NEW draft, draft = DraftGate(artifact, n + 1, max, at),
         \/ n = 0 /\ max = IterationLimit
         \/ n # 0 /\ ApprovalSeen(gates[n], log) /\ max = n + IterationLimit
         \/ /\ n # 0 /\ ~ApprovalSeen(gates[n], log)
            /\ max = gates[n].max /\ n + 1 <= max
  PROVE  History(Append(gates, Transitioned(draft, "SUBMIT", at)),
                 Append(log, TransitionEvent(draft, "SUBMIT", at)))
<1> DEFINE next  == Transitioned(draft, "SUBMIT", at)
           event == TransitionEvent(draft, "SUBMIT", at)
<1>1. draft \in Gate
  <2>1. n + 1 \in Nat BY DEF History
  <2> QED BY <2>1, DraftGateType
<1>2. /\ draft.iteration = n + 1 /\ draft.max = max /\ draft.status = "DRAFT" /\ draft.seq = 0
  BY DEF DraftGate
<1>3. TargetStatus(draft, "SUBMIT") = "PENDING_APPROVAL"
  BY <1>2, SubmittedDraft
<1>4. next \in Gate /\ event \in Event
  BY <1>1, <1>3, TransitionedType DEF NoStatus, Actions
<1>5. /\ next.iteration = n + 1 /\ next.status = "PENDING_APPROVAL" /\ next.resume = NoStatus
      /\ next.seq = 1 /\ next.max = max /\ next.updated = at
  <2>1. next.seq = draft.seq + 1 BY <1>1 DEF Transitioned, Gate
  <2>2. ResumeStatus(draft, "SUBMIT") = NoStatus BY DEF ResumeStatus
  <2>3. next.status = "PENDING_APPROVAL" BY <1>1, <1>3 DEF Transitioned, Gate
  <2>4. next.resume = NoStatus BY <1>1, <2>2 DEF Transitioned, Gate
  <2>5. next.iteration = n + 1 /\ next.max = max /\ next.updated = at
    BY <1>1, <1>2 DEF Transitioned, Gate
  <2>6. next.seq = 1
    BY <1>2, <2>1
  <2> QED BY <2>3, <2>4, <2>5, <2>6
<1>6. /\ event.gate = n + 1 /\ event.seq = 1 /\ event.kind = "SUBMIT"
      /\ event.previous = "DRAFT" /\ event.resulting = "PENDING_APPROVAL" /\ event.at = at
  BY <1>2, <1>3 DEF TransitionEvent
<1> HIDE DEF next, event
<1>7. /\ next.iteration = n + 1 /\ next.status = "PENDING_APPROVAL"
      /\ next.resume = NoStatus /\ next.seq = 1
  BY <1>5
<1>8. /\ event.gate = n + 1 /\ event.seq = 1 /\ event.kind = "SUBMIT"
      /\ event.previous = "DRAFT" /\ event.resulting = "PENDING_APPROVAL"
      /\ event.at = next.updated
  BY <1>5, <1>6
<1>9. \/ n = 0 /\ next.max = IterationLimit
      \/ n # 0 /\ ApprovalSeen(gates[n], log) /\ next.max = n + IterationLimit
      \/ /\ n # 0 /\ ~ApprovalSeen(gates[n], log)
         /\ next.max = gates[n].max /\ n + 1 <= next.max
  BY <1>5
<1>10. History(Append(gates, next), Append(log, event))
  BY <1>4, <1>7, <1>8, <1>9, OpenKeepsHistory
<1> QED BY <1>10 DEF next, event

(* The cap of the next gate, when the budget allows one.                   *)
LEMMA NextCap ==
  ASSUME NEW gates, NEW log, History(gates, log), NEW n, n = Len(gates), n # 0,
         ~BudgetSpent(gates[n], log), NEW max, max = NextMax(gates[n], log)
  PROVE  /\ max \in Nat
         /\ \/ ApprovalSeen(gates[n], log) /\ max = n + IterationLimit
            \/ ~ApprovalSeen(gates[n], log) /\ max = gates[n].max /\ n + 1 <= max
<1>1. n \in Nat /\ n \in DOMAIN gates /\ gates[n] \in Gate
  BY DEF History
<1>2. gates[n].iteration = n /\ gates[n].max \in Nat
  BY <1>1 DEF History, Numbered, Gate
<1>3. CASE ApprovalSeen(gates[n], log)
  <2>1. max = n + 1 + IterationLimit - 1
    BY <1>2, <1>3 DEF NextMax, NextIteration
  <2> QED BY <1>1, <1>3, <2>1, LimitAssumption
<1>4. CASE ~ApprovalSeen(gates[n], log)
  <2>1. max = gates[n].max /\ ~(n + 1 > max)
    BY <1>2, <1>4 DEF NextMax, BudgetSpent, NextIteration
  <2> QED BY <1>1, <1>2, <1>4, <2>1
<1> QED BY <1>3, <1>4

(* A submission supersedes the latest gate where it has to, and opens the  *)
(* next one within the budget.                                             *)
LEMMA SubmissionKeepsHistory ==
  ASSUME NEW gates, NEW log, History(gates, log), NEW gate, gate = LatestOf(gates),
         NEW artifact \in Nat, NEW at \in Nat, SubmissionProceeds(gate, artifact, at),
         NEW gates1, gates1 = WithLatestSuperseded(gates, gate, at),
         NEW log1, log1 = WithSupersession(log, gate, artifact, at),
         ~OverLimit(gate, log1, at),
         NEW draft, draft = NextDraft(gate, log1, artifact, at)
  PROVE  History(Append(gates1, Transitioned(draft, "SUBMIT", at)),
                 Append(log1, TransitionEvent(draft, "SUBMIT", at)))
<1> DEFINE n   == Len(gates)
           max == IF gate = NoGate THEN IterationLimit
                                   ELSE NextMax(Superseded(gate, at), log1)
<1>1. History(gates1, log1) /\ Len(gates1) = n
      /\ (gate # NoGate => gates1[n] = Superseded(gate, at))
  BY SupersessionKeepsHistory
<1>2. /\ n = 0 <=> gate = NoGate
      /\ gate # NoGate => gate.iteration = n
      /\ n \in Nat
  BY LatestIs DEF History
<1>3. draft = DraftGate(artifact, n + 1, max, at)
  BY <1>2 DEF NextDraft, DraftGate, NextIteration
<1>4. /\ max \in Nat
      /\ \/ n = 0 /\ max = IterationLimit
         \/ n # 0 /\ ApprovalSeen(gates1[n], log1) /\ max = n + IterationLimit
         \/ /\ n # 0 /\ ~ApprovalSeen(gates1[n], log1)
            /\ max = gates1[n].max /\ n + 1 <= max
  <2>1. CASE gate = NoGate BY <1>2, <2>1, LimitAssumption
  <2>2. CASE gate # NoGate
    <3>1. /\ n # 0 /\ ~BudgetSpent(gates1[n], log1) /\ max = NextMax(gates1[n], log1)
      BY <1>1, <1>2, <2>2 DEF OverLimit
    <3> HIDE DEF max, n
    <3> QED BY <1>1, <3>1, NextCap
  <2> QED BY <2>1, <2>2
<1> HIDE DEF max, n
<1> QED BY <1>1, <1>3, <1>4, DraftKeepsHistory

-----------------------------------------------------------------------------

(***************************************************************************)
(* What a history says.                                                    *)
(***************************************************************************)

(* A gate that has waited for a human has no attempt left behind it.       *)
LEMMA HumanIsLast ==
  ASSUME NEW gates, NEW log, History(gates, log), NEW n, n = Len(gates),
         NEW i \in DOMAIN log, log[i].resulting = "PAUSED_NEEDS_HUMAN", log[i].gate = n
  PROVE  n \in DOMAIN gates /\ BudgetSpent(gates[n], log)
<1>1. n \in DOMAIN gates /\ gates[n].iteration = n
  BY DEF History, Recorded, Numbered
<1>2. gates[n].iteration = gates[n].max /\ ~ApprovedOnce(log, n)
  BY DEF History, Final
<1>3. ~ApprovalSeen(gates[n], log)
  BY <1>1, <1>2 DEF History, Seen
<1>4. n \in Nat /\ n + 1 > n
  BY DEF History
<1> QED BY <1>1, <1>2, <1>3, <1>4 DEF BudgetSpent, NextIteration

(* Nothing gets past a gate that was cancelled or waits for a human.       *)
LEMMA SubmissionAfterNoEnd ==
  ASSUME NEW gates, NEW log, History(gates, log), NEW gate, gate = LatestOf(gates),
         NEW artifact \in Nat, NEW at \in Nat, SubmissionProceeds(gate, artifact, at),
         NEW log1, log1 = WithSupersession(log, gate, artifact, at),
         ~OverLimit(gate, log1, at),
         NEW i \in DOMAIN log1, log1[i].gate = Len(gates)
  PROVE  log1[i].resulting \notin {"CANCELLED", "PAUSED_NEEDS_HUMAN"}
<1> DEFINE gates1 == WithLatestSuperseded(gates, gate, at)
           n      == Len(gates)
<1>1. History(gates1, log1) /\ Len(gates1) = n
      /\ (gate # NoGate => gates1[n] = Superseded(gate, at))
  BY SupersessionKeepsHistory
<1> HIDE DEF gates1
<1>2. n \in DOMAIN gates1
  BY <1>1 DEF History, Recorded
<1>3. gate # NoGate
  <2>1. n # 0 BY <1>1, <1>2 DEF History
  <2> QED BY <2>1, LatestIs
<1>4. log1[i].resulting # "PAUSED_NEEDS_HUMAN"
  <2> SUFFICES ASSUME log1[i].resulting = "PAUSED_NEEDS_HUMAN" PROVE FALSE
    OBVIOUS
  <2>1. BudgetSpent(gates1[n], log1)
    BY <1>1, HumanIsLast
  <2> QED BY <1>1, <1>3, <2>1 DEF OverLimit
<1>5. log1[i].resulting # "CANCELLED"
  <2> SUFFICES ASSUME log1[i].resulting = "CANCELLED" PROVE FALSE
    OBVIOUS
  <2>1. gates1[n].status = "CANCELLED"
    BY <1>1 DEF History, Final
  <2>2. gate \in Gate
    BY <1>3, LatestIs
  <2>3. CASE NeedsStaling(gate)
    BY <1>1, <1>3, <2>1, <2>2, <2>3 DEF Superseded, Staled, Gate
  <2>4. CASE ~NeedsStaling(gate)
    BY <1>1, <1>3, <2>1, <2>4 DEF Superseded, NeedsStaling
  <2> QED BY <2>3, <2>4
<1> QED BY <1>4, <1>5

(* Who is refused has used up its attempts since the last approval.        *)
LEMMA RefusedHasSpent ==
  ASSUME NEW gates, NEW log, History(gates, log), NEW gate, gate = LatestOf(gates),
         NEW artifact \in Nat, NEW at \in Nat, SubmissionProceeds(gate, artifact, at),
         OverLimit(gate, WithSupersession(log, gate, artifact, at), at)
  PROVE  /\ Len(gates) >= IterationLimit
         /\ \A h \in (Len(gates) - IterationLimit + 1)..Len(gates) : ~ApprovedOnce(log, h)
<1> DEFINE gates1 == WithLatestSuperseded(gates, gate, at)
           log1   == WithSupersession(log, gate, artifact, at)
           n      == Len(gates)
<1>1. gate # NoGate /\ BudgetSpent(Superseded(gate, at), log1)
  BY DEF OverLimit
<1>2. History(gates1, log1) /\ Len(gates1) = n /\ gates1[n] = Superseded(gate, at)
  BY <1>1, SupersessionKeepsHistory
<1>3. n \in DOMAIN gates
  BY <1>1, LatestIs
<1>4. n \in Nat /\ n \in 1..n /\ DOMAIN gates1 = 1..n
  BY <1>2, <1>3 DEF History
<1>5. ASSUME NEW h, ApprovedOnce(log, h) PROVE ApprovedOnce(log1, h)
  <2>1. PICK i \in DOMAIN log : log[i].gate = h /\ log[i].kind = "APPROVE"
    BY <1>5 DEF ApprovedOnce
  <2>2. i \in DOMAIN log1 /\ log1[i] = log[i]
    <3>1. log1 = log \/ log1 = Append(log, StaleEvent(gate, artifact, at))
      BY DEF WithSupersession
    <3>2. log \in Seq(Event) /\ StaleEvent(gate, artifact, at) \in Event
      <4>1. gate \in Gate BY <1>1, LatestIs
      <4> QED BY <4>1, StaledType DEF History
    <3> HIDE DEF log1
    <3> QED BY <3>1, <3>2, AppendIs
  <2> QED BY <2>1, <2>2 DEF ApprovedOnce
<1> HIDE DEF gates1, log1
<1> DEFINE max == gates1[n].max
<1>6. /\ ~ApprovalSeen(gates1[n], log1) /\ n + 1 > max /\ gates1[n].iteration = n
      /\ n <= max /\ max \in Nat
  <2>1. gates1[n].iteration = n
    BY <1>2, <1>4 DEF History, Numbered
  <2>2. ~ApprovalSeen(gates1[n], log1) /\ n + 1 > max
    BY <1>1, <1>2, <2>1 DEF BudgetSpent, NextIteration
  <2>3. Stored(gates1[n]) /\ gates1[n] \in Gate
    BY <1>2, <1>4 DEF History
  <2>4. max \in Nat /\ n \in 1..max
    BY <2>1, <2>3 DEF Stored, Gate
  <2> QED BY <2>1, <2>2, <2>4
<1>7. max = n
  BY <1>4, <1>6
<1>8. /\ max - IterationLimit \in 0..(n - 1)
      /\ \A h \in (max - IterationLimit + 1)..(n - 1) : ~ApprovedOnce(log1, h)
  BY <1>2, <1>4 DEF History, Capped
<1>9. ~ApprovedOnce(log1, n)
  BY <1>2, <1>4, <1>6 DEF History, Seen
<1> HIDE DEF max
<1>10. n >= IterationLimit
  BY <1>4, <1>7, <1>8, LimitAssumption
<1>11. ASSUME NEW h \in (n - IterationLimit + 1)..n PROVE ~ApprovedOnce(log, h)
  <2>1. h = n \/ h \in (max - IterationLimit + 1)..(n - 1)
    BY <1>4, <1>7, LimitAssumption
  <2> QED BY <1>5, <1>8, <1>9, <2>1
<1> QED BY <1>10, <1>11

(* A gate beyond the limit owes its place to an approval before it.        *)
LEMMA CapCounts ==
  ASSUME NEW gates, NEW log, History(gates, log), NEW g \in DOMAIN gates, g > IterationLimit
  PROVE  \E h \in (g - IterationLimit)..(g - 1) : ApprovedOnce(log, h)
<1> DEFINE max == gates[g].max
<1>1. /\ max - IterationLimit \in 0..(g - 1)
      /\ max # IterationLimit => ApprovedOnce(log, max - IterationLimit)
  BY DEF History, Capped
<1>2. g \in Nat /\ g >= 1
  BY DEF History
<1>3. max \in Nat /\ g <= max
  <2>1. gates[g] \in Gate /\ Stored(gates[g]) /\ gates[g].iteration = g
    BY DEF History, Numbered
  <2> QED BY <2>1 DEF Stored, Gate
<1> HIDE DEF max
<1>4. max - IterationLimit \in (g - IterationLimit)..(g - 1)
  BY <1>1, <1>2, <1>3, LimitAssumption
<1>5. max # IterationLimit
  BY <1>2, <1>3, LimitAssumption
<1> QED BY <1>1, <1>4, <1>5

-----------------------------------------------------------------------------

(***************************************************************************)
(* Where the events with certain results are: at the latest gate, n.       *)
(***************************************************************************)

EndsAt(events, ends, n) ==
  \A i \in DOMAIN events : events[i].resulting \in ends => events[i].gate = n

LEMMA EventOfLast ==
  ASSUME NEW events \in Seq(Event), NEW ends, NEW n, EndsAt(events, ends, n),
         NEW event \in Event, event.gate = n
  PROVE  EndsAt(Append(events, event), ends, n)
<1> DEFINE longer == Append(events, event)
<1>1. /\ DOMAIN longer = DOMAIN events \cup {Len(events) + 1}
      /\ longer[Len(events) + 1] = event
      /\ \A i \in DOMAIN events : longer[i] = events[i]
  BY AppendIs
<1> HIDE DEF longer
<1>2. EndsAt(longer, ends, n)
  BY <1>1 DEF EndsAt
<1> QED BY <1>2 DEF longer

(* A gate opens when no such event is behind it.                           *)
LEMMA EventOfNext ==
  ASSUME NEW events \in Seq(Event), NEW ends, NEW n, EndsAt(events, ends, n),
         \A i \in DOMAIN events : events[i].gate = n => events[i].resulting \notin ends,
         NEW event \in Event, event.resulting \notin ends, NEW m
  PROVE  EndsAt(Append(events, event), ends, m)
<1> DEFINE longer == Append(events, event)
<1>1. /\ DOMAIN longer = DOMAIN events \cup {Len(events) + 1}
      /\ longer[Len(events) + 1] = event
      /\ \A i \in DOMAIN events : longer[i] = events[i]
  BY AppendIs
<1> HIDE DEF longer
<1>2. \A i \in DOMAIN events : events[i].resulting \notin ends
  BY DEF EndsAt
<1>3. EndsAt(longer, ends, m)
  BY <1>1, <1>2 DEF EndsAt
<1> QED BY <1>3 DEF longer

(* A supersession is an event of the latest gate.                          *)
LEMMA SupersessionKeepsEnds ==
  ASSUME NEW gates, NEW log, History(gates, log), NEW ends, EndsAt(log, ends, Len(gates)),
         NEW gate, gate = LatestOf(gates), NEW artifact \in Nat, NEW at \in Nat
  PROVE  EndsAt(WithSupersession(log, gate, artifact, at), ends, Len(gates))
<1>1. CASE NeedsStaling(gate)
  <2>1. gate # NoGate BY <1>1 DEF NeedsStaling
  <2>2. gate \in Gate /\ gate.iteration = Len(gates)
    BY <2>1, LatestIs
  <2>3. StaleEvent(gate, artifact, at) \in Event
    BY <2>2, StaledType
  <2>4. StaleEvent(gate, artifact, at).gate = Len(gates)
    BY <2>2 DEF StaleEvent
  <2> QED BY <1>1, <2>3, <2>4, EventOfLast DEF WithSupersession, History
<1>2. CASE ~NeedsStaling(gate)
  BY <1>2 DEF WithSupersession
<1> QED BY <1>1, <1>2
=============================================================================

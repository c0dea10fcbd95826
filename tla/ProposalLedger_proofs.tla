------------------------ MODULE ProposalLedger_proofs ------------------------
(***************************************************************************)
(* Theorems about ProposalLedger for any number of commands and projects   *)
(* and any ceilings.                                                       *)
(***************************************************************************)
EXTENDS ProposalLedger, FiniteSetTheorems, TLAPS

(* The stages of an attempt that the project's ceiling, or both ceilings,  *)
(* have let through and that has not cost anything yet.                    *)
OnceAsked == {"total", "begin", "send", "call", "result"}

LetThrough == {"begin", "send", "call", "result"}

Uncounted(p) == {c \in Commands : tx[c].pc \in OnceAsked /\ tx[c].project = p}

UncountedInAll == {c \in Commands : tx[c].pc \in LetThrough}

(* What is spent and what is about to be: every command but one may have   *)
(* been let through by the same reading.                                   *)
ProjectInv ==
  hosted => \A p \in Projects :
    spent[p] + Cardinality(Uncounted(p)) <= PerProject + Cardinality(Commands) - 1

TotalInv ==
  hosted => total + Cardinality(UncountedInAll) <= Total + Cardinality(Commands) - 1

(* A local model costs nothing.                                            *)
FreeInv ==
  ~ hosted => /\ \A p \in Projects : spent[p] = 0
              /\ total = 0
              /\ \A c \in Commands : tx[c].cost = 0

(* A generation is retired for one of the three retries.                   *)
RoleKnown == \A c \in Commands : tx[c].pc = "retire" => tx[c].role \in Retries

Typed == TypeOK /\ RoleKnown

LedgerInv == Typed /\ ProjectInv /\ TotalInv /\ FreeInv

LEMMA Numbers ==
  /\ PerProject \in Nat \ {0} /\ Total \in Nat /\ PerProject <= Total
  /\ IsFiniteSet(Commands) /\ Cardinality(Commands) \in Nat \ {0}
<1>1. /\ PerProject \in Nat \ {0} /\ Total \in Nat /\ PerProject <= Total
      /\ IsFiniteSet(Commands) /\ Commands # {}
  BY LedgerAssumption
<1>2. Cardinality(Commands) \in Nat /\ Cardinality(Commands) # 0
  BY <1>1, FS_CardinalityType, FS_EmptySet
<1> QED BY <1>1, <1>2

LEMMA SmallerSet ==
  ASSUME NEW S, NEW T, S \subseteq T, T \subseteq Commands
  PROVE  /\ Cardinality(S) \in Nat /\ Cardinality(T) \in Nat
         /\ Cardinality(S) <= Cardinality(T)
         /\ Cardinality(T) <= Cardinality(Commands)
<1>1. IsFiniteSet(T) BY Numbers, FS_Subset
<1>2. IsFiniteSet(S) BY <1>1, FS_Subset
<1> QED BY <1>1, <1>2, Numbers, FS_Subset, FS_CardinalityType

-----------------------------------------------------------------------------
(* Types.                                                                  *)

(* One field of a command changes.                                         *)
LEMMA FieldTypes ==
  ASSUME NEW t \in Command
  PROVE  /\ \A v \in {"idle", "project", "total", "begin", "send", "call", "result", "retire",
                      "pause", "accept", "reject", "apply", "close", "done"} :
              [t EXCEPT !.pc = v] \in Command
         /\ \A v \in Projects \union {NoProject} : [t EXCEPT !.project = v] \in Command
         /\ \A v \in BOOLEAN : /\ [t EXCEPT !.strict = v] \in Command
                               /\ [t EXCEPT !.scope = v] \in Command
                               /\ [t EXCEPT !.cut = v] \in Command
         /\ \A v \in Row : [t EXCEPT !.row = v] \in Command
         /\ \A v \in {"quiet", "flying", "heard", "broken"} : [t EXCEPT !.wire = v] \in Command
         /\ \A v \in Answers \union {"NONE", "LOST"} : [t EXCEPT !.answer = v] \in Command
         /\ \A v \in 0..1 : [t EXCEPT !.cost = v] \in Command
         /\ \A v \in SUBSET Retries : /\ [t EXCEPT !.tried = v] \in Command
                                      /\ [t EXCEPT !.told = v] \in Command
         /\ \A v \in {"NONE", "RETIRED", "CREATED", "REJECTED", "FAILED"} :
              [t EXCEPT !.outcome = v] \in Command
         /\ \A v \in Retries \union {"NONE"} : [t EXCEPT !.role = v] \in Command
         /\ \A v \in SUBSET Events : [t EXCEPT !.refused = v] \in Command
<1>1. \A v \in {"idle", "project", "total", "begin", "send", "call", "result", "retire",
                      "pause", "accept", "reject", "apply", "close", "done"} : [t EXCEPT !.pc = v] \in Command
  BY DEF Command
<1>2. \A v \in Projects \union {NoProject} : [t EXCEPT !.project = v] \in Command
  BY DEF Command
<1>3. \A v \in BOOLEAN : [t EXCEPT !.strict = v] \in Command
  BY DEF Command
<1>4. \A v \in BOOLEAN : [t EXCEPT !.scope = v] \in Command
  BY DEF Command
<1>5. \A v \in BOOLEAN : [t EXCEPT !.cut = v] \in Command
  BY DEF Command
<1>6. \A v \in Row : [t EXCEPT !.row = v] \in Command
  BY DEF Command
<1>7. \A v \in {"quiet", "flying", "heard", "broken"} : [t EXCEPT !.wire = v] \in Command
  BY DEF Command
<1>8. \A v \in Answers \union {"NONE", "LOST"} : [t EXCEPT !.answer = v] \in Command
  BY DEF Command
<1>9. \A v \in 0..1 : [t EXCEPT !.cost = v] \in Command
  BY DEF Command
<1>10. \A v \in SUBSET Retries : [t EXCEPT !.tried = v] \in Command
  BY DEF Command
<1>11. \A v \in SUBSET Retries : [t EXCEPT !.told = v] \in Command
  BY DEF Command
<1>12. \A v \in {"NONE", "RETIRED", "CREATED", "REJECTED", "FAILED"} : [t EXCEPT !.outcome = v] \in Command
  BY DEF Command
<1>13. \A v \in Retries \union {"NONE"} : [t EXCEPT !.role = v] \in Command
  BY DEF Command
<1>14. \A v \in SUBSET Events : [t EXCEPT !.refused = v] \in Command
  BY DEF Command
<1> QED BY <1>1, <1>2, <1>3, <1>4, <1>5, <1>6, <1>7, <1>8, <1>9, <1>10, <1>11, <1>12, <1>13, <1>14

LEMMA FieldsOf ==
  ASSUME NEW t \in Command
  PROVE  /\ t.project \in Projects \union {NoProject}
         /\ t.strict \in BOOLEAN /\ t.scope \in BOOLEAN /\ t.cut \in BOOLEAN
         /\ t.row \in Row
         /\ t.wire \in {"quiet", "flying", "heard", "broken"}
         /\ t.answer \in Answers \union {"NONE", "LOST"}
         /\ t.cost \in 0..1
         /\ t.tried \in SUBSET Retries /\ t.told \in SUBSET Retries
         /\ t.outcome \in {"NONE", "RETIRED", "CREATED", "REJECTED", "FAILED"}
         /\ t.role \in Retries \union {"NONE"}
         /\ t.refused \in SUBSET Events
BY DEF Command

LEMMA SettlingTypes ==
  ASSUME NEW t \in Command
  PROVE  Settling(t) \in Command
<1>1. Idle \in Command BY DEF Idle, NewRow, Row, Command
<1> QED BY <1>1, FieldTypes, FieldsOf DEF Settling

LEMMA OverTypes ==
  ASSUME NEW t \in Command
  PROVE  Over(t) \in Command
<1> DEFINE row == [NewRow EXCEPT !.events = t.row.events \intersect {"APPLICATION_RESULT"},
                                 !.status = t.row.status, !.linked = t.row.linked]
<1>1. row \in Row
  <2>1. /\ t.row.events \in SUBSET Events
        /\ t.row.status \in {"NONE", "RETIRED", "CREATED", "REJECTED", "FAILED"}
        /\ t.row.linked \in BOOLEAN
    BY FieldsOf DEF Row
  <2> QED BY <2>1 DEF NewRow, Row
<1>2. Idle \in Command BY DEF Idle, NewRow, Row, Command
<1> QED BY <1>1, <1>2, FieldTypes, FieldsOf DEF Over

LEMMA LostTypes ==
  ASSUME NEW t \in Command, NEW kind \in Events \union {"NONE"}, NEW allowed \in BOOLEAN,
         kind = "NONE" => allowed
  PROVE  Lost(t, kind, allowed) \in Command
<1>1. (IF allowed THEN t.refused ELSE t.refused \union {kind}) \in SUBSET Events
  BY FieldsOf
<1>2. [t EXCEPT !.refused = IF allowed THEN @ ELSE @ \union {kind}] \in Command
  BY <1>1, FieldTypes
<1> QED BY <1>2, OverTypes DEF Lost

LEMMA RaisedTypes ==
  ASSUME NEW t \in Command
  PROVE  Raised(t) \in Command
<1> DEFINE a == [Settling(t) EXCEPT !.pc = "reject"]
           b == [a EXCEPT !.outcome = "FAILED"]
<1>1. a \in Command BY SettlingTypes, FieldTypes
<1>2. b \in Command
  <2> HIDE DEF a
  <2> QED BY <1>1, FieldTypes
<1> QED BY <1>2, OverTypes DEF Raised

LEMMA RowTypes ==
  /\ NewRow \in Row
  /\ \A row \in Row, kind \in Events : With(row, kind) \in Row
  /\ \A row \in Row, status \in {"NONE", "RETIRED", "CREATED", "REJECTED", "FAILED"} :
       Closed(row, status) \in Row
  /\ \A row \in Row : [row EXCEPT !.linked = TRUE] \in Row
<1>1. ASSUME NEW row \in Row, NEW kind \in Events PROVE With(row, kind) \in Row
  BY DEF With, Row
<1>2. ASSUME NEW row \in Row, NEW status \in {"NONE", "RETIRED", "CREATED", "REJECTED", "FAILED"}
      PROVE  Closed(row, status) \in Row
  <2>1. With(row, "APPLICATION_RESULT") \in Row BY <1>1 DEF Events
  <2> QED BY <2>1 DEF Closed, Row
<1>3. ASSUME NEW row \in Row PROVE [row EXCEPT !.linked = TRUE] \in Row
  BY DEF Row
<1> QED BY <1>1, <1>2, <1>3 DEF NewRow, Row

(* The rows that steps write.                                              *)
LEMMA RowsWritten ==
  ASSUME TypeOK, NEW c \in Commands
  PROVE  /\ tx[c] \in Command /\ tx[c].row \in Row
         /\ Keep(c) \in Command /\ Keep(c).row \in Row /\ Keep(c).cost = 0
         /\ Accepted(c) \in Row
         /\ Written(c) \in Row
<1>1. tx[c] \in Command BY DEF TypeOK
<1>2. tx[c].row \in Row /\ tx[c].told \in SUBSET Retries BY <1>1, FieldsOf
<1>3. \A kind \in Events : With(tx[c].row, kind) \in Row BY <1>2, RowTypes
<1> DEFINE kept == [With(tx[c].row, "PROVIDER_RESULT") EXCEPT !.ok = tx[c].answer = "GOOD"]
<1>4. kept \in Row
  <2>1. With(tx[c].row, "PROVIDER_RESULT") \in Row BY <1>3 DEF Events
  <2> QED BY <2>1 DEF Row
<1>5. Keep(c) \in Command /\ Keep(c).cost = 0
  <2> DEFINE free == [[tx[c] EXCEPT !.row = kept] EXCEPT !.answer = "NONE"]
  <2>1. free \in Command
    <3> HIDE DEF kept
    <3> QED BY <1>1, <1>4, FieldTypes
  <2>2. [free EXCEPT !.cost = 0] \in Command /\ [free EXCEPT !.cost = 0].cost = 0
    <3> HIDE DEF free
    <3> QED BY <2>1 DEF Command
  <2>3. Keep(c) = [free EXCEPT !.cost = 0] BY DEF Keep
  <2> HIDE DEF free
  <2> QED BY <2>2, <2>3
<1>6. Accepted(c) \in Row
  <2>1. With(tx[c].row, "ADAPTER_ACCEPTED") \in Row BY <1>3 DEF Events
  <2> QED BY <1>2, <2>1 DEF Accepted, Row
<1>7. Keep(c).row \in Row BY <1>5, FieldsOf
<1>8. /\ Closed(tx[c].row, tx[c].outcome) \in Row
      /\ Closed(tx[c].row, "RETIRED") \in Row
  BY <1>1, <1>2, FieldsOf, RowTypes
<1>9. WireEvent(c) \in Events BY DEF WireEvent, Events
<1> QED BY <1>1, <1>2, <1>3, <1>5, <1>6, <1>7, <1>8, <1>9, RowTypes DEF Written, Events

LEMMA Replaced ==
  ASSUME TypeOK, NEW c \in Commands, NEW t \in Command, tx' = [tx EXCEPT ![c] = t]
  PROVE  tx' \in [Commands -> Command]
BY DEF TypeOK

LEMMA Wrote ==
  ASSUME TypeOK, NEW c \in Commands, NEW kind \in Events \union {"NONE"},
         NEW allowed \in BOOLEAN, kind = "NONE" => allowed,
         NEW written \in Command, Writes(c, kind, allowed, written)
  PROVE  tx' \in [Commands -> Command]
<1>1. tx[c] \in Command BY DEF TypeOK
<1>2. Lost(tx[c], kind, allowed) \in Command BY <1>1, LostTypes
<1> QED BY <1>1, <1>2, Replaced DEF Writes

LEMMA EventNames ==
  /\ {"HTTP_REQUEST", "HTTP_RESPONSE", "TRANSPORT_ERROR", "PROVIDER_RESULT",
      "ADAPTER_ACCEPTED", "ADAPTER_REJECTED", "APPLICATION_RESULT"} \subseteq Events
  /\ \A row, kind : Allowed(row, kind) \in BOOLEAN
  /\ \A row, ok : AllowedResult(row, ok) \in BOOLEAN
BY DEF Events, Allowed, AllowedResult

(* The attempts.                                                           *)
LEMMA AttemptTypes ==
  ASSUME Typed, NEW c \in Commands,
         \/ \E p \in Projects : Start(c, p)
         \/ AskProject(c) \/ AskTotal(c) \/ Begin(c) \/ Send(c) \/ Answer(c) \/ Hear(c)
         \/ Return(c) \/ Retire(c) \/ Pause(c)
  PROVE  tx' \in [Commands -> Command]
<1>1. /\ tx[c] \in Command /\ tx[c].row \in Row /\ Raised(tx[c]) \in Command
      /\ Over(tx[c]) \in Command /\ Idle \in Command
      /\ hosted \in BOOLEAN /\ prompted \in BOOLEAN
  BY RowsWritten, RaisedTypes, OverTypes, RowTypes DEF Typed, TypeOK, Idle, Command
<1> USE DEF Typed
<1>2. CASE \E p \in Projects : Start(c, p)
  <2>1. PICK p \in Projects : Start(c, p) BY <1>2
  <2>2. [Idle EXCEPT !.pc = FirstStep, !.project = p, !.strict = ~ prompted] \in Command
    <3>1. /\ FirstStep \in {"project", "begin"} /\ (~ prompted) \in BOOLEAN
      BY <1>1 DEF FirstStep
    <3> QED BY <1>1, <3>1, FieldTypes
  <2> QED BY <2>1, <2>2, Replaced DEF Start
<1>3. CASE AskProject(c)
  <2>1. [tx[c] EXCEPT !.pc = "total"] \in Command BY <1>1, FieldTypes
  <2> QED BY <1>1, <1>3, <2>1, Replaced DEF AskProject
<1>4. CASE AskTotal(c)
  <2>1. [tx[c] EXCEPT !.pc = "begin"] \in Command BY <1>1, FieldTypes
  <2> QED BY <1>1, <1>4, <2>1, Replaced DEF AskTotal
<1>5. CASE Begin(c)
  <2>1. [tx[c] EXCEPT !.pc = "send", !.scope = TRUE, !.row = NewRow] \in Command
    BY <1>1, RowTypes, FieldTypes
  <2> QED BY <1>5, <2>1, Wrote DEF Begin
<1>6. CASE Send(c)
  <2>1. [tx[c] EXCEPT !.pc = "call", !.wire = "flying", !.row = With(@, "HTTP_REQUEST")]
          \in Command
    BY <1>1, RowTypes, EventNames, FieldTypes
  <2> QED BY <1>6, <2>1, EventNames, Wrote DEF Send
<1>7. CASE Answer(c)
  <2>1. ASSUME NEW a \in Answers, NEW k \in {0, 1}
        PROVE  [tx[c] EXCEPT !.wire = "heard", !.answer = a, !.cost = k] \in Command
    <3> DEFINE heard == [tx[c] EXCEPT !.wire = "heard", !.answer = a]
    <3>1. heard \in Command BY <1>1, FieldTypes
    <3>2. [heard EXCEPT !.cost = k] \in Command
      <4> HIDE DEF heard
      <4> QED BY <3>1 DEF Command
    <3> QED BY <3>2
  <2>2. ASSUME NEW a \in {"UNAVAILABLE", "OTHER"}
        PROVE  [tx[c] EXCEPT !.wire = "broken", !.answer = a] \in Command
    BY <1>1, FieldTypes DEF Answers
  <2>3. CASE \E a \in Answers, k \in {0, 1} :
               tx' = [tx EXCEPT ![c].wire = "heard", ![c].answer = a, ![c].cost = k]
    <3>1. PICK a \in Answers, k \in {0, 1} :
            tx' = [tx EXCEPT ![c].wire = "heard", ![c].answer = a, ![c].cost = k]
      BY <2>3
    <3>2. tx' = [tx EXCEPT ![c] = [tx[c] EXCEPT !.wire = "heard", !.answer = a, !.cost = k]]
      BY <3>1 DEF TypeOK
    <3> QED BY <2>1, <3>2, Replaced
  <2>4. CASE \E a \in {"UNAVAILABLE", "OTHER"} :
               tx' = [tx EXCEPT ![c].wire = "broken", ![c].answer = a]
    <3>1. PICK a \in {"UNAVAILABLE", "OTHER"} :
            tx' = [tx EXCEPT ![c].wire = "broken", ![c].answer = a]
      BY <2>4
    <3>2. tx' = [tx EXCEPT ![c] = [tx[c] EXCEPT !.wire = "broken", !.answer = a]]
      BY <3>1 DEF TypeOK
    <3> QED BY <2>2, <3>2, Replaced
  <2> QED BY <1>7, <2>3, <2>4 DEF Answer
<1>8. CASE Hear(c)
  <2> DEFINE kind == WireEvent(c)
  <2>1. kind \in Events BY EventNames DEF WireEvent
  <2>2. [tx[c] EXCEPT !.wire = "quiet", !.row = With(@, kind)] \in Command
    BY <1>1, <2>1, RowTypes, FieldTypes
  <2>3. [tx[c] EXCEPT !.wire = "quiet", !.answer = "LOST",
                      !.refused = IF Allowed(tx[c].row, kind) THEN @ ELSE @ \union {kind}]
          \in Command
    <3>1. (IF Allowed(tx[c].row, kind) THEN tx[c].refused ELSE tx[c].refused \union {kind})
            \in SUBSET Events
      BY <1>1, <2>1, FieldsOf
    <3> QED BY <1>1, <3>1, FieldTypes
  <2>4. CASE tx' = [tx EXCEPT ![c].wire = "quiet", ![c].row = With(@, kind)]
    <3>1. tx' = [tx EXCEPT ![c] = [tx[c] EXCEPT !.wire = "quiet", !.row = With(@, kind)]]
      BY <2>4 DEF TypeOK
    <3> QED BY <2>2, <3>1, Replaced
  <2>5. CASE tx' = [tx EXCEPT ![c].wire = "quiet", ![c].answer = "LOST",
                      ![c].refused = IF Allowed(tx[c].row, kind) THEN @ ELSE @ \union {kind}]
    <3>1. tx' = [tx EXCEPT ![c] = [tx[c] EXCEPT !.wire = "quiet", !.answer = "LOST",
                      !.refused = IF Allowed(tx[c].row, kind) THEN @ ELSE @ \union {kind}]]
      BY <2>5 DEF TypeOK
    <3> QED BY <2>3, <3>1, Replaced
  <2> QED BY <1>8, <2>4, <2>5 DEF Hear
<1>9. CASE Return(c)
  <2>1. [tx[c] EXCEPT !.pc = "result"] \in Command BY <1>1, FieldTypes
  <2> QED BY <1>1, <1>9, <2>1, Replaced DEF Return
<1>10. CASE Retire(c)
  <2>1. Retired(tx[c]) \in Command
    <3> DEFINE next == IF tx[c].role = "PROVIDER_RETRY" THEN "pause" ELSE "project"
               told == tx[c].told \union {tx[c].role}
               ready == [tx[c] EXCEPT !.pc = next, !.scope = FALSE, !.row = NewRow]
    <3>1. next \in {"pause", "project"} /\ NewRow \in Row BY RowTypes
    <3>2. told \in SUBSET Retries BY <1>1, <1>10, FieldsOf DEF RoleKnown, Retire
    <3>3. ready \in Command
      <4> HIDE DEF next
      <4> QED BY <1>1, <3>1, FieldTypes
    <3>4. [ready EXCEPT !.told = told, !.role = "NONE"] \in Command
      <4> HIDE DEF ready, told
      <4> QED BY <3>2, <3>3, FieldTypes
    <3> QED BY <3>4 DEF Retired
  <2> QED BY <1>10, <2>1, EventNames, Wrote DEF Retire
<1>11. CASE Pause(c)
  <2>1. [tx[c] EXCEPT !.pc = "project"] \in Command BY <1>1, FieldTypes
  <2> QED BY <1>11, <2>1, Replaced DEF Pause
<1> QED BY <1>2, <1>3, <1>4, <1>5, <1>6, <1>7, <1>8, <1>9, <1>10, <1>11

(* What the others do.                                                     *)
LEMMA OtherTypes ==
  ASSUME Typed, NEW c \in Commands,
         \/ Result(c) \/ Accept(c) \/ Reject(c) \/ Apply(c) \/ Close(c)
         \/ Cancel(c) \/ CancelCall(c)
  PROVE  tx' \in [Commands -> Command]
<1>1. /\ tx[c] \in Command /\ tx[c].row \in Row /\ Raised(tx[c]) \in Command
      /\ Over(tx[c]) \in Command /\ Idle \in Command
      /\ hosted \in BOOLEAN /\ prompted \in BOOLEAN
  BY RowsWritten, RaisedTypes, OverTypes, RowTypes DEF Typed, TypeOK, Idle, Command
<1> USE DEF Typed
<1>2. CASE Result(c)
  <2> DEFINE allowed == AllowedResult(tx[c].row, tx[c].answer = "GOOD")
  <2>1. Judged(Keep(c), tx[c].answer) \subseteq Command
    <3> DEFINE t == Keep(c)
               role == RetryOf(t, tx[c].answer)
               good == [t EXCEPT !.pc = "accept"]
               retired == [t EXCEPT !.pc = "retire", !.role = role,
                                    !.tried = @ \union {role},
                                    !.strict = @ /\ role # "SCHEMA_NEGOTIATION"]
    <3>1. t \in Command BY RowsWritten
    <3>2. Raised(t) \in Command /\ good \in Command
      <4> HIDE DEF t
      <4> QED BY <3>1, RaisedTypes, FieldTypes
    <3>3. ASSUME role # "NONE"
          PROVE  retired \in Command
      <4>1. role \in Retries BY <3>3 DEF RetryOf, Retries
      <4>2. /\ t.tried \union {role} \in SUBSET Retries
            /\ (t.strict /\ role # "SCHEMA_NEGOTIATION") \in BOOLEAN
        <5> HIDE DEF t, role
        <5> QED BY <3>1, <4>1, FieldsOf
      <4> HIDE DEF t, role
      <4> QED BY <3>1, <4>1, <4>2, FieldTypes
    <3>4. \/ role # "NONE" /\ Judged(t, tx[c].answer) = {retired}
          \/ Judged(t, tx[c].answer) = {good, Raised(t)}
          \/ Judged(t, tx[c].answer) = {Raised(t)}
      BY DEF Judged
    <3> HIDE DEF role, good, retired
    <3> QED BY <3>2, <3>3, <3>4
  <2>2. Lost(tx[c], "PROVIDER_RESULT", allowed) \in Command
    BY <1>1, LostTypes, EventNames
  <2> QED BY <1>2, <2>1, <2>2, Replaced DEF Result
<1>3. CASE Accept(c)
  <2>1. [tx[c] EXCEPT !.pc = "apply", !.row = Accepted(c)] \in Command
    BY <1>1, RowsWritten, FieldTypes
  <2> QED BY <1>3, <2>1, EventNames, Wrote DEF Accept
<1>4. CASE Reject(c)
  <2>1. [tx[c] EXCEPT !.pc = "close", !.row = With(@, "ADAPTER_REJECTED")] \in Command
    BY <1>1, RowTypes, EventNames, FieldTypes
  <2> QED BY <1>4, <2>1, EventNames, Wrote DEF Reject
<1>5. CASE Apply(c)
  <2>1. ASSUME NEW status \in {"CREATED", "REJECTED", "FAILED"}, NEW row \in Row
        PROVE  Ends(c, status, row) \in Command
    BY <1>1, SettlingTypes, FieldTypes DEF Ends
  <2>2. [tx[c].row EXCEPT !.linked = TRUE] \in Row /\ Rollback(tx[c].row) \in Row
    BY <1>1, RowTypes DEF Rollback
  <2>3. Over([tx[c] EXCEPT !.row = Rollback(@)]) \in Command
    BY <1>1, <2>2, FieldTypes, OverTypes
  <2> DEFINE published == [tx[c].row EXCEPT !.linked = TRUE]
  <2>4. /\ Ends(c, "REJECTED", tx[c].row) \in Command
        /\ Ends(c, "CREATED", published) \in Command
        /\ Ends(c, "FAILED", Rollback(tx[c].row)) \in Command
    <3> HIDE DEF published
    <3> QED BY <1>1, <2>1, <2>2 DEF published
  <2>5. \/ tx' = [tx EXCEPT ![c] = Ends(c, "REJECTED", tx[c].row)]
        \/ tx' = [tx EXCEPT ![c] = Ends(c, "CREATED", published)]
        \/ tx' = [tx EXCEPT ![c] = Ends(c, "FAILED", Rollback(tx[c].row))]
        \/ tx' = [tx EXCEPT ![c] = Over([tx[c] EXCEPT !.row = Rollback(@)])]
    BY <1>5, Zenon DEF Apply
  <2>6. CASE tx' = [tx EXCEPT ![c] = Over([tx[c] EXCEPT !.row = Rollback(@)])]
    BY <2>3, <2>6, Replaced
  <2> QED
    <3> HIDE DEF published
    <3> QED BY <2>4, <2>5, <2>6, Replaced
<1>6. CASE Close(c)
  <2>1. Closed(tx[c].row, tx[c].outcome) \in Row BY <1>1, RowTypes, FieldsOf
  <2>2. Over([tx[c] EXCEPT !.row = Closed(@, tx[c].outcome)]) \in Command
    BY <1>1, <2>1, FieldTypes, OverTypes
  <2> QED BY <1>6, <2>2, EventNames, Wrote DEF Close
<1>7. CASE Cancel(c)
  <2>1. ASSUME NEW row \in Row PROVE Cut(tx[c], row) \in Command
    <3> DEFINE cut == [Settling(tx[c]) EXCEPT !.cut = TRUE, !.outcome = "FAILED",
                         !.wire = "quiet", !.row = row, !.pc = CutTo(tx[c])]
    <3>1. CutTo(tx[c]) \in {"reject", "close", "done"} BY DEF CutTo
    <3>2. cut \in Command BY <1>1, <3>1, SettlingTypes, FieldTypes
    <3> HIDE DEF cut
    <3>3. Over(cut) \in Command BY <3>2, OverTypes
    <3> QED BY <3>2, <3>3 DEF Cut, cut
  <2> QED BY <1>1, <1>7, <2>1, RowsWritten, Replaced DEF Cancel
<1>8. CASE CancelCall(c)
  <2> DEFINE wire == IF hosted THEN "broken" ELSE tx[c].wire
  <2>1. wire \in {"quiet", "flying", "heard", "broken"} BY <1>1, FieldsOf
  <2>2. [tx[c] EXCEPT !.cut = TRUE, !.wire = wire] \in Command
    <3> HIDE DEF wire
    <3> QED BY <1>1, <2>1, FieldTypes
  <2>3. tx' = [tx EXCEPT ![c] = [tx[c] EXCEPT !.cut = TRUE, !.wire = wire]]
    BY <1>8 DEF CancelCall, TypeOK
  <2> QED BY <2>2, <2>3, Replaced
<1> QED BY <1>2, <1>3, <1>4, <1>5, <1>6, <1>7, <1>8

-----------------------------------------------------------------------------
(* What a step does to its command, as far as the ceilings are concerned.  *)

Steady(t, u) ==
  /\ hosted /\ u.pc \in OnceAsked => t.pc \in OnceAsked /\ u.project = t.project
  /\ hosted /\ u.pc \in LetThrough => t.pc \in LetThrough
  /\ u.pc = "retire" => u.role \in Retries \/ (t.pc = "retire" /\ u.role = t.role)
  /\ ~ hosted => u.cost \in {0, t.cost}

LEMMA Fates ==
  ASSUME NEW t
  PROVE  /\ Over(t).pc = "done" /\ Over(t).cost = 0
         /\ Raised(t).pc \in {"reject", "done"} /\ Raised(t).cost = 0
         /\ \A kind, allowed : /\ Lost(t, kind, allowed).pc = "done"
                               /\ Lost(t, kind, allowed).cost = 0
         /\ \A row : Cut(t, row).pc \in {"reject", "close", "done"} /\ Cut(t, row).cost = 0
         /\ \A c, status, row : /\ Ends(c, status, row).pc = "close"
                                /\ Ends(c, status, row).cost = 0
<1>1. ASSUME NEW u PROVE Over(u).pc = "done" /\ Over(u).cost = 0
  BY DEF Over, Idle
<1>2. Raised(t).pc \in {"reject", "done"} /\ Raised(t).cost = 0
  BY <1>1 DEF Raised, Settling, Idle
<1>3. ASSUME NEW kind, NEW allowed
      PROVE  Lost(t, kind, allowed).pc = "done" /\ Lost(t, kind, allowed).cost = 0
  BY <1>1 DEF Lost
<1>4. ASSUME NEW row
      PROVE  Cut(t, row).pc \in {"reject", "close", "done"} /\ Cut(t, row).cost = 0
  BY <1>1 DEF Cut, CutTo, Settling, Idle
<1>5. ASSUME NEW c, NEW status, NEW row
      PROVE  Ends(c, status, row).pc = "close" /\ Ends(c, status, row).cost = 0
  BY DEF Ends, Settling, Idle
<1> QED BY <1>1, <1>2, <1>3, <1>4, <1>5

LEMMA LostIsSteady ==
  ASSUME NEW t, NEW kind, NEW allowed
  PROVE  Steady(t, Lost(t, kind, allowed))
<1>1. Lost(t, kind, allowed).pc = "done" /\ Lost(t, kind, allowed).cost = 0 BY Fates
<1> QED BY <1>1 DEF Steady, OnceAsked, LetThrough

LEMMA SteadyAttempts ==
  ASSUME Typed, NEW c \in Commands,
         \/ \E p \in Projects : Start(c, p)
         \/ Begin(c) \/ Send(c) \/ Answer(c) \/ Hear(c) \/ Return(c) \/ Retire(c) \/ Pause(c)
  PROVE  /\ Steady(tx[c], tx'[c])
         /\ \A d \in Commands \ {c} : tx'[d] = tx[d]
         /\ UNCHANGED <<hosted, spent, total>>
<1>1. /\ tx \in [Commands -> Command] /\ tx[c] \in Command
  BY DEF Typed, TypeOK
<1> DEFINE t == tx[c]
           Fate(u) == tx' = [tx EXCEPT ![c] = u]
<1>2. ASSUME NEW u, Fate(u), Steady(t, u)
      PROVE  Steady(t, tx'[c]) /\ \A d \in Commands \ {c} : tx'[d] = tx[d]
  BY <1>1, <1>2
<1>3. CASE \E p \in Projects : Start(c, p)
  <2>1. PICK p \in Projects : Start(c, p) BY <1>3
  <2>2. Steady(t, [Idle EXCEPT !.pc = FirstStep, !.project = p, !.strict = ~ prompted])
    BY DEF Steady, Idle, FirstStep, OnceAsked, LetThrough
  <2> QED BY <2>1, <2>2, <1>2 DEF Start
<1>4. \A kind, allowed : Steady(t, Lost(t, kind, allowed))
  BY LostIsSteady
<1>5. ASSUME NEW kind, NEW allowed, NEW u, Writes(c, kind, allowed, u), Steady(t, u)
      PROVE  Steady(t, tx'[c]) /\ \A d \in Commands \ {c} : tx'[d] = tx[d]
  BY <1>1, <1>2, <1>4, <1>5 DEF Writes
<1>6. CASE Begin(c)
  <2>1. Steady(t, [t EXCEPT !.pc = "send", !.scope = TRUE, !.row = NewRow])
    BY <1>1, <1>6 DEF Begin, Steady, OnceAsked, LetThrough, Command
  <2> QED BY <1>5, <1>6, <2>1 DEF Begin
<1>7. CASE Send(c)
  <2>1. Steady(t, [t EXCEPT !.pc = "call", !.wire = "flying", !.row = With(@, "HTTP_REQUEST")])
    BY <1>1, <1>7 DEF Send, Steady, OnceAsked, LetThrough, Command
  <2> QED BY <1>5, <1>7, <2>1 DEF Send
<1>8. CASE Answer(c)
  <2>1. \/ \E a \in Answers, k \in {0, 1} :
             /\ ~ hosted => k = 0
             /\ tx' = [tx EXCEPT ![c].wire = "heard", ![c].answer = a, ![c].cost = k]
        \/ \E a \in {"UNAVAILABLE", "OTHER"} :
             tx' = [tx EXCEPT ![c].wire = "broken", ![c].answer = a]
    BY <1>8, ZenonT(30) DEF Answer
  <2>2. CASE \E a \in Answers, k \in {0, 1} :
               /\ ~ hosted => k = 0
               /\ tx' = [tx EXCEPT ![c].wire = "heard", ![c].answer = a, ![c].cost = k]
    <3>1. PICK a \in Answers, k \in {0, 1} :
            /\ ~ hosted => k = 0
            /\ tx' = [tx EXCEPT ![c].wire = "heard", ![c].answer = a, ![c].cost = k]
      BY <2>2
    <3>2. /\ tx'[c].pc = t.pc /\ tx'[c].project = t.project /\ tx'[c].role = t.role
          /\ tx'[c].cost = k /\ \A d \in Commands \ {c} : tx'[d] = tx[d]
      BY <1>1, <3>1 DEF Command
    <3> QED BY <1>8, <3>1, <3>2 DEF Steady, Answer
  <2>3. CASE \E a \in {"UNAVAILABLE", "OTHER"} :
               tx' = [tx EXCEPT ![c].wire = "broken", ![c].answer = a]
    <3>1. PICK a \in {"UNAVAILABLE", "OTHER"} :
            tx' = [tx EXCEPT ![c].wire = "broken", ![c].answer = a]
      BY <2>3
    <3>2. /\ tx'[c].pc = t.pc /\ tx'[c].project = t.project /\ tx'[c].role = t.role
          /\ tx'[c].cost = t.cost /\ \A d \in Commands \ {c} : tx'[d] = tx[d]
      BY <1>1, <3>1 DEF Command
    <3> QED BY <1>8, <3>2 DEF Steady, Answer
  <2> QED BY <2>1, <2>2, <2>3
<1>9. CASE Hear(c)
  <2>1. /\ tx'[c].pc = t.pc /\ tx'[c].project = t.project /\ tx'[c].role = t.role
        /\ tx'[c].cost = t.cost /\ \A d \in Commands \ {c} : tx'[d] = tx[d]
    BY <1>1, <1>9 DEF Hear, Command
  <2> QED BY <1>9, <2>1 DEF Steady, Hear
<1>10. CASE Return(c)
  <2>1. /\ Steady(t, Raised(t)) /\ Steady(t, Over(t))
        /\ t.pc = "call" => Steady(t, [t EXCEPT !.pc = "result"])
    BY <1>1, Fates DEF Steady, OnceAsked, LetThrough, Command
  <2> QED BY <1>2, <1>10, <2>1 DEF Return
<1>11. CASE Retire(c)
  <2>1. Steady(t, Retired(t))
    BY <1>1 DEF Retired, Steady, OnceAsked, LetThrough, Command
  <2> QED BY <1>5, <1>11, <2>1 DEF Retire
<1>12. CASE Pause(c)
  <2>1. Steady(t, [t EXCEPT !.pc = "project"])
    BY <1>1 DEF Steady, OnceAsked, LetThrough, Command
  <2> QED BY <1>2, <1>12, <2>1 DEF Pause
<1> QED BY <1>3, <1>6, <1>7, <1>8, <1>9, <1>10, <1>11, <1>12

LEMMA SteadyEnds ==
  ASSUME Typed, NEW c \in Commands,
         \/ Result(c) \/ Accept(c) \/ Reject(c) \/ Apply(c) \/ Close(c)
         \/ Cancel(c) \/ CancelCall(c)
  PROVE  /\ Steady(tx[c], tx'[c])
         /\ \A d \in Commands \ {c} : tx'[d] = tx[d]
         /\ hosted' = hosted
         /\ \/ UNCHANGED <<spent, total>>
            \/ Stored(c) /\ tx[c].pc = "result" /\ tx'[c].pc \notin OnceAsked
<1>1. /\ tx \in [Commands -> Command] /\ tx[c] \in Command
  BY DEF Typed, TypeOK
<1> DEFINE t == tx[c]
<1>2. ASSUME NEW u, tx' = [tx EXCEPT ![c] = u], Steady(t, u)
      PROVE  Steady(t, tx'[c]) /\ tx'[c] = u /\ \A d \in Commands \ {c} : tx'[d] = tx[d]
  BY <1>1, <1>2
<1>3. \A kind, allowed : Steady(t, Lost(t, kind, allowed))
  BY LostIsSteady
<1>4. ASSUME NEW kind, NEW allowed, NEW u, Writes(c, kind, allowed, u), Steady(t, u)
      PROVE  Steady(t, tx'[c]) /\ \A d \in Commands \ {c} : tx'[d] = tx[d]
  BY <1>1, <1>2, <1>3, <1>4 DEF Writes
<1>5. CASE Result(c)
  <2>1. ASSUME NEW u \in Judged(Keep(c), tx[c].answer)
        PROVE  Steady(t, u) /\ u.pc \notin OnceAsked
    <3> DEFINE kept == Keep(c)
               role == RetryOf(kept, tx[c].answer)
               retired == [kept EXCEPT !.pc = "retire", !.role = role,
                                       !.tried = @ \union {role},
                                       !.strict = @ /\ role # "SCHEMA_NEGOTIATION"]
    <3>1. kept \in Command /\ kept.cost = 0
      BY RowsWritten DEF Typed
    <3>2. /\ Raised(kept).pc \in {"reject", "done"} /\ Raised(kept).cost = 0
          /\ [kept EXCEPT !.pc = "accept"].pc = "accept"
          /\ [kept EXCEPT !.pc = "accept"].cost = 0
      <4> HIDE DEF kept
      <4> QED BY <3>1, Fates DEF Command
    <3>3. role # "NONE" => role \in Retries BY DEF RetryOf, Retries
    <3>4. retired.pc = "retire" /\ retired.role = role /\ retired.cost = 0
      <4> HIDE DEF kept, role
      <4> QED BY <3>1 DEF Command
    <3>5. \/ role # "NONE" /\ u = retired
          \/ u = [kept EXCEPT !.pc = "accept"]
          \/ u = Raised(kept)
      BY <2>1 DEF Judged
    <3> HIDE DEF kept, role, retired
    <3> QED BY <3>2, <3>3, <3>4, <3>5 DEF Steady, OnceAsked, LetThrough
  <2>2. CASE Stored(c) /\ \E u \in Judged(Keep(c), tx[c].answer) : tx' = [tx EXCEPT ![c] = u]
    BY <1>2, <1>5, <2>1, <2>2 DEF Result
  <2>3. CASE /\ \E allowed : tx' = [tx EXCEPT ![c] = Lost(t, "PROVIDER_RESULT", allowed)]
             /\ UNCHANGED <<spent, total>>
    BY <1>2, <1>3, <1>5, <2>3 DEF Result
  <2> QED BY <1>5, <2>2, <2>3 DEF Result
<1>6. CASE Accept(c)
  <2>1. Steady(t, [t EXCEPT !.pc = "apply", !.row = Accepted(c)])
    BY <1>1 DEF Steady, OnceAsked, LetThrough, Command
  <2> QED BY <1>4, <1>6, <2>1 DEF Accept
<1>7. CASE Reject(c)
  <2>1. Steady(t, [t EXCEPT !.pc = "close", !.row = With(@, "ADAPTER_REJECTED")])
    BY <1>1 DEF Steady, OnceAsked, LetThrough, Command
  <2> QED BY <1>4, <1>7, <2>1 DEF Reject
<1>8. CASE Apply(c)
  <2>1. \A status, row : Steady(t, Ends(c, status, row))
    BY <1>1, Fates DEF Steady, OnceAsked, LetThrough
  <2>2. \A u : Steady(t, Over(u))
    BY <1>1, Fates DEF Steady, OnceAsked, LetThrough
  <2>3. \E u : Steady(t, u) /\ tx' = [tx EXCEPT ![c] = u]
    BY <1>8, <2>1, <2>2, Zenon DEF Apply
  <2> QED BY <1>2, <1>8, <2>3 DEF Apply
<1>9. CASE Close(c)
  <2>1. \A u : Steady(t, Over(u))
    BY <1>1, Fates DEF Steady, OnceAsked, LetThrough
  <2> QED BY <1>4, <1>9, <2>1 DEF Close
<1>10. CASE Cancel(c)
  <2>1. \A row : Steady(t, Cut(t, row)) /\ Cut(t, row).pc \notin OnceAsked
    BY <1>1, Fates DEF Steady, OnceAsked, LetThrough
  <2>2. PICK row : tx' = [tx EXCEPT ![c] = Cut(t, row)] BY <1>10, Zenon DEF Cancel
  <2>3. tx'[c].pc \notin OnceAsked BY <1>1, <2>1, <2>2
  <2> QED BY <1>2, <1>10, <2>1, <2>2, <2>3 DEF Cancel
<1>11. CASE CancelCall(c)
  <2>1. /\ tx'[c].pc = t.pc /\ tx'[c].project = t.project /\ tx'[c].role = t.role
        /\ tx'[c].cost = t.cost /\ \A d \in Commands \ {c} : tx'[d] = tx[d]
    BY <1>1, <1>11 DEF CancelCall, Command
  <2> QED BY <1>11, <2>1 DEF Steady, CancelCall
<1> QED BY <1>5, <1>6, <1>7, <1>8, <1>9, <1>10, <1>11

-----------------------------------------------------------------------------
(* The ceilings.                                                           *)

LEMMA InitInv == Init => LedgerInv
<1> SUFFICES ASSUME Init PROVE LedgerInv OBVIOUS
<1>1. Idle \in Command BY DEF Idle, NewRow, Row, Command
<1>2. TypeOK BY <1>1 DEF Init, TypeOK
<1>3. \A c \in Commands : tx[c].pc = "idle" /\ tx[c].cost = 0 BY DEF Init, Idle
<1>4. RoleKnown BY <1>3 DEF RoleKnown
<1>5. UncountedInAll = {} BY <1>3 DEF UncountedInAll, LetThrough
<1>6. \A p \in Projects : Uncounted(p) = {} BY <1>3 DEF Uncounted, OnceAsked
<1>7. ProjectInv BY <1>6, FS_EmptySet, Numbers DEF ProjectInv, Init
<1>8. TotalInv BY <1>5, FS_EmptySet, Numbers DEF TotalInv, Init
<1>9. FreeInv BY <1>3 DEF FreeInv, Init
<1> QED BY <1>2, <1>4, <1>7, <1>8, <1>9 DEF LedgerInv, Typed

(* A step that counts nothing and lets nobody through.                     *)
LEMMA SteadyStep ==
  ASSUME LedgerInv, hosted' = hosted, \A d \in Commands : tx'[d] = tx[d] \/ Steady(tx[d], tx'[d])
  PROVE  /\ RoleKnown'
         /\ hosted => /\ \A p \in Projects : Uncounted(p)' \subseteq Uncounted(p)
                      /\ UncountedInAll' \subseteq UncountedInAll
         /\ ~ hosted => \A d \in Commands : tx'[d].cost = 0
<1>1. RoleKnown' BY DEF LedgerInv, Typed, RoleKnown, Steady
<1>2. ASSUME hosted, NEW p \in Projects PROVE Uncounted(p)' \subseteq Uncounted(p)
  BY <1>2 DEF Uncounted, Steady
<1>3. ASSUME hosted PROVE UncountedInAll' \subseteq UncountedInAll
  BY <1>3 DEF UncountedInAll, Steady
<1>4. ASSUME ~ hosted PROVE \A d \in Commands : tx'[d].cost = 0
  BY <1>4 DEF LedgerInv, FreeInv, Steady
<1> QED BY <1>1, <1>2, <1>3, <1>4

LEMMA SteadyCounts ==
  ASSUME LedgerInv, TypeOK', hosted' = hosted, UNCHANGED <<spent, total>>,
         \A d \in Commands : tx'[d] = tx[d] \/ Steady(tx[d], tx'[d])
  PROVE  LedgerInv'
<1>1. RoleKnown' BY SteadyStep
<1>2. FreeInv' BY SteadyStep DEF LedgerInv, FreeInv
<1>3. ProjectInv'
  <2> SUFFICES ASSUME hosted, NEW p \in Projects
               PROVE  spent[p] + Cardinality(Uncounted(p)')
                        <= PerProject + Cardinality(Commands) - 1
    BY DEF ProjectInv
  <2>1. spent[p] + Cardinality(Uncounted(p)) <= PerProject + Cardinality(Commands) - 1
    BY DEF LedgerInv, ProjectInv
  <2>2. /\ Cardinality(Uncounted(p)') \in Nat /\ Cardinality(Uncounted(p)) \in Nat
        /\ Cardinality(Uncounted(p)') <= Cardinality(Uncounted(p))
    BY SteadyStep, SmallerSet DEF Uncounted
  <2>3. spent[p] \in Nat BY DEF LedgerInv, Typed, TypeOK
  <2> QED BY <2>1, <2>2, <2>3, Numbers
<1>4. TotalInv'
  <2> SUFFICES ASSUME hosted
               PROVE  total + Cardinality(UncountedInAll')
                        <= Total + Cardinality(Commands) - 1
    BY DEF TotalInv
  <2>1. total + Cardinality(UncountedInAll) <= Total + Cardinality(Commands) - 1
    BY DEF LedgerInv, TotalInv
  <2>2. /\ Cardinality(UncountedInAll') \in Nat /\ Cardinality(UncountedInAll) \in Nat
        /\ Cardinality(UncountedInAll') <= Cardinality(UncountedInAll)
    BY SteadyStep, SmallerSet DEF UncountedInAll
  <2>3. total \in Nat BY DEF LedgerInv, Typed, TypeOK
  <2> QED BY <2>1, <2>2, <2>3, Numbers
<1> QED BY <1>1, <1>2, <1>3, <1>4 DEF LedgerInv, Typed

LEMMA OneLess ==
  ASSUME NEW S, NEW T, NEW c \in T, S \subseteq T \ {c}, T \subseteq Commands
  PROVE  /\ Cardinality(S) \in Nat /\ Cardinality(T) \in Nat
         /\ Cardinality(S) + 1 <= Cardinality(T)
<1>1. IsFiniteSet(T) BY Numbers, FS_Subset
<1>2. Cardinality(T \ {c}) = Cardinality(T) - 1 BY <1>1, FS_RemoveElement
<1>3. /\ Cardinality(S) \in Nat /\ Cardinality(T \ {c}) \in Nat
      /\ Cardinality(S) <= Cardinality(T \ {c})
  BY SmallerSet
<1>4. Cardinality(T) \in Nat BY <1>1, FS_CardinalityType
<1> QED BY <1>2, <1>3, <1>4

(* What a call costs is counted as its command leaves the stages before.   *)
LEMMA StoredCounts ==
  ASSUME LedgerInv, TypeOK', hosted' = hosted, NEW c \in Commands, Stored(c),
         tx[c].pc = "result", tx'[c].pc \notin OnceAsked,
         \A d \in Commands : tx'[d] = tx[d] \/ Steady(tx[d], tx'[d])
  PROVE  LedgerInv'
<1>1. /\ spent \in [Projects -> Nat] /\ total \in Nat /\ tx[c].cost \in 0..1
  BY FieldsOf DEF LedgerInv, Typed, TypeOK
<1>2. RoleKnown' BY SteadyStep
<1>3. FreeInv'
  <2> SUFFICES ASSUME ~ hosted
               PROVE  /\ \A p \in Projects : spent'[p] = 0
                      /\ total' = 0
    BY SteadyStep DEF FreeInv
  <2>1. tx[c].cost = 0 /\ total = 0 /\ \A p \in Projects : spent[p] = 0
    BY DEF LedgerInv, FreeInv
  <2> QED BY <1>1, <2>1 DEF Stored
<1>4. ProjectInv'
  <2> SUFFICES ASSUME hosted, NEW p \in Projects
               PROVE  spent'[p] + Cardinality(Uncounted(p)')
                        <= PerProject + Cardinality(Commands) - 1
    BY DEF ProjectInv
  <2>1. spent[p] + Cardinality(Uncounted(p)) <= PerProject + Cardinality(Commands) - 1
    BY DEF LedgerInv, ProjectInv
  <2>2. Uncounted(p)' \subseteq Uncounted(p) \ {c}
    BY SteadyStep DEF Uncounted
  <2>3. CASE p = tx[c].project
    <3>1. spent'[p] = spent[p] + tx[c].cost BY <1>1, <2>3 DEF Stored
    <3>2. c \in Uncounted(p) BY <2>3 DEF Uncounted, OnceAsked
    <3>3. /\ Cardinality(Uncounted(p)') \in Nat /\ Cardinality(Uncounted(p)) \in Nat
          /\ Cardinality(Uncounted(p)') + 1 <= Cardinality(Uncounted(p))
      BY <2>2, <3>2, OneLess DEF Uncounted
    <3> QED BY <1>1, <2>1, <3>1, <3>3, Numbers
  <2>4. CASE p # tx[c].project
    <3>1. spent'[p] = spent[p] BY <1>1, <2>4 DEF Stored
    <3>2. /\ Cardinality(Uncounted(p)') \in Nat /\ Cardinality(Uncounted(p)) \in Nat
          /\ Cardinality(Uncounted(p)') <= Cardinality(Uncounted(p))
      BY <2>2, SmallerSet DEF Uncounted
    <3> QED BY <1>1, <2>1, <3>1, <3>2, Numbers
  <2> QED BY <2>3, <2>4
<1>5. TotalInv'
  <2> SUFFICES ASSUME hosted
               PROVE  total' + Cardinality(UncountedInAll')
                        <= Total + Cardinality(Commands) - 1
    BY DEF TotalInv
  <2>1. total + Cardinality(UncountedInAll) <= Total + Cardinality(Commands) - 1
    BY DEF LedgerInv, TotalInv
  <2>2. UncountedInAll' \subseteq UncountedInAll \ {c}
    BY SteadyStep DEF UncountedInAll, OnceAsked, LetThrough
  <2>3. c \in UncountedInAll BY DEF UncountedInAll, LetThrough
  <2>4. /\ Cardinality(UncountedInAll') \in Nat /\ Cardinality(UncountedInAll) \in Nat
        /\ Cardinality(UncountedInAll') + 1 <= Cardinality(UncountedInAll)
    BY <2>2, <2>3, OneLess DEF UncountedInAll
  <2>5. total' = total + tx[c].cost BY DEF Stored
  <2> QED BY <1>1, <2>1, <2>4, <2>5, Numbers
<1> QED BY <1>2, <1>3, <1>4, <1>5 DEF LedgerInv, Typed

(* The project's spending is read: one more command may be let through,    *)
(* and no more than all of them.                                           *)
LEMMA AskProjectCounts ==
  ASSUME LedgerInv, NEW c \in Commands, AskProject(c)
  PROVE  LedgerInv'
<1>1. /\ tx \in [Commands -> Command] /\ tx[c] \in Command
      /\ spent \in [Projects -> Nat] /\ total \in Nat
  BY DEF LedgerInv, Typed, TypeOK
<1>2. TypeOK' BY AttemptTypes DEF LedgerInv, Typed, TypeOK, AskProject
<1>3. CASE tx' = [tx EXCEPT ![c] = Raised(tx[c])]
  <2>1. Steady(tx[c], Raised(tx[c])) BY Fates DEF Steady, OnceAsked, LetThrough
  <2>2. \A d \in Commands : tx'[d] = tx[d] \/ Steady(tx[d], tx'[d]) BY <1>1, <1>3, <2>1
  <2> QED BY <1>2, <2>2, SteadyCounts DEF AskProject
<1>4. CASE /\ WithinCeiling(c, spent[tx[c].project], PerProject)
           /\ tx' = [tx EXCEPT ![c].pc = "total"]
  <2>1. /\ tx'[c].pc = "total" /\ tx'[c].project = tx[c].project
        /\ tx'[c].cost = tx[c].cost /\ \A d \in Commands \ {c} : tx'[d] = tx[d]
    BY <1>1, <1>4 DEF Command
  <2>2. RoleKnown' BY <2>1 DEF LedgerInv, Typed, RoleKnown
  <2>3. FreeInv' BY <2>1 DEF LedgerInv, FreeInv, AskProject
  <2>4. UncountedInAll' = UncountedInAll
    BY <2>1 DEF UncountedInAll, LetThrough, AskProject
  <2>5. TotalInv' BY <2>4 DEF LedgerInv, TotalInv, AskProject
  <2>6. ProjectInv'
    <3> SUFFICES ASSUME hosted, NEW p \in Projects
                 PROVE  spent[p] + Cardinality(Uncounted(p)')
                          <= PerProject + Cardinality(Commands) - 1
      BY DEF ProjectInv, AskProject
    <3>1. CASE p = tx[c].project
      <4>1. spent[p] + 1 <= PerProject BY <1>4, <3>1 DEF WithinCeiling
      <4>2. /\ Cardinality(Uncounted(p)') \in Nat
            /\ Cardinality(Uncounted(p)') <= Cardinality(Commands)
        BY SmallerSet DEF Uncounted
      <4> QED BY <1>1, <4>1, <4>2, Numbers
    <3>2. CASE p # tx[c].project
      <4>1. Uncounted(p)' = Uncounted(p) BY <2>1, <3>2 DEF Uncounted
      <4> QED BY <4>1 DEF LedgerInv, ProjectInv
    <3> QED BY <3>1, <3>2
  <2> QED BY <1>2, <2>2, <2>3, <2>5, <2>6 DEF LedgerInv, Typed
<1> QED BY <1>3, <1>4 DEF AskProject

(* Everybody's spending is read.                                           *)
LEMMA AskTotalCounts ==
  ASSUME LedgerInv, NEW c \in Commands, AskTotal(c)
  PROVE  LedgerInv'
<1>1. /\ tx \in [Commands -> Command] /\ tx[c] \in Command
      /\ spent \in [Projects -> Nat] /\ total \in Nat
  BY DEF LedgerInv, Typed, TypeOK
<1>2. TypeOK' BY AttemptTypes DEF LedgerInv, Typed, TypeOK, AskTotal
<1>3. CASE tx' = [tx EXCEPT ![c] = Raised(tx[c])]
  <2>1. Steady(tx[c], Raised(tx[c])) BY Fates DEF Steady, OnceAsked, LetThrough
  <2>2. \A d \in Commands : tx'[d] = tx[d] \/ Steady(tx[d], tx'[d]) BY <1>1, <1>3, <2>1
  <2> QED BY <1>2, <2>2, SteadyCounts DEF AskTotal
<1>4. CASE /\ WithinCeiling(c, total, Total)
           /\ tx' = [tx EXCEPT ![c].pc = "begin"]
  <2>1. /\ tx'[c].pc = "begin" /\ tx'[c].project = tx[c].project
        /\ tx'[c].cost = tx[c].cost /\ \A d \in Commands \ {c} : tx'[d] = tx[d]
    BY <1>1, <1>4 DEF Command
  <2>2. RoleKnown' BY <2>1 DEF LedgerInv, Typed, RoleKnown
  <2>3. FreeInv' BY <2>1 DEF LedgerInv, FreeInv, AskTotal
  <2>4. \A p \in Projects : Uncounted(p)' = Uncounted(p)
    BY <2>1 DEF Uncounted, OnceAsked, AskTotal
  <2>5. ProjectInv' BY <2>4 DEF LedgerInv, ProjectInv, AskTotal
  <2>6. TotalInv'
    <3>1. total + 1 <= Total BY <1>4 DEF WithinCeiling
    <3>2. /\ Cardinality(UncountedInAll') \in Nat
          /\ Cardinality(UncountedInAll') <= Cardinality(Commands)
      BY SmallerSet DEF UncountedInAll
    <3> QED BY <1>1, <3>1, <3>2, Numbers DEF TotalInv, AskTotal
  <2> QED BY <1>2, <2>2, <2>3, <2>5, <2>6 DEF LedgerInv, Typed
<1> QED BY <1>3, <1>4 DEF AskTotal

(* The API stops: nobody waits for anything.                               *)
LEMMA CrashCounts ==
  ASSUME LedgerInv, Crash
  PROVE  LedgerInv'
<1>1. \A c \in Commands : [tx[c] EXCEPT !.wire = "quiet"] \in Command
  BY FieldTypes DEF LedgerInv, Typed, TypeOK
<1>2. TypeOK' BY <1>1, OverTypes DEF LedgerInv, Typed, TypeOK, Crash
<1>3. \A c \in Commands : tx'[c] = Over([tx[c] EXCEPT !.wire = "quiet"]) BY DEF Crash
<1>4. \A d \in Commands : Steady(tx[d], tx'[d])
  BY <1>3, Fates DEF Steady, OnceAsked, LetThrough
<1> QED BY <1>2, <1>4, SteadyCounts DEF Crash

LEMMA NextInv == LedgerInv /\ [Next]_vars => LedgerInv'
<1> SUFFICES ASSUME LedgerInv, [Next]_vars PROVE LedgerInv' OBVIOUS
<1> USE DEF Typed
<1>1. TypeOK BY DEF LedgerInv
<1>2. ASSUME NEW c \in Commands,
             \/ \E p \in Projects : Start(c, p)
             \/ Begin(c) \/ Send(c) \/ Answer(c) \/ Hear(c) \/ Return(c) \/ Retire(c) \/ Pause(c)
      PROVE  LedgerInv'
  <2>1. /\ tx' \in [Commands -> Command]
        /\ Steady(tx[c], tx'[c])
        /\ \A d \in Commands \ {c} : tx'[d] = tx[d]
        /\ UNCHANGED <<hosted, spent, total>>
    BY <1>2, AttemptTypes, SteadyAttempts DEF LedgerInv
  <2>2. prompted' = prompted
    BY <1>2 DEF Start, Begin, Send, Answer, Hear, Return, Retire, Pause
  <2>3. TypeOK' BY <1>1, <2>1, <2>2 DEF TypeOK
  <2> QED BY <2>1, <2>3, SteadyCounts
<1>3. ASSUME NEW c \in Commands,
             \/ Result(c) \/ Accept(c) \/ Reject(c) \/ Apply(c) \/ Close(c)
             \/ Cancel(c) \/ CancelCall(c)
      PROVE  LedgerInv'
  <2>1. /\ tx' \in [Commands -> Command]
        /\ Steady(tx[c], tx'[c])
        /\ \A d \in Commands \ {c} : tx'[d] = tx[d]
        /\ hosted' = hosted
        /\ \/ UNCHANGED <<spent, total>>
           \/ Stored(c) /\ tx[c].pc = "result" /\ tx'[c].pc \notin OnceAsked
    BY <1>3, OtherTypes, SteadyEnds DEF LedgerInv
  <2>2. prompted' \in BOOLEAN
    BY <1>1, <1>3 DEF Result, Accept, Reject, Apply, Close, Cancel, CancelCall, TypeOK
  <2>3. tx[c].cost \in 0..1 BY <1>1, FieldsOf DEF TypeOK
  <2>4. spent' \in [Projects -> Nat] /\ total' \in Nat
    BY <1>1, <2>1, <2>3 DEF Stored, TypeOK
  <2>5. TypeOK' BY <1>1, <2>1, <2>2, <2>4 DEF TypeOK
  <2> QED BY <2>1, <2>5, SteadyCounts, StoredCounts
<1>4. ASSUME NEW c \in Commands, AskProject(c) \/ AskTotal(c) PROVE LedgerInv'
  BY <1>4, AskProjectCounts, AskTotalCounts
<1>5. CASE Crash BY <1>5, CrashCounts
<1>6. CASE UNCHANGED vars
  <2>1. /\ UNCHANGED <<hosted, spent, total>> /\ \A d \in Commands : tx'[d] = tx[d]
    BY <1>6 DEF vars
  <2>2. TypeOK' BY <1>1, <1>6 DEF TypeOK, vars
  <2> QED BY <2>1, <2>2, SteadyCounts
<1> QED BY <1>2, <1>3, <1>4, <1>5, <1>6 DEF Next, Step

LEMMA Invariant == Spec => []LedgerInv
BY InitInv, NextInv, PTL DEF Spec

(* Every variable keeps its type, for any number of commands, projects and *)
(* any ceilings: no step builds a generation or a command that is none     *)
(* (ProposalEvidenceScope, model_proposal_generation_events).              *)
THEOREM TypeCorrect == Spec => []TypeOK
<1>1. LedgerInv => TypeOK BY DEF LedgerInv, Typed
<1> QED BY <1>1, Invariant, PTL

(* GenerationBudget.refusal reads the ledger and holds nothing: the        *)
(* ceilings are kept all the same but for one call of every other command, *)
(* however many commands ask, retry, are cancelled or crash.               *)
THEOREM SpendingStaysBounded == Spec => []SpendingBounded
<1>1. LedgerInv => SpendingBounded
  <2> SUFFICES ASSUME LedgerInv PROVE SpendingBounded OBVIOUS
  <2>1. spent \in [Projects -> Nat] /\ total \in Nat /\ hosted \in BOOLEAN
    BY DEF LedgerInv, Typed, TypeOK
  <2>2. CASE hosted
    <3>1. ASSUME NEW p \in Projects
          PROVE  spent[p] <= PerProject + (Cardinality(Commands) - 1)
      <4>1. spent[p] + Cardinality(Uncounted(p)) <= PerProject + Cardinality(Commands) - 1
        BY <2>2 DEF LedgerInv, ProjectInv
      <4>2. Cardinality(Uncounted(p)) \in Nat BY SmallerSet DEF Uncounted
      <4> QED BY <2>1, <4>1, <4>2, Numbers
    <3>2. total <= Total + (Cardinality(Commands) - 1)
      <4>1. total + Cardinality(UncountedInAll) <= Total + Cardinality(Commands) - 1
        BY <2>2 DEF LedgerInv, TotalInv
      <4>2. Cardinality(UncountedInAll) \in Nat BY SmallerSet DEF UncountedInAll
      <4> QED BY <2>1, <4>1, <4>2, Numbers
    <3> QED BY <3>1, <3>2 DEF SpendingBounded
  <2>3. CASE ~ hosted
    BY <2>1, <2>3, Numbers DEF LedgerInv, FreeInv, SpendingBounded
  <2> QED BY <2>2, <2>3
<1> QED BY <1>1, Invariant, PTL

-----------------------------------------------------------------------------
(* What the ledger tells of a generation.                                  *)

Verdicts == {"ADAPTER_ACCEPTED", "ADAPTER_REJECTED", "APPLICATION_RESULT"}

(* Nothing has been said of what the provider answered.                    *)
Unsettled(row) ==
  row.events \cap Verdicts = {} /\ row.status = "NONE" /\ ~ row.linked

(* The course of a generation, stage by stage.                             *)
Unsent(t) ==
  t.pc \in {"project", "total", "begin", "pause", "send"} =>
    /\ t.row = NewRow /\ t.tried = t.told /\ t.answer = "NONE" /\ ~ t.cut

Called(t) ==
  t.pc = "call" =>
    /\ Unsettled(t.row) /\ t.tried = t.told
    /\ "HTTP_REQUEST" \in t.row.events /\ "PROVIDER_RESULT" \notin t.row.events
    /\ t.wire # "quiet" => t.row.events \cap {"HTTP_RESPONSE", "TRANSPORT_ERROR"} = {}
    /\ t.answer = "GOOD" => t.wire = "heard" \/ "HTTP_RESPONSE" \in t.row.events

Answered(t) ==
  /\ t.pc \in {"result", "retire", "accept"} => Unsettled(t.row) /\ ~ t.cut
  /\ t.pc = "result" =>
       /\ t.tried = t.told /\ "PROVIDER_RESULT" \notin t.row.events
       /\ t.answer = "GOOD" => "HTTP_RESPONSE" \in t.row.events
  /\ t.pc = "retire" => t.tried = t.told \union {t.role} /\ t.answer = "NONE"
  /\ t.pc = "accept" => t.tried = t.told /\ t.row.ok

(* Only a command that is cut as it retires its generation comes to reject *)
(* one that is closed.                                                     *)
Rejecting(t) ==
  t.pc = "reject" =>
    /\ ~ t.row.linked /\ t.outcome = "FAILED"
    /\ t.row.events \cap {"ADAPTER_ACCEPTED", "ADAPTER_REJECTED"} = {}
    /\ \/ t.row.status = "NONE" /\ "APPLICATION_RESULT" \notin t.row.events
       \/ t.row.status = "RETIRED" /\ "APPLICATION_RESULT" \in t.row.events /\ t.cut

Applying(t) ==
  t.pc = "apply" =>
    /\ t.row.related = t.tried /\ t.row.ok /\ "ADAPTER_ACCEPTED" \in t.row.events
    /\ "APPLICATION_RESULT" \notin t.row.events
    /\ t.row.status = "NONE" /\ ~ t.row.linked

Closing(t) ==
  t.pc = "close" =>
    /\ "APPLICATION_RESULT" \notin t.row.events /\ t.row.status = "NONE"
    /\ t.outcome \in {"CREATED", "REJECTED", "FAILED"}
    /\ t.row.linked => t.row.ok /\ "ADAPTER_ACCEPTED" \in t.row.events
    /\ t.outcome = "CREATED" => t.row.linked
    /\ t.outcome # "CREATED" => ~ t.row.linked \/ t.cut

(* What is kept of it in the end.                                          *)
Kept(t) ==
  /\ t.row.status = "CREATED" => t.row.linked
  /\ t.row.status \in {"RETIRED", "REJECTED", "FAILED"} => ~ t.row.linked \/ t.cut
  /\ t.refused # {} => t.refused = {"ADAPTER_REJECTED"} /\ t.row.status = "RETIRED"

Waits(t) ==
  /\ t.wire # "quiet" => t.pc = "call"
  /\ t.pc \notin {"idle", "done"} => t.refused = {}

Course(t) ==
  /\ Waits(t) /\ Kept(t)
  /\ Unsent(t) /\ Called(t) /\ Answered(t) /\ Rejecting(t) /\ Applying(t) /\ Closing(t)

CourseInv == \A c \in Commands : Course(tx[c])

LEMMA OverCourse ==
  ASSUME NEW t, Kept(t), t.wire = "quiet"
  PROVE  Course(Over(t))
<1> DEFINE u == Over(t)
<1>1. /\ u.pc = "done" /\ u.wire = "quiet" /\ u.cut = t.cut /\ u.refused = t.refused
      /\ u.row.status = t.row.status /\ u.row.linked = t.row.linked
  BY DEF Over, Idle, NewRow
<1> HIDE DEF u
<1>2. Course(u)
  BY <1>1
  DEF Course, Waits, Kept, Unsent, Called, Answered, Rejecting, Applying, Closing
<1> QED BY <1>2 DEF u

LEMMA LostCourse ==
  ASSUME NEW t \in Command, Course(t), t.pc # "done", t.wire = "quiet", NEW kind,
         NEW allowed \in BOOLEAN, t.pc # "idle",
         allowed \/ (kind = "ADAPTER_REJECTED" /\ t.row.status = "RETIRED")
  PROVE  Course(Lost(t, kind, allowed))
<1> DEFINE u == [t EXCEPT !.refused = IF allowed THEN @ ELSE @ \union {kind}]
<1>1. /\ u.wire = t.wire /\ u.row = t.row /\ u.cut = t.cut
      /\ u.refused = IF allowed THEN t.refused ELSE t.refused \union {kind}
  BY DEF Command
<1>2. t.refused = {} /\ Kept(t) BY DEF Course, Waits
<1> HIDE DEF u
<1>3. Kept(u) BY <1>1, <1>2 DEF Kept
<1>4. Course(Over(u)) BY <1>1, <1>3, OverCourse
<1> QED BY <1>4 DEF Lost, u

LEMMA RaisedCourse ==
  ASSUME NEW t \in Command, Unsettled(t.row), t.wire = "quiet", t.refused = {}
  PROVE  Course(Raised(t))
<1>1. CASE ~ t.scope
  <2>1. Kept(t) BY DEF Kept, Unsettled
  <2> QED BY <1>1, <2>1, OverCourse DEF Raised
<1>2. CASE t.scope
  <2> DEFINE u == [Settling(t) EXCEPT !.pc = "reject", !.outcome = "FAILED"]
  <2>1. /\ u.pc = "reject" /\ u.outcome = "FAILED" /\ u.wire = "quiet"
        /\ u.row = t.row /\ u.refused = {}
    BY DEF Settling, Idle
  <2>2. Raised(t) = u BY <1>2 DEF Raised
  <2> HIDE DEF u
  <2>3. Course(u)
    BY <2>1
    DEF Course, Waits, Kept, Unsent, Called, Answered, Rejecting, Applying, Closing,
        Unsettled, Verdicts
  <2> QED BY <2>2, <2>3
<1> QED BY <1>1, <1>2 DEF Command

LEMMA CutCourse ==
  ASSUME NEW t \in Command, NEW row \in Row, Course(t), t.pc \notin {"idle", "done"}, ~ t.cut,
         \/ /\ t.pc \in {"project", "total", "begin", "pause", "send", "call", "result"}
            /\ Unsettled(row)
         \/ /\ t.pc = "retire"
            /\ row = t.row \/ row = Closed(t.row, "RETIRED")
         \/ /\ t.pc = "accept"
            /\ row = t.row \/ (row.ok /\ "ADAPTER_ACCEPTED" \in row.events)
            /\ row.status = "NONE" /\ ~ row.linked /\ "APPLICATION_RESULT" \notin row.events
         \/ /\ t.pc = "reject"
            /\ row.events \subseteq t.row.events \union {"ADAPTER_REJECTED"}
            /\ row.status = "NONE" /\ ~ row.linked
         \/ /\ t.pc = "apply"
            /\ row.status = "NONE" /\ row.ok /\ row.events = t.row.events
         \/ /\ t.pc = "close"
            /\ row = t.row \/ row = Closed(t.row, t.outcome)
  PROVE  Course(Cut(t, row))
<1> DEFINE u == [Settling(t) EXCEPT !.cut = TRUE, !.outcome = "FAILED", !.wire = "quiet",
                                    !.row = row, !.pc = CutTo(t)]
<1>1. /\ u.pc = CutTo(t) /\ u.cut = TRUE /\ u.outcome = "FAILED" /\ u.wire = "quiet"
      /\ u.row = row /\ u.refused = t.refused
  BY DEF Settling, Idle
<1>2. t.refused = {} BY DEF Course, Waits
<1>3. Cut(t, row) = IF CutTo(t) = "done" THEN Over(u) ELSE u BY <1>1 DEF Cut
<1>4. t.row \in Row BY FieldsOf
<1> HIDE DEF u
<1>5. CASE t.pc \in {"project", "total", "begin", "pause"}
  <2>1. CutTo(t) = "done" BY <1>5 DEF CutTo
  <2>2. Kept(u) BY <1>1, <1>2, <1>5 DEF Kept, Unsettled
  <2> QED BY <1>1, <1>3, <2>1, <2>2, OverCourse
<1>6. CASE t.pc \in {"send", "call", "result"}
  <2>1. CutTo(t) = "reject" BY <1>6 DEF CutTo
  <2>2. Unsettled(row) BY <1>6
  <2>3. Course(u)
    BY <1>1, <1>2, <2>1, <2>2
    DEF Course, Waits, Kept, Unsent, Called, Answered, Rejecting, Applying, Closing,
        Unsettled, Verdicts
  <2> QED BY <1>3, <2>1, <2>3
<1>7. CASE t.pc = "retire"
  <2>1. CutTo(t) = "reject" BY <1>7 DEF CutTo
  <2>2. Unsettled(t.row) BY <1>7 DEF Course, Answered
  <2>3. row = t.row \/ row = Closed(t.row, "RETIRED") BY <1>7
  <2>4. /\ ~ row.linked /\ row.events \cap {"ADAPTER_ACCEPTED", "ADAPTER_REJECTED"} = {}
        /\ \/ row.status = "NONE" /\ "APPLICATION_RESULT" \notin row.events
           \/ row.status = "RETIRED" /\ "APPLICATION_RESULT" \in row.events
    <3>1. CASE row = t.row
      BY <2>2, <3>1 DEF Unsettled, Verdicts
    <3>2. CASE row = Closed(t.row, "RETIRED")
      <4>1. /\ row.linked = t.row.linked /\ row.status = "RETIRED"
            /\ row.events = t.row.events \union {"APPLICATION_RESULT"}
        BY <1>4, <3>2 DEF Closed, With, Row
      <4> QED BY <2>2, <4>1 DEF Unsettled, Verdicts
    <3> QED BY <2>3, <3>1, <3>2
  <2>5. Course(u)
    BY <1>1, <1>2, <2>1, <2>4
    DEF Course, Waits, Kept, Unsent, Called, Answered, Rejecting, Applying, Closing
  <2> QED BY <1>3, <2>1, <2>5
<1>8. CASE t.pc \in {"accept", "reject", "apply"}
  <2>1. CutTo(t) = "close" BY <1>8 DEF CutTo
  <2>2. /\ "APPLICATION_RESULT" \notin row.events /\ row.status = "NONE"
        /\ row.linked => row.ok /\ "ADAPTER_ACCEPTED" \in row.events
    BY <1>8 DEF Course, Answered, Rejecting, Applying, Unsettled, Verdicts
  <2>3. Course(u)
    BY <1>1, <1>2, <2>1, <2>2
    DEF Course, Waits, Kept, Unsent, Called, Answered, Rejecting, Applying, Closing
  <2> QED BY <1>3, <2>1, <2>3
<1>9. CASE t.pc = "close"
  <2>1. CutTo(t) = "done" BY <1>9 DEF CutTo
  <2>2. row = t.row \/ row = Closed(t.row, t.outcome) BY <1>9
  <2>3. /\ t.row.status = "NONE"
        /\ t.outcome = "CREATED" => t.row.linked
    BY <1>9 DEF Course, Closing
  <2>4. row.status = "CREATED" => row.linked
    BY <1>4, <2>2, <2>3 DEF Closed, With, Row
  <2>5. Kept(u) BY <1>1, <1>2, <2>4 DEF Kept
  <2> QED BY <1>1, <1>3, <2>1, <2>5, OverCourse
<1> QED BY <1>5, <1>6, <1>7, <1>8, <1>9

(* What may be written where a command is cancelled.                       *)
LEMMA WrittenCourse ==
  ASSUME Typed, NEW c \in Commands, Course(tx[c]), Active(c), ~ tx[c].cut,
         NEW row \in {tx[c].row, Written(c)}
  PROVE  Course(Cut(tx[c], row))
<1> DEFINE t == tx[c]
<1>1. t \in Command /\ t.row \in Row /\ row \in Row /\ t.told \in SUBSET Retries
  BY RowsWritten, FieldsOf DEF Typed
<1>2. t.pc \notin {"idle", "done"} BY DEF Active
<1>3. CASE t.pc \in {"project", "total", "begin", "pause", "send", "call", "result"}
  <2>1. Unsettled(t.row)
    BY <1>3 DEF Course, Unsent, Called, Answered, Unsettled, NewRow
  <2>2. Unsettled(Written(c))
    <3>1. WireEvent(c) \in {"HTTP_RESPONSE", "TRANSPORT_ERROR"} BY DEF WireEvent
    <3>2. /\ Unsettled(With(t.row, "HTTP_REQUEST")) /\ Unsettled(With(t.row, WireEvent(c)))
      BY <1>1, <2>1, <3>1 DEF Unsettled, Verdicts, With, Row
    <3>3. Unsettled(Keep(c).row)
      BY <1>1, <2>1 DEF Unsettled, Verdicts, With, Row, Keep, Command
    <3> QED BY <1>3, <2>1, <3>2, <3>3 DEF Written
  <2> QED BY <1>1, <1>2, <1>3, <2>1, <2>2, CutCourse
<1>4. CASE t.pc = "retire"
  <2>1. row = t.row \/ row = Closed(t.row, "RETIRED") BY <1>4 DEF Written
  <2> QED BY <1>1, <1>2, <1>4, <2>1, CutCourse
<1>5. CASE t.pc = "accept"
  <2>1. row = t.row \/ row = Accepted(c) BY <1>5 DEF Written
  <2>2. Unsettled(t.row) /\ t.row.ok BY <1>5 DEF Course, Answered
  <2>3. /\ Accepted(c).events = t.row.events \union {"ADAPTER_ACCEPTED"}
        /\ Accepted(c).ok = t.row.ok /\ Accepted(c).linked = t.row.linked
        /\ Accepted(c).status = t.row.status
    BY <1>1 DEF Accepted, With, Row
  <2>4. /\ row = t.row \/ (row.ok /\ "ADAPTER_ACCEPTED" \in row.events)
        /\ row.status = "NONE" /\ ~ row.linked /\ "APPLICATION_RESULT" \notin row.events
    <3>1. /\ t.row.status = "NONE" /\ ~ t.row.linked
          /\ "APPLICATION_RESULT" \notin t.row.events
      BY <2>2 DEF Unsettled, Verdicts
    <3>2. CASE row = t.row BY <3>1, <3>2
    <3>3. CASE row = Accepted(c)
      <4>1. "ADAPTER_ACCEPTED" \in row.events /\ "APPLICATION_RESULT" \notin row.events
        BY <3>1, <3>3, <2>3
      <4> QED BY <2>2, <2>3, <3>1, <3>3, <4>1
    <3> QED BY <2>1, <3>2, <3>3
  <2> QED BY <1>1, <1>2, <1>5, <2>4, CutCourse
<1>6. CASE t.pc = "reject"
  <2>1. row = t.row \/ row = With(t.row, "ADAPTER_REJECTED") BY <1>6 DEF Written
  <2>2. t.row.status = "NONE" /\ ~ t.row.linked
    BY <1>6 DEF Course, Rejecting
  <2>3. /\ row.events \subseteq t.row.events \union {"ADAPTER_REJECTED"}
        /\ row.status = "NONE" /\ ~ row.linked
    BY <1>1, <2>1, <2>2 DEF With, Row
  <2> QED BY <1>1, <1>2, <1>6, <2>3, CutCourse
<1>7. CASE t.pc = "apply"
  <2>1. row = t.row \/ row = [t.row EXCEPT !.linked = TRUE] BY <1>7 DEF Written
  <2>2. t.row.status = "NONE" /\ t.row.ok BY <1>7 DEF Course, Applying
  <2>3. row.status = "NONE" /\ row.ok /\ row.events = t.row.events
    BY <1>1, <2>1, <2>2 DEF Row
  <2> QED BY <1>1, <1>2, <1>7, <2>3, CutCourse
<1>8. CASE t.pc = "close"
  <2>1. row = t.row \/ row = Closed(t.row, t.outcome) BY <1>8 DEF Written
  <2> QED BY <1>1, <1>2, <1>8, <2>1, CutCourse
<1>9. t.pc \in {"project", "total", "begin", "pause", "send", "call", "result", "retire",
                "accept", "reject", "apply", "close"}
  BY <1>1, <1>2 DEF Command
<1> QED BY <1>3, <1>4, <1>5, <1>6, <1>7, <1>8, <1>9

(* A step of a command before its answer is judged.                        *)
LEMMA AttemptCourse ==
  ASSUME Typed, NEW c \in Commands, Course(tx[c]),
         \/ \E p \in Projects : Start(c, p)
         \/ AskProject(c) \/ AskTotal(c) \/ Begin(c) \/ Send(c) \/ Answer(c) \/ Hear(c)
         \/ Return(c) \/ Retire(c) \/ Pause(c)
  PROVE  Course(tx'[c])
<1> DEFINE t == tx[c]
<1>1. /\ t \in Command /\ t.row \in Row /\ t.wire \in {"quiet", "flying", "heard", "broken"}
      /\ tx \in [Commands -> Command]
  BY RowsWritten, FieldsOf DEF Typed, TypeOK
<1>2. /\ Waits(t) /\ Kept(t) /\ Unsent(t) /\ Called(t) /\ Answered(t)
  BY DEF Course
<1>3. ASSUME NEW u, tx' = [tx EXCEPT ![c] = u], Course(u) PROVE Course(tx'[c])
  BY <1>1, <1>3
<1>4. ASSUME t.pc \in {"project", "total", "begin", "pause", "send"}
      PROVE  /\ Unsettled(t.row) /\ t.wire = "quiet" /\ t.refused = {}
             /\ t.tried = t.told /\ t.answer = "NONE" /\ ~ t.cut /\ t.row = NewRow
  BY <1>2, <1>4 DEF Unsent, Unsettled, Waits, NewRow
<1>5. CASE \E p \in Projects : Start(c, p)
  <2>1. PICK p \in Projects : Start(c, p) BY <1>5
  <2> DEFINE u == [Idle EXCEPT !.pc = FirstStep, !.project = p, !.strict = ~ prompted]
  <2>2. /\ u.pc \in {"project", "begin"} /\ u.row = NewRow /\ u.tried = {} /\ u.told = {}
        /\ u.answer = "NONE" /\ u.cut = FALSE /\ u.wire = "quiet" /\ u.refused = {}
    BY DEF Idle, FirstStep
  <2>3. tx' = [tx EXCEPT ![c] = u] BY <2>1 DEF Start
  <2> HIDE DEF u
  <2>4. Course(u)
    BY <2>2
    DEF Course, Waits, Kept, Unsent, Called, Answered, Rejecting, Applying, Closing, NewRow
  <2> QED BY <1>3, <2>3, <2>4
<1>6. ASSUME t.pc \in {"project", "total", "begin", "pause", "send"},
             NEW place \in {"project", "total", "begin"}
      PROVE  Course([t EXCEPT !.pc = place])
  <2> DEFINE u == [t EXCEPT !.pc = place]
  <2>1. /\ u.pc = place /\ u.row = t.row /\ u.tried = t.tried /\ u.told = t.told
        /\ u.answer = t.answer /\ u.cut = t.cut /\ u.wire = t.wire /\ u.refused = t.refused
    BY <1>1 DEF Command
  <2> HIDE DEF u
  <2>2. Course(u)
    BY <1>4, <1>6, <2>1
    DEF Course, Waits, Kept, Unsent, Called, Answered, Rejecting, Applying, Closing, NewRow
  <2> QED BY <2>2 DEF u
<1>7. CASE AskProject(c)
  <2>1. t.pc = "project" BY <1>7 DEF AskProject
  <2>2. Course(Raised(t)) /\ Course([t EXCEPT !.pc = "total"])
    BY <1>1, <1>4, <1>6, <2>1, RaisedCourse
  <2> QED BY <1>3, <1>7, <2>2 DEF AskProject
<1>8. CASE AskTotal(c)
  <2>1. t.pc = "total" BY <1>8 DEF AskTotal
  <2>2. Course(Raised(t)) /\ Course([t EXCEPT !.pc = "begin"])
    BY <1>1, <1>4, <1>6, <2>1, RaisedCourse
  <2> QED BY <1>3, <1>8, <2>2 DEF AskTotal
<1>9. CASE Pause(c)
  <2>1. t.pc = "pause" /\ tx' = [tx EXCEPT ![c] = [t EXCEPT !.pc = "project"]]
    BY <1>1, <1>9 DEF Pause
  <2>2. Course([t EXCEPT !.pc = "project"]) BY <1>6, <2>1
  <2> QED BY <1>3, <2>1, <2>2
<1>10. ASSUME NEW kind, NEW allowed, NEW u, Writes(c, kind, allowed, u),
              t.pc \notin {"idle", "done"}, t.wire = "quiet", allowed = TRUE, Course(u)
       PROVE  Course(tx'[c])
  <2>1. Course(Lost(t, kind, allowed)) BY <1>1, <1>10, LostCourse
  <2> QED BY <1>3, <1>10, <2>1 DEF Writes
<1>11. CASE Begin(c)
  <2> DEFINE u == [t EXCEPT !.pc = "send", !.scope = TRUE, !.row = NewRow]
  <2>1. /\ u.pc = "send" /\ u.row = NewRow /\ u.tried = t.tried /\ u.told = t.told
        /\ u.answer = t.answer /\ u.cut = t.cut /\ u.wire = t.wire /\ u.refused = t.refused
    BY <1>1 DEF Command
  <2>2. t.pc = "begin" /\ Writes(c, "NONE", TRUE, u) BY <1>11 DEF Begin
  <2> HIDE DEF u
  <2>3. Course(u)
    BY <1>4, <2>1, <2>2
    DEF Course, Waits, Kept, Unsent, Called, Answered, Rejecting, Applying, Closing, NewRow
  <2> QED BY <1>4, <1>10, <2>2, <2>3
<1>12. CASE Send(c)
  <2> DEFINE u == [t EXCEPT !.pc = "call", !.wire = "flying", !.row = With(@, "HTTP_REQUEST")]
  <2>1. /\ t.pc = "send"
        /\ Writes(c, "HTTP_REQUEST", Allowed(t.row, "HTTP_REQUEST"), u)
    BY <1>12 DEF Send
  <2>2. /\ u.pc = "call" /\ u.tried = t.tried /\ u.told = t.told
        /\ u.answer = t.answer /\ u.cut = t.cut /\ u.wire = "flying" /\ u.refused = t.refused
        /\ u.row = With(t.row, "HTTP_REQUEST")
    BY <1>1 DEF Command
  <2>3. Allowed(t.row, "HTTP_REQUEST") = TRUE BY <1>4, <2>1 DEF Allowed, NewRow
  <2>4. /\ u.row.events = {"HTTP_REQUEST"} /\ u.row.status = "NONE" /\ ~ u.row.linked
    BY <1>4, <2>1, <2>2 DEF With, NewRow
  <2> HIDE DEF u
  <2>5. Course(u)
    BY <1>4, <2>1, <2>2, <2>4
    DEF Course, Waits, Kept, Unsent, Called, Answered, Rejecting, Applying, Closing,
        Unsettled, Verdicts
  <2> QED BY <1>4, <1>10, <2>1, <2>3, <2>5
<1>13. CASE Retire(c)
  <2> DEFINE u == Retired(t)
  <2>1. /\ t.pc = "retire" /\ t.wire = "quiet" /\ t.refused = {}
        /\ Writes(c, "APPLICATION_RESULT", Allowed(t.row, "APPLICATION_RESULT"), u)
    BY <1>2, <1>13 DEF Retire, Waits
  <2>2. /\ u.pc \in {"pause", "project"} /\ u.row = NewRow /\ u.tried = t.tried
        /\ u.told = t.told \union {t.role}
        /\ u.answer = t.answer /\ u.cut = t.cut /\ u.wire = t.wire /\ u.refused = t.refused
    BY <1>1 DEF Command, Retired
  <2>3. /\ t.tried = t.told \union {t.role} /\ t.answer = "NONE" /\ ~ t.cut /\ Unsettled(t.row)
    BY <1>2, <2>1 DEF Answered
  <2>4. Allowed(t.row, "APPLICATION_RESULT") = TRUE
    BY <2>3 DEF Allowed, Unsettled, Verdicts
  <2> HIDE DEF u
  <2>5. Course(u)
    BY <2>1, <2>2, <2>3
    DEF Course, Waits, Kept, Unsent, Called, Answered, Rejecting, Applying, Closing, NewRow
  <2> QED BY <1>10, <2>1, <2>4, <2>5
<1>14. CASE Answer(c)
  <2>1. PICK wire \in {"heard", "broken"}, a \in Answers :
          /\ wire = "broken" => a # "GOOD"
          /\ \/ \E k : tx' = [tx EXCEPT ![c].wire = wire, ![c].answer = a, ![c].cost = k]
             \/ tx' = [tx EXCEPT ![c].wire = wire, ![c].answer = a]
    BY <1>14, ZenonT(30) DEF Answer, Answers
  <2>2. /\ tx'[c].wire = wire /\ tx'[c].answer = a
        /\ tx'[c].pc = t.pc /\ tx'[c].row = t.row /\ tx'[c].tried = t.tried
        /\ tx'[c].told = t.told /\ tx'[c].cut = t.cut /\ tx'[c].refused = t.refused
    BY <1>1, <2>1 DEF Command
  <2>3. t.wire = "flying" /\ t.pc = "call" /\ t.refused = {} /\ Called(t)
    BY <1>2, <1>14 DEF Answer, Waits
  <2>4. a = "GOOD" => wire = "heard" BY <2>1
  <2> DEFINE u == tx'[c]
  <2> HIDE DEF u
  <2>5. Course(u)
    BY <2>2, <2>3, <2>4
    DEF u, Course, Waits, Kept, Unsent, Called, Answered, Rejecting, Applying, Closing,
        Unsettled
  <2> QED BY <2>5 DEF u
<1>15. CASE Hear(c)
  <2> DEFINE kind == WireEvent(c)
  <2>1. /\ t.wire \in {"heard", "broken"} /\ t.pc = "call" /\ t.refused = {}
        /\ kind \in {"HTTP_RESPONSE", "TRANSPORT_ERROR"}
        /\ t.wire = "heard" => kind = "HTTP_RESPONSE"
    BY <1>2, <1>15 DEF Hear, Waits, WireEvent
  <2>2. /\ Unsettled(t.row) /\ t.tried = t.told
        /\ "HTTP_REQUEST" \in t.row.events /\ "PROVIDER_RESULT" \notin t.row.events
        /\ t.row.events \cap {"HTTP_RESPONSE", "TRANSPORT_ERROR"} = {}
    BY <1>2, <2>1 DEF Called
  <2>3. Allowed(t.row, kind) BY <2>1, <2>2 DEF Allowed, Unsettled, Verdicts
  <2>4. \/ tx' = [tx EXCEPT ![c].wire = "quiet", ![c].row = With(@, kind)]
        \/ tx' = [tx EXCEPT ![c].wire = "quiet", ![c].answer = "LOST",
                            ![c].refused = IF Allowed(t.row, kind) THEN @ ELSE @ \union {kind}]
    BY <1>15 DEF Hear
  <2>5. CASE tx' = [tx EXCEPT ![c].wire = "quiet", ![c].row = With(@, kind)]
    <3> DEFINE u == [t EXCEPT !.wire = "quiet", !.row = With(@, kind)]
    <3>1. tx' = [tx EXCEPT ![c] = u] BY <1>1, <2>5
    <3>2. /\ u.wire = "quiet" /\ u.row = With(t.row, kind) /\ u.pc = t.pc
          /\ u.tried = t.tried /\ u.told = t.told /\ u.refused = t.refused
          /\ u.answer = t.answer
      BY <1>1 DEF Command
    <3>3. /\ u.row.events = t.row.events \union {kind}
          /\ u.row.status = t.row.status /\ u.row.linked = t.row.linked
      BY <1>1, <3>2 DEF With, Row
    <3>4. Called(t) BY <1>2
    <3> HIDE DEF u
    <3>5. "HTTP_RESPONSE" \in u.row.events \/ u.answer # "GOOD"
      BY <2>1, <2>2, <3>2, <3>3, <3>4 DEF Called
    <3>6. Unsettled(u.row) /\ "PROVIDER_RESULT" \notin u.row.events
      BY <2>1, <2>2, <3>3 DEF Unsettled, Verdicts
    <3>7. Course(u)
      BY <2>1, <2>2, <3>2, <3>3, <3>5, <3>6
      DEF Course, Waits, Kept, Unsent, Called, Answered, Rejecting, Applying, Closing,
          Unsettled
    <3> QED BY <1>3, <3>1, <3>7
  <2>6. CASE tx' = [tx EXCEPT ![c].wire = "quiet", ![c].answer = "LOST",
                              ![c].refused = IF Allowed(t.row, kind) THEN @
                                             ELSE @ \union {kind}]
    <3> DEFINE u == [t EXCEPT !.wire = "quiet", !.answer = "LOST",
                              !.refused = IF Allowed(t.row, kind) THEN @
                                          ELSE @ \union {kind}]
    <3>1. tx' = [tx EXCEPT ![c] = u] BY <1>1, <2>6
    <3>2. /\ u.wire = "quiet" /\ u.row = t.row /\ u.pc = t.pc
          /\ u.tried = t.tried /\ u.told = t.told /\ u.refused = t.refused
          /\ u.answer = "LOST"
      BY <1>1, <2>3 DEF Command
    <3> HIDE DEF u
    <3>3. Course(u)
      BY <2>1, <2>2, <3>2
      DEF Course, Waits, Kept, Unsent, Called, Answered, Rejecting, Applying, Closing,
          Unsettled
    <3> QED BY <1>3, <3>1, <3>3
  <2> QED BY <2>4, <2>5, <2>6
<1>16. CASE Return(c)
  <2>1. /\ t.pc = "call" /\ t.wire = "quiet" /\ t.refused = {}
        /\ Unsettled(t.row) /\ Called(t)
    BY <1>2, <1>16 DEF Return, CallOver, Waits, Called
  <2>2. Course(Raised(t)) /\ Course(Over(t)) BY <1>1, <1>2, <2>1, RaisedCourse, OverCourse
  <2>3. ASSUME ~ t.cut PROVE Course([t EXCEPT !.pc = "result"])
    <3> DEFINE u == [t EXCEPT !.pc = "result"]
    <3>1. /\ u.wire = "quiet" /\ u.row = t.row /\ u.pc = "result" /\ u.cut = FALSE
          /\ u.tried = t.tried /\ u.told = t.told /\ u.refused = t.refused
          /\ u.answer = t.answer
      BY <1>1, <2>1, <2>3 DEF Command
    <3> HIDE DEF u
    <3>2. Course(u)
      BY <2>1, <3>1
      DEF Course, Waits, Kept, Unsent, Called, Answered, Rejecting, Applying, Closing,
          Unsettled
    <3> QED BY <3>2 DEF u
  <2>4. \/ tx' = [tx EXCEPT ![c] = Raised(t)] \/ tx' = [tx EXCEPT ![c] = Over(t)]
        \/ ~ t.cut /\ tx' = [tx EXCEPT ![c] = [t EXCEPT !.pc = "result"]]
    BY <1>16 DEF Return
  <2> QED BY <1>3, <2>2, <2>3, <2>4
<1> QED BY <1>5, <1>7, <1>8, <1>9, <1>11, <1>12, <1>13, <1>14, <1>15, <1>16

(* A step that judges the answer, or what becomes of the proposal.         *)
LEMMA EndCourse ==
  ASSUME Typed, NEW c \in Commands, Course(tx[c]),
         \/ Result(c) \/ Accept(c) \/ Reject(c) \/ Apply(c) \/ Close(c)
         \/ Cancel(c) \/ CancelCall(c)
  PROVE  Course(tx'[c])
<1> DEFINE t == tx[c]
<1>1. /\ t \in Command /\ t.row \in Row /\ t.wire \in {"quiet", "flying", "heard", "broken"}
      /\ tx \in [Commands -> Command]
  BY RowsWritten, FieldsOf DEF Typed, TypeOK
<1>2. /\ Waits(t) /\ Kept(t) /\ Called(t) /\ Answered(t)
      /\ Rejecting(t) /\ Applying(t) /\ Closing(t)
  BY DEF Course
<1>3. ASSUME NEW u, tx' = [tx EXCEPT ![c] = u], Course(u) PROVE Course(tx'[c])
  BY <1>1, <1>3
<1>4. ASSUME t.pc \notin {"idle", "done", "call"} PROVE t.wire = "quiet" /\ t.refused = {}
  BY <1>2, <1>4 DEF Waits
<1>5. ASSUME NEW kind, NEW allowed \in BOOLEAN, NEW u, Writes(c, kind, allowed, u),
             t.pc \notin {"idle", "done", "call"},
             allowed \/ (kind = "ADAPTER_REJECTED" /\ t.row.status = "RETIRED"),
             allowed => Course(u)
      PROVE  Course(tx'[c])
  <2>1. Course(Lost(t, kind, allowed)) BY <1>1, <1>4, <1>5, LostCourse
  <2> QED BY <1>3, <1>5, <2>1 DEF Writes
<1>6. CASE Result(c)
  <2> DEFINE kept == Keep(c)
             role == RetryOf(kept, t.answer)
             retired == [kept EXCEPT !.pc = "retire", !.role = role,
                                     !.tried = @ \union {role},
                                     !.strict = @ /\ role # "SCHEMA_NEGOTIATION"]
             good == [kept EXCEPT !.pc = "accept"]
  <2>1. t.pc = "result" BY <1>6 DEF Result
  <2>2. /\ Unsettled(t.row) /\ t.tried = t.told /\ "PROVIDER_RESULT" \notin t.row.events
        /\ t.answer = "GOOD" => "HTTP_RESPONSE" \in t.row.events
        /\ ~ t.cut /\ t.wire = "quiet" /\ t.refused = {}
    BY <1>2, <1>4, <2>1 DEF Answered
  <2>3. AllowedResult(t.row, t.answer = "GOOD") = TRUE
    BY <2>2 DEF AllowedResult, Allowed, Unsettled, Verdicts
  <2>4. /\ kept \in Command /\ kept.tried = t.tried /\ kept.told = t.told
        /\ kept.cut = t.cut /\ kept.wire = t.wire /\ kept.refused = t.refused
        /\ kept.answer = "NONE"
    <3>1. kept \in Command BY RowsWritten DEF Typed
    <3>2. \A row : LET u == [t EXCEPT !.row = row, !.answer = "NONE", !.cost = 0] IN
            /\ u.tried = t.tried /\ u.told = t.told /\ u.cut = t.cut
            /\ u.wire = t.wire /\ u.refused = t.refused /\ u.answer = "NONE"
      BY <1>1 DEF Command
    <3>3. \E row : kept = [t EXCEPT !.row = row, !.answer = "NONE", !.cost = 0]
      BY Zenon DEF Keep
    <3> HIDE DEF kept
    <3> QED BY <3>1, <3>2, <3>3
  <2>5. /\ kept.row.ok = (t.answer = "GOOD")
        /\ kept.row.events = t.row.events \union {"PROVIDER_RESULT"}
        /\ kept.row.status = t.row.status /\ kept.row.linked = t.row.linked
    BY <1>1 DEF Keep, Command, With, Row
  <2>6. Unsettled(kept.row) BY <2>2, <2>5 DEF Unsettled, Verdicts
  <2>7. Course(Raised(kept))
    <3> HIDE DEF kept
    <3> QED BY <2>2, <2>4, <2>6, RaisedCourse
  <2>8. Course(retired)
    <3>1. /\ retired.pc = "retire" /\ retired.role = role /\ retired.row = kept.row
          /\ retired.tried = kept.tried \union {role} /\ retired.told = kept.told
          /\ retired.cut = kept.cut /\ retired.wire = kept.wire
          /\ retired.refused = kept.refused /\ retired.answer = kept.answer
      <4> HIDE DEF kept, role
      <4> QED BY <2>4 DEF Command
    <3> HIDE DEF kept, role, retired
    <3> QED BY <2>2, <2>4, <2>6, <3>1
            DEF Course, Waits, Kept, Unsent, Called, Answered, Rejecting, Applying, Closing,
                Unsettled
  <2>9. ASSUME t.answer = "GOOD" PROVE Course(good)
    <3>1. /\ good.pc = "accept" /\ good.row = kept.row
          /\ good.tried = kept.tried /\ good.told = kept.told
          /\ good.cut = kept.cut /\ good.wire = kept.wire /\ good.refused = kept.refused
      <4> HIDE DEF kept
      <4> QED BY <2>4 DEF Command
    <3>2. good.row.ok BY <2>5, <2>9, <3>1
    <3> HIDE DEF kept, good
    <3> QED BY <2>2, <2>4, <2>6, <3>1, <3>2
            DEF Course, Waits, Kept, Unsent, Called, Answered, Rejecting, Applying, Closing,
                Unsettled
  <2>10. ASSUME NEW u \in Judged(kept, t.answer) PROVE Course(u)
    <3>1. \/ u = retired \/ u = Raised(kept)
          \/ t.answer = "GOOD" /\ u = good
      BY <2>10 DEF Judged
    <3> HIDE DEF kept, role, retired, good
    <3> QED BY <2>7, <2>8, <2>9, <3>1
  <2>11. Course(Lost(t, "PROVIDER_RESULT", TRUE)) BY <1>1, <2>1, <2>2, LostCourse
  <2>12. \/ \E u \in Judged(kept, t.answer) : tx' = [tx EXCEPT ![c] = u]
         \/ tx' = [tx EXCEPT ![c] = Lost(t, "PROVIDER_RESULT", TRUE)]
    BY <1>6, <2>3, Zenon DEF Result
  <2> HIDE DEF kept, role, retired, good
  <2> QED BY <1>3, <2>10, <2>11, <2>12
<1>7. CASE Accept(c)
  <2> DEFINE u == [t EXCEPT !.pc = "apply", !.row = Accepted(c)]
  <2>1. /\ t.pc = "accept"
        /\ Writes(c, "ADAPTER_ACCEPTED", Allowed(t.row, "ADAPTER_ACCEPTED"), u)
    BY <1>7 DEF Accept
  <2>2. Unsettled(t.row) /\ ~ t.cut /\ t.row.ok /\ t.tried = t.told
    BY <1>2, <2>1 DEF Answered
  <2>3. Allowed(t.row, "ADAPTER_ACCEPTED") = TRUE
    BY <2>2 DEF Allowed, Unsettled, Verdicts
  <2>4. /\ u.pc = "apply" /\ u.row = Accepted(c) /\ u.tried = t.tried /\ u.cut = t.cut
        /\ u.wire = t.wire /\ u.refused = t.refused
    BY <1>1 DEF Command
  <2>5. /\ Accepted(c).events = t.row.events \union {"ADAPTER_ACCEPTED"}
        /\ Accepted(c).ok = t.row.ok /\ Accepted(c).linked = t.row.linked
        /\ Accepted(c).status = t.row.status
    BY <1>1 DEF Accepted, With, Row
  <2>6. Accepted(c).related = t.told
    <3>1. With(t.row, "ADAPTER_ACCEPTED") \in Row BY <1>1, RowTypes, EventNames
    <3> QED BY <3>1 DEF Accepted, Row
  <2> HIDE DEF u
  <2>7. Course(u)
    BY <1>4, <2>1, <2>2, <2>4, <2>5, <2>6
    DEF Course, Waits, Kept, Unsent, Called, Answered, Rejecting, Applying, Closing,
        Unsettled, Verdicts
  <2> QED BY <1>5, <2>1, <2>3, <2>7
<1>8. CASE Reject(c)
  <2> DEFINE u == [t EXCEPT !.pc = "close", !.row = With(@, "ADAPTER_REJECTED")]
             allowed == Allowed(t.row, "ADAPTER_REJECTED")
  <2>1. t.pc = "reject" /\ Writes(c, "ADAPTER_REJECTED", allowed, u) /\ allowed \in BOOLEAN
    BY <1>8, EventNames DEF Reject
  <2>2. /\ ~ t.row.linked /\ t.outcome = "FAILED"
        /\ \/ t.row.status = "NONE" /\ "APPLICATION_RESULT" \notin t.row.events
           \/ t.row.status = "RETIRED" /\ "APPLICATION_RESULT" \in t.row.events
        /\ t.row.events \cap {"ADAPTER_ACCEPTED", "ADAPTER_REJECTED"} = {}
    BY <1>2, <2>1 DEF Rejecting
  <2>3. allowed \/ t.row.status = "RETIRED" BY <2>2 DEF Allowed
  <2>4. allowed => t.row.status = "NONE" /\ "APPLICATION_RESULT" \notin t.row.events
    BY <2>2 DEF Allowed
  <2>5. /\ u.pc = "close" /\ u.row = With(t.row, "ADAPTER_REJECTED") /\ u.outcome = t.outcome
        /\ u.cut = t.cut /\ u.wire = t.wire /\ u.refused = t.refused
    BY <1>1 DEF Command
  <2>6. /\ u.row.events = t.row.events \union {"ADAPTER_REJECTED"}
        /\ u.row.status = t.row.status /\ u.row.linked = t.row.linked
    BY <1>1, <2>5 DEF With, Row
  <2> HIDE DEF u, allowed
  <2>7. allowed => Course(u)
    BY <1>4, <2>1, <2>2, <2>4, <2>5, <2>6
    DEF Course, Waits, Kept, Unsent, Called, Answered, Rejecting, Applying, Closing
  <2> QED BY <1>5, <2>1, <2>3, <2>7
<1>9. CASE Apply(c)
  <2> DEFINE linked == [t.row EXCEPT !.linked = TRUE]
  <2>1. /\ t.pc = "apply" /\ t.row.ok /\ "ADAPTER_ACCEPTED" \in t.row.events
        /\ "APPLICATION_RESULT" \notin t.row.events
        /\ t.row.status = "NONE" /\ ~ t.row.linked
        /\ t.wire = "quiet" /\ t.refused = {}
    BY <1>2, <1>4, <1>9 DEF Apply, Applying
  <2>2. /\ linked.linked /\ linked.ok = t.row.ok /\ linked.events = t.row.events
        /\ linked.status = t.row.status
    BY <1>1 DEF Row
  <2>3. ASSUME NEW status \in {"CREATED", "REJECTED", "FAILED"}, NEW row \in {t.row, linked},
               row = linked <=> status = "CREATED"
        PROVE  Course(Ends(c, status, row))
    <3> DEFINE u == Ends(c, status, row)
    <3>1. /\ u.pc = "close" /\ u.outcome = status /\ u.row = row /\ u.wire = t.wire
          /\ u.refused = t.refused /\ u.cut = t.cut
      BY DEF Ends, Settling, Idle
    <3>2. /\ "APPLICATION_RESULT" \notin row.events /\ row.status = "NONE"
          /\ "ADAPTER_ACCEPTED" \in row.events /\ row.ok
          /\ status = "CREATED" => row.linked
          /\ status # "CREATED" => ~ row.linked
      <4> HIDE DEF linked
      <4> QED BY <2>1, <2>2, <2>3
    <3> HIDE DEF u
    <3>3. Course(u)
      BY <2>1, <2>3, <3>1, <3>2
      DEF Course, Waits, Kept, Unsent, Called, Answered, Rejecting, Applying, Closing
    <3> QED BY <3>3 DEF u
  <2>4. linked # t.row
    <3> HIDE DEF linked
    <3> QED BY <2>1, <2>2
  <2>5. /\ Course(Ends(c, "REJECTED", t.row)) /\ Course(Ends(c, "CREATED", linked))
        /\ Course(Ends(c, "FAILED", t.row))
    <3> HIDE DEF linked
    <3> QED BY <2>3, <2>4
  <2>6. [t EXCEPT !.row = t.row] = t BY <1>1 DEF Command
  <2>7. Course(Over(t)) BY <1>2, <2>1, OverCourse
  <2>8. \/ tx' = [tx EXCEPT ![c] = Ends(c, "REJECTED", t.row)]
        \/ tx' = [tx EXCEPT ![c] = Ends(c, "CREATED", linked)]
        \/ tx' = [tx EXCEPT ![c] = Ends(c, "FAILED", t.row)]
        \/ tx' = [tx EXCEPT ![c] = Over([t EXCEPT !.row = t.row])]
    BY <1>9, Zenon DEF Apply, Rollback
  <2> HIDE DEF linked
  <2> QED BY <1>3, <2>5, <2>6, <2>7, <2>8
<1>10. CASE Close(c)
  <2> DEFINE u == [t EXCEPT !.row = Closed(@, t.outcome)]
  <2>1. /\ t.pc = "close"
        /\ Writes(c, "APPLICATION_RESULT", Allowed(t.row, "APPLICATION_RESULT"), Over(u))
    BY <1>10 DEF Close
  <2>2. /\ "APPLICATION_RESULT" \notin t.row.events
        /\ t.outcome = "CREATED" => t.row.linked
        /\ t.outcome # "CREATED" => ~ t.row.linked \/ t.cut
    BY <1>2, <2>1 DEF Closing
  <2>3. Allowed(t.row, "APPLICATION_RESULT") = TRUE BY <2>2 DEF Allowed
  <2>4. /\ u.row = Closed(t.row, t.outcome) /\ u.cut = t.cut /\ u.wire = t.wire
        /\ u.refused = t.refused
    BY <1>1 DEF Command
  <2>5. u.row.status = t.outcome /\ u.row.linked = t.row.linked
    <3>1. With(t.row, "APPLICATION_RESULT") \in Row BY <1>1, RowTypes, EventNames
    <3>2. With(t.row, "APPLICATION_RESULT").linked = t.row.linked BY <1>1 DEF With, Row
    <3>3. /\ Closed(t.row, t.outcome).status = t.outcome
          /\ Closed(t.row, t.outcome).linked = With(t.row, "APPLICATION_RESULT").linked
      BY <3>1 DEF Closed, Row
    <3> HIDE DEF u
    <3> QED BY <2>4, <3>2, <3>3
  <2> HIDE DEF u
  <2>6. Kept(u) BY <1>4, <2>1, <2>2, <2>4, <2>5 DEF Kept
  <2>7. Course(Over(u)) BY <1>4, <2>1, <2>4, <2>6, OverCourse
  <2> QED BY <1>5, <2>1, <2>3, <2>7
<1>11. CASE Cancel(c)
  <2>1. PICK row \in {t.row, Written(c)} : tx' = [tx EXCEPT ![c] = Cut(t, row)]
    BY <1>11, Zenon DEF Cancel
  <2>2. Active(c) /\ ~ t.cut BY <1>11 DEF Cancel
  <2>3. Course(Cut(t, row)) BY <2>2, WrittenCourse
  <2> QED BY <1>3, <2>1, <2>3
<1>12. CASE CancelCall(c)
  <2> DEFINE wire == IF hosted THEN "broken" ELSE t.wire
             u == [t EXCEPT !.cut = TRUE, !.wire = wire]
  <2>1. /\ t.pc = "call" /\ Called(t) /\ t.refused = {}
        /\ hosted => t.wire = "flying"
    BY <1>2, <1>12 DEF CancelCall, Waits
  <2>2. tx' = [tx EXCEPT ![c] = u] BY <1>1, <1>12 DEF CancelCall
  <2>3. /\ wire # "quiet" <=> t.wire # "quiet"
        /\ t.wire = "heard" => wire = "heard"
    BY <2>1
  <2>4. /\ u.pc = t.pc /\ u.row = t.row /\ u.tried = t.tried /\ u.told = t.told
        /\ u.answer = t.answer /\ u.wire = wire /\ u.refused = t.refused /\ u.cut = TRUE
    BY <1>1 DEF Command
  <2> HIDE DEF u, wire
  <2>5. Course(u)
    BY <2>1, <2>3, <2>4
    DEF Course, Waits, Kept, Unsent, Called, Answered, Rejecting, Applying, Closing,
        Unsettled
  <2> QED BY <1>3, <2>2, <2>5
<1> QED BY <1>6, <1>7, <1>8, <1>9, <1>10, <1>11, <1>12

LEMMA InitCourse == Init => CourseInv
<1> SUFFICES ASSUME Init, NEW c \in Commands PROVE Course(tx[c]) BY DEF CourseInv
<1>1. tx[c] = Idle BY DEF Init
<1> QED BY <1>1
        DEF Idle, NewRow, Course, Waits, Kept, Unsent, Called, Answered, Rejecting, Applying,
            Closing

LEMMA NextCourse == LedgerInv /\ CourseInv /\ [Next]_vars => CourseInv'
<1> SUFFICES ASSUME LedgerInv, CourseInv, [Next]_vars, NEW d \in Commands
             PROVE  Course(tx'[d])
  BY DEF CourseInv
<1>1. Typed /\ Course(tx[d]) BY DEF LedgerInv, CourseInv
<1>2. ASSUME NEW c \in Commands,
             \/ \E p \in Projects : Start(c, p)
             \/ AskProject(c) \/ AskTotal(c) \/ Begin(c) \/ Send(c) \/ Answer(c) \/ Hear(c)
             \/ Return(c) \/ Retire(c) \/ Pause(c)
      PROVE  Course(tx'[d])
  <2>1. CASE AskProject(c) \/ AskTotal(c)
    <3>1. d # c => tx'[d] = tx[d] BY <1>1, <2>1 DEF AskProject, AskTotal, Typed, TypeOK
    <3>2. d = c => Course(tx'[d]) BY <1>1, <2>1, AttemptCourse
    <3> QED BY <1>1, <3>1, <3>2
  <2>2. CASE ~ (AskProject(c) \/ AskTotal(c))
    <3>1. d # c => tx'[d] = tx[d] BY <1>1, <1>2, <2>2, SteadyAttempts
    <3>2. d = c => Course(tx'[d]) BY <1>1, <1>2, AttemptCourse
    <3> QED BY <1>1, <3>1, <3>2
  <2> QED BY <2>1, <2>2
<1>3. ASSUME NEW c \in Commands,
             \/ Result(c) \/ Accept(c) \/ Reject(c) \/ Apply(c) \/ Close(c)
             \/ Cancel(c) \/ CancelCall(c)
      PROVE  Course(tx'[d])
  <2>1. d # c => tx'[d] = tx[d] BY <1>1, <1>3, SteadyEnds
  <2>2. d = c => Course(tx'[d]) BY <1>1, <1>3, EndCourse
  <2> QED BY <1>1, <2>1, <2>2
<1>4. CASE Crash
  <2> DEFINE u == [tx[d] EXCEPT !.wire = "quiet"]
  <2>1. tx'[d] = Over(u) BY <1>4 DEF Crash
  <2>2. u.wire = "quiet" /\ u.row = tx[d].row /\ u.cut = tx[d].cut /\ u.refused = tx[d].refused
    BY <1>1 DEF Typed, TypeOK, Command
  <2> HIDE DEF u
  <2>3. Kept(u) BY <1>1, <2>2 DEF Course, Kept
  <2> QED BY <2>1, <2>2, <2>3, OverCourse
<1>5. CASE UNCHANGED vars
  BY <1>1, <1>5 DEF vars
<1> QED BY <1>2, <1>3, <1>4, <1>5 DEF Next, Step

LEMMA CourseInvariant == Spec => []CourseInv
BY InitCourse, NextCourse, Invariant, PTL DEF Spec

(* The triggers of the ledger (validate_model_proposal_event) refuse       *)
(* nothing that the provider answers and nothing that the adapter makes of *)
(* it, wherever commands are cancelled and whenever the API stops; what    *)
(* they refuse is the rejection of a generation that was being retired.    *)
THEOREM NothingHeardIsRefused == Spec => []AnswersAreKept
<1>1. CourseInv => AnswersAreKept
  BY DEF CourseInv, Course, Kept, AnswersAreKept
<1> QED BY <1>1, CourseInvariant, PTL

(* What the ledger says of a generation is so: a version that is linked to *)
(* it (bind_model_artifacts) comes of an answer that succeeded and was     *)
(* accepted and that names each retry before it; CREATED is said where a   *)
(* version is linked, REJECTED, FAILED and RETIRED where none is, but for  *)
(* a command cut while it committed.                                       *)
THEOREM LedgerTellsTheTruth == Spec => []LedgerTells
<1>1. LedgerInv /\ CourseInv => LedgerTells
  <2> SUFFICES ASSUME LedgerInv, CourseInv, NEW c \in Commands
               PROVE  LET row == tx[c].row IN
                      /\ tx[c].pc = "apply" => row.related = tx[c].tried
                      /\ row.linked /\ Active(c) => row.ok /\ "ADAPTER_ACCEPTED" \in row.events
                      /\ row.status = "CREATED" => row.linked
                      /\ row.status \in {"RETIRED", "REJECTED", "FAILED"} =>
                           ~ row.linked \/ tx[c].cut
    BY DEF LedgerTells
  <2> DEFINE t == tx[c]
  <2>1. Course(t) /\ t \in Command BY DEF CourseInv, LedgerInv, Typed, TypeOK
  <2> HIDE DEF t
  <2>2. /\ Kept(t)
        /\ t.pc = "apply" => t.row.related = t.tried
    BY <2>1 DEF Course, Applying
  <2>3. ASSUME t.row.linked, t.pc \notin {"idle", "done"}
        PROVE  t.row.ok /\ "ADAPTER_ACCEPTED" \in t.row.events
    <3>1. t.pc \notin {"project", "total", "begin", "pause", "send", "call", "result",
                       "retire", "accept", "reject"}
      BY <2>1, <2>3
      DEF Course, Unsent, Called, Answered, Rejecting, Unsettled, NewRow
    <3>2. t.pc \in {"apply", "close"} BY <2>1, <2>3, <3>1 DEF Command
    <3> QED BY <2>1, <2>3, <3>2 DEF Course, Applying, Closing
  <2> QED BY <2>2, <2>3 DEF t, Active, Kept
<1> QED BY <1>1, Invariant, CourseInvariant, PTL
=============================================================================

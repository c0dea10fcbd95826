--------------------------- MODULE ProposalLedger ---------------------------
(***************************************************************************)
(* Generations and the evidence they leave.  A command asks the model for  *)
(* a proposal, in up to four attempts, and publishes what it accepts.      *)
(* Before an attempt is sent, what the project and the Studio have spent   *)
(* is read; each attempt is a row of model_proposal_generations with       *)
(* events of its own, every one of them written in a transaction of its    *)
(* own; triggers refuse an event out of order.                             *)
(*                                                                         *)
(* The commands are those that publish a version (Perspectives, personas,  *)
(* User Twins, Definition, Design); the rows of a command that is over are *)
(* kept by what they cost.  A hosted model is called as often as it is     *)
(* asked; a local one through the slot of GenerationJobs, whose queue is   *)
(* left out here, once per command and for free.                           *)
(***************************************************************************)
EXTENDS Integers, FiniteSets

CONSTANTS Commands, Projects,
          PerProject, Total,  \* the ceilings, in units of the largest cost of one call
          NoProject

ASSUME LedgerAssumption ==
  /\ PerProject \in Nat \ {0} /\ Total \in Nat /\ PerProject <= Total
  /\ NoProject \notin Projects
  /\ IsFiniteSet(Commands) /\ Commands # {}

VARIABLES hosted,    \* which kind of model is configured
          prompted,  \* PromptedSchemas: a strict schema has been refused
          spent,     \* what the PROVIDER_RESULT events of a project cost
          total,     \* what those of all projects cost
          tx         \* the commands

vars == <<hosted, prompted, spent, total, tx>>

Retries == {"SCHEMA_NEGOTIATION", "SCHEMA_RETRY", "PROVIDER_RETRY"}

Events == {"HTTP_REQUEST", "HTTP_RESPONSE", "TRANSPORT_ERROR", "PROVIDER_RESULT",
           "ADAPTER_ACCEPTED", "ADAPTER_REJECTED", "APPLICATION_RESULT"}

(* A generation: its events, whether the provider has succeeded, what its  *)
(* acceptance and its APPLICATION_RESULT say, and whether a version is     *)
(* linked to it.                                                           *)
Row == [events : SUBSET Events, ok : BOOLEAN, related : SUBSET Retries,
        status : {"NONE", "RETIRED", "CREATED", "REJECTED", "FAILED"},
        linked : BOOLEAN]

NewRow == [events |-> {}, ok |-> FALSE, related |-> {}, status |-> "NONE", linked |-> FALSE]

(* What the provider can answer: an object that follows the schema or not, *)
(* the refusal of the schema (400), unavailable or over its rate limit,    *)
(* anything else.                                                          *)
Answers == {"GOOD", "SCHEMA", "STRICT_REFUSED", "UNAVAILABLE", "OTHER"}

(* pc: what the command waits for.  scope: ProposalEvidenceScope.request   *)
(* is set, and row is its generation.  wire: the HTTP call.  tried, told:  *)
(* the retries of this command, and those that its scope has recorded.     *)
(* refused: the events that a trigger has refused.                         *)
Command ==
  [pc : {"idle", "project", "total", "begin", "send", "call", "result", "retire",
         "pause", "accept", "reject", "apply", "close", "done"},
   project : Projects \union {NoProject}, strict : BOOLEAN,
   scope : BOOLEAN, row : Row, wire : {"quiet", "flying", "heard", "broken"},
   answer : Answers \union {"NONE", "LOST"}, cost : 0..1,
   tried : SUBSET Retries, told : SUBSET Retries,
   outcome : {"NONE", "RETIRED", "CREATED", "REJECTED", "FAILED"},
   role : Retries \union {"NONE"}, cut : BOOLEAN, refused : SUBSET Events]

Idle == [pc |-> "idle", project |-> NoProject, strict |-> FALSE, scope |-> FALSE,
         row |-> NewRow, wire |-> "quiet", answer |-> "NONE", cost |-> 0,
         tried |-> {}, told |-> {}, outcome |-> "NONE", role |-> "NONE", cut |-> FALSE,
         refused |-> {}]

Active(c) == tx[c].pc \notin {"idle", "done"}

-----------------------------------------------------------------------------
(* The ledger.                                                             *)

(* validate_model_proposal_event and the unique (generation_id, kind).     *)
Allowed(row, kind) ==
  /\ kind \notin row.events
  /\ "APPLICATION_RESULT" \notin row.events
  /\ kind = "HTTP_REQUEST" => row.events = {}
  /\ kind \in {"HTTP_RESPONSE", "TRANSPORT_ERROR"} =>
       /\ "HTTP_REQUEST" \in row.events
       /\ row.events \cap {"HTTP_RESPONSE", "TRANSPORT_ERROR"} = {}
  /\ kind = "ADAPTER_ACCEPTED" => row.ok /\ "ADAPTER_REJECTED" \notin row.events
  /\ kind = "ADAPTER_REJECTED" => "ADAPTER_ACCEPTED" \notin row.events

(* A success needs its response (validate_model_proposal_event).           *)
AllowedResult(row, ok) ==
  /\ Allowed(row, "PROVIDER_RESULT")
  /\ ok => "HTTP_RESPONSE" \in row.events

(* validate_model_proposal_artifact_link                                   *)
Linkable(row) ==
  "ADAPTER_ACCEPTED" \in row.events /\ "APPLICATION_RESULT" \notin row.events

With(row, kind) == [row EXCEPT !.events = @ \union {kind}]

(* The attempts are over: how they went no longer matters.                 *)
Settling(t) ==
  [Idle EXCEPT !.scope = t.scope, !.row = t.row, !.wire = t.wire, !.cut = t.cut,
               !.refused = t.refused, !.outcome = t.outcome]

(* The command is over: how its last generation was closed is kept, what   *)
(* was refused to it, and whether the command was cancelled.               *)
Over(t) ==
  [Idle EXCEPT !.pc = "done", !.wire = t.wire, !.cut = t.cut, !.refused = t.refused,
     !.row = [NewRow EXCEPT !.events = t.row.events \intersect {"APPLICATION_RESULT"},
                            !.status = t.row.status, !.linked = t.row.linked]]

(* A write that a trigger refuses, or that is lost with the database: a    *)
(* ProposalEvidenceError, after which nothing more is written.             *)
Lost(t, kind, allowed) ==
  Over([t EXCEPT !.refused = IF allowed THEN @ ELSE @ \union {kind}])

(* ProposalEvidenceScope.event                                             *)
Writes(c, kind, allowed, written) ==
  \/ allowed /\ tx' = [tx EXCEPT ![c] = written]
  \/ tx' = [tx EXCEPT ![c] = Lost(@, kind, allowed)]

-----------------------------------------------------------------------------
(* The attempts.                                                           *)

FirstStep == IF hosted THEN "project" ELSE "begin"

Start(c, p) ==
  /\ ~ Active(c)
  /\ tx[c].wire = "quiet"
  /\ tx' = [tx EXCEPT ![c] = [Idle EXCEPT !.pc = FirstStep, !.project = p,
                                          !.strict = ~ prompted]]
  /\ UNCHANGED <<hosted, prompted, spent, total>>

(* An error of the generator: _model_boundary writes its rejection, then   *)
(* evidence_application its disposition; neither writes anything when no   *)
(* generation is under way.                                                *)
Raised(t) ==
  IF t.scope THEN [Settling(t) EXCEPT !.pc = "reject", !.outcome = "FAILED"] ELSE Over(t)

(* Mutant of WithinCeiling: only the first attempt is held to it.          *)
WithinCeilingAtFirst(c, sum, ceiling) == sum + 1 <= ceiling \/ tx[c].tried # {}

WithinCeiling(c, sum, ceiling) == sum + 1 <= ceiling

(* GenerationBudget.refusal reads the project's spending, then everybody's *)
AskProject(c) ==
  /\ tx[c].pc = "project"
  /\ tx' = [tx EXCEPT ![c] = IF WithinCeiling(c, spent[tx[c].project], PerProject)
                             THEN [@ EXCEPT !.pc = "total"] ELSE Raised(@)]
  /\ UNCHANGED <<hosted, prompted, spent, total>>

AskTotal(c) ==
  /\ tx[c].pc = "total"
  /\ tx' = [tx EXCEPT ![c] = IF WithinCeiling(c, total, Total)
                             THEN [@ EXCEPT !.pc = "begin"] ELSE Raised(@)]
  /\ UNCHANGED <<hosted, prompted, spent, total>>

Begin(c) ==
  /\ tx[c].pc = "begin"
  /\ Writes(c, "NONE", TRUE, [tx[c] EXCEPT !.pc = "send", !.scope = TRUE, !.row = NewRow])
  /\ UNCHANGED <<hosted, prompted, spent, total>>

(* The slot of a local model.                                              *)
SlotFree(c) == hosted \/ \A d \in Commands \ {c} : tx[d].pc # "call"

Send(c) ==
  /\ tx[c].pc = "send"
  /\ SlotFree(c)
  /\ Writes(c, "HTTP_REQUEST", Allowed(tx[c].row, "HTTP_REQUEST"),
            [tx[c] EXCEPT !.pc = "call", !.wire = "flying",
                          !.row = With(@, "HTTP_REQUEST")])
  /\ UNCHANGED <<hosted, prompted, spent, total>>

(* The provider answers; or it is not reached, or too late.                *)
Answer(c) ==
  /\ tx[c].wire = "flying"
  /\ \/ \E a \in Answers :
          /\ a = "STRICT_REFUSED" => hosted /\ tx[c].strict
          /\ \E k \in IF hosted /\ a \in {"GOOD", "SCHEMA", "OTHER"} THEN {0, 1} ELSE {0} :
               tx' = [tx EXCEPT ![c].wire = "heard", ![c].answer = a, ![c].cost = k]
     \/ \E a \in {"UNAVAILABLE", "OTHER"} :
          tx' = [tx EXCEPT ![c].wire = "broken", ![c].answer = a]
  /\ UNCHANGED <<hosted, prompted, spent, total>>

(* AuditedProposalTransport keeps the response or the error.               *)
WireEvent(c) == IF tx[c].wire = "heard" THEN "HTTP_RESPONSE" ELSE "TRANSPORT_ERROR"

Hear(c) ==
  /\ tx[c].wire \in {"heard", "broken"}
  /\ LET kind == WireEvent(c)
         allowed == Allowed(tx[c].row, kind) IN
     \/ /\ allowed
        /\ tx' = [tx EXCEPT ![c].wire = "quiet", ![c].row = With(@, kind)]
     \/ tx' = [tx EXCEPT ![c].wire = "quiet", ![c].answer = "LOST",
                         ![c].refused = IF allowed THEN @ ELSE @ \union {kind}]
  /\ UNCHANGED <<hosted, prompted, spent, total>>

(* Mutant of CallOver: a cancelled command does not wait for its call.     *)
CallOverOrCut(c) == tx[c].wire = "quiet" \/ tx[c].cut

CallOver(c) == tx[c].wire = "quiet"

(* generate returns; of a cancelled command it raises.                     *)
Return(c) ==
  /\ tx[c].pc = "call"
  /\ CallOver(c)
  /\ tx' = [tx EXCEPT ![c] =
       IF @.cut THEN Raised(@)
       ELSE IF @.answer = "LOST" THEN Over(@)
       ELSE [@ EXCEPT !.pc = "result"]]
  /\ UNCHANGED <<hosted, prompted, spent, total>>

(* Which retry an answer is worth, if any; a local model has none.         *)
RetryOf(t, answer) ==
  IF ~ hosted THEN "NONE"
  ELSE IF answer = "STRICT_REFUSED" /\ t.strict /\ "SCHEMA_NEGOTIATION" \notin t.tried
       THEN "SCHEMA_NEGOTIATION"
  ELSE IF answer = "SCHEMA" /\ "SCHEMA_RETRY" \notin t.tried THEN "SCHEMA_RETRY"
  ELSE IF answer = "UNAVAILABLE" /\ "PROVIDER_RETRY" \notin t.tried THEN "PROVIDER_RETRY"
  ELSE "NONE"

(* What follows a PROVIDER_RESULT without another await.                   *)
Judged(t, answer) ==
  LET role == RetryOf(t, answer) IN
  IF role # "NONE"
  THEN {[t EXCEPT !.pc = "retire", !.role = role, !.tried = @ \union {role},
                  !.strict = @ /\ role # "SCHEMA_NEGOTIATION"]}
  ELSE IF answer = "GOOD" THEN {[t EXCEPT !.pc = "accept"], Raised(t)}
  ELSE {Raised(t)}

Keep(c) ==
  [tx[c] EXCEPT !.row = [With(@, "PROVIDER_RESULT") EXCEPT !.ok = tx[c].answer = "GOOD"],
                !.answer = "NONE", !.cost = 0]

Stored(c) ==
  /\ spent' = [spent EXCEPT ![tx[c].project] = @ + tx[c].cost]
  /\ total' = total + tx[c].cost

Result(c) ==
  /\ tx[c].pc = "result"
  /\ LET allowed == AllowedResult(tx[c].row, tx[c].answer = "GOOD") IN
     \/ /\ allowed
        /\ Stored(c)
        /\ \E t \in Judged(Keep(c), tx[c].answer) :
             /\ tx' = [tx EXCEPT ![c] = t]
             /\ prompted' = (prompted \/ t.role = "SCHEMA_NEGOTIATION")
     \/ /\ tx' = [tx EXCEPT ![c] = Lost(@, "PROVIDER_RESULT", allowed)]
        /\ UNCHANGED <<prompted, spent, total>>
  /\ UNCHANGED hosted

(* retire_model_generation closes the generation, and the scope is ready   *)
(* for the next.                                                           *)
Closed(row, status) == [With(row, "APPLICATION_RESULT") EXCEPT !.status = status]

Retired(t) ==
  [t EXCEPT !.pc = IF t.role = "PROVIDER_RETRY" THEN "pause" ELSE "project",
            !.scope = FALSE, !.row = NewRow, !.told = @ \union {t.role}, !.role = "NONE"]

Retire(c) ==
  /\ tx[c].pc = "retire"
  /\ Writes(c, "APPLICATION_RESULT", Allowed(tx[c].row, "APPLICATION_RESULT"),
            Retired(tx[c]))
  /\ UNCHANGED <<hosted, prompted, spent, total>>

Pause(c) ==
  /\ tx[c].pc = "pause"
  /\ tx' = [tx EXCEPT ![c].pc = "project"]
  /\ UNCHANGED <<hosted, prompted, spent, total>>

-----------------------------------------------------------------------------
(* What becomes of the proposal.                                           *)

Accepted(c) ==
  [With(tx[c].row, "ADAPTER_ACCEPTED") EXCEPT !.related = tx[c].told]

Accept(c) ==
  /\ tx[c].pc = "accept"
  /\ Writes(c, "ADAPTER_ACCEPTED", Allowed(tx[c].row, "ADAPTER_ACCEPTED"),
            [tx[c] EXCEPT !.pc = "apply", !.row = Accepted(c)])
  /\ UNCHANGED <<hosted, prompted, spent, total>>

Reject(c) ==
  /\ tx[c].pc = "reject"
  /\ Writes(c, "ADAPTER_REJECTED", Allowed(tx[c].row, "ADAPTER_REJECTED"),
            [tx[c] EXCEPT !.pc = "close", !.row = With(@, "ADAPTER_REJECTED")])
  /\ UNCHANGED <<hosted, prompted, spent, total>>

(* Mutant of Rollback: the link is written in a transaction of its own.    *)
LinkStays(row) == [row EXCEPT !.linked = TRUE]

(* A transaction that fails after bind_model_artifacts takes the link with *)
(* it.                                                                     *)
Rollback(row) == row

Ends(c, status, row) == [Settling(tx[c]) EXCEPT !.pc = "close", !.outcome = status, !.row = row]

(* The service rejects the proposal, publishes it, fails, or cannot link   *)
(* it (a ProposalEvidenceError).                                           *)
Apply(c) ==
  /\ tx[c].pc = "apply"
  /\ \/ tx' = [tx EXCEPT ![c] = Ends(c, "REJECTED", tx[c].row)]
     \/ /\ Linkable(tx[c].row)
        /\ tx' = [tx EXCEPT ![c] = Ends(c, "CREATED", [tx[c].row EXCEPT !.linked = TRUE])]
     \/ tx' = [tx EXCEPT ![c] = Ends(c, "FAILED", Rollback(tx[c].row))]
     \/ tx' = [tx EXCEPT ![c] = Over([tx[c] EXCEPT !.row = Rollback(@)])]
  /\ UNCHANGED <<hosted, prompted, spent, total>>

Close(c) ==
  /\ tx[c].pc = "close"
  /\ Writes(c, "APPLICATION_RESULT", Allowed(tx[c].row, "APPLICATION_RESULT"),
            Over([tx[c] EXCEPT !.row = Closed(@, tx[c].outcome)]))
  /\ UNCHANGED <<hosted, prompted, spent, total>>

-----------------------------------------------------------------------------
(* Cancellation and crash.                                                 *)

(* The generation, if what the command is writing is written.              *)
Written(c) ==
  LET row == tx[c].row IN
  CASE tx[c].pc = "send" /\ hosted -> With(row, "HTTP_REQUEST")
    [] tx[c].pc = "call" /\ tx[c].wire # "quiet" -> With(row, WireEvent(c))
    [] tx[c].pc = "result" -> Keep(c).row
    [] tx[c].pc = "retire" -> Closed(row, "RETIRED")
    [] tx[c].pc = "accept" -> Accepted(c)
    [] tx[c].pc = "reject" -> With(row, "ADAPTER_REJECTED")
    [] tx[c].pc = "apply" -> [row EXCEPT !.linked = TRUE]
    [] tx[c].pc = "close" -> Closed(row, tx[c].outcome)
    [] OTHER -> row

(* The stages of the generator end in a rejection, those after it in the   *)
(* disposition; with no generation under way nothing is left to write.     *)
CutTo(t) ==
  CASE t.pc \in {"send", "call", "result", "retire"} -> "reject"
    [] t.pc \in {"accept", "reject", "apply"} -> "close"
    [] OTHER -> "done"

Cut(t, row) ==
  LET cut == [Settling(t) EXCEPT !.cut = TRUE, !.outcome = "FAILED", !.wire = "quiet",
                                 !.row = row, !.pc = CutTo(t)] IN
  IF cut.pc = "done" THEN Over(cut) ELSE cut

(* The command is cancelled where it waits; what it was writing may have   *)
(* been committed all the same.                                            *)
Cancel(c) ==
  /\ Active(c) /\ ~ tx[c].cut
  /\ tx[c].pc = "call" => hosted /\ tx[c].wire # "flying"
  /\ \E row \in {tx[c].row, Written(c)} :
       /\ tx' = [tx EXCEPT ![c] = Cut(@, row)]
       /\ IF tx[c].pc = "result" /\ row # tx[c].row THEN Stored(c)
          ELSE UNCHANGED <<spent, total>>
  /\ UNCHANGED <<hosted, prompted>>

(* A call of a hosted model is given up; a local one goes on in its own    *)
(* task (SerializedGenerationPort), and the command waits for its end.     *)
CancelCall(c) ==
  /\ tx[c].pc = "call" /\ ~ tx[c].cut
  /\ hosted => tx[c].wire = "flying"
  /\ tx' = [tx EXCEPT ![c].cut = TRUE, ![c].wire = IF hosted THEN "broken" ELSE @]
  /\ UNCHANGED <<hosted, prompted, spent, total>>

(* The API stops: its commands are gone, and what it has learnt of the     *)
(* schemas.                                                                *)
Crash ==
  /\ tx' = [c \in Commands |-> Over([tx[c] EXCEPT !.wire = "quiet"])]
  /\ prompted' = FALSE
  /\ UNCHANGED <<hosted, spent, total>>

-----------------------------------------------------------------------------
Init ==
  /\ hosted \in BOOLEAN
  /\ prompted = FALSE
  /\ spent = [p \in Projects |-> 0]
  /\ total = 0
  /\ tx = [c \in Commands |-> Idle]

Step(c) ==
  \/ AskProject(c) \/ AskTotal(c) \/ Begin(c) \/ Send(c) \/ Answer(c) \/ Hear(c) \/ Return(c)
  \/ Result(c) \/ Retire(c) \/ Pause(c) \/ Accept(c) \/ Reject(c) \/ Apply(c) \/ Close(c)

Next ==
  \/ \E c \in Commands : Step(c) \/ Cancel(c) \/ CancelCall(c) \/ \E p \in Projects : Start(c, p)
  \/ Crash

Spec == Init /\ [][Next]_vars

-----------------------------------------------------------------------------
(* Properties.                                                             *)

(* The variables have their types.                                         *)
TypeOK ==
  /\ hosted \in BOOLEAN /\ prompted \in BOOLEAN
  /\ spent \in [Projects -> Nat] /\ total \in Nat
  /\ tx \in [Commands -> Command]

(* The ceilings hold up to the calls of the other commands: each of them   *)
(* may have been let through by the same reading of the ledger.            *)
SpendingBounded ==
  LET others == Cardinality(Commands) - 1 IN
  /\ \A p \in Projects : spent[p] <= PerProject + others
  /\ total <= Total + others

(* What the provider answers and what the adapter makes of it is never     *)
(* refused by the triggers, whatever is cancelled.  All they refuse is the *)
(* rejection of a generation whose command is cancelled as it retires it.  *)
AnswersAreKept ==
  \A c \in Commands : tx[c].refused # {} =>
    tx[c].refused = {"ADAPTER_REJECTED"} /\ tx[c].row.status = "RETIRED"

(* The ledger tells what has become of a generation: a version is linked   *)
(* to one that has succeeded, was accepted, and names every attempt before *)
(* it; CREATED is said of a linked one only, and FAILED or REJECTED of one *)
(* that is not, unless the command was cancelled while it committed.       *)
LedgerTells ==
  \A c \in Commands : LET row == tx[c].row IN
    /\ tx[c].pc = "apply" => row.related = tx[c].tried
    /\ row.linked /\ Active(c) => row.ok /\ "ADAPTER_ACCEPTED" \in row.events
    /\ row.status = "CREATED" => row.linked
    /\ row.status \in {"RETIRED", "REJECTED", "FAILED"} => ~ row.linked \/ tx[c].cut
=============================================================================

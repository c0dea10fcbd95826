# OrchestWin Studio in TLA+

OrchestWin Studio guides one owner from an idea to an implementation dossier:
a Brief, the Perspectives (an agent team), User Twins, the Definition
(requirements) and the Design, each versioned, each generated by a model, and
each approved by the owner at a *human gate*.  The server is a FastAPI
application over PostgreSQL (`src/src/orchestwin`), used by a web app, the `ut`
command and coding agents at the same time.  This directory models the parts of
it that keep state and can go wrong: what the gates, the sign-ins, the twins, the
code changes and the evidence ledger promise, and how concurrent requests,
transactions, locks, cancellations and crashes keep those promises or do not.

Paths below are relative to `src/src/orchestwin` unless they start with `src/`.

## Inventory

| Component | State | Operations | Interacts with | Here |
|---|---|---|---|---|
| Human gates (`workflow/gates.py`) | an immutable gate record: artifact, iteration, cap, status, event sequence | `transition_human_gate`, `mark_human_gate_stale`, `next_human_gate_iteration` | pure; used by every gate service | `HumanGates` |
| Gate services (`workflow/gate_flow.py`, `projects/*_gate.py`, `agents/team_gate.py`, `twins/user_modeling_gate.py`, `artifacts/design_gate.py`) | tables `human_gates`, `human_gate_events`, the version tables | `submit`, `decide`, appends of versions, the owner's edit of the Perspectives | row locks of PostgreSQL, read committed | `GateFlow`, `GateService` |
| Provided prototypes (`artifacts/workflow_inputs_runtime.py`) | prototype versions | `save_prototype`, `gate_action` | shares the Design gate with the Design packages | `DesignGate` |
| Sections and alignment (`projects/sections.py`, `sections_service.py`, the `*realignment_service.py`) | none of its own: derived from versions and gates | `sections`, `align` | realigns and approves through the gate services | `Sections`, `Alignment` |
| Revision diffs (`*revision_application.py`, `*_persistence.py`) | diffs PROPOSED / APPROVED / REJECTED | `propose_revision`, `decide_revision`, `request_change`, restore | append a version when approved | `Revisions` |
| User Twins (`twins/`) | the snapshot, revisions that wait | propose and decide a revision, re-anchor, regenerate, edit archetypes | the research evidence, Gate 3 | `UserTwins` |
| Twin learning and evidence updates (`projects/twin_learning.py`, `research_evidence.py`, `evidence_application.py`) | evidence versions, updates that wait, learned observations | add, revise, withdraw; propose, decide, learn, retire | append a snapshot and approve it in the same transaction | `UserTwins` |
| Code changes and tasks (`projects/code_changes.py`) | changes, reviews, decisions, TSK-n | record, review, decide, create tasks, set a task's status | row locks of the change and the project | `CodeChanges` |
| Generation jobs (`api/generation_jobs.py`, `models/serialized_generation.py`) | in-memory registry, the slot of a local model | `start`, `get`, `wait`, `close` | asyncio tasks that call the services | `GenerationJobs` |
| Proposal generation and its evidence (`models/proposal_*.py`, `projects/persistence/generation_budget.py`) | `model_proposal_generations` and their events, the strict schemas refused so far | up to four attempts, the budget, accept or reject, publish and link | the model, every service that generates a version | `ProposalLedger` |
| Refresh sessions (`identity/sessions.py`, `identity/persistence`) | `auth_sessions`: families and tokens | sign-in, rotation, expiry, reuse, logout | row locks | `RefreshSessions` |
| Sign-in of the command line (`cli/client.py`, `cli/session.py`) | `sessions.json`, `sessions.lock` | `login`, renewal under the lock, `logout` | the refresh sessions | `TokenFile`, `SignIns` |
| Sign-in of the web app (`src/frontend/src/stores/auth.ts`) | an access token per tab, the shared cookie | login, refresh, logout | the refresh sessions | `BrowserTabs`, `SignIns` |
| Acceptance tests (`projects/acceptance_tests.py`) | plans, runs | draft, run, report | feeds the tasks | left out |
| Knowledge alignment (`projects/knowledge_alignment.py`) | the code's answer to the Definition | append, read | code changes | left out |
| Dossier packages (`knowledge/package_*.py`) | immutable packages | publish, read | reads the approved chain | left out |
| Brief dialogue, clarification | turns and proposals | append, decide once | the dialogue's row | left out |
| API request limits (`api/rate_limit.py`) | sliding windows in memory | allow, prune | every request | left out |
| Rest of the command line (`cli/jobs.py`, `cli/folder.py`) | downloaded folder | fetch, poll a job | HTTP | left out |
| Dossier content, Design content, providers, HTTP wiring, web app, editor extension, migrations | none that has a protocol | | | left out |

Hard behaviours:

- two requests of one owner race (the web app and an agent, two terminals, two
  tabs);
- the clock is read before the locks are taken, so a later timestamp can be
  stored first;
- a `SELECT ... FOR UPDATE` that orders and limits resumes with a row that is no
  longer the latest, and an `UPDATE` misses the rows that were inserted while it
  waited;
- one service writes another one's gate;
- "Update and confirm" makes many transactions out of one click, and an approval
  of version N lands while N+1 appears;
- a model works for minutes on a version, a twin or an evidence source that is
  replaced meanwhile;
- a job or a caller is cancelled at an await, and the call it made in a thread
  goes on and writes its evidence later;
- the answer to a request that cannot be repeated (a refresh token is good for
  one use) is lost, garbled or replaced by a proxy, or the command dies before it
  has saved it;
- the lock file of the terminal goes stale under a command that is still at work.

What makes each component correct:

- **gates**: one gate per project and type is alive; the cap on attempts and its
  renewal; a blocked gate stays blocked; the history tells the gate's life;
- **gate services**: an approval falls on the current version; a gate becomes
  stale only for something newer; every request is answered;
- **alignment**: what is approved again is what the owner has approved before, or
  has himself given while the walk was under way; what the sections promise is
  what the services do;
- **diffs**: a decision is applied to the base it was made on, once; a change
  changes what was asked for and nothing else;
- **twins**: what waits for the owner can still be decided, and means what it
  meant when the model wrote it; what is withdrawn is gone;
- **code changes**: a finding becomes one task, of the review the owner picked it from or
  a later one, and an aligned commit leaves none open;
- **jobs**: limits hold, a running job is never lost, the slot of a shielded
  call is released when the call ends and not before;
- **ledger**: spending is bounded although the budget is asked before and
  charged after a call; what the ledger says of a generation is what became of it;
- **sign-ins**: a sign-in never forks and never comes back; an honest client is
  never taken for a thief.

## Modules

```
HumanGates ── GateFlow ──┬── GateService ── MCGateService
                         │      └ refines ApprovalRounds
                         ├── DesignGate
                         └── Sections ── Alignment ── MCAlignment
Revisions ── MCRevisions
UserTwins ── MCUserTwins
CodeChanges ── MCCodeChanges
GenerationJobs ── MCGenerationJobs
ProposalLedger ── MCProposalLedger
RefreshSessions ──┬── TokenFile ───┬── SignIns ── MCSignIns
                  └── BrowserTabs ─┘
GateFlow_proofs (lemmas) ──┬── GateService_proofs
                           └── DesignAndAlignment_proofs
JobsAndCodeChanges_proofs (theorems about GenerationJobs and about CodeChanges)
Revisions_proofs, UserTwins_proofs, ProposalLedger_proofs, SignIns_proofs
                          (theorems about the module of their name)
```

An operator whose comment says *mutant* is no part of a specification: it is a
plausible bug, listed in `PROJECT.json` with the property that catches it.  Each
property has one.

### The gate: `HumanGates`, `GateFlow`

`HumanGates` translates the pure functions of `workflow/gates.py`.  A gate is a
record with the version it is for, its iteration and cap (`max`), its status,
what a pause resumes to, its event sequence number and its last instant; an
event is what `human_gate_events` keeps of a transition.  A project and type are
fixed, so an artifact is its version number; the owner and the text of a reason
are left out, but whether a reason is there is not, because REJECT and
REQUEST_REVISION ask for one.  A timestamp is a natural number, and "earlier than the last
event" is a refusal as in the code.

`GateFlow` has `submit_artifact` and `decide_current` (`workflow/gate_flow.py`)
as predicates and functions of a gate, a current version and a log: what is
refused, what supersedes, what the next draft is.  The three modules above it
use them in transactions of different grain.

### Five services, two lock orders: `GateService`

One gate and any number of concurrent requests.  The five services share the
flow and differ in two constants: `LocksProjectFirst` (Brief, Perspectives and
User Twins lock the project row before they read the version; Definition and
Design lock the version row, and the project only with the gate) and
`OwnerEdits` (the Perspectives can be edited by hand, which supersedes their
gate in the same transaction).

| State | Code |
|---|---|
| `versions` | the committed version rows, by their kind: complete, incomplete (cannot be submitted), edited by the owner |
| `gates`, `log` | `human_gates` by iteration, `human_gate_events` in commit order |
| `project` | who holds the project row |
| `tx[r]` | a request: its phase, when it read the clock (`at`), the version it has seen, the gate it has read |

A request goes *begun* (clock read), *waiting* (its version row is chosen from
the snapshot of the statement), *holding* (that row locked), *locked* (the gate
read under the project row); the last step commits and answers.  `Step(r)` is
the union of these; one action or disjunct per early return of the flow.

What the model leaves out, and why it may: a stored gate is never DRAFT
(creation and submission are one transaction), so the branch that submits a draft
found in the table is omitted; the branch of `save_transition` that reports a
conflict cannot be taken, which is not assumed but proved (`ReadGateIsCurrent`);
the actor of every request is the owner, because the routes check it; SUBMIT is
no decision, because the validator of `api/requirements.py:1144` refuses it.
What ties one gate to another (the Brief must be approved before the
Perspectives) is in `Alignment`.

`ApprovalRounds` is what the service promises: a version before the owner, a
status, and a plain counter of attempts left; opening a round spends one, an
approval gives them back, and no round follows one that is cancelled or waits for
a human.  The refinement
`ImplementsRounds` maps the counter to `AttemptsLeft`: the code has no counter, it
derives the next iteration and cap from the latest gate and its events.

### Two writers of one gate: `DesignGate`

`LocalDesignGateService` for packages and `SqlAlchemyWorkflowInputsService` for
prototypes the owner provides move the same gates.  `artifacts` holds both kinds
in order of creation, `definition` and `chain` what a prototype's readiness
depends on.  Requests are atomic here, because both writers hold the project row
between the look at the gate and its move (`GateService` has the races before
that); time stands still, because the prototype's service reads its clock under
the lock; a refused request changes nothing and is no step.

### "Update and confirm": `Sections`, `Alignment`

`Sections` translates the states that `projects/sections.py` derives for five
sections (IN_PROGRESS, TO_UPDATE or FINE, and blocked or not) from the
current versions, what they are anchored to, and the latest gates.  The content
of a version is abstract: `origin` is the version whose content it has, `on` the
versions it is anchored to, `drops` whether something that later sections cite
was lost with it (a twin, a requirement, or a Brief the team does not suit).

`Alignment` walks `SectionsService.align` transaction by transaction (`align.pc`):
read the sections, check the attempts, read what the section rests on (Definition
and Design do it before they lock their line), re-anchor, submit, approve.
Between any two, the owner's other requests create versions, propose and decide
changes, re-anchor, submit and decide, updates of twins arrive and are decided,
evidence is withdrawn, and `Crash` may end the walk: the request can be cancelled
or the server restarted.

What waits for the owner is kept twice, as in the code.  `pending` has the
revisions, each with the version it was proposed on and the twin it is about;
`updates` the twins with an evidence update that is PROPOSED.  Two predicates read
them: `RevisionPending` is what blocks a *section*
(`projects/persistence/progress.py:241`: for the twins any revision that is
proposed, on whatever snapshot, and no update), `ChangeWaits` what the *services*
refuse on (for the twins `has_pending_revision`, `twins/persistence/uow.py:112`, which
finds updates too).  So the section of the twins can read unblocked while "Update
and confirm" is refused with USER_TWIN_REVISION_PENDING, with nobody in between.
`SectionsKeepTheirPromise` says that this is the only such case, and that it always
is one.  Updates are modelled by the twin they are about; one without evidence counts as
one with it, because the column holds JSON `null` and `evidence IS NOT NULL` finds it.

Coarser than the code: the sections are read at once where the code uses several
statements; a transaction of another request is one step; of the events only the
supersession of the latest gate is kept (`past`), which is all the budget reads.
Left out: offers (they hold nothing back; an update that waits is shown as one),
archetypes, provided prototypes, the Dossier's own section, what an update says (in
`UserTwins`) and the regeneration of the Design.  The Definition changes
by diffs only, as after its first generation.

### Diffs: `Revisions`

One line of versions, of the Definition or of the Design (`line`, fixed in a
behaviour).  The content of a version is the set of changes it contains, and
diff *d* brings change *d*: so "nothing else has changed" can be said.  A
request is an operation and the point it has reached: `edit` (the owner sends
content written on some version), `change` (a model rewrites the version it was
given), `approve`, `reject`, `realign`, `regenerate`, `restore`.  Row locks are
taken as PostgreSQL does: the row is chosen first, then waited for (`row`,
`locked`), the unique index on the pending diff of a base decides at insertion,
and the foreign key of a new diff waits for its base.  What a transaction writes
appears at its commit, and `Abandon` is a rollback at any point.

Two reads are one where the second is validated later by a compare-and-set or a
unique number; a restore inserts its diff when it takes its row.  The first
generation, the other patches of a Design package (critiques, selections), and
what a diff looks like are left out.

### The registry and the slot: `GenerationJobs`

The registry's methods have no await inside, so each is one action: `Start` with
its refusals, its limits and the room it makes (`Pruned`), `Read`, `Close`.
Callers are the jobs and the requests that generate while a client waits
(`Inline`); each goes new, working, waiting, calling, done.  The slot is the
FIFO of `asyncio.Lock` around a shielded call: a caller that is cancelled while
its call runs keeps the slot until the call is over (`models/serialized_generation.py`).
`NeverRuns` is the task that is cancelled before its first step: its `_run` never
starts and the record stays RUNNING.  A refused `Start` makes room too, as the
code does.  Stages, results and the ten seconds of grace at shutdown are left
out; after `Close` the registry is no longer asked and time no longer matters.

### Twins, evidence, learning: `UserTwins`

The current `snapshot` of a project's twins, and everything that replaces it: the
owner's revisions (`diffs`), evidence updates and learned observations (`updates`),
a new version or the withdrawal of a source (`sources`), re-anchoring and
regeneration.  Each of them writes in one transaction that locks the project, so a
transaction is one step here; a request that waits for the model reads in
one transaction and writes in another (`StartUpdate` ... `StoreUpdate`,
`StartRegeneration` ... `Regenerate`), and `tx` is what it has read.  Of a twin's
content the model keeps the sources it cites; `used` are the evidence changes in
force, which say in which twin a source is cited; `learned` counts the observations
and their development version.  `Approved` is Gate 3 on the current snapshot: an
evidence update or a withdrawal submits and approves it in the same transaction.

Left out: the personas, the fields of a profile, deletion and association of the
texts of a source, imports, the attempts of Gate 3 in `append_evidence_profiles`,
the first generation.  The set of twins is fixed, and every profile stays
PROJECT_GROUNDED_UT: `approve` of a revision of an empirically grounded one
raises ValueError, so that it could only be rejected.  The first snapshot stands
on the owner's inputs.  What is decided is forgotten.

### Commits, reviews, tasks: `CodeChanges`

`record`, `review`, the owner's decisions, `create_tasks` and `set_task_status` as
READ COMMITTED transactions of concurrent requests.  A decision holds the row of its
change FOR UPDATE and takes the project row only when it writes tasks; `create_tasks`
locks the project first, and its inserts wait for the change through their foreign
key.  The two orders can meet: `DeadlockVictim` is the transaction PostgreSQL ends.
A terminal shows the latest review it knows (`shown`) and sends *positions*
(`picks`); the request resolves them against the review that is the latest when it
reads.  An ALIGNED decision closes the tasks its `UPDATE` sees (`upto`).

Left out: the versions a decision notes, what a review is shown of earlier ones,
tasks of test runs (like the owner's here), the reads.

### Sign-ins: `RefreshSessions`, `TokenFile`, `BrowserTabs`, `SignIns`

`RefreshSessions` is `auth_sessions` in PostgreSQL: a token is the number of its row,
a request of a sender is *sent*, *locked* (the row of its token FOR UPDATE),
*sweeping* (the `UPDATE` that revokes a family, which works on the rows it saw when it
began and waits for those that are locked), *answered*.  The answer is a fact of
the transaction; whether the client ever sees it is the client's step.

`TokenFile` is the terminal: commands that run at the same time share
`sessions.json` and renew it one at a time under `sessions.lock`.  `pc` follows
`_renew` and its callers: acquire the lock (or find it stale and remove it,
in two steps as in the code), read the file again, ask, save, release.  Faults:
`crash` (a command dies at any point), `slow` (the lock goes stale under a
living command), `gateway` (a proxy answers instead of the Studio that has
committed); an answer that is lost or garbled needs no permission.

`BrowserTabs` is the web app: tabs share a cookie, a store has one refresh
at a time, and a login or a logout can be under way beside it.  `mishaps`
notes what the browser cannot help: a lost answer, two refreshes with one
token, a logout that meets a refresh.

`SignIns` puts the Studio together with a terminal or a browser (`side`): tokens of
different families never meet.  Left out: accounts and passwords, users who are
deactivated, the local owner's mode (every refresh signs in), copies of the file.

### Generations and their evidence: `ProposalLedger`

A command asks for a proposal in up to four attempts: strict schema refused (asked
again with the schema in the prompt), an answer that breaks the schema, a provider
that is unavailable.  Before every attempt of a hosted model two readings of the
ledger are compared with the ceilings (`AskProject`, `AskTotal`); the cost is added
when PROVIDER_RESULT is stored.  Each attempt is a row with events, each event
written in its own transaction and checked by triggers (`Allowed`,
`AllowedResult`, `Linkable`); an accepted proposal is published with its version
and the link in one transaction (`Apply`), then closed with APPLICATION_RESULT.
`Cancel` is CancelledError at any await: the HTTP call runs on in its own task
(`wire`) and still writes its event; `Crash` is the end of the process.

Left out: the check of the context window, rounds around the attempts (of the
design services), child scopes, what is withheld from the evidence, a project that
is archived meanwhile, the start of the budget's period, the CLI provider (which
makes no HTTP call), the reads.  A call costs 0 or 1, in units of the largest cost of
one call; that the estimate made before a call is an upper bound of its cost is an
assumption of the model.

## What is checked

Every run finishes within five minutes on two workers.  Each bound is a constant
of its module, named in its comment; when the bounds are used up the system
stops, so no run checks for deadlock (that every request is answered is a
liveness property instead: `RequestsEnd`, `GenerationsEnd`).

| Run | Instance | Distinct states | Shows |
|---|---|---|---|
| `gate_team` | two requests at once, 5 in all, every decision, complete and incomplete versions, the owner's edits, one attempt until an approval; project locked first | 1.07 M | a gate becomes stale only for a newer version (`SupersededByNewer`); an approval falls on the version current at commit (`ApprovesOnlyCurrent`); an edited version never stands beside a live gate for an older one (`EditsNeedTheirOwnGate`); a stored gate always loads again (`StoredGatesLoad`); no attempt is refused while one is left (`RefusedOnlyWhenSpent`); nothing follows a blocked gate (`BlockedForGood`) |
| `gate_definition` | two requests at once, 5 in all; version row locked first; fair | 250 k | the gate read is the stored one until commit (`ReadGateIsCurrent`); histories without gap, fork or step back in time (`HistoryTellsTheGate`); one gate alive (`OnlyLatestGateLives`); `ImplementsRounds`, with the cap on attempts; no deadlock of the two lock orders (`RequestsEnd`) |
| `design_gate` | four packages and prototypes, two versions of the Definition, limit 3 | 1.2 M | the two writers share one budget (`BudgetRespected`) and the block of PAUSED_NEEDS_HUMAN (`WaitsForHumanForGood`); an approval falls on what is current (`ApprovesCurrentDesign`) |
| `align_chain` | Brief (and with it the team) and twins change, one twin; revisions and updates of twins wait, evidence is approved and withdrawn, gates are sent back, cancelled and run out of two attempts; a crash at any step | 459 k | `FineDesignMeansFineChain`; no version rests on an upstream version that was never approved, however the walk is refused (`RestsOnApproved`); undisturbed alignments meet no refusal but that of the twins while an update waits (`SectionsKeepTheirPromise`), and leave nothing behind (`AlignmentSettles`); any alignment approves only content approved before or given while it ran (`KeepsContent`) |
| `revisions` | two requests, three versions, two diffs, two upstream versions, both lines | 560 k | an approved diff and the version after its base are one (`ApprovalIsAVersion`); a decision is taken once (`DecidedOnce`); a change never moves the anchor (`RevisionsKeepTheAnchor`); a re-anchoring passes over no waiting proposal (`RealignmentSparesProposals`) |
| `design_change` | the Design's line of the same | violation | finding 1 |
| `generation_jobs` | two owners, two keys, two jobs and one waiting request; room for one job, one per owner, retention 1, two ticks; fair | 188 k | one model call at a time (`OneCallAtATime`); limits count what really works (`WorkIsLimited`); outcomes are kept as long as there is room (`OutcomesKept`); everything ends (`GenerationsEnd`) |
| `proposal_ledger` | two commands of one or two projects, hosted or local model, ceilings of two calls | 1.18 M | spending exceeds a ceiling by one call of every other command at most (`SpendingBounded`); the triggers refuse nothing that was answered (`AnswersAreKept`); link, acceptance and disposition of a generation tell one story (`LedgerTells`) |
| `sign_ins` | two commands or two tabs, three tokens, one kind of fault per behaviour | 935 k | one redeemable token per family (`OneLivePerFamily`); a family that is over stays over (`DeadFamilyStaysDead`); reuse is seen only after a fault its clients cannot help (`ReuseHasACause`); signed out means signed out (`SignOutSticks`) |
| `code_changes` | two terminals, two commits, two findings, four requests | 445 k | no finding becomes two open tasks (`NoSecondOpenTask`); none slips behind an ALIGNED decision (`NoTaskBehindAligned`); the positions of a request are those of one review, the one on the screen or one made after it (`PickedFromOneReview`) |
| `user_twins` | two twins, one source, two requests at the model, four snapshots | 1.87 M | an evidence update that waits can be approved as it is (`WaitingEvidenceHolds`); a withdrawn source is cited no more (`WithdrawnIsGone`); one update to decide per twin (`OneUpdatePerTwin`) |
| `twins_undecidable` | the same with two revisions that wait | violation | finding 2 |

Why these bounds are enough to be interesting:

- **gates**: two requests suffice for the races: each disturbs the other at one
  point, and the row they meet at is one; five requests leave three to set the scene
  (a version, its submission, the next version).  With one attempt (`gate_team`) the
  second gate is already one beyond the limit, possible only after an approval.
- **design gate**: with the limit of 3 that the prototype's service hard-codes,
  four artifacts open a fourth gate, the first one that the budget must refuse or
  an approval must allow.
- **alignment**: one more version of the first section is enough to put all the
  others behind; a third of the twins (and of what follows) lets a revision, an
  update or a withdrawal land between two steps of the walk, and two attempts let a gate
  run out.  Which sections the owner edits is a constant; the union of all of them is
  beyond five minutes.  Run by hand with the same result: team, twins and Definition
  (two versions each but three of the Definition, or three of the twins; 1.8 M
  states), Brief, twins and Definition (440 k), Brief, twins and Design (1.7 M).
  The theorems below hold for any.
- **revisions**: a third version lets a diff, and a model's change, be overtaken
  by one version and decided on another.
- **jobs**: with room for one job and two owners, the registry is over its
  capacity while both run, the edge at which dropping a running job would show.
- **ledger**: the race on the budget needs two commands; a ceiling of two lets each
  of them spend once before both are let through by one reading.
- **sign-ins**: three tokens are a sign-in, its renewal and either a second
  renewal (the reuse of the first) or a sign-in after it.  Every kind of fault
  occurs, one kind in a behaviour, so that a cause is not hidden by another.
- **code changes**: each scenario (a commit decided twice over, two terminals that
  pick one finding, a second review between picking and filing) needs four
  requests: record, review, and the two that race.  `set_task_status` is a single
  statement and not counted.
- **twins**: the races are between a request at the model and whatever replaces
  what it read, three snapshots at most.  A second source quadruples the states and
  brings no new step; the theorems below hold for any number.

Requests, commands, projects, twins and findings are symmetric in the safety runs
(nothing orders them); the fair runs and the alignment use no symmetry.

### Fairness

- `GateService!FairSpec`: strong fairness of `Step(r)` for every request.  A
  statement that is sent returns, and PostgreSQL queues those who wait for a row,
  so a request that can get a row again and again gets it.  Nothing obliges the
  owner to send a request: `Open` is not fair.
- `GenerationJobs!FairSpec`: weak fairness of "some caller makes progress".  The
  event loop runs what is ready, and a call to the model ends by its answer or by
  its timeout.  Which caller gets the slot is decided by the queue and not by the
  fairness.  Starting, reading, cancelling and closing are not fair.

### Findings

In two places the code does something else than the repository says of it; each
is a run that TLC finds violated, and a trace tells the story.

1. `design_change`, `RequestedChangeOnly`.  The Design's `request_change` builds
   the package from the version it read before the model call and takes whatever
   version is current afterwards as the base of the diff
   (`projects/design_change_application.py:268`): a revision approved meanwhile is
   undone by it.  The test is called "a change proposes a revision with the
   changed alternative only".  The Definition's `request_change` reads again and
   refuses.
2. `twins_undecidable`, `PendingCanBeDecided`.  A revision of a twin is decided on
   the snapshot it was proposed on only (`twins/revision_application.py:247`).  With
   revisions of two twins waiting, or one that waits while a source is withdrawn,
   deciding the first leaves the second PROPOSED for good, and
   `has_pending_manual_revision` still finds it: archetypes, re-anchoring,
   regeneration and evidence updates are refused for good too, with the advice
   "Decide the pending User Twin revision first." (`cli/messages/archetypes.py:86`).

### What the models do on the way

Behaviour of the code that the models contain, that a reader may not expect, and that
no property above forbids:

- *gates*: the Definition's and the Design's gate transactions lock the version
  row only, chosen in the snapshot of their first instant
  (`projects/requirements_persistence.py:224`).  A decision that waits
  there while a change appends the next version resumes with the old one and
  can make the new version's gate stale; the port says "Lock project scope and
  return the current specification" (`projects/requirements_gate.py:104`).
  `SupersededByNewer` therefore holds in `gate_team` and not in `gate_definition`.
- *prototypes*: a provided prototype opens the next Design gate after the owner has
  cancelled the last (`artifacts/workflow_inputs_runtime.py:348`), although
  `src/docs/architecture/states.md:63` says no submission gets through any more.
- *alignment, an obstacle that is not shown*: while an update of a twin waits, the
  sections list the twins under `alignment` and `align` then refuses them, although
  `alignment` "lists the sections that `POST .../sections/alignment` can realign"
  (`src/docs/api/index.md:124`).  No run of its own refutes the sentence;
  `SectionsKeepTheirPromise` and its theorem state the exception exactly.
- *alignment*: `align` approves whatever version is current when it gets there
  (`projects/sections_service.py:706`), a change applied meanwhile included.  Among
  these are profiles that a withdrawal of evidence has just rewritten and left for review
  ("Review the pending twin profile before approving it", `api/research_evidence.py:307`).
  `KeepsContent` says that nothing else gets approved: what is has been approved
  before, or is what a request of the owner gave the section meanwhile.
- *code changes*: a review made after the one on the owner's screen replaces it, and a
  position picked on the screen then stands for another finding
  (`api/code_changes.py:322`).  `PickedFromOneReview` allows it, and nothing beyond it.
- *diffs*: a regeneration of the Design appends its version without asking for a
  pending diff (`projects/design_application.py:341`), which can then be neither approved
  nor found by the check of the next proposal.
- *jobs*: a job whose task is cancelled before its first step stays RUNNING in the
  registry (`api/generation_jobs.py:273`), until the capacity drops it.
- *twins*: JSON null in the evidence column makes every PROPOSED update of a
  project count as one with evidence; an update without evidence may be stored after its
  twin has learned something else, and can then only be rejected.
- *code changes*: a decision on a commit and a `create_tasks` for a finding of it
  lock in opposite orders, and one of them fails with a 500; an ALIGNED decision
  keeps new tasks of its own commit out while it closes, but not those of the earlier
  commits that it closes the tasks of as well.
- *ledger*: two commands that ask the budget together are both let through
  (hence the term *others* in `SpendingBounded`); what a call has cost that was
  cancelled before its PROVIDER_RESULT is not counted; a command that is cancelled
  while it closes an attempt for a retry has its ADAPTER_REJECTED refused by the
  trigger, and ends with ProposalEvidenceError instead of CancelledError; one that
  is cancelled at the commit leaves FAILED beside a linked version.
- *sign-ins*: the `UPDATE` that revokes a family misses a token whose row is
  inserted while it waits, so one token of a family revoked for reuse can stay good
  (`src/docs/api/index.md:21` promises all are revoked); the lock file is stale after
  30 s, which is also the time a renewal may take; it is recognised as stale and
  removed in two steps; two tabs that refresh at once, or a logout beside a
  refresh, can cost the browser its sign-in.

## What is proved

For all values of the constants, by TLAPS, from the named assumptions of each
module, which TLC evaluates in the runs.  Where a theorem needs more than these, it
says so below.

**Gates** (`GateService_proofs`, on the lemmas of `GateFlow_proofs`), for any set of
requests, any number of them, both lock orders and any limit (`LimitAssumption`: the
limit is positive; `ServiceAssumption`: only a service that locks the project first
has owner's edits).

- `TypeCorrect`.  Inductive as it stands; what has to be shown is that no step
  builds a gate or an event outside its type: `TargetStatus` never answers "no
  target" to a decision that applies, and a draft's cap is a number.
- `GateReadStaysCurrent`, `Spec => []ReadGateIsCurrent`.  Inductive with `TypeOK`:
  a request reads its gate as it gets the project row, and every action that
  writes a gate is taken by the holder of that row.  This is why the model needs no
  conflict branch of `save_transition`.
- `OneGateLives`, `Spec => []OnlyLatestGateLives`.  Not inductive: a submission
  appends to `gates` after it has made the gate *it read* stale, so one needs that
  this was the last one, that iterations number the gates (`Line`), and that an owner's
  edit, which moves a gate too, holds the project (`EditsLockProject`).  `LineInv`
  is their conjunction.
- `HistoryIsTold`, `GatesLoad`, `RefusalsAreEarned`, `BlocksForGood`.  All four rest
  on `History(gates, log)` of `GateFlow_proofs`, an invariant of gates and events
  that does not know who writes them: gates are numbered, events are recorded at
  gates that exist (`Recorded`), each follows the one before and the last one explains
  its gate (`Told`), a gate's fields agree (`Stored`), nothing comes back from what is
  over (`Final`), an approval can be seen from its gate whatever became of it
  (`Seen`), and a cap counts from the last approval before its gate (`Capped`).
  `Seen` and `Capped` are what makes it inductive: the code computes the next cap
  from the latest gate alone, and the property is about all gates before it.  There is one
  lemma per thing a writer can do (`StalingKeepsHistory`, `DecisionKeepsHistory`,
  `SupersessionKeepsHistory`, `DraftKeepsHistory`, `SubmissionKeepsHistory`), and
  one per thing a history says (`HumanIsLast`, `SubmissionAfterNoEnd`,
  `RefusedHasSpent`, `CapCounts`).
- `EditsAreCovered`, `Spec => []EditsNeedTheirOwnGate`.
- `NewerSupersedes` and `ApprovalsAreCurrent`, for `LocksProjectFirst`: the version a
  request holds is the current one when it has the project row, because every
  append needs that row before it commits.  Without the assumption the first is
  false (see above) and the second not claimed.
- `RoundsAreImplemented`, `Spec => ImplementsRounds`: the refinement.  Every step maps to
  a step of `ApprovalRounds` or to none; the counter goes down by one with an
  opening because of `Seen` and `Capped`.

**Design gate** (`DesignAndAlignment_proofs`), for any number of artifacts and versions,
whatever decisions the owner may take, and `IterationLimit = 3`: the
prototype's service writes the 3 of its first attempt as a number of its own, so that
with another limit the two writers would disagree.

- `BudgetIsOne` and `WaitsForGood`, from the same `History`: although the
  prototype's writer opens its gate behind one that it leaves alive, its draft
  is one that `DraftKeepsHistory` allows, and a gate that waits for a human has
  no attempt left (`HumanIsLast`).
- `ApprovalsAreOfTheCurrent`, `Spec => ApprovesCurrentDesign`: only a decision
  approves, and only the latest gate, on the artifact it was taken on.

**Alignment** (`DesignAndAlignment_proofs`), for any bounds on the versions
(`AlignmentAssumption`).  `SectionsInv` holds whoever gets in between:

- `AlignmentTypeCorrect`.
- `VersionsRestOnApproved`, `AlignmentSpec => []RestsOnApproved`.  Inductive with
  `ApprovalsAgree` (what a gate approves has been approved, and a current version that
  was approved still is), `AnchorsKnown` (no version cites one that is not there) and
  `ReadIsApproved`: the version a walk has read of a source and found ready *was*
  approved, and stays one that was, whatever is sent back or changed before the walk
  writes it down.
- `FineDesignChain`, `AlignmentSpec => []FineDesignMeansFineChain`.  No step is looked at:
  in a state of `SectionsInv` a section that is not behind is approved and anchored to the
  current version of its source, that one is approved by `RestsOnApproved`, and so
  on along the chain, one lemma per link.

`AloneInv` is about a walk that nobody disturbs (`align.alone`): until the section at
work is re-anchored, what is left to do is exactly what is behind (`TodoIsBehind`),
the section at work is unblocked, and the version read of its source is the current one
(`KeyMayGo`); from then on its current version is anchored to that, and everything
before it is approved and not behind (`KeyIsRealigned`).  Two theorems come from it:

- `PromisesAreKept`, `AlignmentSpec => []SectionsKeepTheirPromise`: the conditions of
  `SubmissionProceeds` and `DecisionApplies` follow from the `blocked` that `Sections`
  derives, because an unblocked section has attempts left and sources that are
  ready; those of `CanRealign` follow if and only if the section is not the twins
  with an update that waits.
- `AlignmentLeavesNothingBehind`, `AlignmentSpec => AlignmentSettles`: an approval
  takes its section off what is behind and puts none on.

`ContentInv` is about any walk: each section left to do, the one at work included, has
content approved before or has been given some by a request that got in between
(`align.edited`).  Sections are put on the list while they are behind, and only approved
sections are; a re-anchored version has the content of the one before it, and no
request takes an approval back from `approvals`.

- `ApprovesKnownContent`, `AlignmentSpec => KeepsContent`.

**Diffs** (`Revisions_proofs`), for any set of requests and any bounds
(`RevisionsAssumption`).  The invariant is
`IInv == TypeOK /\ RequestsInv /\ VersionsInv /\ FirstGenerated`: what a request still
knows is true (`Knows`), who is about to append holds the row of the version that is
current, alone (`Holds`, `LockedOnce`), and versions and diffs cite each other.

- `TypeCorrect`; `ApprovalsAreVersions`, `Spec => []ApprovalIsAVersion`;
  `AnchorsAreKept`, `Spec => []RevisionsKeepTheAnchor`: a decision appends on the base
  of its diff because it holds that row, and that is where `Anchored` and `Applied` find
  it afterwards.
- `DecisionsStand`, `Spec => DecidedOnce`: a diff is written only while it is PROPOSED.
- `ProposalsAreSpared`, `Spec => RealignmentSparesProposals`: a re-anchoring about to
  commit found no proposal on the row it locked, and none can be stored while it holds
  that row (`Spares`).

**Jobs** (`JobsAndCodeChanges_proofs`), for any owners, keys, callers and limits.  The
invariant is `RegistryType /\ WorkIsKept /\ WorkIsLimited /\ OneHolder`.

- `TypeCorrect`, of the registry; the queue of the slot is left out of `RegistryType`,
  because the library defines the filter it uses by recursion.
- `OneAtATime`, `Spec => []OneCallAtATime`: a call is under way only for the holder of
  the slot (`OneHolder`), cancelled or not.
- `LimitsHold`, `Spec => []WorkIsLimited`: `start` counts the records it has kept, and
  that is every job at work (`WorkIsKept`), because `Pruned` drops no running one.
- `OutcomesStay`, `Spec => OutcomesKept`, from what `Pruned` spares (`PruneSpares`).

**Code changes** (`JobsAndCodeChanges_proofs`), for any requests, commits, findings and
bounds (`CodeChangesAssumption`: commits are numbered from 1, and Nobody is no request).
`CodeInv` has five parts, and every property needs more than itself:

- `CodeTypeCorrect`: `CodeType`, with one record type per phase of a request.
- `PicksAreKept`, `ChangesSpec => []PickedFromOneReview`.  `ChoiceOK` says it
  from the moment the owner picks: what was on the screen is a review of the commit, and
  where there was none no finding was picked; an append keeps every review where it is.  That a *different* latest review is a
  *later* one needs `ReviewsApart`: no two reviews, stored or on their way, are of one
  instant; and `HasLatest`, kept under every append, says that `LatestRun` picks
  the latest for any set of reviews.
- `OneTaskPerFinding`, `ChangesSpec => NoSecondOpenTask`.  `LockOK`: who writes tasks
  holds the project row and has read every finding that is an open task; nobody opens
  one beside it, because `set_task_status` takes the same row.  Within one request
  `NewTasksAre` shows that no two new tasks are of one finding; it rests on
  `IncreasingIs`, which counts the numbers up to each to show that any finite set of
  positions has its ascending order.
- `AlignedClosesAll`, `ChangesSpec => []NoTaskBehindAligned`.  Inductive with the types: a
  task of a commit waits for the row of its change, which the decision holds.
- `DeadlocksHaveAVictim`, `ChangesSpec => []DeadlocksArePairs`, which no run checks: three
  waits in a row contain two requests that wait for each other, so that the action
  `DeadlockVictim`, which knows pairs only, ends every deadlock there can be among
  these waits.  It needs `HolderWrites`: the project row is held by nobody but who
  writes tasks.  It speaks of the waits that are modelled: of tasks and decisions for
  the project and for a change.  Recording a commit, storing a review and
  `set_task_status` are one step each, so that a wait inside them is none here.

**Sign-ins** (`SignIns_proofs`), for any number of commands, tabs, tokens and faults
(`SessionsAssumption`, `FileAssumption`, `TabsAssumption`).

- `TypeCorrect`, from `IInv == ServerInv /\ TerminalTypeOK /\ BrowserTypeOK`.  The
  lemma the rest stands on is `RowsGrow`: whatever happens, rows are only added, no old
  row becomes good again, and a new row begins a family or takes the place of the good
  row of one, which the same step makes bad.
- `NeverForks`, `Spec => []OneLivePerFamily`.  `ServerInv` adds that a family
  is named after its first row (`FamiliesNamed`) and that a transaction behind its row
  lock has a token (`TokenLocked`).
- `StaysDead`, `Spec => DeadFamilyStaysDead`, from `RowsGrow`.
- `ReuseIsCaused`, `Spec => []ReuseHasACause`.  The invariant (`CauseInv`) has one part
  per side, each under the absence of what may break it.  Where no lock was taken
  from a command at work (`Unhurried`), one command is inside the lock (`Exclusive`) and
  what it presents is what the file holds (`FileHeld`); where nothing has gone wrong
  at all (`Calm`), the file, or the answer under way, has the live token of its family;
  likewise for the tabs of a browser without mishaps.
- `SignedOutStaysOut`, `Spec => SignOutSticks`, from `StickInv`: neither the jar nor an
  answer under way has a token of a family that was left (`LeftBehind`), since a
  refresh is answered in the family it presents (`RefreshesInFamily`) and a login in
  one that is new (`LoginsApart`).

**Twins** (`UserTwins_proofs`), for any number of twins, sources and requests
(`TwinsAssumption`).

- `TypeCorrect`, with `Typed`: no profile is newer than its snapshot.
- `WithdrawnStaysGone`, `Spec => []WithdrawnIsGone`.  Not inductive: a revision
  written before the withdrawal may still cite the source, and is harmless only
  because its snapshot is gone.  `Citations == DiffsBelow /\ Cited /\ InUse` says
  that a revision on the current snapshot cites no more than its twin does, a twin
  only what `used` has, and `used` only active sources.
- `UpdatesWaitAlone` and `WaitingEvidence`, from `Citations`, `Added` (an active source
  has a version) and `Waiting`: whatever would make a waiting evidence update void is
  refused while it waits, or rejects it.

**Ledger** (`ProposalLedger_proofs`), for any finite set of commands, any
projects and any ceilings (`LedgerAssumption`).

- `TypeCorrect`, with `RoleKnown`: an attempt is retired for a reason.
- `SpendingStaysBounded`, `Spec => []SpendingBounded`.  `LedgerInv` counts what is
  still to come: what is spent, plus the commands that the project's ceiling (or the
  Studio's) has let through and that have not been charged, never exceeds the ceiling
  by more than all commands but one; and a local model costs nothing (`FreeInv`).
  Most steps change neither side (`Steady`), so that the proof has to look at four
  of them only: the two readings, the charge and the crash.
- `NothingHeardIsRefused`, `Spec => []AnswersAreKept`, and `LedgerTellsTheTruth`,
  `Spec => []LedgerTells`.  `CourseInv` says of one command which events its row has, and
  what it is linked to, at each point of its course; commands share neither, so that
  a step has to be looked at for its own command only.

Only model-checked: the liveness properties `RequestsEnd` (`GateService`) and
`GenerationsEnd` (`GenerationJobs`); proofs under fairness are out of the prover's reach.
So is the order of the slot's queue, whose filter the library defines by recursion, and
the two runs that expect a violation, which show a state and not a law.  Every other
property that a run checks is a theorem.  No module here declares a RECURSIVE operator.

## What is not modelled, and why

- **Acceptance tests, knowledge alignment, brief dialogue**: rows that are appended and
  decided under the lock of the project or of their own parent.  They have states worth
  a module each; the sections whose versions the gates decide came first.
- **Dossier packages**: a publication reads its sources, then takes the project row and
  appends a package under a unique number (`knowledge/package_service.py:69`).  Between
  the two the sources may change; what a package then stands for is not modelled.
- **API request limits**: one method without an await, exact by construction.
- **Rest of the command line** (polling of jobs, the swap of the downloaded folder):
  one process against the file system.
- **Content** (documents, mockups, twins, critique, the schema and text of the
  Dossier, its import): pure data transformations without a protocol; they are most of
  the code's lines, and the share of the code mapped here is small for that reason.
- **Model providers, HTTP wiring, migrations, web app, editor extension**: I/O and
  user interface.  What a provider can answer is an input of the generation.

## What could come next

- Dossier packages over the moving chain, and the folder the command line keeps of
  them; acceptance tests beside the code changes whose tasks they feed.
- Proofs: that the queue of the slot in `GenerationJobs` has nobody twice, once its filter
  is written without the library's recursion.

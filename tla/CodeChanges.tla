---------------------------- MODULE CodeChanges ----------------------------
(***************************************************************************)
(* The commits a project records, the twins' reviews of them, the owner's  *)
(* decisions and the tasks for the code, as concurrent requests of several *)
(* terminals write them.  Every request runs in one READ COMMITTED         *)
(* transaction; what another one holds FOR UPDATE it waits for.            *)
(*                                                                         *)
(* A decision locks the row of its change, and the project only when it    *)
(* writes tasks; POST /code-tasks locks the project first, and then its    *)
(* inserts wait for the change through their foreign key.                  *)
(*                                                                         *)
(* Commits are numbered in the order of their dates.  One twin stands for  *)
(* all of them, a task written by the owner for those of a test run too.   *)
(***************************************************************************)
EXTENDS Naturals, Sequences, FiniteSets, Functions

CONSTANTS Requests,       \* the requests that can be in flight together
          Nobody,         \* the project row is free
          NoFinding,      \* a task that comes from no finding
          Commits,        \* 1..n: the commits of the repository
          Findings,       \* what a twin may find in a commit
          MaxFindings,    \* bound: findings of a review
          MaxPicks,       \* bound: tasks asked for in a request
          MaxRequests,    \* bound: requests begun in a behaviour
          Kinds           \* the decisions the owner takes

ASSUME CodeChangesAssumption ==
  /\ Nobody \notin Requests
  /\ NoFinding \notin Findings
  /\ Commits \subseteq Nat \ {0}
  /\ {MaxFindings, MaxPicks, MaxRequests} \subseteq Nat
  /\ Kinds \subseteq {"ALIGNED", "CODE_TASKS", "DESIGN_CHANGE", "REQUIREMENTS_CHANGE", "DISMISSED"}

VARIABLES changes,   \* the recorded commits: recorded_at and the decision of each
          runs,      \* the stored reviews, in commit order
          tasks,     \* tasks[n] is TSK-n
          clock,     \* the latest instant a request has read
          served,    \* requests begun so far
          project,   \* the request that holds the project row, or Nobody
          rq         \* every request in flight

changesVars == <<changes, runs, tasks, clock, served, project, rq>>

Recorded == DOMAIN changes

Idle == [phase |-> "idle"]

ChangesInit ==
  /\ changes = << >>
  /\ runs = <<>>
  /\ tasks = <<>>
  /\ clock = 0
  /\ served = 0
  /\ project = Nobody
  /\ rq = [r \in Requests |-> Idle]

BeginRequest(r, request) ==
  /\ rq[r].phase = "idle"
  /\ served < MaxRequests
  /\ served' = served + 1
  /\ rq' = [rq EXCEPT ![r] = request]
  /\ UNCHANGED <<changes, runs, tasks, project>>

(* The transaction ends, by a commit or a rollback, and its locks go. *)
Finish(r) ==
  /\ rq' = [rq EXCEPT ![r] = Idle]
  /\ project' = IF project = r THEN Nobody ELSE project
  /\ UNCHANGED <<clock, served>>

Answer(r) == Finish(r) /\ UNCHANGED <<changes, runs, tasks>>

-----------------------------------------------------------------------------

(***************************************************************************)
(* Locks.                                                                  *)
(***************************************************************************)

HoldsChange(o, c) == rq[o].phase \in {"decided", "closing", "writing"} /\ rq[o].commit = c

ChangeFree(r, c) == \A o \in Requests \ {r} : ~HoldsChange(o, c)

(* A row that refers to the project or to a change waits for it. *)
ProjectFree(r) == project \in {Nobody, r}

-----------------------------------------------------------------------------

(***************************************************************************)
(* Recording a commit.  recorded_at is read before the transaction.        *)
(***************************************************************************)

BeginRecord(r, c) ==
  /\ clock' = clock + 1
  /\ BeginRequest(r, [phase |-> "recording", commit |-> c, at |-> clock'])

Record(r) ==
  LET c == rq[r].commit IN
  /\ rq[r].phase = "recording"
  /\ c \notin Recorded
  /\ ProjectFree(r)
  /\ changes' = [d \in Recorded \cup {c} |->
                   IF d = c THEN [at |-> rq[r].at, decision |-> "none"] ELSE changes[d]]
  /\ UNCHANGED <<runs, tasks>>
  /\ Finish(r)

AlreadyRecorded(r) == rq[r].phase = "recording" /\ rq[r].commit \in Recorded /\ Answer(r)

(* Changes are ordered by recorded_at, then by the commit's date. *)
UpTo(c) ==
  {d \in Recorded :
     \/ changes[d].at < changes[c].at
     \/ changes[d].at = changes[c].at /\ d <= c}

-----------------------------------------------------------------------------

(***************************************************************************)
(* Reviewing a commit: minutes of generation between the check for an      *)
(* earlier review and the transaction that stores the new one.             *)
(***************************************************************************)

RunsOf(c) == {k \in DOMAIN runs : runs[k].commit = c}

(* Mutant: the review of the commit that was stored last. *)
LastStoredRun(c) ==
  IF RunsOf(c) = {} THEN 0
  ELSE CHOOSE k \in RunsOf(c) : \A o \in RunsOf(c) : o <= k

LatestRun(c) ==
  IF RunsOf(c) = {} THEN 0
  ELSE CHOOSE k \in RunsOf(c) : \A o \in RunsOf(c) : runs[o].at <= runs[k].at

FindingsOf(k) == IF k = 0 THEN <<>> ELSE runs[k].findings

Critiques == UNION {[1..n -> Findings] : n \in 0..MaxFindings}

(* CODE_CHANGE_REVIEW_EXISTS: a second review needs "again". *)
BeginReview(r, c, again) ==
  /\ c \in Recorded
  /\ RunsOf(c) # {} => again
  /\ UNCHANGED clock
  /\ BeginRequest(r, [phase |-> "reviewing", commit |-> c])

Reviewed(r) ==
  /\ rq[r].phase = "reviewing"
  /\ clock' = clock + 1
  /\ \E found \in Critiques :
       rq' = [rq EXCEPT ![r] = [phase |-> "reviewed", commit |-> rq[r].commit,
                                at |-> clock', findings |-> found]]
  /\ UNCHANGED <<changes, runs, tasks, served, project>>

(* A generation that fails leaves nothing. *)
ReviewFailed(r) == rq[r].phase = "reviewing" /\ Answer(r)

SaveReview(r) ==
  /\ rq[r].phase = "reviewed"
  /\ ChangeFree(r, rq[r].commit)
  /\ ProjectFree(r)
  /\ runs' = Append(runs, [commit |-> rq[r].commit, at |-> rq[r].at,
                           findings |-> rq[r].findings])
  /\ UNCHANGED <<changes, tasks>>
  /\ Finish(r)

-----------------------------------------------------------------------------

(***************************************************************************)
(* Choosing tasks in the terminal.  A task is the owner's own text (0) or  *)
(* a finding of the review on the screen, sent as its position; texts go   *)
(* first, then the findings as they are listed.                            *)
(***************************************************************************)

Picks(shown) ==
  {picks \in UNION {[1..n -> 0..Len(FindingsOf(shown))] : n \in 1..MaxPicks} :
     \A i, j \in DOMAIN picks : i < j => picks[i] <= picks[j]}

Choice(phase, c, picks) ==
  [phase |-> phase, commit |-> c, picks |-> picks, shown |-> LatestRun(c),
   sources |-> <<>>, at |-> clock', known |-> {}, closes |-> {}, kind |-> "CODE_TASKS", upto |-> 0]

BeginDecide(r, c, kind) ==
  /\ c \in Recorded
  /\ clock' = clock + 1
  /\ \E picks \in IF kind = "CODE_TASKS" THEN Picks(LatestRun(c)) ELSE {<<>>} :
       BeginRequest(r, [Choice("deciding", c, picks) EXCEPT !.kind = kind])

(* ut tasks add, a text that needs no commit, and ut tasks from-commit. *)
BeginTasks(r, c) ==
  /\ UNCHANGED clock
  /\ \E picks \in Picks(LatestRun(c)) :
       /\ 0 \in Range(picks) => Len(picks) = 1
       /\ BeginRequest(r, Choice("asking", c, picks))

-----------------------------------------------------------------------------

(***************************************************************************)
(* The server resolves each position against the review that is the latest *)
(* when its transaction reads it.                                          *)
(***************************************************************************)

Resolvable(r) ==
  LET found == FindingsOf(LatestRun(rq[r].commit)) IN
  \A i \in DOMAIN rq[r].picks : rq[r].picks[i] <= Len(found)

(* A text given with a decision belongs to the commit, another to none. *)
Source(r, pick) ==
  IF pick = 0
  THEN [origin |-> IF rq[r].phase = "deciding" THEN rq[r].commit ELSE 0, finding |-> NoFinding]
  ELSE [origin |-> rq[r].commit, finding |-> FindingsOf(LatestRun(rq[r].commit))[pick]]

Sources(r) == [i \in DOMAIN rq[r].picks |-> Source(r, rq[r].picks[i])]

(* TASK_SOURCE_INVALID: there is no such finding any more. *)
SourceInvalid(r) ==
  rq[r].phase \in {"deciding", "asking"} /\ ~Resolvable(r) /\ Answer(r)

ReadSources(r) ==
  /\ rq[r].phase = "deciding"
  /\ Resolvable(r)
  /\ rq' = [rq EXCEPT ![r].phase = "read", ![r].sources = Sources(r)]
  /\ UNCHANGED <<changes, runs, tasks, clock, served, project>>

(* POST /code-tasks: the tasks are dated after this, before the lock. *)
ReadTaskSources(r) ==
  /\ rq[r].phase = "asking"
  /\ Resolvable(r)
  /\ clock' = clock + 1
  /\ rq' = [rq EXCEPT ![r].phase = "sourced", ![r].sources = Sources(r), ![r].at = clock']
  /\ UNCHANGED <<changes, runs, tasks, served, project>>

(* The decision is written with the row locked, and seen at the commit. *)
LockChange(r) ==
  /\ rq[r].phase = "read"
  /\ ChangeFree(r, rq[r].commit)
  /\ rq' = [rq EXCEPT ![r].phase = "decided"]
  /\ UNCHANGED <<changes, runs, tasks, clock, served, project>>

Decided(r) == [changes EXCEPT ![rq[r].commit].decision = rq[r].kind]

(* DESIGN_CHANGE, REQUIREMENTS_CHANGE, DISMISSED. *)
CommitDecision(r) ==
  /\ rq[r].phase = "decided"
  /\ rq[r].kind \notin {"ALIGNED", "CODE_TASKS"}
  /\ changes' = Decided(r)
  /\ UNCHANGED <<runs, tasks>>
  /\ Finish(r)

-----------------------------------------------------------------------------

(***************************************************************************)
(* ALIGNED closes the open tasks of the change and of those before it, and *)
(* the owner's tasks written before the change was recorded.  The UPDATE   *)
(* sees the tasks committed when it starts.                                *)
(***************************************************************************)

CloseTasks(r) ==
  /\ rq[r].phase = "decided"
  /\ rq[r].kind = "ALIGNED"
  /\ rq' = [rq EXCEPT ![r].phase = "closing", ![r].upto = Len(tasks),
       ![r].closes = {n \in DOMAIN tasks :
                       /\ tasks[n].status = "OPEN"
                       /\ \/ tasks[n].origin \in UpTo(rq[r].commit)
                          \/ /\ tasks[n].origin = 0
                             /\ tasks[n].at <= changes[rq[r].commit].at}]
  /\ UNCHANGED <<changes, runs, tasks, clock, served, project>>

(* A task another request has closed meanwhile is not OPEN when the UPDATE *)
(* looks at its row again.                                                 *)
CommitAligned(r) ==
  /\ rq[r].phase = "closing"
  /\ changes' = Decided(r)
  /\ tasks' = [n \in DOMAIN tasks |->
                 IF n \in rq[r].closes /\ tasks[n].status = "OPEN"
                 THEN [tasks[n] EXCEPT !.status = "DONE"] ELSE tasks[n]]
  /\ UNCHANGED runs
  /\ Finish(r)

-----------------------------------------------------------------------------

(***************************************************************************)
(* create_tasks.                                                           *)
(***************************************************************************)

WantsProject(r) ==
  \/ rq[r].phase = "decided" /\ rq[r].kind = "CODE_TASKS"
  \/ rq[r].phase = "sourced"

Writing(r) == rq[r].phase \in {"writing", "filing"}

OpenFindings ==
  {<<tasks[n].origin, tasks[n].finding>> : n \in {m \in DOMAIN tasks : tasks[m].status = "OPEN"}}

(* Mutant: the open tasks are read without the lock. *)
ReadKnownUnlocked(r) ==
  /\ WantsProject(r)
  /\ project' = r
  /\ rq' = [rq EXCEPT ![r].known = OpenFindings,
                      ![r].phase = IF rq[r].phase = "decided" THEN "writing" ELSE "filing"]
  /\ UNCHANGED <<changes, runs, tasks, clock, served>>

LockProject(r) ==
  /\ WantsProject(r)
  /\ project = Nobody
  /\ project' = r
  /\ rq' = [rq EXCEPT ![r].known = OpenFindings,
                      ![r].phase = IF rq[r].phase = "decided" THEN "writing" ELSE "filing"]
  /\ UNCHANGED <<changes, runs, tasks, clock, served>>

(* The sources that make a task: a finding that is an open task already,   *)
(* or is asked for twice, makes none; a text makes one every time.         *)
Fresh(r) ==
  {i \in DOMAIN rq[r].sources :
     LET source == rq[r].sources[i] IN
     source.finding # NoFinding =>
       /\ <<source.origin, source.finding>> \notin rq[r].known
       /\ \A j \in 1..(i - 1) : rq[r].sources[j] # source}

Increasing(S) ==
  CHOOSE order \in [1..Cardinality(S) -> S] :
    \A i, j \in DOMAIN order : i < j => order[i] < order[j]

(* In the order they were asked for. *)
NewTasks(r) ==
  LET order == Increasing(Fresh(r)) IN
  [k \in DOMAIN order |->
     [origin |-> rq[r].sources[order[k]].origin, finding |-> rq[r].sources[order[k]].finding,
      at |-> rq[r].at, status |-> "OPEN"]]

(* Mutant: a task does not refer to its change, and waits for nobody. *)
InsertsUnreferenced(r) == Writing(r)

(* The foreign key of each new task waits for its change. *)
InsertsPass(r) ==
  /\ Writing(r)
  /\ \A t \in Range(NewTasks(r)) : t.origin # 0 => ChangeFree(r, t.origin)

(* A decision is committed with its tasks. *)
WriteTasks(r) ==
  /\ InsertsPass(r)
  /\ tasks' = tasks \o NewTasks(r)
  /\ changes' = IF rq[r].phase = "writing" THEN Decided(r) ELSE changes
  /\ UNCHANGED runs
  /\ Finish(r)

(***************************************************************************)
(* A CODE_TASKS decision holds its change and waits for the project, POST  *)
(* /code-tasks holds the project and waits for the change: PostgreSQL      *)
(* rolls one of the two back, and its request fails with a 500.            *)
(***************************************************************************)
WaitsFor(r, o) ==
  \/ WantsProject(r) /\ project = o
  \/ Writing(r) /\ \E t \in Range(NewTasks(r)) : o # r /\ HoldsChange(o, t.origin)

DeadlockVictim(r) ==
  /\ \E o \in Requests : WaitsFor(r, o) /\ WaitsFor(o, r)
  /\ Answer(r)

(* ut tasks done, drop and reopen: one transaction, under the project      *)
(* lock, that waits for the row of the task.                               *)
SetTaskStatus(n, status) ==
  /\ project = Nobody
  /\ \A r \in Requests : rq[r].phase = "closing" => n \notin rq[r].closes
  /\ tasks[n].status # status
  /\ tasks' = [tasks EXCEPT ![n].status = status]
  /\ UNCHANGED <<changes, runs, clock, served, project, rq>>

-----------------------------------------------------------------------------

Open(r) ==
  \E c \in Commits :
    \/ BeginRecord(r, c)
    \/ \E again \in BOOLEAN : BeginReview(r, c, again)
    \/ \E kind \in Kinds : BeginDecide(r, c, kind)
    \/ BeginTasks(r, c)

Step(r) ==
  \/ Record(r)
  \/ AlreadyRecorded(r)
  \/ Reviewed(r)
  \/ ReviewFailed(r)
  \/ SaveReview(r)
  \/ SourceInvalid(r)
  \/ ReadSources(r)
  \/ ReadTaskSources(r)
  \/ LockChange(r)
  \/ CommitDecision(r)
  \/ CloseTasks(r)
  \/ CommitAligned(r)
  \/ LockProject(r)
  \/ WriteTasks(r)
  \/ DeadlockVictim(r)

ChangesNext ==
  \/ \E r \in Requests : Open(r) \/ Step(r)
  \/ \E n \in DOMAIN tasks, status \in {"OPEN", "DONE", "DROPPED"} : SetTaskStatus(n, status)

ChangesSpec == ChangesInit /\ [][ChangesNext]_changesVars

-----------------------------------------------------------------------------

(***************************************************************************)
(* Properties.                                                             *)
(***************************************************************************)

(* A new task never repeats a finding that is an open task, whichever of   *)
(* the two routes and however many terminals ask for it at the same time.  *)
(* (Only ut tasks reopen may bring back a task beside its successor.)      *)
NoSecondOpenTask ==
  [][\A n \in DOMAIN tasks', m \in DOMAIN tasks' :
       /\ n \notin DOMAIN tasks
       /\ m # n
       /\ tasks'[n].finding # NoFinding
       /\ tasks'[m].finding = tasks'[n].finding
       /\ tasks'[m].origin = tasks'[n].origin
       => tasks'[m].status # "OPEN"]_changesVars

(* While an ALIGNED decision closes the tasks of its change no new one     *)
(* slips in behind it: "the open tasks for the code that come from this    *)
(* commit ... are closed" (cli/messages/verify.py) when it commits.        *)
NoTaskBehindAligned ==
  \A r \in Requests :
    rq[r].phase = "closing" =>
      \A n \in DOMAIN tasks : tasks[n].origin = rq[r].commit => n <= rq[r].upto

(* The sources of a request are what its positions stand for in review k. *)
SourcedFrom(k, q) ==
  \A i \in DOMAIN q.picks :
    q.picks[i] # 0 =>
      /\ q.picks[i] \in DOMAIN runs[k].findings
      /\ q.sources[i].finding = runs[k].findings[q.picks[i]]

(* All the positions of a request stand for findings of one review of its  *)
(* commit: the one on the owner's screen, or one made after it.  Another   *)
(* commit's, or one that was made before and stored late, is never read;   *)
(* that a later one is, the code allows.                                   *)
PickedFromOneReview ==
  \A r \in Requests :
    /\ rq[r].phase \in {"read", "sourced", "decided", "writing", "filing"}
    /\ \E i \in DOMAIN rq[r].picks : rq[r].picks[i] # 0
    => \E k \in RunsOf(rq[r].commit) :
         /\ k = rq[r].shown \/ runs[k].at > runs[rq[r].shown].at
         /\ SourcedFrom(k, rq[r])
=============================================================================

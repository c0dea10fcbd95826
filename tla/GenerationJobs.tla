--------------------------- MODULE GenerationJobs ---------------------------
(***************************************************************************)
(* Generations in the memory of the API: the registry of the jobs that run *)
(* in the background, and the slot through which they, and the requests    *)
(* that wait for their generation, call a local model one at a time.       *)
(*                                                                         *)
(* The registry's methods run between two awaits of one event loop, so     *)
(* each is one action.  A caller is a job, by its number, or a request     *)
(* that generates while its client waits.                                  *)
(***************************************************************************)
EXTENDS Integers, Sequences, FiniteSets

CONSTANTS Owners, Keys,  \* accounts, and what their jobs are about
          Outcomes,      \* how a factory may end
          Inline,        \* requests that generate without a job
          Capacity,      \* MAX_KEPT_JOBS
          PerOwner,      \* MAX_RUNNING_JOBS_PER_OWNER
          Retention,     \* FINISHED_JOB_RETENTION, in ticks
          MaxJobs,       \* bound: jobs ever started
          MaxCalls,      \* bound: model calls of one caller
          MaxTime        \* bound: the clock

ASSUME JobsAssumption ==
  /\ Outcomes \subseteq {"SUCCEEDED", "REJECTED", "FAILED"}
  /\ Inline \cap Nat = {}
  /\ {Capacity, PerOwner, Retention, MaxJobs, MaxCalls, MaxTime} \subseteq Nat
  /\ Capacity > 0 /\ PerOwner > 0

VARIABLES jobs,       \* every job ever started, in order
          kept,       \* the registry: the jobs that can still be read
          closed,     \* the registry has been closed
          now,        \* the clock
          at,         \* where each caller is
          cancelled,  \* the callers whose task has been cancelled
          queue,      \* the callers that wait for the slot
          holder,     \* the callers that hold the slot
          inflight,   \* the callers whose call the model works on
          calls       \* the calls each caller has made

registry == <<jobs, kept, closed, now>>
slot == <<queue, holder, inflight, calls>>
vars == <<registry, at, cancelled, slot>>

Callers == (1..MaxJobs) \union Inline

Job == [owner : Owners, key : Keys, finished : 0..MaxTime,
        status : {"RUNNING", "SUCCEEDED", "REJECTED", "FAILED"}]

IsJob(c) == c \in DOMAIN jobs

Running(j) == jobs[j].status = "RUNNING"

-----------------------------------------------------------------------------
(* The registry.                                                           *)

Expired(j) == ~ Running(j) /\ now - jobs[j].finished > Retention

(* MUTANT of Evictable: running jobs make room as well.                    *)
EvictableAny(j) == TRUE

Evictable(j) == ~ Running(j)

(* MUTANT of EarlierFirst: any finished job makes room.                    *)
AnyFirst(gone, left) == TRUE

EarlierFirst(gone, left) ==
  \A g \in gone, l \in left : Evictable(l) => jobs[g].finished <= jobs[l].finished

(* _prune: what has expired, then the jobs that finished first while there *)
(* is no room; the random job_id decides between equals.                   *)
Pruned(room) ==
  LET fresh == {j \in kept : ~ Expired(j)}
      excess == Cardinality(fresh) - Capacity + room
      finished == {j \in fresh : Evictable(j)}
      drop == IF excess <= 0 THEN 0
              ELSE IF excess < Cardinality(finished) THEN excess ELSE Cardinality(finished)
  IN {fresh \ gone : gone \in
       {G \in SUBSET finished : Cardinality(G) = drop /\ EarlierFirst(G, fresh \ G)}}

Same(j, o, k) == jobs[j].owner = o /\ jobs[j].key = k

AlreadyRuns(K, o, k) == \E j \in K : Running(j) /\ Same(j, o, k)

TooMany(K, o) == Cardinality({j \in K : Running(j) /\ jobs[j].owner = o}) >= PerOwner

(* start makes room first; then it finds the running job of the same key,  *)
(* or refuses one job too many ...                                         *)
StartNothing(o, k) ==
  /\ ~ closed
  /\ kept' \in Pruned(1)
  /\ AlreadyRuns(kept', o, k) \/ TooMany(kept', o)
  /\ UNCHANGED <<jobs, closed, now, at, cancelled, slot>>

(* ... or adds a job, whose task takes its first step later.               *)
Start(o, k) ==
  /\ ~ closed
  /\ Len(jobs) < MaxJobs
  /\ \E K \in Pruned(1) :
       /\ ~ AlreadyRuns(K, o, k) /\ ~ TooMany(K, o)
       /\ kept' = K \union {Len(jobs) + 1}
  /\ jobs' = Append(jobs, [owner |-> o, key |-> k, finished |-> 0, status |-> "RUNNING"])
  /\ at' = [at EXCEPT ![Len(jobs) + 1] = "new"]
  /\ UNCHANGED <<closed, now, cancelled, slot>>

(* get and project_jobs prune before they read.  The registry is closed    *)
(* when the API has stopped to serve: nobody reads it any more.            *)
Read ==
  /\ ~ closed
  /\ kept' \in Pruned(0)
  /\ UNCHANGED <<jobs, closed, now, at, cancelled, slot>>

(* close: the tasks that are not done are cancelled, nothing starts again. *)
Close ==
  /\ ~ closed
  /\ closed' = TRUE
  /\ cancelled' = cancelled \union {j \in kept : at[j] # "done"}
  /\ UNCHANGED <<jobs, kept, now, at, slot>>

(* Time passes, as long as somebody can tell.                              *)
Tick ==
  /\ ~ closed
  /\ now < MaxTime
  /\ now' = now + 1
  /\ UNCHANGED <<jobs, kept, closed, at, cancelled, slot>>

-----------------------------------------------------------------------------
(* The callers.                                                            *)

(* _finish writes the outcome of a job; a request just answers.            *)
Finished(c, status) ==
  IF IsJob(c)
  THEN jobs' = [jobs EXCEPT ![c].status = status, ![c].finished = now]
  ELSE UNCHANGED jobs

Done(c) == at' = [at EXCEPT ![c] = "done"]

(* A request that generates while its client waits; its task may be        *)
(* cancelled by the server it runs in.                                     *)
Arrive(c) ==
  /\ c \in Inline
  /\ ~ closed
  /\ at[c] = "none"
  /\ at' = [at EXCEPT ![c] = "working"]
  /\ UNCHANGED <<registry, cancelled, slot>>

CancelInline(c) ==
  /\ c \in Inline \ cancelled
  /\ at[c] \in {"working", "waiting", "calling"}
  /\ cancelled' = cancelled \union {c}
  /\ UNCHANGED <<registry, at, slot>>

Begin(c) ==
  /\ at[c] = "new"
  /\ c \notin cancelled
  /\ at' = [at EXCEPT ![c] = "working"]
  /\ UNCHANGED <<registry, cancelled, slot>>

(* A task that is cancelled before its first step never enters _run.       *)
NeverRuns(c) ==
  /\ at[c] = "new"
  /\ c \in cancelled
  /\ Done(c)
  /\ UNCHANGED <<registry, cancelled, slot>>

(* The factory returns, refuses or raises.                                 *)
End(c, status) ==
  /\ at[c] = "working"
  /\ c \notin cancelled
  /\ Finished(c, status)
  /\ Done(c)
  /\ UNCHANGED <<kept, closed, now, cancelled, slot>>

(* A cancellation reaches the factory, or takes the caller off the queue.  *)
EndCancelled(c) ==
  /\ at[c] \in {"working", "waiting"}
  /\ c \in cancelled
  /\ Finished(c, "FAILED")
  /\ Done(c)
  /\ queue' = SelectSeq(queue, LAMBDA w : w # c)
  /\ UNCHANGED <<kept, closed, now, cancelled, holder, inflight, calls>>

(* asyncio.Lock serves its waiters in order.                               *)
SlotFree(c) ==
  /\ holder = {}
  /\ queue # <<>> => Head(queue) = c

(* generate, up to the lock.                                               *)
Queue(c) ==
  /\ at[c] = "working"
  /\ c \notin cancelled
  /\ calls[c] < MaxCalls
  /\ at' = [at EXCEPT ![c] = "waiting"]
  /\ queue' = Append(queue, c)
  /\ calls' = [calls EXCEPT ![c] = @ + 1]
  /\ UNCHANGED <<registry, cancelled, holder, inflight>>

(* The lock is granted and the call becomes a task of its own.             *)
Call(c) ==
  /\ at[c] = "waiting"
  /\ c \notin cancelled
  /\ SlotFree(c)
  /\ at' = [at EXCEPT ![c] = "calling"]
  /\ queue' = SelectSeq(queue, LAMBDA w : w # c)
  /\ holder' = holder \union {c}
  /\ inflight' = inflight \union {c}
  /\ UNCHANGED <<registry, cancelled, calls>>

(* The model answers, fails or times out: its task ends, whoever waits.    *)
Return(c) ==
  /\ c \in inflight
  /\ inflight' = inflight \ {c}
  /\ UNCHANGED <<registry, at, cancelled, queue, holder, calls>>

(* MUTANT of CallOver: a cancelled caller leaves its call behind.          *)
CallOverOrCancelled(c) == c \notin inflight \/ c \in cancelled

(* A cancelled caller keeps the slot until its call is over.               *)
CallOver(c) == c \notin inflight

(* MUTANT of Leave: a cancelled caller forgets the slot.                   *)
LeaveUnlessCancelled(c) == IF c \in cancelled THEN holder' = holder ELSE holder' = holder \ {c}

Leave(c) == holder' = holder \ {c}

Resume(c) ==
  /\ at[c] = "calling"
  /\ CallOver(c)
  /\ Leave(c)
  /\ IF c \in cancelled
     THEN Done(c) /\ Finished(c, "FAILED")
     ELSE at' = [at EXCEPT ![c] = "working"] /\ UNCHANGED jobs
  /\ UNCHANGED <<kept, closed, now, cancelled, queue, inflight, calls>>

-----------------------------------------------------------------------------
Init ==
  /\ jobs = <<>>
  /\ kept = {}
  /\ closed = FALSE
  /\ now = 0
  /\ at = [c \in Callers |-> "none"]
  /\ cancelled = {}
  /\ queue = <<>>
  /\ holder = {}
  /\ inflight = {}
  /\ calls = [c \in Callers |-> 0]

Asked == Read \/ \E o \in Owners, k \in Keys : StartNothing(o, k) \/ Start(o, k)

(* What a task does on its own: the event loop runs every task that can    *)
(* take a step, and a call to a model has a timeout.                       *)
Progress(c) ==
  \/ Begin(c) \/ NeverRuns(c) \/ EndCancelled(c) \/ Call(c) \/ Return(c) \/ Resume(c)
  \/ \E status \in Outcomes : End(c, status)

Next ==
  \/ Asked \/ Close \/ Tick
  \/ \E c \in Callers : Arrive(c) \/ CancelInline(c) \/ Queue(c) \/ Progress(c)

Spec == Init /\ [][Next]_vars

FairSpec == Spec /\ WF_vars(\E c \in Callers : Progress(c))

-----------------------------------------------------------------------------
(* Properties.                                                             *)

(* The parts of a generation agree: who waits is queued, who calls holds   *)
(* the slot, what can be read has been started.                            *)
TypeOK ==
  /\ jobs \in Seq(Job) /\ Len(jobs) <= MaxJobs
  /\ kept \subseteq DOMAIN jobs
  /\ closed \in BOOLEAN
  /\ now \in 0..MaxTime
  /\ at \in [Callers -> {"none", "new", "working", "waiting", "calling", "done"}]
  /\ cancelled \subseteq Callers
  /\ queue \in Seq(Callers)
  /\ holder \subseteq Callers
  /\ inflight \subseteq Callers
  /\ calls \in [Callers -> 0..MaxCalls]
  /\ \A c \in Callers : at[c] = "waiting" <=> \E i \in DOMAIN queue : queue[i] = c
  /\ \A c \in Callers : at[c] = "calling" <=> c \in holder

(* "One inference at a time across proposal and evaluator calls in this    *)
(* API process", also while callers that are cancelled leave their calls.  *)
OneCallAtATime == Cardinality(inflight) <= 1

(* The limits of start count what really works: an owner never has more    *)
(* than PerOwner tasks that are not over, nor two for the same key,        *)
(* whatever the registry has dropped to make room.                         *)
WorkIsLimited ==
  LET work == {j \in DOMAIN jobs : at[j] # "done"} IN
  /\ \A o \in Owners : Cardinality({j \in work : jobs[j].owner = o}) <= PerOwner
  /\ \A i, j \in work : jobs[i].owner = jobs[j].owner /\ jobs[i].key = jobs[j].key => i = j

(* An outcome can be read for the whole retention, unless the registry is  *)
(* full; then what finished first goes first.                              *)
OutcomesKept ==
  [][\A j \in kept \ kept' :
       \/ Expired(j)
       \/ /\ ~ Running(j)
          /\ Cardinality(kept' \union {j}) >= Capacity
          /\ \A i \in kept \cap kept' : Running(i) \/ jobs[j].finished <= jobs[i].finished]_vars

(* Every job and every request that generates comes to its end: nobody     *)
(* waits for ever for a slot that a cancelled caller has held.             *)
GenerationsEnd == \A c \in Callers : (at[c] # "none") ~> (at[c] = "done")
=============================================================================

---------------------- MODULE JobsAndCodeChanges_proofs ----------------------
(***************************************************************************)
(* Theorems about two components that share nothing: GenerationJobs, for   *)
(* any owners, any limits and any number of callers, and CodeChanges, for  *)
(* any requests, commits and findings.  IInv is the invariant of the jobs, *)
(* CodeInv that of the code changes.                                       *)
(***************************************************************************)
EXTENDS GenerationJobs, CodeChanges, FiniteSetTheorems, TLAPS

-----------------------------------------------------------------------------
(* The invariant.                                                          *)

Places == {"none", "new", "working", "waiting", "calling", "done"}

RegistryType ==
  /\ jobs \in Seq(Job)
  /\ Len(jobs) <= MaxJobs
  /\ kept \subseteq DOMAIN jobs
  /\ now \in 0..MaxTime
  /\ at \in [Callers -> Places]

(* A job whose task is not over can be read, and reads as running: it      *)
(* counts.                                                                 *)
WorkIsKept == \A j \in DOMAIN jobs : at[j] # "done" => j \in kept /\ Running(j)

(* A call is in flight only under the slot, which has one holder.          *)
OneHolder == inflight \subseteq holder /\ \A c, d \in holder : c = d

IInv == RegistryType /\ WorkIsKept /\ WorkIsLimited /\ OneHolder

-----------------------------------------------------------------------------
(* Lemmas.                                                                 *)

LEMMA Limits ==
  /\ Capacity \in Nat /\ PerOwner \in Nat /\ MaxJobs \in Nat /\ MaxTime \in Nat
  /\ Capacity > 0 /\ PerOwner > 0
  /\ Outcomes \subseteq {"SUCCEEDED", "REJECTED", "FAILED"}
  /\ Inline \cap Nat = {}
BY JobsAssumption

LEMMA JobsAre ==
  ASSUME RegistryType
  PROVE  /\ Len(jobs) \in Nat /\ DOMAIN jobs = 1..Len(jobs) /\ DOMAIN jobs \subseteq Callers
         /\ \A j \in DOMAIN jobs : jobs[j] \in Job
         /\ IsFiniteSet(DOMAIN jobs)
         /\ \A S \in SUBSET DOMAIN jobs : IsFiniteSet(S) /\ Cardinality(S) \in Nat
<1>1. /\ Len(jobs) \in Nat /\ DOMAIN jobs = 1..Len(jobs)
      /\ \A j \in DOMAIN jobs : jobs[j] \in Job
  BY DEF RegistryType
<1>2. DOMAIN jobs \subseteq Callers
  BY <1>1, Limits DEF RegistryType, Callers
<1>3. IsFiniteSet(DOMAIN jobs)
  BY <1>1, FS_Interval
<1>4. \A S \in SUBSET DOMAIN jobs : IsFiniteSet(S) /\ Cardinality(S) \in Nat
  BY <1>3, FS_Subset, FS_CardinalityType
<1> QED BY <1>1, <1>2, <1>3, <1>4

(* _prune drops no running job; what it drops has expired, or is the       *)
(* earliest to have finished in a registry that is full without it.        *)
LEMMA PruneSpares ==
  ASSUME RegistryType, NEW room \in {0, 1}, NEW K \in Pruned(room)
  PROVE  /\ K \subseteq kept
         /\ \A j \in kept : Running(j) => j \in K
         /\ \A j \in kept \ K :
              \/ Expired(j)
              \/ /\ ~ Running(j)
                 /\ Cardinality(K \union {j}) >= Capacity
                 /\ \A i \in K : Running(i) \/ jobs[j].finished <= jobs[i].finished
<1> DEFINE fresh == {j \in kept : ~ Expired(j)}
           excess == Cardinality(fresh) - Capacity + room
           finished == {j \in fresh : Evictable(j)}
           drop == IF excess <= 0 THEN 0
                   ELSE IF excess < Cardinality(finished) THEN excess ELSE Cardinality(finished)
<1>1. PICK G \in SUBSET finished :
        Cardinality(G) = drop /\ EarlierFirst(G, fresh \ G) /\ K = fresh \ G
  BY DEF Pruned
<1>2. /\ IsFiniteSet(fresh) /\ Cardinality(fresh) \in Nat
      /\ IsFiniteSet(G) /\ Cardinality(G) \in Nat
      /\ IsFiniteSet(finished) /\ Cardinality(finished) \in Nat
      /\ IsFiniteSet(K) /\ Cardinality(K) \in Nat
  <2>1. fresh \subseteq DOMAIN jobs BY DEF RegistryType
  <2>2. {G, finished, K} \subseteq SUBSET DOMAIN jobs BY <1>1, <2>1
  <2> QED BY <2>1, <2>2, JobsAre
<1>3. K \subseteq kept /\ \A j \in kept : Running(j) => j \in K
  BY <1>1 DEF Expired, Evictable
<1>4. Cardinality(K) = Cardinality(fresh) - Cardinality(G)
  <2>1. fresh \cap G = G BY <1>1
  <2>2. Cardinality(fresh \ G) = Cardinality(fresh) - Cardinality(fresh \cap G)
    BY <1>2, FS_Difference
  <2> QED BY <1>1, <2>1, <2>2
<1>5. ASSUME NEW j \in kept \ K, ~ Expired(j)
      PROVE  /\ ~ Running(j)
             /\ Cardinality(K \union {j}) >= Capacity
             /\ \A i \in K : Running(i) \/ jobs[j].finished <= jobs[i].finished
  <2>1. j \in G BY <1>1, <1>5
  <2>2. ~ Running(j) BY <1>1, <2>1 DEF Evictable
  <2>3. \A i \in K : Running(i) \/ jobs[j].finished <= jobs[i].finished
    BY <1>1, <2>1 DEF EarlierFirst, Evictable
  <2>4. Cardinality(G) # 0 BY <1>2, <2>1, FS_EmptySet
  <2>5. Cardinality(K \union {j}) = Cardinality(K) + 1 BY <1>2, <1>5, FS_AddElement
  <2> HIDE DEF fresh, finished
  <2>6. Cardinality(G) <= Cardinality(fresh) - Capacity + room
    BY <1>1, <1>2, <2>4, Limits
  <2>7. Cardinality(K) + 1 >= Capacity BY <1>2, <1>4, <2>6, Limits
  <2> QED BY <2>2, <2>3, <2>5, <2>7
<1> QED BY <1>3, <1>5

-----------------------------------------------------------------------------
(* Steps that start no job.                                                *)

(* What a step that starts no job does to the registry.                    *)
StartsNone ==
  /\ jobs' \in Seq(Job) /\ Len(jobs') = Len(jobs)
  /\ \A j \in DOMAIN jobs : jobs'[j].owner = jobs[j].owner /\ jobs'[j].key = jobs[j].key
  /\ \A j \in DOMAIN jobs : at'[j] # "done" => at[j] # "done" /\ jobs'[j] = jobs[j]
  /\ kept' \subseteq kept
  /\ \A j \in kept : Running(j) => j \in kept'
  /\ now' \in 0..MaxTime
  /\ at' \in [Callers -> Places]

LEMMA StartsNoneKeeps ==
  ASSUME RegistryType, WorkIsKept, WorkIsLimited, StartsNone
  PROVE  RegistryType' /\ WorkIsKept' /\ WorkIsLimited'
<1>1. DOMAIN jobs' = DOMAIN jobs /\ Len(jobs) \in Nat
  BY JobsAre DEF StartsNone
<1>2. RegistryType' BY <1>1 DEF RegistryType, StartsNone
<1>3. WorkIsKept' BY <1>1 DEF WorkIsKept, StartsNone, Running
<1> DEFINE work == {j \in DOMAIN jobs : at[j] # "done"}
<1>4. work' \subseteq work BY <1>1 DEF StartsNone
<1>5. ASSUME NEW o \in Owners
      PROVE  Cardinality({j \in work : jobs[j].owner = o})' <= PerOwner
  <2> DEFINE S == {j \in work : jobs[j].owner = o}
  <2>1. S' \subseteq S BY <1>1, <1>4 DEF StartsNone
  <2>2. S \in SUBSET DOMAIN jobs OBVIOUS
  <2>3. IsFiniteSet(S) /\ Cardinality(S) \in Nat BY <2>2, JobsAre
  <2>4. Cardinality(S) <= PerOwner BY DEF WorkIsLimited
  <2> HIDE DEF S
  <2>5. Cardinality(S') <= Cardinality(S) /\ Cardinality(S') \in Nat
    BY <2>1, <2>3, FS_Subset, FS_CardinalityType
  <2>6. Cardinality(S') <= PerOwner BY <2>3, <2>4, <2>5, Limits
  <2> QED BY <2>6 DEF S
<1>6. ASSUME NEW i \in work', NEW j \in work',
             (jobs[i].owner = jobs[j].owner /\ jobs[i].key = jobs[j].key)'
      PROVE  i = j
  BY <1>1, <1>4, <1>6 DEF StartsNone, WorkIsLimited
<1>7. WorkIsLimited' BY <1>5, <1>6 DEF WorkIsLimited
<1> QED BY <1>2, <1>3, <1>7

LEMMA FinishedType ==
  ASSUME RegistryType, NEW c \in Callers,
         NEW status \in {"SUCCEEDED", "REJECTED", "FAILED"}, Finished(c, status)
  PROVE  /\ jobs' \in Seq(Job) /\ Len(jobs') = Len(jobs)
         /\ \A j \in DOMAIN jobs : jobs'[j].owner = jobs[j].owner /\ jobs'[j].key = jobs[j].key
         /\ \A j \in DOMAIN jobs \ {c} : jobs'[j] = jobs[j]
<1>1. CASE ~ IsJob(c) BY <1>1 DEF Finished, RegistryType
<1>2. CASE IsJob(c)
  <2>1. c \in DOMAIN jobs /\ jobs[c] \in Job /\ now \in 0..MaxTime
    BY <1>2, JobsAre DEF IsJob, RegistryType
  <2> DEFINE n == [jobs[c] EXCEPT !.status = status, !.finished = now]
  <2>2. jobs' = [jobs EXCEPT ![c] = n]
    BY <1>2 DEF Finished
  <2>3. n \in Job /\ n.owner = jobs[c].owner /\ n.key = jobs[c].key
    BY <2>1 DEF Job
  <2> HIDE DEF n
  <2> QED BY <2>1, <2>2, <2>3 DEF RegistryType
<1> QED BY <1>1, <1>2

Asks == Read \/ \E o \in Owners, k \in Keys : StartNothing(o, k)

LEMMA AsksKeep ==
  ASSUME IInv, Asks
  PROVE  IInv'
<1>1. PICK room \in {0, 1} : kept' \in Pruned(room)
  BY DEF Asks, Read, StartNothing
<1>2. kept' \subseteq kept /\ \A j \in kept : Running(j) => j \in kept'
  BY <1>1, PruneSpares DEF IInv
<1>3. UNCHANGED <<jobs, now, at, holder, inflight>>
  BY DEF Asks, Read, StartNothing, slot
<1>4. StartsNone BY <1>2, <1>3 DEF StartsNone, IInv, RegistryType
<1> QED BY <1>3, <1>4, StartsNoneKeeps DEF IInv, OneHolder

(* A step of a caller, and what it does to the slot.                       *)
LEMMA CallersKeep ==
  ASSUME IInv, NEW c \in Callers,
         Arrive(c) \/ CancelInline(c) \/ Queue(c) \/ Progress(c)
  PROVE  IInv'
<1>1. RegistryType /\ OneHolder BY DEF IInv
<1>2. CASE Arrive(c) \/ CancelInline(c) \/ Begin(c) \/ Queue(c) \/ Return(c) \/ NeverRuns(c)
  <2>1. /\ UNCHANGED <<jobs, kept, now>> /\ holder' = holder /\ inflight' \subseteq inflight
        /\ \/ at' = at \/ at' = [at EXCEPT ![c] = "done"]
           \/ at[c] # "done" /\ \E p \in {"working", "waiting"} : at' = [at EXCEPT ![c] = p]
    BY <1>2 DEF Arrive, CancelInline, Begin, Queue, Return, NeverRuns, Done, registry, slot
  <2>2. at' \in [Callers -> Places] BY <1>1, <2>1 DEF RegistryType, Places
  <2>3. \A j \in DOMAIN jobs : at'[j] # "done" => at[j] # "done"
    BY <1>1, <2>1, JobsAre DEF RegistryType
  <2>4. StartsNone BY <1>1, <2>1, <2>2, <2>3 DEF StartsNone, RegistryType
  <2>5. OneHolder' BY <1>1, <2>1 DEF OneHolder
  <2> QED BY <2>4, <2>5, StartsNoneKeeps DEF IInv
<1>3. CASE Call(c)
  <2>1. /\ UNCHANGED <<jobs, kept, now>> /\ holder' = {c} /\ inflight' \subseteq {c}
        /\ at[c] # "done" /\ at' = [at EXCEPT ![c] = "calling"]
    BY <1>1, <1>3 DEF Call, SlotFree, OneHolder, registry
  <2>2. at' \in [Callers -> Places] BY <1>1, <2>1 DEF RegistryType, Places
  <2>3. \A j \in DOMAIN jobs : at'[j] # "done" => at[j] # "done"
    BY <1>1, <2>1, JobsAre DEF RegistryType
  <2>4. StartsNone BY <1>1, <2>1, <2>2, <2>3 DEF StartsNone, RegistryType
  <2>5. OneHolder' BY <2>1 DEF OneHolder, Call
  <2> QED BY <2>4, <2>5, StartsNoneKeeps DEF IInv
<1>4. CASE EndCancelled(c) \/ \E status \in Outcomes : End(c, status)
  <2>1. PICK status \in {"SUCCEEDED", "REJECTED", "FAILED"} : Finished(c, status)
    BY <1>4, Limits DEF EndCancelled, End
  <2>2. at' = [at EXCEPT ![c] = "done"] /\ UNCHANGED <<kept, now, holder, inflight>>
    BY <1>4 DEF EndCancelled, End, Done, slot
  <2>3. StartsNone
    <3>1. /\ jobs' \in Seq(Job) /\ Len(jobs') = Len(jobs)
          /\ \A j \in DOMAIN jobs : jobs'[j].owner = jobs[j].owner /\ jobs'[j].key = jobs[j].key
          /\ \A j \in DOMAIN jobs \ {c} : jobs'[j] = jobs[j]
      BY <1>1, <2>1, FinishedType
    <3>2. /\ at' \in [Callers -> Places] /\ at'[c] = "done"
          /\ \A j \in DOMAIN jobs \ {c} : at'[j] = at[j]
      BY <1>1, <2>2, JobsAre DEF RegistryType, Places
    <3> QED BY <1>1, <2>2, <3>1, <3>2 DEF StartsNone, RegistryType
  <2>4. OneHolder' BY <1>1, <2>2 DEF OneHolder
  <2> QED BY <2>3, <2>4, StartsNoneKeeps DEF IInv
<1>5. CASE Resume(c)
  <2>1. /\ UNCHANGED <<kept, now, inflight>> /\ holder' = holder \ {c} /\ c \notin inflight
        /\ at[c] = "calling"
    BY <1>5 DEF Resume, Leave, CallOver
  <2>2. StartsNone
    <3>1. CASE c \in cancelled
      <4>1. Finished(c, "FAILED") /\ at' = [at EXCEPT ![c] = "done"]
        BY <1>5, <3>1 DEF Resume, Done
      <4>2. /\ jobs' \in Seq(Job) /\ Len(jobs') = Len(jobs)
            /\ \A j \in DOMAIN jobs : jobs'[j].owner = jobs[j].owner /\ jobs'[j].key = jobs[j].key
            /\ \A j \in DOMAIN jobs \ {c} : jobs'[j] = jobs[j]
        BY <1>1, <4>1, FinishedType
      <4>3. /\ at' \in [Callers -> Places] /\ at'[c] = "done"
            /\ \A j \in DOMAIN jobs \ {c} : at'[j] = at[j]
        BY <1>1, <4>1, JobsAre DEF RegistryType, Places
      <4> QED BY <1>1, <2>1, <4>2, <4>3 DEF StartsNone, RegistryType
    <3>2. CASE c \notin cancelled
      <4>1. UNCHANGED jobs /\ at' = [at EXCEPT ![c] = "working"]
        BY <1>5, <3>2 DEF Resume
      <4>2. /\ at' \in [Callers -> Places]
            /\ \A j \in DOMAIN jobs : at'[j] # "done" => at[j] # "done"
        BY <1>1, <2>1, <4>1, JobsAre DEF RegistryType, Places
      <4> QED BY <1>1, <2>1, <4>1, <4>2 DEF StartsNone, RegistryType
    <3> QED BY <3>1, <3>2
  <2>3. OneHolder' BY <1>1, <2>1 DEF OneHolder
  <2> QED BY <2>2, <2>3, StartsNoneKeeps DEF IInv
<1> QED BY <1>2, <1>3, <1>4, <1>5 DEF Progress

LEMMA ClockKeeps ==
  ASSUME IInv, Close \/ Tick \/ UNCHANGED vars
  PROVE  IInv'
<1>1. /\ UNCHANGED <<jobs, kept, at, holder, inflight>>
      /\ now' = now \/ (now < MaxTime /\ now' = now + 1)
  BY DEF Close, Tick, vars, slot, registry
<1>2. RegistryType BY DEF IInv
<1>3. now' \in 0..MaxTime BY <1>1, <1>2, Limits DEF RegistryType
<1>4. StartsNone BY <1>1, <1>2, <1>3 DEF StartsNone, RegistryType
<1> QED BY <1>1, <1>4, StartsNoneKeeps DEF IInv, OneHolder

-----------------------------------------------------------------------------
(* A start.                                                                *)

LEMMA StartKeeps ==
  ASSUME IInv, NEW o \in Owners, NEW k \in Keys, Start(o, k)
  PROVE  IInv'
<1> DEFINE n == Len(jobs) + 1
           job == [owner |-> o, key |-> k, finished |-> 0, status |-> "RUNNING"]
           work == {j \in DOMAIN jobs : at[j] # "done"}
<1>1. RegistryType /\ WorkIsKept /\ WorkIsLimited /\ OneHolder BY DEF IInv
<1>2. /\ Len(jobs) < MaxJobs /\ jobs' = Append(jobs, job) /\ at' = [at EXCEPT ![n] = "new"]
      /\ UNCHANGED <<now, holder, inflight>>
  BY DEF Start, slot
<1>3. PICK K \in Pruned(1) : /\ ~ AlreadyRuns(K, o, k) /\ ~ TooMany(K, o)
                             /\ kept' = K \union {n}
  BY DEF Start
<1>4. K \subseteq kept /\ \A j \in kept : Running(j) => j \in K
  BY <1>1, PruneSpares
<1>5. /\ Len(jobs) \in Nat /\ DOMAIN jobs = 1..Len(jobs) /\ n \in Callers /\ n \notin DOMAIN jobs
      /\ DOMAIN jobs \subseteq Callers
  BY <1>1, <1>2, JobsAre, Limits DEF Callers
<1>6. /\ job \in Job /\ job.owner = o /\ job.key = k /\ job.status = "RUNNING"
  BY Limits DEF Job
<1> HIDE DEF job
<1>7. /\ jobs' \in Seq(Job) /\ Len(jobs') = n /\ DOMAIN jobs' = DOMAIN jobs \union {n}
      /\ jobs'[n] = job /\ \A j \in DOMAIN jobs : jobs'[j] = jobs[j]
  BY <1>1, <1>2, <1>5, <1>6 DEF RegistryType
<1>8. /\ at' \in [Callers -> Places] /\ at'[n] = "new"
      /\ \A j \in DOMAIN jobs : at'[j] = at[j]
  BY <1>1, <1>2, <1>5 DEF RegistryType, Places
<1>9. RegistryType'
  <2>1. kept' \subseteq DOMAIN jobs' BY <1>1, <1>3, <1>4, <1>7 DEF RegistryType
  <2>2. n <= MaxJobs BY <1>2, <1>5, Limits
  <2>3. now' \in 0..MaxTime BY <1>1, <1>2 DEF RegistryType
  <2> QED BY <1>7, <1>8, <2>1, <2>2, <2>3 DEF RegistryType
<1> HIDE DEF n
<1>10. work' = work \union {n}
  BY <1>5, <1>7, <1>8
<1>11. \A j \in work : j \in K /\ Running(j)
  BY <1>1, <1>4 DEF WorkIsKept
<1>12. WorkIsKept'
  BY <1>3, <1>6, <1>7, <1>8, <1>11 DEF WorkIsKept, Running
<1>13. ASSUME NEW p \in Owners
       PROVE  Cardinality({j \in work : jobs[j].owner = p})' <= PerOwner
  <2> DEFINE S == {j \in work : jobs[j].owner = p}
             T == {j \in K : Running(j) /\ jobs[j].owner = o}
  <2>1. S \in SUBSET DOMAIN jobs /\ T \in SUBSET DOMAIN jobs
    BY <1>1, <1>4 DEF RegistryType
  <2>2. IsFiniteSet(S) /\ Cardinality(S) \in Nat /\ IsFiniteSet(T) /\ Cardinality(T) \in Nat
    BY <1>1, <2>1, JobsAre
  <2>3. Cardinality(S) <= PerOwner BY <1>1 DEF WorkIsLimited
  <2>4. CASE p # o
    <3>1. S' = S BY <1>6, <1>7, <1>10, <2>4
    <3> QED BY <2>3, <3>1
  <2>5. CASE p = o
    <3>1. S' = S \union {n} /\ n \notin S BY <1>5, <1>6, <1>7, <1>10, <2>5
    <3>2. S \subseteq T BY <1>11, <2>5
    <3>3. ~ (Cardinality(T) >= PerOwner) BY <1>3 DEF TooMany
    <3> HIDE DEF S, T
    <3>4. Cardinality(S) <= Cardinality(T) BY <2>2, <3>2, FS_Subset
    <3>5. Cardinality(S') = Cardinality(S) + 1 BY <2>2, <3>1, FS_AddElement
    <3>6. Cardinality(S') <= PerOwner BY <2>2, <3>3, <3>4, <3>5, Limits
    <3> QED BY <3>6 DEF S
  <2> QED BY <2>4, <2>5
<1>14. ASSUME NEW i \in work', NEW j \in work',
              (jobs[i].owner = jobs[j].owner /\ jobs[i].key = jobs[j].key)'
       PROVE  i = j
  <2>1. \A l \in work : ~ (jobs[l].owner = o /\ jobs[l].key = k)
    BY <1>3, <1>11 DEF AlreadyRuns, Same
  <2>2. \A l \in work : jobs'[l] = jobs[l]
    BY <1>7
  <2>3. CASE i \in work /\ j \in work
    BY <1>1, <1>14, <2>2, <2>3 DEF WorkIsLimited
  <2>4. CASE i = n /\ j \in work
    BY <1>6, <1>7, <1>14, <2>1, <2>2, <2>4
  <2>5. CASE i \in work /\ j = n
    BY <1>6, <1>7, <1>14, <2>1, <2>2, <2>5
  <2> QED BY <1>10, <2>3, <2>4, <2>5
<1>15. WorkIsLimited' BY <1>13, <1>14 DEF WorkIsLimited
<1>16. OneHolder' BY <1>1, <1>2 DEF OneHolder
<1> QED BY <1>9, <1>12, <1>15, <1>16 DEF IInv

-----------------------------------------------------------------------------
(* The whole.                                                              *)

LEMMA InitInv == Init => IInv
<1> SUFFICES ASSUME Init PROVE IInv OBVIOUS
<1>1. jobs = <<>> /\ jobs \in Seq(Job) /\ Len(jobs) = 0 /\ DOMAIN jobs = {}
  BY DEF Init
<1>2. RegistryType BY <1>1, Limits DEF RegistryType, Init, Places
<1>3. WorkIsKept BY <1>1 DEF WorkIsKept
<1>4. WorkIsLimited
  <2>1. \A o \in Owners : {j \in {i \in DOMAIN jobs : at[i] # "done"} : jobs[j].owner = o} = {}
    BY <1>1
  <2> QED BY <1>1, <2>1, FS_EmptySet, Limits DEF WorkIsLimited
<1>5. OneHolder BY DEF Init, OneHolder
<1> QED BY <1>2, <1>3, <1>4, <1>5 DEF IInv

LEMMA NextInv == IInv /\ [Next]_vars => IInv'
<1> SUFFICES ASSUME IInv, [Next]_vars PROVE IInv' OBVIOUS
<1>1. CASE Asks BY <1>1, AsksKeep
<1>2. CASE \E o \in Owners, k \in Keys : Start(o, k) BY <1>2, StartKeeps
<1>3. CASE Close \/ Tick \/ UNCHANGED vars BY <1>3, ClockKeeps
<1>4. CASE \E c \in Callers : Arrive(c) \/ CancelInline(c) \/ Queue(c) \/ Progress(c)
  BY <1>4, CallersKeep
<1> QED BY <1>1, <1>2, <1>3, <1>4 DEF Next, Asked, Asks

LEMMA Inductive == Spec => []IInv
BY InitInv, NextInv, PTL DEF Spec

-----------------------------------------------------------------------------
(* Theorems.                                                               *)

(* The registry keeps its types, and a job that can be read has been       *)
(* started, for any number of owners and callers and any limits.           *)
THEOREM TypeCorrect == Spec => []RegistryType
<1>1. IInv => RegistryType BY DEF IInv
<1> QED BY <1>1, Inductive, PTL

(* The model never works on two calls, however many callers queue and      *)
(* whichever of them are cancelled (SerializedGenerationPort).             *)
THEOREM OneAtATime == Spec => []OneCallAtATime
<1>1. ASSUME OneHolder PROVE OneCallAtATime
  <2>1. CASE inflight = {} BY <2>1, FS_EmptySet DEF OneCallAtATime
  <2>2. CASE \E c : inflight = {c}
    <3>1. PICK c : inflight = {c} BY <2>2
    <3>2. Cardinality({c}) = 1 BY FS_Singleton
    <3> QED BY <3>1, <3>2 DEF OneCallAtATime
  <2>3. inflight = {} \/ \E c : inflight = {c} BY <1>1 DEF OneHolder
  <2> QED BY <2>1, <2>2, <2>3
<1>2. IInv => OneCallAtATime BY <1>1 DEF IInv
<1> QED BY <1>2, Inductive, PTL

(* The limits of start hold of the tasks that are not over, whatever the   *)
(* registry has dropped to make room: it never drops a job that works.     *)
THEOREM LimitsHold == Spec => []WorkIsLimited
<1>1. IInv => WorkIsLimited BY DEF IInv
<1> QED BY <1>1, Inductive, PTL

(* Every step that drops an outcome before its retention is over leaves a  *)
(* full registry, where every other outcome is at least as recent.         *)
THEOREM OutcomesStay == Spec => OutcomesKept
<1> DEFINE Stay == \A j \in kept \ kept' :
       \/ Expired(j)
       \/ /\ ~ Running(j)
          /\ Cardinality(kept' \union {j}) >= Capacity
          /\ \A i \in kept \cap kept' : Running(i) \/ jobs[j].finished <= jobs[i].finished
<1>1. ASSUME IInv, Next
      PROVE  Stay
  <2>1. RegistryType BY <1>1 DEF IInv
  <2>2. CASE Asks
    <3>1. PICK room \in {0, 1} : kept' \in Pruned(room)
      BY <2>2 DEF Asks, Read, StartNothing
    <3> QED BY <2>1, <3>1, PruneSpares
  <2>3. ASSUME NEW o \in Owners, NEW k \in Keys, Start(o, k)
        PROVE  Stay
    <3>1. PICK K \in Pruned(1) : kept' = K \union {Len(jobs) + 1} BY <2>3 DEF Start
    <3>2. /\ K \subseteq kept
          /\ \A j \in kept \ K :
              \/ Expired(j)
              \/ /\ ~ Running(j)
                 /\ Cardinality(K \union {j}) >= Capacity
                 /\ \A i \in K : Running(i) \/ jobs[j].finished <= jobs[i].finished
      BY <2>1, <3>1, PruneSpares
    <3>3. Len(jobs) + 1 \notin kept BY <2>1, JobsAre DEF RegistryType
    <3>4. ASSUME NEW j \in kept \ kept'
          PROVE  Cardinality(K \union {j}) <= Cardinality(kept' \union {j})
                 /\ Cardinality(K \union {j}) \in Nat /\ Cardinality(kept' \union {j}) \in Nat
      <4>1. K \union {j} \in SUBSET DOMAIN jobs BY <2>1, <3>2 DEF RegistryType
      <4>2. IsFiniteSet(K \union {j}) BY <2>1, <4>1, JobsAre
      <4>3. kept' \union {j} = (K \union {j}) \union {Len(jobs) + 1} BY <3>1
      <4>4. IsFiniteSet(kept' \union {j}) BY <4>2, <4>3, FS_AddElement
      <4>5. K \union {j} \subseteq kept' \union {j} BY <4>3
      <4> QED BY <4>2, <4>4, <4>5, FS_Subset, FS_CardinalityType
    <3>5. kept \ kept' \subseteq kept \ K /\ kept \cap kept' \subseteq K BY <3>1, <3>3
    <3>6. ASSUME NEW j \in kept \ kept', ~ Expired(j)
          PROVE  /\ ~ Running(j)
                 /\ Cardinality(kept' \union {j}) >= Capacity
                 /\ \A i \in kept \cap kept' : Running(i) \/ jobs[j].finished <= jobs[i].finished
      <4>1. /\ ~ Running(j)
            /\ Cardinality(K \union {j}) >= Capacity
            /\ \A i \in K : Running(i) \/ jobs[j].finished <= jobs[i].finished
        BY <3>2, <3>5, <3>6
      <4> DEFINE m == Cardinality(K \union {j})
                 n == Cardinality(kept' \union {j})
      <4>2. m <= n /\ m \in Nat /\ n \in Nat BY <3>4
      <4>3. m >= Capacity BY <4>1
      <4> HIDE DEF m, n
      <4>4. n >= Capacity BY <4>2, <4>3, Limits
      <4> QED BY <3>5, <4>1, <4>4 DEF n
    <3> QED BY <3>6
  <2>4. CASE kept' = kept BY <2>4
  <2>5. CASE Close \/ Tick
             \/ \E c \in Callers : Arrive(c) \/ CancelInline(c) \/ Queue(c) \/ Progress(c)
    BY <2>4, <2>5 DEF Close, Tick, Arrive, CancelInline, Queue, Progress, Begin, NeverRuns,
                      EndCancelled, Call, Return, Resume, End, registry
  <2> QED BY <1>1, <2>2, <2>3, <2>5 DEF Next, Asked, Asks
<1>2. ASSUME IInv, [Next]_vars
      PROVE  [Stay]_vars
  BY <1>1, <1>2
<1> QED BY <1>2, Inductive, PTL DEF Spec, OutcomesKept

-----------------------------------------------------------------------------

(***************************************************************************)
(* The invariant of the code changes.                                      *)
(***************************************************************************)

TaskFindings == Findings \cup {NoFinding}

TaskSource == [origin: Nat, finding: TaskFindings]

Task == [origin: Nat, finding: TaskFindings, at: Nat, status: {"OPEN", "DONE", "DROPPED"}]

Review == [commit: Commits, at: Nat, findings: Seq(Findings)]

ChoosingPhases ==
  {"deciding", "asking", "read", "sourced", "decided", "closing", "writing", "filing"}

ToRecord == [phase: {"recording"}, commit: Commits, at: Nat]
ToReview == [phase: {"reviewing"}, commit: Commits]
ToSave   == [phase: {"reviewed"}, commit: Commits, at: Nat, findings: Seq(Findings)]
ToDecide == [phase: ChoosingPhases, commit: Commits, picks: Seq(Nat), shown: Nat,
             sources: Seq(TaskSource), at: Nat, known: SUBSET (Nat \X TaskFindings),
             closes: SUBSET Nat, kind: Kinds \cup {"CODE_TASKS"}, upto: Nat]

CodeRequest == {Idle} \cup ToRecord \cup ToReview \cup ToSave \cup ToDecide

CodeType ==
  /\ tasks \in Seq(Task) /\ runs \in Seq(Review) /\ clock \in Nat
  /\ project \in Requests \cup {Nobody}
  /\ rq \in [Requests -> CodeRequest]

(* No two reviews, stored or about to be, are of the same instant.         *)
ReviewsApart ==
  /\ \A k \in DOMAIN runs : runs[k].at <= clock
  /\ \A k, j \in DOMAIN runs : k # j => runs[k].at # runs[j].at
  /\ \A r \in Requests : rq[r].phase = "reviewed" =>
       /\ rq[r].at <= clock
       /\ \A k \in DOMAIN runs : runs[k].at # rq[r].at
       /\ \A o \in Requests \ {r} : rq[o].phase = "reviewed" => rq[o].at # rq[r].at

HasLatest ==
  \A c \in Commits : RunsOf(c) # {} =>
    \E k \in RunsOf(c) : \A o \in RunsOf(c) : runs[o].at <= runs[k].at

(* The positions were read as those of one review: the one on the screen,  *)
(* or a later one of the commit.                                           *)
OneReview(q) ==
  \/ \A i \in DOMAIN q.picks : q.picks[i] = 0
  \/ \E k \in RunsOf(q.commit) :
       /\ k = q.shown \/ runs[k].at > runs[q.shown].at
       /\ SourcedFrom(k, q)

(* What was on the screen is a review of the commit; where there was none  *)
(* no finding was picked; once there are sources, they are of one review.  *)
ChoiceOK(q) ==
  q \in ToDecide =>
    /\ q.shown = 0 \/ q.shown \in RunsOf(q.commit)
    /\ q.shown = 0 => \A i \in DOMAIN q.picks : q.picks[i] = 0
    /\ q.phase \notin {"deciding", "asking"} => OneReview(q)

(* What writes tasks holds the project, and knows every open finding.      *)
LockOK(r) == Writing(r) => project = r /\ OpenFindings \subseteq rq[r].known

CodeInv ==
  /\ CodeType /\ ReviewsApart /\ HasLatest
  /\ \A r \in Requests : ChoiceOK(rq[r]) /\ LockOK(r)
  /\ NoTaskBehindAligned

-----------------------------------------------------------------------------

(***************************************************************************)
(* The sources that make tasks, in order.                                  *)
(***************************************************************************)

LEMMA IncreasingIs ==
  ASSUME NEW n \in Nat, NEW S \in SUBSET (1..n)
  PROVE  /\ IsFiniteSet(S) /\ Cardinality(S) \in Nat
         /\ Increasing(S) \in [1..Cardinality(S) -> S]
         /\ \A i, j \in 1..Cardinality(S) : i < j => Increasing(S)[i] < Increasing(S)[j]
<1>1. IsFiniteSet(S) /\ Cardinality(S) \in Nat
  <2>1. IsFiniteSet(1..n)
    BY FS_Interval
  <2>2. IsFiniteSet(S)
    BY <2>1, FS_Subset
  <2> QED BY <2>2, FS_CardinalityType
<1> DEFINE upTo(i) == {j \in S : j <= i}
           c == Cardinality(S)
           rank == [i \in S |-> Cardinality(upTo(i))]
<1>2. \A i \in S : /\ upTo(i) \in SUBSET S /\ i \in upTo(i)
                   /\ IsFiniteSet(upTo(i)) /\ Cardinality(upTo(i)) \in 1..c
  <2> SUFFICES ASSUME NEW i \in S
               PROVE  /\ upTo(i) \in SUBSET S /\ i \in upTo(i)
                      /\ IsFiniteSet(upTo(i)) /\ Cardinality(upTo(i)) \in 1..c
    OBVIOUS
  <2>1. upTo(i) \in SUBSET S /\ i \in upTo(i) OBVIOUS
  <2> HIDE DEF upTo
  <2>2. IsFiniteSet(upTo(i)) /\ Cardinality(upTo(i)) <= c
    BY <1>1, <2>1, FS_Subset
  <2>3. Cardinality(upTo(i)) \in Nat /\ Cardinality(upTo(i)) # 0
    BY <2>1, <2>2, FS_CardinalityType, FS_EmptySet
  <2> QED BY <1>1, <2>1, <2>2, <2>3
<1>3. \A i, k \in S : i < k => rank[i] < rank[k]
  <2> SUFFICES ASSUME NEW i \in S, NEW k \in S, i < k PROVE rank[i] < rank[k]
    OBVIOUS
  <2>1. upTo(i) \in SUBSET upTo(k) /\ k \notin upTo(i) /\ k \in upTo(k)
    <3>1. \A j \in S : j \in Nat /\ (j <= i => j <= k)
      OBVIOUS
    <3>2. k <= k /\ ~(k <= i)
      OBVIOUS
    <3> QED BY <3>1, <3>2
  <2> HIDE DEF upTo
  <2>2. Cardinality(upTo(i)) <= Cardinality(upTo(k)) /\ Cardinality(upTo(i)) # Cardinality(upTo(k))
    BY <1>2, <2>1, FS_Subset
  <2>3. Cardinality(upTo(i)) \in Nat /\ Cardinality(upTo(k)) \in Nat
    BY <1>1, <1>2
  <2> QED BY <2>2, <2>3
<1>4. rank \in [S -> 1..c]
  BY <1>2
<1> HIDE DEF rank
<1>5. \A i, k \in S : rank[i] = rank[k] => i = k
  <2> SUFFICES ASSUME NEW i \in S, NEW k \in S, rank[i] = rank[k] PROVE i = k
    OBVIOUS
  <2>1. i \in Nat /\ k \in Nat /\ rank[i] \in Nat
    BY <1>1, <1>4
  <2> QED BY <1>3, <2>1
<1>6. rank \in Injection(S, 1..c)
  BY <1>4, <1>5 DEF Injection, IsInjective
<1>7. IsFiniteSet(1..c) /\ Cardinality(1..c) = c
  BY <1>1, FS_Interval
<1>8. rank \in Surjection(S, 1..c)
  BY <1>6, <1>7, FS_Injection
<1>9. \A k \in 1..c : \E i \in S : rank[i] = k
  BY <1>8 DEF Surjection
<1> DEFINE inOrder == [k \in 1..c |-> CHOOSE i \in S : rank[i] = k]
<1>10. inOrder \in [1..c -> S] /\ \A k \in 1..c : rank[inOrder[k]] = k
  BY <1>9
<1> HIDE DEF inOrder
<1>11. \A i, j \in 1..c : i < j => inOrder[i] < inOrder[j]
  <2> SUFFICES ASSUME NEW i \in 1..c, NEW j \in 1..c, i < j PROVE inOrder[i] < inOrder[j]
    OBVIOUS
  <2>1. PICK a \in S, b \in S : a = inOrder[i] /\ b = inOrder[j]
    BY <1>10
  <2>2. rank[a] = i /\ rank[b] = j /\ a \in Nat /\ b \in Nat
    BY <1>10, <2>1
  <2>3. ~(b < a) /\ a # b
    BY <1>3, <2>2
  <2> QED BY <2>1, <2>2, <2>3
<1>12. \E order \in [1..c -> S] : \A i, j \in DOMAIN order : i < j => order[i] < order[j]
  <2>1. \A i, j \in DOMAIN inOrder : i < j => inOrder[i] < inOrder[j]
    BY <1>10, <1>11
  <2> QED BY <1>10, <2>1
<1>13. /\ Increasing(S) \in [1..c -> S]
       /\ \A i, j \in DOMAIN Increasing(S) : i < j => Increasing(S)[i] < Increasing(S)[j]
  BY <1>12 DEF Increasing
<1> QED BY <1>1, <1>13

(* The new tasks are open, no two of them are of the same finding, and     *)
(* none is of a finding that was known to be open.                         *)
LEMMA NewTasksAre ==
  ASSUME NEW r \in Requests, rq[r] \in ToDecide
  PROVE  /\ NewTasks(r) \in Seq(Task)
         /\ \A k \in DOMAIN NewTasks(r) : NewTasks(r)[k].finding # NoFinding =>
              /\ <<NewTasks(r)[k].origin, NewTasks(r)[k].finding>> \notin rq[r].known
              /\ \A m \in DOMAIN NewTasks(r) : m # k =>
                   \/ NewTasks(r)[m].origin # NewTasks(r)[k].origin
                   \/ NewTasks(r)[m].finding # NewTasks(r)[k].finding
<1> DEFINE new == NewTasks(r)
           fresh == Fresh(r)
           order == Increasing(fresh)
           c == Cardinality(fresh)
<1>1. PICK sources \in Seq(TaskSource), dated \in Nat, known \in SUBSET (Nat \X TaskFindings) :
        sources = rq[r].sources /\ known = rq[r].known /\ dated = rq[r].at
  <2>1. /\ rq[r].sources \in Seq(TaskSource) /\ rq[r].at \in Nat
        /\ rq[r].known \in SUBSET (Nat \X TaskFindings)
    BY DEF ToDecide
  <2> QED BY <2>1
<1>2. Len(sources) \in Nat /\ DOMAIN sources = 1..Len(sources)
      /\ \A i \in 1..Len(sources) : sources[i] \in TaskSource
  BY <1>1
<1>3. fresh = {i \in 1..Len(sources) :
                 sources[i].finding # NoFinding =>
                   /\ <<sources[i].origin, sources[i].finding>> \notin known
                   /\ \A j \in 1..(i - 1) : sources[j] # sources[i]}
  BY <1>1, <1>2 DEF Fresh
<1> HIDE DEF fresh
<1>4. fresh \in SUBSET (1..Len(sources))
  BY <1>3
<1>5. /\ c \in Nat /\ order \in [1..c -> fresh]
      /\ \A i, j \in 1..c : i < j => order[i] < order[j]
  BY <1>2, <1>4, IncreasingIs
<1>6. new = [k \in DOMAIN order |->
               [origin |-> sources[order[k]].origin, finding |-> sources[order[k]].finding,
                at |-> dated, status |-> "OPEN"]]
  BY <1>1 DEF NewTasks, fresh
<1> HIDE DEF order, c, new
<1>7. DOMAIN order = 1..c /\ \A k \in 1..c : order[k] \in 1..Len(sources)
  BY <1>4, <1>5
<1>8. /\ DOMAIN new = 1..c
      /\ \A k \in 1..c : new[k] = [origin |-> sources[order[k]].origin,
                                   finding |-> sources[order[k]].finding,
                                   at |-> dated, status |-> "OPEN"]
  BY <1>6, <1>7
<1>9. \A k \in 1..c : /\ new[k] \in Task
                      /\ new[k].origin = sources[order[k]].origin
                      /\ new[k].finding = sources[order[k]].finding
  <2> SUFFICES ASSUME NEW k \in 1..c
               PROVE  /\ new[k] \in Task
                      /\ new[k].origin = sources[order[k]].origin
                      /\ new[k].finding = sources[order[k]].finding
    OBVIOUS
  <2>1. PICK source \in TaskSource : source = sources[order[k]]
    BY <1>2, <1>7
  <2>2. new[k] = [origin |-> source.origin, finding |-> source.finding, at |-> dated,
                  status |-> "OPEN"]
    BY <1>8, <2>1
  <2> QED BY <1>1, <2>1, <2>2 DEF TaskSource, Task
<1>10. new \in Seq(Task)
  <2>1. new \in [1..c -> Task]
    BY <1>6, <1>7, <1>9
  <2> QED BY <1>5, <2>1
<1>11. ASSUME NEW k \in 1..c, new[k].finding # NoFinding
       PROVE  <<new[k].origin, new[k].finding>> \notin known
  BY <1>3, <1>5, <1>9, <1>11
<1>12. ASSUME NEW k \in 1..c, NEW m \in 1..c, m < k, new[k].finding # NoFinding,
              new[m].origin = new[k].origin, new[m].finding = new[k].finding
       PROVE  FALSE
  <2>1. PICK i \in fresh, j \in fresh : i = order[k] /\ j = order[m]
    BY <1>5
  <2>2. j < i /\ i \in 1..Len(sources) /\ j \in 1..Len(sources)
    BY <1>4, <1>5, <1>12, <2>1
  <2>3. j \in 1..(i - 1)
    BY <2>2
  <2>4. sources[j] # sources[i]
    <3>1. sources[i].finding # NoFinding
      BY <1>9, <1>12, <2>1
    <3> QED BY <1>3, <2>1, <2>3, <3>1
  <2>5. sources[j].origin = sources[i].origin /\ sources[j].finding = sources[i].finding
    BY <1>9, <1>12, <2>1
  <2>6. sources[j] \in TaskSource /\ sources[i] \in TaskSource
    BY <1>2, <2>2
  <2>7. ASSUME NEW x \in TaskSource, NEW y \in TaskSource,
               x.origin = y.origin, x.finding = y.finding
        PROVE  x = y
    BY <2>7 DEF TaskSource
  <2> QED BY <2>4, <2>5, <2>6, <2>7
<1>13. ASSUME NEW k \in 1..c, NEW m \in 1..c, m # k, new[k].finding # NoFinding
       PROVE  new[m].origin # new[k].origin \/ new[m].finding # new[k].finding
  <2>1. m < k \/ k < m
    BY <1>5, <1>13
  <2> QED BY <1>12, <1>13, <2>1
<1> QED BY <1>1, <1>8, <1>10, <1>11, <1>13 DEF new

-----------------------------------------------------------------------------

(***************************************************************************)
(* What the steps of a request have in common.                             *)
(***************************************************************************)

LEMMA SequenceFacts ==
  ASSUME NEW S, NEW s \in Seq(S)
  PROVE  /\ Len(s) \in Nat /\ DOMAIN s = 1..Len(s) /\ \A k \in DOMAIN s : s[k] \in S
OBVIOUS

LEMMA RequestKinds ==
  ASSUME NEW q \in CodeRequest
  PROVE  /\ q.phase = "idle" => q = Idle
         /\ q.phase = "recording" => q \in ToRecord
         /\ q.phase = "reviewing" => q \in ToReview
         /\ q.phase = "reviewed" => q \in ToSave
         /\ q.phase \in ChoosingPhases <=> q \in ToDecide
BY DEF CodeRequest, Idle, ToRecord, ToReview, ToSave, ToDecide, ChoosingPhases

(* One request moves on.                                                   *)
Moves(r, q) == rq' = [rq EXCEPT ![r] = q]

LEMMA MovesFacts ==
  ASSUME CodeType, NEW r \in Requests, NEW q \in CodeRequest, Moves(r, q)
  PROVE  /\ rq' \in [Requests -> CodeRequest] /\ rq'[r] = q
         /\ \A o \in Requests \ {r} : rq'[o] = rq[o]
BY DEF CodeType, Moves

(* Reviews stay apart while none is stored.                                *)
LEMMA ReviewsKeep ==
  ASSUME CodeInv, NEW r \in Requests, NEW q \in CodeRequest, Moves(r, q),
         UNCHANGED runs, clock' \in Nat, clock' >= clock,
         q.phase = "reviewed" => q.at > clock /\ q.at <= clock'
  PROVE  ReviewsApart' /\ HasLatest'
<1>1. rq'[r] = q /\ \A o \in Requests \ {r} : rq'[o] = rq[o]
  BY MovesFacts DEF CodeInv
<1>2. /\ runs \in Seq(Review) /\ clock \in Nat /\ rq \in [Requests -> CodeRequest]
      /\ ReviewsApart /\ HasLatest
  BY DEF CodeInv, CodeType
<1>3. \A k \in DOMAIN runs : runs[k].at \in Nat
  <2>1. \A k \in DOMAIN runs : runs[k] \in Review
    BY <1>2, SequenceFacts
  <2> QED BY <2>1 DEF Review
<1>4. \A o \in Requests : rq[o].phase = "reviewed" => rq[o].at \in Nat
  BY <1>2, RequestKinds DEF ToSave
<1>5. q.phase = "reviewed" => q.at \in Nat
  BY RequestKinds DEF ToSave
<1>6. HasLatest'
  BY <1>2 DEF HasLatest, RunsOf
<1>7. /\ \A k \in DOMAIN runs' : runs'[k].at <= clock'
      /\ \A k, j \in DOMAIN runs' : k # j => runs'[k].at # runs'[j].at
  BY <1>2, <1>3 DEF ReviewsApart
<1>8. ASSUME NEW o \in Requests, rq'[o].phase = "reviewed"
      PROVE  /\ rq'[o].at <= clock' /\ \A k \in DOMAIN runs' : runs'[k].at # rq'[o].at
             /\ \A u \in Requests \ {o} : rq'[u].phase = "reviewed" => rq'[u].at # rq'[o].at
  <2>1. CASE o = r
    <3>1. \A k \in DOMAIN runs : runs[k].at <= clock
      BY <1>2 DEF ReviewsApart
    <3>2. \A u \in Requests \ {r} : rq[u].phase = "reviewed" => rq[u].at <= clock
      BY <1>2 DEF ReviewsApart
    <3> QED BY <1>1, <1>2, <1>3, <1>4, <1>5, <1>8, <2>1, <3>1, <3>2
  <2>2. CASE o # r
    <3>1. /\ rq[o].at <= clock /\ \A k \in DOMAIN runs : runs[k].at # rq[o].at
          /\ \A u \in Requests \ {o} : rq[u].phase = "reviewed" => rq[u].at # rq[o].at
      BY <1>1, <1>2, <1>8, <2>2 DEF ReviewsApart
    <3> QED BY <1>1, <1>2, <1>3, <1>4, <1>5, <1>8, <2>2, <3>1
  <2> QED BY <2>1, <2>2
<1>9. ReviewsApart'
  BY <1>7, <1>8 DEF ReviewsApart
<1> QED BY <1>6, <1>9

(* What was picked stays what was picked.                                  *)
LEMMA ChoicesKeep ==
  ASSUME CodeInv, NEW r \in Requests, NEW q \in CodeRequest, Moves(r, q), UNCHANGED runs,
         ChoiceOK(q)
  PROVE  \A o \in Requests : ChoiceOK(rq[o])'
<1>1. rq'[r] = q /\ \A o \in Requests \ {r} : rq'[o] = rq[o]
  BY MovesFacts DEF CodeInv
<1> SUFFICES ASSUME NEW o \in Requests PROVE ChoiceOK(rq[o])'
  OBVIOUS
<1>2. PICK p : p = rq'[o]
  OBVIOUS
<1>3. ChoiceOK(p)
  BY <1>1, <1>2 DEF CodeInv
<1>4. \A c : RunsOf(c)' = RunsOf(c)
  BY DEF RunsOf
<1>5. OneReview(p)' <=> OneReview(p)
  BY <1>2, <1>4 DEF OneReview, SourcedFrom
<1> QED BY <1>2, <1>3, <1>4, <1>5 DEF ChoiceOK

(* The project goes from a request only to nobody, and from nobody.        *)
ProjectMoves(r) ==
  \/ UNCHANGED project
  \/ project = r /\ project' = Nobody
  \/ project = Nobody /\ project' = r

LEMMA LocksKeep ==
  ASSUME CodeInv, NEW r \in Requests, NEW q \in CodeRequest, Moves(r, q),
         OpenFindings' \subseteq OpenFindings, ProjectMoves(r),
         q.phase \in {"writing", "filing"} => project' = r /\ OpenFindings \subseteq q.known
  PROVE  \A o \in Requests : LockOK(o)'
<1>1. rq'[r] = q /\ \A o \in Requests \ {r} : rq'[o] = rq[o]
  BY MovesFacts DEF CodeInv
<1>2. \A o \in Requests : LockOK(o) /\ o # Nobody
  BY CodeChangesAssumption DEF CodeInv
<1>3. ASSUME NEW o \in Requests, Writing(o)'
      PROVE  project' = o /\ OpenFindings' \subseteq rq'[o].known
  <2>1. CASE o = r
    BY <1>1, <1>3, <2>1 DEF Writing
  <2>2. CASE o # r
    <3>1. Writing(o) /\ rq'[o] = rq[o]
      BY <1>1, <1>3, <2>2 DEF Writing
    <3>2. project = o /\ OpenFindings \subseteq rq[o].known
      BY <1>2, <3>1 DEF LockOK
    <3> QED BY <1>2, <2>2, <3>1, <3>2 DEF ProjectMoves
  <2> QED BY <2>1, <2>2
<1> QED BY <1>3 DEF LockOK

LEMMA SameTasks ==
  ASSUME UNCHANGED tasks
  PROVE  OpenFindings' = OpenFindings
BY DEF OpenFindings

(* The tasks there are keep their commits, and one that starts to close    *)
(* sees all of them.                                                       *)
LEMMA ClosingKeeps ==
  ASSUME CodeInv, NEW r \in Requests, NEW q \in CodeRequest, Moves(r, q),
         DOMAIN tasks' = DOMAIN tasks, \A n \in DOMAIN tasks : tasks'[n].origin = tasks[n].origin,
         q.phase = "closing" => q.upto = Len(tasks)
  PROVE  NoTaskBehindAligned'
<1>1. rq'[r] = q /\ \A o \in Requests \ {r} : rq'[o] = rq[o]
  BY MovesFacts DEF CodeInv
<1>2. Len(tasks) \in Nat /\ DOMAIN tasks = 1..Len(tasks) /\ NoTaskBehindAligned
  BY SequenceFacts DEF CodeInv, CodeType
<1> SUFFICES ASSUME NEW o \in Requests, rq'[o].phase = "closing",
                    NEW n \in DOMAIN tasks', tasks'[n].origin = rq'[o].commit
             PROVE  n <= rq'[o].upto
  BY DEF NoTaskBehindAligned
<1>3. CASE o = r BY <1>1, <1>2, <1>3
<1>4. CASE o # r BY <1>1, <1>2, <1>4 DEF NoTaskBehindAligned
<1> QED BY <1>3, <1>4

(* A step that stores no review, adds no task and opens none.              *)
LEMMA QuietStep ==
  ASSUME CodeInv, NEW r \in Requests, NEW q \in CodeRequest, Moves(r, q),
         UNCHANGED runs, clock' \in Nat, clock' >= clock, ProjectMoves(r),
         tasks' \in Seq(Task), DOMAIN tasks' = DOMAIN tasks,
         \A n \in DOMAIN tasks : tasks'[n].origin = tasks[n].origin,
         OpenFindings' \subseteq OpenFindings,
         q.phase = "reviewed" => q.at > clock /\ q.at <= clock',
         q.phase \in {"writing", "filing"} => project' = r /\ OpenFindings \subseteq q.known,
         q.phase = "closing" => q.upto = Len(tasks),
         ChoiceOK(q)
  PROVE  CodeInv'
<1>1. CodeType'
  BY MovesFacts DEF CodeInv, CodeType, ProjectMoves
<1>2. ReviewsApart' /\ HasLatest'
  BY ReviewsKeep
<1>3. \A o \in Requests : ChoiceOK(rq[o])' /\ LockOK(o)'
  BY ChoicesKeep, LocksKeep
<1>4. NoTaskBehindAligned'
  BY ClosingKeeps
<1> QED BY <1>1, <1>2, <1>3, <1>4 DEF CodeInv

LEMMA SameTasksQuiet ==
  ASSUME CodeInv, UNCHANGED tasks
  PROVE  /\ tasks' \in Seq(Task) /\ DOMAIN tasks' = DOMAIN tasks
         /\ \A n \in DOMAIN tasks : tasks'[n].origin = tasks[n].origin
         /\ OpenFindings' \subseteq OpenFindings
BY SameTasks DEF CodeInv, CodeType

(* A request that holds nothing and has picked nothing yet.                *)
LEMMA PlainStep ==
  ASSUME CodeInv, NEW r \in Requests, NEW q \in {Idle} \cup ToRecord \cup ToReview \cup ToSave,
         Moves(r, q), UNCHANGED <<runs, tasks>>, clock' \in Nat, clock' >= clock,
         ProjectMoves(r), q.phase = "reviewed" => q.at > clock /\ q.at <= clock'
  PROVE  CodeInv'
<1>1. q \in CodeRequest /\ q.phase \in {"idle", "recording", "reviewing", "reviewed"}
  BY DEF CodeRequest, Idle, ToRecord, ToReview, ToSave
<1>2. q \notin ToDecide
  BY <1>1 DEF ToDecide, ChoosingPhases
<1>3. ChoiceOK(q)
  BY <1>2 DEF ChoiceOK
<1> QED BY <1>1, <1>3, SameTasksQuiet, QuietStep

LEMMA FinishMoves ==
  ASSUME CodeInv, NEW r \in Requests, Finish(r)
  PROVE  Moves(r, Idle) /\ ProjectMoves(r) /\ clock' \in Nat /\ clock' >= clock
<1>1. clock \in Nat
  BY DEF CodeInv, CodeType
<1> QED BY <1>1 DEF Finish, Moves, ProjectMoves

LEMMA FinishKeeps ==
  ASSUME CodeInv, NEW r \in Requests, Finish(r), UNCHANGED <<runs, tasks>>
  PROVE  CodeInv'
<1>1. Idle \in {Idle} \cup ToRecord \cup ToReview \cup ToSave /\ Idle.phase = "idle"
  BY DEF Idle
<1> QED BY <1>1, FinishMoves, PlainStep

LEMMA PickedSteps ==
  ASSUME CodeInv, NEW r \in Requests, NEW q \in ToDecide, Moves(r, q),
         UNCHANGED <<runs, tasks>>, clock' \in Nat, clock' >= clock, ProjectMoves(r),
         q.phase \in {"writing", "filing"} => project' = r /\ OpenFindings \subseteq q.known,
         q.phase = "closing" => q.upto = Len(tasks),
         ChoiceOK(q)
  PROVE  CodeInv'
<1>1. q \in CodeRequest /\ q.phase # "reviewed"
  BY DEF CodeRequest, ToDecide, ChoosingPhases
<1> QED BY <1>1, SameTasksQuiet, QuietStep

-----------------------------------------------------------------------------

(***************************************************************************)
(* The reviews.                                                            *)
(***************************************************************************)

LEMMA LatestIsOfTheCommit ==
  ASSUME CodeInv, NEW c \in Commits
  PROVE  /\ LatestRun(c) \in Nat
         /\ \/ RunsOf(c) = {} /\ LatestRun(c) = 0
            \/ /\ LatestRun(c) \in RunsOf(c)
               /\ \A o \in RunsOf(c) : runs[o].at <= runs[LatestRun(c)].at
<1>1. CASE RunsOf(c) = {} BY <1>1 DEF LatestRun
<1>2. CASE RunsOf(c) # {}
  <2>1. \E k \in RunsOf(c) : \A o \in RunsOf(c) : runs[o].at <= runs[k].at
    BY <1>2 DEF CodeInv, HasLatest
  <2>2. /\ LatestRun(c) \in RunsOf(c)
        /\ \A o \in RunsOf(c) : runs[o].at <= runs[LatestRun(c)].at
    BY <1>2, <2>1 DEF LatestRun
  <2>3. RunsOf(c) \subseteq Nat
    <3>1. DOMAIN runs \subseteq Nat
      BY SequenceFacts DEF CodeInv, CodeType
    <3> QED BY <3>1 DEF RunsOf
  <2> QED BY <2>2, <2>3
<1> QED BY <1>1, <1>2

LEMMA FindingsType ==
  ASSUME CodeInv, NEW c \in Commits, NEW k, k = 0 \/ k \in RunsOf(c)
  PROVE  /\ FindingsOf(k) \in Seq(Findings)
         /\ k = 0 => Len(FindingsOf(k)) = 0
<1>1. CASE k = 0 BY <1>1 DEF FindingsOf
<1>2. CASE k # 0
  <2>1. k \in DOMAIN runs
    BY <1>2 DEF RunsOf
  <2>2. runs[k] \in Review
    BY <2>1, SequenceFacts DEF CodeInv, CodeType
  <2> QED BY <1>2, <2>2 DEF FindingsOf, Review
<1> QED BY <1>1, <1>2

LEMMA OpenRequests ==
  ASSUME CodeInv, NEW r \in Requests, Open(r)
  PROVE  CodeInv'
<1>1. clock \in Nat /\ clock + 1 \in Nat /\ clock + 1 > clock /\ clock >= clock
  BY DEF CodeInv, CodeType
<1> SUFFICES ASSUME NEW c \in Commits,
                    \/ BeginRecord(r, c)
                    \/ \E again \in BOOLEAN : BeginReview(r, c, again)
                    \/ \E kind \in Kinds : BeginDecide(r, c, kind)
                    \/ BeginTasks(r, c)
             PROVE  CodeInv'
  BY DEF Open
<1>2. CASE BeginRecord(r, c)
  <2>1. PICK q : q = [phase |-> "recording", commit |-> c, at |-> clock + 1]
    OBVIOUS
  <2>2. /\ clock' = clock + 1 /\ UNCHANGED <<runs, tasks>> /\ ProjectMoves(r) /\ Moves(r, q)
    BY <1>2, <2>1 DEF BeginRecord, BeginRequest, ProjectMoves, Moves
  <2>3. q \in ToRecord /\ q.phase = "recording"
    BY <1>1, <2>1 DEF ToRecord
  <2> QED BY <1>1, <2>2, <2>3, PlainStep
<1>3. CASE \E again \in BOOLEAN : BeginReview(r, c, again)
  <2>1. PICK q : q = [phase |-> "reviewing", commit |-> c]
    OBVIOUS
  <2>2. /\ clock' = clock /\ UNCHANGED <<runs, tasks>> /\ ProjectMoves(r) /\ Moves(r, q)
    BY <1>3, <2>1 DEF BeginReview, BeginRequest, ProjectMoves, Moves
  <2>3. q \in ToReview /\ q.phase = "reviewing"
    BY <2>1 DEF ToReview
  <2> QED BY <1>1, <2>2, <2>3, PlainStep
<1>4. PICK shown \in Nat : shown = LatestRun(c) /\ (shown = 0 \/ shown \in RunsOf(c))
  BY LatestIsOfTheCommit
<1>5. /\ FindingsOf(shown) \in Seq(Findings)
      /\ shown = 0 => Len(FindingsOf(shown)) = 0
  BY <1>4, FindingsType
<1>6. ASSUME NEW picks, picks \in Picks(shown) \/ picks = <<>>
      PROVE  picks \in Seq(Nat) /\ (shown = 0 => \A i \in DOMAIN picks : picks[i] = 0)
  <2>1. Len(FindingsOf(shown)) \in Nat
    BY <1>5
  <2>2. CASE picks = <<>> BY <2>2
  <2>3. CASE picks \in Picks(shown)
    <3>1. PICK n \in 1..MaxPicks : picks \in [1..n -> 0..Len(FindingsOf(shown))]
      BY <2>3 DEF Picks
    <3>2. n \in Nat
      BY CodeChangesAssumption
    <3>3. \A i \in 1..n : picks[i] \in Nat /\ (shown = 0 => picks[i] = 0)
      BY <1>5, <2>1, <3>1
    <3>4. picks \in [1..n -> Nat]
      BY <3>1, <3>3
    <3> QED BY <3>1, <3>2, <3>3, <3>4
  <2> QED BY <1>6, <2>2, <2>3
<1>7. ASSUME NEW picks, picks \in Picks(shown) \/ picks = <<>>,
             NEW phase \in {"deciding", "asking"}, clock' \in Nat
      PROVE  /\ Choice(phase, c, picks) \in ToDecide
             /\ Choice(phase, c, picks).phase = phase /\ Choice(phase, c, picks).commit = c
             /\ Choice(phase, c, picks).picks = picks /\ Choice(phase, c, picks).shown = shown
  <2>1. PICK dated \in Nat : dated = clock'
    BY <1>7
  <2>2. Choice(phase, c, picks)
          = [phase |-> phase, commit |-> c, picks |-> picks, shown |-> LatestRun(c),
             sources |-> <<>>, at |-> clock', known |-> {}, closes |-> {},
             kind |-> "CODE_TASKS", upto |-> 0]
    BY DEF Choice
  <2>3. phase \in ChoosingPhases /\ picks \in Seq(Nat)
    BY <1>6, <1>7 DEF ChoosingPhases
  <2> QED BY <1>4, <2>1, <2>2, <2>3 DEF ToDecide
<1>8. ASSUME NEW q \in ToDecide, q.phase \in {"deciding", "asking"}, q.commit = c,
             q.shown = shown, q.picks \in Picks(shown) \/ q.picks = <<>>, Moves(r, q),
             UNCHANGED <<runs, tasks, project>>, clock' \in Nat, clock' >= clock
      PROVE  CodeInv'
  <2>1. ChoiceOK(q)
    <3>1. shown = 0 => \A i \in DOMAIN q.picks : q.picks[i] = 0
      BY <1>6, <1>8
    <3> QED BY <1>4, <1>8, <3>1 DEF ChoiceOK
  <2> QED BY <1>8, <2>1, PickedSteps DEF ProjectMoves
<1>9. CASE \E kind \in Kinds : BeginDecide(r, c, kind)
  <2>1. PICK kind \in Kinds : BeginDecide(r, c, kind)
    BY <1>9
  <2>2. /\ clock' = clock + 1
        /\ \E picks \in IF kind = "CODE_TASKS" THEN Picks(LatestRun(c)) ELSE {<<>>} :
             BeginRequest(r, [Choice("deciding", c, picks) EXCEPT !.kind = kind])
    BY <2>1 DEF BeginDecide
  <2>3. PICK picks \in IF kind = "CODE_TASKS" THEN Picks(LatestRun(c)) ELSE {<<>>} :
          BeginRequest(r, [Choice("deciding", c, picks) EXCEPT !.kind = kind])
    BY <2>2
  <2>4. clock' \in Nat /\ clock' >= clock /\ (picks \in Picks(shown) \/ picks = <<>>)
    BY <1>1, <1>4, <2>2, <2>3
  <2>5. PICK t \in ToDecide : /\ t = Choice("deciding", c, picks)
                              /\ t.phase = "deciding" /\ t.commit = c
                              /\ t.picks = picks /\ t.shown = shown
    BY <1>7, <2>4
  <2>6. PICK q : q = [t EXCEPT !.kind = kind]
    OBVIOUS
  <2>7. q \in ToDecide /\ q.phase = "deciding" /\ q.commit = c /\ q.picks = picks /\ q.shown = shown
    BY <2>5, <2>6 DEF ToDecide
  <2>8. UNCHANGED <<runs, tasks, project>> /\ Moves(r, q)
    BY <2>3, <2>5, <2>6 DEF BeginRequest, Moves
  <2> QED BY <1>8, <2>4, <2>7, <2>8
<1>10. CASE BeginTasks(r, c)
  <2>1. PICK picks \in Picks(LatestRun(c)) : BeginRequest(r, Choice("asking", c, picks))
    BY <1>10 DEF BeginTasks
  <2>2. clock' = clock
    BY <1>10 DEF BeginTasks
  <2>3. clock' \in Nat /\ clock' >= clock /\ picks \in Picks(shown)
    BY <1>1, <1>4, <2>1, <2>2
  <2>4. PICK q \in ToDecide : /\ q = Choice("asking", c, picks)
                              /\ q.phase = "asking" /\ q.commit = c
                              /\ q.picks = picks /\ q.shown = shown
    BY <1>7, <2>3
  <2>5. UNCHANGED <<runs, tasks, project>> /\ Moves(r, q)
    BY <2>1, <2>4 DEF BeginRequest, Moves
  <2> QED BY <1>8, <2>3, <2>4, <2>5
<1> QED BY <1>2, <1>3, <1>9, <1>10

(* A generation puts at most MaxFindings findings into a review.           *)
LEMMA ReviewedKeeps ==
  ASSUME CodeInv, NEW r \in Requests, Reviewed(r)
  PROVE  CodeInv'
<1>1. clock \in Nat /\ rq \in [Requests -> CodeRequest]
  BY DEF CodeInv, CodeType
<1>2. PICK commit \in Commits : commit = rq[r].commit
  BY <1>1, RequestKinds DEF Reviewed, ToReview
<1>3. PICK found \in Critiques :
        rq' = [rq EXCEPT ![r] = [phase |-> "reviewed", commit |-> commit, at |-> clock',
                                 findings |-> found]]
  BY <1>2 DEF Reviewed
<1>4. found \in Seq(Findings)
  <2>1. PICK n \in 0..MaxFindings : found \in [1..n -> Findings]
    BY DEF Critiques
  <2>2. n \in Nat
    BY CodeChangesAssumption
  <2> QED BY <2>1, <2>2
<1>5. clock' = clock + 1 /\ UNCHANGED <<runs, tasks, project>>
  BY DEF Reviewed
<1>6. PICK q : q = [phase |-> "reviewed", commit |-> commit, at |-> clock + 1, findings |-> found]
  OBVIOUS
<1>7. q \in ToSave /\ q.phase = "reviewed" /\ q.at = clock + 1
  BY <1>1, <1>4, <1>6 DEF ToSave
<1>8. Moves(r, q) /\ ProjectMoves(r)
  BY <1>3, <1>5, <1>6 DEF Moves, ProjectMoves
<1> QED BY <1>1, <1>5, <1>7, <1>8, PlainStep

(* The stored review is later than none, and a review of its commit.       *)
LEMMA StoredReview ==
  ASSUME CodeInv, NEW r \in Requests, SaveReview(r)
  PROVE  /\ runs' \in Seq(Review)
         /\ Len(runs) + 1 \in Nat /\ Len(runs) + 1 \notin DOMAIN runs
         /\ DOMAIN runs' = DOMAIN runs \cup {Len(runs) + 1}
         /\ \A k \in DOMAIN runs : runs'[k] = runs[k] /\ runs[k].at \in Nat
         /\ rq[r].phase = "reviewed"
         /\ runs'[Len(runs) + 1].at = rq[r].at /\ rq[r].at \in Nat
<1>1. runs \in Seq(Review) /\ rq[r] \in CodeRequest
  BY DEF CodeInv, CodeType
<1>2. rq[r] \in ToSave /\ rq[r].phase = "reviewed"
  BY <1>1, RequestKinds DEF SaveReview
<1>3. PICK new : new = [commit |-> rq[r].commit, at |-> rq[r].at, findings |-> rq[r].findings]
  OBVIOUS
<1>4. new \in Review /\ new.at = rq[r].at /\ rq[r].at \in Nat
  BY <1>2, <1>3 DEF ToSave, Review
<1>5. runs' = Append(runs, new)
  BY <1>3 DEF SaveReview
<1>6. DOMAIN runs = 1..Len(runs) /\ Len(runs) \in Nat /\ \A k \in DOMAIN runs : runs[k] \in Review
  BY <1>1
<1>7. /\ runs' \in Seq(Review) /\ DOMAIN runs' = 1..(Len(runs) + 1)
      /\ \A k \in DOMAIN runs : runs'[k] = runs[k]
      /\ runs'[Len(runs) + 1] = new
  BY <1>1, <1>4, <1>5
<1>8. \A k \in DOMAIN runs : runs[k].at \in Nat
  BY <1>6 DEF Review
<1>9. 1..(Len(runs) + 1) = 1..Len(runs) \cup {Len(runs) + 1} /\ Len(runs) + 1 \notin 1..Len(runs)
  BY <1>6
<1> QED BY <1>2, <1>4, <1>6, <1>7, <1>8, <1>9

LEMMA SavedReviewsApart ==
  ASSUME CodeInv, NEW r \in Requests, SaveReview(r)
  PROVE  ReviewsApart'
<1> DEFINE n == Len(runs) + 1
<1>1. /\ n \in Nat /\ DOMAIN runs' = DOMAIN runs \cup {n} /\ n \notin DOMAIN runs
      /\ \A k \in DOMAIN runs : runs'[k] = runs[k]
      /\ runs'[n].at = rq[r].at /\ rq[r].phase = "reviewed"
  BY StoredReview
<1>2. Moves(r, Idle) /\ clock' = clock
  BY FinishMoves DEF SaveReview, Finish
<1>3. rq'[r] = Idle /\ \A o \in Requests \ {r} : rq'[o] = rq[o]
  BY <1>2, MovesFacts DEF CodeInv, CodeRequest
<1>4. Idle.phase # "reviewed"
  BY DEF Idle
<1> HIDE DEF n
<1>5. /\ \A k \in DOMAIN runs : runs[k].at <= clock /\ runs[k].at # rq[r].at
      /\ \A k, j \in DOMAIN runs : k # j => runs[k].at # runs[j].at
      /\ rq[r].at <= clock
  BY <1>1 DEF CodeInv, ReviewsApart
<1>6. \A k \in DOMAIN runs' : runs'[k].at <= clock'
  BY <1>1, <1>2, <1>5
<1>7. \A k, j \in DOMAIN runs' : k # j => runs'[k].at # runs'[j].at
  BY <1>1, <1>5
<1>8. ASSUME NEW o \in Requests, rq'[o].phase = "reviewed"
      PROVE  /\ rq'[o].at <= clock' /\ \A k \in DOMAIN runs' : runs'[k].at # rq'[o].at
             /\ \A u \in Requests \ {o} : rq'[u].phase = "reviewed" => rq'[u].at # rq'[o].at
  <2>1. o # r /\ rq'[o] = rq[o]
    BY <1>3, <1>4, <1>8
  <2>2. /\ rq[o].at <= clock /\ \A k \in DOMAIN runs : runs[k].at # rq[o].at
        /\ \A u \in Requests \ {o} : rq[u].phase = "reviewed" => rq[u].at # rq[o].at
    BY <1>8, <2>1 DEF CodeInv, ReviewsApart
  <2> QED BY <1>1, <1>2, <1>3, <1>4, <2>1, <2>2
<1> QED BY <1>6, <1>7, <1>8 DEF ReviewsApart

LEMMA SavedHasLatest ==
  ASSUME CodeInv, NEW r \in Requests, SaveReview(r)
  PROVE  HasLatest'
<1> DEFINE n == Len(runs) + 1
<1>1. /\ DOMAIN runs' = DOMAIN runs \cup {n} /\ n \notin DOMAIN runs
      /\ \A k \in DOMAIN runs : runs'[k] = runs[k] /\ runs[k].at \in Nat
      /\ runs'[n].at \in Nat
  BY StoredReview
<1> HIDE DEF n
<1> SUFFICES ASSUME NEW c \in Commits, RunsOf(c)' # {}
             PROVE  \E k \in RunsOf(c)' : \A o \in RunsOf(c)' : runs'[o].at <= runs'[k].at
  BY DEF HasLatest
<1>2. /\ \A k \in DOMAIN runs : k \in RunsOf(c)' <=> k \in RunsOf(c)
      /\ RunsOf(c)' \subseteq RunsOf(c) \cup {n} /\ RunsOf(c) \subseteq DOMAIN runs
      /\ RunsOf(c) \subseteq RunsOf(c)'
  BY <1>1 DEF RunsOf
<1>3. CASE RunsOf(c) = {}
  BY <1>1, <1>2, <1>3
<1>4. CASE RunsOf(c) # {}
  <2>1. PICK k \in RunsOf(c) : \A o \in RunsOf(c) : runs[o].at <= runs[k].at
    BY <1>4 DEF CodeInv, HasLatest
  <2>2. CASE n \in RunsOf(c)' /\ runs[k].at <= runs'[n].at
    <3>1. \A o \in RunsOf(c)' : runs'[o].at <= runs'[n].at
      BY <1>1, <1>2, <2>1, <2>2
    <3> QED BY <2>2, <3>1
  <2>3. CASE ~(n \in RunsOf(c)' /\ runs[k].at <= runs'[n].at)
    <3>1. \A o \in RunsOf(c)' : runs'[o].at <= runs'[k].at
      BY <1>1, <1>2, <2>1, <2>3
    <3> QED BY <1>2, <2>1, <3>1
  <2> QED BY <2>2, <2>3
<1> QED BY <1>3, <1>4

LEMMA SavedChoices ==
  ASSUME CodeInv, NEW r \in Requests, SaveReview(r)
  PROVE  \A o \in Requests : ChoiceOK(rq[o])'
<1>1. \A k \in DOMAIN runs : k \in DOMAIN runs' /\ runs'[k] = runs[k]
  BY StoredReview
<1>2. rq'[r] = Idle /\ \A o \in Requests \ {r} : rq'[o] = rq[o]
  <2>1. Moves(r, Idle)
    BY FinishMoves DEF SaveReview
  <2> QED BY <2>1, MovesFacts DEF CodeInv, CodeRequest
<1>3. Idle \notin ToDecide
  BY DEF Idle, ToDecide, ChoosingPhases
<1> SUFFICES ASSUME NEW o \in Requests PROVE ChoiceOK(rq[o])'
  OBVIOUS
<1>4. PICK p : p = rq'[o]
  OBVIOUS
<1>5. CASE p \notin ToDecide BY <1>4, <1>5 DEF ChoiceOK
<1>6. CASE p \in ToDecide
  <2>1. ChoiceOK(p)
    <3>1. o # r
      BY <1>2, <1>3, <1>4, <1>6
    <3> QED BY <1>2, <1>4, <3>1 DEF CodeInv
  <2>2. /\ p.shown = 0 \/ p.shown \in RunsOf(p.commit)
        /\ p.shown = 0 => \A i \in DOMAIN p.picks : p.picks[i] = 0
    BY <1>6, <2>1 DEF ChoiceOK
  <2>3. RunsOf(p.commit) \subseteq DOMAIN runs /\ RunsOf(p.commit) \subseteq RunsOf(p.commit)'
    BY <1>1 DEF RunsOf
  <2>4. p.shown = 0 \/ p.shown \in RunsOf(p.commit)'
    BY <2>2, <2>3
  <2>5. ASSUME p.phase \notin {"deciding", "asking"}, NEW i \in DOMAIN p.picks, p.picks[i] # 0
        PROVE  \E k \in RunsOf(p.commit)' :
                 /\ k = p.shown \/ runs'[k].at > runs'[p.shown].at
                 /\ SourcedFrom(k, p)'
    <3>1. p.shown \in RunsOf(p.commit) /\ p.shown # 0
      BY <2>2, <2>5
    <3>2. PICK k \in RunsOf(p.commit) :
            /\ k = p.shown \/ runs[k].at > runs[p.shown].at
            /\ SourcedFrom(k, p)
      BY <1>6, <2>1, <2>5 DEF ChoiceOK, OneReview
    <3>3. k \in RunsOf(p.commit)' /\ runs'[k] = runs[k] /\ runs'[p.shown] = runs[p.shown]
      BY <1>1, <2>3, <3>1
    <3>4. SourcedFrom(k, p)'
      BY <1>4, <3>2, <3>3 DEF SourcedFrom
    <3> QED BY <3>2, <3>3, <3>4
  <2>6. p.phase \notin {"deciding", "asking"} => OneReview(p)'
    BY <2>5 DEF OneReview
  <2> QED BY <1>4, <2>2, <2>4, <2>6 DEF ChoiceOK, OneReview
<1> QED BY <1>5, <1>6

LEMMA SaveReviewKeeps ==
  ASSUME CodeInv, NEW r \in Requests, SaveReview(r)
  PROVE  CodeInv'
<1>1. Moves(r, Idle) /\ ProjectMoves(r) /\ clock' \in Nat
  BY FinishMoves DEF SaveReview
<1>2. Idle \in CodeRequest /\ Idle.phase = "idle"
  BY DEF CodeRequest, Idle
<1>3. UNCHANGED tasks
  BY DEF SaveReview
<1>4. CodeType'
  BY <1>1, <1>2, <1>3, MovesFacts, StoredReview DEF CodeInv, CodeType, ProjectMoves
<1>5. \A o \in Requests : LockOK(o)'
  BY <1>1, <1>2, <1>3, LocksKeep, SameTasksQuiet
<1>6. NoTaskBehindAligned'
  BY <1>1, <1>2, <1>3, ClosingKeeps, SameTasksQuiet
<1> QED BY <1>4, <1>5, <1>6, SavedReviewsApart, SavedHasLatest, SavedChoices DEF CodeInv

-----------------------------------------------------------------------------

(***************************************************************************)
(* The sources of tasks and the decisions.                                 *)
(***************************************************************************)

(* Each position is a finding of the latest review: of the one on the      *)
(* screen, or of a later one.                                              *)
LEMMA SourcesAre ==
  ASSUME CodeInv, NEW r \in Requests, rq[r] \in ToDecide, Resolvable(r)
  PROVE  /\ Sources(r) \in Seq(TaskSource)
         /\ \/ \A i \in DOMAIN rq[r].picks : rq[r].picks[i] = 0
            \/ \E k \in RunsOf(rq[r].commit) :
                 /\ k = rq[r].shown \/ runs[k].at > runs[rq[r].shown].at
                 /\ \A i \in DOMAIN rq[r].picks :
                      rq[r].picks[i] # 0 =>
                        /\ rq[r].picks[i] \in DOMAIN runs[k].findings
                        /\ Sources(r)[i].finding = runs[k].findings[rq[r].picks[i]]
<1>1. PICK c \in Commits, picks \in Seq(Nat) :
        c = rq[r].commit /\ picks = rq[r].picks
  <2>1. rq[r].commit \in Commits /\ rq[r].picks \in Seq(Nat)
    BY DEF ToDecide
  <2> QED BY <2>1
<1>2. PICK shown : shown = rq[r].shown
  OBVIOUS
<1>3. PICK found \in Seq(Findings) : found = FindingsOf(LatestRun(c))
  BY LatestIsOfTheCommit, FindingsType
<1>4. /\ shown = 0 \/ shown \in RunsOf(c)
      /\ shown = 0 => \A i \in DOMAIN picks : picks[i] = 0
  BY <1>1, <1>2 DEF CodeInv, ChoiceOK
<1>5. /\ DOMAIN picks = 1..Len(picks) /\ Len(picks) \in Nat
      /\ \A i \in DOMAIN picks : picks[i] \in Nat
      /\ DOMAIN found = 1..Len(found) /\ Len(found) \in Nat
      /\ \A k \in DOMAIN found : found[k] \in Findings
  BY <1>1, <1>3
<1>6. \A i \in DOMAIN picks : picks[i] <= Len(found)
  BY <1>1, <1>3 DEF Resolvable
<1>7. Sources(r) = [i \in DOMAIN picks |-> Source(r, picks[i])]
  BY <1>1 DEF Sources
<1>8. ASSUME NEW i \in DOMAIN picks, picks[i] = 0
      PROVE  Source(r, picks[i]) \in TaskSource
  <2>1. PICK origin \in Nat : origin = IF rq[r].phase = "deciding" THEN rq[r].commit ELSE 0
    BY <1>1, CodeChangesAssumption
  <2>2. Source(r, picks[i]) = [origin |-> origin, finding |-> NoFinding]
    BY <1>8, <2>1 DEF Source
  <2> QED BY <2>1, <2>2 DEF TaskSource, TaskFindings
<1>9. ASSUME NEW i \in DOMAIN picks, picks[i] # 0
      PROVE  /\ Source(r, picks[i]) \in TaskSource
             /\ Source(r, picks[i]).finding = found[picks[i]]
  <2>1. picks[i] \in DOMAIN found /\ c \in Nat
    BY <1>5, <1>6, <1>9, CodeChangesAssumption
  <2>2. Source(r, picks[i]) = [origin |-> c, finding |-> found[picks[i]]]
    BY <1>1, <1>3, <1>9 DEF Source
  <2> QED BY <1>5, <2>1, <2>2 DEF TaskSource, TaskFindings
<1>10. Sources(r) \in Seq(TaskSource)
  <2>1. \A i \in DOMAIN picks : Source(r, picks[i]) \in TaskSource
    BY <1>8, <1>9
  <2> QED BY <1>5, <1>7, <2>1
<1>11. ASSUME NEW some \in DOMAIN picks, picks[some] # 0
       PROVE  \E k \in RunsOf(c) :
                /\ k = shown \/ runs[k].at > runs[shown].at
                /\ \A i \in DOMAIN picks :
                     picks[i] # 0 => /\ picks[i] \in DOMAIN runs[k].findings
                                     /\ Sources(r)[i].finding = runs[k].findings[picks[i]]
  <2>1. shown \in RunsOf(c)
    BY <1>4, <1>11
  <2>2. PICK latest \in RunsOf(c) : latest = LatestRun(c) /\ runs[shown].at <= runs[latest].at
    BY <2>1, LatestIsOfTheCommit
  <2>3. shown \in DOMAIN runs /\ latest \in DOMAIN runs
    BY <2>1, <2>2 DEF RunsOf
  <2>4. latest # 0
    <3>1. 0 \notin DOMAIN runs
      BY SequenceFacts DEF CodeInv, CodeType
    <3> QED BY <2>3, <3>1
  <2>5. found = runs[latest].findings
    BY <1>3, <2>2, <2>4 DEF FindingsOf
  <2>6. latest = shown \/ runs[latest].at > runs[shown].at
    <3>1. CASE shown # latest
      <4>1. runs[shown].at # runs[latest].at
        BY <2>3, <3>1 DEF CodeInv, ReviewsApart
      <4>2. runs[shown] \in Review /\ runs[latest] \in Review
        BY <2>3, SequenceFacts DEF CodeInv, CodeType
      <4>3. runs[shown].at \in Nat /\ runs[latest].at \in Nat
        BY <4>2 DEF Review
      <4> QED BY <2>2, <4>1, <4>3
    <3> QED BY <3>1
  <2>7. ASSUME NEW i \in DOMAIN picks, picks[i] # 0
        PROVE  /\ picks[i] \in DOMAIN found
               /\ Sources(r)[i].finding = found[picks[i]]
    BY <1>5, <1>6, <1>7, <1>9, <2>7
  <2> QED BY <2>2, <2>5, <2>6, <2>7
<1> QED BY <1>1, <1>2, <1>10, <1>11

(* A source once found stays the source of its pick.                       *)
LEMMA ChoicePasses ==
  ASSUME NEW t \in ToDecide, NEW q \in ToDecide, ChoiceOK(t),
         t.phase \notin {"deciding", "asking"}, q.commit = t.commit, q.shown = t.shown,
         q.picks = t.picks, q.sources = t.sources
  PROVE  ChoiceOK(q)
BY DEF ChoiceOK, OneReview, SourcedFrom

LEMMA DecidingRequest ==
  ASSUME CodeInv, NEW r \in Requests, rq[r].phase \in ChoosingPhases
  PROVE  rq[r] \in ToDecide /\ ChoiceOK(rq[r]) /\ clock \in Nat /\ rq \in [Requests -> CodeRequest]
BY RequestKinds DEF CodeInv, CodeType

LEMMA SourcesStep ==
  ASSUME CodeInv, NEW r \in Requests, ReadSources(r) \/ ReadTaskSources(r)
  PROVE  CodeInv'
<1>1. rq[r].phase \in {"deciding", "asking"} /\ Resolvable(r)
  BY DEF ReadSources, ReadTaskSources
<1>2. /\ rq[r] \in ToDecide /\ ChoiceOK(rq[r]) /\ clock \in Nat
      /\ rq \in [Requests -> CodeRequest]
  BY <1>1, DecidingRequest DEF ChoosingPhases
<1>3. PICK t \in ToDecide : t = rq[r]
  BY <1>2
<1>4. PICK sources \in Seq(TaskSource) :
        /\ sources = Sources(r)
        /\ \/ \A i \in DOMAIN t.picks : t.picks[i] = 0
           \/ \E k \in RunsOf(t.commit) :
                /\ k = t.shown \/ runs[k].at > runs[t.shown].at
                /\ \A i \in DOMAIN t.picks :
                     t.picks[i] # 0 =>
                       /\ t.picks[i] \in DOMAIN runs[k].findings
                       /\ sources[i].finding = runs[k].findings[t.picks[i]]
  BY <1>1, <1>2, <1>3, SourcesAre
<1>5. ASSUME NEW q \in ToDecide, q.phase \in {"read", "sourced"}, q.commit = t.commit,
             q.shown = t.shown, q.picks = t.picks, q.sources = sources
      PROVE  ChoiceOK(q)
  BY <1>2, <1>3, <1>4, <1>5 DEF ChoiceOK, OneReview, SourcedFrom
<1>6. CASE ReadSources(r)
  <2>1. PICK q : q = [t EXCEPT !.phase = "read", !.sources = sources]
    OBVIOUS
  <2>2. /\ q \in ToDecide /\ q.phase = "read" /\ q.commit = t.commit /\ q.shown = t.shown
        /\ q.picks = t.picks /\ q.sources = sources
    BY <2>1 DEF ToDecide, ChoosingPhases
  <2>3. Moves(r, q)
    BY <1>2, <1>3, <1>4, <1>6, <2>1 DEF ReadSources, Moves
  <2>4. UNCHANGED <<runs, tasks, clock, project>>
    BY <1>6 DEF ReadSources
  <2> QED BY <1>2, <1>5, <2>2, <2>3, <2>4, PickedSteps DEF ProjectMoves
<1>7. CASE ReadTaskSources(r)
  <2>1. PICK dated \in Nat : dated = clock + 1
    BY <1>2
  <2>2. PICK q : q = [t EXCEPT !.phase = "sourced", !.sources = sources, !.at = dated]
    OBVIOUS
  <2>3. /\ q \in ToDecide /\ q.phase = "sourced" /\ q.commit = t.commit /\ q.shown = t.shown
        /\ q.picks = t.picks /\ q.sources = sources
    BY <2>2 DEF ToDecide, ChoosingPhases
  <2>4. clock' = dated /\ clock' >= clock /\ UNCHANGED <<runs, tasks, project>>
    BY <1>2, <1>7, <2>1 DEF ReadTaskSources
  <2>5. Moves(r, q)
    BY <1>2, <1>3, <1>4, <1>7, <2>2, <2>4 DEF ReadTaskSources, Moves
  <2> QED BY <1>2, <1>5, <2>3, <2>4, <2>5, PickedSteps DEF ProjectMoves
<1> QED BY <1>6, <1>7

LEMMA LockChangeKeeps ==
  ASSUME CodeInv, NEW r \in Requests, LockChange(r)
  PROVE  CodeInv'
<1>1. rq[r].phase = "read"
  BY DEF LockChange
<1>2. /\ rq[r] \in ToDecide /\ ChoiceOK(rq[r]) /\ clock \in Nat
      /\ rq \in [Requests -> CodeRequest]
  BY <1>1, DecidingRequest DEF ChoosingPhases
<1>3. PICK t \in ToDecide : t = rq[r]
  BY <1>2
<1>4. PICK q : q = [t EXCEPT !.phase = "decided"]
  OBVIOUS
<1>5. /\ q \in ToDecide /\ q.phase = "decided" /\ q.commit = t.commit /\ q.shown = t.shown
      /\ q.picks = t.picks /\ q.sources = t.sources
  BY <1>4 DEF ToDecide, ChoosingPhases
<1>6. Moves(r, q) /\ UNCHANGED <<runs, tasks, clock, project>>
  BY <1>2, <1>3, <1>4 DEF LockChange, Moves
<1>7. ChoiceOK(q)
  BY <1>1, <1>2, <1>3, <1>5, ChoicePasses
<1> QED BY <1>2, <1>5, <1>6, <1>7, PickedSteps DEF ProjectMoves

LEMMA CloseTasksKeeps ==
  ASSUME CodeInv, NEW r \in Requests, CloseTasks(r)
  PROVE  CodeInv'
<1>1. rq[r].phase = "decided"
  BY DEF CloseTasks
<1>2. /\ rq[r] \in ToDecide /\ ChoiceOK(rq[r]) /\ clock \in Nat
      /\ rq \in [Requests -> CodeRequest]
  BY <1>1, DecidingRequest DEF ChoosingPhases
<1>3. PICK t \in ToDecide : t = rq[r]
  BY <1>2
<1>4. PICK upto \in Nat : upto = Len(tasks) /\ DOMAIN tasks = 1..upto
  BY SequenceFacts DEF CodeInv, CodeType
<1> DEFINE open == {n \in DOMAIN tasks :
                      /\ tasks[n].status = "OPEN"
                      /\ \/ tasks[n].origin \in UpTo(rq[r].commit)
                         \/ /\ tasks[n].origin = 0
                            /\ tasks[n].at <= changes[rq[r].commit].at}
<1>5. PICK closes \in SUBSET Nat : closes = open
  <2>1. open \in SUBSET Nat
    BY <1>4
  <2> QED BY <2>1
<1>6. PICK q : q = [t EXCEPT !.phase = "closing", !.upto = upto, !.closes = closes]
  OBVIOUS
<1>7. /\ q \in ToDecide /\ q.phase = "closing" /\ q.commit = t.commit /\ q.shown = t.shown
      /\ q.picks = t.picks /\ q.sources = t.sources /\ q.upto = upto
  BY <1>6 DEF ToDecide, ChoosingPhases
<1>8. Moves(r, q) /\ UNCHANGED <<runs, tasks, clock, project>>
  BY <1>2, <1>3, <1>4, <1>5, <1>6 DEF CloseTasks, Moves
<1>9. ChoiceOK(q)
  BY <1>1, <1>2, <1>3, <1>7, ChoicePasses
<1> QED BY <1>2, <1>4, <1>7, <1>8, <1>9, PickedSteps DEF ProjectMoves

(* Tasks are closed where they are.                                        *)
LEMMA CommitAlignedKeeps ==
  ASSUME CodeInv, NEW r \in Requests, CommitAligned(r)
  PROVE  CodeInv'
<1>1. /\ DOMAIN tasks = 1..Len(tasks) /\ Len(tasks) \in Nat
      /\ \A n \in DOMAIN tasks : tasks[n] \in Task
  BY SequenceFacts DEF CodeInv, CodeType
<1>2. PICK closes : closes = rq[r].closes
  OBVIOUS
<1>3. tasks' = [n \in DOMAIN tasks |->
                  IF n \in closes /\ tasks[n].status = "OPEN"
                  THEN [tasks[n] EXCEPT !.status = "DONE"] ELSE tasks[n]]
  BY <1>2 DEF CommitAligned
<1>4. /\ DOMAIN tasks' = DOMAIN tasks
      /\ \A n \in DOMAIN tasks :
           /\ tasks'[n] \in Task /\ tasks'[n].origin = tasks[n].origin
           /\ tasks'[n].finding = tasks[n].finding
           /\ tasks'[n].status = "OPEN" => tasks[n].status = "OPEN"
  <2> SUFFICES ASSUME NEW n \in DOMAIN tasks
               PROVE  /\ tasks'[n] \in Task /\ tasks'[n].origin = tasks[n].origin
                      /\ tasks'[n].finding = tasks[n].finding
                      /\ tasks'[n].status = "OPEN" => tasks[n].status = "OPEN"
    BY <1>3
  <2>1. PICK t \in Task : t = tasks[n]
    BY <1>1
  <2>2. tasks'[n] = t \/ tasks'[n] = [t EXCEPT !.status = "DONE"]
    BY <1>3, <2>1
  <2> QED BY <2>1, <2>2 DEF Task
<1>5. tasks' \in Seq(Task)
  <2>1. tasks' \in [1..Len(tasks) -> Task]
    BY <1>1, <1>3, <1>4
  <2> QED BY <1>1, <2>1
<1>6. OpenFindings' \subseteq OpenFindings
  BY <1>4 DEF OpenFindings
<1>7. /\ Moves(r, Idle) /\ ProjectMoves(r) /\ clock' \in Nat /\ clock' >= clock /\ UNCHANGED runs
  BY FinishMoves DEF CommitAligned
<1>8. Idle \in CodeRequest /\ Idle.phase = "idle" /\ Idle \notin ToDecide
  BY DEF CodeRequest, Idle, ToDecide, ChoosingPhases
<1>9. ChoiceOK(Idle)
  BY <1>8 DEF ChoiceOK
<1> QED BY <1>4, <1>5, <1>6, <1>7, <1>8, <1>9, QuietStep

LEMMA LockProjectKeeps ==
  ASSUME CodeInv, NEW r \in Requests, LockProject(r)
  PROVE  CodeInv'
<1>1. rq[r].phase \in {"decided", "sourced"}
  BY DEF LockProject, WantsProject
<1>2. /\ rq[r] \in ToDecide /\ ChoiceOK(rq[r]) /\ clock \in Nat
      /\ rq \in [Requests -> CodeRequest]
  BY <1>1, DecidingRequest DEF ChoosingPhases
<1>3. PICK t \in ToDecide : t = rq[r]
  BY <1>2
<1>4. PICK known \in SUBSET (Nat \X TaskFindings) : known = OpenFindings
  <2>1. \A n \in DOMAIN tasks : tasks[n] \in Task
    BY SequenceFacts DEF CodeInv, CodeType
  <2>2. \A n \in DOMAIN tasks : <<tasks[n].origin, tasks[n].finding>> \in Nat \X TaskFindings
    BY <2>1 DEF Task
  <2>3. OpenFindings \in SUBSET (Nat \X TaskFindings)
    BY <2>2 DEF OpenFindings
  <2> QED BY <2>3
<1>5. PICK phase \in {"writing", "filing"} :
        phase = IF rq[r].phase = "decided" THEN "writing" ELSE "filing"
  OBVIOUS
<1>6. PICK q : q = [t EXCEPT !.known = known, !.phase = phase]
  OBVIOUS
<1>7. /\ q \in ToDecide /\ q.phase = phase /\ q.commit = t.commit /\ q.shown = t.shown
      /\ q.picks = t.picks /\ q.sources = t.sources /\ q.known = known
  BY <1>4, <1>5, <1>6 DEF ToDecide, ChoosingPhases
<1>8. /\ Moves(r, q) /\ UNCHANGED <<runs, tasks, clock>> /\ project = Nobody /\ project' = r
  BY <1>2, <1>3, <1>4, <1>5, <1>6 DEF LockProject, Moves
<1>9. ChoiceOK(q)
  BY <1>1, <1>2, <1>3, <1>7, ChoicePasses
<1>10. q.phase # "closing"
  BY <1>5, <1>7
<1> QED BY <1>2, <1>4, <1>7, <1>8, <1>9, <1>10, PickedSteps DEF ProjectMoves

-----------------------------------------------------------------------------

(***************************************************************************)
(* The tasks.                                                              *)
(***************************************************************************)

LEMMA WritingRequest ==
  ASSUME CodeInv, NEW r \in Requests, WriteTasks(r)
  PROVE  /\ rq[r] \in ToDecide /\ project = r /\ OpenFindings \subseteq rq[r].known
         /\ NewTasks(r) \in Seq(Task) /\ tasks \in Seq(Task)
         /\ tasks' = tasks \o NewTasks(r)
<1>1. Writing(r)
  BY DEF WriteTasks, InsertsPass
<1>2. rq[r] \in ToDecide
  BY <1>1, DecidingRequest DEF Writing, ChoosingPhases
<1>3. project = r /\ OpenFindings \subseteq rq[r].known
  BY <1>1 DEF CodeInv, LockOK
<1> QED BY <1>2, <1>3, NewTasksAre DEF WriteTasks, CodeInv, CodeType

LEMMA Appended ==
  ASSUME NEW S, NEW s \in Seq(S), NEW t \in Seq(S)
  PROVE  /\ s \o t \in Seq(S) /\ Len(s) \in Nat /\ DOMAIN s = 1..Len(s)
         /\ \A n \in DOMAIN s : n \in DOMAIN (s \o t) /\ (s \o t)[n] = s[n]
         /\ \A n \in DOMAIN (s \o t) :
              n \in DOMAIN s \/ (n - Len(s) \in DOMAIN t /\ (s \o t)[n] = t[n - Len(s)])
OBVIOUS

LEMMA WriteTasksKeeps ==
  ASSUME CodeInv, NEW r \in Requests, WriteTasks(r)
  PROVE  CodeInv'
<1>1. /\ Moves(r, Idle) /\ ProjectMoves(r) /\ clock' \in Nat /\ clock' >= clock /\ UNCHANGED runs
  BY FinishMoves DEF WriteTasks
<1>2. Idle \in CodeRequest /\ Idle.phase = "idle" /\ Idle \notin ToDecide
  BY DEF CodeRequest, Idle, ToDecide, ChoosingPhases
<1>3. rq'[r] = Idle /\ \A o \in Requests \ {r} : rq'[o] = rq[o]
  BY <1>1, <1>2, MovesFacts DEF CodeInv
<1>4. PICK new \in Seq(Task) : new = NewTasks(r) /\ tasks \in Seq(Task) /\ tasks' = tasks \o new
  BY WritingRequest
<1>5. /\ tasks' \in Seq(Task) /\ Len(tasks) \in Nat /\ DOMAIN tasks = 1..Len(tasks)
      /\ \A n \in DOMAIN tasks : tasks'[n] = tasks[n]
      /\ \A n \in DOMAIN tasks' :
           n \in DOMAIN tasks \/ (n - Len(tasks) \in DOMAIN new /\ tasks'[n] = new[n - Len(tasks)])
  BY <1>4, Appended
<1>6. CodeType'
  BY <1>1, <1>2, <1>5, MovesFacts DEF CodeInv, CodeType, ProjectMoves
<1>7. ReviewsApart' /\ HasLatest'
  BY <1>1, <1>2, ReviewsKeep
<1>8. \A o \in Requests : ChoiceOK(rq[o])'
  <2>1. ChoiceOK(Idle)
    BY <1>2 DEF ChoiceOK
  <2> QED BY <1>1, <1>2, <2>1, ChoicesKeep
<1>9. ASSUME NEW o \in Requests PROVE LockOK(o)'
  <2>1. CASE o = r
    BY <1>2, <1>3, <2>1 DEF LockOK, Writing
  <2>2. CASE o # r
    <3>1. project = r
      BY WritingRequest
    <3>2. ~Writing(o)
      BY <2>2, <3>1 DEF CodeInv, LockOK
    <3> QED BY <1>3, <2>2, <3>2 DEF LockOK, Writing
  <2> QED BY <2>1, <2>2
<1>10. ASSUME NEW o \in Requests, rq'[o].phase = "closing",
              NEW n \in DOMAIN tasks', tasks'[n].origin = rq'[o].commit
       PROVE  n <= rq'[o].upto
  <2>1. o # r /\ rq'[o] = rq[o]
    BY <1>2, <1>3, <1>10
  <2>2. CASE n \in DOMAIN tasks
    BY <1>5, <1>10, <2>1, <2>2 DEF CodeInv, NoTaskBehindAligned
  <2>3. CASE n \notin DOMAIN tasks
    <3>1. PICK k \in DOMAIN new : tasks'[n] = new[k]
      BY <1>5, <2>3
    <3>2. rq[o].commit \in Commits /\ rq[o].commit # 0
      <4>1. rq[o] \in ToDecide
        BY <1>10, <2>1, DecidingRequest DEF ChoosingPhases
      <4> QED BY <4>1, CodeChangesAssumption DEF ToDecide
    <3>3. new[k] \in Range(NewTasks(r)) /\ new[k].origin = rq[o].commit
      BY <1>4, <1>10, <2>1, <3>1 DEF Range
    <3>4. ChangeFree(r, rq[o].commit)
      BY <3>2, <3>3 DEF WriteTasks, InsertsPass
    <3>5. ~HoldsChange(o, rq[o].commit)
      BY <2>1, <3>4 DEF ChangeFree
    <3> QED BY <1>10, <2>1, <3>5 DEF HoldsChange
  <2> QED BY <2>2, <2>3
<1>11. NoTaskBehindAligned'
  BY <1>10 DEF NoTaskBehindAligned
<1> QED BY <1>6, <1>7, <1>8, <1>9, <1>11 DEF CodeInv

(* The owner's ut tasks done, drop and reopen wait for whoever writes.     *)
LEMMA SetTaskStatusFacts ==
  ASSUME CodeInv, NEW n \in DOMAIN tasks, NEW status \in {"OPEN", "DONE", "DROPPED"},
         SetTaskStatus(n, status)
  PROVE  /\ tasks' \in Seq(Task) /\ DOMAIN tasks' = DOMAIN tasks
         /\ \A m \in DOMAIN tasks : tasks'[m].origin = tasks[m].origin
<1>1. /\ DOMAIN tasks = 1..Len(tasks) /\ Len(tasks) \in Nat
      /\ \A m \in DOMAIN tasks : tasks[m] \in Task
  BY SequenceFacts DEF CodeInv, CodeType
<1>2. PICK t \in Task : t = tasks[n]
  BY <1>1
<1>3. PICK u : u = [t EXCEPT !.status = status]
  OBVIOUS
<1>4. u \in Task /\ u.origin = t.origin
  BY <1>3 DEF Task
<1>5. tasks \in [1..Len(tasks) -> Task]
  BY <1>1 DEF CodeInv, CodeType
<1>6. tasks' = [tasks EXCEPT ![n] = u]
  BY <1>2, <1>3, <1>5 DEF SetTaskStatus
<1>7. tasks' \in [1..Len(tasks) -> Task]
  BY <1>4, <1>5, <1>6
<1> QED BY <1>1, <1>2, <1>4, <1>5, <1>6, <1>7

LEMMA SetTaskStatusKeeps ==
  ASSUME CodeInv, NEW n \in DOMAIN tasks, NEW status \in {"OPEN", "DONE", "DROPPED"},
         SetTaskStatus(n, status)
  PROVE  CodeInv'
<1>1. /\ tasks' \in Seq(Task) /\ DOMAIN tasks' = DOMAIN tasks
      /\ \A m \in DOMAIN tasks : tasks'[m].origin = tasks[m].origin
  BY SetTaskStatusFacts
<1>2. project = Nobody /\ UNCHANGED <<runs, clock, project, rq>>
  BY DEF SetTaskStatus
<1>3. CodeType' /\ ReviewsApart' /\ HasLatest'
  BY <1>1, <1>2 DEF CodeInv, CodeType, ReviewsApart, HasLatest, RunsOf
<1>4. \A o \in Requests : ChoiceOK(rq[o])'
  BY <1>2 DEF CodeInv, ChoiceOK, OneReview, SourcedFrom, RunsOf
<1>5. \A o \in Requests : LockOK(o)'
  <2>1. \A o \in Requests : ~Writing(o)
    BY <1>2, CodeChangesAssumption DEF CodeInv, LockOK
  <2> QED BY <1>2, <2>1 DEF LockOK, Writing
<1>6. NoTaskBehindAligned'
  BY <1>1, <1>2 DEF CodeInv, NoTaskBehindAligned
<1> QED BY <1>3, <1>4, <1>5, <1>6 DEF CodeInv

-----------------------------------------------------------------------------

(***************************************************************************)
(* The theorems.                                                           *)
(***************************************************************************)

LEMMA CodeStarts ==
  ASSUME ChangesInit
  PROVE  CodeInv
<1>1. \A r \in Requests : rq[r] = Idle
  BY DEF ChangesInit
<1>2. Idle \in CodeRequest /\ Idle.phase = "idle" /\ Idle \notin ToDecide
  BY DEF CodeRequest, Idle, ToDecide, ChoosingPhases
<1>3. CodeType
  BY <1>2 DEF ChangesInit, CodeType
<1>4. ReviewsApart /\ HasLatest
  BY <1>1, <1>2 DEF ChangesInit, ReviewsApart, HasLatest, RunsOf
<1>5. \A r \in Requests : ChoiceOK(rq[r]) /\ LockOK(r)
  BY <1>1, <1>2 DEF ChoiceOK, LockOK, Writing
<1>6. NoTaskBehindAligned
  BY <1>1, <1>2 DEF NoTaskBehindAligned
<1> QED BY <1>3, <1>4, <1>5, <1>6 DEF CodeInv

LEMMA CodeKeeps ==
  ASSUME CodeInv, [ChangesNext]_changesVars
  PROVE  CodeInv'
<1>1. ASSUME NEW r \in Requests, Open(r) PROVE CodeInv'
  BY <1>1, OpenRequests
<1>2. ASSUME NEW r \in Requests, Record(r) PROVE CodeInv'
  BY <1>2, FinishKeeps DEF Record
<1>3. ASSUME NEW r \in Requests, Answer(r) PROVE CodeInv'
  BY <1>3, FinishKeeps DEF Answer
<1>4. ASSUME NEW r \in Requests,
             \/ AlreadyRecorded(r) \/ ReviewFailed(r) \/ SourceInvalid(r) \/ DeadlockVictim(r)
      PROVE  CodeInv'
  BY <1>3, <1>4 DEF AlreadyRecorded, ReviewFailed, SourceInvalid, DeadlockVictim
<1>5. ASSUME NEW r \in Requests, CommitDecision(r) PROVE CodeInv'
  BY <1>5, FinishKeeps DEF CommitDecision
<1>6. ASSUME NEW r \in Requests, Step(r) PROVE CodeInv'
  BY <1>2, <1>4, <1>5, <1>6, ReviewedKeeps, SaveReviewKeeps, SourcesStep, LockChangeKeeps,
     CloseTasksKeeps, CommitAlignedKeeps, LockProjectKeeps, WriteTasksKeeps DEF Step
<1>7. CASE ChangesNext
  BY <1>1, <1>6, <1>7, SetTaskStatusKeeps DEF ChangesNext
<1>8. CASE UNCHANGED changesVars
  <2>1. UNCHANGED <<runs, tasks, clock, project, rq>>
    BY <1>8 DEF changesVars
  <2>2. CodeType'
    BY <2>1 DEF CodeInv, CodeType
  <2>3. ReviewsApart'
    BY <2>1 DEF CodeInv, ReviewsApart
  <2>4. HasLatest'
    BY <2>1 DEF CodeInv, HasLatest, RunsOf
  <2>5. \A o \in Requests : ChoiceOK(rq[o])'
    BY <2>1 DEF CodeInv, ChoiceOK, OneReview, SourcedFrom, RunsOf
  <2>6. \A o \in Requests : LockOK(o)'
    BY <2>1 DEF CodeInv, LockOK, Writing, OpenFindings
  <2>7. NoTaskBehindAligned'
    BY <2>1 DEF CodeInv, NoTaskBehindAligned
  <2> QED BY <2>2, <2>3, <2>4, <2>5, <2>6, <2>7 DEF CodeInv
<1> QED BY <1>7, <1>8

LEMMA CodeHolds == ChangesSpec => []CodeInv
<1>1. ChangesInit => CodeInv
  BY CodeStarts
<1>2. CodeInv /\ [ChangesNext]_changesVars => CodeInv'
  BY CodeKeeps
<1> QED BY <1>1, <1>2, PTL DEF ChangesSpec

(* Reviews, tasks and requests in flight keep their shape: a task is of    *)
(* the owner or of a finding of a recorded commit, and the project row is  *)
(* held by a request or by nobody.                                         *)
THEOREM CodeTypeCorrect == ChangesSpec => []CodeType
<1>1. CodeInv => CodeType
  BY DEF CodeInv
<1> QED BY <1>1, CodeHolds, PTL

(* "the open tasks for the code that come from this commit ... are closed" *)
(* (cli/messages/verify.py): while an ALIGNED decision closes them no task *)
(* of its commit is written behind it, whatever other requests ask for.    *)
THEOREM AlignedClosesAll == ChangesSpec => []NoTaskBehindAligned
<1>1. CodeInv => NoTaskBehindAligned
  BY DEF CodeInv
<1> QED BY <1>1, CodeHolds, PTL

(* All the positions the owner picks become tasks of findings of one       *)
(* review of the commit: the one on the screen, or one made after it.      *)
THEOREM PicksAreKept == ChangesSpec => []PickedFromOneReview
<1>1. CodeInv => PickedFromOneReview
  <2> SUFFICES ASSUME CodeInv, NEW r \in Requests,
                      rq[r].phase \in {"read", "sourced", "decided", "writing", "filing"},
                      NEW i \in DOMAIN rq[r].picks, rq[r].picks[i] # 0
               PROVE  \E k \in RunsOf(rq[r].commit) :
                        /\ k = rq[r].shown \/ runs[k].at > runs[rq[r].shown].at
                        /\ SourcedFrom(k, rq[r])
    BY DEF PickedFromOneReview
  <2>1. rq[r] \in ToDecide /\ ChoiceOK(rq[r])
    BY DecidingRequest DEF ChoosingPhases
  <2>2. rq[r].phase \notin {"deciding", "asking"}
    OBVIOUS
  <2> QED BY <2>1, <2>2 DEF ChoiceOK, OneReview
<1> QED BY <1>1, CodeHolds, PTL

(* Only the writing of tasks adds any.                                     *)
LEMMA OnlyWritingAdds ==
  ASSUME CodeInv, [ChangesNext]_changesVars
  PROVE  DOMAIN tasks' = DOMAIN tasks \/ \E r \in Requests : WriteTasks(r)
<1>1. ASSUME NEW r \in Requests, Open(r) PROVE tasks' = tasks
  BY <1>1 DEF Open, BeginRecord, BeginReview, BeginDecide, BeginTasks, BeginRequest
<1>2. ASSUME NEW r \in Requests, Step(r), ~WriteTasks(r), ~CommitAligned(r) PROVE tasks' = tasks
  BY <1>2 DEF Step, Record, AlreadyRecorded, Reviewed, ReviewFailed, SaveReview, SourceInvalid,
     ReadSources, ReadTaskSources, LockChange, CommitDecision, CloseTasks, LockProject,
     DeadlockVictim, Answer
<1>3. ASSUME NEW r \in Requests, CommitAligned(r) PROVE DOMAIN tasks' = DOMAIN tasks
  BY <1>3 DEF CommitAligned
<1>4. ASSUME NEW n \in DOMAIN tasks, NEW status \in {"OPEN", "DONE", "DROPPED"},
             SetTaskStatus(n, status)
      PROVE  DOMAIN tasks' = DOMAIN tasks
  BY <1>4, SetTaskStatusFacts
<1>5. CASE ChangesNext
  BY <1>1, <1>2, <1>3, <1>4, <1>5 DEF ChangesNext
<1>6. CASE UNCHANGED changesVars
  BY <1>6 DEF changesVars
<1> QED BY <1>5, <1>6

(* What a request writes repeats neither an open task nor itself.          *)
LEMMA WrittenOnce ==
  ASSUME CodeInv, NEW r \in Requests, WriteTasks(r),
         NEW n \in DOMAIN tasks', NEW m \in DOMAIN tasks', n \notin DOMAIN tasks, m # n,
         tasks'[n].finding # NoFinding, tasks'[m].finding = tasks'[n].finding,
         tasks'[m].origin = tasks'[n].origin
  PROVE  tasks'[m].status # "OPEN"
<1>1. PICK new \in Seq(Task) :
        /\ new = NewTasks(r) /\ tasks \in Seq(Task) /\ tasks' = tasks \o new
        /\ OpenFindings \subseteq rq[r].known
        /\ rq[r] \in ToDecide
  BY WritingRequest
<1>2. /\ Len(tasks) \in Nat /\ DOMAIN tasks = 1..Len(tasks) /\ n \in Nat /\ m \in Nat
      /\ n - Len(tasks) \in DOMAIN new /\ tasks'[n] = new[n - Len(tasks)]
      /\ \/ m \in DOMAIN tasks /\ tasks'[m] = tasks[m]
         \/ m - Len(tasks) \in DOMAIN new /\ tasks'[m] = new[m - Len(tasks)]
  <2>1. DOMAIN tasks' \subseteq Nat
    BY <1>1
  <2> QED BY <1>1, <2>1, Appended
<1>3. PICK k \in DOMAIN new : k = n - Len(tasks) /\ tasks'[n] = new[k]
  BY <1>2
<1>4. /\ <<new[k].origin, new[k].finding>> \notin rq[r].known
      /\ \A j \in DOMAIN new : j # k =>
           new[j].origin # new[k].origin \/ new[j].finding # new[k].finding
  BY <1>1, <1>3, NewTasksAre
<1>5. CASE m \in DOMAIN tasks /\ tasks'[m] = tasks[m]
  <2>1. <<tasks[m].origin, tasks[m].finding>> \notin OpenFindings
    BY <1>1, <1>3, <1>4, <1>5
  <2> QED BY <1>5, <2>1 DEF OpenFindings
<1>6. CASE m - Len(tasks) \in DOMAIN new /\ tasks'[m] = new[m - Len(tasks)]
  <2>1. m - Len(tasks) # k
    BY <1>2, <1>3
  <2> QED BY <1>3, <1>4, <1>6, <2>1
<1> QED BY <1>2, <1>5, <1>6

(* However many terminals ask for it at the same time, by either route, a  *)
(* finding that is an open task gets no second one: create_tasks reads the *)
(* open tasks with the project row locked.                                 *)
THEOREM OneTaskPerFinding == ChangesSpec => NoSecondOpenTask
<1> DEFINE Once ==
      \A n \in DOMAIN tasks', m \in DOMAIN tasks' :
        /\ n \notin DOMAIN tasks
        /\ m # n
        /\ tasks'[n].finding # NoFinding
        /\ tasks'[m].finding = tasks'[n].finding
        /\ tasks'[m].origin = tasks'[n].origin
        => tasks'[m].status # "OPEN"
<1>1. CodeInv /\ [ChangesNext]_changesVars => [Once]_changesVars
  <2> SUFFICES ASSUME CodeInv, [ChangesNext]_changesVars PROVE Once
    OBVIOUS
  <2>1. CASE DOMAIN tasks' = DOMAIN tasks BY <2>1
  <2>2. CASE \E r \in Requests : WriteTasks(r) BY <2>2, WrittenOnce
  <2> QED BY <2>1, <2>2, OnlyWritingAdds
<1> QED BY <1>1, CodeHolds, PTL DEF ChangesSpec, NoSecondOpenTask
-----------------------------------------------------------------------------

(***************************************************************************)
(* Deadlocks.                                                              *)
(***************************************************************************)

(* Who holds the project row writes tasks.                                 *)
HolderWrites == project # Nobody => Writing(project)

(* Three waits in a row contain two requests that wait for each other.     *)
DeadlocksArePairs ==
  \A r, o, u, w \in Requests :
    WaitsFor(r, o) /\ WaitsFor(o, u) /\ WaitsFor(u, w) =>
      \E a, b \in Requests : WaitsFor(a, b) /\ WaitsFor(b, a)

LEMMA HolderKeeps ==
  ASSUME CodeInv, HolderWrites, NEW r \in Requests,
         \A o \in Requests \ {r} : rq'[o] = rq[o],
         \/ project' \in {project, Nobody} /\ project' # r
         \/ project' = r /\ rq'[r].phase \in {"writing", "filing"}
  PROVE  HolderWrites'
<1>1. project \in Requests \cup {Nobody}
  BY DEF CodeInv, CodeType
<1> QED BY <1>1 DEF HolderWrites, Writing

LEMMA HolderWritesNext ==
  ASSUME CodeInv, HolderWrites, [ChangesNext]_changesVars
  PROVE  HolderWrites'
<1>1. /\ rq \in [Requests -> CodeRequest] /\ project \in Requests \cup {Nobody}
      /\ Nobody \notin Requests
  BY CodeChangesAssumption DEF CodeInv, CodeType
<1>2. ASSUME NEW r \in Requests, ~Writing(r) PROVE project # r
  BY <1>1, <1>2 DEF HolderWrites
<1>3. ASSUME NEW r \in Requests, Open(r) PROVE HolderWrites'
  <2>1. rq[r].phase = "idle" /\ UNCHANGED project /\ \A o \in Requests \ {r} : rq'[o] = rq[o]
    BY <1>1, <1>3 DEF Open, BeginRecord, BeginReview, BeginDecide, BeginTasks, BeginRequest
  <2>2. project # r
    BY <1>2, <2>1 DEF Writing
  <2> QED BY <2>1, <2>2, HolderKeeps
<1>4. ASSUME NEW r \in Requests, Finish(r) PROVE HolderWrites'
  <2>1. project' \in {project, Nobody} /\ project' # r /\ \A o \in Requests \ {r} : rq'[o] = rq[o]
    BY <1>1, <1>4 DEF Finish
  <2> QED BY <2>1, HolderKeeps
<1>5. ASSUME NEW r \in Requests,
             \/ Reviewed(r) \/ ReadSources(r) \/ ReadTaskSources(r) \/ LockChange(r)
             \/ CloseTasks(r)
      PROVE  HolderWrites'
  <2>1. UNCHANGED project /\ \A o \in Requests \ {r} : rq'[o] = rq[o]
    BY <1>1, <1>5 DEF Reviewed, ReadSources, ReadTaskSources, LockChange, CloseTasks
  <2>2. project # r
    BY <1>2, <1>5 DEF Reviewed, ReadSources, ReadTaskSources, LockChange, CloseTasks, Writing
  <2> QED BY <2>1, <2>2, HolderKeeps
<1>6. ASSUME NEW r \in Requests, LockProject(r) PROVE HolderWrites'
  <2>1. /\ project' = r /\ rq'[r].phase \in {"writing", "filing"}
        /\ \A o \in Requests \ {r} : rq'[o] = rq[o]
    <3>1. PICK phase \in {"writing", "filing"} :
            phase = IF rq[r].phase = "decided" THEN "writing" ELSE "filing"
      OBVIOUS
    <3>2. rq[r] \in ToDecide
      BY <1>6, DecidingRequest DEF LockProject, WantsProject, ChoosingPhases
    <3>3. rq' = [rq EXCEPT ![r] = [rq[r] EXCEPT !.known = OpenFindings, !.phase = phase]]
      BY <1>1, <1>6, <3>1 DEF LockProject
    <3>4. [rq[r] EXCEPT !.known = OpenFindings, !.phase = phase].phase = phase
      BY <3>2 DEF ToDecide
    <3> QED BY <1>1, <1>6, <3>1, <3>3, <3>4 DEF LockProject
  <2> QED BY <2>1, HolderKeeps
<1>7. ASSUME NEW r \in Requests, Step(r) PROVE HolderWrites'
  BY <1>4, <1>5, <1>6, <1>7 DEF Step, Record, AlreadyRecorded, ReviewFailed, SaveReview,
     SourceInvalid, CommitDecision, CommitAligned, WriteTasks, DeadlockVictim, Answer
<1>8. CASE ChangesNext
  <2>1. ASSUME NEW n \in DOMAIN tasks, NEW status \in {"OPEN", "DONE", "DROPPED"},
               SetTaskStatus(n, status)
        PROVE  HolderWrites'
    BY <2>1 DEF SetTaskStatus, HolderWrites, Writing
  <2> QED BY <1>3, <1>7, <1>8, <2>1 DEF ChangesNext
<1>9. CASE UNCHANGED changesVars
  BY <1>9 DEF changesVars, HolderWrites, Writing
<1> QED BY <1>8, <1>9

(* Who waits wants the project, or has it and writes.                      *)
LEMMA WaitersAre ==
  ASSUME CodeInv, NEW r \in Requests, NEW o \in Requests, WaitsFor(r, o)
  PROVE  \/ WantsProject(r) /\ project = o
         \/ Writing(r) /\ project = r /\ o # r
BY DEF WaitsFor, CodeInv, LockOK

(* A decision holds its change and waits for the project, POST /code-tasks *)
(* holds the project and waits for the change: however many requests wait, *)
(* one of two that wait for each other is the victim, and no longer circle *)
(* of these waits needs another way out.                                   *)
THEOREM DeadlocksHaveAVictim == ChangesSpec => []DeadlocksArePairs
<1>1. CodeInv /\ HolderWrites => DeadlocksArePairs
  <2> SUFFICES ASSUME CodeInv, HolderWrites,
                      NEW r \in Requests, NEW o \in Requests, NEW u \in Requests,
                      NEW w \in Requests,
                      WaitsFor(r, o), WaitsFor(o, u), WaitsFor(u, w)
               PROVE  \E a, b \in Requests : WaitsFor(a, b) /\ WaitsFor(b, a)
    BY DEF DeadlocksArePairs
  <2>1. \A a \in Requests : Writing(a) => project = a
    BY DEF CodeInv, LockOK
  <2>2. \A a \in Requests : project = a => Writing(a) /\ ~WantsProject(a)
    BY CodeChangesAssumption DEF HolderWrites, Writing, WantsProject
  <2>3. CASE project = r
    <3>1. WantsProject(o) /\ project = u
      BY <2>2, <2>3, WaitersAre
    <3> QED BY <2>3, <3>1
  <2>4. CASE project # r
    <3>1. project = o
      BY <2>4, WaitersAre
    <3>2. WantsProject(u) /\ project = w
      BY <2>2, <3>1, WaitersAre
    <3> QED BY <3>1, <3>2
  <2> QED BY <2>3, <2>4
<1>2. ChangesInit => HolderWrites
  BY DEF ChangesInit, HolderWrites
<1>3. CodeInv /\ HolderWrites /\ [ChangesNext]_changesVars => HolderWrites'
  BY HolderWritesNext
<1> QED BY <1>1, <1>2, <1>3, CodeHolds, PTL DEF ChangesSpec
=============================================================================

-------------------------- MODULE EnvironmentProofs --------------------------
(***************************************************************************)
(* What holds of the EnvironmentHandler for every number of modules,       *)
(* Workers, setups and full scans, and every size of the queue.            *)
(***************************************************************************)
EXTENDS Environment, TimerOpsProofs, SequenceTheorems

(***************************************************************************)
(* Lists that name nothing twice                                           *)
(***************************************************************************)

\* What list.remove leaves: the elements before the place stay where they are,
\* those behind it move up by one.
LEMMA RemovedAt ==
    ASSUME NEW S, NEW s \in Seq(S), NEW i \in DOMAIN s
    PROVE  /\ RemoveAt(s, i) \in Seq(S)
           /\ DOMAIN RemoveAt(s, i) = 1..Len(s) - 1
           /\ \A k \in 1..Len(s) - 1 :
                 RemoveAt(s, i)[k] = IF k < i THEN s[k] ELSE s[k + 1]
  <1> DEFINE front == SubSeq(s, 1, i - 1)
             back == SubSeq(s, i + 1, Len(s))
  <1>1. i \in 1..Len(s) /\ Len(s) \in Nat
    OBVIOUS
  <1>2. /\ front \in Seq(S) /\ Len(front) = i - 1
        /\ \A j \in 1..i - 1 : front[j] = s[j]
    BY <1>1
  <1>3. /\ back \in Seq(S) /\ Len(back) = Len(s) - i
        /\ \A j \in 1..Len(s) - i : back[j] = s[i + j]
    BY <1>1
  <1> HIDE DEF front, back
  <1> DEFINE rest == front \o back
  <1>4. /\ rest \in Seq(S)
        /\ Len(rest) = Len(front) + Len(back)
        /\ \A j \in 1..Len(front) + Len(back) :
              rest[j] = IF j <= Len(front) THEN front[j] ELSE back[j - Len(front)]
    BY <1>2, <1>3, ConcatProperties
  <1>5. Len(rest) = Len(s) - 1
    BY <1>1, <1>2, <1>3, <1>4
  <1>6. DOMAIN rest = 1..Len(s) - 1
    BY <1>4, <1>5
  <1> HIDE DEF rest
  <1>7. ASSUME NEW k \in 1..Len(s) - 1
        PROVE  rest[k] = IF k < i THEN s[k] ELSE s[k + 1]
    <2>1. k \in 1..Len(front) + Len(back)
      BY <1>1, <1>2, <1>3, <1>7
    <2>2. CASE k < i
      <3>1. k <= Len(front) /\ k \in 1..i - 1
        BY <1>1, <1>2, <2>2
      <3> QED
        BY <1>2, <1>4, <2>1, <2>2, <3>1
    <2>3. CASE ~(k < i)
      <3>1. /\ ~(k <= Len(front)) /\ k - Len(front) = k + 1 - i
            /\ k + 1 - i \in 1..Len(s) - i /\ i + (k + 1 - i) = k + 1
        BY <1>1, <1>2, <2>3
      <3> QED
        BY <1>3, <1>4, <2>1, <2>3, <3>1
    <2> QED
      BY <2>2, <2>3
  <1>8. rest = RemoveAt(s, i)
    BY DEF rest, front, back, RemoveAt
  <1> QED
    BY <1>4, <1>6, <1>7, <1>8

\* Removing an element of such a list takes its name away and no other.
LEMMA RemovedOnce ==
    ASSUME NEW S, NEW s \in Seq(S), NEW i \in DOMAIN s, IsInjective(s)
    PROVE  /\ RemoveAt(s, i) \in Seq(S)
           /\ IsInjective(RemoveAt(s, i))
           /\ Range(RemoveAt(s, i)) = Range(s) \ {s[i]}
  <1> DEFINE r == RemoveAt(s, i)
  <1>1. i \in 1..Len(s) /\ Len(s) \in Nat /\ DOMAIN s = 1..Len(s)
    OBVIOUS
  <1>2. /\ r \in Seq(S) /\ DOMAIN r = 1..Len(s) - 1
        /\ \A k \in 1..Len(s) - 1 : r[k] = IF k < i THEN s[k] ELSE s[k + 1]
    BY RemovedAt
  <1> HIDE DEF r
  <1>3. IsInjective(r)
    <2>1. ASSUME NEW a \in DOMAIN r, NEW b \in DOMAIN r, r[a] = r[b] PROVE a = b
      <3>1. \A c, d \in DOMAIN s : s[c] = s[d] => c = d
        BY DEF IsInjective
      <3>2. PICK c \in DOMAIN s : r[a] = s[c] /\ c = IF a < i THEN a ELSE a + 1
        BY <1>1, <1>2
      <3>3. PICK d \in DOMAIN s : r[b] = s[d] /\ d = IF b < i THEN b ELSE b + 1
        BY <1>1, <1>2
      <3>4. c = d
        BY <2>1, <3>1, <3>2, <3>3
      <3> QED
        BY <1>1, <1>2, <3>2, <3>3, <3>4
    <2> QED
      BY <2>1 DEF IsInjective
  <1>4. ASSUME NEW k \in DOMAIN r PROVE r[k] \in Range(s) \ {s[i]}
    BY <1>1, <1>2 DEF IsInjective, Range
  <1>5. ASSUME NEW j \in DOMAIN s, s[j] # s[i] PROVE s[j] \in Range(r)
    <2>1. CASE j < i
      BY <1>1, <1>2, <2>1 DEF Range
    <2>2. CASE j > i
      <3>1. j - 1 \in 1..Len(s) - 1 /\ ~(j - 1 < i) /\ (j - 1) + 1 = j
        BY <1>1, <2>2
      <3> QED
        BY <1>2, <3>1 DEF Range
    <2> QED
      BY <1>1, <1>5, <2>1, <2>2
  <1> QED
    BY <1>2, <1>3, <1>4, <1>5 DEF Range, r

\* Appending a new name adds it.
LEMMA AppendedOnce ==
    ASSUME NEW S, NEW s \in Seq(S), NEW w \in S, IsInjective(s), w \notin Range(s)
    PROVE  /\ Append(s, w) \in Seq(S)
           /\ IsInjective(Append(s, w))
           /\ Range(Append(s, w)) = Range(s) \cup {w}
  <1> DEFINE r == Append(s, w)
  <1>1. Len(s) \in Nat /\ DOMAIN s = 1..Len(s)
    OBVIOUS
  <1>2. /\ r \in Seq(S) /\ DOMAIN r = 1..Len(s) + 1
        /\ \A k \in 1..Len(s) : r[k] = s[k]
        /\ r[Len(s) + 1] = w
    BY <1>1, AppendProperties
  <1> HIDE DEF r
  <1>3. \A k \in DOMAIN r : k \in DOMAIN s \/ k = Len(s) + 1
    BY <1>1, <1>2
  <1>4. IsInjective(r)
    BY <1>1, <1>2, <1>3 DEF IsInjective, Range
  <1>5. Range(r) = Range(s) \cup {w}
    BY <1>1, <1>2, <1>3 DEF Range
  <1> QED
    BY <1>2, <1>4, <1>5 DEF r

(***************************************************************************)
(* Type correctness                                                        *)
(***************************************************************************)

\* The record of a Worker is not the one that stands for none.
LEMMA RecordIsWorker == \A r \in WorkerRecord : r # NoWorker
  BY DEF WorkerRecord, WorkerStates, NoWorker

\* As long as the same numbers belong to Workers the list stays right.
LEMMA SameList ==
    ASSUME ListOK, UNCHANGED workers,
           \A w \in WorkerIds : worker'[w] = NoWorker <=> worker[w] = NoWorker
    PROVE  ListOK'
  BY DEF ListOK

\* A step that turns the record of a listed Worker into another one.
LEMMA SameWorkerList ==
    ASSUME ListOK, UNCHANGED workers, NEW w \in WorkerIds,
           worker \in [WorkerIds -> WorkerRecord \cup {NoWorker}],
           worker[w] \in WorkerRecord, NEW r \in WorkerRecord,
           worker' = [worker EXCEPT ![w] = r]
    PROVE  ListOK'
  BY SameList, RecordIsWorker

\* A Worker that is in some state is a Worker record.
LEMMA WorkerIsRecord ==
    ASSUME NEW w \in WorkerIds, SchedulerTypeOK, worker[w].state # "none"
    PROVE  worker[w] \in WorkerRecord
  <1>1. NoWorker.state = "none"
    BY DEF NoWorker
  <1> QED
    BY <1>1 DEF SchedulerTypeOK

\* What a Worker does to its record.
LEMMA WorkerChanges ==
    ASSUME NEW w \in WorkerIds, SchedulerTypeOK,
           \/ StartWorker(w) \/ CollectorEnds(w) \/ CollectorDies(w) \/ FinishedCallback(w)
    PROVE  /\ worker[w] \in WorkerRecord
           /\ \E x \in WorkerStates : worker' = [worker EXCEPT ![w].state = x]
           /\ worker' \in [WorkerIds -> WorkerRecord \cup {NoWorker}]
           /\ ListOK'
  <1>1. worker[w].state # "none" /\ UNCHANGED workers
    BY DEF StartWorker, CollectorEnds, CollectorDies, FinishedCallback
  <1>2. worker[w] \in WorkerRecord
    BY <1>1, WorkerIsRecord
  <1>3. PICK x \in WorkerStates : worker' = [worker EXCEPT ![w].state = x]
    BY DEF StartWorker, CollectorEnds, CollectorDies, FinishedCallback, WorkerStates
  <1>4. [worker[w] EXCEPT !.state = x] \in WorkerRecord
    BY <1>2, <1>3 DEF WorkerRecord
  <1>5. worker' = [worker EXCEPT ![w] = [worker[w] EXCEPT !.state = x]]
    BY <1>3
  <1>6. worker \in [WorkerIds -> WorkerRecord \cup {NoWorker}] /\ ListOK
    BY DEF SchedulerTypeOK
  <1>7. worker' \in [WorkerIds -> WorkerRecord \cup {NoWorker}]
    BY <1>4, <1>5, <1>6
  <1>8. ListOK'
    BY <1>1, <1>2, <1>4, <1>5, <1>6, SameWorkerList
  <1> QED
    BY <1>2, <1>3, <1>7, <1>8

\* A Worker that leaves the list takes its record with it and nothing else.
LEMMA LeaverGoes ==
    ASSUME NEW w \in WorkerIds, SchedulerTypeOK, LeaveList(w)
    PROVE  /\ UNCHANGED <<handler, job, timer, orphans, putting, queue>>
           /\ worker[w].state = "leaving" /\ worker'[w].state = "none"
           /\ \A v \in WorkerIds \ {w} : worker'[v] = worker[v]
           /\ worker' \in [WorkerIds -> WorkerRecord \cup {NoWorker}]
           /\ ListOK'
  <1>1. /\ UNCHANGED <<handler, job, timer, orphans, putting, queue>>
        /\ worker[w].state = "leaving" /\ worker' = [worker EXCEPT ![w] = NoWorker]
    BY DEF LeaveList
  <1>2. PICK i \in DOMAIN workers : workers[i] = w /\ workers' = RemoveAt(workers, i)
    BY DEF LeaveList
  <1>3. /\ workers \in Seq(WorkerIds) /\ IsInjective(workers)
        /\ Range(workers) = {v \in WorkerIds : worker[v] # NoWorker}
        /\ worker \in [WorkerIds -> WorkerRecord \cup {NoWorker}]
    BY DEF SchedulerTypeOK, ListOK
  <1>4. /\ workers' \in Seq(WorkerIds) /\ IsInjective(workers')
        /\ Range(workers') = Range(workers) \ {w}
    BY <1>2, <1>3, RemovedOnce
  <1>5. {v \in WorkerIds : worker'[v] # NoWorker} =
            {v \in WorkerIds : worker[v] # NoWorker} \ {w}
    BY <1>1, <1>3
  <1>6. ListOK'
    BY <1>3, <1>4, <1>5 DEF ListOK
  <1> QED
    BY <1>1, <1>3, <1>6 DEF NoWorker

\* A Worker that is appended is one that was not listed.
LEMMA NewcomerListed ==
    ASSUME NEW w \in WorkerIds, SchedulerTypeOK, RegisterWorker(w)
    PROVE  /\ worker' \in [WorkerIds -> WorkerRecord \cup {NoWorker}]
           /\ ListOK'
  <1> DEFINE new == [entry |-> job, state |-> "registered", stopped |-> FALSE]
  <1>1. new \in WorkerRecord
    BY DEF RegisterWorker, SchedulerTypeOK, WorkerRecord, WorkerStates
  <1>2. new # NoWorker
    BY <1>1, RecordIsWorker
  <1>3. /\ worker' = [worker EXCEPT ![w] = new] /\ worker[w] = NoWorker
        /\ workers' = Append(workers, w)
    BY DEF RegisterWorker, Free
  <1> HIDE DEF new
  <1>4. /\ workers \in Seq(WorkerIds) /\ IsInjective(workers)
        /\ Range(workers) = {v \in WorkerIds : worker[v] # NoWorker}
        /\ worker \in [WorkerIds -> WorkerRecord \cup {NoWorker}]
    BY DEF SchedulerTypeOK, ListOK
  <1>5. w \notin Range(workers)
    BY <1>3, <1>4
  <1>6. /\ workers' \in Seq(WorkerIds) /\ IsInjective(workers')
        /\ Range(workers') = Range(workers) \cup {w}
    BY <1>3, <1>4, <1>5, AppendedOnce
  <1>7. {v \in WorkerIds : worker'[v] # NoWorker} =
            {v \in WorkerIds : worker[v] # NoWorker} \cup {w}
    BY <1>2, <1>3, <1>4
  <1>8. ListOK'
    BY <1>4, <1>6, <1>7 DEF ListOK
  <1> QED
    BY <1>1, <1>3, <1>4, <1>8

\* stop() sets the flag of one listed Worker.
LEMMA FlagIsSet ==
    ASSUME SchedulerTypeOK, at \in Nat \ {0}, StopWorker
    PROVE  /\ \E w \in WorkerIds : /\ worker[w] \in WorkerRecord
                                    /\ worker' = [worker EXCEPT ![w].stopped = TRUE]
           /\ worker' \in [WorkerIds -> WorkerRecord \cup {NoWorker}]
           /\ ListOK'
  <1>1. /\ workers \in Seq(WorkerIds) /\ ListOK
        /\ Range(workers) = {v \in WorkerIds : worker[v] # NoWorker}
        /\ worker \in [WorkerIds -> WorkerRecord \cup {NoWorker}]
    BY DEF SchedulerTypeOK, ListOK
  <1>2. at \in DOMAIN workers
    BY <1>1 DEF StopWorker
  <1>3. PICK w \in WorkerIds : w = workers[at] /\ w \in Range(workers)
    BY <1>1, <1>2 DEF Range
  <1>4. worker[w] \in WorkerRecord
    BY <1>1, <1>3
  <1>5. worker' = [worker EXCEPT ![w].stopped = TRUE] /\ UNCHANGED workers
    BY <1>3 DEF StopWorker
  <1>6. [worker[w] EXCEPT !.stopped = TRUE] \in WorkerRecord
    BY <1>4 DEF WorkerRecord
  <1>7. worker' = [worker EXCEPT ![w] = [worker[w] EXCEPT !.stopped = TRUE]]
    BY <1>5
  <1>8. worker' \in [WorkerIds -> WorkerRecord \cup {NoWorker}]
    BY <1>1, <1>6, <1>7
  <1>9. ListOK'
    BY <1>1, <1>4, <1>5, <1>6, <1>7, SameWorkerList
  <1> QED
    BY <1>4, <1>5, <1>8, <1>9

\* A step of the handler, the timers and the Workers touches only their state.
LEMMA SchedulerFrame ==
    ASSUME Scheduler
    PROVE  UNCHANGED rpcVars
  BY DEF Scheduler, InitScanningSchedule, GetJob, DropJob, RegisterWorker,
         StartWorker, CollectorEnds, CollectorDies, FinishedCallback, LeaveList,
         FireTimer, FireOrphan, PutJob, PutFails

\* Those steps keep the types.
LEMMA SchedulerTypes ==
    ASSUME TypeOK, Scheduler
    PROVE  TypeOK'
  <1>0. DeploymentTypeOK'
    BY SchedulerFrame DEF TypeOK, DeploymentTypeOK, rpcVars
  <1>a. SchedulerTypeOK
    BY DEF TypeOK
  <1> USE DEF SchedulerTypeOK
  <1>t. timer \in [Periodic -> TimerState] /\ orphans \in [Periodic -> Nat]
    BY <1>a
  <1>l. ASSUME UNCHANGED <<worker, workers>> PROVE ListOK'
    BY <1>a, <1>l DEF ListOK
  <1>1. ASSUME InitScanningSchedule PROVE SchedulerTypeOK'
    <2>1. NewTimer \in TimerState /\ Started(NewTimer) \in TimerState
      BY NewTimerTyped, TimerCalls
    <2>2. timer' \in [Periodic -> TimerState]
      BY <1>1, <2>1 DEF InitScanningSchedule
    <2>3. queue' \in [Entries -> Nat]
      BY <1>1 DEF InitScanningSchedule
    <2> QED
      BY <1>a, <1>l, <1>1, <2>2, <2>3 DEF InitScanningSchedule
  <1>2. ASSUME NEW e \in Entries, GetJob(e) PROVE SchedulerTypeOK'
    BY <1>a, <1>l, <1>2 DEF GetJob, Foremost, Queued
  <1>3. ASSUME DropJob PROVE SchedulerTypeOK'
    BY <1>a, <1>l, <1>3 DEF DropJob
  <1>4. ASSUME NEW w \in WorkerIds, RegisterWorker(w) PROVE SchedulerTypeOK'
    <2>1. CASE Rearms(job)
      <3>1. /\ job[1] \in Periodic
            /\ timer' = [timer EXCEPT ![job[1]] = NewTimer]
            /\ orphans' = [orphans EXCEPT ![job[1]] = @ + Orphans(timer[job[1]])]
        BY <1>4, <2>1 DEF RegisterWorker, Rearms
      <3>2. timer' \in [Periodic -> TimerState] /\ orphans' \in [Periodic -> Nat]
        BY <1>t, <3>1, NewTimerTyped, TimerCalls
      <3> QED
        BY <1>a, <1>4, <3>2, NewcomerListed DEF RegisterWorker
    <2>2. CASE ~Rearms(job)
      BY <1>a, <1>4, <2>2, NewcomerListed DEF RegisterWorker
    <2> QED
      BY <2>1, <2>2
  <1>5. ASSUME NEW w \in WorkerIds, StartWorker(w) PROVE SchedulerTypeOK'
    BY <1>a, <1>5, WorkerChanges DEF StartWorker
  <1>6. ASSUME NEW w \in WorkerIds, CollectorEnds(w) \/ CollectorDies(w)
        PROVE  SchedulerTypeOK'
    BY <1>a, <1>6, WorkerChanges DEF CollectorEnds, CollectorDies
  <1>7. ASSUME NEW w \in WorkerIds, FinishedCallback(w) PROVE SchedulerTypeOK'
    <2>1. CASE Rearms(worker[w].entry)
      <3>1. /\ worker[w].entry[1] \in Periodic
            /\ StartTimer(worker[w].entry[1])
        BY <1>7, <2>1 DEF FinishedCallback, Rearms
      <3>2. timer' \in [Periodic -> TimerState] /\ orphans' \in [Periodic -> Nat]
        BY <1>t, <3>1, TimerCalls DEF StartTimer
      <3> QED
        BY <1>a, <1>7, <3>2, WorkerChanges DEF FinishedCallback
    <2>2. CASE ~Rearms(worker[w].entry)
      BY <1>a, <1>7, <2>2, WorkerChanges DEF FinishedCallback
    <2> QED
      BY <2>1, <2>2
  <1>8. ASSUME NEW w \in WorkerIds, LeaveList(w) PROVE SchedulerTypeOK'
    BY <1>a, <1>8, LeaverGoes
  <1>9. ASSUME NEW m \in Periodic, FireTimer(m) PROVE SchedulerTypeOK'
    BY <1>a, <1>l, <1>9, TimerCalls DEF FireTimer
  <1>10. ASSUME NEW m \in Periodic, FireOrphan(m) PROVE SchedulerTypeOK'
    BY <1>a, <1>l, <1>10 DEF FireOrphan
  <1>11. ASSUME NEW m \in Periodic, PutJob(m) PROVE SchedulerTypeOK'
    BY <1>a, <1>l, <1>11 DEF PutJob, Put, Entries, Modules, Kinds
  <1>12. ASSUME NEW m \in Periodic, PutFails(m) PROVE SchedulerTypeOK'
    BY <1>a, <1>l, <1>12 DEF PutFails
  <1> QED
    BY <1>0, <1>1, <1>2, <1>3, <1>4, <1>5, <1>6, <1>7, <1>8, <1>9, <1>10, <1>11, <1>12
       DEF Scheduler, TypeOK

\* The steps of the RPC thread and the setup threads keep the types: first of
\* the handler's state, then of their own.
LEMMA DeploymentTypes ==
    ASSUME TypeOK, Deployment
    PROVE  TypeOK'
  <1>a. SchedulerTypeOK /\ DeploymentTypeOK
    BY DEF TypeOK
  <1>b. ASSUME UNCHANGED schedulerVars PROVE SchedulerTypeOK'
    BY <1>a, <1>b DEF SchedulerTypeOK, ListOK, schedulerVars
  <1>l. ASSUME UNCHANGED <<worker, workers>> PROVE ListOK'
    BY <1>a, <1>l DEF SchedulerTypeOK, ListOK
  <1>n. at \in Nat \ {0} /\ at + 1 \in Nat \ {0} /\ 1 \in Nat \ {0}
    <2>1. at \in Nat \ {0}
      BY <1>a DEF DeploymentTypeOK
    <2> QED
      BY <2>1
  <1>1. CASE ApplyConfig \/ FreezeRaises \/ PauseFails
    BY <1>1, <1>a, <1>b DEF ApplyConfig, FreezeRaises, PauseFails, DeploymentTypeOK, TypeOK
  <1>2. CASE StopWorker
    <2>1. SchedulerTypeOK'
      BY <1>2, <1>a, <1>n, FlagIsSet DEF StopWorker, SchedulerTypeOK
    <2>2. DeploymentTypeOK'
      BY <1>2, <1>a, <1>n DEF StopWorker, DeploymentTypeOK
    <2> QED
      BY <2>1, <2>2 DEF TypeOK
  <1>3. CASE JoinWorker
    <2>1. at \in DOMAIN workers /\ workers \in Seq(WorkerIds)
      BY <1>3, <1>a, <1>n DEF JoinWorker, SchedulerTypeOK, ListOK
    <2>2. {workers[at]} \subseteq WorkerIds
      BY <2>1
    <2> QED
      BY <1>3, <1>a, <1>b, <1>n, <2>2 DEF JoinWorker, DeploymentTypeOK, TypeOK
  <1>4. CASE \/ AllStopped \/ JoinRaises \/ JoinReturns \/ AllJoined
             \/ PrepareFails \/ EndFullScan
    BY <1>4, <1>a, <1>b, <1>n DEF AllStopped, JoinRaises, JoinReturns, AllJoined, PrepareFails,
                            EndFullScan, DeploymentTypeOK, TypeOK
  <1>5. CASE DoFullScan
    <2>0. timer' \in [Periodic -> TimerState]
      BY <1>5, <1>a, TimerCalls DEF DoFullScan, SchedulerTypeOK
    <2>1. SchedulerTypeOK'
      BY <1>5, <1>a, <1>l, <2>0 DEF DoFullScan, SchedulerTypeOK
    <2>a. fullScans \in 0..MaxFullScans
      BY <1>a DEF DeploymentTypeOK
    <2>2. fullScans' \in 0..MaxFullScans
      BY <1>5, <2>a, EnvironmentAssumption DEF DoFullScan
    <2>3. DeploymentTypeOK'
      BY <1>5, <1>a, <2>2 DEF DoFullScan, DeploymentTypeOK
    <2> QED
      BY <2>1, <2>3 DEF TypeOK
  <1>6. ASSUME NEW m \in Modules, PauseTimer(m) PROVE TypeOK'
    <2>1. SchedulerTypeOK'
      BY <1>6, <1>a, <1>l, TimerCalls DEF PauseTimer, SchedulerTypeOK
    <2>2. DeploymentTypeOK'
      BY <1>6, <1>a DEF PauseTimer, DeploymentTypeOK
    <2> QED
      BY <2>1, <2>2 DEF TypeOK
  <1>7. ASSUME NEW m \in Modules, PutFullScan(m) PROVE TypeOK'
    <2>1. SchedulerTypeOK'
      BY <1>7, <1>a, <1>l DEF PutFullScan, Put, Entries, Kinds, SchedulerTypeOK
    <2>2. DeploymentTypeOK'
      BY <1>7, <1>a DEF PutFullScan, DeploymentTypeOK
    <2> QED
      BY <2>1, <2>2 DEF TypeOK
  <1>8. ASSUME NEW s \in Setups, StartSetup(s) \/ SetupCrashes(s) PROVE TypeOK'
    BY <1>8, <1>a, <1>b DEF StartSetup, SetupCrashes, DeploymentTypeOK, TypeOK
  <1>9. ASSUME NEW s \in Setups, Planned(s) \/ Building(s) \/ Finished(s) PROVE TypeOK'
    BY <1>9, <1>a, <1>b DEF Planned, Building, Finished, SetupStep, DeploymentTypeOK, TypeOK
  <1>10. ASSUME NEW s \in Setups, Melt(s) \/ MeltRaises(s) \/ Unfrozen(s) PROVE TypeOK'
    BY <1>10, <1>a, <1>b DEF Melt, MeltRaises, Unfrozen, Modules, DeploymentTypeOK, TypeOK
  <1>11. ASSUME NEW s \in Setups, NEW m \in Periodic, ResumeTimer(s, m) PROVE TypeOK'
    <2>1. SchedulerTypeOK'
      BY <1>11, <1>a, <1>l, TimerCalls DEF ResumeTimer, SchedulerTypeOK
    <2>2. DeploymentTypeOK'
      BY <1>11, <1>a DEF ResumeTimer, DeploymentTypeOK
    <2> QED
      BY <2>1, <2>2 DEF TypeOK
  <1> QED
    BY <1>1, <1>2, <1>3, <1>4, <1>5, <1>6, <1>7, <1>8, <1>9, <1>10, <1>11 DEF Deployment

\* Init satisfies the types.
LEMMA InitialTypes == ASSUME Init PROVE TypeOK
  <1>1. /\ timer \in [Periodic -> TimerState]
        /\ orphans \in [Periodic -> Nat]
        /\ putting \in [Periodic -> Nat]
        /\ queue \in [Entries -> Nat]
    BY NewTimerTyped DEF Init
  <1>2. worker \in [WorkerIds -> WorkerRecord \cup {NoWorker}]
    BY DEF Init
  <1>3. handler = "init" /\ job = NoJob
    BY DEF Init
  <1>4. fullScans \in 0..MaxFullScans
    <2>1. fullScans = 0
      BY Zenon DEF Init
    <2> QED
      BY <2>1, EnvironmentAssumption
  <1>5. /\ rpc = "idle" /\ graph = "live" /\ task = ""
        /\ todo \subseteq Modules /\ at = 1 /\ joining \subseteq WorkerIds
    BY DEF Init
  <1>6. /\ setup \in [Setups -> {"none"}]
        /\ resuming \in [Setups -> SUBSET Modules]
    BY DEF Init
  <1>7. SchedulerTypeOK
    <2>0. workers = <<>> /\ \A w \in WorkerIds : worker[w] = NoWorker
      BY DEF Init
    <2>1. /\ workers \in Seq(WorkerIds) /\ DOMAIN workers = {}
          /\ \A w \in WorkerIds : worker[w] = NoWorker
      BY <2>0
    <2>2. Range(workers) = {} /\ {w \in WorkerIds : worker[w] # NoWorker} = {}
      BY <2>1 DEF Range
    <2>3. IsInjective(workers)
      BY <2>1 DEF IsInjective
    <2>4. ListOK
      BY <2>1, <2>2, <2>3 DEF ListOK
    <2> QED
      BY <1>1, <1>2, <1>3, <2>4 DEF SchedulerTypeOK
  <1>8. DeploymentTypeOK
    <2>0. at = 1
      BY DEF Init
    <2>1. at \in Nat \ {0}
      BY <2>0
    <2> QED
      BY <1>4, <1>5, <1>6, <2>1 DEF DeploymentTypeOK
  <1> QED
    BY <1>7, <1>8 DEF TypeOK

\* Every variable keeps its type, whatever the configuration and the RPCs.
THEOREM TypesAreCorrect == Spec => []TypeOK
  <1>1. TypeOK /\ [Next]_vars => TypeOK'
    <2>1. ASSUME TypeOK, UNCHANGED vars PROVE TypeOK'
      BY <2>1 DEF TypeOK, SchedulerTypeOK, ListOK, DeploymentTypeOK, vars, schedulerVars, rpcVars
    <2> QED
      BY <2>1, SchedulerTypes, DeploymentTypes DEF Next
  <1> QED
    BY <1>1, InitialTypes, PTL DEF Spec

(***************************************************************************)
(* One setup at a time                                                     *)
(*                                                                         *)
(* The property alone is not inductive: applyConfig tests taskState long   *)
(* before it starts the setup thread, so the proof needs that a setup at   *)
(* work shows in taskState, and that none begins between the test and the  *)
(* start, while the RPC thread is busy.                                    *)
(***************************************************************************)
AtWork(s) == setup[s] \in {"planning", "planned", "building"}

WorkShows == (\E s \in Setups : AtWork(s)) => task \notin {"", "finished"}

NoneBegins ==
    rpc \in {"pausing", "joining", "preparing"} => \A s \in Setups : ~AtWork(s)

SetupInv == DeploymentTypeOK /\ OneSetupAtATime /\ WorkShows /\ NoneBegins

\* A step that changes neither taskState nor a setup, and begins no
\* applyConfig, keeps the invariant.
LEMMA QuietStep ==
    ASSUME SetupInv, DeploymentTypeOK', UNCHANGED <<task, setup>>, rpc' \in {rpc, "idle", "scanning"}
           \/ (rpc \in {"pausing", "joining"}
               /\ rpc' \in {"joining", "preparing"})
    PROVE  SetupInv'
  BY DEF SetupInv, OneSetupAtATime, WorkShows, NoneBegins, AtWork

\* No step breaks SetupInv.
LEMMA SetupInductive ==
    ASSUME TypeOK, SetupInv, [Next]_vars
    PROVE  SetupInv'
  <1>0. DeploymentTypeOK'
    <2>1. CASE UNCHANGED vars
      BY <2>1 DEF TypeOK, DeploymentTypeOK, vars, rpcVars
    <2> QED
      BY <2>1, SchedulerTypes, DeploymentTypes DEF Next, TypeOK
  <1> USE DEF SetupInv
  <1>1. CASE Scheduler \/ UNCHANGED vars
    <2>1. UNCHANGED rpcVars
      BY <1>1, SchedulerFrame DEF vars
    <2> QED
      BY <1>0, <2>1, QuietStep DEF rpcVars
  <1>2. CASE ApplyConfig
    <2>1. \A s \in Setups : ~AtWork(s)
      BY <1>2 DEF ApplyConfig, WorkShows
    <2> QED
      BY <1>0, <1>2, <2>1 DEF ApplyConfig, OneSetupAtATime, WorkShows, NoneBegins, AtWork
  <1>3. CASE \/ FreezeRaises \/ PauseFails \/ StopWorker
             \/ AllStopped \/ JoinWorker \/ JoinRaises \/ JoinReturns \/ AllJoined
    BY <1>0, <1>3, QuietStep DEF FreezeRaises, PauseFails, StopWorker,
                                 AllStopped, JoinWorker, JoinRaises, JoinReturns, AllJoined
  <1>4. CASE PrepareFails \/ DoFullScan \/ EndFullScan
    BY <1>0, <1>4, QuietStep DEF PrepareFails, DoFullScan, EndFullScan
  <1>5. ASSUME NEW m \in Modules, PauseTimer(m) \/ PutFullScan(m) PROVE SetupInv'
    BY <1>0, <1>5, QuietStep DEF PauseTimer, PutFullScan
  <1>6. ASSUME NEW s \in Setups, StartSetup(s) PROVE SetupInv'
    <2>1. \A r \in Setups : ~AtWork(r)
      BY <1>6 DEF StartSetup, NoneBegins
    <2>2. setup' = [setup EXCEPT ![s] = "planning"] /\ task' = "initializing" /\ rpc' = "idle"
      BY <1>6 DEF StartSetup
    <2>3. \A r \in Setups : AtWork(r)' => r = s
      BY <2>1, <2>2 DEF AtWork, DeploymentTypeOK
    <2> QED
      BY <1>0, <2>2, <2>3 DEF OneSetupAtATime, WorkShows, NoneBegins, AtWork
  <1>7. ASSUME NEW s \in Setups, Planned(s) \/ Building(s) PROVE SetupInv'
    <2>1. AtWork(s) /\ task' \in {"planned", "building"} /\ UNCHANGED rpc
      BY <1>7 DEF Planned, Building, SetupStep, AtWork
    <2>2. \A r \in Setups : AtWork(r)' => AtWork(r)
      BY <1>7 DEF Planned, Building, SetupStep, AtWork, DeploymentTypeOK
    <2> QED
      BY <1>0, <2>1, <2>2 DEF OneSetupAtATime, WorkShows, NoneBegins, AtWork
  <1>8. ASSUME NEW s \in Setups, Finished(s) PROVE SetupInv'
    <2>1. AtWork(s) /\ UNCHANGED rpc /\ setup' = [setup EXCEPT ![s] = "melting"]
      BY <1>8 DEF Finished, SetupStep, AtWork
    <2>2. \A r \in Setups : ~AtWork(r)'
      BY <2>1 DEF AtWork, OneSetupAtATime, DeploymentTypeOK
    <2> QED
      BY <1>0, <2>2 DEF OneSetupAtATime, WorkShows, NoneBegins, AtWork
  <1>9. ASSUME NEW s \in Setups,
               SetupCrashes(s) \/ Melt(s) \/ MeltRaises(s) \/ Unfrozen(s)
        PROVE  SetupInv'
    <2>1. UNCHANGED <<rpc, task>>
      BY <1>9 DEF SetupCrashes, Melt, MeltRaises, Unfrozen
    <2>2. \A r \in Setups : AtWork(r)' => AtWork(r)
      BY <1>9 DEF SetupCrashes, Melt, MeltRaises, Unfrozen, AtWork, DeploymentTypeOK
    <2> QED
      BY <1>0, <2>1, <2>2 DEF OneSetupAtATime, WorkShows, NoneBegins, AtWork
  <1>10. ASSUME NEW s \in Setups, NEW m \in Periodic, ResumeTimer(s, m) PROVE SetupInv'
    BY <1>0, <1>10, QuietStep DEF ResumeTimer
  <1> QED
    BY <1>1, <1>2, <1>3, <1>4, <1>5, <1>6, <1>7, <1>8, <1>9, <1>10 DEF Next, Deployment

\* However many configurations are applied and full scans requested, and
\* whatever fails, no two setups plan or build at the same time.
THEOREM SetupsExclude == Spec => []OneSetupAtATime
  <1>1. Init => SetupInv
    BY InitialTypes DEF Init, SetupInv, TypeOK, OneSetupAtATime, WorkShows, NoneBegins, AtWork
  <1>2. TypeOK /\ SetupInv /\ [Next]_vars => SetupInv'
    BY SetupInductive
  <1>3. SetupInv => OneSetupAtATime
    BY DEF SetupInv
  <1> QED
    BY <1>1, <1>2, <1>3, TypesAreCorrect, PTL DEF Spec

\* A setup that crashes has nobody beside it, and nobody can begin after it.
CrashInv ==
    (\E s \in Setups : setup[s] = "crashed") =>
        /\ task \notin {"", "finished"}
        /\ \A s \in Setups : ~AtWork(s)
        /\ rpc \in {"idle", "scanning"}

\* No step of an environment in which setups exclude each other breaks CrashInv.
LEMMA CrashInductive ==
    ASSUME DeploymentTypeOK, SetupInv, CrashInv, [Next]_vars
    PROVE  CrashInv'
  <1>1. CASE Scheduler \/ UNCHANGED vars
    <2>1. UNCHANGED rpcVars
      BY <1>1, SchedulerFrame DEF vars
    <2> QED
      BY <2>1 DEF rpcVars, CrashInv, AtWork
  <1>2. CASE ApplyConfig \/ FreezeRaises \/ PauseFails
    BY <1>2 DEF ApplyConfig, FreezeRaises, PauseFails, CrashInv, AtWork
  <1>3. CASE \/ StopWorker \/ AllStopped \/ JoinWorker \/ JoinRaises \/ JoinReturns \/ AllJoined
             \/ PrepareFails \/ DoFullScan \/ EndFullScan
    BY <1>3 DEF StopWorker, AllStopped, JoinWorker, JoinRaises, JoinReturns, AllJoined,
                PrepareFails, DoFullScan, EndFullScan, CrashInv, AtWork
  <1>4. ASSUME NEW m \in Modules, PauseTimer(m) \/ PutFullScan(m) PROVE CrashInv'
    BY <1>4 DEF PauseTimer, PutFullScan, CrashInv, AtWork
  <1>5. ASSUME NEW s \in Setups, StartSetup(s) PROVE CrashInv'
    BY <1>5 DEF StartSetup, CrashInv, DeploymentTypeOK
  <1>6. ASSUME NEW s \in Setups, Planned(s) \/ Building(s) \/ Finished(s) PROVE CrashInv'
    <2>1. AtWork(s) /\ \A r \in Setups : setup'[r] = "crashed" => setup[r] = "crashed"
      BY <1>6 DEF Planned, Building, Finished, SetupStep, AtWork, DeploymentTypeOK
    <2> QED
      BY <2>1 DEF CrashInv
  <1>7. ASSUME NEW s \in Setups, SetupCrashes(s) PROVE CrashInv'
    <2>1. AtWork(s) /\ UNCHANGED <<rpc, task>> /\ setup' = [setup EXCEPT ![s] = "crashed"]
      BY <1>7 DEF SetupCrashes, AtWork
    <2>2. task \notin {"", "finished"} /\ rpc \in {"idle", "scanning"}
      BY <2>1 DEF SetupInv, WorkShows, NoneBegins, DeploymentTypeOK
    <2>3. \A r \in Setups : ~AtWork(r)'
      BY <2>1 DEF SetupInv, OneSetupAtATime, AtWork, DeploymentTypeOK
    <2> QED
      BY <2>1, <2>2, <2>3 DEF CrashInv
  <1>8. ASSUME NEW s \in Setups, Melt(s) \/ MeltRaises(s) \/ Unfrozen(s) PROVE CrashInv'
    BY <1>8 DEF Melt, MeltRaises, Unfrozen, CrashInv, AtWork, DeploymentTypeOK
  <1>9. ASSUME NEW s \in Setups, NEW m \in Periodic, ResumeTimer(s, m) PROVE CrashInv'
    BY <1>9 DEF ResumeTimer, CrashInv, AtWork
  <1> QED
    BY <1>1, <1>2, <1>3, <1>4, <1>5, <1>6, <1>7, <1>8, <1>9 DEF Next, Deployment

\* Once a setup thread has died of an exception no configuration can ever be
\* applied again: nothing but a further setup would release taskState.
THEOREM CrashBlocks == Spec => []CrashedSetupBlocks
  <1>1. Init => SetupInv /\ CrashInv
    BY InitialTypes
       DEF Init, SetupInv, CrashInv, TypeOK, OneSetupAtATime, WorkShows, NoneBegins, AtWork
  <1>2. TypeOK /\ SetupInv /\ CrashInv /\ [Next]_vars => SetupInv' /\ CrashInv'
    BY SetupInductive, CrashInductive DEF TypeOK
  <1>3. CrashInv => CrashedSetupBlocks
    BY DEF CrashInv, CrashedSetupBlocks
  <1> QED
    BY <1>1, <1>2, <1>3, TypesAreCorrect, PTL DEF Spec

(***************************************************************************)
(* One Worker per module                                                   *)
(*                                                                         *)
(* Without RPCs there is one token for each periodic module: it is in its  *)
(* timer, with the pyTimer thread that puts the job, in the queue, with    *)
(* the handler or with its Worker.  Two Workers would need two tokens.     *)
(***************************************************************************)
Job(m) == <<m, "normal">>

Ticking(m) == timer[m].py = "live"
Putting(m) == putting[m] > 0
Waiting(m) == queue[Job(m)] > 0
Taken(m) == handler = "got" /\ job = Job(m)
Scanned(m) == \E w \in WorkerIds : Active(w, m)

OneToken(m) ==
    /\ orphans[m] = 0 /\ putting[m] <= 1 /\ queue[Job(m)] <= 1
    /\ Ticking(m) => ~Putting(m) /\ ~Waiting(m) /\ ~Taken(m) /\ ~Scanned(m)
    /\ Putting(m) => ~Waiting(m) /\ ~Taken(m) /\ ~Scanned(m)
    /\ Waiting(m) => ~Taken(m) /\ ~Scanned(m)
    /\ Taken(m) => ~Scanned(m)
    /\ \A v, w \in WorkerIds : Active(v, m) /\ Active(w, m) => v = w
    /\ handler = "init" => ~Ticking(m) /\ ~Putting(m) /\ ~Scanned(m)

TokenInv == SchedulerTypeOK /\ \A m \in Periodic : OneToken(m)

\* Different modules have different jobs, all of them in the queue's domain.
LEMMA Jobs ==
    /\ \A m \in Periodic : Job(m) \in Entries
    /\ \A m, n : Job(m) = Job(n) => m = n
    /\ \A e \in Entries : \A m : e = Job(m) <=> e[1] = m /\ e[2] = "normal"
  BY DEF Job, Entries, Modules, Kinds

\* A step that changes neither the Workers nor the handler leaves them with
\* their tokens.
LEMMA SameWorkers ==
    ASSUME UNCHANGED worker
    PROVE  \A m : /\ Scanned(m)' <=> Scanned(m)
                  /\ \A w : Active(w, m)' <=> Active(w, m)
  BY DEF Scanned, Active

\* A Worker that goes from one state to another, keeping its job, does not get
\* a token it had not.
LEMMA FewerWorkers ==
    ASSUME NEW w \in WorkerIds, SchedulerTypeOK,
           \A v \in WorkerIds \ {w} : worker'[v] = worker[v],
           worker[w].state \in {"registered", "running", "callback"},
           worker'[w] = NoWorker \/ worker'[w].entry = worker[w].entry
    PROVE  \A m, v : v \in WorkerIds /\ Active(v, m)' => Active(v, m)
  <1>1. NoWorker.state = "none"
    BY DEF NoWorker
  <1> QED
    BY <1>1 DEF Active

\* A Worker that leaves the list had no token any more.
LEMMA LeaverHasNone ==
    ASSUME NEW w \in WorkerIds, SchedulerTypeOK, LeaveList(w)
    PROVE  \A m : \A v \in WorkerIds : Active(v, m)' <=> Active(v, m)
  BY LeaverGoes DEF Active

\* A step that creates no token for m keeps OneToken(m).
LEMMA NoNewToken ==
    ASSUME NEW m \in Periodic, OneToken(m), handler' = "init" => handler = "init",
           orphans'[m] = orphans[m], putting'[m] \in {0, putting[m]},
           putting[m] \in Nat, queue[Job(m)] \in Nat,
           queue'[Job(m)] \in {0, queue[Job(m)]},
           Ticking(m)' => Ticking(m), Taken(m)' => Taken(m),
           \A v \in WorkerIds : Active(v, m)' => Active(v, m)
    PROVE  OneToken(m)'
  <1>1. Scanned(m)' => Scanned(m)
    BY DEF Scanned
  <1>2. Putting(m)' => Putting(m)
    BY DEF Putting
  <1>3. Waiting(m)' => Waiting(m)
    BY DEF Waiting
  <1>4. orphans'[m] = 0 /\ putting'[m] <= 1 /\ queue'[Job(m)] <= 1
    BY DEF OneToken
  <1>5. (Job(m) = Job(m)')
    BY DEF Job
  <1> QED
    BY <1>1, <1>2, <1>3, <1>4, <1>5 DEF OneToken

\* No step of the handler, the timers and the Workers makes a second token.
LEMMA TokenInductive ==
    ASSUME TokenInv, TypeOK, Scheduler
    PROVE  TokenInv'
  <1>0. SchedulerTypeOK'
    BY SchedulerTypes DEF TypeOK
  <1> SUFFICES ASSUME NEW m \in Periodic PROVE OneToken(m)'
    BY <1>0 DEF TokenInv
  <1>a. OneToken(m) /\ SchedulerTypeOK
    BY DEF TokenInv
  <1>b. /\ putting[m] \in Nat /\ orphans[m] \in Nat /\ queue[Job(m)] \in Nat
        /\ timer[m] \in TimerState /\ Job(m) \in Entries /\ m \notin OnceOnly
    BY <1>a, Jobs, EnvironmentAssumption DEF SchedulerTypeOK
  <1>1. ASSUME InitScanningSchedule PROVE OneToken(m)'
    <2>1. ~Putting(m) /\ ~Scanned(m) /\ orphans[m] = 0
      BY <1>a, <1>1 DEF InitScanningSchedule, OneToken
    <2>2. UNCHANGED <<putting, orphans, worker>> /\ handler' \in {"idle", "dead"}
      BY <1>1 DEF InitScanningSchedule
    <2>3. queue'[Job(m)] = 0
      BY <1>1, <1>b DEF InitScanningSchedule, Job
    <2> QED
      BY <1>b, <2>1, <2>2, <2>3 DEF OneToken, Putting, Waiting, Taken, Scanned, Active, Job
  <1>2. ASSUME NEW e \in Entries, GetJob(e) PROVE OneToken(m)'
    <2>1. /\ UNCHANGED <<timer, orphans, putting, worker>>
          /\ queue' = [queue EXCEPT ![e] = @ - 1] /\ queue[e] > 0
          /\ job' = e /\ handler' = "got"
      BY <1>2 DEF GetJob, Foremost, Queued
    <2>2. CASE e = Job(m)
      <3>1. queue[Job(m)] = 1 /\ queue'[Job(m)] = 0
        BY <1>a, <1>b, <2>1, <2>2 DEF OneToken, SchedulerTypeOK
      <3>2. Waiting(m) /\ ~Waiting(m)'
        BY <3>1 DEF Waiting, Job
      <3> QED
        BY <1>a, <1>b, <2>1, <3>1, <3>2 DEF OneToken, Ticking, Putting, Scanned, Active, Job
    <2>3. CASE e # Job(m)
      <3>1. queue'[Job(m)] = queue[Job(m)]
        BY <1>a, <1>b, <2>1, <2>3 DEF SchedulerTypeOK
      <3>2. ~Taken(m)'
        BY <2>1, <2>3 DEF Taken, Job
      <3> QED
        BY <1>a, <1>b, <2>1, <3>1, <3>2, NoNewToken, SameWorkers DEF Ticking
    <2> QED
      BY <2>2, <2>3
  <1>3. ASSUME DropJob PROVE OneToken(m)'
    BY <1>a, <1>b, <1>3, NoNewToken, SameWorkers DEF DropJob, Ticking, Taken
  <1>4. ASSUME NEW w \in WorkerIds, RegisterWorker(w) PROVE OneToken(m)'
    <2>1. /\ UNCHANGED <<putting, queue>> /\ handler = "got" /\ handler' = "registered"
          /\ worker' = [worker EXCEPT ![w] =
                          [entry |-> job, state |-> "registered", stopped |-> FALSE]]
          /\ worker[w] = NoWorker
      BY <1>4 DEF RegisterWorker, Free
    <2>2. \A v \in WorkerIds : Active(v, m)' <=> Active(v, m) \/ (v = w /\ job = Job(m))
      <3>1. NoWorker.state = "none"
        BY DEF NoWorker
      <3> QED
        BY <1>a, <2>1, <3>1 DEF Active, Job, SchedulerTypeOK
    <2>3. CASE job = Job(m)
      <3>1. Taken(m) /\ ~Taken(m)'
        BY <2>1, <2>3 DEF Taken
      <3>2. ~Ticking(m) /\ ~Putting(m) /\ ~Waiting(m) /\ ~Scanned(m)
        BY <1>a, <3>1 DEF OneToken
      <3>3. Rearms(job) /\ job[1] = m
        BY <2>3 DEF Rearms, Job
      <3>4. timer'[m] = NewTimer /\ orphans'[m] = 0
        BY <1>a, <1>4, <3>2, <3>3 DEF RegisterWorker, Orphans, Ticking, OneToken, SchedulerTypeOK
      <3>5. ~Ticking(m)' /\ ~Putting(m)' /\ ~Waiting(m)'
        BY <2>1, <3>2, <3>4 DEF Ticking, Putting, Waiting, NewTimer, Job
      <3>6. \A u, v \in WorkerIds : Active(u, m)' /\ Active(v, m)' => u = v
        BY <2>2, <3>2 DEF Scanned
      <3> QED
        BY <1>a, <2>1, <3>1, <3>4, <3>5, <3>6 DEF OneToken, Job
    <2>4. CASE job # Job(m)
      <3>1. Rearms(job) => job[1] # m
        BY <1>a, <2>1, <2>4, Jobs DEF Rearms, SchedulerTypeOK
      <3>2. timer'[m] = timer[m] /\ orphans'[m] = orphans[m]
        BY <1>a, <1>4, <3>1 DEF RegisterWorker, SchedulerTypeOK
      <3> QED
        BY <1>a, <1>b, <2>1, <2>2, <2>4, <3>2, NoNewToken DEF Ticking, Taken
    <2> QED
      BY <2>3, <2>4
  <1>5. ASSUME NEW w \in WorkerIds, StartWorker(w) PROVE OneToken(m)'
    <2>1. \A v \in WorkerIds : Active(v, m)' => Active(v, m)
      BY <1>a, <1>5, FewerWorkers DEF StartWorker, SchedulerTypeOK
    <2> QED
      BY <1>a, <1>b, <1>5, <2>1, NoNewToken DEF StartWorker, Ticking, Taken
  <1>6. ASSUME NEW w \in WorkerIds, CollectorEnds(w) \/ CollectorDies(w) PROVE OneToken(m)'
    <2>1. \A v \in WorkerIds : Active(v, m)' => Active(v, m)
      <3>1. worker[w].state = "running" /\ worker[w] \in WorkerRecord
        BY <1>a, <1>6, WorkerIsRecord DEF CollectorEnds, CollectorDies
      <3>2. \E s : worker' = [worker EXCEPT ![w].state = s]
        BY <1>6 DEF CollectorEnds, CollectorDies
      <3>3. worker'[w].entry = worker[w].entry /\ \A v \in WorkerIds \ {w} : worker'[v] = worker[v]
        BY <1>a, <3>1, <3>2 DEF SchedulerTypeOK, WorkerRecord
      <3> QED
        BY <1>a, <3>1, <3>3, FewerWorkers
    <2> QED
      BY <1>a, <1>b, <1>6, <2>1, NoNewToken DEF CollectorEnds, CollectorDies, Ticking, Taken
  <1>7. ASSUME NEW w \in WorkerIds, FinishedCallback(w) PROVE OneToken(m)'
    <2>1. /\ UNCHANGED <<handler, job, putting, queue>>
          /\ worker' = [worker EXCEPT ![w].state = "leaving"] /\ worker[w].state = "callback"
      BY <1>7 DEF FinishedCallback
    <2>4. worker[w] \in WorkerRecord
      BY <1>a, <2>1, WorkerIsRecord
    <2>2. worker'[w].state = "leaving" /\ \A v \in WorkerIds \ {w} : worker'[v] = worker[v]
      BY <1>a, <2>1, <2>4 DEF SchedulerTypeOK, WorkerRecord
    <2>3. \A v \in WorkerIds : Active(v, m)' <=> Active(v, m) /\ v # w
      BY <2>2 DEF Active
    <2>5. CASE worker[w].entry = Job(m)
      <3>1. Active(w, m) /\ Scanned(m)
        BY <2>1, <2>5 DEF Active, Scanned, Job
      <3>2. ~Ticking(m) /\ ~Putting(m) /\ ~Waiting(m) /\ ~Taken(m) /\ handler # "init"
        BY <1>a, <3>1 DEF OneToken
      <3>3. ~Scanned(m)' /\ \A v \in WorkerIds : ~Active(v, m)'
        BY <1>a, <2>3, <3>1 DEF OneToken, Scanned
      <3>4. orphans'[m] = 0
        <4>1. Rearms(worker[w].entry) /\ worker[w].entry[1] = m
          BY <2>5 DEF Rearms, Job
        <4> QED
          BY <1>a, <1>7, <3>2, <4>1
             DEF FinishedCallback, StartTimer, Orphans, Ticking, OneToken, SchedulerTypeOK
      <3>5. ~Putting(m)' /\ ~Waiting(m)' /\ ~Taken(m)' /\ handler' # "init"
        BY <2>1, <3>2 DEF Putting, Waiting, Taken, Job
      <3> QED
        BY <1>a, <2>1, <3>3, <3>4, <3>5 DEF OneToken, Job
    <2>6. CASE worker[w].entry # Job(m)
      <3>1. Rearms(worker[w].entry) => worker[w].entry[1] # m
        BY <2>4, <2>6, Jobs DEF Rearms, WorkerRecord
      <3>2. timer'[m] = timer[m] /\ orphans'[m] = orphans[m]
        BY <1>a, <1>7, <3>1 DEF FinishedCallback, StartTimer, SchedulerTypeOK
      <3> QED
        BY <1>a, <1>b, <2>1, <2>3, <3>2, NoNewToken DEF Ticking, Taken
    <2> QED
      BY <2>5, <2>6
  <1>8. ASSUME NEW n \in Periodic, FireTimer(n) PROVE OneToken(m)'
    <2>1. /\ UNCHANGED <<handler, job, orphans, queue, worker>>
          /\ timer' = [timer EXCEPT ![n] = AfterFire(@)] /\ timer[n].py = "live"
          /\ putting' = [putting EXCEPT ![n] = @ + 1]
      BY <1>8 DEF FireTimer
    <2>2. CASE n = m
      <3>1. Ticking(m)
        BY <2>1, <2>2 DEF Ticking
      <3>2. ~Putting(m) /\ ~Waiting(m) /\ ~Taken(m) /\ ~Scanned(m)
        BY <1>a, <3>1 DEF OneToken
      <3>3. ~Ticking(m)'
        BY <1>a, <1>b, <2>1, <2>2 DEF Ticking, AfterFire, SchedulerTypeOK, TimerState
      <3>4. putting'[m] = 1
        BY <1>a, <1>b, <2>1, <2>2, <3>2 DEF Putting, SchedulerTypeOK
      <3>5. ~Waiting(m)' /\ ~Taken(m)' /\ ~Scanned(m)'
        BY <2>1, <3>2, SameWorkers DEF Waiting, Taken, Job
      <3>6. handler # "init"
        BY <1>a, <1>8, <3>1 DEF OneToken
      <3> QED
        BY <1>a, <2>1, <3>3, <3>4, <3>5, <3>6, SameWorkers DEF OneToken, Job
    <2>3. CASE n # m
      BY <1>a, <1>b, <2>1, <2>3, NoNewToken, SameWorkers DEF Ticking, Taken, SchedulerTypeOK
    <2> QED
      BY <2>2, <2>3
  <1>9. ASSUME NEW n \in Periodic, FireOrphan(n) PROVE OneToken(m)'
    <2>1. orphans[n] = 0 /\ orphans[n] > 0
      BY <1>9 DEF FireOrphan, TokenInv, OneToken
    <2> QED
      BY <2>1
  <1>10. ASSUME NEW n \in Periodic, PutJob(n) PROVE OneToken(m)'
    <2>1. /\ UNCHANGED <<handler, job, timer, orphans, worker>> /\ putting[n] > 0
          /\ queue' = [queue EXCEPT ![Job(n)] = @ + 1]
          /\ putting' = [putting EXCEPT ![n] = @ - 1]
      BY <1>10 DEF PutJob, Put, Job
    <2>2. CASE n = m
      <3>1. Putting(m)
        BY <2>1, <2>2 DEF Putting
      <3>2. /\ ~Ticking(m) /\ ~Waiting(m) /\ ~Taken(m) /\ ~Scanned(m)
            /\ handler # "init" /\ putting[m] = 1
        BY <1>a, <1>b, <3>1 DEF OneToken, Putting
      <3>3. putting'[m] = 0 /\ queue'[Job(m)] = 1
        BY <1>a, <1>b, <2>1, <2>2, <3>2 DEF Waiting, SchedulerTypeOK
      <3>4. ~Ticking(m)' /\ ~Putting(m)' /\ ~Taken(m)' /\ ~Scanned(m)'
        BY <2>1, <3>2, <3>3, SameWorkers DEF Ticking, Putting, Taken, Job
      <3> QED
        BY <1>a, <2>1, <3>2, <3>3, <3>4, SameWorkers DEF OneToken, Job
    <2>3. CASE n # m
      <3>1. queue'[Job(m)] = queue[Job(m)] /\ putting'[m] = putting[m]
        BY <1>a, <1>b, <2>1, <2>3, Jobs DEF SchedulerTypeOK
      <3> QED
        BY <1>a, <1>b, <2>1, <3>1, NoNewToken, SameWorkers DEF Ticking, Taken
    <2> QED
      BY <2>2, <2>3
  <1>11. ASSUME NEW n \in Periodic, PutFails(n) PROVE OneToken(m)'
    <2>1. /\ UNCHANGED <<handler, job, timer, orphans, queue, worker>>
          /\ putting' = [putting EXCEPT ![n] = @ - 1] /\ putting[n] > 0
      BY <1>11 DEF PutFails
    <2>2. putting'[m] \in {0, putting[m]}
      BY <1>a, <1>b, <2>1 DEF OneToken, SchedulerTypeOK
    <2> QED
      BY <1>a, <1>b, <2>1, <2>2, NoNewToken, SameWorkers DEF Ticking, Taken
  <1>12. ASSUME NEW w \in WorkerIds, LeaveList(w) PROVE OneToken(m)'
    BY <1>a, <1>b, <1>12, LeaverGoes, LeaverHasNone, NoNewToken DEF Ticking, Taken
  <1> QED
    BY <1>1, <1>2, <1>3, <1>4, <1>5, <1>6, <1>7, <1>8, <1>9, <1>10, <1>11, <1>12 DEF Scheduler

\* Whatever the handler, the timers and the Workers do each periodic module has
\* one token at most.
LEMMA TokensHold == SchedulerSpec => [](TypeOK /\ TokenInv)
  <1>1. Init => TypeOK /\ TokenInv
    <2>1. ASSUME Init PROVE \A m \in Periodic : OneToken(m)
      <3> SUFFICES ASSUME NEW m \in Periodic PROVE OneToken(m)
        OBVIOUS
      <3>1. NewTimer.py = "none" /\ NoWorker.state = "none"
        BY DEF NewTimer, NoWorker
      <3>2. /\ timer = [n \in Periodic |-> NewTimer] /\ handler = "init"
            /\ worker = [w \in WorkerIds |-> NoWorker]
        BY <2>1 DEF Init
      <3>3. orphans[m] = 0 /\ putting[m] = 0 /\ queue[Job(m)] = 0
        BY <2>1, Jobs, Zenon DEF Init
      <3>4. ~Ticking(m) /\ ~Taken(m) /\ \A w \in WorkerIds : ~Active(w, m)
        BY <3>1, <3>2 DEF Ticking, Taken, Active
      <3> QED
        BY <3>3, <3>4 DEF OneToken, Putting, Waiting, Scanned
    <2> QED
      BY <2>1, InitialTypes DEF TokenInv, TypeOK
  <1>2. ASSUME TypeOK, TokenInv, [Scheduler]_vars PROVE TypeOK' /\ TokenInv'
    <2>1. CASE Scheduler
      BY <1>2, <2>1, SchedulerTypes, TokenInductive
    <2>2. CASE UNCHANGED vars
      <3>1. UNCHANGED schedulerVars /\ UNCHANGED rpcVars
        BY <2>2 DEF vars
      <3>2. SchedulerTypeOK' /\ DeploymentTypeOK'
        BY <1>2, <3>1 DEF TypeOK, SchedulerTypeOK, ListOK, DeploymentTypeOK, schedulerVars, rpcVars
      <3>3. ASSUME NEW m \in Periodic PROVE OneToken(m)'
        BY <1>2, <3>1 DEF TokenInv, OneToken, Ticking, Putting, Waiting, Taken, Scanned,
                          Active, Job, schedulerVars
      <3> QED
        BY <3>2, <3>3 DEF TypeOK, TokenInv
    <2> QED
      BY <1>2, <2>1, <2>2
  <1> QED
    BY <1>1, <1>2, PTL DEF SchedulerSpec

\* As long as nobody calls an RPC no module is ever scanned by two Workers at
\* once, for every number of modules and Workers and every size of the queue.
THEOREM WorkersExclude == SchedulerSpec => []OneWorkerPerModule
  <1>1. TokenInv => OneWorkerPerModule
    BY DEF TokenInv, OneToken, OneWorkerPerModule
  <1> QED
    BY <1>1, TokensHold, PTL

(***************************************************************************)
(* A module that is to run once                                            *)
(***************************************************************************)

\* With such a module the handler is dead from the start, and the RPC thread
\* never gets past the pausing, since None cannot be paused.
OnceOnlyInv ==
    OnceOnly # {} =>
        /\ handler \in {"init", "dead"}
        /\ \A s \in Setups : setup[s] = "none"
        /\ rpc \in {"idle", "pausing"}
        /\ rpc = "pausing" => OnceOnly \subseteq todo
        /\ joining = {}
        /\ \A w \in WorkerIds : worker[w] = NoWorker

\* No step breaks it.
LEMMA OnceOnlyInductive ==
    ASSUME OnceOnlyInv, [Next]_vars
    PROVE  OnceOnlyInv'
  <1> SUFFICES ASSUME OnceOnly # {} PROVE OnceOnlyInv'
    BY DEF OnceOnlyInv
  <1>a. /\ handler \in {"init", "dead"} /\ \A s \in Setups : setup[s] = "none"
        /\ rpc \in {"idle", "pausing"} /\ (rpc = "pausing" => OnceOnly \subseteq todo)
        /\ \A w \in WorkerIds : worker[w] = NoWorker
    BY DEF OnceOnlyInv
  <1>j. joining = {}
    BY DEF OnceOnlyInv
  <1>1. CASE UNCHANGED vars
    BY <1>a, <1>j, <1>1 DEF OnceOnlyInv, vars, schedulerVars, rpcVars
  <1>2. CASE Scheduler
    <2>1. UNCHANGED rpcVars
      BY <1>2, SchedulerFrame
    <2>2. \A w \in WorkerIds : worker[w].state = "none"
      BY <1>a DEF NoWorker
    <2>3. handler' \in {"init", "dead"} /\ UNCHANGED worker
      BY <1>a, <1>2, <2>2 DEF Scheduler, InitScanningSchedule, GetJob, DropJob, RegisterWorker,
         StartWorker, CollectorEnds, CollectorDies, FinishedCallback, LeaveList,
         FireTimer, FireOrphan, PutJob, PutFails
    <2> QED
      BY <1>a, <1>j, <2>1, <2>3 DEF OnceOnlyInv, rpcVars
  <1>3. CASE ApplyConfig \/ FreezeRaises \/ PauseFails
    BY <1>a, <1>j, <1>3 DEF ApplyConfig, FreezeRaises, PauseFails, OnceOnlyInv, Modules, schedulerVars
  <1>4. CASE \/ StopWorker \/ AllStopped \/ JoinWorker \/ JoinRaises \/ JoinReturns \/ AllJoined
             \/ PrepareFails \/ DoFullScan \/ EndFullScan
    BY <1>a, <1>j, <1>4, EnvironmentAssumption
       DEF StopWorker, AllStopped, JoinWorker, JoinRaises, JoinReturns, AllJoined,
           PrepareFails, DoFullScan, EndFullScan, OnceOnlyInv
  <1>5. ASSUME NEW m \in Modules, PauseTimer(m) \/ PutFullScan(m) PROVE OnceOnlyInv'
    BY <1>a, <1>j, <1>5, EnvironmentAssumption DEF PauseTimer, PutFullScan, OnceOnlyInv
  <1>6. ASSUME NEW s \in Setups,
               \/ StartSetup(s) \/ Planned(s) \/ Building(s) \/ Finished(s) \/ SetupCrashes(s)
               \/ Melt(s) \/ MeltRaises(s) \/ Unfrozen(s)
               \/ \E m \in Periodic : ResumeTimer(s, m)
        PROVE  FALSE
    BY <1>a, <1>6 DEF StartSetup, Planned, Building, Finished, SetupStep, SetupCrashes,
                      Melt, MeltRaises, Unfrozen, ResumeTimer
  <1> QED
    BY <1>1, <1>2, <1>3, <1>4, <1>5, <1>6 DEF Next, Deployment

LEMMA OnceOnlyFollows == Spec => []OnceOnlyInv
  <1>1. Init => OnceOnlyInv
    BY Zenon DEF Init, OnceOnlyInv
  <1>2. OnceOnlyInv /\ [Next]_vars => OnceOnlyInv'
    BY OnceOnlyInductive
  <1> QED
    BY <1>1, <1>2, PTL DEF Spec

\* One module without an interval is enough: no configuration is ever deployed,
THEOREM OnceOnlyBlocks == Spec => []OnceOnlyPreventsSetups
  <1>1. OnceOnlyInv => OnceOnlyPreventsSetups
    BY DEF OnceOnlyInv, OnceOnlyPreventsSetups
  <1> QED
    BY <1>1, OnceOnlyFollows, PTL

\* and no collector is ever started.
THEOREM OnceOnlyStopsScans == Spec => []OnceOnlyPreventsScans
  <1>1. OnceOnlyInv => OnceOnlyPreventsScans
    BY DEF OnceOnlyInv, OnceOnlyPreventsScans
  <1> QED
    BY <1>1, OnceOnlyFollows, PTL

(***************************************************************************)
(* A queueSize in environment.conf                                         *)
(***************************************************************************)

\* put() raises for every job when the bound of the queue is a str, so that
\* nothing is ever queued and the handler waits for ever.
NothingQueued ==
    /\ queue \in [Entries -> {0}]
    /\ handler \in {"init", "idle", "dead"}
    /\ \A w \in WorkerIds : worker[w] = NoWorker

\* No step queues anything then.
LEMMA NothingQueuedInductive ==
    ASSUME TypeOK, SizeIsText, NothingQueued, [Next]_vars
    PROVE  NothingQueued'
  <1> USE DEF NothingQueued
  <1>1. ~Room /\ Foremost = {}
    BY DEF Room, Foremost, Queued
  <1>2. \A w \in WorkerIds : worker[w].state = "none"
    BY DEF NoWorker
  <1>3. CASE InitScanningSchedule
    <2>1. queue' \in [Entries -> {0}]
      BY <1>3 DEF InitScanningSchedule
    <2> QED
      BY <1>3, <2>1 DEF InitScanningSchedule
  <1>4. CASE Scheduler /\ ~InitScanningSchedule
    BY <1>1, <1>2, <1>4
       DEF Scheduler, GetJob, DropJob, RegisterWorker, StartWorker, CollectorEnds,
           CollectorDies, FinishedCallback, LeaveList, FireTimer, FireOrphan, PutJob, PutFails
  <1>5. CASE \/ ApplyConfig \/ FreezeRaises \/ PauseFails \/ PrepareFails
             \/ AllStopped \/ JoinWorker \/ JoinRaises \/ JoinReturns \/ AllJoined
             \/ DoFullScan \/ EndFullScan \/ UNCHANGED vars
    BY <1>5 DEF ApplyConfig, FreezeRaises, PauseFails, PrepareFails,
                AllStopped, JoinWorker, JoinRaises, JoinReturns, AllJoined,
                DoFullScan, EndFullScan, vars, schedulerVars
  <1>6. CASE StopWorker
    <2>1. \E w \in WorkerIds : worker[w] \in WorkerRecord
      BY <1>6, FlagIsSet DEF TypeOK, DeploymentTypeOK
    <2> QED
      BY <2>1, RecordIsWorker
  <1>7. ASSUME NEW m \in Modules, PauseTimer(m) \/ PutFullScan(m) PROVE NothingQueued'
    BY <1>1, <1>7 DEF PauseTimer, PutFullScan
  <1>8. ASSUME NEW s \in Setups,
               \/ StartSetup(s) \/ Planned(s) \/ Building(s) \/ Finished(s) \/ SetupCrashes(s)
               \/ Melt(s) \/ MeltRaises(s) \/ Unfrozen(s)
               \/ \E m \in Periodic : ResumeTimer(s, m)
        PROVE  NothingQueued'
    BY <1>8 DEF StartSetup, Planned, Building, Finished, SetupStep, SetupCrashes,
                Melt, MeltRaises, Unfrozen, ResumeTimer, schedulerVars
  <1> QED
    BY <1>3, <1>4, <1>5, <1>6, <1>7, <1>8 DEF Next, Deployment

\* In an environment whose configuration gives a queueSize no collector is ever
\* started, although its interval asks for it.
THEOREM TextSizeStopsScanning ==
    ASSUME SizeIsText
    PROVE  Spec => [](\A w \in WorkerIds : worker[w] = NoWorker)
  <1>1. Init => NothingQueued
    BY Zenon DEF Init, NothingQueued
  <1>2. TypeOK /\ NothingQueued /\ [Next]_vars => NothingQueued'
    BY NothingQueuedInductive
  <1>3. NothingQueued => \A w \in WorkerIds : worker[w] = NoWorker
    BY DEF NothingQueued
  <1> QED
    BY <1>1, <1>2, <1>3, TypesAreCorrect, PTL DEF Spec

(***************************************************************************)
(* The graph a setup builds on                                             *)
(*                                                                         *)
(* applyConfig freezes the graph long before the setup it starts builds;   *)
(* the graph has to stay frozen, but for the late melt of another setup,   *)
(* from the freeze on.                                                     *)
(***************************************************************************)
MeltedBy(S) == graph = "frozen" \/ \E r \in S : setup[r] \in {"resuming", "done"}

MeltInv ==
    /\ rpc \in {"pausing", "joining", "preparing"} => MeltedBy(Setups)
    /\ \A s \in Setups : AtWork(s) => MeltedBy(Setups \ {s})

\* A step that leaves the graph as it is, undoes no melt, begins no applyConfig
\* and puts no setup to work keeps the invariant.
LEMMA MeltQuiet ==
    ASSUME MeltInv, UNCHANGED graph,
           rpc' \in {rpc, "idle", "scanning"} \/ rpc \in {"pausing", "joining"},
           \A r \in Setups : /\ AtWork(r)' => AtWork(r)
                             /\ setup[r] \in {"resuming", "done"} => setup'[r] \in {"resuming", "done"}
    PROVE  MeltInv'
  BY DEF MeltInv, MeltedBy, AtWork

\* No step breaks it, as long as no freeze begins while a setup is at work.
LEMMA MeltInductive ==
    ASSUME TypeOK, SetupInv, MeltInv, [Next]_vars
    PROVE  MeltInv'
  <1> USE DEF TypeOK, DeploymentTypeOK
  <1>1. CASE Scheduler \/ UNCHANGED vars
    <2>1. UNCHANGED rpcVars
      BY <1>1, SchedulerFrame DEF vars
    <2> QED
      BY <2>1, MeltQuiet DEF rpcVars, AtWork
  <1>2. CASE ApplyConfig
    BY <1>2 DEF ApplyConfig, MeltInv, MeltedBy, AtWork
  <1>3. CASE FreezeRaises
    <2>1. \A s \in Setups : ~AtWork(s)
      BY <1>3 DEF FreezeRaises, SetupInv, WorkShows
    <2> QED
      BY <1>3, <2>1 DEF FreezeRaises, MeltInv, AtWork
  <1>4. CASE \/ PauseFails \/ StopWorker
             \/ AllStopped \/ JoinWorker \/ JoinRaises \/ JoinReturns \/ AllJoined
    BY <1>4, MeltQuiet DEF PauseFails, StopWorker,
                           AllStopped, JoinWorker, JoinRaises, JoinReturns, AllJoined, AtWork
  <1>5. CASE PrepareFails \/ DoFullScan \/ EndFullScan
    BY <1>5, MeltQuiet DEF PrepareFails, DoFullScan, EndFullScan, AtWork
  <1>6. ASSUME NEW m \in Modules, PauseTimer(m) \/ PutFullScan(m) PROVE MeltInv'
    BY <1>6, MeltQuiet DEF PauseTimer, PutFullScan, AtWork
  <1>7. ASSUME NEW s \in Setups, StartSetup(s) PROVE MeltInv'
    <2>1. /\ MeltedBy(Setups) /\ setup[s] = "none" /\ rpc' = "idle" /\ UNCHANGED graph
          /\ setup' = [setup EXCEPT ![s] = "planning"]
      BY <1>7 DEF StartSetup, MeltInv
    <2>2. MeltedBy(Setups \ {s})'
      BY <2>1 DEF MeltedBy
    <2>3. \A r \in Setups \ {s} : ~AtWork(r)'
      BY <1>7 DEF StartSetup, SetupInv, NoneBegins, AtWork
    <2> QED
      BY <2>1, <2>2, <2>3 DEF MeltInv
  <1>8. ASSUME NEW s \in Setups,
               \/ Planned(s) \/ Building(s) \/ Finished(s) \/ SetupCrashes(s) \/ Unfrozen(s)
        PROVE  MeltInv'
    <2>1. \A r \in Setups : /\ AtWork(r)' => AtWork(r)
                            /\ setup[r] \in {"resuming", "done"} => setup'[r] \in {"resuming", "done"}
      BY <1>8 DEF Planned, Building, Finished, SetupStep, SetupCrashes, Unfrozen, AtWork
    <2>2. UNCHANGED <<graph, rpc>>
      BY <1>8 DEF Planned, Building, Finished, SetupStep, SetupCrashes, Unfrozen
    <2> QED
      BY <2>1, <2>2, MeltQuiet
  <1>9. ASSUME NEW s \in Setups, Melt(s) \/ MeltRaises(s) PROVE MeltInv'
    <2>1. /\ UNCHANGED rpc /\ setup'[s] \in {"resuming", "done"}
          /\ \A r \in Setups \ {s} : setup'[r] = setup[r]
      BY <1>9 DEF Melt, MeltRaises
    <2>2. \A r \in Setups : AtWork(r)' => r # s
      BY <2>1 DEF AtWork
    <2> QED
      BY <2>1, <2>2 DEF MeltInv, MeltedBy
  <1>10. ASSUME NEW s \in Setups, NEW m \in Periodic, ResumeTimer(s, m) PROVE MeltInv'
    BY <1>10, MeltQuiet DEF ResumeTimer, AtWork
  <1> QED
    BY <1>1, <1>2, <1>3, <1>4, <1>5, <1>6, <1>7, <1>8, <1>9, <1>10 DEF Next, Deployment

\* While a setup builds, only a setup before it that is late can have melted the
\* graph, whatever calls come and fail.
THEOREM OnlyAnotherMelts == Spec => []MeltedOnlyByAnother
  <1>1. Init => SetupInv /\ MeltInv
    BY InitialTypes
       DEF Init, SetupInv, MeltInv, TypeOK, OneSetupAtATime, WorkShows, NoneBegins, AtWork
  <1>2. TypeOK /\ SetupInv /\ MeltInv /\ [Next]_vars => SetupInv' /\ MeltInv'
    BY SetupInductive, MeltInductive
  <1>3. MeltInv => MeltedOnlyByAnother
    BY DEF MeltInv, MeltedOnlyByAnother, MeltedBy, AtWork
  <1> QED
    BY <1>1, <1>2, <1>3, TypesAreCorrect, PTL DEF Spec

(***************************************************************************)
(* A dead collector                                                        *)
(*                                                                         *)
(* A Worker takes the one token of its module with it when it ends without *)
(* its callback.                                                           *)
(***************************************************************************)
Ended(m) == \E w \in WorkerIds : worker[w].entry = Job(m) /\ worker[w].state = "ended"

NoToken(m) == ~Ticking(m) /\ ~Putting(m) /\ ~Waiting(m) /\ ~Taken(m) /\ ~Scanned(m)

DeadInv == \A m \in Periodic : Ended(m) => handler # "init" /\ NoToken(m)

\* No step of the handler, the timers and the Workers schedules the module of a
\* dead collector again.
LEMMA DeadInductive ==
    ASSUME TypeOK, TokenInv, DeadInv, Scheduler
    PROVE  DeadInv'
  <1> SUFFICES ASSUME NEW m \in Periodic
               PROVE  Ended(m)' => handler' # "init" /\ NoToken(m)'
    BY DEF DeadInv
  <1>a. OneToken(m) /\ SchedulerTypeOK
    BY DEF TokenInv
  <1>b. /\ putting[m] \in Nat /\ queue[Job(m)] \in Nat /\ timer[m] \in TimerState
        /\ Job(m) \in Entries
    BY <1>a, Jobs DEF SchedulerTypeOK
  <1>c. Ended(m) => handler # "init" /\ NoToken(m)
    BY DEF DeadInv
  <1> DEFINE Goal == Ended(m)' => handler' # "init" /\ NoToken(m)'
  <1>1. ASSUME InitScanningSchedule PROVE Goal
    BY <1>1, <1>c DEF InitScanningSchedule, Ended, Job
  <1>2. ASSUME NEW e \in Entries, GetJob(e) PROVE Goal
    <2>1. /\ UNCHANGED <<timer, putting, worker>> /\ handler' = "got" /\ job' = e
          /\ queue' = [queue EXCEPT ![e] = @ - 1] /\ queue[e] > 0
      BY <1>2 DEF GetJob, Foremost, Queued
    <2>2. NoToken(m) => e # Job(m)
      BY <2>1 DEF NoToken, Waiting
    <2>3. NoToken(m) => NoToken(m)'
      BY <1>a, <1>b, <2>1, <2>2, SameWorkers
         DEF NoToken, Ticking, Putting, Waiting, Taken, Job, SchedulerTypeOK
    <2> QED
      BY <1>c, <2>1, <2>3 DEF Ended, Job
  <1>3. ASSUME DropJob PROVE Goal
    BY <1>3, <1>c, SameWorkers
       DEF DropJob, Ended, NoToken, Ticking, Putting, Waiting, Taken, Job
  <1>4. ASSUME NEW w \in WorkerIds, RegisterWorker(w) PROVE Goal
    <2>1. /\ UNCHANGED <<putting, queue>> /\ handler = "got" /\ handler' = "registered"
          /\ worker' = [worker EXCEPT ![w] =
                          [entry |-> job, state |-> "registered", stopped |-> FALSE]]
      BY <1>4 DEF RegisterWorker
    <2>2. Ended(m)' => Ended(m)
      BY <1>a, <2>1 DEF Ended, Job, SchedulerTypeOK
    <2>3. ASSUME NoToken(m) PROVE NoToken(m)'
      <3>1. job # Job(m) /\ job \in Entries
        BY <1>a, <2>1, <2>3 DEF NoToken, Taken, SchedulerTypeOK
      <3>2. Rearms(job) => job[1] # m
        BY <3>1, Jobs DEF Rearms
      <3>3. timer'[m] = timer[m]
        BY <1>a, <1>4, <3>2 DEF RegisterWorker, SchedulerTypeOK
      <3>4. \A v \in WorkerIds : Active(v, m)' => Active(v, m)
        BY <1>a, <2>1, <3>1 DEF Active, Job, SchedulerTypeOK
      <3> QED
        BY <2>1, <2>3, <3>3, <3>4
           DEF NoToken, Ticking, Putting, Waiting, Taken, Scanned, Job
    <2> QED
      BY <1>c, <2>1, <2>2, <2>3
  <1>5. ASSUME NEW w \in WorkerIds, StartWorker(w) PROVE Goal
    <2>1. /\ UNCHANGED <<timer, putting, queue>> /\ handler' = "idle"
          /\ worker[w].state = "registered"
          /\ worker' = [worker EXCEPT ![w].state = "running"]
      BY <1>5 DEF StartWorker
    <2>2. worker[w] \in WorkerRecord
      BY <1>a, <2>1, WorkerIsRecord
    <2>3. \A v \in WorkerIds : Active(v, m)' => Active(v, m)
      BY <1>a, <2>1, FewerWorkers DEF SchedulerTypeOK
    <2>4. Ended(m)' => Ended(m)
      BY <1>a, <2>1, <2>2 DEF Ended, Job, SchedulerTypeOK, WorkerRecord
    <2> QED
      BY <1>c, <2>1, <2>3, <2>4
         DEF NoToken, Ticking, Putting, Waiting, Taken, Scanned, Job
  <1>6. ASSUME NEW w \in WorkerIds, CollectorEnds(w) \/ CollectorDies(w) PROVE Goal
    <2>1. /\ UNCHANGED <<handler, job, timer, putting, queue>>
          /\ worker[w].state = "running"
          /\ \E s \in {"ended", "callback"} : worker' = [worker EXCEPT ![w].state = s]
      BY <1>6 DEF CollectorEnds, CollectorDies
    <2>2. worker[w] \in WorkerRecord
      BY <1>a, <2>1, WorkerIsRecord
    <2>3. /\ worker'[w].entry = worker[w].entry
          /\ worker'[w].state \in {"ended", "callback"}
          /\ \A v \in WorkerIds \ {w} : worker'[v] = worker[v]
      BY <1>a, <2>1, <2>2 DEF SchedulerTypeOK, WorkerRecord
    <2>4. \A v \in WorkerIds : Active(v, m)' => Active(v, m)
      BY <1>a, <2>1, <2>3, FewerWorkers
    <2>5. NoToken(m) => NoToken(m)'
      BY <2>1, <2>4 DEF NoToken, Ticking, Putting, Waiting, Taken, Scanned, Job
    <2>6. CASE Ended(m)
      BY <1>c, <2>1, <2>5, <2>6
    <2>7. CASE ~Ended(m) /\ Ended(m)'
      <3>1. worker[w].entry = Job(m) /\ worker'[w].state = "ended"
        BY <2>3, <2>7 DEF Ended, Job
      <3>2. Active(w, m)
        BY <2>1, <3>1 DEF Active, Job
      <3>3. \A v \in WorkerIds : ~Active(v, m)'
        <4>1. \A v \in WorkerIds : Active(v, m) => v = w
          BY <1>a, <3>2 DEF OneToken
        <4>2. ~Active(w, m)'
          BY <3>1 DEF Active
        <4> QED
          BY <2>4, <4>1, <4>2
      <3>4. Scanned(m)
        BY <3>2 DEF Scanned
      <3>5. ~Ticking(m) /\ ~Putting(m) /\ ~Waiting(m) /\ ~Taken(m) /\ handler # "init"
        BY <1>a, <3>4 DEF OneToken
      <3> QED
        BY <2>1, <3>3, <3>5 DEF NoToken, Ticking, Putting, Waiting, Taken, Scanned, Job
    <2> QED
      BY <2>6, <2>7
  <1>7. ASSUME NEW w \in WorkerIds, FinishedCallback(w) PROVE Goal
    <2>1. /\ UNCHANGED <<handler, job, putting, queue>> /\ worker[w].state = "callback"
          /\ worker' = [worker EXCEPT ![w].state = "leaving"]
      BY <1>7 DEF FinishedCallback
    <2>2. worker[w] \in WorkerRecord
      BY <1>a, <2>1, WorkerIsRecord
    <2>a. worker'[w].state = "leaving" /\ \A v \in WorkerIds \ {w} : worker'[v] = worker[v]
      BY <1>a, <2>1, <2>2 DEF SchedulerTypeOK, WorkerRecord
    <2>3. \A v \in WorkerIds : Active(v, m)' => Active(v, m)
      BY <2>a DEF Active
    <2>4. Ended(m)' => Ended(m)
      BY <2>a DEF Ended, Job
    <2>5. ASSUME NoToken(m) PROVE NoToken(m)'
      <3>1. worker[w].entry # Job(m)
        BY <2>1, <2>5 DEF NoToken, Scanned, Active, Job
      <3>2. Rearms(worker[w].entry) => worker[w].entry[1] # m
        BY <2>2, <3>1, Jobs DEF Rearms, WorkerRecord
      <3>3. timer'[m] = timer[m]
        BY <1>a, <1>7, <3>2 DEF FinishedCallback, StartTimer, SchedulerTypeOK
      <3> QED
        BY <2>1, <2>3, <2>5, <3>3
           DEF NoToken, Ticking, Putting, Waiting, Taken, Scanned, Job
    <2> QED
      BY <1>c, <2>1, <2>4, <2>5
  <1>8. ASSUME NEW n \in Periodic, FireTimer(n) \/ FireOrphan(n) PROVE Goal
    <2>1. /\ UNCHANGED <<handler, job, queue, worker>>
          /\ putting' = [putting EXCEPT ![n] = @ + 1]
          /\ timer' = timer \/ timer' = [timer EXCEPT ![n] = AfterFire(@)]
      BY <1>8 DEF FireTimer, FireOrphan
    <2>2. timer[n].py = "live"
      BY <1>8 DEF FireTimer, FireOrphan, TokenInv, OneToken
    <2>3. NoToken(m) => n # m
      BY <2>2 DEF NoToken, Ticking
    <2>4. NoToken(m) => NoToken(m)'
      BY <1>a, <2>1, <2>3, SameWorkers
         DEF NoToken, Ticking, Putting, Waiting, Taken, Job, SchedulerTypeOK
    <2> QED
      BY <1>c, <2>1, <2>4 DEF Ended, Job
  <1>9. ASSUME NEW n \in Periodic, PutJob(n) \/ PutFails(n) PROVE Goal
    <2>1. /\ UNCHANGED <<handler, job, timer, worker>> /\ putting[n] > 0
          /\ putting' = [putting EXCEPT ![n] = @ - 1]
          /\ queue' = queue \/ queue' = [queue EXCEPT ![Job(n)] = @ + 1]
      BY <1>9 DEF PutJob, PutFails, Put, Job
    <2>2. NoToken(m) => n # m
      BY <2>1 DEF NoToken, Putting
    <2>3. n # m => putting'[m] = putting[m] /\ queue'[Job(m)] = queue[Job(m)]
      BY <1>a, <1>b, <2>1, Jobs DEF SchedulerTypeOK
    <2>4. NoToken(m) => NoToken(m)'
      BY <2>1, <2>2, <2>3, SameWorkers
         DEF NoToken, Ticking, Putting, Waiting, Taken, Job
    <2> QED
      BY <1>c, <2>1, <2>4 DEF Ended, Job
  <1>10. ASSUME NEW w \in WorkerIds, LeaveList(w) PROVE Goal
    <2>1. Ended(m)' => Ended(m)
      BY <1>a, <1>10, LeaverGoes DEF Ended, Job
    <2> QED
      BY <1>a, <1>c, <1>10, <2>1, LeaverGoes, LeaverHasNone
         DEF NoToken, Ticking, Putting, Waiting, Taken, Scanned, Job
  <1> QED
    BY <1>1, <1>2, <1>3, <1>4, <1>5, <1>6, <1>7, <1>8, <1>9, <1>10 DEF Scheduler

\* As long as nobody calls an RPC a module whose collector died of an exception
\* is never scheduled again.
THEOREM DeadCollectorsStay == SchedulerSpec => []DeadCollectorEndsItsModule
  <1>1. Init => DeadInv
    <2>1. NoWorker.state = "none"
      BY DEF NoWorker
    <2> QED
      BY <2>1 DEF Init, DeadInv, Ended
  <1>2. ASSUME TypeOK, TokenInv, DeadInv, [Scheduler]_vars PROVE DeadInv'
    <2>1. CASE UNCHANGED vars
      BY <1>2, <2>1 DEF DeadInv, Ended, NoToken, Ticking, Putting, Waiting, Taken, Scanned,
                        Active, Job, vars, schedulerVars
    <2> QED
      BY <1>2, <2>1, DeadInductive
  <1>3. ASSUME TypeOK, TokenInv, DeadInv PROVE DeadCollectorEndsItsModule
    <2> SUFFICES ASSUME NEW w \in WorkerIds, worker[w].state = "ended", Rearms(worker[w].entry)
                 PROVE  ~Scheduled(worker[w].entry[1])
      BY DEF DeadCollectorEndsItsModule
    <2> DEFINE m == worker[w].entry[1]
    <2>1. worker[w] \in WorkerRecord
      BY <1>3, WorkerIsRecord DEF TypeOK
    <2>2. m \in Periodic /\ worker[w].entry = Job(m)
      BY <2>1, Jobs DEF Rearms, WorkerRecord
    <2>3. NoToken(m) /\ orphans[m] = 0
      BY <1>3, <2>2 DEF DeadInv, Ended, TokenInv, OneToken
    <2> QED
      BY <2>3 DEF Scheduled, NoToken, Ticking, Putting, Waiting, Taken, Scanned, Job
  <1> QED
    BY <1>1, <1>2, <1>3, TokensHold, PTL DEF SchedulerSpec

(***************************************************************************)
(* Only a thaw revives                                                     *)
(*                                                                         *)
(* With RPCs a module can lose its job for good.  Of all steps only the    *)
(* resuming of its timer gives a job to a module that has none.            *)
(***************************************************************************)

\* The Worker will restart the timer of m, unless it is stopped before.
WillRearm(w, m) == Active(w, m) /\ (~worker[w].stopped \/ worker[w].state = "callback")

Sources(m) ==
    \/ Ticking(m) \/ orphans[m] > 0 \/ Putting(m) \/ Waiting(m) \/ Taken(m)
    \/ \E w \in WorkerIds : WillRearm(w, m)

LEMMA SourcesSchedule == \A m : Scheduled(m) <=> Sources(m)
  BY DEF Scheduled, Sources, Ticking, Putting, Waiting, Taken, WillRearm, Job

\* What the scheduler does never makes a job of a module that has none.
LEMMA SchedulerRevivesNothing ==
    ASSUME TypeOK, Scheduler, NEW m \in Periodic, handler # "init", ~Sources(m)
    PROVE  ~Sources(m)'
  <1>a. SchedulerTypeOK
    BY DEF TypeOK
  <1>b. /\ putting[m] \in Nat /\ orphans[m] \in Nat /\ queue[Job(m)] \in Nat
        /\ Job(m) \in Entries
    BY <1>a, Jobs DEF SchedulerTypeOK
  <1>c. /\ ~Ticking(m) /\ orphans[m] = 0 /\ ~Putting(m) /\ ~Waiting(m) /\ ~Taken(m)
        /\ \A w \in WorkerIds : ~WillRearm(w, m)
    BY <1>b DEF Sources
  <1>d. ASSUME UNCHANGED worker PROVE \A w \in WorkerIds : ~WillRearm(w, m)'
    BY <1>c, <1>d DEF WillRearm, Active
  <1>e. ASSUME UNCHANGED <<timer, orphans, putting, queue>>, handler' # "got",
               \A w \in WorkerIds : ~WillRearm(w, m)'
        PROVE  ~Sources(m)'
    BY <1>c, <1>e DEF Sources, Ticking, Putting, Waiting, Taken, Job
  <1>1. CASE InitScanningSchedule
    BY <1>1 DEF InitScanningSchedule
  <1>2. ASSUME NEW e \in Entries, GetJob(e) PROVE ~Sources(m)'
    <2>1. /\ UNCHANGED <<timer, orphans, putting, worker>> /\ job' = e
          /\ queue' = [queue EXCEPT ![e] = @ - 1] /\ queue[e] > 0
      BY <1>2 DEF GetJob, Foremost, Queued
    <2>2. e # Job(m)
      BY <1>c, <2>1 DEF Waiting
    <2>3. queue'[Job(m)] = queue[Job(m)]
      BY <1>a, <1>b, <2>1, <2>2 DEF SchedulerTypeOK
    <2> QED
      BY <1>c, <1>d, <2>1, <2>2, <2>3 DEF Sources, Ticking, Putting, Waiting, Taken, Job
  <1>3. CASE DropJob
    BY <1>d, <1>e, <1>3 DEF DropJob
  <1>4. ASSUME NEW w \in WorkerIds, RegisterWorker(w) PROVE ~Sources(m)'
    <2>1. /\ UNCHANGED <<putting, queue>> /\ handler = "got" /\ handler' = "registered"
          /\ worker' = [worker EXCEPT ![w] =
                          [entry |-> job, state |-> "registered", stopped |-> FALSE]]
      BY <1>4 DEF RegisterWorker
    <2>2. job # Job(m) /\ job \in Entries
      BY <1>a, <1>c, <2>1 DEF Taken, SchedulerTypeOK
    <2>3. Rearms(job) => job[1] # m
      BY <2>2, Jobs DEF Rearms
    <2>4. timer'[m] = timer[m] /\ orphans'[m] = orphans[m]
      BY <1>a, <1>4, <2>3 DEF RegisterWorker, SchedulerTypeOK
    <2>5. \A v \in WorkerIds : ~WillRearm(v, m)'
      BY <1>a, <1>c, <2>1, <2>2 DEF WillRearm, Active, Job, SchedulerTypeOK
    <2> QED
      BY <1>c, <2>1, <2>4, <2>5 DEF Sources, Ticking, Putting, Waiting, Taken, Job
  <1>5. ASSUME NEW w \in WorkerIds, StartWorker(w) PROVE ~Sources(m)'
    <2>1. worker[w] \in WorkerRecord
      BY <1>a, <1>5, WorkerIsRecord DEF StartWorker
    <2>2. \A v \in WorkerIds : ~WillRearm(v, m)'
      BY <1>a, <1>c, <1>5, <2>1
         DEF StartWorker, WillRearm, Active, SchedulerTypeOK, WorkerRecord
    <2> QED
      BY <1>e, <1>5, <2>2 DEF StartWorker
  <1>6. ASSUME NEW w \in WorkerIds, CollectorEnds(w) \/ CollectorDies(w) PROVE ~Sources(m)'
    <2>1. /\ UNCHANGED <<handler, job, timer, orphans, putting, queue>>
          /\ worker[w].state = "running"
          /\ \/ worker' = [worker EXCEPT ![w].state = "ended"]
             \/ ~worker[w].stopped /\ worker' = [worker EXCEPT ![w].state = "callback"]
      BY <1>6 DEF CollectorEnds, CollectorDies
    <2>2. worker[w] \in WorkerRecord
      BY <1>a, <2>1, WorkerIsRecord
    <2>3. \A v \in WorkerIds : ~WillRearm(v, m)'
      BY <1>a, <1>c, <2>1, <2>2 DEF WillRearm, Active, SchedulerTypeOK, WorkerRecord
    <2> QED
      BY <1>c, <2>1, <2>3 DEF Sources, Ticking, Putting, Waiting, Taken, Job
  <1>7. ASSUME NEW w \in WorkerIds, FinishedCallback(w) PROVE ~Sources(m)'
    <2>1. /\ UNCHANGED <<handler, job, putting, queue>> /\ worker[w].state = "callback"
          /\ worker' = [worker EXCEPT ![w].state = "leaving"]
      BY <1>7 DEF FinishedCallback
    <2>2. worker[w] \in WorkerRecord
      BY <1>a, <2>1, WorkerIsRecord
    <2>a. worker'[w].state = "leaving" /\ \A v \in WorkerIds \ {w} : worker'[v] = worker[v]
      BY <1>a, <2>1, <2>2 DEF SchedulerTypeOK, WorkerRecord
    <2>3. worker[w].entry # Job(m)
      BY <1>c, <2>1 DEF WillRearm, Active, Job
    <2>4. Rearms(worker[w].entry) => worker[w].entry[1] # m
      BY <2>2, <2>3, Jobs DEF Rearms, WorkerRecord
    <2>5. timer'[m] = timer[m] /\ orphans'[m] = orphans[m]
      BY <1>a, <1>7, <2>4 DEF FinishedCallback, StartTimer, SchedulerTypeOK
    <2>6. \A v \in WorkerIds : ~WillRearm(v, m)'
      BY <1>c, <2>a DEF WillRearm, Active
    <2> QED
      BY <1>c, <2>1, <2>5, <2>6 DEF Sources, Ticking, Putting, Waiting, Taken, Job
  <1>8. ASSUME NEW n \in Periodic, FireTimer(n) \/ FireOrphan(n) PROVE ~Sources(m)'
    <2>1. /\ UNCHANGED <<handler, job, queue, worker>>
          /\ putting' = [putting EXCEPT ![n] = @ + 1]
          /\ timer' = timer \/ timer' = [timer EXCEPT ![n] = AfterFire(@)]
          /\ orphans' = orphans \/ orphans' = [orphans EXCEPT ![n] = @ - 1]
          /\ timer[n].py = "live" \/ orphans[n] > 0
      BY <1>8 DEF FireTimer, FireOrphan
    <2>2. n # m
      BY <1>c, <2>1 DEF Ticking
    <2> QED
      BY <1>a, <1>c, <1>d, <2>1, <2>2
         DEF Sources, Ticking, Putting, Waiting, Taken, Job, SchedulerTypeOK
  <1>9. ASSUME NEW n \in Periodic, PutJob(n) \/ PutFails(n) PROVE ~Sources(m)'
    <2>1. /\ UNCHANGED <<handler, job, timer, orphans, worker>> /\ putting[n] > 0
          /\ putting' = [putting EXCEPT ![n] = @ - 1]
          /\ queue' = queue \/ queue' = [queue EXCEPT ![Job(n)] = @ + 1]
      BY <1>9 DEF PutJob, PutFails, Put, Job
    <2>2. n # m
      BY <1>c, <2>1 DEF Putting
    <2>3. putting'[m] = putting[m] /\ queue'[Job(m)] = queue[Job(m)]
      BY <1>a, <1>b, <2>1, <2>2, Jobs DEF SchedulerTypeOK
    <2> QED
      BY <1>c, <1>d, <2>1, <2>3 DEF Sources, Ticking, Putting, Waiting, Taken, Job
  <1>10. ASSUME NEW w \in WorkerIds, LeaveList(w) PROVE ~Sources(m)'
    <2>1. \A v \in WorkerIds : ~WillRearm(v, m)'
      BY <1>a, <1>c, <1>10, LeaverGoes DEF WillRearm, Active
    <2> QED
      BY <1>a, <1>c, <1>10, <2>1, LeaverGoes
         DEF Sources, Ticking, Putting, Waiting, Taken, Job
  <1> QED
    BY <1>1, <1>2, <1>3, <1>4, <1>5, <1>6, <1>7, <1>8, <1>9, <1>10 DEF Scheduler

\* Of what the RPC thread and the setup threads do only resume does.
LEMMA DeploymentRevivesNothing ==
    ASSUME TypeOK, Deployment, NEW m \in Periodic, ~Sources(m),
           \A s \in Setups : m \notin resuming[s]
    PROVE  ~Sources(m)'
  <1>a. SchedulerTypeOK
    BY DEF TypeOK
  <1>b. /\ timer[m] \in TimerState /\ orphans[m] \in Nat /\ Job(m) \in Entries
    BY <1>a, Jobs DEF SchedulerTypeOK
  <1>c. /\ ~Ticking(m) /\ orphans[m] = 0 /\ ~Putting(m) /\ ~Waiting(m) /\ ~Taken(m)
        /\ \A w \in WorkerIds : ~WillRearm(w, m)
    BY <1>b DEF Sources
  <1>d. ASSUME UNCHANGED <<handler, job, putting>>,
               Ticking(m)' => Ticking(m), orphans'[m] = orphans[m],
               queue'[Job(m)] = queue[Job(m)],
               \A w \in WorkerIds : WillRearm(w, m)' => WillRearm(w, m)
        PROVE  ~Sources(m)'
    BY <1>c, <1>d DEF Sources, Putting, Waiting, Taken, Job
  <1>e. ASSUME UNCHANGED worker PROVE \A w \in WorkerIds : WillRearm(w, m)' => WillRearm(w, m)
    BY <1>e DEF WillRearm, Active
  <1>1. CASE \/ ApplyConfig \/ FreezeRaises \/ PauseFails \/ PrepareFails \/ EndFullScan
             \/ AllStopped \/ JoinWorker \/ JoinRaises \/ JoinReturns \/ AllJoined
    <2>1. UNCHANGED schedulerVars
      BY <1>1 DEF ApplyConfig, FreezeRaises, PauseFails, PrepareFails, EndFullScan,
                  AllStopped, JoinWorker, JoinRaises, JoinReturns, AllJoined
    <2> QED
      BY <1>d, <1>e, <2>1 DEF schedulerVars, Ticking
  <1>2. CASE StopWorker
    <2>1. PICK v \in WorkerIds : /\ worker[v] \in WorkerRecord
                                 /\ worker' = [worker EXCEPT ![v].stopped = TRUE]
      BY <1>2, <1>a, FlagIsSet DEF TypeOK, DeploymentTypeOK
    <2>2. /\ worker'[v].entry = worker[v].entry /\ worker'[v].state = worker[v].state
          /\ worker'[v].stopped = TRUE /\ \A w \in WorkerIds \ {v} : worker'[w] = worker[w]
      BY <1>a, <2>1 DEF SchedulerTypeOK, WorkerRecord
    <2>3. \A w \in WorkerIds : WillRearm(w, m)' => WillRearm(w, m)
      BY <2>2 DEF WillRearm, Active
    <2> QED
      BY <1>2, <1>d, <2>3 DEF StopWorker, Ticking
  <1>3. CASE DoFullScan
    <2>1. timer'[m].py # "live"
      BY <1>3, <1>b, <1>c, CancelledOrFired DEF DoFullScan, Ticking
    <2> QED
      BY <1>3, <1>d, <1>e, <2>1 DEF DoFullScan, Ticking
  <1>4. ASSUME NEW n \in Modules, PauseTimer(n) PROVE ~Sources(m)'
    <2>1. PICK t \in AfterPause(timer[n]) : timer' = [timer EXCEPT ![n] = t]
      BY <1>4 DEF PauseTimer
    <2>2. Ticking(m)' => Ticking(m)
      <3>1. CASE n = m
        <4>1. t.py = timer[m].py \/ t.py = "none"
          BY <1>b, <2>1, <3>1 DEF AfterPause, TimerState
        <4> QED
          BY <1>a, <2>1, <3>1, <4>1 DEF Ticking, SchedulerTypeOK
      <3>2. CASE n # m
        BY <1>a, <2>1, <3>2 DEF Ticking, SchedulerTypeOK
      <3> QED
        BY <3>1, <3>2
    <2> QED
      BY <1>4, <1>d, <1>e, <2>2 DEF PauseTimer
  <1>5. ASSUME NEW n \in Modules, PutFullScan(n) PROVE ~Sources(m)'
    <2>1. Job(m) # <<n, "full">>
      BY DEF Job
    <2>2. queue'[Job(m)] = queue[Job(m)]
      BY <1>a, <1>b, <1>5, <2>1 DEF PutFullScan, Put, SchedulerTypeOK
    <2> QED
      BY <1>5, <1>d, <1>e, <2>2 DEF PutFullScan, Ticking
  <1>6. ASSUME NEW s \in Setups,
               \/ StartSetup(s) \/ Planned(s) \/ Building(s) \/ Finished(s) \/ SetupCrashes(s)
               \/ Melt(s) \/ MeltRaises(s) \/ Unfrozen(s)
        PROVE  ~Sources(m)'
    <2>1. UNCHANGED schedulerVars
      BY <1>6 DEF StartSetup, Planned, Building, Finished, SetupStep, SetupCrashes, Melt,
                  MeltRaises, Unfrozen
    <2> QED
      BY <1>d, <1>e, <2>1 DEF schedulerVars, Ticking
  <1>7. ASSUME NEW s \in Setups, NEW n \in Periodic, ResumeTimer(s, n) PROVE ~Sources(m)'
    <2>1. n # m
      BY <1>7 DEF ResumeTimer
    <2>2. timer'[m] = timer[m] /\ orphans'[m] = orphans[m]
      BY <1>a, <1>7, <2>1 DEF ResumeTimer, SchedulerTypeOK
    <2> QED
      BY <1>7, <1>d, <1>e, <2>2 DEF ResumeTimer, Ticking
  <1> QED
    BY <1>1, <1>2, <1>3, <1>4, <1>5, <1>6, <1>7 DEF Deployment

\* No full scan, callback, job or stop brings a module back that has lost its
\* job, in any environment.
THEOREM OnlyResumeRevives == Spec => OnlyThawRevives
  <1>1. ASSUME TypeOK, [Next]_vars
        PROVE  [\A m \in Periodic :
                   handler # "init" /\ ~Scheduled(m) /\ (\A s \in Setups : m \notin resuming[s])
                       => ~Scheduled(m)']_vars
    <2> SUFFICES ASSUME ~UNCHANGED vars, NEW m \in Periodic, handler # "init", ~Scheduled(m),
                        \A s \in Setups : m \notin resuming[s]
                 PROVE  ~Scheduled(m)'
      OBVIOUS
    <2>1. ~Sources(m)
      BY SourcesSchedule
    <2>2. ~Sources(m)'
      BY <1>1, <2>1, SchedulerRevivesNothing, DeploymentRevivesNothing DEF Next
    <2>3. (Scheduled(m) <=> Sources(m))'
      BY DEF Scheduled, Sources, Ticking, Putting, Waiting, Taken, WillRearm, Job, Active
    <2> QED
      BY <2>2, <2>3
  <1> QED
    BY <1>1, TypesAreCorrect, PTL DEF Spec, OnlyThawRevives

(***************************************************************************)
(* No module is lost                                                       *)
(*                                                                         *)
(* What a freeze takes from a module the resuming of its timer gives back, *)
(* since a timer that can no longer count (it fired before it was paused)  *)
(* has a job under way, which brings a fresh timer.                        *)
(***************************************************************************)
Spent(t) == t.py = "never" \/ t.paused = "late" \/ (t.py = "dead" /\ t.running)

Pending(m) == Putting(m) \/ Waiting(m) \/ Taken(m)

SpentIsPending == \A m \in Periodic : Spent(timer[m]) => Pending(m)

NothingIsLost ==
    graph = "live" /\ handler # "init" =>
        \A m \in Periodic :
            Sources(m) \/ \E s \in Setups : setup[s] = "resuming" /\ m \in resuming[s]

\* What a freeze stops is only stopped once the graph is frozen.
Freezing == rpc \in {"pausing", "joining", "preparing"}
LiveIsQuiet == graph = "live" => ~Freezing

\* Before the timers are started there is no job, no Worker and no RPC.
FreshStart ==
    handler = "init" =>
        /\ ~Freezing /\ \A s \in Setups : setup[s] = "none"
        /\ \A m \in Periodic : timer[m] = NewTimer /\ orphans[m] = 0 /\ putting[m] = 0
        /\ \A w \in WorkerIds : worker[w] = NoWorker

LostInv == SpentIsPending /\ NothingIsLost /\ LiveIsQuiet /\ FreshStart

\* Collectors with an interval and a configuration that can be read, which raise
\* nothing but Exceptions, and no full scans.
WellConfigured ==
    OnceOnly = {} /\ Unreadable = {} /\ MayRaise = {} /\ MaxFullScans = 0

\* Nothing falls out of the queue.
NoneFails == \A m \in Periodic : ~PutFails(m)

\* No configuration is applied before the last setup has thawed the environment.
OneByOne == (\E s \in Setups : Underway(s)) => rpc = "idle"

\* With room in the queue the scheduler hands every job on.
LEMMA SchedulerHandsOn ==
    ASSUME TypeOK, WellConfigured, SpentIsPending, Scheduler, NoneFails,
           handler # "init", NEW m \in Periodic
    PROVE  /\ Spent(timer'[m]) => Pending(m)'
           /\ Sources(m) => Sources(m)'
  <1>a. SchedulerTypeOK
    BY DEF TypeOK
  <1>b. /\ putting[m] \in Nat /\ orphans[m] \in Nat /\ queue[Job(m)] \in Nat
        /\ Job(m) \in Entries /\ timer[m] \in TimerState
    BY <1>a, Jobs DEF SchedulerTypeOK
  <1>c. Spent(timer[m]) => Pending(m)
    BY DEF SpentIsPending
  <1> DEFINE Goal == (Spent(timer'[m]) => Pending(m)') /\ (Sources(m) => Sources(m)')
  \* A step that leaves m alone.
  <1>d. ASSUME timer'[m] = timer[m], orphans'[m] = orphans[m], putting'[m] = putting[m],
               queue'[Job(m)] = queue[Job(m)], Taken(m) => Taken(m)',
               \A w \in WorkerIds : WillRearm(w, m) => WillRearm(w, m)'
        PROVE  Goal
    BY <1>c, <1>d DEF Pending, Sources, Ticking, Putting, Waiting, Job
  <1>e. ASSUME UNCHANGED worker PROVE \A w \in WorkerIds : WillRearm(w, m) => WillRearm(w, m)'
    BY <1>e DEF WillRearm, Active
  <1>1. CASE InitScanningSchedule
    BY <1>1 DEF InitScanningSchedule
  <1>2. ASSUME NEW e \in Entries, GetJob(e) PROVE Goal
    <2>1. /\ UNCHANGED <<timer, orphans, putting, worker>> /\ job' = e
          /\ handler = "idle" /\ handler' = "got"
          /\ queue' = [queue EXCEPT ![e] = @ - 1]
      BY <1>2 DEF GetJob
    <2>2. CASE e = Job(m)
      BY <2>1, <2>2 DEF Pending, Sources, Taken, Job
    <2>3. CASE e # Job(m)
      <3>1. queue'[Job(m)] = queue[Job(m)]
        BY <1>a, <1>b, <2>1, <2>3 DEF SchedulerTypeOK
      <3> QED
        BY <1>d, <1>e, <2>1, <3>1 DEF Taken
    <2> QED
      BY <2>2, <2>3
  <1>3. CASE DropJob
    BY <1>3 DEF DropJob, WellConfigured
  <1>4. ASSUME NEW w \in WorkerIds, RegisterWorker(w) PROVE Goal
    <2>1. /\ UNCHANGED <<putting, queue>> /\ handler = "got" /\ handler' = "registered"
          /\ worker' = [worker EXCEPT ![w] =
                          [entry |-> job, state |-> "registered", stopped |-> FALSE]]
          /\ worker[w] = NoWorker /\ NoWorker.state = "none" /\ job \in Entries
      BY <1>a, <1>4 DEF RegisterWorker, Free, NoWorker, SchedulerTypeOK
    <2>2. CASE job = Job(m)
      <3>1. Rearms(job) /\ job[1] = m
        BY <2>2 DEF Rearms, Job
      <3>2. timer'[m] = NewTimer
        BY <1>a, <1>4, <3>1 DEF RegisterWorker, SchedulerTypeOK
      <3>3. ~Spent(timer'[m])
        BY <3>2 DEF Spent, NewTimer
      <3>4. WillRearm(w, m)'
        BY <1>a, <2>1, <2>2 DEF WillRearm, Active, Job, SchedulerTypeOK
      <3> QED
        BY <3>3, <3>4 DEF Sources
    <2>3. CASE job # Job(m)
      <3>1. Rearms(job) => job[1] # m
        BY <2>1, <2>3, Jobs DEF Rearms
      <3>2. timer'[m] = timer[m] /\ orphans'[m] = orphans[m]
        BY <1>a, <1>4, <3>1 DEF RegisterWorker, SchedulerTypeOK
      <3>3. \A v \in WorkerIds : WillRearm(v, m) => WillRearm(v, m)'
        BY <1>a, <2>1 DEF WillRearm, Active, SchedulerTypeOK
      <3>4. ~Taken(m)
        BY <2>3 DEF Taken
      <3> QED
        BY <1>d, <2>1, <3>2, <3>3, <3>4
    <2> QED
      BY <2>2, <2>3
  <1>5. ASSUME NEW w \in WorkerIds, StartWorker(w) \/ CollectorEnds(w) PROVE Goal
    <2>1. /\ UNCHANGED <<timer, orphans, putting, queue>>
          /\ worker[w].state \in {"registered", "running"}
          /\ \/ worker' = [worker EXCEPT ![w].state = "running"] /\ handler = "registered"
             \/ /\ worker' = [worker EXCEPT ![w].state =
                                IF worker[w].stopped THEN "ended" ELSE "callback"]
                /\ UNCHANGED <<handler, job>>
      BY <1>5 DEF StartWorker, CollectorEnds
    <2>2. worker[w] \in WorkerRecord
      BY <1>a, <2>1, WorkerIsRecord
    <2>3. \A v \in WorkerIds : WillRearm(v, m) => WillRearm(v, m)'
      BY <1>a, <2>1, <2>2 DEF WillRearm, Active, SchedulerTypeOK, WorkerRecord
    <2>4. Taken(m) => Taken(m)'
      BY <2>1 DEF Taken, Job
    <2> QED
      BY <1>d, <2>1, <2>3, <2>4
  <1>6. ASSUME NEW w \in WorkerIds, CollectorDies(w) PROVE Goal
    BY <1>6 DEF CollectorDies, WellConfigured
  <1>7. ASSUME NEW w \in WorkerIds, FinishedCallback(w) PROVE Goal
    <2>1. /\ UNCHANGED <<handler, job, putting, queue>> /\ worker[w].state = "callback"
          /\ worker' = [worker EXCEPT ![w].state = "leaving"]
      BY <1>7 DEF FinishedCallback
    <2>2. worker[w] \in WorkerRecord
      BY <1>a, <2>1, WorkerIsRecord
    <2>3. Pending(m) => Pending(m)'
      BY <2>1 DEF Pending, Putting, Waiting, Taken, Job
    <2>4. CASE worker[w].entry = Job(m)
      <3>1. Rearms(worker[w].entry) /\ worker[w].entry[1] = m
        BY <2>4 DEF Rearms, Job
      <3>2. timer'[m] = Started(timer[m])
        BY <1>a, <1>7, <3>1 DEF FinishedCallback, StartTimer, SchedulerTypeOK
      <3>3. Ticking(m)' \/ (timer'[m].py = "never" /\ timer[m].py = "never")
        BY <1>b, <3>2, StartedCounts DEF Ticking
      <3>4. Spent(timer'[m]) => Spent(timer[m])
        BY <1>b, <3>2, <3>3, StartedCounts DEF Spent, Ticking
      <3> QED
        BY <1>c, <2>3, <3>3, <3>4 DEF Sources, Pending, Spent
    <2>5. CASE worker[w].entry # Job(m)
      <3>1. Rearms(worker[w].entry) => worker[w].entry[1] # m
        BY <2>2, <2>5, Jobs DEF Rearms, WorkerRecord
      <3>2. timer'[m] = timer[m] /\ orphans'[m] = orphans[m]
        BY <1>a, <1>7, <3>1 DEF FinishedCallback, StartTimer, SchedulerTypeOK
      <3>3. \A v \in WorkerIds : WillRearm(v, m) => WillRearm(v, m)'
        BY <1>a, <2>1, <2>5 DEF WillRearm, Active, Job, SchedulerTypeOK
      <3>4. Taken(m) => Taken(m)'
        BY <2>1 DEF Taken, Job
      <3> QED
        BY <1>d, <2>1, <3>2, <3>3, <3>4
    <2> QED
      BY <2>4, <2>5
  <1>8. ASSUME NEW n \in Periodic, FireTimer(n) \/ FireOrphan(n) PROVE Goal
    <2>1. /\ UNCHANGED <<handler, job, queue, worker>>
          /\ putting' = [putting EXCEPT ![n] = @ + 1]
          /\ timer' = timer \/ timer' = [timer EXCEPT ![n] = AfterFire(@)]
          /\ orphans' = orphans \/ orphans' = [orphans EXCEPT ![n] = @ - 1]
      BY <1>8 DEF FireTimer, FireOrphan
    <2>2. CASE n = m
      <3>1. Putting(m)'
        BY <1>a, <1>b, <2>1, <2>2 DEF Putting, SchedulerTypeOK
      <3> QED
        BY <3>1 DEF Pending, Sources
    <2>3. CASE n # m
      <3>1. /\ timer'[m] = timer[m] /\ orphans'[m] = orphans[m]
            /\ putting'[m] = putting[m]
        BY <1>a, <2>1, <2>3 DEF SchedulerTypeOK
      <3>2. Taken(m) => Taken(m)'
        BY <2>1 DEF Taken, Job
      <3> QED
        BY <1>d, <1>e, <2>1, <3>1, <3>2
    <2> QED
      BY <2>2, <2>3
  <1>9. ASSUME NEW n \in Periodic, PutJob(n) PROVE Goal
    <2>1. /\ UNCHANGED <<handler, job, timer, orphans, worker>>
          /\ putting' = [putting EXCEPT ![n] = @ - 1]
          /\ queue' = [queue EXCEPT ![Job(n)] = @ + 1]
      BY <1>9 DEF PutJob, Put, Job
    <2>2. CASE n = m
      <3>1. Waiting(m)'
        BY <1>a, <1>b, <2>1, <2>2 DEF Waiting, Job, SchedulerTypeOK
      <3> QED
        BY <3>1 DEF Pending, Sources
    <2>3. CASE n # m
      <3>1. putting'[m] = putting[m] /\ queue'[Job(m)] = queue[Job(m)]
        BY <1>a, <1>b, <2>1, <2>3, Jobs DEF SchedulerTypeOK
      <3>2. Taken(m) => Taken(m)'
        BY <2>1 DEF Taken, Job
      <3> QED
        BY <1>d, <1>e, <2>1, <3>1, <3>2
    <2> QED
      BY <2>2, <2>3
  <1>10. ASSUME NEW n \in Periodic, PutFails(n) PROVE Goal
    BY <1>10 DEF NoneFails
  <1>11. ASSUME NEW w \in WorkerIds, LeaveList(w) PROVE Goal
    <2>1. \A v \in WorkerIds : WillRearm(v, m) => WillRearm(v, m)'
      BY <1>a, <1>11, LeaverGoes DEF WillRearm, Active
    <2>2. Taken(m) => Taken(m)'
      BY <1>a, <1>11, LeaverGoes DEF Taken, Job
    <2> QED
      BY <1>a, <1>d, <1>11, <2>1, <2>2, LeaverGoes
  <1> QED
    BY <1>1, <1>2, <1>3, <1>4, <1>5, <1>6, <1>7, <1>8, <1>9, <1>10, <1>11 DEF Scheduler

\* A step that leaves the handler at work, the graph and the setups alone.
LEMMA LostFrame ==
    ASSUME LostInv, handler # "init", handler' # "init", UNCHANGED <<graph, setup, resuming>>,
           graph = "live" => ~Freezing',
           \A m \in Periodic : /\ Spent(timer'[m]) => Pending(m)'
                               /\ graph = "live" => (Sources(m) => Sources(m)')
    PROVE  LostInv'
  <1>1. NothingIsLost'
    BY DEF LostInv, NothingIsLost
  <1>2. SpentIsPending'
    BY DEF SpentIsPending
  <1> QED
    BY <1>1, <1>2 DEF LostInv, LiveIsQuiet, FreshStart

\* The scheduler keeps the invariant.
LEMMA LostScheduler ==
    ASSUME TypeOK, WellConfigured, LostInv, Scheduler, NoneFails
    PROVE  LostInv'
  <1>0. UNCHANGED rpcVars
    BY SchedulerFrame
  <1>1. CASE handler = "init"
    <2>1. /\ \A m \in Periodic : timer[m] = NewTimer /\ orphans[m] = 0 /\ putting[m] = 0
          /\ \A w \in WorkerIds : worker[w].state = "none"
          /\ NewTimer.py = "none"
      BY <1>1 DEF LostInv, FreshStart, NoWorker, NewTimer
    <2>2. InitScanningSchedule
      <3>1. ~DropJob /\ \A e \in Entries : ~GetJob(e)
        BY <1>1 DEF GetJob, DropJob
      <3>2. \A w \in WorkerIds : /\ ~RegisterWorker(w) /\ ~StartWorker(w)
                                 /\ ~CollectorEnds(w) /\ ~CollectorDies(w)
                                 /\ ~FinishedCallback(w) /\ ~LeaveList(w)
        BY <1>1, <2>1 DEF RegisterWorker, StartWorker, CollectorEnds, CollectorDies,
                          FinishedCallback, LeaveList
      <3>3. \A m \in Periodic : ~FireTimer(m) /\ ~FireOrphan(m) /\ ~PutJob(m) /\ ~PutFails(m)
        BY <2>1 DEF FireTimer, FireOrphan, PutJob, PutFails
      <3> QED
        BY <3>1, <3>2, <3>3 DEF Scheduler
    <2>3. /\ \A m \in Periodic : timer'[m] = Started(NewTimer)
          /\ handler' = "idle"
      BY <2>2 DEF InitScanningSchedule, WellConfigured
    <2>4. Started(NewTimer).py = "live" /\ Started(NewTimer).paused = "no"
      BY DEF Started, NewTimer
    <2> QED
      BY <1>0, <1>1, <2>3, <2>4
         DEF LostInv, SpentIsPending, NothingIsLost, LiveIsQuiet, FreshStart, Freezing, Sources,
             Ticking, Spent, rpcVars
  <1>2. CASE handler # "init"
    <2>1. handler' # "init"
      BY <1>2 DEF Scheduler, InitScanningSchedule, GetJob, DropJob, RegisterWorker, StartWorker,
                  CollectorEnds, CollectorDies, FinishedCallback, LeaveList, FireTimer,
                  FireOrphan, PutJob, PutFails
    <2>2. \A m \in Periodic : /\ Spent(timer'[m]) => Pending(m)'
                              /\ Sources(m) => Sources(m)'
      BY <1>2, SchedulerHandsOn DEF LostInv
    <2> QED
      BY <1>0, <1>2, <2>1, <2>2, LostFrame DEF LostInv, LiveIsQuiet, Freezing, rpcVars
  <1> QED
    BY <1>1, <1>2

\* A step that leaves the handler, the timers, the queue and the Workers alone.
LEMMA LostQuiet ==
    ASSUME LostInv, UNCHANGED schedulerVars
    PROVE  /\ \A m \in Periodic : /\ Spent(timer'[m]) => Pending(m)'
                                  /\ Sources(m) => Sources(m)'
           /\ SpentIsPending'
  BY DEF LostInv, SpentIsPending, Pending, Sources, Ticking, Putting, Waiting, Taken, WillRearm,
         Active, Job, schedulerVars

\* So do the RPC thread and the setup threads.
LEMMA LostDeployment ==
    ASSUME TypeOK, WellConfigured, LostInv, OneByOne, Deployment
    PROVE  LostInv'
  <1>a. SchedulerTypeOK /\ DeploymentTypeOK
    BY DEF TypeOK
  <1>b. ASSUME handler # "init", UNCHANGED schedulerVars, UNCHANGED <<graph, setup, resuming>>,
               graph = "live" => ~Freezing'
        PROVE  LostInv'
    <2>1. handler' # "init"
      BY <1>b DEF schedulerVars
    <2> QED
      BY <1>b, <2>1, LostQuiet, LostFrame
  <1>1. CASE ApplyConfig \/ FreezeRaises
    <2>1. /\ UNCHANGED schedulerVars /\ graph' # "live" /\ handler # "init"
          /\ handler' = handler
      BY <1>1 DEF ApplyConfig, FreezeRaises, schedulerVars
    <2> QED
      BY <2>1, LostQuiet DEF LostInv, NothingIsLost, LiveIsQuiet, FreshStart
  <1>2. CASE \/ PauseFails \/ PrepareFails \/ EndFullScan
             \/ AllStopped \/ JoinWorker \/ JoinRaises \/ AllJoined
    <2>1. /\ UNCHANGED schedulerVars /\ UNCHANGED <<graph, setup, resuming>>
          /\ rpc # "idle"
          /\ Freezing' => Freezing
      BY <1>2 DEF PauseFails, PrepareFails, EndFullScan,
                  AllStopped, JoinWorker, JoinRaises, AllJoined, Freezing
    <2>2. CASE handler # "init"
      BY <1>b, <2>1, <2>2 DEF LostInv, LiveIsQuiet
    <2>3. CASE handler = "init"
      BY <2>1, <2>3, LostQuiet
         DEF LostInv, NothingIsLost, LiveIsQuiet, FreshStart, schedulerVars
    <2> QED
      BY <2>2, <2>3
  <1>10. CASE JoinReturns
    <2>1. UNCHANGED schedulerVars /\ UNCHANGED <<graph, setup, resuming, rpc>>
      BY <1>10 DEF JoinReturns
    <2>2. CASE handler # "init"
      BY <1>b, <2>1, <2>2 DEF LostInv, LiveIsQuiet, Freezing
    <2>3. CASE handler = "init"
      BY <2>1, <2>3, LostQuiet
         DEF LostInv, NothingIsLost, LiveIsQuiet, FreshStart, Freezing, schedulerVars
    <2> QED
      BY <2>2, <2>3
  <1>3. CASE StopWorker
    <2>1. /\ rpc = "pausing" /\ graph # "live" /\ handler # "init"
          /\ UNCHANGED <<handler, job, timer, putting, queue>>
          /\ UNCHANGED <<graph, setup, resuming>>
      BY <1>3 DEF StopWorker, LostInv, LiveIsQuiet, FreshStart, Freezing
    <2>2. \A m \in Periodic : Spent(timer'[m]) => Pending(m)'
      BY <2>1 DEF LostInv, SpentIsPending, Pending, Putting, Waiting, Taken, Job
    <2> QED
      BY <2>1, <2>2, LostFrame
  <1>4. CASE DoFullScan
    <2>1. fullScans \in 0..0 /\ fullScans < 0
      BY <1>4, <1>a DEF DoFullScan, WellConfigured, DeploymentTypeOK
    <2> QED
      BY <2>1
  <1>5. ASSUME NEW n \in Modules, PauseTimer(n) PROVE LostInv'
    <2>1. PICK t \in AfterPause(timer[n]) : timer' = [timer EXCEPT ![n] = t]
      BY <1>5 DEF PauseTimer
    <2>2. /\ rpc = "pausing" /\ graph # "live" /\ handler # "init" /\ n \in Periodic
          /\ UNCHANGED <<handler, job, putting, queue>>
          /\ UNCHANGED <<graph, setup, resuming>>
      BY <1>5 DEF PauseTimer, LostInv, LiveIsQuiet, FreshStart, Freezing
    <2>3. timer[n] \in TimerState
      BY <1>a, <2>2 DEF SchedulerTypeOK
    <2>4. Spent(t) => Spent(timer[n])
      BY <2>1, <2>3, PausedStops DEF Spent
    <2>5. \A m \in Periodic : Spent(timer'[m]) => Pending(m)'
      BY <1>a, <2>1, <2>2, <2>4
         DEF LostInv, SpentIsPending, Pending, Putting, Waiting, Taken, Job, SchedulerTypeOK
    <2> QED
      BY <2>2, <2>5, LostFrame
  <1>6. ASSUME NEW n \in Modules, PutFullScan(n) PROVE LostInv'
    <2>1. /\ rpc = "scanning"
          /\ UNCHANGED <<handler, job, timer, orphans, putting, worker, rpc>>
          /\ UNCHANGED <<graph, setup, resuming>>
          /\ queue' = [queue EXCEPT ![<<n, "full">>] = @ + 1]
      BY <1>6 DEF PutFullScan, Put
    <2>2. \A m \in Periodic : queue'[Job(m)] = queue[Job(m)]
      <3>1. \A m \in Periodic : Job(m) # <<n, "full">> /\ Job(m) \in Entries
        BY Jobs DEF Job
      <3> QED
        BY <1>a, <2>1, <3>1 DEF SchedulerTypeOK
    <2>3. \A m \in Periodic : /\ Spent(timer'[m]) => Pending(m)'
                              /\ Sources(m) => Sources(m)'
      BY <2>1, <2>2 DEF LostInv, SpentIsPending, Pending, Sources, Ticking, Putting, Waiting,
                        Taken, WillRearm, Active, Job
    <2>4. CASE handler # "init"
      BY <2>1, <2>3, <2>4, LostFrame DEF Freezing
    <2>5. CASE handler = "init"
      BY <2>1, <2>3, <2>5
         DEF LostInv, SpentIsPending, NothingIsLost, LiveIsQuiet, FreshStart, Freezing
    <2> QED
      BY <2>4, <2>5
  <1>7. ASSUME NEW s \in Setups, StartSetup(s) PROVE LostInv'
    <2>1. /\ UNCHANGED schedulerVars /\ rpc = "preparing" /\ rpc' = "idle" /\ UNCHANGED graph
          /\ graph # "live" /\ handler' # "init"
      BY <1>7 DEF StartSetup, LostInv, LiveIsQuiet, FreshStart, Freezing, schedulerVars
    <2> QED
      BY <2>1, LostQuiet DEF LostInv, NothingIsLost, LiveIsQuiet, FreshStart
  <1>8. ASSUME NEW s \in Setups,
               \/ Planned(s) \/ Building(s) \/ Finished(s) \/ SetupCrashes(s)
               \/ Melt(s) \/ MeltRaises(s) \/ Unfrozen(s)
        PROVE  LostInv'
    <2>1. /\ UNCHANGED schedulerVars /\ UNCHANGED rpc
          /\ setup[s] \in {"planning", "planned", "building", "melting", "resuming"}
          /\ \E to \in {"planned", "building", "melting", "crashed", "resuming", "done"} :
                setup' = [setup EXCEPT ![s] = to]
      BY <1>8 DEF Planned, Building, Finished, SetupStep, SetupCrashes, Melt, MeltRaises, Unfrozen
    <2>2. handler' # "init" /\ handler # "init"
      BY <2>1 DEF LostInv, FreshStart, schedulerVars
    <2>3. ~Freezing'
      BY <2>1 DEF OneByOne, Underway, Freezing
    <2>4. NothingIsLost'
      <3>1. CASE Melt(s)
        <4>1. setup'[s] = "resuming" /\ resuming'[s] = Periodic
          BY <1>a, <3>1 DEF Melt, DeploymentTypeOK
        <4> QED
          BY <4>1 DEF NothingIsLost
      <3>2. CASE MeltRaises(s)
        BY <3>2 DEF MeltRaises, NothingIsLost
      <3>3. CASE ~Melt(s) /\ ~MeltRaises(s)
        <4>1. /\ UNCHANGED <<graph, resuming>>
              /\ \A r \in Setups : setup[r] = "resuming" /\ resuming[r] # {} =>
                     setup'[r] = "resuming"
          BY <1>a, <1>8, <3>3
             DEF Planned, Building, Finished, SetupStep, SetupCrashes, Unfrozen, DeploymentTypeOK
        <4> QED
          BY <2>1, <2>2, <4>1, LostQuiet DEF LostInv, NothingIsLost
      <3> QED
        BY <3>1, <3>2, <3>3
    <2> QED
      BY <2>1, <2>2, <2>3, <2>4, LostQuiet DEF LostInv, LiveIsQuiet, FreshStart
  <1>9. ASSUME NEW s \in Setups, NEW n \in Periodic, ResumeTimer(s, n) PROVE LostInv'
    <2>1. /\ UNCHANGED <<handler, job, putting, queue, worker, rpc, graph, setup>>
          /\ timer' = [timer EXCEPT ![n] = AfterResume(@)]
          /\ orphans' = [orphans EXCEPT ![n] = @ + Orphans(timer[n])]
          /\ resuming' = [resuming EXCEPT ![s] = @ \ {n}]
          /\ setup[s] = "resuming"
      BY <1>9 DEF ResumeTimer
    <2>2. handler # "init" /\ ~Freezing
      BY <2>1 DEF LostInv, FreshStart, OneByOne, Underway, Freezing
    <2>3. timer[n] \in TimerState /\ timer'[n] = AfterResume(timer[n])
      BY <1>a, <2>1 DEF SchedulerTypeOK
    <2>4. \A m \in Periodic : Pending(m) <=> Pending(m)'
      BY <2>1 DEF Pending, Putting, Waiting, Taken, Job
    <2>5. /\ Ticking(n)' \/ Pending(n)'
          /\ Spent(timer'[n]) => Pending(n)'
      BY <2>3, <2>4, StartedCounts DEF Spent, Ticking, LostInv, SpentIsPending
    <2>6. Sources(n)'
      BY <2>5 DEF Sources, Pending
    <2>7. ASSUME NEW m \in Periodic, m # n
          PROVE  /\ timer'[m] = timer[m]
                 /\ Sources(m) => Sources(m)'
                 /\ \A r \in Setups : m \in resuming[r] => m \in resuming'[r]
      <3>1. timer'[m] = timer[m] /\ orphans'[m] = orphans[m]
        BY <1>a, <2>1, <2>7 DEF SchedulerTypeOK
      <3>2. \A r \in Setups : m \in resuming[r] => m \in resuming'[r]
        BY <1>a, <2>1, <2>7 DEF DeploymentTypeOK
      <3> QED
        BY <2>1, <3>1, <3>2 DEF Sources, Ticking, Putting, Waiting, Taken, WillRearm, Active, Job
    <2>8. NothingIsLost'
      BY <2>1, <2>2, <2>6, <2>7 DEF LostInv, NothingIsLost
    <2>9. SpentIsPending'
      BY <2>4, <2>5, <2>7 DEF LostInv, SpentIsPending
    <2> QED
      BY <2>1, <2>2, <2>8, <2>9 DEF LostInv, LiveIsQuiet, FreshStart, Freezing
  <1> QED
    BY <1>1, <1>2, <1>3, <1>4, <1>5, <1>6, <1>7, <1>8, <1>9, <1>10 DEF Deployment

\* No setup makes an environment lose a module, whatever fails in it and however
\* often configurations are applied one after the other, as long as no job falls
\* out of the queue.
THEOREM NoModuleIsLost ==
    ASSUME WellConfigured
    PROVE  Spec /\ []OneByOne /\ [][NoneFails]_vars => []NoModuleLost
  <1>1. Init => LostInv
    <2> SUFFICES ASSUME Init PROVE LostInv
      OBVIOUS
    <2>1. \A m \in Periodic : timer[m] = NewTimer /\ orphans[m] = 0 /\ putting[m] = 0
      BY DEF Init
    <2>2. ~Spent(NewTimer)
      BY DEF Spent, NewTimer
    <2>3. handler = "init" /\ ~Freezing /\ (\A s \in Setups : setup[s] = "none")
          /\ \A w \in WorkerIds : worker[w] = NoWorker
      BY DEF Init, Freezing
    <2> QED
      BY <2>1, <2>2, <2>3 DEF LostInv, SpentIsPending, NothingIsLost, LiveIsQuiet, FreshStart
  <1>2. TypeOK /\ LostInv /\ OneByOne /\ [NoneFails]_vars /\ [Next]_vars => LostInv'
    <2>1. ASSUME LostInv, UNCHANGED vars PROVE LostInv'
      <3>1. UNCHANGED schedulerVars /\ UNCHANGED rpcVars
        BY <2>1 DEF vars
      <3>2. UNCHANGED <<handler, timer, orphans, putting, worker>>
        BY <3>1 DEF schedulerVars
      <3> QED
        BY <2>1, <3>1, <3>2, LostQuiet
           DEF LostInv, NothingIsLost, LiveIsQuiet, FreshStart, Freezing, rpcVars
    <2> QED
      BY <2>1, LostScheduler, LostDeployment DEF Next
  <1>3. LostInv => NoModuleLost
    BY SourcesSchedule DEF LostInv, NothingIsLost, NoModuleLost, Underway
  <1> QED
    BY <1>1, <1>2, <1>3, TypesAreCorrect, PTL DEF Spec
==============================================================================

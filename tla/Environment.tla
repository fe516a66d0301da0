----------------------------- MODULE Environment -----------------------------
(***************************************************************************)
(* One EnvironmentHandler (EnvironmentHandler.py) and the threads that     *)
(* share its state:                                                        *)
(*                                                                         *)
(*   - the handler thread (run), which takes collector jobs from a bounded *)
(*     priority queue and starts a Worker thread for each;                 *)
(*   - the pyTimer threads, which put the next job of a module into the    *)
(*     queue (executeScan);                                                *)
(*   - the Worker threads (scanner/Worker.py), which restart the timer of  *)
(*     their module when the collector is done (finishedCallback);         *)
(*   - the RPC thread, which serves one applyConfig at a time and freezes  *)
(*     the environment; it is also the thread that stands for a caller of  *)
(*     doFullScan, a method that nothing calls yet;                        *)
(*   - the setup threads (runSetup), which unfreeze it.                    *)
(*                                                                         *)
(* Time is abstracted away with the calls of TimerOps: a live threading.   *)
(* Timer may fire at any moment.                                           *)
(***************************************************************************)
EXTENDS Integers, FiniteSets, SequencesExt, TimerOps

CONSTANTS
    Periodic,       \* collector modules with an interval
    OnceOnly,       \* collector modules with interval -1 or none
    Rank,           \* how (interval, name) of the periodic modules compare
    QueueSize,      \* bound of the queue, DEFAULT_QUEUE_SIZE
    SizeIsText,     \* environment.conf has a "queueSize", which ConfigObj reads as a str
    Unreadable,     \* modules whose config file may fail to parse
    MayRaise,       \* modules whose collector may raise a BaseException
    WorkerIds,      \* bound: Worker threads that exist at a time
    MaxSetups,      \* bound: calls of applyConfig that pass its check
    MaxFullScans    \* bound: calls of doFullScan

Modules == Periodic \cup OnceOnly

ASSUME EnvironmentAssumption ==
    /\ Periodic \cap OnceOnly = {}
    /\ Rank \in [Modules -> Nat]
    /\ QueueSize \in Nat \ {0} /\ SizeIsText \in BOOLEAN
    /\ Unreadable \subseteq Modules /\ MayRaise \subseteq Modules
    /\ MaxSetups \in Nat /\ MaxFullScans \in Nat

(***************************************************************************)
(*   handler   "init", "idle", "got" (an entry was dequeued), "registered" *)
(*             (its Worker is in the list but not started), "dead"         *)
(*   job       the entry the handler has dequeued                          *)
(*   timer     self.timers, for the periodic modules                       *)
(*   orphans   live threading.Timers of a module that self.timers[module]  *)
(*             does not refer to                                           *)
(*   putting   pyTimer threads of a module inside executeScan              *)
(*   queue     how often <<module, kind>> is in the priority queue         *)
(*   worker    the Worker threads                                          *)
(*   workers   self.workers, the list of them in the order of appending    *)
(*   rpc       what the RPC thread is doing, todo its remaining modules,   *)
(*             at the index of its iterator over self.workers, joining the *)
(*             Worker it is waiting for                                    *)
(*   graph     "live", "frozen" by Graph.freeze, or "partly" when freeze   *)
(*             or melt raised half way                                     *)
(*   task      self.taskState                                              *)
(*   setup     the setup threads, by number; resuming the modules whose    *)
(*             timer each of them has still to resume                      *)
(***************************************************************************)
VARIABLES handler, job, timer, orphans, putting, queue, worker, workers,
          rpc, todo, at, joining, graph, task, setup, resuming, fullScans

schedulerVars == <<handler, job, timer, orphans, putting, queue, worker, workers>>
rpcVars == <<rpc, todo, at, joining, graph, task, setup, resuming, fullScans>>
vars == <<schedulerVars, rpcVars>>

Kinds == {"normal", "full"}     \* priority PRIORITY, or HIGHEST_PRIO of doFullScan
Entries == Modules \X Kinds
NoJob == <<>>
Setups == 1..MaxSetups

NoWorker == [entry |-> NoJob, state |-> "none", stopped |-> FALSE]
WorkerStates == {"registered", "running", "callback", "leaving", "ended"}
WorkerRecord == [entry : Entries, state : WorkerStates, stopped : BOOLEAN]

\* self.workers names every Worker once.
ListOK ==
    /\ workers \in Seq(WorkerIds) /\ IsInjective(workers)
    /\ Range(workers) = {w \in WorkerIds : worker[w] # NoWorker}

SchedulerTypeOK ==
    /\ handler \in {"init", "idle", "got", "registered", "dead"}
    /\ job \in Entries \cup {NoJob}
    /\ handler = "got" => job \in Entries
    /\ timer \in [Periodic -> TimerState]
    /\ orphans \in [Periodic -> Nat]
    /\ putting \in [Periodic -> Nat]
    /\ queue \in [Entries -> Nat]
    /\ worker \in [WorkerIds -> WorkerRecord \cup {NoWorker}]
    /\ ListOK

DeploymentTypeOK ==
    /\ rpc \in {"idle", "pausing", "joining", "preparing", "scanning"}
    /\ todo \subseteq Modules
    /\ at \in Nat \ {0}
    /\ joining \subseteq WorkerIds
    /\ graph \in {"live", "frozen", "partly"}
    /\ task \in {"", "initializing", "planned", "building", "finished"}
    /\ setup \in [Setups -> {"none", "planning", "planned", "building",
                             "melting", "resuming", "done", "crashed"}]
    /\ resuming \in [Setups -> SUBSET Modules]
    /\ fullScans \in 0..MaxFullScans

TypeOK == SchedulerTypeOK /\ DeploymentTypeOK

Init ==
    /\ handler = "init" /\ job = NoJob
    /\ timer = [m \in Periodic |-> NewTimer]
    /\ orphans = [m \in Periodic |-> 0]
    /\ putting = [m \in Periodic |-> 0]
    /\ queue = [e \in Entries |-> 0]
    /\ worker = [w \in WorkerIds |-> NoWorker] /\ workers = <<>>
    /\ rpc = "idle" /\ todo = {} /\ at = 1 /\ joining = {}
    /\ graph = "live" /\ task = ""
    /\ setup = [s \in Setups |-> "none"]
    /\ resuming = [s \in Setups |-> {}]
    /\ fullScans = 0
------------------------------------------------------------------------------
\* The queue: entries compare as (priority, interval, name); a full scan has
\* the better priority and interval -1 is the smallest interval.
\* put() with a str for maxsize raises a TypeError: nothing is ever queued.
Room == ~SizeIsText /\ SumFunction(queue) < QueueSize

\* One of the puts of initScanningSchedule fails: run is the only reader.
PutsFail == OnceOnly # {} /\ (SizeIsText \/ Cardinality(OnceOnly) > QueueSize)

Key(e) == <<IF e[2] = "full" THEN 0 ELSE 1, IF e[1] \in OnceOnly THEN 0 ELSE 1, Rank[e[1]]>>

Before(k, l) ==
    \/ k[1] < l[1]
    \/ k[1] = l[1] /\ k[2] < l[2]
    \/ k[1] = l[1] /\ k[2] = l[2] /\ k[3] < l[3]

Queued == {e \in Entries : queue[e] > 0}

\* Mutant: get() does not wait for an entry.
HeadOfAny == Entries

Foremost == {e \in Queued : \A f \in Queued : ~Before(Key(f), Key(e))}

Put(e) == queue' = [queue EXCEPT ![e] = @ + 1]

\* Mutant: a callback that never restarts the timer.
RearmsNever(e) == e[1] \in {}

\* A job whose interval is not -1: finishedCallback restarts its timer.
Rearms(e) == e[1] \in Periodic /\ e[2] = "normal"

StartTimer(m) ==
    /\ timer' = [timer EXCEPT ![m] = Started(@)]
    /\ orphans' = [orphans EXCEPT ![m] = @ + Orphans(timer[m])]
------------------------------------------------------------------------------
(* The handler thread *)

\* Mutant: the None of a module that has run is passed over when the timers are
\* started, so that the handler goes on.
StartSkipsNone ==
    /\ handler = "init"
    /\ timer' = [m \in Periodic |-> Started(NewTimer)]
    /\ queue' = [e \in Entries |-> IF e[1] \in OnceOnly /\ e[2] = "normal" THEN 1 ELSE 0]
    /\ handler' = "idle"
    /\ UNCHANGED <<job, orphans, putting, worker, workers, rpcVars>>

\* initScanningSchedule: a Timer for each periodic module; a module that is to
\* run once is put into the queue and gets None for a timer, so the loop that
\* starts all timers raises an AttributeError when it comes to it and run()
\* ends.  How many timers are started before depends on the configuration.  A
\* put that fails ends run() as well, before any timer is started.
InitScanningSchedule ==
    /\ handler = "init"
    /\ \E first \in SUBSET Periodic :
          /\ OnceOnly = {} => first = Periodic
          /\ PutsFail => first = {}
          /\ timer' = [m \in Periodic |-> IF m \in first THEN Started(NewTimer) ELSE NewTimer]
    /\ \E put \in SUBSET OnceOnly :
          /\ SizeIsText => put = {}
          /\ ~PutsFail => put = OnceOnly
          /\ PutsFail /\ ~SizeIsText => Cardinality(put) = QueueSize
          /\ queue' = [e \in Entries |-> IF e[1] \in put /\ e[2] = "normal" THEN 1 ELSE 0]
    /\ handler' = IF OnceOnly = {} THEN "idle" ELSE "dead"
    /\ UNCHANGED <<job, orphans, putting, worker, workers, rpcVars>>

GetJob(e) ==
    /\ handler = "idle"
    /\ e \in Foremost
    /\ queue' = [queue EXCEPT ![e] = @ - 1]
    /\ job' = e
    /\ handler' = "got"
    /\ UNCHANGED <<timer, orphans, putting, worker, workers, rpcVars>>

\* The module has no "config" or it does not parse: the error is logged and
\* the job forgotten.
DropJob ==
    /\ handler = "got"
    /\ job[1] \in Unreadable
    /\ job' = NoJob
    /\ handler' = "idle"
    /\ UNCHANGED <<timer, orphans, putting, queue, worker, workers, rpcVars>>

\* A number no Worker has that is listed or being joined.
Free(w) == worker[w] = NoWorker /\ w \notin joining

\* Mutant: the fresh Timer is started at once, not by the Worker's callback.
RegisterWorkerAndTimer(w) ==
    /\ handler = "got"
    /\ Free(w)
    /\ worker' = [worker EXCEPT ![w] = [entry |-> job, state |-> "registered", stopped |-> FALSE]]
    /\ workers' = Append(workers, w)
    /\ IF Rearms(job)
       THEN /\ timer' = [timer EXCEPT ![job[1]] = Started(NewTimer)]
            /\ orphans' = [orphans EXCEPT ![job[1]] = @ + Orphans(timer[job[1]])]
       ELSE UNCHANGED <<timer, orphans>>
    /\ handler' = "registered"
    /\ UNCHANGED <<job, putting, queue, rpcVars>>

\* A fresh Timer, not started, replaces the one that has fired; the Worker is
\* created and appended to self.workers.
RegisterWorker(w) ==
    /\ handler = "got"
    /\ Free(w)
    /\ worker' = [worker EXCEPT ![w] = [entry |-> job, state |-> "registered", stopped |-> FALSE]]
    /\ workers' = Append(workers, w)
    /\ IF Rearms(job)
       THEN /\ timer' = [timer EXCEPT ![job[1]] = NewTimer]
            /\ orphans' = [orphans EXCEPT ![job[1]] = @ + Orphans(timer[job[1]])]
       ELSE UNCHANGED <<timer, orphans>>
    /\ handler' = "registered"
    /\ UNCHANGED <<job, putting, queue, rpcVars>>

StartWorker(w) ==
    /\ handler = "registered"
    /\ worker[w].state = "registered"
    /\ worker' = [worker EXCEPT ![w].state = "running"]
    /\ handler' = "idle"
    /\ job' = NoJob
    /\ UNCHANGED <<timer, orphans, putting, queue, workers, rpcVars>>

(* The pyTimer threads: executeScan *)

FireTimer(m) ==
    /\ timer[m].py = "live"
    /\ timer' = [timer EXCEPT ![m] = AfterFire(@)]
    /\ putting' = [putting EXCEPT ![m] = @ + 1]
    /\ UNCHANGED <<handler, job, orphans, queue, worker, workers, rpcVars>>

FireOrphan(m) ==
    /\ orphans[m] > 0
    /\ orphans' = [orphans EXCEPT ![m] = @ - 1]
    /\ putting' = [putting EXCEPT ![m] = @ + 1]
    /\ UNCHANGED <<handler, job, timer, queue, worker, workers, rpcVars>>

PutJob(m) ==
    /\ putting[m] > 0
    /\ Room
    /\ Put(<<m, "normal">>)
    /\ putting' = [putting EXCEPT ![m] = @ - 1]
    /\ UNCHANGED <<handler, job, timer, orphans, worker, workers, rpcVars>>

\* queue.Full after TIMEOUT seconds is logged, and that is all; a TypeError
\* ends the pyTimer thread.
PutFails(m) ==
    /\ putting[m] > 0
    /\ ~Room
    /\ putting' = [putting EXCEPT ![m] = @ - 1]
    /\ UNCHANGED <<handler, job, timer, orphans, queue, worker, workers, rpcVars>>

(* The Worker threads: Worker.run and finishedCallback *)

\* The collector returns or raises an Exception; the stop flag decides.
CollectorEnds(w) ==
    /\ worker[w].state = "running"
    /\ worker' = [worker EXCEPT ![w].state =
                      IF worker[w].stopped THEN "ended" ELSE "callback"]
    /\ UNCHANGED <<handler, job, timer, orphans, putting, queue, workers, rpcVars>>

\* A BaseException (Edge.__init__ raises one for a deleted node) passes both
\* except clauses: the thread ends without its callback.
CollectorDies(w) ==
    /\ worker[w].state = "running"
    /\ worker[w].entry[1] \in MayRaise
    /\ worker' = [worker EXCEPT ![w].state = "ended"]
    /\ UNCHANGED <<handler, job, timer, orphans, putting, queue, workers, rpcVars>>

\* finishedCallback: the timer is started, then the Worker leaves the list.
FinishedCallback(w) ==
    /\ worker[w].state = "callback"
    /\ IF Rearms(worker[w].entry)
       THEN StartTimer(worker[w].entry[1])
       ELSE UNCHANGED <<timer, orphans>>
    /\ worker' = [worker EXCEPT ![w].state = "leaving"]
    /\ UNCHANGED <<handler, job, putting, queue, workers, rpcVars>>

LeaveList(w) ==
    /\ worker[w].state = "leaving"
    /\ \E i \in DOMAIN workers : workers[i] = w /\ workers' = RemoveAt(workers, i)
    /\ worker' = [worker EXCEPT ![w] = NoWorker]
    /\ UNCHANGED <<handler, job, timer, orphans, putting, queue, rpcVars>>

Scheduler ==
    \/ InitScanningSchedule
    \/ \E e \in Entries : GetJob(e)
    \/ DropJob
    \/ \E w \in WorkerIds :
          \/ RegisterWorker(w) \/ StartWorker(w)
          \/ CollectorEnds(w) \/ CollectorDies(w) \/ FinishedCallback(w)
          \/ LeaveList(w)
    \/ \E m \in Periodic :
          FireTimer(m) \/ FireOrphan(m) \/ PutJob(m) \/ PutFails(m)
------------------------------------------------------------------------------
(* The RPC thread: applyConfig *)

\* Mutant: the timers are paused, the graph is not frozen.
ApplyConfigUnfrozen ==
    /\ rpc = "idle"
    /\ handler # "init"
    /\ task \in {"", "finished"}
    /\ \E s \in Setups : setup[s] = "none"
    /\ rpc' = "pausing"
    /\ todo' = Modules
    /\ UNCHANGED <<schedulerVars, at, joining, graph, task, setup, resuming, fullScans>>

\* The check of taskState and the freeze of the graph.  (The daemon serves RPCs
\* when all its environments are started.)
ApplyConfig ==
    /\ rpc = "idle"
    /\ handler # "init"
    /\ task \in {"", "finished"}
    /\ \E s \in Setups : setup[s] = "none"
    /\ graph' = "frozen"
    /\ rpc' = "pausing"
    /\ todo' = Modules
    /\ UNCHANGED <<schedulerVars, at, joining, task, setup, resuming, fullScans>>

PauseTimer(m) ==
    /\ rpc = "pausing"
    /\ m \in todo \cap Periodic
    /\ \E t \in AfterPause(timer[m]) : timer' = [timer EXCEPT ![m] = t]
    /\ todo' = todo \ {m}
    /\ UNCHANGED <<handler, job, orphans, putting, queue, worker, workers,
                   rpc, at, joining, graph, task, setup, resuming, fullScans>>

\* Graph.freeze walks over dictionaries the other threads change ("dictionary
\* changed size during iteration"): it may raise half way.
FreezeRaises ==
    /\ rpc = "idle"
    /\ handler # "init"
    /\ task \in {"", "finished"}
    /\ \E s \in Setups : setup[s] = "none"
    /\ graph' = "partly"
    /\ UNCHANGED <<schedulerVars, rpc, todo, at, joining, task, setup, resuming, fullScans>>

\* Mutant: a module without a timer is passed over.
PauseSkipsNone ==
    /\ rpc = "pausing"
    /\ todo \cap OnceOnly # {}
    /\ todo' = todo \ OnceOnly
    /\ UNCHANGED <<schedulerVars, rpc, at, joining, graph, task, setup, resuming, fullScans>>

\* self.timers[module] is None: the exception ends applyConfig, which returns
\* it to the client.
PauseFails ==
    /\ rpc = "pausing"
    /\ todo \cap OnceOnly # {}
    /\ rpc' = "idle"
    /\ todo' = {}
    /\ UNCHANGED <<schedulerVars, at, joining, graph, task, setup, resuming, fullScans>>

\* The two loops over self.workers: an iterator of a list keeps an index, so
\* that a Worker that leaves the list at or before the current place hides the
\* next one from the loop, and one that is appended is visited in its turn.
StopWorker ==
    /\ rpc = "pausing" /\ todo = {}
    /\ at <= Len(workers)
    /\ worker' = [worker EXCEPT ![workers[at]].stopped = TRUE]
    /\ at' = at + 1
    /\ UNCHANGED <<handler, job, timer, orphans, putting, queue, workers,
                   rpc, todo, joining, graph, task, setup, resuming, fullScans>>

AllStopped ==
    /\ rpc = "pausing" /\ todo = {}
    /\ at > Len(workers)
    /\ rpc' = "joining"
    /\ at' = 1
    /\ UNCHANGED <<schedulerVars, todo, joining, graph, task, setup, resuming, fullScans>>

\* join() waits until the Worker has ended.
JoinWorker ==
    /\ rpc = "joining" /\ joining = {}
    /\ at <= Len(workers)
    /\ worker[workers[at]].state # "registered"
    /\ joining' = {workers[at]}
    /\ at' = at + 1
    /\ UNCHANGED <<schedulerVars, rpc, todo, graph, task, setup, resuming, fullScans>>

\* join() of a Worker that is not started yet is a RuntimeError, which ends
\* applyConfig.
JoinRaises ==
    /\ rpc = "joining" /\ joining = {}
    /\ at <= Len(workers)
    /\ worker[workers[at]].state = "registered"
    /\ rpc' = "idle"
    /\ at' = 1
    /\ UNCHANGED <<schedulerVars, todo, joining, graph, task, setup, resuming, fullScans>>

JoinReturns ==
    /\ \E w \in joining : worker[w].state \in {"ended", "none"}
    /\ joining' = {}
    /\ UNCHANGED <<schedulerVars, rpc, todo, at, graph, task, setup, resuming, fullScans>>

\* Mutant: the loop goes on until nobody is listed any more.
AllGone ==
    /\ rpc = "joining" /\ joining = {}
    /\ workers = <<>>
    /\ rpc' = "preparing"
    /\ at' = 1
    /\ UNCHANGED <<schedulerVars, todo, joining, graph, task, setup, resuming, fullScans>>

AllJoined ==
    /\ rpc = "joining" /\ joining = {}
    /\ at > Len(workers)
    /\ rpc' = "preparing"
    /\ at' = 1
    /\ UNCHANGED <<schedulerVars, todo, joining, graph, task, setup, resuming, fullScans>>

\* Mutant: taskState is first set by the setup thread.
StartSetupUnannounced(s) ==
    /\ rpc = "preparing"
    /\ setup[s] = "none"
    /\ setup' = [setup EXCEPT ![s] = "planning"]
    /\ rpc' = "idle"
    /\ UNCHANGED <<schedulerVars, todo, at, joining, graph, task, resuming, fullScans>>

\* The file is parsed, both graphs are built and compared, the setup thread is
\* started; or one of these fails and applyConfig returns the exception.
StartSetup(s) ==
    /\ rpc = "preparing"
    /\ setup[s] = "none"
    /\ task' = "initializing"
    /\ setup' = [setup EXCEPT ![s] = "planning"]
    /\ rpc' = "idle"
    /\ UNCHANGED <<schedulerVars, todo, at, joining, graph, resuming, fullScans>>

PrepareFails ==
    /\ rpc = "preparing"
    /\ rpc' = "idle"
    /\ UNCHANGED <<schedulerVars, todo, at, joining, graph, task, setup, resuming, fullScans>>

(* doFullScan, in the place of an RPC: nothing calls it yet *)

\* All timers are cancelled and every module is queued for one scan.  (Once the
\* handler is dead, one of the timers is None and the loop raises before that.)
DoFullScan ==
    /\ rpc = "idle"
    /\ handler \notin {"init", "dead"}
    /\ fullScans < MaxFullScans
    /\ fullScans' = fullScans + 1
    /\ timer' = [m \in Periodic |-> AfterCancel(timer[m])]
    /\ rpc' = "scanning"
    /\ todo' = Modules
    /\ UNCHANGED <<handler, job, orphans, putting, queue, worker, workers,
                   at, joining, graph, task, setup, resuming>>

PutFullScan(m) ==
    /\ rpc = "scanning"
    /\ m \in todo
    /\ Room
    /\ Put(<<m, "full">>)
    /\ todo' = todo \ {m}
    /\ UNCHANGED <<handler, job, timer, orphans, putting, worker, workers,
                   rpc, at, joining, graph, task, setup, resuming, fullScans>>

EndFullScan ==
    /\ rpc = "scanning"
    /\ todo = {} \/ ~Room
    /\ rpc' = "idle"
    /\ todo' = {}
    /\ UNCHANGED <<schedulerVars, at, joining, graph, task, setup, resuming, fullScans>>

(* The setup threads: runSetup *)

\* getPlan, the Builder, and the steps of the plan, whose own exceptions are
\* caught.
SetupStep(s, from, to, state) ==
    /\ setup[s] = from
    /\ setup' = [setup EXCEPT ![s] = to]
    /\ task' = state
    /\ UNCHANGED <<schedulerVars, rpc, todo, at, joining, graph, resuming, fullScans>>

Planned(s) == SetupStep(s, "planning", "planned", "planned")
Building(s) == SetupStep(s, "planned", "building", "building")
Finished(s) == SetupStep(s, "building", "melting", "finished")

\* Mutant: the exception is caught and taskState reset.
SetupCrashReported(s) ==
    /\ setup[s] \in {"planning", "planned", "building"}
    /\ setup' = [setup EXCEPT ![s] = "crashed"]
    /\ task' = "finished"
    /\ UNCHANGED <<schedulerVars, rpc, todo, at, joining, graph, resuming, fullScans>>

\* An exception of getPlan, of the Builder or of the naming of a step is not
\* caught: the thread ends and taskState stays as it is.
SetupCrashes(s) ==
    /\ setup[s] \in {"planning", "planned", "building"}
    /\ setup' = [setup EXCEPT ![s] = "crashed"]
    /\ UNCHANGED <<schedulerVars, rpc, todo, at, joining, graph, task, resuming, fullScans>>

\* unfreezeEnvironment
Melt(s) ==
    /\ setup[s] = "melting"
    /\ graph' = "live"
    /\ setup' = [setup EXCEPT ![s] = "resuming"]
    /\ resuming' = [resuming EXCEPT ![s] = Periodic]
    /\ UNCHANGED <<schedulerVars, rpc, todo, at, joining, task, fullScans>>

\* Graph.melt raises like Graph.freeze: the exception is logged and no module
\* timer is resumed.
MeltRaises(s) ==
    /\ setup[s] = "melting"
    /\ graph' = "partly"
    /\ setup' = [setup EXCEPT ![s] = "done"]
    /\ UNCHANGED <<schedulerVars, rpc, todo, at, joining, task, resuming, fullScans>>

ResumeTimer(s, m) ==
    /\ setup[s] = "resuming"
    /\ m \in resuming[s]
    /\ timer' = [timer EXCEPT ![m] = AfterResume(@)]
    /\ orphans' = [orphans EXCEPT ![m] = @ + Orphans(timer[m])]
    /\ resuming' = [resuming EXCEPT ![s] = @ \ {m}]
    /\ UNCHANGED <<handler, job, putting, queue, worker, workers,
                   rpc, todo, at, joining, graph, task, setup, fullScans>>

Unfrozen(s) ==
    /\ setup[s] = "resuming" /\ resuming[s] = {}
    /\ setup' = [setup EXCEPT ![s] = "done"]
    /\ UNCHANGED <<schedulerVars, rpc, todo, at, joining, graph, task, resuming, fullScans>>

Deployment ==
    \/ ApplyConfig \/ FreezeRaises \/ PauseFails \/ StopWorker \/ AllStopped
    \/ JoinWorker \/ JoinRaises \/ JoinReturns \/ AllJoined \/ PrepareFails
    \/ DoFullScan \/ EndFullScan
    \/ \E m \in Modules : PauseTimer(m) \/ PutFullScan(m)
    \/ \E s \in Setups :
          \/ StartSetup(s) \/ Planned(s) \/ Building(s) \/ Finished(s) \/ SetupCrashes(s)
          \/ Melt(s) \/ MeltRaises(s) \/ Unfrozen(s)
          \/ \E m \in Periodic : ResumeTimer(s, m)
------------------------------------------------------------------------------
Next == Scheduler \/ Deployment

Spec == Init /\ [][Next]_vars

\* Only the handler, the timers and the Workers: nobody calls an RPC.
SchedulerSpec == Init /\ [][Scheduler]_vars

\* Threads go on, a live threading.Timer fires and a collector ends.
Fairness ==
    /\ WF_vars(InitScanningSchedule)
    /\ WF_vars(\E e \in Entries : GetJob(e))
    /\ WF_vars(DropJob \/ \E w \in WorkerIds : RegisterWorker(w))
    /\ \A w \in WorkerIds :
          /\ WF_vars(StartWorker(w))
          /\ WF_vars(CollectorEnds(w) \/ CollectorDies(w))
          /\ WF_vars(FinishedCallback(w)) /\ WF_vars(LeaveList(w))
    /\ \A m \in Periodic :
          /\ WF_vars(FireTimer(m))
          /\ WF_vars(PutJob(m) \/ PutFails(m))
    \* The RPC and setup threads finish what they have begun; nobody has to
    \* call an RPC.
    /\ WF_vars(\/ PauseFails \/ StopWorker \/ AllStopped
               \/ JoinWorker \/ JoinRaises \/ JoinReturns \/ AllJoined \/ PrepareFails
               \/ EndFullScan \/ (\E m \in Modules : PauseTimer(m) \/ PutFullScan(m))
               \/ (\E s \in Setups : StartSetup(s)))
    /\ \A s \in Setups :
          WF_vars(\/ Planned(s) \/ Building(s) \/ Finished(s) \/ SetupCrashes(s)
                  \/ Melt(s) \/ MeltRaises(s) \/ Unfrozen(s)
                  \/ \E m \in Periodic : ResumeTimer(s, m))

FairSpec == Spec /\ Fairness
------------------------------------------------------------------------------
Active(w, m) ==
    /\ worker[w].entry = <<m, "normal">>
    /\ worker[w].state \in {"registered", "running", "callback"}

\* No two Workers of one module are at work at the same time: the next job of a
\* module is only made by the timer that its last Worker restarts
\* (EnvironmentHandler.py:185-187, 318-334).  It takes timer, queue, handler and
\* Worker together to keep it.
OneWorkerPerModule ==
    \A m \in Periodic : \A v, w \in WorkerIds : Active(v, m) /\ Active(w, m) => v = w

\* Something is left that will scan the module again.
Scheduled(m) ==
    \/ timer[m].py = "live" \/ orphans[m] > 0 \/ putting[m] > 0
    \/ queue[<<m, "normal">>] > 0
    \/ handler = "got" /\ job = <<m, "normal">>
    \/ \E w \in WorkerIds :
          Active(w, m) /\ (~worker[w].stopped \/ worker[w].state = "callback")

\* A collector that dies of a BaseException takes its module with it: nothing
\* schedules the module again, although "All Worker threads will call this
\* method if their work is finished" (EnvironmentHandler.py:171).
DeadCollectorEndsItsModule ==
    \A w \in WorkerIds :
        worker[w].state = "ended" /\ Rearms(worker[w].entry) => ~Scheduled(worker[w].entry[1])

Underway(s) == setup[s] \notin {"none", "done", "crashed"}

\* A freeze loses no module: Workers it stops never restart their timer
\* (Worker.py:25), so that it is resume() of a Timer nobody has started that
\* brings the module back (EnvironmentHandler.py:533-540, Timer.py:71-72).
NoModuleLost ==
    (/\ handler # "init" /\ graph = "live" /\ rpc = "idle"
     /\ \A s \in Setups : ~Underway(s))
    => \A m \in Periodic : Scheduled(m)

\* The test of taskState keeps two setups from planning and building at the
\* same time, although it is set long after it was read
\* (EnvironmentHandler.py:430, 453): RPCs are served one by one.
OneSetupAtATime ==
    \A r, s \in Setups :
        {setup[r], setup[s]} \subseteq {"planning", "planned", "building"} => r = s

\* A setup thread that dies blocks every later applyConfig ("Another task is
\* already running!!", EnvironmentHandler.py:430-431): no step of anybody else
\* releases taskState.
CrashedSetupBlocks ==
    (\E s \in Setups : setup[s] = "crashed") => task \notin {"", "finished"}

\* Every applyConfig returns.  Its last loop iterates the live list of Workers:
\* those that are appended while it waits are joined as well, or make it raise,
\* but it cannot run after new ones for ever, as its index passes one Worker
\* with every join and the list does not grow for ever: a Worker whose collector
\* ends normally leaves it, and a module whose Worker stays in it, stopped or
\* dead, gets no other before the thaw (EnvironmentHandler.py:185-187, 530-531).
\* Nor would a doFullScan wait for ever for room in the queue.
RpcsReturn == rpc # "idle" ~> rpc = "idle"

\* Each periodic module is scanned again and again (EnvironmentHandler.py:124:
\* "It triggers the collector modules in their specified time intervals"), as
\* long as the handler empties the queue again and again: a module takes at
\* least its interval, some seconds, to come back, and the handler milliseconds
\* for an entry, so that no module is overtaken for ever by smaller ones.  A
\* module is excepted if its collector may die or its configuration be bad.
EveryModuleKeepsRunning ==
    []<>(Queued = {}) =>
        \A m \in Periodic \ (Unreadable \cup MayRaise) :
            []<>(\E w \in WorkerIds : worker[w].state = "running" /\ worker[w].entry[1] = m)

\* While a setup builds no collector runs (EnvironmentHandler.py:521: "pausing
\* all module timers and stopping the running collectors").
NoCollectorDuringSetup ==
    (\E s \in Setups : setup[s] = "building")
        => \A w \in WorkerIds : worker[w].state # "running"

\* While a setup builds the graph is frozen, unless the setup before it melts it
\* late: taskState says "Finished" before unfreezeEnvironment has been called
\* (EnvironmentHandler.py:513-515), which lets the next setup begin.
MeltedOnlyByAnother ==
    \A s \in Setups :
        setup[s] = "building" =>
            \/ graph = "frozen"
            \/ \E r \in Setups \ {s} : setup[r] \in {"resuming", "done"}

\* A module that nothing will scan again, as its timer was cancelled by a full
\* scan or its Worker stopped or dead, stays so unless the thaw of a setup
\* resumes its timer: no full scan, no callback and no job brings it back
\* (EnvironmentHandler.py:185-187, 406-418; nothing calls doFullScan yet, so
\* that today it is the stopped and the dead Workers it speaks of).
OnlyThawRevives ==
    [][\A m \in Periodic :
          handler # "init" /\ ~Scheduled(m) /\ (\A s \in Setups : m \notin resuming[s])
              => ~Scheduled(m)']_vars

\* With a module that is to run only once no setup is ever begun: its timer is
\* None, the handler ends at once and every freeze fails half way
\* (EnvironmentHandler.py:311-315, 524-525).
OnceOnlyPreventsSetups == OnceOnly # {} => \A s \in Setups : setup[s] = "none"

\* Nor is any collector ever started, neither that module, although "This module
\* will be started only once!" (EnvironmentHandler.py:309), nor the others.
OnceOnlyPreventsScans == OnceOnly # {} => \A w \in WorkerIds : worker[w] = NoWorker
==============================================================================

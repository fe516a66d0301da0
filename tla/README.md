# INSALATA: a verification project in TLA+

INSALATA scans virtual networks, keeps an information model (a graph) of what it
has found, and rebuilds a stored network on a testbed: it plans the difference
between the graph and a configuration with PDDL and executes the plan on Xen.
This directory models the parts of it that are hard to test: threads, timers,
freezing and the graph that all of them share; what collectors make of a testbed
that changes; what a plan promises and what its execution does to the server. Paths below are relative to
`src/src/insalata/`.

## The system: components, state, interaction

| component | state | operations | interacts with |
|---|---|---|---|
| Timer (`Timer.py`) | duration, running, start and pause time, one `threading.Timer` | start, pause, resume, cancel; caller (in a pyTimer thread) | everything that waits |
| EnvironmentHandler (`EnvironmentHandler.py`) | module timers, bounded priority queue, list of Workers, `taskState` | handler thread `run`; RPC `applyConfig`; `doFullScan`, which nothing calls yet; callbacks `executeScan`, `finishedCallback`; setup thread `runSetup` | Worker, Timer, Graph, planner, Builder |
| Worker (`scanner/Worker.py`) | stop flag | run: scan, then callback | collectors, handler |
| Graph, Node, Edge, Event (`model/`) | neighbours, scanners with their Timers, `deprecated`, one lock per type, event handlers | getOrCreate*, verify, removeVerification, delete, freeze, melt, copy | collectors, exporters, handler |
| element types (`model/Host.py` ...) | attributes, edges to other elements | setters that verify, change edges and trigger events | collectors, planner, Builder |
| collectors (`scanner/modules/`) | none between scans | one scan: read the testbed, update the graph | Graph |
| planner and domain (`planning/`) | none | initial state and goal as PDDL, plan | Diff, graph copies |
| Builder (`builder/`) | host interface to Xen, functions per plan action | execute one step of the plan | Xen, ansible, both graphs |
| Diff (`helper/diff.py`), addresses (`helper/ipAddressHelper.py`) | none | differences of two graphs; prefixes and ranges | planner |
| JSON exporter (`export/continuous/JsonOutput.py`) | buffer, Timer | event handlers, write, stop | events of the graph |
| XML exporter, daemon, RPC, client, SSH, SNMP, ansible | connections | I/O | all |

What is hard in it: seven kinds of threads (handler, pyTimer, Worker, RPC, setup,
exporter writer, tcpdump listener) share dictionaries, lists and Timers almost
without locks; the freeze of a setup stops timers, Workers and the graph in
several steps while all of them go on; every resume, pause and cancel can meet a
Timer that has just fired; failures between freeze and thaw; timers of graph
elements that race the verification they stand for.

What makes each component correct:

- Timer: fires once, at the end of its *running* time, never after a cancel.
- Scheduling: one Worker per module; every module comes again; freezing and
  thawing lose no module; no collector works while a setup builds.
- Deployment: one setup at a time; failures do not block the next one.
- Verification: a scanner stays as long as its timeout says, and no longer.
- Graph: one element per identifier; deleted elements are isolated; every
  getOrCreate call returns.
- Planner and Builder: the effect of each Builder function is the effect of the
  action in the domain; an executed plan leads to the configuration.
- Diff: an element is reported once, as new, removed or changed.

## Modules

| module | models | status |
|---|---|---|
| `Timer` | `Timer.py` with a clock, ticks of a fraction of a second, and its threads | done |
| `Countdown` | what a pausable timer promises (abstract) | done |
| `TimerOps`, `PausableTimer` | the same Timer without a clock: the operators the other modules use, and a client that calls them in any order | done |
| `TimerOpsProofs` | what these operators return | done |
| `TimerProofs` | `Timer` implements `PausableTimer` and `Countdown` | done |
| `Environment`, `MCEnvironment` | EnvironmentHandler and Worker with their threads | done |
| `EnvironmentProofs` | theorems about it | done |
| `Verification` | one node or edge and its scanners, with freeze and melt | done |
| `VerificationProofs` | theorems about it | done |
| `ModelGraph`, `MCModelGraph` | getOrCreate* and setters of all element types as scripts of lock, lookup, create and link; edges that two nodes know; deletion of elements edge by edge | done |
| `ModelGraphProofs` | theorems about it | done |
| `Testbed` | the initial state and goal that `planner.py` writes and the actions of the PDDL domain; a plan is a path to the goal (abstract specification of `Deployment`) | done |
| `Deployment`, `MCDeployment` | the setup thread that executes a plan: Builder, the Xen and ansible functions, failing calls, waitForBoot | done |
| `DeploymentProofs` | theorems about all plans; `Deployment` implements `Testbed`; what setups do to machines and do not remove | done |
| `ConfigNames`, `ConfigNamesProofs` | the names of configurations on a shared machine and its disk, call by call | done |
| `Collectors`, `MCCollectors`, `CollectorsProofs` | the Xen scans and the XML scanner, the graph and the Timers of verifications over time | done |

What a later extension would take up: `helper/diff.py` attribute by attribute
against a reference definition, the hardware scan and the collectors that log in
to hosts, and rules and routes of a host in `ModelGraph`.

### How the modules fit together

`Timer` is `Timer.py` literally: fields, live `threading.Timer`s with their due
tick, a clock. It implements two abstractions. Under a client that keeps to
start, (pause, resume)*, cancel it is a `Countdown`. Under *any* client it is a
`PausableTimer`, whose state is `[running, py, paused]`: `py` tells whether the
`threading.Timer` the object refers to is live, `paused` whether it was ever
paused and whether the remaining time has become -1, the value that means
"never". Threads that are live although the object does not refer to them any more
(start of a running Timer) are counted as orphans. `Environment` and
`Verification` call the operators of `TimerOps`, so what they assume of timers is
what the run `Timer` shows and `TimerProofs` proves. In them time is gone: a live thread may fire at any
moment, a superset of what the clock allows.

`Environment` has one action per step that another thread can see: variables
`handler`, `job` and `queue` are the local state of `run` and the queue; `timer`,
`orphans`, `putting` the module timers and the pyTimer threads inside
`executeScan`; `worker` the Worker threads and `workers` the list `self.workers`;
`rpc`, `todo`, `at`, `joining` the progress of the one RPC thread in `applyConfig`;
`task` is `self.taskState`; `setup` and `resuming` the setup threads; `graph` whether
Graph.freeze or melt was completed. Both loops of `freezeEnvironment` over
`self.workers` iterate the list itself, as the code does: `at` is the index of the
iterator, which passes over an entry when Workers leave the list before it, and
reaches those the handler appends meanwhile. A Worker that is listed and not
started yet makes `join()` raise (`JoinRaises`), which ends `applyConfig`.
`doFullScan` is a public method that `Insalata.py` does not expose and nothing
calls; it is modelled as if the RPC thread called it.

`Verification` splits `verify` into its three dictionary operations (cancel,
replace, start), a firing Timer into the firing, the removal, the check whether
anybody is left, and the deletion; freeze and melt visit the Timers one by one, an
edge once from each of its nodes (`Visits`). `kind` says whether the element is a
node or an edge: both have the same protocol with differences
(`Edge.removeVerification` cancels the Timer it finds and drops the entry in a
further step, `Node.removeVerification` ends with a KeyError before it cancels).
`Forever` are the collectors that verify with timeout -1, as `XmlScanner` does by
default (`XmlScanner.py:35`): the Timers of their entries start nothing (`TimerOf`,
`Timer.py:44`), and all of pause, resume and cancel meet such Timers too.

`ModelGraph` is the whole graph. A collector is a script of calls; a call refers to
results of earlier calls of the same script by number. Each getOrCreate* method is
one operator (`Host`, `Route`, ...) that says under which identifier and next to
whom it looks, which edges its constructor creates, and which setters it applies
to what it has found; the control they share is modelled once, step by step: take
the lock (`Acquire`), look (`Find`, `Create`), and for every link either verify
what is there (`Verify`) or, after a look (`Differs`), take the edges to the old
neighbours (`Replace`) and delete them one by one (`Drop`), look
at the deprecated flags (`Raise`, `CheckDeprecated`) and tell one end and the other
(`JoinFirst`, `JoinSecond`), and give the lock back (`Return`). An edge that one end
knows and whose constructor has not set its scanners yet (`Unset`) can be met by
another setter or deletion, which unlinks it and then ends with an AttributeError
(`DropFails`, `UnlinkFails`; `Edge.py:102`). The last link of a new
element is the one from the graph. `Raise` and `DropFails` end the
collector with its lock held, as the code has no finally. Setters and adders that collectors call themselves
(`CallLink`) take the same steps without a lock. Deletion marks an element, takes
its edges and deletes them one by one, and may happen again to an element that was
verified after its deletion. What `Verification` says about *when* an element or an
edge expires is left out here: it may be at any moment, but an edge only when its
constructor is over, and an element whose creation is not over only with
`ShortTimeouts` (the Timer of a node starts before its edges are there, but
timeouts are minutes).

`Collectors` stands above `Verification` and `ModelGraph`: a scan is one step, and time
is counted in ticks. `left` is what remains of a verification by a Xen scan, `byXml`
the verifications of the XML scanner, whose timeout is -1 (never), `due` who has
still to scan in this tick, `aborted` the kinds whose last Xen scan has ended with
a KeyError. The server and the file change at any moment. A Xen scan removes
every element of its kind in the graph from the set of names it has got
(`XenHostScan.py:68`, `XenNetworkScan.py:59`, `XenInterfaceScan.py:74`), so one that
is not there ends it; the XML scan ends at the first element it should drop
(`Node.py:156`).

`Testbed` is the planner's world. Its one variable `is` has a field for each
predicate of the domain, the set of objects of which it holds; `part-of` and `static`
never change, and `part-of` is the constants `HostOf`, `NetworkOf`, `InterfaceOf`,
`DiskOf`. `Init` takes every way in which two configurations can
differ (`Statuses`, `Differences`) and writes the facts as `writeInit*` do, with their
quirks: a halted host is written as running, a suspended one is not; the default
disk of a new host counts as attached. The actions have those preconditions and
effects that are in the installed `testbed_domain.pddl` (`src/config/template/planning`),
two wrong variables included, and `deleteHost`, whose loop over services lies outside
the test for the host, so that it unconfigures the services of every machine.

`Deployment` adds `real`, what has become of the same predicates on the server and in
the machines. Each `Do...` action takes one step of the plan, which is the action of
`Testbed` on `is`, and does what the function the Builder finds for it does: Xen calls
may fail (`MaxFaults`), playbooks reach whatever machine answers to the name
(`Target`, `Answering`), boot waits (`WaitForBoot`). No function reports back, so `is`
goes on whatever happens to `real`; that `BuildSpec` implements `Spec` of `Testbed`
(`ExecutionFollowsPlan`) is what makes every theorem about plans one about setups.
`etc` is the host name in a machine's configuration, `answersTo` the one it has
since its last boot: a name only takes effect at the next one.

`ConfigNames` looks into two steps `Deployment` takes in one, because the setup
threads of several environments share the server: `insertConfigName` and
`removeHost` of a machine with its default disk, one action per Xen call. `tag[x]` is
a set with at most one set of names, as the key may be missing; `overlapped` is set
when a setup begins anything while another is in the middle of a change.

## Runs

| run | bounds | what it shows |
|---|---|---|
| `Timer` | Duration 3 s, 2 ticks per second, 10 ticks, 4 starts | `IsCountdown`, `IsPausableTimer`, `TypeOK` |
| `Environment_schedule` | 3 modules, 3 Workers, queue 3, one module that may be unreadable or die, no RPC | `OneWorkerPerModule`, `DeadCollectorEndsItsModule`, `EveryModuleKeepsRunning`, `TypeOK` |
| `Environment_freeze` | 2 modules, 2 Workers, 1 applyConfig | `NoModuleLost`, `RpcsReturn` |
| `Environment_overlap` | 1 module, 2 applyConfigs, 1 full scan, all faults | `OneSetupAtATime`, `CrashedSetupBlocks`, `MeltedOnlyByAnother` |
| `Environment_once` | 2 periodic modules and one without interval, 1 applyConfig | `OnceOnlyPreventsSetups`, `OnceOnlyPreventsScans` |
| `Environment_not_stopped` | 1 module, 1 applyConfig | violation of `NoCollectorDuringSetup` |
| `Verification` | 1 collector with a timeout, 1 with -1, 2 calls in all, 1 freeze | `EveryScannerTicks`, `ScannersLeave`, `PermanentScannersStay`, `AbandonedAreDeleted`, `TypeOK` |
| `ModelGraph` | 2 collectors with 4 and 5 calls, 5 elements, 1 deleted element, short timeouts | `OneObjectPerKey`, `LivingElementsAreInGraph`, `LocksAreOfCalls`, `TypeOK` |
| `Collectors` | 3 hosts (2 on Xen only, 1 that may also be in the file), 1 interface, timeout of 2 ticks | `LostOnlyInFailure`, `VanishedLeave`, `GraphConverges`, `MissingHidesOthers`, `TypeOK` |
| `Deployment_names` | 2 plain hosts of one template, one with a disk; the other may have another template, or another power state than the planner writes; 1 failing call | `OneUnnamedAtATime`, `NobodyIsMisled`, `VainOnlyIfNamed`, `NoPlanAddsDisk`, `NoSetupReplaces` |
| `Deployment_objects` | a router with default disk, interface, DNS and DHCP, 2 networks; the interface may move, cpus, firewall and DNS may differ; no failing call | `AsBelieved`, `OnlyHostsAreRemoved`, `NoPlanRemovesDns`, `BuildTypeOK` |
| `ConfigNames` | 2 configurations, one machine with its disk, any number of changes | `NamesAreMembers`, `UsedMachinesStay`, `TypeOK` |

Why the bounds are enough. Timer: three seconds of two ticks have a pause inside a
second, at a second and in the last one, and a second pause after a truncated first;
four starts make two orphans. Environment: the protocol is per module (proved, for the
scheduling), so two modules show what one does to another (queue order, skipped
Workers), and three are used where the queue is to fill. Where a property promises
that modules come again there is room for every job: puts fail in
`Environment_overlap` and `Environment_once`; two Workers are enough for one that is
joined and another that is appended meanwhile; two applyConfigs overlap in every way
the code allows, since a third needs one of them to be over. Verification: two
collectors are needed for "somebody else is left", and one of them has timeout -1; two
calls give a verify that replaces an entry and a removal that races it; one freeze has
its melt, and the overlap of two freezes is covered by the theorem (it was also run,
with one call per collector). ModelGraph: the scripts are those of collectors that
really meet; they have two calls that look for the same thing, links that replace each
other, a None that a setter does not expect, an element that is looked up next to its
owner, and an adder. One deleted element reaches every step of every other call. Both
scripts set the location of the host, one of them without a lock, so that a setter
meets edges whose constructor is not over. For more deleted elements, and for other
scripts, there are the theorems. Collectors: the interesting cases need two elements
of a kind known to different collectors, one known to both, and a kind whose failing
scan has verified some elements before it fails (interfaces); a timeout of two ticks
is the smallest that lets a scan come before the expiry, and `OnlyFailuresLose` holds
for all. Deployment: two hosts are what it takes to confuse names, and the second run
has one object of every other type (two networks, for an interface that moves). In
both the plans are not cut: every path of the domain is explored, and the goal is
reached in them, with a new, a kept and a removed host or disk in the first and with a
new or removed network in the second, so that what is said of states in `Goal` is not
empty (with the DNS server of the second run to be removed it is never reached: that
is `NoPlanRemovesDns`). ConfigNames: two setups overlap in every way; the theorems
hold for any number.

All runs but `Collectors` and `ConfigNames`, which go on for ever, have
CHECK_DEADLOCK FALSE, because the systems may stop: a Timer at its horizon, an
environment all of whose modules were lost, an element that is gone, a plan of
which no step is left that changes anything.

What the runs show of the code as it is, against a sentence of its own documentation:

- a job taken from the queue before the freeze runs during the setup
  (`EnvironmentHandler.py:527` against `521`; `Environment_not_stopped`, the run that
  ends with a violation);
- `taskState` is "Finished" before the thaw, so the thaw of one setup melts the
  graph under the next (`513`, `464`; `MeltedOnlyByAnother`);
- what keeps an applyConfig from waiting for ever is that a Worker which is stopped
  stays in the list (`187` is not reached), so that its module gets no other one
  before the thaw (`RpcsReturn`);
- an element that expires between two calls makes the next call raise inside its
  lock, and everybody who asks for that type waits for ever (`model/Graph.py:173`,
  `156`; `LocksAreOfCalls` says whose such a lock is);
- one module without interval stops the environment for good
  (`OnceOnlyPreventsScans`, `OnceOnlyPreventsSetups`), a collector that dies of a
  BaseException ends its module (`DeadCollectorEndsItsModule`), and a setup that
  crashes blocks every later one (`CrashedSetupBlocks`);
- a host of the XML file that Xen does not have ends every Xen scan of hosts, and
  the graph forgets the hosts only Xen knows (`MissingHidesOthers`); a scan that has
  found a vanished element renews nothing until the Timers have removed it
  (`LostOnlyInFailure`);
- the XML scanner needs one scan for every element that was dropped from the file
  (`VanishedLeave` holds, but only thanks to the scans that come again);
- a host with a new template is never replaced: `deleteHost` is `pass`, and the setup
  then waits for ever for the name of the template (`NoSetupReplaces`); it waits so
  whenever the plan boots a named machine unnamed (`VainOnlyIfNamed`). When a machine
  runs though its new configuration says that it does not, `VM.start` fails, the setup
  looks for it under the name of its template, and the playbook meant for it can
  reach another machine of that template: `NobodyIsMisled`, `VainOnlyIfNamed` and
  `NoSetupReplaces` except such setups;
- networks, interfaces and disks are never removed, since the three Builder
  functions raise (`OnlyHostsAreRemoved`);
- no plan exists when a DNS server is dropped or a disk added (`NoPlanRemovesDns`,
  `NoPlanAddsDisk`);
- two setups that change one machine at the same time lose each other's name and
  may destroy it (`NamesAreMembers` and `UsedMachinesStay` hold without overlap only).

Also seen with TLC, without a run of their own: with one applyConfig two Workers of
one module can be at work (the thaw resumes the Timer of a module whose job
survived the freeze), so `OneWorkerPerModule` is checked and proved without RPCs;
after a failure between freeze and setup nobody thaws the environment;
`Node.removeVerification` looks an entry up after it has removed it
(`model/Node.py:155-156`), so a node nobody verifies is only deleted when the Timer
that is left behind fires (`AbandonedAreDeleted`); a thread of a Timer that fired just
before its verification was renewed removes the renewed one (`model/Node.py:162`,
`137`), and a node may be deleted just after a collector with timeout -1 has verified
it (`163`; `scanner/modules/XmlScanner.py:11`); two collectors that set the location of a
host at the same time may leave it with two (`model/Host.py:92`).

## Fairness

`Environment`: weak fairness of every thread that has begun something (Python
threads are scheduled), of due timers, and of collectors, which are assumed to end.
No RPC is ever required to be called. `EveryModuleKeepsRunning` is claimed as long as
the handler empties the queue again and again: intervals are seconds and a dequeue
takes microseconds, but the priority queue itself would let a small module overtake
a large one for ever. `Verification`: weak fairness of threads and live timers;
`ScannersLeave` speaks of graphs that are finally not frozen, and of collectors with a
timeout. Nobody has to verify.
`Collectors`: weak fairness of the scans and of time. That every collector scans
once per tick, and so before its verifications expire, is what the sample
configuration has (`src/config/sampleEnvironment`: intervals of 5 to 40 s, timeouts of 60
and 660 s); the assumption `Timeout > 1` states it. Server and file need not change.
`ModelGraph`, `Deployment` and `ConfigNames` claim no liveness: a setup may wait for
ever, which is one of the results.

## Proofs

Checked by TLAPS, for all values of the constants under the named assumptions
(`EnvironmentAssumption`, `VerificationAssumption`, `GraphAssumption`,
`TestbedAssumption`, `TypesAssumption`, `DeploymentAssumption`,
`CollectorsAssumption`):

- `EnvironmentProofs!TypesAreCorrect`, `VerificationProofs!TypesAreCorrect`: `TypeOK`.
- `SetupsExclude` (`OneSetupAtATime`). Not inductive alone: `SetupInv` adds that a
  setup at work shows in `taskState` and that nobody is at work while the RPC
  thread is between its check of `taskState` and the moment it sets it. That window
  is harmless because RPCs are served one by one.
- `CrashBlocks` (`CrashedSetupBlocks`): on top of `SetupInv`, a crashed setup has
  nobody beside it and no applyConfig on its way.
- `WorkersExclude` (`OneWorkerPerModule`), for the specification without RPCs: each
  module has at most one token, which is its live timer, its pyTimer thread, its
  entry in the queue, the handler's job or its Worker (`OneToken`).
- `OnceOnlyBlocks` (`OnceOnlyPreventsSetups`), `OnceOnlyStopsScans`
  (`OnceOnlyPreventsScans`): the RPC thread never gets past a None, nor does the handler.
- `OnlyAnotherMelts` (`MeltedOnlyByAnother`): on top of `SetupInv`, the graph is frozen from
  the freeze that a setup owes its start to, and only a thaw that follows a "Finished"
  unfreezes it.
- `DeadCollectorsStay` (`DeadCollectorEndsItsModule`), without RPCs: a module
  whose Worker ended without its callback has no token, and never gets one again.
- `OnlyResumeRevives` (`OnlyThawRevives`, which no run checks), an action property: of all steps only those of
  a module that is scheduled, and the thaw, schedule a module.
- `NoModuleIsLost` (`NoModuleLost`): `LostInv` says where each module is while an
  environment is frozen: still scheduled (`Sources`), or on the list of a setup that
  has to resume it, with a Timer that resume() starts again (`SpentIsPending`). Its
  hypotheses are those under which it is true. `WellConfigured`: modules with an
  interval and a readable configuration, collectors that raise Exceptions only, no
  full scans: a collector that dies, a configuration that cannot be
  read and a full scan lose a module without any freeze, and a module without
  interval stops the RPC thread. `NoneFails`: no job falls out of a full queue. `OneByOne`: no
  applyConfig while a setup is underway; otherwise the thaw of one setup can
  follow the failed freeze of the next, and TLC finds a module that it loses.
- `TextSizeStopsScanning`: with a `queueSize` in environment.conf, which ConfigObj
  gives as a str, no collector is ever started.
- `TimerProofs`: `TimerInv` says that a paused Timer has no thread of its own, that the
  thread it has is the one of its last start and is due when its duration has
  passed since, and that no thread is late. `TimerIsPausable` (`IsPausableTimer`) maps
  each call to its operator, and needs it where a pause of a live Timer cannot be
  late. For a client that keeps to the protocol `Kept` adds that there is at most one
  thread, and only while the client runs the Timer; with it `TimerTyped` (`TypeOK`) and
  `TimerCountsDown` (`IsCountdown`), where a pause puts back what truncating to whole
  seconds cuts off (`WholeSeconds`).
- `PermanentStay` (`PermanentScannersStay`): no Timer of a collector with timeout -1
  ever counts and no thread has fired for it (`Silent`), since nothing but start()
  and resume() makes a Timer live and both look at the duration.
- `ScannersTick` (`EveryScannerTicks`), for the collectors with a timeout: `FreezeIsOwed` and `EntriesAccounted` say for
  each entry who will deal with it next: its counting Timer, a firing thread, the
  collector that is about to start it, or the melt that the freeze still owes.
- `ModelGraphProofs!TypesAreCorrect`: no call links a None or refers to a result it
  does not have (`GraphAssumption` says what a script is).
- `LocksBelongToCalls` (`LocksAreOfCalls`), with its converse `HoldsItsLock`: a call
  that looks something up has the lock of its type until it returns, and beyond if
  it dies.
- `ObjectsAreUnique` (`OneObjectPerKey`): while an element is created and not linked
  to the graph, its type is locked, so nobody else finds nothing (`FreshIsWanted`);
  and the edges of the graph lead to elements that exist (`GraphEdges`).
- `LivingAreInGraph` (`LivingElementsAreInGraph`): nobody is about to delete an edge
  between the graph and an element that lives (`DeletionsSpareGraph`), because setters
  look for neighbours that are elements, edges of the graph have no timeout, and a
  deletion takes edges of its own element only. While the graph knows a new element
  and the element not yet the graph, the first half is kept (`HalfIsKept`).

- `DeploymentProofs!UnnamedOneAtATime` (`OneUnnamedAtATime`): inductive, but the only action
  that could break it, `bootUnnamed`, needs that being of one PDDL type is symmetric,
  and that being named is only lost by machines that do not run.
- `DnsServersStay` (`NoPlanRemovesDns`), `NoNewDisks` (`NoPlanAddsDisk`): `GoalInv` says
  that a removed DNS server which is configured is created, and that no disk is ever
  created and so none gets a name; the goal contradicts both.
- `ExecutionFollowsPlan`: `BuildSpec => Spec`, step by step; with it `SetupBootsOneUnnamed`.
  `ExecutionTypes` (`BuildTypeOK`).
- `VainWaits` (`VainOnlyIfNamed`): while no call fails and nobody is misled, a machine
  has its own name if the planner thinks so (`NamedAsPlanned`), and what has none yet
  is looked for under its template (`NameInv`).
- `OwnConfigurations` (`NobodyIsMisled`): `AloneInv` says that until a setup waits in vain
  only machines the planner believes to run do run, and those of them that answer to
  their template are unnamed in the plan too, so that there is one of a template
  (`OneUnnamedAtATime`).
- `TemplatesStay` (`NoSetupReplaces`): `ReplaceInv` says that the machine to be replaced
  still has its name, though the planner has forgotten it; so it has to be booted
  unnamed, which is waited for in vain.
- `PlannerIsRight` (`AsBelieved`): `StrayInv` is `AloneInv` without its hypothesis: machines
  that drifted keep their own name, all others run and are called as planned.
  `BeliefInv` then says for each predicate that what the planner believes of a trusted
  host, its interfaces and services, and of networks is real; it has to add what
  machines and VIFs were created with, as the planner forgets a host without a
  name and configures it again. `KeepsFaith` is what a step has to do for it,
  shown for each Builder function.
- `OnlyHostsGo` (`OnlyHostsAreRemoved`): `StaysInv` adds that the network of an interface
  that is to be removed and its host, unless removed too, are there, because moving
  an interface takes the VIF away and puts it back only if they are. All steps but
  `removeHost` and `configureNetwork` are shown to take nothing away (`Grows`).
- `ConfigNamesProofs!NamesStayTrue`, `MembersKeepTheirMachine`: without an overlap at
  most one setup is in the middle of a change; `Tidy` says how it finds the machine
  and `Adding`, `Removing`, `Destroying` what is true at each of its calls.
- `CollectorsProofs!OnlyFailuresLose` (`LostOnlyInFailure`): `Fresh` says that what a
  successful scan has left in the graph was verified in this tick or the one before,
  or has come from the file and not been dropped from it for a tick.

Only model-checked: liveness (`EveryModuleKeepsRunning`, `RpcsReturn`, `ScannersLeave`,
`AbandonedAreDeleted`, `VanishedLeave`, `GraphConverges`, `MissingHidesOthers`), since ENABLED and fairness are out of
the prover's reach. Every safety property of a run that passes is stated by a theorem
(three of them as their runs check them: `OneWorkerPerModule` and
`DeadCollectorEndsItsModule` without RPCs, `NoModuleLost` under the hypotheses above, of
which the bounds of `Environment_freeze` are an instance).

## Not modelled

- `stopEnvironment`: its only caller calls it on a name, a str (`Insalata.py:48`).
- Exporters that are triggered: their Timers are created and never started
  (`EnvironmentHandler.py:217, 235`).
- Module intervals below -1, which the configuration format does not mean.
- In `Timer` the duration is not negative (-1 starts nothing and is never counted;
  `Verification` has it), and a thread fires in one step: the window between a thread
  that has fired and `cancel()` is in `Verification` (`popping`) and in `Environment`
  (`putting`).
- Freezes that fail: a failure between freeze and thaw leaves the environment frozen,
  and no property promises that it melts.
- In `Verification`, deletion is one step; the edges it removes belong to
  `ModelGraph`. Edge.delete, which tells both ends, is one step there. Events reach
  only the exporter.
- In `ModelGraph`: templates (created and deleted with their location), attributes
  that are not compared, setters no collector calls, and Graph.copy.
- In `Testbed`: costs, the search of the planner (any path to the goal is a plan), the
  predicates no precondition or goal asks for (`serviceConfigured`) and the plain
  `reboot`, which changes no predicate. `helper/diff.py` is in `Statuses` by its
  results only.
- In `Deployment`: steps of a plan that change nothing the planner believes; plans
  with `unconfigureDns` or `unconfigureDhcp`, which are not executed (the Builder has
  no such functions, and the parser raises a KeyError); DNS servers of different
  domains on one host, which `configureDnsmasq` refuses as well (`service.py:54`); plans
  that create again a host they have to remove (the guard in `DoCreateHost`, a bound); a host without a
  function of its own for an action (`findFunction` returns None and the step raises);
  the second call of VBD.create in `addDisk`; the files and variables of playbooks. For a
  host that stays the planner writes the power state of the new configuration;
  machines whose real power state is another one, in either direction, are in the
  first run (`Drifted`) only. A machine that is really suspended, for which `VM.start`
  fails too, is not modelled.
- In `ConfigNames`: networks, whose names follow the same three calls but whose
  removal raises (also in `Deployment`, where the name of the configuration, which is
  gone by then, is not part of the state); other disks than the default one.
- In `Collectors`: the hardware scan (its disks fail in the same way,
  `XenHardwareScan.py:102`), a server that cannot be reached (the scan returns at
  once), and the collectors that log in to hosts, ask SNMP agents or run nmap: they
  add to what is in the graph and are I/O otherwise.
- The JSON exporter: its buffer is only appended to and written whole again every
  second; after stop at most one more write follows. Its Timer is `Timer`.
- Address helpers, which hand everything to the library `netaddr`; SSH, SNMP, the RPC
  daemon and the client, which are I/O.

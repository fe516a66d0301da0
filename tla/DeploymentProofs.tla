-------------------------- MODULE DeploymentProofs ---------------------------
(***************************************************************************)
(* Proofs about the planner's view of a testbed (module Testbed) and about *)
(* the execution of a plan (module Deployment), for every set of hosts,    *)
(* networks, interfaces, disks and services and every number of faults.    *)
(* First the plan: types and names.  Then what becomes of it: what is not  *)
(* removed, who is waited for and who is misled, and, last, that what the  *)
(* planner believes is so.                                                 *)
(***************************************************************************)
EXTENDS Deployment, TLAPS

(***************************************************************************)
(* Every predicate holds of objects of its type only                       *)
(***************************************************************************)

LEMMA TypeInit == Init => TypeOK
<1> SUFFICES ASSUME NEW st \in Statuses, NEW differ \in SUBSET Differences,
                    is = InitialFacts(st, differ)
             PROVE  TypeOK
  BY DEF Init
<1> QED
  BY TestbedAssumption
     DEF TypeOK, InitialFacts, InitHosts, InitInterface, InitService, InitDisk,
         Objects, Services

\* The steps of the plan, by what they are about, keep the types.
LEMMA TypeHost ==
  ASSUME TypeOK, NEW h \in Hosts, HostStep(h)
  PROVE  TypeOK'
<1> USE TestbedAssumption DEF TypeOK, Objects
<1>1. CASE Boot(h) BY <1>1 DEF Boot
<1>2. CASE BootAndNamed(h) BY <1>2 DEF BootAndNamed
<1>3. CASE BootUnnamed(h) BY <1>3 DEF BootUnnamed
<1>4. CASE Shutdown(h) BY <1>4 DEF Shutdown
<1>5. CASE RebootAndNamed(h) BY <1>5 DEF RebootAndNamed
<1>6. CASE CreateHost(h) BY <1>6 DEF CreateHost
<1>7. CASE DeleteHost(h) BY <1>7 DEF DeleteHost
<1>8. CASE RemoveHost(h) BY <1>8 DEF RemoveHost
<1>9. CASE Name(h) BY <1>9 DEF Name
<1>10. CASE ConfigureFirewall(h) BY <1>10 DEF ConfigureFirewall
<1>11. CASE ConfigureCpus(h) BY <1>11 DEF ConfigureCpus
<1>12. CASE ConfigureMemory(h) BY <1>12 DEF ConfigureMemory
<1> QED
  BY <1>1, <1>2, <1>3, <1>4, <1>5, <1>6, <1>7, <1>8, <1>9, <1>10, <1>11, <1>12
     DEF HostStep

LEMMA TypeInterface ==
  ASSUME TypeOK, NEW i \in Interfaces, InterfaceStep(i)
  PROVE  TypeOK'
<1> USE TestbedAssumption DEF TypeOK, Objects
<1>1. CASE CreateInterface(i) BY <1>1 DEF CreateInterface
<1>2. CASE RemoveInterface(i) BY <1>2 DEF RemoveInterface
<1>3. CASE ConfigureInterface(i) BY <1>3 DEF ConfigureInterface
<1>4. CASE UnconfigureInterface(i) BY <1>4 DEF UnconfigureInterface
<1>5. CASE ConfigureNetwork(i) BY <1>5 DEF ConfigureNetwork
<1>6. CASE ConfigureMtu(i) BY <1>6 DEF ConfigureMtu
<1>7. CASE ConfigureRate(i) BY <1>7 DEF ConfigureRate
<1> QED
  BY <1>1, <1>2, <1>3, <1>4, <1>5, <1>6, <1>7 DEF InterfaceStep

LEMMA TypeService ==
  ASSUME TypeOK,
         \/ \E s \in Dns : ConfigureDns(s) \/ UnconfigureDns(s)
         \/ \E s \in Dhcp : ConfigureDhcp(s) \/ UnconfigureDhcp(s)
  PROVE  TypeOK'
<1> USE DEF TypeOK, Objects, Services
<1>1. ASSUME NEW s \in Dns, ConfigureDns(s) PROVE TypeOK'
  BY <1>1 DEF ConfigureDns
<1>2. ASSUME NEW s \in Dns, UnconfigureDns(s) PROVE TypeOK'
  BY <1>2 DEF UnconfigureDns
<1>3. ASSUME NEW s \in Dhcp, ConfigureDhcp(s) PROVE TypeOK'
  BY <1>3 DEF ConfigureDhcp
<1>4. ASSUME NEW s \in Dhcp, UnconfigureDhcp(s) PROVE TypeOK'
  BY <1>4 DEF UnconfigureDhcp
<1> QED
  BY <1>1, <1>2, <1>3, <1>4

LEMMA TypeNext == TypeOK /\ [Next]_is => TypeOK'
<1> SUFFICES ASSUME TypeOK, [Next]_is PROVE TypeOK'
  OBVIOUS
<1>1. ASSUME NEW r \in Routers, ConfigureRouting(r) PROVE TypeOK'
  BY <1>1 DEF TypeOK, ConfigureRouting
<1>2. ASSUME NEW n \in Networks, CreateNetwork(n) \/ RemoveNetwork(n) PROVE TypeOK'
  BY <1>2 DEF TypeOK, CreateNetwork, RemoveNetwork, Objects
<1>3. ASSUME NEW d \in Disks, AddDisk(d) \/ RemoveDisk(d) PROVE TypeOK'
  BY <1>3 DEF TypeOK, AddDisk, RemoveDisk
<1>4. ASSUME NEW x \in Hosts \cup Networks \cup Disks, AddConfigName(x) PROVE TypeOK'
  BY <1>4 DEF TypeOK, AddConfigName, Objects
<1>5. CASE UNCHANGED is
  BY <1>5 DEF TypeOK
<1> QED
  BY <1>1, <1>2, <1>3, <1>4, <1>5, TypeHost, TypeInterface, TypeService DEF Next

\* Whatever the plan, every predicate holds of objects of its type only.
THEOREM TypeCorrect == Spec => []TypeOK
  BY TypeInit, TypeNext, PTL DEF Spec

(***************************************************************************)
(* One unnamed machine at a time: inductive as it stands.  Only a boot     *)
(* makes a machine run and only deleteHost takes its name away, from a     *)
(* machine that does not run.                                              *)
(***************************************************************************)

LEMMA UnnamedInit == Init => OneUnnamedAtATime
<1> SUFFICES ASSUME NEW st \in Statuses, NEW differ \in SUBSET Differences,
                    is = InitialFacts(st, differ)
             PROVE  OneUnnamedAtATime
  BY DEF Init
<1>1. is.running \subseteq is.named
  BY DEF InitialFacts, InitHosts
<1> QED
  BY <1>1 DEF OneUnnamedAtATime

\* Being of one type is mutual.
LEMMA PeersAreSymmetric ==
  ASSUME NEW g \in Hosts, NEW h \in PeersOf(g)
  PROVE  h \in Hosts /\ g \in PeersOf(h)
  BY TestbedAssumption DEF PeersOf

\* A step after which no machine more runs without its name.
LEMMA UnnamedShrinks ==
  ASSUME OneUnnamedAtATime,
         is'.running \ is'.named \subseteq is.running \ is.named
  PROVE  OneUnnamedAtATime'
  BY DEF OneUnnamedAtATime, PeersOf

\* Before an unnamed boot no machine of the type runs without a name.
LEMMA UnnamedBoot ==
  ASSUME TypeOK, OneUnnamedAtATime, NEW h \in Hosts, BootUnnamed(h)
  PROVE  OneUnnamedAtATime'
<1> SUFFICES ASSUME NEW g \in Hosts, g \in is'.running \ is'.named,
                    NEW p \in PeersOf(g), p \in is'.running \ is'.named
             PROVE  p = g
  BY DEF OneUnnamedAtATime, PeersOf
<1>1. is'.running = is.running \cup {h} /\ is'.named = is.named
  BY DEF BootUnnamed, TypeOK
<1>2. \A q \in PeersOf(h) : q \notin is.named => q \notin is.running
  BY DEF BootUnnamed
<1>3. CASE g = h
  BY <1>1, <1>2, <1>3
<1>4. CASE p = h
  BY <1>1, <1>2, <1>4, PeersAreSymmetric
<1>5. CASE g # h /\ p # h
  BY <1>1, <1>5 DEF OneUnnamedAtATime
<1> QED
  BY <1>3, <1>4, <1>5

LEMMA UnnamedHost ==
  ASSUME TypeOK, OneUnnamedAtATime, NEW h \in Hosts, HostStep(h)
  PROVE  OneUnnamedAtATime'
<1>1. CASE BootUnnamed(h)
  BY <1>1, UnnamedBoot
<1>2. CASE Boot(h) \/ BootAndNamed(h)
  BY <1>2, UnnamedShrinks DEF Boot, BootAndNamed, TypeOK
<1>3. CASE Shutdown(h) \/ RebootAndNamed(h) \/ CreateHost(h)
  BY <1>3, UnnamedShrinks DEF Shutdown, RebootAndNamed, CreateHost, TypeOK
<1>4. CASE DeleteHost(h)
  <2>1. is'.running = is.running /\ is'.named = is.named \ {h} /\ h \notin is.running
    BY <1>4 DEF DeleteHost, TypeOK
  <2> QED
    BY <2>1, UnnamedShrinks
<1>5. CASE RemoveHost(h) \/ Name(h)
  BY <1>5, UnnamedShrinks DEF RemoveHost, Name, TypeOK
<1>6. CASE ConfigureFirewall(h) \/ ConfigureCpus(h) \/ ConfigureMemory(h)
  BY <1>6, UnnamedShrinks DEF ConfigureFirewall, ConfigureCpus, ConfigureMemory, TypeOK
<1> QED
  BY <1>1, <1>2, <1>3, <1>4, <1>5, <1>6 DEF HostStep

LEMMA RunningAndNamedStay ==
  ASSUME TypeOK, Next, \A h \in Hosts : ~HostStep(h)
  PROVE  is'.running = is.running /\ is'.named = is.named
<1>1. ASSUME NEW i \in Interfaces, InterfaceStep(i)
      PROVE  is'.running = is.running /\ is'.named = is.named
  BY <1>1 DEF TypeOK, InterfaceStep, CreateInterface, RemoveInterface,
       ConfigureInterface, UnconfigureInterface, ConfigureNetwork, ConfigureMtu,
       ConfigureRate
<1>2. ASSUME \/ \E s \in Dns : ConfigureDns(s) \/ UnconfigureDns(s)
             \/ \E s \in Dhcp : ConfigureDhcp(s) \/ UnconfigureDhcp(s)
      PROVE  is'.running = is.running /\ is'.named = is.named
  BY <1>2 DEF TypeOK, ConfigureDns, UnconfigureDns, ConfigureDhcp, UnconfigureDhcp
<1>3. ASSUME \/ \E r \in Routers : ConfigureRouting(r)
             \/ \E n \in Networks : CreateNetwork(n) \/ RemoveNetwork(n)
             \/ \E d \in Disks : AddDisk(d) \/ RemoveDisk(d)
             \/ \E x \in Hosts \cup Networks \cup Disks : AddConfigName(x)
      PROVE  is'.running = is.running /\ is'.named = is.named
  BY <1>3 DEF TypeOK, ConfigureRouting, CreateNetwork, RemoveNetwork, AddDisk,
       RemoveDisk, AddConfigName
<1> QED
  BY <1>1, <1>2, <1>3 DEF Next

\* No plan has two machines of a type run without names at once, so that one
\* that answers to the name of the template is the one that is being set up.
THEOREM UnnamedOneAtATime == Spec => []OneUnnamedAtATime
<1>1. TypeOK /\ OneUnnamedAtATime /\ [Next]_is => OneUnnamedAtATime'
  <2> SUFFICES ASSUME TypeOK, OneUnnamedAtATime, [Next]_is
               PROVE  OneUnnamedAtATime'
    OBVIOUS
  <2>1. CASE \E h \in Hosts : HostStep(h)
    BY <2>1, UnnamedHost
  <2>2. CASE Next /\ ~\E h \in Hosts : HostStep(h)
    BY <2>2, RunningAndNamedStay, UnnamedShrinks
  <2>3. CASE UNCHANGED is
    BY <2>3, UnnamedShrinks
  <2> QED
    BY <2>1, <2>2, <2>3
<1> QED
  BY <1>1, TypeCorrect, UnnamedInit, PTL DEF Spec

(***************************************************************************)
(* What no plan does: a goal that no action can reach                      *)
(***************************************************************************)

\* A DNS server that is to be removed and configured is a created one.
DnsInv == is.dns \cap is.old \subseteq is.created

\* Nor is a disk ever created, in which case it cannot get a name.
DiskInv == is.created \cap Disks = {} /\ is.configName \cap Disks = {}

GoalInv == DnsInv /\ DiskInv

\* The obstacles to the goal are there from the start, and stay.
LEMMA GoalInit == Init => GoalInv
<1> SUFFICES ASSUME NEW st \in Statuses, NEW differ \in SUBSET Differences,
                    is = InitialFacts(st, differ)
             PROVE  GoalInv
  BY DEF Init
<1>1. DnsInv
  BY DEF DnsInv, InitialFacts, InitService
<1>2. DiskInv
  BY TypesAssumption DEF DiskInv, InitialFacts
<1> QED
  BY <1>1, <1>2 DEF GoalInv

LEMMA GoalHost ==
  ASSUME TypeOK, GoalInv, NEW h \in Hosts, HostStep(h)
  PROVE  GoalInv'
<1> USE TypesAssumption, TestbedAssumption DEF GoalInv, DnsInv, DiskInv, TypeOK
<1>1. CASE Boot(h) \/ BootAndNamed(h) \/ BootUnnamed(h)
  BY <1>1 DEF Boot, BootAndNamed, BootUnnamed
<1>2. CASE Shutdown(h) \/ RebootAndNamed(h) \/ Name(h)
  BY <1>2 DEF Shutdown, RebootAndNamed, Name
<1>3. CASE CreateHost(h)
  BY <1>3 DEF CreateHost
<1>4. CASE DeleteHost(h)
  BY <1>4 DEF DeleteHost
<1>5. CASE RemoveHost(h)
  <2>1. ({h} \cup InterfacesOf(h)) \cap Dns = {}
    BY DEF InterfacesOf, Services
  <2> QED
    BY <1>5, <2>1 DEF RemoveHost
<1>6. CASE ConfigureFirewall(h) \/ ConfigureCpus(h) \/ ConfigureMemory(h)
  BY <1>6 DEF ConfigureFirewall, ConfigureCpus, ConfigureMemory
<1> QED
  BY <1>1, <1>2, <1>3, <1>4, <1>5, <1>6 DEF HostStep

LEMMA GoalInterface ==
  ASSUME TypeOK, GoalInv, NEW i \in Interfaces, InterfaceStep(i)
  PROVE  GoalInv'
<1> USE TypesAssumption DEF GoalInv, DnsInv, DiskInv, TypeOK
<1>1. i \notin Dns /\ i \notin Disks
  BY DEF Services
<1>2. CASE CreateInterface(i)
  BY <1>1, <1>2 DEF CreateInterface
<1>3. CASE RemoveInterface(i)
  BY <1>1, <1>3 DEF RemoveInterface
<1>4. CASE ConfigureInterface(i) \/ UnconfigureInterface(i)
  BY <1>4 DEF ConfigureInterface, UnconfigureInterface
<1>5. CASE ConfigureNetwork(i) \/ ConfigureMtu(i) \/ ConfigureRate(i)
  BY <1>5 DEF ConfigureNetwork, ConfigureMtu, ConfigureRate
<1> QED
  BY <1>2, <1>3, <1>4, <1>5 DEF InterfaceStep

LEMMA GoalService ==
  ASSUME TypeOK, GoalInv,
         \/ \E s \in Dns : ConfigureDns(s) \/ UnconfigureDns(s)
         \/ \E s \in Dhcp : ConfigureDhcp(s) \/ UnconfigureDhcp(s)
  PROVE  GoalInv'
<1> USE TypesAssumption DEF GoalInv, DnsInv, DiskInv, TypeOK, Services
<1>1. ASSUME NEW s \in Dns, ConfigureDns(s) PROVE GoalInv'
  <2>1. is'.created = is.created \cup {s} /\ s \notin Disks
    BY <1>1 DEF ConfigureDns
  <2>2. is'.dns \subseteq is.dns \cup {s}
    BY <1>1 DEF ConfigureDns
  <2>3. is'.old = is.old /\ is'.configName = is.configName
    BY <1>1 DEF ConfigureDns
  <2> QED
    BY <2>1, <2>2, <2>3
<1>2. ASSUME NEW s \in Dns, UnconfigureDns(s) PROVE GoalInv'
  <2>1. /\ is'.created = is.created \ {s} /\ is'.dns = is.dns \ {s}
        /\ is'.old = is.old /\ is'.configName = is.configName
    BY <1>2 DEF UnconfigureDns
  <2> QED
    BY <2>1
<1>3. ASSUME NEW s \in Dhcp, ConfigureDhcp(s) PROVE GoalInv'
  <2>1. is'.created = is.created \cup {s} /\ s \notin Disks
    BY <1>3 DEF ConfigureDhcp
  <2>2. is'.dns = is.dns /\ is'.old = is.old /\ is'.configName = is.configName
    BY <1>3 DEF ConfigureDhcp
  <2> QED
    BY <2>1, <2>2
<1>4. ASSUME NEW s \in Dhcp, UnconfigureDhcp(s) PROVE GoalInv'
  <2>1. /\ is'.created = is.created \ {s} /\ is'.dns = is.dns \ {s}
        /\ is'.old = is.old /\ is'.configName = is.configName
    BY <1>4 DEF UnconfigureDhcp
  <2> QED
    BY <2>1
<1> QED
  BY <1>1, <1>2, <1>3, <1>4

LEMMA GoalNext == TypeOK /\ GoalInv /\ [Next]_is => GoalInv'
<1> SUFFICES ASSUME TypeOK, GoalInv, [Next]_is PROVE GoalInv'
  OBVIOUS
<1> USE TypesAssumption DEF GoalInv, DnsInv, DiskInv, TypeOK
<1>1. ASSUME NEW r \in Routers, ConfigureRouting(r) PROVE GoalInv'
  BY <1>1 DEF ConfigureRouting
<1>2. ASSUME NEW n \in Networks, CreateNetwork(n) \/ RemoveNetwork(n) PROVE GoalInv'
  BY <1>2 DEF CreateNetwork, RemoveNetwork, Services
<1>3. ASSUME NEW d \in Disks, AddDisk(d) \/ RemoveDisk(d) PROVE GoalInv'
  BY <1>3 DEF AddDisk, RemoveDisk
<1>4. ASSUME NEW x \in Hosts \cup Networks \cup Disks, AddConfigName(x) PROVE GoalInv'
  BY <1>4 DEF AddConfigName
<1>5. CASE UNCHANGED is
  BY <1>5
<1> QED
  BY <1>1, <1>2, <1>3, <1>4, <1>5, GoalHost, GoalInterface, GoalService DEF Next

\* What keeps a goal with removed servers or new disks out of reach is
\* there in every state of every plan.
THEOREM GoalInvariant == Spec => []GoalInv
  BY GoalInit, GoalNext, TypeCorrect, PTL DEF Spec

\* A configuration without one of the DNS servers that exist has no plan.
THEOREM DnsServersStay == Spec => []NoPlanRemovesDns
<1>1. GoalInv => NoPlanRemovesDns
  BY DEF GoalInv, DnsInv, NoPlanRemovesDns, Goal
<1> QED
  BY <1>1, GoalInvariant, PTL

\* A configuration with a disk that does not exist has no plan.
THEOREM NoNewDisks == Spec => []NoPlanAddsDisk
<1>1. GoalInv => NoPlanAddsDisk
  BY DEF GoalInv, DiskInv, NoPlanAddsDisk, Goal
<1> QED
  BY <1>1, GoalInvariant, PTL

(***************************************************************************)
(* What the planner believes follows its plan, whatever becomes of it      *)
(***************************************************************************)

LEMMA HostStepIsPlanned ==
  ASSUME NEW h \in Hosts, BuildHost(h)
  PROVE  HostStep(h)
  BY DEF BuildHost, HostStep, May, DoBoot, DoBootAndNamed, DoBootUnnamed,
     DoRebootAndNamed, DoShutdown, DoCreateHost, DoDeleteHost, DoRemoveHost,
     DoName, DoConfigureCpus, DoConfigureMemory, DoConfigureFirewall

LEMMA InterfaceStepIsPlanned ==
  ASSUME NEW i \in Interfaces, BuildInterface(i)
  PROVE  InterfaceStep(i)
  BY DEF BuildInterface, InterfaceStep, May, DoCreateInterface, DoRemoveInterface,
     DoConfigureInterface, DoUnconfigureInterface, DoConfigureNetwork,
     DoConfigureMtu, DoConfigureRate

\* A step of the execution is a step of the plan for the planner.
LEMMA StepIsPlanned == [BuildNext]_vars => [Next]_is
<1> SUFFICES ASSUME [BuildNext]_vars PROVE [Next]_is
  OBVIOUS
<1>1. CASE \E h \in Hosts : BuildHost(h)
  BY <1>1, HostStepIsPlanned DEF Next
<1>2. CASE \E i \in Interfaces : BuildInterface(i)
  BY <1>2, InterfaceStepIsPlanned DEF Next
<1>3. CASE \/ \E r \in Routers : DoConfigureRouting(r)
           \/ \E n \in Networks : DoCreateNetwork(n) \/ DoRemoveNetwork(n)
           \/ \E d \in Disks : DoAddDisk(d) \/ DoRemoveDisk(d)
  BY <1>3 DEF Next, May, DoConfigureRouting, DoCreateNetwork, DoRemoveNetwork,
     DoAddDisk, DoRemoveDisk
<1>4. CASE \/ \E s \in Dns : DoConfigureDns(s)
           \/ \E s \in Dhcp : DoConfigureDhcp(s)
           \/ \E x \in Hosts \cup Networks \cup Disks : DoAddConfigName(x)
  BY <1>4 DEF Next, May, DoConfigureDns, DoConfigureDhcp, DoAddConfigName
<1>5. CASE WaitForBoot \/ UNCHANGED vars
  BY <1>5 DEF WaitForBoot, vars
<1> QED
  BY <1>1, <1>2, <1>3, <1>4, <1>5 DEF BuildNext

\* The execution of a plan is a plan: faults, lost steps and machines that do
\* not answer leave what the planner believes on its path.
THEOREM ExecutionFollowsPlan == BuildSpec => Spec
<1>1. BuildInit => Init
  BY DEF BuildInit
<1> QED
  BY <1>1, StepIsPlanned, PTL DEF BuildSpec, Spec

\* So the machines without a name are booted one at a time in every setup.
THEOREM SetupBootsOneUnnamed == BuildSpec => []OneUnnamedAtATime
  BY ExecutionFollowsPlan, UnnamedOneAtATime, PTL

(***************************************************************************)
(* What is not removed.  Nothing takes a network away; an interface that   *)
(* is taken from a host to be moved comes back because its network and     *)
(* host are there; and no host that was removed is created again.          *)
(***************************************************************************)

RealType == real \in [RealFields -> SUBSET Objects] /\ faults \in Nat

StaysInv ==
  faults = 0 =>
    /\ is.old \cap Networks \subseteq real.created
    /\ \A i \in is.old \cap Interfaces :
         /\ NetworkOf[i] \in real.created
         /\ HostOf[i] \in is.old \cup real.created
         /\ HostOf[i] \in real.created => i \in real.created
    /\ \A d \in is.old \cap Disks :
         /\ DiskOf[d] \in is.old \cup real.created
         /\ DiskOf[d] \in real.created => d \in real.attached

\* A step that takes nothing away, and creates nothing that had to go.
Grows ==
  faults' = 0 =>
    /\ faults = 0
    /\ real.created \subseteq real'.created
    /\ real.attached \subseteq real'.attached
    /\ (real'.created \ real.created) \cap Hosts \cap is.old = {}

Records == [RealFields -> SUBSET Objects]

\* What is to be removed is there at first.
LEMMA StaysInit == BuildInit => RealType /\ StaysInv
<1> SUFFICES ASSUME BuildInit PROVE RealType /\ StaysInv
  OBVIOUS
<1>1. PICK st \in Statuses, differ \in SUBSET Differences : is = InitialFacts(st, differ)
  BY DEF BuildInit, Init
<1>2. PICK drift \in SUBSET (Drifted \cap is.created) :
        real = [f \in RealFields |->
                  IF f = "running"
                  THEN (is.running \ drift) \cup (drift \ is.running) ELSE is[f]]
  BY DEF BuildInit
<1>3. TypeOK
  BY TypeInit DEF BuildInit
<1>4. RealType
  <2>1. \A f \in RealFields : is[f] \subseteq Objects
    BY <1>3, TestbedAssumption DEF TypeOK, RealFields, Objects, Services
  <2>2. (is.running \ drift) \cup (drift \ is.running) \subseteq Objects
    BY <2>1, DeploymentAssumption DEF RealFields, Objects
  <2>3. faults = 0
    BY DEF BuildInit
  <2> QED
    BY <1>2, <2>1, <2>2, <2>3 DEF RealType
<1>5. real.created = is.created /\ real.attached = is.attached
  BY <1>2 DEF RealFields
<1>6. is.created = {x \in Hosts \cup Networks \cup Interfaces : st[x] # "new"}
      /\ is.old = {x \in Objects : st[x] = "removed"}
      /\ is.attached = {d \in Disks : st[d] # "new" \/ d \in DefaultDisks}
  BY <1>1 DEF InitialFacts, InitDisk
<1>7. is.old \cap Networks \subseteq real.created
  BY <1>5, <1>6
<1>8. ASSUME NEW i \in is.old \cap Interfaces
      PROVE  /\ NetworkOf[i] \in real.created
             /\ HostOf[i] \in real.created
             /\ i \in real.created
  <2>1. st[i] = "removed"
    BY <1>6
  <2>2. NetworkOf[i] \in Networks /\ HostOf[i] \in Hosts
    BY TestbedAssumption
  <2>3. st[NetworkOf[i]] # "new" /\ (st[HostOf[i]] = "kept" \/ st[i] = st[HostOf[i]])
    BY <2>1 DEF Statuses
  <2> QED
    BY <1>5, <1>6, <2>1, <2>2, <2>3
<1>9. ASSUME NEW d \in is.old \cap Disks
      PROVE  DiskOf[d] \in real.created /\ d \in real.attached
  <2>1. st[d] = "removed" /\ DiskOf[d] \in Hosts
    BY <1>6, TestbedAssumption
  <2>2. st[DiskOf[d]] = "kept" \/ st[d] = st[DiskOf[d]]
    BY DEF Statuses
  <2> QED
    BY <1>5, <1>6, <2>1, <2>2
<1> QED
  BY <1>4, <1>7, <1>8, <1>9 DEF StaysInv

\* No step changes what is to be removed.
LEMMA OldStays == TypeOK /\ [Next]_is => is'.old = is.old
<1> SUFFICES ASSUME TypeOK, [Next]_is PROVE is'.old = is.old
  OBVIOUS
<1> USE DEF TypeOK
<1>1. ASSUME NEW h \in Hosts, HostStep(h) PROVE is'.old = is.old
  <2>1. CASE Boot(h) \/ BootAndNamed(h) \/ BootUnnamed(h) \/ Shutdown(h)
    BY <2>1 DEF Boot, BootAndNamed, BootUnnamed, Shutdown
  <2>2. CASE RebootAndNamed(h) \/ CreateHost(h) \/ DeleteHost(h) \/ RemoveHost(h)
    BY <2>2 DEF RebootAndNamed, CreateHost, DeleteHost, RemoveHost
  <2>3. CASE Name(h) \/ ConfigureFirewall(h) \/ ConfigureCpus(h) \/ ConfigureMemory(h)
    BY <2>3 DEF Name, ConfigureFirewall, ConfigureCpus, ConfigureMemory
  <2> QED
    BY <1>1, <2>1, <2>2, <2>3 DEF HostStep
<1>2. ASSUME NEW i \in Interfaces, InterfaceStep(i) PROVE is'.old = is.old
  BY <1>2 DEF InterfaceStep, CreateInterface, RemoveInterface, ConfigureInterface,
     UnconfigureInterface, ConfigureNetwork, ConfigureMtu, ConfigureRate
<1>3. CASE \/ \E s \in Dns : ConfigureDns(s) \/ UnconfigureDns(s)
           \/ \E s \in Dhcp : ConfigureDhcp(s) \/ UnconfigureDhcp(s)
  BY <1>3 DEF ConfigureDns, UnconfigureDns, ConfigureDhcp, UnconfigureDhcp
<1>4. CASE \/ \E r \in Routers : ConfigureRouting(r)
           \/ \E n \in Networks : CreateNetwork(n) \/ RemoveNetwork(n)
           \/ \E d \in Disks : AddDisk(d) \/ RemoveDisk(d)
           \/ \E x \in Hosts \cup Networks \cup Disks : AddConfigName(x)
  BY <1>4 DEF ConfigureRouting, CreateNetwork, RemoveNetwork, AddDisk, RemoveDisk,
     AddConfigName
<1>5. CASE UNCHANGED is
  BY <1>5
<1> QED
  BY <1>1, <1>2, <1>3, <1>4, <1>5 DEF Next

\* Steps that only add something keep it.
LEMMA GrowsKeeps ==
  ASSUME StaysInv, is'.old = is.old, Grows
  PROVE  StaysInv'
  BY TestbedAssumption DEF StaysInv, Grows

\* Steps that leave what exists as it is.
LEMMA SameGrows ==
  ASSUME RealType, real'.created = real.created, real'.attached = real.attached,
         faults' = faults \/ faults' = faults + 1
  PROVE  Grows
  BY DEF RealType, Grows

\* Nearly all steps are of this kind.
LEMMA BootGrows ==
  ASSUME RealType, NEW h \in Hosts,
         DoBoot(h) \/ DoBootAndNamed(h) \/ DoBootUnnamed(h) \/ DoRebootAndNamed(h)
  PROVE  RealType' /\ Grows
<1>1. /\ real' = real \/ real' = [real EXCEPT !.running = @ \cup {h}]
      /\ faults' = faults \/ faults' = faults + 1
  BY DEF DoBoot, DoBootAndNamed, DoBootUnnamed, DoRebootAndNamed, BootIt, Starts,
     StartsNot, Fails
<1>2. RealType'
  BY <1>1 DEF RealType, RealFields, Objects
<1> QED
  BY <1>1, <1>2, SameGrows DEF RealType, RealFields

LEMMA HostGrows ==
  ASSUME RealType, NEW h \in Hosts,
         \/ DoShutdown(h) \/ DoDeleteHost(h) \/ DoName(h) \/ DoConfigureCpus(h)
         \/ DoConfigureMemory(h) \/ DoConfigureFirewall(h)
  PROVE  RealType' /\ Grows
<1> USE DEF Fails
<1>1. /\ \/ real' = real
         \/ real' = [real EXCEPT !.running = @ \ {h}]
         \/ real' = [real EXCEPT !.cpus = @ \cup ({h} \cap Stopped)]
         \/ real' = [real EXCEPT !.memory = @ \cup ({h} \cap Stopped)]
         \/ real' = [real EXCEPT !.firewall = @ \cup {h}]
      /\ faults' = faults \/ faults' = faults + 1
  <2>1. CASE DoShutdown(h) \/ DoDeleteHost(h)
    BY <2>1 DEF DoShutdown, DoDeleteHost, Nothing, XenOnly, Xen
  <2>2. CASE DoConfigureCpus(h) \/ DoConfigureMemory(h)
    BY <2>2 DEF DoConfigureCpus, DoConfigureMemory, XenOnly, Xen
  <2>3. CASE DoName(h) \/ DoConfigureFirewall(h)
    BY <2>3 DEF DoName, DoConfigureFirewall, Ansible
  <2> QED
    BY <2>1, <2>2, <2>3
<1>2. RealType'
  BY <1>1 DEF RealType, RealFields, Objects
<1> QED
  BY <1>1, <1>2, SameGrows DEF RealType, RealFields

\* What createHost makes: the copy of the template, and then its size.
Copied(h) ==
  [real EXCEPT !.created = @ \cup {h}, !.attached = @ \cup {d \in DefaultDisks : DiskOf[d] = h}]
Made(h) == [Copied(h) EXCEPT !.cpus = @ \cup {h}, !.memory = @ \cup {h}]

LEMMA CreateHostOutcomes ==
  ASSUME NEW h \in Hosts, DoCreateHost(h)
  PROVE  \/ h \in real.created /\ real' = real /\ faults' = faults
         \/ Fails /\ real' \in {real, Copied(h)}
         \/ Fails /\ \E f \in {"cpus", "memory"} : real' = [Made(h) EXCEPT ![f] = real[f]]
         \/ real' = Made(h) /\ faults' = faults
<1>1. CASE h \in real.created
  BY <1>1 DEF DoCreateHost, Nothing, XenOnly, Xen
<1>2. CASE h \notin real.created
  BY <1>2, Zenon DEF DoCreateHost, Copied, Made
<1> QED
  BY <1>1, <1>2

LEMMA CreateHostGrows ==
  ASSUME RealType, NEW h \in Hosts, DoCreateHost(h)
  PROVE  /\ RealType' /\ Grows
         /\ real'.running = real.running
         /\ real'.created \subseteq real.created \cup {h}
         /\ faults' = 0 => real'.created = real.created \cup {h}
<1> DEFINE disks == {d \in DefaultDisks : DiskOf[d] = h}
           copied == [real EXCEPT !.created = @ \cup {h}, !.attached = @ \cup disks]
<1>1. h \notin is.old
  BY DEF DoCreateHost
<1>2. \/ h \in real.created /\ real' = real /\ faults' = faults
      \/ Fails /\ real' \in {real, copied}
      \/ Fails /\ \E f \in {"cpus", "memory"} : real' = [Made(h) EXCEPT ![f] = real[f]]
      \/ real' = Made(h) /\ faults' = faults
  BY CreateHostOutcomes DEF Copied
<1>3. disks \subseteq Objects /\ {h} \subseteq Objects
  BY TestbedAssumption DEF Objects
<1> DEFINE c1 == [real EXCEPT !.created = @ \cup {h}]
           c2 == [c1 EXCEPT !.attached = @ \cup disks]
           c3 == [c2 EXCEPT !.cpus = @ \cup {h}]
           c4 == [c3 EXCEPT !.memory = @ \cup {h}]
           c5 == [c4 EXCEPT !.cpus = real.cpus]
           c6 == [c4 EXCEPT !.memory = real.memory]
<1>4. /\ real' \in {real, c2, c4, c5, c6}
      /\ \/ faults' = faults + 1
         \/ /\ faults' = faults
            /\ \/ h \in real.created /\ real' = real
               \/ real' = c4
  <2>1. c2 = copied /\ c4 = Made(h)
    BY DEF Made, Copied
  <2> QED
    BY <1>2, <2>1 DEF Fails
<1> HIDE DEF disks
<1>5. real \in Records /\ {"created", "attached", "running", "cpus", "memory"} \subseteq RealFields
  BY DEF RealType, Records, RealFields
<1>6. c1 \in Records /\ c1.created = real.created \cup {h} /\ c1.attached = real.attached
      /\ c1.running = real.running
  BY <1>3, <1>5 DEF Records, RealFields
<1> HIDE DEF c1
<1>7. c2 \in Records /\ c2.created = c1.created /\ c2.attached = c1.attached \cup disks
      /\ c2.running = c1.running
  BY <1>3, <1>5, <1>6 DEF Records, RealFields
<1> HIDE DEF c2
<1>8. c3 \in Records /\ c3.created = c2.created /\ c3.attached = c2.attached
      /\ c3.running = c2.running
  BY <1>3, <1>5, <1>7 DEF Records, RealFields
<1> HIDE DEF c3
<1>9. c4 \in Records /\ c4.created = c3.created /\ c4.attached = c3.attached
      /\ c4.running = c3.running
  BY <1>3, <1>5, <1>8 DEF Records, RealFields
<1> HIDE DEF c4
<1>10. c5 \in Records /\ c5.created = c4.created /\ c5.attached = c4.attached
       /\ c5.running = c4.running
  BY <1>5, <1>9 DEF Records, RealFields
<1>11. c6 \in Records /\ c6.created = c4.created /\ c6.attached = c4.attached
       /\ c6.running = c4.running
  BY <1>5, <1>9 DEF Records, RealFields
<1> HIDE DEF c5, c6
<1>12. RealType'
  BY <1>4, <1>5, <1>7, <1>9, <1>10, <1>11 DEF RealType, Records
<1>13. /\ real.created \subseteq real'.created
      /\ real.attached \subseteq real'.attached
      /\ real'.created \subseteq real.created \cup {h}
      /\ real'.running = real.running
  BY <1>4, <1>6, <1>7, <1>8, <1>9, <1>10, <1>11
<1>14. faults' = 0 => real'.created = real.created \cup {h}
  <2>1. faults' = 0 => (h \in real.created /\ real' = real) \/ real' = c4
    BY <1>4 DEF RealType
  <2> QED
    BY <1>6, <1>7, <1>8, <1>9, <2>1
<1>15. faults' \in {faults, faults + 1}
  BY <1>4
<1> QED
  BY <1>1, <1>12, <1>13, <1>14, <1>15 DEF Grows, RealType

\* A VIF is created if its machine and network are there.
LEMMA VifIsThere ==
  ASSUME NEW r \in Records, NEW i \in Interfaces
  PROVE  /\ WithVif(r, i) \in Records
         /\ WithVif(r, i).attached = r.attached
         /\ WithVif(r, i).running = r.running
         /\ WithVif(r, i).created =
              IF HostOf[i] \in r.created /\ NetworkOf[i] \in r.created
              THEN r.created \cup {i} ELSE r.created
<1>1. CASE HostOf[i] \in r.created /\ NetworkOf[i] \in r.created /\ i \notin r.created
  <2> DEFINE v1 == [r EXCEPT !.created = @ \cup {i}]
             v2 == [v1 EXCEPT !.network = @ \cup {i}]
             v3 == [v2 EXCEPT !.mtu = @ \cup {i}]
             v4 == [v3 EXCEPT !.rate = @ \cup {i}]
  <2>1. WithVif(r, i) = v4
    BY <1>1 DEF WithVif
  <2>2. {i} \subseteq Objects
        /\ {"created", "attached", "running", "network", "mtu", "rate"} \subseteq RealFields
    BY DEF Objects, RealFields
  <2>3. v1 \in Records /\ v1.created = r.created \cup {i} /\ v1.attached = r.attached
        /\ v1.running = r.running
    BY <2>2 DEF Records, RealFields
  <2> HIDE DEF v1
  <2>4. v2 \in Records /\ v2.created = v1.created /\ v2.attached = v1.attached
        /\ v2.running = v1.running
    BY <2>2, <2>3 DEF Records, RealFields
  <2> HIDE DEF v2
  <2>5. v3 \in Records /\ v3.created = v2.created /\ v3.attached = v2.attached
        /\ v3.running = v2.running
    BY <2>2, <2>4 DEF Records, RealFields
  <2> HIDE DEF v3
  <2>6. v4 \in Records /\ v4.created = v3.created /\ v4.attached = v3.attached
        /\ v4.running = v3.running
    BY <2>2, <2>5 DEF Records, RealFields
  <2> HIDE DEF v4
  <2> QED
    BY <1>1, <2>1, <2>3, <2>4, <2>5, <2>6
<1>2. CASE ~(HostOf[i] \in r.created /\ NetworkOf[i] \in r.created /\ i \notin r.created)
  BY <1>2 DEF WithVif
<1> QED
  BY <1>1, <1>2

LEMMA InterfaceGrows ==
  ASSUME RealType, NEW i \in Interfaces,
         \/ DoCreateInterface(i) \/ DoRemoveInterface(i) \/ DoConfigureInterface(i)
         \/ DoUnconfigureInterface(i) \/ DoConfigureMtu(i) \/ DoConfigureRate(i)
  PROVE  RealType' /\ Grows
<1>1. /\ \/ real' = real
         \/ real' = [real EXCEPT !.interface = @ \cup {i}]
         \/ real' = [real EXCEPT !.interface = @ \ {i}]
         \/ real' = [real EXCEPT !.mtu = @ \cup ({i} \cap real.created)]
         \/ real' = [real EXCEPT !.rate = @ \cup ({i} \cap real.created)]
         \/ real' = WithVif(real, i)
      /\ faults' = faults \/ faults' = faults + 1
  <2>1. CASE DoCreateInterface(i) \/ DoRemoveInterface(i)
    BY <2>1 DEF DoCreateInterface, DoRemoveInterface, Nothing, XenOnly, Xen,
       Fails
  <2>2. CASE DoConfigureInterface(i) \/ DoUnconfigureInterface(i)
    BY <2>2 DEF DoConfigureInterface, DoUnconfigureInterface, Ansible
  <2>3. CASE DoConfigureMtu(i) \/ DoConfigureRate(i)
    BY <2>3 DEF DoConfigureMtu, DoConfigureRate, XenOnly, Xen, Fails
  <2> QED
    BY <2>1, <2>2, <2>3
<1>2. i \in Objects
  BY DEF Objects
<1>3. CASE real' = WithVif(real, i)
  <2>4. real \in Records
    BY DEF RealType, Records
  <2>5. real' \in Records
    BY <1>3, <2>4, VifIsThere
  <2>1. RealType'
    BY <1>1, <2>5 DEF RealType, Records
  <2>2. /\ real.created \subseteq real'.created
        /\ real.attached \subseteq real'.attached
        /\ real'.created \subseteq real.created \cup {i}
    BY <1>3, <2>4, VifIsThere
  <2>3. i \notin Hosts
    BY TypesAssumption
  <2> QED
    BY <1>1, <2>1, <2>2, <2>3 DEF Grows, RealType
<1>4. CASE real' # WithVif(real, i)
  <2>1. RealType'
    BY <1>1, <1>2, <1>4 DEF RealType, RealFields
  <2> QED
    BY <1>1, <1>4, <2>1, SameGrows DEF RealType, RealFields
<1> QED
  BY <1>3, <1>4

LEMMA OtherGrows ==
  ASSUME RealType,
         \/ \E r \in Routers : DoConfigureRouting(r)
         \/ \E n \in Networks : DoCreateNetwork(n) \/ DoRemoveNetwork(n)
         \/ \E d \in Disks : DoAddDisk(d) \/ DoRemoveDisk(d)
         \/ \E x \in Hosts \cup Networks \cup Disks : DoAddConfigName(x)
         \/ WaitForBoot \/ UNCHANGED vars
  PROVE  RealType' /\ Grows
<1>1. ASSUME NEW r \in Routers, DoConfigureRouting(r) PROVE RealType' /\ Grows
  <2>1. /\ real' = real \/ real' = [real EXCEPT !.routing = @ \cup {r}]
        /\ faults' = faults
    BY <1>1 DEF DoConfigureRouting, Ansible
  <2>2. RealType'
    BY <2>1, TestbedAssumption DEF RealType, RealFields, Objects
  <2> QED
    BY <2>1, <2>2, SameGrows DEF RealType, RealFields
<1>2. ASSUME NEW n \in Networks, DoCreateNetwork(n) \/ DoRemoveNetwork(n)
      PROVE  RealType' /\ Grows
  <2>1. /\ real' = real \/ real' = [real EXCEPT !.created = @ \cup {n}]
        /\ faults' = faults \/ faults' = faults + 1
    BY <1>2 DEF DoCreateNetwork, DoRemoveNetwork, Nothing, XenOnly, Xen, Fails
  <2>2. RealType'
    BY <2>1 DEF RealType, RealFields, Objects
  <2>3. /\ real.created \subseteq real'.created
        /\ real.attached \subseteq real'.attached
        /\ real'.created \subseteq real.created \cup {n}
    BY <2>1 DEF RealType, RealFields
  <2>4. n \notin Hosts
    BY TypesAssumption
  <2> QED
    BY <2>1, <2>2, <2>3, <2>4 DEF Grows, RealType
<1>3. ASSUME NEW d \in Disks, DoAddDisk(d) \/ DoRemoveDisk(d)
      PROVE  RealType' /\ Grows
  <2>1. /\ real' = real \/ real' = [real EXCEPT !.attached = @ \cup {d}]
        /\ faults' = faults \/ faults' = faults + 1
    BY <1>3 DEF DoAddDisk, DoRemoveDisk, Nothing, XenOnly, Xen, Fails
  <2>2. RealType'
    BY <2>1 DEF RealType, RealFields, Objects
  <2>3. /\ real.created = real'.created
        /\ real.attached \subseteq real'.attached
    BY <2>1 DEF RealType, RealFields
  <2> QED
    BY <2>1, <2>2, <2>3 DEF Grows, RealType
<1>4. ASSUME NEW x \in Hosts \cup Networks \cup Disks, DoAddConfigName(x)
      PROVE  RealType' /\ Grows
  <2> DEFINE tagged == IF x \in real.created
                       THEN {x} \cup {d \in DefaultDisks : DiskOf[d] = x} ELSE {}
  <2>1. /\ real' = real \/ real' = [real EXCEPT !.configName = @ \cup tagged]
        /\ faults' = faults \/ faults' = faults + 1
    BY <1>4 DEF DoAddConfigName, XenOnly, Xen, Fails
  <2>2. tagged \subseteq Objects
    BY TestbedAssumption DEF Objects
  <2>3. RealType'
    BY <2>1, <2>2 DEF RealType, RealFields
  <2> QED
    BY <2>1, <2>3, SameGrows DEF RealType, RealFields
<1>5. CASE WaitForBoot \/ UNCHANGED vars
  <2>1. UNCHANGED <<real, faults>>
    BY <1>5 DEF WaitForBoot, vars
  <2> QED
    BY <2>1 DEF RealType, Grows
<1> QED
  BY <1>1, <1>2, <1>3, <1>4, <1>5

\* What is there when dnsmasq has got the services of a host.
Served(s) ==
  [real EXCEPT !.created = @ \cup (Together(s) \cap Dns) \cup (Together(s) \cap Dhcp),
               !.dns = @ \cup (Together(s) \cap Dns),
               !.dhcp = @ \cup (Together(s) \cap Dhcp)]

\* It adds all of them, and nothing else.
LEMMA ServedFields ==
  ASSUME RealType, NEW s \in Services
  PROVE  /\ Together(s) \subseteq Services /\ Together(s) \cap (Hosts \cup Interfaces) = {}
         /\ Served(s) \in Records
         /\ Served(s).created = real.created \cup Together(s)
         /\ Served(s).dns = real.dns \cup (Together(s) \cap Dns)
         /\ Served(s).dhcp = real.dhcp \cup (Together(s) \cap Dhcp)
         /\ \A f \in RealFields \ {"created", "dns", "dhcp"} : Served(s)[f] = real[f]
<1> DEFINE dns  == Together(s) \cap Dns
           dhcp == Together(s) \cap Dhcp
           r1 == [real EXCEPT !.created = @ \cup dns \cup dhcp]
           r2 == [r1 EXCEPT !.dns = @ \cup dns]
           r3 == [r2 EXCEPT !.dhcp = @ \cup dhcp]
<1>1. Together(s) \subseteq Services
  BY DEF Together, ServicesOf
<1>2. Together(s) \cap (Hosts \cup Interfaces) = {}
  BY <1>1, TypesAssumption
<1>3. dns \cup dhcp = Together(s) /\ dns \subseteq Objects /\ dhcp \subseteq Objects
  BY <1>1 DEF Services, Objects
<1>4. Served(s) = r3
  BY DEF Served
<1> HIDE DEF dns, dhcp
<1>5. real \in Records /\ {"created", "dns", "dhcp"} \subseteq RealFields
  BY DEF RealType, Records, RealFields
<1>6. /\ r1 \in Records /\ r1.created = real.created \cup dns \cup dhcp
      /\ \A f \in RealFields \ {"created"} : r1[f] = real[f]
  BY <1>3, <1>5 DEF Records
<1> HIDE DEF r1
<1>7. /\ r2 \in Records /\ r2.dns = r1.dns \cup dns
      /\ \A f \in RealFields \ {"dns"} : r2[f] = r1[f]
  BY <1>3, <1>5, <1>6 DEF Records
<1> HIDE DEF r2
<1>8. /\ r3 \in Records /\ r3.dhcp = r2.dhcp \cup dhcp
      /\ \A f \in RealFields \ {"dhcp"} : r3[f] = r2[f]
  BY <1>3, <1>5, <1>7 DEF Records
<1> HIDE DEF r3
<1>9. /\ r3.created = real.created \cup Together(s)
      /\ r3.dns = real.dns \cup dns /\ r3.dhcp = real.dhcp \cup dhcp
  BY <1>3, <1>5, <1>6, <1>7, <1>8
<1>10. \A f \in RealFields \ {"created", "dns", "dhcp"} : r3[f] = real[f]
  BY <1>6, <1>7, <1>8
<1> QED
  BY <1>1, <1>2, <1>4, <1>8, <1>9, <1>10 DEF dns, dhcp

LEMMA ServiceGrows ==
  ASSUME RealType,
         (\E s \in Dns : DoConfigureDns(s)) \/ (\E s \in Dhcp : DoConfigureDhcp(s))
  PROVE  RealType' /\ Grows
<1>1. PICK s \in Services : Dnsmasq(s)
  BY DEF DoConfigureDns, DoConfigureDhcp, Services
<1>2. /\ real' = real \/ real' = Served(s)
      /\ faults' = faults \/ faults' = faults + 1
  BY <1>1 DEF Dnsmasq, Nothing, XenOnly, Xen, Fails, Ansible, Served
<1>3. /\ Served(s) \in Records /\ Served(s).created = real.created \cup Together(s)
      /\ Together(s) \subseteq Services /\ Served(s).attached = real.attached
  BY ServedFields DEF RealFields
<1>4. RealType'
  BY <1>2, <1>3 DEF RealType, Records
<1>5. /\ real.created \subseteq real'.created
      /\ real.attached \subseteq real'.attached
      /\ real'.created \subseteq real.created \cup Services
  BY <1>2, <1>3
<1> QED
  BY <1>2, <1>4, <1>5, TypesAssumption DEF Grows, RealType

\* The two kinds of steps that take something away.
LEMMA RemoveHostStays ==
  ASSUME RealType, StaysInv, is'.old = is.old, NEW h \in Hosts, DoRemoveHost(h)
  PROVE  RealType' /\ StaysInv'
<1> DEFINE gone == {h} \cup InterfacesOf(h) \cup ServicesOf(h)
                     \cup {d \in Disks : DiskOf[d] = h}
<1>1. /\ real' = real \/ real' = [f \in RealFields |-> real[f] \ gone]
      /\ faults' = faults \/ faults' = faults + 1
  BY DEF DoRemoveHost, Nothing, XenOnly, Xen, Fails
<1>2. RealType'
  BY <1>1 DEF RealType
<1>3. CASE real' = real
  BY <1>1, <1>2, <1>3, SameGrows, GrowsKeeps
<1>4. CASE real' = [f \in RealFields |-> real[f] \ gone] /\ faults' = 0
  <2>1. faults = 0
    BY <1>1, <1>4 DEF RealType
  <2>2. real'.created = real.created \ gone /\ real'.attached = real.attached \ gone
    BY <1>4 DEF RealFields
  <2>3. h \in is.old
    BY DEF DoRemoveHost, May, RemoveHost
  <2>4. gone \cap Networks = {} /\ gone \cap Hosts = {h}
    BY TypesAssumption DEF InterfacesOf, ServicesOf
  <2>5. is'.old \cap Networks \subseteq real'.created
    BY <2>1, <2>2, <2>4 DEF StaysInv
  <2>6. ASSUME NEW i \in is'.old \cap Interfaces
        PROVE  /\ NetworkOf[i] \in real'.created
               /\ HostOf[i] \in is'.old \cup real'.created
               /\ HostOf[i] \in real'.created => i \in real'.created
    <3>1. NetworkOf[i] \in Networks /\ HostOf[i] \in Hosts
      BY TestbedAssumption
    <3>2. HostOf[i] # h => i \notin gone
      BY TypesAssumption DEF InterfacesOf, ServicesOf
    <3> QED
      BY <2>1, <2>2, <2>3, <2>4, <3>1, <3>2 DEF StaysInv
  <2>7. ASSUME NEW d \in is'.old \cap Disks
        PROVE  /\ DiskOf[d] \in is'.old \cup real'.created
               /\ DiskOf[d] \in real'.created => d \in real'.attached
    <3>1. DiskOf[d] \in Hosts
      BY TestbedAssumption
    <3>2. DiskOf[d] # h => d \notin gone
      BY TypesAssumption DEF InterfacesOf, ServicesOf
    <3> QED
      BY <2>1, <2>2, <2>3, <2>4, <3>1, <3>2 DEF StaysInv
  <2> QED
    BY <1>2, <2>5, <2>6, <2>7 DEF StaysInv
<1> QED
  BY <1>1, <1>2, <1>3, <1>4 DEF StaysInv

LEMMA MoveStays ==
  ASSUME RealType, StaysInv, is'.old = is.old, NEW i \in Interfaces,
         DoConfigureNetwork(i)
  PROVE  RealType' /\ StaysInv'
<1> DEFINE without == WithoutVif(real, i)
<1>1. \/ faults' = faults /\ real' = WithVif(without, i)
      \/ faults' = faults + 1 /\ real' \in {real, without}
  BY DEF DoConfigureNetwork, XenOnly, Xen, Fails
<1>2. i \in Objects
  BY DEF Objects
<1>3. /\ without \in Records
      /\ without.created = real.created \ {i} /\ without.attached = real.attached
  BY DEF RealType, RealFields, WithoutVif, Records
<1> HIDE DEF without
<1>4. /\ WithVif(without, i) \in Records
      /\ WithVif(without, i).attached = without.attached
      /\ WithVif(without, i).created =
           IF HostOf[i] \in without.created /\ NetworkOf[i] \in without.created
           THEN without.created \cup {i} ELSE without.created
  BY <1>3, VifIsThere
<1>5. RealType'
  BY <1>1, <1>3, <1>4 DEF RealType, Records
<1>6. CASE faults' = 0
  <2>1. faults = 0 /\ real' = WithVif(without, i)
    BY <1>1, <1>6 DEF RealType
  <2>2. HostOf[i] \in Hosts /\ NetworkOf[i] \in Networks /\ i \notin Hosts \cup Networks
    BY TestbedAssumption, TypesAssumption
  <2>3. /\ real'.attached = real.attached
        /\ \/ real'.created = (real.created \ {i}) \cup {i}
           \/ /\ real'.created = real.created \ {i}
              /\ HostOf[i] \notin real.created \/ NetworkOf[i] \notin real.created
    BY <2>1, <2>2, <1>3, <1>4
  <2>4. \A x \in Hosts \cup Networks : x \in real'.created <=> x \in real.created
    BY <2>2, <2>3
  <2>5. ASSUME NEW j \in is.old \cap Interfaces
        PROVE  /\ NetworkOf[j] \in real'.created
               /\ HostOf[j] \in is.old \cup real'.created
               /\ HostOf[j] \in real'.created => j \in real'.created
    <3>1. HostOf[j] \in Hosts /\ NetworkOf[j] \in Networks
      BY TestbedAssumption
    <3> QED
      BY <2>1, <2>3, <2>4, <3>1 DEF StaysInv
  <2>6. ASSUME NEW d \in is.old \cap Disks
        PROVE  /\ DiskOf[d] \in is.old \cup real'.created
               /\ DiskOf[d] \in real'.created => d \in real'.attached
    <3>1. DiskOf[d] \in Hosts
      BY TestbedAssumption
    <3> QED
      BY <2>1, <2>3, <2>4, <3>1 DEF StaysInv
  <2>7. is.old \cap Networks \subseteq real'.created
    BY <2>1, <2>4 DEF StaysInv
  <2> QED
    BY <1>5, <2>5, <2>6, <2>7 DEF StaysInv
<1> QED
  BY <1>5, <1>6 DEF StaysInv

LEMMA StaysNext ==
  TypeOK /\ RealType /\ StaysInv /\ [BuildNext]_vars => RealType' /\ StaysInv'
<1> SUFFICES ASSUME TypeOK, RealType, StaysInv, [BuildNext]_vars
             PROVE  RealType' /\ StaysInv'
  OBVIOUS
<1>1. is'.old = is.old
  BY StepIsPlanned, OldStays
<1>2. ASSUME NEW h \in Hosts, BuildHost(h) PROVE RealType' /\ StaysInv'
  BY <1>1, <1>2, BootGrows, HostGrows, CreateHostGrows, GrowsKeeps, RemoveHostStays
     DEF BuildHost
<1>3. ASSUME NEW i \in Interfaces, BuildInterface(i) PROVE RealType' /\ StaysInv'
  BY <1>1, <1>3, InterfaceGrows, GrowsKeeps, MoveStays DEF BuildInterface
<1>4. CASE (\E s \in Dns : DoConfigureDns(s)) \/ (\E s \in Dhcp : DoConfigureDhcp(s))
  BY <1>1, <1>4, ServiceGrows, GrowsKeeps
<1>5. CASE \/ \E r \in Routers : DoConfigureRouting(r)
           \/ \E n \in Networks : DoCreateNetwork(n) \/ DoRemoveNetwork(n)
           \/ \E d \in Disks : DoAddDisk(d) \/ DoRemoveDisk(d)
           \/ \E x \in Hosts \cup Networks \cup Disks : DoAddConfigName(x)
           \/ WaitForBoot \/ UNCHANGED vars
  BY <1>1, <1>5, OtherGrows, GrowsKeeps
<1> QED
  BY <1>2, <1>3, <1>4, <1>5 DEF BuildNext

\* In every setup without a failing call the networks that had to go, and the
\* interfaces and disks of hosts that stay, are still there.
THEOREM OnlyHostsGo == BuildSpec => []OnlyHostsAreRemoved
<1>1. StaysInv => OnlyHostsAreRemoved
  BY DEF StaysInv, OnlyHostsAreRemoved
<1>2. BuildSpec => []TypeOK
  BY ExecutionFollowsPlan, TypeCorrect, PTL
<1> QED
  BY <1>1, <1>2, StaysInit, StaysNext, PTL DEF BuildSpec

(***************************************************************************)
(* Steps that do not concern the hosts themselves                          *)
(*                                                                         *)
(* Most steps change neither which hosts there are, for the planner or     *)
(* really, nor which run, nor what they are called.  They may configure a  *)
(* machine that answers in the place of another.                           *)
(***************************************************************************)

PlannedHosts == <<is.running, is.named, is.nameNotApplied, is.templateChanged, is.old,
                  is.created \cap Hosts>>

RealHosts == <<real.running, real.created \cap Hosts>>

HostsStay == UNCHANGED <<PlannedHosts, RealHosts, names, waiting>>

\* Another machine than one that the planner believes running gets its
\* configuration.
MisledBy(h, x) == \E g \in Answering(Target(h)) \ {h} : misled' = misled \cup {<<g, x>>}

OwnersAreThere ==
  \A i \in Interfaces \cap real'.created : i \in real.created \/ HostOf[i] \in real.created

Bystander ==
  /\ HostsStay /\ OwnersAreThere /\ waiting = Nobody
  /\ faults' = faults \/ Fails
  /\ misled' = misled \/ \E h \in is.running : \E x \in Objects : MisledBy(h, x)

\* The same of the plan alone.
LEMMA PlanBystander ==
  ASSUME TypeOK,
         \/ \E h \in Hosts : ConfigureCpus(h) \/ ConfigureMemory(h) \/ ConfigureFirewall(h)
         \/ \E r \in Routers : ConfigureRouting(r)
         \/ \E i \in Interfaces : InterfaceStep(i)
         \/ \E n \in Networks : CreateNetwork(n) \/ RemoveNetwork(n)
         \/ \E d \in Disks : AddDisk(d) \/ RemoveDisk(d)
         \/ \E s \in Dns : ConfigureDns(s)
         \/ \E s \in Dhcp : ConfigureDhcp(s)
         \/ \E x \in Hosts \cup Networks \cup Disks : AddConfigName(x)
  PROVE  UNCHANGED PlannedHosts
<1> USE TypesAssumption DEF TypeOK, PlannedHosts
<1>1. ASSUME NEW h \in Hosts, ConfigureCpus(h) \/ ConfigureMemory(h) \/ ConfigureFirewall(h)
      PROVE  UNCHANGED PlannedHosts
  BY <1>1 DEF ConfigureCpus, ConfigureMemory, ConfigureFirewall
<1>2. ASSUME NEW r \in Routers, ConfigureRouting(r) PROVE UNCHANGED PlannedHosts
  BY <1>2 DEF ConfigureRouting
<1>3. ASSUME NEW i \in Interfaces, InterfaceStep(i) PROVE UNCHANGED PlannedHosts
  <2>1. i \notin Hosts
    OBVIOUS
  <2>2. CASE CreateInterface(i) \/ RemoveInterface(i)
    <3>1. /\ is'.created = is.created \cup {i} \/ is'.created = is.created \ {i}
          /\ UNCHANGED <<is.running, is.named, is.nameNotApplied, is.templateChanged, is.old>>
      BY <2>2 DEF CreateInterface, RemoveInterface
    <3>2. is'.created \cap Hosts = is.created \cap Hosts
      BY <2>1, <3>1
    <3> QED
      BY <3>1, <3>2
  <2>3. CASE ~(CreateInterface(i) \/ RemoveInterface(i))
    BY <1>3, <2>3 DEF InterfaceStep, ConfigureInterface, UnconfigureInterface,
       ConfigureNetwork, ConfigureMtu, ConfigureRate
  <2> QED
    BY <2>2, <2>3
<1>4. ASSUME NEW n \in Networks, CreateNetwork(n) \/ RemoveNetwork(n)
      PROVE  UNCHANGED PlannedHosts
  <2>1. n \notin Hosts
    OBVIOUS
  <2> QED
    BY <1>4, <2>1 DEF CreateNetwork, RemoveNetwork
<1>5. ASSUME NEW d \in Disks, AddDisk(d) \/ RemoveDisk(d) PROVE UNCHANGED PlannedHosts
  BY <1>5 DEF AddDisk, RemoveDisk
<1>6. ASSUME NEW s \in Services, ConfigureDns(s) \/ ConfigureDhcp(s)
      PROVE  UNCHANGED PlannedHosts
  <2>1. s \notin Hosts
    OBVIOUS
  <2>2. /\ is'.created = is.created \cup {s}
        /\ UNCHANGED <<is.running, is.named, is.nameNotApplied, is.templateChanged, is.old>>
    <3>1. CASE ConfigureDns(s)
      BY <3>1 DEF ConfigureDns
    <3>2. CASE ConfigureDhcp(s)
      BY <3>2 DEF ConfigureDhcp
    <3> QED
      BY <1>6, <3>1, <3>2
  <2>3. is'.created \cap Hosts = is.created \cap Hosts
    BY <2>1, <2>2
  <2> QED
    BY <2>2, <2>3
<1>7. ASSUME NEW x \in Hosts \cup Networks \cup Disks, AddConfigName(x)
      PROVE  UNCHANGED PlannedHosts
  BY <1>7 DEF AddConfigName
<1> QED
  BY <1>1, <1>2, <1>3, <1>4, <1>5, <1>6, <1>7 DEF Services

\* What ansible does.
LEMMA AnsibleBystander ==
  ASSUME NEW h \in Hosts, NEW x, NEW r, Ansible(h, x, r)
  PROVE  /\ UNCHANGED <<names, waiting, faults>>
         /\ real' = real \/ real' = r
         /\ misled' = misled \/ MisledBy(h, x)
  BY DEF Ansible, MisledBy

\* What a Xen call does.
LEMMA XenBystander ==
  ASSUME NEW r, XenOnly(r)
  PROVE  /\ UNCHANGED <<names, waiting, misled>>
         /\ real' = real \/ real' = r
         /\ faults' = faults \/ Fails
  BY DEF XenOnly, Xen

\* The steps that concern no host itself, by what they configure.
LEMMA ConfigureBystander ==
  ASSUME TypeOK, RealType,
         \/ \E h \in Hosts : DoConfigureCpus(h) \/ DoConfigureMemory(h) \/ DoConfigureFirewall(h)
         \/ \E r \in Routers : DoConfigureRouting(r)
  PROVE  Bystander
<1>1. UNCHANGED PlannedHosts /\ waiting = Nobody
  BY PlanBystander DEF May, DoConfigureCpus, DoConfigureMemory, DoConfigureFirewall,
     DoConfigureRouting
<1>2. ASSUME NEW h \in Hosts, DoConfigureCpus(h) \/ DoConfigureMemory(h) PROVE Bystander
  <2>1. /\ UNCHANGED <<names, waiting, misled>>
        /\ \/ real' = real
           \/ real' = [real EXCEPT !.cpus = @ \cup ({h} \cap Stopped)]
           \/ real' = [real EXCEPT !.memory = @ \cup ({h} \cap Stopped)]
        /\ faults' = faults \/ Fails
    BY <1>2, XenBystander DEF DoConfigureCpus, DoConfigureMemory
  <2>2. real'.running = real.running /\ real'.created = real.created
    BY <2>1 DEF RealType, RealFields
  <2> QED
    BY <1>1, <2>1, <2>2 DEF Bystander, HostsStay, OwnersAreThere, RealHosts
<1>3. ASSUME NEW h \in Hosts, DoConfigureFirewall(h) \/ (h \in Routers /\ DoConfigureRouting(h))
      PROVE  Bystander
  <2>1. h \in is.running
    BY <1>3 DEF DoConfigureFirewall, DoConfigureRouting, May, ConfigureFirewall,
       ConfigureRouting
  <2>2. /\ UNCHANGED <<names, waiting, faults>>
        /\ \/ real' = real
           \/ real' = [real EXCEPT !.firewall = @ \cup {h}]
           \/ real' = [real EXCEPT !.routing = @ \cup {h}]
        /\ misled' = misled \/ MisledBy(h, h)
    BY <1>3, AnsibleBystander DEF DoConfigureFirewall, DoConfigureRouting
  <2>3. real'.running = real.running /\ real'.created = real.created
    BY <2>2 DEF RealType, RealFields
  <2>4. h \in Objects
    BY DEF Objects
  <2> QED
    BY <1>1, <2>1, <2>2, <2>3, <2>4 DEF Bystander, HostsStay, OwnersAreThere, RealHosts
<1> QED
  BY <1>2, <1>3, TestbedAssumption

\* A VIF goes alone.
LEMMA VifGoes ==
  ASSUME NEW r \in Records, NEW i \in Interfaces
  PROVE  /\ WithoutVif(r, i) \in Records
         /\ WithoutVif(r, i).running = r.running
         /\ WithoutVif(r, i).created = r.created \ {i}
  BY DEF WithoutVif, Records, RealFields

LEMMA InterfaceBystander ==
  ASSUME TypeOK, RealType, NEW i \in Interfaces, BuildInterface(i)
  PROVE  Bystander
<1>1. InterfaceStep(i) /\ waiting = Nobody
  BY InterfaceStepIsPlanned DEF BuildInterface, May, DoCreateInterface, DoRemoveInterface,
     DoConfigureInterface, DoUnconfigureInterface, DoConfigureNetwork, DoConfigureMtu,
     DoConfigureRate
<1>2. UNCHANGED PlannedHosts
  BY <1>1, PlanBystander
<1>3. HostOf[i] \in Hosts /\ i \in Objects /\ i \notin Hosts /\ real \in Records
  BY TestbedAssumption, TypesAssumption DEF Objects, RealType, Records
<1>4. CASE DoConfigureInterface(i) \/ DoUnconfigureInterface(i)
  <2>1. HostOf[i] \in is.running
    BY <1>4 DEF DoConfigureInterface, DoUnconfigureInterface, May, ConfigureInterface,
       UnconfigureInterface
  <2>2. /\ UNCHANGED <<names, waiting, faults>>
        /\ \/ real' = real
           \/ real' = [real EXCEPT !.interface = @ \cup {i}]
           \/ real' = [real EXCEPT !.interface = @ \ {i}]
        /\ misled' = misled \/ MisledBy(HostOf[i], i)
    BY <1>3, <1>4, AnsibleBystander DEF DoConfigureInterface, DoUnconfigureInterface
  <2>3. real'.running = real.running /\ real'.created = real.created
    BY <2>2 DEF RealType, RealFields
  <2> QED
    BY <1>1, <1>2, <1>3, <2>1, <2>2, <2>3 DEF Bystander, HostsStay, OwnersAreThere, RealHosts
<1>5. CASE DoConfigureMtu(i) \/ DoConfigureRate(i) \/ DoRemoveInterface(i)
  <2>1. /\ UNCHANGED <<names, waiting, misled>>
        /\ \/ real' = real
           \/ real' = [real EXCEPT !.mtu = @ \cup ({i} \cap real.created)]
           \/ real' = [real EXCEPT !.rate = @ \cup ({i} \cap real.created)]
        /\ faults' = faults \/ Fails
    BY <1>5, XenBystander DEF DoConfigureMtu, DoConfigureRate, DoRemoveInterface, Nothing
  <2>2. real'.running = real.running /\ real'.created = real.created
    BY <2>1 DEF RealType, RealFields
  <2> QED
    BY <1>1, <1>2, <2>1, <2>2 DEF Bystander, HostsStay, OwnersAreThere, RealHosts
<1>6. CASE DoCreateInterface(i) \/ DoConfigureNetwork(i)
  <2> DEFINE without == WithoutVif(real, i)
  <2>1. /\ UNCHANGED <<names, waiting, misled>>
        /\ real' \in {real, without, WithVif(real, i), WithVif(without, i)}
        /\ faults' = faults \/ Fails
    BY <1>6, XenBystander DEF DoCreateInterface, DoConfigureNetwork, Fails
  <2>2. /\ without \in Records /\ without.running = real.running
        /\ without.created = real.created \ {i}
    BY <1>3, VifGoes
  <2> HIDE DEF without
  <2>3. /\ WithVif(real, i).running = real.running
        /\ WithVif(without, i).running = without.running
    BY <1>3, <2>2, VifIsThere
  <2>4. /\ WithVif(real, i).created =
             IF HostOf[i] \in real.created /\ NetworkOf[i] \in real.created
             THEN real.created \cup {i} ELSE real.created
        /\ WithVif(without, i).created =
             IF HostOf[i] \in without.created /\ NetworkOf[i] \in without.created
             THEN without.created \cup {i} ELSE without.created
    BY <1>3, <2>2, VifIsThere
  <2>5. real'.running = real.running /\ real'.created \cap Hosts = real.created \cap Hosts
    BY <1>3, <2>1, <2>2, <2>3, <2>4
  <2>6. OwnersAreThere
    BY <1>3, <2>1, <2>2, <2>4 DEF OwnersAreThere
  <2> QED
    BY <1>1, <1>2, <2>1, <2>5, <2>6 DEF Bystander, HostsStay, RealHosts
<1> QED
  BY <1>4, <1>5, <1>6 DEF BuildInterface

LEMMA ServiceBystander ==
  ASSUME TypeOK, RealType,
         (\E s \in Dns : DoConfigureDns(s)) \/ (\E s \in Dhcp : DoConfigureDhcp(s))
  PROVE  Bystander
<1>1. UNCHANGED PlannedHosts /\ waiting = Nobody
  BY PlanBystander DEF May, DoConfigureDns, DoConfigureDhcp
<1>2. PICK s \in Services : Dnsmasq(s) /\ HostOf[InterfaceOf[s]] \in is.running
  BY DEF DoConfigureDns, DoConfigureDhcp, Services, May, ConfigureDns, ConfigureDhcp, ServedBy
<1> DEFINE h == HostOf[InterfaceOf[s]]
<1>3. h \in Hosts /\ s \in Objects
  BY TestbedAssumption DEF Objects
<1>4. /\ UNCHANGED <<names, waiting>>
      /\ real' = real \/ real' = Served(s)
      /\ faults' = faults \/ Fails
      /\ misled' = misled \/ MisledBy(h, s)
  <2>1. Nothing \/ Ansible(h, s, Served(s))
    BY <1>2 DEF Dnsmasq, Served
  <2> QED
    BY <1>3, <2>1, AnsibleBystander, XenBystander DEF Nothing
<1>5. /\ Served(s).running = real.running /\ Served(s).created = real.created \cup Together(s)
      /\ Together(s) \cap (Hosts \cup Interfaces) = {}
  BY ServedFields DEF RealFields
<1>6. h \in is.running
  BY <1>2
<1> HIDE DEF h
<1>7. /\ real'.running = real.running /\ real'.created \cap Hosts = real.created \cap Hosts
      /\ OwnersAreThere
  BY <1>4, <1>5 DEF OwnersAreThere
<1> QED
  BY <1>1, <1>3, <1>4, <1>6, <1>7 DEF Bystander, HostsStay, RealHosts

LEMMA OtherBystander ==
  ASSUME TypeOK, RealType,
         \/ \E n \in Networks : DoCreateNetwork(n) \/ DoRemoveNetwork(n)
         \/ \E d \in Disks : DoAddDisk(d) \/ DoRemoveDisk(d)
         \/ \E x \in Hosts \cup Networks \cup Disks : DoAddConfigName(x)
  PROVE  Bystander
<1>1. UNCHANGED PlannedHosts /\ waiting = Nobody
  BY PlanBystander DEF May, DoCreateNetwork, DoRemoveNetwork, DoAddDisk, DoRemoveDisk,
     DoAddConfigName
<1>2. /\ UNCHANGED <<names, waiting, misled>>
      /\ \/ real' = real
         \/ \E n \in Networks : real' = [real EXCEPT !.created = @ \cup {n}]
         \/ \E S : real' = [real EXCEPT !.attached = @ \cup S]
         \/ \E S : real' = [real EXCEPT !.configName = @ \cup S]
      /\ faults' = faults \/ Fails
  BY XenBystander DEF DoCreateNetwork, DoRemoveNetwork, DoAddDisk, DoRemoveDisk,
     DoAddConfigName, Nothing
<1>3. /\ real'.running = real.running /\ real'.created \cap Hosts = real.created \cap Hosts
      /\ real'.created \cap Interfaces = real.created \cap Interfaces
  <2>1. CASE \E n \in Networks : real' = [real EXCEPT !.created = @ \cup {n}]
    BY <2>1, TypesAssumption DEF RealType, RealFields
  <2>2. CASE \E S : real' = [real EXCEPT !.attached = @ \cup S]
    BY <2>2 DEF RealType, RealFields
  <2>3. CASE \E S : real' = [real EXCEPT !.configName = @ \cup S]
    BY <2>3 DEF RealType, RealFields
  <2> QED
    BY <1>2, <2>1, <2>2, <2>3
<1> QED
  BY <1>1, <1>2, <1>3 DEF Bystander, HostsStay, OwnersAreThere, RealHosts

\* The steps that concern hosts, and all others.
HostOnly(h) ==
  \/ DoBoot(h) \/ DoBootAndNamed(h) \/ DoBootUnnamed(h) \/ DoRebootAndNamed(h)
  \/ DoShutdown(h) \/ DoCreateHost(h) \/ DoDeleteHost(h) \/ DoRemoveHost(h) \/ DoName(h)

\* There are no other steps.
LEMMA EveryStep ==
  ASSUME TypeOK, RealType, BuildNext
  PROVE  Bystander \/ WaitForBoot \/ \E h \in Hosts : HostOnly(h)
  BY ConfigureBystander, InterfaceBystander, ServiceBystander, OtherBystander
     DEF BuildNext, BuildHost, HostOnly

(***************************************************************************)
(* What the steps that concern a host do to it                             *)
(***************************************************************************)

\* A machine is started or left as it is.
StartedIt(h) ==
  /\ real'.running = real.running \cup {h} /\ waiting' = h /\ faults' = faults
  /\ answersTo' = [answersTo EXCEPT ![h] = etc[h]]

LeftIt ==
  /\ real'.running = real.running /\ UNCHANGED <<answersTo, waiting>>
  /\ faults' = faults \/ Fails

BootPlan(h) ==
  /\ is'.running = is.running \cup {h}
  /\ UNCHANGED <<is.created, is.old, is.named, is.templateChanged>>

\* A boot: a machine that is halted is started, and waited for.
LEMMA BootEffect ==
  ASSUME TypeOK, RealType, NEW h \in Hosts, DoBoot(h) \/ DoBootAndNamed(h) \/ DoBootUnnamed(h)
  PROVE  /\ waiting = Nobody /\ h \in is.created /\ h \notin is.running /\ BootPlan(h)
         /\ UNCHANGED <<etc, misled, real.created>>
         /\ (h \in Stopped /\ StartedIt(h)) \/ LeftIt
         /\ faults' = faults /\ h \in Stopped => StartedIt(h)
<1>1. waiting = Nobody /\ h \in is.created /\ h \notin is.running /\ BootPlan(h)
  BY DEF DoBoot, DoBootAndNamed, DoBootUnnamed, May, Boot, BootAndNamed, BootUnnamed, TypeOK,
     BootPlan
<1>2. BootIt(h)
  BY DEF DoBoot, DoBootAndNamed, DoBootUnnamed
<1>3. CASE h \in Stopped /\ Starts(h)
  <2>1. real'.running = real.running \cup {h} /\ real'.created = real.created
    BY <1>3 DEF Starts, RealType, RealFields
  <2> QED
    BY <1>1, <1>3, <2>1 DEF Starts, StartedIt
<1>4. CASE StartsNot /\ (Fails \/ (h \notin Stopped /\ UNCHANGED faults))
  BY <1>1, <1>4 DEF StartsNot, LeftIt, Fails, RealType
<1> QED
  BY <1>2, <1>3, <1>4 DEF BootIt

\* A reboot: a machine that runs is started anew.
LEMMA RebootEffect ==
  ASSUME TypeOK, RealType, NEW h \in Hosts, DoRebootAndNamed(h)
  PROVE  /\ waiting = Nobody /\ h \in is.running /\ h \in is.nameNotApplied /\ BootPlan(h)
         /\ is'.nameNotApplied = is.nameNotApplied \ {h} /\ applied' = applied \cup {h}
         /\ UNCHANGED <<etc, misled, real.created>>
         /\ (h \in real.running /\ StartedIt(h)) \/ LeftIt
         /\ faults' = faults /\ h \in real.running => StartedIt(h)
<1>1. /\ waiting = Nobody /\ h \in is.running /\ h \in is.nameNotApplied /\ BootPlan(h)
      /\ is'.nameNotApplied = is.nameNotApplied \ {h} /\ applied' = applied \cup {h}
  BY DEF DoRebootAndNamed, May, RebootAndNamed, TypeOK, BootPlan
<1>2. CASE h \in real.running /\ Starts(h)
  <2>1. real'.running = real.running \cup {h} /\ real'.created = real.created
    BY <1>2 DEF Starts, RealType, RealFields
  <2> QED
    BY <1>1, <1>2, <2>1 DEF Starts, StartedIt
<1>3. CASE StartsNot /\ (Fails \/ (h \notin real.running /\ UNCHANGED faults))
  BY <1>1, <1>3 DEF StartsNot, LeftIt, Fails, RealType
<1> QED
  BY <1>2, <1>3 DEF DoRebootAndNamed

LEMMA ShutdownEffect ==
  ASSUME TypeOK, RealType, NEW h \in Hosts, DoShutdown(h)
  PROVE  /\ waiting = Nobody
         /\ UNCHANGED <<names, waiting, misled, real.created>>
         /\ is'.running = is.running \ {h}
         /\ UNCHANGED <<is.created, is.old, is.named, is.nameNotApplied, is.templateChanged>>
         /\ \/ faults' = faults /\ real'.running = real.running \ {h}
            \/ Fails /\ real'.running = real.running
<1>1. XenOnly([real EXCEPT !.running = @ \ {h}])
  BY DEF DoShutdown
<1>2. \/ faults' = faults /\ real' = [real EXCEPT !.running = @ \ {h}]
      \/ Fails /\ real' = real
  BY <1>1 DEF XenOnly, Xen
<1>3. /\ real'.created = real.created
      /\ real'.running = real.running \/ real'.running = real.running \ {h}
      /\ faults' = faults => real'.running = real.running \ {h}
  BY <1>2 DEF RealType, RealFields, Fails
<1> QED
  BY <1>1, <1>2, <1>3 DEF DoShutdown, XenOnly, May, Shutdown, TypeOK, Fails

\* A new machine has the name of its template and is marked so.
LEMMA CreateHostEffect ==
  ASSUME TypeOK, RealType, NEW h \in Hosts, DoCreateHost(h)
  PROVE  /\ waiting = Nobody /\ h \notin is.created /\ h \notin is.old
         /\ UNCHANGED <<answersTo, waiting, misled, real.running>>
         /\ is'.created = is.created \cup {h}
         /\ UNCHANGED <<is.running, is.old, is.named, is.nameNotApplied, is.templateChanged>>
         /\ real'.created \subseteq real.created \cup {h} /\ real.created \subseteq real'.created
         /\ faults' = 0 => real'.created = real.created \cup {h}
         /\ faults' = faults \/ Fails
         /\ \/ h \in real.created /\ UNCHANGED <<etc, applied>>
            \/ h \notin real.created /\ etc' = [etc EXCEPT ![h] = TemplateOf[h]]
                 /\ applied' = applied \ {h}
            \/ Fails /\ UNCHANGED applied /\ etc' \in {etc, [etc EXCEPT ![h] = TemplateOf[h]]}
<1>1. /\ waiting = Nobody /\ h \notin is.created /\ h \notin is.old
      /\ is'.created = is.created \cup {h}
      /\ UNCHANGED <<is.running, is.old, is.named, is.nameNotApplied, is.templateChanged>>
  BY DEF DoCreateHost, May, CreateHost, TypeOK
<1>2. /\ real'.created \subseteq real.created \cup {h} /\ UNCHANGED real.running
      /\ faults' = 0 => real'.created = real.created \cup {h}
  BY CreateHostGrows
<1>3. /\ UNCHANGED <<answersTo, waiting, misled>>
      /\ faults' = faults \/ Fails
      /\ \/ h \in real.created /\ UNCHANGED <<etc, applied>>
         \/ h \notin real.created /\ etc' = [etc EXCEPT ![h] = TemplateOf[h]]
              /\ applied' = applied \ {h}
         \/ Fails /\ UNCHANGED applied /\ etc' \in {etc, [etc EXCEPT ![h] = TemplateOf[h]]}
  BY DEF DoCreateHost, Nothing, XenOnly, Xen, names
<1>4. real.created \subseteq real'.created
  <2> DEFINE disks == {d \in DefaultDisks : DiskOf[d] = h}
             c1 == [real EXCEPT !.created = @ \cup {h}]
             c2 == [c1 EXCEPT !.attached = @ \cup disks]
             c3 == [c2 EXCEPT !.cpus = @ \cup {h}]
             c4 == [c3 EXCEPT !.memory = @ \cup {h}]
             c5 == [c4 EXCEPT !.cpus = real.cpus]
             c6 == [c4 EXCEPT !.memory = real.memory]
  <2>1. real' \in {real, c2, c4, c5, c6}
    <3>1. c2 = Copied(h) /\ c4 = Made(h)
      BY DEF Made, Copied
    <3> QED
      BY <3>1, CreateHostOutcomes
  <2>2. /\ real \in Records /\ {h} \subseteq Objects /\ disks \subseteq Objects
        /\ {"created", "attached", "cpus", "memory"} \subseteq RealFields
    BY TestbedAssumption DEF RealType, Records, RealFields, Objects
  <2> HIDE DEF disks
  <2>3. c1 \in Records /\ c1.created = real.created \cup {h}
    BY <2>2 DEF Records
  <2> HIDE DEF c1
  <2>4. c2 \in Records /\ c2.created = c1.created
    BY <2>2, <2>3 DEF Records
  <2> HIDE DEF c2
  <2>5. c3 \in Records /\ c3.created = c2.created
    BY <2>2, <2>4 DEF Records
  <2> HIDE DEF c3
  <2>6. c4 \in Records /\ c4.created = c3.created
    BY <2>2, <2>5 DEF Records
  <2> HIDE DEF c4
  <2>7. c5.created = c4.created /\ c6.created = c4.created
    BY <2>2, <2>6 DEF Records
  <2> HIDE DEF c5, c6
  <2> QED
    BY <2>1, <2>3, <2>4, <2>5, <2>6, <2>7
<1> QED
  BY <1>1, <1>2, <1>3, <1>4

\* Only the planner forgets a host that is deleted.
LEMMA DeleteHostEffect ==
  ASSUME TypeOK, RealType, NEW h \in Hosts, DoDeleteHost(h)
  PROVE  /\ waiting = Nobody /\ h \notin is.running
         /\ UNCHANGED <<names, waiting, misled, real>>
         /\ faults' = faults \/ Fails
         /\ is'.created \cap Hosts = (is.created \cap Hosts) \ {h}
         /\ is'.named = is.named \ {h} /\ is'.templateChanged = is.templateChanged \ {h}
         /\ UNCHANGED <<is.running, is.old, is.nameNotApplied>>
<1>1. (InterfacesOf(h) \cup Services) \cap Hosts = {}
  BY TypesAssumption DEF InterfacesOf, Services
<1>2. is'.created = is.created \ ({h} \cup (InterfacesOf(h) \cup Services))
  BY DEF DoDeleteHost, May, DeleteHost, TypeOK
<1>3. /\ waiting = Nobody /\ h \notin is.running
      /\ is'.named = is.named \ {h} /\ is'.templateChanged = is.templateChanged \ {h}
      /\ UNCHANGED <<is.running, is.old, is.nameNotApplied>>
  BY DEF DoDeleteHost, May, DeleteHost, TypeOK
<1>4. UNCHANGED <<names, waiting, misled, real>> /\ (faults' = faults \/ Fails)
  BY XenBystander DEF DoDeleteHost, Nothing
<1> QED
  BY <1>1, <1>2, <1>3, <1>4

\* A host that is removed goes with its VIFs, or stays.
LEMMA RemoveHostEffect ==
  ASSUME TypeOK, RealType, real.running \subseteq Hosts, NEW h \in Hosts, DoRemoveHost(h)
  PROVE  /\ waiting = Nobody /\ h \notin is.running /\ h \in is.old
         /\ UNCHANGED <<names, waiting, misled>>
         /\ faults' = faults \/ Fails
         /\ is'.created \cap Hosts = (is.created \cap Hosts) \ {h}
         /\ UNCHANGED <<is.running, is.old, is.named, is.nameNotApplied, is.templateChanged>>
         /\ \/ real' = real
            \/ /\ real'.running = real.running \ {h}
               /\ real'.created \cap Hosts = (real.created \cap Hosts) \ {h}
               /\ real'.created \subseteq real.created
               /\ real'.created \cap InterfacesOf(h) = {}
<1> DEFINE gone == {h} \cup InterfacesOf(h) \cup ServicesOf(h)
                     \cup {d \in Disks : DiskOf[d] = h}
<1>1. gone \cap Hosts = {h} /\ InterfacesOf(h) \subseteq gone /\ InterfacesOf(h) \cap Hosts = {}
  BY TypesAssumption DEF InterfacesOf, ServicesOf
<1>2. /\ waiting = Nobody /\ h \notin is.running /\ h \in is.old
      /\ is'.created = is.created \ ({h} \cup InterfacesOf(h))
      /\ UNCHANGED <<is.running, is.old, is.named, is.nameNotApplied, is.templateChanged>>
  BY DEF DoRemoveHost, May, RemoveHost, TypeOK
<1>3. /\ UNCHANGED <<names, waiting, misled>>
      /\ faults' = faults \/ Fails
      /\ real' = real \/ (h \in Stopped /\ real' = [f \in RealFields |-> real[f] \ gone])
  BY DEF DoRemoveHost, Nothing, XenOnly, Xen
<1>4. CASE h \in Stopped /\ real' = [f \in RealFields |-> real[f] \ gone]
  <2>1. real'.running = real.running \ gone /\ real'.created = real.created \ gone
    BY <1>4 DEF RealFields
  <2> QED
    BY <1>1, <1>2, <1>3, <1>4, <2>1 DEF Stopped
<1> QED
  BY <1>1, <1>2, <1>3, <1>4

\* Whoever answers gets the name.
LEMMA NameEffect ==
  ASSUME TypeOK, RealType, NEW h \in Hosts, DoName(h)
  PROVE  /\ waiting = Nobody /\ h \in is.running
         /\ UNCHANGED <<real, answersTo, applied, waiting, faults>>
         /\ is'.named = is.named \cup {h} /\ is'.nameNotApplied = is.nameNotApplied \cup {h}
         /\ UNCHANGED <<is.running, is.created, is.old, is.templateChanged>>
         /\ \/ Answering(Target(h)) = {} /\ UNCHANGED <<etc, misled>>
            \/ \E g \in Answering(Target(h)) :
                  /\ etc' = [etc EXCEPT ![g] = h]
                  /\ misled' = IF g = h THEN misled ELSE misled \cup {<<g, h>>}
  BY DEF DoName, May, Name, TypeOK

(***************************************************************************)
(* Type correctness of the execution                                       *)
(*                                                                         *)
(* Only what is there runs, and an interface goes with its host.           *)
(***************************************************************************)

MachineType ==
  /\ etc \in [Hosts -> Hosts \cup Templates]
  /\ answersTo \in [Hosts -> Hosts \cup Templates]
  /\ applied \subseteq Hosts /\ waiting \in Hosts \cup {Nobody}
  /\ misled \subseteq Hosts \X Objects /\ faults \in 0..MaxFaults
  /\ real.running \subseteq real.created \cap Hosts
  /\ \A i \in Interfaces \cap real.created : HostOf[i] \in real.created

LEMMA FailsTyped ==
  ASSUME faults \in 0..MaxFaults, faults' = faults \/ Fails
  PROVE  faults' \in 0..MaxFaults
  BY DeploymentAssumption DEF Fails

\* The types of the machines' state, at first and after each kind of step.
LEMMA MachineInit == ASSUME BuildInit PROVE MachineType
<1>1. PICK st \in Statuses, differ \in SUBSET Differences : is = InitialFacts(st, differ)
  BY DEF BuildInit, Init
<1>2. PICK drift \in SUBSET (Drifted \cap is.created) :
        real = [f \in RealFields |->
                  IF f = "running"
                  THEN (is.running \ drift) \cup (drift \ is.running) ELSE is[f]]
  BY DEF BuildInit
<1>3. is.created = {x \in Hosts \cup Networks \cup Interfaces : st[x] # "new"}
      /\ is.running \subseteq {h \in Hosts : st[h] # "new"}
  BY <1>1 DEF InitialFacts, InitHosts
<1>4. real.created = is.created /\ real.running = (is.running \ drift) \cup (drift \ is.running)
  BY <1>2 DEF RealFields
<1>5. real.running \subseteq real.created \cap Hosts
  BY <1>2, <1>3, <1>4, DeploymentAssumption
<1>6. ASSUME NEW i \in Interfaces \cap real.created PROVE HostOf[i] \in real.created
  <2>1. st[i] # "new" /\ HostOf[i] \in Hosts
    BY <1>3, <1>4, TestbedAssumption, TypesAssumption
  <2>2. st[HostOf[i]] = "kept" \/ st[i] = st[HostOf[i]]
    BY DEF Statuses
  <2> QED
    BY <1>3, <1>4, <2>1, <2>2
<1>7. etc \in [Hosts -> Hosts \cup Templates] /\ answersTo = etc
  BY DeploymentAssumption DEF BuildInit
<1>8. applied = Hosts /\ waiting = Nobody /\ misled = {} /\ faults = 0
  BY DEF BuildInit
<1> QED
  BY <1>5, <1>6, <1>7, <1>8, DeploymentAssumption DEF MachineType

LEMMA MachineBystander ==
  ASSUME MachineType, Bystander
  PROVE  MachineType'
<1>1. faults' \in 0..MaxFaults
  BY FailsTyped DEF MachineType, Bystander
<1>2. real'.running \subseteq real'.created \cap Hosts
  BY DEF MachineType, Bystander, HostsStay, RealHosts
<1>3. misled' \subseteq Hosts \X Objects
  <2>1. \A name : Answering(name) \subseteq Hosts
    BY DEF Answering, MachineType
  <2> QED
    BY <2>1 DEF Bystander, MisledBy, MachineType
<1>4. ASSUME NEW i \in Interfaces \cap real'.created PROVE HostOf[i] \in real'.created
  <2>1. HostOf[i] \in real.created /\ HostOf[i] \in Hosts
    BY TestbedAssumption DEF Bystander, OwnersAreThere, MachineType
  <2> QED
    BY <2>1 DEF Bystander, HostsStay, RealHosts
<1> QED
  BY <1>1, <1>2, <1>3, <1>4 DEF MachineType, Bystander, HostsStay, names

LEMMA MachineHost ==
  ASSUME TypeOK, RealType, MachineType, NEW h \in Hosts, HostOnly(h)
  PROVE  MachineType'
<1>0. /\ real.running \subseteq Hosts /\ h \in Objects /\ Stopped \subseteq real.created
      /\ faults \in 0..MaxFaults
  BY DEF MachineType, Objects, Stopped
<1>1. CASE DoBoot(h) \/ DoBootAndNamed(h) \/ DoBootUnnamed(h) \/ DoRebootAndNamed(h)
  <2>1. /\ UNCHANGED <<etc, misled, real.created>>
        /\ \/ h \in real.created /\ StartedIt(h)
           \/ LeftIt
    BY <1>0, <1>1, BootEffect, RebootEffect DEF MachineType
  <2>2. applied' \subseteq Hosts
    BY <1>1 DEF DoBoot, DoBootAndNamed, DoBootUnnamed, DoRebootAndNamed, MachineType
  <2>3. faults' \in 0..MaxFaults
    BY <1>0, <2>1, FailsTyped DEF StartedIt, LeftIt
  <2> QED
    BY <2>1, <2>2, <2>3 DEF MachineType, StartedIt, LeftIt
<1>2. CASE DoShutdown(h)
  <2>1. faults' \in 0..MaxFaults
    BY <1>0, <1>2, ShutdownEffect, FailsTyped
  <2> QED
    BY <1>2, <2>1, ShutdownEffect DEF MachineType, names
<1>3. CASE DoCreateHost(h)
  <2>1. faults' \in 0..MaxFaults
    BY <1>0, <1>3, CreateHostEffect, FailsTyped
  <2>2. /\ UNCHANGED <<answersTo, waiting, misled, real.running>>
        /\ real'.created \subseteq real.created \cup {h} /\ real.created \subseteq real'.created
        /\ etc' \in {etc, [etc EXCEPT ![h] = TemplateOf[h]]}
        /\ applied' \in {applied, applied \ {h}}
    BY <1>3, CreateHostEffect
  <2>3. etc' \in [Hosts -> Hosts \cup Templates]
    BY <2>2, DeploymentAssumption DEF MachineType
  <2>4. h \notin Interfaces
    BY TypesAssumption
  <2> QED
    BY <2>1, <2>2, <2>3, <2>4 DEF MachineType
<1>4. CASE DoDeleteHost(h)
  <2>1. faults' \in 0..MaxFaults
    BY <1>0, <1>4, DeleteHostEffect, FailsTyped
  <2> QED
    BY <1>4, <2>1, DeleteHostEffect DEF MachineType, names
<1>5. CASE DoRemoveHost(h)
  <2>1. faults' \in 0..MaxFaults
    BY <1>0, <1>5, RemoveHostEffect, FailsTyped
  <2>2. UNCHANGED <<names, waiting, misled>>
    BY <1>0, <1>5, RemoveHostEffect
  <2>3. \/ real' = real
        \/ /\ real'.running = real.running \ {h}
           /\ real'.created \cap Hosts = (real.created \cap Hosts) \ {h}
           /\ real'.created \subseteq real.created
           /\ real'.created \cap InterfacesOf(h) = {}
    BY <1>0, <1>5, RemoveHostEffect
  <2>4. real'.running \subseteq real'.created \cap Hosts
    BY <2>3 DEF MachineType
  <2>5. ASSUME NEW i \in Interfaces \cap real'.created PROVE HostOf[i] \in real'.created
    BY <2>3, TestbedAssumption DEF MachineType, InterfacesOf
  <2> QED
    BY <2>1, <2>2, <2>4, <2>5 DEF MachineType, names
<1>6. CASE DoName(h)
  <2>1. /\ UNCHANGED <<real, answersTo, applied, waiting, faults>>
        /\ \/ UNCHANGED <<etc, misled>>
           \/ \E g \in Hosts : /\ etc' = [etc EXCEPT ![g] = h]
                               /\ misled' = IF g = h THEN misled ELSE misled \cup {<<g, h>>}
    BY <1>0, <1>6, NameEffect DEF Answering
  <2>2. etc' \in [Hosts -> Hosts \cup Templates] /\ misled' \subseteq Hosts \X Objects
    BY <1>0, <2>1 DEF MachineType
  <2> QED
    BY <2>1, <2>2 DEF MachineType
<1> QED
  BY <1>1, <1>2, <1>3, <1>4, <1>5, <1>6 DEF HostOnly

LEMMA MachineNext ==
  TypeOK /\ RealType /\ MachineType /\ [BuildNext]_vars => MachineType'
<1> SUFFICES ASSUME TypeOK, RealType, MachineType, [BuildNext]_vars PROVE MachineType'
  OBVIOUS
<1>1. CASE WaitForBoot \/ UNCHANGED vars
  BY <1>1 DEF WaitForBoot, vars, names, MachineType
<1> QED
  BY <1>1, EveryStep, MachineBystander, MachineHost

\* The types hold in every execution of a plan, and the part that later proofs
\* rest on.
LEMMA ExecutionTyped == BuildSpec => [](TypeOK /\ RealType /\ MachineType)
<1>1. BuildSpec => []TypeOK
  BY ExecutionFollowsPlan, TypeCorrect, PTL
<1>2. BuildSpec => [](RealType /\ StaysInv)
  BY <1>1, StaysInit, StaysNext, PTL DEF BuildSpec
<1>3. BuildInit => MachineType
  BY MachineInit
<1> QED
  BY <1>1, <1>2, <1>3, MachineNext, PTL DEF BuildSpec

\* In every setup, whatever fails, only machines that are there run and what is
\* configured of an interface has a host.
THEOREM ExecutionTypes == BuildSpec => []BuildTypeOK
<1>1. TypeOK /\ RealType /\ MachineType => BuildTypeOK
  BY DEF RealType, MachineType, BuildTypeOK
<1> QED
  BY <1>1, ExecutionTyped, PTL

(***************************************************************************)
(* Whom a setup waits for                                                  *)
(*                                                                         *)
(* While no call fails and nobody has been misled, a machine has its own   *)
(* name if the planner thinks so, and what has no name yet is not looked   *)
(* for under one.                                                          *)
(***************************************************************************)

Calm == faults = 0 /\ misled = {}

NamedAsPlanned(h) ==
  /\ etc[h] \in {h, TemplateOf[h]} /\ answersTo[h] \in {etc[h], TemplateOf[h]}
  /\ h \in is.created => h \in real.created
  /\ h \in is.running => h \in is.created
  /\ h \notin real.created /\ h \notin is.old => etc[h] # h
  /\ h \in is.named \cup is.nameNotApplied => etc[h] = h
  /\ etc[h] # h /\ h \in real.created =>
       h \notin applied /\ (h \in is.running => h \in real.running)

WaitedFor ==
  waiting # Nobody =>
    /\ waiting \in real.running /\ answersTo[waiting] = etc[waiting]
    /\ waiting \in applied => etc[waiting] = waiting

NameInv == Calm => WaitedFor /\ \A h \in Hosts : NamedAsPlanned(h)

\* No host is called like a template.
LEMMA TemplatesAreNoHosts ==
  ASSUME NEW h \in Hosts
  PROVE  TemplateOf[h] \in Templates /\ TemplateOf[h] # h /\ Nobody # h
         /\ \A g \in Hosts : TemplateOf[h] # g
  BY DeploymentAssumption

\* At first every machine has its name or is not there.
LEMMA NameInit == ASSUME BuildInit PROVE NameInv
<1>1. PICK st \in Statuses, differ \in SUBSET Differences : is = InitialFacts(st, differ)
  BY DEF BuildInit, Init
<1>2. PICK drift \in SUBSET (Drifted \cap is.created) :
        real = [f \in RealFields |->
                  IF f = "running"
                  THEN (is.running \ drift) \cup (drift \ is.running) ELSE is[f]]
  BY DEF BuildInit
<1>3. /\ is.created = {x \in Hosts \cup Networks \cup Interfaces : st[x] # "new"}
      /\ is.running \subseteq {h \in Hosts : st[h] # "new"}
      /\ is.named = {h \in Hosts : st[h] # "new"} /\ is.nameNotApplied = {}
  BY <1>1 DEF InitialFacts, InitHosts
<1>4. real.created = is.created
  BY <1>2 DEF RealFields
<1>5. ASSUME NEW h \in Hosts PROVE NamedAsPlanned(h)
  <2>1. etc[h] = IF h \in is.created THEN h ELSE TemplateOf[h]
    BY DEF BuildInit
  <2>2. answersTo[h] = etc[h]
    BY DEF BuildInit
  <2> QED
    BY <1>3, <1>4, <2>1, <2>2, TemplatesAreNoHosts DEF NamedAsPlanned
<1>6. waiting = Nobody
  BY DEF BuildInit
<1> QED
  BY <1>5, <1>6 DEF NameInv, WaitedFor

\* Nothing is forgotten of faults and of misled machines.
LEMMA CalmBefore ==
  ASSUME TypeOK, RealType, MachineType, [BuildNext]_vars, Calm'
  PROVE  Calm
<1>0. faults \in Nat
  BY DEF RealType
<1>1. CASE Bystander
  BY <1>0, <1>1 DEF Bystander, MisledBy, Calm, Fails
<1>2. CASE WaitForBoot \/ UNCHANGED vars
  BY <1>2 DEF WaitForBoot, vars, Calm
<1>3. ASSUME NEW h \in Hosts, HostOnly(h) PROVE Calm
  <2>1. /\ faults' = faults \/ Fails
        /\ misled' = misled \/ \E x : misled' = misled \cup {x}
    <3>1. CASE DoName(h)
      BY <3>1, NameEffect
    <3>2. CASE DoBoot(h) \/ DoBootAndNamed(h) \/ DoBootUnnamed(h) \/ DoRebootAndNamed(h)
      BY <3>2, BootEffect, RebootEffect DEF StartedIt, LeftIt
    <3>3. CASE DoShutdown(h) \/ DoCreateHost(h) \/ DoDeleteHost(h)
      BY <3>3, ShutdownEffect, CreateHostEffect, DeleteHostEffect
    <3>4. CASE DoRemoveHost(h)
      BY <3>4, RemoveHostEffect DEF MachineType
    <3> QED
      BY <1>3, <3>1, <3>2, <3>3, <3>4 DEF HostOnly
  <2> QED
    BY <1>0, <2>1 DEF Calm, Fails
<1> QED
  BY <1>1, <1>2, <1>3, EveryStep

\* What concerns one host leaves the others as they are called.
LEMMA OthersAsPlanned ==
  ASSUME NEW g \in Hosts, NamedAsPlanned(g),
         etc'[g] = etc[g], answersTo'[g] = answersTo[g], g \in applied' => g \in applied,
         g \in is'.created <=> g \in is.created, g \in is'.running <=> g \in is.running,
         g \in real'.created <=> g \in real.created,
         g \in real'.running <=> g \in real.running, is'.old = is.old,
         g \in is'.named \cup is'.nameNotApplied => g \in is.named \cup is.nameNotApplied
  PROVE  NamedAsPlanned(g)'
  BY DEF NamedAsPlanned

LEMMA NameBystander ==
  ASSUME NameInv, Bystander, Calm' => Calm
  PROVE  NameInv'
<1> SUFFICES ASSUME Calm' PROVE WaitedFor' /\ \A g \in Hosts : NamedAsPlanned(g)'
  BY DEF NameInv
<1>1. WaitedFor'
  BY DEF Bystander, HostsStay, RealHosts, names, NameInv, WaitedFor
<1>2. ASSUME NEW g \in Hosts PROVE NamedAsPlanned(g)'
  <2>1. NamedAsPlanned(g)
    BY DEF NameInv
  <2>2. /\ g \in is'.created <=> g \in is.created
        /\ g \in real'.created <=> g \in real.created
    BY DEF Bystander, HostsStay, PlannedHosts, RealHosts
  <2> QED
    BY <2>1, <2>2, OthersAsPlanned DEF Bystander, HostsStay, PlannedHosts, RealHosts, names
<1> QED
  BY <1>1, <1>2

\* A boot without a fault: the host is there, so it is started or runs already.
LEMMA NameBoot ==
  ASSUME TypeOK, RealType, MachineType, NameInv, Calm, Calm', NEW h \in Hosts,
         DoBoot(h) \/ DoBootAndNamed(h) \/ DoBootUnnamed(h) \/ DoRebootAndNamed(h)
  PROVE  WaitedFor' /\ \A g \in Hosts : NamedAsPlanned(g)'
<1>1. NamedAsPlanned(h)
  BY DEF NameInv
<1>2. /\ BootPlan(h) /\ UNCHANGED <<etc, misled, real.created>> /\ waiting = Nobody
      /\ \/ (h \in Stopped \/ h \in real.running) /\ StartedIt(h)
         \/ LeftIt
      /\ h \in is.created /\ faults' = faults
  BY <1>1, BootEffect, RebootEffect DEF Calm, NamedAsPlanned
<1>3. h \in real.created /\ (h \in Stopped => StartedIt(h) \/ h \in is.nameNotApplied)
  BY <1>1, <1>2, BootEffect, RebootEffect DEF NamedAsPlanned
<1>4. /\ \/ h \in is.named \cup is.nameNotApplied
         \/ h \notin applied'
      /\ applied' \subseteq applied \cup {h}
      /\ is'.nameNotApplied \subseteq is.nameNotApplied
      /\ h \in applied' => h \in applied \/ h \in is.named \cup is.nameNotApplied
  <2>1. CASE DoBoot(h)
    BY <2>1 DEF DoBoot, May, Boot, TypeOK
  <2>2. CASE DoBootAndNamed(h)
    BY <2>2 DEF DoBootAndNamed, May, BootAndNamed, TypeOK
  <2>3. CASE DoBootUnnamed(h)
    BY <2>3 DEF DoBootUnnamed, May, BootUnnamed, TypeOK
  <2>4. CASE DoRebootAndNamed(h)
    BY <2>4, RebootEffect
  <2> QED
    BY <2>1, <2>2, <2>3, <2>4
<1>5. h \in applied' => etc[h] = h
  BY <1>1, <1>4 DEF NamedAsPlanned
<1>6. WaitedFor'
  BY <1>2, <1>5 DEF WaitedFor, StartedIt, LeftIt, MachineType
<1>7. NamedAsPlanned(h)'
  <2>1. answersTo'[h] \in {etc[h], TemplateOf[h]}
    BY <1>1, <1>2 DEF StartedIt, LeftIt, MachineType, NamedAsPlanned
  <2>2. etc[h] # h => h \notin is.nameNotApplied /\ h \notin applied'
    BY <1>1, <1>5 DEF NamedAsPlanned
  <2>3. etc[h] # h => h \in real'.running
    BY <1>2, <1>3, <2>2 DEF StartedIt, LeftIt, Stopped
  <2> QED
    BY <1>1, <1>2, <1>3, <1>4, <2>1, <2>2, <2>3 DEF NamedAsPlanned, BootPlan
<1>8. ASSUME NEW g \in Hosts, g # h PROVE NamedAsPlanned(g)'
  <2>1. NamedAsPlanned(g)
    BY DEF NameInv
  <2> QED
    BY <1>2, <1>4, <1>8, <2>1, OthersAsPlanned DEF BootPlan, StartedIt, LeftIt, MachineType
<1> QED
  BY <1>6, <1>7, <1>8

LEMMA NameHost ==
  ASSUME TypeOK, RealType, MachineType, NameInv, Calm, Calm', NEW h \in Hosts,
         DoShutdown(h) \/ DoCreateHost(h) \/ DoDeleteHost(h) \/ DoRemoveHost(h)
  PROVE  WaitedFor' /\ \A g \in Hosts : NamedAsPlanned(g)'
<1>0. /\ \A g \in Hosts : NamedAsPlanned(g)
      /\ faults' = 0 /\ faults = 0 /\ ~Fails
      /\ real.running \subseteq Hosts
  BY DEF NameInv, Calm, Fails, MachineType
<1>1. CASE DoShutdown(h)
  <2>1. /\ waiting = Nobody /\ UNCHANGED <<names, waiting, real.created>>
        /\ is'.running = is.running \ {h} /\ real'.running = real.running \ {h}
        /\ UNCHANGED <<is.created, is.old, is.named, is.nameNotApplied>>
    BY <1>0, <1>1, ShutdownEffect
  <2> QED
    BY <1>0, <2>1 DEF NamedAsPlanned, WaitedFor, names
<1>2. CASE DoCreateHost(h)
  <2>1. /\ waiting = Nobody /\ h \notin is.created /\ h \notin is.old
        /\ UNCHANGED <<answersTo, waiting, real.running>>
        /\ is'.created = is.created \cup {h} /\ real'.created = real.created \cup {h}
        /\ UNCHANGED <<is.running, is.old, is.named, is.nameNotApplied>>
        /\ \/ h \in real.created /\ UNCHANGED <<etc, applied>>
           \/ /\ h \notin real.created /\ etc' = [etc EXCEPT ![h] = TemplateOf[h]]
              /\ applied' = applied \ {h}
    BY <1>0, <1>2, CreateHostEffect
  <2>2. etc' = etc /\ applied' \subseteq applied /\ (etc[h] # h => h \notin applied')
    <3>1. CASE h \notin real.created
      <4>1. etc[h] = TemplateOf[h]
        BY <1>0, <2>1, <3>1 DEF NamedAsPlanned
      <4> QED
        BY <2>1, <3>1, <4>1 DEF MachineType
    <3>2. CASE h \in real.created
      BY <1>0, <2>1, <3>2 DEF NamedAsPlanned
    <3> QED
      BY <3>1, <3>2
  <2> QED
    BY <1>0, <2>1, <2>2 DEF NamedAsPlanned, WaitedFor
<1>3. CASE DoDeleteHost(h)
  <2>1. /\ waiting = Nobody /\ h \notin is.running /\ UNCHANGED <<names, waiting, real>>
        /\ is'.created \cap Hosts = (is.created \cap Hosts) \ {h}
        /\ is'.named = is.named \ {h}
        /\ UNCHANGED <<is.running, is.old, is.nameNotApplied>>
    BY <1>3, DeleteHostEffect
  <2>2. \A g \in Hosts : g \in is'.created <=> g \in is.created /\ g # h
    BY <2>1
  <2> QED
    BY <1>0, <2>1, <2>2 DEF NamedAsPlanned, WaitedFor, names
<1>4. CASE DoRemoveHost(h)
  <2>1. /\ waiting = Nobody /\ h \notin is.running /\ h \in is.old
        /\ UNCHANGED <<names, waiting>>
        /\ is'.created \cap Hosts = (is.created \cap Hosts) \ {h}
        /\ UNCHANGED <<is.running, is.old, is.named, is.nameNotApplied>>
        /\ \/ real' = real
           \/ /\ real'.running = real.running \ {h}
              /\ real'.created \cap Hosts = (real.created \cap Hosts) \ {h}
    BY <1>0, <1>4, RemoveHostEffect
  <2>2. \A g \in Hosts : /\ g \in is'.created <=> g \in is.created /\ g # h
                         /\ g # h => (g \in real'.created <=> g \in real.created)
                         /\ g # h => (g \in real'.running <=> g \in real.running)
                         /\ h \in real'.created => real' = real
    BY <2>1
  <2>3. ASSUME NEW g \in Hosts PROVE NamedAsPlanned(g)'
    <3>1. NamedAsPlanned(g)
      BY <1>0
    <3>2. CASE g = h
      BY <2>1, <2>2, <3>1, <3>2 DEF NamedAsPlanned, names
    <3>3. CASE g # h
      BY <2>1, <2>2, <3>1, <3>3 DEF NamedAsPlanned, names
    <3> QED
      BY <3>2, <3>3
  <2>4. WaitedFor'
    BY <2>1 DEF WaitedFor
  <2> QED
    BY <2>3, <2>4
<1> QED
  BY <1>1, <1>2, <1>3, <1>4

\* Under the name of its template a machine without a name is found.
LEMMA NameName ==
  ASSUME TypeOK, RealType, MachineType, NameInv, Calm, Calm', NEW h \in Hosts, DoName(h)
  PROVE  WaitedFor' /\ \A g \in Hosts : NamedAsPlanned(g)'
<1>1. NamedAsPlanned(h)
  BY DEF NameInv
<1>2. /\ waiting = Nobody /\ h \in is.running
      /\ UNCHANGED <<real, answersTo, applied, waiting, faults>>
      /\ is'.named = is.named \cup {h} /\ is'.nameNotApplied = is.nameNotApplied \cup {h}
      /\ UNCHANGED <<is.running, is.created, is.old, is.templateChanged>>
      /\ \/ Answering(Target(h)) = {} /\ UNCHANGED etc
         \/ \E g \in Answering(Target(h)) :
               /\ etc' = [etc EXCEPT ![g] = h]
               /\ misled' = IF g = h THEN misled ELSE misled \cup {<<g, h>>}
  BY NameEffect
<1>3. etc' = [etc EXCEPT ![h] = h]
  <2>1. CASE Answering(Target(h)) = {} /\ UNCHANGED etc
    <3>1. etc[h] = h
      <4>1. SUFFICES ASSUME etc[h] # h PROVE FALSE
        OBVIOUS
      <4>2. h \in real.running /\ h \notin applied /\ answersTo[h] = TemplateOf[h]
        BY <1>1, <1>2, <4>1 DEF NamedAsPlanned
      <4> QED
        BY <2>1, <4>2 DEF Answering, Target
    <3> QED
      BY <2>1, <3>1 DEF MachineType
  <2>2. CASE \E g \in Answering(Target(h)) :
               /\ etc' = [etc EXCEPT ![g] = h]
               /\ misled' = IF g = h THEN misled ELSE misled \cup {<<g, h>>}
    BY <2>2 DEF Calm
  <2> QED
    BY <1>2, <2>1, <2>2
<1>4. WaitedFor'
  BY <1>2 DEF WaitedFor
<1>5. NamedAsPlanned(h)'
  <2>1. etc'[h] = h /\ (h \in is.created) /\ answersTo[h] \in {h, TemplateOf[h]}
    BY <1>1, <1>2, <1>3 DEF NamedAsPlanned, MachineType
  <2> QED
    BY <1>1, <1>2, <2>1 DEF NamedAsPlanned
<1>6. ASSUME NEW g \in Hosts, g # h PROVE NamedAsPlanned(g)'
  <2>1. NamedAsPlanned(g)
    BY DEF NameInv
  <2> QED
    BY <1>2, <1>3, <1>6, <2>1, OthersAsPlanned DEF MachineType
<1> QED
  BY <1>4, <1>5, <1>6

LEMMA NameNext ==
  TypeOK /\ RealType /\ MachineType /\ NameInv /\ [BuildNext]_vars => NameInv'
<1> SUFFICES ASSUME TypeOK, RealType, MachineType, NameInv, [BuildNext]_vars PROVE NameInv'
  OBVIOUS
<1>1. CASE Bystander
  BY <1>1, NameBystander, CalmBefore
<1>2. CASE WaitForBoot \/ UNCHANGED vars
  BY <1>2 DEF WaitForBoot, vars, names, Calm, NameInv, WaitedFor, NamedAsPlanned
<1>3. ASSUME NEW h \in Hosts, HostOnly(h) PROVE NameInv'
  <2> SUFFICES ASSUME Calm' PROVE WaitedFor' /\ \A g \in Hosts : NamedAsPlanned(g)'
    BY DEF NameInv
  <2>1. Calm
    BY CalmBefore
  <2> QED
    BY <1>3, <2>1, NameBoot, NameHost, NameName DEF HostOnly
<1> QED
  BY <1>1, <1>2, <1>3, EveryStep

\* So the names are as they should be while nobody is misled.
LEMMA NamesFollow == BuildSpec => []NameInv
<1>1. BuildInit => NameInv
  BY NameInit
<1> QED
  BY <1>1, NameNext, ExecutionTyped, PTL DEF BuildSpec

\* In every setup in which no call fails and nobody is misled, whoever is waited
\* for in vain has a name but is expected under that of its template.
THEOREM VainWaits == BuildSpec => []VainOnlyIfNamed
<1>1. MachineType /\ NameInv => VainOnlyIfNamed
  <2> SUFFICES ASSUME MachineType, NameInv, Calm, waiting # Nobody,
                      Answering(Target(waiting)) = {}
               PROVE  answersTo[waiting] = waiting /\ waiting \notin applied
    BY DEF VainOnlyIfNamed, Calm
  <2>1. waiting \in Hosts /\ WaitedFor /\ NamedAsPlanned(waiting)
    BY DEF MachineType, NameInv
  <2>2. answersTo[waiting] # Target(waiting)
    BY <2>1 DEF Answering, WaitedFor
  <2> QED
    BY <2>1, <2>2 DEF WaitedFor, NamedAsPlanned, Target
<1> QED
  BY <1>1, NamesFollow, ExecutionTyped, PTL

(***************************************************************************)
(* Who answers under the name of a template                                *)
(*                                                                         *)
(* Until a setup waits in vain, the planner's view of the names is right:  *)
(* the machines that run without a name are those it has booted unnamed,   *)
(* so that there is at most one of a template.  A setup that waits in vain *)
(* does nothing any more.                                                  *)
(***************************************************************************)

Vain == waiting # Nobody /\ Answering(Target(waiting)) = {}

UnderTemplate(h) == h \in real.running /\ answersTo[h] = TemplateOf[h]

AnswersAsPlanned(h) ==
  /\ UnderTemplate(h) => h \notin is.named \/ h \in is.nameNotApplied
  /\ h \in is.running \ applied => UnderTemplate(h)
  /\ h \in is.named \ is.nameNotApplied => h \in applied

OneOfATemplate ==
  \A g, h \in Hosts :
    UnderTemplate(g) /\ UnderTemplate(h) /\ TemplateOf[g] = TemplateOf[h] => g = h

AllAsPlanned == OneOfATemplate /\ \A h \in Hosts : AnswersAsPlanned(h)

AloneInv ==
  faults = 0 => misled = {} /\ real.running \subseteq is.running /\ (~Vain => AllAsPlanned)

\* At first every machine has its name, and runs as planned.
LEMMA AloneInit == ASSUME BuildInit, real.running \subseteq is.running PROVE AloneInv
<1>1. MachineType
  BY MachineInit
<1>2. PICK st \in Statuses, differ \in SUBSET Differences : is = InitialFacts(st, differ)
  BY DEF BuildInit, Init
<1>3. is.running \subseteq is.created
  BY <1>2 DEF InitialFacts, InitHosts
<1>4. applied = Hosts /\ misled = {} /\ faults = 0 /\ answersTo = etc
  BY DEF BuildInit
<1>5. \A h \in is.running \cap Hosts : etc[h] = h
  BY <1>3 DEF BuildInit
<1>6. ASSUME NEW h \in Hosts PROVE ~UnderTemplate(h)
  BY <1>4, <1>5, TemplatesAreNoHosts DEF UnderTemplate
<1> QED
  BY <1>4, <1>6 DEF AloneInv, AllAsPlanned, AnswersAsPlanned, OneOfATemplate

\* A machine is found by nobody else's name.
LEMMA AnswersToOwn ==
  ASSUME MachineType, NEW g \in Hosts, NamedAsPlanned(g), NEW h \in Hosts
  PROVE  /\ answersTo[g] = h => g = h
         /\ answersTo[g] = TemplateOf[h] => TemplateOf[g] = TemplateOf[h]
  BY TemplatesAreNoHosts DEF NamedAsPlanned

\* Whoever looks for a machine that runs finds it or nobody.
LEMMA NobodyElse ==
  ASSUME MachineType, NEW h \in Hosts, h \in is.running, AllAsPlanned,
         \A g \in Hosts : NamedAsPlanned(g)
  PROVE  Answering(Target(h)) \subseteq {h}
<1> SUFFICES ASSUME NEW g \in Answering(Target(h)) PROVE g = h
  OBVIOUS
<1>1. g \in Hosts /\ g \in real.running /\ answersTo[g] = Target(h)
  BY DEF Answering, MachineType
<1>2. CASE h \in applied
  BY <1>1, <1>2, AnswersToOwn DEF Target
<1>3. CASE h \notin applied
  <2>1. TemplateOf[g] = TemplateOf[h] /\ UnderTemplate(g)
    BY <1>1, <1>3, AnswersToOwn DEF Target, UnderTemplate
  <2>2. UnderTemplate(h)
    BY <1>3 DEF AllAsPlanned, AnswersAsPlanned
  <2> QED
    BY <1>1, <2>1, <2>2 DEF AllAsPlanned, OneOfATemplate
<1> QED
  BY <1>2, <1>3

\* What concerns one host leaves the others as they answer.
LEMMA OthersAnswer ==
  ASSUME NEW g \in Hosts, AnswersAsPlanned(g),
         g \in real'.running <=> g \in real.running, answersTo'[g] = answersTo[g],
         g \in is'.running <=> g \in is.running, g \in applied' <=> g \in applied,
         g \in is'.named <=> g \in is.named,
         g \in is'.nameNotApplied <=> g \in is.nameNotApplied
  PROVE  AnswersAsPlanned(g)' /\ (UnderTemplate(g)' <=> UnderTemplate(g))
  BY DEF AnswersAsPlanned, UnderTemplate

\* If no further machine comes to run without a name, they are as few as before.
LEMMA NoMoreOfATemplate ==
  ASSUME OneOfATemplate, \A g \in Hosts : UnderTemplate(g)' => UnderTemplate(g)
  PROVE  OneOfATemplate'
  BY DEF OneOfATemplate

LEMMA AloneBystander ==
  ASSUME TypeOK, MachineType, NameInv, AloneInv, Bystander, faults' = 0 => faults = 0
  PROVE  AloneInv'
<1> SUFFICES ASSUME faults' = 0
             PROVE  misled' = {} /\ real'.running \subseteq is'.running /\ AllAsPlanned'
  BY DEF AloneInv
<1>1. /\ faults = 0 /\ misled = {} /\ real.running \subseteq is.running /\ AllAsPlanned
  BY DEF AloneInv, Bystander, Vain
<1>2. \A g \in Hosts : NamedAsPlanned(g)
  BY <1>1 DEF NameInv, Calm
<1>3. real'.running = real.running /\ is'.running = is.running /\ UNCHANGED names
      /\ UNCHANGED <<is.named, is.nameNotApplied>>
  BY DEF Bystander, HostsStay, PlannedHosts, RealHosts
<1>4. misled' = {}
  <2>1. ASSUME NEW h \in is.running, NEW x \in Objects, MisledBy(h, x) PROVE FALSE
    <3>1. PICK g \in Answering(Target(h)) \ {h} : TRUE
      BY <2>1 DEF MisledBy
    <3>2. h \in Hosts
      BY DEF TypeOK
    <3> QED
      BY <1>1, <1>2, <3>1, <3>2, NobodyElse
  <2> QED
    BY <1>1, <2>1 DEF Bystander
<1>5. ASSUME NEW g \in Hosts
      PROVE  AnswersAsPlanned(g)' /\ (UnderTemplate(g)' <=> UnderTemplate(g))
  BY <1>1, <1>3, OthersAnswer DEF AllAsPlanned, names
<1> QED
  BY <1>1, <1>3, <1>4, <1>5, NoMoreOfATemplate DEF AllAsPlanned

\* Without a fault a boot starts the machine.
LEMMA BootStarts ==
  ASSUME TypeOK, RealType, MachineType, NameInv, AloneInv, faults = 0, faults' = 0,
         NEW h \in Hosts, DoBoot(h) \/ DoBootAndNamed(h) \/ DoBootUnnamed(h)
  PROVE  /\ StartedIt(h) /\ BootPlan(h) /\ UNCHANGED <<etc, misled>>
         /\ answersTo'[h] = etc[h] /\ h \in real'.running
         /\ misled = {} /\ real.running \subseteq is.running /\ AllAsPlanned
         /\ \A g \in Hosts : NamedAsPlanned(g)
<1>1. /\ waiting = Nobody /\ h \in is.created /\ h \notin is.running /\ BootPlan(h)
      /\ UNCHANGED <<etc, misled>>
  BY BootEffect
<1>2. misled = {} /\ real.running \subseteq is.running /\ AllAsPlanned
  BY <1>1 DEF AloneInv, Vain
<1>3. \A g \in Hosts : NamedAsPlanned(g)
  BY <1>2 DEF NameInv, Calm
<1>4. h \in Stopped
  BY <1>1, <1>2, <1>3 DEF NamedAsPlanned, Stopped
<1>5. StartedIt(h)
  BY <1>4, BootEffect
<1> QED
  BY <1>1, <1>2, <1>3, <1>5 DEF StartedIt, MachineType

\* No machine is booted unnamed next to another one of its template.
LEMMA FirstOfItsTemplate ==
  ASSUME TypeOK, RealType, MachineType, NameInv, AloneInv, faults = 0, faults' = 0,
         NEW h \in Hosts, DoBootUnnamed(h),
         NEW g \in Hosts, g # h, UnderTemplate(g)
  PROVE  TemplateOf[g] # TemplateOf[h]
<1> SUFFICES ASSUME TemplateOf[g] = TemplateOf[h] PROVE FALSE
  OBVIOUS
<1>1. real.running \subseteq is.running /\ AllAsPlanned
  BY BootStarts
<1>2. g \in is.running /\ (g \notin is.named \/ g \in is.nameNotApplied)
  BY <1>1 DEF AllAsPlanned, AnswersAsPlanned, UnderTemplate
<1>3. g \in PeersOf(h)
  BY DeploymentAssumption
<1> QED
  BY <1>2, <1>3 DEF DoBootUnnamed, May, BootUnnamed

\* A machine that has its name but is booted unnamed is waited for in vain.
LEMMA NamedIsNotFound ==
  ASSUME TypeOK, RealType, MachineType, NameInv, AloneInv, faults = 0, faults' = 0,
         NEW h \in Hosts, DoBootUnnamed(h), etc[h] = h
  PROVE  Vain'
<1> SUFFICES ASSUME ~Vain' PROVE FALSE
  OBVIOUS
<1>1. /\ StartedIt(h) /\ answersTo'[h] = h
      /\ \A g \in Hosts : NamedAsPlanned(g)
  BY BootStarts
<1>2. applied' = applied \ {h}
  BY DEF DoBootUnnamed
<1>3. Target(h)' = TemplateOf[h] /\ waiting' = h /\ h # Nobody
  BY <1>1, <1>2, TemplatesAreNoHosts DEF Target, StartedIt
<1>4. PICK g \in real'.running : answersTo'[g] = TemplateOf[h]
  BY <1>3 DEF Vain, Answering, Target
<1>5. g # h /\ g \in real.running /\ g \in Hosts /\ answersTo'[g] = answersTo[g]
  BY <1>1, <1>4, TemplatesAreNoHosts DEF StartedIt, MachineType
<1>6. TemplateOf[g] = TemplateOf[h]
  BY <1>1, <1>4, <1>5, AnswersToOwn
<1> QED
  BY <1>4, <1>5, <1>6, FirstOfItsTemplate DEF UnderTemplate

\* After a boot the names are still as planned, or the machine is waited for
\* in vain.
LEMMA AloneBoot ==
  ASSUME TypeOK, RealType, MachineType, NameInv, AloneInv, faults = 0, faults' = 0,
         NEW h \in Hosts, DoBoot(h) \/ DoBootAndNamed(h) \/ DoBootUnnamed(h)
  PROVE  misled' = {} /\ real'.running \subseteq is'.running /\ (~Vain' => AllAsPlanned')
<1>1. StartedIt(h) /\ BootPlan(h) /\ UNCHANGED <<etc, misled>>
  BY BootStarts
<1>2. misled = {} /\ real.running \subseteq is.running /\ AllAsPlanned
  BY BootStarts
<1>3. \A g \in Hosts : NamedAsPlanned(g)
  BY BootStarts
<1>4. real'.running \subseteq is'.running /\ misled' = {}
  BY <1>1, <1>2 DEF StartedIt, BootPlan
<1>5. ASSUME NEW g \in Hosts, g # h, applied' \in {applied, applied \cup {h}, applied \ {h}},
             is'.nameNotApplied \in {is.nameNotApplied, is.nameNotApplied \ {h}}
      PROVE  AnswersAsPlanned(g)' /\ (UnderTemplate(g)' <=> UnderTemplate(g))
  <2>1. AnswersAsPlanned(g)
    BY <1>2 DEF AllAsPlanned
  <2> QED
    BY <1>1, <1>5, <2>1, OthersAnswer DEF BootPlan, StartedIt, MachineType
<1>6. answersTo'[h] = etc[h] /\ h \in real'.running
  BY BootStarts
<1>7. ASSUME etc[h] = h, h \in applied',
             applied' \in {applied, applied \cup {h}, applied \ {h}},
             is'.nameNotApplied \in {is.nameNotApplied, is.nameNotApplied \ {h}}
      PROVE  AllAsPlanned'
  <2>1. ~UnderTemplate(h)'
    BY <1>6, <1>7, TemplatesAreNoHosts DEF UnderTemplate
  <2>2. AnswersAsPlanned(h)'
    BY <1>7, <2>1 DEF AnswersAsPlanned
  <2>3. \A g \in Hosts : AnswersAsPlanned(g)' /\ (UnderTemplate(g)' => UnderTemplate(g))
    BY <1>5, <1>7, <2>1, <2>2
  <2>4. OneOfATemplate'
    BY <1>2, <2>3, NoMoreOfATemplate DEF AllAsPlanned
  <2> QED
    BY <2>3, <2>4 DEF AllAsPlanned
<1>8. CASE DoBoot(h)
  <2>1. applied' = applied /\ is'.nameNotApplied = is.nameNotApplied
        /\ h \in is.named /\ h \notin is.nameNotApplied
    BY <1>8 DEF DoBoot, May, Boot, TypeOK
  <2>2. h \in applied /\ etc[h] = h
    BY <1>2, <1>3, <2>1 DEF AllAsPlanned, AnswersAsPlanned, NamedAsPlanned
  <2> QED
    BY <1>4, <1>7, <2>1, <2>2
<1>9. CASE DoBootAndNamed(h)
  <2>1. applied' = applied \cup {h} /\ is'.nameNotApplied = is.nameNotApplied \ {h}
        /\ h \in is.nameNotApplied
    BY <1>9 DEF DoBootAndNamed, May, BootAndNamed, TypeOK
  <2>2. etc[h] = h
    BY <1>3, <2>1 DEF NamedAsPlanned
  <2> QED
    BY <1>4, <1>7, <2>1, <2>2
<1>10. CASE DoBootUnnamed(h)
  <2>1. applied' = applied \ {h} /\ is'.nameNotApplied = is.nameNotApplied
    BY <1>10 DEF DoBootUnnamed, May, BootUnnamed, TypeOK
  <2>2. CASE etc[h] = h
    BY <1>4, <1>10, <2>2, NamedIsNotFound
  <2>3. CASE etc[h] # h
    <3>1. UnderTemplate(h)' /\ h \notin is.named \cup is.nameNotApplied
      BY <1>3, <1>6, <2>3 DEF UnderTemplate, NamedAsPlanned
    <3>2. AnswersAsPlanned(h)'
      BY <1>1, <2>1, <3>1 DEF AnswersAsPlanned, BootPlan
    <3>3. \A g \in Hosts \ {h} : AnswersAsPlanned(g)' /\ (UnderTemplate(g)' => UnderTemplate(g))
      BY <1>5, <2>1
    <3>4. OneOfATemplate'
      BY <1>2, <1>10, <3>3, FirstOfItsTemplate DEF AllAsPlanned, OneOfATemplate
    <3> QED
      BY <1>4, <3>2, <3>3, <3>4 DEF AllAsPlanned
  <2> QED
    BY <2>2, <2>3
<1> QED
  BY <1>8, <1>9, <1>10

LEMMA AloneReboot ==
  ASSUME TypeOK, RealType, MachineType, NameInv, AloneInv, faults = 0, faults' = 0,
         NEW h \in Hosts, DoRebootAndNamed(h)
  PROVE  misled' = {} /\ real'.running \subseteq is'.running /\ AllAsPlanned'
<1>1. /\ waiting = Nobody /\ h \in is.running /\ h \in is.nameNotApplied /\ BootPlan(h)
      /\ is'.nameNotApplied = is.nameNotApplied \ {h} /\ applied' = applied \cup {h}
      /\ UNCHANGED <<etc, misled>>
      /\ (h \in real.running /\ StartedIt(h)) \/ LeftIt
      /\ h \in real.running => StartedIt(h)
  BY RebootEffect
<1>2. misled = {} /\ real.running \subseteq is.running /\ AllAsPlanned
  BY <1>1 DEF AloneInv, Vain
<1>3. etc[h] = h
  BY <1>1, <1>2 DEF NameInv, Calm, NamedAsPlanned
<1>4. real'.running = real.running
  BY <1>1 DEF StartedIt, LeftIt
<1>5. ~UnderTemplate(h)'
  BY <1>1, <1>3, <1>4, TemplatesAreNoHosts DEF UnderTemplate, StartedIt, MachineType
<1>6. ASSUME NEW g \in Hosts
      PROVE  AnswersAsPlanned(g)' /\ (UnderTemplate(g)' => UnderTemplate(g))
  <2>1. CASE g = h
    BY <1>1, <1>5, <2>1 DEF AnswersAsPlanned
  <2>2. CASE g # h
    <3>1. answersTo'[g] = answersTo[g]
      BY <1>1, <2>2 DEF StartedIt, LeftIt, MachineType
    <3> QED
      BY <1>1, <1>2, <1>4, <2>2, <3>1, OthersAnswer DEF AllAsPlanned, BootPlan
  <2> QED
    BY <2>1, <2>2
<1> QED
  BY <1>1, <1>2, <1>4, <1>6, NoMoreOfATemplate DEF AllAsPlanned, BootPlan

\* The other steps of a host let no machine come to run.
LEMMA AloneHost ==
  ASSUME TypeOK, RealType, MachineType, NameInv, AloneInv, faults = 0, faults' = 0,
         NEW h \in Hosts,
         DoShutdown(h) \/ DoCreateHost(h) \/ DoDeleteHost(h) \/ DoRemoveHost(h) \/ DoName(h)
  PROVE  misled' = {} /\ real'.running \subseteq is'.running /\ AllAsPlanned'
<1>1. waiting = Nobody /\ real.running \subseteq Hosts /\ ~Fails
  BY ShutdownEffect, CreateHostEffect, DeleteHostEffect, RemoveHostEffect, NameEffect
     DEF MachineType, Fails
<1>2. misled = {} /\ real.running \subseteq is.running /\ AllAsPlanned
  BY <1>1 DEF AloneInv, Vain
<1>3. \A g \in Hosts : NamedAsPlanned(g) /\ AnswersAsPlanned(g)
  BY <1>2 DEF NameInv, Calm, AllAsPlanned
<1>4. CASE DoShutdown(h)
  <2>1. /\ UNCHANGED <<names, misled, is.named, is.nameNotApplied>>
        /\ is'.running = is.running \ {h} /\ real'.running = real.running \ {h}
    BY <1>1, <1>4, ShutdownEffect
  <2>2. \A g \in Hosts : AnswersAsPlanned(g)' /\ (UnderTemplate(g)' => UnderTemplate(g))
    BY <1>3, <2>1 DEF AnswersAsPlanned, UnderTemplate, names
  <2> QED
    BY <1>2, <2>1, <2>2, NoMoreOfATemplate DEF AllAsPlanned
<1>5. CASE DoCreateHost(h)
  <2>1. /\ h \notin is.created /\ h \notin is.old
        /\ UNCHANGED <<answersTo, misled, real.running>>
        /\ UNCHANGED <<is.running, is.named, is.nameNotApplied>>
        /\ \/ applied' = applied
           \/ h \notin real.created /\ applied' = applied \ {h}
    BY <1>1, <1>5, CreateHostEffect
  <2>2. h \notin is.running /\ (h \notin real.created => h \notin is.named)
    BY <1>3, <2>1 DEF NamedAsPlanned
  <2>3. \A g \in Hosts : AnswersAsPlanned(g)' /\ (UnderTemplate(g)' => UnderTemplate(g))
    BY <1>3, <2>1, <2>2 DEF AnswersAsPlanned, UnderTemplate
  <2> QED
    BY <1>2, <2>1, <2>3, NoMoreOfATemplate DEF AllAsPlanned
<1>6. CASE DoDeleteHost(h)
  <2>1. /\ UNCHANGED <<names, misled, real, is.running, is.nameNotApplied>>
        /\ is'.named = is.named \ {h}
    BY <1>6, DeleteHostEffect
  <2>2. \A g \in Hosts : AnswersAsPlanned(g)' /\ (UnderTemplate(g)' => UnderTemplate(g))
    BY <1>3, <2>1 DEF AnswersAsPlanned, UnderTemplate, names
  <2> QED
    BY <1>2, <2>1, <2>2, NoMoreOfATemplate DEF AllAsPlanned
<1>7. CASE DoRemoveHost(h)
  <2>1. /\ h \notin is.running
        /\ UNCHANGED <<names, misled, is.running, is.named, is.nameNotApplied>>
        /\ real'.running = real.running \/ real'.running = real.running \ {h}
    BY <1>1, <1>7, RemoveHostEffect
  <2>2. \A g \in Hosts : AnswersAsPlanned(g)' /\ (UnderTemplate(g)' => UnderTemplate(g))
    BY <1>3, <2>1 DEF AnswersAsPlanned, UnderTemplate, names
  <2> QED
    BY <1>2, <2>1, <2>2, NoMoreOfATemplate DEF AllAsPlanned
<1>8. CASE DoName(h)
  <2>1. /\ h \in is.running /\ UNCHANGED <<real, answersTo, applied, is.running>>
        /\ is'.named = is.named \cup {h} /\ is'.nameNotApplied = is.nameNotApplied \cup {h}
        /\ \/ UNCHANGED misled
           \/ \E g \in Answering(Target(h)) :
                 misled' = IF g = h THEN misled ELSE misled \cup {<<g, h>>}
    BY <1>8, NameEffect
  <2>2. misled' = {}
    BY <1>2, <1>3, <2>1, NobodyElse
  <2>3. \A g \in Hosts : AnswersAsPlanned(g)' /\ (UnderTemplate(g)' => UnderTemplate(g))
    BY <1>3, <2>1 DEF AnswersAsPlanned, UnderTemplate
  <2> QED
    BY <1>2, <2>1, <2>2, <2>3, NoMoreOfATemplate DEF AllAsPlanned
<1> QED
  BY <1>4, <1>5, <1>6, <1>7, <1>8

\* A fault is not forgotten.
LEMMA NoFaultBefore ==
  ASSUME TypeOK, RealType, MachineType, [BuildNext]_vars, faults' = 0
  PROVE  faults = 0
<1>0. faults \in Nat
  BY DEF RealType
<1>1. CASE Bystander \/ WaitForBoot \/ UNCHANGED vars
  BY <1>0, <1>1 DEF Bystander, Fails, WaitForBoot, vars
<1>2. ASSUME NEW h \in Hosts, HostOnly(h) PROVE faults = 0
  BY <1>0, <1>2, BootEffect, RebootEffect, ShutdownEffect, CreateHostEffect,
     DeleteHostEffect, RemoveHostEffect, NameEffect
     DEF HostOnly, StartedIt, LeftIt, Fails, MachineType
<1> QED
  BY <1>1, <1>2, EveryStep

LEMMA AloneNext ==
  TypeOK /\ RealType /\ MachineType /\ NameInv /\ AloneInv /\ [BuildNext]_vars => AloneInv'
<1> SUFFICES ASSUME TypeOK, RealType, MachineType, NameInv, AloneInv, [BuildNext]_vars
             PROVE  AloneInv'
  OBVIOUS
<1>1. CASE Bystander
  BY <1>1, AloneBystander, NoFaultBefore
<1>2. CASE WaitForBoot \/ UNCHANGED vars
  BY <1>2 DEF WaitForBoot, vars, names, AloneInv, Vain, Answering, Target, AllAsPlanned,
     OneOfATemplate, AnswersAsPlanned, UnderTemplate
<1>3. ASSUME NEW h \in Hosts, HostOnly(h) PROVE AloneInv'
  BY <1>3, NoFaultBefore, AloneBoot, AloneReboot, AloneHost DEF HostOnly, AloneInv
<1> QED
  BY <1>1, <1>2, <1>3, EveryStep

\* So it stays, in every setup that starts like this.
LEMMA AloneFollows == BuildSpec => (real.running \subseteq is.running => []AloneInv)
<1>1. BuildInit /\ real.running \subseteq is.running => AloneInv
  BY AloneInit
<1> QED
  BY <1>1, AloneNext, NamesFollow, ExecutionTyped, PTL DEF BuildSpec

\* In every setup that begins with every machine known to run, for hosts and
\* templates of any number: while no call of Xen fails, no machine is given the
\* configuration or the name of another one.
THEOREM OwnConfigurations == BuildSpec => NobodyIsMisled
<1>1. AloneInv => (faults = 0 => misled = {})
  BY DEF AloneInv
<1> QED
  BY <1>1, AloneFollows, PTL DEF NobodyIsMisled

(***************************************************************************)
(* Setups that have to replace a host                                      *)
(*                                                                         *)
(* deleteHost leaves the machine as it is, with its name: afterwards it    *)
(* can only be booted unnamed, and is waited for in vain.                  *)
(***************************************************************************)

\* The machine of h has its name, and is not replaced or not known to have it.
ToBeReplaced(h) ==
  /\ h \notin is.old /\ etc[h] = h
  /\ h \in is.templateChanged \/ (h \notin is.named /\ h \notin is.running)

ReplaceInv == faults = 0 => Vain \/ \E h \in Hosts : ToBeReplaced(h)

\* The host whose template has changed is there, with its name.
LEMMA ReplaceInit == ASSUME BuildInit, is.templateChanged # {} PROVE ReplaceInv
<1>1. PICK st \in Statuses, differ \in SUBSET Differences : is = InitialFacts(st, differ)
  BY DEF BuildInit, Init
<1>2. PICK h \in is.templateChanged : TRUE
  OBVIOUS
<1>3. h \in Hosts /\ st[h] = "kept"
  BY <1>1, <1>2 DEF InitialFacts, InitHosts
<1>4. h \notin is.old /\ h \in is.created
  BY <1>1, <1>3 DEF InitialFacts
<1>5. etc[h] = h
  BY <1>3, <1>4 DEF BuildInit
<1> QED
  BY <1>2, <1>3, <1>4, <1>5 DEF ReplaceInv, ToBeReplaced

\* A host that has to be replaced stays one, unless it is booted unnamed.
LEMMA NeverReplaced ==
  ASSUME TypeOK, RealType, MachineType, NameInv, AloneInv, faults = 0, faults' = 0,
         NEW h \in Hosts, HostOnly(h), NEW k \in Hosts, ToBeReplaced(k)
  PROVE  Vain' \/ ToBeReplaced(k)'
<1>1. waiting = Nobody /\ real.running \subseteq Hosts
  BY BootEffect, RebootEffect, ShutdownEffect, CreateHostEffect, DeleteHostEffect,
     RemoveHostEffect, NameEffect DEF HostOnly, MachineType
<1>2. AllAsPlanned /\ \A g \in Hosts : NamedAsPlanned(g)
  BY <1>1 DEF AloneInv, Vain, NameInv, Calm
<1>3. CASE DoBoot(h) \/ DoBootAndNamed(h) \/ DoBootUnnamed(h)
  <2>1. BootPlan(h) /\ UNCHANGED etc
    BY <1>3, BootEffect
  <2>2. CASE k = h /\ DoBootUnnamed(h)
    BY <2>2, NamedIsNotFound DEF ToBeReplaced
  <2>3. CASE k = h /\ ~DoBootUnnamed(h)
    <3>1. h \in is.named
      BY <1>3, <2>3 DEF DoBoot, DoBootAndNamed, May, Boot, BootAndNamed
    <3> QED
      BY <2>1, <2>3, <3>1 DEF ToBeReplaced, BootPlan
  <2>4. CASE k # h
    BY <2>1, <2>4 DEF ToBeReplaced, BootPlan
  <2> QED
    BY <2>2, <2>3, <2>4
<1>4. CASE DoRebootAndNamed(h)
  BY <1>4, RebootEffect DEF ToBeReplaced, BootPlan
<1>5. CASE DoShutdown(h)
  BY <1>5, ShutdownEffect DEF ToBeReplaced, names
<1>6. CASE DoCreateHost(h)
  <2>1. /\ h \notin is.old
        /\ UNCHANGED <<is.running, is.old, is.named, is.templateChanged>>
        /\ etc' = etc \/ (h \notin real.created /\ etc' = [etc EXCEPT ![h] = TemplateOf[h]])
    BY <1>6, CreateHostEffect DEF Fails
  <2>2. etc'[k] = etc[k]
    BY <1>2, <2>1 DEF NamedAsPlanned, ToBeReplaced, MachineType
  <2> QED
    BY <2>1, <2>2 DEF ToBeReplaced
<1>7. CASE DoDeleteHost(h)
  BY <1>7, DeleteHostEffect DEF ToBeReplaced, names
<1>8. CASE DoRemoveHost(h)
  BY <1>1, <1>8, RemoveHostEffect DEF ToBeReplaced, names
<1>9. CASE DoName(h)
  <2>1. /\ h \in is.running /\ is'.named = is.named \cup {h}
        /\ UNCHANGED <<is.running, is.old, is.templateChanged>>
        /\ etc' = etc \/ \E g \in Answering(Target(h)) : etc' = [etc EXCEPT ![g] = h]
    BY <1>9, NameEffect
  <2>2. etc' = etc \/ etc' = [etc EXCEPT ![h] = h]
    BY <1>2, <2>1, NobodyElse
  <2>3. etc'[k] = k
    BY <2>2 DEF ToBeReplaced, MachineType
  <2> QED
    BY <2>1, <2>3 DEF ToBeReplaced
<1> QED
  BY <1>3, <1>4, <1>5, <1>6, <1>7, <1>8, <1>9 DEF HostOnly

\* Who waits in vain waits for ever.
LEMMA VainForever ==
  ASSUME TypeOK, RealType, MachineType, Vain, [BuildNext]_vars
  PROVE  Vain'
<1>1. ~Bystander /\ ~WaitForBoot
  BY DEF Vain, Bystander, WaitForBoot
<1>2. ASSUME NEW h \in Hosts, HostOnly(h) PROVE FALSE
  BY <1>2, BootEffect, RebootEffect, ShutdownEffect, CreateHostEffect, DeleteHostEffect,
     RemoveHostEffect, NameEffect DEF HostOnly, Vain, MachineType
<1>3. UNCHANGED vars
  BY <1>1, <1>2, EveryStep
<1> QED
  BY <1>3 DEF vars, Vain, Answering, Target

LEMMA ReplaceNext ==
  /\ TypeOK /\ RealType /\ MachineType /\ NameInv /\ AloneInv /\ ReplaceInv
  /\ [BuildNext]_vars
  => ReplaceInv'
<1> SUFFICES ASSUME TypeOK, RealType, MachineType, NameInv, AloneInv, ReplaceInv,
                    [BuildNext]_vars, faults' = 0, ~Vain
             PROVE  Vain' \/ \E h \in Hosts : ToBeReplaced(h)'
  BY VainForever DEF ReplaceInv
<1>1. faults = 0
  BY NoFaultBefore
<1>2. PICK k \in Hosts : ToBeReplaced(k)
  BY <1>1 DEF ReplaceInv
<1>3. CASE Bystander
  BY <1>2, <1>3 DEF Bystander, HostsStay, PlannedHosts, names, ToBeReplaced
<1>4. CASE WaitForBoot \/ UNCHANGED vars
  BY <1>2, <1>4 DEF WaitForBoot, vars, names, ToBeReplaced
<1>5. ASSUME NEW h \in Hosts, HostOnly(h) PROVE Vain' \/ ToBeReplaced(k)'
  BY <1>1, <1>2, <1>5, NeverReplaced
<1> QED
  BY <1>3, <1>4, <1>5, EveryStep

\* For every testbed: a setup that has to replace a host, and begins with every
\* machine known to run, never comes to its goal while no call fails, except
\* that it waits in vain for the machine it has not replaced.
THEOREM TemplatesStay == BuildSpec => NoSetupReplaces
<1>1. BuildInit /\ is.templateChanged # {} => ReplaceInv
  BY ReplaceInit
<1>2. BuildSpec =>
        (is.templateChanged # {} /\ real.running \subseteq is.running => []ReplaceInv)
  BY <1>1, ReplaceNext, AloneFollows, NamesFollow, ExecutionTyped, PTL DEF BuildSpec
<1>3. ReplaceInv => (faults = 0 /\ Goal => waiting # Nobody)
  BY DEF ReplaceInv, ToBeReplaced, Goal, Vain
<1> QED
  BY <1>2, <1>3, PTL DEF NoSetupReplaces

(***************************************************************************)
(* Names where machines may be misled                                      *)
(*                                                                         *)
(* What the planner believes is right even if some machines did not run as *)
(* it writes.  Such a machine keeps its own name, whatever is done to it;  *)
(* all others, the misled ones among them, run as planned, and answer      *)
(* where they are looked for as long as the setup does not wait in vain.   *)
(***************************************************************************)

Own(h) == etc[h] = h /\ answersTo[h] = h

Steady(h) == h \notin Drifted \/ ~Own(h)

\* A machine that has its name after the planner has forgotten it.
Deleted(h) == h \notin is.named /\ etc[h] = h

RunsAsPlanned(h) ==
  /\ Steady(h) => (h \in real.running <=> h \in is.running)
  /\ h \in is.created => h \in real.created
  /\ h \in is.running => h \in is.created
  /\ h \in is.named => h \in is.created \cup is.old
  /\ h \notin real.created /\ h \notin is.old =>
       etc[h] = TemplateOf[h] /\ h \notin is.named \cup is.nameNotApplied

NamedInTime(h) ==
  /\ answersTo[h] \in {h, TemplateOf[h]}
  /\ UnderTemplate(h) => h \notin is.named \/ h \in is.nameNotApplied
  /\ etc[h] = TemplateOf[h] =>
       h \notin is.named \cup is.nameNotApplied /\ (h \in real.created => h \notin applied)
  /\ Steady(h) /\ h \in is.running => answersTo[h] = Target(h)
  /\ Steady(h) /\ h \in is.named \ is.nameNotApplied => h \in applied
  /\ h \notin Drifted /\ Deleted(h) => h \notin is.running

AllInTime == OneOfATemplate /\ \A h \in Hosts : NamedInTime(h)

StrayInv == faults = 0 => (\A h \in Hosts : RunsAsPlanned(h)) /\ (~Vain => AllInTime)

\* At first only machines that have drifted run otherwise than planned.
LEMMA StrayInit == ASSUME BuildInit PROVE StrayInv
<1>1. PICK st \in Statuses, differ \in SUBSET Differences : is = InitialFacts(st, differ)
  BY DEF BuildInit, Init
<1>2. PICK drift \in SUBSET (Drifted \cap is.created) :
        real = [f \in RealFields |->
                  IF f = "running"
                  THEN (is.running \ drift) \cup (drift \ is.running) ELSE is[f]]
  BY DEF BuildInit
<1>3. /\ is.created = {x \in Hosts \cup Networks \cup Interfaces : st[x] # "new"}
      /\ is.running \subseteq {h \in Hosts : st[h] # "new"}
      /\ is.named = {h \in Hosts : st[h] # "new"} /\ is.nameNotApplied = {}
  BY <1>1 DEF InitialFacts, InitHosts
<1>4. real.created = is.created /\ real.running = (is.running \ drift) \cup (drift \ is.running)
  BY <1>2 DEF RealFields
<1>5. ASSUME NEW h \in Hosts PROVE RunsAsPlanned(h) /\ NamedInTime(h) /\ ~UnderTemplate(h)
  <2>1. etc[h] = IF h \in is.created THEN h ELSE TemplateOf[h]
    BY DEF BuildInit
  <2>2. answersTo[h] = etc[h] /\ h \in applied
    BY DEF BuildInit
  <2>3. RunsAsPlanned(h)
    BY <1>2, <1>3, <1>4, <2>1, <2>2, TemplatesAreNoHosts DEF RunsAsPlanned, Steady, Own
  <2>4. ~UnderTemplate(h)
    BY <1>2, <1>3, <1>4, <2>1, <2>2, TemplatesAreNoHosts DEF UnderTemplate
  <2>5. NamedInTime(h)
    BY <1>3, <1>4, <2>1, <2>2, <2>4, TemplatesAreNoHosts
       DEF NamedInTime, Target, Deleted
  <2> QED
    BY <2>3, <2>4, <2>5
<1> QED
  BY <1>5 DEF StrayInv, AllInTime, OneOfATemplate

\* Whoever answers in the place of another has not got its name yet.
LEMMA OnlyUnnamedMislead ==
  ASSUME MachineType, AllInTime, NEW h \in Hosts, NEW g \in Answering(Target(h)), g # h
  PROVE  /\ g \in Hosts /\ UnderTemplate(g) /\ TemplateOf[g] = TemplateOf[h]
         /\ answersTo[g] # g /\ h \notin applied
<1>1. g \in Hosts /\ g \in real.running /\ answersTo[g] = Target(h)
  BY DEF Answering, MachineType
<1>2. answersTo[g] \in {g, TemplateOf[g]}
  BY <1>1 DEF AllInTime, NamedInTime
<1> QED
  BY <1>1, <1>2, TemplatesAreNoHosts DEF Target, UnderTemplate

\* A machine that runs as planned is found, and nobody else.
LEMMA SteadyIsFound ==
  ASSUME MachineType, AllInTime, NEW h \in Hosts, RunsAsPlanned(h), Steady(h),
         h \in is.running
  PROVE  Answering(Target(h)) = {h}
<1>1. h \in real.running /\ answersTo[h] = Target(h)
  BY DEF RunsAsPlanned, AllInTime, NamedInTime
<1>2. ASSUME NEW g \in Answering(Target(h)), g # h PROVE FALSE
  <2>1. UnderTemplate(g) /\ g \in Hosts /\ TemplateOf[g] = TemplateOf[h] /\ h \notin applied
    BY <1>2, OnlyUnnamedMislead
  <2>2. UnderTemplate(h)
    BY <1>1, <2>1 DEF Target, UnderTemplate
  <2> QED
    BY <1>2, <2>1, <2>2 DEF AllInTime, OneOfATemplate
<1> QED
  BY <1>1, <1>2 DEF Answering

\* What concerns one host leaves the others as they run and answer.
LEMMA OthersInTime ==
  ASSUME NEW g \in Hosts, RunsAsPlanned(g), NamedInTime(g),
         g \in real'.running <=> g \in real.running,
         g \in real'.created <=> g \in real.created,
         g \in is'.running <=> g \in is.running, g \in is'.created <=> g \in is.created,
         g \in is'.named <=> g \in is.named, is'.old = is.old,
         g \in is'.nameNotApplied <=> g \in is.nameNotApplied,
         answersTo'[g] = answersTo[g], etc'[g] = etc[g], g \in applied' <=> g \in applied
  PROVE  /\ RunsAsPlanned(g)' /\ NamedInTime(g)'
         /\ UnderTemplate(g)' <=> UnderTemplate(g)
  BY DEF RunsAsPlanned, NamedInTime, UnderTemplate, Steady, Own, Target, Deleted

\* One that has been started and is not waited for in vain has the name it is
\* looked for under.
LEMMA StartedInTime ==
  ASSUME MachineType, NEW h \in Hosts, AllInTime, StartedIt(h), UNCHANGED etc,
         h \in applied' \/ \A g \in Hosts \ {h} : UnderTemplate(g) => TemplateOf[g] # TemplateOf[h],
         ~Vain'
  PROVE  etc[h] = Target(h)' /\ answersTo'[h] = etc[h]
<1>1. waiting' = h /\ h # Nobody /\ answersTo'[h] = etc[h]
  BY TemplatesAreNoHosts DEF StartedIt, MachineType
<1>2. PICK g \in real'.running : answersTo'[g] = Target(h)'
  BY <1>1 DEF Vain, Answering, Target
<1>3. CASE g = h
  BY <1>1, <1>2, <1>3
<1>4. CASE g # h
  <2>1. g \in Hosts /\ g \in real.running /\ answersTo'[g] = answersTo[g]
    BY <1>2, <1>4 DEF StartedIt, MachineType
  <2>2. answersTo[g] \in {g, TemplateOf[g]}
    BY <2>1 DEF AllInTime, NamedInTime
  <2> QED
    BY <1>2, <1>4, <2>1, <2>2, TemplatesAreNoHosts DEF UnderTemplate, Target
<1> QED
  BY <1>3, <1>4

\* A machine that does not run as planned is not started, and nobody waits
\* for it; any other is, and gets its name.
LEMMA StrayBoot ==
  ASSUME TypeOK, RealType, MachineType, StrayInv, faults = 0, faults' = 0,
         NEW h \in Hosts, DoBoot(h) \/ DoBootAndNamed(h) \/ DoBootUnnamed(h)
  PROVE  (\A g \in Hosts : RunsAsPlanned(g)') /\ (~Vain' => AllInTime')
<1>1. /\ waiting = Nobody /\ h \in is.created /\ h \notin is.running /\ BootPlan(h)
      /\ UNCHANGED <<etc, real.created>>
      /\ (h \in Stopped /\ StartedIt(h)) \/ LeftIt
      /\ h \in Stopped => StartedIt(h)
  BY BootEffect
<1>2. (\A g \in Hosts : RunsAsPlanned(g)) /\ AllInTime
  BY <1>1 DEF StrayInv, Vain
<1>3. \A g \in Hosts : NamedInTime(g)
  BY <1>2 DEF AllInTime
<1>4. /\ applied' \in {applied, applied \cup {h}, applied \ {h}}
      /\ is'.nameNotApplied \in {is.nameNotApplied, is.nameNotApplied \ {h}}
      /\ \/ DoBoot(h) /\ applied' = applied /\ h \in is.named \ is.nameNotApplied
              /\ is'.nameNotApplied = is.nameNotApplied
         \/ DoBootAndNamed(h) /\ h \in applied' /\ h \in is.named
              /\ h \notin is'.nameNotApplied
         \/ DoBootUnnamed(h) /\ h \notin applied'
              /\ is'.nameNotApplied = is.nameNotApplied
  BY DEF DoBoot, May, Boot, DoBootAndNamed, BootAndNamed, DoBootUnnamed, BootUnnamed,
     TypeOK, MachineType
<1>5. h \in real.created
  BY <1>1, <1>2 DEF RunsAsPlanned
<1>6. ASSUME NEW g \in Hosts, g # h
      PROVE  /\ RunsAsPlanned(g)' /\ NamedInTime(g)'
             /\ UnderTemplate(g)' <=> UnderTemplate(g)
  <2>1. /\ g \in real'.running <=> g \in real.running
        /\ answersTo'[g] = answersTo[g]
    BY <1>1, <1>6 DEF StartedIt, LeftIt, MachineType
  <2> QED
    BY <1>1, <1>2, <1>3, <1>4, <1>6, <2>1, OthersInTime DEF BootPlan
<1>7. CASE StartedIt(h)
  <2>1. h \in real'.running /\ answersTo'[h] = etc[h]
    BY <1>7 DEF StartedIt, MachineType
  <2>2. RunsAsPlanned(h)'
    BY <1>1, <1>5, <2>1 DEF RunsAsPlanned, BootPlan
  <2>3. ASSUME ~Vain' PROVE AllInTime'
    <3>1. ASSUME DoBootUnnamed(h), NEW g \in Hosts, g # h, UnderTemplate(g)
          PROVE  TemplateOf[g] # TemplateOf[h]
      <4> SUFFICES ASSUME TemplateOf[g] = TemplateOf[h] PROVE FALSE
        OBVIOUS
      <4>1. g \in is.running /\ (g \notin is.named \/ g \in is.nameNotApplied)
        BY <1>2, <1>3, <3>1, TemplatesAreNoHosts
           DEF NamedInTime, RunsAsPlanned, UnderTemplate, Steady, Own
      <4>2. g \in PeersOf(h)
        BY DeploymentAssumption
      <4> QED
        BY <3>1, <4>1, <4>2 DEF DoBootUnnamed, May, BootUnnamed
    <3>2. CASE Steady(h) \/ h \in applied' \/ DoBootUnnamed(h)
      <4>1. h \in applied' \/ DoBootUnnamed(h)
        BY <1>3, <1>4, <3>2 DEF NamedInTime
      <4>2. etc[h] = Target(h)'
        BY <1>1, <1>2, <1>7, <2>3, <3>1, <4>1, StartedInTime
      <4>3. CASE h \in applied'
        <5>1. etc[h] = h
          BY <4>2, <4>3 DEF Target
        <5>2. NamedInTime(h)' /\ ~UnderTemplate(h)'
          BY <1>1, <1>3, <1>4, <2>1, <4>2, <4>3, <5>1, TemplatesAreNoHosts
             DEF NamedInTime, UnderTemplate, Deleted, BootPlan
        <5> QED
          BY <1>2, <1>6, <5>2 DEF AllInTime, OneOfATemplate
      <4>4. CASE h \notin applied'
        <5>1. etc[h] = TemplateOf[h] /\ DoBootUnnamed(h)
          BY <4>1, <4>2, <4>4 DEF Target
        <5>2. h \notin is'.named \cup is'.nameNotApplied
          BY <1>1, <1>3, <1>4, <5>1 DEF NamedInTime, BootPlan
        <5>3. NamedInTime(h)'
          BY <1>1, <2>1, <4>2, <4>4, <5>1, <5>2, TemplatesAreNoHosts
             DEF NamedInTime, UnderTemplate, Deleted
        <5> QED
          BY <1>2, <1>6, <3>1, <5>1, <5>3 DEF AllInTime, OneOfATemplate
      <4> QED
        BY <4>3, <4>4
    <3>3. CASE ~Steady(h)
      <4>1. etc[h] = h /\ h \in Drifted
        BY <3>3 DEF Steady, Own
      <4>2. NamedInTime(h)' /\ ~UnderTemplate(h)'
        BY <1>1, <2>1, <4>1, TemplatesAreNoHosts
           DEF NamedInTime, UnderTemplate, Steady, Own
      <4> QED
        BY <1>2, <1>6, <4>2 DEF AllInTime, OneOfATemplate
    <3> QED
      BY <3>2, <3>3
  <2> QED
    BY <1>6, <2>2, <2>3
<1>8. CASE LeftIt /\ h \notin Stopped
  <2>1. ~Steady(h) /\ h \in real'.running /\ answersTo' = answersTo
    BY <1>1, <1>2, <1>5, <1>8 DEF LeftIt, Stopped, RunsAsPlanned
  <2>2. etc'[h] = h /\ answersTo'[h] = h /\ h \in Drifted
    BY <1>1, <2>1 DEF Steady, Own
  <2>3. RunsAsPlanned(h)' /\ NamedInTime(h)' /\ ~UnderTemplate(h)'
    BY <1>1, <1>5, <2>1, <2>2, TemplatesAreNoHosts
       DEF RunsAsPlanned, NamedInTime, UnderTemplate, Steady, Own, BootPlan
  <2> QED
    BY <1>2, <1>6, <2>3 DEF AllInTime, OneOfATemplate
<1> QED
  BY <1>1, <1>7, <1>8

\* The same of a reboot.
LEMMA StrayReboot ==
  ASSUME TypeOK, RealType, MachineType, StrayInv, faults = 0, faults' = 0,
         NEW h \in Hosts, DoRebootAndNamed(h)
  PROVE  (\A g \in Hosts : RunsAsPlanned(g)') /\ (~Vain' => AllInTime')
<1>1. /\ waiting = Nobody /\ h \in is.running /\ h \in is.nameNotApplied /\ BootPlan(h)
      /\ is'.nameNotApplied = is.nameNotApplied \ {h} /\ applied' = applied \cup {h}
      /\ UNCHANGED <<etc, real.created>>
      /\ (h \in real.running /\ StartedIt(h)) \/ LeftIt
      /\ h \in real.running => StartedIt(h)
  BY RebootEffect
<1>2. (\A g \in Hosts : RunsAsPlanned(g)) /\ AllInTime /\ \A g \in Hosts : NamedInTime(g)
  BY <1>1 DEF StrayInv, Vain, AllInTime
<1>3. real'.running = real.running /\ is'.running = is.running
  BY <1>1 DEF StartedIt, LeftIt, BootPlan
<1>4. ASSUME NEW g \in Hosts, g # h
      PROVE  /\ RunsAsPlanned(g)' /\ NamedInTime(g)'
             /\ UnderTemplate(g)' <=> UnderTemplate(g)
  <2>1. answersTo'[g] = answersTo[g]
    BY <1>1, <1>4 DEF StartedIt, LeftIt, MachineType
  <2> QED
    BY <1>1, <1>2, <1>3, <1>4, <2>1, OthersInTime DEF BootPlan
<1>5. CASE StartedIt(h)
  <2>1. answersTo'[h] = etc[h] /\ h \in real.running
    BY <1>1, <1>3, <1>5 DEF StartedIt, MachineType
  <2>2. RunsAsPlanned(h)'
    BY <1>1, <1>2, <1>3, <2>1 DEF RunsAsPlanned, BootPlan
  <2>3. ASSUME ~Vain' PROVE NamedInTime(h)' /\ ~UnderTemplate(h)'
    <3>1. etc[h] = Target(h)' /\ Target(h)' = h
      BY <1>1, <1>2, <1>5, <2>3, StartedInTime DEF Target
    <3>2. h \notin Drifted => ~Deleted(h)'
      BY <1>1, <1>2 DEF NamedInTime, Deleted, BootPlan
    <3>3. etc'[h] = h /\ answersTo'[h] = h /\ h \in applied' /\ h \notin is'.nameNotApplied
      BY <1>1, <2>1, <3>1
    <3> QED
      BY <3>1, <3>2, <3>3, TemplatesAreNoHosts DEF NamedInTime, UnderTemplate
  <2> QED
    BY <1>2, <1>4, <2>2, <2>3 DEF AllInTime, OneOfATemplate
<1>6. CASE LeftIt /\ h \notin real.running
  <2>1. ~Steady(h) /\ answersTo' = answersTo
    BY <1>1, <1>2, <1>6 DEF LeftIt, RunsAsPlanned
  <2>2. etc'[h] = h /\ answersTo'[h] = h /\ h \in Drifted
    BY <1>1, <2>1 DEF Steady, Own
  <2>3. RunsAsPlanned(h)' /\ NamedInTime(h)' /\ ~UnderTemplate(h)'
    BY <1>1, <1>2, <1>3, <1>6, <2>2, TemplatesAreNoHosts
       DEF RunsAsPlanned, NamedInTime, UnderTemplate, Steady, Own, BootPlan
  <2> QED
    BY <1>2, <1>4, <2>3 DEF AllInTime, OneOfATemplate
<1> QED
  BY <1>1, <1>5, <1>6

\* Who is named is the machine itself, or one that has drifted misleads another.
LEMMA StrayName ==
  ASSUME TypeOK, RealType, MachineType, StrayInv, faults = 0, faults' = 0,
         NEW h \in Hosts, DoName(h)
  PROVE  (\A g \in Hosts : RunsAsPlanned(g)') /\ AllInTime'
<1>1. /\ waiting = Nobody /\ h \in is.running
      /\ UNCHANGED <<real, answersTo, applied, waiting>>
      /\ is'.named = is.named \cup {h} /\ is'.nameNotApplied = is.nameNotApplied \cup {h}
      /\ UNCHANGED <<is.running, is.created, is.old>>
      /\ \/ Answering(Target(h)) = {} /\ UNCHANGED etc
         \/ \E g \in Answering(Target(h)) : etc' = [etc EXCEPT ![g] = h]
  BY NameEffect
<1>2. (\A g \in Hosts : RunsAsPlanned(g)) /\ AllInTime /\ \A g \in Hosts : NamedInTime(g)
  BY <1>1 DEF StrayInv, Vain, AllInTime
<1>3. \A g \in Hosts : UnderTemplate(g)' <=> UnderTemplate(g)
  BY <1>1 DEF UnderTemplate
<1>4. ASSUME NEW g \in Hosts, g # h PROVE RunsAsPlanned(g)' /\ NamedInTime(g)'
  <2>1. CASE etc'[g] = etc[g]
    BY <1>1, <1>2, <1>4, <2>1, OthersInTime
  <2>2. CASE etc'[g] # etc[g]
    <3>1. g \in Answering(Target(h)) /\ etc'[g] = h
      BY <1>1, <2>2 DEF MachineType
    <3>2. UnderTemplate(g) /\ answersTo[g] # g
      BY <1>2, <1>4, <3>1, OnlyUnnamedMislead
    <3>3. g \in real.created
      BY <3>2 DEF UnderTemplate, MachineType
    <3> QED
      BY <1>1, <1>2, <1>3, <1>4, <3>1, <3>2, <3>3, TemplatesAreNoHosts
         DEF RunsAsPlanned, NamedInTime, Steady, Own, Target, Deleted
  <2> QED
    BY <2>1, <2>2
<1>5. etc'[h] = h /\ (Steady(h)' => Steady(h))
  <2>1. CASE Steady(h)
    <3>1. etc' = [etc EXCEPT ![h] = h]
      BY <1>1, <1>2, <2>1, SteadyIsFound
    <3> QED
      BY <1>1, <2>1, <3>1 DEF MachineType, Steady, Own
  <2>2. CASE ~Steady(h)
    <3>1. etc[h] = h /\ answersTo'[h] = h /\ h \in Drifted
      BY <1>1, <2>2 DEF Steady, Own
    <3>2. etc'[h] = h
      BY <1>1, <3>1 DEF MachineType
    <3> QED
      BY <3>1, <3>2 DEF Steady, Own
  <2> QED
    BY <2>1, <2>2
<1>6. h \in is.created /\ h \in real.created
  BY <1>1, <1>2 DEF RunsAsPlanned
<1>7. RunsAsPlanned(h)' /\ NamedInTime(h)'
  BY <1>1, <1>2, <1>3, <1>5, <1>6, TemplatesAreNoHosts
     DEF RunsAsPlanned, NamedInTime, Target, Deleted
<1> QED
  BY <1>2, <1>3, <1>4, <1>7 DEF AllInTime, OneOfATemplate

\* The other steps of a host let no machine come to run.
LEMMA StrayHost ==
  ASSUME TypeOK, RealType, MachineType, StrayInv, faults = 0, faults' = 0,
         NEW h \in Hosts, DoShutdown(h) \/ DoCreateHost(h) \/ DoDeleteHost(h) \/ DoRemoveHost(h)
  PROVE  (\A g \in Hosts : RunsAsPlanned(g)') /\ AllInTime'
<1>1. waiting = Nobody /\ real.running \subseteq Hosts /\ ~Fails
  BY ShutdownEffect, CreateHostEffect, DeleteHostEffect, RemoveHostEffect
     DEF MachineType, Fails
<1>2. (\A g \in Hosts : RunsAsPlanned(g)) /\ AllInTime /\ \A g \in Hosts : NamedInTime(g)
  BY <1>1 DEF StrayInv, Vain, AllInTime
<1> SUFFICES ASSUME NEW g \in Hosts
             PROVE  /\ RunsAsPlanned(g)' /\ NamedInTime(g)'
                    /\ UnderTemplate(g)' => UnderTemplate(g)
  BY <1>2, NoMoreOfATemplate DEF AllInTime
<1>3. RunsAsPlanned(g) /\ NamedInTime(g)
  BY <1>2
<1>4. CASE DoShutdown(h)
  <2>1. /\ UNCHANGED <<names, is.named, is.nameNotApplied, is.created, is.old, real.created>>
        /\ is'.running = is.running \ {h} /\ real'.running = real.running \ {h}
    BY <1>1, <1>4, ShutdownEffect
  <2> QED
    BY <1>3, <2>1
       DEF RunsAsPlanned, NamedInTime, UnderTemplate, Steady, Own, Target, Deleted, names
<1>5. CASE DoCreateHost(h)
  <2>1. /\ h \notin is.created /\ h \notin is.old
        /\ UNCHANGED <<answersTo, real.running>>
        /\ UNCHANGED <<is.running, is.named, is.nameNotApplied, is.old>>
        /\ is'.created = is.created \cup {h} /\ real'.created = real.created \cup {h}
        /\ \/ h \in real.created /\ UNCHANGED <<etc, applied>>
           \/ h \notin real.created /\ etc' = [etc EXCEPT ![h] = TemplateOf[h]]
                /\ applied' = applied \ {h}
    BY <1>1, <1>5, CreateHostEffect
  <2>2. CASE g # h
    <3>1. etc'[g] = etc[g]
      BY <2>1, <2>2 DEF MachineType
    <3> QED
      BY <1>3, <2>1, <2>2, <3>1, OthersInTime
  <2>3. CASE g = h /\ h \in real.created
    BY <1>3, <2>1, <2>3
       DEF RunsAsPlanned, NamedInTime, UnderTemplate, Steady, Own, Target, Deleted
  <2>4. CASE g = h /\ h \notin real.created
    <3>1. etc[h] = TemplateOf[h] /\ etc'[h] = TemplateOf[h] /\ h \notin applied'
      BY <1>3, <2>1, <2>4 DEF RunsAsPlanned, MachineType
    <3>2. h \notin is.named \cup is.nameNotApplied /\ h \notin is.running
      BY <1>3, <2>1, <2>4 DEF RunsAsPlanned
    <3> QED
      BY <1>3, <2>1, <2>4, <3>1, <3>2, TemplatesAreNoHosts
         DEF RunsAsPlanned, NamedInTime, UnderTemplate, Steady, Own, Deleted
  <2> QED
    BY <2>2, <2>3, <2>4
<1>6. CASE DoDeleteHost(h)
  <2>1. /\ UNCHANGED <<names, real, is.running, is.nameNotApplied, is.old>>
        /\ h \notin is.running /\ is'.named = is.named \ {h}
        /\ g \in is'.created <=> g \in is.created /\ g # h
    BY <1>6, DeleteHostEffect
  <2> QED
    BY <1>3, <2>1
       DEF RunsAsPlanned, NamedInTime, UnderTemplate, Steady, Own, Target, Deleted, names
<1>7. CASE DoRemoveHost(h)
  <2>1. /\ h \notin is.running /\ h \in is.old
        /\ UNCHANGED <<names, is.running, is.named, is.nameNotApplied, is.old>>
        /\ is'.created \cap Hosts = (is.created \cap Hosts) \ {h}
        /\ \/ real' = real
           \/ /\ real'.running = real.running \ {h}
              /\ real'.created \cap Hosts = (real.created \cap Hosts) \ {h}
    BY <1>1, <1>7, RemoveHostEffect
  <2>2. /\ g \in is'.created <=> g \in is.created /\ g # h
        /\ g \in real'.created => g \in real.created
        /\ g # h => (g \in real'.created <=> g \in real.created)
        /\ g \in real'.running => g \in real.running
        /\ g # h => (g \in real'.running <=> g \in real.running)
    BY <2>1
  <2> QED
    BY <1>3, <2>1, <2>2
       DEF RunsAsPlanned, NamedInTime, UnderTemplate, Steady, Own, Target, Deleted, names
<1> QED
  BY <1>4, <1>5, <1>6, <1>7

\* Every step keeps the names in time.
LEMMA StrayNext ==
  TypeOK /\ RealType /\ MachineType /\ StrayInv /\ [BuildNext]_vars => StrayInv'
<1> SUFFICES ASSUME TypeOK, RealType, MachineType, StrayInv, [BuildNext]_vars, faults' = 0
             PROVE  (\A g \in Hosts : RunsAsPlanned(g)') /\ (~Vain' => AllInTime')
  BY DEF StrayInv
<1>0. faults = 0
  BY NoFaultBefore
<1>1. CASE Bystander
  <2>1. (\A g \in Hosts : RunsAsPlanned(g)) /\ AllInTime
    BY <1>0, <1>1 DEF StrayInv, Bystander, Vain
  <2>2. ASSUME NEW g \in Hosts
        PROVE  /\ RunsAsPlanned(g)' /\ NamedInTime(g)'
               /\ UnderTemplate(g)' <=> UnderTemplate(g)
    <3>1. /\ g \in is'.created <=> g \in is.created
          /\ g \in real'.created <=> g \in real.created
      BY <1>1 DEF Bystander, HostsStay, PlannedHosts, RealHosts
    <3> QED
      BY <1>1, <2>1, <3>1, OthersInTime
         DEF AllInTime, Bystander, HostsStay, PlannedHosts, RealHosts, names
  <2> QED
    BY <2>1, <2>2, NoMoreOfATemplate DEF AllInTime
<1>2. CASE WaitForBoot \/ UNCHANGED vars
  BY <1>0, <1>2 DEF WaitForBoot, vars, names, StrayInv, Vain, Answering, Target, AllInTime,
     OneOfATemplate, RunsAsPlanned, NamedInTime, UnderTemplate, Steady, Own, Deleted
<1>3. ASSUME NEW h \in Hosts, HostOnly(h)
      PROVE  (\A g \in Hosts : RunsAsPlanned(g)') /\ (~Vain' => AllInTime')
  BY <1>0, <1>3, StrayBoot, StrayReboot, StrayName, StrayHost DEF HostOnly
<1> QED
  BY <1>1, <1>2, <1>3, EveryStep

\* So all but the drifted machines run and are called as planned.
LEMMA StraysFollow == BuildSpec => []StrayInv
<1>1. BuildInit => StrayInv
  BY StrayInit
<1> QED
  BY <1>1, StrayNext, ExecutionTyped, PTL DEF BuildSpec

(***************************************************************************)
(* What the planner believes                                               *)
(*                                                                         *)
(* The invariant speaks of more hosts than AsBelieved: only a host that    *)
(* was deleted with its name, and can never be named again, is not         *)
(* trusted.  What becomes of a host that is deleted without a name, and    *)
(* created again in the planner's eyes, rests on what it was created with. *)
(***************************************************************************)

Trusted(h) == h \notin is.old /\ h \notin Drifted /\ ~Deleted(h)

CertainHosts == {h \in Hosts : Trusted(h)}

CertainInterfaces ==
  {i \in Interfaces \ is.old :
     Trusted(HostOf[i]) /\ (NetworkOf[i] \in is.new => HostOf[i] \in is.new)}

CertainServices ==
  {s \in Services \ is.old : InterfaceOf[s] \in CertainInterfaces /\ ~Refused(Together(s))}

Certain == CertainHosts \cup CertainInterfaces \cup CertainServices \cup (Networks \ is.old)

Believed == RealFields \ {"running", "attached"}

Complete(i) == i \in real.network \cap real.mtu \cap real.rate

\* A machine that has not got its name is new, and as it was created.
NewAreComplete ==
  \A h \in Hosts \ is.old : ~Own(h) =>
    /\ h \in is.new
    /\ h \in real.created =>
         /\ h \in real.cpus \cap real.memory
         /\ \A i \in InterfacesOf(h) \cap real.created : Complete(i)

\* So are VIFs the planner does not know of.
ForgottenAreComplete ==
  \A i \in Interfaces \ is.old :
    Trusted(HostOf[i]) /\ i \in real.created \ is.created => Complete(i)

NetworksAreThere ==
  /\ Networks \ is.new \subseteq real.created
  /\ is.created \cap Networks \subseteq real.created
  /\ is.configName \cap Networks \subseteq real.configName
  /\ \A i \in Interfaces :
       HostOf[i] \in is.new /\ i \in is.created \cup real.created => NetworkOf[i] \in real.created

BeliefInv ==
  faults = 0 =>
    /\ \A f \in Believed : is[f] \cap Certain \subseteq real[f]
    /\ NewAreComplete /\ ForgottenAreComplete /\ NetworksAreThere

\* At first the planner is right.
LEMMA BeliefInit == ASSUME BuildInit PROVE BeliefInv
<1>1. PICK st \in Statuses, differ \in SUBSET Differences : is = InitialFacts(st, differ)
  BY DEF BuildInit, Init
<1>2. \A f \in Believed : real[f] = is[f]
  BY DEF BuildInit, Believed
<1>3. /\ is.created = {x \in Hosts \cup Networks \cup Interfaces : st[x] # "new"}
      /\ is.new = {x \in Hosts \cup Networks \cup Dns \cup (Disks \ DefaultDisks) :
                      st[x] = "new"}
      /\ is.old = {x \in Objects : st[x] = "removed"}
  BY <1>1 DEF InitialFacts
<1>4. real.created = is.created /\ real.configName = is.configName
  BY <1>2 DEF Believed, RealFields
<1>5. ASSUME NEW h \in Hosts, ~Own(h) PROVE h \in is.new /\ h \notin real.created
  <2>1. etc[h] = IF h \in is.created THEN h ELSE TemplateOf[h]
    BY DEF BuildInit
  <2>2. answersTo[h] = etc[h]
    BY DEF BuildInit
  <2> QED
    BY <1>3, <1>4, <1>5, <2>1, <2>2 DEF Own
<1>6. Networks \ is.new \subseteq real.created
  BY <1>3, <1>4
<1>7. ASSUME NEW i \in Interfaces PROVE i \notin is.created \/ HostOf[i] \notin is.new
  <2>1. HostOf[i] \in Hosts /\ (st[HostOf[i]] = "kept" \/ st[i] = st[HostOf[i]])
    BY TestbedAssumption DEF Statuses
  <2> QED
    BY <1>3, <2>1
<1> QED
  BY <1>2, <1>4, <1>5, <1>6, <1>7
     DEF BeliefInv, NewAreComplete, ForgottenAreComplete, NetworksAreThere

(***************************************************************************)
(* Whom the planner can trust                                              *)
(***************************************************************************)

LEMMA NewStays ==
  ASSUME TypeOK, [Next]_is
  PROVE  is'.new \cap (Hosts \cup Networks) = is.new \cap (Hosts \cup Networks)
<1>1. CASE \E h \in Hosts : HostStep(h)
  BY <1>1 DEF TypeOK, HostStep, Boot, BootAndNamed, BootUnnamed, Shutdown, RebootAndNamed,
     CreateHost, DeleteHost, RemoveHost, Name, ConfigureFirewall, ConfigureCpus, ConfigureMemory
<1>2. CASE \E r \in Routers : ConfigureRouting(r)
  BY <1>2 DEF TypeOK, ConfigureRouting
<1>3. CASE \E i \in Interfaces : InterfaceStep(i)
  BY <1>3 DEF TypeOK, InterfaceStep, CreateInterface, RemoveInterface, ConfigureInterface,
     UnconfigureInterface, ConfigureNetwork, ConfigureMtu, ConfigureRate
<1>4. CASE \E n \in Networks : CreateNetwork(n) \/ RemoveNetwork(n)
  BY <1>4 DEF TypeOK, CreateNetwork, RemoveNetwork
<1>5. CASE \E d \in Disks : AddDisk(d) \/ RemoveDisk(d)
  BY <1>5 DEF TypeOK, AddDisk, RemoveDisk
<1>6. CASE (\E s \in Dns : UnconfigureDns(s)) \/ (\E s \in Dhcp : UnconfigureDhcp(s))
  BY <1>6 DEF TypeOK, UnconfigureDns, UnconfigureDhcp
<1>7. CASE \E s \in Dns : ConfigureDns(s)
  <2>1. PICK s \in Dns : ConfigureDns(s)
    BY <1>7
  <2>2. is'.new = is.new \ Dns \/ is'.new = is.new \ {s}
    BY <2>1 DEF TypeOK, ConfigureDns
  <2>3. Dns \cap (Hosts \cup Networks) = {}
    BY TypesAssumption DEF Services
  <2> QED
    BY <2>1, <2>2, <2>3
<1>8. CASE \E s \in Dhcp : ConfigureDhcp(s)
  BY <1>8 DEF TypeOK, ConfigureDhcp
<1>9. CASE \E x \in Hosts \cup Networks \cup Disks : AddConfigName(x)
  BY <1>9 DEF TypeOK, AddConfigName
<1> QED
  BY <1>1, <1>2, <1>3, <1>4, <1>5, <1>6, <1>7, <1>8, <1>9 DEF Next

\* A machine that has its name keeps it, and the planner does not learn of one
\* that it has forgotten.
LEMMA NamesAreKept ==
  ASSUME TypeOK, RealType, MachineType, StrayInv, [BuildNext]_vars, faults' = 0,
         NEW k \in Hosts, k \notin is.old
  PROVE  (Own(k) => Own(k)') /\ (k \notin Drifted /\ Deleted(k) => Deleted(k)')
<1>0. faults = 0 /\ ~Fails
  BY NoFaultBefore DEF Fails
<1>1. CASE Bystander \/ WaitForBoot \/ UNCHANGED vars
  BY <1>1 DEF Bystander, HostsStay, PlannedHosts, WaitForBoot, vars, names, Own, Deleted
<1>2. ASSUME NEW h \in Hosts, HostOnly(h)
      PROVE  (Own(k) => Own(k)') /\ (k \notin Drifted /\ Deleted(k) => Deleted(k)')
  <2>1. waiting = Nobody /\ real.running \subseteq Hosts
    BY <1>2, BootEffect, RebootEffect, ShutdownEffect, CreateHostEffect, DeleteHostEffect,
       RemoveHostEffect, NameEffect DEF HostOnly, MachineType
  <2>2. (\A g \in Hosts : RunsAsPlanned(g)) /\ AllInTime /\ \A g \in Hosts : NamedInTime(g)
    BY <1>0, <2>1 DEF StrayInv, Vain, AllInTime
  <2>3. CASE DoBoot(h) \/ DoBootAndNamed(h) \/ DoBootUnnamed(h) \/ DoRebootAndNamed(h)
    <3>1. /\ UNCHANGED etc /\ BootPlan(h)
          /\ answersTo' = answersTo \/ answersTo' = [answersTo EXCEPT ![h] = etc[h]]
      BY <2>3, BootEffect, RebootEffect DEF StartedIt, LeftIt
    <3> QED
      BY <3>1 DEF Own, Deleted, BootPlan, MachineType
  <2>4. CASE DoShutdown(h)
    BY <2>4, ShutdownEffect DEF Own, Deleted, names
  <2>5. CASE DoDeleteHost(h)
    BY <2>5, DeleteHostEffect DEF Own, Deleted, names
  <2>6. CASE DoRemoveHost(h)
    BY <2>1, <2>6, RemoveHostEffect DEF Own, Deleted, names
  <2>7. CASE DoCreateHost(h)
    <3>1. /\ h \notin is.old /\ UNCHANGED <<answersTo, is.named>>
          /\ \/ h \in real.created /\ UNCHANGED etc
             \/ h \notin real.created /\ etc' = [etc EXCEPT ![h] = TemplateOf[h]]
      BY <1>0, <2>7, CreateHostEffect
    <3>2. etc' = etc
      BY <2>2, <3>1 DEF RunsAsPlanned, MachineType
    <3> QED
      BY <3>1, <3>2 DEF Own, Deleted
  <2>8. CASE DoName(h)
    <3>1. /\ h \in is.running /\ UNCHANGED answersTo /\ is'.named = is.named \cup {h}
          /\ \/ UNCHANGED etc
             \/ \E g \in Answering(Target(h)) : etc' = [etc EXCEPT ![g] = h]
      BY <2>8, NameEffect
    <3>2. ASSUME Own(k) PROVE Own(k)'
      <4>1. \A g \in Answering(Target(h)) : g = k => h = k
        BY <2>2, <3>2, OnlyUnnamedMislead DEF Own
      <4> QED
        BY <3>1, <3>2, <4>1 DEF Own, MachineType
    <3>3. ASSUME k \notin Drifted, Deleted(k) PROVE Deleted(k)'
      <4>1. k \notin is.running /\ k \notin real.running
        BY <2>2, <3>3 DEF NamedInTime, RunsAsPlanned, Steady
      <4>2. etc'[k] = etc[k] /\ h # k
        BY <3>1, <4>1 DEF Answering, MachineType
      <4> QED
        BY <3>1, <3>3, <4>2 DEF Deleted
    <3> QED
      BY <3>2, <3>3
  <2> QED
    BY <1>2, <2>3, <2>4, <2>5, <2>6, <2>7, <2>8 DEF HostOnly
<1> QED
  BY <1>1, <1>2, EveryStep

\* What the planner can be certain of only gets less.
LEMMA LessIsCertain ==
  ASSUME TypeOK, RealType, MachineType, StrayInv, [BuildNext]_vars, faults' = 0
  PROVE  /\ Certain' \subseteq Certain /\ is'.old = is.old
         /\ is'.new \cap (Hosts \cup Networks) = is.new \cap (Hosts \cup Networks)
         /\ \A h \in Hosts : Trusted(h)' => Trusted(h)
<1>1. [Next]_is
  BY StepIsPlanned
<1>2. /\ is'.old = is.old
      /\ is'.new \cap (Hosts \cup Networks) = is.new \cap (Hosts \cup Networks)
  BY <1>1, OldStays, NewStays
<1>3. \A h \in Hosts : Trusted(h)' => Trusted(h)
  BY <1>2, NamesAreKept DEF Trusted
<1>4. CertainHosts' \subseteq CertainHosts
  BY <1>3 DEF CertainHosts
<1>5. CertainInterfaces' \subseteq CertainInterfaces
  BY <1>2, <1>3, TestbedAssumption DEF CertainInterfaces
<1>6. CertainServices' \subseteq CertainServices
  BY <1>2, <1>5 DEF CertainServices, Together, Refused
<1> QED
  BY <1>2, <1>3, <1>4, <1>5, <1>6 DEF Certain

(***************************************************************************)
(* What a step has to do to keep the planner right                         *)
(***************************************************************************)

KeepsFaith ==
  \* What is certain stays, and what is new to the planner is there.
  /\ \A f \in Believed : (real[f] \cup (is'[f] \ is[f])) \cap Certain' \subseteq real'[f]
  \* Machines and VIFs come with all they need.
  /\ \A h \in Hosts \ is.old :
       h \in real'.created /\ (h \in real.created => h \in real.cpus \cap real.memory)
         => h \in real'.cpus \cap real'.memory
  /\ \A i \in Interfaces : i \in real'.created /\ (i \in real.created => Complete(i))
                             => Complete(i)'
  /\ \A i \in Interfaces :
       i \in (is'.created \cup real'.created) \ (is.created \cup real.created)
         => NetworkOf[i] \in real.created
  \* Only VIFs of machines without a name are forgotten.
  /\ \A i \in Interfaces \ is.old :
       Trusted(HostOf[i])' /\ i \in is.created \ is'.created => ~Own(HostOf[i])
  /\ Networks \cap (real.created \cup (is'.created \ is.created)) \subseteq real'.created
  /\ Networks \cap (real.configName \cup (is'.configName \ is.configName))
       \subseteq real'.configName

\* It is enough for the planner to stay right.
LEMMA FaithIsKept ==
  ASSUME TypeOK, RealType, MachineType, StrayInv, BeliefInv, [BuildNext]_vars, faults' = 0,
         KeepsFaith
  PROVE  BeliefInv'
<1>1. /\ faults = 0 /\ Certain' \subseteq Certain /\ is'.old = is.old
      /\ is'.new \cap (Hosts \cup Networks) = is.new \cap (Hosts \cup Networks)
      /\ \A h \in Hosts : Trusted(h)' => Trusted(h)
  BY NoFaultBefore, LessIsCertain
<1>2. /\ \A f \in Believed : is[f] \cap Certain \subseteq real[f]
      /\ NewAreComplete /\ ForgottenAreComplete /\ NetworksAreThere
  BY <1>1 DEF BeliefInv
<1>3. \A f \in Believed : is'[f] \cap Certain' \subseteq real'[f]
  BY <1>1, <1>2 DEF KeepsFaith
<1>4. ASSUME NEW h \in Hosts \ is.old, ~Own(h)'
      PROVE  /\ h \in is'.new
             /\ h \in real'.created =>
                  /\ h \in real'.cpus \cap real'.memory
                  /\ \A i \in InterfacesOf(h) \cap real'.created : Complete(i)'
  <2>1. ~Own(h)
    BY <1>4, NamesAreKept
  <2>2. /\ h \in is.new
        /\ h \in real.created =>
             /\ h \in real.cpus \cap real.memory
             /\ \A i \in InterfacesOf(h) \cap real.created : Complete(i)
    BY <1>2, <2>1 DEF NewAreComplete
  <2>3. \A i \in InterfacesOf(h) : i \in real.created => Complete(i)
    BY <2>2 DEF InterfacesOf, MachineType
  <2> QED
    BY <1>1, <2>2, <2>3 DEF KeepsFaith, InterfacesOf
<1>5. NewAreComplete'
  BY <1>1, <1>4 DEF NewAreComplete
<1>6. ASSUME NEW i \in Interfaces \ is.old, Trusted(HostOf[i])',
             i \in real'.created \ is'.created
      PROVE  Complete(i)'
  <2>1. HostOf[i] \in Hosts /\ Trusted(HostOf[i]) /\ HostOf[i] \notin is.old
    BY <1>1, <1>6, TestbedAssumption DEF Trusted
  <2>2. ASSUME i \in real.created PROVE Complete(i)
    <3>1. CASE i \in is.created
      <4>1. ~Own(HostOf[i])
        BY <1>6, <3>1 DEF KeepsFaith
      <4> QED
        BY <1>2, <2>1, <2>2, <4>1 DEF NewAreComplete, InterfacesOf, MachineType
    <3>2. CASE i \notin is.created
      BY <1>2, <2>1, <2>2, <3>2 DEF ForgottenAreComplete
    <3> QED
      BY <3>1, <3>2
  <2> QED
    BY <1>6, <2>2 DEF KeepsFaith
<1>7. ForgottenAreComplete'
  BY <1>1, <1>6 DEF ForgottenAreComplete
<1>8. NetworksAreThere'
  <2>1. Networks \ is'.new \subseteq real'.created
    BY <1>1, <1>2 DEF KeepsFaith, NetworksAreThere
  <2>2. /\ is'.created \cap Networks \subseteq real'.created
        /\ is'.configName \cap Networks \subseteq real'.configName
    BY <1>2 DEF KeepsFaith, NetworksAreThere
  <2>3. ASSUME NEW i \in Interfaces, HostOf[i] \in is'.new, i \in is'.created \cup real'.created
        PROVE  NetworkOf[i] \in real'.created
    <3>1. HostOf[i] \in is.new /\ NetworkOf[i] \in Networks
      BY <1>1, <2>3, TestbedAssumption
    <3>2. NetworkOf[i] \in real.created
      BY <1>2, <2>3, <3>1 DEF KeepsFaith, NetworksAreThere
    <3> QED
      BY <3>1, <3>2 DEF KeepsFaith
  <2> QED
    BY <2>1, <2>2, <2>3 DEF NetworksAreThere
<1> QED
  BY <1>3, <1>5, <1>7, <1>8 DEF BeliefInv

(***************************************************************************)
(* Every step keeps the planner right                                      *)
(***************************************************************************)

Ready ==
  /\ TypeOK /\ RealType /\ MachineType /\ StrayInv /\ BeliefInv
  /\ [BuildNext]_vars /\ faults' = 0

\* What every one of the following proofs starts from.
LEMMA FromReady ==
  ASSUME Ready
  PROVE  /\ TypeOK /\ RealType /\ MachineType /\ faults = 0 /\ ~Fails
         /\ Certain' \subseteq Certain /\ is'.old = is.old
         /\ \A f \in Believed : is[f] \cap Certain \subseteq real[f]
         /\ NewAreComplete /\ ForgottenAreComplete /\ NetworksAreThere
         /\ \A g \in Hosts : RunsAsPlanned(g)
         /\ waiting = Nobody => AllInTime
<1>1. faults = 0 /\ Certain' \subseteq Certain /\ is'.old = is.old
  BY NoFaultBefore, LessIsCertain DEF Ready
<1> QED
  BY <1>1 DEF Ready, Fails, BeliefInv, StrayInv, Vain

\* An object of a type is certain as one of this type.
LEMMA CertainOfType ==
  /\ Hosts \cap Certain = CertainHosts
  /\ Interfaces \cap Certain = CertainInterfaces
  /\ Services \cap Certain = CertainServices
  BY TypesAssumption
     DEF Certain, CertainHosts, CertainInterfaces, CertainServices

\* The fields a step may speak of.
LEMMA BelievedFields ==
  Believed = {"created", "cpus", "memory", "routing", "firewall", "network", "mtu", "rate",
              "interface", "dns", "dhcp", "configName"}
  BY DEF Believed, RealFields

\* If nothing is lost and no machine or VIF comes or is forgotten, what the
\* planner learns has to be true.
LEMMA GrowingIsFaithful ==
  ASSUME \A f \in Believed \ {"interface"} : real[f] \subseteq real'[f],
         (real.interface \ real'.interface) \cap Certain' = {},
         real'.created \cap (Hosts \cup Interfaces) \subseteq real.created,
         is'.created \cap Interfaces \subseteq is.created,
         (is.created \ is'.created) \cap (Interfaces \ is.old) = {},
         \A f \in Believed : (is'[f] \ is[f]) \cap (Certain' \cup Networks) \subseteq real'[f]
  PROVE  KeepsFaith
<1>1. /\ real.created \subseteq real'.created /\ real.cpus \subseteq real'.cpus
      /\ real.memory \subseteq real'.memory /\ real.network \subseteq real'.network
      /\ real.mtu \subseteq real'.mtu /\ real.rate \subseteq real'.rate
      /\ real.configName \subseteq real'.configName
      /\ (is'.created \ is.created) \cap Networks \subseteq real'.created
      /\ (is'.configName \ is.configName) \cap Networks \subseteq real'.configName
  BY DEF Believed, RealFields
<1>2. \A f \in Believed : (real[f] \cup (is'[f] \ is[f])) \cap Certain' \subseteq real'[f]
  OBVIOUS
<1>3. \A i \in Interfaces : i \in real'.created => i \in real.created
  OBVIOUS
<1>4. \A h \in Hosts : h \in real'.created => h \in real.created
  OBVIOUS
<1>5. \A i \in Interfaces : Complete(i) => Complete(i)'
  BY <1>1 DEF Complete
<1> QED
  BY <1>1, <1>2, <1>3, <1>4, <1>5 DEF KeepsFaith

\* Most steps are of this kind: the planner learns one thing of one object.
LEMMA LearningIsFaithful ==
  ASSUME Ready, NEW p \in Believed \ {"created"}, NEW x, NEW S,
         real' = real \/ real' = [real EXCEPT ![p] = @ \cup S],
         is' = [is EXCEPT ![p] = @ \cup {x}],
         x \in Certain' \cup Networks => x \in real'[p]
  PROVE  KeepsFaith
<1>1. TypeOK /\ RealType
  BY FromReady
<1>2. \A f \in Believed : real[f] \subseteq real'[f]
  BY <1>1 DEF RealType, Believed
<1>3. real'.created = real.created
  BY <1>1 DEF RealType, Believed, RealFields
<1>4. is'.created = is.created
  BY <1>1 DEF TypeOK
<1>5. \A f \in Believed : is'[f] \ is[f] \subseteq IF f = p THEN {x} ELSE {}
  BY <1>1, BelievedFields DEF TypeOK
<1>6. \A f \in Believed : (is'[f] \ is[f]) \cap (Certain' \cup Networks) \subseteq real'[f]
  BY <1>5
<1>7. real.interface \subseteq real'.interface
  BY <1>2, BelievedFields
<1> QED
  BY <1>2, <1>3, <1>4, <1>6, <1>7, GrowingIsFaithful

\* Ansible reaches the machine of a host that can be trusted.
LEMMA AnsibleReaches ==
  ASSUME Ready, waiting = Nobody, NEW h \in Hosts, h \in is.running, Trusted(h),
         NEW x, NEW r, Ansible(h, x, r)
  PROVE  real' = r
<1>1. Answering(Target(h)) = {h}
  BY FromReady, SteadyIsFound DEF Trusted, Steady
<1> QED
  BY <1>1 DEF Ansible

\* Xen sets what belongs to a halted machine, ansible the rest: both find
\* the machine of a host that is trusted.
LEMMA FaithInHost ==
  ASSUME Ready, NEW h \in Hosts,
         \/ DoConfigureCpus(h) \/ DoConfigureMemory(h) \/ DoConfigureFirewall(h)
         \/ h \in Routers /\ DoConfigureRouting(h)
  PROVE  KeepsFaith
<1>1. TypeOK /\ RealType /\ ~Fails /\ Certain' \subseteq Certain /\ h \notin Networks
  BY FromReady, TypesAssumption
<1>2. h \in Certain' => Trusted(h)
  BY <1>1, CertainOfType DEF CertainHosts
<1>3. CASE DoConfigureCpus(h) \/ DoConfigureMemory(h)
  <2>1. PICK p \in {"cpus", "memory"} :
          /\ real' = [real EXCEPT ![p] = @ \cup ({h} \cap Stopped)]
          /\ is' = [is EXCEPT ![p] = @ \cup {h}]
    BY <1>1, <1>3 DEF DoConfigureCpus, DoConfigureMemory, May, ConfigureCpus, ConfigureMemory,
       XenOnly, Xen
  <2>2. h \in is.created /\ h \notin is.running
    BY <1>3 DEF DoConfigureCpus, DoConfigureMemory, May, ConfigureCpus, ConfigureMemory
  <2>3. Trusted(h) => h \in Stopped
    BY <2>2, FromReady DEF RunsAsPlanned, Trusted, Steady, Stopped
  <2>4. Trusted(h) => h \in real'[p]
    BY <1>1, <2>1, <2>3 DEF RealType, RealFields
  <2>5. p \in Believed \ {"created"}
    BY BelievedFields
  <2> QED
    BY <1>1, <1>2, <2>1, <2>4, <2>5, LearningIsFaithful
<1>4. CASE DoConfigureFirewall(h) \/ (h \in Routers /\ DoConfigureRouting(h))
  <2>1. PICK p \in {"firewall", "routing"} :
          /\ Ansible(h, h, [real EXCEPT ![p] = @ \cup {h}])
          /\ is' = [is EXCEPT ![p] = @ \cup {h}]
    BY <1>4 DEF DoConfigureFirewall, DoConfigureRouting, May, ConfigureFirewall,
       ConfigureRouting
  <2>2. h \in is.running /\ waiting = Nobody
    BY <1>4 DEF DoConfigureFirewall, DoConfigureRouting, May, ConfigureFirewall,
       ConfigureRouting
  <2>3. real' = real \/ real' = [real EXCEPT ![p] = @ \cup {h}]
    BY <2>1, AnsibleBystander
  <2>4. Trusted(h) => h \in real'[p]
    <3> SUFFICES ASSUME Trusted(h) PROVE h \in real'[p]
      OBVIOUS
    <3>1. real' = [real EXCEPT ![p] = @ \cup {h}]
      BY <2>1, <2>2, AnsibleReaches
    <3> QED
      BY <1>1, <3>1 DEF RealType, RealFields
  <2>5. p \in Believed \ {"created"}
    BY BelievedFields
  <2> QED
    BY <1>1, <1>2, <2>1, <2>3, <2>4, <2>5, LearningIsFaithful
<1> QED
  BY <1>3, <1>4

\* What the planner can be certain of an interface for.
LEMMA CertainInterface ==
  ASSUME Ready, NEW i \in Interfaces, i \in Certain'
  PROVE  /\ i \notin is.old /\ HostOf[i] \in Hosts /\ Trusted(HostOf[i])
         /\ NetworkOf[i] \in is.new => HostOf[i] \in is.new
         /\ i \in is.created => i \in real.created
<1>1. i \in CertainInterfaces
  BY FromReady, CertainOfType
<1>2. i \in is.created \cap Certain => i \in real.created
  BY FromReady, BelievedFields
<1> QED
  BY <1>1, <1>2, FromReady, TestbedAssumption DEF CertainInterfaces

\* The same of interfaces.  The one that loses its configuration is old.
LEMMA FaithInInterface ==
  ASSUME Ready, NEW i \in Interfaces,
         \/ DoConfigureMtu(i) \/ DoConfigureRate(i) \/ DoConfigureInterface(i)
         \/ DoUnconfigureInterface(i) \/ DoRemoveInterface(i)
  PROVE  KeepsFaith
<1>1. TypeOK /\ RealType /\ ~Fails /\ i \notin Networks /\ HostOf[i] \in Hosts
  BY FromReady, TypesAssumption, TestbedAssumption
<1>2. CASE DoConfigureMtu(i) \/ DoConfigureRate(i)
  <2>1. PICK p \in {"mtu", "rate"} :
          /\ real' = [real EXCEPT ![p] = @ \cup ({i} \cap real.created)]
          /\ is' = [is EXCEPT ![p] = @ \cup {i}]
    BY <1>1, <1>2 DEF DoConfigureMtu, DoConfigureRate, May, ConfigureMtu, ConfigureRate,
       XenOnly, Xen
  <2>2. i \in is.created
    BY <1>2 DEF DoConfigureMtu, DoConfigureRate, May, ConfigureMtu, ConfigureRate
  <2>3. i \in Certain' => i \in real.created
    BY <2>2, CertainInterface
  <2>4. i \in Certain' => i \in real'[p]
    BY <1>1, <2>1, <2>3 DEF RealType, RealFields
  <2>5. p \in Believed \ {"created"}
    BY BelievedFields
  <2> QED
    BY <1>1, <2>1, <2>4, <2>5, LearningIsFaithful
<1>3. CASE DoConfigureInterface(i)
  <2>1. /\ Ansible(HostOf[i], i, [real EXCEPT !.interface = @ \cup {i}])
        /\ is' = [is EXCEPT !.interface = @ \cup {i}]
        /\ HostOf[i] \in is.running /\ waiting = Nobody
    BY <1>3 DEF DoConfigureInterface, May, ConfigureInterface
  <2>2. real' = real \/ real' = [real EXCEPT !.interface = @ \cup {i}]
    BY <1>1, <2>1, AnsibleBystander
  <2>3. i \in Certain' => i \in real'.interface
    <3> SUFFICES ASSUME i \in Certain' PROVE i \in real'.interface
      OBVIOUS
    <3>1. real' = [real EXCEPT !.interface = @ \cup {i}]
      BY <1>1, <2>1, CertainInterface, AnsibleReaches
    <3> QED
      BY <1>1, <3>1 DEF RealType, RealFields
  <2>4. "interface" \in Believed \ {"created"}
    BY BelievedFields
  <2> QED
    BY <1>1, <2>1, <2>2, <2>3, <2>4, LearningIsFaithful
<1>4. CASE DoUnconfigureInterface(i)
  <2>1. /\ is' = [is EXCEPT !.interface = @ \ {i}] /\ i \in is.old
        /\ real' = real \/ real' = [real EXCEPT !.interface = @ \ {i}]
    BY <1>1, <1>4, AnsibleBystander DEF DoUnconfigureInterface, May, UnconfigureInterface
  <2>2. \A f \in Believed \ {"interface"} : real'[f] = real[f]
    BY <1>1, <2>1 DEF RealType, Believed
  <2>3. real.interface \ real'.interface \subseteq {i}
    BY <1>1, <2>1 DEF RealType, RealFields
  <2>4. i \notin Certain'
    BY <2>1, CertainInterface
  <2>5. is'.created = is.created /\ \A f \in Believed : is'[f] \ is[f] = {}
    BY <1>1, <2>1, BelievedFields DEF TypeOK
  <2>6. real'.created = real.created
    BY <2>2, BelievedFields
  <2> QED
    BY <2>2, <2>3, <2>4, <2>5, <2>6, GrowingIsFaithful
<1>5. CASE DoRemoveInterface(i)
  <2>1. /\ real' = real /\ i \in is.old
        /\ is' = [is EXCEPT !.created = @ \ {i}, !.mtu = @ \ {i},
                            !.rate = @ \ {i}, !.network = @ \ {i}]
    BY <1>1, <1>5 DEF DoRemoveInterface, May, RemoveInterface, Nothing, XenOnly, Xen
  <2>2. is'.created = is.created \ {i}
    BY <1>1, <2>1 DEF TypeOK
  <2>3. \A f \in Believed : is'[f] \ is[f] = {}
    BY <1>1, <2>1, BelievedFields DEF TypeOK
  <2> QED
    BY <2>1, <2>2, <2>3, GrowingIsFaithful
<1> QED
  BY <1>2, <1>3, <1>4, <1>5

\* Starting, stopping and naming changes nothing the planner believes.
LEMMA FaithInMachine ==
  ASSUME Ready,
         \/ \E h \in Hosts : \/ DoBoot(h) \/ DoBootAndNamed(h) \/ DoBootUnnamed(h)
                             \/ DoRebootAndNamed(h) \/ DoShutdown(h) \/ DoName(h)
         \/ WaitForBoot \/ UNCHANGED vars
  PROVE  KeepsFaith
<1>1. TypeOK /\ RealType
  BY FromReady
<1>2. \A f \in Believed : real'[f] = real[f]
  <2>1. \/ UNCHANGED real
        \/ \E S : real' = [real EXCEPT !.running = S]
    BY DEF DoBoot, DoBootAndNamed, DoBootUnnamed, DoRebootAndNamed, DoShutdown, DoName, BootIt,
       Starts, StartsNot, XenOnly, Xen, WaitForBoot, vars
  <2> QED
    BY <1>1, <2>1 DEF RealType, Believed
<1>3. \A f \in Believed : is'[f] = is[f]
  <2>1. CASE \E h \in Hosts : \/ DoBoot(h) \/ DoBootAndNamed(h) \/ DoBootUnnamed(h)
                              \/ DoRebootAndNamed(h) \/ DoShutdown(h) \/ DoName(h)
    BY <1>1, <2>1, BelievedFields DEF TypeOK, DoBoot, DoBootAndNamed, DoBootUnnamed,
       DoRebootAndNamed, DoShutdown, DoName, May, Boot, BootAndNamed, BootUnnamed,
       RebootAndNamed, Shutdown, Name
  <2>2. CASE WaitForBoot \/ UNCHANGED vars
    BY <2>2 DEF WaitForBoot, vars
  <2> QED
    BY <2>1, <2>2
<1>4. real'.created = real.created /\ is'.created = is.created
      /\ real'.interface = real.interface
  BY <1>2, <1>3, BelievedFields
<1> QED
  BY <1>2, <1>3, <1>4, GrowingIsFaithful

\* Networks, disks and the names of configurations.
LEMMA FaithInOther ==
  ASSUME Ready,
         \/ \E n \in Networks : DoCreateNetwork(n) \/ DoRemoveNetwork(n)
         \/ \E d \in Disks : DoAddDisk(d) \/ DoRemoveDisk(d)
         \/ \E x \in Hosts \cup Networks \cup Disks : DoAddConfigName(x)
  PROVE  KeepsFaith
<1>1. TypeOK /\ RealType /\ ~Fails
  BY FromReady
<1>2. ASSUME NEW n \in Networks, DoCreateNetwork(n) \/ DoRemoveNetwork(n) PROVE KeepsFaith
  <2>1. n \notin Hosts \cup Interfaces
    BY TypesAssumption
  <2>2. CASE DoCreateNetwork(n)
    <3>1. /\ real' = [real EXCEPT !.created = @ \cup {n}]
          /\ is' = [is EXCEPT !.created = @ \cup {n}]
      BY <1>1, <2>2 DEF DoCreateNetwork, May, CreateNetwork, XenOnly, Xen
    <3>2. real'.created = real.created \cup {n}
      BY <1>1, <3>1 DEF RealType, RealFields
    <3>3. is'.created = is.created \cup {n}
      BY <1>1, <3>1 DEF TypeOK
    <3>4. \A f \in Believed : real[f] \subseteq real'[f]
      BY <1>1, <3>1 DEF RealType, Believed
    <3>5. \A f \in Believed : is'[f] \ is[f] \subseteq IF f = "created" THEN {n} ELSE {}
      BY <1>1, <3>1, BelievedFields DEF TypeOK
    <3>6. \A f \in Believed : (is'[f] \ is[f]) \cap (Certain' \cup Networks) \subseteq real'[f]
      BY <3>2, <3>5
    <3>7. real.interface \subseteq real'.interface
      BY <3>4, BelievedFields
    <3> QED
      BY <2>1, <3>2, <3>3, <3>4, <3>6, <3>7, GrowingIsFaithful
  <2>3. CASE DoRemoveNetwork(n)
    <3>1. real' = real /\ is' = [is EXCEPT !.created = @ \ {n}]
      BY <1>1, <2>3 DEF DoRemoveNetwork, May, RemoveNetwork, Nothing, XenOnly, Xen
    <3>2. is'.created = is.created \ {n}
      BY <1>1, <3>1 DEF TypeOK
    <3>3. \A f \in Believed : is'[f] \ is[f] = {}
      BY <1>1, <3>1, BelievedFields DEF TypeOK
    <3> QED
      BY <2>1, <3>1, <3>2, <3>3, GrowingIsFaithful
  <2> QED
    BY <1>2, <2>2, <2>3
<1>3. ASSUME NEW d \in Disks, DoAddDisk(d) \/ DoRemoveDisk(d) PROVE KeepsFaith
  <2>1. /\ real' = real \/ \E S : real' = [real EXCEPT !.attached = S]
        /\ \E S : is' = [is EXCEPT !.attached = S]
    BY <1>1, <1>3 DEF DoAddDisk, DoRemoveDisk, May, AddDisk, RemoveDisk, Nothing, XenOnly, Xen
  <2>2. \A f \in Believed : real'[f] = real[f]
    BY <1>1, <2>1 DEF RealType, Believed
  <2>3. \A f \in Believed : is'[f] = is[f]
    BY <1>1, <2>1, BelievedFields DEF TypeOK
  <2>4. real'.created = real.created /\ is'.created = is.created
        /\ real'.interface = real.interface
    BY <2>2, <2>3, BelievedFields
  <2> QED
    BY <2>2, <2>3, <2>4, GrowingIsFaithful
<1>4. ASSUME NEW x \in Hosts \cup Networks \cup Disks, DoAddConfigName(x) PROVE KeepsFaith
  <2> DEFINE S == IF x \in real.created
                  THEN {x} \cup {d \in DefaultDisks : DiskOf[d] = x} ELSE {}
  <2>1. /\ real' = [real EXCEPT !.configName = @ \cup S] /\ x \in is.created
        /\ is' = [is EXCEPT !.configName = @ \cup {x}]
    BY <1>1, <1>4 DEF DoAddConfigName, May, AddConfigName, XenOnly, Xen
  <2>2. x \in Certain' \cup Networks => x \in real.created
    <3>1. x \in Certain' => x \in real.created
      BY <2>1, FromReady, BelievedFields
    <3>2. x \in Networks => x \in real.created
      BY <2>1, FromReady DEF NetworksAreThere
    <3> QED
      BY <3>1, <3>2
  <2>3. x \in Certain' \cup Networks => x \in real'.configName
    BY <1>1, <2>1, <2>2 DEF RealType, RealFields
  <2>4. "configName" \in Believed \ {"created"}
    BY BelievedFields
  <2> HIDE DEF S
  <2> QED
    BY <2>1, <2>3, <2>4, LearningIsFaithful
<1> QED
  BY <1>2, <1>3, <1>4

\* Services come together; of those that dnsmasq refuses none is certain.
LEMMA FaithInService ==
  ASSUME Ready,
         (\E s \in Dns : DoConfigureDns(s)) \/ (\E s \in Dhcp : DoConfigureDhcp(s))
  PROVE  KeepsFaith
<1>1. TypeOK /\ RealType /\ ~Fails
  BY FromReady
<1>2. PICK s \in Services :
        /\ Dnsmasq(s) /\ waiting = Nobody /\ HostOf[InterfaceOf[s]] \in is.running
        /\ (s \in Dns /\ ConfigureDns(s)) \/ (s \in Dhcp /\ ConfigureDhcp(s))
  BY DEF DoConfigureDns, DoConfigureDhcp, Services, May, ConfigureDns, ConfigureDhcp, ServedBy
<1> DEFINE h == HostOf[InterfaceOf[s]]
<1>3. InterfaceOf[s] \in Interfaces /\ h \in Hosts /\ s \notin Networks \cup Hosts \cup Interfaces
  BY TestbedAssumption, TypesAssumption
<1>4. /\ Together(s) \subseteq Services /\ Together(s) \cap (Hosts \cup Interfaces) = {}
      /\ Served(s).created = real.created \cup Together(s)
      /\ Served(s).dns = real.dns \cup (Together(s) \cap Dns)
      /\ Served(s).dhcp = real.dhcp \cup (Together(s) \cap Dhcp)
      /\ \A f \in RealFields \ {"created", "dns", "dhcp"} : Served(s)[f] = real[f]
  BY ServedFields, <1>1
<1>5. /\ \A f \in RealFields : real[f] \subseteq Served(s)[f]
      /\ Served(s).interface = real.interface
  BY <1>4 DEF RealFields
<1>6. /\ real' = real \/ real' = Served(s)
      /\ s \in Certain' => real' = Served(s) /\ s \in Together(s)
  <2>1. CASE Refused(Together(s))
    <3>1. s \notin CertainServices
      BY <2>1 DEF CertainServices
    <3>2. s \notin Certain'
      BY <3>1, FromReady, CertainOfType
    <3> QED
      BY <1>1, <1>2, <2>1, <3>2 DEF Dnsmasq, Nothing, XenOnly, Xen
  <2>2. CASE ~Refused(Together(s))
    <3>1. Ansible(h, s, Served(s))
      BY <1>2, <2>2 DEF Dnsmasq, Served
    <3>2. real' = real \/ real' = Served(s)
      BY <1>3, <3>1, AnsibleBystander
    <3>3. ASSUME s \in Certain' PROVE real' = Served(s) /\ s \in Together(s)
      <4>1. s \in CertainServices
        BY <3>3, FromReady, CertainOfType
      <4>2. Trusted(h) /\ s \notin is.old
        BY <4>1 DEF CertainServices, CertainInterfaces
      <4>3. s \in Together(s)
        BY <4>2 DEF Together, ServicesOf
      <4> QED
        BY <1>2, <1>3, <3>1, <4>2, <4>3, AnsibleReaches
    <3> QED
      BY <3>2, <3>3
  <2> QED
    BY <2>1, <2>2
<1>7. /\ is'.created = is.created \cup {s}
      /\ is'.dns \subseteq is.dns \cup ({s} \cap Dns)
      /\ is'.dhcp \subseteq is.dhcp \cup ({s} \cap Dhcp)
      /\ \A f \in Believed \ {"created", "dns", "dhcp"} : is'[f] = is[f]
  <2>1. CASE s \in Dns /\ ConfigureDns(s)
    BY <1>1, <2>1, BelievedFields DEF TypeOK, ConfigureDns
  <2>2. CASE s \in Dhcp /\ ConfigureDhcp(s)
    BY <1>1, <2>2, BelievedFields DEF TypeOK, ConfigureDhcp
  <2> QED
    BY <1>2, <2>1, <2>2
<1> HIDE DEF h
<1>8. ASSUME NEW f \in Believed
      PROVE  (is'[f] \ is[f]) \cap (Certain' \cup Networks) \subseteq real'[f]
  <2>1. is'[f] \ is[f] \subseteq
          IF f = "created" THEN {s} ELSE IF f = "dns" THEN {s} \cap Dns
          ELSE IF f = "dhcp" THEN {s} \cap Dhcp ELSE {}
    BY <1>7
  <2>2. s \in Certain' => /\ s \in real'.created
                          /\ s \in Dns => s \in real'.dns
                          /\ s \in Dhcp => s \in real'.dhcp
    BY <1>4, <1>6
  <2>3. \A y \in (is'[f] \ is[f]) \cap (Certain' \cup Networks) :
          y = s /\ f \in {"created", "dns", "dhcp"} /\ y \in Certain'
    BY <1>3, <2>1
  <2>4. s \in is'[f] \ is[f] =>
          (f = "dns" => s \in Dns) /\ (f = "dhcp" => s \in Dhcp)
    BY <2>1
  <2> QED
    BY <2>2, <2>3, <2>4
<1>9. /\ \A f \in Believed : real[f] \subseteq real'[f]
      /\ real.interface \subseteq real'.interface
      /\ real'.created \cap (Hosts \cup Interfaces) \subseteq real.created
  BY <1>4, <1>5, <1>6 DEF Believed
<1> QED
  BY <1>3, <1>7, <1>8, <1>9, GrowingIsFaithful

\* A VIF with all that belongs to it.
LEMMA VifFields ==
  ASSUME NEW r \in Records, NEW i \in Interfaces,
         HostOf[i] \in r.created, NetworkOf[i] \in r.created, i \notin r.created
  PROVE  \A f \in RealFields :
           WithVif(r, i)[f] =
             IF f \in {"created", "network", "mtu", "rate"} THEN r[f] \cup {i} ELSE r[f]
<1> DEFINE v1 == [r EXCEPT !.created = @ \cup {i}]
           v2 == [v1 EXCEPT !.network = @ \cup {i}]
           v3 == [v2 EXCEPT !.mtu = @ \cup {i}]
           v4 == [v3 EXCEPT !.rate = @ \cup {i}]
<1>1. WithVif(r, i) = v4
  BY DEF WithVif
<1>2. {i} \subseteq Objects /\ {"created", "network", "mtu", "rate"} \subseteq RealFields
  BY DEF Objects, RealFields
<1>3. v1 \in Records
      /\ \A f \in RealFields : v1[f] = IF f = "created" THEN r[f] \cup {i} ELSE r[f]
  BY <1>2 DEF Records
<1> HIDE DEF v1
<1>4. v2 \in Records
      /\ \A f \in RealFields : v2[f] = IF f = "network" THEN v1[f] \cup {i} ELSE v1[f]
  BY <1>2, <1>3 DEF Records
<1> HIDE DEF v2
<1>5. v3 \in Records
      /\ \A f \in RealFields : v3[f] = IF f = "mtu" THEN v2[f] \cup {i} ELSE v2[f]
  BY <1>2, <1>4 DEF Records
<1> HIDE DEF v3
<1>6. v4 \in Records
      /\ \A f \in RealFields : v4[f] = IF f = "rate" THEN v3[f] \cup {i} ELSE v3[f]
  BY <1>2, <1>5 DEF Records
<1> HIDE DEF v4
<1> QED
  BY <1>1, <1>3, <1>4, <1>5, <1>6

\* A VIF is created with all that belongs to it, now or before the planner
\* forgot it.
LEMMA FaithInNewVif ==
  ASSUME Ready, NEW i \in Interfaces, DoCreateInterface(i)
  PROVE  KeepsFaith
<1>1. /\ TypeOK /\ RealType /\ ~Fails /\ i \notin Networks \cup Hosts
      /\ HostOf[i] \in Hosts /\ NetworkOf[i] \in Networks
  BY FromReady, TypesAssumption, TestbedAssumption
<1>2. /\ real' = WithVif(real, i) /\ i \notin is.created
      /\ HostOf[i] \in is.created /\ NetworkOf[i] \in is.created
      /\ is' = [is EXCEPT !.created = @ \cup {i}, !.network = @ \cup {i},
                          !.mtu = @ \cup {i}, !.rate = @ \cup {i}]
  BY <1>1 DEF DoCreateInterface, May, CreateInterface, XenOnly, Xen
<1>3. HostOf[i] \in real.created /\ NetworkOf[i] \in real.created
  BY <1>1, <1>2, FromReady DEF RunsAsPlanned, NetworksAreThere
<1>4. /\ is'.created = is.created \cup {i}
      /\ \A f \in Believed : is'[f] \ is[f] \subseteq
           IF f \in {"created", "network", "mtu", "rate"} THEN {i} ELSE {}
  BY <1>1, <1>2, BelievedFields DEF TypeOK
<1>5. CASE i \in real.created
  <2>1. real' = real
    BY <1>2, <1>5 DEF WithVif
  <2>2. i \in Certain' => Complete(i)
    BY <1>2, <1>5, CertainInterface, FromReady DEF ForgottenAreComplete
  <2>3. \A f \in Believed : (is'[f] \ is[f]) \cap (Certain' \cup Networks) \subseteq real'[f]
    BY <1>1, <1>4, <1>5, <2>1, <2>2 DEF Complete
  <2>4. \A f \in Believed : (real[f] \cup (is'[f] \ is[f])) \cap Certain' \subseteq real'[f]
    BY <2>1, <2>3
  <2>5. /\ (is'.created \ is.created) \cap Networks \subseteq real'.created
        /\ (is'.configName \ is.configName) \cap Networks \subseteq real'.configName
    BY <2>3, BelievedFields
  <2>6. Complete(i)' <=> Complete(i)
    BY <2>1 DEF Complete
  <2>7. \A j \in Interfaces : j \in real.created /\ Complete(j) => Complete(j)'
    BY <2>1 DEF Complete
  <2>8. is.created \ is'.created = {} /\ (is'.created \cup real'.created)
          \ (is.created \cup real.created) = {}
    BY <1>4, <1>5, <2>1
  <2> QED
    BY <2>1, <2>4, <2>5, <2>7, <2>8 DEF KeepsFaith
<1>6. CASE i \notin real.created
  <2>1. \A f \in RealFields :
          real'[f] = IF f \in {"created", "network", "mtu", "rate"} THEN real[f] \cup {i}
                     ELSE real[f]
    BY <1>1, <1>2, <1>3, <1>6, VifFields DEF RealType, Records
  <2>2. /\ real'.created = real.created \cup {i} /\ real'.network = real.network \cup {i}
        /\ real'.mtu = real.mtu \cup {i} /\ real'.rate = real.rate \cup {i}
        /\ real'.cpus = real.cpus /\ real'.memory = real.memory
        /\ real'.configName = real.configName
    BY <2>1 DEF RealFields
  <2>3. \A f \in Believed : real[f] \cup (is'[f] \ is[f]) \subseteq real'[f]
    BY <1>4, <2>1 DEF Believed
  <2>4. /\ is'.created \ is.created \subseteq real'.created
        /\ is'.configName \ is.configName \subseteq real'.configName
    BY <2>3, BelievedFields
  <2>5. \A j \in Interfaces :
          j \in real'.created /\ (j \in real.created => Complete(j)) => Complete(j)'
    BY <2>2 DEF Complete
  <2>6. (is'.created \cup real'.created) \ (is.created \cup real.created) \subseteq {i}
    BY <1>4, <2>2
  <2>7. is.created \ is'.created = {}
    BY <1>4
  <2>8. \A h \in Hosts : h \in real'.created => h \in real.created
    BY <1>1, <2>2
  <2> QED
    BY <1>3, <2>2, <2>3, <2>4, <2>5, <2>6, <2>7, <2>8 DEF KeepsFaith
<1> QED
  BY <1>5, <1>6

\* A VIF that is moved comes back with all that belongs to it, or not at all.
LEMMA FaithInMove ==
  ASSUME Ready, NEW i \in Interfaces, DoConfigureNetwork(i)
  PROVE  KeepsFaith
<1> DEFINE without == WithoutVif(real, i)
           moves == HostOf[i] \in real.created /\ NetworkOf[i] \in real.created
           vif == {"created", "network", "mtu", "rate"}
<1>1. /\ TypeOK /\ RealType /\ MachineType /\ ~Fails /\ i \notin Networks \cup Hosts
      /\ HostOf[i] \in Hosts /\ NetworkOf[i] \in Networks
  BY FromReady, TypesAssumption, TestbedAssumption
<1>2. /\ real' = WithVif(without, i) /\ i \in is.created
      /\ is' = [is EXCEPT !.network = @ \cup {i}]
  BY <1>1 DEF DoConfigureNetwork, May, ConfigureNetwork, XenOnly, Xen
<1>3. /\ without \in Records
      /\ \A f \in RealFields : without[f] = IF f \in vif THEN real[f] \ {i} ELSE real[f]
  BY <1>1 DEF WithoutVif, RealType, Records
<1> HIDE DEF without
<1>4. without.created = real.created \ {i}
  BY <1>3 DEF RealFields
<1>5. /\ is'.created = is.created /\ is'.configName = is.configName
      /\ \A f \in Believed : is'[f] \ is[f] \subseteq IF f = "network" THEN {i} ELSE {}
  BY <1>1, <1>2, BelievedFields DEF TypeOK
<1>6. CASE moves
  <2>1. \A f \in RealFields : real'[f] = IF f \in vif THEN real[f] \cup {i} ELSE real[f]
    <3>1. \A f \in RealFields :
            WithVif(without, i)[f] = IF f \in vif THEN without[f] \cup {i} ELSE without[f]
      BY <1>1, <1>3, <1>4, <1>6, VifFields
    <3> QED
      BY <1>2, <1>3, <3>1
  <2>2. /\ real'.created = real.created \cup {i} /\ real'.network = real.network \cup {i}
        /\ real'.mtu = real.mtu \cup {i} /\ real'.rate = real.rate \cup {i}
        /\ real'.cpus = real.cpus /\ real'.memory = real.memory
        /\ real'.configName = real.configName
    BY <2>1 DEF RealFields
  <2>3. \A f \in Believed : real[f] \cup (is'[f] \ is[f]) \subseteq real'[f]
    BY <1>5, <2>1 DEF Believed
  <2>4. \A j \in Interfaces :
          j \in real'.created /\ (j \in real.created => Complete(j)) => Complete(j)'
    BY <2>2 DEF Complete
  <2>5. (is'.created \cup real'.created) \ (is.created \cup real.created) \subseteq {i}
    BY <1>5, <2>2
  <2>6. \A h \in Hosts : h \in real'.created => h \in real.created
    BY <1>1, <2>2
  <2> QED
    BY <1>5, <1>6, <2>2, <2>3, <2>4, <2>5, <2>6 DEF KeepsFaith
<1>7. CASE ~moves
  <2>1. real' = without
    BY <1>1, <1>2, <1>4, <1>7 DEF WithVif
  <2>2. /\ real'.created = real.created \ {i} /\ real'.network = real.network \ {i}
        /\ real'.mtu = real.mtu \ {i} /\ real'.rate = real.rate \ {i}
        /\ real'.cpus = real.cpus /\ real'.memory = real.memory
        /\ real'.configName = real.configName
    BY <1>3, <2>1 DEF RealFields
  <2>3. i \notin Certain'
    <3> SUFFICES ASSUME i \in Certain' PROVE moves
      BY <1>7
    <3>1. i \in real.created
      BY <1>2, CertainInterface
    <3>2. HostOf[i] \in real.created
      BY <1>1, <3>1 DEF MachineType
    <3>3. NetworkOf[i] \notin is.new \/ HostOf[i] \in is.new
      BY CertainInterface
    <3> QED
      BY <1>1, <1>2, <3>2, <3>3, FromReady DEF NetworksAreThere
  <2>4. \A f \in Believed : (real[f] \cup (is'[f] \ is[f])) \ {i} \subseteq real'[f]
    BY <1>3, <1>5, <2>1 DEF Believed
  <2>5. \A f \in Believed : (real[f] \cup (is'[f] \ is[f])) \cap Certain' \subseteq real'[f]
    BY <2>3, <2>4
  <2>6. \A j \in Interfaces :
          j \in real'.created /\ (j \in real.created => Complete(j)) => Complete(j)'
    BY <2>2 DEF Complete
  <2>7. /\ Networks \cap real.created \subseteq real'.created
        /\ (is'.created \cup real'.created) \ (is.created \cup real.created) = {}
        /\ is'.created \ is.created = {} /\ is.created \ is'.created = {}
    BY <1>1, <1>5, <2>2
  <2>8. \A h \in Hosts : h \in real'.created => h \in real.created
    BY <2>2
  <2> QED
    BY <1>5, <2>2, <2>5, <2>6, <2>7, <2>8 DEF KeepsFaith
<1> QED
  BY <1>6, <1>7

\* A machine comes with the cpus and the memory it should have; one that is
\* there though the planner does not know of it came with them.
LEMMA FaithInNewHost ==
  ASSUME Ready, NEW h \in Hosts, DoCreateHost(h)
  PROVE  KeepsFaith
<1>1. TypeOK /\ RealType /\ MachineType /\ ~Fails /\ h \notin Networks \cup Interfaces
  BY FromReady, TypesAssumption
<1>2. /\ h \notin is.created /\ h \notin is.old
      /\ is' = [is EXCEPT !.created = @ \cup {h}, !.cpus = @ \cup {h}, !.memory = @ \cup {h}]
  BY DEF DoCreateHost, May, CreateHost
<1>3. /\ is'.created = is.created \cup {h}
      /\ \A f \in Believed : is'[f] \ is[f] \subseteq
           IF f \in {"created", "cpus", "memory"} THEN {h} ELSE {}
  BY <1>1, <1>2, BelievedFields DEF TypeOK
<1>4. CASE h \in real.created
  <2>1. real' = real
    BY <1>1, <1>4 DEF DoCreateHost, Nothing, XenOnly, Xen
  <2>2. h \in Certain' => h \in real.cpus \cap real.memory
    <3> SUFFICES ASSUME h \in Certain' PROVE h \in real.cpus \cap real.memory
      OBVIOUS
    <3>1. Trusted(h)
      BY FromReady, CertainOfType DEF CertainHosts
    <3>2. h \notin is.named
      BY <1>2, FromReady DEF RunsAsPlanned
    <3>3. ~Own(h)
      BY <3>1, <3>2 DEF Trusted, Deleted, Own
    <3> QED
      BY <1>2, <1>4, <3>3, FromReady DEF NewAreComplete
  <2>3. \A f \in Believed : (is'[f] \ is[f]) \cap (Certain' \cup Networks) \subseteq real'[f]
    BY <1>1, <1>3, <1>4, <2>1, <2>2
  <2> QED
    BY <1>1, <1>3, <2>1, <2>3, GrowingIsFaithful
<1>5. CASE h \notin real.created
  <2> DEFINE disks == {d \in DefaultDisks : DiskOf[d] = h}
             c1 == [real EXCEPT !.created = @ \cup {h}]
             c2 == [c1 EXCEPT !.attached = @ \cup disks]
             c3 == [c2 EXCEPT !.cpus = @ \cup {h}]
             c4 == [c3 EXCEPT !.memory = @ \cup {h}]
  <2>1. real' = c4
    BY <1>1, <1>5 DEF DoCreateHost
  <2>2. /\ real \in Records /\ {h} \subseteq Objects /\ disks \subseteq Objects
        /\ {"created", "attached", "cpus", "memory"} \subseteq RealFields
    BY <1>1, TestbedAssumption DEF RealType, Records, RealFields, Objects
  <2> HIDE DEF disks
  <2>3. c1 \in Records
        /\ \A f \in RealFields : c1[f] = IF f = "created" THEN real[f] \cup {h} ELSE real[f]
    BY <2>2 DEF Records
  <2> HIDE DEF c1
  <2>4. c2 \in Records /\ \A f \in RealFields \ {"attached"} : c2[f] = c1[f]
    BY <2>2, <2>3 DEF Records
  <2> HIDE DEF c2
  <2>5. c3 \in Records
        /\ \A f \in RealFields : c3[f] = IF f = "cpus" THEN c2[f] \cup {h} ELSE c2[f]
    BY <2>2, <2>4 DEF Records
  <2> HIDE DEF c3
  <2>6. c4 \in Records
        /\ \A f \in RealFields : c4[f] = IF f = "memory" THEN c3[f] \cup {h} ELSE c3[f]
    BY <2>2, <2>5 DEF Records
  <2> HIDE DEF c4
  <2>7. \A f \in Believed :
          real'[f] = IF f \in {"created", "cpus", "memory"} THEN real[f] \cup {h} ELSE real[f]
    BY <2>1, <2>3, <2>4, <2>5, <2>6 DEF Believed
  <2>8. /\ real'.created = real.created \cup {h} /\ real'.cpus = real.cpus \cup {h}
        /\ real'.memory = real.memory \cup {h} /\ real'.network = real.network
        /\ real'.mtu = real.mtu /\ real'.rate = real.rate
        /\ real'.configName = real.configName
    BY <2>7, BelievedFields
  <2>9. \A f \in Believed : real[f] \cup (is'[f] \ is[f]) \subseteq real'[f]
    BY <1>3, <2>7
  <2>10. /\ is'.created \ is.created \subseteq real'.created
         /\ is'.configName \ is.configName \subseteq real'.configName
    BY <2>9, BelievedFields
  <2>11. \A i \in Interfaces : (i \in real'.created => i \in real.created)
                               /\ (Complete(i)' <=> Complete(i))
    BY <1>1, <2>8 DEF Complete
  <2>12. \A i \in Interfaces : i \notin (is'.created \cup real'.created)
                                          \ (is.created \cup real.created)
    BY <1>1, <1>3, <2>8
  <2>13. is.created \ is'.created = {}
    BY <1>3
  <2> QED
    BY <2>8, <2>9, <2>10, <2>11, <2>12, <2>13 DEF KeepsFaith
<1> QED
  BY <1>4, <1>5

\* The planner forgets the VIFs of a machine only with the machine, and then
\* trusts it no more if it has its name.
LEMMA FaithInGoneHost ==
  ASSUME Ready, NEW h \in Hosts, DoDeleteHost(h) \/ DoRemoveHost(h)
  PROVE  KeepsFaith
<1> DEFINE gone == {h} \cup InterfacesOf(h) \cup ServicesOf(h)
                     \cup {d \in Disks : DiskOf[d] = h}
<1>1. TypeOK /\ RealType /\ ~Fails
  BY FromReady
<1>2. CASE DoDeleteHost(h)
  <2>1. real' = real /\ DeleteHost(h) /\ UNCHANGED etc
    BY <1>1, <1>2 DEF DoDeleteHost, May, Nothing, XenOnly, Xen, names
  <2>2. /\ is.created \ is'.created \subseteq {h} \cup InterfacesOf(h) \cup Services
        /\ is'.named = is.named \ {h}
    BY <1>1, <2>1 DEF TypeOK, DeleteHost
  <2>3. \A f \in Believed : is'[f] \ is[f] = {}
    BY <1>1, <2>1, BelievedFields DEF TypeOK, DeleteHost
  <2>4. is'.created \ is.created = {} /\ is'.configName \ is.configName = {}
    BY <2>3, BelievedFields
  <2>5. ASSUME NEW i \in Interfaces \ is.old, Trusted(HostOf[i])', i \in is.created \ is'.created
        PROVE  ~Own(HostOf[i])
    <3>1. HostOf[i] = h
      BY <2>2, <2>5, TypesAssumption DEF InterfacesOf, Services
    <3> QED
      BY <2>1, <2>2, <2>5, <3>1 DEF Trusted, Deleted, Own
  <2>6. \A i \in Interfaces : Complete(i)' <=> Complete(i)
    BY <2>1 DEF Complete
  <2>7. (is'.created \cup real'.created) \ (is.created \cup real.created) = {}
    BY <2>1, <2>4
  <2> QED
    BY <2>1, <2>3, <2>4, <2>5, <2>6, <2>7 DEF KeepsFaith
<1>3. CASE DoRemoveHost(h)
  <2>1. /\ h \in is.old
        /\ is' = [is EXCEPT !.created = @ \ ({h} \cup InterfacesOf(h))]
        /\ real' = real \/ real' = [f \in RealFields |-> real[f] \ gone]
    BY <1>1, <1>3 DEF DoRemoveHost, May, RemoveHost, Nothing, XenOnly, Xen
  <2>2. /\ is'.created = is.created \ ({h} \cup InterfacesOf(h))
        /\ \A f \in Believed : is'[f] \ is[f] = {}
    BY <1>1, <2>1, BelievedFields DEF TypeOK
  <2>3. is'.created \ is.created = {} /\ is'.configName \ is.configName = {}
    BY <2>2, BelievedFields
  <2>4. gone \cap Networks = {} /\ gone \cap Hosts = {h}
    BY TypesAssumption DEF InterfacesOf, ServicesOf
  <2>5. gone \cap Certain' = {}
    <3>1. h \notin Certain
      BY <2>1, CertainOfType DEF CertainHosts, Trusted
    <3>2. ASSUME NEW i \in InterfacesOf(h) PROVE i \notin Certain
      <4>1. i \in Interfaces /\ HostOf[i] = h
        BY DEF InterfacesOf
      <4> QED
        BY <2>1, <4>1, CertainOfType DEF CertainInterfaces, Trusted
    <3>3. ASSUME NEW s \in ServicesOf(h) PROVE s \notin Certain
      <4>1. s \in Services /\ HostOf[InterfaceOf[s]] = h
        BY DEF ServicesOf
      <4> QED
        BY <2>1, <4>1, CertainOfType DEF CertainServices, CertainInterfaces, Trusted
    <3>4. ASSUME NEW d \in Disks PROVE d \notin Certain
      BY TypesAssumption
         DEF Certain, CertainHosts, CertainInterfaces, CertainServices
    <3> QED
      BY <3>1, <3>2, <3>3, <3>4, FromReady
  <2>6. \A f \in Believed : real[f] \ gone \subseteq real'[f] /\ real'[f] \subseteq real[f]
    BY <2>1 DEF Believed
  <2> HIDE DEF gone
  <2>7. \A f \in Believed : (real[f] \cup (is'[f] \ is[f])) \cap Certain' \subseteq real'[f]
    BY <2>2, <2>5, <2>6
  <2>8. /\ real.created \ gone \subseteq real'.created /\ real'.created \subseteq real.created
        /\ real.cpus \ gone \subseteq real'.cpus /\ real.memory \ gone \subseteq real'.memory
        /\ real.network \ gone \subseteq real'.network /\ real.mtu \ gone \subseteq real'.mtu
        /\ real.rate \ gone \subseteq real'.rate
        /\ real.configName \ gone \subseteq real'.configName
    BY <2>6, BelievedFields
  <2>9. \A i \in Interfaces :
          i \in real'.created /\ (i \in real.created => Complete(i)) => Complete(i)'
    <3> SUFFICES ASSUME NEW i \in Interfaces, i \in real'.created,
                        i \in real.created => Complete(i)
                 PROVE  Complete(i)'
      OBVIOUS
    <3>1. real' = real \/ i \notin gone
      BY <2>1 DEF RealFields
    <3> QED
      BY <2>8, <3>1 DEF Complete
  <2>10. (is'.created \cup real'.created) \ (is.created \cup real.created) = {}
    BY <2>3, <2>8
  <2>11. \A i \in Interfaces \ is.old :
           Trusted(HostOf[i])' /\ i \in is.created \ is'.created => ~Own(HostOf[i])
    <3>1. is'.old = is.old
      BY FromReady
    <3>2. \A i \in Interfaces : i \in is.created \ is'.created => HostOf[i] = h
      BY <2>2, TypesAssumption DEF InterfacesOf
    <3> QED
      BY <2>1, <3>1, <3>2 DEF Trusted
  <2>12. \A g \in Hosts \ is.old : g \in real'.created => g \in real.created /\ g \notin gone
    BY <2>1, <2>4, <2>8
  <2> QED
    BY <2>3, <2>4, <2>7, <2>8, <2>9, <2>10, <2>11, <2>12 DEF KeepsFaith
<1> QED
  BY <1>2, <1>3

\* There are no other steps.
LEMMA EveryStepIsFaithful == ASSUME Ready PROVE KeepsFaith
<1>1. ASSUME NEW h \in Hosts, BuildHost(h) PROVE KeepsFaith
  BY <1>1, FaithInHost, FaithInMachine, FaithInNewHost, FaithInGoneHost DEF BuildHost
<1>2. ASSUME NEW i \in Interfaces, BuildInterface(i) PROVE KeepsFaith
  BY <1>2, FaithInInterface, FaithInNewVif, FaithInMove DEF BuildInterface
<1>3. ASSUME NEW r \in Routers, DoConfigureRouting(r) PROVE KeepsFaith
  BY <1>3, FaithInHost, TestbedAssumption
<1>4. CASE (\E s \in Dns : DoConfigureDns(s)) \/ (\E s \in Dhcp : DoConfigureDhcp(s))
  BY <1>4, FaithInService
<1>5. CASE \/ \E n \in Networks : DoCreateNetwork(n) \/ DoRemoveNetwork(n)
           \/ \E d \in Disks : DoAddDisk(d) \/ DoRemoveDisk(d)
           \/ \E x \in Hosts \cup Networks \cup Disks : DoAddConfigName(x)
  BY <1>5, FaithInOther
<1>6. CASE WaitForBoot \/ UNCHANGED vars
  BY <1>6, FaithInMachine
<1> QED
  BY <1>1, <1>2, <1>3, <1>4, <1>5, <1>6 DEF Ready, BuildNext

\* Every step keeps the planner right while no call fails.
LEMMA BeliefNext ==
  TypeOK /\ RealType /\ MachineType /\ StrayInv /\ BeliefInv /\ [BuildNext]_vars => BeliefInv'
<1> SUFFICES ASSUME TypeOK, RealType, MachineType, StrayInv, BeliefInv, [BuildNext]_vars
             PROVE  BeliefInv'
  OBVIOUS
<1>1. CASE faults' = 0
  <2>1. KeepsFaith
    BY <1>1, EveryStepIsFaithful DEF Ready
  <2> QED
    BY <1>1, <2>1, FaithIsKept
<1>2. CASE faults' # 0
  BY <1>2 DEF BeliefInv
<1> QED
  BY <1>1, <1>2

\* So the planner is right in every setup.
LEMMA BeliefsFollow == BuildSpec => []BeliefInv
<1>1. BuildInit => BeliefInv
  BY BeliefInit
<1> QED
  BY <1>1, BeliefNext, StraysFollow, ExecutionTyped, PTL DEF BuildSpec

\* Whom AsBelieved speaks of can be trusted.
LEMMA SureIsCertain ==
  ASSUME TypeOK, StrayInv, BeliefInv
  PROVE  AsBelieved
<1> DEFINE Sure(h) == Known(h) /\ h \notin Drifted
           hosts == {h \in Hosts : Sure(h)}
           ifs   == {i \in Interfaces \ is.old :
                       Sure(HostOf[i]) /\ (NetworkOf[i] \in is.new => HostOf[i] \in is.new)}
           servs == {s \in Services \ is.old :
                       InterfaceOf[s] \in ifs /\ ~Refused(Together(s))}
           sure  == hosts \cup ifs \cup servs \cup (Networks \ is.old)
<1> SUFFICES ASSUME faults = 0
             PROVE  /\ \A f \in RealFields \ {"attached", "configName"} :
                         is[f] \cap sure \subseteq real[f]
                    /\ is.configName \cap (hosts \cup Networks) \subseteq real.configName
  BY DEF AsBelieved
<1>1. \A h : Sure(h) => Trusted(h)
  BY DEF Known, Trusted, Deleted
<1>2. hosts \subseteq CertainHosts /\ ifs \subseteq CertainInterfaces
  BY <1>1 DEF CertainHosts, CertainInterfaces
<1>3. servs \subseteq CertainServices
  BY <1>2 DEF CertainServices
<1>4. sure \subseteq Certain
  BY <1>2, <1>3 DEF Certain
<1>5. \A f \in Believed : is[f] \cap Certain \subseteq real[f]
  BY DEF BeliefInv
<1>6. is.running \cap sure \subseteq real.running
  <2>1. is.running \subseteq Hosts
    BY DEF TypeOK
  <2>2. Hosts \cap sure \subseteq hosts
    BY TypesAssumption
  <2>3. is.running \cap hosts \subseteq real.running
    BY <1>1 DEF StrayInv, RunsAsPlanned, Steady, Trusted
  <2> QED
    BY <2>1, <2>2, <2>3
<1>7. \A f \in RealFields \ {"attached", "configName"} :
        is[f] \cap sure \subseteq real[f]
  <2> SUFFICES ASSUME NEW f \in RealFields \ {"attached", "configName"}
               PROVE  is[f] \cap sure \subseteq real[f]
    OBVIOUS
  <2>1. CASE f = "running"
    BY <1>6, <2>1
  <2>2. CASE f # "running"
    BY <1>4, <1>5, <2>2 DEF Believed
  <2> QED
    BY <2>1, <2>2
<1>8. is.configName \cap (hosts \cup Networks) \subseteq real.configName
  <2>1. hosts \subseteq Certain
    BY <1>2 DEF Certain
  <2>2. is.configName \cap Certain \subseteq real.configName
    BY <1>5, BelievedFields
  <2>3. is.configName \cap Networks \subseteq real.configName
    BY DEF BeliefInv, NetworksAreThere
  <2> QED
    BY <2>1, <2>2, <2>3
<1> QED
  BY <1>7, <1>8

\* While no call fails, everything the plan counts on has been done, except of
\* hosts, interfaces and services that the property names: the steps of the
\* plan are the only report on the testbed, and they are right about it.
THEOREM PlannerIsRight == BuildSpec => []AsBelieved
<1>1. TypeOK /\ StrayInv /\ BeliefInv => AsBelieved
  BY SureIsCertain
<1> QED
  BY <1>1, ExecutionTyped, StraysFollow, BeliefsFollow, PTL
==============================================================================

------------------------------ MODULE Testbed ------------------------------
(***************************************************************************)
(* What INSALATA's planner believes a testbed is and what a plan may do    *)
(* with it: the initial state that planner.py writes from the difference   *)
(* between the current graph and the wanted configuration, the actions of  *)
(* testbed_domain.pddl, and the goal.  A plan is a path of this            *)
(* specification from Init to a state in Goal.                             *)
(***************************************************************************)
EXTENDS Naturals, FiniteSets

CONSTANTS
  Hosts, Routers,               \* all hosts; those of PDDL type router
  Networks, Interfaces, Disks, DefaultDisks, Dns, Dhcp,
  HostOf, NetworkOf,            \* of an interface: its host and network
  InterfaceOf,                  \* of a service: its interface
  DiskOf,                       \* of a disk: its host
  Differences                   \* <<object, aspect>> in which the two
                                \* configurations may differ (a bound)

Services == Dns \cup Dhcp
Objects  == Hosts \cup Networks \cup Interfaces \cup Disks \cup Services

ASSUME TestbedAssumption ==
  /\ Routers \subseteq Hosts /\ DefaultDisks \subseteq Disks
  /\ HostOf \in [Interfaces -> Hosts] /\ NetworkOf \in [Interfaces -> Networks]
  /\ InterfaceOf \in [Services -> Interfaces]
  /\ DiskOf \in [Disks -> Hosts]

\* The PDDL types are disjoint: an object is written under one of them.
ASSUME TypesAssumption ==
  /\ Hosts \cap Networks = {} /\ Hosts \cap Interfaces = {}
  /\ Hosts \cap Disks = {} /\ Hosts \cap Services = {}
  /\ Networks \cap Interfaces = {} /\ Networks \cap Disks = {}
  /\ Networks \cap Services = {} /\ Interfaces \cap Disks = {}
  /\ Interfaces \cap Services = {} /\ Disks \cap Services = {}
  /\ Dns \cap Dhcp = {}

\* is.p is the set of objects (is.attached: of disks) of which predicate p of
\* the domain holds.
VARIABLE is

InterfacesOf(h) == {i \in Interfaces : HostOf[i] = h}
ServicesOf(h)   == {s \in Services : HostOf[InterfaceOf[s]] = h}
PeersOf(h)      == IF h \in Routers THEN Routers ELSE Hosts \ Routers

----------------------------------------------------------------------------
(* The problem: writeInit* of planner.py *)

\* An element is in the new configuration only, in both, or in the current
\* graph only; what is part of a new or removed element is new or removed.
Statuses ==
  {st \in [Objects -> {"new", "kept", "removed"}] :
     /\ \A i \in Interfaces :
          /\ st[HostOf[i]] = "kept" \/ st[i] = st[HostOf[i]]
          /\ st[NetworkOf[i]] = "removed" => st[i] = "removed"
          /\ st[NetworkOf[i]] = "new" =>
               st[i] = "new" \/ (st[i] = "kept" /\ <<i, "network">> \in Differences)
     /\ \A s \in Services :
          st[InterfaceOf[s]] = "kept" \/ st[s] = st[InterfaceOf[s]]
     /\ \A d \in Disks : st[DiskOf[d]] = "kept" \/ st[d] = st[DiskOf[d]]}

InitHosts(st, differ) ==
  LET kept   == {h \in Hosts : st[h] = "kept"}
      there  == {h \in Hosts : st[h] # "new"}
      Same(a) == {h \in kept : <<h, a>> \notin differ}
  IN  [running         |-> {h \in there : <<h, "suspended">> \notin differ},
       named           |-> there,
       nameNotApplied  |-> {},
       cpus            |-> Same("cpus"),
       memory          |-> Same("memory"),
       templateChanged |-> kept \ Same("template"),
       routing         |-> Same("routes") \cap Routers,
       firewall        |-> {h \in Hosts : <<h, "firewall">> \notin differ}]

InitDisk(st) == {d \in Disks : st[d] # "new" \/ d \in DefaultDisks}

InitInterface(st, differ) ==
  LET Same(a) == {i \in Interfaces : st[i] = "kept" /\ <<i, a>> \notin differ}
  IN  [network   |-> {i \in Same("network") : st[NetworkOf[i]] = "kept"},
       mtu       |-> Same("mtu"),
       rate      |-> Same("rate"),
       interface |-> Same("address"),
       static    |-> {i \in Interfaces : <<i, "dynamic">> \notin differ}]

InitService(st, differ) ==
  {s \in Services : st[s] = "kept" /\ <<s, "options">> \notin differ}

InitialFacts(st, differ) ==
  LET h == InitHosts(st, differ)
      i == InitInterface(st, differ)
  IN  [created |-> {x \in Hosts \cup Networks \cup Interfaces : st[x] # "new"},
       old     |-> {x \in Objects : st[x] = "removed"},
       new     |-> {x \in Hosts \cup Networks \cup Dns \cup (Disks \ DefaultDisks) :
                      st[x] = "new"},
       running |-> h.running, named |-> h.named,
       nameNotApplied |-> h.nameNotApplied, cpus |-> h.cpus,
       memory |-> h.memory, templateChanged |-> h.templateChanged,
       routing |-> h.routing, firewall |-> h.firewall,
       network |-> i.network, mtu |-> i.mtu, rate |-> i.rate,
       interface |-> i.interface, static |-> i.static,
       dns  |-> InitService(st, differ) \cap Dns,
       dhcp |-> InitService(st, differ) \cap Dhcp,
       attached |-> InitDisk(st), configName |-> {}]

Init == \E st \in Statuses, differ \in SUBSET Differences :
          is = InitialFacts(st, differ)

Goal ==
  /\ is.old \cap is.created = {}
  /\ Networks \ is.old \subseteq is.created
  /\ Hosts \ is.old \subseteq
       (is.running \cap is.named \cap is.cpus \cap is.memory \cap is.firewall)
         \ (is.templateChanged \cup is.nameNotApplied)
  /\ Interfaces \ is.old \subseteq
       is.created \cap is.rate \cap is.mtu \cap is.network \cap is.interface
  /\ Dns \subseteq is.dns /\ Dhcp \subseteq is.dhcp /\ Routers \subseteq is.routing
  /\ is.old \cap is.interface = {}
  /\ is.new \cap (Networks \cup Hosts \cup Disks) \subseteq is.configName
  /\ is.attached = Disks \ is.old

----------------------------------------------------------------------------
(* The actions of the domain *)

CreateNetwork(n) ==
  /\ n \notin is.created
  /\ is' = [is EXCEPT !.created = @ \cup {n}]

Boot(h) ==
  /\ h \in is.created /\ h \notin is.running
  /\ h \in is.named /\ h \notin is.nameNotApplied
  /\ is' = [is EXCEPT !.running = @ \cup {h}]

BootAndNamed(h) ==
  /\ h \in is.created /\ h \notin is.running
  /\ h \in is.named /\ h \in is.nameNotApplied
  /\ is' = [is EXCEPT !.running = @ \cup {h}, !.nameNotApplied = @ \ {h}]

\* Mutants: any machine is booted unnamed; only those without a name count.
BootUnnamedAnytime(h) ==
  /\ h \in is.created /\ h \notin is.running
  /\ is' = [is EXCEPT !.running = @ \cup {h}]

BootUnnamedIfNamed(h) ==
  /\ h \in is.created /\ h \notin is.running
  /\ \A p \in PeersOf(h) : p \notin is.named => p \notin is.running
  /\ is' = [is EXCEPT !.running = @ \cup {h}]

BootUnnamed(h) ==
  /\ h \in is.created /\ h \notin is.running
  /\ \A p \in PeersOf(h) : p \notin is.named \/ p \in is.nameNotApplied
                             => p \notin is.running
  /\ is' = [is EXCEPT !.running = @ \cup {h}]

Shutdown(h) ==
  /\ h \in is.running
  /\ is' = [is EXCEPT !.running = @ \ {h}]

RebootAndNamed(h) ==
  /\ h \in is.running /\ h \in is.nameNotApplied
  /\ is' = [is EXCEPT !.nameNotApplied = @ \ {h}]

CreateHost(h) ==
  /\ h \notin is.created
  /\ is' = [is EXCEPT !.created = @ \cup {h}, !.cpus = @ \cup {h},
                      !.memory = @ \cup {h}]

CreateInterface(i) ==
  /\ i \notin is.created
  /\ HostOf[i] \in is.created /\ HostOf[i] \notin is.running
  /\ NetworkOf[i] \in is.created
  /\ is' = [is EXCEPT !.created = @ \cup {i}, !.network = @ \cup {i},
                      !.mtu = @ \cup {i}, !.rate = @ \cup {i}]

\* The loop over the services of an interface lies outside the test that the
\* interface is one of h: those of all interfaces are unconfigured.
DeleteHost(h) ==
  /\ h \in is.created /\ h \notin is.running
  /\ is' = [is EXCEPT !.created = @ \ ({h} \cup InterfacesOf(h) \cup Services),
                      !.named = @ \ {h}, !.templateChanged = @ \ {h},
                      !.configName = @ \ {h}, !.interface = @ \ InterfacesOf(h),
                      !.dns = {}, !.dhcp = {}]

RemoveNetwork(n) ==
  /\ n \in is.old
  /\ \A i \in Interfaces : NetworkOf[i] = n => i \notin is.created
  /\ is' = [is EXCEPT !.created = @ \ {n}]

RemoveHost(h) ==
  /\ h \in is.old /\ h \notin is.running
  /\ is' = [is EXCEPT !.created = @ \ ({h} \cup InterfacesOf(h))]

\* Mutant: the disk is created.
AddNewDisk(d) ==
  /\ DiskOf[d] \in is.created /\ d \notin is.attached
  /\ is' = [is EXCEPT !.attached = @ \cup {d}, !.created = @ \cup {d}]

AddDisk(d) ==
  /\ DiskOf[d] \in is.created /\ d \notin is.attached
  /\ is' = [is EXCEPT !.attached = @ \cup {d}]

RemoveDisk(d) ==
  /\ d \in is.old /\ d \in is.attached
  /\ is' = [is EXCEPT !.attached = @ \ {d}]

RemoveInterface(i) ==
  /\ i \in is.old /\ HostOf[i] \notin is.running
  /\ is' = [is EXCEPT !.created = @ \ {i}, !.mtu = @ \ {i},
                      !.rate = @ \ {i}, !.network = @ \ {i}]

Name(h) ==
  /\ h \in is.running
  /\ is' = [is EXCEPT !.named = @ \cup {h}, !.nameNotApplied = @ \cup {h}]

ConfigureRouting(h) ==
  /\ h \in is.running /\ InterfacesOf(h) \subseteq is.interface
  /\ is' = [is EXCEPT !.routing = @ \cup {h}]

ConfigureFirewall(h) ==
  /\ h \in is.running /\ InterfacesOf(h) \subseteq is.interface
  /\ is' = [is EXCEPT !.firewall = @ \cup {h}]

ConfigureCpus(h) ==
  /\ h \in is.created /\ h \notin is.running
  /\ is' = [is EXCEPT !.cpus = @ \cup {h}]

ConfigureMemory(h) ==
  /\ h \in is.created /\ h \notin is.running
  /\ is' = [is EXCEPT !.memory = @ \cup {h}]

\* Both actions of this name: a static interface waits for no service.
ConfigureInterface(i) ==
  /\ i \in is.created /\ HostOf[i] \in is.running
  /\ i \in is.network /\ i \in is.rate /\ i \in is.mtu
  /\ i \in is.static \/ (Dns \subseteq is.dns /\ Dhcp \subseteq is.dhcp)
  /\ is' = [is EXCEPT !.interface = @ \cup {i}]

\* The conditional effect names ?i, which is no parameter: it never fires.
UnconfigureInterface(i) ==
  /\ i \notin is.created /\ i \in is.interface /\ i \in is.old
  /\ HostOf[i] \in is.running
  /\ is' = [is EXCEPT !.interface = @ \ {i}]

ServedBy(s) ==
  /\ InterfaceOf[s] \in is.created /\ InterfaceOf[s] \in is.interface
  /\ HostOf[InterfaceOf[s]] \in is.created \cap is.named \cap is.running

\* Mutant: the server is not said to be created.
ConfigureDnsOnly(s) ==
  /\ s \notin is.dns /\ ServedBy(s)
  /\ is' = [is EXCEPT
       !.new = @ \ (IF s \in is.new THEN Dns ELSE {s}),
       !.dns = (IF s \in is.new THEN {} ELSE @) \cup {s}]

\* A new server makes all others stale: they have to learn about it.
ConfigureDns(s) ==
  /\ s \notin is.dns /\ ServedBy(s)
  /\ is' = [is EXCEPT
       !.created = @ \cup {s},
       !.new = @ \ (IF s \in is.new THEN Dns ELSE {s}),
       !.dns = (IF s \in is.new THEN {} ELSE @) \cup {s}]

UnconfigureDns(s) ==
  /\ s \in is.old
  /\ is' = [is EXCEPT !.created = @ \ {s}, !.dns = @ \ {s}]

ConfigureDhcp(s) ==
  /\ s \notin is.dhcp /\ ServedBy(s)
  /\ is' = [is EXCEPT !.created = @ \cup {s}, !.dhcp = @ \cup {s}]

\* The effect takes dnsConfigured from a DHCP server, not dhcpConfigured.
UnconfigureDhcp(s) ==
  /\ s \in is.old
  /\ is' = [is EXCEPT !.created = @ \ {s}, !.dns = @ \ {s}]

ConfigureNetwork(i) ==
  /\ i \in is.created /\ HostOf[i] \notin is.running /\ Dhcp \subseteq is.dhcp
  /\ is' = [is EXCEPT !.network = @ \cup {i}]

ConfigureMtu(i) ==
  /\ i \in is.created
  /\ is' = [is EXCEPT !.mtu = @ \cup {i}]

ConfigureRate(i) ==
  /\ i \in is.created
  /\ is' = [is EXCEPT !.rate = @ \cup {i}]

\* The three actions of this kind differ in the type of x only.
AddConfigName(x) ==
  /\ x \in is.created /\ x \notin is.old
  /\ is' = [is EXCEPT !.configName = @ \cup {x}]

HostStep(h) ==
  \/ Boot(h) \/ BootAndNamed(h) \/ BootUnnamed(h) \/ Shutdown(h)
  \/ RebootAndNamed(h) \/ CreateHost(h) \/ DeleteHost(h) \/ RemoveHost(h)
  \/ Name(h) \/ ConfigureFirewall(h) \/ ConfigureCpus(h) \/ ConfigureMemory(h)

InterfaceStep(i) ==
  \/ CreateInterface(i) \/ RemoveInterface(i) \/ ConfigureInterface(i)
  \/ UnconfigureInterface(i) \/ ConfigureNetwork(i) \/ ConfigureMtu(i)
  \/ ConfigureRate(i)

Next ==
  \/ \E h \in Hosts : HostStep(h)
  \/ \E r \in Routers : ConfigureRouting(r)
  \/ \E i \in Interfaces : InterfaceStep(i)
  \/ \E n \in Networks : CreateNetwork(n) \/ RemoveNetwork(n)
  \/ \E d \in Disks : AddDisk(d) \/ RemoveDisk(d)
  \/ \E s \in Dns : ConfigureDns(s) \/ UnconfigureDns(s)
  \/ \E s \in Dhcp : ConfigureDhcp(s) \/ UnconfigureDhcp(s)
  \/ \E x \in Hosts \cup Networks \cup Disks : AddConfigName(x)

Spec == Init /\ [][Next]_is

----------------------------------------------------------------------------
(* Properties *)

\* Every predicate holds of objects of the type the domain declares it for.
TypeOK ==
  is \in [created : SUBSET Objects, old : SUBSET Objects, new : SUBSET Objects,
          running : SUBSET Hosts, named : SUBSET Hosts,
          nameNotApplied : SUBSET Hosts, cpus : SUBSET Hosts,
          memory : SUBSET Hosts, templateChanged : SUBSET Hosts,
          routing : SUBSET Routers, firewall : SUBSET Hosts,
          network : SUBSET Interfaces, mtu : SUBSET Interfaces,
          rate : SUBSET Interfaces, interface : SUBSET Interfaces,
          static : SUBSET Interfaces, dns : SUBSET Dns, dhcp : SUBSET Dhcp,
          attached : SUBSET Disks, configName : SUBSET Objects]

\* At no time two machines of a type run without having been given their
\* names: they would answer to the name of a template ("only one unnamed
\* machine is allowed to be booted at a certain point in time").
OneUnnamedAtATime ==
  \A h \in Hosts : h \in is.running \ is.named =>
    \A p \in PeersOf(h) : p \in is.running \ is.named => p = h

\* No plan removes a DNS server: the goal wants every server configured and
\* the removed one not created, and configureDns makes it both.
NoPlanRemovesDns == Goal => is.old \cap Dns = {}

\* No plan gives a host a new disk: the goal wants the name of the
\* configuration on it, which needs a disk that is created, and no action
\* creates one.
NoPlanAddsDisk == Goal => is.new \cap Disks = {}

=============================================================================

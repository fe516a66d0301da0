----------------------------- MODULE Deployment -----------------------------
(***************************************************************************)
(* A setup thread that executes a plan of Testbed: Builder.py, the Xen     *)
(* functions of builder/xenBuild and the ansible functions of              *)
(* builder/config.  The plan is a path of `is'; no step of it reports back *)
(* (every error is logged and the next step follows), so that `is' is only *)
(* what the planner believes, and `real' what has become of it.            *)
(***************************************************************************)
EXTENDS Testbed

CONSTANTS
  Templates, TemplateOf,        \* of a host: its template
  Exclusive,                    \* what no other configuration's name is on
  Volumes,                      \* disks whose VDI exists
  Drifted,                      \* hosts whose power state may be another one
                                \* than the planner writes, which is that of
                                \* the new configuration
  MaxFaults,                    \* bound on the Xen calls that fail
  Nobody

ASSUME DeploymentAssumption ==
  /\ TemplateOf \in [Hosts -> Templates] /\ Templates \cap Hosts = {}
  /\ Drifted \subseteq Hosts /\ MaxFaults \in Nat /\ Nobody \notin Hosts
  \* getPddlType looks at the template only
  /\ \A g, h \in Hosts : TemplateOf[g] = TemplateOf[h] => g \in PeersOf(h)

VARIABLES
  real,       \* like `is': what is there, running, configured as wanted;
              \* configName: to what this setup has given its name (the names
              \* it takes away again are those of module ConfigNames)
  etc,        \* the name in a machine's configuration
  answersTo,  \* the name it has had since its last boot
  applied,    \* the hosts with nameApplied in the new graph
  waiting,    \* the host waitForBoot waits for
  misled,     \* <<machine, object>>: one got the other's configuration
  faults

vars == <<is, real, etc, answersTo, applied, waiting, misled, faults>>
names == <<etc, answersTo, applied>>

RealFields == {"created", "running", "cpus", "memory", "routing", "firewall",
               "network", "mtu", "rate", "interface", "dns", "dhcp",
               "attached", "configName"}

BuildInit ==
  /\ Init
  /\ \E drift \in SUBSET (Drifted \cap is.created) :
       real = [f \in RealFields |->
                 IF f = "running"
                 THEN (is.running \ drift) \cup (drift \ is.running) ELSE is[f]]
  /\ etc = [h \in Hosts |-> IF h \in is.created THEN h ELSE TemplateOf[h]]
  /\ answersTo = etc
  /\ applied = Hosts /\ waiting = Nobody /\ misled = {} /\ faults = 0

----------------------------------------------------------------------------
(* The means of a step: Xen calls, ansible, waitForBoot *)

\* A step of the plan that changes something in the planner's eyes.
May(step) == waiting = Nobody /\ step /\ is' # is

Fails == faults < MaxFaults /\ faults' = faults + 1

\* The calls of one function, all of which succeed or whose first one fails.
Xen(r) ==
  \/ real' = r /\ UNCHANGED faults
  \/ Fails /\ UNCHANGED real

XenOnly(r) == Xen(r) /\ UNCHANGED <<names, waiting, misled>>

Nothing == XenOnly(real)

Stopped == real.created \ real.running

Target(h) == IF h \in applied THEN h ELSE TemplateOf[h]
Answering(name) == {g \in real.running : answersTo[g] = name}

\* Ansible configures a machine that answers to the name, if there is one.
Ansible(h, x, r) ==
  /\ \/ /\ Answering(Target(h)) = {}
        /\ UNCHANGED <<real, misled>>
     \/ h \in Answering(Target(h)) /\ real' = r /\ UNCHANGED misled
     \/ \E g \in Answering(Target(h)) \ {h} :
          misled' = misled \cup {<<g, x>>} /\ UNCHANGED real
  /\ UNCHANGED <<names, waiting, faults>>

\* boot and reboot: a machine that started is waited for.
Starts(h) ==
  /\ real' = [real EXCEPT !.running = @ \cup {h}]
  /\ answersTo' = [answersTo EXCEPT ![h] = etc[h]]
  /\ waiting' = h
  /\ UNCHANGED <<etc, misled, faults>>

StartsNot ==
  UNCHANGED <<real, etc, answersTo, waiting, misled>>

BootIt(h) ==
  \/ h \in Stopped /\ Starts(h)
  \/ h \notin Stopped /\ StartsNot /\ UNCHANGED faults
  \/ Fails /\ StartsNot

WaitForBoot ==
  /\ waiting # Nobody /\ Answering(Target(waiting)) # {}
  /\ waiting' = Nobody
  /\ UNCHANGED <<is, real, names, misled, faults>>

----------------------------------------------------------------------------
(* Hosts: builder/xenBuild/host.py, builder/config *)

\* A bound: plans that create again what they have to remove are left out.
DoCreateHost(h) ==
  /\ May(CreateHost(h)) /\ h \notin is.old
  /\ IF h \in real.created
     THEN Nothing
     ELSE LET copied == [real EXCEPT !.created = @ \cup {h},
                           !.attached = @ \cup {d \in DefaultDisks : DiskOf[d] = h}]
              done   == [copied EXCEPT !.cpus = @ \cup {h}, !.memory = @ \cup {h}]
          IN  /\ \/ /\ real' = done /\ UNCHANGED faults
                    /\ applied' = applied \ {h}
                    /\ etc' = [etc EXCEPT ![h] = TemplateOf[h]]
                 \/ /\ Fails            \* before or after the template is copied
                    /\ \/ UNCHANGED <<real, etc>>
                       \/ real' = copied /\ etc' = [etc EXCEPT ![h] = TemplateOf[h]]
                    /\ UNCHANGED applied
                 \/ /\ Fails            \* configureMemory or configureCPUs logs it
                    /\ \E f \in {"cpus", "memory"} : real' = [done EXCEPT ![f] = real[f]]
                    /\ applied' = applied \ {h}
                    /\ etc' = [etc EXCEPT ![h] = TemplateOf[h]]
              /\ UNCHANGED <<answersTo, waiting, misled>>

DoBoot(h) == May(Boot(h)) /\ BootIt(h) /\ UNCHANGED applied

DoBootAndNamed(h) ==
  May(BootAndNamed(h)) /\ applied' = applied \cup {h} /\ BootIt(h)

\* Mutant: as bootAndNamed.
BootUnnamedAsNamed(h) ==
  May(BootUnnamed(h)) /\ applied' = applied \cup {h} /\ BootIt(h)

DoBootUnnamed(h) ==
  May(BootUnnamed(h)) /\ applied' = applied \ {h} /\ BootIt(h)

DoRebootAndNamed(h) ==
  /\ May(RebootAndNamed(h))
  /\ applied' = applied \cup {h}
  /\ \/ h \in real.running /\ Starts(h)
     \/ h \notin real.running /\ StartsNot /\ UNCHANGED faults
     \/ Fails /\ StartsNot

DoShutdown(h) ==
  May(Shutdown(h)) /\ XenOnly([real EXCEPT !.running = @ \ {h}])

\* Takes effect at the next boot only.
DoName(h) ==
  /\ May(Name(h))
  /\ \/ Answering(Target(h)) = {} /\ UNCHANGED <<etc, misled>>
     \/ \E g \in Answering(Target(h)) :
          /\ etc' = [etc EXCEPT ![g] = h]
          /\ misled' = IF g = h THEN misled ELSE misled \cup {<<g, h>>}
  /\ UNCHANGED <<real, answersTo, applied, waiting, faults>>

\* Mutant: the machine is destroyed.
DeleteHostForReal(h) ==
  /\ May(DeleteHost(h))
  /\ XenOnly([f \in RealFields |-> real[f] \ ({h} \cup InterfacesOf(h))])

\* Builder.deleteHost is `pass'.
DoDeleteHost(h) == May(DeleteHost(h)) /\ Nothing

\* Mutant: the VIFs outlive their machine.
RemoveHostOnly(h) ==
  /\ May(RemoveHost(h))
  /\ IF h \in Stopped \cap Exclusive
     THEN XenOnly([f \in RealFields |-> real[f] \ {h}])
     ELSE Nothing

\* The VM is destroyed if it is halted and no configuration is left on it.
DoRemoveHost(h) ==
  LET gone == {h} \cup InterfacesOf(h) \cup ServicesOf(h)
                  \cup {d \in Disks : DiskOf[d] = h}
  IN  /\ May(RemoveHost(h))
      /\ IF h \in Stopped \cap Exclusive
         THEN XenOnly([f \in RealFields |-> real[f] \ gone])
         ELSE Nothing

DoConfigureCpus(h) ==
  /\ May(ConfigureCpus(h))
  /\ XenOnly([real EXCEPT !.cpus = @ \cup ({h} \cap Stopped)])

DoConfigureMemory(h) ==
  /\ May(ConfigureMemory(h))
  /\ XenOnly([real EXCEPT !.memory = @ \cup ({h} \cap Stopped)])

DoConfigureRouting(h) ==
  /\ May(ConfigureRouting(h))
  /\ Ansible(h, h, [real EXCEPT !.routing = @ \cup {h}])

DoConfigureFirewall(h) ==
  /\ May(ConfigureFirewall(h))
  /\ Ansible(h, h, [real EXCEPT !.firewall = @ \cup {h}])

----------------------------------------------------------------------------
(* Interfaces: builder/xenBuild/interface.py, builder/config/interface.py *)

\* Mutant: the record of the VIF lacks its rate.
WithVifUnlimited(r, i) ==
  IF HostOf[i] \in r.created /\ NetworkOf[i] \in r.created /\ i \notin r.created
  THEN [r EXCEPT !.created = @ \cup {i}, !.network = @ \cup {i}, !.mtu = @ \cup {i}]
  ELSE r

\* A VIF needs its VM and, for the record, its network.
WithVif(r, i) ==
  IF HostOf[i] \in r.created /\ NetworkOf[i] \in r.created /\ i \notin r.created
  THEN [r EXCEPT !.created = @ \cup {i}, !.network = @ \cup {i},
                 !.mtu = @ \cup {i}, !.rate = @ \cup {i}]
  ELSE r

WithoutVif(r, i) ==
  [r EXCEPT !.created = @ \ {i}, !.network = @ \ {i}, !.mtu = @ \ {i},
            !.rate = @ \ {i}]

DoCreateInterface(i) == May(CreateInterface(i)) /\ XenOnly(WithVif(real, i))

\* Builder.removeInterface raises a NameError.
DoRemoveInterface(i) == May(RemoveInterface(i)) /\ Nothing

\* The VIF is destroyed and created again.
DoConfigureNetwork(i) ==
  /\ May(ConfigureNetwork(i))
  /\ \/ XenOnly(WithVif(WithoutVif(real, i), i))
     \/ /\ Fails /\ real' = WithoutVif(real, i)
        /\ UNCHANGED <<names, waiting, misled>>

DoConfigureMtu(i) ==
  May(ConfigureMtu(i)) /\ XenOnly([real EXCEPT !.mtu = @ \cup ({i} \cap real.created)])

DoConfigureRate(i) ==
  May(ConfigureRate(i)) /\ XenOnly([real EXCEPT !.rate = @ \cup ({i} \cap real.created)])

DoConfigureInterface(i) ==
  /\ May(ConfigureInterface(i))
  /\ Ansible(HostOf[i], i, [real EXCEPT !.interface = @ \cup {i}])

DoUnconfigureInterface(i) ==
  /\ May(UnconfigureInterface(i))
  /\ Ansible(HostOf[i], i, [real EXCEPT !.interface = @ \ {i}])

----------------------------------------------------------------------------
(* Networks, disks, services and the names of configurations *)

DoCreateNetwork(n) ==
  May(CreateNetwork(n)) /\ XenOnly([real EXCEPT !.created = @ \cup {n}])

\* Mutant: the name is right.
RemoveNetworkForReal(n) ==
  May(RemoveNetwork(n)) /\ XenOnly([real EXCEPT !.created = @ \ ({n} \cap Exclusive)])

\* Builder.removeNetwork raises a NameError when the network would have to go.
DoRemoveNetwork(n) == May(RemoveNetwork(n)) /\ Nothing

\* Whether the loop over the host's disks comes as far as d before it raises
\* a ValueError depends on their order; a VDI is never created.
DoAddDisk(d) ==
  /\ May(AddDisk(d))
  /\ \/ Nothing
     \/ /\ d \in Volumes /\ DiskOf[d] \in real.created
        /\ XenOnly([real EXCEPT !.attached = @ \cup {d}])

\* Builder.removeDisk does not take the host the plan gives it: TypeError.
DoRemoveDisk(d) == May(RemoveDisk(d)) /\ Nothing

\* dnsmasq gets the services of a host at once: those of the new configuration,
\* if s is in it.  A bound: all DNS servers of a host are of one domain.
Together(s) ==
  ServicesOf(HostOf[InterfaceOf[s]]) \ (IF s \in is.old THEN {} ELSE is.old)

\* It serves no DHCP on an interface without DNS, and nothing else then.
Refused(servs) ==
  \E t \in servs \cap Dhcp : \A u \in servs \cap Dns : InterfaceOf[u] # InterfaceOf[t]

Dnsmasq(s) ==
  LET dns  == Together(s) \cap Dns
      dhcp == Together(s) \cap Dhcp
  IN  IF Refused(Together(s))
      THEN Nothing
      ELSE Ansible(HostOf[InterfaceOf[s]], s,
                   [real EXCEPT !.created = @ \cup dns \cup dhcp,
                                !.dns = @ \cup dns, !.dhcp = @ \cup dhcp])

DoConfigureDns(s) == May(ConfigureDns(s)) /\ Dnsmasq(s)

DoConfigureDhcp(s) == May(ConfigureDhcp(s)) /\ Dnsmasq(s)

\* A host's name goes to its default disk as well.
DoAddConfigName(x) ==
  LET disks == {d \in DefaultDisks : DiskOf[d] = x}
  IN  /\ May(AddConfigName(x))
      /\ XenOnly([real EXCEPT !.configName =
                    @ \cup (IF x \in real.created THEN {x} \cup disks ELSE {})])

BuildHost(h) ==
  \/ DoBoot(h) \/ DoBootAndNamed(h) \/ DoBootUnnamed(h) \/ DoRebootAndNamed(h)
  \/ DoShutdown(h) \/ DoCreateHost(h) \/ DoDeleteHost(h) \/ DoRemoveHost(h)
  \/ DoName(h) \/ DoConfigureCpus(h) \/ DoConfigureMemory(h)
  \/ DoConfigureFirewall(h)

BuildInterface(i) ==
  \/ DoCreateInterface(i) \/ DoRemoveInterface(i) \/ DoConfigureInterface(i)
  \/ DoUnconfigureInterface(i) \/ DoConfigureNetwork(i) \/ DoConfigureMtu(i)
  \/ DoConfigureRate(i)

\* A plan with unconfigureDns or unconfigureDhcp is not executed: the Builder
\* has no such function and parsePlan raises a KeyError.
BuildNext ==
  \/ \E h \in Hosts : BuildHost(h)
  \/ \E r \in Routers : DoConfigureRouting(r)
  \/ \E i \in Interfaces : BuildInterface(i)
  \/ \E n \in Networks : DoCreateNetwork(n) \/ DoRemoveNetwork(n)
  \/ \E d \in Disks : DoAddDisk(d) \/ DoRemoveDisk(d)
  \/ \E s \in Dns : DoConfigureDns(s)
  \/ \E s \in Dhcp : DoConfigureDhcp(s)
  \/ \E x \in Hosts \cup Networks \cup Disks : DoAddConfigName(x)
  \/ WaitForBoot

BuildSpec == BuildInit /\ [][BuildNext]_vars

----------------------------------------------------------------------------
(* Properties *)

\* Machines answer to names of hosts or templates, and what is configured of
\* an object of Xen is there.
BuildTypeOK ==
  /\ TypeOK
  /\ DOMAIN real = RealFields
  /\ \A f \in RealFields : real[f] \subseteq Objects
  /\ etc \in [Hosts -> Hosts \cup Templates]
  /\ answersTo \in [Hosts -> Hosts \cup Templates]
  /\ applied \subseteq Hosts /\ waiting \in Hosts \cup {Nobody}
  /\ misled \subseteq Hosts \X Objects /\ faults \in 0..MaxFaults
  /\ real.running \subseteq real.created
  /\ \A i \in Interfaces \cap real.created : HostOf[i] \in real.created

\* While no call of Xen fails, no machine is given the configuration or the
\* name of another one: of the machines that answer to the name of a template
\* only the one the planner has booted unnamed is running.  A machine that runs
\* though the planner writes it does not cannot be started, keeps its own name,
\* and is looked for under that of the template: such setups are excepted.
NobodyIsMisled ==
  real.running \subseteq is.running => [](faults = 0 => misled = {})

\* The hosts of which the planner knows that they exist and were not replaced.
Known(h) == h \notin is.old /\ (h \in is.named <=> etc[h] = h)

\* While no call fails, what the plan counts on has been done: everything
\* the planner believes of a host, except of those that are to be removed, to
\* be replaced or had another power state in the first place, of interfaces
\* that may move to a network that is not there yet, and of services that
\* dnsmasq refuses.
AsBelieved ==
  LET Sure(h) == Known(h) /\ h \notin Drifted
      hosts == {h \in Hosts : Sure(h)}
      ifs   == {i \in Interfaces \ is.old :
                  Sure(HostOf[i]) /\ (NetworkOf[i] \in is.new => HostOf[i] \in is.new)}
      servs == {s \in Services \ is.old :
                  InterfaceOf[s] \in ifs /\ ~Refused(Together(s))}
      sure  == hosts \cup ifs \cup servs \cup (Networks \ is.old)
  IN  faults = 0 =>
        /\ \A f \in RealFields \ {"attached", "configName"} :
             is[f] \cap sure \subseteq real[f]
        /\ is.configName \cap (hosts \cup Networks) \subseteq real.configName

\* While no call fails and nobody is misled, a setup waits in vain only for a
\* machine that has its name already but is expected under the name of its
\* template.
VainOnlyIfNamed ==
  faults = 0 /\ misled = {} /\ waiting # Nobody /\ Answering(Target(waiting)) = {} =>
    answersTo[waiting] = waiting /\ waiting \notin applied

\* While no call fails, no setup removes anything but hosts: the networks, and
\* the interfaces and disks of hosts that stay, are there as before when the
\* plan has removed them.
OnlyHostsAreRemoved ==
  faults = 0 =>
    /\ is.old \cap Networks \subseteq real.created
    /\ \A i \in is.old \cap Interfaces :
         HostOf[i] \in real.created => i \in real.created
    /\ \A d \in is.old \cap Disks : DiskOf[d] \in real.created => d \in real.attached

\* A setup in which the template of a host has changed never comes to its
\* goal while no call fails: the machine is not replaced and is waited for
\* under the name of its template.  The same setups are excepted: the machine
\* is not replaced either, but as it cannot be started nobody waits for it.
NoSetupReplaces ==
  is.templateChanged # {} /\ real.running \subseteq is.running =>
    [](faults = 0 /\ Goal => waiting # Nobody)
=============================================================================

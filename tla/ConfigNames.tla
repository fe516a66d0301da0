----------------------------- MODULE ConfigNames -----------------------------
(***************************************************************************)
(* The names of the configurations that share one virtual machine.  They   *)
(* are kept in the other_config of the VM and of its default disk on the   *)
(* Xen server; the setup threads of several environments add and remove    *)
(* their names with three calls each (get, remove_from, add_to), without a *)
(* lock, and the setup that finds no name left destroys both objects       *)
(* (builder/xenBuild/host.py, disk.py, Builder.removeHost).  A collector   *)
(* finds every VM of the server, so that a setup also "removes" machines   *)
(* its own configuration never had.                                        *)
(***************************************************************************)

CONSTANT Configs            \* the configurations, one setup thread for each

VARIABLES
  there,        \* the objects of {"vm", "vdi"} that exist
  tag,          \* what is under "configs" in their other_config: one set of
                \* names at most
  running,      \* the VM's power state
  pc,           \* what the setup thread of each configuration does next
  array,        \* the array it got from the VM and changed, if any
  diskArray,    \* the same of the disk
  member,       \* the configurations that have added their names and have not
                \* begun to remove them
  overlapped    \* a setup changed the machine in the middle of another's change

vars == <<there, tag, running, pc, array, diskArray, member, overlapped>>

Steps == {"idle",
          "clearVm", "writeVm", "readDisk", "clearDisk", "writeDisk", "added",
          "dropVm", "rewriteVm", "rereadDisk", "dropDisk", "rewriteDisk", "removed",
          "destroy", "destroyVdi", "destroyVm"}

Init ==
  /\ there = {} /\ tag = [x \in {"vm", "vdi"} |-> {}] /\ running = FALSE
  /\ pc = [c \in Configs |-> "idle"]
  /\ array = [c \in Configs |-> {}] /\ diskArray = [c \in Configs |-> {}]
  /\ member = {} /\ overlapped = FALSE

Goto(c, from, to) == pc[c] = from /\ pc' = [pc EXCEPT ![c] = to]

Names(x) == UNION tag[x]

\* remove_from_other_config and add_to_other_config; the latter fails if the
\* key is there, and a failure of either is not looked at.
Cleared(x)      == IF x \in there THEN [tag EXCEPT ![x] = {}] ELSE tag
Written(x, new) == IF x \in there /\ tag[x] = {} THEN [tag EXCEPT ![x] = {new}] ELSE tag

Begins == overlapped' = (overlapped \/ \E d \in Configs : pc[d] # "idle")

Keep == UNCHANGED <<there, tag, running, array, diskArray, member, overlapped>>

----------------------------------------------------------------------------
(* Creating, starting, stopping *)

\* create: the copy of a template has no names yet.
Create(c) ==
  /\ pc[c] = "idle" /\ "vm" \notin there
  /\ there' = {"vm", "vdi"}
  /\ tag' = [x \in {"vm", "vdi"} |-> {}]
  /\ running' = FALSE
  /\ Begins
  /\ UNCHANGED <<pc, array, diskArray, member>>

\* boot and shutdown
Power(c) ==
  /\ pc[c] = "idle" /\ "vm" \in there
  /\ running' = ~running
  /\ Begins
  /\ UNCHANGED <<there, tag, pc, array, diskArray, member>>

----------------------------------------------------------------------------
(* insertConfigName of a host, which goes on to its default disk *)

\* findVM and get_other_config
ReadToAdd(c) ==
  /\ "vm" \in there
  /\ Goto(c, "idle", "clearVm")
  /\ array' = [array EXCEPT ![c] = {Names("vm") \cup {c}}]
  /\ Begins
  /\ UNCHANGED <<there, tag, running, diskArray, member>>

\* Mutant: add_to_other_config without remove_from_other_config.
ClearNothing(c, from, to) == Goto(c, from, to) /\ Keep

ClearVm(c, from, to) ==
  /\ Goto(c, from, to)
  /\ tag' = Cleared("vm")
  /\ UNCHANGED <<there, running, array, diskArray, member, overlapped>>

WriteVm(c) ==
  /\ Goto(c, "writeVm", "readDisk")
  /\ tag' = Written("vm", UNION array[c])
  /\ UNCHANGED <<there, running, array, diskArray, member, overlapped>>

\* The disk is left alone if it has the name already.
ReadDisk(c) ==
  /\ Goto(c, "readDisk",
          IF "vdi" \in there /\ c \notin Names("vdi") THEN "clearDisk" ELSE "added")
  /\ diskArray' = [diskArray EXCEPT ![c] = Names("vdi") \cup {c}]
  /\ UNCHANGED <<there, tag, running, array, member, overlapped>>

ClearDisk(c, from, to) ==
  /\ Goto(c, from, to)
  /\ tag' = Cleared("vdi")
  /\ UNCHANGED <<there, running, array, diskArray, member, overlapped>>

WriteDisk(c, from, to) ==
  /\ Goto(c, from, to)
  /\ tag' = Written("vdi", diskArray[c])
  /\ UNCHANGED <<there, running, array, diskArray, member, overlapped>>

Added(c) ==
  /\ Goto(c, "added", "idle")
  /\ member' = member \cup {c}
  /\ array' = [array EXCEPT ![c] = {}] /\ diskArray' = [diskArray EXCEPT ![c] = {}]
  /\ UNCHANGED <<there, tag, running, overlapped>>

----------------------------------------------------------------------------
(* Builder.removeHost: removeConfigName, then destroy *)

\* Without a VM the array is None: the setup goes on.
ReadToRemove(c) ==
  /\ member' = member \ {c}
  /\ IF "vm" \in there
     THEN Goto(c, "idle", "dropVm")
     ELSE pc[c] = "idle" /\ UNCHANGED pc
  /\ Begins
  /\ array' = [array EXCEPT ![c] =
                 IF "vm" \in there THEN {names \ {c} : names \in tag["vm"]} ELSE {}]
  /\ UNCHANGED <<there, tag, running, diskArray>>

\* Without names in the VM there is no array: UnboundLocalError ends the step,
\* after the names are gone.
RewriteVm(c) ==
  /\ \/ /\ array[c] = {}
        /\ Goto(c, "rewriteVm", "idle") /\ UNCHANGED tag
     \/ \E names \in array[c] :
          Goto(c, "rewriteVm", "rereadDisk") /\ tag' = Written("vm", names)
  /\ UNCHANGED <<there, running, array, diskArray, member, overlapped>>

RereadDisk(c) ==
  /\ Goto(c, "rereadDisk",
          IF "vdi" \in there /\ c \in Names("vdi") THEN "dropDisk" ELSE "removed")
  /\ diskArray' = [diskArray EXCEPT ![c] = Names("vdi") \ {c}]
  /\ UNCHANGED <<there, tag, running, array, member, overlapped>>

\* Mutant: destroyed in any case.
RemovedAnyway(c) == Goto(c, "removed", "destroy") /\ Keep

\* Builder.removeHost destroys what no configuration is left on.
Removed(c) ==
  /\ Goto(c, "removed", IF array[c] = {{}} THEN "destroy" ELSE "idle")
  /\ array' = [array EXCEPT ![c] = {}] /\ diskArray' = [diskArray EXCEPT ![c] = {}]
  /\ UNCHANGED <<there, tag, running, member, overlapped>>

\* destroy: findVM and getState; then the names of the disk, which raise an
\* IndexError in the log message when the disk is gone.
Destroy(c) ==
  /\ Goto(c, "destroy",
          IF "vm" \notin there \/ running \/ "vdi" \notin there THEN "idle"
          ELSE IF Names("vdi") = {} THEN "destroyVdi" ELSE "destroyVm")
  /\ Keep

DestroyVdi(c) ==
  /\ Goto(c, "destroyVdi", "destroyVm")
  /\ there' = there \ {"vdi"}
  /\ UNCHANGED <<tag, running, array, diskArray, member, overlapped>>

\* Xen refuses to destroy a running VM.
DestroyVm(c) ==
  /\ Goto(c, "destroyVm", "idle")
  /\ there' = IF running THEN there ELSE there \ {"vm"}
  /\ UNCHANGED <<tag, running, array, diskArray, member, overlapped>>

Setup(c) ==
  \/ Create(c) \/ Power(c)
  \/ ReadToAdd(c) \/ ClearVm(c, "clearVm", "writeVm") \/ WriteVm(c)
  \/ ReadDisk(c) \/ ClearDisk(c, "clearDisk", "writeDisk")
  \/ WriteDisk(c, "writeDisk", "added") \/ Added(c)
  \/ ReadToRemove(c) \/ ClearVm(c, "dropVm", "rewriteVm") \/ RewriteVm(c)
  \/ RereadDisk(c) \/ ClearDisk(c, "dropDisk", "rewriteDisk")
  \/ WriteDisk(c, "rewriteDisk", "removed") \/ Removed(c)
  \/ Destroy(c) \/ DestroyVdi(c) \/ DestroyVm(c)

Next == \E c \in Configs : Setup(c)

Spec == Init /\ [][Next]_vars

----------------------------------------------------------------------------
(* Properties *)

\* The types of the variables, and that a setup keeps no array longer than it
\* needs it.
TypeOK ==
  /\ there \subseteq {"vm", "vdi"} /\ running \in BOOLEAN /\ overlapped \in BOOLEAN
  /\ tag \in [{"vm", "vdi"} -> SUBSET SUBSET Configs]
  /\ \A x \in {"vm", "vdi"} : \A m, n \in tag[x] : m = n
  /\ pc \in [Configs -> Steps]
  /\ array \in [Configs -> SUBSET SUBSET Configs]
  /\ diskArray \in [Configs -> SUBSET Configs]
  /\ member \subseteq Configs
  /\ \A c \in Configs :
       /\ pc[c] \in {"idle", "destroy", "destroyVdi", "destroyVm"} => array[c] = {}
       /\ pc[c] \notin {"clearDisk", "writeDisk", "added", "dropDisk", "rewriteDisk", "removed"} =>
            diskArray[c] = {}

Quiet == \A c \in Configs : pc[c] = "idle"

\* As long as no setup changes the machine in the middle of another's change,
\* the names in the VM and in its disk are, between the changes, those of the
\* configurations that have the machine (insertConfigName, removeConfigName).
\* Two setups that overlap lose each other's name: the second add_to fails.
NamesAreMembers ==
  ~overlapped /\ Quiet /\ "vm" \in there => Names("vm") = member /\ Names("vdi") = member

\* Without an overlap, a machine that is part of a configuration is never
\* destroyed, not even by the setups of configurations that never had it, and
\* the VM and its disk go together (Builder.removeHost, destroy).
UsedMachinesStay ==
  ~overlapped =>
    /\ member # {} => there = {"vm", "vdi"}
    /\ Quiet => there \in {{}, {"vm", "vdi"}}
=============================================================================

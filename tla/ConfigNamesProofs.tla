-------------------------- MODULE ConfigNamesProofs --------------------------
(***************************************************************************)
(* Proofs about ConfigNames for any set of configurations: as long as the  *)
(* changes of two setups do not overlap, the names are those of the        *)
(* members and no machine of a member is destroyed.                        *)
(***************************************************************************)
EXTENDS ConfigNames, TLAPS

Both == there = {"vm", "vdi"}

\* Between two changes the machine is complete and named after its members, or
\* gone and without members.
Tidy ==
  \/ there = {} /\ member = {}
  \/ Both /\ Names("vm") = member /\ Names("vdi") = member

\* What the setup of c has done and knows at each step of a change.
Adding(c) ==
  /\ pc[c] = "clearVm" =>
       Both /\ array[c] = {member \cup {c}} /\ Names("vdi") = member
  /\ pc[c] = "writeVm" =>
       Both /\ array[c] = {member \cup {c}} /\ Names("vdi") = member /\ tag["vm"] = {}
  /\ pc[c] = "readDisk" =>
       Both /\ Names("vm") = member \cup {c} /\ Names("vdi") = member
  /\ pc[c] = "clearDisk" =>
       Both /\ Names("vm") = member \cup {c} /\ diskArray[c] = member \cup {c}
  /\ pc[c] = "writeDisk" =>
       Both /\ Names("vm") = member \cup {c} /\ diskArray[c] = member \cup {c} /\ tag["vdi"] = {}
  /\ pc[c] = "added" =>
       Both /\ Names("vm") = member \cup {c} /\ Names("vdi") = member \cup {c}

\* The array of a VM without names, or the members.
Remaining(c) ==
  \/ array[c] = {} /\ member = {} /\ Names("vdi") = {}
  \/ array[c] = {member} /\ Names("vdi") \ {c} = member

Removing(c) ==
  /\ pc[c] = "dropVm" => Both /\ Remaining(c)
  /\ pc[c] = "rewriteVm" => Both /\ Remaining(c) /\ tag["vm"] = {}
  /\ pc[c] = "rereadDisk" =>
       Both /\ array[c] = {member} /\ Names("vm") = member /\ Names("vdi") \ {c} = member
  /\ pc[c] = "dropDisk" =>
       Both /\ array[c] = {member} /\ Names("vm") = member /\ diskArray[c] = member
  /\ pc[c] = "rewriteDisk" =>
       Both /\ array[c] = {member} /\ Names("vm") = member /\ diskArray[c] = member
            /\ tag["vdi"] = {}
  /\ pc[c] = "removed" =>
       Both /\ array[c] = {member} /\ Names("vm") = member /\ Names("vdi") = member

Destroying(c) ==
  /\ pc[c] = "destroy" =>
       Both /\ member = {} /\ Names("vm") = {} /\ Names("vdi") = {}
  /\ pc[c] = "destroyVdi" => Both /\ member = {} /\ ~running
  /\ pc[c] = "destroyVm" => there = {"vm"} /\ member = {} /\ ~running

Stage(c) == Adding(c) /\ Removing(c) /\ Destroying(c)

Alone == \A c, d \in Configs : pc[c] # "idle" /\ pc[d] # "idle" => c = d

Ordered == Alone /\ (Quiet => Tidy) /\ \A c \in Configs : Stage(c)

IInv == TypeOK /\ (~overlapped => Ordered)

----------------------------------------------------------------------------
LEMMA UnionOfOne == ASSUME NEW s PROVE UNION {s} = s
OBVIOUS

LEMMA UnionOfNone == UNION {} = {}
OBVIOUS

\* The variables keep their types, and an array is not kept longer than needed.
THEOREM TypeCorrect == Spec => []TypeOK
<1>1. Init => TypeOK
  BY DEF Init, TypeOK, Steps
<1>2. TypeOK /\ [Next]_vars => TypeOK'
  <2> SUFFICES ASSUME TypeOK, [Next]_vars PROVE TypeOK'
    OBVIOUS
  <2> USE DEF TypeOK, Goto, Begins, Keep, Steps
  <2>1. ASSUME NEW c \in Configs, Create(c) PROVE TypeOK'
    BY <2>1 DEF Create
  <2>2. ASSUME NEW c \in Configs, Power(c) PROVE TypeOK'
    BY <2>2 DEF Power
  <2>3. ASSUME NEW c \in Configs, ReadToAdd(c) PROVE TypeOK'
    BY <2>3 DEF ReadToAdd, Names
  <2>4. ASSUME NEW c \in Configs, NEW from \in {"clearVm", "dropVm"},
               NEW to \in {"writeVm", "rewriteVm"}, ClearVm(c, from, to)
        PROVE TypeOK'
    BY <2>4 DEF ClearVm, Cleared
  <2>5. ASSUME NEW c \in Configs, WriteVm(c) PROVE TypeOK'
    BY <2>5 DEF WriteVm, Written
  <2>6. ASSUME NEW c \in Configs, ReadDisk(c) PROVE TypeOK'
    BY <2>6 DEF ReadDisk, Names
  <2>7. ASSUME NEW c \in Configs, NEW from \in {"clearDisk", "dropDisk"},
               NEW to \in {"writeDisk", "rewriteDisk"}, ClearDisk(c, from, to)
        PROVE TypeOK'
    BY <2>7 DEF ClearDisk, Cleared
  <2>8. ASSUME NEW c \in Configs, NEW from \in {"writeDisk", "rewriteDisk"},
               NEW to \in {"added", "removed"}, WriteDisk(c, from, to)
        PROVE TypeOK'
    BY <2>8 DEF WriteDisk, Written
  <2>9. ASSUME NEW c \in Configs, Added(c) PROVE TypeOK'
    BY <2>9 DEF Added
  <2>10. ASSUME NEW c \in Configs, ReadToRemove(c) PROVE TypeOK'
    BY <2>10 DEF ReadToRemove
  <2>11. ASSUME NEW c \in Configs, RewriteVm(c) PROVE TypeOK'
    BY <2>11 DEF RewriteVm, Written
  <2>12. ASSUME NEW c \in Configs, RereadDisk(c) PROVE TypeOK'
    BY <2>12 DEF RereadDisk, Names
  <2>13. ASSUME NEW c \in Configs, Removed(c) PROVE TypeOK'
    BY <2>13 DEF Removed
  <2>14. ASSUME NEW c \in Configs, Destroy(c) PROVE TypeOK'
    BY <2>14 DEF Destroy
  <2>15. ASSUME NEW c \in Configs, DestroyVdi(c) PROVE TypeOK'
    BY <2>15 DEF DestroyVdi
  <2>16. ASSUME NEW c \in Configs, DestroyVm(c) PROVE TypeOK'
    BY <2>16 DEF DestroyVm
  <2>17. CASE UNCHANGED vars
    BY <2>17 DEF vars
  <2>18. QED
    BY <2>1, <2>2, <2>3, <2>4, <2>5, <2>6, <2>7, <2>8, <2>9, <2>10, <2>11, <2>12,
       <2>13, <2>14, <2>15, <2>16, <2>17 DEF Next, Setup
<1>3. QED
  BY <1>1, <1>2, PTL DEF Spec

----------------------------------------------------------------------------
\* A setup that changes the machine without an overlap is alone.
LEMMA AloneInStep ==
  ASSUME Ordered, NEW c \in Configs, pc[c] # "idle"
  PROVE  \A d \in Configs : d # c => pc[d] = "idle"
BY DEF Ordered, Alone

\* It suffices to look at the stage of the setup that takes the step: the
\* others are between two changes.
LEMMA OrderedAfter ==
  ASSUME TypeOK, TypeOK', NEW c \in Configs,
         \A d \in Configs : d # c => pc[d] = "idle" /\ pc'[d] = "idle",
         pc'[c] = "idle" => Tidy', Stage(c)'
  PROVE  Ordered'
<1>1. Alone'
  BY DEF Alone
<1>2. Quiet' => Tidy'
  BY DEF Quiet
<1>3. \A d \in Configs : d # c => Stage(d)'
  BY DEF Stage, Adding, Removing, Destroying
<1>4. QED
  BY <1>1, <1>2, <1>3 DEF Ordered

\* Every step without an overlap keeps the order.
LEMMA StepKeepsOrder ==
  ASSUME IInv, TypeOK', ~overlapped', NEW c \in Configs, Setup(c)
  PROVE  Ordered'
<1> USE DEF IInv, Goto, Begins, Keep
<1>0. ~overlapped /\ Ordered
  <2>1. ~overlapped
    BY DEF Setup, Create, Power, ReadToAdd, ClearVm, WriteVm, ReadDisk, ClearDisk, WriteDisk,
           Added, ReadToRemove, RewriteVm, RereadDisk, Removed, Destroy, DestroyVdi, DestroyVm
  <2>2. QED
    BY <2>1
<1>1. \A d \in Configs : d # c => pc[d] = "idle"
  <2>1. CASE pc[c] # "idle"
    BY <2>1, <1>0, AloneInStep
  <2>2. CASE pc[c] = "idle"
    BY <2>2, <1>0 DEF Setup, Create, Power, ReadToAdd, ClearVm, WriteVm, ReadDisk, ClearDisk,
           WriteDisk, Added, ReadToRemove, RewriteVm, RereadDisk, Removed, Destroy,
           DestroyVdi, DestroyVm
  <2>3. QED
    BY <2>1, <2>2
<1>2. \A d \in Configs : d # c => pc'[d] = pc[d]
  BY DEF TypeOK, Setup, Create, Power, ReadToAdd, ClearVm, WriteVm, ReadDisk, ClearDisk,
         WriteDisk, Added, ReadToRemove, RewriteVm, RereadDisk, Removed, Destroy,
         DestroyVdi, DestroyVm
<1>3. SUFFICES (pc'[c] = "idle" => Tidy') /\ Stage(c)'
  BY <1>1, <1>2, OrderedAfter
<1>4. Stage(c) /\ (pc[c] = "idle" => Tidy)
  BY <1>0, <1>1 DEF Ordered, Quiet
<1>5. CASE Create(c)
  BY <1>4, <1>5, UnionOfNone DEF Create, Stage, Adding, Removing, Destroying, Tidy, Both, Names,
     TypeOK
<1>6. CASE Power(c)
  BY <1>4, <1>6 DEF Power, Stage, Adding, Removing, Destroying, Tidy, Both, Names
<1>7. CASE ReadToAdd(c)
  BY <1>4, <1>7 DEF ReadToAdd,
     Stage, Adding, Removing, Destroying, Tidy, Both, Names, TypeOK
<1>8. CASE ClearVm(c, "clearVm", "writeVm")
  BY <1>4, <1>8 DEF ClearVm, Cleared,
     Stage, Adding, Removing, Destroying, Tidy, Both, Names, TypeOK
<1>9. CASE WriteVm(c)
  <2>1. Both /\ array[c] = {member \cup {c}} /\ Names("vdi") = member /\ tag["vm"] = {}
    BY <1>4, <1>9 DEF WriteVm, Stage, Adding
  <2>2. UNION array[c] = member \cup {c}
    BY <2>1, UnionOfOne
  <2>3. tag' = [tag EXCEPT !["vm"] = {member \cup {c}}]
    BY <1>9, <2>1, <2>2 DEF WriteVm, Written, Both
  <2>4. Names("vm")' = member \cup {c} /\ Names("vdi")' = member
    BY <2>1, <2>3, UnionOfOne DEF TypeOK, Names
  <2>5. pc'[c] = "readDisk" /\ Both' /\ member' = member
    BY <1>9, <2>1 DEF WriteVm, Both, TypeOK
  <2>6. QED
    BY <2>4, <2>5 DEF Stage, Adding, Removing, Destroying
<1>10. CASE ReadDisk(c)
  BY <1>4, <1>10 DEF ReadDisk,
     Stage, Adding, Removing, Destroying, Tidy, Both, Names, TypeOK
<1>11. CASE ClearDisk(c, "clearDisk", "writeDisk")
  BY <1>4, <1>11 DEF ClearDisk, Cleared,
     Stage, Adding, Removing, Destroying, Tidy, Both, Names, TypeOK
<1>12. CASE WriteDisk(c, "writeDisk", "added")
  BY <1>4, <1>12, UnionOfOne DEF WriteDisk, Written,
     Stage, Adding, Removing, Destroying, Tidy, Both, Names, TypeOK
<1>13. CASE Added(c)
  BY <1>4, <1>13 DEF Added,
     Stage, Adding, Removing, Destroying, Tidy, Both, Names, TypeOK
<1>14. CASE ReadToRemove(c)
  <2>1. Tidy
    BY <1>4, <1>14 DEF ReadToRemove
  <2>2. CASE there = {}
    BY <1>14, <2>1, <2>2 DEF ReadToRemove,
     Stage, Adding, Removing, Destroying, Tidy, Both, Names, TypeOK
  <2>3. CASE Both
    <3>1. Names("vm") = member /\ Names("vdi") = member
      BY <2>1, <2>3 DEF Tidy, Both
    <3>2. pc' = [pc EXCEPT ![c] = "dropVm"] /\ member' = member \ {c} /\ Both'
      BY <1>14, <2>3 DEF ReadToRemove, Both
    <3>3. array'[c] = {names \ {c} : names \in tag["vm"]}
      BY <1>14, <2>3 DEF ReadToRemove, Both, TypeOK
    <3>4. Names("vdi")' = member
      BY <1>14, <3>1 DEF ReadToRemove, Names
    <3>5. tag["vm"] = {} \/ tag["vm"] = {member}
      <4>1. \A m, n \in tag["vm"] : m = n
        BY DEF TypeOK
      <4>2. CASE tag["vm"] # {}
        <5>1. PICK m \in tag["vm"] : tag["vm"] = {m}
          BY <4>1, <4>2
        <5>2. QED
          BY <3>1, <5>1, UnionOfOne DEF Names
      <4>3. QED
        BY <4>2
    <3>6. Remaining(c)'
      <4>1. CASE tag["vm"] = {}
        <5>1. member = {}
          BY <3>1, <4>1, UnionOfNone DEF Names
        <5>2. array'[c] = {}
          BY <3>3, <4>1
        <5>3. QED
          BY <3>2, <3>4, <5>1, <5>2 DEF Remaining
      <4>2. CASE tag["vm"] = {member}
        <5>1. array'[c] = {member \ {c}}
          BY <3>3, <4>2
        <5>2. QED
          BY <3>2, <3>4, <5>1 DEF Remaining
      <4>3. QED
        BY <3>5, <4>1, <4>2
    <3>7. pc'[c] = "dropVm"
      BY <3>2 DEF TypeOK
    <3>8. QED
      BY <3>2, <3>6, <3>7 DEF Stage, Adding, Removing, Destroying
  <2>4. QED
    BY <2>1, <2>2, <2>3 DEF Tidy
<1>15. CASE ClearVm(c, "dropVm", "rewriteVm")
  BY <1>4, <1>15 DEF ClearVm, Cleared,
     Stage, Adding, Removing, Destroying, Tidy, Both, Names, Remaining, TypeOK
<1>16. CASE RewriteVm(c)
  BY <1>4, <1>16, UnionOfOne, UnionOfNone DEF RewriteVm, Written,
     Stage, Adding, Removing, Destroying, Tidy, Both, Names, Remaining, TypeOK
<1>17. CASE RereadDisk(c)
  BY <1>4, <1>17 DEF RereadDisk,
     Stage, Adding, Removing, Destroying, Tidy, Both, Names, TypeOK
<1>18. CASE ClearDisk(c, "dropDisk", "rewriteDisk")
  BY <1>4, <1>18 DEF ClearDisk, Cleared,
     Stage, Adding, Removing, Destroying, Tidy, Both, Names, TypeOK
<1>19. CASE WriteDisk(c, "rewriteDisk", "removed")
  BY <1>4, <1>19, UnionOfOne DEF WriteDisk, Written,
     Stage, Adding, Removing, Destroying, Tidy, Both, Names, TypeOK
<1>20. CASE Removed(c)
  BY <1>4, <1>20 DEF Removed,
     Stage, Adding, Removing, Destroying, Tidy, Both, Names, TypeOK
<1>21. CASE Destroy(c)
  BY <1>4, <1>21 DEF Destroy,
     Stage, Adding, Removing, Destroying, Tidy, Both, Names, TypeOK
<1>22. CASE DestroyVdi(c)
  BY <1>4, <1>22 DEF DestroyVdi,
     Stage, Adding, Removing, Destroying, Tidy, Both, Names, TypeOK
<1>23. CASE DestroyVm(c)
  BY <1>4, <1>23 DEF DestroyVm,
     Stage, Adding, Removing, Destroying, Tidy, Both, Names, TypeOK
<1>24. QED
  BY <1>5, <1>6, <1>7, <1>8, <1>9, <1>10, <1>11, <1>12, <1>13, <1>14, <1>15, <1>16,
     <1>17, <1>18, <1>19, <1>20, <1>21, <1>22, <1>23 DEF Setup

\* The order is kept until the first overlap.
LEMMA OrderInvariant == Spec => []IInv
<1>1. Init => IInv
  <2>1. Init => TypeOK
    BY DEF Init, TypeOK, Steps
  <2>2. Init => Ordered
    BY DEF Init, Ordered, Alone, Quiet, Tidy, Stage, Adding, Removing, Destroying
  <2>3. QED
    BY <2>1, <2>2 DEF IInv
<1>2. IInv /\ TypeOK' /\ [Next]_vars => IInv'
  <2> SUFFICES ASSUME IInv, TypeOK', [Next]_vars, ~overlapped' PROVE Ordered'
    BY DEF IInv
  <2>1. CASE UNCHANGED vars
    BY <2>1 DEF IInv, vars, Ordered, Alone, Quiet, Tidy, Stage, Adding, Removing, Destroying,
       Remaining, Both, Names
  <2>2. CASE Next
    BY <2>2, StepKeepsOrder DEF Next
  <2>3. QED
    BY <2>1, <2>2
<1>3. QED
  BY <1>1, <1>2, TypeCorrect, PTL DEF Spec

\* Without an overlap, the names in the VM and in its disk are those of the
\* configurations that have the machine (insertConfigName, removeConfigName).
THEOREM NamesStayTrue == Spec => []NamesAreMembers
<1>1. IInv => NamesAreMembers
  BY DEF IInv, Ordered, Tidy, NamesAreMembers
<1>2. QED
  BY <1>1, OrderInvariant, PTL

\* Without an overlap, no setup destroys a machine that is part of some
\* configuration (Builder.removeHost, destroy).
THEOREM MembersKeepTheirMachine == Spec => []UsedMachinesStay
<1>1. ASSUME IInv, ~overlapped PROVE Quiet => there \in {{}, {"vm", "vdi"}}
  BY <1>1 DEF IInv, Ordered, Tidy, Both
<1>2. ASSUME IInv, ~overlapped, member # {} PROVE Both
  <2>1. CASE Quiet
    BY <1>2, <2>1 DEF IInv, Ordered, Tidy
  <2>2. CASE ~Quiet
    <3>1. PICK c \in Configs : pc[c] # "idle"
      BY <2>2 DEF Quiet
    <3>2. Stage(c) /\ pc[c] \in Steps
      BY <1>2 DEF IInv, Ordered, TypeOK
    <3>3. QED
      BY <1>2, <3>1, <3>2 DEF Stage, Adding, Removing, Destroying, Steps
  <2>3. QED
    BY <2>1, <2>2
<1>3. IInv => UsedMachinesStay
  BY <1>1, <1>2 DEF UsedMachinesStay, Both
<1>4. QED
  BY <1>3, OrderInvariant, PTL
=============================================================================

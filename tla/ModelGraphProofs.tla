--------------------------- MODULE ModelGraphProofs ---------------------------
(***************************************************************************)
(* Theorems about ModelGraph, for every set of collectors and every        *)
(* script.                                                                 *)
(***************************************************************************)
EXTENDS ModelGraph, SequenceTheorems, TLAPS

\* The control of a call: a call is under way, it is about an element, what is
\* to be linked is there.
CallsInv ==
    \A c \in Collectors :
        /\ pc[c] # "idle" => Calling(c)
        /\ pc[c] = "looking" => Call(c).op = "get"
        /\ pc[c] \in {"linking", "replacing", "dropping", "checked", "half"} => here[c] \in Objects
        /\ pc[c] \in {"replacing", "dropping", "checked", "half"} => MoreLinks(c)
        /\ pc[c] \in {"checked", "half"} => Target(c) # None

AreFunctions ==
    /\ object = [o \in Objects |-> object[o]]
    /\ step \in [Collectors -> Nat]

TypesInv == TypeOK /\ AreFunctions /\ CallsInv
------------------------------------------------------------------------------
(* Calls and links *)

LEMMA NumberIsNoNone == None \notin Objects /\ Graph \notin Objects /\ Graph # None
BY GraphAssumption DEF None, Objects, Graph

\* The call a collector is in is one of its script.
LEMMA CallIsLegal ==
    ASSUME TypeOK, AreFunctions, NEW c \in Collectors, Calling(c)
    PROVE  LegalCall(Call(c), step[c]) /\ step[c] = Len(got[c]) + 1 /\ step[c] \in Nat
<1>1. step[c] = Len(got[c]) + 1 /\ got[c] \in Seq(Objects)
  BY DEF TypeOK
<1>2. step[c] \in 1..Len(Script[c])
  <2>1. Len(got[c]) \in Nat
    BY <1>1, LenProperties
  <2>2. Len(Script[c]) \in Nat
    BY GraphAssumption
  <2> QED
    BY <1>1, <2>1, <2>2 DEF Calling
<1> QED
  BY <1>1, <1>2, GraphAssumption DEF AreFunctions, Call

\* References to earlier results become elements.
LEMMA ReferenceIsElement ==
    ASSUME TypeOK, AreFunctions, NEW c \in Collectors, Calling(c),
           NEW i \in 1..(step[c] - 1)
    PROVE  got[c][i] \in Objects
<1>1. step[c] = Len(got[c]) + 1 /\ got[c] \in Seq(Objects)
  BY DEF TypeOK
<1>2. i \in 1..Len(got[c])
  BY <1>1, LenProperties
<1> QED
  BY <1>1, <1>2, ElementOfSeq

LEMMA ResolvedLink ==
    ASSUME TypeOK, AreFunctions, NEW c \in Collectors, Calling(c),
           NEW link, LegalLink(link, step[c])
    PROVE  Resolved(c, link) \in LinkRecord
<1>1. step[c] \in Nat
  BY CallIsLegal
<1>2. (IF link.to = 0 THEN None ELSE got[c][link.to]) \in Objects \cup {None}
  <2>1. CASE link.to = 0
    BY <2>1
  <2>2. CASE link.to # 0
    <3>1. link.to \in 1..(step[c] - 1)
      BY <1>1, <2>2 DEF LegalLink
    <3> QED
      BY <2>2, <3>1, ReferenceIsElement
  <2> QED
    BY <2>1, <2>2
<1> QED
  BY <1>2 DEF Resolved, LegalLink, LinkRecord

LEMMA ResolvedLinks ==
    ASSUME TypeOK, AreFunctions, NEW c \in Collectors, Calling(c),
           NEW links, LegalLinks(links, step[c])
    PROVE  ResolvedAll(c, links) \in Seq(LinkRecord)
<1>1. Len(links) \in Nat
  BY DEF LegalLinks
<1>2. \A j \in 1..Len(links) : Resolved(c, links[j]) \in LinkRecord
  BY ResolvedLink DEF LegalLinks
<1>3. ResolvedAll(c, links) \in [1..Len(links) -> LinkRecord]
  BY <1>2 DEF ResolvedAll
<1> QED
  BY <1>1, <1>3, SeqDef

\* What the first link to be made is.
LEMMA FirstLink ==
    ASSUME TypeOK, NEW c \in Collectors, todo[c] # <<>>
    PROVE  Head(todo[c]) \in LinkRecord /\ Tail(todo[c]) \in Seq(LinkRecord)
<1>1. todo[c] \in Seq(LinkRecord)
  BY DEF TypeOK
<1> QED
  BY <1>1, HeadTailProperties

\* The edge a call creates: between two elements, or from the graph to the new
\* element, and that one has no timeout.
LEMMA EdgeOfCall ==
    ASSUME TypesInv, NEW c \in Collectors, pc[c] \in {"checked", "half"}
    PROVE  /\ NewEdge(c) \in EdgeRecord
           /\ NewEdge(c).first = First(c) /\ First(c) \in Nodes
           /\ NewEdge(c).second = Second(c) /\ Second(c) \in Objects
           /\ First(c) = Graph <=> todo[c] = <<>>
           /\ todo[c] = <<>> => Second(c) = here[c] /\ ~NewEdge(c).timed /\ fresh[c]
<1>1. here[c] \in Objects /\ Target(c) # None /\ MoreLinks(c)
  BY DEF TypesInv, CallsInv
<1>2. CASE todo[c] = <<>>
  BY <1>1, <1>2, NumberIsNoNone
  DEF First, Second, Source, Target, How, NewEdge, EdgeRecord, Nodes, MoreLinks
<1>3. CASE todo[c] # <<>>
  <2>1. Head(todo[c]) \in LinkRecord
    BY <1>3, FirstLink DEF TypesInv
  <2>2. Target(c) \in Objects /\ Source(c) = here[c]
    BY <1>1, <1>3, <2>1 DEF Target, Source, LinkRecord
  <2>3. First(c) \in Objects /\ Second(c) \in Objects
    BY <1>1, <2>2 DEF First, Second
  <2>4. Head(todo[c]).timed \in BOOLEAN
    BY <2>1 DEF LinkRecord
  <2> QED
    BY <1>3, <2>3, <2>4, NumberIsNoNone DEF NewEdge, EdgeRecord, Nodes
<1> QED
  BY <1>2, <1>3
------------------------------------------------------------------------------
(* Types *)

\* Deletions touch neither calls nor locks.
LEMMA DeletionTypes ==
    ASSUME TypesInv,
           \/ \E o \in Objects : Delete(o)
           \/ \E n \in Nodes : ExpireEdge(n)
    PROVE  TypesInv'
<1>1. UNCHANGED <<object, lock, callVars>>
  BY DEF Delete, Mark, TakeEdges, Unlink, UnlinkFails, Gone, ExpireEdge
<1>2. /\ edges' \in [Nodes -> SUBSET EdgeRecord]
      /\ removing' \in [Objects -> {"no", "marked", "unlinking", "gone"}]
      /\ doomed' \in [Objects -> SUBSET EdgeRecord]
  <2> USE DEF TypesInv, TypeOK
  <2>1. ASSUME NEW o \in Objects, Mark(o) PROVE <1>2!1 /\ <1>2!2 /\ <1>2!3
    BY <2>1 DEF Mark
  <2>2. ASSUME NEW o \in Objects, TakeEdges(o) PROVE <1>2!1 /\ <1>2!2 /\ <1>2!3
    BY <2>2 DEF TakeEdges, Nodes
  <2>3. ASSUME NEW o \in Objects, Unlink(o) PROVE <1>2!1 /\ <1>2!2 /\ <1>2!3
    BY <2>3 DEF Unlink, Unlinked
  <2>4. ASSUME NEW o \in Objects, UnlinkFails(o) PROVE <1>2!1 /\ <1>2!2 /\ <1>2!3
    BY <2>4 DEF UnlinkFails, Unlinked
  <2>5. ASSUME NEW o \in Objects, Gone(o) PROVE <1>2!1 /\ <1>2!2 /\ <1>2!3
    BY <2>5 DEF Gone
  <2>6. ASSUME NEW n \in Nodes, ExpireEdge(n) PROVE <1>2!1 /\ <1>2!2 /\ <1>2!3
    BY <2>6 DEF ExpireEdge, Unlinked
  <2> QED
    BY <2>1, <2>2, <2>3, <2>4, <2>5, <2>6 DEF Delete
<1>3. TypeOK'
  BY <1>1, <1>2 DEF TypesInv, TypeOK, Exists, callVars
<1>4. AreFunctions' /\ CallsInv'
  BY <1>1 DEF TypesInv, AreFunctions, CallsInv, callVars, Calling, Call, MoreLinks, Target
<1> QED
  BY <1>3, <1>4 DEF TypesInv

LEMMA CallTypes ==
    ASSUME TypesInv, NEW c \in Collectors, Collect(c)
    PROVE  TypesInv'
<1> USE DEF TypesInv
<1>1. CASE Acquire(c)
  <2>1. Call(c).type \in Types
    BY <1>1, CallIsLegal DEF Acquire, LegalCall
  <2>2. TypeOK'
    BY <1>1, <2>1 DEF Acquire, TypeOK, PCs, graphVars, Exists
  <2>3. AreFunctions' /\ CallsInv'
    BY <1>1 DEF Acquire, AreFunctions, TypeOK, graphVars, CallsInv, Calling, Call, MoreLinks, Target
  <2> QED
    BY <2>2, <2>3
<1>2. CASE Find(c)
  <2>1. PICK o \in Matches(c) :
            /\ here' = [here EXCEPT ![c] = o]
            /\ todo' = [todo EXCEPT ![c] = ResolvedAll(c, Call(c).found)]
    BY <1>2 DEF Find
  <2>2. o \in Objects
    BY DEF Matches, Neighbours
  <2>3. Calling(c) /\ Call(c).op = "get"
    BY <1>2 DEF Find, CallsInv
  <2>4. ResolvedAll(c, Call(c).found) \in Seq(LinkRecord)
    BY <2>3, CallIsLegal, ResolvedLinks DEF LegalCall
  <2>5. TypeOK'
    BY <1>2, <2>1, <2>2, <2>4 DEF Find, TypeOK, PCs, graphVars, Exists
  <2>6. AreFunctions' /\ CallsInv'
    BY <1>2, <2>1, <2>2 DEF Find, AreFunctions, TypeOK, graphVars, CallsInv, Calling, Call, MoreLinks, Target
  <2> QED
    BY <2>5, <2>6
<1>3. CASE Create(c)
  <2>1. PICK o \in Objects :
            /\ object' = [object EXCEPT ![o] =
                  [type |-> Call(c).type, key |-> Call(c).key, value |-> Call(c).value]]
            /\ here' = [here EXCEPT ![c] = o]
            /\ todo' = [todo EXCEPT ![c] = ResolvedAll(c, Call(c).new)]
    BY <1>3 DEF Create
  <2>2. Calling(c) /\ Call(c).op = "get"
    BY <1>3 DEF Create, CallsInv
  <2>3. ResolvedAll(c, Call(c).new) \in Seq(LinkRecord) /\ Call(c).type \in Types
    BY <2>2, CallIsLegal, ResolvedLinks DEF LegalCall
  <2>4. AreFunctions'
    BY <1>3, <2>1 DEF Create, AreFunctions
  <2>5. \A p \in Objects : Exists(p)' => object'[p].type \in Types
    BY <2>1, <2>3 DEF AreFunctions, TypeOK, Exists
  <2>6. TypeOK'
    BY <1>3, <2>1, <2>3, <2>5 DEF Create, TypeOK, PCs
  <2>7. CallsInv'
    BY <1>3, <2>1 DEF Create, TypeOK, CallsInv, Calling, Call, MoreLinks, Target
  <2> QED
    BY <2>4, <2>6, <2>7
<1>4. CASE CallLink(c)
  <2>1. Calling(c) /\ LegalCall(Call(c), step[c]) /\ Call(c).op = "link"
    BY <1>4, CallIsLegal DEF CallLink
  <2>2. got[c][Call(c).of] \in Objects
    BY <2>1, ReferenceIsElement DEF LegalCall
  <2>3. Resolved(c, Call(c).link) \in LinkRecord
    BY <2>1, ResolvedLink DEF LegalCall
  <2>4. <<Resolved(c, Call(c).link)>> \in Seq(LinkRecord)
    BY <2>3
  <2>5. TypeOK'
    BY <1>4, <2>2, <2>4 DEF CallLink, TypeOK, PCs, graphVars, Exists
  <2>6. AreFunctions' /\ CallsInv'
    BY <1>4, <2>2 DEF CallLink, AreFunctions, TypeOK, graphVars, CallsInv, Calling, Call, MoreLinks, Target
  <2> QED
    BY <2>5, <2>6
<1>5. CASE Verify(c)
  <2>1. Tail(todo[c]) \in Seq(LinkRecord)
    BY <1>5, FirstLink DEF Verify
  <2>2. TypeOK'
    BY <1>5, <2>1 DEF Verify, TypeOK, graphVars, Exists
  <2>3. AreFunctions' /\ CallsInv'
    BY <1>5 DEF Verify, AreFunctions, TypeOK, graphVars, CallsInv, Calling, Call, MoreLinks, Target
  <2> QED
    BY <2>2, <2>3
<1>6. CASE Replace(c)
  <2>1. here[c] \in Objects
    BY <1>6 DEF Replace, CallsInv
  <2>2. edges[here[c]] \subseteq EdgeRecord
    BY <2>1 DEF TypeOK, Nodes
  <2>3. dropping' \in [Collectors -> SUBSET EdgeRecord]
    BY <1>6, <2>2 DEF Replace, TypeOK
  <2>4. TypeOK'
    BY <1>6, <2>3 DEF Replace, TypeOK, PCs, graphVars, Exists
  <2>5. AreFunctions' /\ CallsInv'
    BY <1>6 DEF Replace, AreFunctions, TypeOK, graphVars, CallsInv, Calling, Call, MoreLinks, Target
  <2> QED
    BY <2>4, <2>5
<1>7. CASE Drop(c)
  <2>1. edges' \in [Nodes -> SUBSET EdgeRecord] /\ dropping' \in [Collectors -> SUBSET EdgeRecord]
    BY <1>7 DEF Drop, Unlinked, TypeOK
  <2>2. TypeOK'
    BY <1>7, <2>1 DEF Drop, TypeOK, Exists
  <2>3. AreFunctions' /\ CallsInv'
    BY <1>7 DEF Drop, AreFunctions, TypeOK, CallsInv, Calling, Call, MoreLinks, Target
  <2> QED
    BY <2>2, <2>3
<1>8. CASE Differs(c)
  <2>1. TypeOK'
    BY <1>8 DEF Differs, TypeOK, PCs, graphVars, Exists
  <2>2. AreFunctions' /\ CallsInv'
    BY <1>8 DEF Differs, AreFunctions, TypeOK, graphVars, CallsInv, Calling, Call, MoreLinks, Target
  <2> QED
    BY <2>1, <2>2
<1>9. CASE DropFails(c)
  <2>1. edges' \in [Nodes -> SUBSET EdgeRecord]
    BY <1>9 DEF DropFails, Unlinked, TypeOK
  <2>2. TypeOK'
    BY <1>9, <2>1 DEF DropFails, TypeOK, PCs, Exists
  <2>3. AreFunctions' /\ CallsInv'
    BY <1>9 DEF DropFails, AreFunctions, TypeOK, CallsInv, Calling, Call, MoreLinks, Target
  <2> QED
    BY <2>2, <2>3
<1>10. CASE Raise(c)
  <2>1. TypeOK'
    BY <1>10 DEF Raise, TypeOK, PCs, graphVars, Exists
  <2>2. AreFunctions' /\ CallsInv'
    BY <1>10 DEF Raise, AreFunctions, TypeOK, graphVars, CallsInv, Calling, Call, MoreLinks, Target
  <2> QED
    BY <2>1, <2>2
<1>11. CASE CheckDeprecated(c)
  <2>1. TypeOK'
    BY <1>11 DEF CheckDeprecated, TypeOK, PCs, graphVars, Exists
  <2>2. AreFunctions' /\ CallsInv'
    BY <1>11 DEF CheckDeprecated, Raises, AreFunctions, TypeOK, graphVars, CallsInv, Calling, Call, MoreLinks, Target
  <2> QED
    BY <2>1, <2>2
<1>12. CASE JoinFirst(c)
  <2>1. NewEdge(c) \in EdgeRecord
    BY <1>12, EdgeOfCall DEF JoinFirst
  <2>2. edges' \in [Nodes -> SUBSET EdgeRecord]
    BY <1>12, <2>1 DEF JoinFirst, TypeOK
  <2>3. TypeOK'
    BY <1>12, <2>2 DEF JoinFirst, TypeOK, PCs, Exists
  <2>4. AreFunctions' /\ CallsInv'
    BY <1>12 DEF JoinFirst, AreFunctions, TypeOK, CallsInv, Calling, Call, MoreLinks, Target
  <2> QED
    BY <2>3, <2>4
<1>13. CASE JoinSecond(c)
  <2>1. NewEdge(c) \in EdgeRecord
    BY <1>13, EdgeOfCall DEF JoinSecond
  <2>2. edges' \in [Nodes -> SUBSET EdgeRecord]
    BY <1>13, <2>1 DEF JoinSecond, TypeOK
  <2>3. todo' \in [Collectors -> Seq(LinkRecord)] /\ fresh' \in [Collectors -> BOOLEAN]
    BY <1>13, FirstLink DEF JoinSecond, TypeOK
  <2>4. TypeOK'
    BY <1>13, <2>2, <2>3 DEF JoinSecond, TypeOK, PCs, Exists
  <2>5. AreFunctions' /\ CallsInv'
    BY <1>13 DEF JoinSecond, AreFunctions, TypeOK, CallsInv, Calling, Call, MoreLinks, Target
  <2> QED
    BY <2>4, <2>5
<1>14. CASE Return(c)
  <2>1. here[c] \in Objects /\ Calling(c)
    BY <1>14 DEF Return, CallsInv
  <2>2. got[c] \in Seq(Objects) /\ step[c] = Len(got[c]) + 1
    BY DEF TypeOK
  <2>3. Append(got[c], here[c]) \in Seq(Objects) /\ Len(Append(got[c], here[c])) = step[c]
    BY <2>1, <2>2, AppendProperties
  <2>4. AreFunctions'
    BY <1>14 DEF Return, AreFunctions, graphVars
  <2>5. got' \in [Collectors -> Seq(Objects)]
    BY <1>14, <2>3 DEF Return, TypeOK
  <2>6. \A d \in Collectors : step'[d] = Len(got'[d]) + 1
    <3>1. step' = [step EXCEPT ![c] = @ + 1] /\ got' = [got EXCEPT ![c] = Append(@, here[c])]
      BY <1>14 DEF Return
    <3>2. step'[c] = step[c] + 1 /\ got'[c] = Append(got[c], here[c])
      BY <3>1 DEF AreFunctions, TypeOK
    <3>3. \A d \in Collectors \ {c} : step'[d] = step[d] /\ got'[d] = got[d]
      BY <3>1 DEF AreFunctions, TypeOK
    <3> QED
      BY <2>3, <3>2, <3>3 DEF TypeOK
  <2>7. lock' \in [Types -> Collectors \cup {None}]
    BY <1>14 DEF Return, TypeOK
  <2>8. TypeOK'
    BY <1>14, <2>5, <2>6, <2>7 DEF Return, TypeOK, PCs, graphVars, Exists
  <2>9. CallsInv'
    BY <1>14 DEF Return, AreFunctions, TypeOK, CallsInv, Calling, Call, MoreLinks, Target
  <2> QED
    BY <2>4, <2>8, <2>9
<1> QED
  BY <1>1, <1>2, <1>3, <1>4, <1>5, <1>6, <1>7, <1>8, <1>9, <1>10, <1>11, <1>12, <1>13,
     <1>14 DEF Collect

LEMMA TypesStep == TypesInv /\ [Next]_vars => TypesInv'
<1> SUFFICES ASSUME TypesInv, [Next]_vars PROVE TypesInv'
  OBVIOUS
<1>1. CASE \E c \in Collectors : Collect(c)
  BY <1>1, CallTypes
<1>2. CASE (\E o \in Objects : Delete(o)) \/ (\E n \in Nodes : ExpireEdge(n))
  BY <1>2, DeletionTypes
<1>3. CASE UNCHANGED vars
  BY <1>3 DEF vars, graphVars, callVars, TypesInv, TypeOK, Exists, AreFunctions,
              CallsInv, Calling, Call, MoreLinks, Target
<1> QED
  BY <1>1, <1>2, <1>3 DEF Next

LEMMA TypesInit == Init => TypesInv
<1> SUFFICES ASSUME Init PROVE TypesInv
  OBVIOUS
<1>1. TypeOK
  BY DEF Init, TypeOK, Exists, PCs
<1>2. AreFunctions
  BY DEF Init, AreFunctions
<1>3. CallsInv
  BY DEF Init, CallsInv
<1> QED
  BY <1>1, <1>2, <1>3 DEF TypesInv

\* TypeOK holds for every set of collectors and every script: no call links None
\* or something that is no element, and no reference is taken from a call that
\* has not returned.
THEOREM TypesAreCorrect == Spec => []TypeOK
<1>1. TypesInv => TypeOK
  BY DEF TypesInv
<1> QED
  BY <1>1, TypesInit, TypesStep, PTL DEF Spec
------------------------------------------------------------------------------
(* Locks *)

\* A call that looks something up holds the lock of its type, to the end or, if it
\* has died, for ever; nobody else holds a lock.
HoldsItsLock ==
    \A c \in Collectors :
        pc[c] # "idle" /\ Call(c).op = "get" => lock[Call(c).type] = c

LocksInv == TypesInv /\ LocksAreOfCalls /\ HoldsItsLock

LEMMA DeletionKeepsCalls ==
    ASSUME \/ \E o \in Objects : Delete(o)
           \/ \E n \in Nodes : ExpireEdge(n)
           \/ UNCHANGED vars
    PROVE  UNCHANGED <<object, lock, callVars>>
BY DEF Delete, Mark, TakeEdges, Unlink, UnlinkFails, Gone, ExpireEdge, vars, graphVars

\* Between its first and its last step a call stays the same, and so do the locks.
LEMMA InnerSteps ==
    ASSUME TypesInv, NEW c \in Collectors,
           \/ Find(c) \/ Create(c) \/ Verify(c) \/ Replace(c) \/ Drop(c) \/ DropFails(c)
           \/ Differs(c) \/ Raise(c) \/ CheckDeprecated(c) \/ JoinFirst(c) \/ JoinSecond(c)
    PROVE  /\ pc[c] # "idle" /\ UNCHANGED <<lock, step, got>>
           /\ \A d \in Collectors : pc'[d] = "idle" <=> pc[d] = "idle"
BY DEF Find, Create, Verify, Differs, Replace, Drop, DropFails, Raise, CheckDeprecated, JoinFirst,
       JoinSecond, TypesInv, TypeOK

LEMMA LocksStep == LocksInv /\ [Next]_vars => LocksInv'
<1> SUFFICES ASSUME LocksInv, [Next]_vars PROVE LocksInv'
  OBVIOUS
<1> USE DEF LocksInv
<1>1. TypesInv'
  BY TypesStep
<1>2. None \notin Collectors /\ \A T \in Types : lock[T] \in Collectors \cup {None}
  BY GraphAssumption DEF TypesInv, TypeOK
<1>3. ASSUME NEW c \in Collectors, Calling(c), Call(c).op = "get"
      PROVE  Call(c).type \in Types
  BY <1>3, CallIsLegal DEF TypesInv, LegalCall
<1>4. \A c \in Collectors : pc[c] # "idle" => Calling(c)
  BY DEF TypesInv, CallsInv
<1>5. CASE (\E o \in Objects : Delete(o)) \/ (\E n \in Nodes : ExpireEdge(n)) \/ UNCHANGED vars
  BY <1>1, <1>5, DeletionKeepsCalls DEF LocksAreOfCalls, HoldsItsLock, callVars, Call
<1>6. ASSUME NEW c \in Collectors, Acquire(c) PROVE LocksInv'
  <2>1. /\ lock[Call(c).type] = None /\ lock' = [lock EXCEPT ![Call(c).type] = c]
        /\ pc' = [pc EXCEPT ![c] = "looking"] /\ step' = step
        /\ Calling(c) /\ Call(c).op = "get"
    BY <1>6 DEF Acquire
  <2>2. Call(c).type \in Types
    BY <2>1, <1>3
  <2>3. \A d \in Collectors : Call(d)' = Call(d)
    BY <2>1 DEF Call
  <2>4. lock \in [Types -> Collectors \cup {None}] /\ pc \in [Collectors -> PCs]
    BY DEF TypesInv, TypeOK
  <2>5. LocksAreOfCalls'
    BY <1>2, <2>1, <2>2, <2>3, <2>4 DEF LocksAreOfCalls
  <2>6. HoldsItsLock'
    BY <1>2, <2>1, <2>2, <2>3, <2>4 DEF HoldsItsLock
  <2> QED
    BY <1>1, <2>5, <2>6
<1>7. ASSUME NEW c \in Collectors, CallLink(c) PROVE LocksInv'
  BY <1>1, <1>7 DEF CallLink, LocksAreOfCalls, HoldsItsLock, Call, TypesInv, TypeOK
<1>8. ASSUME NEW c \in Collectors, Return(c) PROVE LocksInv'
  <2>1. /\ pc[c] = "linking" /\ pc' = [pc EXCEPT ![c] = "idle"]
        /\ step' = [step EXCEPT ![c] = @ + 1]
        /\ lock' = IF Call(c).op = "get" THEN [lock EXCEPT ![Call(c).type] = None] ELSE lock
    BY <1>8 DEF Return
  <2>2. \A d \in Collectors \ {c} : Call(d)' = Call(d) /\ pc'[d] = pc[d]
    BY <2>1 DEF Call, TypesInv, TypeOK, AreFunctions
  <2>3. pc'[c] = "idle" /\ lock \in [Types -> Collectors \cup {None}]
    BY <2>1 DEF TypesInv, TypeOK
  <2>4. \A T \in Types : lock'[T] # c
    BY <1>2, <2>1, <2>3 DEF LocksAreOfCalls
  <2>5. \A T \in Types : lock'[T] # None => lock'[T] = lock[T]
    BY <2>1, <2>3
  <2>6. LocksAreOfCalls'
    BY <1>2, <2>2, <2>4, <2>5 DEF LocksAreOfCalls
  <2>7. ASSUME NEW d \in Collectors \ {c}, pc[d] # "idle", Call(d).op = "get"
        PROVE  lock'[Call(d).type] = d
    <3>1. lock[Call(d).type] = d /\ Call(d).type \in Types
      BY <2>7, <1>3, <1>4 DEF HoldsItsLock
    <3>2. Call(c).op = "get" => lock[Call(c).type] = c
      BY <2>1 DEF HoldsItsLock
    <3> QED
      BY <2>1, <2>3, <3>1, <3>2
  <2>8. HoldsItsLock'
    BY <2>2, <2>3, <2>7 DEF HoldsItsLock
  <2> QED
    BY <1>1, <2>6, <2>8
<1>9. ASSUME NEW c \in Collectors, Collect(c) PROVE LocksInv'
  <2>1. CASE Acquire(c) \/ CallLink(c) \/ Return(c)
    BY <2>1, <1>6, <1>7, <1>8
  <2>2. CASE ~(Acquire(c) \/ CallLink(c) \/ Return(c))
    <3>1. /\ UNCHANGED <<lock, step, got>>
          /\ \A d \in Collectors : pc'[d] = "idle" <=> pc[d] = "idle"
      BY <1>9, <2>2, InnerSteps DEF Collect
    <3> QED
      BY <1>1, <1>2, <3>1 DEF LocksAreOfCalls, HoldsItsLock, Call
  <2> QED
    BY <2>1, <2>2
<1> QED
  BY <1>5, <1>9 DEF Next

LEMMA LocksInit == Init => LocksInv
<1> SUFFICES ASSUME Init PROVE LocksInv
  OBVIOUS
<1>1. LocksAreOfCalls
  BY DEF Init, LocksAreOfCalls
<1>2. HoldsItsLock
  BY DEF Init, HoldsItsLock
<1> QED
  BY <1>1, <1>2, TypesInit DEF LocksInv

\* Whatever collectors do, and whatever is deleted meanwhile, a collector holds a
\* lock only inside the getOrCreate call that has taken it.
THEOREM LocksBelongToCalls == Spec => []LocksAreOfCalls
<1>1. LocksInv => LocksAreOfCalls
  BY DEF LocksInv
<1> QED
  BY <1>1, LocksInit, LocksStep, PTL DEF Spec
------------------------------------------------------------------------------
(* One element per identifier *)

\* The edges of the graph lead to elements that exist.
GraphEdges == \A e \in edges[Graph] : e.first = Graph /\ Exists(e.second)

\* An element that is not linked to the graph yet is the one its call asks for,
\* and nobody else has got in with the same identifier.
FreshIsWanted ==
    \A c \in Collectors : fresh[c] =>
        /\ pc[c] \notin {"idle", "looking"} /\ Call(c).op = "get"
        /\ here[c] \in Objects /\ Exists(here[c])
        /\ object[here[c]].type = Call(c).type /\ object[here[c]].key = Call(c).key
        /\ Call(c).type \in Rooted =>
               \A p \in Objects :
                   Registered(p) /\ object[p].type = Call(c).type /\ object[p].key = Call(c).key
                       => p = here[c]

UniqueInv == LocksInv /\ GraphEdges /\ FreshIsWanted /\ OneObjectPerKey

LEMMA RegisteredIsSecond ==
    ASSUME TypeOK, NEW o \in Objects
    PROVE  Registered(o) <=> \E e \in edges[Graph] : e.second = o
<1>1. \A e \in edges[Graph] : e.second \in Objects
  BY DEF TypeOK, Nodes, EdgeRecord
<1> QED
  BY <1>1, NumberIsNoNone DEF Registered, Other

\* Steps that create no element, link none to the graph, and change nothing of
\* the calls that have created one.
LEMMA QuietSteps ==
    ASSUME UniqueInv, TypeOK', object' = object, edges'[Graph] \subseteq edges[Graph],
           \A c \in Collectors : fresh'[c] =>
               /\ fresh[c] /\ here'[c] = here[c] /\ step'[c] = step[c]
               /\ pc'[c] \notin {"idle", "looking"}
    PROVE  (GraphEdges /\ FreshIsWanted /\ OneObjectPerKey)'
<1> USE DEF UniqueInv
<1>1. TypeOK
  BY DEF LocksInv, TypesInv
<1>2. \A o \in Objects : Registered(o)' => Registered(o)
  <2> SUFFICES ASSUME NEW o \in Objects, Registered(o)' PROVE Registered(o)
    OBVIOUS
  <2>1. \A e \in edges'[Graph] : e.second \in Objects
    BY DEF TypeOK, Nodes, EdgeRecord
  <2> QED
    BY <2>1, NumberIsNoNone DEF Registered, Other
<1>3. GraphEdges'
  BY DEF GraphEdges, Exists
<1>4. FreshIsWanted'
  BY <1>2 DEF FreshIsWanted, Exists, Call
<1>5. OneObjectPerKey'
  BY <1>2 DEF OneObjectPerKey
<1> QED
  BY <1>3, <1>4, <1>5

LEMMA CreateUnique ==
    ASSUME UniqueInv, LocksInv', NEW c \in Collectors, Create(c)
    PROVE  UniqueInv'
<1> USE DEF UniqueInv
<1>1. TypeOK /\ AreFunctions /\ CallsInv /\ TypesInv
  BY DEF LocksInv, TypesInv
<1>2. PICK o \in Objects :
          /\ ~Exists(o)
          /\ object' = [object EXCEPT ![o] =
                [type |-> Call(c).type, key |-> Call(c).key, value |-> Call(c).value]]
          /\ here' = [here EXCEPT ![c] = o]
  BY DEF Create
<1>3. /\ pc[c] = "looking" /\ pc' = [pc EXCEPT ![c] = "linking"]
      /\ fresh' = [fresh EXCEPT ![c] = TRUE] /\ UNCHANGED <<edges, step, lock>>
      /\ \A p \in Matches(c) : Hidden(c, p)
  BY DEF Create
<1>4. Calling(c) /\ Call(c).op = "get" /\ Call(c).type \in Types
  BY <1>1, <1>3, CallIsLegal DEF CallsInv, LegalCall
<1>5. /\ object'[o].type = Call(c).type /\ object'[o].key = Call(c).key /\ Exists(o)'
      /\ \A p \in Objects \ {o} : object'[p] = object[p]
  <2>1. object'[o] = [type |-> Call(c).type, key |-> Call(c).key, value |-> Call(c).value]
    BY <1>1, <1>2 DEF AreFunctions
  <2>2. Call(c).type # "none"
    BY <1>4 DEF Types
  <2> QED
    BY <1>1, <1>2, <2>1, <2>2 DEF AreFunctions, Exists, NoObject
<1>6. \A p \in Objects : Registered(p)' <=> Registered(p)
  BY <1>3 DEF Registered
<1>7. ~Registered(o)
  BY <1>1, <1>2, RegisteredIsSecond DEF GraphEdges
<1>8. \A d \in Collectors : Call(d)' = Call(d)
  BY <1>3 DEF Call
<1>9. ASSUME Call(c).type \in Rooted, NEW p \in Objects, Registered(p),
             object[p].type = Call(c).type, object[p].key = Call(c).key
      PROVE  FALSE
  <2>1. At(c) = Graph
    <3>1. LegalCall(Call(c), step[c])
      BY <1>1, <1>4, CallIsLegal
    <3> QED
      BY <1>4, <1>9, <3>1 DEF At, LegalCall
  <2>2. p \in Neighbours(At(c), Call(c).type)
    BY <1>9, <2>1 DEF Neighbours, Registered, Subtypes
  <2>3. p \in Matches(c)
    BY <1>9, <2>2 DEF Matches, Findable, Rooted
  <2>4. Hidden(c, p)
    BY <1>3, <2>3
  <2> QED
    BY <1>9, <2>3, <2>4 DEF Hidden, Equal, Rooted, ComparedByValue
<1>10. GraphEdges'
  <2>1. \A e \in edges[Graph] : e.second \in Objects
    BY <1>1 DEF TypeOK, Nodes, EdgeRecord
  <2> QED
    BY <1>2, <1>3, <1>5, <2>1 DEF GraphEdges, Exists
<1>11. OneObjectPerKey'
  BY <1>5, <1>6, <1>7 DEF OneObjectPerKey
<1>12. ASSUME NEW d \in Collectors, d # c, fresh[d]
       PROVE  here[d] \in Objects \ {o}
  BY <1>2, <1>12 DEF FreshIsWanted
<1>13. fresh'[c] /\ here'[c] = o /\ pc'[c] = "linking"
  BY <1>1, <1>2, <1>3 DEF TypeOK
<1>14. \A d \in Collectors \ {c} : fresh'[d] = fresh[d] /\ here'[d] = here[d] /\ pc'[d] = pc[d]
  BY <1>1, <1>2, <1>3 DEF TypeOK
<1>15. FreshIsWanted'
  <2> SUFFICES ASSUME NEW d \in Collectors, fresh'[d]
               PROVE  /\ pc'[d] \notin {"idle", "looking"} /\ Call(d).op = "get"
                      /\ here'[d] \in Objects /\ Exists(here[d])'
                      /\ object'[here'[d]].type = Call(d).type
                      /\ object'[here'[d]].key = Call(d).key
                      /\ Call(d).type \in Rooted =>
                            \A p \in Objects :
                                Registered(p) /\ object'[p].type = Call(d).type
                                    /\ object'[p].key = Call(d).key => p = here'[d]
    BY <1>6, <1>8 DEF FreshIsWanted
  <2>1. CASE d = c
    BY <2>1, <1>2, <1>4, <1>5, <1>7, <1>9, <1>13
  <2>2. CASE d # c
    BY <2>2, <1>5, <1>7, <1>12, <1>14 DEF FreshIsWanted, Exists
  <2> QED
    BY <2>1, <2>2
<1> QED
  BY <1>10, <1>11, <1>15

LEMMA JoinUnique ==
    ASSUME UniqueInv, LocksInv', NEW c \in Collectors, JoinFirst(c)
    PROVE  UniqueInv'
<1> USE DEF UniqueInv
<1>1. TypeOK /\ TypesInv /\ TypeOK'
  BY DEF LocksInv, TypesInv
<1>2. /\ pc[c] = "checked" /\ pc' = [pc EXCEPT ![c] = "half"]
      /\ edges' = [edges EXCEPT ![First(c)] = @ \cup {NewEdge(c)}]
      /\ UNCHANGED <<object, lock, step, got, here, fresh, todo>>
  BY DEF JoinFirst
<1>3. CASE todo[c] # <<>>
  <2>1. edges'[Graph] = edges[Graph]
    BY <1>1, <1>2, <1>3, EdgeOfCall DEF TypeOK, Nodes
  <2>2. \A d \in Collectors : fresh'[d] => pc'[d] \notin {"idle", "looking"}
    BY <1>1, <1>2 DEF FreshIsWanted, TypeOK
  <2> QED
    BY <1>1, <1>2, <2>1, <2>2, QuietSteps
<1>4. CASE todo[c] = <<>>
  <2>1. /\ fresh[c] /\ First(c) = Graph
        /\ NewEdge(c).first = Graph /\ NewEdge(c).second = here[c]
    BY <1>1, <1>2, <1>4, EdgeOfCall
  <2>2. edges'[Graph] = edges[Graph] \cup {NewEdge(c)}
    BY <1>1, <1>2, <2>1 DEF TypeOK, Nodes
  <2>3. /\ Call(c).op = "get" /\ here[c] \in Objects /\ Exists(here[c])
        /\ object[here[c]].type = Call(c).type /\ object[here[c]].key = Call(c).key
        /\ pc[c] # "idle"
    BY <2>1 DEF FreshIsWanted
  <2>4. ASSUME NEW p \in Objects
        PROVE  Registered(p)' <=> Registered(p) \/ p = here[c]
    <3>1. Registered(p) <=> \E e \in edges[Graph] : e.second = p
      BY <1>1, RegisteredIsSecond
    <3>2. \A e \in edges'[Graph] : e.second \in Objects
      BY <1>1 DEF TypeOK, Nodes, EdgeRecord
    <3>3. Registered(p)' <=> \E e \in edges'[Graph] : e.second = p
      BY <3>2, NumberIsNoNone DEF Registered, Other
    <3> QED
      BY <2>1, <2>2, <3>1, <3>3
  <2>5. GraphEdges'
    BY <1>2, <2>1, <2>2, <2>3 DEF GraphEdges, Exists
  <2>6. OneObjectPerKey'
    BY <1>2, <2>1, <2>3, <2>4 DEF OneObjectPerKey, FreshIsWanted
  <2>7. ASSUME NEW d \in Collectors, fresh[d], Call(d).type = object[here[c]].type
        PROVE  d = c
    BY <2>3, <2>7 DEF FreshIsWanted, LocksInv, HoldsItsLock
  <2>8. FreshIsWanted'
    <3>1. \A d \in Collectors : fresh[d] => pc'[d] \notin {"idle", "looking"}
      BY <1>1, <1>2 DEF FreshIsWanted, TypeOK
    <3> QED
      BY <1>2, <2>3, <2>4, <2>7, <3>1 DEF FreshIsWanted, Exists, Call
  <2> QED
    BY <2>5, <2>6, <2>8
<1> QED
  BY <1>3, <1>4

LEMMA UniqueStep == UniqueInv /\ [Next]_vars => UniqueInv'
<1> SUFFICES ASSUME UniqueInv, [Next]_vars PROVE UniqueInv'
  OBVIOUS
<1> USE DEF UniqueInv
<1>1. LocksInv'
  BY LocksStep
<1>2. TypeOK /\ TypesInv /\ TypeOK'
  BY <1>1 DEF LocksInv, TypesInv
<1>3. \A c \in Collectors : fresh[c] => pc[c] \notin {"idle", "looking"}
  BY DEF FreshIsWanted
<1>4. CASE (\E o \in Objects : Delete(o)) \/ (\E n \in Nodes : ExpireEdge(n)) \/ UNCHANGED vars
  <2>1. UNCHANGED <<object, lock, callVars>>
    BY <1>4, DeletionKeepsCalls
  <2>2. CASE \E o \in Objects : Delete(o)
    <3>1. edges' = edges \/ \E e : edges' = Unlinked(e)
      BY <2>2 DEF Delete, Mark, TakeEdges, Unlink, UnlinkFails, Gone
    <3>2. edges'[Graph] \subseteq edges[Graph]
      BY <3>1 DEF Unlinked, Nodes
    <3> QED
      BY <1>1, <1>2, <1>3, <2>1, <3>2, QuietSteps DEF callVars
  <2>3. CASE \E n \in Nodes : ExpireEdge(n)
    <3>1. edges'[Graph] \subseteq edges[Graph]
      BY <2>3 DEF ExpireEdge, Unlinked, Nodes
    <3> QED
      BY <1>1, <1>2, <1>3, <2>1, <3>1, QuietSteps DEF callVars
  <2>4. CASE UNCHANGED vars
    BY <1>1, <1>2, <1>3, <2>1, <2>4, QuietSteps DEF callVars, vars, graphVars
  <2> QED
    BY <1>4, <2>2, <2>3, <2>4
<1>5. ASSUME NEW c \in Collectors,
             \/ Acquire(c) \/ Find(c) \/ CallLink(c) \/ Verify(c) \/ Replace(c)
             \/ Differs(c) \/ Raise(c) \/ CheckDeprecated(c) \/ Return(c)
      PROVE  UniqueInv'
  <2>1. UNCHANGED <<object, edges, fresh>>
    BY <1>5 DEF Acquire, Find, CallLink, Verify, Differs, Replace, Raise, CheckDeprecated, Return,
              graphVars
  <2>2. \A d \in Collectors : fresh[d] =>
            here'[d] = here[d] /\ step'[d] = step[d] /\ pc'[d] \notin {"idle", "looking"}
    <3> USE <1>2, <1>3 DEF TypeOK, TypesInv, AreFunctions
    <3>1. CASE Acquire(c) \/ CallLink(c) \/ Return(c)
      <4>1. ~fresh[c]
        BY <3>1 DEF Acquire, CallLink, Return, MoreLinks
      <4>2. \A d \in Collectors \ {c} : here'[d] = here[d] /\ step'[d] = step[d] /\ pc'[d] = pc[d]
        BY <3>1 DEF Acquire, CallLink, Return
      <4> QED
        BY <4>1, <4>2
    <3>2. CASE Find(c)
      <4>1. ~fresh[c]
        BY <3>2 DEF Find
      <4>2. \A d \in Collectors \ {c} : here'[d] = here[d] /\ step'[d] = step[d] /\ pc'[d] = pc[d]
        BY <3>2 DEF Find
      <4> QED
        BY <4>1, <4>2
    <3>3. CASE Verify(c)
      BY <3>3 DEF Verify
    <3>4. CASE Differs(c) \/ Replace(c) \/ Raise(c) \/ CheckDeprecated(c)
      BY <3>4 DEF Differs, Replace, Raise, CheckDeprecated
    <3> QED
      BY <1>5, <3>1, <3>2, <3>3, <3>4
  <2> QED
    BY <1>1, <1>2, <2>1, <2>2, QuietSteps
<1>6. ASSUME NEW c \in Collectors, Drop(c) PROVE UniqueInv'
  <2>1. UNCHANGED <<object, step, pc, here, fresh>> /\ edges'[Graph] \subseteq edges[Graph]
    BY <1>2, <1>6 DEF Drop, Unlinked, TypeOK, Nodes
  <2> QED
    BY <1>1, <1>2, <1>3, <2>1, QuietSteps
<1>7. ASSUME NEW c \in Collectors, DropFails(c) PROVE UniqueInv'
  <2>1. /\ UNCHANGED <<object, step, here, fresh>> /\ edges'[Graph] \subseteq edges[Graph]
        /\ pc' = [pc EXCEPT ![c] = "dead"]
    BY <1>2, <1>7 DEF DropFails, Unlinked, TypeOK, Nodes
  <2>2. \A d \in Collectors : fresh[d] => pc'[d] \notin {"idle", "looking"}
    BY <1>2, <1>3, <2>1 DEF TypeOK
  <2> QED
    BY <1>1, <1>2, <2>1, <2>2, QuietSteps
<1>8. ASSUME NEW c \in Collectors, JoinSecond(c) PROVE UniqueInv'
  <2>1. /\ pc[c] = "half" /\ pc' = [pc EXCEPT ![c] = "linking"]
        /\ edges' = [edges EXCEPT ![Second(c)] = @ \cup {NewEdge(c)}]
        /\ UNCHANGED <<object, step, here>>
        /\ fresh' = fresh \/ fresh' = [fresh EXCEPT ![c] = FALSE]
    BY <1>8 DEF JoinSecond
  <2>2. edges'[Graph] = edges[Graph]
    BY <1>2, <2>1, EdgeOfCall, NumberIsNoNone DEF TypeOK, Nodes
  <2>3. \A d \in Collectors : fresh'[d] => fresh[d] /\ pc'[d] \notin {"idle", "looking"}
    BY <1>2, <1>3, <2>1 DEF TypeOK
  <2> QED
    BY <1>1, <1>2, <2>1, <2>2, <2>3, QuietSteps
<1>9. ASSUME NEW c \in Collectors, Collect(c) PROVE UniqueInv'
  BY <1>1, <1>5, <1>6, <1>7, <1>8, <1>9, CreateUnique, JoinUnique DEF Collect
<1> QED
  BY <1>4, <1>9 DEF Next

LEMMA UniqueInit == Init => UniqueInv
<1> SUFFICES ASSUME Init PROVE UniqueInv
  OBVIOUS
<1>1. edges[Graph] = {}
  BY DEF Init, Nodes
<1>2. GraphEdges /\ OneObjectPerKey
  BY <1>1 DEF GraphEdges, OneObjectPerKey, Registered
<1>3. FreshIsWanted
  BY DEF Init, FreshIsWanted
<1> QED
  BY <1>2, <1>3, LocksInit DEF UniqueInv

\* No two elements of one type and one identifier ever hang on the graph, for any
\* number of collectors, any scripts, and deletions at any moment.
THEOREM ObjectsAreUnique == Spec => []OneObjectPerKey
<1>1. UniqueInv => OneObjectPerKey
  BY DEF UniqueInv
<1> QED
  BY <1>1, UniqueInit, UniqueStep, PTL DEF Spec
------------------------------------------------------------------------------
(* Elements that live are in the graph *)

\* A node knows only edges of its own, and those of the graph have no timeout.
EdgesOfEnds ==
    \A n \in Nodes : \A e \in edges[n] :
        (e.first = n \/ e.second = n) /\ (e.first = Graph => ~e.timed)

\* Nobody is about to delete an edge between the graph and an element that lives.
DeletionsSpareGraph ==
    /\ \A c \in Collectors : \A e \in dropping[c] : e.first # Graph
    /\ \A o \in Objects : \A e \in doomed[o] : Deprecated(o) /\ (e.first = o \/ e.second = o)

\* While the graph knows a new element and the element not yet the graph.
HalfIsKept ==
    \A c \in Collectors :
        pc[c] = "half" /\ todo[c] = <<>> /\ ~Deprecated(here[c]) => NewEdge(c) \in edges[Graph]

Hangs(o) == \E e \in edges[Graph] : e \in edges[o] /\ e.first = Graph /\ e.second = o

LivingHang ==
    \A o \in Objects : Exists(o) /\ ~Deprecated(o) /\ ~Unfinished(o) => Hangs(o)

LivingInv == UniqueInv /\ EdgesOfEnds /\ DeletionsSpareGraph /\ HalfIsKept /\ LivingHang

LEMMA LivingTypes ==
    ASSUME LivingInv
    PROVE  TypeOK /\ TypesInv /\ CallsInv /\ FreshIsWanted
BY DEF LivingInv, UniqueInv, LocksInv, TypesInv

\* Steps that change no edges, revive nothing and finish no new element.
LEMMA StillSteps ==
    ASSUME LivingInv, object' = object, edges' = edges,
           \A o \in Objects : Deprecated(o) => Deprecated(o)',
           \A c \in Collectors :
               /\ fresh'[c] = fresh[c] /\ (fresh[c] => here'[c] = here[c])
               /\ pc'[c] = "half" =>
                      pc[c] = "half" /\ todo'[c] = todo[c] /\ here'[c] = here[c]
    PROVE  (EdgesOfEnds /\ HalfIsKept /\ LivingHang)'
<1> USE DEF LivingInv
<1>1. EdgesOfEnds'
  BY DEF EdgesOfEnds
<1>2. HalfIsKept'
  <2> SUFFICES ASSUME NEW c \in Collectors, pc'[c] = "half", todo'[c] = <<>>, ~Deprecated(here[c])'
               PROVE  NewEdge(c)' \in edges[Graph]
    BY DEF HalfIsKept
  <2>1. pc[c] = "half" /\ todo[c] = <<>> /\ here'[c] = here[c] /\ here[c] \in Objects
    BY LivingTypes DEF CallsInv
  <2>2. ~Deprecated(here[c])
    BY <2>1 DEF Deprecated
  <2>3. NewEdge(c)' = NewEdge(c)
    BY <2>1 DEF NewEdge, First, Second, How, Source, Target
  <2> QED
    BY <2>1, <2>2, <2>3 DEF HalfIsKept
<1>3. LivingHang'
  <2>1. \A o \in Objects : Unfinished(o) => Unfinished(o)'
    BY DEF Unfinished
  <2> QED
    BY <2>1 DEF LivingHang, Hangs, Exists
<1> QED
  BY <1>1, <1>2, <1>3

\* An edge is deleted: from the graph only if it leads to a deleted element.
LEMMA UnlinkSteps ==
    ASSUME LivingInv, NEW e, edges' = Unlinked(e),
           e.first = Graph => Deprecated(e.second),
           UNCHANGED <<object, step, here, fresh, todo>>,
           \A o \in Objects : Deprecated(o)' <=> Deprecated(o),
           \A c \in Collectors : pc'[c] = "half" => pc[c] = "half"
    PROVE  (EdgesOfEnds /\ HalfIsKept /\ LivingHang)'
<1> USE DEF LivingInv
<1>1. \A n \in Nodes : edges'[n] = edges[n] \ {e}
  BY DEF Unlinked
<1>2. EdgesOfEnds'
  BY <1>1 DEF EdgesOfEnds
<1>3. HalfIsKept'
  <2> SUFFICES ASSUME NEW c \in Collectors, pc[c] = "half", todo[c] = <<>>, ~Deprecated(here[c])'
               PROVE  NewEdge(c)' \in edges'[Graph]
    BY DEF HalfIsKept
  <2>1. NewEdge(c)' = NewEdge(c)
    BY DEF NewEdge, First, Second, How, Source, Target
  <2>2. NewEdge(c).first = Graph /\ NewEdge(c).second = here[c] /\ here[c] \in Objects
    BY LivingTypes, EdgeOfCall
  <2>3. ~Deprecated(here[c]) /\ NewEdge(c) \in edges[Graph]
    BY <2>2 DEF HalfIsKept
  <2> QED
    BY <1>1, <2>1, <2>2, <2>3 DEF Nodes
<1>4. LivingHang'
  <2> SUFFICES ASSUME NEW o \in Objects, Exists(o), ~Deprecated(o), ~Unfinished(o)
               PROVE  Hangs(o)'
    BY DEF LivingHang, Exists, Unfinished
  <2>1. PICK f \in edges[Graph] : f \in edges[o] /\ f.first = Graph /\ f.second = o
    BY DEF LivingHang, Hangs
  <2>2. f \in edges'[Graph] /\ f \in edges'[o]
    BY <1>1, <2>1 DEF Nodes
  <2> QED
    BY <2>1, <2>2 DEF Hangs
<1> QED
  BY <1>2, <1>3, <1>4

LEMMA DeletionLiving ==
    ASSUME LivingInv, UniqueInv',
           (\E o \in Objects : Delete(o)) \/ (\E n \in Nodes : ExpireEdge(n))
    PROVE  LivingInv'
<1>1. UNCHANGED <<object, step, pc, got, here, fresh, todo, dropping>>
  BY DeletionKeepsCalls DEF callVars
<1>2. TypeOK
  BY LivingTypes
<1>3. ASSUME NEW o \in Objects, Mark(o) \/ TakeEdges(o) \/ Gone(o) PROVE LivingInv'
  <2>1. /\ edges' = edges
        /\ \E r \in {"marked", "unlinking", "gone"} : removing' = [removing EXCEPT ![o] = r]
        /\ \/ doomed' = doomed
           \/ removing[o] = "marked" /\ doomed' = [doomed EXCEPT ![o] = edges[o]]
    BY <1>3 DEF Mark, TakeEdges, Gone
  <2>2. \A p \in Objects : Deprecated(p) => Deprecated(p)'
    BY <1>2, <2>1 DEF Deprecated, TypeOK
  <2>3. \A e \in edges[o] : e.first = o \/ e.second = o
    BY DEF LivingInv, EdgesOfEnds, Nodes
  <2>4. Deprecated(o)'
    BY <1>2, <2>1 DEF Deprecated, TypeOK
  <2>5. \A p \in Objects : doomed'[p] = doomed[p] \/ (p = o /\ doomed'[p] = edges[o])
    BY <1>2, <2>1 DEF TypeOK
  <2>6. DeletionsSpareGraph'
    BY <1>1, <2>2, <2>3, <2>4, <2>5 DEF LivingInv, DeletionsSpareGraph
  <2> QED
    BY <1>1, <2>1, <2>2, <2>6, StillSteps DEF LivingInv
<1>4. ASSUME NEW o \in Objects, Unlink(o) PROVE LivingInv'
  <2>1. PICK e \in doomed[o] : edges' = Unlinked(e) /\ doomed' = [doomed EXCEPT ![o] = @ \ {e}]
    BY <1>4 DEF Unlink
  <2>2. removing' = removing
    BY <1>4 DEF Unlink
  <2>3. e.first = Graph => Deprecated(e.second)
    BY <2>1, NumberIsNoNone DEF LivingInv, DeletionsSpareGraph
  <2>4. \A p \in Objects : doomed'[p] \subseteq doomed[p]
    BY <1>2, <2>1 DEF TypeOK
  <2>5. DeletionsSpareGraph'
    BY <1>1, <2>2, <2>4 DEF LivingInv, DeletionsSpareGraph, Deprecated
  <2> QED
    BY <1>1, <2>1, <2>2, <2>3, <2>5, UnlinkSteps DEF LivingInv, Deprecated
<1>5. ASSUME NEW o \in Objects, UnlinkFails(o) PROVE LivingInv'
  <2>1. PICK e \in doomed[o] : edges' = Unlinked(e)
    BY <1>5 DEF UnlinkFails
  <2>2. /\ doomed' = [doomed EXCEPT ![o] = {}]
        /\ removing[o] = "unlinking" /\ removing' = [removing EXCEPT ![o] = "gone"]
    BY <1>5 DEF UnlinkFails
  <2>3. e.first = Graph => Deprecated(e.second)
    BY <2>1, NumberIsNoNone DEF LivingInv, DeletionsSpareGraph
  <2>4. \A p \in Objects : doomed'[p] \subseteq doomed[p]
    BY <1>2, <2>2 DEF TypeOK
  <2>5. \A p : Deprecated(p)' <=> Deprecated(p)
    BY <1>2, <2>2 DEF Deprecated, TypeOK
  <2>6. DeletionsSpareGraph'
    BY <1>1, <2>4, <2>5 DEF LivingInv, DeletionsSpareGraph
  <2> QED
    BY <1>1, <2>1, <2>3, <2>5, <2>6, UnlinkSteps DEF LivingInv
<1>6. ASSUME NEW n \in Nodes, ExpireEdge(n) PROVE LivingInv'
  <2>1. PICK e \in edges[n] : e.timed /\ edges' = Unlinked(e)
    BY <1>6 DEF ExpireEdge
  <2>2. UNCHANGED <<removing, doomed>>
    BY <1>6 DEF ExpireEdge
  <2>3. e.first # Graph
    BY <2>1 DEF LivingInv, EdgesOfEnds
  <2>4. DeletionsSpareGraph'
    BY <1>1, <2>2 DEF LivingInv, DeletionsSpareGraph, Deprecated
  <2> QED
    BY <1>1, <2>1, <2>2, <2>3, <2>4, UnlinkSteps DEF LivingInv, Deprecated
<1> QED
  BY <1>3, <1>4, <1>5, <1>6 DEF Delete

LEMMA JoinFirstLiving ==
    ASSUME LivingInv, UniqueInv', NEW c \in Collectors, JoinFirst(c)
    PROVE  LivingInv'
<1> USE DEF LivingInv
<1>1. TypeOK /\ TypesInv
  BY LivingTypes
<1>2. /\ pc[c] = "checked" /\ pc' = [pc EXCEPT ![c] = "half"]
      /\ edges' = [edges EXCEPT ![First(c)] = @ \cup {NewEdge(c)}]
      /\ UNCHANGED <<object, removing, doomed, lock, step, got, here, fresh, todo, dropping>>
  BY DEF JoinFirst
<1>3. /\ NewEdge(c).first = First(c) /\ First(c) \in Nodes
      /\ First(c) = Graph => todo[c] = <<>> /\ ~NewEdge(c).timed
      /\ todo[c] = <<>> => First(c) = Graph
  BY <1>1, <1>2, EdgeOfCall
<1>4. \A n \in Nodes : edges'[n] = IF n = First(c) THEN edges[n] \cup {NewEdge(c)} ELSE edges[n]
  BY <1>1, <1>2 DEF TypeOK
<1>5. EdgesOfEnds'
  <2> SUFFICES ASSUME NEW n \in Nodes, NEW e \in edges'[n]
               PROVE  (e.first = n \/ e.second = n) /\ (e.first = Graph => ~e.timed)
    BY DEF EdgesOfEnds
  <2>1. CASE e \in edges[n]
    BY <2>1 DEF EdgesOfEnds
  <2>2. CASE e \notin edges[n]
    <3>1. e = NewEdge(c) /\ n = First(c)
      BY <1>4, <2>2
    <3> QED
      BY <1>3, <3>1
  <2> QED
    BY <2>1, <2>2
<1>6. DeletionsSpareGraph'
  BY <1>2 DEF DeletionsSpareGraph, Deprecated
<1>7. HalfIsKept'
  <2>1. \A d \in Collectors : NewEdge(d)' = NewEdge(d) /\ (d # c => pc'[d] = pc[d])
    BY <1>1, <1>2 DEF NewEdge, First, Second, How, Source, Target, TypeOK
  <2>2. \A d \in Collectors : Deprecated(here[d])' <=> Deprecated(here[d])
    BY <1>2 DEF Deprecated
  <2>3. Graph \in Nodes
    BY DEF Nodes
  <2> SUFFICES ASSUME NEW d \in Collectors, pc'[d] = "half", todo[d] = <<>>, ~Deprecated(here[d])
               PROVE  NewEdge(d) \in edges'[Graph]
    BY <1>2, <2>1, <2>2 DEF HalfIsKept
  <2>4. CASE d = c
    BY <1>3, <1>4, <2>3, <2>4
  <2>5. CASE d # c
    BY <1>4, <2>1, <2>3, <2>5 DEF HalfIsKept
  <2> QED
    BY <2>4, <2>5
<1>8. LivingHang'
  <2>1. \A n \in Nodes : edges[n] \subseteq edges'[n]
    BY <1>4
  <2> QED
    BY <1>2, <2>1 DEF LivingHang, Hangs, Exists, Deprecated, Unfinished, Nodes
<1> QED
  BY <1>5, <1>6, <1>7, <1>8

LEMMA JoinSecondLiving ==
    ASSUME LivingInv, UniqueInv', NEW c \in Collectors, JoinSecond(c)
    PROVE  LivingInv'
<1> USE DEF LivingInv
<1>1. TypeOK /\ TypesInv
  BY LivingTypes
<1>2. /\ pc[c] = "half" /\ pc' = [pc EXCEPT ![c] = "linking"]
      /\ edges' = [edges EXCEPT ![Second(c)] = @ \cup {NewEdge(c)}]
      /\ UNCHANGED <<object, removing, doomed, lock, step, got, here, dropping>>
  BY DEF JoinSecond
<1>3. /\ NewEdge(c).first = First(c)
      /\ NewEdge(c).second = Second(c) /\ Second(c) \in Objects
      /\ First(c) = Graph => todo[c] = <<>> /\ ~NewEdge(c).timed
      /\ todo[c] = <<>> => First(c) = Graph /\ Second(c) = here[c]
  BY <1>1, <1>2, EdgeOfCall
<1>4. \A n \in Nodes : edges'[n] = IF n = Second(c) THEN edges[n] \cup {NewEdge(c)} ELSE edges[n]
  BY <1>1, <1>2 DEF TypeOK
<1>5. \A d \in Collectors \ {c} : todo'[d] = todo[d] /\ fresh'[d] = fresh[d] /\ pc'[d] = pc[d]
  BY <1>1 DEF JoinSecond, TypeOK
<1>6. EdgesOfEnds'
  <2> SUFFICES ASSUME NEW n \in Nodes, NEW e \in edges'[n]
               PROVE  (e.first = n \/ e.second = n) /\ (e.first = Graph => ~e.timed)
    BY DEF EdgesOfEnds
  <2>1. CASE e \in edges[n]
    BY <2>1 DEF EdgesOfEnds
  <2>2. CASE e \notin edges[n]
    <3>1. e = NewEdge(c) /\ n = Second(c)
      BY <1>4, <2>2
    <3> QED
      BY <1>3, <3>1
  <2> QED
    BY <2>1, <2>2
<1>7. DeletionsSpareGraph'
  BY <1>2 DEF DeletionsSpareGraph, Deprecated
<1>8. \A n \in Nodes : edges[n] \subseteq edges'[n]
  BY <1>4
<1>9. HalfIsKept'
  <2>1. pc'[c] # "half"
    BY <1>1, <1>2 DEF TypeOK
  <2>2. \A d \in Collectors \ {c} : NewEdge(d)' = NewEdge(d)
    BY <1>2, <1>5 DEF NewEdge, First, Second, How, Source, Target
  <2>3. \A d \in Collectors : Deprecated(here[d])' <=> Deprecated(here[d])
    BY <1>2 DEF Deprecated
  <2> QED
    BY <1>2, <1>5, <1>8, <2>1, <2>2, <2>3 DEF HalfIsKept, Nodes
<1>10. LivingHang'
  <2> SUFFICES ASSUME NEW o \in Objects, Exists(o), ~Deprecated(o), ~Unfinished(o)'
               PROVE  Hangs(o)'
    BY <1>2 DEF LivingHang, Exists, Deprecated
  <2>1. CASE Unfinished(o)
    <3>1. here[c] = o /\ fresh[c] /\ ~fresh'[c]
      BY <1>2, <1>5, <2>1 DEF Unfinished
    <3>2. todo[c] = <<>>
      BY <3>1 DEF JoinSecond
    <3>3. NewEdge(c) \in edges[Graph]
      BY <1>2, <3>1, <3>2 DEF HalfIsKept
    <3>4. NewEdge(c) \in edges'[Graph] /\ NewEdge(c) \in edges'[o]
      BY <1>3, <1>4, <1>8, <3>1, <3>2, <3>3 DEF Nodes
    <3> QED
      BY <1>3, <3>1, <3>2, <3>4 DEF Hangs
  <2>2. CASE ~Unfinished(o)
    BY <1>8, <2>2 DEF LivingHang, Hangs, Nodes
  <2> QED
    BY <2>1, <2>2
<1> QED
  BY <1>6, <1>7, <1>9, <1>10

LEMMA CreateLiving ==
    ASSUME LivingInv, UniqueInv', NEW c \in Collectors, Create(c)
    PROVE  LivingInv'
<1> USE DEF LivingInv
<1>1. TypeOK /\ TypesInv /\ AreFunctions /\ FreshIsWanted
  BY LivingTypes DEF TypesInv
<1>2. PICK o \in Objects :
          /\ object' = [object EXCEPT ![o] =
                [type |-> Call(c).type, key |-> Call(c).key, value |-> Call(c).value]]
          /\ here' = [here EXCEPT ![c] = o]
  BY DEF Create
<1>3. /\ pc[c] = "looking" /\ pc' = [pc EXCEPT ![c] = "linking"]
      /\ fresh' = [fresh EXCEPT ![c] = TRUE]
      /\ UNCHANGED <<edges, removing, doomed, dropping>>
      /\ \A d \in Collectors \ {c} : todo'[d] = todo[d]
  BY <1>1 DEF Create, TypeOK
<1>4. /\ fresh'[c] /\ here'[c] = o /\ pc'[c] = "linking" /\ ~fresh[c]
      /\ \A d \in Collectors \ {c} : fresh'[d] = fresh[d] /\ here'[d] = here[d] /\ pc'[d] = pc[d]
  BY <1>1, <1>2, <1>3 DEF TypeOK, FreshIsWanted
<1>5. EdgesOfEnds' /\ DeletionsSpareGraph'
  BY <1>3 DEF EdgesOfEnds, DeletionsSpareGraph, Deprecated
<1>6. HalfIsKept'
  <2>1. \A d \in Collectors \ {c} : NewEdge(d)' = NewEdge(d)
    BY <1>3, <1>4 DEF NewEdge, First, Second, How, Source, Target
  <2> QED
    BY <1>3, <1>4, <2>1 DEF HalfIsKept, Deprecated
<1>7. LivingHang'
  <2> SUFFICES ASSUME NEW p \in Objects, Exists(p)', ~Deprecated(p), ~Unfinished(p)'
               PROVE  Hangs(p)
    BY <1>3 DEF LivingHang, Hangs, Deprecated
  <2>1. p # o
    BY <1>4 DEF Unfinished
  <2>2. Exists(p)
    BY <1>1, <1>2, <2>1 DEF Exists, AreFunctions
  <2>3. ~Unfinished(p)
    BY <1>4 DEF Unfinished
  <2> QED
    BY <2>2, <2>3 DEF LivingHang
<1> QED
  BY <1>5, <1>6, <1>7

LEMMA LivingStep == LivingInv /\ [Next]_vars => LivingInv'
<1> SUFFICES ASSUME LivingInv, [Next]_vars PROVE LivingInv'
  OBVIOUS
<1>1. UniqueInv'
  BY UniqueStep DEF LivingInv
<1>2. TypeOK /\ TypesInv /\ CallsInv /\ FreshIsWanted
  BY LivingTypes
<1>3. CASE UNCHANGED vars
  <2>1. DeletionsSpareGraph'
    BY <1>3 DEF vars, graphVars, callVars, LivingInv, DeletionsSpareGraph, Deprecated
  <2> QED
    BY <1>1, <1>3, <2>1, StillSteps DEF vars, graphVars, callVars, LivingInv, Deprecated
<1>4. ASSUME NEW c \in Collectors,
             \/ Acquire(c) \/ Find(c) \/ CallLink(c) \/ Verify(c) \/ Raise(c)
             \/ Differs(c) \/ CheckDeprecated(c) \/ Return(c)
      PROVE  LivingInv'
  <2>1. UNCHANGED <<object, edges, removing, doomed, fresh, dropping>>
    BY <1>4 DEF Acquire, Find, CallLink, Verify, Differs, Raise, CheckDeprecated, Return, graphVars
  <2>2. \A d \in Collectors : fresh[d] => here'[d] = here[d]
    BY <1>2, <1>4
    DEF Acquire, Find, CallLink, Verify, Differs, Raise, CheckDeprecated, Return, FreshIsWanted, TypeOK
  <2>3. \A d \in Collectors \ {c} : pc'[d] = pc[d] /\ todo'[d] = todo[d] /\ here'[d] = here[d]
    BY <1>2, <1>4 DEF Acquire, Find, CallLink, Verify, Differs, Raise, CheckDeprecated, Return, TypeOK
  <2>4. pc'[c] # "half"
    BY <1>2, <1>4 DEF Acquire, Find, CallLink, Verify, Differs, Raise, CheckDeprecated, Return, TypeOK
  <2>5. DeletionsSpareGraph'
    BY <2>1 DEF LivingInv, DeletionsSpareGraph, Deprecated
  <2> QED
    BY <1>1, <2>1, <2>2, <2>3, <2>4, <2>5, StillSteps DEF LivingInv, Deprecated
<1>5. ASSUME NEW c \in Collectors, Replace(c) PROVE LivingInv'
  <2>1. /\ UNCHANGED <<object, edges, removing, doomed, fresh, here, todo>>
        /\ pc[c] = "replacing" /\ pc' = [pc EXCEPT ![c] = "dropping"]
    BY <1>5 DEF Replace, graphVars
  <2>2. here[c] \in Objects
    BY <1>2, <2>1 DEF CallsInv
  <2>3. ASSUME NEW e \in edges[here[c]], Other(e, here[c]) \in Others(c)
        PROVE  e.first # Graph
    <3>1. Other(e, here[c]) \in Objects
      BY <2>3 DEF Others, Neighbours
    <3>2. e.first = here[c] \/ e.second = here[c]
      BY <2>2 DEF LivingInv, EdgesOfEnds, Nodes
    <3> QED
      BY <2>2, <3>1, <3>2, NumberIsNoNone DEF Other
  <2>4. \A d \in Collectors : \A e \in dropping'[d] : e.first # Graph
    BY <1>2, <1>5, <2>3 DEF Replace, TypeOK, LivingInv, DeletionsSpareGraph
  <2>5. DeletionsSpareGraph'
    BY <2>1, <2>4 DEF LivingInv, DeletionsSpareGraph, Deprecated
  <2>6. \A d \in Collectors : pc'[d] = "half" => pc[d] = "half"
    BY <1>2, <2>1 DEF TypeOK
  <2> QED
    BY <1>1, <2>1, <2>5, <2>6, StillSteps DEF LivingInv, Deprecated
<1>6. ASSUME NEW c \in Collectors, Drop(c) PROVE LivingInv'
  <2>1. PICK e \in dropping[c] :
            edges' = Unlinked(e) /\ dropping' = [dropping EXCEPT ![c] = @ \ {e}]
    BY <1>6 DEF Drop
  <2>2. UNCHANGED <<object, removing, doomed, step, pc, here, fresh, todo>>
    BY <1>6 DEF Drop
  <2>3. e.first # Graph
    BY <2>1 DEF LivingInv, DeletionsSpareGraph
  <2>4. \A d \in Collectors : dropping'[d] \subseteq dropping[d]
    BY <1>2, <2>1 DEF TypeOK
  <2>5. DeletionsSpareGraph'
    BY <2>2, <2>4 DEF LivingInv, DeletionsSpareGraph, Deprecated
  <2> QED
    BY <1>1, <2>1, <2>2, <2>3, <2>5, UnlinkSteps DEF LivingInv, Deprecated
<1>7. ASSUME NEW c \in Collectors, DropFails(c) PROVE LivingInv'
  <2>1. PICK e \in dropping[c] : edges' = Unlinked(e)
    BY <1>7 DEF DropFails
  <2>2. /\ UNCHANGED <<object, removing, doomed, step, here, fresh, todo, dropping>>
        /\ pc' = [pc EXCEPT ![c] = "dead"]
    BY <1>7 DEF DropFails
  <2>3. e.first # Graph
    BY <2>1 DEF LivingInv, DeletionsSpareGraph
  <2>4. DeletionsSpareGraph'
    BY <2>2 DEF LivingInv, DeletionsSpareGraph, Deprecated
  <2>5. \A d \in Collectors : pc'[d] = "half" => pc[d] = "half"
    BY <1>2, <2>2 DEF TypeOK
  <2> QED
    BY <1>1, <2>1, <2>2, <2>3, <2>4, <2>5, UnlinkSteps DEF LivingInv, Deprecated
<1>8. ASSUME NEW c \in Collectors, Collect(c) PROVE LivingInv'
  BY <1>1, <1>4, <1>5, <1>6, <1>7, <1>8, CreateLiving, JoinFirstLiving, JoinSecondLiving DEF Collect
<1>9. CASE (\E o \in Objects : Delete(o)) \/ (\E n \in Nodes : ExpireEdge(n))
  BY <1>1, <1>9, DeletionLiving
<1> QED
  BY <1>3, <1>8, <1>9 DEF Next

LEMMA LivingInit == Init => LivingInv
<1> SUFFICES ASSUME Init PROVE LivingInv
  OBVIOUS
<1>1. \A n \in Nodes : edges[n] = {}
  BY DEF Init
<1>2. EdgesOfEnds
  BY <1>1 DEF EdgesOfEnds
<1>3. DeletionsSpareGraph /\ HalfIsKept /\ LivingHang
  BY DEF Init, DeletionsSpareGraph, HalfIsKept, LivingHang, Exists
<1> QED
  BY <1>2, <1>3, UniqueInit DEF LivingInv

\* No setter, no expiry of an edge and no deletion of another element ever takes an
\* element that lives out of the graph.
THEOREM LivingAreInGraph == Spec => []LivingElementsAreInGraph
<1>1. LivingInv => LivingElementsAreInGraph
  <2> SUFFICES ASSUME LivingInv, NEW o \in Objects,
                      Exists(o), ~Deprecated(o), ~Unfinished(o)
               PROVE  Registered(o) /\ \E e \in edges[o] : Other(e, o) = Graph
    BY DEF LivingElementsAreInGraph
  <2>1. PICK e \in edges[Graph] : e \in edges[o] /\ e.first = Graph /\ e.second = o
    BY DEF LivingInv, LivingHang, Hangs
  <2> QED
    BY <2>1, NumberIsNoNone DEF Registered, Other
<1> QED
  BY <1>1, LivingInit, LivingStep, PTL DEF Spec
==============================================================================

------------------------------ MODULE ModelGraph ------------------------------
(***************************************************************************)
(* The graph (model/Graph.py) and the collectors that fill it at the same  *)
(* time.  A collector is a script of calls: getOrCreate* under the lock of *)
(* the type, and the setters and adders of the elements, under no lock.    *)
(* Timers delete elements and edges at any moment (module Verification     *)
(* says when).                                                             *)
(*                                                                         *)
(* An edge is an object of its own, known to both of its ends; creating    *)
(* one takes three steps, deleting an element one step per edge.           *)
(***************************************************************************)
EXTENDS Integers, Sequences, FiniteSets

CONSTANTS
    Collectors,     \* the collectors that work on the graph
    Script,         \* the calls each of them makes
    ShortTimeouts,  \* the Timer of an element may fire before its creation is over
    MaxObjects,     \* bound: elements that are ever created
    MaxExpiries     \* bound: elements that are ever deleted

Graph == 0
None == -1
Objects == 1..MaxObjects
Nodes == Objects \cup {Graph}

Types == {"Host", "Layer2Network", "Interface", "Layer3Network", "Layer3Address", "Location",
          "Service", "DhcpService", "DnsService", "Disk", "Route", "FirewallRule", "FirewallRaw"}

\* Types whose __eq__ compares attributes: fixed ones, and ones that may change.
ComparedByValue == {"Route", "FirewallRule", "FirewallRaw"}
ComparedByAttributes == {"Interface", "DhcpService", "DnsService"}

\* Elements that are looked up in the whole graph.
Rooted == {"Host", "Layer2Network", "Interface", "Layer3Network", "Layer3Address", "Location"}

\* isinstance
Subtypes(T) == IF T = "Service" THEN {"Service", "DhcpService", "DnsService"} ELSE {T}
------------------------------------------------------------------------------
(***************************************************************************)
(* The calls.  A reference names the result of an earlier call of the same *)
(* script by its number, 0 is None.  What is linked, and how:              *)
(*   "new"    the constructor creates an edge if there is something to     *)
(*            link to                                                      *)
(*   "set"    a setter replaces the edges to elements of this type, if     *)
(*            there is something to link to                                *)
(*   "must"   the same, but the setter does not look for None              *)
(*   "add"    an adder links unless an equal neighbour is linked           *)
(***************************************************************************)
Link(how, type, to, timed) == [how |-> how, type |-> type, to |-> to, timed |-> timed]

New(type, to) == Link("new", type, to, TRUE)
Set(type, to) == Link("set", type, to, TRUE)

\* getOrCreate*: look for an element with this key next to `at`; if there is
\* none create it with the links `new`, else apply the setters `found`.
Get(type, key, value, at, new, found) ==
    [op |-> "get", type |-> type, key |-> key, value |-> value, at |-> at,
     new |-> new, found |-> found]

\* (The id in lower case.  Templates, which nobody looks up, are left out.)
Location(id) == Get("Location", id, id, 0, <<>>, <<>>)
Host(id, location) ==
    Get("Host", id, id, 0, <<New("Location", location)>>, <<Set("Location", location)>>)
Layer2Network(id, location) ==
    Get("Layer2Network", id, id, 0,
        <<Link("new", "Location", location, FALSE)>>, <<Link("must", "Location", location, TRUE)>>)
Interface(mac, network) ==
    Get("Interface", mac, mac, 0,
        <<New("Layer2Network", network)>>, <<Set("Layer2Network", network)>>)
Layer3Network(id) == Get("Layer3Network", id, id, 0, <<>>, <<>>)
Layer3Address(address) == Get("Layer3Address", address, address, 0, <<>>, <<>>)
Service(port, address) ==
    Get("Service", port, port, address, <<New("Layer3Address", address)>>, <<>>)
DhcpService(address) ==
    Get("DhcpService", "67_udp", "67_udp", address,
        <<New("Layer3Address", address)>>, <<Set("Layer3Address", address)>>)
DnsService(address) ==
    Get("DnsService", "53_udp", "53_udp", address,
        <<New("Layer3Address", address)>>, <<Set("Layer3Address", address)>>)
Disk(name, host) == Get("Disk", name, name, host, <<>>, <<>>)
\* Routes are looked up by destination and gateway but are equal if their
\* destinations are.
Route(dest, gateway, host, interface) ==
    Get("Route", <<dest, gateway>>, dest, host,
        <<Set("Interface", interface)>>, <<Set("Interface", interface)>>)
FirewallRule(rule, host, inInterface, outInterface) ==
    Get("FirewallRule", rule, rule, host,
        <<New("Interface", outInterface), New("Interface", inInterface)>>, <<>>)
FirewallRaw(firewall, data, host) ==
    Get("FirewallRaw", firewall, <<firewall, data>>, host, <<>>, <<>>)

\* A setter (Host.setLocation, Interface.setNetwork, ...) or an adder
\* (Host.addDisk, Interface.addAddress, ...) of the result `of`.
SetOf(of, type, to) == [op |-> "link", of |-> of, link |-> Set(type, to)]
AddTo(of, type, to) == [op |-> "link", of |-> of, link |-> Link("add", type, to, TRUE)]
------------------------------------------------------------------------------
\* A call refers to results of earlier calls, and the owner of what is looked up
\* in the whole graph is nobody.
LegalLink(link, i) ==
    /\ link.how \in {"new", "set", "must", "add"}
    /\ link.type \in Types /\ link.timed \in BOOLEAN
    /\ link.to \in 0..(i - 1)

LegalLinks(links, i) ==
    Len(links) \in Nat /\ \A j \in 1..Len(links) : LegalLink(links[j], i)

LegalCall(call, i) ==
    \/ /\ call.op = "get"
       /\ call.type \in Types
       /\ call.at \in 0..(i - 1) /\ (call.type \in Rooted => call.at = 0)
       /\ LegalLinks(call.new, i) /\ LegalLinks(call.found, i)
    \/ /\ call.op = "link"
       /\ call.of \in 1..(i - 1) /\ LegalLink(call.link, i) /\ call.link.to # 0

ASSUME GraphAssumption ==
    /\ None \notin Collectors
    /\ \A c \in Collectors :
          /\ Len(Script[c]) \in Nat
          /\ \A i \in 1..Len(Script[c]) : LegalCall(Script[c][i], i)
    /\ ShortTimeouts \in BOOLEAN
    /\ MaxObjects \in Nat /\ MaxExpiries \in Nat
------------------------------------------------------------------------------
(***************************************************************************)
(*   object     type, key and value of each element, or NoObject           *)
(*   edges      the edges each node knows                                  *)
(*   removing   how far the deletion of an element is: "no", "marked" (as  *)
(*              deprecated), "unlinking", "gone"                           *)
(*   doomed     the edges it has still to delete                           *)
(*   lock       __locks: who holds the lock of a type                      *)
(*   step, pc   which call each collector is in, and where                 *)
(*   got        the results of its calls                                   *)
(*   here       the element its call is about                              *)
(*   fresh      the call has created it, it is not linked to the graph yet *)
(*   todo       the links it has still to make                             *)
(*   dropping   the edges a setter has still to delete                     *)
(***************************************************************************)
VARIABLES object, edges, removing, doomed, lock, step, pc, got, here, fresh, todo, dropping

graphVars == <<object, edges, removing, doomed>>
callVars == <<step, pc, got, here, fresh, todo, dropping>>
vars == <<graphVars, lock, callVars>>

NoObject == [type |-> "none"]

Init ==
    /\ object = [o \in Objects |-> NoObject]
    /\ edges = [n \in Nodes |-> {}]
    /\ removing = [o \in Objects |-> "no"]
    /\ doomed = [o \in Objects |-> {}]
    /\ lock = [T \in Types |-> None]
    /\ step = [c \in Collectors |-> 1]
    /\ pc = [c \in Collectors |-> "idle"]
    /\ got = [c \in Collectors |-> <<>>]
    /\ here = [c \in Collectors |-> None]
    /\ fresh = [c \in Collectors |-> FALSE]
    /\ todo = [c \in Collectors |-> <<>>]
    /\ dropping = [c \in Collectors |-> {}]
------------------------------------------------------------------------------
Exists(o) == object[o] # NoObject

Other(e, n) == IF e.second = n THEN e.first ELSE e.second

Neighbours(n, T) ==
    {o \in Objects : object[o].type \in Subtypes(T) /\ \E e \in edges[n] : Other(e, n) = o}

\* getDeprecated
Deprecated(n) == n \in Objects /\ removing[n] # "no"

Unlinked(e) == [n \in Nodes |-> edges[n] \ {e}]

\* ==
Equal(o, p) ==
    o = p \/ (object[o].type \in ComparedByValue /\ object[p].type = object[o].type
              /\ object[p].value = object[o].value)

Call(c) == Script[c][step[c]]
Calling(c) == step[c] <= Len(Script[c])

At(c) == IF Call(c).at = 0 THEN Graph ELSE got[c][Call(c).at]

\* The links, their references replaced by the elements.
Resolved(c, link) ==
    [how |-> link.how, type |-> link.type, timed |-> link.timed,
     to |-> IF link.to = 0 THEN None ELSE got[c][link.to]]

ResolvedAll(c, links) == [i \in 1..Len(links) |-> Resolved(c, links[i])]

------------------------------------------------------------------------------
(* getOrCreate* *)

\* Mutant: no lock.
AcquireAnyway(c) ==
    /\ pc[c] = "idle" /\ Calling(c)
    /\ Call(c).op = "get"
    /\ lock' = [lock EXCEPT ![Call(c).type] = c]
    /\ pc' = [pc EXCEPT ![c] = "looking"]
    /\ UNCHANGED <<graphVars, step, got, here, fresh, todo, dropping>>

Acquire(c) ==
    /\ pc[c] = "idle" /\ Calling(c)
    /\ Call(c).op = "get"
    /\ lock[Call(c).type] = None
    /\ lock' = [lock EXCEPT ![Call(c).type] = c]
    /\ pc' = [pc EXCEPT ![c] = "looking"]
    /\ UNCHANGED <<graphVars, step, got, here, fresh, todo, dropping>>

\* getInInterface and getOutInterface return edges, and no edge is equal to an
\* interface: a rule with an interface is never found.
Findable(c, o) ==
    Call(c).type = "FirewallRule" =>
        /\ \A i \in 1..Len(Call(c).new) : Call(c).new[i].to = 0
        /\ Neighbours(o, "Interface") = {}

Matches(c) ==
    {o \in Neighbours(At(c), Call(c).type) : object[o].key = Call(c).key /\ Findable(c, o)}

\* getAllNeighbors returns a set, which keeps one of several equal elements.
Hidden(c, o) == \E p \in Neighbours(At(c), Call(c).type) \ Matches(c) : Equal(o, p)

Find(c) ==
    /\ pc[c] = "looking"
    /\ \E o \in Matches(c) :
          /\ here' = [here EXCEPT ![c] = o]
          /\ todo' = [todo EXCEPT ![c] = ResolvedAll(c, Call(c).found)]
    /\ pc' = [pc EXCEPT ![c] = "linking"]
    /\ UNCHANGED <<graphVars, lock, step, got, fresh, dropping>>

Create(c) ==
    /\ pc[c] = "looking"
    /\ \A o \in Matches(c) : Hidden(c, o)
    /\ \E o \in Objects :
          /\ ~Exists(o) /\ \A p \in Objects : p < o => Exists(p)
          /\ object' = [object EXCEPT ![o] =
                            [type |-> Call(c).type, key |-> Call(c).key, value |-> Call(c).value]]
          /\ here' = [here EXCEPT ![c] = o]
          /\ todo' = [todo EXCEPT ![c] = ResolvedAll(c, Call(c).new)]
    /\ fresh' = [fresh EXCEPT ![c] = TRUE]
    /\ pc' = [pc EXCEPT ![c] = "linking"]
    /\ UNCHANGED <<edges, removing, doomed, lock, step, got, dropping>>

\* A setter or an adder that a collector calls itself.
CallLink(c) ==
    /\ pc[c] = "idle" /\ Calling(c)
    /\ Call(c).op = "link"
    /\ here' = [here EXCEPT ![c] = got[c][Call(c).of]]
    /\ todo' = [todo EXCEPT ![c] = <<Resolved(c, Call(c).link)>>]
    /\ pc' = [pc EXCEPT ![c] = "linking"]
    /\ UNCHANGED <<graphVars, lock, step, got, fresh, dropping>>

(* The links of a call: those of the setters or the constructor, and from the *)
(* graph to the new element in the end                                        *)

MoreLinks(c) == todo[c] # <<>> \/ fresh[c]

Source(c) == IF todo[c] = <<>> THEN Graph ELSE here[c]
Target(c) == IF todo[c] = <<>> THEN here[c] ELSE Head(todo[c]).to
How(c) == IF todo[c] = <<>> THEN "new" ELSE Head(todo[c]).how

\* "start is part of end": an adder makes the new element the first end.
First(c) == IF How(c) = "add" THEN Target(c) ELSE Source(c)
Second(c) == IF How(c) = "add" THEN Source(c) ELSE Target(c)

NewEdge(c) ==
    [first |-> First(c), second |-> Second(c), by |-> c,
     timed |-> IF todo[c] = <<>> THEN FALSE ELSE Head(todo[c]).timed]

\* The constructor has told one end of the edge and not set its __scanners yet.
Unset(e) == \E d \in Collectors : pc[d] = "half" /\ NewEdge(d) = e

Others(c) == Neighbours(here[c], Head(todo[c]).type)

\* == may hold, depending on the attributes that change.
MaybeEqual(o, p) ==
    Equal(o, p) \/ (object[o].type \in ComparedByAttributes /\ object[p].type = object[o].type
                    /\ object[p].value = object[o].value)

\* There is nothing to link.  The getters the setters compare with return any of
\* the neighbours, if there are several.
IsThere(c) ==
    CASE How(c) = "new" -> Target(c) = None
      [] How(c) = "set" -> Target(c) = None \/ Others(c) = {Target(c)}
      [] How(c) = "must" -> Target(c) \in Others(c)
      [] How(c) = "add" -> \E o \in Others(c) : Equal(o, Target(c))

MaybeThere(c) ==
    \/ IsThere(c)
    \/ How(c) = "set" /\ Target(c) \in Others(c)
    \/ How(c) = "add" /\ \E o \in Others(c) : MaybeEqual(o, Target(c))

\* The edges that are there are verified.
Verify(c) ==
    /\ pc[c] = "linking" /\ todo[c] # <<>>
    /\ MaybeThere(c)
    /\ todo' = [todo EXCEPT ![c] = Tail(@)]
    /\ UNCHANGED <<graphVars, lock, step, pc, got, here, fresh, dropping>>

\* What is there is another element, or none.
Differs(c) ==
    /\ pc[c] = "linking" /\ MoreLinks(c)
    /\ ~IsThere(c)
    /\ pc' = [pc EXCEPT ![c] = "replacing"]
    /\ UNCHANGED <<graphVars, lock, step, got, here, fresh, todo, dropping>>

\* Mutant: a setter deletes all edges of the element.
ReplaceAll(c) ==
    /\ pc[c] = "replacing"
    /\ dropping' = [dropping EXCEPT ![c] = IF How(c) \in {"set", "must"} THEN edges[here[c]] ELSE {}]
    /\ pc' = [pc EXCEPT ![c] = "dropping"]
    /\ UNCHANGED <<graphVars, lock, step, got, here, fresh, todo>>

\* A setter looks for the edges to the old elements, to delete them first.
Replace(c) ==
    /\ pc[c] = "replacing"
    /\ dropping' = [dropping EXCEPT ![c] =
                        IF How(c) \in {"set", "must"}
                        THEN {e \in edges[here[c]] : Other(e, here[c]) \in Others(c)} ELSE {}]
    /\ pc' = [pc EXCEPT ![c] = "dropping"]
    /\ UNCHANGED <<graphVars, lock, step, got, here, fresh, todo>>

Drop(c) ==
    /\ pc[c] = "dropping"
    /\ \E e \in dropping[c] :
          /\ ~Unset(e)
          /\ edges' = Unlinked(e)
          /\ dropping' = [dropping EXCEPT ![c] = @ \ {e}]
    /\ UNCHANGED <<object, removing, doomed, lock, step, pc, got, here, fresh, todo>>

\* The edge is taken from its nodes, and then its scanners are an
\* AttributeError, which ends the collector.
DropFails(c) ==
    /\ pc[c] = "dropping"
    /\ \E e \in dropping[c] : Unset(e) /\ edges' = Unlinked(e)
    /\ pc' = [pc EXCEPT ![c] = "dead"]
    /\ UNCHANGED <<object, removing, doomed, lock, step, got, here, fresh, todo, dropping>>

\* Mutant: None is linked like an element.
RaisesOnDeprecated(c) == Deprecated(Source(c)) \/ Deprecated(Target(c))

\* Edge.__init__ of a deleted node, or of None: the collector is over and the
\* lock of its call stays as it is.
Raises(c) == Target(c) = None \/ Deprecated(Source(c)) \/ Deprecated(Target(c))

Raise(c) ==
    /\ pc[c] = "dropping" /\ dropping[c] = {}
    /\ Raises(c)
    /\ pc' = [pc EXCEPT ![c] = "dead"]
    /\ UNCHANGED <<graphVars, lock, step, got, here, fresh, todo, dropping>>

CheckDeprecated(c) ==
    /\ pc[c] = "dropping" /\ dropping[c] = {}
    /\ ~Raises(c)
    /\ pc' = [pc EXCEPT ![c] = "checked"]
    /\ UNCHANGED <<graphVars, lock, step, got, here, fresh, todo, dropping>>

JoinFirst(c) ==
    /\ pc[c] = "checked"
    /\ edges' = [edges EXCEPT ![First(c)] = @ \cup {NewEdge(c)}]
    /\ pc' = [pc EXCEPT ![c] = "half"]
    /\ UNCHANGED <<object, removing, doomed, lock, step, got, here, fresh, todo, dropping>>

JoinSecond(c) ==
    /\ pc[c] = "half"
    /\ edges' = [edges EXCEPT ![Second(c)] = @ \cup {NewEdge(c)}]
    /\ IF todo[c] = <<>>
       THEN fresh' = [fresh EXCEPT ![c] = FALSE] /\ UNCHANGED todo
       ELSE todo' = [todo EXCEPT ![c] = Tail(@)] /\ UNCHANGED fresh
    /\ pc' = [pc EXCEPT ![c] = "linking"]
    /\ UNCHANGED <<object, removing, doomed, lock, step, got, here, dropping>>

\* Mutant: what has been found is returned without a release.
ReturnUnreleased(c) ==
    /\ pc[c] = "linking" /\ ~MoreLinks(c)
    /\ lock' = IF Call(c).op = "get" /\ Call(c).found # <<>>
               THEN lock
               ELSE [T \in Types |-> IF lock[T] = c THEN None ELSE lock[T]]
    /\ got' = [got EXCEPT ![c] = Append(@, here[c])]
    /\ step' = [step EXCEPT ![c] = @ + 1]
    /\ pc' = [pc EXCEPT ![c] = "idle"]
    /\ UNCHANGED <<graphVars, here, fresh, todo, dropping>>

Return(c) ==
    /\ pc[c] = "linking" /\ ~MoreLinks(c)
    /\ lock' = IF Call(c).op = "get" THEN [lock EXCEPT ![Call(c).type] = None] ELSE lock
    /\ got' = [got EXCEPT ![c] = Append(@, here[c])]
    /\ step' = [step EXCEPT ![c] = @ + 1]
    /\ pc' = [pc EXCEPT ![c] = "idle"]
    /\ UNCHANGED <<graphVars, here, fresh, todo, dropping>>

Collect(c) ==
    \/ Acquire(c) \/ Find(c) \/ Create(c) \/ CallLink(c)
    \/ Verify(c) \/ Differs(c) \/ Replace(c) \/ Drop(c) \/ DropFails(c) \/ Raise(c)
    \/ CheckDeprecated(c) \/ JoinFirst(c) \/ JoinSecond(c) \/ Return(c)
------------------------------------------------------------------------------
(* Node.delete and Edge.delete, called by Timers *)

Unfinished(o) == \E c \in Collectors : here[c] = o /\ fresh[c]

\* delete() does not look whether it has run already: an element that somebody
\* verifies after its deletion is deleted again.
Mark(o) ==
    /\ Exists(o)
    /\ Unfinished(o) => ShortTimeouts
    /\ removing[o] \in {"no", "gone"}
    /\ Cardinality({p \in Objects : removing[p] # "no"} \cup {o}) <= MaxExpiries
    /\ removing' = [removing EXCEPT ![o] = "marked"]
    /\ UNCHANGED <<object, edges, doomed, lock, callVars>>

TakeEdges(o) ==
    /\ removing[o] = "marked"
    /\ removing' = [removing EXCEPT ![o] = "unlinking"]
    /\ doomed' = [doomed EXCEPT ![o] = edges[o]]
    /\ UNCHANGED <<object, edges, lock, callVars>>

Unlink(o) ==
    /\ removing[o] = "unlinking"
    /\ \E e \in doomed[o] :
          /\ ~Unset(e)
          /\ edges' = Unlinked(e)
          /\ doomed' = [doomed EXCEPT ![o] = @ \ {e}]
    /\ UNCHANGED <<object, removing, lock, callVars>>

\* The AttributeError ends delete(): the element keeps the edges that are left.
UnlinkFails(o) ==
    /\ removing[o] = "unlinking"
    /\ \E e \in doomed[o] : Unset(e) /\ edges' = Unlinked(e)
    /\ doomed' = [doomed EXCEPT ![o] = {}]
    /\ removing' = [removing EXCEPT ![o] = "gone"]
    /\ UNCHANGED <<object, lock, callVars>>

Gone(o) ==
    /\ removing[o] = "unlinking" /\ doomed[o] = {}
    /\ removing' = [removing EXCEPT ![o] = "gone"]
    /\ UNCHANGED <<object, edges, doomed, lock, callVars>>

\* The Timer of an edge starts when its constructor is over.
ExpireEdge(n) ==
    /\ \E e \in edges[n] :
          /\ e.timed
          /\ ~Unset(e)
          /\ edges' = Unlinked(e)
    /\ UNCHANGED <<object, removing, doomed, lock, callVars>>

Delete(o) == Mark(o) \/ TakeEdges(o) \/ Unlink(o) \/ UnlinkFails(o) \/ Gone(o)

Next ==
    \/ \E c \in Collectors : Collect(c)
    \/ \E o \in Objects : Delete(o)
    \/ \E n \in Nodes : ExpireEdge(n)

Spec == Init /\ [][Next]_vars
------------------------------------------------------------------------------
\* The neighbours of the graph.
Registered(o) == \E e \in edges[Graph] : Other(e, Graph) = o

PCs == {"idle", "looking", "linking", "replacing", "dropping", "checked", "half",
        "dead"}

LinkRecord == [how : {"new", "set", "must", "add"}, type : Types, timed : BOOLEAN,
               to : Objects \cup {None}]

EdgeRecord == [first : Nodes, second : Objects, by : Collectors, timed : BOOLEAN]

TypeOK ==
    /\ \A o \in Objects : Exists(o) => object[o].type \in Types
    /\ edges \in [Nodes -> SUBSET EdgeRecord]
    /\ removing \in [Objects -> {"no", "marked", "unlinking", "gone"}]
    /\ doomed \in [Objects -> SUBSET EdgeRecord]
    /\ lock \in [Types -> Collectors \cup {None}]
    /\ pc \in [Collectors -> PCs]
    /\ \A c \in Collectors : step[c] = Len(got[c]) + 1
    /\ got \in [Collectors -> Seq(Objects)]
    /\ here \in [Collectors -> Objects \cup {None}]
    /\ fresh \in [Collectors -> BOOLEAN]
    /\ todo \in [Collectors -> Seq(LinkRecord)]
    /\ dropping \in [Collectors -> SUBSET EdgeRecord]

\* The graph has one element per type and identifier, whatever collectors look
\* for the same one at the same time (Graph.py:173-196: the lock is held from the
\* lookup until the new element hangs on the graph).
OneObjectPerKey ==
    \A o, p \in Objects :
        /\ object[o].type \in Rooted
        /\ object[o].type = object[p].type /\ object[o].key = object[p].key
        /\ Registered(o) /\ Registered(p)
        => o = p

\* An element that lives hangs on the graph from both sides, no matter which of
\* its edges setters and Timers delete, unless its creation is not over.
LivingElementsAreInGraph ==
    \A o \in Objects :
        Exists(o) /\ ~Deprecated(o) /\ ~Unfinished(o)
            => Registered(o) /\ \E e \in edges[o] : Other(e, o) = Graph

\* A collector between two calls holds no lock, and one in a call that of the
\* call alone: collectors never wait for each other in a circle, and a lock that
\* stays is one of a collector that has died with it (Graph.py:173-196, where no
\* finally releases it, so that every later call for the type waits for ever).
LocksAreOfCalls ==
    \A T \in Types : lock[T] # None =>
        LET c == lock[T] IN pc[c] # "idle" /\ Call(c).op = "get" /\ Call(c).type = T
==============================================================================

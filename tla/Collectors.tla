------------------------------ MODULE Collectors ------------------------------
(***************************************************************************)
(* What the collector modules of one environment make of the graph when    *)
(* the testbed and the XML file change: the Xen scans of the hosts, the    *)
(* networks and the interfaces (scanner/modules/Xen*Scan.py) and the XML   *)
(* scanner (XmlScanner.py), which verifies for ever.  A scan is one step;  *)
(* Verification and ModelGraph look into the steps.                        *)
(*                                                                         *)
(* Time passes in ticks: each collector scans once per tick, and what a    *)
(* Xen scan has verified lasts for Timeout ticks.                          *)
(***************************************************************************)
EXTENDS Naturals

CONSTANTS
  Elements,   \* hosts, networks and interfaces
  Kind,       \* the kind of each, one of Kinds
  OnXen,      \* those that can be on the Xen server
  InXml,      \* those that can be in the XML file
  Timeout     \* of the Xen scans, in ticks

Kinds == {"host", "network", "interface"}

\* A collector is due again before its verifications expire.
ASSUME CollectorsAssumption ==
  /\ Kind \in [Elements -> Kinds]
  /\ OnXen \subseteq Elements /\ InXml \subseteq Elements
  /\ Timeout \in Nat /\ Timeout > 1

VARIABLES
  server,     \* what there is on the Xen server
  file,       \* what is in the XML file
  graph,      \* the elements of the graph
  byXml,      \* those the XML scanner verifies (timeout -1: a Timer that never fires)
  left,       \* ticks until the verification by the Xen scan expires, 0: none
  due,        \* the collectors that have not yet scanned in this tick
  aborted     \* the kinds whose last Xen scan has ended with an exception

vars == <<server, file, graph, byXml, left, due, aborted>>

Init ==
  /\ server \in SUBSET OnXen /\ file \in SUBSET InXml
  /\ graph = {} /\ byXml = {} /\ left = [e \in Elements |-> 0]
  /\ due = Kinds \cup {"xml"} /\ aborted = {}

Of(kind) == {e \in Elements : Kind[e] = kind}

Vanished(kind) == (graph \cap Of(kind)) \ server

\* getOrCreate... and verify
Verify(S) ==
  /\ graph' = graph \cup S
  /\ left' = [e \in Elements |-> IF e \in S THEN Timeout ELSE left[e]]

Scanned(m) == m \in due /\ due' = due \ {m}

----------------------------------------------------------------------------
(* The testbed and the file change *)

ServerChanges ==
  /\ server' \in SUBSET OnXen
  /\ UNCHANGED <<file, graph, byXml, left, due, aborted>>

FileChanges ==
  /\ file' \in SUBSET InXml
  /\ UNCHANGED <<server, graph, byXml, left, due, aborted>>

----------------------------------------------------------------------------
(* The scans *)

\* Mutant: what is in the graph already is not verified again.
XenScanOfNew(kind) ==
  /\ Scanned(kind)
  /\ Vanished(kind) = {}
  /\ Verify((server \cap Of(kind)) \ graph)
  /\ aborted' = aborted \ {kind}
  /\ UNCHANGED <<server, file, byXml>>

XenScan(kind) ==
  /\ Scanned(kind)
  /\ Vanished(kind) = {}
  /\ Verify(server \cap Of(kind))
  /\ aborted' = aborted \ {kind}
  /\ UNCHANGED <<server, file, byXml>>

\* Mutant: discard instead of remove, which raises nothing; what has vanished
\* loses its verification.
DiscardingScan(kind) ==
  /\ Scanned(kind)
  /\ Vanished(kind) # {}
  /\ graph' = (graph \ {e \in Vanished(kind) : e \notin byXml}) \cup (server \cap Of(kind))
  /\ left' = [e \in Elements |-> IF e \in server \cap Of(kind) THEN Timeout
                                 ELSE IF e \in Vanished(kind) THEN 0 ELSE left[e]]
  /\ aborted' = aborted \ {kind}
  /\ UNCHANGED <<server, file, byXml>>

\* For an element of the graph that is not on the server, whoever verifies it,
\* set.remove raises a KeyError, before anything is removed or created.  The
\* interface scan has verified some of the others by then.
XenScanAborts(kind) ==
  /\ Scanned(kind)
  /\ Vanished(kind) # {}
  /\ \E S \in SUBSET (graph \cap server \cap Of(kind)) :
       /\ kind # "interface" => S = {}
       /\ Verify(S)
  /\ aborted' = aborted \cup {kind}
  /\ UNCHANGED <<server, file, byXml>>

\* The elements of the graph after the file has been read, and those of them
\* that are not in the file.
Known == graph \cup file
Unread == graph \ file

\* removeVerification deletes what nobody verifies.
Unverified == {e \in Unread : e \notin byXml /\ left[e] = 0}

XmlScan ==
  /\ Scanned("xml")
  /\ Unread \cap byXml = {}
  /\ graph' = Known \ Unverified
  /\ byXml' = byXml \cup file
  /\ UNCHANGED <<server, file, left, aborted>>

\* Mutant: the verification is not even dropped.
XmlScanGivesUp ==
  /\ Scanned("xml")
  /\ Unread \cap byXml # {}
  /\ graph' = Known /\ byXml' = byXml \cup file
  /\ UNCHANGED <<server, file, left, aborted>>

\* The first element that has been dropped from the file loses its Timer, the
\* KeyError of the lookup after that ends the scan before the element could be
\* deleted.  The loop has come to some of the others before.
XmlScanAborts ==
  /\ Scanned("xml")
  /\ \E e \in Unread \cap byXml : byXml' = (byXml \cup file) \ {e}
  /\ \E before \in SUBSET Unverified : graph' = Known \ before
  /\ UNCHANGED <<server, file, left, aborted>>

----------------------------------------------------------------------------
(* Time *)

\* Mutant: the element is deleted though the XML scanner verifies it.
ExpiringAny == {e \in graph : left[e] = 1}

\* removeVerificationTimeout
Expiring == {e \in graph : left[e] = 1 /\ e \notin byXml}

Tick ==
  /\ due = {}
  /\ due' = Kinds \cup {"xml"}
  /\ left' = [e \in Elements |-> IF left[e] = 0 THEN 0 ELSE left[e] - 1]
  /\ graph' = graph \ Expiring
  /\ UNCHANGED <<server, file, byXml, aborted>>

Scan ==
  \/ \E kind \in Kinds : XenScan(kind) \/ XenScanAborts(kind)
  \/ XmlScan \/ XmlScanAborts

Next == ServerChanges \/ FileChanges \/ Scan \/ Tick

\* The schedulers keep starting the collectors, and the Timers run.
Spec == Init /\ [][Next]_vars /\ WF_vars(Scan) /\ WF_vars(Tick)

----------------------------------------------------------------------------
(* Properties *)

\* Types; the verifications are those of elements of the graph.
TypeOK ==
  /\ server \subseteq OnXen /\ file \subseteq InXml
  /\ graph \subseteq Elements /\ byXml \subseteq graph
  /\ left \in [Elements -> 0..Timeout]
  /\ \A e \in Elements : left[e] > 0 => e \in graph
  /\ due \subseteq Kinds \cup {"xml"} /\ aborted \subseteq Kinds

\* An element that is on the server leaves the graph only while the scans of
\* its kind fail: a scan that succeeds verifies all there is.
LostOnlyInFailure ==
  [][\A e \in (graph \cap server) \ graph' : Kind[e] \in aborted]_vars

\* What is neither on the server nor in the file at last leaves the graph,
\* though the scans that notice it fail (the Timers, and one XML scan per element).
VanishedLeave ==
  \A e \in Elements :
    <>[](e \notin server /\ e \notin file) => <>[](e \notin graph)

\* When nothing changes any more and the file has no element the server lacks,
\* the graph at last is what there is: a failed scan delays, it does not stop
\* the collectors.
GraphConverges ==
  <>[][FALSE]_<<server, file>> /\ <>[](file \subseteq server) => <>[](graph = server)

\* But an element of the file that is for ever missing on the server, a physical
\* host, makes the graph forget the elements of its kind that only Xen knows.
MissingHidesOthers ==
  \A m \in InXml : \A e \in {x \in OnXen : Kind[x] = Kind[m] /\ Kind[x] # "interface"} :
    <>[](m \in file \ server /\ e \notin file) => <>[](e \notin graph)
=============================================================================

--------------------------- MODULE CollectorsProofs ---------------------------
(***************************************************************************)
(* Proofs about Collectors for any elements and any timeout of at least    *)
(* two ticks: only failing scans make the graph lose what is on the server.*)
(***************************************************************************)
EXTENDS Collectors, TLAPS

USE CollectorsAssumption

\* What the last scan of its kind, if it did not fail, did for an element that
\* is still in the graph: it verified it in this tick or in the one before.
\* Elements that came from the file since then have the XML scanner, which
\* drops an element at most once per tick.
FreshInTick(e) == left[e] = Timeout \/ (e \in byXml /\ "xml" \notin due)
FreshBefore(e) == left[e] >= Timeout - 1 \/ e \in byXml \/ "xml" \notin due

Fresh ==
  \A e \in graph :
    Kind[e] \notin aborted => IF Kind[e] \in due THEN FreshBefore(e) ELSE FreshInTick(e)

IInv == TypeOK /\ Fresh

LEMMA KindsAreNotXml == \A e \in Elements : Kind[e] \in Kinds /\ Kind[e] # "xml"
BY DEF Kinds

\* The variables keep their types; verifications are of elements of the graph.
THEOREM TypeCorrect == Spec => []TypeOK
<1>1. Init => TypeOK
  BY DEF Init, TypeOK
<1>2. TypeOK /\ [Next]_vars => TypeOK'
  <2> SUFFICES ASSUME TypeOK, [Next]_vars PROVE TypeOK'
    OBVIOUS
  <2> USE DEF TypeOK, Scanned, Verify, Of, Vanished
  <2>1. CASE ServerChanges
    BY <2>1 DEF ServerChanges
  <2>2. CASE FileChanges
    BY <2>2 DEF FileChanges
  <2>3. ASSUME NEW kind \in Kinds, XenScan(kind) PROVE TypeOK'
    BY <2>3 DEF XenScan
  <2>4. ASSUME NEW kind \in Kinds, XenScanAborts(kind) PROVE TypeOK'
    BY <2>4 DEF XenScanAborts
  <2>5. CASE XmlScan
    BY <2>5 DEF XmlScan, Known, Unread, Unverified
  <2>6. CASE XmlScanAborts
    BY <2>6 DEF XmlScanAborts, Known, Unread, Unverified
  <2>7. CASE Tick
    <3>1. left' \in [Elements -> 0..Timeout]
      BY <2>7 DEF Tick
    <3>2. graph' \subseteq Elements /\ byXml' \subseteq graph'
      BY <2>7 DEF Tick, Expiring
    <3>3. \A e \in Elements : left'[e] > 0 => e \in graph'
      BY <2>7 DEF Tick, Expiring
    <3>4. QED
      BY <2>7, <3>1, <3>2, <3>3 DEF Tick
  <2>8. CASE UNCHANGED vars
    BY <2>8 DEF vars
  <2>9. QED
    BY <2>1, <2>2, <2>3, <2>4, <2>5, <2>6, <2>7, <2>8 DEF Next, Scan
<1>3. QED
  BY <1>1, <1>2, PTL DEF Spec

LEMMA FreshInvariant == Spec => []IInv
<1>1. Init => IInv
  BY DEF Init, IInv, TypeOK, Fresh
<1>2. IInv /\ TypeOK' /\ [Next]_vars => IInv'
  <2> SUFFICES ASSUME IInv, TypeOK', [Next]_vars PROVE Fresh'
    BY DEF IInv
  <2> SUFFICES ASSUME NEW e \in graph', Kind[e] \notin aborted'
               PROVE  IF Kind[e] \in due' THEN FreshBefore(e)' ELSE FreshInTick(e)'
    BY DEF Fresh
  <2>10. e \in Elements /\ Kind[e] \in Kinds /\ Kind[e] # "xml" /\ left[e] \in 0..Timeout
    BY KindsAreNotXml DEF TypeOK, IInv
  <2>11. e \in graph /\ Kind[e] \notin aborted =>
          IF Kind[e] \in due THEN FreshBefore(e) ELSE FreshInTick(e)
    BY DEF IInv, Fresh
  <2> USE DEF FreshBefore, FreshInTick
  <2>1. CASE ServerChanges
    BY <2>1, <2>11 DEF ServerChanges
  <2>2. CASE FileChanges
    BY <2>2, <2>11 DEF FileChanges
  <2>3. ASSUME NEW kind \in Kinds, XenScan(kind)
        PROVE  IF Kind[e] \in due' THEN FreshBefore(e)' ELSE FreshInTick(e)'
    <3>1. CASE Kind[e] = kind
      <4>1. e \in server \cap Of(kind)
        BY <2>3, <2>10, <3>1 DEF XenScan, Vanished, Verify, Of
      <4>2. left'[e] = Timeout /\ Kind[e] \notin due'
        BY <2>3, <2>10, <3>1, <4>1 DEF XenScan, Verify, Scanned
      <4>3. QED
        BY <4>2
    <3>2. CASE Kind[e] # kind
      <4>1. e \in graph /\ left'[e] = left[e] /\ byXml' = byXml
        BY <2>3, <2>10, <3>2 DEF XenScan, Verify, Of
      <4>2. (Kind[e] \in due' <=> Kind[e] \in due) /\ ("xml" \notin due => "xml" \notin due')
            /\ Kind[e] \notin aborted
        BY <2>3, <2>10, <3>2 DEF XenScan, Scanned
      <4>3. QED
        BY <2>11, <4>1, <4>2
    <3>3. QED
      BY <3>1, <3>2
  <2>4. ASSUME NEW kind \in Kinds, XenScanAborts(kind)
        PROVE  IF Kind[e] \in due' THEN FreshBefore(e)' ELSE FreshInTick(e)'
    <3>1. Kind[e] # kind /\ Kind[e] \notin aborted
      BY <2>4 DEF XenScanAborts
    <3>2. e \in graph /\ left'[e] = left[e] /\ byXml' = byXml
      BY <2>4, <2>10, <3>1 DEF XenScanAborts, Verify, Of
    <3>3. (Kind[e] \in due' <=> Kind[e] \in due) /\ ("xml" \notin due => "xml" \notin due')
      BY <2>4, <2>10, <3>1 DEF XenScanAborts, Scanned
    <3>4. QED
      BY <2>11, <3>1, <3>2, <3>3
  <2>5. CASE XmlScan
    <3>1. (Kind[e] \in due' <=> Kind[e] \in due) /\ "xml" \in due /\ "xml" \notin due'
      BY <2>5, <2>10 DEF XmlScan, Scanned
    <3>2. e \in graph \/ e \in byXml'
      BY <2>5 DEF XmlScan, Known
    <3>3. left' = left /\ aborted' = aborted
      BY <2>5 DEF XmlScan
    <3>4. QED
      BY <2>11, <3>1, <3>2, <3>3
  <2>6. CASE XmlScanAborts
    <3>1. (Kind[e] \in due' <=> Kind[e] \in due) /\ "xml" \in due /\ "xml" \notin due'
      BY <2>6, <2>10 DEF XmlScanAborts, Scanned
    <3>2. e \in graph \/ e \in byXml'
      BY <2>6 DEF XmlScanAborts, Known, Unread
    <3>3. left' = left /\ aborted' = aborted
      BY <2>6 DEF XmlScanAborts
    <3>4. QED
      BY <2>11, <3>1, <3>2, <3>3
  <2>7. CASE Tick
    <3>1. e \in graph /\ aborted' = aborted /\ byXml' = byXml /\ due = {}
      BY <2>7 DEF Tick
    <3>2. left[e] = Timeout => left'[e] = Timeout - 1
      BY <2>7, <2>10 DEF Tick
    <3>3. Timeout - 1 >= Timeout - 1
      OBVIOUS
    <3>4. Kind[e] \in due'
      BY <2>7, <2>10 DEF Tick
    <3>5. QED
      BY <2>11, <3>1, <3>2, <3>3, <3>4
  <2>8. CASE UNCHANGED vars
    BY <2>8, <2>11 DEF vars
  <2>9. QED
    BY <2>1, <2>2, <2>3, <2>4, <2>5, <2>6, <2>7, <2>8 DEF Next, Scan
<1>3. QED
  BY <1>1, <1>2, TypeCorrect, PTL DEF Spec

\* An element that is on the server leaves the graph only while the scans of
\* its kind fail (XenHostScan, XenNetworkScan, XenInterfaceScan).
THEOREM OnlyFailuresLose == Spec => LostOnlyInFailure
<1>1. IInv /\ [Next]_vars => [\A e \in (graph \cap server) \ graph' : Kind[e] \in aborted]_vars
  <2> SUFFICES ASSUME IInv, Next, NEW e \in graph, e \in server, e \notin graph'
               PROVE  Kind[e] \in aborted
    BY DEF vars
  <2>4. e \in Elements /\ Kind[e] \in Kinds /\ left[e] \in 0..Timeout /\ Timeout - 1 > 0
    BY KindsAreNotXml DEF TypeOK, IInv
  <2>1. CASE XmlScan \/ XmlScanAborts
    <3>1. "xml" \in due /\ e \notin byXml /\ left[e] = 0
      BY <2>1 DEF XmlScan, XmlScanAborts, Scanned, Known, Unread, Unverified
    <3>2. QED
      BY <2>4, <3>1 DEF IInv, Fresh, FreshBefore, FreshInTick
  <2>2. CASE Tick
    <3>1. due = {} /\ e \notin byXml /\ left[e] = 1
      BY <2>2 DEF Tick, Expiring
    <3>2. QED
      BY <2>4, <3>1 DEF IInv, Fresh, FreshBefore, FreshInTick
  <2>3. QED
    BY <2>1, <2>2 DEF Next, Scan, ServerChanges, FileChanges, XenScan, XenScanAborts, Verify
<1>2. QED
  BY <1>1, FreshInvariant, PTL DEF Spec, LostOnlyInFailure
=============================================================================

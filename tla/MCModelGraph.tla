---------------------------- MODULE MCModelGraph -----------------------------
(***************************************************************************)
(* The scripts for the run of ModelGraph.                                  *)
(***************************************************************************)
EXTENDS ModelGraph, TLC

CONSTANTS c1, c2, phy, xen, net, host, disk

\* L3toL2Network.py:36-37 and TcpdumpHostCollector.py:61-66 (a host in its location,
\* which is set once more without a lock and without a timeout), meeting
\* XenNetworkScan.py:66 (no location), XenHostScan.py:51-81 and
\* XenHardwareScan.py:106-112.
SetLocation == [op |-> "link", of |-> 3, link |-> Link("set", "Location", 1, FALSE)]

Scans ==
    (c1 :> << Location(phy), Layer2Network(net, 1), Host(host, 1), SetLocation >>) @@
    (c2 :> << Layer2Network(net, 0), Location(xen), Host(host, 2), Disk(disk, 3), AddTo(3, "Disk", 4) >>)

==============================================================================

----------------------------- MODULE MCCollectors -----------------------------
(***************************************************************************)
(* Collectors with hosts on Xen, a host of the file that may be on Xen too *)
(* and an interface on Xen.                                                *)
(***************************************************************************)
EXTENDS Collectors

CONSTANTS a, b, p, i

MCElements == {a, b, p, i}
MCKind == [e \in MCElements |-> IF e = i THEN "interface" ELSE "host"]
MCOnXen == {a, b, p, i}
MCInXml == {p, i}
=============================================================================

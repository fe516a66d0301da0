---------------------------- MODULE MCDeployment ----------------------------
(***************************************************************************)
(* Instances of Deployment for TLC: plain hosts g, with a disk e, and h,   *)
(* made from one template; or a router h with its default disk d and an    *)
(* interface i, which serves DNS and DHCP on network n, and a network o.   *)
(***************************************************************************)
EXTENDS Deployment

MCHostOf      == [i \in Interfaces |-> "h"]
MCNetworkOf   == [i \in Interfaces |-> "n"]
MCInterfaceOf == [s \in Services |-> "i"]
MCDiskOf      == [d \in Disks |-> IF d = "e" THEN "g" ELSE "h"]
MCTemplateOf  == [h \in Hosts |-> "ubuntu"]

NewTemplate   == {<<"h", "template">>, <<"h", "suspended">>}
NewNetwork    == {<<"i", "network">>, <<"h", "cpus">>, <<"h", "firewall">>,
                  <<"dns", "options">>}
=============================================================================

------------------------------- MODULE MCHost -------------------------------
(***************************************************************************)
(* Four hosts: a routed VPC with a vxlan subnet and a VM; a routed VPC     *)
(* with a NAT gateway; a VPC without L3VNI with a bridged subnet, a VM and *)
(* a floating IP; and a VPC alone beside one that runs, with a host        *)
(* service that fails and restarts.                                        *)
(***************************************************************************)
EXTENDS HostInvariant

MCScenarios ==
    {[routed |-> TRUE, mode |-> "vxlan", uses |-> {"vpc", "subnet", "vm"},
      steady |-> TRUE, spent |-> 0],
     [routed |-> TRUE, mode |-> "vxlan", uses |-> {"vpc", "nat"},
      steady |-> TRUE, spent |-> 1],
     [routed |-> FALSE, mode |-> "bridge", uses |-> Resources \ {"nat"},
      steady |-> TRUE, spent |-> 2],
     [routed |-> FALSE, mode |-> "bridge", uses |-> {"vpc"},
      steady |-> FALSE, spent |-> 0]}
=============================================================================

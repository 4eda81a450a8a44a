------------------------------- MODULE MCDhcp -------------------------------
(* Small instances of DhcpSubnet and its invariant for TLC. *)
EXTENDS SubnetInvariant, TLC

CONSTANTS m1, m2, v

(* One VM with two interfaces. *)
MCNics == [x \in {v} |-> <<m1, m2>>]

(* The lives of the subnet differ by their configuration, whichever it is. *)
ConfigSymmetry == Permutations(Configs)
=============================================================================

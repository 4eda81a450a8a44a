------------------------------ MODULE MCAgent ------------------------------
(* Small instances of Agent for TLC. *)
EXTENDS AgentInvariant, AgentRefinement, TLC

CONSTANTS v, s, m, f1, f2, g1, g2, vni

(* One VPC, one subnet in it, one VM on the subnet. *)
TreePlacements == {<<v, None>>, <<s, v>>, <<m, s>>}

(* The same without the VM. *)
PairPlacements == {<<v, None>>, <<s, v>>}

(* A store and a host on which the pairs <<name, ref>> of set P run. *)
Provisioned(P) ==
    LET up(n) == \E a \in P : a[1] = n
        at(n) == (CHOOSE a \in P : a[1] = n)[2]
    IN
    /\ st = [n \in Names |-> IF up(n) THEN "running" ELSE None]
    /\ ref = [n \in Names |-> IF up(n) THEN at(n) ELSE None]
    /\ body = [n \in Names |-> up(n)]
    /\ host = [n \in Names \ NATGWs |-> IF up(n) THEN "up" ELSE "absent"]
    /\ natif = [x \in VPCs |-> "absent"]
    /\ hnd = [h \in Handlers |-> Idle]
    /\ queue = <<>>
    /\ wk = [w \in Workers |-> Idle]

(* Two NAT gateways for one VPC that has an L3VNI and no subnet, or, on a  *)
(* network without L3VNI that stays, a VM with two floating IPs for its    *)
(* interface: each start refuses the requests that belong to the other.    *)
AttachmentPlacements == {<<v, vni>>, <<g1, v>>, <<g2, v>>, <<m, s>>, <<f1, m>>, <<f2, m>>}
AttachmentSpec == /\ \/ Provisioned({<<v, vni>>})
                     \/ Provisioned({<<v, None>>, <<s, v>>, <<m, s>>})
                  /\ [][Next]_vars

(* Handlers, workers, floating IPs and gateways are interchangeable there. *)
AttachmentSymmetry == Permutations(Handlers) \cup Permutations(Workers)
                      \cup Permutations(FIPs) \cup Permutations(NATGWs)
=============================================================================

-------------------------- MODULE AgentRefinement --------------------------
(***************************************************************************)
(* The agent keeps, of its VPCs, subnets and VMs, what Lifecycle promises. *)
(***************************************************************************)
EXTENDS Agent

(* The tree as Lifecycle describes it. *)
OnTree(F) == [n \in Tree |-> F[n]]

Tracked == INSTANCE Lifecycle WITH
              Roots <- VPCs, Leaves <- Subnets \cup VMs, Places <- Refs, None <- None,
              state <- OnTree(st), on <- OnTree(ref), built <- OnTree(host)

(* The agent implements Lifecycle: no interleaving of requests, workers    *)
(* and crashes takes a resource along an edge that the lifecycle does not  *)
(* have, or touches the host in a state in which it may not.               *)
FollowsLifecycle == Tracked!Spec
=============================================================================

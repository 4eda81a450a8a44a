----------------------------- MODULE Lifecycle -----------------------------
(***************************************************************************)
(* What the agent promises of the resources that hang on one another: VPCs, *)
(* subnets in a VPC, virtual machines on a subnet.  A resource goes through *)
(* its states one edge at a time, is built only on a parent that is        *)
(* complete, is called running only once it is complete itself, and is     *)
(* dismantled only when nothing stands on it.  No requests, queues,        *)
(* workers or keys here: module Agent shows how they keep the promise.     *)
(***************************************************************************)
CONSTANTS Roots,      \* resources that stand on nothing (VPCs)
          Leaves,     \* resources that stand on another one (subnets, VMs)
          Places,     \* what on[n] may be
          None        \* no state, or no place

Resources == Roots \cup Leaves

VARIABLES state,      \* [Resources -> state of the record, None without one]
          on,         \* [Resources -> what the resource stands on]
          built       \* [Resources -> "absent", "partial" or "up"]

vars == <<state, on, built>>

-----------------------------------------------------------------------------
Init == /\ state = [n \in Resources |-> None]
        /\ on = [n \in Resources |-> None]
        /\ built = [n \in Resources |-> "absent"]

Move(n, from, to) == /\ state[n] \in from
                     /\ state' = [state EXCEPT ![n] = to]
                     /\ UNCHANGED <<on, built>>

Accept(n) == Move(n, {None}, "creating")
Ready(n)  == built[n] = "up" /\ Move(n, {"creating"}, "running")
Retire(n) == Move(n, {"running", "error"}, "deleting")
Gone(n)   == built[n] = "absent" /\ Move(n, {"deleting"}, "deleted")
Forget(n) == Move(n, {"deleted"}, None)
Fail(n)   == Move(n, {"creating", "deleting"}, "error")

(* A resource that is not on the host may be given, or lose, its place. *)
Place(n) == /\ built[n] = "absent"
            /\ \E p \in Places : on' = [on EXCEPT ![n] = p]
            /\ UNCHANGED <<state, built>>

Stands(n) == n \in Leaves => on[n] \in Resources /\ built[on[n]] = "up"

Build(n) == /\ state[n] = "creating"
            /\ Stands(n)
            /\ \/ built[n] = "absent" /\ built' = [built EXCEPT ![n] = "partial"]
               \/ built[n] = "partial" /\ built' = [built EXCEPT ![n] = "up"]
            /\ UNCHANGED <<state, on>>

Dismantle(n) == /\ state[n] = "deleting"
                /\ \A c \in Leaves : on[c] = n => built[c] = "absent"
                /\ \/ built[n] = "up" /\ built' = [built EXCEPT ![n] = "partial"]
                   \/ built[n] = "partial" /\ built' = [built EXCEPT ![n] = "absent"]
                /\ UNCHANGED <<state, on>>

(* A restart fails every transition that was under way, all at once. *)
Reboot == /\ state' = [n \in Resources |->
                         IF state[n] \in {"creating", "deleting"} THEN "error" ELSE state[n]]
          /\ UNCHANGED <<on, built>>

Next == \/ \E n \in Resources : \/ Accept(n) \/ Ready(n) \/ Retire(n) \/ Gone(n) \/ Forget(n)
                                \/ Fail(n) \/ Place(n) \/ Build(n) \/ Dismantle(n)
        \/ Reboot

Spec == Init /\ [][Next]_vars
=============================================================================

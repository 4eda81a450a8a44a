---------------------------- MODULE HostCommands ----------------------------
(***************************************************************************)
(* The workers that create and delete a VPC, a subnet, a virtual machine,  *)
(* a NAT gateway and a floating IP on the host by the steps of HostSteps,  *)
(* with the service of HostSvc.                                            *)
(*                                                                         *)
(* Any step may fail, before or after its effect; then the worker stops    *)
(* there, nothing is undone, and the record says error.  The agent may     *)
(* stop between any two steps; the boot puts the interrupted records in    *)
(* error.                                                                  *)
(*                                                                         *)
(* st follows the work on the host.  A subnet or a VM whose worker waits   *)
(* for its parent is still none, and a VPC or a subnet whose deletion      *)
(* waits for its children, or gave up waiting, is as it was: the waits,    *)
(* which Agent models, are the guards of Create and Delete.  A NAT gateway *)
(* and a floating IP wait for nobody: Prepare looks at the other records,  *)
(* then writes its own, and another command may come between.  There is    *)
(* one request at a time about one resource.                               *)
(***************************************************************************)
EXTENDS HostSteps

CONSTANTS Scenarios,    \* [routed, mode, uses, steady, spent]
          MaxFaults     \* bound on failed steps, agent stops and service faults,
                        \* less what a scenario has spent at the start

VARIABLES
    st,       \* [Resources -> none, creating, running, deleting, error]
    pc,       \* [Resources -> the step its worker is at]
    bad,      \* resources whose worker keeps an error for later
    told,     \* QEMU was sent quit
    hurt,     \* resources that met a failure since their record was made,
              \* "dhcp" once a failed restart left the unit stopped, and
              \* "unread" once a unit was passed over because its status
              \* could not be read, "mute" once the shutdown of QEMU ended on
              \* an error of its socket, "exit" once QEMU ended by itself
    seen,     \* resources a command looked at and has not written: gateways
              \* and floating IPs to create, VPCs and VMs to delete
    late,     \* gateways and floating IPs whose creation and the deletion of
              \* their parent both looked before either had written
    faults

vars == <<has, svcVars, plan, st, pc, bad, told, hurt, seen, late, faults>>

Resources == {"vpc", "subnet", "vm", "nat", "fip"}

Parent == [vpc |-> {}, subnet |-> {"vpc"}, vm |-> {"subnet"},
           nat |-> {"vpc"}, fip |-> {"vm"}]

Children(r) == {c \in Resources : r \in Parent[c]}

Attachments == {"nat", "fip"}

Tree == Resources \ Attachments

ASSUME ScenariosAssumption ==
    \A s \in Scenarios :
        /\ s.routed \in BOOLEAN /\ s.mode \in {"vxlan", "bridge"}
        /\ s.uses \subseteq Resources /\ s.steady \in BOOLEAN
        /\ s.spent \in 0 .. MaxFaults
        /\ "nat" \in s.uses => s.routed

(* A bound of the model, not of the code. *)
ASSUME FaultsAssumption == MaxFaults \in Nat

-----------------------------------------------------------------------------
(* The list of steps of each worker *)

Creation(r) == CASE r = "vpc" -> CreateVPC [] r = "subnet" -> CreateSubnet
                 [] r = "vm" -> StartVM [] r = "nat" -> CreateNAT
                 [] r = "fip" -> CreateFIP

Deletion(r) == CASE r = "vpc" -> DeleteVPC [] r = "subnet" -> DeleteSubnet
                 [] r = "vm" -> StopVM [] r = "nat" -> RemoveNAT
                 [] r = "fip" -> RemoveFIP

Steps(r) == IF st[r] = "creating" THEN Creation(r) ELSE Deletion(r)

-----------------------------------------------------------------------------
Init == /\ has = {} /\ SvcInit
        /\ plan \in Scenarios
        /\ st = [r \in Resources |-> "none"] /\ pc = [r \in Resources |-> 1]
        /\ bad = {} /\ told = FALSE /\ hurt = {} /\ seen = {} /\ late = {}
        /\ faults = plan.spent

Begin(r, state) == st' = [st EXCEPT ![r] = state] /\ pc' = [pc EXCEPT ![r] = 1]

(* Faulty variant: a resource the host was not asked for is built. *)
CreateUnchecked(r) ==
    /\ r \in Tree /\ st[r] = "none" /\ \A p \in Parent[r] : st[p] = "running"
    /\ Begin(r, "creating")
    /\ UNCHANGED <<has, svcVars, plan, bad, told, hurt, seen, late, faults>>

(* The worker of a VPC, a subnet or a VM starts on the host: its parent    *)
(* runs, and cannot be deleted while this one has a record.                *)
Create(r) ==
    /\ r \in Tree \cap plan.uses /\ st[r] = "none"
    /\ \A p \in Parent[r] : st[p] = "running"
    /\ Begin(r, "creating")
    /\ UNCHANGED <<has, svcVars, plan, bad, told, hurt, seen, late, faults>>

(* What Prepare finds in the other records lets its command through. *)
Look(r) == /\ r \notin seen /\ seen' = seen \cup {r}
           /\ UNCHANGED <<has, svcVars, plan, st, pc, bad, told, hurt, late, faults>>

(* Faulty variant: the state of the VPC is not looked at. *)
PrepareNATUnlooked == /\ "nat" \in plan.uses /\ st["nat"] = "none"
                      /\ Look("nat")

PrepareNAT == /\ "nat" \in plan.uses /\ st["nat"] = "none"
              /\ st["vpc"] = "running"
              /\ Look("nat")

PrepareFIP == /\ "fip" \in plan.uses /\ st["fip"] = "none"
              /\ st["vm"] = "running"
              /\ Look("fip")

PrepareDeleteVPC == /\ st["vpc"] \in {"running", "error"}
                    /\ st["subnet"] \in {"none", "deleting"} /\ st["nat"] = "none"
                    /\ Look("vpc")

(* Faulty variant: the floating IP of the VM is not looked for. *)
PrepareStopVMUnlooked == /\ st["vm"] \in {"running", "error"}
                         /\ Look("vm")

PrepareStopVM == /\ st["vm"] \in {"running", "error"} /\ st["fip"] = "none"
                 /\ Look("vm")

(* The record of a gateway or a floating IP is written, and its worker     *)
(* starts, whatever became of its parent since Prepare looked.             *)
Attach(r) ==
    /\ r \in Attachments \cap seen /\ st[r] = "none"
    /\ Begin(r, "creating") /\ seen' = seen \ {r}
    /\ late' = IF Parent[r] \cap seen # {} THEN late \cup {r} ELSE late
    /\ UNCHANGED <<has, svcVars, plan, bad, told, hurt, faults>>

(* The worker that deletes a VPC, a subnet or a VM starts on the host when *)
(* the records of the tree under it are gone.  A gateway or a floating IP  *)
(* accepted since Prepare looked stays behind.                             *)
Delete(r) ==
    /\ r \in Tree /\ st[r] \in {"running", "error"}
    /\ r = "subnet" \/ r \in seen
    /\ \A c \in Children(r) \cap Tree : st[c] = "none"
    /\ Begin(r, "deleting") /\ seen' = seen \ {r}
    /\ late' = late \cup (Children(r) \cap Attachments \cap seen)
    /\ UNCHANGED <<has, svcVars, plan, bad, told, hurt, faults>>

Detach(r) ==
    /\ r \in Attachments /\ st[r] \in {"running", "error"}
    /\ Begin(r, "deleting")
    /\ UNCHANGED <<has, svcVars, plan, bad, told, hurt, seen, late, faults>>

Working(r) == st[r] \in {"creating", "deleting"}

(* The step the worker of a resource is at: one, or none at the end. *)
Current(r) == LET steps == Steps(r) IN
              IF pc[r] <= Len(steps) THEN {steps[pc[r]]} ELSE {}

OnHost(s) == s.kind \notin {"load", "open", "close", "halt", "collect"}

Advance(r) == pc' = [pc EXCEPT ![r] = @ + 1]

(* The worker returns an error, and the dispatcher marks the record. *)
Fail(r) == /\ st' = [st EXCEPT ![r] = "error"] /\ bad' = bad \ {r}
           /\ hurt' = hurt \cup {r}
           /\ UNCHANGED pc

(* The records through which a gateway or a floating IP finds its          *)
(* namespace.  That of a VM or a subnet may be there, waiting for its      *)
(* parent, while st says none.                                             *)
Above == [nat |-> {"vpc"}, fip |-> {"vm", "subnet", "vpc"}]

Lost(r, s) == s.kind = "load" /\ \E a \in Above[r] : st[a] = "none"

Load(r, s) ==
    /\ s.kind = "load"
    /\ \/ st["vpc"] # "none" /\ Advance(r) /\ UNCHANGED <<st, bad, hurt>>
       \/ Lost(r, s) /\ Fail(r)
    /\ UNCHANGED <<has, svcVars, plan, told, seen, late, faults>>

(* One step.  Making the namespace of a VPC begins a new one. *)
Run(r, s) ==
    /\ OnHost(s) /\ ~Refused(s)
    /\ has' = Done(s) /\ Advance(r)
    /\ gen' = IF s.on = "netns" /\ s.kind = "set" THEN 3 - gen ELSE gen
    /\ hurt' = hurt \ ((IF s.kind = "restart" THEN {"unread"} ELSE {})
                         \cup (IF s = Step("make", "qemu") THEN {"exit"} ELSE {}))
    /\ UNCHANGED <<svc, opened, saved, calls, reply, amiss, plan, st, bad, told,
                   seen, late, faults>>

Tried(s) == s.kind \in {"try_delete", "try_drop"}

(* A step that finds the host in another state than it needs. *)
Refuse(r, s) ==
    /\ Refused(s)
    /\ IF Tried(s)
       THEN bad' = bad \cup {r} /\ Advance(r) /\ UNCHANGED <<st, hurt>>
       ELSE Fail(r)
    /\ UNCHANGED <<has, svcVars, plan, told, seen, late, faults>>

(* A step that fails of itself, before or after its effect. *)
Fault(r, s) ==
    /\ OnHost(s) /\ ~Refused(s) /\ faults < MaxFaults
    /\ faults' = faults + 1
    /\ has' \in Left(s)
    /\ gen' = IF s.on = "netns" /\ has' # has /\ "netns" \in has'
              THEN 3 - gen ELSE gen
    /\ IF Tried(s)
       THEN bad' = bad \cup {r} /\ Advance(r) /\ UNCHANGED st
       ELSE bad' = bad \ {r} /\ st' = [st EXCEPT ![r] = "error"] /\ UNCHANGED pc
    /\ hurt' = hurt \cup {r} \cup (IF s.kind = "restart" /\ "dhcp_unit" \in has \ has'
                                  THEN {"dhcp"} ELSE {})
    /\ UNCHANGED <<svc, opened, saved, calls, reply, amiss, plan, told, seen, late>>

(* A unit whose status cannot be read is passed over as if it were not     *)
(* active, and the command goes on.                                        *)
Unread(r, s) ==
    /\ s.on = "dhcp_unit" /\ s.kind \in {"restart", "drop"}
    /\ "dhcp_unit" \in has /\ faults < MaxFaults
    /\ faults' = faults + 1 /\ Advance(r) /\ hurt' = hurt \cup {"unread"}
    /\ UNCHANGED <<has, svcVars, plan, st, bad, told, seen, late>>

(* errors.Join of the removals that were tried. *)
Collect(r, s) ==
    /\ s.kind = "collect"
    /\ IF r \in bad THEN Fail(r) ELSE Advance(r) /\ UNCHANGED <<st, bad, hurt>>
    /\ UNCHANGED <<has, svcVars, plan, told, seen, late, faults>>

(* The record says running, or is removed. *)
End(r) ==
    /\ Working(r) /\ Current(r) = {}
    /\ st' = [st EXCEPT ![r] = IF @ = "creating" THEN "running" ELSE "none"]
    /\ pc' = [pc EXCEPT ![r] = 1]
    /\ hurt' = IF st[r] = "deleting" /\ ~(r = "vm" /\ "qemu" \in has)
               THEN hurt \ ({r} \cup (IF r = "subnet" THEN {"dhcp"} ELSE {})
                               \cup (IF r = "vm" THEN {"exit"} ELSE {})
                               \cup (IF "dhcp_unit" \in has THEN {} ELSE {"unread"}))
               ELSE hurt
    /\ late' = IF st[r] = "deleting" THEN late \ {r} ELSE late
    /\ UNCHANGED <<has, svcVars, plan, bad, told, seen, faults>>

(* teardownHostSvc and the end of setupHostSvc: ask, wait, take the answer. *)
Ask(s) ==
    /\ s.kind \in {"open", "close"} /\ Call(s.kind)
    /\ UNCHANGED <<has, plan, st, pc, bad, told, hurt, seen, late, faults>>

Answered ==
    /\ Working("vpc") /\ reply \in {"ok", "failed"} /\ reply' = "idle"
    /\ IF reply = "ok" THEN Advance("vpc") /\ UNCHANGED <<st, bad, hurt>> ELSE Fail("vpc")
    /\ UNCHANGED <<has, svc, opened, saved, gen, calls, amiss, plan, told, seen, late, faults>>

GiveUp == /\ reply = "waiting" /\ reply' = "failed" /\ faults < MaxFaults
          /\ faults' = faults + 1 /\ calls' = Unattended
          /\ UNCHANGED <<has, svc, opened, saved, gen, amiss, plan, st, pc, bad,
                         told, hurt, seen, late>>

(* shutdownQEMU: no socket, or nobody answering on it, is a stopped QEMU.  *)
Halted(r, s) ==
    /\ s.kind = "halt" /\ ~({"qemu", "sockets"} \subseteq has)
    /\ Advance(r)
    /\ UNCHANGED <<has, svcVars, plan, st, bad, told, hurt, seen, late, faults>>

(* So is any other error on its socket, of a powerdown sent again or of a  *)
(* poll; and the error of the quit is not looked at.                       *)
Mute(r, s) ==
    /\ s.kind = "halt" /\ {"qemu", "sockets"} \subseteq has
    /\ faults < MaxFaults /\ faults' = faults + 1
    /\ hurt' = hurt \cup {r, "mute"} /\ Advance(r)
    /\ UNCHANGED <<has, svcVars, plan, st, bad, told, seen, late>>

(* Faulty variant: the deadline passes and QEMU is not told. *)
DeadlineSilent(r, s) ==
    /\ s.kind = "halt" /\ {"qemu", "sockets"} \subseteq has
    /\ told' = FALSE /\ hurt' = hurt \cup {r} /\ Advance(r)
    /\ UNCHANGED <<has, svcVars, plan, st, bad, seen, late, faults>>

(* At the deadline quit is sent, and nobody waits for its effect. *)
Deadline(r, s) ==
    /\ s.kind = "halt" /\ {"qemu", "sockets"} \subseteq has
    /\ told' = TRUE /\ hurt' = hurt \cup {r} /\ Advance(r)
    /\ UNCHANGED <<has, svcVars, plan, st, bad, seen, late, faults>>

(* The guest powers off, or QEMU dies; it may leave its sockets behind. *)
QemuExit == /\ "qemu" \in has /\ has' \in {has \ {"qemu"}, has \ {"qemu", "sockets"}}
            /\ told' = FALSE
            /\ hurt' = (hurt \ {"mute"}) \cup (IF st["vm"] \in {"creating", "running"}
                                              THEN {"exit"} ELSE {})
            /\ UNCHANGED <<svcVars, plan, st, pc, bad, seen, late, faults>>

(* The agent dies and boots again: MigrateStates puts every record that   *)
(* was being built or removed in error.                                   *)
AgentStop ==
    /\ faults < MaxFaults /\ faults' = faults + 1
    /\ \E r \in Resources : Working(r)
    /\ st' = [r \in Resources |-> IF Working(r) THEN "error" ELSE st[r]]
    /\ hurt' = hurt \cup {r \in Resources : Working(r)}
    /\ bad' = {} /\ seen' = {} /\ reply' = "idle" /\ calls' = Unattended
    /\ late' = {r \in late : st[r] # "none"}
    /\ UNCHANGED <<has, svc, opened, saved, gen, amiss, plan, pc, told>>

(* The service carries a call out, restarts, and fails in its ways. *)
Serve == /\ Handle(TRUE, TRUE)
         /\ UNCHANGED <<has, plan, st, pc, bad, told, hurt, seen, late, faults>>

Return == /\ \/ svc = "stopping" /\ Exit
             \/ Restore({}, TRUE)
          /\ UNCHANGED <<has, plan, st, pc, bad, told, hurt, seen, late, faults>>

SvcFault == /\ ~plan.steady /\ faults < MaxFaults /\ faults' = faults + 1
            /\ \/ Stop
               \/ svc = "up" /\ Exit
               \/ Handle(FALSE, TRUE)
               \/ Handle(TRUE, FALSE)
               \/ \E fails \in SUBSET VPCs, saves \in BOOLEAN :
                      (fails # {} \/ ~saves) /\ Restore(fails, saves)
            /\ UNCHANGED <<has, plan, st, pc, bad, told, hurt, seen, late>>

(* A worker at step s: the step is carried out, fails, is passed  *)
(* over, or belongs to the host service or to QEMU.                        *)
Work(r, s) == \/ Run(r, s) \/ Refuse(r, s) \/ Fault(r, s) \/ Unread(r, s)
              \/ Collect(r, s) \/ Load(r, s) \/ Ask(s)
              \/ Halted(r, s) \/ Mute(r, s) \/ Deadline(r, s)

Next == \/ \E r \in Resources : \/ Create(r) \/ Attach(r) \/ Delete(r) \/ Detach(r)
                                \/ End(r)
                                \/ Working(r) /\ \E s \in Current(r) : Work(r, s)
        \/ PrepareNAT \/ PrepareFIP \/ PrepareDeleteVPC \/ PrepareStopVM
        \/ Answered \/ GiveUp \/ QemuExit \/ AgentStop \/ Serve \/ Return \/ SvcFault

Spec == Init /\ [][Next]_vars

-----------------------------------------------------------------------------
(* Properties *)

(* Every variable keeps its type, and only resources that the scenario     *)
(* uses have records.                                                      *)
TypeOK == /\ has \subseteq Objects /\ SvcTypeOK /\ plan \in Scenarios
          /\ st \in [Resources -> {"none", "creating", "running", "deleting", "error"}]
          /\ pc \in [Resources -> 1 .. 20]
          /\ \A r \in Resources : st[r] # "none" => r \in plan.uses
          /\ told \in BOOLEAN /\ bad \subseteq Resources
          /\ hurt \subseteq Resources \cup {"dhcp", "unread", "mute", "exit"}
          /\ seen \subseteq Resources /\ late \subseteq Attachments
          /\ faults \in 0 .. MaxFaults

(* The objects a resource leaves to no other.  QEMU may outlive its VM. *)
Own(r) ==
    CASE r = "vpc" -> {"netns", "vp", "br_public", "guard", "vrf", "unreachable",
                       "brl3", "vxl3", "l3", "default_vrf", "frr_vrf", "vni", "bgp",
                       "route_map", "hostsvc", "svc_redirect"}
      [] r = "subnet" -> {"veth", "host_bridge", "vxlan", "bridge", "port", "gw",
                          "gw_fdb", "dhcp_conf", "dhcp_unit", "deaf", "route_subnet"}
      [] r = "vm" -> {"tap", "tap_port", "redirect", "reservation", "lease", "nocloud",
                      "metadata", "sockets", "route_vm"}
      [] r = "nat" -> {"ng", "ng_fdb", "default_ng", "nat", "route_default"}
      [] r = "fip" -> {"fip", "fip_fdb", "fip_nat", "fip_table", "rule_main", "rule_own"}

(* What must be on the host of a running resource: all that the checks of  *)
(* the watchdog look for, the answer of dnsmasq to the machine, and the    *)
(* whole of a gateway or a floating IP.                                    *)
Expected(r) ==
    CASE r = "vpc" -> checkVPC \cup checkL3VPC \cup checkHostSvc
      [] r = "subnet" -> expectedExports(r)
                           \cup (checkSubnet \ (IF "dhcp" \in hurt THEN {"dhcp_unit"} ELSE {}))
      [] r = "vm" -> expectedExports(r)
                       \cup (checkVM \ (IF "exit" \in hurt THEN checkVMQemu ELSE {}))
                       \cup (IF "dhcp_unit" \in has /\ "deaf" \notin has THEN {"lease"} ELSE {})
      [] OTHER -> IF r \in late THEN {} ELSE expectedExports(r) \cup Own(r)

(* A running resource has on the host all that the watchdog's checks look  *)
(* for, dnsmasq answers a running VM, and a running gateway or floating IP *)
(* is whole, whatever is built, fails or is torn down beside it.  There    *)
(* are three exceptions.  A restart that fails during the deletion of a VM *)
(* leaves the DHCP unit stopped, and the next deletion takes it for one it *)
(* need not restart (a unit that outlived its subnet is deaf to the        *)
(* reservations of the next one).  A QEMU that ends by itself takes its    *)
(* socket and its scope.  And a gateway or a floating IP that was accepted *)
(* while its VPC or VM was being deleted is torn down under its record.    *)
RunningIsWhole == \A r \in Resources : st[r] = "running" => Expected(r) \subseteq has

(* A route is announced to the other hosts only while what carries its     *)
(* traffic stands, through failures, restarts and retries: the links of    *)
(* the subnet, the tap of the VM, the translation of the gateway (unless   *)
(* the gateway raced the deletion of its VPC).  A creation announces last  *)
(* and a deletion withdraws first.                                         *)
ExportedIsBacked ==
    /\ "route_subnet" \in has => {"veth", "bridge", "gw", "vxlan", "dhcp_conf"} \subseteq has
    /\ "route_vm" \in has => {"tap", "tap_port", "bridge", "veth", "reservation"} \subseteq has
    /\ "route_default" \in has /\ "nat" \notin late => {"ng", "default_ng", "nat", "ng_fdb"} \subseteq has

(* What lets traffic through never stands without what contains it: a tap  *)
(* without its filter, the link of a VRF without its unreachable default,  *)
(* a BGP instance without its route map or without its VRF (which crashes  *)
(* bgpd), and the policy route of a floating IP without its translation,   *)
(* unless the floating IP raced the deletion of its VM.                    *)
Contained ==
    \A g \in {<<"tap", "tap_port">>, <<"l3", "unreachable">>, <<"bgp", "vrf">>,
              <<"bgp", "route_map">>, <<"vni", "vxl3">>}
             \cup (IF "fip" \in late THEN {}
                   ELSE {"rule_own"} \X {"fip_nat", "fip_table", "rule_main"}) :
        g[1] \in has => g[2] \in has

(* A resource without a record has left nothing on the host, even if it    *)
(* was built in part, interrupted and deleted more than once: its name and *)
(* its addresses can be used again.  The one exception is dnsmasq: passed  *)
(* over when its status cannot be read, it outlives the subnet, or goes on *)
(* answering for the VM.                                                   *)
GoneLeavesNothing ==
    /\ \A r \in Resources : st[r] = "none" =>
           Own(r) \cap has \subseteq IF "unread" \in hurt THEN {"lease", "dhcp_unit", "deaf"} ELSE {}
    /\ st["vpc"] = "none" /\ Vpc \notin amiss => opened[Vpc] = 0

(* No step on a VPC, a subnet or a VM is refused by what is on the host    *)
(* unless an earlier step of the same resource failed or was cut short.    *)
(* No step on a NAT gateway or a floating IP is, even after a failure,     *)
(* unless its VPC or its VM was being deleted when it was accepted: only   *)
(* Prepare looks at the parent.                                            *)
RefusedOnlyWhenHurt ==
    \A r \in Resources :
        Working(r) /\ (\E s \in Current(r) : Refused(s) \/ Lost(r, s)) =>
            r \in (hurt \cap Tree) \cup late

(* A running VPC is in the list of two-hostsvc and, when the process is    *)
(* up, served inside its present namespace, through restarts of the        *)
(* process and late calls.  It takes one of three accidents to break this: *)
(* Restore fails to open the VPC and forgets it; a call is carried out     *)
(* after Shutdown (an Open then overwrites the list, a Close leaves its    *)
(* VPC in it); or Close cannot write the list.                             *)
RunningIsServed ==
    \A v \in VPCs :
        (v \in Others \/ st["vpc"] = "running") /\ v \notin amiss =>
            v \in saved /\ (svc = "up" => opened[v] = Namespace(v))

(* A QEMU that lost its tap was told to quit, unless its socket failed     *)
(* while StopVM talked to it: then it goes on without interface or record. *)
AbandonedQemuQuits ==
    "qemu" \in has /\ "tap" \notin has => told \/ "mute" \in hurt
=============================================================================

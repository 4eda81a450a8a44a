--------------------------- MODULE HostInvariant ---------------------------
(***************************************************************************)
(* Why the host agrees with the records.  A creation makes its objects in  *)
(* one order and a deletion removes them in another; both orders keep what *)
(* an object needs under it, and what a worker leaves behind, the next one *)
(* finds.                                                                  *)
(***************************************************************************)
EXTENDS HostCommands

Removes(s) == s.kind \in {"delete", "try_delete", "drop", "try_drop"}
MustFind(s) == s.kind \in {"delete", "try_delete"}

(* The objects a creation makes. *)
Made(r) == {Creation(r)[i].on : i \in {j \in 1 .. Len(Creation(r)) : Creation(r)[j].kind # "load"}}

-----------------------------------------------------------------------------
(* The host at every moment *)

(* What an object is never on the host without: what it lives in or on,    *)
(* what a tap is a port of, what carries an announced route, what contains *)
(* the rest (Base, Needs, ExportedIsBacked, Contained).                    *)
Support(o) ==
    Base[o] \cup
    CASE o = "route_subnet" -> {"veth", "bridge", "gw", "vxlan", "dhcp_conf"}
      [] o = "route_vm" -> {"tap", "tap_port", "bridge", "veth", "reservation"}
      [] o = "route_default" /\ "nat" \notin late -> {"ng", "default_ng", "nat", "ng_fdb"}
      [] o = "tap" -> {"bridge", "tap_port"}
      [] o = "rule_own" /\ "fip" \notin late -> {"fip_nat", "fip_table", "rule_main"}
      [] o = "l3" -> {"unreachable"}
      [] o = "bgp" -> {"vrf", "route_map"}
      [] o = "vni" -> {"vxl3"}
      [] OTHER -> {}

Upheld == \A o \in has : Support(o) \subseteq has

(* The objects of other plans: without L3VNI, with a bridged subnet. *)
Unplanned ==
    (IF plan.routed THEN {}
     ELSE {"vrf", "unreachable", "brl3", "vxl3", "l3", "default_vrf",
           "frr_vrf", "vni", "bgp", "route_map"})
    \cup (IF plan.mode = "vxlan" THEN {} ELSE {"host_bridge", "vxlan", "gw", "gw_fdb"})
    \cup (IF Exports THEN {} ELSE {"route_subnet", "route_vm"})

(* A dnsmasq that hears answers for every reservation. *)
Answering == {"reservation", "dhcp_unit"} \subseteq has /\ "deaf" \notin has => "lease" \in has

ObjectInv == Upheld /\ has \cap Unplanned = {} /\ Answering

-----------------------------------------------------------------------------
(* A resource and its worker *)

TreeInv(r) == st[r] # "none" /\ r \notin late => \A p \in Parent[r] : st[p] = "running"

(* A creation that looked at a parent, and a deletion that looked for a    *)
(* gateway or a floating IP, find what they saw unless the two crossed.    *)
SeenInv ==
    \A c \in Attachments :
       /\ c \in seen => st[c] = "none" /\ c \in plan.uses
       /\ c \notin late => \A p \in Parent[c] :
             (c \in seen => st[p] = "running") /\ (p \in seen => st[c] = "none")

(* An error kept for later is reported before the end. *)
PlaceInv(r) ==
    /\ Working(r) => pc[r] <= Len(Steps(r)) + 1
    /\ st[r] = "error" => r \in hurt
    /\ r \in bad => /\ st[r] = "deleting"
                    /\ \E i \in pc[r] .. Len(Deletion(r)) : Deletion(r)[i].kind = "collect"

(* What a creation has passed is there, and what it has yet to make is     *)
(* not.  A gateway whose VPC is made anew may take its default route.      *)
CreateInv(r) ==
    st[r] = "creating" => \A i \in 1 .. Len(Creation(r)) : LET s == Creation(r)[i] IN
       /\ i < pc[r] /\ r \notin late /\ s.kind # "load" =>
             s.on \in has \cup {"qemu"} \/ (s.on = "default_vrf" /\ "default_ng" \in has)
       /\ i >= pc[r] /\ s.kind = "make" => s.on \notin has \ {"qemu"}

(* A NAT gateway takes the default route over; a restart that fails takes  *)
(* the DHCP unit.                                                          *)
RunningInv(r) ==
    st[r] = "running" /\ r \notin late =>
       Made(r) \subseteq has \cup {"qemu", "default_vrf"}
                             \cup (IF "dhcp" \in hurt THEN {"dhcp_unit"} ELSE {})

(* What a deletion has passed is gone, as is the default route a gateway   *)
(* gave back, and what it has yet to find is there unless a failure came   *)
(* first.                                                                  *)
DeleteInv(r) ==
    st[r] = "deleting" => \A i \in 1 .. Len(Deletion(r)) : LET s == Deletion(r)[i] IN
       /\ i < pc[r] /\ Removes(s) => \/ s.on \notin has
                                     \/ s.on = "dhcp_unit" /\ "unread" \in hurt
                                     \/ Tried(s) /\ r \in bad
       /\ i < pc[r] /\ s.kind = "restart" => "lease" \notin has \/ "unread" \in hurt
       /\ i < pc[r] /\ s.kind = "set" => "default_ng" \notin has
       /\ i >= pc[r] /\ MustFind(s) => s.on \in has \/ r \in hurt

Spared == IF "unread" \in hurt THEN {"lease", "dhcp_unit", "deaf"} ELSE {}

GoneInv(r) == st[r] = "none" => Own(r) \cap has \subseteq Spared

ResourceInv(r) == /\ TreeInv(r) /\ PlaceInv(r)
                  /\ CreateInv(r) /\ RunningInv(r) /\ DeleteInv(r) /\ GoneInv(r)

(* QEMU of a VM that is gone, or that StopVM has passed, was told to quit  *)
(* or could not be; that of a running VM lives until it ends by itself.    *)
Passed(r, s) == \E i \in 1 .. pc[r] - 1 : i <= Len(Steps(r)) /\ Steps(r)[i] = s

Abandoned == \/ "tap" \notin has \/ "sockets" \notin has
             \/ st["vm"] = "none"
             \/ st["vm"] = "creating" /\ ~Passed("vm", Step("make", "qemu"))
             \/ st["vm"] = "deleting" /\ Passed("vm", Step("halt", "qemu"))

Alive == \/ st["vm"] = "running"
         \/ st["vm"] = "creating" /\ Passed("vm", Step("make", "qemu"))

QemuInv ==
    /\ "qemu" \in has /\ Abandoned => (told \/ "mute" \in hurt) /\ "vm" \in hurt
    /\ Alive /\ "exit" \notin hurt => {"qemu", "sockets"} \subseteq has

-----------------------------------------------------------------------------
(* The calls to the host service: the only one that is attended to is the  *)
(* last, and once it is answered none is on its way.                       *)

Asking == \/ st["vpc"] = "creating" /\ pc["vpc"] = Len(CreateVPC)
          \/ st["vpc"] = "deleting" /\ pc["vpc"] = 1

Verb == IF st["vpc"] = "creating" THEN "open" ELSE "close"

CallInv ==
    /\ reply # "idle" => Asking
    /\ reply = "waiting" => calls # <<>> /\ calls[Len(calls)].live
    /\ \A i \in 1 .. Len(calls) :
          calls[i].live => reply = "waiting" /\ i = Len(calls) /\ calls[i].verb = Verb
    /\ svc = "down" => calls = <<>>

ToServe == \/ st["vpc"] = "running"
           \/ st["vpc"] = "creating" /\ (pc["vpc"] > Len(CreateVPC) \/ reply = "ok")

NotToServe == \/ st["vpc"] = "none"
              \/ st["vpc"] = "creating" /\ pc["vpc"] <= Len(CreateVPC) /\ reply \in {"idle", "waiting"}
              \/ st["vpc"] = "deleting" /\ (pc["vpc"] > 1 \/ reply = "ok")

ServeInv ==
    /\ ToServe => /\ calls = <<>>
                  /\ Vpc \notin amiss => Vpc \in saved /\ (svc = "up" => opened[Vpc] = gen)
    /\ NotToServe => /\ Len(calls) = IF reply = "waiting" THEN 1 ELSE 0
                     /\ Vpc \notin amiss => Vpc \notin saved /\ opened[Vpc] = 0
    /\ \A v \in Others \ amiss : v \in saved /\ (svc = "up" => opened[v] = 1)
    /\ svc = "down" => opened = Closed

(* The inductive invariant: what is on the host stands on what it needs, a *)
(* worker has done what it passed, and the host service has been told what *)
(* the record of the VPC says.                                             *)
HostInv == /\ TypeOK /\ ObjectInv /\ SeenInv /\ QemuInv /\ CallInv /\ ServeInv
           /\ \A r \in Resources : ResourceInv(r)
=============================================================================

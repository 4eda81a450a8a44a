---------------------------- MODULE HostObjects ----------------------------
(***************************************************************************)
(* What the agent builds on its host for one VPC, one subnet of it, one    *)
(* virtual machine with one interface, one NAT gateway and one floating    *)
(* IP: network namespaces, links, routes, rules, files, units, processes   *)
(* and FRR configuration, as a set of named objects.                       *)
(*                                                                         *)
(* Every piece of host code is a list of steps, run in order until one     *)
(* fails.  A step makes or removes one object; the kernel refuses it when  *)
(* what it needs is missing or what it makes is there.  Attributes of a    *)
(* link (its master, its addresses, its sysctls, being up) are part of the *)
(* step that makes it: a failure to set one is a failure after the object  *)
(* was made.                                                               *)
(***************************************************************************)
EXTENDS Naturals, Sequences, FiniteSets

VARIABLE has      \* the objects that are on the host

(* What an object lives in or on: it goes away with any of these.  A veth *)
(* pair has one end in the namespace of the VPC; a macvlan dies with its  *)
(* parent; a route dies with the link it goes through.  The unreachable   *)
(* default of a VRF belongs to a routing table, not to the VRF device.    *)
Base ==
    [netns |-> {}, vp |-> {"netns"}, br_public |-> {"netns"},
     guard |-> {"netns"},
     vrf |-> {}, unreachable |-> {}, brl3 |-> {}, vxl3 |-> {},
     l3 |-> {"netns"}, default_vrf |-> {"l3"},
     frr_vrf |-> {}, vni |-> {}, bgp |-> {}, route_map |-> {},
     hostsvc |-> {"netns"}, svc_redirect |-> {"netns"},
     veth |-> {"netns"}, host_bridge |-> {}, vxlan |-> {},
     bridge |-> {"netns"}, port |-> {"netns"}, gw |-> {"bridge"},
     gw_fdb |-> {"bridge"}, dhcp_conf |-> {}, dhcp_unit |-> {},
     route_subnet |-> {"l3"},
     tap |-> {"netns"}, tap_port |-> {"netns"}, redirect |-> {"netns"},
     reservation |-> {}, lease |-> {"dhcp_unit"}, deaf |-> {"dhcp_unit"},
     nocloud |-> {}, metadata |-> {},
     qemu |-> {}, sockets |-> {}, route_vm |-> {"l3"},
     ng |-> {"br_public"}, ng_fdb |-> {"br_public"}, default_ng |-> {"ng"},
     nat |-> {"netns"}, route_default |-> {"l3"},
     fip |-> {"br_public"}, fip_fdb |-> {"br_public"},
     fip_nat |-> {"netns"}, fip_table |-> {"fip"},
     rule_main |-> {"netns"}, rule_own |-> {"netns"}]

Objects == DOMAIN Base

Standing(S) == S \cup {o \in Objects : Base[o] \cap S # {}}

(* An object and all that goes away with it. *)
Fallen == [o \in Objects |-> Standing(Standing(Standing({o})))]

(* Nothing stands more than three levels above another object. *)
ASSUME DepthAssumption ==
    \A o \in Objects : Standing(Fallen[o]) = Fallen[o]

(* Making an object needs what it lives on; a tap is also made a port of   *)
(* the bridge of its subnet.                                               *)
Needs(o) == Base[o] \cup (IF o = "tap" THEN {"bridge"} ELSE {})

(* What a removal that tolerates absence still looks up: the namespace it  *)
(* enters, the bridge whose table it edits, the link its route goes by.    *)
Lookup(o) == CASE o \in {"ng_fdb", "fip_fdb"} -> {"br_public"}
               [] o = "route_default" -> {"l3"}
               [] o \in {"port", "tap_port", "redirect", "nat", "ng",
                         "fip_nat", "fip", "rule_main", "rule_own"}
                      -> {"netns"}
               [] OTHER -> {}

(* A VPC has one default route in its main table: installing one replaces  *)
(* the other.                                                              *)
Displaced(o) == CASE o = "default_vrf" -> {"default_ng"}
                  [] o = "default_ng" -> {"default_vrf"}
                  [] OTHER -> {}

(* The kinds of step: make (refused if there), set (make or keep), delete  *)
(* (refused if absent), drop (delete if there), and the try_ forms of the  *)
(* last two, whose failure is kept until the step collect.  A unit that is *)
(* active is restarted; one that is not is left alone.                     *)
Step(kind, o) == [kind |-> kind, on |-> o]

Refused(s) ==
    CASE s.kind = "make" -> s.on \in has \/ ~(Needs(s.on) \subseteq has)
      [] s.kind = "set" -> ~(Needs(s.on) \subseteq has)
      [] s.kind \in {"delete", "try_delete"} -> s.on \notin has
      [] s.kind \in {"drop", "try_drop"} -> ~(Lookup(s.on) \subseteq has)
      [] OTHER -> FALSE

(* dnsmasq answers a machine from the reservations it read: it reads them  *)
(* when it starts and as they are written, and does not see them removed.  *)
(* One whose directories were removed under it is deaf to the next ones.   *)
Leased(S) == IF {"reservation", "dhcp_unit"} \subseteq S /\ "deaf" \notin S
             THEN S \cup {"lease"} ELSE S

Deafened(S) == IF "dhcp_unit" \in S THEN S \cup {"deaf"} ELSE S

(* The host once the step has had its effect.  QEMU opens its sockets. *)
Done(s) ==
    CASE s.kind \in {"make", "set"} ->
             Leased((has \ Displaced(s.on)) \cup {s.on}
                      \cup (IF s.on = "qemu" THEN {"sockets"} ELSE {}))
      [] s.kind = "restart" -> Leased(has \ {"lease", "deaf"})
      [] s.kind \in {"delete", "try_delete", "drop", "try_drop"} ->
             IF s.on = "dhcp_conf" THEN Deafened(has \ {"dhcp_conf"}) ELSE has \ Fallen[s.on]
      [] OTHER -> has

(* What a step that fails may leave.  A restart may also leave the unit    *)
(* stopped.                                                                *)
Left(s) == {has, Done(s)} \cup (IF s.kind = "restart" THEN {has \ Fallen[s.on]} ELSE {})
=============================================================================

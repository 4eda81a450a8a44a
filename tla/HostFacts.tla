----------------------------- MODULE HostFacts ------------------------------
(***************************************************************************)
(* The lists of steps of HostSteps, in full for every plan, and what they  *)
(* promise: what a creation makes and in which order, what a deletion      *)
(* takes away, what falls with an object; where a worker is in its list,   *)
(* and what the step there does to the host.                               *)
(***************************************************************************)
EXTENDS HostInvariant, TLAPS

-----------------------------------------------------------------------------
(* Objects *)

(* An object falls with itself and with what it stands on. *)
LEMMA FallenClosed ==
    ASSUME NEW x \in Objects
    PROVE  /\ x \in Fallen[x] /\ Fallen[x] \subseteq Objects
           /\ \A o \in Objects : Base[o] \cap Fallen[x] # {} => o \in Fallen[x]
  <1>1. x \in Fallen[x] /\ Fallen[x] \subseteq Objects
    BY Zenon DEF Fallen, Standing
  <1>2. Standing(Fallen[x]) = Fallen[x]
    BY DepthAssumption, Zenon
  <1> QED
    BY <1>1, <1>2, Zenon DEF Standing

(* Where nothing floats, nothing is left of what stood on what is absent. *)
LEMMA AbsentFallen ==
    ASSUME NEW S \in SUBSET Objects, \A o \in S : Base[o] \subseteq S,
           NEW x \in Objects \ S
    PROVE  Fallen[x] \cap S = {}
  <1>1. \A U : U \cap S = {} => Standing(U) \cap S = {}
    BY Zenon DEF Standing
  <1>2. {x} \cap S = {}
    BY Zenon
  <1> QED
    BY <1>1, <1>2, Zenon DEF Fallen

(* The objects that others stand on. *)
Floors == {"netns", "br_public", "l3", "dhcp_unit", "bridge", "ng", "fip"}

(* On what is no floor nothing stands. *)
LEMMA OnFloors == \A o \in Objects : Base[o] \subseteq Floors
  BY SMTT(30) DEF Objects, Base, Floors

(* With an object falls what stands on it, if nothing stands on that. *)
LEMMA FallenOne ==
    ASSUME NEW x \in Objects, NEW U \in SUBSET (Objects \ Floors),
           \A o \in Objects : x \in Base[o] <=> o \in U
    PROVE  Fallen[x] = {x} \cup U
  <1>1. Standing({x}) = {x} \cup U
    BY Zenon DEF Standing
  <1>2. \A o \in Objects : Base[o] \cap U = {}
    BY OnFloors, Zenon
  <1>3. Standing({x} \cup U) = {x} \cup U
    <2>1. ASSUME NEW o \in Objects, NEW b \in Base[o], b \in {x} \cup U
          PROVE  o \in U
      <3>1. b \notin U
        BY <1>2, <2>1, Zenon
      <3>2. b = x
        BY <2>1, <3>1, Zenon
      <3> QED
        BY <2>1, <3>2, Zenon
    <2> QED
      BY <2>1, Zenon DEF Standing
  <1> QED
    BY <1>1, <1>3, Zenon DEF Fallen

(* What falls with the objects that others stand on. *)
LEMMA FallenFacts ==
    /\ Fallen["l3"] = {"l3", "default_vrf", "route_subnet", "route_vm", "route_default"}
    /\ Fallen["dhcp_unit"] = {"dhcp_unit", "lease", "deaf"}
    /\ Fallen["bridge"] = {"bridge", "gw", "gw_fdb"}
    /\ Fallen["ng"] = {"ng", "default_ng"}
    /\ Fallen["fip"] = {"fip", "fip_table"}
    /\ \A x \in Objects \ Floors : Fallen[x] = {x}
  <1>1. /\ "l3" \in Objects /\ "dhcp_unit" \in Objects /\ "bridge" \in Objects
        /\ "ng" \in Objects /\ "fip" \in Objects
    BY Zenon DEF Objects, Base
  <1>2. \A o \in Objects : /\ "l3" \in Base[o] <=> o \in {"default_vrf", "route_subnet", "route_vm", "route_default"}
                           /\ "dhcp_unit" \in Base[o] <=> o \in {"lease", "deaf"}
                           /\ "bridge" \in Base[o] <=> o \in {"gw", "gw_fdb"}
    BY SMTT(30) DEF Objects, Base
  <1>3. \A o \in Objects : /\ "ng" \in Base[o] <=> o \in {"default_ng"}
                           /\ "fip" \in Base[o] <=> o \in {"fip_table"}
    BY SMTT(30) DEF Objects, Base
  <1>4. /\ {"default_vrf", "route_subnet", "route_vm", "route_default"} \subseteq Objects \ Floors
        /\ {"lease", "deaf"} \subseteq Objects \ Floors
        /\ {"gw", "gw_fdb"} \subseteq Objects \ Floors
        /\ {"default_ng"} \subseteq Objects \ Floors
        /\ {"fip_table"} \subseteq Objects \ Floors
    <2>1. /\ "default_vrf" \in Objects /\ "route_subnet" \in Objects /\ "route_vm" \in Objects
          /\ "route_default" \in Objects /\ "lease" \in Objects /\ "deaf" \in Objects
          /\ "gw" \in Objects /\ "gw_fdb" \in Objects /\ "default_ng" \in Objects
          /\ "fip_table" \in Objects
      BY Zenon DEF Objects, Base
    <2>2. Floors \cap {"default_vrf", "route_subnet", "route_vm", "route_default", "lease", "deaf",
                       "gw", "gw_fdb", "default_ng", "fip_table"} = {}
      BY Zenon DEF Floors
    <2> QED
      BY <2>1, <2>2, Zenon
  <1>6. Fallen["l3"] = {"l3"} \cup {"default_vrf", "route_subnet", "route_vm", "route_default"}
    BY <1>1, <1>2, <1>4, FallenOne, Zenon
  <1>7. Fallen["dhcp_unit"] = {"dhcp_unit"} \cup {"lease", "deaf"}
    BY <1>1, <1>2, <1>4, FallenOne, Zenon
  <1>8. Fallen["bridge"] = {"bridge"} \cup {"gw", "gw_fdb"}
    BY <1>1, <1>2, <1>4, FallenOne, Zenon
  <1>9. Fallen["ng"] = {"ng"} \cup {"default_ng"}
    BY <1>1, <1>3, <1>4, FallenOne, Zenon
  <1>10. Fallen["fip"] = {"fip"} \cup {"fip_table"}
    BY <1>1, <1>3, <1>4, FallenOne, Zenon
  <1>11. ASSUME NEW x \in Objects \ Floors
         PROVE  Fallen[x] = {x}
    <2>1. \A o \in Objects : x \in Base[o] <=> o \in {}
      BY OnFloors, Zenon
    <2>2. Fallen[x] = {x} \cup {}
      BY <2>1, FallenOne, Zenon
    <2> QED
      BY <2>2, Zenon
  <1> QED
    BY <1>6, <1>7, <1>8, <1>9, <1>10, <1>11, Zenon

(* With the namespace of a VPC falls all of the VPC that is in it, and     *)
(* nothing else of the VPC.                                                *)
LEMMA NetnsFalls ==
    Fallen["netns"] \cap Own("vpc") =
        {"netns", "vp", "br_public", "guard", "l3", "default_vrf", "hostsvc", "svc_redirect"}
  <1> DEFINE In == {"vp", "br_public", "guard", "l3", "hostsvc", "svc_redirect"}
             Out == {"vrf", "unreachable", "brl3", "vxl3", "frr_vrf", "vni", "bgp", "route_map"}
  <1>1. Own("vpc") = {"netns", "default_vrf"} \cup In \cup Out
    BY Zenon DEF Own
  <1>2. /\ "netns" \in Objects \ Out /\ In \in SUBSET Objects /\ "default_vrf" \in Objects
        /\ Out \in SUBSET Objects
    BY SMTT(30) DEF Objects, Base
  <1>3. /\ \A o \in In : "netns" \in Base[o]
        /\ "l3" \in Base["default_vrf"] /\ "l3" \in In
        /\ \A o \in Out : Base[o] \subseteq Out
    BY SMTT(30) DEF Base
  <1> HIDE DEF In, Out
  <1>4. Fallen["netns"] \cap Out = {}
    BY <1>2, <1>3, AbsentFallen, Zenon
  <1>5. {"netns", "default_vrf"} \cup In \subseteq Fallen["netns"]
    <2>1. "netns" \in Fallen["netns"] /\ \A o \in Objects : Base[o] \cap Fallen["netns"] # {} => o \in Fallen["netns"]
      BY <1>2, FallenClosed, Zenon
    <2>2. In \subseteq Fallen["netns"]
      BY <1>2, <1>3, <2>1, Zenon
    <2> QED
      BY <1>2, <1>3, <2>1, <2>2, Zenon
  <1>6. Fallen["netns"] \cap Own("vpc") = {"netns", "default_vrf"} \cup In
    BY <1>1, <1>4, <1>5, Zenon
  <1> QED
    BY <1>6, Zenon DEF In

(* What has to be there for a step is part of what an object rests on. *)
LEMMA SupportFacts ==
    \A o \in Objects : Base[o] \subseteq Support(o) /\ Needs(o) \subseteq Support(o)
  BY Zenon DEF Support, Needs

-----------------------------------------------------------------------------
(* The lists in full, by plan *)

Agrees(L, T) == Len(L) = Len(T) /\ \A i \in 1 .. Len(T) : L[i] = T[i]

RoutedVPC ==
    <<Step("set", "netns"), Step("make", "vp"), Step("make", "br_public"),
      Step("set", "guard"), Step("make", "vrf"), Step("set", "unreachable"),
      Step("make", "brl3"), Step("make", "vxl3"), Step("make", "l3"),
      Step("set", "default_vrf"), Step("set", "route_map"),
      Step("set", "frr_vrf"), Step("set", "vni"), Step("set", "bgp"),
      Step("make", "hostsvc"), Step("set", "svc_redirect"),
      Step("open", "hostsvc")>>

PlainVPC ==
    <<Step("set", "netns"), Step("make", "vp"), Step("make", "br_public"),
      Step("set", "guard"), Step("make", "hostsvc"),
      Step("set", "svc_redirect"), Step("open", "hostsvc")>>

RoutedVPCGone ==
    <<Step("close", "hostsvc"), Step("drop", "vni"), Step("drop", "bgp"),
      Step("drop", "route_map"), Step("drop", "l3"), Step("drop", "vxl3"),
      Step("drop", "brl3"), Step("drop", "vrf"),
      Step("drop", "unreachable"), Step("drop", "frr_vrf"),
      Step("delete", "vp"), Step("delete", "netns")>>

PlainVPCGone ==
    <<Step("close", "hostsvc"), Step("delete", "vp"),
      Step("delete", "netns")>>

RoutedSubnet ==
    <<Step("make", "veth"), Step("make", "host_bridge"),
      Step("make", "vxlan"), Step("make", "bridge"), Step("set", "port"),
      Step("make", "gw"), Step("make", "gw_fdb"), Step("set", "dhcp_conf"),
      Step("set", "dhcp_unit"), Step("set", "route_subnet")>>

VxlanSubnet ==
    <<Step("make", "veth"), Step("make", "host_bridge"),
      Step("make", "vxlan"), Step("make", "bridge"), Step("set", "port"),
      Step("make", "gw"), Step("make", "gw_fdb"), Step("set", "dhcp_conf"),
      Step("set", "dhcp_unit")>>

BridgeSubnet ==
    <<Step("make", "veth"), Step("make", "bridge"), Step("set", "port"),
      Step("set", "dhcp_conf"), Step("set", "dhcp_unit")>>

RoutedSubnetGone ==
    <<Step("drop", "route_subnet"), Step("drop", "dhcp_unit"),
      Step("drop", "dhcp_conf"), Step("try_drop", "port"),
      Step("try_delete", "gw"), Step("try_delete", "bridge"),
      Step("collect", "bridge"), Step("delete", "vxlan"),
      Step("delete", "veth"), Step("delete", "host_bridge")>>

VxlanSubnetGone ==
    <<Step("drop", "dhcp_unit"), Step("drop", "dhcp_conf"),
      Step("try_drop", "port"), Step("try_delete", "gw"),
      Step("try_delete", "bridge"), Step("collect", "bridge"),
      Step("delete", "vxlan"), Step("delete", "veth"),
      Step("delete", "host_bridge")>>

BridgeSubnetGone ==
    <<Step("drop", "dhcp_unit"), Step("drop", "dhcp_conf"),
      Step("drop", "port"), Step("delete", "bridge"),
      Step("delete", "veth")>>

ExportedVM ==
    <<Step("set", "tap_port"), Step("make", "tap"), Step("set", "redirect"),
      Step("set", "reservation"), Step("set", "nocloud"),
      Step("set", "metadata"), Step("make", "qemu"),
      Step("set", "route_vm")>>

PlainVM ==
    <<Step("set", "tap_port"), Step("make", "tap"), Step("set", "redirect"),
      Step("set", "reservation"), Step("set", "nocloud"),
      Step("set", "metadata"), Step("make", "qemu")>>

ExportedVMGone ==
    <<Step("drop", "route_vm"), Step("halt", "qemu"),
      Step("drop", "sockets"), Step("drop", "redirect"),
      Step("drop", "metadata"), Step("drop", "nocloud"),
      Step("delete", "tap"), Step("drop", "tap_port"),
      Step("drop", "reservation"), Step("restart", "dhcp_unit")>>

PlainVMGone ==
    <<Step("halt", "qemu"), Step("drop", "sockets"),
      Step("drop", "redirect"), Step("drop", "metadata"),
      Step("drop", "nocloud"), Step("delete", "tap"),
      Step("drop", "tap_port"), Step("drop", "reservation"),
      Step("restart", "dhcp_unit")>>

Gateway ==
    <<Step("load", "netns"), Step("make", "ng"), Step("set", "ng_fdb"),
      Step("set", "default_ng"), Step("set", "nat"),
      Step("set", "route_default")>>

GatewayGone ==
    <<Step("load", "netns"), Step("drop", "route_default"),
      Step("drop", "nat"), Step("set", "default_vrf"),
      Step("drop", "ng_fdb"), Step("drop", "ng")>>

FloatingIP ==
    <<Step("load", "netns"), Step("make", "fip"), Step("set", "fip_fdb"),
      Step("set", "fip_nat"), Step("set", "fip_table"),
      Step("make", "rule_main"), Step("make", "rule_own")>>

FloatingIPGone ==
    <<Step("load", "netns"), Step("drop", "rule_own"),
      Step("drop", "rule_main"), Step("drop", "fip_nat"),
      Step("drop", "fip_fdb"), Step("drop", "fip")>>

LEMMA RoutedVPCList == plan.routed => Agrees(CreateVPC, RoutedVPC)
  BY DEF Agrees, RoutedVPC, CreateVPC, One, createNetns, CreateVethToNetns,
         CreateBridge, guardPublicBridge, When, createL3, CreateVRF,
         RouteReplaceUnreachableDefault, CreateVxlan, RouteReplaceVia,
         ApplyVRF, setupHostSvc, CreateDummy, SetHostSvcRedirect

LEMMA PlainVPCList == ~plan.routed => Agrees(CreateVPC, PlainVPC)
  BY DEF Agrees, PlainVPC, CreateVPC, One, createNetns, CreateVethToNetns,
         CreateBridge, guardPublicBridge, When, setupHostSvc, CreateDummy,
         SetHostSvcRedirect

LEMMA RoutedVPCGoneList == plan.routed => Agrees(DeleteVPC, RoutedVPCGone)
  BY DEF Agrees, RoutedVPCGone, DeleteVPC, One, teardownHostSvc, When,
         deleteL3, WithdrawVRF, deleteL3Links, DeleteLinkIfExists,
         RouteDelUnreachableDefault, RemoveVRF, DeleteLink, deleteNetns

LEMMA PlainVPCGoneList == ~plan.routed => Agrees(DeleteVPC, PlainVPCGone)
  BY DEF Agrees, PlainVPCGone, DeleteVPC, One, teardownHostSvc, When,
         DeleteLink, deleteNetns

LEMMA RoutedSubnetList == plan.mode = "vxlan" /\ plan.routed => Agrees(CreateSubnet, RoutedSubnet)
  BY DEF Agrees, RoutedSubnet, CreateSubnet, One, createSubnet, exportRoute,
         CreateVethToNetns, When, setupVxlanHost, CreateBridge, CreateVxlan,
         setupAnycastGateway, SetPort, CreateMacvlan, BridgeAddLocalMAC,
         ConfigureSubnet, Exports

LEMMA VxlanSubnetList == plan.mode = "vxlan" /\ ~plan.routed => Agrees(CreateSubnet, VxlanSubnet)
  BY DEF Agrees, VxlanSubnet, CreateSubnet, One, createSubnet, exportRoute,
         CreateVethToNetns, When, setupVxlanHost, CreateBridge, CreateVxlan,
         setupAnycastGateway, SetPort, CreateMacvlan, BridgeAddLocalMAC,
         ConfigureSubnet, Exports

LEMMA BridgeSubnetList == plan.mode # "vxlan" => Agrees(CreateSubnet, BridgeSubnet)
  BY DEF Agrees, BridgeSubnet, CreateSubnet, One, createSubnet, exportRoute,
         CreateVethToNetns, When, setupVxlanHost, CreateBridge, CreateVxlan,
         setupAnycastGateway, SetPort, CreateMacvlan, BridgeAddLocalMAC,
         ConfigureSubnet, Exports

LEMMA RoutedSubnetGoneList == plan.mode = "vxlan" /\ plan.routed => Agrees(DeleteSubnet, RoutedSubnetGone)
  BY DEF Agrees, RoutedSubnetGone, DeleteSubnet, One, withdrawRoute,
         TeardownSubnet, deleteSubnetVxlan, deleteSubnetBridge,
         deleteAnycastGateway, DeleteLink, DeletePort, When, Exports

LEMMA VxlanSubnetGoneList == plan.mode = "vxlan" /\ ~plan.routed => Agrees(DeleteSubnet, VxlanSubnetGone)
  BY DEF Agrees, VxlanSubnetGone, DeleteSubnet, One, withdrawRoute,
         TeardownSubnet, deleteSubnetVxlan, deleteSubnetBridge,
         deleteAnycastGateway, DeleteLink, DeletePort, When, Exports

LEMMA BridgeSubnetGoneList == plan.mode # "vxlan" => Agrees(DeleteSubnet, BridgeSubnetGone)
  BY DEF Agrees, BridgeSubnetGone, DeleteSubnet, One, withdrawRoute,
         TeardownSubnet, deleteSubnetVxlan, deleteSubnetBridge,
         deleteAnycastGateway, DeleteLink, DeletePort, When, Exports

LEMMA ExportedVMList == Exports => Agrees(StartVM, ExportedVM)
  BY DEF Agrees, ExportedVM, StartVM, One, SetPort, CreateTap,
         SetMetadataRedirect, SetVM, StartMetadata, startQEMU, exportRoute,
         When

LEMMA PlainVMList == ~Exports => Agrees(StartVM, PlainVM)
  BY DEF Agrees, PlainVM, StartVM, One, SetPort, CreateTap,
         SetMetadataRedirect, SetVM, StartMetadata, startQEMU, exportRoute,
         When

LEMMA ExportedVMGoneList == Exports => Agrees(StopVM, ExportedVMGone)
  BY DEF Agrees, ExportedVMGone, StopVM, One, withdrawRoute,
         removeQEMUSockets, DeleteMetadataRedirect, StopMetadata, DeleteTap,
         DeleteLink, DeletePort, DelVM, When

LEMMA PlainVMGoneList == ~Exports => Agrees(StopVM, PlainVMGone)
  BY DEF Agrees, PlainVMGone, StopVM, One, withdrawRoute, removeQEMUSockets,
         DeleteMetadataRedirect, StopMetadata, DeleteTap, DeleteLink,
         DeletePort, DelVM, When

LEMMA GatewayList == Agrees(CreateNAT, Gateway)
  BY DEF Agrees, Gateway, CreateNAT, One, load, CreateMacvlan, BridgeSetLocalMAC,
         RouteReplaceVia, SetNATGateway, exportDefault

LEMMA GatewayGoneList == Agrees(RemoveNAT, GatewayGone)
  BY DEF Agrees, GatewayGone, RemoveNAT, One, load, withdrawDefault,
         DeleteNATGateway, netnsDefaultToVRF, BridgeDelLocalMAC,
         DeleteLinkIfExists

LEMMA FloatingIPList == Agrees(CreateFIP, FloatingIP)
  BY DEF Agrees, FloatingIP, CreateFIP, One, Resolve, CreateMacvlan, BridgeSetLocalMAC,
         SetFloatingIP, TableDefaultVia, RuleAdd

LEMMA FloatingIPGoneList == Agrees(RemoveFIP, FloatingIPGone)
  BY DEF Agrees, FloatingIPGone, RemoveFIP, One, Resolve, RuleDel, DeleteFloatingIP,
         BridgeDelLocalMAC, DeleteLinkIfExists

-----------------------------------------------------------------------------
(* What a creation does *)

(* What stands under a resource: its parents run. *)
Ground(r) == IF r = "vpc" THEN {}
             ELSE {"netns", "br_public"} \cup (IF plan.routed THEN {"l3"} ELSE {})
                  \cup (IF r \in {"vm", "fip"} THEN {"bridge", "veth"} ELSE {})

Earlier(L, i, o) == \E j \in 1 .. i - 1 : L[j].on = o

Holds(L, o) == \E i \in 1 .. Len(L) : L[i].on = o /\ L[i].kind # "load"

(* A creation makes its own objects; the VPC asks the host service last, a *)
(* gateway and a floating IP find their namespace first.                   *)
Makes(L, r) ==
    \A i \in 1 .. Len(L) :
       /\ \/ L[i].kind \in {"make", "set"}
          \/ r = "vpc" /\ i = Len(L) /\ L[i] = Step("open", "hostsvc")
          \/ r \in {"nat", "fip"} /\ i = 1 /\ L[i] = Step("load", "netns")
       /\ \/ L[i].on \in Own(r)
          \/ r = "vm" /\ L[i] = Step("make", "qemu")
          \/ L[i].kind = "load"
       /\ L[i].on \in Objects \ ({"lease", "deaf", "sockets"} \cup Unplanned)
       /\ L[i].kind = "make" => L[i].on \notin {"dhcp_unit", "default_vrf"}

(* It makes no object twice. *)
Once(L) == \A i \in 1 .. Len(L) : L[i].kind = "make" => ~Earlier(L, i, L[i].on)

(* It makes an object after what the object rests on. *)
Supported(L, r) ==
    \A i \in 1 .. Len(L) : L[i].kind \notin {"open", "load"} =>
       \A o \in Support(L[i].on) : o \in Ground(r) \/ Earlier(L, i, o)

(* It makes what the watchdog looks for, the reservation of a VM, and all  *)
(* of a gateway or a floating IP.                                          *)
Promised(r) ==
    expectedExports(r) \cup
    (CASE r = "vpc" -> checkVPC \cup checkL3VPC \cup checkHostSvc
       [] r = "subnet" -> checkSubnet
       [] r = "vm" -> (checkVM \ checkVMQemu) \cup {"reservation"}
       [] OTHER -> Own(r))

Provides(L, r) == \A o \in Promised(r) : Holds(L, o)

(* QEMU starts, once there is a tap; the host service is asked once there   *)
(* is a namespace with an address to serve at.                             *)
Leads(L, r) ==
    /\ \A i \in 1 .. Len(L) : L[i].on = "qemu" => Earlier(L, i, "tap")
    /\ r = "vm" => \E i \in 1 .. Len(L) : L[i] = Step("make", "qemu")
    /\ r = "vpc" => /\ L[Len(L)] = Step("open", "hostsvc")
                    /\ Earlier(L, Len(L), "netns") /\ Earlier(L, Len(L), "hostsvc")

Builds(L, r) == /\ Len(L) \in 1 .. 18
                /\ Makes(L, r) /\ Once(L) /\ Supported(L, r) /\ Provides(L, r) /\ Leads(L, r)

LEMMA RoutedVPCBuilds ==
    ASSUME plan.routed PROVE  Builds(RoutedVPC, "vpc")
  <1>1. Len(RoutedVPC) \in 1 .. 18 /\ Makes(RoutedVPC, "vpc")
    BY SMTT(30) DEF Makes, Own, Step, Objects, Base, Unplanned, Exports, RoutedVPC
  <1>2. Once(RoutedVPC)
    BY SMTT(30) DEF Once, Earlier, Step, RoutedVPC
  <1>3. Provides(RoutedVPC, "vpc")
    BY SMTT(30) DEF Provides, Promised, Holds, expectedExports, Exports, checkVPC, checkL3VPC,
           checkHostSvc, Step, RoutedVPC
  <1>4. Leads(RoutedVPC, "vpc")
    <2>1. RoutedVPC[1].on = "netns" /\ RoutedVPC[15].on = "hostsvc" /\ Len(RoutedVPC) = 17
      BY Zenon DEF RoutedVPC, Step
    <2>2. Earlier(RoutedVPC, 17, "netns") /\ Earlier(RoutedVPC, 17, "hostsvc")
      BY <2>1 DEF Earlier
    <2>3. RoutedVPC[17] = Step("open", "hostsvc")
      BY Zenon DEF RoutedVPC, Step
    <2>4. \A i \in 1 .. Len(RoutedVPC) : RoutedVPC[i].on # "qemu"
      BY DEF RoutedVPC, Step
    <2> QED
      BY <2>1, <2>2, <2>3, <2>4, Zenon DEF Leads
  <1>5. Supported(RoutedVPC, "vpc")
    <2> SUFFICES ASSUME NEW i \in 1 .. 17, RoutedVPC[i].kind \notin {"open", "load"},
                        NEW o \in Support(RoutedVPC[i].on) \ Ground("vpc")
                 PROVE  Earlier(RoutedVPC, i, o)
      BY Zenon DEF Supported, RoutedVPC
    <2>1. RoutedVPC[1].on = "netns" /\ RoutedVPC[5].on = "vrf" /\
          RoutedVPC[6].on = "unreachable" /\ RoutedVPC[8].on = "vxl3" /\
          RoutedVPC[9].on = "l3" /\ RoutedVPC[11].on = "route_map"
      BY Zenon DEF RoutedVPC, Step
    <2>2. (i > 1 /\ o = "netns") \/ (i > 5 /\ o = "vrf") \/
          (i > 6 /\ o = "unreachable") \/ (i > 8 /\ o = "vxl3") \/
          (i > 9 /\ o = "l3") \/ (i > 11 /\ o = "route_map")
      BY DEF RoutedVPC, Step, Support, Base, Ground, Exports
    <2> QED
      BY <2>1, <2>2 DEF Earlier
  <1> QED
    BY <1>1, <1>2, <1>3, <1>4, <1>5, Zenon DEF Builds

LEMMA PlainVPCBuilds ==
    ASSUME ~plan.routed PROVE  Builds(PlainVPC, "vpc")
  <1>1. Len(PlainVPC) \in 1 .. 18 /\ Makes(PlainVPC, "vpc")
    BY SMTT(30) DEF Makes, Own, Step, Objects, Base, Unplanned, Exports, PlainVPC
  <1>2. Once(PlainVPC)
    BY SMTT(30) DEF Once, Earlier, Step, PlainVPC
  <1>3. Provides(PlainVPC, "vpc")
    BY SMTT(30) DEF Provides, Promised, Holds, expectedExports, Exports, checkVPC, checkL3VPC,
           checkHostSvc, Step, PlainVPC
  <1>4. Leads(PlainVPC, "vpc")
    <2>1. PlainVPC[1].on = "netns" /\ PlainVPC[5].on = "hostsvc" /\ Len(PlainVPC) = 7
      BY Zenon DEF PlainVPC, Step
    <2>2. Earlier(PlainVPC, 7, "netns") /\ Earlier(PlainVPC, 7, "hostsvc")
      BY <2>1 DEF Earlier
    <2>3. PlainVPC[7] = Step("open", "hostsvc")
      BY Zenon DEF PlainVPC, Step
    <2>4. \A i \in 1 .. Len(PlainVPC) : PlainVPC[i].on # "qemu"
      BY DEF PlainVPC, Step
    <2> QED
      BY <2>1, <2>2, <2>3, <2>4, Zenon DEF Leads
  <1>5. Supported(PlainVPC, "vpc")
    <2> SUFFICES ASSUME NEW i \in 1 .. 7, PlainVPC[i].kind \notin {"open", "load"},
                        NEW o \in Support(PlainVPC[i].on) \ Ground("vpc")
                 PROVE  Earlier(PlainVPC, i, o)
      BY Zenon DEF Supported, PlainVPC
    <2>1. PlainVPC[1].on = "netns"
      BY Zenon DEF PlainVPC, Step
    <2>2. (i > 1 /\ o = "netns")
      BY DEF PlainVPC, Step, Support, Base, Ground, Exports
    <2> QED
      BY <2>1, <2>2 DEF Earlier
  <1> QED
    BY <1>1, <1>2, <1>3, <1>4, <1>5, Zenon DEF Builds

LEMMA RoutedSubnetBuilds ==
    ASSUME plan.mode = "vxlan", plan.routed PROVE  Builds(RoutedSubnet, "subnet")
  <1>1. Len(RoutedSubnet) \in 1 .. 18 /\ Makes(RoutedSubnet, "subnet")
    BY SMTT(30) DEF Makes, Own, Step, Objects, Base, Unplanned, Exports, RoutedSubnet
  <1>2. Once(RoutedSubnet)
    BY SMTT(30) DEF Once, Earlier, Step, RoutedSubnet
  <1>3. Provides(RoutedSubnet, "subnet")
    BY SMTT(30) DEF Provides, Promised, Holds, expectedExports, Exports, checkSubnet,
           checkDHCP, checkAnycastGateway, checkBridgeGateway, Step, RoutedSubnet
  <1>4. Leads(RoutedSubnet, "subnet")
    BY DEF Leads, Earlier, Step, RoutedSubnet
  <1>5. Supported(RoutedSubnet, "subnet")
    <2> SUFFICES ASSUME NEW i \in 1 .. 10, RoutedSubnet[i].kind \notin {"open", "load"},
                        NEW o \in Support(RoutedSubnet[i].on) \ Ground("subnet")
                 PROVE  Earlier(RoutedSubnet, i, o)
      BY Zenon DEF Supported, RoutedSubnet
    <2>1. RoutedSubnet[1].on = "veth" /\ RoutedSubnet[3].on = "vxlan" /\
          RoutedSubnet[4].on = "bridge" /\ RoutedSubnet[6].on = "gw" /\
          RoutedSubnet[8].on = "dhcp_conf"
      BY Zenon DEF RoutedSubnet, Step
    <2>2. (i > 1 /\ o = "veth") \/ (i > 3 /\ o = "vxlan") \/
          (i > 4 /\ o = "bridge") \/ (i > 6 /\ o = "gw") \/
          (i > 8 /\ o = "dhcp_conf")
      BY DEF RoutedSubnet, Step, Support, Base, Ground, Exports
    <2> QED
      BY <2>1, <2>2 DEF Earlier
  <1> QED
    BY <1>1, <1>2, <1>3, <1>4, <1>5, Zenon DEF Builds

LEMMA VxlanSubnetBuilds ==
    ASSUME plan.mode = "vxlan", ~plan.routed PROVE  Builds(VxlanSubnet, "subnet")
  <1>1. Len(VxlanSubnet) \in 1 .. 18 /\ Makes(VxlanSubnet, "subnet")
    BY SMTT(30) DEF Makes, Own, Step, Objects, Base, Unplanned, Exports, VxlanSubnet
  <1>2. Once(VxlanSubnet)
    BY SMTT(30) DEF Once, Earlier, Step, VxlanSubnet
  <1>3. Provides(VxlanSubnet, "subnet")
    BY SMTT(30) DEF Provides, Promised, Holds, expectedExports, Exports, checkSubnet,
           checkDHCP, checkAnycastGateway, checkBridgeGateway, Step, VxlanSubnet
  <1>4. Leads(VxlanSubnet, "subnet")
    BY DEF Leads, Earlier, Step, VxlanSubnet
  <1>5. Supported(VxlanSubnet, "subnet")
    <2> SUFFICES ASSUME NEW i \in 1 .. 9, VxlanSubnet[i].kind \notin {"open", "load"},
                        NEW o \in Support(VxlanSubnet[i].on) \ Ground("subnet")
                 PROVE  Earlier(VxlanSubnet, i, o)
      BY Zenon DEF Supported, VxlanSubnet
    <2>1. VxlanSubnet[4].on = "bridge"
      BY Zenon DEF VxlanSubnet, Step
    <2>2. (i > 4 /\ o = "bridge")
      BY DEF VxlanSubnet, Step, Support, Base, Ground, Exports
    <2> QED
      BY <2>1, <2>2 DEF Earlier
  <1> QED
    BY <1>1, <1>2, <1>3, <1>4, <1>5, Zenon DEF Builds

LEMMA BridgeSubnetBuilds ==
    ASSUME plan.mode # "vxlan" PROVE  Builds(BridgeSubnet, "subnet")
  <1>1. Len(BridgeSubnet) \in 1 .. 18 /\ Makes(BridgeSubnet, "subnet")
    BY SMTT(30) DEF Makes, Own, Step, Objects, Base, Unplanned, Exports, BridgeSubnet
  <1>2. Once(BridgeSubnet)
    BY SMTT(30) DEF Once, Earlier, Step, BridgeSubnet
  <1>3. Provides(BridgeSubnet, "subnet")
    BY SMTT(30) DEF Provides, Promised, Holds, expectedExports, Exports, checkSubnet,
           checkDHCP, checkAnycastGateway, checkBridgeGateway, Step, BridgeSubnet
  <1>4. Leads(BridgeSubnet, "subnet")
    BY DEF Leads, Earlier, Step, BridgeSubnet
  <1>5. Supported(BridgeSubnet, "subnet")
    <2> SUFFICES ASSUME NEW i \in 1 .. 5, BridgeSubnet[i].kind \notin {"open", "load"},
                        NEW o \in Support(BridgeSubnet[i].on) \ Ground("subnet")
                 PROVE  Earlier(BridgeSubnet, i, o)
      BY Zenon DEF Supported, BridgeSubnet
    <2> QED
      BY DEF BridgeSubnet, Step, Support, Base, Ground, Exports
  <1> QED
    BY <1>1, <1>2, <1>3, <1>4, <1>5, Zenon DEF Builds

LEMMA ExportedVMBuilds ==
    ASSUME Exports PROVE  Builds(ExportedVM, "vm")
  <1>1. Len(ExportedVM) \in 1 .. 18 /\ Makes(ExportedVM, "vm")
    BY SMTT(30) DEF Makes, Own, Step, Objects, Base, Unplanned, Exports, ExportedVM
  <1>2. Once(ExportedVM)
    BY SMTT(30) DEF Once, Earlier, Step, ExportedVM
  <1>3. Provides(ExportedVM, "vm")
    BY SMTT(30) DEF Provides, Promised, Holds, expectedExports, Exports, checkVM,
           checkVMQemu, Step, ExportedVM
  <1>4. Leads(ExportedVM, "vm")
    BY DEF Leads, Earlier, Step, ExportedVM
  <1>5. Supported(ExportedVM, "vm")
    <2> SUFFICES ASSUME NEW i \in 1 .. 8, ExportedVM[i].kind \notin {"open", "load"},
                        NEW o \in Support(ExportedVM[i].on) \ Ground("vm")
                 PROVE  Earlier(ExportedVM, i, o)
      BY Zenon DEF Supported, ExportedVM
    <2>1. ExportedVM[1].on = "tap_port" /\ ExportedVM[2].on = "tap" /\
          ExportedVM[4].on = "reservation"
      BY Zenon DEF ExportedVM, Step
    <2>2. (i > 1 /\ o = "tap_port") \/ (i > 2 /\ o = "tap") \/
          (i > 4 /\ o = "reservation")
      BY DEF ExportedVM, Step, Support, Base, Ground, Exports
    <2> QED
      BY <2>1, <2>2 DEF Earlier
  <1> QED
    BY <1>1, <1>2, <1>3, <1>4, <1>5, Zenon DEF Builds

LEMMA PlainVMBuilds ==
    ASSUME ~Exports PROVE  Builds(PlainVM, "vm")
  <1>1. Len(PlainVM) \in 1 .. 18 /\ Makes(PlainVM, "vm")
    BY SMTT(30) DEF Makes, Own, Step, Objects, Base, Unplanned, Exports, PlainVM
  <1>2. Once(PlainVM)
    BY SMTT(30) DEF Once, Earlier, Step, PlainVM
  <1>3. Provides(PlainVM, "vm")
    BY SMTT(30) DEF Provides, Promised, Holds, expectedExports, Exports, checkVM,
           checkVMQemu, Step, PlainVM
  <1>4. Leads(PlainVM, "vm")
    BY DEF Leads, Earlier, Step, PlainVM
  <1>5. Supported(PlainVM, "vm")
    <2> SUFFICES ASSUME NEW i \in 1 .. 7, PlainVM[i].kind \notin {"open", "load"},
                        NEW o \in Support(PlainVM[i].on) \ Ground("vm")
                 PROVE  Earlier(PlainVM, i, o)
      BY Zenon DEF Supported, PlainVM
    <2>1. PlainVM[1].on = "tap_port"
      BY Zenon DEF PlainVM, Step
    <2>2. (i > 1 /\ o = "tap_port")
      BY DEF PlainVM, Step, Support, Base, Ground, Exports
    <2> QED
      BY <2>1, <2>2 DEF Earlier
  <1> QED
    BY <1>1, <1>2, <1>3, <1>4, <1>5, Zenon DEF Builds

LEMMA GatewayBuilds ==
    ASSUME plan.routed PROVE  Builds(Gateway, "nat")
  <1>1. Len(Gateway) \in 1 .. 18 /\ Makes(Gateway, "nat")
    BY SMTT(30) DEF Makes, Own, Step, Objects, Base, Unplanned, Exports, Gateway
  <1>2. Once(Gateway)
    BY SMTT(30) DEF Once, Earlier, Step, Gateway
  <1>3. Provides(Gateway, "nat")
    BY SMTT(30) DEF Provides, Promised, Holds, expectedExports, Exports, Own, Step, Gateway
  <1>4. Leads(Gateway, "nat")
    BY DEF Leads, Earlier, Step, Gateway
  <1>5. Supported(Gateway, "nat")
    <2> SUFFICES ASSUME NEW i \in 1 .. 6, Gateway[i].kind \notin {"open", "load"},
                        NEW o \in Support(Gateway[i].on) \ Ground("nat")
                 PROVE  Earlier(Gateway, i, o)
      BY Zenon DEF Supported, Gateway
    <2>1. Gateway[2].on = "ng" /\ Gateway[3].on = "ng_fdb" /\
          Gateway[4].on = "default_ng" /\ Gateway[5].on = "nat"
      BY Zenon DEF Gateway, Step
    <2>2. (i > 2 /\ o = "ng") \/ (i > 3 /\ o = "ng_fdb") \/
          (i > 4 /\ o = "default_ng") \/ (i > 5 /\ o = "nat")
      BY DEF Gateway, Step, Support, Base, Ground, Exports
    <2> QED
      BY <2>1, <2>2 DEF Earlier
  <1> QED
    BY <1>1, <1>2, <1>3, <1>4, <1>5, Zenon DEF Builds

LEMMA FloatingIPBuilds ==
    Builds(FloatingIP, "fip")
  <1>1. Len(FloatingIP) \in 1 .. 18 /\ Makes(FloatingIP, "fip")
    BY SMTT(30) DEF Makes, Own, Step, Objects, Base, Unplanned, Exports, FloatingIP
  <1>2. Once(FloatingIP)
    BY SMTT(30) DEF Once, Earlier, Step, FloatingIP
  <1>3. Provides(FloatingIP, "fip")
    BY SMTT(30) DEF Provides, Promised, Holds, expectedExports, Exports, Own, Step, FloatingIP
  <1>4. Leads(FloatingIP, "fip")
    BY DEF Leads, Earlier, Step, FloatingIP
  <1>5. Supported(FloatingIP, "fip")
    <2> SUFFICES ASSUME NEW i \in 1 .. 7, FloatingIP[i].kind \notin {"open", "load"},
                        NEW o \in Support(FloatingIP[i].on) \ Ground("fip")
                 PROVE  Earlier(FloatingIP, i, o)
      BY Zenon DEF Supported, FloatingIP
    <2>1. FloatingIP[2].on = "fip" /\ FloatingIP[4].on = "fip_nat" /\
          FloatingIP[5].on = "fip_table" /\ FloatingIP[6].on = "rule_main"
      BY Zenon DEF FloatingIP, Step
    <2>2. (i > 2 /\ o = "fip") \/ (i > 4 /\ o = "fip_nat") \/
          (i > 5 /\ o = "fip_table") \/ (i > 6 /\ o = "rule_main")
      BY DEF FloatingIP, Step, Support, Base, Ground, Exports
    <2> QED
      BY <2>1, <2>2 DEF Earlier
  <1> QED
    BY <1>1, <1>2, <1>3, <1>4, <1>5, Zenon DEF Builds

-----------------------------------------------------------------------------
(* What a deletion does *)

Below(r) == CASE r = "vpc" -> {"subnet", "vm", "nat", "fip"}
              [] r = "subnet" -> {"vm", "fip"}
              [] r = "vm" -> {"fip"}
              [] OTHER -> {}

(* What rests on an object without going away with it. *)
Users(x) ==
    CASE x \in {"route_map", "vrf"} -> {"bgp"}
      [] x = "vxl3" -> {"vni"}
      [] x = "unreachable" -> {"l3"}
      [] x \in {"dhcp_conf", "gw", "bridge", "vxlan", "veth"} -> {"route_subnet"}
      [] x \in {"tap", "reservation"} -> {"route_vm"}
      [] x = "tap_port" -> {"tap", "route_vm"}
      [] x \in {"nat", "ng_fdb", "ng", "default_ng"} -> {"route_default"}
      [] x \in {"rule_main", "fip_nat", "fip", "fip_table"} -> {"rule_own"}
      [] OTHER -> {}

(* A deletion removes its own objects; besides, the VPC asks the host      *)
(* service first, a VM halts QEMU and restarts dnsmasq, a gateway and a    *)
(* floating IP find their namespace, a gateway gives the default route     *)
(* back.                                                                   *)
Unmakes(L, r) ==
    \A i \in 1 .. Len(L) :
       /\ L[i].on \in Objects
       /\ Removes(L[i]) => L[i].on \in Own(r) \ {"lease", "deaf", "default_vrf", "default_ng"}
       /\ ~Removes(L[i]) =>
             \/ r = "vpc" /\ i = 1 /\ L[i] = Step("close", "hostsvc")
             \/ r = "subnet" /\ L[i] = Step("collect", "bridge")
             \/ r = "vm" /\ L[i] \in {Step("halt", "qemu"), Step("restart", "dhcp_unit")}
             \/ r = "nat" /\ L[i] = Step("set", "default_vrf")
             \/ r \in {"nat", "fip"} /\ L[i] = Step("load", "netns")

(* It looks things up only under the resource; of a NAT gateway and of a   *)
(* floating IP nothing has to be found.                                    *)
Looks(L, r) ==
    \A i \in 1 .. Len(L) :
       /\ L[i].kind \in {"drop", "try_drop"} => Lookup(L[i].on) \subseteq Ground(r)
       /\ L[i].kind = "set" => Needs(L[i].on) \subseteq Ground(r)
       /\ MustFind(L[i]) => r \notin {"nat", "fip"}

Gone(L, i, a) == \E j \in 1 .. i - 1 : L[j] \in {Step("drop", a), Step("delete", a)}

(* It removes an object after what rests on the object. *)
Clears(L) ==
    \A i \in 1 .. Len(L) :
       /\ Removes(L[i]) => \A a \in Users(L[i].on) : a \in Unplanned \/ Gone(L, i, a)
       /\ L[i].kind = "set" => \A a \in Users("default_ng") : Gone(L, i, a)
       /\ L[i].on = "ng" => \E j \in 1 .. i - 1 : L[j].kind = "set"
       /\ L[i].kind = "restart" => Gone(L, i, "reservation")
       /\ L[i].on \in {"tap", "sockets"} => \E j \in 1 .. i - 1 : L[j] = Step("halt", "qemu")

(* What it has to find, the creation made, and it did not remove before. *)
Finds(L, M) ==
    \A i \in 1 .. Len(L) : MustFind(L[i]) =>
       /\ Holds(M, L[i].on) /\ L[i].on \notin {"qemu", "default_vrf", "default_ng", "dhcp_unit"}
       /\ \A j \in 1 .. i - 1 : Removes(L[j]) => L[i].on \notin Fallen[L[j].on]

(* It reports the errors of the removals it tried. *)
Collects(L) ==
    \A i \in 1 .. Len(L) : Tried(L[i]) => \E j \in i + 1 .. Len(L) : L[j].kind = "collect"

(* It removes every object of the resource, and a VM has dnsmasq forget    *)
(* the reservation.                                                        *)
Covers(L, r) ==
    /\ \A o \in Own(r) \ {"lease"} :
          o \in Unplanned \/ \E i \in 1 .. Len(L) : Removes(L[i]) /\ o \in Fallen[L[i].on]
    /\ r = "vm" => \E i \in 1 .. Len(L) : L[i].kind = "restart"

Unbuilds(L, r, M) ==
    /\ Len(L) \in 1 .. 18 /\ (r = "vpc" => L[1] = Step("close", "hostsvc"))
    /\ Unmakes(L, r) /\ Looks(L, r) /\ Clears(L) /\ Finds(L, M) /\ Collects(L) /\ Covers(L, r)

LEMMA RoutedVPCGoneUnbuilds ==
    ASSUME plan.routed PROVE  Unbuilds(RoutedVPCGone, "vpc", RoutedVPC)
  <1>1. Len(RoutedVPCGone) \in 1 .. 18 /\ Unmakes(RoutedVPCGone, "vpc")
    BY SMTT(30) DEF Unmakes, Own, Step, Removes, Objects, Base, RoutedVPCGone
  <1>2. Looks(RoutedVPCGone, "vpc") /\ RoutedVPCGone[1] = Step("close", "hostsvc")
    BY SMTT(30) DEF Looks, MustFind, Lookup, Needs, Base, Ground, Step, RoutedVPCGone
  <1>3. Clears(RoutedVPCGone)
    BY SMTT(30) DEF Clears, Users, Gone, Removes, Unplanned, Exports, Step, RoutedVPCGone
  <1>4. Finds(RoutedVPCGone, RoutedVPC)
    <2>1. ASSUME NEW i \in 1 .. 12, MustFind(RoutedVPCGone[i])
          PROVE  RoutedVPCGone[i].on \in {"vp", "netns"} /\ i > 10
      BY <2>1 DEF MustFind, Step, RoutedVPCGone
    <2>2. RoutedVPC[1] = Step("set", "netns") /\ RoutedVPC[2] = Step("make", "vp")
      BY Zenon DEF Step, RoutedVPC
    <2>3. ASSUME NEW i \in 1 .. 12, MustFind(RoutedVPCGone[i]), NEW j \in 1 .. i - 1, Removes(RoutedVPCGone[j])
          PROVE  RoutedVPCGone[i].on \notin Fallen[RoutedVPCGone[j].on]
      <3>1. RoutedVPCGone[j].on \in {"vni", "bgp", "route_map", "l3", "vxl3", "brl3", "vrf",
                              "unreachable", "frr_vrf"}
               \/ (RoutedVPCGone[j].on = "vp" /\ RoutedVPCGone[i].on = "netns")
        BY <2>3 DEF MustFind, Removes, Step, RoutedVPCGone
      <3> QED
        BY <2>1, <2>3, <3>1, FallenFacts, SMTT(30) DEF Objects, Base, Floors
    <2>4. Holds(RoutedVPC, "netns") /\ Holds(RoutedVPC, "vp")
      BY <2>2 DEF Holds, Step, RoutedVPC
    <2> QED
      BY <2>1, <2>3, <2>4, Zenon DEF Finds, RoutedVPCGone
  <1>5. Collects(RoutedVPCGone)
    BY DEF Collects, Tried, Step, RoutedVPCGone
  <1>6. Covers(RoutedVPCGone, "vpc")
    <2>1. ASSUME NEW o \in Own("vpc"), o \notin Unplanned,
                 o \notin {"netns", "vp", "br_public", "guard", "l3", "default_vrf", "hostsvc", "svc_redirect"}
          PROVE  \E i \in 1 .. 12 : Removes(RoutedVPCGone[i]) /\ o = RoutedVPCGone[i].on
      BY <2>1 DEF Own, Unplanned, Exports, Removes, Step, RoutedVPCGone
    <2>2. RoutedVPCGone[12].on = "netns" /\ Removes(RoutedVPCGone[12]) /\ Len(RoutedVPCGone) = 12
      BY Zenon DEF Removes, Step, RoutedVPCGone
    <2>3. \A i \in 1 .. 12 : RoutedVPCGone[i].on \in Fallen[RoutedVPCGone[i].on]
      BY <1>1, <2>2, FallenClosed, Zenon DEF Unmakes
    <2> QED
      BY <2>1, <2>2, <2>3, NetnsFalls, SMTT(30) DEF Covers
  <1> QED
    BY <1>1, <1>2, <1>3, <1>4, <1>5, <1>6, Zenon DEF Unbuilds

LEMMA PlainVPCGoneUnbuilds ==
    ASSUME ~plan.routed PROVE  Unbuilds(PlainVPCGone, "vpc", PlainVPC)
  <1>1. Len(PlainVPCGone) \in 1 .. 18 /\ Unmakes(PlainVPCGone, "vpc")
    BY SMTT(30) DEF Unmakes, Own, Step, Removes, Objects, Base, PlainVPCGone
  <1>2. Looks(PlainVPCGone, "vpc") /\ PlainVPCGone[1] = Step("close", "hostsvc")
    BY SMTT(30) DEF Looks, MustFind, Lookup, Needs, Base, Ground, Step, PlainVPCGone
  <1>3. Clears(PlainVPCGone)
    BY SMTT(30) DEF Clears, Users, Gone, Removes, Unplanned, Exports, Step, PlainVPCGone
  <1>4. Finds(PlainVPCGone, PlainVPC)
    BY FallenFacts DEF Finds, Holds, MustFind, Removes, Step, Objects, Base, Floors,
                       PlainVPCGone, PlainVPC
  <1>5. Collects(PlainVPCGone)
    BY DEF Collects, Tried, Step, PlainVPCGone
  <1>6. Covers(PlainVPCGone, "vpc")
    <2>1. ASSUME NEW o \in Own("vpc"), o \notin Unplanned,
                 o \notin {"netns", "vp", "br_public", "guard", "l3", "default_vrf", "hostsvc", "svc_redirect"}
          PROVE  \E i \in 1 .. 3 : Removes(PlainVPCGone[i]) /\ o = PlainVPCGone[i].on
      BY <2>1, Zenon DEF Own, Unplanned, Exports, Removes, Step, PlainVPCGone
    <2>2. PlainVPCGone[3].on = "netns" /\ Removes(PlainVPCGone[3]) /\ Len(PlainVPCGone) = 3
      BY Zenon DEF Removes, Step, PlainVPCGone
    <2>3. \A i \in 1 .. 3 : PlainVPCGone[i].on \in Fallen[PlainVPCGone[i].on]
      BY <1>1, <2>2, FallenClosed, Zenon DEF Unmakes
    <2> QED
      BY <2>1, <2>2, <2>3, NetnsFalls, SMTT(30) DEF Covers
  <1> QED
    BY <1>1, <1>2, <1>3, <1>4, <1>5, <1>6, Zenon DEF Unbuilds

LEMMA RoutedSubnetGoneUnbuilds ==
    ASSUME plan.mode = "vxlan", plan.routed PROVE  Unbuilds(RoutedSubnetGone, "subnet", RoutedSubnet)
  <1>1. Len(RoutedSubnetGone) \in 1 .. 18 /\ Unmakes(RoutedSubnetGone, "subnet")
    BY SMTT(30) DEF Unmakes, Own, Step, Removes, Objects, Base, RoutedSubnetGone
  <1>2. Looks(RoutedSubnetGone, "subnet")
    BY SMTT(30) DEF Looks, MustFind, Lookup, Needs, Base, Ground, Step, RoutedSubnetGone
  <1>3. Clears(RoutedSubnetGone)
    BY SMTT(30) DEF Clears, Users, Gone, Removes, Unplanned, Exports, Step, RoutedSubnetGone
  <1>4. Finds(RoutedSubnetGone, RoutedSubnet)
    <2>1. \A i \in 1 .. Len(RoutedSubnetGone) : MustFind(RoutedSubnetGone[i]) =>
             /\ Holds(RoutedSubnet, RoutedSubnetGone[i].on)
             /\ RoutedSubnetGone[i].on \notin {"qemu", "default_vrf", "default_ng", "dhcp_unit"}
      BY SMTT(30) DEF Holds, MustFind, Step, RoutedSubnetGone, RoutedSubnet
    <2>2. \A i \in 1 .. Len(RoutedSubnetGone) : MustFind(RoutedSubnetGone[i]) =>
             \A j \in 1 .. i - 1 : Removes(RoutedSubnetGone[j]) => RoutedSubnetGone[i].on \notin Fallen[RoutedSubnetGone[j].on]
      BY FallenFacts DEF MustFind, Removes, Step, Objects, Base, Floors, RoutedSubnetGone
    <2> QED
      BY <2>1, <2>2, Zenon DEF Finds
  <1>5. Collects(RoutedSubnetGone)
    BY DEF Collects, Tried, Step, RoutedSubnetGone
  <1>6. Covers(RoutedSubnetGone, "subnet")
    BY FallenFacts, SMTT(30) DEF Covers, Own, Unplanned, Exports, Removes, Step, Objects, Base,
                       Floors, RoutedSubnetGone
  <1> QED
    BY <1>1, <1>2, <1>3, <1>4, <1>5, <1>6, Zenon DEF Unbuilds

LEMMA VxlanSubnetGoneUnbuilds ==
    ASSUME plan.mode = "vxlan", ~plan.routed PROVE  Unbuilds(VxlanSubnetGone, "subnet", VxlanSubnet)
  <1>1. Len(VxlanSubnetGone) \in 1 .. 18 /\ Unmakes(VxlanSubnetGone, "subnet")
    BY SMTT(30) DEF Unmakes, Own, Step, Removes, Objects, Base, VxlanSubnetGone
  <1>2. Looks(VxlanSubnetGone, "subnet")
    BY SMTT(30) DEF Looks, MustFind, Lookup, Needs, Base, Ground, Step, VxlanSubnetGone
  <1>3. Clears(VxlanSubnetGone)
    BY SMTT(30) DEF Clears, Users, Gone, Removes, Unplanned, Exports, Step, VxlanSubnetGone
  <1>4. Finds(VxlanSubnetGone, VxlanSubnet)
    <2>1. \A i \in 1 .. Len(VxlanSubnetGone) : MustFind(VxlanSubnetGone[i]) =>
             /\ Holds(VxlanSubnet, VxlanSubnetGone[i].on)
             /\ VxlanSubnetGone[i].on \notin {"qemu", "default_vrf", "default_ng", "dhcp_unit"}
      BY SMTT(30) DEF Holds, MustFind, Step, VxlanSubnetGone, VxlanSubnet
    <2>2. \A i \in 1 .. Len(VxlanSubnetGone) : MustFind(VxlanSubnetGone[i]) =>
             \A j \in 1 .. i - 1 : Removes(VxlanSubnetGone[j]) => VxlanSubnetGone[i].on \notin Fallen[VxlanSubnetGone[j].on]
      BY FallenFacts DEF MustFind, Removes, Step, Objects, Base, Floors, VxlanSubnetGone
    <2> QED
      BY <2>1, <2>2, Zenon DEF Finds
  <1>5. Collects(VxlanSubnetGone)
    BY DEF Collects, Tried, Step, VxlanSubnetGone
  <1>6. Covers(VxlanSubnetGone, "subnet")
    BY FallenFacts, SMTT(30) DEF Covers, Own, Unplanned, Exports, Removes, Step, Objects, Base,
                       Floors, VxlanSubnetGone
  <1> QED
    BY <1>1, <1>2, <1>3, <1>4, <1>5, <1>6, Zenon DEF Unbuilds

LEMMA BridgeSubnetGoneUnbuilds ==
    ASSUME plan.mode # "vxlan" PROVE  Unbuilds(BridgeSubnetGone, "subnet", BridgeSubnet)
  <1>1. Len(BridgeSubnetGone) \in 1 .. 18 /\ Unmakes(BridgeSubnetGone, "subnet")
    BY SMTT(30) DEF Unmakes, Own, Step, Removes, Objects, Base, BridgeSubnetGone
  <1>2. Looks(BridgeSubnetGone, "subnet")
    BY SMTT(30) DEF Looks, MustFind, Lookup, Needs, Base, Ground, Step, BridgeSubnetGone
  <1>3. Clears(BridgeSubnetGone)
    BY SMTT(30) DEF Clears, Users, Gone, Removes, Unplanned, Exports, Step, BridgeSubnetGone
  <1>4. Finds(BridgeSubnetGone, BridgeSubnet)
    <2>1. \A i \in 1 .. Len(BridgeSubnetGone) : MustFind(BridgeSubnetGone[i]) =>
             /\ Holds(BridgeSubnet, BridgeSubnetGone[i].on)
             /\ BridgeSubnetGone[i].on \notin {"qemu", "default_vrf", "default_ng", "dhcp_unit"}
      BY SMTT(30) DEF Holds, MustFind, Step, BridgeSubnetGone, BridgeSubnet
    <2>2. \A i \in 1 .. Len(BridgeSubnetGone) : MustFind(BridgeSubnetGone[i]) =>
             \A j \in 1 .. i - 1 : Removes(BridgeSubnetGone[j]) => BridgeSubnetGone[i].on \notin Fallen[BridgeSubnetGone[j].on]
      BY FallenFacts DEF MustFind, Removes, Step, Objects, Base, Floors, BridgeSubnetGone
    <2> QED
      BY <2>1, <2>2, Zenon DEF Finds
  <1>5. Collects(BridgeSubnetGone)
    BY DEF Collects, Tried, Step, BridgeSubnetGone
  <1>6. Covers(BridgeSubnetGone, "subnet")
    BY FallenFacts, SMTT(30) DEF Covers, Own, Unplanned, Exports, Removes, Step, Objects, Base,
                       Floors, BridgeSubnetGone
  <1> QED
    BY <1>1, <1>2, <1>3, <1>4, <1>5, <1>6, Zenon DEF Unbuilds

LEMMA ExportedVMGoneUnbuilds ==
    ASSUME Exports PROVE  Unbuilds(ExportedVMGone, "vm", ExportedVM)
  <1>1. Len(ExportedVMGone) \in 1 .. 18 /\ Unmakes(ExportedVMGone, "vm")
    BY SMTT(30) DEF Unmakes, Own, Step, Removes, Objects, Base, ExportedVMGone
  <1>2. Looks(ExportedVMGone, "vm")
    BY SMTT(30) DEF Looks, MustFind, Lookup, Needs, Base, Ground, Step, ExportedVMGone
  <1>3. Clears(ExportedVMGone)
    BY SMTT(30) DEF Clears, Users, Gone, Removes, Unplanned, Exports, Step, ExportedVMGone
  <1>4. Finds(ExportedVMGone, ExportedVM)
    BY FallenFacts DEF Finds, Holds, MustFind, Removes, Step, Objects, Base, Floors,
                       ExportedVMGone, ExportedVM
  <1>5. Collects(ExportedVMGone)
    BY DEF Collects, Tried, Step, ExportedVMGone
  <1>6. Covers(ExportedVMGone, "vm")
    BY FallenFacts, SMTT(30) DEF Covers, Own, Unplanned, Exports, Removes, Step, Objects, Base,
                       Floors, ExportedVMGone
  <1> QED
    BY <1>1, <1>2, <1>3, <1>4, <1>5, <1>6, Zenon DEF Unbuilds

LEMMA PlainVMGoneUnbuilds ==
    ASSUME ~Exports PROVE  Unbuilds(PlainVMGone, "vm", PlainVM)
  <1>1. Len(PlainVMGone) \in 1 .. 18 /\ Unmakes(PlainVMGone, "vm")
    BY SMTT(30) DEF Unmakes, Own, Step, Removes, Objects, Base, PlainVMGone
  <1>2. Looks(PlainVMGone, "vm")
    BY SMTT(30) DEF Looks, MustFind, Lookup, Needs, Base, Ground, Step, PlainVMGone
  <1>3. Clears(PlainVMGone)
    BY SMTT(30) DEF Clears, Users, Gone, Removes, Unplanned, Exports, Step, PlainVMGone
  <1>4. Finds(PlainVMGone, PlainVM)
    BY FallenFacts DEF Finds, Holds, MustFind, Removes, Step, Objects, Base, Floors,
                       PlainVMGone, PlainVM
  <1>5. Collects(PlainVMGone)
    BY DEF Collects, Tried, Step, PlainVMGone
  <1>6. Covers(PlainVMGone, "vm")
    BY FallenFacts, SMTT(30) DEF Covers, Own, Unplanned, Exports, Removes, Step, Objects, Base,
                       Floors, PlainVMGone
  <1> QED
    BY <1>1, <1>2, <1>3, <1>4, <1>5, <1>6, Zenon DEF Unbuilds

LEMMA GatewayGoneUnbuilds ==
    ASSUME plan.routed PROVE  Unbuilds(GatewayGone, "nat", Gateway)
  <1>1. Len(GatewayGone) \in 1 .. 18 /\ Unmakes(GatewayGone, "nat")
    BY SMTT(30) DEF Unmakes, Own, Step, Removes, Objects, Base, GatewayGone
  <1>2. Looks(GatewayGone, "nat")
    BY SMTT(30) DEF Looks, MustFind, Lookup, Needs, Base, Ground, Step, GatewayGone
  <1>3. Clears(GatewayGone)
    BY SMTT(30) DEF Clears, Users, Gone, Removes, Unplanned, Exports, Step, GatewayGone
  <1>4. Finds(GatewayGone, Gateway)
    BY FallenFacts DEF Finds, Holds, MustFind, Removes, Step, Objects, Base, Floors,
                       GatewayGone, Gateway
  <1>5. Collects(GatewayGone)
    BY DEF Collects, Tried, Step, GatewayGone
  <1>6. Covers(GatewayGone, "nat")
    BY FallenFacts, SMTT(30) DEF Covers, Own, Unplanned, Exports, Removes, Step, Objects, Base,
                       Floors, GatewayGone
  <1> QED
    BY <1>1, <1>2, <1>3, <1>4, <1>5, <1>6, Zenon DEF Unbuilds

LEMMA FloatingIPGoneUnbuilds ==
    Unbuilds(FloatingIPGone, "fip", FloatingIP)
  <1>1. Len(FloatingIPGone) \in 1 .. 18 /\ Unmakes(FloatingIPGone, "fip")
    BY SMTT(30) DEF Unmakes, Own, Step, Removes, Objects, Base, FloatingIPGone
  <1>2. Looks(FloatingIPGone, "fip")
    BY SMTT(30) DEF Looks, MustFind, Lookup, Needs, Base, Ground, Step, FloatingIPGone
  <1>3. Clears(FloatingIPGone)
    BY SMTT(30) DEF Clears, Users, Gone, Removes, Unplanned, Exports, Step, FloatingIPGone
  <1>4. Finds(FloatingIPGone, FloatingIP)
    BY FallenFacts DEF Finds, Holds, MustFind, Removes, Step, Objects, Base, Floors,
                       FloatingIPGone, FloatingIP
  <1>5. Collects(FloatingIPGone)
    BY DEF Collects, Tried, Step, FloatingIPGone
  <1>6. Covers(FloatingIPGone, "fip")
    BY FallenFacts, SMTT(30) DEF Covers, Own, Unplanned, Exports, Removes, Step, Objects, Base,
                       Floors, FloatingIPGone
  <1> QED
    BY <1>1, <1>2, <1>3, <1>4, <1>5, <1>6, Zenon DEF Unbuilds

-----------------------------------------------------------------------------
(* What the lists in full do, the lists do *)

(* A list that agrees with a sound tuple is sound. *)
LEMMA BuildsAgrees ==
    ASSUME NEW L, NEW T, Agrees(L, T), NEW r, Builds(T, r)
    PROVE  Builds(L, r)
  <1>1. Len(L) = Len(T) /\ Len(T) \in 1 .. 18 /\ \A i \in 1 .. Len(T) : L[i] = T[i]
    BY Zenon DEF Agrees, Builds
  <1>2. \A i \in 1 .. Len(T) : \A o : Earlier(L, i, o) <=> Earlier(T, i, o)
    BY <1>1 DEF Earlier
  <1>3. \A o : Holds(L, o) <=> Holds(T, o)
    BY <1>1, Zenon DEF Holds
  <1>4. Makes(L, r) /\ Once(L) /\ Supported(L, r) /\ Provides(L, r)
    BY <1>1, <1>2, <1>3, Zenon DEF Builds, Makes, Once, Supported, Provides
  <1>5. Len(T) \in 1 .. Len(T)
    BY <1>1
  <1> QED
    BY <1>1, <1>2, <1>4, <1>5, Zenon DEF Builds, Leads

(* A list that agrees with a sound tuple is sound. *)
LEMMA UnbuildsAgrees ==
    ASSUME NEW L, NEW T, Agrees(L, T), NEW K, NEW M, Agrees(K, M),
           NEW r, Unbuilds(T, r, M)
    PROVE  Unbuilds(L, r, K)
  <1>1. Len(L) = Len(T) /\ Len(T) \in 1 .. 18 /\ \A i \in 1 .. Len(T) : L[i] = T[i]
    BY Zenon DEF Agrees, Unbuilds
  <1>2. \A i \in 1 .. Len(T) : /\ \A j \in 1 .. i - 1 : L[j] = T[j]
                               /\ \A j \in i + 1 .. Len(T) : L[j] = T[j]
    BY <1>1
  <1>3. \A o : Holds(K, o) <=> Holds(M, o)
    BY Zenon DEF Holds, Agrees
  <1>4. Unmakes(L, r) /\ Looks(L, r)
    BY <1>1, Zenon DEF Unbuilds, Unmakes, Looks
  <1>8. Collects(L)
    <2>1. Collects(T)
      BY Zenon DEF Unbuilds
    <2> QED
      BY <1>1, <2>1 DEF Collects, Tried
  <1>9. Covers(L, r)
    <2>1. Covers(T, r)
      BY Zenon DEF Unbuilds
    <2>2. \A o : (\E i \in 1 .. Len(T) : Removes(T[i]) /\ o \in Fallen[T[i].on])
                 => \E i \in 1 .. Len(L) : Removes(L[i]) /\ o \in Fallen[L[i].on]
      BY <1>1, Zenon
    <2> QED
      BY <1>1, <2>1, <2>2, Zenon DEF Covers
  <1>5. Clears(L)
    <2>1. Clears(T)
      BY Zenon DEF Unbuilds
    <2>2. \A i \in 1 .. Len(T) : \A a : Gone(T, i, a) => Gone(L, i, a)
      BY <1>2, Zenon DEF Gone
    <2> QED
      BY <1>1, <1>2, <2>1, <2>2, Zenon DEF Clears
  <1>6. Finds(L, K)
    BY <1>1, <1>2, <1>3, Zenon DEF Unbuilds, Finds
  <1>7. L[1] = T[1]
    BY <1>1
  <1> QED
    BY <1>1, <1>4, <1>5, <1>6, <1>7, <1>8, <1>9, Zenon DEF Unbuilds

(* Every creation and every deletion of a planned resource is sound. *)
LEMMA ListFacts ==
    ASSUME plan \in Scenarios, NEW r \in plan.uses
    PROVE  /\ r \in Resources
           /\ Builds(Creation(r), r) /\ Unbuilds(Deletion(r), r, Creation(r))
  <1>1. /\ plan.routed \in BOOLEAN /\ r \in Resources /\ (r = "nat" => plan.routed)
    BY ScenariosAssumption, Zenon
  <1>2. CASE r = "vpc"
    <2>1. Creation(r) = CreateVPC /\ Deletion(r) = DeleteVPC
      BY <1>2, Zenon DEF Creation, Deletion
    <2>2. CASE plan.routed
      BY <1>2, <2>1, <2>2, RoutedVPCList, RoutedVPCGoneList, RoutedVPCBuilds,
         RoutedVPCGoneUnbuilds, BuildsAgrees, UnbuildsAgrees, <1>1, Zenon
    <2>3. CASE ~plan.routed
      BY <1>2, <2>1, <2>3, PlainVPCList, PlainVPCGoneList, PlainVPCBuilds,
         PlainVPCGoneUnbuilds, BuildsAgrees, UnbuildsAgrees, <1>1, Zenon
    <2> QED
      BY <2>2, <2>3, Zenon
  <1>3. CASE r = "subnet"
    <2>1. Creation(r) = CreateSubnet /\ Deletion(r) = DeleteSubnet
      BY <1>3, Zenon DEF Creation, Deletion
    <2>2. CASE plan.mode = "vxlan" /\ plan.routed
      BY <1>3, <2>1, <2>2, RoutedSubnetList, RoutedSubnetGoneList, RoutedSubnetBuilds,
         RoutedSubnetGoneUnbuilds, BuildsAgrees, UnbuildsAgrees, <1>1, Zenon
    <2>3. CASE plan.mode = "vxlan" /\ ~plan.routed
      BY <1>3, <2>1, <2>3, VxlanSubnetList, VxlanSubnetGoneList, VxlanSubnetBuilds,
         VxlanSubnetGoneUnbuilds, BuildsAgrees, UnbuildsAgrees, <1>1, Zenon
    <2>4. CASE plan.mode # "vxlan"
      BY <1>3, <2>1, <2>4, BridgeSubnetList, BridgeSubnetGoneList, BridgeSubnetBuilds,
         BridgeSubnetGoneUnbuilds, BuildsAgrees, UnbuildsAgrees, <1>1, Zenon
    <2> QED
      BY <2>2, <2>3, <2>4, Zenon
  <1>4. CASE r = "vm"
    <2>1. Creation(r) = StartVM /\ Deletion(r) = StopVM
      BY <1>4, Zenon DEF Creation, Deletion
    <2>2. CASE Exports
      BY <1>4, <2>1, <2>2, ExportedVMList, ExportedVMGoneList, ExportedVMBuilds,
         ExportedVMGoneUnbuilds, BuildsAgrees, UnbuildsAgrees, <1>1, Zenon
    <2>3. CASE ~Exports
      BY <1>4, <2>1, <2>3, PlainVMList, PlainVMGoneList, PlainVMBuilds,
         PlainVMGoneUnbuilds, BuildsAgrees, UnbuildsAgrees, <1>1, Zenon
    <2> QED
      BY <2>2, <2>3, Zenon
  <1>5. CASE r = "nat"
    <2>1. Creation(r) = CreateNAT /\ Deletion(r) = RemoveNAT
      BY <1>5, Zenon DEF Creation, Deletion
    <2> QED
      BY <1>5, <2>1, GatewayList, GatewayGoneList, GatewayBuilds,
         GatewayGoneUnbuilds, BuildsAgrees, UnbuildsAgrees, <1>1, Zenon
  <1>6. CASE r = "fip"
    <2>1. Creation(r) = CreateFIP /\ Deletion(r) = RemoveFIP
      BY <1>6, Zenon DEF Creation, Deletion
    <2> QED
      BY <1>6, <2>1, FloatingIPList, FloatingIPGoneList, FloatingIPBuilds,
         FloatingIPGoneUnbuilds, BuildsAgrees, UnbuildsAgrees, <1>1, Zenon
  <1> QED
    BY <1>1, <1>2, <1>3, <1>4, <1>5, <1>6, Zenon DEF Resources

(* The lists depend on the plan alone. *)
LEMMA ListsKept ==
    ASSUME plan' = plan
    PROVE  /\ CreateVPC' = CreateVPC /\ Unplanned' = Unplanned
           /\ \A r : Creation(r)' = Creation(r) /\ Deletion(r)' = Deletion(r)
           /\ \A r : Made(r)' = Made(r)
  <1>1. /\ CreateVPC' = CreateVPC /\ CreateSubnet' = CreateSubnet /\ StartVM' = StartVM
        /\ DeleteVPC' = DeleteVPC /\ DeleteSubnet' = DeleteSubnet /\ StopVM' = StopVM
    BY Zenon DEF CreateVPC, CreateSubnet, createSubnet, StartVM, DeleteVPC, DeleteSubnet,
        StopVM, exportRoute, withdrawRoute, Exports
  <1>2. \A r : Creation(r)' = Creation(r) /\ Deletion(r)' = Deletion(r)
    BY <1>1, Zenon DEF Creation, Deletion
  <1>3. \A r : Made(r)' = Made(r)
    BY <1>2, Zenon DEF Made
  <1>4. Unplanned' = Unplanned
    BY Zenon DEF Unplanned, Exports
  <1> QED
    BY <1>1, <1>2, <1>3, <1>4, Zenon

-----------------------------------------------------------------------------
(* What falls with an object, and what rests on it *)

(* Every object but QEMU belongs to one resource. *)
LEMMA OwnFacts ==
    /\ \A q, r \in Resources : q # r => Own(q) \cap Own(r) = {}
    /\ \A o \in Objects : o # "qemu" => \E r \in Resources : o \in Own(r)
    /\ \A r \in Resources : Own(r) \subseteq Objects \ {"qemu"}
  <1>1. \A q, r \in Resources : q # r => Own(q) \cap Own(r) = {}
    BY DEF Resources, Own
  <1>2. \A o \in Objects : o # "qemu" => \E r \in Resources : o \in Own(r)
    BY SMTT(30) DEF Objects, Base, Resources, Own
  <1>3. \A r \in Resources : Own(r) \subseteq Objects \ {"qemu"}
    BY SMTT(30) DEF Objects, Base, Resources, Own
  <1> QED
    BY <1>1, <1>2, <1>3, Zenon

(* What nothing else rests on. *)
LEMMA SupportNames ==
    \A o \in Objects :
       /\ Support(o) \subseteq Objects \ {"qemu", "lease", "deaf", "default_vrf", "sockets"}
       /\ "default_ng" \in Support(o) => o = "route_default" /\ "nat" \notin late
       /\ "dhcp_unit" \in Support(o) => o \in {"lease", "deaf"}
  BY DEF Support, Objects, Base

(* Nothing falls with dnsmasq but its answers, and it falls with nothing. *)
LEMMA DhcpAlone ==
    \A x \in Objects \ {"dhcp_unit", "lease", "deaf"} :
        Fallen[x] \cap {"dhcp_unit", "lease", "deaf"} = {}
  <1> DEFINE D == {"dhcp_unit", "lease", "deaf"}
  <1>1. \A o \in {"dhcp_unit", "lease", "deaf"} :
           o \in Objects /\ Base[o] \subseteq {"dhcp_unit", "lease", "deaf"}
    BY SMTT(30) DEF Objects, Base
  <1>2. D \in SUBSET Objects /\ \A o \in D : Base[o] \subseteq D
    BY <1>1, Zenon
  <1> HIDE DEF D
  <1>3. \A x \in Objects \ D : Fallen[x] \cap D = {}
    BY <1>2, AbsentFallen, Zenon
  <1> QED
    BY <1>3, Zenon DEF D

(* With an object of a resource fall only objects of the resource and of   *)
(* the resources under it.                                                 *)
LEMMA FallsBelow ==
    ASSUME NEW r \in Resources, NEW x \in Own(r), NEW y \in Fallen[x]
    PROVE  y \in Own(r) \/ \E d \in Below(r) : y \in Own(d)
  <1>1. x \in Objects /\ y \in Objects /\ x # "qemu"
    BY OwnFacts, FallenClosed, Zenon
  <1>2. CASE r = "vpc"
    <2>1. "qemu" \in Objects /\ Base["qemu"] = {}
      BY Zenon DEF Objects, Base
    <2>2. y # "qemu"
      <3>1. Fallen[x] \cap {"qemu"} = {}
        BY <1>1, <2>1, AbsentFallen, Zenon
      <3> QED
        BY <3>1, Zenon
    <2> QED
      BY <1>1, <1>2, <2>2, OwnFacts, Zenon DEF Resources, Below
  <1>3. CASE r \in {"subnet", "vm"}
    BY <1>1, <1>3, FallenFacts DEF Own, Floors, Below
  <1>4. CASE r = "nat"
    BY <1>1, <1>4, FallenFacts DEF Own, Floors
  <1>5. CASE r = "fip"
    BY <1>1, <1>5, FallenFacts DEF Own, Floors
  <1> QED
    BY <1>2, <1>3, <1>4, <1>5, Zenon DEF Resources

(* What rests on something that falls with an object falls too, or is      *)
(* among the users of the object, or belongs to a resource below.          *)
LEMMA Resting ==
    ASSUME NEW r \in Resources, NEW x \in Own(r), NEW y \in Fallen[x],
           NEW a \in Objects \ Fallen[x], y \in Support(a)
    PROVE  a \in Users(x) \/ \E d \in Below(r) : a \in Own(d)
  <1>1. x \in Objects /\ x # "qemu" /\ Base[a] \cap Fallen[x] = {}
    BY OwnFacts, FallenClosed, Zenon
  <1>2. CASE r = "vpc"
    <2>1. a # "qemu"
      BY DEF Support, Objects, Base
    <2>2. CASE a \in Own("vpc")
      <3>1. <<a, y>> \in {<<"l3", "unreachable">>, <<"bgp", "vrf">>, <<"bgp", "route_map">>,
                          <<"vni", "vxl3">>}
        BY <1>1, <2>2 DEF Own, Support, Base, Objects
      <3>2. x = y
        <4>1. CASE x = "netns"
          BY <3>1, <4>1, NetnsFalls, Zenon DEF Own
        <4>2. CASE x = "l3"
          BY <3>1, <4>2, FallenFacts, Zenon
        <4>3. CASE x = "br_public"
          <5>1. "br_public" \in Objects /\ y \in Objects /\ Base[y] \subseteq {y} /\ y # x
            <6>1. y \in {"unreachable", "vrf", "route_map", "vxl3"}
              BY <3>1
            <6>2. /\ "unreachable" \in Objects /\ "vrf" \in Objects /\ "route_map" \in Objects
                  /\ "vxl3" \in Objects /\ "br_public" \in Objects
              BY Zenon DEF Objects, Base
            <6>3. /\ Base["unreachable"] = {} /\ Base["vrf"] = {} /\ Base["route_map"] = {}
                  /\ Base["vxl3"] = {}
              BY Zenon DEF Base
            <6> QED
              BY <4>3, <6>1, <6>2, <6>3, Zenon
          <5>2. x \in Objects \ {y} /\ {y} \in SUBSET Objects /\ \A o \in {y} : Base[o] \subseteq {y}
            BY <5>1, <4>3, Zenon
          <5>3. Fallen[x] \cap {y} = {}
            BY <5>2, AbsentFallen, Zenon
          <5> QED
            BY <5>3, Zenon
        <4>4. CASE x \notin {"netns", "l3", "br_public"}
          BY <1>1, <1>2, <4>4, FallenFacts DEF Own, Floors
        <4> QED
          BY <4>1, <4>2, <4>3, <4>4, Zenon
      <3> QED
        BY <3>1, <3>2, Zenon DEF Users
    <2> QED
      BY <1>2, <2>1, <2>2, OwnFacts, Zenon DEF Resources, Below
  <1>3. CASE r = "subnet"
    BY <1>1, <1>3, FallenFacts DEF Own, Users, Below, Support, Base, Objects, Floors
  <1>4. CASE r = "vm"
    BY <1>1, <1>4, FallenFacts DEF Own, Users, Below, Support, Base, Objects, Floors
  <1>5. CASE r = "nat"
    BY <1>1, <1>5, FallenFacts DEF Own, Users, Below, Support, Base, Objects, Floors
  <1>6. CASE r = "fip"
    BY <1>1, <1>6, FallenFacts DEF Own, Users, Below, Support, Base, Objects, Floors
  <1> QED
    BY <1>2, <1>3, <1>4, <1>5, <1>6, Zenon DEF Resources

(* The objects of a VM fall alone. *)
LEMMA MachineAlone == \A x \in Own("vm") : Fallen[x] = {x}
  BY FallenFacts DEF Own, Objects, Base, Floors

-----------------------------------------------------------------------------
(* The tree *)

(* The parents of a resource with a record run, unless it raced them. *)
LEMMA ParentsRun ==
    ASSUME HostInv
    PROVE  /\ st["nat"] # "none" /\ "nat" \notin late => st["vpc"] = "running"
           /\ st["vm"] # "none" => st["subnet"] = "running"
           /\ st["subnet"] # "none" => st["vpc"] = "running"
           /\ st["fip"] # "none" /\ "fip" \notin late => st["vm"] = "running"
           /\ "vpc" \notin late /\ "subnet" \notin late /\ "vm" \notin late
  <1>1. ASSUME NEW q \in Resources, q \notin late, st[q] # "none", NEW p \in Parent[q]
        PROVE  st[p] = "running"
    BY <1>1, Zenon DEF HostInv, ResourceInv, TreeInv
  <1>2. "vpc" \notin late /\ "subnet" \notin late /\ "vm" \notin late
    BY Zenon DEF HostInv, TypeOK, Attachments
  <1>3. "nat" \in Resources /\ "vm" \in Resources /\ "subnet" \in Resources /\ "fip" \in Resources
    BY Zenon DEF Resources
  <1>4. /\ "vpc" \in Parent["nat"] /\ "subnet" \in Parent["vm"] /\ "vpc" \in Parent["subnet"]
        /\ "vm" \in Parent["fip"]
    BY Zenon DEF Parent
  <1> QED
    BY <1>1, <1>2, <1>3, <1>4, Zenon

(* A resource with a record is planned, its lists are sound, and what it   *)
(* stands on is there unless it raced the deletion of its parent.          *)
LEMMA Grounded ==
    ASSUME HostInv, NEW r \in Resources, st[r] # "none"
    PROVE  /\ r \in plan.uses /\ plan \in Scenarios
           /\ Builds(Creation(r), r) /\ Unbuilds(Deletion(r), r, Creation(r))
           /\ r \notin late => Ground(r) \subseteq has
  <1>1. r \in plan.uses /\ plan \in Scenarios
    BY Zenon DEF HostInv, TypeOK
  <1>2. Builds(Creation(r), r) /\ Unbuilds(Deletion(r), r, Creation(r))
    BY <1>1, ListFacts, Zenon
  <1>3. ASSUME NEW q \in Tree, st[q] = "running", NEW o \in Promised(q), o # "dhcp_unit"
        PROVE  o \in has
    <2>5. q \in Resources /\ q \notin late
      BY <1>3, Zenon DEF HostInv, TypeOK, Tree
    <2>1. Provides(Creation(q), q)
      <3>1. q \in plan.uses
        BY <1>3, <2>5, Zenon DEF HostInv, TypeOK
      <3> QED
        BY <1>1, <3>1, ListFacts, Zenon DEF Builds
    <2>2. o \in Made(q)
      BY <2>1, <1>3, Zenon DEF Provides, Holds, Made
    <2>3. o \notin {"qemu", "default_vrf"}
      BY <1>3, Zenon DEF Promised, expectedExports, checkVPC, checkL3VPC, checkHostSvc,
                  checkSubnet, checkDHCP, checkAnycastGateway, checkBridgeGateway, checkVM,
                  checkVMQemu, Tree, Attachments, Resources
    <2>4. RunningInv(q)
      BY <2>5, Zenon DEF HostInv, ResourceInv
    <2> QED
      BY <1>3, <2>2, <2>3, <2>4, <2>5, Zenon DEF RunningInv
  <1>4. ASSUME r \notin late
        PROVE  /\ r # "vpc" => st["vpc"] = "running"
               /\ r \in {"vm", "fip"} => st["subnet"] = "running"
    BY <1>4, ParentsRun DEF Resources
  <1>5. {"netns", "br_public"} \subseteq Promised("vpc") /\ (plan.routed => "l3" \in Promised("vpc"))
    BY Zenon DEF Promised, checkVPC, checkL3VPC
  <1>6. {"bridge", "veth"} \subseteq Promised("subnet")
    BY Zenon DEF Promised, checkSubnet
  <1>8. "vpc" \in Tree /\ "subnet" \in Tree
    BY DEF Tree, Attachments, Resources
  <1>7. r \notin late => Ground(r) \subseteq has
    <2>1. st["vpc"] = "running" => /\ {"netns", "br_public"} \subseteq has
                                   /\ plan.routed => "l3" \in has
      BY <1>3, <1>5, <1>8, Zenon
    <2>2. st["subnet"] = "running" => {"bridge", "veth"} \subseteq has
      BY <1>3, <1>6, <1>8, Zenon
    <2>3. ASSUME r \notin late, NEW o \in Ground(r) PROVE o \in has
      <3>1. r # "vpc"
        BY <2>3, Zenon DEF Ground
      <3>2. CASE o \in {"netns", "br_public"}
        BY <1>4, <2>1, <2>3, <3>1, <3>2, Zenon
      <3>3. CASE o \in (IF plan.routed THEN {"l3"} ELSE {})
        <4>1. plan.routed /\ o = "l3"
          BY <3>3, Zenon
        <4> QED
          BY <1>4, <2>1, <2>3, <3>1, <4>1, Zenon
      <3>4. CASE o \in (IF r \in {"vm", "fip"} THEN {"bridge", "veth"} ELSE {})
        <4>1. r \in {"vm", "fip"} /\ o \in {"bridge", "veth"}
          BY <3>4, Zenon
        <4>2. st["subnet"] = "running"
          BY <1>4, <2>3, <4>1, Zenon
        <4> QED
          BY <2>2, <4>1, <4>2, Zenon
      <3> QED
        BY <2>3, <3>1, <3>2, <3>3, <3>4, Zenon DEF Ground
    <2> QED
      BY <2>3, Zenon
  <1> QED
    BY <1>1, <1>2, <1>7, Zenon

(* Under a worker there is nothing but what an unread unit left, and the   *)
(* gateways and floating IPs that raced it.                                *)
LEMMA Alone ==
    ASSUME HostInv, NEW r \in Resources, Working(r)
    PROVE  \A d \in Below(r) :
              /\ d \in Resources \ {r}
              /\ d \notin late =>
                   st[d] = "none" /\ Own(d) \cap has \subseteq {"lease", "dhcp_unit", "deaf"}
  <1>2. \A d \in Below(r) : d \in Resources \ {r} /\ (d \notin late => st[d] = "none")
    BY ParentsRun DEF Resources, Below, Working
  <1>3. \A q \in Resources : GoneInv(q)
    BY Zenon DEF HostInv, ResourceInv
  <1> QED
    BY <1>2, <1>3, Zenon DEF GoneInv, Spared

-----------------------------------------------------------------------------
(* The place of a worker in its list *)

(* The place of a worker in its list. *)
LEMMA Placed ==
    ASSUME HostInv, NEW r \in Resources, Working(r)
    PROVE  /\ pc[r] \in 1 .. Len(Steps(r)) + 1 /\ Len(Steps(r)) \in 1 .. 18
           /\ st[r] = "creating" => Steps(r) = Creation(r)
           /\ st[r] = "deleting" => Steps(r) = Deletion(r)
           /\ \A s \in Current(r) : pc[r] \in 1 .. Len(Steps(r)) /\ s = Steps(r)[pc[r]]
  <1>1. st[r] \in {"creating", "deleting"}
    BY Zenon DEF Working
  <1>2. /\ st[r] = "creating" => Steps(r) = Creation(r)
        /\ st[r] = "deleting" => Steps(r) = Deletion(r)
    BY Zenon DEF Steps
  <1>3. Len(Creation(r)) \in 1 .. 18 /\ Len(Deletion(r)) \in 1 .. 18
    BY <1>1, Grounded, Zenon DEF Builds, Unbuilds
  <1>4. pc[r] \in 1 .. 20 /\ pc[r] <= Len(Steps(r)) + 1
    BY Zenon DEF HostInv, TypeOK, ResourceInv, PlaceInv
  <1>5. Len(Steps(r)) \in 1 .. 18
    BY <1>1, <1>2, <1>3, Zenon
  <1>6. \A s \in Current(r) : pc[r] <= Len(Steps(r)) /\ s = Steps(r)[pc[r]]
    BY Zenon DEF Current
  <1> QED
    BY <1>2, <1>4, <1>5, <1>6

(* A worker at the end of its list. *)
LEMMA Finished ==
    ASSUME HostInv, NEW r \in Resources, Working(r), Current(r) = {}
    PROVE  /\ pc[r] = Len(Steps(r)) + 1 /\ r \notin bad
           /\ st[r] = "creating" => pc[r] = Len(Creation(r)) + 1
           /\ st[r] = "deleting" => pc[r] = Len(Deletion(r)) + 1
  <1>1. /\ pc[r] \in 1 .. Len(Steps(r)) + 1 /\ Len(Steps(r)) \in 1 .. 18
        /\ st[r] = "creating" => Steps(r) = Creation(r)
        /\ st[r] = "deleting" => Steps(r) = Deletion(r)
    BY Placed, Zenon
  <1>2. ~(pc[r] <= Len(Steps(r)))
    BY Zenon DEF Current
  <1>3. pc[r] = Len(Steps(r)) + 1
    BY <1>1, <1>2
  <1>4. r \notin bad
    <2>1. SUFFICES ASSUME r \in bad PROVE FALSE
      BY Zenon
    <2>2. /\ st[r] = "deleting"
          /\ \E i \in pc[r] .. Len(Deletion(r)) : Deletion(r)[i].kind = "collect"
      BY <2>1, Zenon DEF HostInv, ResourceInv, PlaceInv
    <2>3. PICK i \in pc[r] .. Len(Deletion(r)) : TRUE
      BY <2>2, Zenon
    <2> QED
      BY <1>1, <1>3, <2>2, <2>3
  <1> QED
    BY <1>1, <1>3, <1>4, Zenon

(* The place of the worker of the VPC while it asks. *)
LEMMA AskingPlace ==
    ASSUME HostInv, Asking
    PROVE  /\ Working("vpc") /\ "vpc" \in Resources
           /\ Current("vpc") = {Step(Verb, "hostsvc")}
           /\ CreateVPC = Creation("vpc")
  <1>1. "vpc" \in Resources /\ Working("vpc") /\ CreateVPC = Creation("vpc")
    BY Zenon DEF Asking, Resources, Working, Creation
  <1>2. /\ Len(Steps("vpc")) \in 1 .. 18
        /\ st["vpc"] = "creating" => Steps("vpc") = Creation("vpc")
        /\ st["vpc"] = "deleting" => Steps("vpc") = Deletion("vpc")
    BY <1>1, Placed, Zenon
  <1>3. Builds(Creation("vpc"), "vpc") /\ Unbuilds(Deletion("vpc"), "vpc", Creation("vpc"))
    BY <1>1, Grounded, Zenon DEF Working
  <1>4. CASE st["vpc"] = "creating"
    <2>1. /\ pc["vpc"] = Len(Creation("vpc")) /\ Verb = "open"
          /\ Creation("vpc")[Len(Creation("vpc"))] = Step("open", "hostsvc")
      BY <1>1, <1>3, <1>4, Zenon DEF Asking, Verb, Builds, Leads
    <2> QED
      BY <1>1, <1>2, <1>4, <2>1 DEF Current
  <1>5. CASE st["vpc"] = "deleting"
    <2>1. /\ pc["vpc"] = 1 /\ Verb = "close" /\ Deletion("vpc")[1] = Step("close", "hostsvc")
      BY <1>1, <1>3, <1>5, Zenon DEF Asking, Verb, Unbuilds
    <2> QED
      BY <1>1, <1>2, <1>5, <2>1 DEF Current
  <1> QED
    BY <1>1, <1>4, <1>5, Zenon DEF Asking

(* The invariant without the host service. *)
RecordsOK ==
    /\ has \subseteq Objects /\ plan \in Scenarios
    /\ st \in [Resources -> {"none", "creating", "running", "deleting", "error"}]
    /\ pc \in [Resources -> 1 .. 20]
    /\ \A r \in Resources : st[r] # "none" => r \in plan.uses
    /\ told \in BOOLEAN /\ bad \subseteq Resources
    /\ hurt \subseteq Resources \cup {"dhcp", "unread", "mute", "exit"}
    /\ seen \subseteq Resources /\ late \subseteq Attachments
    /\ faults \in 0 .. MaxFaults

Core == RecordsOK /\ ObjectInv /\ SeenInv /\ QemuInv /\ \A r \in Resources : ResourceInv(r)

(* The invariant without the host service. *)
LEMMA CoreHolds == HostInv => Core
  BY Zenon DEF HostInv, TypeOK, Core, RecordsOK

(* What an object rests on depends on the races alone. *)
LEMMA SupportKept ==
    ASSUME late' = late
    PROVE  \A o : Support(o)' = Support(o)
  BY Zenon DEF Support

(* A step that leaves the host alone keeps what stands on it; one that     *)
(* forgets a race forgets it when nothing is left.                         *)
LEMMA StillObject ==
    ASSUME HostInv, plan' = plan, has' = has,
           \A c \in late \ late' : Own(c) \cap has \subseteq {"lease", "dhcp_unit", "deaf"}
    PROVE  ObjectInv'
  <1>1. ObjectInv
    BY Zenon DEF HostInv
  <1>2. /\ "nat" \in late \ late' => "route_default" \notin has
        /\ "fip" \in late \ late' => "rule_own" \notin has
    <2>1. "route_default" \in Own("nat") /\ "rule_own" \in Own("fip")
      BY Zenon DEF Own
    <2> QED
      BY <2>1
  <1>3. ASSUME NEW o \in has PROVE Support(o)' \subseteq has
    <2>1. Support(o) \subseteq has
      BY <1>1, <1>3, Zenon DEF ObjectInv, Upheld
    <2>2. CASE o = "route_default"
      <3>1. "nat" \in late => "nat" \in late'
        BY <1>2, <1>3, <2>2, Zenon
      <3> QED
        BY <2>1, <2>2, <3>1, Zenon DEF Support
    <2>3. CASE o = "rule_own"
      <3>1. "fip" \in late => "fip" \in late'
        BY <1>2, <1>3, <2>3, Zenon
      <3> QED
        BY <2>1, <2>3, <3>1, Zenon DEF Support
    <2>4. CASE o \notin {"route_default", "rule_own"}
      BY <2>1, <2>4, Zenon DEF Support
    <2> QED
      BY <2>2, <2>3, <2>4, Zenon
  <1>4. Upheld'
    BY <1>3, Zenon DEF Upheld
  <1> QED
    BY <1>1, <1>4, ListsKept, Zenon DEF ObjectInv, Answering

(* A place of a list of at most 18 steps. *)
LEMMA Bounded ==
    ASSUME NEW n \in 1 .. 18, NEW p \in 1 .. n PROVE p <= 18
  OBVIOUS

(* A place that is not past the end, and the places before it. *)
LEMMA Within ==
    ASSUME NEW n \in 1 .. 18, NEW p \in 1 .. 20, p <= n
    PROVE  p \in 1 .. n /\ \A j \in 1 .. p - 1 : j \in 1 .. n /\ j < p
  OBVIOUS

(* A place stays within its bounds. *)
LEMMA PlaceTyped ==
    ASSUME RecordsOK, NEW r \in Resources, pc[r] <= 18
    PROVE  [pc EXCEPT ![r] = @ + 1] \in [Resources -> 1 .. 20]
  <1>1. pc \in [Resources -> 1 .. 20]
    BY Zenon DEF RecordsOK
  <1>2. pc[r] + 1 \in 1 .. 20
    BY <1>1
  <1> QED
    BY <1>1, <1>2, Zenon

-----------------------------------------------------------------------------
(* What a step does to the host *)

(* A worker adds only objects of its resource; a gateway that goes gives   *)
(* the default route back to the VPC.                                      *)
Gains(r) ==
    \A o \in has' \ has : \/ o \in Own(r)
                          \/ o = "qemu" /\ r = "vm" /\ st[r] = "creating"
                          \/ o = "default_vrf" /\ r = "nat"

(* It takes only objects of its resource and of those under it; a gateway  *)
(* takes the default route, and a VM restarts dnsmasq.                     *)
Loses(r) ==
    \A o \in has \ has' : \/ o \in Own(r) \/ \E d \in Below(r) : o \in Own(d)
                          \/ o = "default_vrf" /\ r = "nat"
                          \/ o \in {"deaf", "dhcp_unit"} /\ r = "vm"

(* Whichever way the default route of the VPC goes, it stays. *)
Swaps ==
    st["vpc"] = "creating" /\ {"default_vrf", "default_ng"} \cap has # {} =>
        {"default_vrf", "default_ng"} \cap has' # {}

(* What a gateway or a floating IP that raced its parent makes rests on    *)
(* what it lives on alone.                                                 *)
LEMMA LateSupport ==
    ASSUME NEW r \in Resources, r \in late, late \subseteq Attachments, NEW o \in Own(r)
    PROVE  Support(o) = Base[o]
  <1>1. CASE r = "nat"
    BY <1>1, Zenon DEF Own, Support
  <1>2. CASE r = "fip"
    BY <1>2, Zenon DEF Own, Support
  <1> QED
    BY <1>1, <1>2, Zenon DEF Attachments

(* What a step of a creation does to the host. *)
LEMMA CreateEffect ==
    ASSUME HostInv, plan' = plan, late' = late, NEW r \in Resources, st[r] = "creating",
           pc[r] <= Len(Creation(r)), NEW s, s = Creation(r)[pc[r]],
           OnHost(s), ~Refused(s), has' = Done(s)
    PROVE  /\ has' \subseteq Objects /\ ObjectInv'
           /\ Gains(r) /\ Loses(r)
           /\ s.on \in has' /\ has' \ has \subseteq {s.on, "lease", "sockets"}
           /\ has \ has' \subseteq {"default_vrf", "default_ng"} \ Own(r) /\ Swaps
           /\ s.on = "qemu" => "sockets" \in has' /\ "tap" \in has' /\ "qemu" \notin has
  <1> DEFINE L == Creation(r)
             i == pc[r]
             D == Displaced(s.on)
             B == (has \ D) \cup {s.on} \cup (IF s.on = "qemu" THEN {"sockets"} ELSE {})
  <1>1. /\ Builds(L, r) /\ (r \notin late => Ground(r) \subseteq has) /\ i \in 1 .. Len(L)
        /\ has \subseteq Objects /\ ObjectInv /\ CreateInv(r) /\ late \subseteq Attachments
    <2>1. Builds(L, r) /\ (r \notin late => Ground(r) \subseteq has)
      BY Grounded, Zenon
    <2>2. /\ i \in 1 .. 20 /\ has \subseteq Objects /\ ObjectInv /\ CreateInv(r)
          /\ late \subseteq Attachments
      BY Zenon DEF HostInv, TypeOK, ResourceInv
    <2>3. Len(L) \in 1 .. 18
      BY <2>1, Zenon DEF Builds
    <2> QED
      BY <2>1, <2>2, <2>3, Within, Zenon
  <1>2. /\ s.kind \in {"make", "set"}
        /\ s.on \in Own(r) \/ (r = "vm" /\ s.on = "qemu" /\ s.kind = "make")
        /\ s.on \in Objects \ ({"lease", "deaf", "sockets"} \cup Unplanned)
    BY <1>1, SMTT(30) DEF Builds, Makes, OnHost, Step
  <1>3. ASSUME r \notin late, NEW j \in 1 .. i - 1
        PROVE  L[j].on \in has \cup {"qemu", "default_vrf"}
    <2>1. j \in 1 .. Len(L) /\ j < pc[r]
      BY <1>1
    <2>2. CASE L[j].kind = "load"
      <3>1. L[j].on = "netns" /\ r \in {"nat", "fip"}
        BY <1>1, <2>1, <2>2 DEF Builds, Makes, Step
      <3> QED
        BY <1>1, <1>3, <3>1, Zenon DEF Ground
    <2>3. CASE L[j].kind # "load"
      BY <1>1, <1>3, <2>1, <2>3, Zenon DEF CreateInv
    <2> QED
      BY <2>2, <2>3, Zenon
  <1>4. Support(s.on) \subseteq has
    <2>1. \A o \in Support(s.on) : o \in Ground(r) \/ Earlier(L, i, o)
      BY <1>1, <1>2, Zenon DEF Builds, Supported, OnHost
    <2>2. "qemu" \notin Support(s.on) /\ "default_vrf" \notin Support(s.on)
      BY <1>2, SupportNames, Zenon
    <2>3. CASE r \notin late
      BY <1>1, <1>3, <2>1, <2>2, <2>3, Zenon DEF Earlier
    <2>4. CASE r \in late
      <3>1. s.on \in Own(r)
        BY <1>1, <1>2, <2>4, Zenon DEF Attachments
      <3>2. Support(s.on) = Base[s.on]
        BY <1>1, <2>4, <3>1, LateSupport, Zenon
      <3>3. Needs(s.on) \subseteq has
        BY <1>2, Zenon DEF Refused
      <3> QED
        BY <3>2, <3>3, Zenon DEF Needs
    <2> QED
      BY <2>3, <2>4, Zenon
  <1>5. D \subseteq {"default_vrf", "default_ng"} /\ D \cap Own(r) = {}
        /\ (D # {} => \/ D = {"default_ng"} /\ r = "vpc" /\ s.on = "default_vrf"
                      \/ D = {"default_vrf"} /\ r = "nat" /\ s.on = "default_ng")
    BY <1>2, Zenon DEF Displaced, Own, Resources
  <1>6. \A x \in has \cup {s.on} : Support(x) \cap D = {}
    <2>1. r = "vpc" => "route_default" \notin has \/ "nat" \in late
      <3>1. r = "vpc" => Own("nat") \cap has \subseteq {"lease", "dhcp_unit", "deaf"} \/ "nat" \in late
        BY Alone, Zenon DEF Below, Working
      <3> QED
        BY <3>1 DEF Own
    <2>2. s.on = "default_vrf" => s.on # "route_default"
      BY Zenon
    <2> QED
      BY <1>1, <1>2, <1>5, <2>1, SupportNames
  <1>7. has' = Leased(B)
    BY <1>2, Zenon DEF Done
  <1>8. has' = B \/ (has' = B \cup {"lease"} /\ "dhcp_unit" \in B)
    BY <1>7, Zenon DEF Leased
  <1>9. "lease" \in has' \ has => r = "vm"
    <2>1. SUFFICES ASSUME "lease" \in has' \ has PROVE r = "vm"
      BY Zenon
    <2>2. {"reservation", "dhcp_unit"} \subseteq B /\ "deaf" \notin B
      BY <1>2, <1>7, <2>1, Zenon DEF Leased
    <2>3. "deaf" \notin has
      BY <1>5, <2>2, Zenon
    <2>4. s.on \in {"reservation", "dhcp_unit"}
      BY <1>1, <2>1, <2>2, <2>3, Zenon DEF ObjectInv, Answering
    <2>5. CASE s.on = "reservation"
      BY <1>2, <2>5, Zenon DEF Own, Resources
    <2>6. CASE s.on = "dhcp_unit"
      <3>1. r = "subnet"
        BY <1>2, <2>6, Zenon DEF Own, Resources
      <3>2. Own("vm") \cap has \subseteq {"lease", "dhcp_unit", "deaf"}
        BY <3>1, Alone, ParentsRun, Zenon DEF Below, Working
      <3> QED
        BY <2>2, <2>6, <3>2, Zenon DEF Own
    <2> QED
      BY <2>4, <2>5, <2>6, Zenon
  <1>10. /\ has' \ has \subseteq {s.on, "lease", "sockets"} /\ s.on \in has'
         /\ "sockets" \in has' \ has => s.on = "qemu"
         /\ has \ has' \subseteq D
    BY <1>2, <1>8, Zenon
  <1>11. has' \subseteq Objects /\ has' \cap Unplanned = {}
    <2>1. {"lease", "sockets"} \subseteq Objects \ Unplanned
      <3>1. "lease" \in Objects /\ "sockets" \in Objects
        BY Zenon DEF Objects, Base
      <3>2. "lease" \notin Unplanned /\ "sockets" \notin Unplanned
        BY Zenon DEF Unplanned
      <3> QED
        BY <3>1, <3>2, Zenon
    <2>2. has \cap Unplanned = {}
      BY <1>1, Zenon DEF ObjectInv
    <2> QED
      BY <1>1, <1>2, <1>10, <2>1, <2>2, Zenon
  <1>12. Upheld'
    <2>1. ASSUME NEW x \in has' PROVE Support(x) \subseteq has'
      <3>1. CASE x \in has \cup {s.on}
        <4>1. Support(x) \subseteq has
          BY <1>1, <1>4, <3>1, Zenon DEF ObjectInv, Upheld
        <4> QED
          BY <1>6, <1>10, <3>1, <4>1, Zenon
      <3>2. CASE x = "sockets"
        BY <3>2, Zenon DEF Support, Base
      <3>3. CASE x = "lease" /\ x \notin has
        <4>1. Support("lease") = {"dhcp_unit"}
          BY Zenon DEF Support, Base
        <4>2. "lease" \notin B
          BY <1>2, <3>3, Zenon
        <4> QED
          BY <1>8, <3>3, <4>1, <4>2, <2>1, Zenon
      <3> QED
        BY <2>1, <3>1, <3>2, <3>3, <1>10, Zenon
    <2> QED
      BY <2>1, SupportKept, Zenon DEF Upheld
  <1>13. Answering'
    BY <1>7, Zenon DEF Answering, Leased
  <1>14. ObjectInv'
    BY <1>11, <1>12, <1>13, ListsKept, Zenon DEF ObjectInv
  <1>15. Gains(r)
    <2>1. s.on = "qemu" => r = "vm"
      BY <1>2, OwnFacts, Zenon
    <2>2. {"lease", "sockets"} \subseteq Own("vm")
      BY Zenon DEF Own
    <2> QED
      BY <1>2, <1>9, <1>10, <2>1, <2>2, Zenon DEF Gains
  <1>16. Loses(r)
    BY <1>5, <1>10, Zenon DEF Loses, Own, Below
  <1>17. s.on = "qemu" => "sockets" \in has' /\ "tap" \in has' /\ "qemu" \notin has
    <2>1. s.on = "qemu" => "tap" \in has
      <3>1. s.on = "qemu" => Earlier(L, i, "tap")
        BY <1>1, Zenon DEF Builds, Leads
      <3>2. s.on = "qemu" => r \notin late
        BY <1>2, ParentsRun, OwnFacts, Zenon
      <3> QED
        BY <3>1, <3>2, <1>3, Zenon DEF Earlier
    <2>2. s.on = "qemu" => "qemu" \notin has
      <3>1. s.on = "qemu" => s.kind = "make"
        BY <1>2, Zenon DEF Own, Resources
      <3> QED
        BY <3>1, Zenon DEF Refused
    <2> QED
      BY <1>5, <1>8, <1>10, <2>1, <2>2, Zenon
  <1>18. Swaps
    BY <1>5, <1>10, Zenon DEF Swaps
  <1> QED
    BY <1>5, <1>10, <1>11, <1>14, <1>15, <1>16, <1>17, <1>18, Zenon

(* What a deletion has passed is gone, unless an unread unit or a try left *)
(* it; what was dropped or deleted outright is gone.                       *)
LEMMA PassedGone ==
    ASSUME HostInv, NEW r \in Resources, st[r] = "deleting",
           pc[r] <= Len(Deletion(r)), NEW a, a # "dhcp_unit", Gone(Deletion(r), pc[r], a)
    PROVE  a \notin has
  <1>1. pc[r] \in 1 .. 20 /\ DeleteInv(r)
    BY Zenon DEF HostInv, TypeOK, ResourceInv
  <1>2. Len(Deletion(r)) \in 1 .. 18
    BY Grounded, Zenon DEF Unbuilds
  <1>3. PICK j \in 1 .. pc[r] - 1 : Deletion(r)[j] \in {Step("drop", a), Step("delete", a)}
    BY Zenon DEF Gone
  <1>4. Deletion(r)[j].on = a /\ Removes(Deletion(r)[j]) /\ ~Tried(Deletion(r)[j])
    BY <1>3 DEF Step, Removes, Tried
  <1>5. j \in 1 .. Len(Deletion(r)) /\ j < pc[r]
    BY <1>1, <1>2, <1>3, Within, Zenon
  <1> QED
    BY <1>1, <1>4, <1>5, Zenon DEF DeleteInv

(* What a removal does to the host. *)
LEMMA RemoveEffect ==
    ASSUME HostInv, plan' = plan, late' = late, NEW r \in Resources, st[r] = "deleting",
           pc[r] <= Len(Deletion(r)), NEW s, s = Deletion(r)[pc[r]],
           Removes(s), has' = Done(s)
    PROVE  /\ has' \subseteq Objects /\ ObjectInv'
           /\ Gains(r) /\ Loses(r)
           /\ s.on \notin has' /\ has' \ has \subseteq {"deaf"}
           /\ has \ has' \subseteq Fallen[s.on] /\ Swaps
  <1> DEFINE L == Deletion(r)
             i == pc[r]
             F == Fallen[s.on]
  <1>1. /\ Unbuilds(L, r, Creation(r)) /\ i \in 1 .. Len(L)
        /\ has \subseteq Objects /\ ObjectInv /\ late \subseteq Attachments
    <2>1. Unbuilds(L, r, Creation(r))
      BY Grounded, Zenon
    <2>2. i \in 1 .. 20 /\ has \subseteq Objects /\ ObjectInv /\ late \subseteq Attachments
      BY Zenon DEF HostInv, TypeOK
    <2>3. Len(L) \in 1 .. 18
      BY <2>1, Zenon DEF Unbuilds
    <2> QED
      BY <2>1, <2>2, <2>3, Within, Zenon
  <1>2. /\ s.on \in Own(r) \ {"lease", "deaf", "default_vrf", "default_ng"}
        /\ s.on \in Objects /\ s.on # "qemu"
    BY <1>1, OwnFacts, Zenon DEF Unbuilds, Unmakes
  <1>3. /\ s.on \in F /\ F \subseteq Objects
        /\ \A o \in Objects : Base[o] \cap F # {} => o \in F
        /\ s.on # "dhcp_unit" => F \cap {"dhcp_unit", "lease", "deaf"} = {}
        /\ s.on = "dhcp_unit" => F = {"dhcp_unit", "lease", "deaf"}
        /\ s.on = "dhcp_conf" => F = {"dhcp_conf"}
    <2>1. "dhcp_conf" \in Objects \ Floors
      BY Zenon DEF Objects, Base, Floors
    <2> QED
      BY <1>2, <2>1, FallenClosed, DhcpAlone, FallenFacts, Zenon
  <1>4. \/ has' = has \ F /\ s.on # "dhcp_conf"
        \/ has' = has \ F /\ s.on = "dhcp_conf" /\ "dhcp_unit" \notin has
        \/ has' = (has \ F) \cup {"deaf"} /\ s.on = "dhcp_conf" /\ "dhcp_unit" \in has'
    BY <1>3, Zenon DEF Done, Removes, Deafened
  <1>5. /\ s.on \notin has' /\ has' \ has \subseteq {"deaf"} /\ has \ has' \subseteq F
        /\ "deaf" \in has' \ has => s.on = "dhcp_conf" /\ "dhcp_unit" \in has'
        /\ (has' \ {"deaf"}) \cap F = {}
    BY <1>2, <1>3, <1>4, Zenon
  <1>6. \A a \in Users(s.on) : a \notin has
    <2>1. \A a \in Users(s.on) : a \in Unplanned \/ Gone(L, i, a)
      BY <1>1, Zenon DEF Unbuilds, Clears
    <2>2. "dhcp_unit" \notin Users(s.on)
      BY Zenon DEF Users
    <2>3. has \cap Unplanned = {}
      BY <1>1, Zenon DEF ObjectInv
    <2> QED
      BY <2>1, <2>2, <2>3, PassedGone, Zenon
  <1>7. Upheld'
    <2>1. ASSUME NEW a \in has' PROVE Support(a) \subseteq has'
      <3>1. CASE a \notin has
        <4>1. a = "deaf" /\ Support("deaf") = {"dhcp_unit"}
          BY <1>5, <2>1, <3>1, Zenon DEF Support, Base
        <4> QED
          BY <1>5, <3>1, <4>1, Zenon
      <3>2. CASE a \in has
        <4>1. a \in Objects /\ Support(a) \subseteq has
          BY <1>1, <3>2, Zenon DEF ObjectInv, Upheld
        <4>2. ASSUME NEW y \in Support(a), y \in F
              PROVE  FALSE
          <5>1. a \notin F
            <6>1. CASE a = "deaf"
              <7>1. y = "dhcp_unit"
                BY <4>2, <6>1, Zenon DEF Support, Base
              <7>2. s.on = "dhcp_unit"
                BY <4>2, <7>1, <1>3, Zenon
              <7> QED
                BY <1>3, <1>4, <2>1, <6>1, <7>2, Zenon
            <6>2. CASE a # "deaf"
              BY <1>5, <2>1, <6>2, Zenon
            <6> QED
              BY <6>1, <6>2, Zenon
          <5>2. a \notin {"lease", "deaf", "dhcp_unit"}
            <6>1. Support(a) = Base[a] \/ a \notin {"lease", "deaf", "dhcp_unit"}
              BY Zenon DEF Support
            <6>2. Base["lease"] = {"dhcp_unit"} /\ Base["deaf"] = {"dhcp_unit"} /\ Base["dhcp_unit"] = {}
              BY Zenon DEF Base
            <6>3. ASSUME a \in {"lease", "deaf", "dhcp_unit"} PROVE FALSE
              <7>1. y \in Base[a]
                BY <4>2, <6>1, <6>3, Zenon
              <7>2. y = "dhcp_unit"
                BY <6>2, <6>3, <7>1
              <7>3. F = {"dhcp_unit", "lease", "deaf"}
                BY <1>3, <4>2, <7>2, Zenon
              <7> QED
                BY <5>1, <6>3, <7>3, Zenon
            <6> QED
              BY <6>3, Zenon
          <5>3. a \in Users(s.on) \/ \E d \in Below(r) : a \in Own(d)
            BY <1>2, <4>1, <4>2, <5>1, Resting, Zenon
          <5>4. ASSUME NEW d \in Below(r), a \in Own(d) PROVE FALSE
            <6>1. d \in Resources /\ (d \notin late => a \notin has)
              BY <5>2, <5>4, Alone, Zenon DEF Working
            <6>2. d \in late
              BY <3>2, <6>1, Zenon
            <6>3. Support(a) = Base[a]
              BY <1>1, <5>4, <6>1, <6>2, LateSupport, Zenon
            <6> QED
              BY <1>3, <4>1, <4>2, <5>1, <6>3, Zenon
          <5> QED
            BY <1>6, <3>2, <5>3, <5>4, Zenon
        <4>3. Support(a) \subseteq has \ F
          BY <4>1, <4>2, Zenon
        <4> QED
          BY <1>4, <4>3, Zenon
      <3> QED
        BY <3>1, <3>2, Zenon
    <2> QED
      BY <2>1, SupportKept, Zenon DEF Upheld
  <1>8. Answering'
    BY <1>1, <1>3, <1>4, Zenon DEF ObjectInv, Answering
  <1>9. "deaf" \in Objects \ Unplanned
    BY Zenon DEF Objects, Base, Unplanned
  <1>10. has' \subseteq Objects /\ has' \cap Unplanned = {}
    <2>1. has \cap Unplanned = {}
      BY <1>1, Zenon DEF ObjectInv
    <2> QED
      BY <1>1, <1>5, <1>9, <2>1, Zenon
  <1>11. ObjectInv'
    BY <1>7, <1>8, <1>10, ListsKept, Zenon DEF ObjectInv
  <1>12. Gains(r)
    <2>1. s.on = "dhcp_conf" => r = "subnet"
      BY <1>2, Zenon DEF Own, Resources
    <2>2. "deaf" \in Own("subnet")
      BY Zenon DEF Own
    <2> QED
      BY <1>5, <2>1, <2>2, Zenon DEF Gains
  <1>13. Loses(r)
    BY <1>2, <1>5, FallsBelow, Zenon DEF Loses
  <1>14. Swaps
    <2> SUFFICES ASSUME st["vpc"] = "creating",
                        NEW o \in {"default_vrf", "default_ng"}, o \in has \ has'
                 PROVE  FALSE
      BY Zenon DEF Swaps
    <2>1. r # "vpc" /\ o \in F
      BY <1>5, Zenon
    <2>2. r = "nat" /\ o = "default_ng"
      <3>1. o \in Own(r) \/ \E d \in Below(r) : o \in Own(d)
        BY <1>2, <2>1, FallsBelow, Zenon
      <3> QED
        BY <2>1, <3>1, Zenon DEF Own, Below, Resources
    <2>3. s.on = "ng"
      BY <1>2, <2>1, <2>2, FallenFacts DEF Own, Floors
    <2>4. PICK j \in 1 .. i - 1 : L[j].kind = "set"
      BY <1>1, <2>3, Zenon DEF Unbuilds, Clears
    <2>5. j \in 1 .. Len(L) /\ j < pc[r]
      BY <1>1, <2>4
    <2>6. DeleteInv(r)
      BY Zenon DEF HostInv, ResourceInv
    <2> QED
      BY <2>2, <2>4, <2>5, <2>6, Zenon DEF DeleteInv
  <1> QED
    BY <1>5, <1>10, <1>11, <1>12, <1>13, <1>14, Zenon

(* dnsmasq, restarted, answers no more for the VM that is going; if it     *)
(* does not come up again, for nobody.                                     *)
LEMMA RestartEffect ==
    ASSUME HostInv, plan' = plan, late' = late, NEW r \in Resources, st[r] = "deleting",
           pc[r] <= Len(Deletion(r)), NEW s, s = Deletion(r)[pc[r]], s.kind = "restart",
           has' = Done(s) \/ has' = has \ Fallen[s.on]
    PROVE  /\ has' \subseteq Objects /\ ObjectInv'
           /\ Gains(r) /\ Loses(r)
           /\ r = "vm" /\ has' \subseteq has \ {"lease"}
           /\ has \ has' \subseteq {"lease", "deaf", "dhcp_unit"}
           /\ has' = Done(s) => has \ has' \subseteq {"lease", "deaf"}
           /\ Swaps
  <1> DEFINE L == Deletion(r)
             i == pc[r]
  <1>1. /\ Unbuilds(L, r, Creation(r)) /\ i \in 1 .. Len(L)
        /\ has \subseteq Objects /\ ObjectInv
    <2>1. Unbuilds(L, r, Creation(r))
      BY Grounded, Zenon
    <2>2. i \in 1 .. 20 /\ has \subseteq Objects /\ ObjectInv
      BY Zenon DEF HostInv, TypeOK
    <2>3. Len(L) \in 1 .. 18
      BY <2>1, Zenon DEF Unbuilds
    <2> QED
      BY <2>1, <2>2, <2>3, Within, Zenon
  <1>2. r = "vm" /\ s.on = "dhcp_unit"
    BY <1>1, SMTT(30) DEF Unbuilds, Unmakes, Removes, Step
  <1>3. "reservation" \notin has
    <2>1. Gone(L, i, "reservation")
      BY <1>1, Zenon DEF Unbuilds, Clears
    <2> QED
      BY <2>1, PassedGone, Zenon
  <1>4. Done(s) = has \ {"lease", "deaf"}
    BY <1>3, Zenon DEF Done, Leased
  <1>5. has' = has \ {"lease", "deaf"} \/ has' = has \ {"lease", "deaf", "dhcp_unit"}
    BY <1>2, <1>4, FallenFacts, Zenon
  <1>6. Upheld'
    <2>1. ASSUME NEW a \in has' PROVE Support(a) \subseteq has'
      <3>1. a \in Objects /\ a \in has /\ a \notin {"lease", "deaf"} /\ Support(a) \subseteq has
        BY <1>1, <1>5, <2>1, Zenon DEF ObjectInv, Upheld
      <3>2. Support(a) \cap {"lease", "deaf", "dhcp_unit"} = {}
        BY <3>1, SupportNames, Zenon
      <3> QED
        BY <1>5, <3>1, <3>2, Zenon
    <2> QED
      BY <2>1, SupportKept, Zenon DEF Upheld
  <1>7. Answering'
    BY <1>3, <1>5, Zenon DEF Answering
  <1>8. has' \cap Unplanned = {}
    BY <1>1, <1>5, Zenon DEF ObjectInv
  <1>9. ObjectInv'
    BY <1>6, <1>7, <1>8, ListsKept, Zenon DEF ObjectInv
  <1>10. Gains(r)
    BY <1>5, Zenon DEF Gains
  <1>11. Loses(r)
    <2>1. "lease" \in Own("vm")
      BY Zenon DEF Own
    <2> QED
      BY <1>2, <1>5, <2>1, Zenon DEF Loses
  <1>12. Swaps
    BY <1>5, Zenon DEF Swaps
  <1> QED
    BY <1>1, <1>2, <1>4, <1>5, <1>9, <1>10, <1>11, <1>12, Zenon

(* A gateway that goes gives the default route back to the VPC. *)
LEMMA ReturnEffect ==
    ASSUME HostInv, plan' = plan, late' = late, NEW r \in Resources, st[r] = "deleting",
           pc[r] <= Len(Deletion(r)), NEW s, s = Deletion(r)[pc[r]], s.kind = "set",
           ~Refused(s), has' = Done(s)
    PROVE  /\ has' \subseteq Objects /\ ObjectInv'
           /\ Gains(r) /\ Loses(r)
           /\ r = "nat" /\ has' \subseteq has \cup {"default_vrf"}
           /\ has \ has' \subseteq {"default_ng"} /\ "default_ng" \notin has' /\ Swaps
  <1> DEFINE L == Deletion(r)
             i == pc[r]
             B == (has \ {"default_ng"}) \cup {"default_vrf"}
  <1>1. /\ Unbuilds(L, r, Creation(r)) /\ i \in 1 .. Len(L)
        /\ has \subseteq Objects /\ ObjectInv /\ late \subseteq Attachments
    <2>1. Unbuilds(L, r, Creation(r))
      BY Grounded, Zenon
    <2>2. i \in 1 .. 20 /\ has \subseteq Objects /\ ObjectInv /\ late \subseteq Attachments
      BY Zenon DEF HostInv, TypeOK
    <2>3. Len(L) \in 1 .. 18
      BY <2>1, Zenon DEF Unbuilds
    <2> QED
      BY <2>1, <2>2, <2>3, Within, Zenon
  <1>2. r = "nat" /\ s.on = "default_vrf"
    BY <1>1, SMTT(30) DEF Unbuilds, Unmakes, Removes, Step
  <1>3. "route_default" \notin has
    <2>1. "route_default" \in Users("default_ng")
      BY Zenon DEF Users
    <2>2. Gone(L, i, "route_default")
      BY <1>1, <2>1, Zenon DEF Unbuilds, Clears
    <2> QED
      BY <2>2, PassedGone, Zenon
  <1>4. plan.routed
    BY <1>2, Grounded, ScenariosAssumption, Zenon
  <1>5. "l3" \in has
    <2>1. Needs("default_vrf") \subseteq has
      BY <1>2, Zenon DEF Refused
    <2> QED
      BY <2>1 DEF Needs, Base
  <1>6. has' = B
    <2>1. Done(s) = Leased(B)
      BY <1>2, Zenon DEF Done, Displaced
    <2>2. Leased(B) = B
      BY <1>1, Zenon DEF Leased, ObjectInv, Answering
    <2> QED
      BY <2>1, <2>2, Zenon
  <1>7. Upheld'
    <2>1. ASSUME NEW a \in has' PROVE Support(a) \subseteq has'
      <3>1. CASE a = "default_vrf"
        <4>1. Support("default_vrf") = {"l3"}
          BY Zenon DEF Support, Base
        <4> QED
          BY <1>5, <1>6, <3>1, <4>1, Zenon
      <3>2. CASE a # "default_vrf"
        <4>1. a \in Objects /\ a \in has /\ a # "route_default" /\ Support(a) \subseteq has
          BY <1>1, <1>3, <1>6, <2>1, <3>2, Zenon DEF ObjectInv, Upheld
        <4>2. "default_ng" \notin Support(a)
          BY <4>1, SupportNames, Zenon
        <4> QED
          BY <1>6, <4>1, <4>2, Zenon
      <3> QED
        BY <3>1, <3>2, Zenon
    <2> QED
      BY <2>1, SupportKept, Zenon DEF Upheld
  <1>8. Answering'
    BY <1>1, <1>6, Zenon DEF ObjectInv, Answering
  <1>9. "default_vrf" \in Objects \ Unplanned
    BY <1>4, Zenon DEF Objects, Base, Unplanned, Exports
  <1>10. has' \subseteq Objects /\ has' \cap Unplanned = {}
    BY <1>1, <1>6, <1>9, Zenon DEF ObjectInv
  <1>11. ObjectInv'
    BY <1>7, <1>8, <1>10, ListsKept, Zenon DEF ObjectInv
  <1>12. Gains(r)
    BY <1>2, <1>6, Zenon DEF Gains
  <1>13. Loses(r)
    <2>1. "default_ng" \in Own("nat")
      BY Zenon DEF Own
    <2> QED
      BY <1>2, <1>6, <2>1, Zenon DEF Loses
  <1>14. Swaps
    BY <1>6, Zenon DEF Swaps
  <1> QED
    BY <1>2, <1>6, <1>10, <1>11, <1>12, <1>13, <1>14, Zenon

=============================================================================

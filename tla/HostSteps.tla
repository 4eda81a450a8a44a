----------------------------- MODULE HostSteps -----------------------------
(***************************************************************************)
(* The steps by which the agent builds and removes, on its host, a VPC     *)
(* (internal/vpc, l3vni, frr), a subnet (internal/subnet, with the dnsmasq *)
(* backend of internal/dhcpbackend), a virtual machine (internal/vm), a    *)
(* NAT gateway (internal/natgw) and a floating IP (internal/fip), each     *)
(* named for the function that runs them.                                  *)
(***************************************************************************)
EXTENDS HostSvc

VARIABLE plan    \* what is built: [routed, mode, uses, steady, spent]

When(c, steps) == IF c THEN steps ELSE <<>>

One(kind, o) == <<Step(kind, o)>>

-----------------------------------------------------------------------------
(* Building blocks: links, filters, redirections, routes *)

CreateVethToNetns(o) == One("make", o)

CreateBridge(o) == One("make", o)

CreateVxlan(o) == One("make", o)

CreateVRF == One("make", "vrf")

CreateDummy == One("make", "hostsvc")

CreateMacvlan(o) == One("make", o)

DeleteLink(o) == One("delete", o)

DeleteLinkIfExists(o) == One("drop", o)

SetPort(o) == One("set", o)

DeletePort(o) == One("drop", o)

BridgeSetLocalMAC(o) == One("set", o)

BridgeDelLocalMAC(o) == One("drop", o)

BridgeAddLocalMAC(o) == One("make", o)

RouteReplaceVia(o) == One("set", o)

RouteReplaceUnreachableDefault == One("set", "unreachable")

RouteDelUnreachableDefault == One("drop", "unreachable")

RuleAdd(o) == One("make", o)

RuleDel(o) == One("drop", o)

(* A VPC without L3VNI announces nothing, nor does a bridged subnet. *)
Exports == plan.routed /\ plan.mode = "vxlan"

exportRoute(o) == When(Exports, One("set", o))

withdrawRoute(o) == When(Exports, One("drop", o))

-----------------------------------------------------------------------------
(* VPC *)

ApplyVRF == <<Step("set", "route_map"), Step("set", "frr_vrf"), Step("set", "vni"),
              Step("set", "bgp")>>

(* FRR lets go of the VRF before the kernel does, and of its name after.  *)
(* Each line is removed only if the running configuration has it.         *)
WithdrawVRF == <<Step("drop", "vni"), Step("drop", "bgp"), Step("drop", "route_map")>>

RemoveVRF == One("drop", "frr_vrf")

createL3 ==
    CreateVRF \o RouteReplaceUnreachableDefault \o CreateBridge("brl3")
    \o CreateVxlan("vxl3") \o CreateVethToNetns("l3") \o RouteReplaceVia("default_vrf")
    \o ApplyVRF

deleteL3Links ==
    DeleteLinkIfExists("l3") \o DeleteLinkIfExists("vxl3") \o DeleteLinkIfExists("brl3")
    \o DeleteLinkIfExists("vrf") \o RouteDelUnreachableDefault

(* Faulty variant: FRR loses the VRF before it lets go of it. *)
deleteL3FRRLast == deleteL3Links \o WithdrawVRF \o RemoveVRF

deleteL3 == WithdrawVRF \o deleteL3Links \o RemoveVRF

SetHostSvcRedirect == One("set", "svc_redirect")

setupHostSvc == CreateDummy \o SetHostSvcRedirect \o One("open", "hostsvc")

teardownHostSvc == One("close", "hostsvc")

createNetns == One("set", "netns")

deleteNetns == One("delete", "netns")

guardPublicBridge == One("set", "guard")

CreateVPC ==
    createNetns \o CreateVethToNetns("vp") \o CreateBridge("br_public")
    \o guardPublicBridge \o When(plan.routed, createL3) \o setupHostSvc

DeleteVPC ==
    teardownHostSvc \o When(plan.routed, deleteL3)
    \o DeleteLink("vp") \o deleteNetns

-----------------------------------------------------------------------------
(* Subnet, with the dnsmasq backend *)

ConfigureSubnet == <<Step("set", "dhcp_conf"), Step("set", "dhcp_unit")>>

TeardownSubnet == <<Step("drop", "dhcp_unit"), Step("drop", "dhcp_conf")>>

SetVM == One("set", "reservation")

(* Faulty variant: dnsmasq is not restarted. *)
DelVMUnread == One("drop", "reservation")

(* The unit is restarted so as to forget the reservation. *)
DelVM == <<Step("drop", "reservation"), Step("restart", "dhcp_unit")>>

setupVxlanHost == CreateBridge("host_bridge") \o CreateVxlan("vxlan")

setupAnycastGateway == SetPort("port") \o CreateMacvlan("gw") \o BridgeAddLocalMAC("gw_fdb")

(* The three removals are all tried; their errors come back together. *)
deleteAnycastGateway ==
    <<Step("try_drop", "port"), Step("try_delete", "gw"),
      Step("try_delete", "bridge"), Step("collect", "bridge")>>

createSubnet ==
    CreateVethToNetns("veth") \o When(plan.mode = "vxlan", setupVxlanHost)
    \o CreateBridge("bridge")
    \o (IF plan.mode = "vxlan" THEN setupAnycastGateway ELSE SetPort("port"))
    \o ConfigureSubnet

(* Faulty variant: the prefix is not announced. *)
CreateSubnetUnexported == createSubnet

CreateSubnet == createSubnet \o exportRoute("route_subnet")

deleteSubnetVxlan ==
    deleteAnycastGateway \o DeleteLink("vxlan") \o DeleteLink("veth") \o DeleteLink("host_bridge")

deleteSubnetBridge == DeletePort("port") \o DeleteLink("bridge") \o DeleteLink("veth")

DeleteSubnet ==
    withdrawRoute("route_subnet") \o TeardownSubnet
    \o (IF plan.mode = "vxlan" THEN deleteSubnetVxlan ELSE deleteSubnetBridge)

-----------------------------------------------------------------------------
(* Virtual machine, with one interface *)

CreateTap == One("make", "tap")

DeleteTap == DeleteLink("tap")

SetMetadataRedirect == One("set", "redirect")

DeleteMetadataRedirect == One("drop", "redirect")

StartMetadata == <<Step("set", "nocloud"), Step("set", "metadata")>>

StopMetadata == <<Step("drop", "metadata"), Step("drop", "nocloud")>>

startQEMU == One("make", "qemu")

removeQEMUSockets == One("drop", "sockets")

StartVM ==
    SetPort("tap_port") \o CreateTap \o SetMetadataRedirect \o SetVM
    \o StartMetadata \o startQEMU \o exportRoute("route_vm")

StopVM ==
    withdrawRoute("route_vm") \o One("halt", "qemu") \o removeQEMUSockets
    \o DeleteMetadataRedirect \o StopMetadata \o DeleteTap
    \o DeletePort("tap_port") \o DelVM

-----------------------------------------------------------------------------
(* NAT gateway and floating IP *)

SetNATGateway == One("set", "nat")

DeleteNATGateway == One("drop", "nat")

exportDefault == One("set", "route_default")

withdrawDefault == One("drop", "route_default")

netnsDefaultToVRF == One("set", "default_vrf")

(* The namespace to work in is found through the record of the parent. *)
load == One("load", "netns")

CreateNAT ==
    load \o CreateMacvlan("ng") \o BridgeSetLocalMAC("ng_fdb") \o RouteReplaceVia("default_ng")
    \o SetNATGateway \o exportDefault

(* Faulty variant: the announcement is withdrawn last. *)
RemoveNATWithdrawLast ==
    load \o DeleteNATGateway \o netnsDefaultToVRF \o BridgeDelLocalMAC("ng_fdb")
    \o DeleteLinkIfExists("ng") \o withdrawDefault

RemoveNAT ==
    load \o withdrawDefault \o DeleteNATGateway \o netnsDefaultToVRF
    \o BridgeDelLocalMAC("ng_fdb") \o DeleteLinkIfExists("ng")

SetFloatingIP == One("set", "fip_nat")

DeleteFloatingIP == One("drop", "fip_nat")

TableDefaultVia == One("set", "fip_table")

Resolve == One("load", "netns")

CreateFIP ==
    Resolve \o CreateMacvlan("fip") \o BridgeSetLocalMAC("fip_fdb") \o SetFloatingIP
    \o TableDefaultVia \o RuleAdd("rule_main") \o RuleAdd("rule_own")

RemoveFIP ==
    Resolve \o RuleDel("rule_own") \o RuleDel("rule_main") \o DeleteFloatingIP
    \o BridgeDelLocalMAC("fip_fdb") \o DeleteLinkIfExists("fip")

-----------------------------------------------------------------------------
(* What the watchdog's checks look for on the host of a running resource *)

checkVPC == {"netns", "vp", "br_public"}

checkL3VPC == IF plan.routed THEN {"vrf", "brl3", "vxl3", "l3", "vni", "unreachable"} ELSE {}

checkHostSvc == {"hostsvc", "svc_redirect"}

(* The routes that running subnets, machines and gateways are to export. *)
expectedExports(r) ==
    CASE r = "subnet" /\ Exports -> {"route_subnet"}
      [] r = "vm" /\ Exports -> {"route_vm"}
      [] r = "nat" -> {"route_default"}
      [] OTHER -> {}

checkAnycastGateway == {"gw", "gw_fdb"}

checkBridgeGateway == {"port"}

checkDHCP == {"dhcp_conf", "dhcp_unit"}

checkSubnet == {"veth", "bridge"} \cup checkDHCP
               \cup (IF plan.mode = "vxlan"
                     THEN {"host_bridge", "vxlan"} \cup checkAnycastGateway
                     ELSE checkBridgeGateway)

(* QEMU answers on its socket; its scope lives as long as it does. *)
checkVMQemu == {"qemu", "sockets"}

checkVM == {"tap", "tap_port", "metadata"} \cup checkVMQemu
=============================================================================

----------------------------- MODULE DhcpSubnet -----------------------------
(***************************************************************************)
(* One subnet and its VMs as the agent drives them on their DHCP server    *)
(* (dhcpbackend.Two), with the watchdog's comparison of what is served and *)
(* what the database says.                                                 *)
(*                                                                         *)
(* The commands on the subnet and on each VM run in workers of their own.  *)
(* What their Prepare has read may be stale: a request is accepted here    *)
(* whatever the state of the others, and only what Execute reads again     *)
(* (the state of the parent, or that of the children) holds a command      *)
(* back.  Whatever a command does beside DHCP may fail and send the        *)
(* resource to error.                                                      *)
(***************************************************************************)
EXTENDS DhcpServer

CONSTANTS VMs,    \* virtual machines with interfaces on the subnet
          Nics,   \* [VMs -> the MAC addresses of its interfaces, in order]
          Net     \* the subnet, as a client of the server

ASSUME SubnetAssumption == Clients = VMs \cup {Net} /\ Net \notin VMs

(* startVM refuses a VM without interfaces and an interface without a MAC. *)
(* That no two interfaces have the same one is for the client to see to:   *)
(* the server keeps one reservation for each, and the watchdog calls a     *)
(* state with the same MAC twice an error.                                 *)
ASSUME NicsAssumption ==
    /\ DOMAIN Nics = VMs
    /\ \A v \in VMs : Nics[v] \in Seq(Macs) /\ Nics[v] # <<>>
    /\ \A v, w \in VMs : \A i \in 1..Len(Nics[v]), j \in 1..Len(Nics[w]) :
          Nics[v][i] = Nics[w][j] => v = w /\ i = j

VARIABLES
    st,      \* [subnet or VM -> its state; "absent" without a record]
    cfg,     \* what the record of the subnet says
    want,    \* [VMs -> what the record of the VM says]
    job,     \* [subnet or VM -> where its command is]
    redo,    \* is a deployment about to start the unit again?
    watch,   \* the watchdog's check
    calm,    \* VMs no request has touched since the check began
    steady   \* VMs that have been running since the request in read came

agentVars == <<st, cfg, want, job, redo>>
vars == <<serverVars, agentVars, watch, calm, steady>>

Idle == [pc |-> "idle", nic |-> 0]
Quiet == [pc |-> "idle", served |-> Empty.hosts, todo |-> {}, expected |-> {}, transient |-> {}]

Init == /\ ServerInit
        /\ st = [c \in Clients |-> "absent"]
        /\ cfg \in Configs /\ want \in [VMs -> Hosts]
        /\ job = [c \in Clients |-> Idle]
        /\ redo = FALSE /\ watch = Quiet /\ calm = {} /\ steady = {}

-----------------------------------------------------------------------------
Goto(c, pc) == job' = [job EXCEPT ![c].pc = pc]

(* A change of the state of a VM: the watchdog and the reader of a reply   *)
(* may have seen the one before.                                           *)
Become(c, s) == /\ st' = [st EXCEPT ![c] = s]
                /\ calm' = calm \ {c}
                /\ steady' = steady \ {c}

(* The end of a command, and the marking of a failed one by Dispatch. *)
Finish(c, s) == Become(c, s) /\ job' = [job EXCEPT ![c] = Idle]
Fail(c) == Finish(c, "error") /\ UNCHANGED <<serverVars, cfg, want, redo, watch>>

Step(c, pc) == Goto(c, pc) /\ UNCHANGED <<serverVars, st, cfg, want, redo, watch, calm, steady>>

(* A step of the server on behalf of a command. *)
Drive(c, pc) == Goto(c, pc) /\ UNCHANGED <<st, cfg, want, redo, watch, calm, steady>>

Create(c) ==
    /\ st[c] = "absent"
    /\ IF c = Net THEN cfg' \in Configs /\ UNCHANGED want
       ELSE (\E h \in Hosts : want' = [want EXCEPT ![c] = h]) /\ UNCHANGED cfg
    /\ Become(c, "creating")
    /\ job' = [job EXCEPT ![c].pc = IF c = Net THEN "unfile" ELSE "parent"]
    /\ UNCHANGED <<serverVars, redo, watch>>

Delete(c) ==
    /\ st[c] \in {"running", "error"}
    /\ Become(c, "deleting")
    /\ job' = [job EXCEPT ![c].pc = IF c = Net THEN "children" ELSE "del", ![c].nic = 1]
    /\ UNCHANGED <<serverVars, cfg, want, redo, watch>>

-----------------------------------------------------------------------------
(* CreateSubnet: ConfigureSubnet *)

ConfigureUnfile == job[Net].pc = "unfile" /\ RemoveState /\ Drive(Net, "start")

(* A start that failed or timed out may have started the unit. *)
ConfigureStart == /\ job[Net].pc = "start"
                  /\ Launch
                  /\ \E pc \in {"ready", "fail"} : Drive(Net, pc)

(* GetState answers, or the deadline passes. *)
waitReady == /\ job[Net].pc = "ready"
             /\ \/ socket /\ old = None /\ Step(Net, "push")
                \/ Step(Net, "fail")

pushSubnet == /\ job[Net].pc = "push"
              /\ Call(Net, [op |-> "set-subnet", subnet |-> cfg])
              /\ Drive(Net, "pushed")

CreateEnd(c, pc) == /\ job[c].pc = pc
                    /\ Finish(c, "running")
                    /\ UNCHANGED <<cfg, want, redo, watch>>

Pushed == \/ Resume(Net, "ok") /\ CreateEnd(Net, "pushed")
          \/ Resume(Net, "failed") /\ job[Net].pc = "pushed" /\ Drive(Net, "fail")

-----------------------------------------------------------------------------
(* DeleteSubnet: the wait for the VMs, then TeardownSubnet *)

waitVMsDeleted ==
    /\ job[Net].pc = "children"
    /\ \/ (\A v \in VMs : st[v] = "absent") /\ Step(Net, "status")
       \/ (\E v \in VMs : st[v] # "absent") /\ Step(Net, "fail")

(* A status that cannot be read counts as not active. *)
TeardownStatus == /\ job[Net].pc = "status"
                  /\ \/ Step(Net, "unstate")
                     \/ proc # "down" /\ Step(Net, "stop")

(* A stop that timed out may still come to its end. *)
TeardownStop == /\ job[Net].pc = "stop"
                /\ \/ Down /\ \E pc \in {"unstate", "fail"} : Drive(Net, pc)
                   \/ Step(Net, "fail")

TeardownState  == job[Net].pc = "unstate" /\ RemoveState /\ Drive(Net, "unsocket")
TeardownSocket == job[Net].pc = "unsocket" /\ RemoveSocket /\ Drive(Net, "links")

(* The links go, and with them the record. *)
DeleteEnd(c, pc) == /\ job[c].pc = pc
                    /\ Finish(c, "absent")
                    /\ UNCHANGED <<serverVars, cfg, want, redo, watch>>

-----------------------------------------------------------------------------
(* StartVM and StopVM: SetVM and DelVM go through the interfaces *)

waitSubnet(v) == /\ job[v].pc = "parent"
                 /\ IF st[Net] = "running"
                    THEN /\ job' = [job EXCEPT ![v] = [pc |-> "set", nic |-> 1]]
                         /\ UNCHANGED <<serverVars, st, cfg, want, redo, watch, calm, steady>>
                    ELSE Step(v, "fail")

Mac(v) == Nics[v][job[v].nic]

SetVM(v) == /\ job[v].pc = "set"
            /\ Call(v, [op |-> "set-host", mac |-> Mac(v), host |-> want[v]])
            /\ Drive(v, "setting")

DelVM(v) == /\ job[v].pc = "del"
            /\ Call(v, [op |-> "del-host", mac |-> Mac(v)])
            /\ Drive(v, "deling")

(* Faulty variant: an order that failed is passed over. *)
NextNicUnchecked(v, pc, again, done) ==
    /\ job[v].pc = pc
    /\ \E a \in {"ok", "failed"} : Resume(v, a)
    /\ job' = [job EXCEPT ![v] = IF job[v].nic < Len(Nics[v])
                                 THEN [pc |-> again, nic |-> job[v].nic + 1]
                                 ELSE [pc |-> done, nic |-> 1]]
    /\ UNCHANGED <<st, cfg, want, redo, watch, calm, steady>>

(* The next interface once the order is acknowledged; the first failure    *)
(* ends the command.                                                       *)
NextNic(v, pc, again, done) ==
    /\ job[v].pc = pc
    /\ \/ /\ Resume(v, "ok")
          /\ job' = [job EXCEPT ![v] = IF job[v].nic < Len(Nics[v])
                                       THEN [pc |-> again, nic |-> job[v].nic + 1]
                                       ELSE [pc |-> done, nic |-> 1]]
       \/ Resume(v, "failed") /\ Goto(v, "fail")
    /\ UNCHANGED <<st, cfg, want, redo, watch, calm, steady>>

StartEnd(v) == CreateEnd(v, "started") /\ UNCHANGED serverVars

(* A command fails at any of its host operations. *)
HostFails(c) == job[c].pc \in {"links", "started"} /\ Step(c, "fail")
MarkError(c) == job[c].pc = "fail" /\ Fail(c)

CallFails(c) == /\ GiveUp(c)
                /\ UNCHANGED <<agentVars, watch, calm, steady>>

SubnetStep == \/ ConfigureUnfile \/ ConfigureStart \/ waitReady \/ pushSubnet \/ Pushed
              \/ waitVMsDeleted \/ TeardownStatus \/ TeardownStop
              \/ TeardownState \/ TeardownSocket \/ DeleteEnd(Net, "links")

VMStep(v) == \/ waitSubnet(v) \/ SetVM(v) \/ DelVM(v)
             \/ NextNic(v, "setting", "set", "started")
             \/ NextNic(v, "deling", "del", "links")
             \/ StartEnd(v) \/ DeleteEnd(v, "links")

(* The agent stops at any point and starts again. *)
AgentRestart ==
    /\ st' = [c \in Clients |-> IF st[c] \in {"creating", "deleting"} THEN "error" ELSE st[c]]
    /\ job' = [c \in Clients |-> Idle]
    /\ answer' = [c \in Clients |-> "idle"]
    /\ calls' = Released(calls, Clients)
    /\ watch' = Quiet /\ calm' = {}
    /\ steady' = {v \in steady : st[v] = "running"}
    /\ UNCHANGED <<proc, mem, old, file, socket, read, cfg, want, redo>>

-----------------------------------------------------------------------------
(* A deployment stops the units it found active and starts them again. *)
DeployStop  == /\ proc = "up" /\ ~redo /\ Down /\ redo' = TRUE
               /\ UNCHANGED <<st, cfg, want, job, watch, calm, steady>>
DeployStart == /\ redo /\ Launch /\ redo' = FALSE
               /\ UNCHANGED <<st, cfg, want, job, watch, calm, steady>>

(* The server's own steps; steady is taken when a request comes in. *)
Serve == /\ \/ /\ Load \/ Listen \/ Exit \/ Change \/ Persist \/ RollBack \/ HandleHost
               /\ UNCHANGED steady
            \/ /\ \E m \in Macs : HandleSubnet(m)
               /\ steady' = {v \in VMs : st[v] = "running"}
         /\ UNCHANGED <<agentVars, watch, calm>>

-----------------------------------------------------------------------------
(* The watchdog: checkDHCPState asks the server first, then reads the      *)
(* database, one VM at a time.                                             *)

WatchTo(w) == watch' = w /\ UNCHANGED <<serverVars, agentVars, steady>>

(* State; a server that does not answer is reported and the check ends. *)
WatchServer == /\ watch.pc = "idle" /\ st[Net] = "running"
               /\ socket /\ old = None
               /\ calm' = VMs
               /\ WatchTo([Quiet EXCEPT !.pc = "vms", !.served = mem.hosts, !.todo = VMs])

Owned(v) == {Nics[v][i] : i \in 1..Len(Nics[v])}

(* Faulty variant: a VM that is being created or deleted, or that failed,  *)
(* is not set apart.                                                       *)
expectedHostsOnly(v) ==
    /\ watch.pc = "vms" /\ v \in watch.todo
    /\ WatchTo([watch EXCEPT !.todo = @ \ {v},
                             !.expected = IF st[v] = "running"
                                          THEN @ \cup {<<m, want[v]>> : m \in Owned(v)} ELSE @])
    /\ UNCHANGED calm

(* expectedHosts, for the next VM. *)
expectedHosts(v) ==
    /\ watch.pc = "vms" /\ v \in watch.todo
    /\ WatchTo([watch EXCEPT !.todo = @ \ {v},
                             !.transient = IF st[v] \in {"creating", "deleting", "error"}
                                           THEN @ \cup {v} ELSE @,
                             !.expected = IF st[v] = "running"
                                          THEN @ \cup {<<m, want[v]>> : m \in Owned(v)} ELSE @])
    /\ UNCHANGED calm

(* What the server serves, less what belongs to a VM in transition. *)
Wanted(w) == {e[1] : e \in w.expected}
withoutTransient(w) ==
    {<<m, w.served[m]>> : m \in {x \in Macs : /\ w.served[x] # None
                                              /\ \/ x \in Wanted(w)
                                                 \/ \A v \in w.transient : x \notin Owned(v)}}

(* Missing, diverging and stale reservations. *)
reservationGaps(w) == {e[1] : e \in (w.expected \ withoutTransient(w))
                                    \cup (withoutTransient(w) \ w.expected)}

Report == /\ watch.pc = "vms" /\ watch.todo = {}
          /\ calm' = {}
          /\ WatchTo(Quiet)

Next == \/ \E c \in Clients : Create(c) \/ Delete(c) \/ HostFails(c) \/ MarkError(c) \/ CallFails(c)
        \/ SubnetStep
        \/ \E v \in VMs : VMStep(v)
        \/ AgentRestart \/ DeployStop \/ DeployStart \/ Serve
        \/ WatchServer \/ (\E v \in VMs : expectedHosts(v)) \/ Report

Spec == Init /\ [][Next]_vars

-----------------------------------------------------------------------------
Places == {"idle", "fail", "links",
           "unfile", "start", "ready", "push", "pushed",
           "children", "status", "stop", "unstate", "unsocket",
           "parent", "set", "setting", "started", "del", "deling"}

(* The database, the commands and the watchdog hold values of their kinds. *)
TypeOK ==
    /\ ServerTypeOK
    /\ st \in [Clients -> {"absent", "creating", "running", "deleting", "error"}]
    /\ cfg \in Configs /\ want \in [VMs -> Hosts]
    /\ job \in [Clients -> [pc : Places, nic : Nat]]
    /\ redo \in BOOLEAN
    /\ watch \in [pc : {"idle", "vms"}, served : [Macs -> Hosts \cup {None}], todo : SUBSET VMs,
                  expected : SUBSET (Macs \X Hosts), transient : SUBSET VMs]
    /\ calm \subseteq VMs /\ steady \subseteq VMs

(* Whatever the database calls running is served, by the server that runs  *)
(* or by the next one that starts: the parameters of the subnet and every  *)
(* reservation of the VM, through failed saves, calls that time out and    *)
(* are carried out late, and restarts of either process.                   *)
RunningIsServed ==
    /\ st[Net] = "running" => CurrentTable.subnet = cfg
    /\ \A v \in VMs : st[v] = "running" =>
          \A m \in Owned(v) : CurrentTable.hosts[m] = want[v]

(* A VM that is gone leaves no reservation, and no order that is still on  *)
(* its way will bring one back.                                            *)
GoneIsNotServed ==
    \A v \in VMs : st[v] = "absent" =>
       \A m \in Owned(v) :
          /\ CurrentTable.hosts[m] = None
          /\ \A i \in 1..Len(calls) : calls[i].req.op = "set-host" => calls[i].req.mac # m

(* A reply to a VM that has been running since its request came in carries *)
(* the parameters of the subnet and the address of the database, though    *)
(* Handle reads the two under different locks.                             *)
ReplyMatchesDatabase ==
    read # None /\ old = None =>
       \A v \in steady : read.mac \in Owned(v) =>
          read.subnet = cfg /\ mem.hosts[read.mac] = want[v]

(* The watchdog reads the server before the database.  It may report a gap *)
(* that never was, but only about a VM that a request touched meanwhile.   *)
AlarmsAreCaused ==
    watch.pc = "vms" /\ watch.todo = {} =>
       \A v \in calm : reservationGaps(watch) \cap Owned(v) = {}
=============================================================================

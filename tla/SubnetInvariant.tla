--------------------------- MODULE SubnetInvariant ---------------------------
(***************************************************************************)
(* Why what the database says of a subnet and its VMs is what the DHCP     *)
(* server serves.                                                          *)
(*                                                                         *)
(* A client that waits has one call at the server, and no call behind it   *)
(* bears on the same subject: once it is acknowledged the calls that were  *)
(* given up before it are over, and the subject stays as the call left it. *)
(***************************************************************************)
EXTENDS DhcpSubnet

(* What a request is about: the parameters of the subnet, or a MAC. *)
Subject(r) == IF r.op = "set-subnet" THEN <<>> ELSE <<r.mac>>

Silent(q, s) == \A i \in 1..Len(q) : Subject(q[i].req) # s
NoneFrom(q, c) == \A i \in 1..Len(q) : q[i].from # c

(* The call of c in q asks for r and has the last word on it. *)
LastWord(q, c, r) ==
    \A i \in 1..Len(q) : q[i].from = c =>
       /\ q[i].req = r
       /\ \A j \in 1..Len(q) : j > i => q[j].from # c /\ Subject(q[j].req) # Subject(r)

(* What the command of c asks of the server. *)
Order(c) ==
    IF c = Net THEN [op |-> "set-subnet", subnet |-> cfg]
    ELSE IF job[c].pc = "setting" THEN [op |-> "set-host", mac |-> Mac(c), host |-> want[c]]
    ELSE [op |-> "del-host", mac |-> Mac(c)]

CallInv(c) == IF answer[c] = "waiting"
              THEN job[c].pc \in {"pushed", "setting", "deling"} /\ LastWord(calls, c, Order(c))
              ELSE NoneFrom(calls, c)

-----------------------------------------------------------------------------
(* Where the command of a resource in state s can be. *)
NetPlaces(s) == IF s = "creating" THEN {"unfile", "start", "ready", "push", "pushed", "fail"}
                ELSE IF s = "deleting"
                THEN {"children", "status", "stop", "unstate", "unsocket", "links", "fail"}
                ELSE {"idle"}

VMPlaces(s) == IF s = "creating" THEN {"parent", "set", "setting", "started", "fail"}
               ELSE IF s = "deleting" THEN {"del", "deling", "links", "fail"}
               ELSE {"idle"}

JobInv == /\ job[Net].pc \in NetPlaces(st[Net])
          /\ \A v \in VMs : /\ job[v].pc \in VMPlaces(st[v])
                            /\ job[v].pc \in {"set", "setting", "del", "deling"}
                                  => job[v].nic \in 1..Len(Nics[v])

-----------------------------------------------------------------------------
(* Past the wait for its subnet and not given up since. *)
Settled(v) == st[v] = "running" \/ job[v].pc \in {"set", "setting", "started"}

(* The parameters of the subnet are in the table and in the file, for good *)
(* until the subnet is torn down, which no settled VM survives to see.     *)
Held == \/ st[Net] = "running"
        \/ job[Net].pc = "pushed" /\ answer[Net] = "ok"
        \/ \E v \in VMs : Settled(v)

InForce == CurrentTable.subnet = cfg /\ file # Missing /\ Silent(calls, <<>>)

NetInv == /\ Held => InForce
          /\ \A v \in VMs : Settled(v) => /\ st[Net] \in {"running", "deleting", "error"}
                                          /\ job[Net].pc \in {"idle", "children", "fail"}

-----------------------------------------------------------------------------
(* How far a command has come with interface n. *)
Done(v, n, at, waits) ==
    job[v].pc \in {at, waits} => \/ n < job[v].nic
                                 \/ n = job[v].nic /\ job[v].pc = waits /\ answer[v] = "ok"

Serves(v, n) == Settled(v) /\ Done(v, n, "set", "setting")
Clears(v, n) == /\ st[v] = "absent" \/ job[v].pc \in {"del", "deling", "links"}
                /\ Done(v, n, "del", "deling")

HostInv(v, n) ==
    /\ Serves(v, n) => CurrentTable.hosts[Nics[v][n]] = want[v] /\ Silent(calls, <<Nics[v][n]>>)
    /\ Clears(v, n) => CurrentTable.hosts[Nics[v][n]] = None /\ Silent(calls, <<Nics[v][n]>>)

-----------------------------------------------------------------------------
(* A request half answered, and the watchdog half way through its check. *)
ReadInv == /\ \A v \in steady : st[v] = "running"
           /\ read # None => proc = "up" /\ (steady # {} => read.subnet = cfg)

WatchInv ==
    watch.pc = "vms" => \A v \in calm :
       /\ st[v] = "running" => \A m \in Owned(v) : watch.served[m] = want[v]
       /\ st[v] = "absent" => \A m \in Owned(v) : watch.served[m] = None
       /\ v \in watch.todo \/
             /\ st[v] = "running" => \A m \in Owned(v) : <<m, want[v]>> \in watch.expected
             /\ st[v] \in {"creating", "deleting", "error"} => v \in watch.transient
       /\ \A e \in watch.expected : e[1] \in Owned(v) => st[v] = "running" /\ e[2] = want[v]

(* The inductive invariant: every call that a client waits for has the     *)
(* last word on its subject, and what a command has had acknowledged is in *)
(* the table with no order under way that would change it.                 *)
SubnetInv == /\ TypeOK /\ FileHoldsTable
             /\ JobInv /\ NetInv
             /\ \A c \in Clients : CallInv(c)
             /\ \A v \in VMs : \A n \in 1..Len(Nics[v]) : HostInv(v, n)
             /\ ReadInv /\ WatchInv
=============================================================================

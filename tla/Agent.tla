------------------------------- MODULE Agent -------------------------------
(***************************************************************************)
(* The agent of one hypervisor: concurrent HTTP handlers that run          *)
(* Command.Prepare and then Dispatcher.Dispatch, the FIFO task queue, the  *)
(* workers that run Command.Execute, the key-value store, and what the     *)
(* commands build on the host.                                             *)
(*                                                                         *)
(* Nothing locks a record.  Every read and every write of the store is a   *)
(* transaction of its own, and is a step of its own here; a scan by prefix *)
(* is one step, as it is one read transaction.                             *)
(*                                                                         *)
(* A record keeps only what the commands tell apart:                       *)
(*   st[n]    the key <kind>/<name>/state, None when it is absent;         *)
(*   ref[n]   the key that names what the resource hangs on: l3vni of a    *)
(*            VPC, vpc of a subnet or NAT gateway, nic/0/subnet of a VM,   *)
(*            vm of a floating IP;                                         *)
(*   body[n]  whether all the other mandatory keys are there.              *)
(***************************************************************************)
EXTENDS Naturals, Sequences

CONSTANTS VPCs, Subnets, VMs, FIPs, NATGWs,  \* resource names, by kind
          VNIs,          \* L3VNI numbers a client may ask for
          Placements,    \* pairs <<name, ref>> a client may ask to create
          Handlers,      \* concurrent HTTP requests
          Workers,       \* worker goroutines (worker.count)
          Capacity,      \* buffer of the task channel (worker.buffer_size)
          Patient        \* does a client wait for one request about a name to
                         \* settle before it sends the next one about it?

None == "none"

Names == VPCs \cup Subnets \cup VMs \cup FIPs \cup NATGWs
Tree  == VPCs \cup Subnets \cup VMs

(* The kinds of names are told apart by the prefix of their keys. *)
ASSUME KindsAssumption ==
    /\ VPCs \cap (Subnets \cup VMs \cup FIPs \cup NATGWs) = {}
    /\ Subnets \cap (VMs \cup FIPs \cup NATGWs) = {}
    /\ VMs \cap (FIPs \cup NATGWs) = {}
    /\ FIPs \cap NATGWs = {}
    /\ None \notin Names \cup VNIs

(* A create command carries the name of a parent of the right kind. *)
ASSUME PlacementsAssumption ==
    Placements \subseteq (VPCs \X (VNIs \cup {None})) \cup (Subnets \X VPCs)
                         \cup (VMs \X Subnets) \cup (FIPs \X VMs) \cup (NATGWs \X VPCs)

ASSUME SizesAssumption ==
    Capacity \in Nat \ {0} /\ Patient \in BOOLEAN

VARIABLES
    st, ref, body,   \* the key-value store
    host,            \* [VPC, subnet, VM, floating IP -> what Execute has built]
    natif,           \* [VPC -> what is left of a NAT gateway in its netns]
    hnd,             \* [handler -> the command it prepares]
    queue,           \* the task channel
    wk               \* [worker -> the command it executes]

store == <<st, ref, body>>
vars == <<st, ref, body, host, natif, hnd, queue, wk>>

-----------------------------------------------------------------------------
(* internal/state *)

Transient == {"creating", "deleting"}
States    == {"creating", "running", "error", "deleting", "deleted"}
CanDelete(s) == s \in {"running", "error"}

Fields == {"state", "ref", "body"}
Levels == {"absent", "partial", "up"}

(* The order in which Prepare writes the keys of a new record.  NAT        *)
(* gateways and floating IPs range over a Go map: any order, state last.   *)
WriteRank(n) ==
    IF n \in VPCs THEN [body |-> 1, ref |-> 2, state |-> 3]
    ELSE IF n \in Subnets \cup VMs THEN [state |-> 1, ref |-> 2, body |-> 3]
    ELSE [ref |-> 1, body |-> 1, state |-> 2]

(* DeleteInDB removes keys in lexicographic order: "state" sorts before    *)
(* "vm" and "vpc", after "l3vni" and "nic/...".                            *)
PurgeRank(n) ==
    IF n \in VPCs \cup VMs THEN [body |-> 1, ref |-> 2, state |-> 3]
    ELSE [body |-> 1, state |-> 2, ref |-> 3]

First(rank, todo) == {f \in todo : \A g \in todo : rank[f] <= rank[g]}

(* The keys of a record that are in the store. *)
Present(n) == {f \in Fields : \/ f = "state" /\ st[n] # None
                              \/ f = "ref" /\ ref[n] # None
                              \/ f = "body" /\ body[n]}

(* Host objects of a NAT gateway are named after its VPC, those of every   *)
(* other resource after the resource itself.                               *)
Level(n, p) == IF n \in NATGWs THEN natif[p] ELSE host[n]

SetLevel(n, p, l) ==
    IF n \in NATGWs
    THEN natif' = [natif EXCEPT ![p] = l] /\ UNCHANGED host
    ELSE host' = [host EXCEPT ![n] = l] /\ UNCHANGED natif

-----------------------------------------------------------------------------
Idle == [pc |-> "idle", op |-> None, name |-> None, ref |-> None, at |-> None, todo |-> {}]
Command(pc, op, n, p) ==
    [pc |-> pc, op |-> op, name |-> n, ref |-> p, at |-> None, todo |-> {}]

Tasks == [op : {"create", "delete"}, name : Names, ref : Names \cup VNIs \cup {None}]

Busy(n) == \/ \E h \in Handlers : hnd[h].name = n
           \/ \E i \in 1..Len(queue) : queue[i].name = n
           \/ \E w \in Workers : wk[w].name = n

Init == /\ st = [n \in Names |-> None]
        /\ ref = [n \in Names |-> None]
        /\ body = [n \in Names |-> FALSE]
        /\ host = [n \in Names \ NATGWs |-> "absent"]
        /\ natif = [v \in VPCs |-> "absent"]
        /\ hnd = [h \in Handlers |-> Idle]
        /\ queue = <<>>
        /\ wk = [w \in Workers |-> Idle]

-----------------------------------------------------------------------------
(* HTTP handlers: Command.Prepare, then Dispatch *)

Become(h, pc) == hnd' = [hnd EXCEPT ![h].pc = pc]
Answer(h) == hnd' = [hnd EXCEPT ![h] = Idle]

(* A refusal (404, 409, 422) changes nothing. *)
Proceed(h, ok, pc) == /\ IF ok THEN Become(h, pc) ELSE Answer(h)
                      /\ UNCHANGED <<st, ref, body, host, natif, queue, wk>>

Create(h) ==
    /\ hnd[h].pc = "idle"
    /\ \E a \in Placements :
          /\ Patient => ~Busy(a[1])
          /\ hnd' = [hnd EXCEPT ![h] = Command("exists", "create", a[1], a[2])]
    /\ UNCHANGED <<st, ref, body, host, natif, queue, wk>>

Delete(h) ==
    /\ hnd[h].pc = "idle"
    /\ \E a \in Placements :
          /\ Patient => ~Busy(a[1])
          /\ hnd' = [hnd EXCEPT ![h] = Command("deletable", "delete", a[1], None)]
    /\ UNCHANGED <<st, ref, body, host, natif, queue, wk>>

(* Faulty variant: an existing record is not looked for. *)
CheckAbsentForgotten(h) ==
    /\ hnd[h].pc = "exists"
    /\ Proceed(h, TRUE, "parent")

CheckAbsent(h) ==
    /\ hnd[h].pc = "exists"
    /\ Proceed(h, st[hnd[h].name] = None, "parent")

(* The VPC a virtual machine's interface is in, through the subnet's record. *)
VPCOf(m) == IF ref[m] # None /\ ref[ref[m]] # None THEN ref[ref[m]] ELSE None

(* fip.Resolve reads the interface, its subnet and the VPC of the subnet. *)
Resolves(m) == /\ VPCOf(m) # None
               /\ body[ref[m]] /\ body[VPCOf(m)]

UsableParent(n, p) ==
    CASE n \in VPCs    -> TRUE
      [] n \in Subnets -> st[p] \in {"creating", "running"}
      [] n \in VMs     -> st[p] \in {"creating", "running"} /\ body[p]
      [] n \in FIPs    -> st[p] = "running" /\ Resolves(p)
      [] n \in NATGWs  -> st[p] = "running" /\ ref[p] # None

CheckParent(h) ==
    /\ hnd[h].pc = "parent"
    /\ Proceed(h, UsableParent(hnd[h].name, hnd[h].ref), "conflict")

(* A record without a readable state counts as a user; so does the name    *)
(* being created, when keys of an earlier record of that name are left.    *)
checkL3VNI(vni) == vni # None => \A v \in VPCs : ref[v] = vni => st[v] = "deleted"
natGatewayOf(v) == {g \in NATGWs : ref[g] = v}
floatingIPOf(m) == {f \in FIPs : ref[f] = m}

NoConflict(n, p) == /\ n \in VPCs => checkL3VNI(p)
                    /\ n \in NATGWs => natGatewayOf(p) = {}
                    /\ n \in FIPs => floatingIPOf(p) = {}

(* l3vni is written only for a VPC that asks for one. *)
KeysToWrite(p) == IF p = None THEN Fields \ {"ref"} ELSE Fields

CheckConflict(h) ==
    /\ hnd[h].pc = "conflict"
    /\ IF NoConflict(hnd[h].name, hnd[h].ref)
       THEN hnd' = [hnd EXCEPT ![h].pc = "write", ![h].todo = KeysToWrite(hnd[h].ref)]
       ELSE Answer(h)
    /\ UNCHANGED <<st, ref, body, host, natif, queue, wk>>

(* One key at a time, in the order of the source. *)
WriteKey(h) ==
    LET n == hnd[h].name IN
    /\ hnd[h].pc = "write"
    /\ \E f \in First(WriteRank(n), hnd[h].todo) :
          /\ IF f = "state" THEN st' = [st EXCEPT ![n] = "creating"] ELSE UNCHANGED st
          /\ IF f = "ref" THEN ref' = [ref EXCEPT ![n] = hnd[h].ref] ELSE UNCHANGED ref
          /\ IF f = "body" THEN body' = [body EXCEPT ![n] = TRUE] ELSE UNCHANGED body
          /\ hnd' = [hnd EXCEPT ![h].todo = @ \ {f},
                                ![h].pc = IF hnd[h].todo = {f} THEN "dispatch" ELSE "write"]
    /\ UNCHANGED <<host, natif, queue, wk>>

(* Only VPCs and subnets have children, only VPCs and VMs attachments. *)
FirstScan(n) == IF n \in VPCs \cup Subnets THEN "users"
                ELSE IF n \in VMs THEN "attached" ELSE "mark"

CheckDeletable(h) ==
    /\ hnd[h].pc = "deletable"
    /\ Proceed(h, CanDelete(st[hnd[h].name]), FirstScan(hnd[h].name))

subnetsOf(v) == {c \in Subnets : ref[c] = v}
vmsUsingSubnet(s) == {m \in VMs : ref[m] = s /\ st[m] # "deleted"}

NoUsers(n) == /\ n \in VPCs => \A c \in subnetsOf(n) : st[c] \in {"deleting", "deleted"}
              /\ n \in Subnets => \A m \in vmsUsingSubnet(n) : st[m] = "deleting"

ScanUsers(h) ==
    /\ hnd[h].pc = "users"
    /\ Proceed(h, NoUsers(hnd[h].name), IF hnd[h].name \in VPCs THEN "attached" ELSE "mark")

NoAttachment(n) == IF n \in VPCs THEN natGatewayOf(n) = {} ELSE floatingIPOf(n) = {}

ScanAttachments(h) ==
    /\ hnd[h].pc = "attached"
    /\ Proceed(h, NoAttachment(hnd[h].name), "mark")

MarkDeleting(h) ==
    /\ hnd[h].pc = "mark"
    /\ st' = [st EXCEPT ![hnd[h].name] = "deleting"]
    /\ Become(h, "dispatch")
    /\ UNCHANGED <<ref, body, host, natif, queue, wk>>

(* Submit blocks while the channel is full. *)
Dispatch(h) ==
    /\ hnd[h].pc = "dispatch"
    /\ Len(queue) < Capacity
    /\ queue' = Append(queue, [op |-> hnd[h].op, name |-> hnd[h].name, ref |-> hnd[h].ref])
    /\ Answer(h)
    /\ UNCHANGED <<st, ref, body, host, natif, wk>>

Prepare(h) == \/ CheckAbsent(h) \/ CheckParent(h) \/ CheckConflict(h) \/ WriteKey(h)
              \/ CheckDeletable(h) \/ ScanUsers(h) \/ ScanAttachments(h) \/ MarkDeleting(h)

-----------------------------------------------------------------------------
(* Workers: Command.Execute *)

Goto(w, pc) == wk' = [wk EXCEPT ![w].pc = pc]
Finish(w) == wk' = [wk EXCEPT ![w] = Idle]

(* Subnets and VMs wait for their parent; VPCs and subnets wait for the    *)
(* children that were being deleted when the request was accepted.         *)
FirstStep(t) ==
    IF (t.op = "create" /\ t.name \in Subnets \cup VMs)
       \/ (t.op = "delete" /\ t.name \in VPCs \cup Subnets)
    THEN "wait" ELSE "load"

Take(w) ==
    /\ wk[w].pc = "idle"
    /\ queue # <<>>
    /\ LET t == Head(queue) IN wk' = [wk EXCEPT ![w] = Command(FirstStep(t), t.op, t.name, t.ref)]
    /\ queue' = Tail(queue)
    /\ UNCHANGED <<st, ref, body, host, natif, hnd>>

(* Faulty variants: a parent in creating is good enough; a subnet that is  *)
(* being deleted counts as gone.                                           *)
ParentAccepted(p) == st[p] \in {"creating", "running"}
SubnetsGoing(v)   == \A c \in subnetsOf(v) : st[c] \in {None, "deleted", "deleting"}

(* What one call of the function given to waitUntil returns: go on, give   *)
(* up, or neither, which means poll again.                                 *)
ParentReady(p)  == st[p] = "running"
ParentFailed(p) == st[p] \notin {"running", "creating"}

SubnetsGone(v)   == \A c \in subnetsOf(v) : st[c] \in {None, "deleted"}
SubnetsFailed(v) == \E c \in subnetsOf(v) : st[c] \notin {None, "deleted", "deleting"}

VMsGone(s)   == vmsUsingSubnet(s) = {}
VMsFailed(s) == \E m \in vmsUsingSubnet(s) : st[m] \notin {None, "deleting"}

WaitOver(c) == IF c.op = "create" THEN ParentReady(c.ref)
               ELSE IF c.name \in VPCs THEN SubnetsGone(c.name) ELSE VMsGone(c.name)
WaitFailed(c) == IF c.op = "create" THEN ParentFailed(c.ref)
                 ELSE IF c.name \in VPCs THEN SubnetsFailed(c.name) ELSE VMsFailed(c.name)

WaitDone(w) ==
    /\ wk[w].pc = "wait"
    /\ ~WaitFailed(wk[w]) /\ WaitOver(wk[w])
    /\ Goto(w, "load")
    /\ UNCHANGED <<st, ref, body, host, natif, hnd, queue>>

(* Faulty variant: no deadline. *)
WaitForever(w) ==
    /\ wk[w].pc = "wait"
    /\ WaitFailed(wk[w])
    /\ Goto(w, "fail")
    /\ UNCHANGED <<st, ref, body, host, natif, hnd, queue>>

(* An error from the polled function, or the deadline. *)
WaitAbandoned(w) ==
    /\ wk[w].pc = "wait"
    /\ WaitFailed(wk[w]) \/ ~WaitOver(wk[w])
    /\ Goto(w, "fail")
    /\ UNCHANGED <<st, ref, body, host, natif, hnd, queue>>

(* Faulty variant: a VM looks for a namespace named after its subnet. *)
SiteOfSubnet(n, p) == IF n \in VPCs THEN n
                      ELSE IF n \in Subnets \cup NATGWs THEN p
                      ELSE IF n \in VMs THEN ref[n] ELSE VPCOf(p)

(* Where a command works: the VPC whose network namespace it enters. *)
Site(n, p) == IF n \in VPCs THEN n
              ELSE IF n \in Subnets \cup NATGWs THEN p
              ELSE IF n \in VMs THEN VPCOf(n) ELSE VPCOf(p)

(* Does the record, with those it refers to, have the keys Execute reads? *)
Loadable(n, p) ==
    CASE n \in VPCs    -> ref[n] # None => body[n]
      [] n \in Subnets -> ref[n] # None /\ body[n] /\ body[ref[n]]
      [] n \in VMs     -> body[n] /\ Resolves(n)
      [] n \in FIPs    -> p # None /\ Resolves(p)
      [] n \in NATGWs  -> p # None /\ ref[p] # None /\ body[p]

(* CreateVPC, CreateSubnet and StartVM do nothing to a record that is not  *)
(* in creating; the other two commands do not look.                        *)
LoadCreate(w) ==
    LET n == wk[w].name
        p == IF n \in Subnets \cup VMs THEN ref[n] ELSE wk[w].ref IN
    /\ wk[w].pc = "load" /\ wk[w].op = "create"
    /\ IF n \in Tree /\ st[n] = None THEN Goto(w, "fail")
       ELSE IF n \in Tree /\ st[n] # "creating" THEN Finish(w)
       ELSE IF ~Loadable(n, p) THEN Goto(w, "fail")
       ELSE wk' = [wk EXCEPT ![w].pc = "build", ![w].ref = p, ![w].at = Site(n, p)]
    /\ UNCHANGED <<st, ref, body, host, natif, hnd, queue>>

(* The same for the delete commands; a floating IP needs its own keys too. *)
LoadDelete(w) ==
    LET n == wk[w].name
        p == ref[n] IN
    /\ wk[w].pc = "load" /\ wk[w].op = "delete"
    /\ IF n \in Tree /\ st[n] = None THEN Goto(w, "fail")
       ELSE IF n \in Tree /\ st[n] # "deleting" THEN Goto(w, "reread")
       ELSE IF ~Loadable(n, p) \/ (n \in FIPs /\ ~body[n]) THEN Goto(w, "fail")
       ELSE wk' = [wk EXCEPT ![w].pc = "tear", ![w].ref = p, ![w].at = Site(n, p)]
    /\ UNCHANGED <<st, ref, body, host, natif, hnd, queue>>

(* Can the worker enter the namespace it works in?  A VM also needs the    *)
(* bridge of its subnet.                                                   *)
Entered(c) == c.name \in VPCs \/ host[c.at] # "absent"
Founded(c) == Entered(c) /\ (c.name \in VMs => host[c.ref] # "absent")

(* Creating a link that exists fails.  The first object of a NAT gateway   *)
(* or a floating IP is its macvlan, and the last one to go; in the others  *)
(* a partial build may lack the first link.                                *)
Clear(n, p) == Level(n, p) = "absent" \/ (n \in Tree /\ Level(n, p) = "partial")

(* Building takes many host operations, any of which may fail; nothing is  *)
(* rolled back.  netns.Create replaces the namespace it finds.             *)
BuildBegin(w) ==
    LET n == wk[w].name
        p == wk[w].ref
    IN
    /\ wk[w].pc = "build"
    /\ \/ Goto(w, "fail") /\ UNCHANGED <<host, natif>>
       \/ /\ Founded(wk[w]) /\ Clear(n, p)
          /\ SetLevel(n, p, "partial")
          /\ Goto(w, "built")
       \/ /\ n \in VPCs /\ Level(n, p) = "up"
          /\ SetLevel(n, p, "partial")
          /\ Goto(w, "fail")
    /\ UNCHANGED <<st, ref, body, hnd, queue>>

BuildEnd(w) ==
    LET n == wk[w].name
        p == wk[w].ref
    IN
    /\ wk[w].pc = "built"
    /\ \/ Goto(w, "fail") /\ UNCHANGED <<host, natif>>
       \/ /\ Founded(wk[w]) /\ Level(n, p) # "absent"
          /\ SetLevel(n, p, "up")
          /\ Goto(w, "running")
    /\ UNCHANGED <<st, ref, body, hnd, queue>>

SetRunning(w) ==
    /\ wk[w].pc = "running"
    /\ st' = [st EXCEPT ![wk[w].name] = "running"]
    /\ Finish(w)
    /\ UNCHANGED <<ref, body, host, natif, hnd, queue>>

(* Faulty variants: an error of the teardown is taken for success. *)
TearBeginUnchecked(w) ==
    /\ wk[w].pc = "tear"
    /\ \/ Goto(w, "deleted") /\ UNCHANGED <<host, natif>>
       \/ /\ Entered(wk[w])
          /\ SetLevel(wk[w].name, wk[w].ref, "partial")
          /\ Goto(w, "torn")
    /\ UNCHANGED <<st, ref, body, hnd, queue>>

TearEndUnchecked(w) ==
    /\ wk[w].pc = "torn"
    /\ Goto(w, "deleted")
    /\ \/ UNCHANGED <<host, natif>>
       \/ SetLevel(wk[w].name, wk[w].ref, "absent")
    /\ UNCHANGED <<st, ref, body, hnd, queue>>

(* Tearing down a VPC, a subnet or a VM fails on the first link that is    *)
(* not there; NAT gateways and floating IPs tolerate what is gone.         *)
TearBegin(w) ==
    LET n == wk[w].name
        p == wk[w].ref
    IN
    /\ wk[w].pc = "tear"
    /\ \/ Goto(w, "fail") /\ UNCHANGED <<host, natif>>
       \/ /\ Entered(wk[w]) /\ Level(n, p) # "absent"
          /\ SetLevel(n, p, "partial")
          /\ \E pc \in {"torn", "fail"} : Goto(w, pc)
       \/ /\ Entered(wk[w]) /\ Level(n, p) = "absent" /\ n \notin Tree
          /\ Goto(w, "torn") /\ UNCHANGED <<host, natif>>
    /\ UNCHANGED <<st, ref, body, hnd, queue>>

(* With the namespace of a VPC goes the NAT interface that is in it. *)
TearEnd(w) ==
    LET n == wk[w].name IN
    /\ wk[w].pc = "torn"
    /\ \/ Goto(w, "fail") /\ UNCHANGED <<host, natif>>
       \/ /\ Goto(w, "deleted")
          /\ IF n \in VPCs
             THEN /\ host' = [host EXCEPT ![n] = "absent"]
                  /\ natif' = [natif EXCEPT ![n] = "absent"]
             ELSE SetLevel(n, wk[w].ref, "absent")
    /\ UNCHANGED <<st, ref, body, hnd, queue>>

SetDeleted(w) ==
    /\ wk[w].pc = "deleted"
    /\ st' = [st EXCEPT ![wk[w].name] = "deleted"]
    /\ Goto(w, IF wk[w].name \in Tree THEN "reread" ELSE "purge")
    /\ UNCHANGED <<ref, body, host, natif, hnd, queue>>

(* The commands of the tree read the state back before they purge. *)
Reread(w) ==
    LET n == wk[w].name IN
    /\ wk[w].pc = "reread"
    /\ IF st[n] = None THEN Goto(w, "fail")
       ELSE IF st[n] = "deleted" THEN Goto(w, "purge")
       ELSE Finish(w)
    /\ UNCHANGED <<st, ref, body, host, natif, hnd, queue>>

(* DeleteInDB lists the keys once, then deletes them one by one, each in a *)
(* transaction of its own.                                                 *)
PurgeList(w) ==
    /\ wk[w].pc = "purge"
    /\ wk' = [wk EXCEPT ![w].pc = "purging", ![w].todo = Present(wk[w].name)]
    /\ UNCHANGED <<st, ref, body, host, natif, hnd, queue>>

PurgeKey(w) ==
    LET n == wk[w].name IN
    /\ wk[w].pc = "purging"
    /\ \E f \in First(PurgeRank(n), wk[w].todo) :
          /\ IF f = "state" THEN st' = [st EXCEPT ![n] = None] ELSE UNCHANGED st
          /\ IF f = "ref" THEN ref' = [ref EXCEPT ![n] = None] ELSE UNCHANGED ref
          /\ IF f = "body" THEN body' = [body EXCEPT ![n] = FALSE] ELSE UNCHANGED body
          /\ wk' = [wk EXCEPT ![w].todo = @ \ {f}]
    /\ UNCHANGED <<host, natif, hnd, queue>>

PurgeEnd(w) ==
    /\ wk[w].pc = "purging" /\ wk[w].todo = {}
    /\ Finish(w)
    /\ UNCHANGED <<st, ref, body, host, natif, hnd, queue>>

(* Dispatch marks the resource of a command that returned an error, without *)
(* looking at the record.                                                   *)
MarkError(w) ==
    /\ wk[w].pc = "fail"
    /\ st' = [st EXCEPT ![wk[w].name] = "error"]
    /\ Finish(w)
    /\ UNCHANGED <<ref, body, host, natif, hnd, queue>>

Execute(w) == \/ WaitDone(w) \/ WaitAbandoned(w) \/ LoadCreate(w) \/ LoadDelete(w)
              \/ BuildBegin(w) \/ BuildEnd(w) \/ SetRunning(w)
              \/ TearBegin(w) \/ TearEnd(w) \/ SetDeleted(w)
              \/ Reread(w) \/ PurgeList(w) \/ PurgeKey(w) \/ PurgeEnd(w) \/ MarkError(w)

-----------------------------------------------------------------------------
(* Faulty variants: an interrupted creation is taken for a success; an     *)
(* interrupted deletion is left as it is.                                  *)
targetStateOptimistic(s) == IF s = "creating" THEN "running" ELSE s
targetStateCreatingOnly(s) == IF s = "creating" THEN "error" ELSE s

(* MigrateStates: nothing is in flight at boot, so a transient state is an *)
(* orphan.  Every other state stays as it is.                              *)
targetState(s) == IF s \in Transient THEN "error" ELSE s

(* The agent stops at any point and starts again: what it had in memory is *)
(* lost, the store and the host are as they were.                          *)
Restart ==
    /\ st' = [n \in Names |-> targetState(st[n])]
    /\ hnd' = [h \in Handlers |-> Idle]
    /\ queue' = <<>>
    /\ wk' = [w \in Workers |-> Idle]
    /\ UNCHANGED <<ref, body, host, natif>>

Next == \/ \E h \in Handlers : Create(h) \/ Delete(h) \/ Prepare(h) \/ Dispatch(h)
        \/ \E w \in Workers : Take(w) \/ Execute(w)
        \/ Restart

Spec == Init /\ [][Next]_vars

(* A worker that builds or tears down is inside calls to systemd, QEMU,    *)
(* vtysh, nft and the kernel, most of which have no timeout.  Every other  *)
(* step of a worker is its own: it reads or writes the store, or polls     *)
(* another record until a deadline.                                        *)
HostPcs == {"build", "built", "tear", "torn"}

OwnStep(w) == wk[w].pc \notin HostPcs /\ Execute(w)

(* A handler runs to its end, a blocked send gets its turn (goroutines     *)
(* waiting on a channel are served in order), workers take tasks and carry *)
(* out their own steps.  Clients, crashes and the host owe nothing.        *)
Fairness == /\ \A h \in Handlers : WF_vars(Prepare(h)) /\ SF_vars(Dispatch(h))
            /\ \A w \in Workers : WF_vars(Take(w)) /\ WF_vars(OwnStep(w))

FairSpec == Spec /\ Fairness

-----------------------------------------------------------------------------
Refs == Names \cup VNIs \cup {None}

HandlerPcs == {"exists", "parent", "conflict", "write", "dispatch",
               "deletable", "users", "attached", "mark"}
WorkerPcs == {"wait", "load", "build", "built", "running", "tear", "torn",
              "deleted", "reread", "purge", "purging", "fail"}

(* What a resource of the kind of n can hang on. *)
Parents(n) == IF n \in VPCs THEN VNIs
              ELSE IF n \in Subnets \cup NATGWs THEN VPCs
              ELSE IF n \in VMs THEN Subnets ELSE VMs

Commands(pcs) ==
    {Idle} \cup {c \in [pc : pcs, op : {"create", "delete"}, name : Names, ref : Refs,
                        at : VPCs \cup {None}, todo : SUBSET Fields] :
                   c.ref \in Parents(c.name) \cup {None}}

(* The kinds of values the store, the host, the handlers, the queue and    *)
(* the workers hold; a reference, in a record or in a command, names a     *)
(* resource of the right kind.                                             *)
TypeOK == /\ st \in [Names -> States \cup {None}]
          /\ ref \in [Names -> Refs] /\ \A n \in Names : ref[n] \in Parents(n) \cup {None}
          /\ body \in [Names -> BOOLEAN]
          /\ host \in [Names \ NATGWs -> Levels]
          /\ natif \in [VPCs -> Levels]
          /\ hnd \in [Handlers -> Commands(HandlerPcs)]
          /\ queue \in Seq(Tasks)
          /\ \A i \in 1..Len(queue) : queue[i].ref \in Parents(queue[i].name) \cup {None}
          /\ wk \in [Workers -> Commands(WorkerPcs)]

(* What a subnet or a VM has on the host always stands on a parent that is *)
(* complete: a VPC is never torn down under a subnet, nor a subnet under a *)
(* VM.  Prepare checks this without a lock; what protects it is that a     *)
(* child publishes its reference before CreateSubnet/StartVM.Execute reads *)
(* the parent's state, and a parent publishes "deleting" before            *)
(* waitSubnetsDeleted/waitVMsDeleted reads the children.                   *)
TreeStandsOnParents ==
    \A c \in Subnets \cup VMs :
       host[c] # "absent" => ref[c] # None /\ host[ref[c]] = "up"

(* A resource of the tree that the store calls running is fully built, and *)
(* its record has all that the delete commands will load: nothing a        *)
(* handler, a worker or a crash does takes a key away from under it.       *)
RunningIsBuilt ==
    \A n \in Tree : st[n] = "running" => host[n] = "up" /\ Loadable(n, ref[n])

(* Whatever the tree has on the host can be asked to go: once nothing is   *)
(* in flight about its name, the record is complete and in a state from    *)
(* which DELETE is accepted, after any number of crashes.                  *)
HostObjectsReclaimable ==
    \A n \in Tree : host[n] # "absent" /\ ~Busy(n) =>
       CanDelete(st[n]) /\ Loadable(n, ref[n])

(* What is left of a NAT gateway in a namespace, and what a floating IP    *)
(* has on the host, is always answered for by a record that has not been   *)
(* forgotten, whichever of the gateways of a VPC that is.                  *)
AttachmentsOwned ==
    /\ \A v \in VPCs : natif[v] # "absent" =>
          \E g \in NATGWs : ref[g] = v /\ st[g] \in States \ {"deleted"}
    /\ \A f \in FIPs : host[f] # "absent" =>
          ref[f] # None /\ body[f] /\ st[f] \in States \ {"deleted"}

(* What the function given to waitUntil polls for. *)
Awaited(c) == IF c.op = "create" THEN {c.ref} \cap (VPCs \cup Subnets)
              ELSE {x \in subnetsOf(c.name) \cup vmsUsingSubnet(c.name) : st[x] = "deleting"}

(* No worker polls for something that nobody is doing: whoever waitVPC,    *)
(* waitSubnet, waitSubnetsDeleted or waitVMsDeleted waits for has its own  *)
(* command in a handler, in the queue or in a worker, after any crash and  *)
(* in whatever order the requests came.                                    *)
AwaitedIsInFlight ==
    \A w \in Workers :
       wk[w].pc = "wait" /\ ~WaitOver(wk[w]) /\ ~WaitFailed(wk[w]) =>
          \A n \in Awaited(wk[w]) : Busy(n)

(* No worker stays inside calls to the host for ever. *)
HostCallsReturn == \A w \in Workers : []<>(wk[w].pc \notin HostPcs)

(* As long as the calls to the host return, a request that was accepted    *)
(* ends: no resource stays in creating or deleting for ever, whatever      *)
(* waits on what and whatever fails.  Of itself, the agent gives up only   *)
(* on the records it waits for (waitUntil).                                *)
TransientStatesEnd ==
    HostCallsReturn => \A n \in Names : st[n] \in Transient ~> st[n] \notin Transient

-----------------------------------------------------------------------------
(* What the documentation says and the commands do not keep. *)

(* A VPC has at most one NAT gateway: CreateNATGatewayCommand.Prepare      *)
(* refuses a second one, but lists the gateways before it writes its own.  *)
OneGatewayPerVPC ==
    \A v \in VPCs : \A g, k \in natGatewayOf(v) : g = k

(* The deletion of a NAT gateway or a floating IP that was interrupted can *)
(* be asked for again: nothing rests in deleted, from where neither POST   *)
(* nor DELETE is accepted.  MigrateStates turns only creating and deleting *)
(* into error, and DeleteInDB takes a transaction per key.                 *)
InterruptedDeletionRestarts ==
    \A n \in FIPs \cup NATGWs : ~Busy(n) => st[n] # "deleted"

(* A running resource never goes to error: only Dispatch writes error, for *)
(* the resource of a command that failed.                                  *)
RunningNeverFails ==
    [][\A n \in Names : st[n] = "running" => st'[n] # "error"]_vars
=============================================================================

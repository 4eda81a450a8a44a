# The agent of "two", in TLA+

A verification development for the agent that runs on each hypervisor of
`syonad/two`, and for the two services beside it. It models how requests,
workers, host operations and crashes interleave around a store that nothing
locks, and says which promises survive.

## 1. The system

### Parts, state and operations

| Part | Source (under `src/`) | State | Operations | Module |
|---|---|---|---|---|
| HTTP API | `internal/api/agent` | none | POST/DELETE: `Prepare`, `Dispatch`, answer; GET only reads | `Agent`, `WorkerQueue` |
| Commands | `internal/dispatcher/agent/*_commands.go` | records in the store | `Prepare` (in the handler) and `Execute` (in a worker) of ten commands | `Agent` |
| Dispatcher | `internal/dispatcher/agent/dispatcher.go` | none | submits `Execute`, writes `error` when it fails | `Agent` |
| Task queue | `pkg/worker` | channel, lock, `stopped` | `Submit`, `Start`, `Stop` | `WorkerQueue` |
| Store | `pkg/db/kv` (Badger) | keys | get, put, scan by prefix, `DeleteInDB` | `Agent`, `Migration` |
| Resource states | `internal/state` | the key `state` | `creating`, `running`, `error`, `deleting`, `deleted` | `Agent`, `Lifecycle` |
| Boot migrations | `internal/migration` | the store | `MigrateStates`, four migrations of VM records | `Migration` |
| Host objects | `internal/{vpc,subnet,vm,natgw,fip}` | namespaces, links, rules, units, processes | create and delete, step by step, no rollback | `HostSteps`, `HostCommands` |
| L3VNI, FRR | `internal/{l3vni,frr}` | VRF, FRR configuration | ordered configuration and teardown | `HostSteps` |
| dnsmasq backend | `internal/dhcpbackend/dnsmasq.go` | files, a unit | the same verbs as the DHCP server | `HostSteps` |
| DHCP server | `internal/dhcpd`, `internal/api/dhcp`, `cmd/dhcp` | reservations, a state file | subnet and host updates, replies | `DhcpServer` |
| Its driver | `internal/dhcpbackend/two.go` | none | `ConfigureSubnet`, `TeardownSubnet`, `SetVM`, `DelVM` | `DhcpSubnet` |
| Host service | `internal/hostsvc`, `cmd/two-hostsvc` | listening sockets, a state file | `Open`, `Close`, `Restore`, `Shutdown` | `HostSvc` |
| Watchdog | `internal/watchdog` | none | compares the store and the host, reports | `DhcpSubnet`, `HostSteps` |
| Process | `cmd/agent` | none | boot, orderly stop | `Migration`, `WorkerQueue` |

### How they interact

An HTTP handler runs `Prepare`, which checks the request against the store and
writes the record with its first state; then it hands `Execute` to the queue
and answers 202. A worker runs `Execute`: it polls the store until the parent is
running (creation) or the children are gone (deletion), works on the host, and
writes the final state. If it returns an error, the dispatcher writes `error`.
At boot the migrations run one after the other, before any request is served;
`MigrateStates` turns every `creating` and `deleting` into `error`.

Work on the host is a list of steps, cut short by the first that fails. Some of
them are calls to another process: the DHCP server of a subnet and the host
service each have a control socket, a lock and a state file of their own, and go
on with a call whose client has given up. The watchdog reads both sides while
all this goes on.

### What makes it hard

* No record is locked; a check and the write that relies on it are different
  transactions, and handlers and workers interleave between them.
* Writing, purging and migrating a record take one transaction per key.
* The agent may stop between any two of these steps. What is on the host stays.
* Every host operation may fail, before or after its effect, and what was built
  stays for `DELETE` to take. Some removals tolerate absence and some do not.
* Workers wait for one another, and there are finitely many of them.
* `Submit` blocks on a full channel with a lock that `Stop` needs.
* A call that timed out is carried out later, after what its caller did next.

`PROJECT.json` lists these hazards with their lines.

## 2. The modules

| Module | What it is |
|---|---|
| `Agent` | handlers, queue, workers, store, restart; the host in three levels |
| `Lifecycle` | abstract: what the agent promises of VPCs, subnets and VMs |
| `AgentRefinement` | the mapping from `Agent` to `Lifecycle` |
| `AgentInvariant` | the inductive invariant `CommandInv` |
| `AgentProofs` | theorems about `Agent` and their lemmas |
| `WorkerQueue`, `WorkerQueueProofs` | the task queue and the orderly stop, and their theorems |
| `Migration` | VM records across versions: the migrations of a boot, key by key |
| `MigrationInvariant`, `MigrationProofs` | the inductive invariant `MigrationInv`, and the theorems about `Migration` |
| `LeaseTable` | abstract: what a DHCP server promises |
| `DhcpServer` | the DHCP server |
| `DhcpSubnet` | `DhcpServer` driven by the agent and read by the watchdog |
| `SubnetInvariant` | the inductive invariant `SubnetInv` |
| `SubnetProofs` | theorems about `DhcpServer` and `DhcpSubnet` and their lemmas |
| `HostObjects` | what is on a host, what stands on what, what a step does |
| `HostSvc` | the host service |
| `HostSteps` | the steps of every creation and deletion |
| `HostCommands` | the workers that run them, with `HostSvc` and all their failures |
| `HostInvariant` | the inductive invariant `HostInv` |
| `HostFacts`, `HostWorkers`, `HostRecords`, `HostProofs` | theorems about `HostCommands`; before them the lists and the effect of a step, the workers, the records and the host service |
| `MCAgent`, `MCDhcp`, `MCMigration`, `MCHost` | instances for TLC |

The models meet where the parts do. `Agent` shows in which order commands work on
the host and takes that work as one stretch that may fail; `HostCommands` takes
that order from it (a VPC, subnet or VM is built when its parent runs and removed
when the tree has nothing under it, by one worker at a time, which is
`TreeStandsOnParents` and `Exclusive`) and opens the stretch up. For a NAT gateway
or a floating IP there is no such order to take: `HostCommands` has the two halves
of `Prepare`, the look and the write, and lets them cross. `DhcpSubnet` takes less: its commands start
whenever they are asked for, and are held back only by what `Execute` reads.

Operators introduced by "Faulty variant" are the definition that follows them
with a mistake in it, used to see that a property can fail. No specification
uses them.

### `Agent`

| Variable | Code |
|---|---|
| `st[n]` | the key `<kind>/<name>/state`; `None` when it is absent |
| `ref[n]` | the key that names what `n` hangs on: `l3vni` of a VPC, `vpc` of a subnet or NAT gateway, `nic/0/subnet` of a VM, `vm` of a floating IP |
| `body[n]` | are the other mandatory keys there? |
| `host[n]` | what exists of `n` on the host: `absent`, `partial`, `up` |
| `natif[v]` | the same for the NAT interface, which `natgw` names after the VPC and not after the gateway |
| `hnd[h]` | the command a handler prepares, and where it is in `Prepare` |
| `queue` | the task channel |
| `wk[w]` | the command a worker executes, and where it is in `Execute` |

A step is one read or one write of the store, one scan, or one stretch of host
operations. `Prepare` of a creation is `CheckAbsent`, `CheckParent`,
`CheckConflict`, then `WriteKey` once per key; that of a deletion is
`CheckDeletable`, `ScanUsers`, `ScanAttachments`, `MarkDeleting`. `Dispatch`
sends, `Take` receives. `Execute` is `WaitDone` or `WaitAbandoned`, `LoadCreate`
or `LoadDelete`, then `BuildBegin`, `BuildEnd`, `SetRunning`, or `TearBegin`,
`TearEnd`, `SetDeleted`, `Reread`, `PurgeList`, `PurgeKey`, `PurgeEnd`; a failure
anywhere leads to `MarkError`. `Restart` is a stop at any point followed by a
boot with `MigrateStates`.

The orders of the source matter and are kept: `WriteRank` is the order in which
`Prepare` writes the keys (a subnet and a VM write their state first, a VPC last;
NAT gateways and floating IPs range over a Go map and write the state last), and
`PurgeRank` is the lexicographic order in which `DeleteInDB` removes them.

`Patient` says whether a client waits for one request about a name to settle
before it sends another about the same name. It is an assumption on clients, not
on the agent, and `Busy` is the only definition that stands for them.

Abstracted: one interface per VM; floating IPs have distinct public addresses
(the other conflict, two for one interface, is kept); a scan and the reads of
the states of what it found are one step; writes to the store succeed; names are
well formed; addresses, MTUs, disks, metadata and ports carry no control.
A reboot of the host, which would lose the host objects, is not modelled.

### `Lifecycle`

One state, one place and one level per resource, and the edges between them.
`FollowsLifecycle` says that `Agent` implements it, through the mapping
`state <- st`, `on <- ref`, `built <- host`, restricted to VPCs, subnets and VMs.

### `WorkerQueue`

Handlers, workers, the goroutine that calls `Stop`, and `shutdown` of
`cmd/agent/main.go` with its deadline and its two `select`s. `Submit` is `RLock`,
`CheckStopped` and `Send` or `HandOver` (a receiver that waits on an empty channel
is handed the task); no reader enters while the writer waits, as Go's `RWMutex`
does. `Agent` has the queue without its stop, and a crash at any point instead.

### `Migration`

`keys[v]` is the set of keys the record of a VM has, `st[v]` its state, `table` the
MAC tables of the subnets. A migration copies values and does not look at them,
which is why a record is a set of keys. `phase` goes through the migrations in the
order of `run` in `cmd/agent/main.go`; each lists the store once when it begins
(`Visits`) and then writes key by key. When the agent is up, `StartVM` and
`StopVM` write and purge records in the orders of `vm_commands.go` and
`DeleteInDB`. `Stop` may fall between any two writes. `known` and `torn` are history:
the interfaces a VM was created with, and the VMs whose creation or whose move to
`nic/` keys a stop has cut.

A layout is a record as a version that worked left it (`LayoutsAssumption`): in one
schema, `Single` from before `nic/` or `Numbered`, and complete unless its VM is
deleted, except that an entry may be missing from the MAC table and that `sda` may
stand beside an `xvda` of another value (the key `other`): these are the two records
`docs/architecture/stockage.rst:67-77` tells of, and the two for which
`MigrateVMMACs` and `MigrateVMDisks` refuse the boot. The run takes: none; the single
interface, with or without a tap number; two interfaces whose MACs are in the tables,
or one of them; interfaces with a MAC and no name; two disks of one name. The
theorems take any. Records that a stop of this version leaves half written are not
layouts: `Stop` brings them about.

### `LeaseTable`, `DhcpServer`, `DhcpSubnet`

`LeaseTable` is one table, changed whole or not at all. `DhcpServer` is the store
in memory (`mem`, and `old` while the write lock is held), the state file, the
control socket, the calls on their way to the lock, and the process. `Change`
applies an order, `Persist` or `RollBack` ends it, `Exit` may come at any point;
`HandleSubnet` and `HandleHost` are the two reads of a reply. `CurrentTable` is the
refinement mapping: what the memory held when the lock was last free, or what the
file holds when nothing runs.

`DhcpSubnet` adds the commands of a subnet and of its VMs, step by step through
`dhcpbackend.Two`; calls that time out and stay on their way; systemd jobs that
fail after their effect; restarts of the agent and of the server; deployments;
and the DHCP check of the watchdog, which reads the server first and then the
database, VM by VM. `calm` and `steady` are history: the VMs no request has touched
since the check began, and those that have been running since a request came in.

Assumed: calls reach the lock in the order they came. A Go mutex hands itself to
the goroutine that has waited longest once one has waited a millisecond; a call
that overtakes another within that time is not modelled.

### `HostObjects`, `HostSvc`, `HostSteps`, `HostCommands`

`has` is the set of objects on the host. `Base` says what each stands on: the
kernel removes it with them. A step makes or removes one object, and its kind says
how it takes what it finds: `make` is refused if the object is there, `set` is not;
`delete` is refused if it is not there, `drop` is not. These are the differences
between `LinkAdd` and `RouteReplace`, `DeleteLink` and `DeleteLinkIfExists`. The
attributes of a link (master, addresses, sysctls, up) belong to the step that makes
it: failing to set one is a failure after the effect.

`HostSteps` has one operator per function of the source, with the steps in its
order. `HostCommands` runs them: `Run` is a step, `Refuse` one that the host
refuses, `Fault` one that fails of itself, before or after its effect. A worker
stops at the first failure and the record says `error`; `deleteAnycastGateway` is
the exception, which tries all its removals (`Collect`). `Unread` is a DHCP unit
whose status cannot be read: the code takes it for inactive and goes on.
`AgentStop` falls between any two steps. `hurt` is history: the resources that met
a failure since their record was made.

A VPC, a subnet or a VM starts with `Create` and `Delete`, whose guards are the waits
of `Execute`. Nothing waits for an attachment (`Detach` deletes one). `PrepareNAT`,
`PrepareFIP`, `PrepareDeleteVPC` and `PrepareStopVM` read the records of the others; the
command is then in `seen`, and `Attach` or `Delete` writes its record and starts its worker later,
whatever has become of what it saw. `late` is history: the gateways and floating IPs
whose creation and the deletion of whose parent both looked before either had
written. `load` and `Resolve` are the steps by which a worker finds its namespace
through the records above; they fail when one is gone (`Lost`).

`shutdownQEMU` has three ends: nobody answers on the socket (`Halted`); the deadline,
at which quit is sent (`Deadline`); and any other error of the socket, which the code
takes for a stopped QEMU, with the error of the quit itself (`Mute`). `QemuExit` is
QEMU ending, of itself or because it was told.

`HostSvc` is the host service with the saved list, the sockets by VPC and by
namespace (a namespace made again under the same name is another one), and the
calls of the agent, which give up after five seconds and are carried out all the
same. `amiss` is history: the VPCs whose entry in the list was lost or left behind.

Abstracted: one interface per VM; a command of FRR that is retried is one step;
the UEFI variables file; vxlan subnets without a relay address, which only earlier
versions made.

## 3. What is checked

### Passing runs

| Run | Instance | Properties |
|---|---|---|
| `tree` | one VPC, subnet and VM; 2 handlers, 2 workers, buffer of 2 | `TypeOK`, `TreeStandsOnParents`, `RunningIsBuilt`, `HostObjectsReclaimable`, `CommandInv`, `FollowsLifecycle` |
| `attachments` | a VPC and a VM that run, two gateways and two floating IPs | `AttachmentsOwned`, `CommandInv` |
| `live` | the tree, one worker, buffer of 1, fair | `AwaitedIsInFlight`, `TransientStatesEnd` |
| `queue` | 3 requests, 2 workers, buffer of 1, fair | `QueueTypeOK`, `NoSendOnClosed`, `TasksConserved`, `StopDrains`, `AcceptedTasksRun`, `StopReturns` |
| `dhcp` | a subnet, a VM with 2 interfaces, 2 calls in flight | `TypeOK`, `FileHoldsTable`, `RunningIsServed`, `GoneIsNotServed`, `ReplyMatchesDatabase`, `AlarmsAreCaused`, `SubnetInv`, `ImplementsTable` |
| `migration` | 2 VMs in any layout, 2 stops | `TypeOK`, `InterfacesKept`, `UpIsMigrated`, `OnlyBrokenRecordsBlockBoot`, `MigrationInv` |
| `host` | four hosts, up to 3 faults | `TypeOK`, `RunningIsWhole`, `ExportedIsBacked`, `Contained`, `GoneLeavesNothing`, `RefusedOnlyWhenHurt`, `RunningIsServed`, `AbandonedQemuQuits`, `HostInv` |

**The tree.**

* `TreeStandsOnParents`: no VPC is torn down under a subnet, no subnet under a
  VM. `Prepare` alone does not ensure it. It holds because a child publishes its
  reference before its `Execute` reads the parent's state, and a parent publishes
  `deleting` before its `Execute` reads the children: one of the two sees the other.
* `RunningIsBuilt`, `HostObjectsReclaimable`: a running resource is complete,
  and whatever is on the host can still be asked to go, after any crashes.
* `AttachmentsOwned`: what a NAT gateway or a floating IP has on the host is
  answered for by a record that is not purged. It does not say that the VM or the VPC
  is still there; for that see `RefusedOnlyWhenHurt`.
* `AwaitedIsInFlight`: a state that a worker waits to see the end of belongs to a
  command that is still in a handler, in the channel or in a worker; nobody waits
  for what nobody will do.
* `TransientStatesEnd`: as long as the calls to the host return, nothing stays in
  `creating` or `deleting`, even with a single worker, where a wait can only end by
  its deadline. The condition (`HostCallsReturn`) is part of the property: see
  Fairness below.

**The queue.** No send on a closed channel, no task lost or run twice, `Stop`
returns, and returns only when every accepted task has run.

**DHCP.** What the database calls running is served, now or by the next process;
a VM that is gone has no reservation, and none on its way. It holds because a VM
becomes running or disappears only after every order of that life was
acknowledged, and calls that were given up are ahead of those in the queue. A
reply is built from two reads under two locks and still agrees with the database,
for a VM that has been running since the request came. The watchdog may report
a gap that never was, but only about a VM that a request has touched since its
check began.

**Migrations.** No stop loses the subnet, the address, the tap or the MAC of an
interface. Once the agent is up, states are current, and every record can be
loaded unless a stop cut its creation or its move to `nic/` keys. Such a record, an
interface that never had a MAC and two disks for one name are all that can keep the
agent from starting (`OnlyBrokenRecordsBlockBoot`): a deletion, a copy of MACs or a
renaming of disks that was interrupted never does, since each migration tells what
it has done itself from a conflict.

**The host.**

* `RunningIsWhole`: a running resource has all that the checks of the watchdog look
  for (links, filters, units, the configuration of dnsmasq, QEMU and its socket, the
  service address and its redirection, the announced routes), and a gateway or a
  floating IP is whole, whatever is built or torn down beside it. Three exceptions. A
  dnsmasq that a failed restart left stopped stays so, since the next deletion of a VM
  takes an inactive unit for one it need not restart. A QEMU that ends by itself is
  gone, and the watchdog says so. And a gateway or a floating IP that crossed the
  deletion of its VPC or VM is claimed nothing of: the namespace goes under it, and its
  worker may end in `running` with its default route lost. That dnsmasq answers a VM is
  claimed of a unit that has not outlived its subnet: one that has is deaf to new
  reservations until it is restarted.
* `ExportedIsBacked`: a route is announced only while what carries its traffic
  stands. Creations announce last, deletions withdraw first. The default route of a
  gateway that crossed the deletion of its VPC is the exception.
* `Contained`: no tap without its filter, no policy route without its translation,
  no VRF link without its unreachable default, no BGP instance without its VRF.
  This is about every moment, those after a failure included. The policy route of a
  floating IP that crossed the deletion of its VM is the exception.
* `GoneLeavesNothing`: a resource without a record has left nothing. One exception:
  a DHCP unit passed over because its status could not be read goes on answering.
* `RefusedOnlyWhenHurt`: the host refuses a step of a VPC, a subnet or a VM only if the
  same resource met a failure before. The steps of a NAT gateway or a floating IP
  tolerate what an earlier attempt left, so a failure of its own is not enough: they are
  refused only if its creation and the deletion of its VPC or VM both passed their
  checks before either had written its record. The converse is how a resource becomes undeletable: a
  VPC, subnet or VM that failed half-way is refused its first missing link, every
  time it is deleted (`DeleteLink`); `docs/concepts/cycle-de-vie.rst:38-39` calls
  deletion from `error` best effort.
* `RunningIsServed`: a running VPC is in the list of the host service and served
  in its present namespace. Three accidents break it, and no other: `Restore` that
  fails to open a VPC forgets it; a call carried out after `Shutdown` saves a list
  of one or leaves its VPC in it; `Close` cannot write the list.
* `AbandonedQemuQuits`: a QEMU without its tap was told to quit, or an error of its
  socket ended its shutdown (`vm/delete.go:127`, `:139`, `:143`, and the quit of `:136`,
  whose error is not looked at). In that case a QEMU may go on without interface and
  without record.

### Bounds

*Agent.* One VPC, one subnet and one VM make the longest chain there is, and with
it every wait and every scan of the tree. Two handlers and two workers let each
pair of commands interleave, in `Prepare` as in `Execute`, and a buffer of 2 lets
tasks queue up; `live` has one worker and a buffer of 1, so that the channel fills
and the worker is lost to a wait. Two gateways and two floating IPs are what a
conflict needs; `attachments` starts from what they stand on already running, which
`tree` shows coming about, and takes handlers, workers, gateways and floating IPs
as interchangeable. What these sizes leave open (two children of one parent, more
gateways, handlers and workers) is what the theorems settle.

*Queue.* Three requests fill the buffer, leave one sender blocked and one task
running. `CHECK_DEADLOCK FALSE` is there because the agent does stop.

*DHCP.* `MaxCalls` = 2 lets a call that was given up meet the next one; two
interfaces let a command fail between them; two configurations tell the lives of a
subnet apart (they are interchangeable, hence the symmetry), and one value of a
reservation tells presence from absence. Faults
are not counted: saves, calls, jobs and processes may fail any number of times.
All that this run checks is proved for every size.

*Migration.* Two VMs are what a migration that stops at the first error needs to
leave one behind. `MaxStops` = 2 allows a stop during the boot that repairs an
earlier stop. `CHECK_DEADLOCK FALSE`: an agent that is up may have nothing to do.
More VMs, more stops and other layouts are left to the theorems.

*Host.* Four instances: a routed VPC with a vxlan subnet and a VM; a routed VPC with a
NAT gateway; a VPC without L3VNI with a bridged subnet, a VM and a floating IP; and a
VPC alone beside one that runs, with a host service that fails and restarts.
`MaxFaults` = 3 bounds failed steps, errors of the socket of QEMU, stops of the agent
and failures of the service together: enough for a creation that fails and two
deletions that fail, before one that does not. The gateway and the floating IP, whose
commands also cross the deletions of their parents, make do with less: `spent` leaves
two faults for the one and one for the other. Two namespaces taken in turn tell the
present one from the last. More faults, all five resources on one host, the other
combinations of L3VNI and subnet mode and more VPCs beside the first are left to the
theorems.

### Fairness

`Agent`: a handler goes on with `Prepare` and a worker with its own steps (weak),
which are the reads and writes of the store and the polls of other records: goroutines
are scheduled, and a poll has a deadline (`waitUntil`), which is why `WaitAbandoned`
needs no clock. A blocked send gets its turn (strong): Go serves the goroutines
blocked on a channel in order. Nothing is assumed of clients and crashes, nor of the
steps of a worker on the host (`HostPcs`): the connection to systemd
(`pkg/systemd/main.go:32`), the exchange with QEMU (`qmp/send.go:20`) and the commands
`vtysh` and `nft` have no deadline, and `docs/architecture/contraintes.rst:110-112`
says that a worker may be held. That these calls return is therefore not fairness of
the specification but the premise of `TransientStatesEnd`; whether they succeed is
left open. `WorkerQueue`: handlers and tasks end, which is the same assumption, and
the steps of the stop once the signal has come; nothing makes a signal or the
deadline come. The other specifications state safety and assume no fairness.

### Where the documentation says more than the code keeps

| Run | Property | In short |
|---|---|---|
| `two_gateways` | `OneGatewayPerVPC` | two concurrent POSTs both see no gateway |
| `interrupted_delete` | `InterruptedDeletionRestarts` | a crash between `deleted` and the purge leaves a name that can be neither created nor deleted |
| `running_fails` | `RunningNeverFails` | two accepted creations of one name: the second fails and marks what the first built |
| `late_handler` | `ClosedDatabaseIsQuiet` | with the deadline passed and the queue drained, `select` may still close the store under a handler |
| `boot_refused` | `Restartable` | a stop between two keys of `StartVM.Prepare` leaves an interface without MAC, and the agent refuses to start |

`running_fails` is the one run without patient clients. Without them
`TreeStandsOnParents`, `RunningIsBuilt` and `HostObjectsReclaimable` fail too: the
second creation of a VPC replaces the namespace that the first one built.

From the records of earlier versions `Restartable` fails in a second way: a stop
inside `MigrateVMNICs` leaves a VM with some `nic/` keys, which the next boot takes
for migrated (`migration/nic.go:20` calls the migration idempotent for that reason),
and its interface has no address to find a MAC by. Two more disagreements follow
from `Agent` and have no run of their own: a floating IP and `StopVM` may both pass
their checks, and the floating IP ends up running on a VM that is gone, against
`docs/concepts/ip-flottante.rst:22-23` (`vm_commands.go:201`; `late` in `HostCommands`
shows what it means on the host); and a crash in
`Prepare` of a floating IP, before its state is written, leaves keys that DELETE
does not find and that block the deletion of the VM (`fip_commands.go:62`).

## 4. What is proved

TLAPS checks these for every value of the constants: every set of names,
placements, handlers, workers and capacities; every set of configurations,
reservations, clients, VMs, interfaces and calls; every set of layouts and every
number of stops; every kind of host, every set of VPCs beside it and every number of
faults.

| Theorem | Statement | Assumes |
|---|---|---|
| `AgentProofs!TypeCorrect` | `Spec => []TypeOK` | the constants' assumptions |
| `AgentProofs!CommandInvariant` | `Spec => []CommandInv` | and `Patient` |
| `AgentProofs!TreeSafe` | `Spec => []TreeStandsOnParents` | and `Patient` |
| `AgentProofs!RunningBuilt` | `Spec => []RunningIsBuilt` | and `Patient` |
| `AgentProofs!Reclaimable` | `Spec => []HostObjectsReclaimable` | and `Patient` |
| `AgentProofs!AttachmentsAnswered` | `Spec => []AttachmentsOwned` | and `Patient` |
| `AgentProofs!AwaitedInFlight` | `Spec => []AwaitedIsInFlight` | and `Patient` |
| `AgentProofs!LifecycleImplemented` | `Spec => FollowsLifecycle` | and `Patient` |
| `WorkerQueueProofs!QueueTypeCorrect` | `Spec => []QueueTypeOK` | the constants' assumptions |
| `WorkerQueueProofs!SendIsSafe` | `Spec => []NoSendOnClosed` | the same |
| `WorkerQueueProofs!NoTaskLost` | `Spec => []TasksConserved` | the same |
| `WorkerQueueProofs!StopLeavesNothing` | `Spec => []StopDrains` | the same; `Workers # {}` is needed |
| `SubnetProofs!FileInvariant` | `ServerSpec => []FileHoldsTable` | the constants' assumptions |
| `SubnetProofs!TableImplemented` | `ServerSpec => ImplementsTable` | the same |
| `SubnetProofs!CallsHaveTheLastWord` | `Spec => []SubnetInv` | and `NicsAssumption` |
| `SubnetProofs!SubnetTypeCorrect` | `Spec => []TypeOK` | the same |
| `SubnetProofs!RunningServed` | `Spec => []RunningIsServed` | the same |
| `SubnetProofs!GoneForgotten` | `Spec => []GoneIsNotServed` | the same |
| `SubnetProofs!RepliesMatch` | `Spec => []ReplyMatchesDatabase` | the same |
| `SubnetProofs!AlarmsCaused` | `Spec => []AlarmsAreCaused` | the same |
| `SubnetProofs!TableKeptForSubnet` | `Spec => ImplementsTable` | the same |
| `MigrationProofs!RecordsInvariant` | `Spec => []MigrationInv` | `LayoutsAssumption` |
| `MigrationProofs!RecordsTyped` | `Spec => []TypeOK` | the same |
| `MigrationProofs!NoFactLost` | `Spec => []InterfacesKept` | the same |
| `MigrationProofs!MigrationsComplete` | `Spec => []UpIsMigrated` | the same |
| `MigrationProofs!WholeRecordsBoot` | `Spec => []OnlyBrokenRecordsBlockBoot` | the same |
| `HostProofs!HostInvariance` | `Spec => []HostInv` | the assumptions of `HostCommands`, below |
| `HostProofs!HostTypes` | `Spec => []TypeOK` | the same |
| `HostProofs!RunningStaysWhole` | `Spec => []RunningIsWhole` | the same |
| `HostProofs!ExportsStayBacked` | `Spec => []ExportedIsBacked` | the same |
| `HostProofs!TrafficStaysContained` | `Spec => []Contained` | the same |
| `HostProofs!DeletionLeavesNothing` | `Spec => []GoneLeavesNothing` | the same |
| `HostProofs!RefusalFollowsFailure` | `Spec => []RefusedOnlyWhenHurt` | the same |
| `HostProofs!RunningStaysServed` | `Spec => []RunningIsServed` | the same |
| `HostProofs!AbandonedQemuWasTold` | `Spec => []AbandonedQemuQuits` | the same |

The assumptions on the constants of `Agent` and of the queue are that the kinds of
names are disjoint (their keys have different prefixes), that a creation names a
parent of the right kind, that the channel of `Agent` has a buffer, that there is a
worker, and everywhere that the marks for "nothing" are not values.
`NicsAssumption`: a VM has an interface, as `startVM` demands, and no two interfaces
have one MAC, which clients see to: with a shared one, deleting a VM takes away the
reservation of another. `LayoutsAssumption` is explained with `Migration` above.
Of a host: `ScenariosAssumption`, a NAT gateway needs a routed VPC, as its `Prepare`
demands; `VpcAssumption`, the VPC is not one of those beside it; `FaultsAssumption`,
the bound on faults is a number, whichever. `DepthAssumption` of `HostObjects`, that
nothing stands more than three levels above another object, is about the fixed
table of objects: TLC evaluates it.

**The agent.** `TreeStandsOnParents` is not inductive: it says nothing of a worker
that is about to build on a parent, or about to tear one down. `CommandInv` adds
four things. `Exclusive`: at most one handler, task or worker is concerned with a
name, which is where `Patient` is used. `HandlerOK`, `Prepared`, `WorkerOK` and
`RecordOK`: each activity finds its record as it left it, whatever the kind of
resource. The protection itself: a child *relies* on its parent from the moment it has seen it running
until it has left the host, a parent is *closing* from the moment it has seen no
child until it is purged, and no parent that a child relies on is closing. And
`Answers`: several gateways may share the one NAT interface of a VPC, so the
interface is answered for by some gateway, from the moment its state is written
until it has taken the interface away; a gateway that builds or tears down works
on the VPC its record names, so no step leaves an interface to a gateway that is
gone. The proof treats the actions one by one, through two lemmas on what a step of a
handler or of a worker about one name leaves alone: the steps of `Execute`, those of
`Prepare` and the restart. The safety theorems follow from
`CommandInv` and `TypeOK`.

`LifecycleImplemented` goes through the actions once more. One that is about a
resource of the tree moves that resource along one edge of `Lifecycle`, or does
not show there at all; one about a NAT gateway or a floating IP never shows. What
`Lifecycle` demands of an edge beyond the record comes from `CommandInv`: that the
parent is complete when something is built on it, and that no child is left when
something is dismantled, is the protection; that nothing is left of what is
forgotten is `WorkerOK`.

**The queue.** `SendIsSafe` needs that `stopped` and `closed` are set together and
only without readers. `NoTaskLost` adds that a handler that has not sent is not
in `accepted`. `StopLeavesNothing` adds that a worker leaves only a closed and
empty channel, and that nothing is sent to it afterwards.

**The DHCP server.** `FileHoldsTable` with `ServerTypeOK` is inductive: while the
lock is held, the memory is the old table with the first call applied, the file is
still the old table, and only a process that is up holds calls. From it, every step
of the server is a step of `LeaseTable` or leaves its table alone: a change becomes
visible when it is saved, an exit before that undoes it, and what a missing file
can lose is what `wiped` allows.

**A subnet and its VMs.** That what runs is served is not inductive: a call that was
given up may still be on its way and undo what a later one did. `SubnetInv` says why
it does not. A client waits for one call at a time, and nothing behind that call in
the queue bears on the same *subject*, the parameters of the subnet or one MAC
(`CallInv`); when it is acknowledged, those given up before it are over, and its
subject stays as it left it. `NetInv` and `HostInv` follow that through the commands:
from the acknowledgement on, the table has the parameters of the subnet, and the
reservation of an interface is the one its command asked for or is gone, with no
order about it under way. A subnet is not torn down as long as a VM is past the wait
for it, since `waitVMsDeleted` reads the VMs. `ReadInv` and `WatchInv` are the same for who
reads in two steps: what the first read saw of a VM that no request has touched is
still true at the second. The lemmas say what a step of the server or
of one client leaves of each of these; the server's part is proved first, and
`TableKeptForSubnet` is its refinement carried over: the steps of `DhcpSubnet` use the
server only as `ServerSpec` lets clients use it.

**The migrations.** What is claimed of an agent that is up depends on what each
migration could count on when it began, and a stop may fall anywhere. `MigrationInv`
says, for every phase, what the migrations behind it have left to do, which is
nothing, and that the list of the current one has all that is left for it
(`StateInv`, `MovedInv`, `MacInv`, `TableInv`, `NameInv`, `DiskInv`). For the records it says
what the order of the writes gives: the subnet is moved first and the primary mark
is set last (`SchemaInv`), so a record with the mark is in the new schema; an entry
of a MAC table belongs to an interface whose subnet is still recorded (`EntryInv`),
so `MigrateVMMACs` finds it before the table goes; a record that no stop tore is
whole in one schema or in the other, or on the way between them while
`MigrateVMNICs` moves it (`WholeInv`). From these a refusal of the boot is traced to
its record: the interface without an entry is one whose MAC was never known or whose
record a stop tore, and two disks of one name were there before. A stop leaves the records as they are and
marks the one it tore; the next boot starts from all this again.

**The host.** Each of the properties of `HostCommands` looks at what is on the host,
which is the work of five lists of up to 18 steps, cut short anywhere and started
again. `HostInv` ties it to the places of the workers. `ObjectInv`: at every moment
each object stands on what it needs, including what an announced route needs under
it and what contains a path for traffic (`Support`). `CreateInv`: what a creation has
passed is there, and what it has yet to make is not. `DeleteInv`: what a deletion has
passed is gone, and what it has yet to find is there unless the resource was hurt.
`RunningInv` and `GoneInv` say the same of a list that was finished. `PlaceInv`: an
error that a deletion keeps for later is reported before its end. `SeenInv`: a command
that has looked and not written finds what it saw, the parent still running or the
attachment still absent, unless it is `late`; with `TreeInv`, which gives an attachment
that is not `late` a running parent, this is why only a crossing can take the ground
from under a gateway or a floating IP. Of a `late` one the invariant keeps what its own
deletion needs: what it has passed is gone. `QemuInv`: a QEMU that is abandoned was
told to quit or its socket failed, and that of a VM past its start is there until it
ends by itself. `CallInv` and `ServeInv`: only the last call to
`two-hostsvc` is attended to, once it is answered none is on its way, and what is
saved and opened is what the record of the VPC says.

The proof has four parts. `HostFacts` writes every list out for every kind of host
and shows once what the orders promise (`Builds`, `Unbuilds`): a creation makes an
object once and after what it rests on, a route after all that carries it; a
deletion removes it after what rests on it, looks up only what is still there, and
covers all that the resource owns. From this it gets the effect of one step on the
host, whichever the list. `HostWorkers` shows that a worker leaves the objects of the other resources
alone, but for the default route and the DHCP unit, and that each way a step can end
(done, refused, failed before or after its effect, passed over, collected, timed out)
keeps the invariant. `HostRecords` does the same for commands that look and that are
accepted, for QEMU and the stop of the agent, and for the host service, its calls and its restarts.
`HostProofs` puts the actions together and draws the properties from `HostInv`. So
the places of the lists are gone through once per list and never per state: the
properties follow from what the orders promise, and a list that is changed in the
code is to be checked against `Builds` and `Unbuilds` alone.

**Model-checked only.** `TransientStatesEnd`, `AcceptedTasksRun` and `StopReturns`:
liveness is out of the prover's reach. Every invariant and every refinement that a
passing run checks is also a theorem.

## 5. What is not modelled

* Metadata ports and tap numbers drawn at random: what a clash leads to is a failed
  host step, which `HostCommands` has everywhere.
* What becomes of the rest while a worker never comes back from a call to the host, as
  from a QEMU that accepts a connection on its monitor and never answers: `qmp.Send`
  has no read deadline. The behaviour is one of `Agent`, where such a worker stutters,
  and `TransientStatesEnd` sets it aside.
* A reboot of the host, which would lose the host objects and leave the records.
* The address arithmetic of `internal/subnet`: pure functions of a few lines, with
  table-driven tests; the models need only that addresses differ.
* `ApplyBase` of `internal/frr`, which the boot runs once, and the checks of the
  watchdog on what no model changes (the BGP session, the public segment).
* Failing reads and writes of the store.
* Decoding of requests and status codes, configuration files, host inventory,
  metrics, logging, command-line tools; the contents of DNS, NTP, DHCP and metadata
  messages and the rate limiter of the host service; and the calls to the kernel
  themselves: input and output, with no state that another part depends on.

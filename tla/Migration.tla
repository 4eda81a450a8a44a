----------------------------- MODULE Migration -----------------------------
(***************************************************************************)
(* The records of the VMs across versions of the agent: what the five      *)
(* migrations of internal/migration do to them at boot, in the order       *)
(* cmd/agent/main.go runs them, and what the creation and the deletion of  *)
(* a VM write while the agent is up.  The agent may stop between any two   *)
(* writes; every write is a transaction of its own.                        *)
(*                                                                         *)
(* A key vm/<name>/<what> is <<"vm", what>>, vm/<name>/nic/<i>/<what> is   *)
(* <<i, what>> and vm/<name>/disk/<dev> is <<"disk", dev>>.  A migration   *)
(* copies values without looking at them, so that a record is the set of   *)
(* the keys it has; the state is kept apart because its value matters.     *)
(* MigrateVMDisks compares two paths: <<"disk", "other">> is the key xvda  *)
(* with another path than sda's.  <<"vm", "body">> stands for              *)
(* metadata_port, memory and cpus.                                         *)
(***************************************************************************)
EXTENDS Naturals, Sequences

CONSTANTS VMs,
          Layouts,     \* records an earlier version may have left
          MaxStops     \* bound on the number of stops of the agent

None == "none"

Index  == {"0", "1"}
legacyNICKeys == <<"subnet", "ip", "tap_id">>
Legacy == {<<"vm", legacyNICKeys[i]>> : i \in 1..3}
NicKey == {"name", "subnet", "ip", "mac", "primary", "tap_id"}
Keys   == Legacy \cup (Index \X NicKey)
          \cup {<<"disk", "sda">>, <<"disk", "xvda">>, <<"disk", "other">>, <<"vm", "body">>}

legacyStates == [created |-> "running", started |-> "running", starting |-> "creating",
                 stopping |-> "deleting", stopped |-> "deleted"]
States    == {"creating", "running", "error", "deleting", "deleted"}
Transient == {"creating", "deleting"}
RawStates == States \cup DOMAIN legacyStates \cup {"unknown"}

(* The MAC tables removed before the MACs are copied. *)
PhasesTablesFirst == <<"states", "nics", "tables", "macs", "names", "disks", "up">>

Phases == <<"states", "nics", "macs", "tables", "names", "disks", "up">>
Idle   == [vm |-> None, op |-> None, todo |-> <<>>]

(* The interfaces that a set of keys speaks of, and the two schemas: the   *)
(* interface of before nic/, and numbered ones of which one is primary.    *)
NicsIn(K)   == {i \in Index : \E k \in NicKey : <<i, k>> \in K}
OnePrimary(K) == \E p \in NicsIn(K) : {i \in NicsIn(K) : <<i, "primary">> \in K} = {p}
Single(K)   == NicsIn(K) = {} /\ {<<"vm", "subnet">>, <<"vm", "ip">>} \subseteq K
Numbered(K) == /\ NicsIn(K) # {} /\ K \cap Legacy = {} /\ OnePrimary(K)
               /\ \A i \in NicsIn(K) : {<<i, "subnet">>, <<i, "ip">>} \subseteq K
Equipped(K) == <<"vm", "body">> \in K /\ \E d \in {"sda", "xvda"} : <<"disk", d>> \in K

(* A layout is a record as an earlier version of the agent left it, and    *)
(* the interfaces whose MAC is in the table of their subnet.  It is in one *)
(* schema, and complete unless its VM is deleted; but the entry of a MAC   *)
(* may be missing, and two disks may lay claim to one name.                *)
ASSUME LayoutsAssumption ==
    /\ Layouts \subseteq [keys : SUBSET Keys, st : RawStates \cup {None}, macs : SUBSET Index]
    /\ \A l \in Layouts :
          /\ \A i \in l.macs :
                /\ <<i, "mac">> \notin l.keys
                /\ <<i, "ip">> \in l.keys \/ (i = "0" /\ <<"vm", "ip">> \in l.keys)
          /\ <<"disk", "other">> \in l.keys =>
                <<"disk", "sda">> \in l.keys /\ <<"disk", "xvda">> \notin l.keys
          /\ l.st = None => l.keys = {}
          /\ NicsIn(l.keys) = {} \/ l.keys \cap Legacy = {}
          /\ l.st \notin {None, "deleted", "stopped"} =>
                Equipped(l.keys) /\ (Single(l.keys) \/ Numbered(l.keys))
    /\ MaxStops \in Nat

ASSUME NoneAssumption == None \notin VMs

VARIABLES
    st,      \* [VM -> the value of vm/<name>/state, None when absent]
    keys,    \* [VM -> the other keys of its record]
    table,   \* the entries subnet/<s>/dhcp/<ip>, by the interface that has the ip
    phase,   \* "off", a migration of Phases, "up", or "failed" (exit code 1)
    todo,    \* what the running migration still has to visit
    job,     \* the VM whose keys are being moved, written or removed
    stops,   \* how often the agent has stopped
    known,   \* history: the interface facts a VM was created with
    torn     \* history: VMs with a creation or a move of keys cut by a stop

vars == <<st, keys, table, phase, todo, job, stops, known, torn>>

-----------------------------------------------------------------------------
(* Reading a record *)

Nics(v) == NicsIn(keys[v])
HasSubnet(v) == {i \in Index : <<i, "subnet">> \in keys[v]}

(* loadVM: every interface is complete, exactly one is primary, and the    *)
(* mandatory keys and a disk are there.                                    *)
Complete(v, i) == \A k \in {"subnet", "ip", "mac"} : <<i, k>> \in keys[v]
Loadable(v) ==
    /\ Nics(v) # {}
    /\ \A i \in Nics(v) : Complete(v, i)
    /\ OnePrimary(keys[v])
    /\ Equipped(keys[v])

(* A value that Parse refuses and that nobody replaces. *)
targetStateUnparsed(s) ==
    IF s \in DOMAIN legacyStates THEN legacyStates[s]
    ELSE IF s \notin States THEN "" ELSE s

targetState(s) ==
    IF s \in DOMAIN legacyStates
    THEN IF legacyStates[s] \in Transient THEN "error" ELSE legacyStates[s]
    ELSE IF s \notin States \/ s \in Transient THEN "error" ELSE s

vmsToMigrate == {v \in VMs : keys[v] \cap Legacy # {} /\ Nics(v) = {}}
nicsWithoutMAC == {p \in VMs \X Index : /\ p[2] \in HasSubnet(p[1])
                                        /\ <<p[2], "mac">> \notin keys[p[1]]}
nicsWithoutName == {p \in VMs \X Index : /\ p[2] \in HasSubnet(p[1])
                                         /\ <<p[2], "name">> \notin keys[p[1]]}
legacyDisks == {v \in VMs : <<"disk", "sda">> \in keys[v]}

(* The interface facts of a record, whichever schema holds them.  An       *)
(* address whose MAC is in the table of its subnet has that MAC.           *)
HeldFacts(v) ==
    {f \in Index \X {"subnet", "ip", "mac", "tap_id"} :
        \/ f \in keys[v]
        \/ f[1] = "0" /\ <<"vm", f[2]>> \in keys[v]
        \/ f[2] = "mac" /\ <<v, f[1]>> \in table}

Init == /\ \E f \in [VMs -> Layouts] :
              /\ keys = [v \in VMs |-> f[v].keys]
              /\ st = [v \in VMs |-> f[v].st]
              /\ table = {p \in VMs \X Index : p[2] \in f[p[1]].macs}
        /\ known = [v \in VMs |-> HeldFacts(v)]
        /\ phase = "off" /\ todo = {} /\ job = Idle /\ stops = 0 /\ torn = {}

-----------------------------------------------------------------------------
(* Boot *)

(* A migration lists the store once, when it begins. *)
Visits == [states |-> {v \in VMs : st[v] # None /\ targetState(st[v]) # st[v]},
           nics   |-> vmsToMigrate,
           macs   |-> nicsWithoutMAC,
           tables |-> table,
           names  |-> nicsWithoutName,
           disks  |-> legacyDisks,
           up     |-> {}]

Enter(p) == phase' = p /\ todo' = Visits[p]

Boot == /\ phase \in {"off", "failed"}
        /\ Enter("states")
        /\ UNCHANGED <<st, keys, table, job, stops, known, torn>>

NextMigration ==
    /\ todo = {} /\ job = Idle
    /\ \E n \in 1..6 : phase = Phases[n] /\ Enter(Phases[n + 1])
    /\ UNCHANGED <<st, keys, table, job, stops, known, torn>>

Visited(x) == todo' = todo \ {x}

MigrateStates ==
    /\ phase = "states"
    /\ \E v \in todo : st' = [st EXCEPT ![v] = targetState(@)] /\ Visited(v)
    /\ UNCHANGED <<keys, table, phase, job, stops, known, torn>>

(* MigrateVMNICs takes a VM, moves its keys one after the other and marks  *)
(* the interface last.                                                     *)
IfThere(v, k) == IF <<"vm", k>> \in keys[v] THEN <<k>> ELSE <<>>

TakeVM ==
    /\ phase = "nics" /\ job = Idle
    /\ \E v \in todo :
          /\ Visited(v)
          /\ job' = [vm |-> v, op |-> "move",
                     todo |-> IfThere(v, legacyNICKeys[1]) \o IfThere(v, legacyNICKeys[2])
                              \o IfThere(v, legacyNICKeys[3])]
    /\ UNCHANGED <<st, keys, table, phase, stops, known, torn>>

Moving == phase = "nics" /\ job.op = "move"

AddKey ==
    /\ Moving /\ job.todo # <<>>
    /\ <<"0", Head(job.todo)>> \notin keys[job.vm]
    /\ keys' = [keys EXCEPT ![job.vm] = @ \cup {<<"0", Head(job.todo)>>}]
    /\ UNCHANGED <<st, table, phase, todo, job, stops, known, torn>>

DropKey ==
    /\ Moving /\ job.todo # <<>>
    /\ <<"0", Head(job.todo)>> \in keys[job.vm]
    /\ keys' = [keys EXCEPT ![job.vm] = @ \ {<<"vm", Head(job.todo)>>}]
    /\ job' = [job EXCEPT !.todo = Tail(@)]
    /\ UNCHANGED <<st, table, phase, todo, stops, known, torn>>

(* The interface is moved and not marked. *)
MarkNothing ==
    /\ Moving /\ job.todo = <<>>
    /\ job' = Idle
    /\ UNCHANGED <<st, keys, table, phase, todo, stops, known, torn>>

MarkPrimary ==
    /\ Moving /\ job.todo = <<>>
    /\ keys' = [keys EXCEPT ![job.vm] = @ \cup {<<"0", "primary">>}]
    /\ job' = Idle
    /\ UNCHANGED <<st, table, phase, todo, stops, known, torn>>

(* An interface of a deleted VM is left as it is; one whose address or     *)
(* whose entry is missing stops the agent.                                 *)
MACLost(v, i) == st[v] # "deleted" /\ (<<i, "ip">> \notin keys[v] \/ <<v, i>> \notin table)

MigrateVMMACs ==
    /\ phase = "macs"
    /\ \E p \in todo :
          /\ Visited(p)
          /\ IF MACLost(p[1], p[2])
             THEN phase' = "failed" /\ UNCHANGED keys
             ELSE /\ keys' = [keys EXCEPT ![p[1]] =
                                 IF st[p[1]] = "deleted" THEN @ ELSE @ \cup {<<p[2], "mac">>}]
                  /\ UNCHANGED phase
    /\ UNCHANGED <<st, table, job, stops, known, torn>>

(* DeleteInDB removes the entries of a subnet's table one by one. *)
DropTable ==
    /\ phase = "tables"
    /\ \E p \in todo : table' = table \ {p} /\ Visited(p)
    /\ UNCHANGED <<st, keys, phase, job, stops, known, torn>>

MigrateVMNICNames ==
    /\ phase = "names"
    /\ \E p \in todo :
          /\ keys' = [keys EXCEPT ![p[1]] = @ \cup {<<p[2], "name">>}]
          /\ Visited(p)
    /\ UNCHANGED <<st, table, phase, job, stops, known, torn>>

(* Faulty variant: a disk that is there already is refused, were it the    *)
(* same that a stop kept from losing its old name.                         *)
ConflictWhenThere(v) == <<"disk", "other">> \in keys[v] \/ <<"disk", "xvda">> \in keys[v]

(* Two disks for one name stop the agent, whatever the state of the VM. *)
Conflict(v) == <<"disk", "other">> \in keys[v]

MigrateVMDisks ==
    /\ phase = "disks"
    /\ \E v \in todo :
          \/ /\ Conflict(v)
             /\ phase' = "failed" /\ Visited(v) /\ UNCHANGED keys
          \/ /\ ~Conflict(v) /\ UNCHANGED phase
             /\ IF <<"disk", "xvda">> \notin keys[v]
                THEN keys' = [keys EXCEPT ![v] = @ \cup {<<"disk", "xvda">>}] /\ UNCHANGED todo
                ELSE keys' = [keys EXCEPT ![v] = @ \ {<<"disk", "sda">>}] /\ Visited(v)
    /\ UNCHANGED <<st, table, job, stops, known, torn>>

-----------------------------------------------------------------------------
(* Up: one creation or deletion of a VM at a time *)

Interface(i, p) ==
    <<<<i, "name">>, <<i, "subnet">>, <<i, "ip">>, <<i, "mac">>>>
    \o (IF i = p THEN <<<<i, "primary">>>> ELSE <<>>)

(* StartVM.Prepare: the state, the interfaces in order, the rest. *)
StartVM ==
    /\ phase = "up" /\ job = Idle
    /\ \E v \in VMs, nics \in {<<"0">>, <<"0", "1">>} :
          /\ st[v] = None
          /\ st' = [st EXCEPT ![v] = "creating"]
          /\ \E p \in {nics[n] : n \in DOMAIN nics} :
                job' = [vm |-> v, op |-> "write",
                        todo |-> Interface("0", p)
                                 \o (IF Len(nics) = 2 THEN Interface("1", p) ELSE <<>>)
                                 \o <<<<"disk", "xvda">>, <<"vm", "body">>>>]
          /\ known' = [known EXCEPT ![v] = {}]
    /\ UNCHANGED <<keys, table, phase, todo, stops, torn>>

WriteKey ==
    /\ job.op = "write" /\ job.todo # <<>>
    /\ keys' = [keys EXCEPT ![job.vm] = @ \cup {Head(job.todo)}]
    /\ job' = [job EXCEPT !.todo = Tail(@)]
    /\ UNCHANGED <<st, table, phase, todo, stops, known, torn>>

(* loadNICs draws the tap numbers that are missing; it stops at the first  *)
(* interface it refuses, in the order of a Go map.                         *)
loadVM(v) ==
    \E s \in SUBSET {i \in Nics(v) : Complete(v, i)} :
       /\ (\A i \in Nics(v) : Complete(v, i)) => s = Nics(v)
       /\ keys' = [keys EXCEPT ![v] = @ \cup (s \X {"tap_id"})]

(* The host part of a creation succeeds or fails. *)
Started ==
    /\ job.op = "write" /\ job.todo = <<>>
    /\ loadVM(job.vm)
    /\ \E s \in {"running", "error"} :
          /\ s = "running" => Loadable(job.vm)
          /\ st' = [st EXCEPT ![job.vm] = s]
    /\ known' = [known EXCEPT ![job.vm] = HeldFacts(job.vm)]
    /\ job' = Idle
    /\ UNCHANGED <<table, phase, todo, stops, torn>>

(* DeleteInDB removes the keys in the order of their names. *)
PurgeOrder ==
    <<<<"disk", "sda">>, <<"disk", "xvda">>, <<"vm", "ip">>, <<"vm", "body">>,
      <<"0", "ip">>, <<"0", "mac">>, <<"0", "name">>, <<"0", "primary">>,
      <<"0", "subnet">>, <<"0", "tap_id">>,
      <<"1", "ip">>, <<"1", "mac">>, <<"1", "name">>, <<"1", "primary">>,
      <<"1", "subnet">>, <<"1", "tap_id">>,
      <<"vm", "state">>, <<"vm", "subnet">>, <<"vm", "tap_id">>>>

(* StopVM: a record that loadVM refuses goes back to error. *)
StopVM ==
    /\ phase = "up" /\ job = Idle
    /\ \E v \in VMs :
          /\ st[v] \in {"running", "error"}
          /\ st' = [st EXCEPT ![v] = "deleting"]
          /\ job' = [vm |-> v, op |-> "stop", todo |-> <<>>]
    /\ UNCHANGED <<keys, table, phase, todo, stops, known, torn>>

Stopped ==
    /\ job.op = "stop"
    /\ loadVM(job.vm)
    /\ \/ /\ st' = [st EXCEPT ![job.vm] = "error"]
          /\ job' = Idle
       \/ /\ Loadable(job.vm)
          /\ st' = [st EXCEPT ![job.vm] = "deleted"]
          /\ job' = [job EXCEPT !.op = "purge"]
    /\ UNCHANGED <<table, phase, todo, stops, known, torn>>

Stored(v) == keys[v] \cup (IF st[v] = None THEN {} ELSE {<<"vm", "state">>})

Purge ==
    /\ job.op = "purge"
    /\ \E n \in DOMAIN PurgeOrder :
          /\ PurgeOrder[n] \in Stored(job.vm)
          /\ \A m \in 1..(n - 1) : PurgeOrder[m] \notin Stored(job.vm)
          /\ keys' = [keys EXCEPT ![job.vm] = @ \ {PurgeOrder[n]}]
          /\ st' = [st EXCEPT ![job.vm] = IF PurgeOrder[n] = <<"vm", "state">> THEN None ELSE @]
    /\ job' = IF keys'[job.vm] = {} /\ st'[job.vm] = None THEN Idle ELSE job
    /\ UNCHANGED <<table, phase, todo, stops, known, torn>>

-----------------------------------------------------------------------------
(* The agent is stopped, or the host loses power, between two writes. *)
Stop ==
    /\ phase # "off" /\ stops < MaxStops
    /\ stops' = stops + 1
    /\ phase' = "off" /\ todo' = {} /\ job' = Idle
    /\ torn' = IF job.op = "write" \/ (job.op = "move" /\ Nics(job.vm) # {})
               THEN torn \cup {job.vm} ELSE torn
    /\ UNCHANGED <<st, keys, table, known>>

Next == \/ Boot \/ NextMigration \/ MigrateStates
        \/ TakeVM \/ AddKey \/ DropKey \/ MarkPrimary
        \/ MigrateVMMACs \/ DropTable \/ MigrateVMNICNames \/ MigrateVMDisks
        \/ StartVM \/ WriteKey \/ Started \/ StopVM \/ Stopped \/ Purge
        \/ Stop

Spec == Init /\ [][Next]_vars

-----------------------------------------------------------------------------
(* Properties *)

(* States are ones a version of the agent wrote or the migration made, and *)
(* keys belong to the schemas of the versions.                             *)
TypeOK == /\ st \in [VMs -> RawStates \cup {None}]
          /\ keys \in [VMs -> SUBSET Keys]
          /\ table \subseteq VMs \X Index
          /\ phase \in {"off", "failed"} \cup {Phases[n] : n \in 1..7}
          /\ job.vm \in VMs \cup {None}
          /\ stops \in 0..MaxStops
          /\ known \in [VMs -> SUBSET (Index \X NicKey)]
          /\ torn \subseteq VMs

(* No stop, wherever it falls, loses the subnet, the address, the tap or   *)
(* the MAC of an interface of a VM that has not been deleted: each is in   *)
(* the schema before or in the one after, or in the MAC table (the order   *)
(* of AddInDB and DeleteInDB in nic.go, of the copies and the removal of   *)
(* the table in mac.go).                                                   *)
InterfacesKept ==
    \A v \in VMs : st[v] \notin {None, "creating", "deleted", "stopped"}
                      => known[v] \subseteq HeldFacts(v)

(* Once the agent is up, every VM that existed has a current state and,    *)
(* unless a stop cut its creation or the move of its keys, a record that   *)
(* loadVM accepts, with named interfaces and no disk under its old name.   *)
UpIsMigrated ==
    phase = "up" =>
      \A v \in VMs :
        /\ st[v] \in States \cup {None}
        /\ st[v] \in Transient => job.vm = v
        /\ st[v] \in {"running", "error"} /\ v \notin torn =>
              /\ Loadable(v)
              /\ <<"disk", "sda">> \notin keys[v]
              /\ \A i \in Nics(v) : <<i, "name">> \in keys[v]

(* An interface whose MAC an earlier version never recorded, and a record  *)
(* with two disks for one name.                                            *)
NoMAC(v) == st[v] # "deleted" /\ \E i \in HasSubnet(v) : <<i, "mac">> \notin known[v]
DiskConflict(v) == {<<"disk", "sda">>, <<"disk", "other">>} \subseteq keys[v]

(* The migrations refuse to let the agent start only because of a VM       *)
(* without a MAC, with two disks for one name, or whose creation or move   *)
(* to nic/ keys a stop has cut.  A deletion that was cut, a copy of MACs   *)
(* or a renaming of disks that was cut, never does: what a migration has   *)
(* done it does not take for a fault when it runs again.                   *)
OnlyBrokenRecordsBlockBoot ==
    phase = "failed" => \E v \in VMs : v \in torn \/ NoMAC(v) \/ DiskConflict(v)

(* docs/exploitation/diagnostic.rst:235-237: after a restart of the agent  *)
(* the resources that stayed transient are in error, from where they can   *)
(* be deleted.  The agent must start for that.                             *)
Restartable == phase # "failed"
=============================================================================

------------------------- MODULE MigrationInvariant -------------------------
(***************************************************************************)
(* The inductive invariant of the migrations: what every stop leaves, and  *)
(* what each migration can count on because the ones before it are done.   *)
(***************************************************************************)
EXTENDS Migration

(* A VM whose record still counts. *)
Live(v) == st[v] \notin {None, "deleted", "stopped"}
Busy(v, op) == job.op = op /\ job.vm = v

Elems(s) == {s[n] : n \in 1..Len(s)}
LegacyNames == {"subnet", "ip", "tap_id"}

(* The keys of a new record with interfaces N, of which p is primary. *)
NewRecord(N, p) == (N \X {"name", "subnet", "ip", "mac"})
                   \cup {<<p, "primary">>, <<"disk", "xvda">>, <<"vm", "body">>}

(* Whoever moves, writes, stops or purges a record finds it so.  A key of  *)
(* the old schema is still to be moved, the subnet's first; what is to be  *)
(* written completes a new record.                                         *)
MoveInv ==
    /\ phase = "nics" /\ st[job.vm] # None /\ job.vm \notin todo
    /\ job.todo \in Seq(LegacyNames)
    /\ \A k \in LegacyNames : <<"vm", k>> \in keys[job.vm] => k \in Elems(job.todo)
    /\ \A n \in 2..Len(job.todo) : job.todo[n] # "subnet"

WriteInv ==
    /\ phase = "up" /\ st[job.vm] = "creating" /\ job.todo \in Seq(Keys)
    /\ \E N \in {{"0"}, {"0", "1"}} : \E p \in N :
          keys[job.vm] \cup Elems(job.todo) = NewRecord(N, p)

PurgeInv == phase = "up" /\ st[job.vm] = "deleted" /\ keys[job.vm] \cap Legacy = {}

JobShape == job = [vm |-> job.vm, op |-> job.op, todo |-> job.todo]

JobInv ==
    /\ JobShape
    /\ \/ job = Idle
       \/ /\ job.vm \in VMs
          /\ \/ job.op = "move" /\ MoveInv
             \/ job.op = "write" /\ WriteInv
             \/ job.op = "stop" /\ phase = "up" /\ st[job.vm] = "deleting"
             \/ job.op = "purge" /\ PurgeInv

(* After the migration of the states there are only states of this         *)
(* version, and a transient one belongs to the job that is under way.      *)
StateInv(v) ==
    /\ phase = "states" =>
          /\ v \in todo => st[v] # None
          /\ st[v] # None /\ targetState(st[v]) # st[v] => v \in todo
    /\ phase \in {"nics", "macs", "tables", "names", "disks", "up"} =>
          /\ st[v] \in States \cup {None}
          /\ st[v] \in Transient => phase = "up" /\ job.vm = v

(* The primary mark is the last thing a move writes, the subnet the first; *)
(* of two disks for one name, the second keeps the first where it is.      *)
SchemaInv(v) ==
    /\ st[v] = None => keys[v] = {}
    /\ (\E i \in Index : <<i, "primary">> \in keys[v]) => keys[v] \cap Legacy = {}
    /\ <<"vm", "subnet">> \in keys[v] /\ Nics(v) # {} => <<"0", "subnet">> \in keys[v]
    /\ <<"disk", "other">> \in keys[v] => <<"disk", "sda">> \in keys[v]

(* What is left of the old schema once the interfaces are moved. *)
MovedInv(v) ==
    /\ phase = "nics" /\ v \in todo => keys[v] \cap Legacy # {} /\ Nics(v) = {}
    /\ phase = "nics" /\ keys[v] \cap Legacy # {} /\ Nics(v) = {} => v \in todo \/ Busy(v, "move")
    /\ phase \in {"macs", "tables", "names", "disks", "up"} => keys[v] \cap Legacy = {} \/ Nics(v) # {}

(* An entry of a MAC table is of an interface whose record has a subnet,   *)
(* and its MAC is copied before the table goes.                            *)
EntryInv(v) ==
    \A i \in Index : <<v, i>> \in table /\ Live(v) =>
       <<i, "subnet">> \in keys[v] \/ (i = "0" /\ <<"vm", "subnet">> \in keys[v])

MacInv(v) ==
    \A i \in Index :
      /\ phase = "macs" =>
            /\ <<v, i>> \in todo => i \in HasSubnet(v) /\ <<i, "mac">> \notin keys[v]
            /\ i \in HasSubnet(v) /\ <<i, "mac">> \notin keys[v] => <<v, i>> \in todo \/ st[v] = "deleted"
      /\ phase \in {"tables", "names", "disks"} =>
            (i \in HasSubnet(v) /\ <<i, "mac">> \notin keys[v] => st[v] = "deleted")
      /\ phase = "up" =>
            (i \in HasSubnet(v) /\ <<i, "mac">> \notin keys[v] =>
                st[v] = "deleted" \/ Busy(v, "write"))

TodoInv == /\ phase \in {"states", "nics", "disks"} => todo \subseteq VMs
           /\ phase \in {"macs", "tables", "names"} => todo \subseteq VMs \X Index

TableInv == /\ phase = "tables" => table \subseteq todo
            /\ phase \in {"names", "disks", "up"} => table = {}

NameInv(v) ==
    \A i \in Index :
      /\ phase = "names" =>
            /\ <<v, i>> \in todo => i \in HasSubnet(v)
            /\ i \in HasSubnet(v) /\ <<i, "name">> \notin keys[v] => <<v, i>> \in todo
      /\ phase \in {"disks", "up"} /\ Live(v) /\ ~Busy(v, "write") /\ i \in HasSubnet(v) =>
            <<i, "name">> \in keys[v]

DiskInv(v) == /\ phase = "disks" => (<<"disk", "sda">> \in keys[v] <=> v \in todo)
              /\ phase = "up" => <<"disk", "sda">> \notin keys[v]

KeptInv(v) == Live(v) => known[v] \subseteq HeldFacts(v)

(* A record that no stop has cut is whole, in one schema or in the other,  *)
(* or on the way from the first to the second.  A MAC that was ever known  *)
(* is in the record or in the table.                                       *)
Entered(v, i) == <<v, i>> \in table \/ <<i, "mac">> \notin known[v]

Before(v) == Single(keys[v]) /\ Entered(v, "0")
After(v)  == /\ Numbered(keys[v])
             /\ \A i \in Nics(v) : <<i, "mac">> \in keys[v] \/ Entered(v, i)
Between(v) == /\ Nics(v) = {"0"} /\ Entered(v, "0")
              /\ <<"0", "primary">> \notin keys[v]
              /\ \A k \in {"subnet", "ip"} : <<"0", k>> \in keys[v] \/ <<"vm", k>> \in keys[v]

WholeInv(v) ==
    v \notin torn /\ Live(v) /\ ~Busy(v, "write") =>
       /\ Equipped(keys[v])
       /\ IF Busy(v, "move") THEN Before(v) \/ Between(v) ELSE Before(v) \/ After(v)

RecordInv(v) == /\ SchemaInv(v) /\ EntryInv(v) /\ KeptInv(v) /\ WholeInv(v)
                /\ StateInv(v) /\ MovedInv(v) /\ MacInv(v) /\ NameInv(v) /\ DiskInv(v)

(* For every VM the invariants above: its record is whole unless a stop    *)
(* tore it, and the migrations behind the current one have left nothing to *)
(* do (the order of the migrations in run, and of the writes in each).     *)
MigrationInv ==
    /\ TypeOK /\ JobInv /\ TodoInv /\ TableInv /\ OnlyBrokenRecordsBlockBoot
    /\ \A v \in VMs : RecordInv(v)
=============================================================================

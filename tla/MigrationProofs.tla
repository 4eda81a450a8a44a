-------------------------- MODULE MigrationProofs ---------------------------
(***************************************************************************)
(* No stop of the agent loses an interface, for any number of VMs, in any  *)
(* layout of their records, and any number of stops.                       *)
(***************************************************************************)
EXTENDS MigrationInvariant, TLAPS

(* A migrated state is one of this version, and not transient. *)
LEMMA TargetFacts ==
    ASSUME NEW s \in RawStates
    PROVE  /\ targetState(s) \in States \ Transient
           /\ targetState(s) = "deleted" <=> s \in {"deleted", "stopped"}
           /\ s # None /\ targetState(s) # None
  BY DEF RawStates, targetState, legacyStates, States, Transient, None

LEMMA TargetStays ==
    ASSUME NEW s \in States \ Transient
    PROVE  targetState(s) = s
  BY Zenon DEF targetState, legacyStates, States, Transient

(* The order of the migrations. *)
LEMMA PhaseOrder ==
    ASSUME NextMigration
    PROVE  \/ phase = "states" /\ Enter("nics")
           \/ phase = "nics" /\ Enter("macs")
           \/ phase = "macs" /\ Enter("tables")
           \/ phase = "tables" /\ Enter("names")
           \/ phase = "names" /\ Enter("disks")
           \/ phase = "disks" /\ Enter("up")
  <1>1. PICK n \in 1..6 : phase = Phases[n] /\ Enter(Phases[n + 1])
    BY Zenon DEF NextMigration
  <1>2. n = 1 \/ n = 2 \/ n = 3 \/ n = 4 \/ n = 5 \/ n = 6
    OBVIOUS
  <1>3. /\ Phases[1] = "states" /\ Phases[2] = "nics" /\ Phases[3] = "macs" /\ Phases[4] = "tables"
        /\ Phases[5] = "names" /\ Phases[6] = "disks" /\ Phases[7] = "up"
    BY Zenon DEF Phases
  <1>4. 1 + 1 = 2 /\ 2 + 1 = 3 /\ 3 + 1 = 4 /\ 4 + 1 = 5 /\ 5 + 1 = 6 /\ 6 + 1 = 7
    OBVIOUS
  <1> QED
    BY <1>1, <1>2, <1>3, <1>4, Zenon

PhaseNames == {"states", "nics", "macs", "tables", "names", "disks", "up"}

LEMMA PhaseType == {Phases[n] : n \in 1..7} = PhaseNames
  BY DEF Phases, PhaseNames

LEMMA VisitsFacts ==
    /\ Visits["states"] = {v \in VMs : st[v] # None /\ targetState(st[v]) # st[v]}
    /\ Visits["nics"] = vmsToMigrate /\ Visits["macs"] = nicsWithoutMAC
    /\ Visits["tables"] = table /\ Visits["names"] = nicsWithoutName
    /\ Visits["disks"] = legacyDisks /\ Visits["up"] = {}
  BY Zenon DEF Visits

(* The job of a phase. *)
LEMMA JobFacts ==
    ASSUME JobInv
    PROVE  /\ JobShape
           /\ phase \notin {"nics", "up"} => job = Idle
           /\ job # Idle => job.vm \in VMs
           /\ job.op = "move" => job.vm \in VMs /\ MoveInv
           /\ job.op = "write" => job.vm \in VMs /\ WriteInv
           /\ job.op = "stop" => job.vm \in VMs /\ phase = "up" /\ st[job.vm] = "deleting"
           /\ job.op = "purge" => job.vm \in VMs /\ PurgeInv
           /\ job.op \in {None, "move", "write", "stop", "purge"}
           /\ job = Idle <=> job.op = None
  <1>1. Idle.op = None /\ None \notin {"move", "write", "stop", "purge"}
    BY Zenon DEF Idle, None
  <1>2. job = Idle \/ (job.op = "move" /\ phase = "nics") \/ phase = "up"
    BY Zenon DEF JobInv, MoveInv, WriteInv, PurgeInv
  <1> QED
    BY <1>1, <1>2, Zenon DEF JobInv

LEMMA IdleJob == ASSUME job' = Idle PROVE JobInv'
  <1>1. JobShape'
    BY Zenon DEF JobShape, Idle
  <1> QED
    BY <1>1, Zenon DEF JobInv

-----------------------------------------------------------------------------
(* Records that a step leaves alone *)

Same(v) == /\ st'[v] = st[v] /\ keys'[v] = keys[v] /\ known'[v] = known[v]
           /\ \A i \in Index : <<v, i>> \in table' <=> <<v, i>> \in table

(* The step is about another VM. *)
Still(v) == /\ phase' = phase /\ torn' = torn
            /\ phase \in {"states", "nics", "disks"} => (v \in todo' <=> v \in todo)
            /\ phase \in {"macs", "tables", "names"} =>
                  \A i \in Index : <<v, i>> \in todo' <=> <<v, i>> \in todo
            /\ job' = job \/ (job.vm # v /\ job'.vm # v)

LEMMA SameFacts ==
    ASSUME NEW v, Same(v)
    PROVE  /\ Live(v)' = Live(v) /\ Nics(v)' = Nics(v) /\ HasSubnet(v)' = HasSubnet(v)
           /\ HeldFacts(v)' = HeldFacts(v) /\ Before(v)' = Before(v) /\ After(v)' = After(v)
           /\ Between(v)' = Between(v)
           /\ SchemaInv(v)' = SchemaInv(v) /\ EntryInv(v)' = EntryInv(v) /\ KeptInv(v)' = KeptInv(v)
  <1>1. Live(v)' = Live(v) /\ Nics(v)' = Nics(v) /\ HasSubnet(v)' = HasSubnet(v)
    BY Zenon DEF Same, Live, Nics, HasSubnet
  <1>2. HeldFacts(v)' = HeldFacts(v)
    BY Zenon DEF Same, HeldFacts
  <1>3. Before(v)' = Before(v) /\ Between(v)' = Between(v)
    BY <1>1, Zenon DEF Same, Before, Between, Entered, Index
  <1>4. After(v)' = After(v)
    <2>1. \A i \in Nics(v) : i \in Index
      BY Zenon DEF Nics, NicsIn
    <2> QED
      BY <1>1, <2>1, Zenon DEF Same, After, Entered
  <1>5. SchemaInv(v)' = SchemaInv(v)
    BY <1>1, Zenon DEF Same, SchemaInv
  <1>6. EntryInv(v)' = EntryInv(v)
    BY <1>1, Zenon DEF Same, EntryInv
  <1>7. KeptInv(v)' = KeptInv(v)
    BY <1>1, <1>2, Zenon DEF Same, KeptInv
  <1> QED
    BY <1>1, <1>2, <1>3, <1>4, <1>5, <1>6, <1>7, Zenon

LEMMA Untouched ==
    ASSUME NEW v \in VMs, RecordInv(v), Same(v), Still(v)
    PROVE  RecordInv(v)'
  <1>1. SchemaInv(v)' /\ EntryInv(v)' /\ KeptInv(v)'
    BY SameFacts, Zenon DEF RecordInv
  <1>2. \A op : Busy(v, op)' = Busy(v, op)
    BY Zenon DEF Still, Busy
  <1>3. WholeInv(v)'
    BY <1>2, SameFacts, Zenon DEF RecordInv, WholeInv, Still, Same
  <1>4. StateInv(v)'
    BY Zenon DEF RecordInv, StateInv, Still, Same
  <1>5. MovedInv(v)'
    BY <1>2, SameFacts, Zenon DEF RecordInv, MovedInv, Still, Same
  <1>6. MacInv(v)'
    BY <1>2, SameFacts, Zenon DEF RecordInv, MacInv, Still, Same
  <1>7. NameInv(v)'
    BY <1>2, SameFacts, Zenon DEF RecordInv, NameInv, Still, Same
  <1>8. DiskInv(v)'
    BY Zenon DEF RecordInv, DiskInv, Still, Same
  <1> QED
    BY <1>1, <1>3, <1>4, <1>5, <1>6, <1>7, <1>8, Zenon DEF RecordInv

-----------------------------------------------------------------------------
(* Steps that leave every record alone *)

(* The phase changes while no job is under way. *)
LEMMA PhaseStep ==
    ASSUME MigrationInv, UNCHANGED <<st, keys, table, known, torn>>, job = Idle, job' = Idle,
           TypeOK', TodoInv', TableInv', OnlyBrokenRecordsBlockBoot',
           \A v \in VMs : StateInv(v)' /\ MovedInv(v)' /\ MacInv(v)' /\ NameInv(v)' /\ DiskInv(v)'
    PROVE  MigrationInv'
  <1>1. JobInv'
    BY IdleJob, Zenon
  <1>2. ASSUME NEW v \in VMs PROVE SchemaInv(v)' /\ EntryInv(v)' /\ KeptInv(v)' /\ WholeInv(v)'
    <2>1. Same(v) /\ RecordInv(v)
      BY Zenon DEF Same, MigrationInv
    <2>2. SchemaInv(v)' /\ EntryInv(v)' /\ KeptInv(v)'
      BY <2>1, SameFacts, Zenon DEF RecordInv
    <2>3. ~Busy(v, "move") /\ ~Busy(v, "write") /\ ~Busy(v, "move")' /\ ~Busy(v, "write")'
      BY Zenon DEF Busy, Idle, None
    <2>4. WholeInv(v)'
      BY <2>1, <2>3, SameFacts, Zenon DEF RecordInv, WholeInv, Same
    <2> QED
      BY <2>2, <2>4, Zenon
  <1> QED
    BY <1>1, <1>2, Zenon DEF MigrationInv, RecordInv

LEMMA BootKeeps ==
    ASSUME MigrationInv, Boot
    PROVE  MigrationInv'
  <1>1. job = Idle /\ job' = Idle
    BY JobFacts, Zenon DEF MigrationInv, Boot
  <1>2. phase' = "states" /\ todo' = {v \in VMs : st[v] # None /\ targetState(st[v]) # st[v]}
    BY VisitsFacts, Zenon DEF Boot, Enter
  <1>3. TypeOK'
    BY <1>2, PhaseType, Zenon DEF MigrationInv, TypeOK, Boot, PhaseNames
  <1>4. TodoInv' /\ TableInv' /\ OnlyBrokenRecordsBlockBoot'
    BY <1>2, Zenon DEF TodoInv, TableInv, OnlyBrokenRecordsBlockBoot
  <1>5. ASSUME NEW v \in VMs
        PROVE  StateInv(v)' /\ MovedInv(v)' /\ MacInv(v)' /\ NameInv(v)' /\ DiskInv(v)'
    BY <1>2, Zenon DEF StateInv, MovedInv, MacInv, NameInv, DiskInv, Boot
  <1> QED
    BY <1>1, <1>3, <1>4, <1>5, PhaseStep, Zenon DEF Boot

LEMMA NextMigrationKeeps ==
    ASSUME MigrationInv, NextMigration
    PROVE  MigrationInv'
  <1>1. /\ job = Idle /\ job' = Idle /\ todo = {}
        /\ UNCHANGED <<st, keys, table, job, stops, known, torn>>
    BY Zenon DEF NextMigration
  <1>2. phase' \in PhaseNames \ {"states"} /\ todo' = Visits[phase']
    BY PhaseOrder, Zenon DEF PhaseNames, Enter
  <1>3. TypeOK'
    BY <1>1, <1>2, PhaseType, Zenon DEF MigrationInv, TypeOK
  <1>4. TodoInv'
    BY <1>2, VisitsFacts, <1>3, Zenon
       DEF TodoInv, vmsToMigrate, nicsWithoutMAC, nicsWithoutName, legacyDisks, PhaseNames,
           TypeOK, NextMigration
  <1>5. OnlyBrokenRecordsBlockBoot'
    BY <1>2, Zenon DEF OnlyBrokenRecordsBlockBoot, PhaseNames
  <1>6. TableInv'
    BY <1>1, PhaseOrder, VisitsFacts, Zenon DEF TableInv, MigrationInv, Enter
  <1>7. ASSUME NEW v \in VMs
        PROVE  StateInv(v)' /\ MovedInv(v)' /\ MacInv(v)' /\ NameInv(v)' /\ DiskInv(v)'
    <2>1. RecordInv(v) /\ Same(v) /\ st[v] \in RawStates \cup {None}
      BY <1>1, Zenon DEF MigrationInv, Same, TypeOK
    <2>2. ~Busy(v, "move") /\ ~Busy(v, "write")
      BY <1>1, Zenon DEF Busy, Idle, None
    <2>3. StateInv(v)'
      <3>1. CASE phase = "states"
        <4>1. st[v] \in (States \ Transient) \cup {None}
          BY <1>1, <2>1, <3>1, TargetFacts DEF RecordInv, StateInv
        <4> QED
          BY <1>1, <1>2, <4>1, Zenon DEF StateInv, PhaseNames, Transient, None
      <3>2. CASE phase # "states"
        <4>1. phase \in {"nics", "macs", "tables", "names", "disks"}
          BY <3>2, PhaseOrder, Zenon
        <4>2. st[v] \in States \cup {None} /\ st[v] \notin Transient
          BY <2>1, <4>1, Zenon DEF RecordInv, StateInv
        <4> QED
          BY <1>1, <1>2, <4>2, Zenon DEF StateInv, PhaseNames
      <3> QED
        BY <3>1, <3>2, Zenon
    <2>4. MovedInv(v)'
      <3>1. CASE phase = "states"
        BY <1>1, <3>1, PhaseOrder, VisitsFacts, SameFacts, <2>1, Zenon DEF MovedInv, Enter, vmsToMigrate
      <3>2. CASE phase # "states"
        <4>1. keys[v] \cap Legacy = {} \/ Nics(v) # {}
          BY <1>1, <2>1, <2>2, <3>2, PhaseOrder, Zenon DEF RecordInv, MovedInv
        <4>2. phase' # "nics"
          BY <3>2, PhaseOrder, Zenon DEF Enter
        <4> QED
          BY <1>1, <2>1, <4>1, <4>2, SameFacts, Zenon DEF MovedInv
      <3> QED
        BY <3>1, <3>2, Zenon
    <2>5. MacInv(v)'
      <3>1. CASE phase = "nics"
        <4>1. phase' = "macs" /\ todo' = nicsWithoutMAC
          BY <3>1, PhaseOrder, VisitsFacts, Zenon DEF Enter
        <4> QED
          BY <1>1, <2>1, <4>1, SameFacts, Zenon DEF MacInv, nicsWithoutMAC
      <3>2. CASE phase = "macs"
        BY <1>1, <2>1, <3>2, PhaseOrder, SameFacts, Zenon DEF MacInv, Enter, RecordInv
      <3>3. CASE phase = "states"
        BY <3>3, PhaseOrder, Zenon DEF MacInv, Enter
      <3>4. CASE phase \in {"tables", "names", "disks"}
        <4>1. \A i \in HasSubnet(v) : <<i, "mac">> \notin keys[v] => st[v] = "deleted"
          BY <2>1, <3>4, Zenon DEF RecordInv, MacInv, HasSubnet
        <4>2. phase' \in {"names", "disks", "up"}
          BY <3>4, PhaseOrder, Zenon DEF Enter
        <4> QED
          BY <2>1, <4>1, <4>2, SameFacts, Zenon DEF MacInv, Same
      <3> QED
        BY <3>1, <3>2, <3>3, <3>4, PhaseOrder, Zenon
    <2>6. NameInv(v)'
      <3>1. CASE phase = "tables"
        <4>1. phase' = "names" /\ todo' = nicsWithoutName
          BY <3>1, PhaseOrder, VisitsFacts, Zenon DEF Enter
        <4> QED
          BY <1>1, <2>1, <4>1, SameFacts, Zenon DEF NameInv, nicsWithoutName
      <3>2. CASE phase = "names"
        BY <1>1, <2>1, <3>2, PhaseOrder, SameFacts, Zenon DEF NameInv, Enter, RecordInv
      <3>3. CASE phase = "disks"
        BY <1>1, <2>1, <2>2, <3>3, PhaseOrder, SameFacts, Zenon DEF NameInv, Enter, RecordInv
      <3>4. CASE phase \notin {"tables", "names", "disks"}
        BY <3>4, PhaseOrder, Zenon DEF NameInv, Enter
      <3> QED
        BY <3>1, <3>2, <3>3, <3>4, Zenon
    <2>7. DiskInv(v)'
      <3>1. CASE phase = "names"
        <4>1. phase' = "disks" /\ todo' = legacyDisks
          BY <3>1, PhaseOrder, VisitsFacts, Zenon DEF Enter
        <4> QED
          BY <1>1, <4>1, Zenon DEF DiskInv, legacyDisks
      <3>2. CASE phase = "disks"
        BY <1>1, <2>1, <3>2, PhaseOrder, Zenon DEF DiskInv, Enter, RecordInv
      <3>3. CASE phase \notin {"names", "disks"}
        BY <3>3, PhaseOrder, Zenon DEF DiskInv, Enter
      <3> QED
        BY <3>1, <3>2, <3>3, Zenon
    <2> QED
      BY <2>3, <2>4, <2>5, <2>6, <2>7, Zenon
  <1> QED
    BY <1>1, <1>3, <1>4, <1>5, <1>6, <1>7, PhaseStep, Zenon

(* The agent stops: a move or a creation that is cut tears its record,     *)
(* unless nothing was written yet.                                         *)
LEMMA StopKeeps ==
    ASSUME MigrationInv, Stop
    PROVE  MigrationInv'
  <1>1. /\ UNCHANGED <<st, keys, table, known>> /\ phase' = "off" /\ job' = Idle /\ torn \subseteq torn'
        /\ job.op = "write" \/ (job.op = "move" /\ Nics(job.vm) # {}) => job.vm \in torn'
    BY Zenon DEF Stop
  <1>2. TypeOK'
    <2>1. stops' \in 0..MaxStops
      BY LayoutsAssumption DEF MigrationInv, TypeOK, Stop
    <2>2. torn' \subseteq VMs
      BY JobFacts, <1>1, Zenon DEF MigrationInv, TypeOK, Stop, None
    <2> QED
      BY <1>1, <2>1, <2>2, Zenon DEF MigrationInv, TypeOK, Idle
  <1>3. JobInv' /\ TodoInv' /\ TableInv' /\ OnlyBrokenRecordsBlockBoot'
    BY <1>1, IdleJob, Zenon DEF TodoInv, TableInv, OnlyBrokenRecordsBlockBoot
  <1>4. ASSUME NEW v \in VMs PROVE RecordInv(v)'
    <2>1. RecordInv(v) /\ Same(v)
      BY <1>1, Zenon DEF MigrationInv, Same
    <2>2. SchemaInv(v)' /\ EntryInv(v)' /\ KeptInv(v)'
      BY <2>1, SameFacts, Zenon DEF RecordInv
    <2>3. StateInv(v)' /\ MovedInv(v)' /\ MacInv(v)' /\ NameInv(v)' /\ DiskInv(v)'
      BY <1>1, Zenon DEF StateInv, MovedInv, MacInv, NameInv, DiskInv
    <2>4. WholeInv(v)'
      <3> SUFFICES ASSUME v \notin torn', Live(v)
                   PROVE  Equipped(keys[v]) /\ (Before(v) \/ After(v))
        BY <1>1, <2>1, SameFacts, Zenon DEF WholeInv, Busy, Idle, None
      <3>1. v \notin torn /\ ~Busy(v, "write") /\ (Busy(v, "move") => Nics(v) = {})
        BY <1>1, Zenon DEF Busy
      <3> QED
        BY <2>1, <3>1, Zenon DEF RecordInv, WholeInv, Between
    <2> QED
      BY <2>2, <2>3, <2>4, Zenon DEF RecordInv
  <1> QED
    BY <1>2, <1>3, <1>4, Zenon DEF MigrationInv

-----------------------------------------------------------------------------
(* Steps that change one record *)

LEMMA OneRecord ==
    ASSUME MigrationInv, NEW v \in VMs, phase' = phase, phase # "failed", torn' = torn,
           TypeOK', JobInv', TodoInv', TableInv', RecordInv(v)',
           \A w \in VMs \ {v} : Same(w) /\ Still(w)
    PROVE  MigrationInv'
  <1>1. ASSUME NEW w \in VMs \ {v} PROVE RecordInv(w)'
    BY <1>1, Untouched, Zenon DEF MigrationInv
  <1>2. OnlyBrokenRecordsBlockBoot'
    BY Zenon DEF MigrationInv, OnlyBrokenRecordsBlockBoot
  <1> QED
    BY <1>1, <1>2, Zenon DEF MigrationInv

LEMMA MigrateStatesKeeps ==
    ASSUME MigrationInv, MigrateStates
    PROVE  MigrationInv'
  <1>1. PICK v \in todo : st' = [st EXCEPT ![v] = targetState(@)] /\ todo' = todo \ {v}
    BY Zenon DEF MigrateStates, Visited
  <1>2. /\ phase = "states" /\ UNCHANGED <<keys, table, phase, job, stops, known, torn>>
        /\ v \in VMs /\ todo \subseteq VMs /\ job = Idle /\ TypeOK /\ RecordInv(v)
    BY JobFacts, Zenon DEF MigrateStates, MigrationInv, TodoInv
  <1>3. st[v] \in RawStates /\ st'[v] = targetState(st[v])
    BY <1>1, <1>2, Zenon DEF RecordInv, StateInv, TypeOK
  <1>4. st'[v] \in States \ Transient /\ (st'[v] = "deleted" <=> st[v] \in {"deleted", "stopped"})
    BY <1>3, TargetFacts
  <1>5. Live(v)' = Live(v) /\ st'[v] # None
    BY <1>3, <1>4, TargetFacts, Zenon DEF Live, States
  <1>6. TypeOK'
    BY <1>1, <1>2, <1>4, Zenon DEF TypeOK, RawStates
  <1>7. JobInv' /\ TodoInv' /\ TableInv'
    BY <1>1, <1>2, IdleJob, Zenon DEF TodoInv, TableInv
  <1>8. ASSUME NEW w \in VMs \ {v} PROVE Same(w) /\ Still(w)
    BY <1>1, <1>2, Zenon DEF Same, Still, TypeOK
  <1>9. RecordInv(v)'
    <2>1. /\ Nics(v)' = Nics(v) /\ HeldFacts(v)' = HeldFacts(v) /\ Before(v)' = Before(v)
          /\ After(v)' = After(v)
      BY <1>2, Zenon DEF Nics, HeldFacts, Before, After, Entered
    <2>2. SchemaInv(v)' /\ EntryInv(v)' /\ KeptInv(v)'
      BY <1>2, <1>5, <2>1, Zenon DEF RecordInv, SchemaInv, EntryInv, KeptInv
    <2>3. WholeInv(v)'
      BY <1>2, <1>5, <2>1, Zenon DEF RecordInv, WholeInv, Busy, Idle, None
    <2>4. StateInv(v)'
      BY <1>1, <1>2, <1>4, TargetStays, Zenon DEF StateInv
    <2>5. MovedInv(v)' /\ MacInv(v)' /\ NameInv(v)' /\ DiskInv(v)'
      BY <1>2, Zenon DEF MovedInv, MacInv, NameInv, DiskInv
    <2> QED
      BY <2>2, <2>3, <2>4, <2>5, Zenon DEF RecordInv
  <1> QED
    BY <1>2, <1>6, <1>7, <1>8, <1>9, OneRecord, Zenon

-----------------------------------------------------------------------------
(* The move of an interface to nic/ keys *)

LEMMA ElemsFacts ==
    ASSUME NEW S, NEW s \in Seq(S), s # <<>>
    PROVE  /\ Tail(s) \in Seq(S) /\ Head(s) \in S /\ Head(s) = s[1]
           /\ Elems(s) = {Head(s)} \cup Elems(Tail(s))
           /\ Len(Tail(s)) = Len(s) - 1 /\ Len(s) \in Nat
           /\ \A n \in 1..Len(Tail(s)) : n + 1 \in 1..Len(s) /\ Tail(s)[n] = s[n + 1]
  <1>1. /\ Tail(s) \in Seq(S) /\ Head(s) \in S /\ Head(s) = s[1]
        /\ Len(Tail(s)) = Len(s) - 1 /\ Len(s) \in Nat \ {0}
    OBVIOUS
  <1>2. \A n \in 1..Len(Tail(s)) : n + 1 \in 1..Len(s) /\ Tail(s)[n] = s[n + 1]
    BY <1>1
  <1>3. ASSUME NEW x \in Elems(s) PROVE x \in {Head(s)} \cup Elems(Tail(s))
    <2>1. PICK n \in 1..Len(s) : x = s[n]
      BY Zenon DEF Elems
    <2>2. CASE n = 1
      BY <1>1, <2>1, <2>2, Zenon
    <2>3. CASE n # 1
      <3>1. n - 1 \in 1..Len(Tail(s)) /\ (n - 1) + 1 = n
        BY <1>1, <2>1, <2>3
      <3> QED
        BY <1>2, <2>1, <3>1, Zenon DEF Elems
    <2> QED
      BY <2>2, <2>3, Zenon
  <1>4. ASSUME NEW x \in {Head(s)} \cup Elems(Tail(s)) PROVE x \in Elems(s)
    <2>1. CASE x = Head(s)
      BY <1>1, <2>1 DEF Elems
    <2>2. CASE x \in Elems(Tail(s))
      BY <1>2, <2>2, Zenon DEF Elems
    <2> QED
      BY <2>1, <2>2, Zenon
  <1> QED
    BY <1>1, <1>2, <1>3, <1>4, Zenon

LEMMA JoinFacts ==
    ASSUME NEW S, NEW a \in Seq(S), NEW b \in Seq(S)
    PROVE  /\ a \o b \in Seq(S) /\ Elems(a \o b) = Elems(a) \cup Elems(b)
           /\ Len(a) \in Nat /\ Len(b) \in Nat /\ Len(a \o b) = Len(a) + Len(b)
           /\ \A n \in 1..Len(a \o b) :
                 IF n <= Len(a) THEN n \in 1..Len(a) /\ (a \o b)[n] = a[n]
                                ELSE (a \o b)[n] \in Elems(b)
  <1>1. a \o b \in Seq(S) /\ Len(a) \in Nat /\ Len(b) \in Nat /\ Len(a \o b) = Len(a) + Len(b)
    OBVIOUS
  <1>2. ASSUME NEW n \in 1..Len(a) PROVE n \in 1..Len(a \o b) /\ (a \o b)[n] = a[n]
    BY <1>1
  <1>3. ASSUME NEW n \in 1..Len(b)
        PROVE  Len(a) + n \in 1..Len(a \o b) /\ (a \o b)[Len(a) + n] = b[n]
    BY <1>1
  <1>4. ASSUME NEW n \in 1..Len(a \o b), ~(n <= Len(a)) PROVE (a \o b)[n] \in Elems(b)
    <2>1. n - Len(a) \in 1..Len(b) /\ Len(a) + (n - Len(a)) = n
      BY <1>1, <1>4
    <2> QED
      BY <1>3, <2>1, Zenon DEF Elems
  <1>5. Elems(a \o b) \subseteq Elems(a) \cup Elems(b)
    <2> SUFFICES ASSUME NEW n \in 1..Len(a \o b) PROVE (a \o b)[n] \in Elems(a) \cup Elems(b)
      BY Zenon DEF Elems
    <2>1. CASE n <= Len(a)
      BY <1>1, <1>2, <2>1 DEF Elems
    <2> QED
      BY <1>4, <2>1, Zenon
  <1>6. Elems(a) \subseteq Elems(a \o b)
    BY <1>2, Zenon DEF Elems
  <1>7. Elems(b) \subseteq Elems(a \o b)
    BY <1>3, Zenon DEF Elems
  <1>8. \A n \in 1..Len(a \o b) : n <= Len(a) => n \in 1..Len(a)
    BY <1>1
  <1> QED
    BY <1>1, <1>2, <1>4, <1>5, <1>6, <1>7, <1>8, Zenon

LEMMA OneElem ==
    ASSUME NEW S, NEW x \in S
    PROVE  <<x>> \in Seq(S) /\ Len(<<x>>) = 1 /\ Elems(<<x>>) = {x}
  BY DEF Elems

LEMMA NoElems == ASSUME NEW S PROVE <<>> \in Seq(S) /\ Len(<<>>) = 0 /\ Elems(<<>>) = {}
  BY DEF Elems

(* The keys there are, in the order of legacyNICKeys. *)
LEMMA Listed ==
    ASSUME NEW v, NEW s, s = IfThere(v, legacyNICKeys[1]) \o IfThere(v, legacyNICKeys[2])
                             \o IfThere(v, legacyNICKeys[3])
    PROVE  /\ s \in Seq(LegacyNames)
           /\ \A k \in LegacyNames : <<"vm", k>> \in keys[v] => k \in Elems(s)
           /\ \A n \in 2..Len(s) : s[n] # "subnet"
  <1> DEFINE a == IfThere(v, "subnet")  b == IfThere(v, "ip")  c == IfThere(v, "tap_id")
             d == a \o b
  <1>1. s = d \o c
    BY Zenon DEF legacyNICKeys
  <1>2. ASSUME NEW k \in LegacyNames
        PROVE  /\ IfThere(v, k) \in Seq(LegacyNames) /\ Len(IfThere(v, k)) <= 1
               /\ Elems(IfThere(v, k)) = IF <<"vm", k>> \in keys[v] THEN {k} ELSE {}
    <2>1. CASE <<"vm", k>> \in keys[v]
      <3>1. IfThere(v, k) = <<k>>
        BY <2>1, Zenon DEF IfThere
      <3> QED
        BY <2>1, <3>1, OneElem
    <2>2. CASE <<"vm", k>> \notin keys[v]
      <3>1. IfThere(v, k) = <<>>
        BY <2>2, Zenon DEF IfThere
      <3> QED
        BY <2>2, <3>1, NoElems
    <2> QED
      BY <2>1, <2>2, Zenon
  <1>3. /\ a \in Seq(LegacyNames) /\ b \in Seq(LegacyNames) /\ c \in Seq(LegacyNames) /\ Len(a) <= 1
        /\ Elems(a) = IF <<"vm", "subnet">> \in keys[v] THEN {"subnet"} ELSE {}
        /\ Elems(b) = IF <<"vm", "ip">> \in keys[v] THEN {"ip"} ELSE {}
        /\ Elems(c) = IF <<"vm", "tap_id">> \in keys[v] THEN {"tap_id"} ELSE {}
    BY <1>2, Zenon DEF LegacyNames
  <1> HIDE DEF a, b, c
  <1>4. /\ d \in Seq(LegacyNames) /\ Elems(d) = Elems(a) \cup Elems(b)
        /\ Len(a) \in Nat /\ Len(d) \in Nat
        /\ \A n \in 1..Len(d) : ~(n <= Len(a)) => d[n] \in Elems(b)
    BY <1>3, JoinFacts, Zenon
  <1> HIDE DEF d
  <1>5. /\ s \in Seq(LegacyNames) /\ Elems(s) = Elems(d) \cup Elems(c) /\ Len(s) \in Nat
        /\ \A n \in 1..Len(s) :
              IF n <= Len(d) THEN n \in 1..Len(d) /\ s[n] = d[n] ELSE s[n] \in Elems(c)
    <2>1. /\ d \o c \in Seq(LegacyNames) /\ Elems(d \o c) = Elems(d) \cup Elems(c)
          /\ Len(d) \in Nat /\ Len(c) \in Nat /\ Len(d \o c) = Len(d) + Len(c)
          /\ \A n \in 1..Len(d \o c) :
                IF n <= Len(d) THEN n \in 1..Len(d) /\ (d \o c)[n] = d[n] ELSE (d \o c)[n] \in Elems(c)
      BY <1>3, <1>4, JoinFacts, Zenon
    <2>2. Len(d) + Len(c) \in Nat
      BY <2>1
    <2> QED
      BY <1>1, <2>1, <2>2, Zenon
  <1>6. ASSUME NEW n \in 2..Len(s) PROVE s[n] # "subnet"
    <2>1. n \in 1..Len(s) /\ ~(n <= Len(a))
      BY <1>3, <1>4, <1>5
    <2>2. s[n] \in Elems(b) \cup Elems(c)
      BY <1>4, <1>5, <2>1, Zenon
    <2> QED
      BY <1>3, <2>2, Zenon
  <1>7. \A k \in LegacyNames : <<"vm", k>> \in keys[v] => k \in Elems(s)
    BY <1>3, <1>4, <1>5, Zenon DEF LegacyNames
  <1> QED
    BY <1>5, <1>6, <1>7, Zenon

LEMMA TakeVMKeeps ==
    ASSUME MigrationInv, TakeVM
    PROVE  MigrationInv'
  <1>1. PICK v \in todo :
          /\ todo' = todo \ {v}
          /\ job' = [vm |-> v, op |-> "move",
                     todo |-> IfThere(v, legacyNICKeys[1]) \o IfThere(v, legacyNICKeys[2])
                              \o IfThere(v, legacyNICKeys[3])]
    BY Zenon DEF TakeVM, Visited
  <1>2. /\ phase = "nics" /\ UNCHANGED <<st, keys, table, phase, stops, known, torn>>
        /\ v \in VMs /\ todo \subseteq VMs /\ job = Idle /\ TypeOK /\ RecordInv(v)
    BY Zenon DEF TakeVM, MigrationInv, TodoInv
  <1>3. job'.vm = v /\ job'.op = "move"
    BY <1>1, Zenon
  <1>4. keys[v] \cap Legacy # {} /\ Nics(v) = {} /\ st[v] # None
    BY <1>2, Zenon DEF RecordInv, MovedInv, SchemaInv
  <1>5. TypeOK' /\ TodoInv' /\ TableInv'
    BY <1>1, <1>2, <1>3, Zenon DEF TypeOK, TodoInv, TableInv
  <1>6. JobInv'
    <2>1. /\ job'.todo \in Seq(LegacyNames)
          /\ \A k \in LegacyNames : <<"vm", k>> \in keys[v] => k \in Elems(job'.todo)
          /\ \A n \in 2..Len(job'.todo) : job'.todo[n] # "subnet"
      BY <1>1, Listed, Zenon
    <2>2. JobShape'
      BY <1>1, Zenon DEF JobShape
    <2>3. MoveInv'
      BY <1>1, <1>2, <1>3, <1>4, <2>1, Zenon DEF MoveInv
    <2> QED
      BY <1>2, <1>3, <2>2, <2>3, Zenon DEF JobInv
  <1>7. ASSUME NEW w \in VMs \ {v} PROVE Same(w) /\ Still(w)
    <2>1. job.vm # w
      BY <1>2, NoneAssumption, Zenon DEF Idle
    <2> QED
      BY <1>1, <1>2, <1>3, <2>1, Zenon DEF Same, Still
  <1>8. RecordInv(v)'
    <2>1. Same(v) /\ Busy(v, "move")' /\ ~Busy(v, "write") /\ ~Busy(v, "move")
      BY <1>2, <1>3, Zenon DEF Same, Busy, Idle, None
    <2>2. SchemaInv(v)' /\ EntryInv(v)' /\ KeptInv(v)'
      BY <1>2, <2>1, SameFacts, Zenon DEF RecordInv
    <2>3. ~After(v)
      BY <1>4, Zenon DEF After, Numbered, Nics
    <2>4. WholeInv(v)'
      BY <1>2, <2>1, <2>3, SameFacts, Zenon DEF RecordInv, WholeInv
    <2>5. StateInv(v)'
      BY <1>2, Zenon DEF RecordInv, StateInv
    <2>6. MovedInv(v)'
      BY <1>1, <1>2, <2>1, Zenon DEF MovedInv
    <2>7. MacInv(v)' /\ NameInv(v)' /\ DiskInv(v)'
      BY <1>2, Zenon DEF MacInv, NameInv, DiskInv
    <2> QED
      BY <2>2, <2>4, <2>5, <2>6, <2>7, Zenon DEF RecordInv
  <1> QED
    BY <1>2, <1>5, <1>6, <1>7, <1>8, OneRecord, Zenon

(* A step of a move changes the keys of its VM, and nothing else. *)
LEMMA MoveFacts ==
    ASSUME MigrationInv, Moving, NEW v \in VMs, v = job.vm,
           UNCHANGED <<st, table, phase, todo, stops, known, torn>>,
           keys' \in [VMs -> SUBSET Keys], \A w \in VMs \ {v} : keys'[w] = keys[w],
           job' = Idle \/ (job'.vm = v /\ job'.op = "move")
    PROVE  /\ st[v] # None /\ v \notin todo
           /\ keys[v] \in SUBSET Keys
           /\ RecordInv(v) /\ Busy(v, "move") /\ ~Busy(v, "write") /\ phase = "nics"
           /\ job.todo \in Seq(LegacyNames)
           /\ \A k \in LegacyNames : <<"vm", k>> \in keys[v] => k \in Elems(job.todo)
           /\ \A n \in 2..Len(job.todo) : job.todo[n] # "subnet"
           /\ TypeOK' /\ TodoInv' /\ TableInv'
           /\ \A w \in VMs \ {v} : Same(w) /\ Still(w)
           /\ StateInv(v)' /\ MacInv(v)' /\ NameInv(v)' /\ DiskInv(v)'
  <1>1. job # Idle /\ job.op = "move" /\ phase = "nics"
    BY DEF Moving, Idle, None
  <1>2. /\ st[v] # None /\ v \notin todo
        /\ job.todo \in Seq(LegacyNames)
        /\ \A k \in LegacyNames : <<"vm", k>> \in keys[v] => k \in Elems(job.todo)
        /\ \A n \in 2..Len(job.todo) : job.todo[n] # "subnet"
    BY <1>1, JobFacts, Zenon DEF MigrationInv, MoveInv
  <1>3. keys[v] \in SUBSET Keys /\ RecordInv(v)
    BY <1>2, Zenon DEF MigrationInv, TypeOK
  <1>4. Busy(v, "move") /\ ~Busy(v, "write")
    BY <1>1, Zenon DEF Busy
  <1>5. TypeOK'
    BY <1>2, <1>3 DEF MigrationInv, TypeOK, Idle
  <1>6. TodoInv' /\ TableInv'
    BY Zenon DEF MigrationInv, TodoInv, TableInv
  <1>7. ASSUME NEW w \in VMs \ {v} PROVE Same(w) /\ Still(w)
    <2>1. job.vm # w /\ job'.vm # w
      BY NoneAssumption DEF Idle
    <2>2. Still(w)
      BY <2>1, Zenon DEF Still
    <2> QED
      BY <2>2, Zenon DEF Same
  <1>8. StateInv(v)'
    BY <1>1, <1>3, Zenon DEF RecordInv, StateInv
  <1>9. MacInv(v)' /\ NameInv(v)' /\ DiskInv(v)'
    BY <1>1, Zenon DEF MacInv, NameInv, DiskInv
  <1> QED
    BY <1>1, <1>2, <1>3, <1>4, <1>5, <1>6, <1>7, <1>8, <1>9, Zenon


LEMMA NicsAdd ==
    ASSUME NEW K, NEW i \in Index, NEW k \in NicKey
    PROVE  NicsIn(K \cup {<<i, k>>}) = NicsIn(K) \cup {i}
  BY Zenon DEF NicsIn

LEMMA NicsSame ==
    ASSUME NEW K, NEW L, \A i \in Index, k \in NicKey : <<i, k>> \in K <=> <<i, k>> \in L
    PROVE  NicsIn(K) = NicsIn(L)
  BY Zenon DEF NicsIn

LEMMA AddKeyKeeps ==
    ASSUME MigrationInv, AddKey
    PROVE  MigrationInv'
  <1>0. PICK v \in VMs : v = job.vm
    BY JobFacts, Zenon DEF MigrationInv, AddKey, Moving
  <1> DEFINE k == Head(job.todo)
             K == keys[v] \cup {<<"0", k>>}
  <1>1. /\ Moving /\ job.todo # <<>> /\ job' = job /\ keys' = [keys EXCEPT ![v] = K]
        /\ UNCHANGED <<st, table, phase, todo, stops, known, torn>>
    BY <1>0, Zenon DEF AddKey
  <1>2. k \in LegacyNames /\ k \in NicKey /\ "0" \in Index /\ keys[v] \in SUBSET Keys
    <2>1. job.todo \in Seq(LegacyNames)
      BY <1>0, <1>1, JobFacts, Zenon DEF MigrationInv, MoveInv, Moving, JobShape
    <2> QED
      BY <1>0, <1>1, <2>1, ElemsFacts DEF LegacyNames, NicKey, Index, MigrationInv, TypeOK
  <1>3. /\ keys' \in [VMs -> SUBSET Keys] /\ keys'[v] = K
        /\ \A w \in VMs \ {v} : keys'[w] = keys[w]
    <2>1. K \in SUBSET Keys
      BY <1>2 DEF Keys
    <2> HIDE DEF K
    <2> QED
      BY <1>1, <2>1, Zenon DEF MigrationInv, TypeOK
  <1>4. job'.vm = v /\ job'.op = "move"
    BY <1>0, <1>1, Zenon DEF Moving
  <1>5. /\ st[v] # None /\ v \notin todo
        /\ RecordInv(v) /\ Busy(v, "move") /\ ~Busy(v, "write") /\ phase = "nics"
        /\ job.todo \in Seq(LegacyNames)
        /\ \A x \in LegacyNames : <<"vm", x>> \in keys[v] => x \in Elems(job.todo)
        /\ \A n \in 2..Len(job.todo) : job.todo[n] # "subnet"
        /\ TypeOK' /\ TodoInv' /\ TableInv'
        /\ \A w \in VMs \ {v} : Same(w) /\ Still(w)
        /\ StateInv(v)' /\ MacInv(v)' /\ NameInv(v)' /\ DiskInv(v)'
    BY <1>0, <1>1, <1>3, <1>4, MoveFacts, Zenon
  <1>6. NicsIn(K) = NicsIn(keys[v]) \cup {"0"} /\ Nics(v)' = NicsIn(K)
    <2>1. NicsIn(K) = NicsIn(keys[v]) \cup {"0"}
      BY <1>2, NicsAdd, Zenon
    <2> QED
      BY <1>3, <1>5, <2>1, Zenon DEF Nics
  <1>7. /\ keys[v] \subseteq K /\ <<"0", k>> \in K /\ K \cap Legacy = keys[v] \cap Legacy
        /\ \A x : <<"vm", x>> \in K <=> <<"vm", x>> \in keys[v]
        /\ \A i \in Index : <<i, "primary">> \in K <=> <<i, "primary">> \in keys[v]
        /\ <<"disk", "other">> \in K => <<"disk", "sda">> \in K
        /\ Equipped(keys[v]) => Equipped(K)
    <2>0. <<"disk", "other">> \in K => <<"disk", "sda">> \in K
      BY <1>5, Zenon DEF RecordInv, SchemaInv
    <2>1. keys[v] \subseteq K /\ <<"0", k>> \in K
      BY Zenon
    <2>2. \A x : <<"vm", x>> \in K <=> <<"vm", x>> \in keys[v]
      BY Zenon
    <2>3. K \cap Legacy = keys[v] \cap Legacy
      BY DEF Legacy
    <2>4. \A i \in Index : <<i, "primary">> \in K <=> <<i, "primary">> \in keys[v]
      BY <1>2, Zenon DEF LegacyNames
    <2> QED
      BY <2>0, <2>1, <2>2, <2>3, <2>4, Zenon DEF Equipped
  <1> HIDE DEF K, k
  <1>8. JobInv'
    <2>1. job' = job /\ v = job.vm /\ job.op = "move"
      BY <1>0, <1>1, <1>4, Zenon
    <2>2. JobShape'
      BY <2>1, JobFacts, Zenon DEF MigrationInv, JobShape
    <2>3. MoveInv'
      BY <1>1, <1>3, <1>5, <1>7, <2>1, Zenon DEF MoveInv
    <2> QED
      BY <2>1, <2>2, <2>3, Zenon DEF JobInv
  <1>9. SchemaInv(v)'
    <2>1. (\E i \in Index : <<i, "primary">> \in K) => K \cap Legacy = {}
      BY <1>3, <1>5, <1>7, Zenon DEF RecordInv, SchemaInv
    <2>2. <<"vm", "subnet">> \in K => <<"0", "subnet">> \in K
      <3> SUFFICES ASSUME <<"vm", "subnet">> \in K PROVE k = "subnet"
        BY <1>7, Zenon
      <3>1. PICK n \in 1..Len(job.todo) : job.todo[n] = "subnet"
        BY <1>3, <1>5, <1>7, Zenon DEF Elems, LegacyNames
      <3>2. n = 1 /\ k = job.todo[1]
        BY <1>1, <1>3, <1>5, <3>1, ElemsFacts DEF k
      <3> QED
        BY <3>1, <3>2, Zenon
    <2> QED
      BY <1>1, <1>3, <1>5, <1>7, <2>1, <2>2, Zenon DEF SchemaInv
  <1>10. EntryInv(v)' /\ KeptInv(v)'
    <2>1. Live(v)' = Live(v)
      BY <1>1, Zenon DEF Live
    <2>2. EntryInv(v)'
      BY <1>1, <1>3, <1>5, <1>7, <2>1, Zenon DEF RecordInv, EntryInv
    <2>3. HeldFacts(v) \subseteq HeldFacts(v)'
      BY <1>1, <1>3, <1>5, <1>7, Zenon DEF HeldFacts
    <2> QED
      BY <1>1, <1>3, <1>5, <2>1, <2>2, <2>3, Zenon DEF RecordInv, KeptInv
  <1>11. MovedInv(v)'
    BY <1>1, <1>3, <1>5, <1>6 DEF MovedInv
  <1>12. WholeInv(v)'
    <2> SUFFICES ASSUME v \notin torn, Live(v) PROVE Equipped(K) /\ Between(v)'
      BY <1>1, <1>3, <1>5, Zenon DEF WholeInv, Live, Busy
    <2>1. Equipped(keys[v]) /\ (Before(v) \/ Between(v))
      BY <1>3, <1>5, Zenon DEF RecordInv, WholeInv
    <2>2. Nics(v) \subseteq {"0"} /\ Entered(v, "0")
      BY <2>1, Zenon DEF Before, Between, Single, Nics
    <2>3. <<"0", "primary">> \notin keys[v]
      BY <2>1, <1>2, Zenon DEF Before, Between, Single, NicsIn, NicKey
    <2>4. \A x \in {"subnet", "ip"} : <<"0", x>> \in keys[v] \/ <<"vm", x>> \in keys[v]
      BY <2>1, Zenon DEF Before, Between, Single
    <2>5. NicsIn(K) = {"0"}
      BY <1>6, <2>2, Zenon DEF Nics
    <2>6. Between(v)'
      BY <1>1, <1>2, <1>3, <1>5, <1>6, <1>7, <2>2, <2>3, <2>4, <2>5, Zenon DEF Between, Entered
    <2> QED
      BY <1>7, <2>1, <2>6, Zenon
  <1>13. RecordInv(v)'
    BY <1>3, <1>5, <1>9, <1>10, <1>11, <1>12, Zenon DEF RecordInv
  <1> QED
    BY <1>1, <1>3, <1>5, <1>8, <1>13, OneRecord, Zenon


LEMMA DropKeyKeeps ==
    ASSUME MigrationInv, DropKey
    PROVE  MigrationInv'
  <1>0. PICK v \in VMs : v = job.vm
    BY JobFacts, Zenon DEF MigrationInv, DropKey, Moving
  <1> DEFINE k == Head(job.todo)
             K == keys[v] \ {<<"vm", k>>}
  <1>1. /\ Moving /\ job.todo # <<>> /\ job' = [job EXCEPT !.todo = Tail(@)]
        /\ keys' = [keys EXCEPT ![v] = K] /\ <<"0", k>> \in keys[v]
        /\ UNCHANGED <<st, table, phase, todo, stops, known, torn>>
    BY <1>0, Zenon DEF DropKey
  <1>2. /\ job.todo \in Seq(LegacyNames) /\ job.op = "move"
        /\ job = [vm |-> v, op |-> "move", todo |-> job.todo]
    BY <1>0, <1>1, JobFacts, Zenon DEF MigrationInv, MoveInv, Moving, JobShape
  <1>3. /\ job'.vm = v /\ job'.op = "move" /\ job'.todo = Tail(job.todo)
    BY <1>0, <1>1, <1>2, Zenon
  <1>4. /\ keys' \in [VMs -> SUBSET Keys] /\ keys'[v] = K
        /\ \A w \in VMs \ {v} : keys'[w] = keys[w]
    <2>1. K \in SUBSET Keys
      BY Zenon DEF MigrationInv, TypeOK
    <2> HIDE DEF K
    <2> QED
      BY <1>1, <2>1, Zenon DEF MigrationInv, TypeOK
  <1>5. /\ st[v] # None /\ v \notin todo
        /\ RecordInv(v) /\ Busy(v, "move") /\ ~Busy(v, "write") /\ phase = "nics"
        /\ \A x \in LegacyNames : <<"vm", x>> \in keys[v] => x \in Elems(job.todo)
        /\ \A n \in 2..Len(job.todo) : job.todo[n] # "subnet"
        /\ TypeOK' /\ TodoInv' /\ TableInv'
        /\ \A w \in VMs \ {v} : Same(w) /\ Still(w)
        /\ StateInv(v)' /\ MacInv(v)' /\ NameInv(v)' /\ DiskInv(v)'
    BY <1>0, <1>1, <1>3, <1>4, MoveFacts, Zenon
  <1>6. /\ K \subseteq keys[v] /\ <<"0", k>> \in K /\ <<"vm", k>> \notin K
        /\ \A x : x # k => (<<"vm", x>> \in K <=> <<"vm", x>> \in keys[v])
        /\ \A i \in Index, x \in NicKey : <<i, x>> \in K <=> <<i, x>> \in keys[v]
        /\ <<"disk", "other">> \in K => <<"disk", "sda">> \in K
        /\ Equipped(keys[v]) => Equipped(K)
    <2>0. <<"disk", "other">> \in K => <<"disk", "sda">> \in K
      BY <1>5, Zenon DEF RecordInv, SchemaInv
    <2>1. K \subseteq keys[v] /\ <<"0", k>> \in K /\ <<"vm", k>> \notin K
      BY <1>1, Zenon
    <2>2. \A x : x # k => (<<"vm", x>> \in K <=> <<"vm", x>> \in keys[v])
      BY Zenon
    <2>3. \A i \in Index, x \in NicKey : <<i, x>> \in K <=> <<i, x>> \in keys[v]
      BY Zenon DEF Index
    <2>4. k # "body"
      BY <1>1, <1>2, ElemsFacts DEF LegacyNames
    <2> QED
      BY <2>0, <2>1, <2>2, <2>3, <2>4, Zenon DEF Equipped
  <1>7. Nics(v)' = Nics(v) /\ NicsIn(K) = NicsIn(keys[v]) /\ "0" \in Nics(v)
    <2>1. NicsIn(K) = NicsIn(keys[v])
      BY <1>6, NicsSame
    <2>2. k \in NicKey
      BY <1>1, <1>2, ElemsFacts DEF LegacyNames, NicKey
    <2> QED
      BY <1>1, <1>4, <1>5, <2>1, <2>2, Zenon DEF Nics, NicsIn, Index
  <1>8. JobInv'
    <2>1. /\ Tail(job.todo) \in Seq(LegacyNames)
          /\ Elems(job.todo) = {k} \cup Elems(Tail(job.todo))
          /\ \A n \in 2..Len(Tail(job.todo)) : Tail(job.todo)[n] # "subnet"
      <3>1. /\ Tail(job.todo) \in Seq(LegacyNames) /\ Len(job.todo) \in Nat
            /\ Elems(job.todo) = {k} \cup Elems(Tail(job.todo))
            /\ Len(Tail(job.todo)) = Len(job.todo) - 1
            /\ \A n \in 1..Len(Tail(job.todo)) : Tail(job.todo)[n] = job.todo[n + 1]
        BY <1>1, <1>2, ElemsFacts, Zenon
      <3>2. ASSUME NEW n \in 2..Len(Tail(job.todo)) PROVE Tail(job.todo)[n] # "subnet"
        <4>1. n \in 1..Len(Tail(job.todo)) /\ n + 1 \in 2..Len(job.todo)
          BY <3>1
        <4> QED
          BY <1>4, <1>5, <3>1, <4>1, Zenon
      <3> QED
        BY <3>1, <3>2, Zenon
    <2>2. \A x \in LegacyNames : <<"vm", x>> \in K => x \in Elems(Tail(job.todo))
      BY <1>4, <1>5, <1>6, <2>1, Zenon
    <2> HIDE DEF K, k
    <2>3. JobShape'
      BY <1>1, <1>2, Zenon DEF JobShape
    <2>4. MoveInv'
      BY <1>1, <1>3, <1>4, <1>5, <2>1, <2>2, Zenon DEF MoveInv
    <2> QED
      BY <1>3, <2>3, <2>4, Zenon DEF JobInv
  <1> HIDE DEF K, k
  <1>9. SchemaInv(v)'
    <2>1. (\E i \in Index : <<i, "primary">> \in K) => K \cap Legacy = {}
      BY <1>4, <1>5, <1>6, Zenon DEF RecordInv, SchemaInv
    <2>2. <<"vm", "subnet">> \in K => <<"0", "subnet">> \in K
      BY <1>4, <1>5, <1>6, <1>7, Zenon DEF RecordInv, SchemaInv, Index, NicKey
    <2> QED
      BY <1>1, <1>4, <1>5, <1>6, <2>1, <2>2, Zenon DEF SchemaInv
  <1>10. EntryInv(v)' /\ KeptInv(v)'
    <2>1. Live(v)' = Live(v)
      BY <1>1, Zenon DEF Live
    <2>2. EntryInv(v)'
      <3>1. <<"vm", "subnet">> \in keys[v] => <<"vm", "subnet">> \in K \/ <<"0", "subnet">> \in K
        BY <1>6, Zenon
      <3>2. \A i \in Index : <<i, "subnet">> \in K <=> <<i, "subnet">> \in keys[v]
        BY <1>6, Zenon DEF NicKey
      <3> QED
        BY <1>1, <1>4, <1>5, <2>1, <3>1, <3>2, Zenon DEF RecordInv, EntryInv
    <2>3. ASSUME NEW f \in HeldFacts(v) PROVE f \in HeldFacts(v)'
      <3>1. PICK i \in Index, x \in {"subnet", "ip", "mac", "tap_id"} : f = <<i, x>>
        BY DEF HeldFacts
      <3>2. \/ <<i, x>> \in keys[v]
            \/ i = "0" /\ <<"vm", x>> \in keys[v]
            \/ x = "mac" /\ <<v, i>> \in table
        BY <2>3, <3>1, Zenon DEF HeldFacts
      <3>3. \/ <<i, x>> \in K
            \/ i = "0" /\ <<"vm", x>> \in K
            \/ x = "mac" /\ <<v, i>> \in table
        BY <1>6, <3>2, Zenon DEF NicKey
      <3> QED
        BY <1>1, <1>4, <1>5, <3>1, <3>3, Zenon DEF HeldFacts
    <2> QED
      BY <1>1, <1>4, <1>5, <2>1, <2>2, <2>3, Zenon DEF RecordInv, KeptInv
  <1>11. MovedInv(v)'
    BY <1>1, <1>4, <1>5, <1>7, Zenon DEF MovedInv
  <1>12. WholeInv(v)'
    <2> SUFFICES ASSUME v \notin torn, Live(v) PROVE Equipped(K) /\ Between(v)'
      BY <1>1, <1>3, <1>4, <1>5, Zenon DEF WholeInv, Live, Busy
    <2>1. Equipped(keys[v]) /\ Between(v)
      BY <1>4, <1>5, <1>7, Zenon DEF RecordInv, WholeInv, Before, Single, Nics
    <2>2. <<"0", "primary">> \notin K
      BY <1>6, <2>1, Zenon DEF Between
    <2>3. \A x \in {"subnet", "ip"} : <<"0", x>> \in K \/ <<"vm", x>> \in K
      <3> SUFFICES ASSUME NEW x \in {"subnet", "ip"} PROVE <<"0", x>> \in K \/ <<"vm", x>> \in K
        BY Zenon
      <3>1. <<"0", x>> \in keys[v] \/ <<"vm", x>> \in keys[v]
        BY <2>1, Zenon DEF Between
      <3> QED
        BY <1>6, <3>1, Zenon DEF Index, NicKey
    <2> QED
      BY <1>1, <1>4, <1>5, <1>6, <1>7, <2>1, <2>2, <2>3, Zenon DEF Between, Entered
  <1>13. RecordInv(v)'
    BY <1>4, <1>5, <1>9, <1>10, <1>11, <1>12, Zenon DEF RecordInv
  <1> QED
    BY <1>1, <1>4, <1>5, <1>8, <1>13, OneRecord, Zenon


LEMMA LegacyFacts ==
    /\ \A k \in LegacyNames : <<"vm", k>> \in Legacy
    /\ \A x \in Legacy : \E k \in LegacyNames : x = <<"vm", k>>
  BY DEF Legacy, legacyNICKeys, LegacyNames

(* One interface, and it is marked. *)
LEMMA MarkedOnce ==
    ASSUME NEW K, NEW i, NicsIn(K) = {i}, <<i, "primary">> \in K
    PROVE  OnePrimary(K)
  BY Zenon DEF OnePrimary

LEMMA MarkPrimaryKeeps ==
    ASSUME MigrationInv, MarkPrimary
    PROVE  MigrationInv'
  <1>0. PICK v \in VMs : v = job.vm
    BY JobFacts, Zenon DEF MigrationInv, MarkPrimary, Moving
  <1> DEFINE K == keys[v] \cup {<<"0", "primary">>}
  <1>1. /\ Moving /\ job.todo = <<>> /\ job' = Idle /\ keys' = [keys EXCEPT ![v] = K]
        /\ UNCHANGED <<st, table, phase, todo, stops, known, torn>>
    BY <1>0, Zenon DEF MarkPrimary
  <1>2. keys[v] \in SUBSET Keys /\ "0" \in Index /\ "primary" \in NicKey
    BY Zenon DEF MigrationInv, TypeOK, Index, NicKey
  <1>3. /\ keys' \in [VMs -> SUBSET Keys] /\ keys'[v] = K
        /\ \A w \in VMs \ {v} : keys'[w] = keys[w]
    <2>1. K \in SUBSET Keys
      BY <1>2 DEF Keys
    <2> HIDE DEF K
    <2> QED
      BY <1>1, <2>1, Zenon DEF MigrationInv, TypeOK
  <1>4. /\ st[v] # None /\ v \notin todo
        /\ RecordInv(v) /\ Busy(v, "move") /\ ~Busy(v, "write") /\ phase = "nics"
        /\ \A x \in LegacyNames : <<"vm", x>> \in keys[v] => x \in Elems(job.todo)
        /\ TypeOK' /\ TodoInv' /\ TableInv'
        /\ \A w \in VMs \ {v} : Same(w) /\ Still(w)
        /\ StateInv(v)' /\ MacInv(v)' /\ NameInv(v)' /\ DiskInv(v)'
    BY <1>0, <1>1, <1>3, MoveFacts, Zenon
  <1>5. keys[v] \cap Legacy = {} /\ <<"vm", "subnet">> \notin keys[v]
    <2>1. \A x \in LegacyNames : <<"vm", x>> \notin keys[v]
      BY <1>1, <1>4, NoElems, Zenon
    <2> QED
      BY <2>1, LegacyFacts, Zenon DEF LegacyNames
  <1>6. NicsIn(K) = NicsIn(keys[v]) \cup {"0"} /\ Nics(v)' = NicsIn(K)
    <2>1. NicsIn(K) = NicsIn(keys[v]) \cup {"0"}
      BY <1>2, NicsAdd, Zenon
    <2> QED
      BY <1>3, <2>1, Zenon DEF Nics
  <1>7. /\ keys[v] \subseteq K /\ <<"0", "primary">> \in K /\ K \cap Legacy = {}
        /\ <<"vm", "subnet">> \notin K
        /\ <<"disk", "other">> \in K => <<"disk", "sda">> \in K
        /\ Equipped(keys[v]) => Equipped(K)
    <2>0. <<"disk", "other">> \in K => <<"disk", "sda">> \in K
      BY <1>4, Zenon DEF RecordInv, SchemaInv
    <2>1. keys[v] \subseteq K /\ <<"0", "primary">> \in K /\ <<"vm", "subnet">> \notin K
      BY <1>5, Zenon
    <2>2. <<"0", "primary">> \notin Legacy
      BY LegacyFacts, Zenon
    <2> QED
      BY <1>5, <2>0, <2>1, <2>2, Zenon DEF Equipped
  <1> HIDE DEF K
  <1>8. JobInv' /\ ~Busy(v, "move")' /\ ~Busy(v, "write")'
    BY <1>1, IdleJob, Zenon DEF Busy, Idle, None
  <1>9. SchemaInv(v)' /\ MovedInv(v)'
    BY <1>1, <1>3, <1>4, <1>6, <1>7, Zenon DEF SchemaInv, MovedInv
  <1>10. EntryInv(v)' /\ KeptInv(v)'
    <2>1. Live(v)' = Live(v)
      BY <1>1, Zenon DEF Live
    <2>2. EntryInv(v)'
      BY <1>1, <1>3, <1>4, <1>7, <2>1, Zenon DEF RecordInv, EntryInv
    <2>3. HeldFacts(v) \subseteq HeldFacts(v)'
      BY <1>1, <1>3, <1>7, Zenon DEF HeldFacts
    <2> QED
      BY <1>1, <1>4, <2>1, <2>2, <2>3, Zenon DEF RecordInv, KeptInv
  <1>11. WholeInv(v)'
    <2> SUFFICES ASSUME v \notin torn, Live(v) PROVE Equipped(K) /\ After(v)'
      BY <1>1, <1>3, <1>8, Zenon DEF WholeInv, Live
    <2>1. Equipped(keys[v]) /\ Between(v)
      BY <1>4, <1>5, Zenon DEF RecordInv, WholeInv, Before, Single
    <2>2. NicsIn(K) = {"0"} /\ {<<"0", "subnet">>, <<"0", "ip">>} \subseteq K /\ Entered(v, "0")
      BY <1>5, <1>6, <1>7, <2>1, LegacyFacts, Zenon DEF Between, Nics, LegacyNames
    <2>3. Numbered(K)
      BY <1>7, <2>2, MarkedOnce, Zenon DEF Numbered
    <2> QED
      BY <1>1, <1>3, <1>6, <1>7, <2>1, <2>2, <2>3, Zenon DEF After, Entered
  <1>12. RecordInv(v)'
    BY <1>4, <1>9, <1>10, <1>11, Zenon DEF RecordInv
  <1> QED
    BY <1>1, <1>4, <1>8, <1>12, OneRecord, Zenon

-----------------------------------------------------------------------------
(* The other migrations *)

(* A migration adds or removes keys of one VM while no job is under way. *)
LEMMA VisitFacts ==
    ASSUME MigrationInv, NEW v \in VMs, phase \in {"macs", "tables", "names", "disks"},
           UNCHANGED <<st, job, stops, known, torn, phase>>,
           keys' \in [VMs -> SUBSET Keys], \A w \in VMs \ {v} : keys'[w] = keys[w],
           table' \subseteq table, todo' \subseteq todo,
           \A w \in VMs \ {v}, i \in Index : <<w, i>> \in table' <=> <<w, i>> \in table,
           phase = "disks" => \A w \in VMs \ {v} : w \in todo' <=> w \in todo,
           phase # "disks" => \A w \in VMs \ {v}, i \in Index : <<w, i>> \in todo' <=> <<w, i>> \in todo
    PROVE  /\ TypeOK' /\ JobInv' /\ TodoInv' /\ RecordInv(v) /\ job = Idle
           /\ \A w \in VMs \ {v} : Same(w) /\ Still(w)
           /\ StateInv(v)' /\ Live(v)' = Live(v)
           /\ \A op \in {"move", "write"} : ~Busy(v, op) /\ ~Busy(v, op)'
  <1>1. job = Idle /\ job' = Idle /\ RecordInv(v)
    BY JobFacts, Zenon DEF MigrationInv
  <1>2. TypeOK' /\ TodoInv'
    BY Zenon DEF MigrationInv, TypeOK, TodoInv
  <1>3. JobInv'
    BY <1>1, IdleJob, Zenon
  <1>4. ASSUME NEW w \in VMs \ {v} PROVE Same(w) /\ Still(w)
    BY <1>1, Zenon DEF Same, Still
  <1>5. StateInv(v)' /\ Live(v)' = Live(v)
    BY <1>1, Zenon DEF RecordInv, StateInv, Live
  <1>6. \A op \in {"move", "write"} : ~Busy(v, op) /\ ~Busy(v, op)'
    BY <1>1 DEF Busy, Idle, None
  <1> QED
    BY <1>1, <1>2, <1>3, <1>4, <1>5, <1>6, Zenon


(* An interface that is there gets its MAC or its name. *)
LEMMA NicKeyAdded ==
    ASSUME NEW v \in VMs, RecordInv(v), NEW i \in Index, i \in HasSubnet(v), NEW x \in {"mac", "name"},
           keys'[v] = keys[v] \cup {<<i, x>>}, st'[v] = st[v], known'[v] = known[v], table' = table
    PROVE  /\ Nics(v)' = Nics(v) /\ HasSubnet(v)' = HasSubnet(v)
           /\ keys[v] \subseteq keys'[v] /\ keys'[v] \cap Legacy = keys[v] \cap Legacy
           /\ \A j \in Index, y \in NicKey : <<j, y>> \in keys'[v] =>
                 <<j, y>> \in keys[v] \/ (j = i /\ y = x)
           /\ SchemaInv(v)' /\ EntryInv(v)' /\ KeptInv(v)'
           /\ Equipped(keys[v]) => Equipped(keys'[v])
           /\ Before(v) => Before(v)'
           /\ After(v) => After(v)'
  <1> DEFINE K == keys[v] \cup {<<i, x>>}
  <1>1. keys'[v] = K /\ keys[v] \subseteq K
    BY Zenon
  <1>2. <<i, "subnet">> \in keys[v] /\ x \in NicKey /\ "subnet" \in NicKey
    BY Zenon DEF HasSubnet, NicKey
  <1>3. NicsIn(K) = NicsIn(keys[v])
    <2>1. i \in NicsIn(keys[v])
      BY <1>2, Zenon DEF NicsIn
    <2>2. NicsIn(K) = NicsIn(keys[v]) \cup {i}
      BY <1>2, NicsAdd, Zenon
    <2> QED
      BY <2>1, <2>2, Zenon
  <1>4. \A j, y : <<j, y>> \in K => <<j, y>> \in keys[v] \/ (j = i /\ y = x)
    BY Zenon
  <1>5. /\ \A y : <<"vm", y>> \in K <=> <<"vm", y>> \in keys[v]
        /\ \A y : <<"disk", y>> \in K <=> <<"disk", y>> \in keys[v]
    <2>1. \A y : <<"vm", y>> \in K <=> <<"vm", y>> \in keys[v]
      BY Zenon DEF Index
    <2>2. \A y : <<"disk", y>> \in K <=> <<"disk", y>> \in keys[v]
      BY Zenon DEF Index
    <2> QED
      BY <2>1, <2>2, Zenon
  <1> HIDE DEF K
  <1>6. K \cap Legacy = keys[v] \cap Legacy
    BY <1>1, <1>5, LegacyFacts, Zenon
  <1>7. \A j : <<j, "subnet">> \in K <=> <<j, "subnet">> \in keys[v]
    BY <1>1, <1>4, Zenon
  <1>8. \A j : <<j, "primary">> \in K <=> <<j, "primary">> \in keys[v]
    BY <1>1, <1>4, Zenon
  <1>9. Nics(v)' = Nics(v) /\ HasSubnet(v)' = HasSubnet(v)
    BY <1>1, <1>3, <1>7, Zenon DEF Nics, HasSubnet
  <1>10. SchemaInv(v)'
    BY <1>1, <1>2, <1>5, <1>6, <1>7, <1>8, <1>9, Zenon DEF RecordInv, SchemaInv
  <1>11. EntryInv(v)'
    BY <1>1, <1>5, <1>7, Zenon DEF RecordInv, EntryInv, Live
  <1>12. KeptInv(v)'
    <2>1. HeldFacts(v) \subseteq HeldFacts(v)'
      BY <1>1, Zenon DEF HeldFacts
    <2> QED
      BY <2>1, Zenon DEF RecordInv, KeptInv, Live
  <1>13. Equipped(keys[v]) => Equipped(K)
    BY <1>1, Zenon DEF Equipped
  <1>14. Before(v) => Before(v)'
    BY <1>1, <1>3, Zenon DEF Before, Single, Entered
  <1>15. After(v) => After(v)'
    <2>1. OnePrimary(keys[v]) => OnePrimary(K)
      BY <1>3, <1>8, Zenon DEF OnePrimary
    <2>2. Numbered(keys[v]) => Numbered(K)
      BY <1>1, <1>3, <1>6, <2>1, Zenon DEF Numbered
    <2> QED
      BY <1>1, <1>9, <2>2, Zenon DEF After, Entered
  <1> QED
    BY <1>1, <1>4, <1>6, <1>9, <1>10, <1>11, <1>12, <1>13, <1>14, <1>15, Zenon

(* The MAC of an interface of a whole record is found, if it ever was. *)
LEMMA MACFound ==
    ASSUME MigrationInv, phase = "macs", NEW v \in VMs, NEW i \in Index,
           <<v, i>> \in todo, MACLost(v, i)
    PROVE  v \in torn \/ NoMAC(v)
  <1>1. RecordInv(v) /\ i \in HasSubnet(v) /\ <<i, "mac">> \notin keys[v] /\ job = Idle
    BY JobFacts, Zenon DEF MigrationInv, RecordInv, MacInv
  <1>2. <<i, "subnet">> \in keys[v] /\ i \in Nics(v)
    BY <1>1, Zenon DEF HasSubnet, Nics, NicsIn, NicKey
  <1>3. Live(v)
    BY <1>1, <1>2, Zenon DEF RecordInv, SchemaInv, StateInv, MACLost, Live, States, None
  <1>4. ~Busy(v, "write") /\ ~Busy(v, "move")
    BY <1>1, Zenon DEF Busy, Idle, None
  <1> SUFFICES ASSUME v \notin torn PROVE NoMAC(v)
    BY Zenon
  <1>5. After(v)
    BY <1>1, <1>2, <1>3, <1>4, Zenon DEF RecordInv, WholeInv, Before, Single, Nics
  <1>6. <<i, "mac">> \notin known[v]
    BY <1>1, <1>2, <1>5, Zenon DEF After, Entered, Numbered, Nics, MACLost
  <1> QED
    BY <1>1, <1>6, Zenon DEF NoMAC, MACLost

LEMMA MigrateVMMACsKeeps ==
    ASSUME MigrationInv, MigrateVMMACs
    PROVE  MigrationInv'
  <1>1. PICK p \in todo :
          /\ todo' = todo \ {p}
          /\ IF MACLost(p[1], p[2])
             THEN phase' = "failed" /\ UNCHANGED keys
             ELSE /\ keys' = [keys EXCEPT ![p[1]] =
                                 IF st[p[1]] = "deleted" THEN @ ELSE @ \cup {<<p[2], "mac">>}]
                  /\ UNCHANGED phase
    BY Zenon DEF MigrateVMMACs, Visited
  <1>2. phase = "macs" /\ UNCHANGED <<st, table, job, stops, known, torn>> /\ job = Idle
    BY JobFacts, Zenon DEF MigrateVMMACs, MigrationInv
  <1>3. PICK v \in VMs, i \in Index : p = <<v, i>>
    BY <1>2 DEF MigrationInv, TodoInv
  <1>4. p[1] = v /\ p[2] = i
    BY <1>3, Zenon
  <1>5. /\ RecordInv(v) /\ i \in HasSubnet(v) /\ <<i, "mac">> \notin keys[v]
        /\ keys \in [VMs -> SUBSET Keys]
    BY <1>2, <1>3, Zenon DEF MigrationInv, RecordInv, MacInv, TypeOK
  <1>6. CASE MACLost(v, i)
    <2>1. phase' = "failed" /\ keys' = keys
      BY <1>1, <1>4, <1>6, Zenon
    <2>2. v \in torn' \/ NoMAC(v)'
      <3>1. v \in torn \/ NoMAC(v)
        BY <1>2, <1>3, <1>6, MACFound, Zenon
      <3> QED
        BY <1>2, <2>1, <3>1, Zenon DEF NoMAC, HasSubnet
    <2>3. TypeOK' /\ TodoInv' /\ TableInv' /\ OnlyBrokenRecordsBlockBoot'
      BY <1>2, <2>1, <2>2, Zenon DEF MigrationInv, TypeOK, TodoInv, TableInv, OnlyBrokenRecordsBlockBoot
    <2>4. ASSUME NEW w \in VMs
          PROVE  StateInv(w)' /\ MovedInv(w)' /\ MacInv(w)' /\ NameInv(w)' /\ DiskInv(w)'
      BY <2>1, Zenon DEF StateInv, MovedInv, MacInv, NameInv, DiskInv
    <2> QED
      BY <1>2, <2>1, <2>3, <2>4, PhaseStep, Zenon
  <1>7. CASE ~MACLost(v, i)
    <2> DEFINE K == IF st[v] = "deleted" THEN keys[v] ELSE keys[v] \cup {<<i, "mac">>}
    <2>1. phase' = phase /\ keys' = [keys EXCEPT ![v] = K]
      BY <1>1, <1>4, <1>7, Zenon
    <2>2. K \in SUBSET Keys
      BY <1>5 DEF Keys, NicKey
    <2> HIDE DEF K
    <2>3. /\ keys' \in [VMs -> SUBSET Keys] /\ keys'[v] = K /\ \A w \in VMs \ {v} : keys'[w] = keys[w]
      BY <1>5, <2>1, <2>2, Zenon
    <2>4. /\ todo' \subseteq todo /\ <<v, i>> \notin todo'
          /\ \A w \in VMs, j \in Index : <<w, j>> # <<v, i>> =>
                (<<w, j>> \in todo' <=> <<w, j>> \in todo)
      BY <1>1, <1>3, Zenon
    <2>5. /\ TypeOK' /\ JobInv' /\ TodoInv'
          /\ \A w \in VMs \ {v} : Same(w) /\ Still(w)
          /\ StateInv(v)' /\ Live(v)' = Live(v)
          /\ \A op \in {"move", "write"} : ~Busy(v, op) /\ ~Busy(v, op)'
      BY <1>2, <2>1, <2>3, <2>4, VisitFacts, Zenon
    <2>6. TableInv' /\ NameInv(v)' /\ DiskInv(v)'
      BY <1>2, <2>1, Zenon DEF TableInv, NameInv, DiskInv
    <2>7. RecordInv(v)'
      <3>1. CASE st[v] = "deleted"
        <4>1. Same(v)
          BY <1>2, <2>3, <3>1, Zenon DEF Same, K
        <4>2. SchemaInv(v)' /\ EntryInv(v)' /\ KeptInv(v)'
          BY <1>5, <4>1, SameFacts, Zenon DEF RecordInv
        <4>3. WholeInv(v)'
          BY <1>2, <3>1, Zenon DEF WholeInv, Live
        <4>4. MovedInv(v)'
          BY <1>2, <1>5, <2>1, <4>1, SameFacts, Zenon DEF RecordInv, MovedInv, Same
        <4>5. MacInv(v)'
          BY <1>2, <1>5, <2>1, <2>4, <3>1, <4>1, SameFacts, Zenon DEF RecordInv, MacInv, Same
        <4> QED
          BY <2>5, <2>6, <4>2, <4>3, <4>4, <4>5, Zenon DEF RecordInv
      <3>2. CASE st[v] # "deleted"
        <4>0. /\ keys'[v] = keys[v] \cup {<<i, "mac">>}
              /\ st'[v] = st[v] /\ known'[v] = known[v] /\ table' = table
          BY <1>2, <2>3, <3>2, Zenon DEF K
        <4>1. /\ Nics(v)' = Nics(v) /\ HasSubnet(v)' = HasSubnet(v)
              /\ keys[v] \subseteq keys'[v] /\ keys'[v] \cap Legacy = keys[v] \cap Legacy
              /\ \A j \in Index, y \in NicKey : <<j, y>> \in keys'[v] =>
                    <<j, y>> \in keys[v] \/ (j = i /\ y = "mac")
              /\ SchemaInv(v)' /\ EntryInv(v)' /\ KeptInv(v)'
              /\ Equipped(keys[v]) => Equipped(keys'[v])
              /\ Before(v) => Before(v)'
              /\ After(v) => After(v)'
          BY <1>5, <4>0, NicKeyAdded, Zenon
        <4>2. WholeInv(v)'
          BY <1>2, <1>5, <2>5, <4>1, Zenon DEF RecordInv, WholeInv
        <4>3. MovedInv(v)'
          BY <1>2, <1>5, <2>1, <4>1, Zenon DEF RecordInv, MovedInv
        <4>4. MacInv(v)'
          <5> SUFFICES ASSUME NEW j \in Index
                       PROVE  LET without == j \in HasSubnet(v) /\ <<j, "mac">> \notin keys'[v]
                              IN  <<v, j>> \in todo' <=> without
            BY <1>2, <2>1, <4>1, Zenon DEF MacInv
          <5>1. CASE j = i
            BY <2>4, <4>0, <5>1, Zenon
          <5>2. CASE j # i
            <6>1. <<j, "mac">> \in keys'[v] <=> <<j, "mac">> \in keys[v]
              BY <4>1, <5>2, Zenon DEF NicKey
            <6>2. <<v, j>> \in todo' <=> <<v, j>> \in todo
              BY <2>4, <5>2, Zenon
            <6> QED
              BY <1>2, <1>5, <3>2, <6>1, <6>2, Zenon DEF RecordInv, MacInv
          <5> QED
            BY <5>1, <5>2, Zenon
        <4> QED
          BY <2>5, <2>6, <4>1, <4>2, <4>3, <4>4, Zenon DEF RecordInv
      <3> QED
        BY <3>1, <3>2, Zenon
    <2> QED
      BY <1>2, <2>1, <2>5, <2>6, <2>7, OneRecord, Zenon
  <1> QED
    BY <1>6, <1>7, Zenon


LEMMA DropTableKeeps ==
    ASSUME MigrationInv, DropTable
    PROVE  MigrationInv'
  <1>1. PICK p \in todo : table' = table \ {p} /\ todo' = todo \ {p}
    BY Zenon DEF DropTable, Visited
  <1>2. phase = "tables" /\ phase' = phase /\ UNCHANGED <<st, keys, job, stops, known, torn>>
    BY Zenon DEF DropTable
  <1>3. PICK v \in VMs, i \in Index : p = <<v, i>>
    BY <1>2 DEF MigrationInv, TodoInv
  <1>4. /\ table' \subseteq table /\ todo' \subseteq todo
        /\ \A w \in VMs, j \in Index : <<w, j>> # <<v, i>> =>
              (<<w, j>> \in table' <=> <<w, j>> \in table) /\ (<<w, j>> \in todo' <=> <<w, j>> \in todo)
    BY <1>1, <1>3, Zenon
  <1>5. keys' \in [VMs -> SUBSET Keys]
    BY <1>2, Zenon DEF MigrationInv, TypeOK
  <1>6. /\ TypeOK' /\ JobInv' /\ TodoInv' /\ RecordInv(v)
        /\ \A w \in VMs \ {v} : Same(w) /\ Still(w)
        /\ StateInv(v)' /\ Live(v)' = Live(v)
        /\ \A op \in {"move", "write"} : ~Busy(v, op) /\ ~Busy(v, op)'
    BY <1>2, <1>4, <1>5, VisitFacts, Zenon
  <1>7. TableInv'
    BY <1>1, <1>2, Zenon DEF MigrationInv, TableInv
  <1>8. Nics(v)' = Nics(v) /\ HasSubnet(v)' = HasSubnet(v)
    BY <1>2, Zenon DEF Nics, HasSubnet
  <1>9. /\ SchemaInv(v)' /\ MovedInv(v)' /\ MacInv(v)' /\ NameInv(v)' /\ DiskInv(v)'
    BY <1>2, <1>6, <1>8, Zenon DEF RecordInv, SchemaInv, MovedInv, MacInv, NameInv, DiskInv
  <1>10. EntryInv(v)'
    BY <1>2, <1>4, <1>6, Zenon DEF RecordInv, EntryInv
  <1>11. Live(v) => \A j \in HasSubnet(v) : <<j, "mac">> \in keys[v]
    BY <1>2, <1>6, Zenon DEF RecordInv, MacInv, HasSubnet, Live
  <1>12. KeptInv(v)'
    <2> SUFFICES ASSUME Live(v), NEW f \in HeldFacts(v) PROVE f \in HeldFacts(v)'
      BY <1>2, <1>6, Zenon DEF RecordInv, KeptInv
    <2>1. PICK j \in Index, x \in {"subnet", "ip", "mac", "tap_id"} : f = <<j, x>>
      BY DEF HeldFacts
    <2>2. \/ <<j, x>> \in keys[v]
          \/ j = "0" /\ <<"vm", x>> \in keys[v]
          \/ x = "mac" /\ <<v, j>> \in table
      BY <2>1, Zenon DEF HeldFacts
    <2>3. x = "mac" /\ <<v, j>> \in table => <<j, x>> \in keys[v]
      <3> SUFFICES ASSUME x = "mac", <<v, j>> \in table PROVE j \in HasSubnet(v)
        BY <1>11, Zenon
      <3>1. <<j, "subnet">> \in keys[v] \/ (j = "0" /\ <<"vm", "subnet">> \in keys[v])
        BY <1>6, Zenon DEF RecordInv, EntryInv
      <3>2. <<"vm", "subnet">> \in keys[v] => Nics(v) # {}
        BY <1>2, <1>6, LegacyFacts, Zenon DEF RecordInv, MovedInv, LegacyNames
      <3>3. <<j, "subnet">> \in keys[v]
        BY <1>6, <3>1, <3>2, Zenon DEF RecordInv, SchemaInv
      <3> QED
        BY <3>3, Zenon DEF HasSubnet
    <2> QED
      BY <1>2, <2>1, <2>2, <2>3, Zenon DEF HeldFacts
  <1>13. WholeInv(v)'
    <2> SUFFICES ASSUME v \notin torn, Live(v) PROVE Equipped(keys[v]) /\ After(v)'
      BY <1>2, <1>6, Zenon DEF WholeInv
    <2>1. Equipped(keys[v]) /\ (Before(v) \/ After(v))
      BY <1>6, Zenon DEF RecordInv, WholeInv
    <2>2. ~Before(v)
      BY <1>2, <1>6, LegacyFacts, Zenon DEF RecordInv, MovedInv, Before, Single, Nics, LegacyNames
    <2>3. \A j \in Nics(v) : j \in HasSubnet(v)
      BY <2>1, <2>2, Zenon DEF After, Numbered, Nics, HasSubnet, NicsIn
    <2> QED
      BY <1>2, <1>8, <1>11, <2>1, <2>2, <2>3, Zenon DEF After
  <1>14. RecordInv(v)'
    BY <1>6, <1>9, <1>10, <1>12, <1>13, Zenon DEF RecordInv
  <1> QED
    BY <1>2, <1>6, <1>7, <1>14, OneRecord, Zenon

LEMMA MigrateVMNICNamesKeeps ==
    ASSUME MigrationInv, MigrateVMNICNames
    PROVE  MigrationInv'
  <1>1. PICK p \in todo : /\ keys' = [keys EXCEPT ![p[1]] = @ \cup {<<p[2], "name">>}]
                          /\ todo' = todo \ {p}
    BY Zenon DEF MigrateVMNICNames, Visited
  <1>2. phase = "names" /\ phase' = phase /\ UNCHANGED <<st, table, job, stops, known, torn>>
    BY Zenon DEF MigrateVMNICNames
  <1>3. PICK v \in VMs, i \in Index : p = <<v, i>>
    BY <1>2 DEF MigrationInv, TodoInv
  <1> DEFINE K == keys[v] \cup {<<i, "name">>}
  <1>4. keys' = [keys EXCEPT ![v] = K] /\ keys \in [VMs -> SUBSET Keys]
    BY <1>1, <1>3, Zenon DEF MigrationInv, TypeOK
  <1>5. K \in SUBSET Keys
    BY <1>4 DEF Keys, NicKey
  <1> HIDE DEF K
  <1>6. keys' \in [VMs -> SUBSET Keys] /\ keys'[v] = K /\ \A w \in VMs \ {v} : keys'[w] = keys[w]
    BY <1>4, <1>5, Zenon
  <1>7. /\ todo' \subseteq todo /\ <<v, i>> \notin todo'
        /\ \A w \in VMs, j \in Index : <<w, j>> # <<v, i>> => (<<w, j>> \in todo' <=> <<w, j>> \in todo)
    BY <1>1, <1>3, Zenon
  <1>8. /\ TypeOK' /\ JobInv' /\ TodoInv' /\ RecordInv(v)
        /\ \A w \in VMs \ {v} : Same(w) /\ Still(w)
        /\ StateInv(v)' /\ Live(v)' = Live(v)
        /\ \A op \in {"move", "write"} : ~Busy(v, op) /\ ~Busy(v, op)'
    BY <1>2, <1>6, <1>7, VisitFacts, Zenon
  <1>9. i \in HasSubnet(v)
    BY <1>1, <1>2, <1>3, <1>8, Zenon DEF RecordInv, NameInv
  <1>10. TableInv' /\ DiskInv(v)'
    BY <1>2, Zenon DEF MigrationInv, TableInv, DiskInv
  <1>11. /\ keys'[v] = keys[v] \cup {<<i, "name">>}
         /\ st'[v] = st[v] /\ known'[v] = known[v] /\ table' = table
    BY <1>2, <1>6, Zenon DEF K
  <1>12. /\ Nics(v)' = Nics(v) /\ HasSubnet(v)' = HasSubnet(v)
         /\ keys[v] \subseteq keys'[v] /\ keys'[v] \cap Legacy = keys[v] \cap Legacy
         /\ SchemaInv(v)' /\ EntryInv(v)' /\ KeptInv(v)'
         /\ Equipped(keys[v]) => Equipped(keys'[v])
         /\ Before(v) => Before(v)'
         /\ After(v) => After(v)'
    BY <1>8, <1>9, <1>11, NicKeyAdded, Zenon
  <1>13. WholeInv(v)'
    BY <1>2, <1>8, <1>12, Zenon DEF RecordInv, WholeInv
  <1>14. MovedInv(v)'
    BY <1>2, <1>8, <1>12, Zenon DEF RecordInv, MovedInv
  <1>15. NameInv(v)'
    <2> SUFFICES ASSUME NEW j \in Index
                 PROVE  /\ <<v, j>> \in todo' => j \in HasSubnet(v)
                        /\ j \in HasSubnet(v) /\ <<j, "name">> \notin keys'[v] => <<v, j>> \in todo'
      BY <1>2, <1>12, Zenon DEF NameInv
    <2>1. CASE j = i
      BY <1>7, <1>11, <2>1, Zenon
    <2>2. CASE j # i
      BY <1>2, <1>7, <1>8, <1>12, <2>2, Zenon DEF RecordInv, NameInv
    <2> QED
      BY <2>1, <2>2, Zenon
  <1>16. MacInv(v)'
    BY <1>2, <1>8, <1>12, Zenon DEF RecordInv, MacInv
  <1>17. RecordInv(v)'
    BY <1>8, <1>10, <1>12, <1>13, <1>14, <1>15, <1>16, Zenon DEF RecordInv
  <1> QED
    BY <1>2, <1>8, <1>10, <1>17, OneRecord, Zenon

(* The first disk changes its name. *)
LEMMA DiskChanged ==
    ASSUME NEW v \in VMs, RecordInv(v), st'[v] = st[v], known'[v] = known[v], table' = table,
           \A a \in Index \cup {"vm"} : \A x : <<a, x>> \in keys'[v] <=> <<a, x>> \in keys[v],
           <<"disk", "xvda">> \in keys'[v], st[v] # None, <<"disk", "other">> \notin keys'[v]
    PROVE  /\ Nics(v)' = Nics(v) /\ HasSubnet(v)' = HasSubnet(v)
           /\ keys'[v] \cap Legacy = keys[v] \cap Legacy
           /\ SchemaInv(v)' /\ EntryInv(v)' /\ KeptInv(v)'
           /\ Equipped(keys[v]) => Equipped(keys'[v])
           /\ Before(v) => Before(v)'
           /\ After(v) => After(v)'
  <1>1. /\ \A x : <<"vm", x>> \in keys'[v] <=> <<"vm", x>> \in keys[v]
        /\ \A i \in Index : \A x : <<i, x>> \in keys'[v] <=> <<i, x>> \in keys[v]
        /\ "0" \in Index
    BY Zenon DEF Index
  <1>2. NicsIn(keys'[v]) = NicsIn(keys[v])
    BY <1>1, NicsSame, Zenon
  <1>3. Nics(v)' = Nics(v) /\ HasSubnet(v)' = HasSubnet(v) /\ \A i \in Nics(v) : i \in Index
    BY <1>1, <1>2, Zenon DEF Nics, HasSubnet, NicsIn
  <1>4. keys'[v] \cap Legacy = keys[v] \cap Legacy
    BY <1>1, LegacyFacts, Zenon
  <1>5. SchemaInv(v)'
    BY <1>1, <1>3, <1>4, Zenon DEF RecordInv, SchemaInv
  <1>6. EntryInv(v)'
    BY <1>1, Zenon DEF RecordInv, EntryInv, Live
  <1>7. KeptInv(v)'
    <2>1. HeldFacts(v)' = HeldFacts(v)
      BY <1>1 DEF HeldFacts
    <2> QED
      BY <2>1, Zenon DEF RecordInv, KeptInv, Live
  <1>8. Equipped(keys[v]) => Equipped(keys'[v])
    BY <1>1, Zenon DEF Equipped
  <1>9. Before(v) => Before(v)'
    BY <1>1, <1>2, Zenon DEF Before, Single, Entered
  <1>10. After(v) => After(v)'
    <2>1. \A i \in NicsIn(keys[v]) : i \in Index
      BY Zenon DEF NicsIn
    <2>2. OnePrimary(keys[v]) => OnePrimary(keys'[v])
      BY <1>1, <1>2, <2>1, Zenon DEF OnePrimary
    <2>3. Numbered(keys[v]) => Numbered(keys'[v])
      BY <1>1, <1>2, <1>4, <2>1, <2>2 DEF Numbered
    <2> QED
      BY <1>1, <1>3, <2>3, Zenon DEF After, Entered
  <1> QED
    BY <1>3, <1>4, <1>5, <1>6, <1>7, <1>8, <1>9, <1>10, Zenon

(* One step of the renaming of a disk that has no rival. *)
RenameDisk(v) ==
    IF <<"disk", "xvda">> \notin keys[v]
    THEN keys' = [keys EXCEPT ![v] = @ \cup {<<"disk", "xvda">>}] /\ UNCHANGED todo
    ELSE keys' = [keys EXCEPT ![v] = @ \ {<<"disk", "sda">>}] /\ todo' = todo \ {v}

LEMMA RenameDiskKeeps ==
    ASSUME MigrationInv, phase = "disks", NEW d \in todo, ~Conflict(d), RenameDisk(d),
           phase' = phase, UNCHANGED <<st, table, job, stops, known, torn>>
    PROVE  MigrationInv'
  <1>1. phase = "disks" /\ phase' = phase /\ UNCHANGED <<st, table, job, stops, known, torn>>
    OBVIOUS
  <1>2. keys \in [VMs -> SUBSET Keys] /\ todo \subseteq VMs
    BY <1>1, Zenon DEF MigrationInv, TypeOK, TodoInv
  <1>3. PICK v \in VMs :
          /\ v \in todo /\ keys'[v] \in SUBSET Keys /\ keys' = [keys EXCEPT ![v] = keys'[v]]
          /\ <<"disk", "xvda">> \in keys'[v] /\ <<"disk", "other">> \notin keys'[v]
          /\ \A a \in Index \cup {"vm"} : \A x : <<a, x>> \in keys'[v] <=> <<a, x>> \in keys[v]
          /\ \/ todo' = todo /\ keys[v] \subseteq keys'[v]
             \/ todo' = todo \ {v} /\ <<"disk", "sda">> \notin keys'[v]
    <2>1. PICK v \in todo : RenameDisk(v) /\ <<"disk", "other">> \notin keys[v]
      BY Zenon DEF Conflict
    <2>2. v \in VMs
      BY <1>2, Zenon
    <2>3. CASE <<"disk", "xvda">> \notin keys[v]
      <3>1. keys'[v] = keys[v] \cup {<<"disk", "xvda">>} /\ todo' = todo
        BY <1>2, <2>1, <2>2, <2>3, Zenon DEF RenameDisk
      <3>2. keys' = [keys EXCEPT ![v] = keys'[v]]
        BY <1>2, <2>1, <2>2, <2>3, Zenon DEF RenameDisk
      <3>3. keys'[v] \in SUBSET Keys
        BY <1>2, <2>2, <3>1, Zenon DEF Keys
      <3>4. \A a \in Index \cup {"vm"} : \A x : <<a, x>> \in keys'[v] <=> <<a, x>> \in keys[v]
        BY <3>1, Zenon DEF Index
      <3> QED
        BY <2>1, <2>2, <3>1, <3>2, <3>3, <3>4, Zenon
    <2>4. CASE <<"disk", "xvda">> \in keys[v]
      <3>1. keys'[v] = keys[v] \ {<<"disk", "sda">>} /\ todo' = todo \ {v}
        BY <1>2, <2>1, <2>2, <2>4, Zenon DEF RenameDisk
      <3>2. keys' = [keys EXCEPT ![v] = keys'[v]]
        BY <1>2, <2>1, <2>2, <2>4, Zenon DEF RenameDisk
      <3>3. keys'[v] \in SUBSET Keys
        BY <1>2, <2>2, <3>1, Zenon
      <3>4. \A a \in Index \cup {"vm"} : \A x : <<a, x>> \in keys'[v] <=> <<a, x>> \in keys[v]
        BY <3>1, Zenon DEF Index
      <3> QED
        BY <2>1, <2>2, <2>4, <3>1, <3>2, <3>3, <3>4, Zenon
    <2> QED
      BY <2>3, <2>4, Zenon
  <1>4. keys' \in [VMs -> SUBSET Keys] /\ \A w \in VMs \ {v} : keys'[w] = keys[w]
    BY <1>2, <1>3, Zenon
  <1>5. todo' \subseteq todo /\ \A w \in VMs \ {v} : w \in todo' <=> w \in todo
    BY <1>3, Zenon
  <1>6. /\ TypeOK' /\ JobInv' /\ TodoInv' /\ RecordInv(v)
        /\ \A w \in VMs \ {v} : Same(w) /\ Still(w)
        /\ StateInv(v)' /\ Live(v)' = Live(v)
        /\ \A op \in {"move", "write"} : ~Busy(v, op) /\ ~Busy(v, op)'
    BY <1>1, <1>4, <1>5, VisitFacts, Zenon
  <1>7. <<"disk", "sda">> \in keys[v] /\ st[v] # None
    BY <1>1, <1>3, <1>6, Zenon DEF RecordInv, DiskInv, SchemaInv
  <1>8. /\ Nics(v)' = Nics(v) /\ HasSubnet(v)' = HasSubnet(v)
        /\ keys'[v] \cap Legacy = keys[v] \cap Legacy
        /\ SchemaInv(v)' /\ EntryInv(v)' /\ KeptInv(v)'
        /\ Equipped(keys[v]) => Equipped(keys'[v])
        /\ Before(v) => Before(v)'
        /\ After(v) => After(v)'
    BY <1>1, <1>3, <1>6, <1>7, DiskChanged, Zenon
  <1>9. TableInv' /\ MacInv(v)'
    <2>1. \A i \in Index : <<i, "mac">> \in keys'[v] <=> <<i, "mac">> \in keys[v]
      BY <1>3, Zenon
    <2>2. MacInv(v)'
      BY <1>1, <1>6, <1>8, <2>1, Zenon DEF RecordInv, MacInv
    <2> QED
      BY <1>1, <2>2, Zenon DEF MigrationInv, TableInv
  <1>10. WholeInv(v)'
    BY <1>1, <1>6, <1>8, Zenon DEF RecordInv, WholeInv
  <1>11. MovedInv(v)'
    BY <1>1, <1>6, <1>8, Zenon DEF RecordInv, MovedInv
  <1>12. NameInv(v)'
    <2>1. \A i \in Index : <<i, "name">> \in keys'[v] <=> <<i, "name">> \in keys[v]
      BY <1>3, Zenon
    <2> QED
      BY <1>1, <1>6, <1>8, <2>1, Zenon DEF RecordInv, NameInv
  <1>13. DiskInv(v)'
    BY <1>1, <1>3, <1>7, Zenon DEF DiskInv
  <1>14. RecordInv(v)'
    BY <1>6, <1>8, <1>9, <1>10, <1>11, <1>12, <1>13, Zenon DEF RecordInv
  <1> QED
    BY <1>1, <1>6, <1>9, <1>14, OneRecord, Zenon

(* Two disks for one name: the agent does not start. *)
LEMMA ConflictKeeps ==
    ASSUME MigrationInv, phase = "disks", NEW v \in todo, Conflict(v), phase' = "failed",
           todo' = todo \ {v}, UNCHANGED <<keys, st, table, job, stops, known, torn>>
    PROVE  MigrationInv'
  <1>1. job = Idle /\ job' = Idle /\ v \in VMs
    BY JobFacts, Zenon DEF MigrationInv, TodoInv
  <1>2. DiskConflict(v)'
    BY <1>1, Zenon DEF MigrationInv, RecordInv, SchemaInv, Conflict, DiskConflict
  <1>3. TypeOK' /\ TodoInv' /\ TableInv' /\ OnlyBrokenRecordsBlockBoot'
    BY <1>1, <1>2, Zenon DEF MigrationInv, TypeOK, TodoInv, TableInv, OnlyBrokenRecordsBlockBoot
  <1>4. ASSUME NEW w \in VMs
        PROVE  StateInv(w)' /\ MovedInv(w)' /\ MacInv(w)' /\ NameInv(w)' /\ DiskInv(w)'
    BY Zenon DEF StateInv, MovedInv, MacInv, NameInv, DiskInv
  <1> QED
    BY <1>1, <1>3, <1>4, PhaseStep, Zenon

LEMMA MigrateVMDisksKeeps ==
    ASSUME MigrationInv, MigrateVMDisks
    PROVE  MigrationInv'
  <1>1. PICK v \in todo :
          \/ Conflict(v) /\ phase' = "failed" /\ todo' = todo \ {v} /\ UNCHANGED keys
          \/ ~Conflict(v) /\ phase' = phase /\ RenameDisk(v)
    BY Zenon DEF MigrateVMDisks, Visited, RenameDisk
  <1>2. phase = "disks" /\ UNCHANGED <<st, table, job, stops, known, torn>>
    BY Zenon DEF MigrateVMDisks
  <1> QED
    BY <1>1, <1>2, ConflictKeeps, RenameDiskKeeps, Zenon

-----------------------------------------------------------------------------
(* Creation and deletion of a VM *)

(* The steps of the agent that is up are about the VM of the job. *)
LEMMA UpFacts ==
    ASSUME MigrationInv, NEW v \in VMs, phase = "up",
           UNCHANGED <<table, phase, todo, stops, torn>>,
           st' \in [VMs -> RawStates \cup {None}], keys' \in [VMs -> SUBSET Keys],
           known' \in [VMs -> SUBSET (Index \X NicKey)],
           \A w \in VMs \ {v} : st'[w] = st[w] /\ keys'[w] = keys[w] /\ known'[w] = known[w],
           job = Idle \/ job.vm = v, job' = Idle \/ job'.vm = v
    PROVE  /\ TypeOK' /\ TodoInv' /\ TableInv' /\ table = {} /\ RecordInv(v)
           /\ \A w \in VMs \ {v} : Same(w) /\ Still(w)
  <1>1. TypeOK'
    BY DEF MigrationInv, TypeOK, Idle
  <1>2. TodoInv' /\ TableInv' /\ table = {} /\ RecordInv(v)
    BY Zenon DEF MigrationInv, TodoInv, TableInv
  <1>3. ASSUME NEW w \in VMs \ {v} PROVE Same(w) /\ Still(w)
    <2>1. job.vm # w /\ job'.vm # w
      BY NoneAssumption DEF Idle
    <2> QED
      BY <2>1, Zenon DEF Same, Still
  <1> QED
    BY <1>1, <1>2, <1>3, Zenon

LEMMA UpRecord ==
    ASSUME NEW v \in VMs, phase' = "up", table' = {},
           SchemaInv(v)', KeptInv(v)', WholeInv(v)',
           st'[v] \in States \cup {None}, st'[v] \in Transient => job'.vm = v,
           keys'[v] \cap Legacy = {} \/ Nics(v)' # {}, <<"disk", "sda">> \notin keys'[v],
           Live(v)' /\ ~Busy(v, "write")' => \A i \in HasSubnet(v)' : <<i, "name">> \in keys'[v],
           st'[v] # "deleted" /\ ~Busy(v, "write")' => \A i \in HasSubnet(v)' : <<i, "mac">> \in keys'[v]
    PROVE  RecordInv(v)'
  <1>1. EntryInv(v)'
    BY Zenon DEF EntryInv
  <1>2. StateInv(v)' /\ MovedInv(v)' /\ MacInv(v)' /\ DiskInv(v)'
    BY Zenon DEF StateInv, MovedInv, MacInv, DiskInv
  <1>3. NameInv(v)'
    BY Zenon DEF NameInv
  <1> QED
    BY <1>1, <1>2, <1>3, Zenon DEF RecordInv

LEMMA InterfaceFacts ==
    ASSUME NEW i \in Index, NEW p
    PROVE  /\ Interface(i, p) \in Seq(Keys)
           /\ Elems(Interface(i, p)) = ({i} \X {"name", "subnet", "ip", "mac"})
                                       \cup (IF i = p THEN {<<i, "primary">>} ELSE {})
  <1> DEFINE a == <<<<i, "name">>, <<i, "subnet">>, <<i, "ip">>, <<i, "mac">>>>
             b == IF i = p THEN <<<<i, "primary">>>> ELSE <<>>
  <1>1. /\ <<i, "name">> \in Keys /\ <<i, "subnet">> \in Keys /\ <<i, "ip">> \in Keys
        /\ <<i, "mac">> \in Keys /\ <<i, "primary">> \in Keys
    BY Zenon DEF Keys, NicKey
  <1>2. a \in Seq(Keys)
    BY <1>1
  <1>3. Elems(a) = {i} \X {"name", "subnet", "ip", "mac"}
    <2>1. Len(a) = 4 /\ 1..4 = {1, 2, 3, 4}
      OBVIOUS
    <2>2. Elems(a) = {a[1], a[2], a[3], a[4]}
      <3> HIDE DEF a
      <3> QED
        BY <2>1, Zenon DEF Elems
    <2> QED
      BY <2>2
  <1>4. b \in Seq(Keys) /\ Elems(b) = IF i = p THEN {<<i, "primary">>} ELSE {}
    <2>1. CASE i = p
      <3>1. b = <<<<i, "primary">>>>
        BY <2>1, Zenon
      <3> QED
        BY <1>1, <2>1, <3>1, OneElem, Zenon
    <2>2. CASE i # p
      <3>1. b = <<>>
        BY <2>2, Zenon
      <3> QED
        BY <2>2, <3>1, NoElems, Zenon
    <2> QED
      BY <2>1, <2>2, Zenon
  <1>5. Interface(i, p) = a \o b
    BY Zenon DEF Interface
  <1> HIDE DEF a, b
  <1> QED
    BY <1>2, <1>3, <1>4, <1>5, JoinFacts

LEMMA RestFacts ==
    LET d == <<<<"disk", "xvda">>, <<"vm", "body">>>>
    IN  d \in Seq(Keys) /\ Elems(d) = {<<"disk", "xvda">>, <<"vm", "body">>}
  <1> DEFINE d == <<<<"disk", "xvda">>, <<"vm", "body">>>>
  <1>1. d \in Seq(Keys)
    BY DEF Keys
  <1>2. Len(d) = 2 /\ 1..2 = {1, 2} /\ d[1] = <<"disk", "xvda">> /\ d[2] = <<"vm", "body">>
    OBVIOUS
  <1>3. Elems(d) = {d[1], d[2]}
    <2> HIDE DEF d
    <2> QED
      BY <1>2, Zenon DEF Elems
  <1> QED
    BY <1>1, <1>2, <1>3, Zenon

(* What StartVM is going to write is a new record. *)
LEMMA NewRecordFacts ==
    ASSUME NEW nics \in {<<"0">>, <<"0", "1">>}, NEW p \in {nics[n] : n \in DOMAIN nics},
           NEW s, s = Interface("0", p) \o (IF Len(nics) = 2 THEN Interface("1", p) ELSE <<>>)
                      \o <<<<"disk", "xvda">>, <<"vm", "body">>>>
    PROVE  s \in Seq(Keys) /\ \E N \in {{"0"}, {"0", "1"}} : \E q \in N : Elems(s) = NewRecord(N, q)
  <1> DEFINE d == <<<<"disk", "xvda">>, <<"vm", "body">>>>
             e == IF Len(nics) = 2 THEN Interface("1", p) ELSE <<>>
  <1>1. "0" \in Index /\ "1" \in Index
    BY Zenon DEF Index
  <1>2. d \in Seq(Keys) /\ Elems(d) = {<<"disk", "xvda">>, <<"vm", "body">>}
    BY RestFacts, Zenon
  <1> HIDE DEF d
  <1>3. CASE nics = <<"0">>
    <2>1. p = "0" /\ e = <<>>
      BY <1>3
    <2>2. e \in Seq(Keys) /\ Elems(e) = {}
      BY <2>1, NoElems, Zenon
    <2>3. /\ Interface("0", p) \in Seq(Keys)
          /\ Elems(Interface("0", p)) = ({"0"} \X {"name", "subnet", "ip", "mac"})
                                        \cup {<<"0", "primary">>}
      BY <1>1, <2>1, InterfaceFacts, Zenon
    <2> DEFINE g == Interface("0", p) \o e
    <2>4. s = g \o d
      BY Zenon DEF d
    <2> HIDE DEF e
    <2>5. g \in Seq(Keys) /\ Elems(g) = Elems(Interface("0", p)) \cup Elems(e)
      BY <2>2, <2>3, JoinFacts, Zenon
    <2> HIDE DEF g
    <2>6. s \in Seq(Keys) /\ Elems(s) = Elems(g) \cup Elems(d)
      <3>1. g \o d \in Seq(Keys) /\ Elems(g \o d) = Elems(g) \cup Elems(d)
        BY <1>2, <2>5, JoinFacts
      <3> QED
        BY <2>4, <3>1, Zenon
    <2>7. Elems(s) = NewRecord({"0"}, "0")
      BY <1>2, <2>2, <2>3, <2>5, <2>6, Zenon DEF NewRecord
    <2> QED
      BY <2>6, <2>7, Zenon
  <1>4. CASE nics = <<"0", "1">>
    <2>1. p \in {"0", "1"} /\ e = Interface("1", p)
      BY <1>4
    <2>2. e \in Seq(Keys) /\ Elems(e) = ({"1"} \X {"name", "subnet", "ip", "mac"})
                                        \cup (IF "1" = p THEN {<<"1", "primary">>} ELSE {})
      BY <1>1, <2>1, InterfaceFacts
    <2>3. Interface("0", p) \in Seq(Keys)
          /\ Elems(Interface("0", p)) = ({"0"} \X {"name", "subnet", "ip", "mac"})
                                        \cup (IF "0" = p THEN {<<"0", "primary">>} ELSE {})
      BY <1>1, InterfaceFacts, Zenon
    <2> DEFINE g == Interface("0", p) \o e
    <2>4. s = g \o d
      BY Zenon DEF d
    <2> HIDE DEF e
    <2>5. /\ g \in Seq(Keys) /\ Elems(g) = Elems(Interface("0", p)) \cup Elems(e)
      BY <2>2, <2>3, JoinFacts
    <2> HIDE DEF g
    <2>6. s \in Seq(Keys) /\ Elems(s) = Elems(g) \cup Elems(d)
      <3>1. g \o d \in Seq(Keys) /\ Elems(g \o d) = Elems(g) \cup Elems(d)
        BY <1>2, <2>5, JoinFacts
      <3> QED
        BY <2>4, <3>1, Zenon
    <2>7. Elems(s) = NewRecord({"0", "1"}, p)
      <3>1. ({"0", "1"} \X {"name", "subnet", "ip", "mac"})
              = ({"0"} \X {"name", "subnet", "ip", "mac"})
                \cup ({"1"} \X {"name", "subnet", "ip", "mac"})
        BY Zenon
      <3>2. (IF "0" = p THEN {<<"0", "primary">>} ELSE {})
              \cup (IF "1" = p THEN {<<"1", "primary">>} ELSE {})
              = {<<p, "primary">>}
        BY <2>1, Zenon
      <3> DEFINE A == {"0"} \X {"name", "subnet", "ip", "mac"}
                 B == {"1"} \X {"name", "subnet", "ip", "mac"}
                 P == IF "0" = p THEN {<<"0", "primary">>} ELSE {}
                 Q == IF "1" = p THEN {<<"1", "primary">>} ELSE {}
      <3>3. Elems(s) = ((A \cup P) \cup (B \cup Q)) \cup {<<"disk", "xvda">>, <<"vm", "body">>}
        BY <1>2, <2>2, <2>3, <2>5, <2>6, Zenon
      <3>4. NewRecord({"0", "1"}, p)
              = (A \cup B) \cup ((P \cup Q) \cup {<<"disk", "xvda">>, <<"vm", "body">>})
        BY <3>1, <3>2, Zenon DEF NewRecord
      <3> HIDE DEF A, B, P, Q
      <3> QED
        BY <3>3, <3>4, Zenon
    <2> QED
      BY <2>1, <2>6, <2>7, Zenon
  <1> QED
    BY <1>3, <1>4, Zenon

LEMMA StartVMKeeps ==
    ASSUME MigrationInv, StartVM
    PROVE  MigrationInv'
  <1>0. PICK v \in VMs, nics \in {<<"0">>, <<"0", "1">>} :
          /\ st[v] = None /\ st' = [st EXCEPT ![v] = "creating"] /\ known' = [known EXCEPT ![v] = {}]
          /\ \E p \in {nics[n] : n \in DOMAIN nics} :
                job' = [vm |-> v, op |-> "write",
                        todo |-> Interface("0", p)
                                 \o (IF Len(nics) = 2 THEN Interface("1", p) ELSE <<>>)
                                 \o <<<<"disk", "xvda">>, <<"vm", "body">>>>]
    BY Zenon DEF StartVM
  <1>1. PICK p \in {nics[n] : n \in DOMAIN nics} :
          job' = [vm |-> v, op |-> "write",
                  todo |-> Interface("0", p)
                           \o (IF Len(nics) = 2 THEN Interface("1", p) ELSE <<>>)
                           \o <<<<"disk", "xvda">>, <<"vm", "body">>>>]
    BY <1>0, Zenon
  <1>2. phase = "up" /\ job = Idle /\ UNCHANGED <<keys, table, phase, todo, stops, torn>>
    BY Zenon DEF StartVM
  <1>3. job'.vm = v /\ job'.op = "write" /\ JobShape'
    BY <1>1, Zenon DEF JobShape
  <1>4. /\ job'.todo \in Seq(Keys)
        /\ \E N \in {{"0"}, {"0", "1"}} : \E q \in N : Elems(job'.todo) = NewRecord(N, q)
    BY <1>1, NewRecordFacts
  <1>5. /\ st' \in [VMs -> RawStates \cup {None}] /\ keys' \in [VMs -> SUBSET Keys]
        /\ known' \in [VMs -> SUBSET (Index \X NicKey)] /\ st'[v] = "creating" /\ known'[v] = {}
        /\ \A w \in VMs \ {v} : st'[w] = st[w] /\ keys'[w] = keys[w] /\ known'[w] = known[w]
    BY <1>0, <1>2, Zenon DEF MigrationInv, TypeOK, RawStates, States
  <1>6. /\ TypeOK' /\ TodoInv' /\ TableInv' /\ table = {} /\ RecordInv(v)
        /\ \A w \in VMs \ {v} : Same(w) /\ Still(w)
    BY <1>2, <1>3, <1>5, UpFacts, Zenon
  <1>7. keys[v] = {} /\ keys'[v] = {}
    BY <1>0, <1>2, <1>6, Zenon DEF RecordInv, SchemaInv
  <1>8. JobInv'
    <2>1. WriteInv'
      BY <1>2, <1>3, <1>4, <1>5, <1>7 DEF WriteInv
    <2> QED
      BY <1>3, <2>1, Zenon DEF JobInv
  <1>9. Busy(v, "write")'
    BY <1>3, Zenon DEF Busy
  <1>10. SchemaInv(v)' /\ KeptInv(v)' /\ WholeInv(v)'
    BY <1>5, <1>7, <1>9, Zenon DEF SchemaInv, KeptInv, WholeInv, None
  <1>11. RecordInv(v)'
    BY <1>2, <1>3, <1>5, <1>6, <1>7, <1>9, <1>10, UpRecord, Zenon DEF States
  <1> QED
    BY <1>2, <1>6, <1>8, <1>11, OneRecord, Zenon


LEMMA NewRecordSchema ==
    ASSUME NEW N \in {{"0"}, {"0", "1"}}, NEW p \in N
    PROVE  /\ NewRecord(N, p) \cap Legacy = {} /\ <<"disk", "sda">> \notin NewRecord(N, p)
           /\ <<"disk", "other">> \notin NewRecord(N, p)
           /\ NicsIn(NewRecord(N, p)) = N /\ Numbered(NewRecord(N, p)) /\ Equipped(NewRecord(N, p))
           /\ \A i \in N : {<<i, "mac">>, <<i, "name">>} \subseteq NewRecord(N, p)
           /\ {i \in Index : <<i, "subnet">> \in NewRecord(N, p)} = N
  <1> DEFINE R == NewRecord(N, p)
  <1>1. N \subseteq Index /\ p \in Index /\ N # {}
    BY Zenon DEF Index
  <1>2. \A i \in Index, k \in NicKey : <<i, k>> \in R <=>
           (i \in N /\ k \in {"name", "subnet", "ip", "mac"}) \/ (i = p /\ k = "primary")
    BY Zenon DEF NewRecord, Index
  <1>3. \A k \in LegacyNames : <<"vm", k>> \notin R
    BY <1>1, Zenon DEF NewRecord, LegacyNames, Index
  <1>4. /\ <<"disk", "sda">> \notin R /\ <<"disk", "other">> \notin R /\ <<"disk", "xvda">> \in R /\ <<"vm", "body">> \in R
        /\ \A i \in N, k \in {"name", "subnet", "ip", "mac"} : <<i, k>> \in R
        /\ <<p, "primary">> \in R
    BY <1>1, Zenon DEF NewRecord, Index
  <1> HIDE DEF R
  <1>5. R \cap Legacy = {}
    BY <1>3, LegacyFacts, Zenon
  <1>6. NicsIn(R) = N
    BY <1>1, <1>2, Zenon DEF NicsIn, NicKey
  <1>7. OnePrimary(R)
    <2>1. {i \in N : <<i, "primary">> \in R} = {p}
      BY <1>1, <1>2, Zenon DEF NicKey
    <2> QED
      BY <1>6, <2>1, Zenon DEF OnePrimary
  <1>8. {i \in Index : <<i, "subnet">> \in R} = N
    BY <1>1, <1>2, Zenon DEF NicKey
  <1>9. Numbered(R) /\ Equipped(R) /\ \A i \in N : {<<i, "mac">>, <<i, "name">>} \subseteq R
    BY <1>1, <1>4, <1>5, <1>6, <1>7, Zenon DEF Numbered, Equipped
  <1> QED
    BY <1>4, <1>5, <1>6, <1>8, <1>9, Zenon DEF R

LEMMA WriteKeyKeeps ==
    ASSUME MigrationInv, WriteKey
    PROVE  MigrationInv'
  <1>0. PICK v \in VMs : v = job.vm
    BY JobFacts, Zenon DEF MigrationInv, WriteKey
  <1> DEFINE x == Head(job.todo)
             K == keys[v] \cup {x}
  <1>1. /\ job.op = "write" /\ job.todo # <<>> /\ keys' = [keys EXCEPT ![v] = K]
        /\ job' = [job EXCEPT !.todo = Tail(@)]
        /\ UNCHANGED <<st, table, phase, todo, stops, known, torn>>
    BY <1>0, Zenon DEF WriteKey
  <1>2. /\ phase = "up" /\ st[v] = "creating" /\ job.todo \in Seq(Keys)
        /\ \E N \in {{"0"}, {"0", "1"}} : \E p \in N : keys[v] \cup Elems(job.todo) = NewRecord(N, p)
        /\ job = [vm |-> v, op |-> "write", todo |-> job.todo]
    BY <1>0, <1>1, JobFacts, Zenon DEF MigrationInv, WriteInv, JobShape
  <1>3. job'.vm = v /\ job'.op = "write" /\ job'.todo = Tail(job.todo) /\ JobShape'
    BY <1>1, <1>2 DEF JobShape
  <1>4. x \in Keys /\ Tail(job.todo) \in Seq(Keys) /\ Elems(job.todo) = {x} \cup Elems(Tail(job.todo))
    BY <1>1, <1>2, ElemsFacts, Zenon
  <1>5. PICK N \in {{"0"}, {"0", "1"}}, p \in {"0", "1"} :
          p \in N /\ keys[v] \cup Elems(job.todo) = NewRecord(N, p)
    BY <1>2, Zenon
  <1>6. K \subseteq NewRecord(N, p) /\ K \cup Elems(Tail(job.todo)) = NewRecord(N, p)
    BY <1>4, <1>5, Zenon
  <1>7. keys[v] \subseteq K /\ K \in SUBSET Keys
    BY <1>4, Zenon DEF MigrationInv, TypeOK
  <1> HIDE DEF K, x
  <1>8. /\ st' \in [VMs -> RawStates \cup {None}] /\ keys' \in [VMs -> SUBSET Keys]
        /\ known' \in [VMs -> SUBSET (Index \X NicKey)] /\ keys'[v] = K
        /\ \A w \in VMs \ {v} : st'[w] = st[w] /\ keys'[w] = keys[w] /\ known'[w] = known[w]
    BY <1>1, <1>7, Zenon DEF MigrationInv, TypeOK
  <1>9. /\ TypeOK' /\ TodoInv' /\ TableInv' /\ table = {} /\ RecordInv(v)
        /\ \A w \in VMs \ {v} : Same(w) /\ Still(w)
    BY <1>0, <1>1, <1>2, <1>3, <1>8, UpFacts, Zenon
  <1>10. JobInv'
    <2>1. WriteInv'
      BY <1>1, <1>2, <1>3, <1>4, <1>5, <1>6, <1>8, Zenon DEF WriteInv
    <2> QED
      BY <1>3, <2>1, Zenon DEF JobInv
  <1>11. Busy(v, "write")' /\ st'[v] = "creating" /\ st'[v] \in States
    BY <1>1, <1>2, <1>3, Zenon DEF Busy, States
  <1>12. /\ K \cap Legacy = {} /\ <<"disk", "sda">> \notin K /\ <<"vm", "subnet">> \notin K
         /\ <<"disk", "other">> \notin K
    BY <1>5, <1>6, NewRecordSchema, LegacyFacts, Zenon DEF LegacyNames
  <1>13. SchemaInv(v)' /\ WholeInv(v)'
    BY <1>8, <1>11, <1>12, Zenon DEF SchemaInv, WholeInv, None
  <1>14. KeptInv(v)'
    <2>1. HeldFacts(v) \subseteq HeldFacts(v)'
      BY <1>1, <1>7, <1>8, Zenon DEF HeldFacts
    <2>2. Live(v)
      BY <1>2, Zenon DEF Live, None
    <2> QED
      BY <1>1, <1>9, <2>1, <2>2, Zenon DEF RecordInv, KeptInv
  <1>15. RecordInv(v)'
    BY <1>1, <1>2, <1>3, <1>8, <1>9, <1>11, <1>12, <1>13, <1>14, UpRecord, Zenon
  <1> QED
    BY <1>1, <1>2, <1>9, <1>10, <1>15, OneRecord, Zenon

(* loadVM adds tap numbers to interfaces that are complete. *)
LEMMA TapsAdded ==
    ASSUME MigrationInv, NEW v \in VMs, loadVM(v), table' = table
    PROVE  /\ keys' \in [VMs -> SUBSET Keys] /\ \A w \in VMs \ {v} : keys'[w] = keys[w]
           /\ keys[v] \subseteq keys'[v] /\ keys'[v] \cap Legacy = keys[v] \cap Legacy
           /\ \A d \in {"sda", "other"} : <<"disk", d>> \in keys'[v] <=> <<"disk", d>> \in keys[v]
           /\ \A i \in Index : \A k : k # "tap_id" => (<<i, k>> \in keys'[v] <=> <<i, k>> \in keys[v])
           /\ NicsIn(keys'[v]) = NicsIn(keys[v]) /\ HasSubnet(v)' = HasSubnet(v)
           /\ HeldFacts(v) \subseteq HeldFacts(v)'
           /\ <<"vm", "subnet">> \in keys'[v] <=> <<"vm", "subnet">> \in keys[v]
           /\ Equipped(keys[v]) => Equipped(keys'[v])
           /\ Numbered(keys[v]) => Numbered(keys'[v])
           /\ known'[v] = known[v] /\ Before(v) => Before(v)'
           /\ known'[v] = known[v] /\ After(v) => After(v)'
  <1>1. PICK s \in SUBSET {i \in Nics(v) : Complete(v, i)} :
          keys' = [keys EXCEPT ![v] = @ \cup (s \X {"tap_id"})]
    BY Zenon DEF loadVM
  <1>2. s \subseteq NicsIn(keys[v]) /\ NicsIn(keys[v]) \subseteq Index /\ keys \in [VMs -> SUBSET Keys]
    BY Zenon DEF MigrationInv, TypeOK, Nics, NicsIn
  <1> DEFINE K == keys[v] \cup (s \X {"tap_id"})
  <1>3. K \in SUBSET Keys
    <2>1. s \X {"tap_id"} \subseteq Index \X NicKey
      BY <1>2, Zenon DEF NicKey
    <2> QED
      BY <1>2, <2>1, Zenon DEF Keys
  <1>4. /\ keys[v] \subseteq K
        /\ \A i : \A k : k # "tap_id" => (<<i, k>> \in K <=> <<i, k>> \in keys[v])
        /\ \A i : i \notin NicsIn(keys[v]) => \A k : <<i, k>> \in K <=> <<i, k>> \in keys[v]
    BY <1>2, Zenon
  <1>5. keys' = [keys EXCEPT ![v] = K]
    BY <1>1, Zenon
  <1> HIDE DEF K
  <1>6. keys' \in [VMs -> SUBSET Keys] /\ keys'[v] = K /\ \A w \in VMs \ {v} : keys'[w] = keys[w]
    BY <1>2, <1>3, <1>5, Zenon
  <1>7. \A k : <<"vm", k>> \in K <=> <<"vm", k>> \in keys[v]
    BY <1>2, <1>4, Zenon DEF Index
  <1>8. K \cap Legacy = keys[v] \cap Legacy
    BY <1>7, LegacyFacts, Zenon
  <1>9. NicsIn(K) = NicsIn(keys[v])
    <2>1. \A i \in Index : i \in NicsIn(keys[v]) => i \in NicsIn(K)
      BY <1>4, Zenon DEF NicsIn
    <2>2. \A i \in Index : i \notin NicsIn(keys[v]) => i \notin NicsIn(K)
      BY <1>4, Zenon DEF NicsIn
    <2>3. NicsIn(K) \subseteq Index
      BY Zenon DEF NicsIn
    <2> QED
      BY <1>2, <2>1, <2>2, <2>3, Zenon
  <1>10. HasSubnet(v)' = HasSubnet(v)
    BY <1>4, <1>6, Zenon DEF HasSubnet
  <1>11. HeldFacts(v) \subseteq HeldFacts(v)'
    BY <1>4, <1>6, Zenon DEF HeldFacts
  <1>12. Equipped(keys[v]) => Equipped(K)
    BY <1>4, Zenon DEF Equipped
  <1>13. Numbered(keys[v]) => Numbered(K)
    <2>1. OnePrimary(keys[v]) => OnePrimary(K)
      BY <1>4, <1>9, Zenon DEF OnePrimary
    <2> QED
      BY <1>4, <1>8, <1>9, <2>1, Zenon DEF Numbered
  <1>14. known'[v] = known[v] /\ Before(v) => Before(v)'
    BY <1>4, <1>6, <1>9, Zenon DEF Before, Single, Entered
  <1>15. known'[v] = known[v] /\ After(v) => After(v)'
    BY <1>4, <1>6, <1>9, <1>13, Zenon DEF After, Nics, Entered
  <1> QED
    BY <1>4, <1>6, <1>7, <1>8, <1>9, <1>10, <1>11, <1>12, <1>13, <1>14, <1>15, Zenon

LEMMA StartedKeeps ==
    ASSUME MigrationInv, Started
    PROVE  MigrationInv'
  <1>0. PICK v \in VMs : v = job.vm
    BY JobFacts, Zenon DEF MigrationInv, Started
  <1>1. /\ job.op = "write" /\ job.todo = <<>> /\ loadVM(v) /\ job' = Idle
        /\ \E s \in {"running", "error"} : st' = [st EXCEPT ![v] = s]
        /\ known' = [known EXCEPT ![v] = HeldFacts(v)]
        /\ UNCHANGED <<table, phase, todo, stops, torn>>
    BY <1>0, Zenon DEF Started
  <1>2. /\ phase = "up"
        /\ \E N \in {{"0"}, {"0", "1"}} : \E p \in N : keys[v] \cup Elems(job.todo) = NewRecord(N, p)
    BY <1>0, <1>1, JobFacts, Zenon DEF MigrationInv, WriteInv
  <1>3. PICK N \in {{"0"}, {"0", "1"}}, p \in {"0", "1"} : p \in N /\ keys[v] = NewRecord(N, p)
    BY <1>1, <1>2, NoElems, Zenon
  <1>4. /\ keys[v] \cap Legacy = {} /\ <<"disk", "sda">> \notin keys[v]
        /\ <<"disk", "other">> \notin keys[v]
        /\ NicsIn(keys[v]) = N /\ Numbered(keys[v]) /\ Equipped(keys[v])
        /\ \A i \in N : {<<i, "mac">>, <<i, "name">>} \subseteq keys[v]
        /\ HasSubnet(v) = N
    <2> DEFINE R == NewRecord(N, p)
    <2>1. /\ R \cap Legacy = {} /\ <<"disk", "sda">> \notin R /\ <<"disk", "other">> \notin R
          /\ NicsIn(R) = N /\ Numbered(R) /\ Equipped(R)
          /\ \A i \in N : {<<i, "mac">>, <<i, "name">>} \subseteq R
          /\ {i \in Index : <<i, "subnet">> \in R} = N
      BY <1>3, NewRecordSchema, Zenon
    <2>2. keys[v] = R
      BY <1>3, Zenon
    <2> HIDE DEF R
    <2> QED
      BY <2>1, <2>2, Zenon DEF HasSubnet
  <1>5. /\ keys' \in [VMs -> SUBSET Keys] /\ \A w \in VMs \ {v} : keys'[w] = keys[w]
        /\ keys[v] \subseteq keys'[v] /\ keys'[v] \cap Legacy = {}
        /\ <<"disk", "sda">> \notin keys'[v] /\ <<"disk", "other">> \notin keys'[v]
        /\ NicsIn(keys'[v]) = N /\ HasSubnet(v)' = N
        /\ HeldFacts(v) \subseteq HeldFacts(v)'
        /\ Equipped(keys'[v]) /\ Numbered(keys'[v])
    BY <1>1, <1>4, TapsAdded, Zenon
  <1>6. /\ st' \in [VMs -> RawStates \cup {None}] /\ known' \in [VMs -> SUBSET (Index \X NicKey)]
        /\ st'[v] \in {"running", "error"} /\ known'[v] = HeldFacts(v)
        /\ \A w \in VMs \ {v} : st'[w] = st[w] /\ known'[w] = known[w]
    <2>1. HeldFacts(v) \in SUBSET (Index \X NicKey)
      BY Zenon DEF HeldFacts, NicKey
    <2> QED
      BY <1>1, <2>1, Zenon DEF MigrationInv, TypeOK, RawStates, States
  <1>7. /\ TypeOK' /\ TodoInv' /\ TableInv' /\ table = {} /\ RecordInv(v)
        /\ \A w \in VMs \ {v} : Same(w) /\ Still(w)
    BY <1>0, <1>1, <1>2, <1>5, <1>6, UpFacts, Zenon
  <1>8. SchemaInv(v)'
    BY <1>5, <1>6, LegacyFacts, Zenon DEF SchemaInv, None, LegacyNames
  <1>9. KeptInv(v)'
    BY <1>5, <1>6, Zenon DEF KeptInv
  <1>10. WholeInv(v)'
    <2>1. After(v)'
      BY <1>4, <1>5, Zenon DEF After, Nics
    <2>2. ~Busy(v, "move")'
      BY <1>1, Zenon DEF Busy, Idle, None
    <2> QED
      BY <1>5, <2>1, <2>2, Zenon DEF WholeInv
  <1>11. \A i \in HasSubnet(v)' : <<i, "name">> \in keys'[v] /\ <<i, "mac">> \in keys'[v]
    BY <1>4, <1>5, Zenon
  <1>12. st'[v] \in States /\ st'[v] \notin Transient
    BY <1>6, Zenon DEF States, Transient
  <1>13. RecordInv(v)'
    BY <1>1, <1>2, <1>5, <1>7, <1>8, <1>9, <1>10, <1>11, <1>12, UpRecord, Zenon
  <1>14. JobInv'
    BY <1>1, IdleJob, Zenon
  <1> QED
    BY <1>1, <1>2, <1>7, <1>13, <1>14, OneRecord, Zenon


LEMMA StopVMKeeps ==
    ASSUME MigrationInv, StopVM
    PROVE  MigrationInv'
  <1>1. PICK v \in VMs : /\ st[v] \in {"running", "error"} /\ st' = [st EXCEPT ![v] = "deleting"]
                         /\ job' = [vm |-> v, op |-> "stop", todo |-> <<>>]
    BY Zenon DEF StopVM
  <1>2. phase = "up" /\ job = Idle /\ UNCHANGED <<keys, table, phase, todo, stops, known, torn>>
    BY Zenon DEF StopVM
  <1>3. job'.vm = v /\ job'.op = "stop" /\ JobShape'
    BY <1>1, Zenon DEF JobShape
  <1>4. /\ st' \in [VMs -> RawStates \cup {None}] /\ keys' \in [VMs -> SUBSET Keys]
        /\ known' \in [VMs -> SUBSET (Index \X NicKey)] /\ st'[v] = "deleting"
        /\ \A w \in VMs \ {v} : st'[w] = st[w] /\ keys'[w] = keys[w] /\ known'[w] = known[w]
    BY <1>1, <1>2, Zenon DEF MigrationInv, TypeOK, RawStates, States
  <1>5. /\ TypeOK' /\ TodoInv' /\ TableInv' /\ table = {} /\ RecordInv(v)
        /\ \A w \in VMs \ {v} : Same(w) /\ Still(w)
    BY <1>2, <1>3, <1>4, UpFacts, Zenon
  <1>6. JobInv'
    BY <1>2, <1>3, <1>4, Zenon DEF JobInv
  <1>7. /\ Live(v) /\ Live(v)' /\ st'[v] # None /\ st'[v] \in States
        /\ \A op \in {"move", "write"} : ~Busy(v, op) /\ ~Busy(v, op)'
    BY <1>1, <1>2, <1>3, <1>4, Zenon DEF Live, Busy, Idle, None, States
  <1>8. /\ Nics(v)' = Nics(v) /\ HasSubnet(v)' = HasSubnet(v) /\ HeldFacts(v)' = HeldFacts(v)
        /\ Before(v)' = Before(v) /\ After(v)' = After(v)
    BY <1>2, Zenon DEF Nics, HasSubnet, HeldFacts, Before, After, Entered
  <1>9. SchemaInv(v)' /\ KeptInv(v)'
    BY <1>2, <1>5, <1>7, <1>8, Zenon DEF RecordInv, SchemaInv, KeptInv
  <1>10. WholeInv(v)'
    BY <1>2, <1>5, <1>7, <1>8, Zenon DEF RecordInv, WholeInv
  <1>11. \A i \in HasSubnet(v)' : <<i, "name">> \in keys'[v] /\ <<i, "mac">> \in keys'[v]
    <2>1. st[v] # "deleted"
      BY <1>1
    <2> QED
      BY <1>2, <1>5, <1>7, <1>8, <2>1, Zenon DEF RecordInv, NameInv, MacInv, HasSubnet
  <1>12. (keys'[v] \cap Legacy = {} \/ Nics(v)' # {}) /\ <<"disk", "sda">> \notin keys'[v]
    BY <1>2, <1>5, <1>8, Zenon DEF RecordInv, MovedInv, DiskInv
  <1>13. RecordInv(v)'
    BY <1>2, <1>3, <1>5, <1>7, <1>9, <1>10, <1>11, <1>12, UpRecord, Zenon
  <1> QED
    BY <1>2, <1>5, <1>6, <1>13, OneRecord, Zenon

LEMMA StoppedKeeps ==
    ASSUME MigrationInv, Stopped
    PROVE  MigrationInv'
  <1>0. PICK v \in VMs : v = job.vm
    BY JobFacts, Zenon DEF MigrationInv, Stopped
  <1>1. /\ job.op = "stop" /\ loadVM(v)
        /\ \/ st' = [st EXCEPT ![v] = "error"] /\ job' = Idle
           \/ /\ Loadable(v) /\ st' = [st EXCEPT ![v] = "deleted"]
              /\ job' = [job EXCEPT !.op = "purge"]
        /\ UNCHANGED <<table, phase, todo, stops, known, torn>>
    BY <1>0, Zenon DEF Stopped
  <1>2. phase = "up" /\ st[v] = "deleting" /\ job = [vm |-> v, op |-> "stop", todo |-> job.todo]
    BY <1>0, <1>1, JobFacts, Zenon DEF MigrationInv, JobShape
  <1>3. /\ keys' \in [VMs -> SUBSET Keys] /\ \A w \in VMs \ {v} : keys'[w] = keys[w]
        /\ keys[v] \subseteq keys'[v] /\ keys'[v] \cap Legacy = keys[v] \cap Legacy
        /\ \A d \in {"sda", "other"} : <<"disk", d>> \in keys'[v] <=> <<"disk", d>> \in keys[v]
        /\ \A i \in Index : \A k : k # "tap_id" => (<<i, k>> \in keys'[v] <=> <<i, k>> \in keys[v])
        /\ NicsIn(keys'[v]) = NicsIn(keys[v]) /\ HasSubnet(v)' = HasSubnet(v)
        /\ HeldFacts(v) \subseteq HeldFacts(v)'
        /\ <<"vm", "subnet">> \in keys'[v] <=> <<"vm", "subnet">> \in keys[v]
        /\ Equipped(keys[v]) => Equipped(keys'[v])
        /\ Before(v) => Before(v)'
        /\ After(v) => After(v)'
    BY <1>1, TapsAdded, Zenon
  <1>4. /\ st' \in [VMs -> RawStates \cup {None}] /\ known' \in [VMs -> SUBSET (Index \X NicKey)]
        /\ st'[v] \in {"error", "deleted"}
        /\ \A w \in VMs \ {v} : st'[w] = st[w] /\ known'[w] = known[w]
    BY <1>1, Zenon DEF MigrationInv, TypeOK, RawStates, States
  <1>5. \/ job' = Idle
        \/ (job'.vm = v /\ job'.op = "purge" /\ job' = [vm |-> v, op |-> "purge", todo |-> job.todo])
    BY <1>1, <1>2
  <1>6. /\ TypeOK' /\ TodoInv' /\ TableInv' /\ table = {} /\ RecordInv(v)
        /\ \A w \in VMs \ {v} : Same(w) /\ Still(w)
    BY <1>0, <1>1, <1>2, <1>3, <1>4, <1>5, UpFacts
  <1>7. /\ Live(v) /\ \A op \in {"move", "write"} : ~Busy(v, op) /\ ~Busy(v, op)'
    BY <1>1, <1>2, <1>5 DEF Live, Busy, Idle, None
  <1>8. Nics(v)' = Nics(v)
    BY <1>3, Zenon DEF Nics
  <1>9. SchemaInv(v)'
    BY <1>3, <1>4, <1>6, <1>8, Zenon DEF RecordInv, SchemaInv, None, Index
  <1>10. KeptInv(v)'
    BY <1>1, <1>3, <1>6, <1>7, Zenon DEF RecordInv, KeptInv
  <1>11. WholeInv(v)'
    BY <1>1, <1>3, <1>6, <1>7, Zenon DEF RecordInv, WholeInv
  <1>12. \A i \in HasSubnet(v)' : <<i, "name">> \in keys'[v] /\ <<i, "mac">> \in keys'[v]
    <2>1. st[v] # "deleted"
      BY <1>2
    <2> QED
      BY <1>2, <1>3, <1>6, <1>7, <2>1, Zenon DEF RecordInv, NameInv, MacInv, HasSubnet
  <1>13. (keys'[v] \cap Legacy = {} \/ Nics(v)' # {}) /\ <<"disk", "sda">> \notin keys'[v]
    BY <1>2, <1>3, <1>6, <1>8, Zenon DEF RecordInv, MovedInv, DiskInv
  <1>14. st'[v] \in States /\ st'[v] \notin Transient
    BY <1>4, Zenon DEF States, Transient
  <1>15. RecordInv(v)'
    BY <1>1, <1>2, <1>6, <1>9, <1>10, <1>11, <1>12, <1>13, <1>14, UpRecord, Zenon
  <1>16. JobInv'
    <2>1. CASE job' = Idle
      BY <2>1, IdleJob, Zenon
    <2>2. CASE job' # Idle
      <3>1. Loadable(v) /\ st'[v] = "deleted"
        BY <1>1, <2>2, Zenon DEF MigrationInv, TypeOK
      <3>2. \E i \in Index : <<i, "primary">> \in keys[v]
        BY <3>1, Zenon DEF Loadable, OnePrimary, NicsIn
      <3>3. keys'[v] \cap Legacy = {}
        BY <1>3, <1>6, <3>2, Zenon DEF RecordInv, SchemaInv
      <3>4. PurgeInv' /\ JobShape'
        BY <1>1, <1>2, <1>5, <2>2, <3>1, <3>3, Zenon DEF PurgeInv, JobShape
      <3> QED
        BY <1>5, <2>2, <3>4, Zenon DEF JobInv
    <2> QED
      BY <2>1, <2>2, Zenon
  <1> QED
    BY <1>1, <1>2, <1>6, <1>15, <1>16, OneRecord, Zenon

(* The state goes after every key of the new schema. *)
LEMMA PurgeFacts ==
    /\ DOMAIN PurgeOrder = 1..19
    /\ \A n \in 1..19 : PurgeOrder[n] = <<"vm", "state">> => n = 17
    /\ \A x \in Keys \ Legacy : x # <<"disk", "other">> => \E n \in 1..16 : PurgeOrder[n] = x
  <1>1. DOMAIN PurgeOrder = 1..19
    BY DEF PurgeOrder
  <1>2. \A n \in 1..19 : PurgeOrder[n] = <<"vm", "state">> => n = 17
    BY DEF PurgeOrder
  <1>3. ASSUME NEW x \in Keys \ Legacy, x # <<"disk", "other">> PROVE \E n \in 1..16 : PurgeOrder[n] = x
    <2>1. CASE x \in {<<"disk", "sda">>, <<"disk", "xvda">>, <<"vm", "body">>}
      BY <2>1 DEF PurgeOrder
    <2>2. CASE x \in {"0"} \X NicKey
      BY <2>2 DEF PurgeOrder, NicKey
    <2>3. CASE x \in {"1"} \X NicKey
      BY <2>3 DEF PurgeOrder, NicKey
    <2> QED
      BY <1>3, <2>1, <2>2, <2>3, Zenon DEF Keys, Index
  <1> QED
    BY <1>1, <1>2, <1>3, Zenon

LEMMA PurgeKeeps ==
    ASSUME MigrationInv, Purge
    PROVE  MigrationInv'
  <1>0. PICK v \in VMs : v = job.vm
    BY JobFacts, Zenon DEF MigrationInv, Purge
  <1>1. PICK n \in DOMAIN PurgeOrder :
          /\ \A m \in 1..(n - 1) : PurgeOrder[m] \notin Stored(v)
          /\ keys' = [keys EXCEPT ![v] = @ \ {PurgeOrder[n]}]
          /\ st' = [st EXCEPT ![v] = IF PurgeOrder[n] = <<"vm", "state">> THEN None ELSE @]
    BY <1>0, Zenon DEF Purge
  <1>2. /\ job.op = "purge" /\ UNCHANGED <<table, phase, todo, stops, known, torn>>
        /\ job' = IF keys'[v] = {} /\ st'[v] = None THEN Idle ELSE job
    BY <1>0, Zenon DEF Purge
  <1>3. phase = "up" /\ st[v] = "deleted" /\ keys[v] \cap Legacy = {} /\ keys[v] \in SUBSET Keys
    BY <1>0, <1>2, JobFacts, Zenon DEF MigrationInv, PurgeInv, TypeOK
  <1>4. /\ st' \in [VMs -> RawStates \cup {None}] /\ keys' \in [VMs -> SUBSET Keys]
        /\ known' \in [VMs -> SUBSET (Index \X NicKey)]
        /\ \A w \in VMs \ {v} : st'[w] = st[w] /\ keys'[w] = keys[w] /\ known'[w] = known[w]
        /\ keys'[v] = keys[v] \ {PurgeOrder[n]}
        /\ st'[v] = IF PurgeOrder[n] = <<"vm", "state">> THEN None ELSE "deleted"
    BY <1>1, <1>2, <1>3, Zenon DEF MigrationInv, TypeOK
  <1>5. /\ TypeOK' /\ TodoInv' /\ TableInv' /\ table = {} /\ RecordInv(v)
        /\ \A w \in VMs \ {v} : Same(w) /\ Still(w)
    BY <1>0, <1>2, <1>3, <1>4, UpFacts, Zenon
  <1>6. PurgeOrder[n] = <<"vm", "state">> => keys[v] = {}
    <2> SUFFICES ASSUME PurgeOrder[n] = <<"vm", "state">>, NEW x \in keys[v] PROVE FALSE
      BY Zenon
    <2>0. <<"disk", "other">> \notin keys[v]
      BY <1>3, <1>5, Zenon DEF RecordInv, SchemaInv, DiskInv
    <2>1. n = 17 /\ x \in Keys \ Legacy /\ x # <<"disk", "other">>
      BY <1>1, <1>3, <2>0, PurgeFacts, Zenon
    <2>2. PICK m \in 1..16 : PurgeOrder[m] = x
      BY <2>1, PurgeFacts, Zenon
    <2>3. m \in 1..(n - 1)
      BY <2>1
    <2> QED
      BY <1>1, <2>2, <2>3, Zenon DEF Stored
  <1>7. \/ st'[v] = None /\ keys'[v] = {} /\ job' = Idle
        \/ st'[v] = "deleted" /\ job' = job
    BY <1>2, <1>4, <1>6, Zenon DEF None
  <1>8. /\ keys'[v] \cap Legacy = {} /\ <<"disk", "sda">> \notin keys'[v]
        /\ <<"disk", "other">> \notin keys'[v]
    BY <1>3, <1>4, <1>5, Zenon DEF RecordInv, SchemaInv, DiskInv
  <1>9. JobInv'
    <2>1. CASE job' = Idle
      BY <2>1, IdleJob, Zenon
    <2>2. CASE st'[v] = "deleted" /\ job' = job
      <3>1. PurgeInv'
        BY <1>0, <1>2, <1>3, <1>8, <2>2, Zenon DEF PurgeInv
      <3>2. JobShape'
        BY <2>2, JobFacts, Zenon DEF MigrationInv, JobShape
      <3> QED
        BY <1>0, <1>2, <2>2, <3>1, <3>2, Zenon DEF JobInv
    <2> QED
      BY <1>7, <2>1, <2>2, Zenon
  <1>10. ~Live(v)' /\ st'[v] \in States \cup {None} /\ st'[v] \notin Transient
    BY <1>7, Zenon DEF Live, States, Transient, None
  <1>11. SchemaInv(v)' /\ KeptInv(v)' /\ WholeInv(v)'
    <2>1. <<"vm", "subnet">> \notin keys'[v]
      BY <1>8, LegacyFacts, Zenon DEF LegacyNames
    <2>2. st'[v] = None => keys'[v] = {}
      BY <1>7, Zenon DEF None
    <2> QED
      BY <1>8, <1>10, <2>1, <2>2, Zenon DEF SchemaInv, KeptInv, WholeInv
  <1>12. RecordInv(v)'
    <2>1. st'[v] # "deleted" => \A i \in HasSubnet(v)' : <<i, "mac">> \in keys'[v]
      BY <1>7, Zenon DEF HasSubnet
    <2> QED
      BY <1>2, <1>3, <1>5, <1>8, <1>10, <1>11, <2>1, UpRecord, Zenon
  <1> QED
    BY <1>2, <1>3, <1>5, <1>9, <1>12, OneRecord, Zenon


-----------------------------------------------------------------------------
(* The theorems *)

LEMMA InitKeeps ==
    ASSUME Init
    PROVE  MigrationInv
  <1>1. PICK f \in [VMs -> Layouts] :
          /\ keys = [v \in VMs |-> f[v].keys] /\ st = [v \in VMs |-> f[v].st]
          /\ table = {p \in VMs \X Index : p[2] \in f[p[1]].macs}
    BY Zenon DEF Init
  <1>2. /\ phase = "off" /\ todo = {} /\ job = Idle /\ stops = 0 /\ torn = {}
        /\ known = [v \in VMs |-> HeldFacts(v)]
    BY Zenon DEF Init
  <1>3. ASSUME NEW v \in VMs
        PROVE  /\ keys[v] \in SUBSET Keys /\ st[v] \in RawStates \cup {None}
               /\ st[v] = None => keys[v] = {}
               /\ NicsIn(keys[v]) = {} \/ keys[v] \cap Legacy = {}
               /\ Live(v) => Equipped(keys[v]) /\ (Single(keys[v]) \/ Numbered(keys[v]))
               /\ <<"disk", "other">> \in keys[v] => <<"disk", "sda">> \in keys[v]
               /\ \A i \in Index : <<v, i>> \in table =>
                     <<i, "ip">> \in keys[v] \/ (i = "0" /\ <<"vm", "ip">> \in keys[v])
    <2>1. f[v] \in Layouts /\ keys[v] = f[v].keys /\ st[v] = f[v].st
      BY <1>1, Zenon
    <2>2. \A i \in Index : <<v, i>> \in table => i \in f[v].macs
      BY <1>1, Zenon
    <2> QED
      BY <2>1, <2>2, LayoutsAssumption, Zenon DEF Live
  <1>4. TypeOK
    <2>1. known \in [VMs -> SUBSET (Index \X NicKey)]
      BY <1>2, Zenon DEF HeldFacts, NicKey
    <2>2. st \in [VMs -> RawStates \cup {None}] /\ keys \in [VMs -> SUBSET Keys]
      BY <1>1, <1>3, Zenon
    <2>3. stops \in 0..MaxStops
      BY <1>2, LayoutsAssumption
    <2>4. table \subseteq VMs \X Index /\ job.vm = None
      BY <1>1, <1>2, Zenon DEF Idle
    <2> QED
      BY <1>2, <2>1, <2>2, <2>3, <2>4, Zenon DEF TypeOK
  <1>5. JobInv /\ TodoInv /\ TableInv /\ OnlyBrokenRecordsBlockBoot
    BY <1>2, Zenon DEF JobInv, JobShape, Idle, TodoInv, TableInv, OnlyBrokenRecordsBlockBoot
  <1>6. ASSUME NEW v \in VMs PROVE RecordInv(v)
    <2>1. StateInv(v) /\ MovedInv(v) /\ MacInv(v) /\ NameInv(v) /\ DiskInv(v)
      BY <1>2, Zenon DEF StateInv, MovedInv, MacInv, NameInv, DiskInv
    <2>2. \A i \in Index : <<i, "mac">> \in keys[v] \/ Entered(v, i)
      <3>1. <<"vm", "mac">> \notin Legacy
        BY LegacyFacts, Zenon DEF LegacyNames
      <3>2. <<"vm", "mac">> \notin Keys
        BY <3>1, Zenon DEF Keys, Index
      <3>3. known[v] = HeldFacts(v)
        BY <1>2, Zenon
      <3> QED
        BY <1>3, <3>2, <3>3, Zenon DEF HeldFacts, Entered
    <2>3. \A i \in Index, k \in NicKey : <<i, k>> \in keys[v] => i \in NicsIn(keys[v])
      BY Zenon DEF NicsIn
    <2>4. \A k \in LegacyNames : <<"vm", k>> \in keys[v] => keys[v] \cap Legacy # {}
      BY LegacyFacts, Zenon
    <2>5. SchemaInv(v)
      BY <1>3, <2>3, <2>4, Zenon DEF SchemaInv, NicKey, LegacyNames, Nics
    <2>6. EntryInv(v)
      <3> SUFFICES ASSUME NEW i \in Index, <<v, i>> \in table, Live(v)
                   PROVE  <<i, "subnet">> \in keys[v] \/ (i = "0" /\ <<"vm", "subnet">> \in keys[v])
        BY Zenon DEF EntryInv
      <3>1. CASE <<i, "ip">> \in keys[v]
        <4>1. i \in NicsIn(keys[v])
          BY <2>3, <3>1, Zenon DEF NicKey
        <4> QED
          BY <1>3, <4>1, Zenon DEF Single, Numbered
      <3>2. CASE i = "0" /\ <<"vm", "ip">> \in keys[v]
        <4>1. keys[v] \cap Legacy # {}
          BY <2>4, <3>2, Zenon DEF LegacyNames
        <4> QED
          BY <1>3, <3>2, <4>1, Zenon DEF Single, Numbered
      <3> QED
        BY <1>3, <3>1, <3>2, Zenon
    <2>7. KeptInv(v)
      BY <1>2, Zenon DEF KeptInv
    <2>8. WholeInv(v)
      <3> SUFFICES ASSUME Live(v) PROVE Equipped(keys[v]) /\ (Before(v) \/ After(v))
        BY <1>2, Zenon DEF WholeInv, Busy, Idle, None
      <3>1. CASE Single(keys[v])
        <4>1. <<"0", "mac">> \notin keys[v] /\ <<"vm", "ip">> \in keys[v] /\ "0" \in Index
          BY <2>3, <3>1, Zenon DEF Single, Index, NicKey
        <4> QED
          BY <1>3, <2>2, <3>1, <4>1, Zenon DEF Before
      <3>2. CASE Numbered(keys[v])
        <4>1. \A i \in NicsIn(keys[v]) : i \in Index /\ <<i, "ip">> \in keys[v]
          BY <3>2, Zenon DEF Numbered, NicsIn
        <4> QED
          BY <1>3, <2>2, <3>2, <4>1, Zenon DEF After, Nics
      <3> QED
        BY <1>3, <3>1, <3>2, Zenon
    <2> QED
      BY <2>1, <2>5, <2>6, <2>7, <2>8, Zenon DEF RecordInv
  <1> QED
    BY <1>4, <1>5, <1>6, Zenon DEF MigrationInv

LEMMA StutterKeeps ==
    ASSUME MigrationInv, UNCHANGED vars
    PROVE  MigrationInv'
  <1>1. UNCHANGED <<st, keys, table, phase, todo, job, stops, known, torn>>
    BY Zenon DEF vars
  <1>2. TypeOK' /\ TodoInv' /\ TableInv' /\ OnlyBrokenRecordsBlockBoot'
    BY <1>1, Zenon DEF MigrationInv, TypeOK, TodoInv, TableInv,
       OnlyBrokenRecordsBlockBoot, NoMAC, DiskConflict, HasSubnet
  <1>3. JobInv'
    BY <1>1, Zenon DEF MigrationInv, JobInv, JobShape, MoveInv, WriteInv, PurgeInv
  <1>4. ASSUME NEW v \in VMs PROVE RecordInv(v)'
    BY <1>1, Untouched, Zenon DEF MigrationInv, Same, Still
  <1> QED
    BY <1>2, <1>3, <1>4, Zenon DEF MigrationInv

LEMMA NextKeeps ==
    ASSUME MigrationInv, [Next]_vars
    PROVE  MigrationInv'
  <1>1. CASE Next
    BY <1>1, BootKeeps, NextMigrationKeeps, MigrateStatesKeeps, TakeVMKeeps, AddKeyKeeps,
       DropKeyKeeps, MarkPrimaryKeeps, MigrateVMMACsKeeps, DropTableKeeps,
       MigrateVMNICNamesKeeps, MigrateVMDisksKeeps,
       StartVMKeeps, WriteKeyKeeps, StartedKeeps, StopVMKeeps, StoppedKeeps, PurgeKeeps, StopKeeps,
       Zenon DEF Next
  <1>2. CASE UNCHANGED vars
    BY <1>2, StutterKeeps, Zenon
  <1> QED
    BY <1>1, <1>2, Zenon

(* The invariant holds of every boot, creation, deletion and stop, for any *)
(* VMs and any records an earlier version left (cmd/agent/main.go: run,    *)
(* internal/migration).                                                    *)
THEOREM RecordsInvariant == Spec => []MigrationInv
  <1>1. Init => MigrationInv
    BY InitKeeps, Zenon
  <1>2. MigrationInv /\ [Next]_vars => MigrationInv'
    BY NextKeeps, Zenon
  <1> QED
    BY <1>1, <1>2, PTL DEF Spec

(* The states and the keys of the records stay in the schemas of the       *)
(* versions.                                                               *)
THEOREM RecordsTyped == Spec => []TypeOK
  <1>1. MigrationInv => TypeOK
    BY Zenon DEF MigrationInv
  <1> QED
    BY <1>1, RecordsInvariant, PTL

(* No stop of the agent, wherever it falls between the writes of the       *)
(* migrations, loses a fact of an interface.                               *)
THEOREM NoFactLost == Spec => []InterfacesKept
  <1>1. ASSUME MigrationInv PROVE InterfacesKept
    <2>1. ASSUME NEW v \in VMs, st[v] \notin {None, "creating", "deleted", "stopped"}
          PROVE  known[v] \subseteq HeldFacts(v)
      BY <1>1, <2>1, Zenon DEF MigrationInv, RecordInv, KeptInv, Live
    <2> QED
      BY <2>1, Zenon DEF InterfacesKept
  <1> QED
    BY <1>1, RecordsInvariant, PTL

(* Once the five migrations are done every record that no stop has torn    *)
(* is one that loadVM accepts, and every state is a current one.           *)
THEOREM MigrationsComplete == Spec => []UpIsMigrated
  <1>1. ASSUME MigrationInv, phase = "up", NEW v \in VMs
        PROVE  /\ st[v] \in States \cup {None}
               /\ st[v] \in Transient => job.vm = v
               /\ st[v] \in {"running", "error"} /\ v \notin torn =>
                     /\ Loadable(v)
                     /\ <<"disk", "sda">> \notin keys[v]
                     /\ \A i \in Nics(v) : <<i, "name">> \in keys[v]
    <2>1. RecordInv(v) /\ JobInv /\ table = {}
      BY <1>1, Zenon DEF MigrationInv, TableInv
    <2>2. st[v] \in States \cup {None} /\ (st[v] \in Transient => job.vm = v)
      BY <1>1, <2>1, Zenon DEF RecordInv, StateInv
    <2>3. ASSUME st[v] \in {"running", "error"}, v \notin torn
          PROVE  /\ Loadable(v)
                 /\ <<"disk", "sda">> \notin keys[v]
                 /\ \A i \in Nics(v) : <<i, "name">> \in keys[v]
      <3>1. Live(v) /\ ~Busy(v, "write") /\ ~Busy(v, "move")
        BY <1>1, <2>1, <2>3, JobFacts, Zenon DEF Live, Busy, WriteInv, MoveInv, None
      <3>2. Equipped(keys[v]) /\ (Before(v) \/ After(v))
        BY <2>1, <2>3, <3>1, Zenon DEF RecordInv, WholeInv
      <3>3. After(v)
        BY <1>1, <2>1, <3>2, LegacyFacts, Zenon DEF Before, Single, RecordInv, MovedInv, LegacyNames, Nics
      <3>7. \A i \in HasSubnet(v) : <<i, "mac">> \in keys[v]
        <4>1. st[v] # "deleted"
          BY <2>3
        <4> QED
          BY <1>1, <2>1, <3>1, <4>1, Zenon DEF RecordInv, MacInv, HasSubnet
      <3>4. /\ NicsIn(keys[v]) # {} /\ OnePrimary(keys[v])
            /\ \A i \in NicsIn(keys[v]) :
                  i \in Index /\ {<<i, "subnet">>, <<i, "ip">>, <<i, "mac">>} \subseteq keys[v]
        BY <3>3, <3>7, Zenon DEF After, Numbered, NicsIn, HasSubnet
      <3>5. Loadable(v)
        BY <3>2, <3>4, Zenon DEF Loadable, Complete, Nics
      <3>6. \A i \in Nics(v) : <<i, "name">> \in keys[v]
        BY <1>1, <2>1, <3>1, <3>4, Zenon DEF RecordInv, NameInv, HasSubnet, Nics
      <3> QED
        BY <1>1, <2>1, <3>5, <3>6, Zenon DEF RecordInv, DiskInv
    <2> QED
      BY <2>2, <2>3, Zenon
  <1>2. MigrationInv => UpIsMigrated
    BY <1>1, Zenon DEF UpIsMigrated
  <1> QED
    BY <1>2, RecordsInvariant, PTL

(* MigrateVMMACs refuses the boot only for a record that a stop has torn   *)
(* or an interface that never had a MAC, MigrateVMDisks only for two disks *)
(* of one name: not because a stop cut their own work.                     *)
THEOREM WholeRecordsBoot == Spec => []OnlyBrokenRecordsBlockBoot
  <1>1. MigrationInv => OnlyBrokenRecordsBlockBoot
    BY Zenon DEF MigrationInv
  <1> QED
    BY <1>1, RecordsInvariant, PTL
=============================================================================

----------------------------- MODULE HostProofs -----------------------------
(***************************************************************************)
(* HostInv is an invariant of HostCommands, and implies its properties.    *)
(***************************************************************************)
EXTENDS HostWorkers, HostRecords

-----------------------------------------------------------------------------
(* Every step keeps the invariant *)

(* A deletion that reaches its end has left nothing. *)
LEMMA Emptied ==
    ASSUME HostInv, NEW r \in Resources, st[r] = "deleting", Current(r) = {}
    PROVE  /\ Own(r) \cap has \subseteq Spared
           /\ "dhcp_unit" \notin has => Own(r) \cap has = {}
  <1> DEFINE L == Deletion(r)
  <1>1. Working(r)
    BY Zenon DEF Working
  <1>2. pc[r] = Len(L) + 1 /\ r \notin bad
    BY <1>1, Finished, Zenon
  <1>3. Unbuilds(L, r, Creation(r))
    BY Grounded, Zenon
  <1>4. DeleteInv(r) /\ ObjectInv /\ has \subseteq Objects
    BY Zenon DEF HostInv, ResourceInv, TypeOK
  <1>5. /\ \A o \in has : Base[o] \subseteq has
        /\ \A o \in has : o \notin Unplanned
    BY <1>4, SupportFacts, Zenon DEF ObjectInv, Upheld
  <1>6. "dhcp_unit" \notin has => "lease" \notin has /\ "deaf" \notin has
    <2>1. Base["lease"] = {"dhcp_unit"} /\ Base["deaf"] = {"dhcp_unit"}
      BY Zenon DEF Base
    <2> QED
      BY <1>5, <2>1, Zenon
  <1>7. ASSUME NEW o \in Own(r) \cap has, o # "lease"
        PROVE  "dhcp_unit" \in has /\ o \in Spared
    <2>1. PICK i \in 1 .. Len(L) : Removes(L[i]) /\ o \in Fallen[L[i].on]
      BY <1>3, <1>5, <1>7, Zenon DEF Unbuilds, Covers
    <2>2. L[i].on \in Objects
      BY <1>3, Zenon DEF Unbuilds, Unmakes
    <2>3. L[i].on \in has
      <3>1. SUFFICES ASSUME L[i].on \notin has PROVE FALSE
        BY Zenon
      <3>2. has \in SUBSET Objects /\ L[i].on \in Objects \ has
        BY <1>4, <2>2, <3>1, Zenon
      <3>3. Fallen[L[i].on] \cap has = {}
        BY <1>5, <3>2, AbsentFallen, Zenon
      <3> QED
        BY <2>1, <3>3, Zenon
    <2>4. i < pc[r]
      <3>1. Len(L) \in 1 .. 18
        BY <1>3, Zenon DEF Unbuilds
      <3> QED
        BY <1>2, <3>1
    <2>5. L[i].on = "dhcp_unit" /\ "unread" \in hurt
      BY <1>2, <1>4, <2>1, <2>3, <2>4, Zenon DEF DeleteInv
    <2>6. o \in {"dhcp_unit", "lease", "deaf"}
      BY <2>1, <2>5, FallenFacts, Zenon
    <2> QED
      BY <2>3, <2>5, <2>6, Zenon DEF Spared
  <1>8. ASSUME "lease" \in Own(r), "lease" \in has
        PROVE  "lease" \in Spared
    <2>1. r = "vm"
      BY <1>8, Zenon DEF Own, Resources
    <2>2. PICK i \in 1 .. Len(L) : L[i].kind = "restart"
      BY <1>3, <2>1, Zenon DEF Unbuilds, Covers
    <2>3. i < pc[r]
      <3>1. Len(L) \in 1 .. 18
        BY <1>3, Zenon DEF Unbuilds
      <3> QED
        BY <1>2, <3>1
    <2>4. "unread" \in hurt
      BY <1>4, <1>8, <2>2, <2>3, Zenon DEF DeleteInv
    <2> QED
      BY <2>4, Zenon DEF Spared
  <1> QED
    BY <1>6, <1>7, <1>8, Zenon

(* A worker that has come to the end of its list leaves the resource       *)
(* whole, or gone.                                                         *)
LEMMA EndKeeps ==
    ASSUME HostInv, NEW r \in Resources, End(r)
    PROVE  Core'
  <1>1. /\ Working(r) /\ Current(r) = {}
        /\ st' = [st EXCEPT ![r] = IF @ = "creating" THEN "running" ELSE "none"]
        /\ pc' = [pc EXCEPT ![r] = 1]
        /\ hurt' = IF st[r] = "deleting" /\ ~(r = "vm" /\ "qemu" \in has)
               THEN hurt \ ({r} \cup (IF r = "subnet" THEN {"dhcp"} ELSE {})
                               \cup (IF r = "vm" THEN {"exit"} ELSE {})
                               \cup (IF "dhcp_unit" \in has THEN {} ELSE {"unread"}))
               ELSE hurt
        /\ late' = IF st[r] = "deleting" THEN late \ {r} ELSE late
        /\ has' = has /\ plan' = plan /\ bad' = bad /\ told' = told /\ seen' = seen
        /\ faults' = faults
    BY Zenon DEF End
  <1>2. RecordsOK /\ QemuInv
    BY CoreHolds, Zenon DEF Core
  <1>3. st[r] \in {"creating", "deleting"}
    BY <1>1, Zenon DEF Working
  <1>4. /\ st'[r] = IF st[r] = "creating" THEN "running" ELSE "none"
        /\ pc'[r] = 1
        /\ \A q \in Resources \ {r} : st'[q] = st[q] /\ pc'[q] = pc[q]
    BY <1>1, <1>2, Zenon DEF RecordsOK
  <1>5. /\ hurt' \subseteq hurt /\ hurt \ hurt' \subseteq {r, "dhcp", "unread", "exit"}
        /\ "unread" \in hurt \ hurt' => "dhcp_unit" \notin has
        /\ "dhcp" \in hurt \ hurt' => r = "subnet"
        /\ "exit" \in hurt \ hurt' => r = "vm"
        /\ "mute" \in hurt => "mute" \in hurt'
        /\ st[r] = "creating" => hurt' = hurt
        /\ r = "vm" /\ "qemu" \in has => hurt' = hurt
    BY <1>1, <1>3, Zenon DEF Resources
  <1>6. RecordsOK'
    <2>1. st' \in [Resources -> {"none", "creating", "running", "deleting", "error"}]
      BY <1>1, <1>2, Zenon DEF RecordsOK
    <2>2. pc' \in [Resources -> 1 .. 20]
      <3>1. pc \in [Resources -> 1 .. 20] /\ 1 \in 1 .. 20
        BY <1>2 DEF RecordsOK
      <3> QED
        BY <1>1, <3>1, Zenon
    <2>3. \A q \in Resources : st'[q] # "none" => q \in plan.uses
      <3>1. st[r] # "none"
        BY <1>3, Zenon
      <3> QED
        BY <1>2, <1>4, <3>1, Zenon DEF RecordsOK
    <2>4. /\ hurt' \subseteq Resources \cup {"dhcp", "unread", "mute", "exit"}
          /\ late' \subseteq Attachments
      BY <1>1, <1>2, <1>5, Zenon DEF RecordsOK
    <2> QED
      BY <1>1, <1>2, <2>1, <2>2, <2>3, <2>4, Zenon DEF RecordsOK
  <1>7. ObjectInv'
    <2>1. ASSUME NEW c \in late \ late'
          PROVE  Own(c) \cap has \subseteq {"lease", "dhcp_unit", "deaf"}
      <3>1. c = r /\ st[r] = "deleting"
        BY <1>1, <2>1, Zenon
      <3>2. Own(r) \cap has \subseteq Spared
        BY <1>1, <3>1, Emptied, Zenon
      <3> QED
        BY <3>1, <3>2, Zenon DEF Spared
    <2> QED
      BY <1>1, <2>1, StillObject, Zenon
  <1>8. Local(r)
    <2>1. Gains(r) /\ Loses(r) /\ Swaps
      BY <1>1, Zenon DEF Gains, Loses, Swaps
    <2>2. \A q \in Resources \ {r} : (q \in hurt => q \in hurt') /\ (q \in late' <=> q \in late)
      BY <1>1, <1>5, Zenon DEF Resources
    <2>3. /\ "unread" \in hurt \ hurt' => "dhcp_unit" \notin has'
          /\ "dhcp_unit" \notin has \ has'
      BY <1>1, <1>5, Zenon
    <2> QED
      BY <1>1, <1>4, <1>5, <1>7, <2>1, <2>2, <2>3, Zenon DEF Local
  <1>9. \A q \in Resources \ {r} : ResourceInv(q)'
    BY <1>1, <1>8, OthersKept, Zenon
  <1>10. ResourceInv(r)'
    <2>1. r \notin bad /\ r \notin bad'
      BY <1>1, Finished, Zenon
    <2>2. TreeInv(r)'
      <3>1. \A p \in Parent[r] : p \in Resources \ {r}
        BY DEF Parent, Resources
      <3>2. TreeInv(r) /\ st[r] # "none"
        BY <1>3, Zenon DEF HostInv, ResourceInv
      <3>3. st'[r] # "none" => late' = late
        BY <1>1, <1>3, <1>4, Zenon
      <3> QED
        BY <1>4, <3>1, <3>2, <3>3, Zenon DEF TreeInv
    <2>3. PlaceInv(r)' /\ CreateInv(r)' /\ DeleteInv(r)'
      BY <1>4, <2>1, Zenon DEF PlaceInv, CreateInv, DeleteInv, Working
    <2>4. RunningInv(r)'
      <3>1. SUFFICES ASSUME st[r] = "creating", r \notin late
                     PROVE  Made(r) \subseteq has \cup {"qemu", "default_vrf"}
        <4>1. Made(r)' = Made(r)
          BY <1>1, ListsKept, Zenon
        <4> QED
          BY <1>1, <1>3, <1>4, <3>1, <4>1 DEF RunningInv
      <3>2. CreateInv(r) /\ pc[r] = Len(Creation(r)) + 1 /\ Len(Creation(r)) \in 1 .. 18
        BY <1>1, <3>1, Finished, Grounded, Zenon DEF HostInv, ResourceInv, Builds
      <3>3. \A i \in 1 .. Len(Creation(r)) : i < pc[r]
        BY <3>2
      <3> QED
        BY <3>1, <3>2, <3>3, Zenon DEF CreateInv, Made
    <2>5. GoneInv(r)'
      <3>1. SUFFICES ASSUME st[r] = "deleting"
                     PROVE  Own(r) \cap has \subseteq Spared'
        BY <1>1, <1>3, <1>4 DEF GoneInv
      <3>2. /\ Own(r) \cap has \subseteq Spared
            /\ "dhcp_unit" \notin has => Own(r) \cap has = {}
        BY <1>1, <3>1, Emptied, Zenon
      <3>3. CASE "unread" \in hurt'
        BY <3>2, <3>3, Zenon DEF Spared
      <3>4. CASE "unread" \notin hurt'
        BY <1>5, <3>2, <3>4, Zenon DEF Spared
      <3> QED
        BY <3>3, <3>4, Zenon
    <2> QED
      BY <2>2, <2>3, <2>4, <2>5, Zenon DEF ResourceInv
  <1>11. QemuInv'
    <2>1. CASE r # "vm"
      BY <1>1, <1>8, <2>1, QemuOthers, Zenon
    <2>2. CASE r = "vm" /\ "qemu" \notin has /\ st[r] = "deleting"
      <3>1. st'["vm"] = "none"
        BY <1>4, <2>2, Zenon
      <3>2. ~Alive'
        BY <3>1, Zenon DEF Alive
      <3> QED
        BY <1>1, <2>2, <3>2, Zenon DEF QemuInv
    <2>3. CASE r = "vm" /\ ("qemu" \in has \/ st[r] = "creating")
      <3>1. /\ Working("vm") /\ plan' = plan /\ has' = has /\ (told => told')
            /\ \A h \in {"vm", "mute", "exit"} : h \in hurt => h \in hurt'
        BY <1>1, <1>5, <2>3, Zenon
      <3>2. \/ /\ st'["vm"] = "running" /\ st["vm"] = "creating"
               /\ pc["vm"] > Len(Creation("vm"))
            \/ st'["vm"] = "none" /\ st["vm"] = "deleting" /\ pc["vm"] > Len(Deletion("vm"))
        <4>1. CASE st[r] = "creating"
          <5>1. pc[r] = Len(Creation(r)) + 1 /\ Len(Creation(r)) \in 1 .. 18
            BY <1>1, <4>1, Finished, Grounded, Zenon DEF Builds
          <5> QED
            BY <1>4, <2>3, <4>1, <5>1
        <4>2. CASE st[r] = "deleting"
          <5>1. pc[r] = Len(Deletion(r)) + 1 /\ Len(Deletion(r)) \in 1 .. 18
            BY <1>1, <4>2, Finished, Grounded, Zenon DEF Unbuilds
          <5> QED
            BY <1>4, <2>3, <4>2, <5>1
        <4> QED
          BY <1>3, <4>1, <4>2, Zenon
      <3> QED
        BY <3>1, <3>2, QemuStill, Zenon
    <2> QED
      BY <1>3, <2>1, <2>2, <2>3, Zenon
  <1>12. \A q \in Resources : ResourceInv(q)'
    BY <1>9, <1>10, Zenon
  <1>13. SeenInv'
    <2>1. late' = late \/ (late' = late \ {r} /\ st'[r] = "none")
      BY <1>1, <1>3, <1>4, Zenon
    <2> QED
      BY <1>1, <1>8, <2>1, SeenKept, Zenon
  <1> QED
    BY <1>6, <1>7, <1>11, <1>12, <1>13, Zenon DEF Core

(* The worker of the VPC takes the answer of the host service. *)
LEMMA AnsweredKeeps ==
    ASSUME HostInv, Answered
    PROVE  Core'
  <1>1. /\ Working("vpc") /\ reply \in {"ok", "failed"}
        /\ has' = has /\ plan' = plan /\ told' = told /\ seen' = seen /\ late' = late
        /\ faults' = faults
        /\ IF reply = "ok" THEN Advance("vpc") /\ UNCHANGED <<st, bad, hurt>> ELSE Fail("vpc")
    BY Zenon DEF Answered
  <1>2. Asking
    BY <1>1, Zenon DEF HostInv, CallInv
  <1>3. "vpc" \in Resources /\ Step(Verb, "hostsvc") \in Current("vpc")
    BY <1>2, AskingPlace, Zenon
  <1>4. CASE reply # "ok"
    BY <1>1, <1>3, <1>4, FailKeeps, Zenon
  <1>5. CASE reply = "ok"
    <2> DEFINE s == Step(Verb, "hostsvc")
    <2>1. st' = st /\ bad' = bad /\ hurt' = hurt /\ pc' = [pc EXCEPT !["vpc"] = @ + 1]
      BY <1>1, <1>5, Zenon DEF Advance
    <2>2. s.kind \in {"open", "close"}
      BY Zenon DEF Verb, Step
    <2>3. faults' \in 0 .. MaxFaults
      BY <1>1, Zenon DEF HostInv, TypeOK
    <2>4. hurt \subseteq hurt' /\ hurt' \subseteq hurt \cup {"vpc", "unread", "mute"}
      BY <2>1, Zenon
    <2>5. s \in Current("vpc")
      BY <1>3, Zenon
    <2> HIDE DEF s
    <2>6. s.kind \notin {"collect", "make", "set", "halt", "restart"} /\ ~Removes(s)
      BY <2>2, Zenon DEF Removes
    <2> QED
      BY <1>1, <1>3, <2>1, <2>3, <2>4, <2>5, <2>6, PassKeeps, Zenon
  <1> QED
    BY <1>4, <1>5, Zenon

(* Every step of a worker keeps the core. *)
LEMMA WorkKeeps ==
    ASSUME HostInv, NEW r \in Resources, Working(r), NEW s \in Current(r), Work(r, s)
    PROVE  Core'
  <1>1. CASE Ask(s)
    <2>1. UNCHANGED <<has, plan, st, pc, bad, told, hurt, seen, late>> /\ faults' \in 0 .. MaxFaults
      BY <1>1, Zenon DEF Ask, HostInv, TypeOK
    <2> QED
      BY <2>1, IdleKeeps, Zenon
  <1> QED
    BY <1>1, RunKeeps, RefuseKeeps, FaultKeeps, UnreadKeeps, CollectKeeps, LoadKeeps, HaltKeeps,
       Zenon DEF Work

(* The two parts of the invariant. *)
LEMMA Joined == Core' /\ Service' => HostInv'
  BY Zenon DEF Core, RecordsOK, Service, HostInv, TypeOK

(* A step of the service alone. *)
LEMMA ServiceStep ==
    ASSUME HostInv, UNCHANGED <<has, plan, st, pc, bad, told, hurt, seen, late>>,
           faults' = faults \/ (faults < MaxFaults /\ faults' = faults + 1),
           \/ Exit \/ Stop
           \/ \E opens, saves \in BOOLEAN : Handle(opens, saves)
           \/ \E saves \in BOOLEAN : \E fails \in SUBSET VPCs : Restore(fails, saves)
    PROVE  HostInv'
  <1>1. faults' \in 0 .. MaxFaults
    <2>1. faults \in 0 .. MaxFaults
      BY Zenon DEF HostInv, TypeOK
    <2> QED
      BY <2>1, FaultsAssumption
  <1>2. Core'
    BY <1>1, IdleKeeps, Zenon
  <1>3. Service'
    BY ExitServes, StopServes, HandleServes, RestoreServes, Zenon
  <1> QED
    BY <1>2, <1>3, Joined, Zenon

(* Every step keeps the invariant. *)
LEMMA Inductive == HostInv /\ [Next]_vars => HostInv'
  <1> SUFFICES ASSUME HostInv, [Next]_vars PROVE HostInv'
    BY Zenon
  <1>1. CASE UNCHANGED vars
    <2>1. UNCHANGED <<has, plan, st, pc, bad, told, hurt, seen, late>> /\ UNCHANGED svcVars /\ faults' = faults
      BY <1>1, Zenon DEF vars
    <2>2. faults' \in 0 .. MaxFaults
      BY <2>1, Zenon DEF HostInv, TypeOK
    <2>3. Core'
      BY <2>1, <2>2, IdleKeeps, Zenon
    <2>4. Service'
      BY <2>1, ServeSame, Zenon
    <2> QED
      BY <2>3, <2>4, Joined, Zenon
  <1>2. ASSUME NEW r \in Resources, Create(r) \/ Attach(r) \/ Delete(r) \/ Detach(r) \/ End(r)
        PROVE  HostInv'
    BY <1>2, CreateKeeps, AttachKeeps, DeleteKeeps, DetachKeeps, EndKeeps, RecordServes, Joined, Zenon
  <1>3. ASSUME NEW r \in Resources, Working(r), NEW s \in Current(r), Work(r, s) PROVE HostInv'
    BY <1>3, WorkKeeps, WorkServes, Joined, Zenon
  <1>4. CASE Answered
    BY <1>4, AnsweredKeeps, AnsweredServes, Joined, Zenon
  <1>5. CASE GiveUp
    <2>1. /\ reply = "waiting" /\ reply' = "failed" /\ calls' = Unattended
          /\ UNCHANGED <<has, svc, opened, saved, gen, amiss, plan, st, pc, bad, told, hurt,
                        seen, late>>
          /\ faults < MaxFaults /\ faults' = faults + 1
      BY <1>5, Zenon DEF GiveUp
    <2>2. faults' \in 0 .. MaxFaults
      <3>1. faults \in 0 .. MaxFaults
        BY Zenon DEF HostInv, TypeOK
      <3> QED
        BY <2>1, <3>1, FaultsAssumption
    <2>3. Core' /\ Service'
      BY <2>1, <2>2, IdleKeeps, LeaveServes, Zenon
    <2> QED
      BY <2>3, Joined, Zenon
  <1>6. CASE QemuExit
    <2>1. plan' = plan /\ UNCHANGED svcVars /\ st' = st /\ pc' = pc
      BY <1>6, Zenon DEF QemuExit
    <2> QED
      BY <1>6, <2>1, ExitKeeps, ServeSame, Joined, Zenon
  <1>7. CASE AgentStop
    <2>1. /\ plan' = plan /\ calls' = Unattended /\ reply' = "idle"
          /\ UNCHANGED <<svc, opened, saved, gen, amiss>>
          /\ st' = [r \in Resources |-> IF Working(r) THEN "error" ELSE st[r]]
      BY <1>7, Zenon DEF AgentStop
    <2>2. "vpc" \in Resources
      BY Zenon DEF Resources
    <2>3. /\ Working("vpc") => st'["vpc"] = "error"
          /\ ~Working("vpc") => st'["vpc"] = st["vpc"]
      BY <2>1, <2>2, Zenon
    <2> QED
      BY <1>7, <2>1, <2>3, StopKeeps, LeaveServes, Joined, Zenon
  <1>8. CASE Serve
    <2>1. TRUE \in BOOLEAN
      BY Zenon
    <2> QED
      BY <1>8, <2>1, ServiceStep, Zenon DEF Serve
  <1>9. CASE Return
    <2>1. TRUE \in BOOLEAN /\ {} \in SUBSET VPCs
      BY Zenon
    <2> QED
      BY <1>9, <2>1, ServiceStep, Zenon DEF Return
  <1>10. CASE SvcFault
    <2>1. TRUE \in BOOLEAN /\ FALSE \in BOOLEAN
      BY Zenon
    <2> QED
      BY <1>10, <2>1, ServiceStep, Zenon DEF SvcFault
  <1>11. CASE PrepareNAT \/ PrepareFIP \/ PrepareDeleteVPC \/ PrepareStopVM
    <2>1. Core' /\ UNCHANGED <<svcVars, plan, st, pc>>
      BY <1>11, LookKeeps, Zenon
    <2> QED
      BY <2>1, ServeSame, Joined, Zenon
  <1> QED
    BY <1>1, <1>2, <1>3, <1>4, <1>5, <1>6, <1>7, <1>8, <1>9, <1>10, <1>11, Zenon DEF Next

-----------------------------------------------------------------------------
(* What the invariant says of the host *)

(* What the watchdog looks for was made, and stands. *)
LEMMA Whole == HostInv => RunningIsWhole
  <1> SUFFICES ASSUME HostInv, NEW r \in Resources, st[r] = "running", NEW o \in Expected(r)
               PROVE  o \in has
    BY Zenon DEF RunningIsWhole
  <1>1. RunningInv(r) /\ ObjectInv /\ QemuInv
    BY Zenon DEF HostInv, ResourceInv
  <1>2. \A x \in Promised(r) : x \in Made(r)
    <2>1. Provides(Creation(r), r) /\ st[r] # "none"
      BY Grounded, Zenon DEF Builds
    <2> QED
      BY <2>1, Zenon DEF Provides, Holds, Made
  <1>3. \A x \in Promised(r) : x \notin {"qemu", "default_vrf"} /\ (x = "dhcp_unit" => r = "subnet")
    BY DEF Promised, expectedExports, Exports, checkVPC, checkL3VPC, checkHostSvc, checkSubnet,
         checkDHCP, checkAnycastGateway, checkBridgeGateway, checkVM, checkVMQemu, Own, Resources
  <1>4. r \notin late
    <2>1. CASE r \in {"nat", "fip"}
      BY <2>1 DEF Expected
    <2>2. CASE r \notin {"nat", "fip"}
      BY <2>2, Zenon DEF HostInv, TypeOK, Attachments
    <2> QED
      BY <2>1, <2>2, Zenon
  <1>5. \A x \in Promised(r) : x \in has \/ (x = "dhcp_unit" /\ "dhcp" \in hurt)
    BY <1>1, <1>2, <1>3, <1>4, Zenon DEF RunningInv
  <1>6. \/ o \in Promised(r) /\ ("dhcp" \in hurt /\ r = "subnet" => o # "dhcp_unit")
        \/ r = "vm" /\ "exit" \notin hurt /\ o \in checkVMQemu
        \/ r = "vm" /\ "dhcp_unit" \in has /\ "deaf" \notin has /\ o = "lease"
    <2>1. CASE r = "vm"
      BY <2>1 DEF Expected, Promised
    <2>2. CASE r = "subnet"
      <3>1. o \in expectedExports(r) \/ (o \in checkSubnet /\ ("dhcp" \in hurt => o # "dhcp_unit"))
        BY <2>2 DEF Expected
      <3>2. o \in expectedExports(r) => o # "dhcp_unit"
        BY <2>2 DEF expectedExports
      <3> QED
        BY <2>2, <3>1, <3>2, Zenon DEF Promised
    <2>3. CASE r = "vpc"
      BY <2>3, Zenon DEF Expected, Promised
    <2>4. CASE r \in {"nat", "fip"}
      BY <1>4, <2>4 DEF Expected, Promised
    <2> QED
      BY <2>1, <2>2, <2>3, <2>4, Zenon DEF Resources
  <1>7. CASE o \in Promised(r) /\ ("dhcp" \in hurt /\ r = "subnet" => o # "dhcp_unit")
    BY <1>3, <1>5, <1>7, Zenon
  <1>8. CASE r = "vm" /\ "exit" \notin hurt /\ o \in checkVMQemu
    BY <1>1, <1>8, Zenon DEF QemuInv, Alive, checkVMQemu
  <1>9. CASE r = "vm" /\ "dhcp_unit" \in has /\ "deaf" \notin has /\ o = "lease"
    <2>1. "reservation" \in has
      <3>1. "reservation" \in Promised(r)
        BY <1>9, Zenon DEF Promised
      <3> QED
        BY <1>5, <3>1, Zenon
    <2> QED
      BY <1>1, <1>9, <2>1, Zenon DEF ObjectInv, Answering
  <1> QED
    BY <1>6, <1>7, <1>8, <1>9, Zenon

(* What an announced route and what lets traffic through rest on. *)
LEMMA Backed == HostInv => ExportedIsBacked /\ Contained
  <1> SUFFICES ASSUME HostInv PROVE ExportedIsBacked /\ Contained
    BY Zenon
  <1>1. \A o \in has : Support(o) \subseteq has
    BY Zenon DEF HostInv, ObjectInv, Upheld
  <1>2. ExportedIsBacked
    <2>1. /\ {"veth", "bridge", "gw", "vxlan", "dhcp_conf"} \subseteq Support("route_subnet")
          /\ {"tap", "tap_port", "bridge", "veth", "reservation"} \subseteq Support("route_vm")
          /\ "nat" \notin late => {"ng", "default_ng", "nat", "ng_fdb"} \subseteq Support("route_default")
      BY Zenon DEF Support
    <2> QED
      BY <1>1, <2>1, Zenon DEF ExportedIsBacked
  <1>3. Contained
    <2>1. /\ "tap_port" \in Support("tap")
          /\ "fip" \notin late => {"fip_nat", "fip_table", "rule_main"} \subseteq Support("rule_own")
          /\ "unreachable" \in Support("l3") /\ {"vrf", "route_map"} \subseteq Support("bgp")
          /\ "vxl3" \in Support("vni")
      BY Zenon DEF Support
    <2> QED
      BY <1>1, <2>1 DEF Contained
  <1> QED
    BY <1>2, <1>3, Zenon

(* A resource without a record owns nothing on the host. *)
LEMMA LeftNothing == HostInv => GoneLeavesNothing
  <1> SUFFICES ASSUME HostInv PROVE GoneLeavesNothing
    BY Zenon
  <1>1. \A r \in Resources : st[r] = "none" => Own(r) \cap has \subseteq Spared
    BY Zenon DEF HostInv, ResourceInv, GoneInv
  <1>2. st["vpc"] = "none" /\ Vpc \notin amiss => opened[Vpc] = 0
    BY Zenon DEF HostInv, ServeInv, NotToServe
  <1> QED
    BY <1>1, <1>2, Zenon DEF GoneLeavesNothing, Spared

(* What the host service was told, and QEMU. *)
LEMMA Served == HostInv => RunningIsServed /\ AbandonedQemuQuits
  <1> SUFFICES ASSUME HostInv PROVE RunningIsServed /\ AbandonedQemuQuits
    BY Zenon
  <1>1. ServeInv /\ QemuInv
    BY Zenon DEF HostInv
  <1>2. RunningIsServed
    BY <1>1, VpcAssumption, Zenon DEF ServeInv, ToServe, RunningIsServed, VPCs, Namespace
  <1>3. AbandonedQemuQuits
    BY <1>1, Zenon DEF QemuInv, Abandoned, AbandonedQemuQuits
  <1> QED
    BY <1>2, <1>3, Zenon

(* A creation finds what its step needs, and not what it makes. *)
LEMMA CreationGoes ==
    ASSUME HostInv, NEW r \in Resources, st[r] = "creating", r \notin late,
           NEW s \in Current(r), Refused(s)
    PROVE  r = "vm" /\ r \in hurt
  <1> DEFINE L == Creation(r)
  <1>1. Working(r) /\ st[r] # "none"
    BY Zenon DEF Working
  <1>2. pc[r] \in 1 .. Len(L) /\ Len(L) \in 1 .. 18 /\ s = L[pc[r]] /\ Steps(r) = L
    BY <1>1, Placed, Zenon
  <1>3. Builds(L, r) /\ Ground(r) \subseteq has
    BY <1>1, Grounded, Zenon
  <1>4. CreateInv(r) /\ QemuInv
    BY Zenon DEF HostInv, ResourceInv
  <1> HIDE DEF L
  <1>5. s.kind \in {"make", "set"}
    <2>1. s.kind \in {"make", "set"} \/ s.kind \in {"open", "load"}
      BY <1>2, <1>3 DEF Builds, Makes, Step
    <2> QED
      BY <2>1, Zenon DEF Refused
  <1>6. Needs(s.on) \subseteq has
    <2>1. SUFFICES ASSUME NEW o \in Needs(s.on) PROVE o \in has
      BY Zenon
    <2>2. s.on \in Objects
      BY <1>2, <1>3, Zenon DEF Builds, Makes
    <2>3. o \in Support(s.on) /\ o \notin {"qemu", "default_vrf"}
      BY <2>1, <2>2, SupportFacts, SupportNames, Zenon
    <2>4. o \in Ground(r) \/ Earlier(L, pc[r], o)
      <3>1. s.kind \notin {"open", "load"}
        BY <1>5, Zenon
      <3> QED
        BY <1>2, <1>3, <2>3, <3>1, Zenon DEF Builds, Supported
    <2>5. Earlier(L, pc[r], o) => o \in has
      <3>1. SUFFICES ASSUME NEW j \in 1 .. pc[r] - 1, L[j].on = o PROVE o \in has
        BY Zenon DEF Earlier
      <3>2. j \in 1 .. Len(L) /\ j < pc[r]
        BY <1>2
      <3>3. CASE L[j].kind # "load"
        <4>1. L[j].on \in has \cup {"qemu", "default_vrf"}
          BY <1>4, <3>2, <3>3, Zenon DEF CreateInv, L
        <4> QED
          BY <2>3, <3>1, <4>1, Zenon
      <3>4. CASE L[j].kind = "load"
        <4>1. L[j] = Step("load", "netns") /\ r # "vpc"
          BY <1>3, <3>2, <3>4 DEF Builds, Makes, Step
        <4>2. o = "netns"
          BY <3>1, <4>1 DEF Step
        <4> QED
          BY <1>3, <4>1, <4>2, Zenon DEF Ground
      <3> QED
        BY <3>3, <3>4, Zenon
    <2> QED
      BY <1>3, <2>4, <2>5, Zenon
  <1>7. s.kind = "make" /\ s.on \in has
    BY <1>5, <1>6, Zenon DEF Refused
  <1>8. s.on = "qemu"
    <2>1. pc[r] >= pc[r]
      BY <1>2
    <2>2. L[pc[r]].on \notin has \ {"qemu"}
      BY <1>2, <1>4, <1>7, <2>1, Zenon DEF CreateInv, L
    <2> QED
      BY <1>2, <1>7, <2>2, Zenon
  <1>9. r = "vm"
    <2>1. s.on \notin Own(r) /\ s.kind # "load"
      BY <1>7, <1>8, OwnFacts, Zenon
    <2> QED
      BY <1>2, <1>3, <2>1, Zenon DEF Builds, Makes
  <1>10. ~Passed("vm", Step("make", "qemu"))
    <2>1. \A i \in 1 .. pc[r] - 1 : L[i].on # "qemu"
      BY <1>2, <1>3, <1>7, <1>8, Zenon DEF Builds, Once, Earlier
    <2>2. Step("make", "qemu").on = "qemu"
      BY Zenon DEF Step
    <2> QED
      BY <1>2, <1>9, <2>1, <2>2, Zenon DEF Passed
  <1> QED
    BY <1>4, <1>7, <1>8, <1>9, <1>10, Zenon DEF QemuInv, Abandoned

(* A deletion finds what it must, unless the resource was hurt. *)
LEMMA DeletionGoes ==
    ASSUME HostInv, NEW r \in Resources, st[r] = "deleting", r \notin late,
           NEW s \in Current(r), Refused(s)
    PROVE  r \in hurt \ {"nat", "fip"}
  <1> DEFINE L == Deletion(r)
  <1>1. Working(r) /\ st[r] # "none"
    BY Zenon DEF Working
  <1>2. pc[r] \in 1 .. Len(L) /\ s = L[pc[r]]
    BY <1>1, Placed, Zenon
  <1>3. Unbuilds(L, r, Creation(r)) /\ Ground(r) \subseteq has
    BY <1>1, Grounded, Zenon
  <1>4. DeleteInv(r)
    BY Zenon DEF HostInv, ResourceInv
  <1> HIDE DEF L
  <1>5. /\ s.kind \in {"drop", "try_drop"} => Lookup(s.on) \subseteq has
        /\ s.kind = "set" => Needs(s.on) \subseteq has
        /\ MustFind(s) => r \notin {"nat", "fip"}
    BY <1>2, <1>3, Zenon DEF Unbuilds, Looks
  <1>6. s.kind # "make"
    BY <1>2, <1>3, SMTT(30) DEF Unbuilds, Unmakes, Step, Removes
  <1>7. MustFind(s) /\ s.on \notin has
    BY <1>5, <1>6, Zenon DEF Refused, MustFind
  <1>8. pc[r] >= pc[r]
    BY <1>2
  <1>9. r \in hurt
    BY <1>2, <1>4, <1>7, <1>8, Zenon DEF DeleteInv, L
  <1> QED
    BY <1>5, <1>7, <1>9, Zenon

(* The records above a gateway or a floating IP that raced nothing. *)
LEMMA Found ==
    ASSUME HostInv, NEW r \in Resources, Working(r), r \notin late, NEW s \in Current(r), Lost(r, s)
    PROVE  FALSE
  <1>1. /\ st[r] \in {"creating", "deleting"} /\ pc[r] \in 1 .. Len(Steps(r))
        /\ s = Steps(r)[pc[r]] /\ s.kind = "load"
        /\ st[r] = "creating" => Steps(r) = Creation(r)
        /\ st[r] = "deleting" => Steps(r) = Deletion(r)
    BY Placed, Zenon DEF Working, Lost
  <1>2. Makes(Creation(r), r) /\ Unmakes(Deletion(r), r)
    BY <1>1, Grounded, Zenon DEF Builds, Unbuilds
  <1>3. r \in {"nat", "fip"}
    BY <1>1, <1>2 DEF Makes, Unmakes, Step, Removes
  <1>4. /\ st["vpc"] = "running"
        /\ r = "fip" => st["vm"] = "running" /\ st["subnet"] = "running"
    BY <1>1, <1>3, ParentsRun, Zenon
  <1> QED
    BY <1>3, <1>4 DEF Lost, Above

(* A step is refused only after a failure, or a race. *)
LEMMA Unhindered == HostInv => RefusedOnlyWhenHurt
  <1> SUFFICES ASSUME HostInv, NEW r \in Resources, Working(r), r \notin late,
                      NEW s \in Current(r), Refused(s) \/ Lost(r, s)
               PROVE  r \in hurt \cap Tree
    BY Zenon DEF RefusedOnlyWhenHurt
  <1>1. Refused(s)
    BY Found, Zenon
  <1>2. CASE st[r] = "creating"
    <2>1. r = "vm" /\ r \in hurt
      BY <1>1, <1>2, CreationGoes, Zenon
    <2> QED
      BY <2>1, Zenon DEF Tree, Attachments
  <1>3. CASE st[r] = "deleting"
    <2>1. r \in hurt \ {"nat", "fip"}
      BY <1>1, <1>3, DeletionGoes, Zenon
    <2> QED
      BY <2>1, Zenon DEF Tree, Attachments
  <1> QED
    BY <1>2, <1>3, Zenon DEF Working

-----------------------------------------------------------------------------
(* The theorems *)

(* The invariant of HostInvariant holds in every reachable state, whatever *)
(* the scenarios, the other VPCs of the host and the bound on faults: what *)
(* is on the host stands on what it needs, each worker has done what it    *)
(* passed, a running resource has what its creation made, and two-hostsvc  *)
(* was told what the record of the VPC says.  Of a gateway or a floating   *)
(* IP that crossed the deletion of its parent it says only that its own    *)
(* deletion leaves nothing.                                                *)
THEOREM HostInvariance == Spec => []HostInv
  BY Starting, Inductive, PTL DEF Spec

(* Every variable of the host and of its workers keeps its type, and only  *)
(* resources of the scenario have records.                                 *)
THEOREM HostTypes == Spec => []TypeOK
  <1>1. HostInv => TypeOK
    BY Zenon DEF HostInv
  <1> QED
    BY <1>1, HostInvariance, PTL

(* All that the checks of the watchdog look for is on the host while the   *)
(* record says running, dnsmasq answers a running VM, and a gateway or a   *)
(* floating IP is whole, whatever the other workers do and wherever they   *)
(* fail.  The exceptions are those of RunningIsWhole: a DHCP unit that     *)
(* could not be restarted, a QEMU that ended by itself, and a gateway or a *)
(* floating IP accepted while its VPC or its VM was being deleted.         *)
THEOREM RunningStaysWhole == Spec => []RunningIsWhole
  BY Whole, HostInvariance, PTL

(* No route is announced without what carries its traffic, but for that of *)
(* a gateway that was accepted while its VPC was being deleted.            *)
THEOREM ExportsStayBacked == Spec => []ExportedIsBacked
  <1>1. HostInv => ExportedIsBacked
    BY Backed, Zenon
  <1> QED
    BY <1>1, HostInvariance, PTL

(* What lets traffic through never stands without what contains it, but    *)
(* for a floating IP that was accepted while its VM was being deleted.     *)
THEOREM TrafficStaysContained == Spec => []Contained
  <1>1. HostInv => Contained
    BY Backed, Zenon
  <1> QED
    BY <1>1, HostInvariance, PTL

(* A deletion that comes to its end, after any failed or interrupted       *)
(* attempts, has left nothing of the resource but what an unread status    *)
(* of dnsmasq excuses, and the host service serves the VPC no more.        *)
THEOREM DeletionLeavesNothing == Spec => []GoneLeavesNothing
  BY LeftNothing, HostInvariance, PTL

(* The order of the steps makes no step fail: a refused step of a VPC, a   *)
(* subnet or a VM follows a failure of the same resource, and one of a NAT *)
(* gateway or a floating IP means that its command and the deletion of its *)
(* parent both looked before either had written its record.                *)
THEOREM RefusalFollowsFailure == Spec => []RefusedOnlyWhenHurt
  BY Unhindered, HostInvariance, PTL

(* A running VPC stays in the list of two-hostsvc and is served inside its *)
(* present namespace, through restarts of the process, calls that time out *)
(* and are carried out late, and VPCs made and removed beside it.          *)
THEOREM RunningStaysServed == Spec => []RunningIsServed
  <1>1. HostInv => RunningIsServed
    BY Served, Zenon
  <1> QED
    BY <1>1, HostInvariance, PTL

(* A QEMU that runs without its tap has been told to quit, or its socket   *)
(* failed while StopVM talked to it.                                       *)
THEOREM AbandonedQemuWasTold == Spec => []AbandonedQemuQuits
  <1>1. HostInv => AbandonedQemuQuits
    BY Served, Zenon
  <1> QED
    BY <1>1, HostInvariance, PTL

=============================================================================

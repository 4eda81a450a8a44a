---------------------------- MODULE HostRecords -----------------------------
(***************************************************************************)
(* A command that takes up a resource, QEMU when it exits and the host when*)
(* it stops keep the invariant of HostInvariant; and the host service keeps*)
(* to the record of the VPC at every step.                                 *)
(***************************************************************************)
EXTENDS HostFacts

-----------------------------------------------------------------------------
(* A record changes hands *)

(* A resource that nothing happens to. *)
LEMMA SameKept ==
    ASSUME HostInv, plan' = plan, has' = has, hurt \subseteq hurt', NEW q \in Resources,
           st'[q] = st[q], pc'[q] = pc[q], q \in bad' <=> q \in bad,
           q \in late /\ st[q] # "none" => q \in late',
           st[q] # "none" /\ q \notin late' => \A p \in Parent[q] : st'[p] = "running"
    PROVE  ResourceInv(q)'
  <1>1. ResourceInv(q)
    BY Zenon DEF HostInv
  <1>2. /\ Creation(q)' = Creation(q) /\ Deletion(q)' = Deletion(q) /\ Made(q)' = Made(q)
        /\ (Working(q)' <=> Working(q)) /\ Steps(q)' = Steps(q)
    BY ListsKept, Zenon DEF Working, Steps
  <1>3. TreeInv(q)'
    BY Zenon DEF TreeInv
  <1>4. PlaceInv(q)'
    BY <1>1, <1>2, Zenon DEF ResourceInv, PlaceInv
  <1>5. CreateInv(q)' /\ RunningInv(q)' /\ GoneInv(q)'
    <2>1. Spared \subseteq Spared'
      BY Zenon DEF Spared
    <2>2. CreateInv(q)'
      BY <1>1, <1>2, Zenon DEF ResourceInv, CreateInv
    <2>3. RunningInv(q)'
      BY <1>1, <1>2, Zenon DEF ResourceInv, RunningInv
    <2> QED
      BY <1>1, <2>1, <2>2, <2>3, Zenon DEF ResourceInv, GoneInv
  <1>6. DeleteInv(q)'
    <2>1. SUFFICES ASSUME st[q] = "deleting", NEW i \in 1 .. Len(Deletion(q))
                   PROVE  LET s == Deletion(q)[i] IN
       /\ i < pc[q] /\ Removes(s) => \/ s.on \notin has
                                     \/ s.on = "dhcp_unit" /\ "unread" \in hurt'
                                     \/ Tried(s) /\ q \in bad'
       /\ i < pc[q] /\ s.kind = "restart" => "lease" \notin has \/ "unread" \in hurt'
       /\ i < pc[q] /\ s.kind = "set" => "default_ng" \notin has
       /\ i >= pc[q] /\ MustFind(s) => s.on \in has \/ q \in hurt'
      BY <1>2, Zenon DEF DeleteInv, Removes, MustFind, Tried
    <2>2. DeleteInv(q)
      BY <1>1, Zenon DEF ResourceInv
    <2> QED
      BY <2>1, <2>2, Zenon DEF DeleteInv
  <1> QED
    BY <1>3, <1>4, <1>5, <1>6, Zenon DEF ResourceInv

(* A machine that nothing happens to. *)
LEMMA QemuSame ==
    ASSUME HostInv, plan' = plan, has' = has, told' = told,
           \A h \in {"vm", "mute", "exit"} : h \in hurt => h \in hurt',
           st'["vm"] = st["vm"], pc'["vm"] = pc["vm"]
    PROVE  QemuInv'
  <1>1. \A s : Passed("vm", s)' <=> Passed("vm", s)
    <2>1. Steps("vm")' = Steps("vm")
      BY ListsKept, Zenon DEF Steps
    <2> QED
      BY <2>1, Zenon DEF Passed
  <1>2. Step("make", "qemu")' = Step("make", "qemu") /\ Step("halt", "qemu")' = Step("halt", "qemu")
    BY Zenon DEF Step
  <1> QED
    BY <1>1, <1>2, Zenon DEF HostInv, QemuInv, Abandoned, Alive

(* What a command that looked goes by, of each gateway and floating IP. *)
SeenPair(c, p) ==
    /\ c \in seen => st[c] = "none" /\ c \in plan.uses
    /\ c \notin late => (c \in seen => st[p] = "running") /\ (p \in seen => st[c] = "none")

LEMMA SeenPairs ==
    /\ SeenInv <=> SeenPair("nat", "vpc") /\ SeenPair("fip", "vm")
    /\ SeenInv' <=> SeenPair("nat", "vpc")' /\ SeenPair("fip", "vm")'
  <1>1. Attachments = {"nat", "fip"} /\ Parent["nat"] = {"vpc"} /\ Parent["fip"] = {"vm"}
    BY Zenon DEF Attachments, Parent
  <1>2. SeenInv <=> SeenPair("nat", "vpc") /\ SeenPair("fip", "vm")
    BY <1>1, Zenon DEF SeenInv, SeenPair
  <1>3. SeenInv' <=> SeenPair("nat", "vpc")' /\ SeenPair("fip", "vm")'
    BY <1>1, Zenon DEF SeenInv, SeenPair
  <1> QED
    BY <1>2, <1>3, Zenon

(* A creation starts: what it has yet to make is not there. *)
LEMMA Creates ==
    ASSUME HostInv, NEW r \in plan.uses, r \in Resources, st[r] = "none", Begin(r, "creating"),
           UNCHANGED <<has, plan, bad, told, hurt, faults>>,
           seen' \subseteq Resources, late \subseteq late', late' \subseteq Attachments,
           r \notin late' => \A p \in Parent[r] : st[p] = "running",
           SeenInv'
    PROVE  Core'
  <1>1. /\ r \in plan.uses /\ st[r] = "none"
        /\ st' = [st EXCEPT ![r] = "creating"] /\ pc' = [pc EXCEPT ![r] = 1]
        /\ has' = has /\ plan' = plan /\ bad' = bad /\ told' = told /\ hurt' = hurt /\ faults' = faults
    BY Zenon DEF Begin
  <1>2. RecordsOK /\ QemuInv
    BY CoreHolds, Zenon DEF Core
  <1>3. /\ st'[r] = "creating" /\ pc'[r] = 1
        /\ \A q \in Resources \ {r} : st'[q] = st[q] /\ pc'[q] = pc[q]
    BY <1>1, <1>2, Zenon DEF RecordsOK
  <1>4. RecordsOK'
    <2>1. st' \in [Resources -> {"none", "creating", "running", "deleting", "error"}]
      BY <1>1, <1>2, Zenon DEF RecordsOK
    <2>2. pc' \in [Resources -> 1 .. 20]
      <3>1. pc \in [Resources -> 1 .. 20] /\ 1 \in 1 .. 20
        BY <1>2 DEF RecordsOK
      <3> QED
        BY <1>1, <3>1, Zenon
    <2>3. \A q \in Resources : st'[q] # "none" => q \in plan.uses
      BY <1>1, <1>2, <1>3, Zenon DEF RecordsOK
    <2> QED
      BY <1>1, <1>2, <2>1, <2>2, <2>3, Zenon DEF RecordsOK
  <1>5. ObjectInv'
    BY <1>1, StillObject, Zenon
  <1>6. \A q \in Resources \ {r} : ResourceInv(q)'
    <2>1. ASSUME NEW q \in Resources \ {r}, st[q] # "none", q \notin late', NEW p \in Parent[q]
          PROVE  st'[p] = "running"
      <3>1. st[p] = "running" /\ p # r
        BY <1>1, <2>1, Zenon DEF HostInv, ResourceInv, TreeInv
      <3>2. p \in Resources
        BY DEF Parent, Resources
      <3> QED
        BY <1>3, <3>1, <3>2, Zenon
    <2> QED
      BY <1>1, <1>3, <2>1, SameKept, Zenon
  <1>7. ResourceInv(r)'
    <2>1. Builds(Creation(r), r) /\ Creation(r)' = Creation(r) /\ Len(Creation(r)) \in 1 .. 18
      BY <1>1, <1>2, ListFacts, ListsKept, Zenon DEF Builds, RecordsOK
    <2>2. TreeInv(r)'
      <3>1. \A p \in Parent[r] : p \in Resources \ {r}
        BY DEF Parent, Resources
      <3> QED
        BY <1>1, <1>3, <3>1, Zenon DEF TreeInv
    <2>3. PlaceInv(r)'
      <3>1. r \notin bad
        BY <1>1, Zenon DEF HostInv, ResourceInv, PlaceInv
      <3>2. Steps(r)' = Creation(r)
        BY <1>3, <2>1, Zenon DEF Steps
      <3> QED
        BY <1>1, <1>3, <2>1, <3>1, <3>2 DEF PlaceInv
    <2>4. CreateInv(r)'
      <3>1. SUFFICES ASSUME NEW i \in 1 .. Len(Creation(r)), Creation(r)[i].kind = "make"
                     PROVE  Creation(r)[i].on \notin has \ {"qemu"}
        BY <1>1, <1>3, <2>1 DEF CreateInv
      <3>2. /\ Creation(r)[i].on \in Own(r) \/ Creation(r)[i].on = "qemu"
            /\ Creation(r)[i].on \notin {"lease", "deaf", "dhcp_unit"}
        BY <2>1, <3>1 DEF Builds, Makes, Step
      <3>3. Own(r) \cap has \subseteq {"lease", "deaf", "dhcp_unit"}
        <4>1. GoneInv(r)
          BY Zenon DEF HostInv, ResourceInv
        <4> QED
          BY <1>1, <4>1, Zenon DEF GoneInv, Spared
      <3> QED
        BY <3>2, <3>3, Zenon
    <2>5. RunningInv(r)' /\ DeleteInv(r)' /\ GoneInv(r)'
      BY <1>3, Zenon DEF RunningInv, DeleteInv, GoneInv
    <2> QED
      BY <2>2, <2>3, <2>4, <2>5, Zenon DEF ResourceInv
  <1>8. QemuInv'
    <2>1. CASE r = "vm"
      <3>1. "qemu" \in has => (told \/ "mute" \in hurt) /\ "vm" \in hurt
        BY <1>1, <1>2, <2>1, Zenon DEF QemuInv, Abandoned
      <3>2. ~Passed("vm", Step("make", "qemu"))' /\ st'["vm"] # "running"
        BY <1>3, <2>1 DEF Passed
      <3>3. ~Alive'
        BY <3>2, Zenon DEF Alive
      <3>4. "qemu" \in has' => (told' \/ "mute" \in hurt') /\ "vm" \in hurt'
        BY <1>1, <3>1
      <3> QED
        BY <3>3, <3>4, Zenon DEF QemuInv
    <2>2. CASE r # "vm"
      BY <1>1, <1>2, <1>3, <2>2, QemuSame
    <2> QED
      BY <2>1, <2>2, Zenon
  <1>9. \A q \in Resources : ResourceInv(q)'
    BY <1>6, <1>7, Zenon
  <1> QED
    BY <1>4, <1>5, <1>8, <1>9, Zenon DEF Core

(* The parent of a VPC, a subnet or a VM runs when its worker starts. *)
LEMMA CreateKeeps ==
    ASSUME HostInv, NEW r \in Resources, Create(r)
    PROVE  Core'
  <1>1. /\ r \in Tree /\ r \in plan.uses /\ st[r] = "none" /\ \A p \in Parent[r] : st[p] = "running"
        /\ Begin(r, "creating") /\ UNCHANGED <<has, plan, bad, told, hurt, seen, late, faults>>
    BY Zenon DEF Create
  <1>2. RecordsOK /\ SeenInv
    BY CoreHolds, Zenon DEF Core
  <1>3. st'[r] = "creating" /\ \A q \in Resources \ {r} : st'[q] = st[q]
    BY <1>1, <1>2, Zenon DEF RecordsOK, Begin
  <1>4. r \notin {"nat", "fip"} /\ {"nat", "fip", "vpc", "vm"} \subseteq Resources
    BY <1>1, Zenon DEF Tree, Attachments, Resources
  <1>5. /\ st'["nat"] = st["nat"] /\ st'["fip"] = st["fip"]
        /\ st["vpc"] = "running" => st'["vpc"] = "running"
        /\ st["vm"] = "running" => st'["vm"] = "running"
    BY <1>1, <1>3, <1>4, Zenon
  <1>6. SeenPair("nat", "vpc") /\ SeenPair("fip", "vm")
    BY <1>2, SeenPairs, Zenon
  <1>7. SeenPair("nat", "vpc")' /\ SeenPair("fip", "vm")'
    BY <1>1, <1>5, <1>6, Zenon DEF SeenPair
  <1>8. SeenInv' /\ seen' \subseteq Resources /\ late \subseteq late' /\ late' \subseteq Attachments
    BY <1>1, <1>2, <1>7, SeenPairs, Zenon DEF RecordsOK
  <1> QED
    BY <1>1, <1>8, Creates, Zenon

(* A gateway or a floating IP is accepted: its parent runs, or is being    *)
(* deleted by a command that did not see it.                               *)
LEMMA AttachKeeps ==
    ASSUME HostInv, NEW r \in Resources, Attach(r)
    PROVE  Core'
  <1>1. /\ r \in Attachments /\ r \in seen /\ st[r] = "none" /\ Begin(r, "creating")
        /\ UNCHANGED <<has, plan, bad, told, hurt, faults>> /\ seen' = seen \ {r}
        /\ late' = IF Parent[r] \cap seen # {} THEN late \cup {r} ELSE late
    BY Zenon DEF Attach
  <1>2. RecordsOK /\ SeenInv
    BY CoreHolds, Zenon DEF Core
  <1>3. st'[r] = "creating" /\ \A q \in Resources \ {r} : st'[q] = st[q]
    BY <1>1, <1>2, Zenon DEF RecordsOK, Begin
  <1>4. r \in plan.uses
    BY <1>1, <1>2, Zenon DEF SeenInv
  <1>5. /\ seen' \subseteq Resources /\ late \subseteq late' /\ late' \subseteq Attachments
        /\ late' \subseteq late \cup {r}
        /\ r \notin late' => r \notin late /\ \A p \in Parent[r] : p \notin seen
    BY <1>1, <1>2 DEF RecordsOK
  <1>6. r \notin late' => \A p \in Parent[r] : st[p] = "running"
    BY <1>1, <1>2, <1>5, Zenon DEF SeenInv
  <1>7. SeenInv'
    <2>1. ASSUME NEW c \in Attachments, c \in seen'
          PROVE  st'[c] = "none" /\ c \in plan.uses
      <3>1. c \in seen /\ c # r /\ c \in Resources
        BY <1>1, <2>1 DEF Attachments, Resources
      <3> QED
        BY <1>2, <1>3, <2>1, <3>1, Zenon DEF SeenInv
    <2>2. ASSUME NEW c \in Attachments, c \notin late', NEW p \in Parent[c]
          PROVE  (c \in seen' => st'[p] = "running") /\ (p \in seen' => st'[c] = "none")
      <3>1. c \in Resources /\ p \in Resources /\ p # r
        BY <1>1, <2>2 DEF Attachments, Resources, Parent
      <3>2. (c \in seen => st[p] = "running") /\ (p \in seen => st[c] = "none")
        BY <1>2, <1>5, <2>2 DEF SeenInv
      <3>3. c = r => p \notin seen
        BY <1>5, <2>2, Zenon
      <3> QED
        BY <1>1, <1>3, <3>1, <3>2, <3>3, Zenon
    <2> QED
      BY <1>1, <2>1, <2>2, Zenon DEF SeenInv
  <1> QED
    BY <1>1, <1>4, <1>5, <1>6, <1>7, Creates, Zenon

(* A deletion starts: what it has to find is there, or the resource was    *)
(* hurt.                                                                   *)
LEMMA Deletes ==
    ASSUME HostInv, NEW r \in Resources, st[r] \in {"running", "error"}, Begin(r, "deleting"),
           UNCHANGED <<has, plan, bad, told, hurt, faults>>,
           seen' \subseteq Resources, late \subseteq late', late' \subseteq Attachments,
           \A q \in Resources : r \in Parent[q] /\ q \notin late' => st[q] = "none",
           SeenInv'
    PROVE  Core'
  <1>1. /\ st[r] \in {"running", "error"}
        /\ st' = [st EXCEPT ![r] = "deleting"] /\ pc' = [pc EXCEPT ![r] = 1]
        /\ has' = has /\ plan' = plan /\ bad' = bad /\ told' = told /\ hurt' = hurt /\ faults' = faults
    BY Zenon DEF Begin
  <1>2. RecordsOK /\ QemuInv
    BY CoreHolds, Zenon DEF Core
  <1>3. /\ st'[r] = "deleting" /\ pc'[r] = 1
        /\ \A q \in Resources \ {r} : st'[q] = st[q] /\ pc'[q] = pc[q]
    BY <1>1, <1>2, Zenon DEF RecordsOK
  <1>4. RecordsOK'
    <2>1. st' \in [Resources -> {"none", "creating", "running", "deleting", "error"}]
      BY <1>1, <1>2, Zenon DEF RecordsOK
    <2>2. pc' \in [Resources -> 1 .. 20]
      <3>1. pc \in [Resources -> 1 .. 20] /\ 1 \in 1 .. 20
        BY <1>2 DEF RecordsOK
      <3> QED
        BY <1>1, <3>1, Zenon
    <2>3. \A q \in Resources : st'[q] # "none" => q \in plan.uses
      BY <1>1, <1>2, <1>3, Zenon DEF RecordsOK
    <2> QED
      BY <1>1, <1>2, <2>1, <2>2, <2>3, Zenon DEF RecordsOK
  <1>5. ObjectInv'
    BY <1>1, StillObject, Zenon
  <1>6. \A q \in Resources \ {r} : ResourceInv(q)'
    <2>1. ASSUME NEW q \in Resources \ {r}, st[q] # "none", q \notin late', NEW p \in Parent[q]
          PROVE  st'[p] = "running"
      <3>1. st[p] = "running" /\ p # r
        BY <1>1, <2>1, Zenon DEF HostInv, ResourceInv, TreeInv
      <3>2. p \in Resources
        BY DEF Parent, Resources
      <3> QED
        BY <1>3, <3>1, <3>2, Zenon
    <2> QED
      BY <1>1, <1>3, <2>1, SameKept, Zenon
  <1>7. ResourceInv(r)'
    <2>1. /\ Unbuilds(Deletion(r), r, Creation(r)) /\ Deletion(r)' = Deletion(r)
          /\ Len(Deletion(r)) \in 1 .. 18
      <3>1. st[r] # "none"
        BY <1>1, Zenon
      <3> QED
        BY <1>1, <3>1, Grounded, ListsKept, Zenon DEF Unbuilds
    <2>2. TreeInv(r)'
      <3>1. \A p \in Parent[r] : p \in Resources \ {r}
        BY DEF Parent, Resources
      <3>2. TreeInv(r) /\ st[r] # "none"
        BY <1>1, Zenon DEF HostInv, ResourceInv
      <3> QED
        BY <1>1, <1>3, <3>1, <3>2, Zenon DEF TreeInv
    <2>3. PlaceInv(r)'
      <3>1. r \notin bad
        BY <1>1, Zenon DEF HostInv, ResourceInv, PlaceInv
      <3>2. Steps(r)' = Deletion(r)
        BY <1>3, <2>1, Zenon DEF Steps
      <3> QED
        BY <1>1, <1>3, <2>1, <3>1, <3>2 DEF PlaceInv
    <2>4. DeleteInv(r)'
      <3>1. SUFFICES ASSUME NEW i \in 1 .. Len(Deletion(r)), MustFind(Deletion(r)[i])
                     PROVE  Deletion(r)[i].on \in has \/ r \in hurt
        BY <1>1, <1>3, <2>1 DEF DeleteInv, MustFind
      <3>2. CASE st[r] = "error"
        BY <3>2, Zenon DEF HostInv, ResourceInv, PlaceInv
      <3>3. CASE st[r] = "running"
        <4>1. RunningInv(r)
          BY Zenon DEF HostInv, ResourceInv
        <4>2. /\ Deletion(r)[i].on \in Made(r)
              /\ Deletion(r)[i].on \notin {"qemu", "default_vrf", "dhcp_unit"}
          BY <2>1, <3>1, Zenon DEF Unbuilds, Finds, Holds, Made
        <4>3. r \notin late
          BY <2>1, <3>1, Zenon DEF Unbuilds, Looks, HostInv, TypeOK, Attachments
        <4> QED
          BY <3>3, <4>1, <4>2, <4>3, Zenon DEF RunningInv
      <3> QED
        BY <1>1, <3>2, <3>3, Zenon
    <2>5. RunningInv(r)' /\ CreateInv(r)' /\ GoneInv(r)'
      BY <1>3, Zenon DEF RunningInv, CreateInv, GoneInv
    <2> QED
      BY <2>2, <2>3, <2>4, <2>5, Zenon DEF ResourceInv
  <1>8. QemuInv'
    <2>1. CASE r = "vm"
      <3>1. ~Passed("vm", Step("halt", "qemu"))'
        BY <1>3, <2>1 DEF Passed
      <3>2. st'["vm"] = "deleting"
        BY <1>3, <2>1, Zenon
      <3>3. (Abandoned' => Abandoned) /\ ~Alive'
        BY <1>1, <3>1, <3>2, Zenon DEF Abandoned, Alive
      <3>4. "qemu" \in has /\ Abandoned' => (told \/ "mute" \in hurt) /\ "vm" \in hurt
        BY <1>2, <3>3, Zenon DEF QemuInv
      <3>5. "qemu" \in has' /\ Abandoned' => (told' \/ "mute" \in hurt') /\ "vm" \in hurt'
        BY <1>1, <3>4
      <3> QED
        BY <3>3, <3>5, Zenon DEF QemuInv
    <2>2. CASE r # "vm"
      BY <1>1, <1>2, <1>3, <2>2, QemuSame
    <2> QED
      BY <2>1, <2>2, Zenon
  <1>9. \A q \in Resources : ResourceInv(q)'
    BY <1>6, <1>7, Zenon
  <1> QED
    BY <1>4, <1>5, <1>8, <1>9, Zenon DEF Core

(* A gateway or a floating IP accepted since Prepare looked stays behind. *)
LEMMA DeleteKeeps ==
    ASSUME HostInv, NEW r \in Resources, Delete(r)
    PROVE  Core'
  <1>1. /\ r \in Tree /\ st[r] \in {"running", "error"} /\ (r = "subnet" \/ r \in seen)
        /\ Begin(r, "deleting")
        /\ UNCHANGED <<has, plan, bad, told, hurt, faults>> /\ seen' = seen \ {r}
        /\ late' = late \cup (Children(r) \cap Attachments \cap seen)
        /\ \A c \in Children(r) \cap Tree : st[c] = "none"
    BY Zenon DEF Delete
  <1>2. RecordsOK /\ SeenInv
    BY CoreHolds, Zenon DEF Core
  <1>3. st'[r] = "deleting" /\ \A q \in Resources \ {r} : st'[q] = st[q]
    BY <1>1, <1>2, Zenon DEF RecordsOK, Begin
  <1>4. /\ seen' \subseteq Resources /\ late \subseteq late' /\ late' \subseteq Attachments
        /\ \A c \in Attachments : c # r /\ c \in Resources
        /\ \A c \in Attachments : r \in Parent[c] => r # "subnet"
    <2>1. seen' \subseteq Resources /\ late \subseteq late' /\ late' \subseteq Attachments
      BY <1>1, <1>2, Zenon DEF RecordsOK
    <2>2. \A c \in Attachments : c # r /\ c \in Resources
      BY <1>1, Zenon DEF Tree, Attachments, Resources
    <2>3. \A c \in Attachments : r \in Parent[c] => r # "subnet"
      BY DEF Attachments, Parent
    <2> QED
      BY <2>1, <2>2, <2>3, Zenon
  <1>5. ASSUME NEW q \in Resources, r \in Parent[q], q \notin late' PROVE st[q] = "none"
    <2>1. CASE q \in Attachments
      BY <1>1, <1>2, <1>4, <1>5, <2>1, Zenon DEF SeenInv
    <2>2. CASE q \notin Attachments
      BY <1>1, <1>5, <2>2, Zenon DEF Children, Tree
    <2> QED
      BY <2>1, <2>2, Zenon
  <1>6. SeenInv'
    <2>1. ASSUME NEW c \in Attachments, c \in seen'
          PROVE  st'[c] = "none" /\ c \in plan.uses
      BY <1>1, <1>2, <1>3, <1>4, <2>1, Zenon DEF SeenInv
    <2>2. ASSUME NEW c \in Attachments, c \notin late', NEW p \in Parent[c]
          PROVE  (c \in seen' => st'[p] = "running") /\ (p \in seen' => st'[c] = "none")
      <3>1. c \in Resources /\ p \in Resources /\ c # r
        BY <1>1, <2>2 DEF Attachments, Resources, Parent, Tree
      <3>2. (c \in seen => st[p] = "running") /\ (p \in seen => st[c] = "none")
        BY <1>2, <1>4, <2>2 DEF SeenInv
      <3>3. p = r => c \notin seen
        BY <1>1, <2>2, <3>1, Zenon DEF Children
      <3> QED
        BY <1>1, <1>3, <3>1, <3>2, <3>3, Zenon
    <2> QED
      BY <1>1, <2>1, <2>2, Zenon DEF SeenInv
  <1> QED
    BY <1>1, <1>4, <1>5, <1>6, Deletes, Zenon

(* Nothing is attached to a gateway or a floating IP. *)
LEMMA DetachKeeps ==
    ASSUME HostInv, NEW r \in Resources, Detach(r)
    PROVE  Core'
  <1>1. /\ r \in Attachments /\ st[r] \in {"running", "error"} /\ Begin(r, "deleting")
        /\ UNCHANGED <<has, plan, bad, told, hurt, seen, late, faults>>
    BY Zenon DEF Detach
  <1>2. RecordsOK /\ SeenInv
    BY CoreHolds, Zenon DEF Core
  <1>3. st'[r] = "deleting" /\ \A q \in Resources \ {r} : st'[q] = st[q]
    BY <1>1, <1>2, Zenon DEF RecordsOK, Begin
  <1>4. /\ r \notin {"vpc", "vm"} /\ {"nat", "fip", "vpc", "vm"} \subseteq Resources
        /\ \A q \in Resources : r \notin Parent[q]
    BY <1>1 DEF Attachments, Resources, Parent
  <1>5. /\ st["nat"] = "none" => st'["nat"] = "none"
        /\ st["fip"] = "none" => st'["fip"] = "none"
        /\ st'["vpc"] = st["vpc"] /\ st'["vm"] = st["vm"]
    BY <1>1, <1>3, <1>4, Zenon
  <1>6. SeenPair("nat", "vpc") /\ SeenPair("fip", "vm")
    BY <1>2, SeenPairs, Zenon
  <1>7. SeenPair("nat", "vpc")' /\ SeenPair("fip", "vm")'
    BY <1>1, <1>5, <1>6, Zenon DEF SeenPair
  <1>8. SeenInv' /\ seen' \subseteq Resources /\ late \subseteq late' /\ late' \subseteq Attachments
    BY <1>1, <1>2, <1>7, SeenPairs, Zenon DEF RecordsOK
  <1> QED
    BY <1>1, <1>4, <1>8, Deletes, Zenon

(* QEMU exits: no list relies on it or on its sockets. *)
LEMMA ExitKeeps ==
    ASSUME HostInv, QemuExit
    PROVE  Core'
  <1>1. /\ plan' = plan /\ st' = st /\ pc' = pc /\ bad' = bad /\ faults' = faults
        /\ told' = FALSE /\ seen' = seen /\ late' = late
        /\ hurt' = (hurt \ {"mute"}) \cup (IF st["vm"] \in {"creating", "running"}
                                          THEN {"exit"} ELSE {})
    BY Zenon DEF QemuExit
  <1>2. /\ has' \subseteq has \ {"qemu"} /\ has \ has' \subseteq {"qemu", "sockets"}
    BY Zenon DEF QemuExit
  <1>3. RecordsOK /\ ObjectInv
    BY CoreHolds, Zenon DEF Core
  <1> DEFINE Sure == Resources \cup {"dhcp", "unread"}
  <1>h. /\ \A h \in Sure : h \in hurt' <=> h \in hurt
        /\ hurt' \subseteq Resources \cup {"dhcp", "unread", "mute", "exit"}
    BY <1>1, <1>3 DEF RecordsOK, Resources
  <1>4. RecordsOK'
    BY <1>1, <1>2, <1>3, <1>h, Zenon DEF RecordsOK
  <1>s. SeenInv'
    BY <1>1, CoreHolds, Zenon DEF Core, SeenInv
  <1>5. ObjectInv'
    <2>1. Upheld'
      <3>0. \A o : Support(o)' = Support(o)
        BY <1>1, SupportKept, Zenon
      <3>1. SUFFICES ASSUME NEW o \in has', NEW a \in Support(o) PROVE a \in has'
        BY <3>0, Zenon DEF Upheld
      <3>2. o \in has /\ o \in Objects
        BY <1>2, <1>3, Zenon DEF RecordsOK
      <3>3. a \in has /\ a \notin {"qemu", "sockets"}
        BY <1>3, <3>1, <3>2, SupportNames, Zenon DEF ObjectInv, Upheld
      <3> QED
        BY <1>2, <3>3, Zenon
    <2>2. Unplanned' = Unplanned
      BY <1>1, ListsKept, Zenon
    <2>3. Answering'
      BY <1>2, <1>3 DEF ObjectInv, Answering
    <2>4. has' \cap Unplanned = {}
      BY <1>2, <1>3, Zenon DEF ObjectInv
    <2> QED
      BY <2>1, <2>2, <2>3, <2>4, Zenon DEF ObjectInv
  <1>6. QemuInv'
    <2>1. Alive' => "exit" \in hurt'
      BY <1>1, Zenon DEF Alive
    <2> QED
      BY <1>2, <2>1, Zenon DEF QemuInv
  <1>7. ASSUME NEW q \in Resources PROVE ResourceInv(q)'
    <2>1. ResourceInv(q)
      BY Zenon DEF HostInv
    <2>2. /\ Creation(q)' = Creation(q) /\ Deletion(q)' = Deletion(q) /\ Made(q)' = Made(q)
          /\ (Working(q)' <=> Working(q)) /\ Steps(q)' = Steps(q) /\ Spared' = Spared
      BY <1>1, <1>h, ListsKept, Zenon DEF Working, Steps, Spared
    <2>3. TreeInv(q)' /\ PlaceInv(q)' /\ GoneInv(q)'
      BY <1>1, <1>2, <1>h, <2>1, <2>2, Zenon DEF ResourceInv, TreeInv, PlaceInv, GoneInv
    <2>4. \A i \in 1 .. Len(Creation(q)) : st[q] # "none" => Creation(q)[i].on # "sockets"
      <3>1. SUFFICES ASSUME st[q] # "none", NEW i \in 1 .. Len(Creation(q))
                     PROVE  Creation(q)[i].on # "sockets"
        BY Zenon
      <3>2. Makes(Creation(q), q)
        BY <3>1, Grounded, Zenon DEF Builds
      <3> QED
        BY <3>2, Zenon DEF Makes
    <2>5. CreateInv(q)'
      <3>1. SUFFICES ASSUME st[q] = "creating", NEW i \in 1 .. Len(Creation(q))
                     PROVE  LET s == Creation(q)[i] IN
           /\ i < pc[q] /\ q \notin late /\ s.kind # "load" =>
                 s.on \in has' \cup {"qemu"} \/ (s.on = "default_vrf" /\ "default_ng" \in has')
           /\ i >= pc[q] /\ s.kind = "make" => s.on \notin has' \ {"qemu"}
        BY <1>1, <2>2, Zenon DEF CreateInv
      <3>2. /\ i < pc[q] /\ q \notin late /\ Creation(q)[i].kind # "load" =>
                  \/ Creation(q)[i].on \in has \cup {"qemu"}
                  \/ Creation(q)[i].on = "default_vrf" /\ "default_ng" \in has
            /\ i >= pc[q] /\ Creation(q)[i].kind = "make" => Creation(q)[i].on \notin has \ {"qemu"}
        BY <2>1, <3>1, Zenon DEF ResourceInv, CreateInv
      <3>3. Creation(q)[i].on # "sockets"
        BY <2>4, <3>1, Zenon
      <3>4. \A o : o \in has /\ o \notin {"qemu", "sockets"} => o \in has'
        BY <1>2, Zenon
      <3>5. /\ Creation(q)[i].on \in has \cup {"qemu"} => Creation(q)[i].on \in has' \cup {"qemu"}
            /\ "default_ng" \in has => "default_ng" \in has'
        BY <3>3, <3>4, Zenon
      <3>6. Creation(q)[i].on \notin has \ {"qemu"} => Creation(q)[i].on \notin has' \ {"qemu"}
        BY <1>2, Zenon
      <3> QED
        BY <3>2, <3>5, <3>6, Zenon
    <2>6. RunningInv(q)'
      <3>1. SUFFICES ASSUME st[q] = "running", q \notin late, NEW o \in Made(q)
                     PROVE  o \in has' \cup {"qemu", "default_vrf"}
                                       \cup (IF "dhcp" \in hurt THEN {"dhcp_unit"} ELSE {})
        BY <1>1, <1>h, <2>2, Zenon DEF RunningInv
      <3>2. o # "sockets"
        BY <2>4, <3>1, Zenon DEF Made
      <3>3. o \in has \cup {"qemu", "default_vrf"} \cup (IF "dhcp" \in hurt THEN {"dhcp_unit"} ELSE {})
        BY <2>1, <3>1, Zenon DEF ResourceInv, RunningInv
      <3> QED
        BY <1>2, <3>2, <3>3, Zenon
    <2>7. DeleteInv(q)'
      <3>1. SUFFICES ASSUME st[q] = "deleting", NEW i \in 1 .. Len(Deletion(q))
                     PROVE  LET s == Deletion(q)[i] IN
           /\ i < pc[q] /\ Removes(s) => \/ s.on \notin has'
                                         \/ s.on = "dhcp_unit" /\ "unread" \in hurt
                                         \/ Tried(s) /\ q \in bad
           /\ i < pc[q] /\ s.kind = "restart" => "lease" \notin has' \/ "unread" \in hurt
           /\ i < pc[q] /\ s.kind = "set" => "default_ng" \notin has'
           /\ i >= pc[q] /\ MustFind(s) => s.on \in has' \/ q \in hurt
        BY <1>1, <1>h, <2>2, Zenon DEF DeleteInv, Removes, MustFind, Tried
      <3>2. LET s == Deletion(q)[i] IN
           /\ i < pc[q] /\ Removes(s) => \/ s.on \notin has
                                         \/ s.on = "dhcp_unit" /\ "unread" \in hurt
                                         \/ Tried(s) /\ q \in bad
           /\ i < pc[q] /\ s.kind = "restart" => "lease" \notin has \/ "unread" \in hurt
           /\ i < pc[q] /\ s.kind = "set" => "default_ng" \notin has
           /\ i >= pc[q] /\ MustFind(s) => s.on \in has \/ q \in hurt
        BY <2>1, <3>1, Zenon DEF ResourceInv, DeleteInv
      <3>3. MustFind(Deletion(q)[i]) => Deletion(q)[i].on \notin {"qemu", "sockets"}
        <4>1. Finds(Deletion(q), Creation(q)) /\ st[q] # "none"
          BY <3>1, Grounded, Zenon DEF Unbuilds
        <4> QED
          BY <2>4, <4>1, Zenon DEF Finds, Holds
      <3>4. MustFind(Deletion(q)[i]) /\ Deletion(q)[i].on \in has => Deletion(q)[i].on \in has'
        BY <1>2, <3>3, Zenon
      <3> QED
        BY <1>2, <3>2, <3>4, Zenon
    <2> QED
      BY <2>3, <2>5, <2>6, <2>7, Zenon DEF ResourceInv
  <1> QED
    BY <1>4, <1>s, <1>5, <1>6, <1>7, Zenon DEF Core

(* The agent stops: every worker ends in error. *)
LEMMA StopKeeps ==
    ASSUME HostInv, AgentStop
    PROVE  Core'
  <1>1. /\ plan' = plan /\ has' = has /\ pc' = pc /\ bad' = {} /\ told' = told
        /\ hurt' = hurt \cup {r \in Resources : Working(r)}
        /\ st' = [r \in Resources |-> IF Working(r) THEN "error" ELSE st[r]]
        /\ faults < MaxFaults /\ faults' = faults + 1
        /\ seen' = {} /\ late' = {r \in late : st[r] # "none"}
    BY Zenon DEF AgentStop
  <1>2. RecordsOK /\ QemuInv
    BY CoreHolds, Zenon DEF Core
  <1>3. \A q \in Resources : st'[q] = IF Working(q) THEN "error" ELSE st[q]
    BY <1>1, Zenon
  <1>4. RecordsOK'
    <2>1. st' \in [Resources -> {"none", "creating", "running", "deleting", "error"}]
      BY <1>1, <1>2, Zenon DEF RecordsOK
    <2>2. \A q \in Resources : st'[q] # "none" => q \in plan.uses
      BY <1>2, <1>3, Zenon DEF RecordsOK, Working
    <2>3. /\ hurt' \subseteq Resources \cup {"dhcp", "unread", "mute", "exit"}
          /\ bad' \subseteq Resources /\ seen' \subseteq Resources /\ late' \subseteq Attachments
      BY <1>1, <1>2, Zenon DEF RecordsOK
    <2>4. faults' \in 0 .. MaxFaults
      BY <1>1, <1>2, FaultsAssumption DEF RecordsOK
    <2> QED
      BY <1>1, <1>2, <2>1, <2>2, <2>3, <2>4, Zenon DEF RecordsOK
  <1>5. ObjectInv'
    <2>1. ASSUME NEW c \in late \ late' PROVE Own(c) \cap has \subseteq {"lease", "dhcp_unit", "deaf"}
      <3>1. c \in Resources /\ st[c] = "none"
        BY <1>1, <1>2, <2>1 DEF RecordsOK, Attachments, Resources
      <3>2. Own(c) \cap has \subseteq Spared
        BY <3>1, Zenon DEF HostInv, ResourceInv, GoneInv
      <3> QED
        BY <3>2 DEF Spared
    <2> QED
      BY <1>1, <2>1, StillObject, Zenon
  <1>s. SeenInv'
    BY <1>1, Zenon DEF SeenInv
  <1>6. ASSUME NEW q \in Resources PROVE ResourceInv(q)'
    <2>1. ASSUME st[q] # "none", q \notin late', NEW p \in Parent[q] PROVE st'[p] = "running"
      <3>0. q \notin late
        BY <1>1, <2>1, Zenon
      <3>1. st[p] = "running" /\ p \in Resources
        BY <2>1, <3>0 DEF HostInv, ResourceInv, TreeInv, Parent, Resources
      <3> QED
        BY <1>3, <3>1, Zenon DEF Working
    <2>2. CASE ~Working(q)
      <3>1. q \notin bad /\ q \notin bad'
        BY <1>1, <2>2, Zenon DEF HostInv, ResourceInv, PlaceInv, Working
      <3>2. /\ st'[q] = st[q] /\ pc'[q] = pc[q] /\ hurt \subseteq hurt'
            /\ q \in late /\ st[q] # "none" => q \in late'
        BY <1>1, <1>3, <2>2, Zenon
      <3> QED
        BY <1>1, <2>1, <3>1, <3>2, SameKept, Zenon
    <2>3. CASE Working(q)
      <3>1. st'[q] = "error" /\ q \in hurt' /\ q \notin bad' /\ st[q] # "none"
        BY <1>1, <1>3, <2>3, Zenon DEF Working
      <3>2. TreeInv(q)'
        BY <2>1, <3>1, Zenon DEF TreeInv
      <3>3. PlaceInv(q)' /\ CreateInv(q)' /\ RunningInv(q)' /\ DeleteInv(q)' /\ GoneInv(q)'
        BY <3>1, Zenon DEF PlaceInv, CreateInv, RunningInv, DeleteInv, GoneInv, Working
      <3> QED
        BY <3>2, <3>3, Zenon DEF ResourceInv
    <2> QED
      BY <2>2, <2>3, Zenon
  <1>7. QemuInv'
    <2>1. "vm" \in Resources
      BY Zenon DEF Resources
    <2>2. CASE Working("vm")
      <3>1. st'["vm"] = "error"
        BY <1>3, <2>1, <2>2, Zenon
      <3>2. (Abandoned' => Abandoned) /\ ~Alive'
        BY <1>1, <3>1, Zenon DEF Abandoned, Alive
      <3> QED
        BY <1>1, <1>2, <3>2, Zenon DEF QemuInv
    <2>3. CASE ~Working("vm")
      <3>1. st'["vm"] = st["vm"] /\ pc'["vm"] = pc["vm"] /\ hurt \subseteq hurt'
        BY <1>1, <1>3, <2>1, <2>3, Zenon
      <3> QED
        BY <1>1, <3>1, QemuSame, Zenon
    <2> QED
      BY <2>2, <2>3, Zenon
  <1> QED
    BY <1>4, <1>5, <1>s, <1>6, <1>7, Zenon DEF Core

(* A step that leaves host, records and workers alone. *)
LEMMA RestKeeps ==
    ASSUME HostInv, UNCHANGED <<has, plan, st, pc, bad, told, hurt, late>>,
           faults' \in 0 .. MaxFaults, seen' \subseteq Resources, SeenInv'
    PROVE  Core'
  <1>1. RecordsOK /\ "vm" \in Resources
    BY CoreHolds, Zenon DEF Core, Resources
  <1>2. RecordsOK'
    BY <1>1, Zenon DEF RecordsOK
  <1>3. ObjectInv'
    BY StillObject, Zenon
  <1>4. QemuInv'
    BY QemuSame, Zenon
  <1>5. ASSUME NEW q \in Resources PROVE ResourceInv(q)'
    <2>1. st[q] # "none" /\ q \notin late' => \A p \in Parent[q] : st'[p] = "running"
      BY Zenon DEF HostInv, ResourceInv, TreeInv
    <2>2. hurt \subseteq hurt'
      BY Zenon
    <2> QED
      BY <2>1, <2>2, SameKept, Zenon
  <1> QED
    BY <1>2, <1>3, <1>4, <1>5, Zenon DEF Core

LEMMA IdleKeeps ==
    ASSUME HostInv, UNCHANGED <<has, plan, st, pc, bad, told, hurt, seen, late>>,
           faults' \in 0 .. MaxFaults
    PROVE  Core'
  <1>1. RecordsOK /\ SeenInv
    BY CoreHolds, Zenon DEF Core
  <1>2. seen' \subseteq Resources /\ SeenInv'
    BY <1>1, Zenon DEF RecordsOK, SeenInv
  <1> QED
    BY <1>2, RestKeeps, Zenon

(* Prepare looks, and goes by what it saw. *)
LEMMA LookKeeps ==
    ASSUME HostInv, PrepareNAT \/ PrepareFIP \/ PrepareDeleteVPC \/ PrepareStopVM
    PROVE  Core' /\ UNCHANGED <<svcVars, plan, st, pc>>
  <1>1. UNCHANGED <<has, svcVars, plan, st, pc, bad, told, hurt, late, faults>>
    BY Zenon DEF PrepareNAT, PrepareFIP, PrepareDeleteVPC, PrepareStopVM, Look
  <1>2. RecordsOK /\ SeenPair("nat", "vpc") /\ SeenPair("fip", "vm")
    BY CoreHolds, SeenPairs, Zenon DEF Core
  <1>3. seen' \subseteq Resources
    BY <1>2 DEF PrepareNAT, PrepareFIP, PrepareDeleteVPC, PrepareStopVM, Look, RecordsOK, Resources
  <1>4. SeenPair("nat", "vpc")' /\ SeenPair("fip", "vm")'
    <2>1. CASE PrepareNAT
      BY <1>1, <1>2, <2>1 DEF SeenPair, PrepareNAT, Look, Parent
    <2>2. CASE PrepareFIP
      BY <1>1, <1>2, <2>2 DEF SeenPair, PrepareFIP, Look, Parent
    <2>3. CASE PrepareDeleteVPC
      BY <1>1, <1>2, <2>3 DEF SeenPair, PrepareDeleteVPC, Look, Children, Resources, Parent
    <2>4. CASE PrepareStopVM
      BY <1>1, <1>2, <2>4 DEF SeenPair, PrepareStopVM, Look, Children, Resources, Parent
    <2> QED
      BY <2>1, <2>2, <2>3, <2>4, Zenon
  <1>5. SeenInv' /\ faults' \in 0 .. MaxFaults
    BY <1>1, <1>2, <1>4, SeenPairs, Zenon DEF RecordsOK
  <1>6. Core'
    BY <1>1, <1>3, <1>5, RestKeeps, Zenon
  <1> QED
    BY <1>1, <1>6, Zenon

(* An empty host satisfies the invariant. *)
LEMMA Starting == Init => HostInv
  <1> SUFFICES ASSUME Init PROVE HostInv
    BY Zenon
  <1>1. /\ has = {} /\ SvcInit /\ plan \in Scenarios /\ bad = {} /\ told = FALSE /\ hurt = {}
        /\ faults = plan.spent /\ seen = {} /\ late = {} /\ st = [r \in Resources |-> "none"] /\ pc = [r \in Resources |-> 1]
    BY Zenon DEF Init
  <1>2. \A r \in Resources : st[r] = "none"
    BY <1>1, Zenon
  <1>3. SvcTypeOK
    <2>1. Vpc \in VPCs /\ Others \subseteq VPCs
      BY Zenon DEF VPCs
    <2>2. opened \in [VPCs -> 0 .. 2]
      BY <1>1 DEF SvcInit
    <2> QED
      BY <1>1, <2>1, <2>2 DEF SvcInit, SvcTypeOK
  <1>4. TypeOK
    <2>1. /\ st \in [Resources -> {"none", "creating", "running", "deleting", "error"}]
          /\ pc \in [Resources -> 1 .. 20] /\ faults \in 0 .. MaxFaults
      BY <1>1, FaultsAssumption, ScenariosAssumption
    <2> QED
      BY <1>1, <1>2, <1>3, <2>1, Zenon DEF TypeOK
  <1>5. ObjectInv
    BY <1>1, Zenon DEF ObjectInv, Upheld, Answering
  <1>s. SeenInv
    BY <1>1, Zenon DEF SeenInv
  <1>6. QemuInv
    <2>1. ~Alive
      BY <1>2, Zenon DEF Alive, Resources
    <2> QED
      BY <1>1, <2>1, Zenon DEF QemuInv
  <1>7. \A r \in Resources : ResourceInv(r)
    BY <1>1, <1>2, Zenon DEF ResourceInv, TreeInv, PlaceInv, CreateInv, RunningInv, DeleteInv, GoneInv, Working
  <1>8. "vpc" \in Resources /\ st["vpc"] = "none" /\ calls = <<>> /\ reply = "idle" /\ svc = "up"
    BY <1>1, <1>2, Zenon DEF Resources, SvcInit
  <1>9. CallInv
    BY <1>8 DEF CallInv
  <1>10. ServeInv
    <2>1. Vpc \notin saved /\ opened[Vpc] = 0 /\ \A v \in Others : v \in saved /\ opened[v] = 1
      BY <1>1, VpcAssumption, Zenon DEF SvcInit, VPCs
    <2>2. ~ToServe /\ Len(calls) = 0
      BY <1>8, Zenon DEF ToServe
    <2> QED
      BY <1>8, <2>1, <2>2, Zenon DEF ServeInv
  <1> QED
    BY <1>4, <1>5, <1>s, <1>6, <1>7, <1>9, <1>10, Zenon DEF HostInv

-----------------------------------------------------------------------------
(* The calls to the host service *)

CallRecord == [verb : {"open", "close"}, live : BOOLEAN]

(* No calls, *)
LEMMA NoCalls ==
    ASSUME NEW c \in Seq(CallRecord)
    PROVE  Len(c) \in Nat /\ (Len(c) = 0 => c = <<>>)
  OBVIOUS

(* what Append does to the calls, *)
LEMMA Appending ==
    ASSUME NEW c \in Seq(CallRecord), NEW e \in CallRecord
    PROVE  /\ Append(c, e) \in Seq(CallRecord) /\ Append(c, e) # <<>> /\ Len(c) \in Nat
           /\ Len(Append(c, e)) = Len(c) + 1 /\ Append(c, e)[Len(c) + 1] = e
           /\ \A i \in 1 .. Len(c) : Append(c, e)[i] = c[i]
  OBVIOUS

(* what Tail does, *)
LEMMA Taking ==
    ASSUME NEW c \in Seq(CallRecord), c # <<>>
    PROVE  /\ Tail(c) \in Seq(CallRecord) /\ Head(c) = c[1] /\ c[1] \in CallRecord
           /\ Len(c) \in Nat \ {0} /\ Len(Tail(c)) = Len(c) - 1
           /\ \A i \in 1 .. Len(c) - 1 : Tail(c)[i] = c[i + 1]
           /\ Len(c) = 1 => Tail(c) = <<>>
  <1>1. Len(c) \in Nat \ {0}
    <2>1. Len(c) \in Nat /\ (Len(c) = 0 => c = <<>>)
      BY NoCalls, Zenon
    <2> QED
      BY <2>1, Zenon
  <1>2. /\ Tail(c) \in Seq(CallRecord) /\ Head(c) = c[1] /\ c[1] \in CallRecord
        /\ Len(Tail(c)) = Len(c) - 1
        /\ \A i \in 1 .. Len(c) - 1 : Tail(c)[i] = c[i + 1]
    BY <1>1
  <1>3. Len(c) = 1 => Tail(c) = <<>>
    <2>1. Len(c) = 1 => Len(Tail(c)) = 0
      BY <1>2
    <2> QED
      BY <1>2, <2>1, NoCalls, Zenon
  <1> QED
    BY <1>1, <1>2, <1>3, Zenon

(* and what becomes of them when the client is gone. *)
LEMMA Leaving ==
    ASSUME calls \in Seq(CallRecord)
    PROVE  /\ Unattended \in Seq(CallRecord) /\ Len(Unattended) = Len(calls)
           /\ Len(calls) \in Nat
           /\ \A i \in 1 .. Len(calls) : Unattended[i].live = FALSE
           /\ calls = <<>> => Unattended = <<>>
  <1>1. Len(calls) \in Nat /\ DOMAIN calls = 1 .. Len(calls)
    OBVIOUS
  <1>2. \A i \in 1 .. Len(calls) : [calls[i] EXCEPT !.live = FALSE] \in CallRecord
                                   /\ [calls[i] EXCEPT !.live = FALSE].live = FALSE
    <2>1. \A i \in 1 .. Len(calls) : calls[i] \in CallRecord
      BY <1>1
    <2>2. \A c \in CallRecord : /\ [c EXCEPT !.live = FALSE] \in CallRecord
                                /\ [c EXCEPT !.live = FALSE].live = FALSE
      BY Zenon DEF CallRecord
    <2> QED
      BY <2>1, <2>2, Zenon
  <1>3. Unattended = [i \in 1 .. Len(calls) |-> [calls[i] EXCEPT !.live = FALSE]]
    BY <1>1, Zenon DEF Unattended
  <1>4. Unattended \in Seq(CallRecord) /\ Len(Unattended) = Len(calls)
    BY <1>1, <1>2, <1>3
  <1>5. \A i \in 1 .. Len(calls) : Unattended[i].live = FALSE
    BY <1>2, <1>3, Zenon
  <1>6. calls = <<>> => Unattended = <<>>
    <2>1. calls = <<>> => Len(Unattended) = 0
      BY <1>4
    <2> QED
      BY <1>4, <2>1, NoCalls, Zenon
  <1> QED
    BY <1>1, <1>4, <1>5, <1>6, Zenon

Service == SvcTypeOK /\ CallInv /\ ServeInv

(* The invariant of the host service; without a worker of the VPC no call  *)
(* is pending.                                                             *)
LEMMA ServiceHolds ==
    ASSUME HostInv
    PROVE  /\ Service
           /\ calls \in Seq(CallRecord)
           /\ st["vpc"] # "none" /\ ~Working("vpc") => reply = "idle"
           /\ st["vpc"] = "none" => reply = "idle"
           /\ reply # "waiting" => \A i \in 1 .. Len(calls) : ~calls[i].live
  BY Zenon DEF HostInv, TypeOK, Service, CallRecord, SvcTypeOK, CallInv, Asking, Working

(* The service and the record of the VPC are as they were. *)
LEMMA ServeSame ==
    ASSUME HostInv, plan' = plan, UNCHANGED svcVars,
           st'["vpc"] = st["vpc"], pc'["vpc"] = pc["vpc"]
    PROVE  Service'
  <1>1. Service /\ CreateVPC' = CreateVPC
    BY ServiceHolds, ListsKept, Zenon
  <1>2. (Asking' <=> Asking) /\ Verb' = Verb /\ (ToServe' <=> ToServe) /\ (NotToServe' <=> NotToServe)
    BY <1>1, Zenon DEF Asking, Verb, ToServe, NotToServe, svcVars
  <1>3. SvcTypeOK' /\ CallInv'
    BY <1>1, <1>2, Zenon DEF Service, SvcTypeOK, CallInv, svcVars
  <1>4. ServeInv'
    BY <1>1, <1>2, Zenon DEF Service, ServeInv, svcVars, Closed
  <1> QED
    BY <1>3, <1>4, Zenon DEF Service

(* A step of a worker that is not a call. *)
LEMMA ServeWork ==
    ASSUME HostInv, plan' = plan, NEW r \in Resources, Working(r), NEW s \in Current(r),
           s.kind \notin {"open", "close"},
           UNCHANGED <<svc, opened, saved, calls, reply, amiss>>, gen' \in 1 .. 2,
           r # "vpc" => gen' = gen,
           \A q \in Resources \ {r} : st'[q] = st[q] /\ pc'[q] = pc[q],
           st'[r] = "error" \/ (st'[r] = st[r] /\ pc'[r] = pc[r] + 1)
    PROVE  Service'
  <1>1. "vpc" \in Resources /\ Service /\ CreateVPC' = CreateVPC
    BY ServiceHolds, ListsKept, Zenon DEF Resources
  <1>2. CASE r # "vpc"
    BY <1>1, <1>2, ServeSame, Zenon DEF svcVars
  <1>3. CASE r = "vpc"
    <2>1. ~Asking
      <3>1. SUFFICES ASSUME Asking PROVE FALSE
        BY Zenon
      <3>2. s = Step(Verb, "hostsvc")
        BY <1>3, <3>1, AskingPlace, Zenon
      <3> QED
        BY <3>2, Zenon DEF Verb, Step
    <2>2. reply = "idle"
      BY <1>1, <2>1, Zenon DEF Service, CallInv
    <2>3. CallInv'
      <3>1. /\ \A i \in 1 .. Len(calls) : ~calls[i].live
            /\ svc = "down" => calls = <<>>
        BY <1>1, <2>2, Zenon DEF Service, CallInv
      <3> QED
        BY <2>2, <3>1, Zenon DEF CallInv
    <2>4. SvcTypeOK'
      BY <1>1, Zenon DEF Service, SvcTypeOK
    <2>5. /\ pc["vpc"] \in 1 .. Len(Steps("vpc"))
          /\ st["vpc"] \in {"creating", "deleting"} /\ Len(Steps("vpc")) \in 1 .. 18
          /\ st["vpc"] = "creating" => Steps("vpc") = CreateVPC
      BY <1>1, <1>3, Placed, Zenon DEF Working, Creation
    <2>6. ~ToServe'
      BY <1>1, <1>3, <2>1, <2>2, <2>5 DEF ToServe, Asking
    <2>7. NotToServe' => NotToServe
      BY <1>1, <1>3, <2>1, <2>2, <2>5 DEF NotToServe, Asking
    <2>8. ServeInv'
      BY <1>1, <2>2, <2>6, <2>7, Zenon DEF Service, ServeInv, Closed
    <2> QED
      BY <2>3, <2>4, <2>8, Zenon DEF Service
  <1> QED
    BY <1>2, <1>3, Zenon

(* Before the end of a list, and past it. *)
LEMMA Places == \A n \in 1 .. 18 : ~(1 > n) /\ n + 1 > n /\ n + 1 > 1
  OBVIOUS

(* A record of the VPC is made, marked or removed while nothing is asked. *)
LEMMA ServeRecord ==
    ASSUME HostInv, plan' = plan, NEW r \in Resources, UNCHANGED svcVars,
           \A q \in Resources \ {r} : st'[q] = st[q] /\ pc'[q] = pc[q],
           \/ st[r] = "none" /\ st'[r] = "creating" /\ pc'[r] = 1 /\ r \in plan.uses
           \/ st[r] \in {"running", "error"} /\ st'[r] = "deleting" /\ pc'[r] = 1
           \/ /\ Working(r) /\ Current(r) = {}
              /\ st'[r] = IF st[r] = "creating" THEN "running" ELSE "none"
    PROVE  Service'
  <1>1. "vpc" \in Resources /\ Service /\ CreateVPC' = CreateVPC
    BY ServiceHolds, ListsKept, Zenon DEF Resources
  <1>2. CASE r # "vpc"
    BY <1>1, <1>2, ServeSame, Zenon
  <1>3. CASE r = "vpc"
    <2>1. ~Asking
      <3>1. SUFFICES ASSUME Asking PROVE FALSE
        BY Zenon
      <3>2. Working("vpc") /\ Current("vpc") # {}
        BY <3>1, AskingPlace, Zenon
      <3> QED
        BY <1>3, <3>2, Zenon DEF Working
    <2>2. reply = "idle" /\ reply' = "idle" /\ Creation("vpc") = CreateVPC
      <3>1. Creation("vpc") = CreateVPC
        BY Zenon DEF Creation
      <3> QED
        BY <1>1, <2>1, <3>1, Zenon DEF Service, CallInv, svcVars
    <2>3. CallInv'
      <3>1. /\ \A i \in 1 .. Len(calls) : ~calls[i].live
            /\ svc = "down" => calls = <<>>
        BY <1>1, <2>2, Zenon DEF Service, CallInv
      <3> QED
        BY <2>2, <3>1, Zenon DEF CallInv, svcVars
    <2>4. SvcTypeOK'
      BY <1>1, Zenon DEF Service, SvcTypeOK, svcVars
    <2>5. (ToServe' => ToServe) /\ (NotToServe' => NotToServe)
      <3>1. CASE st["vpc"] = "none" /\ st'["vpc"] = "creating" /\ pc'["vpc"] = 1 /\ "vpc" \in plan.uses
        <4>1. Len(CreateVPC) \in 1 .. 18
          <5>1. plan \in Scenarios
            BY Zenon DEF HostInv, TypeOK
          <5>2. Len(Creation("vpc")) \in 1 .. 18
            BY <3>1, <5>1, ListFacts, Zenon DEF Builds
          <5> QED
            BY <5>2, Zenon DEF Creation
        <4> QED
          <5>1. ~(1 > Len(CreateVPC))
            BY <4>1, Places, Zenon
          <5>2. ~ToServe'
            <6>1. st'["vpc"] # "running"
              BY <3>1, Zenon
            <6> QED
              BY <1>1, <2>2, <3>1, <5>1, <6>1, Zenon DEF ToServe
          <5>3. NotToServe
            BY <3>1, Zenon DEF NotToServe
          <5> QED
            BY <5>2, <5>3, Zenon
      <3>2. CASE st["vpc"] \in {"running", "error"} /\ st'["vpc"] = "deleting" /\ pc'["vpc"] = 1
        BY <2>2, <3>2 DEF ToServe, NotToServe
      <3>3. CASE /\ Working("vpc") /\ Current("vpc") = {}
                 /\ st'["vpc"] = IF st["vpc"] = "creating" THEN "running" ELSE "none"
        <4>1. /\ st["vpc"] = "creating" => pc["vpc"] = Len(CreateVPC) + 1 /\ Len(CreateVPC) \in 1 .. 18
              /\ st["vpc"] = "deleting" => pc["vpc"] = Len(Deletion("vpc")) + 1 /\ Len(Deletion("vpc")) \in 1 .. 18
              /\ st["vpc"] \in {"creating", "deleting"}
          <5>1. st["vpc"] \in {"creating", "deleting"} /\ st["vpc"] # "none"
            BY <3>3, Zenon DEF Working
          <5>2. Len(Creation("vpc")) \in 1 .. 18 /\ Len(Deletion("vpc")) \in 1 .. 18
            BY <1>1, <5>1, Grounded, Zenon DEF Builds, Unbuilds
          <5> QED
            BY <1>1, <2>2, <3>3, <5>1, <5>2, Finished, Zenon
        <4>2. /\ st["vpc"] = "creating" => pc["vpc"] > Len(CreateVPC)
              /\ st["vpc"] = "deleting" => pc["vpc"] > 1
          BY <4>1, Places, Zenon
        <4>3. CASE st["vpc"] = "creating"
          <5>1. st'["vpc"] = "running" /\ ToServe
            BY <3>3, <4>2, <4>3, Zenon DEF ToServe
          <5> QED
            BY <5>1, Zenon DEF NotToServe
        <4>4. CASE st["vpc"] = "deleting"
          <5>1. st'["vpc"] = "none"
            BY <3>3, <4>4, Zenon
          <5>2. NotToServe
            BY <4>2, <4>4, Zenon DEF NotToServe
          <5> QED
            BY <5>1, <5>2, Zenon DEF ToServe
        <4> QED
          BY <4>1, <4>3, <4>4, Zenon
      <3> QED
        BY <1>3, <3>1, <3>2, <3>3, Zenon
    <2>6. ServeInv'
      BY <1>1, <2>2, <2>5, Zenon DEF Service, ServeInv, Closed, svcVars
    <2> QED
      BY <2>3, <2>4, <2>6, Zenon DEF Service
  <1> QED
    BY <1>2, <1>3, Zenon

(* Only the worker of the VPC asks, at one place of each list. *)
LEMMA AskPlace ==
    ASSUME HostInv, NEW r \in Resources, Working(r), NEW s \in Current(r),
           s.kind \in {"open", "close"}
    PROVE  Asking /\ s.kind = Verb
  <1>1. /\ st[r] \in {"creating", "deleting"} /\ pc[r] \in 1 .. Len(Steps(r))
        /\ s = Steps(r)[pc[r]]
        /\ st[r] = "creating" => Steps(r) = Creation(r)
        /\ st[r] = "deleting" => Steps(r) = Deletion(r)
    BY Placed, Zenon DEF Working
  <1>2. CASE st[r] = "creating"
    <2>1. Makes(Creation(r), r)
      BY <1>2, Grounded, Zenon DEF Builds
    <2>2. r = "vpc" /\ pc[r] = Len(Creation(r)) /\ s.kind = "open"
      BY <1>1, <1>2, <2>1 DEF Makes, Step
    <2> QED
      BY <1>2, <2>2, Zenon DEF Asking, Verb, Creation
  <1>3. CASE st[r] = "deleting"
    <2>1. Unmakes(Deletion(r), r)
      BY <1>3, Grounded, Zenon DEF Unbuilds
    <2>2. r = "vpc" /\ pc[r] = 1 /\ s.kind = "close"
      BY <1>1, <1>3, <2>1 DEF Unmakes, Step, Removes
    <2> QED
      BY <1>3, <2>2, Zenon DEF Asking, Verb
  <1> QED
    BY <1>1, <1>2, <1>3, Zenon

(* A call is sent. *)
LEMMA AskServes ==
    ASSUME HostInv, NEW r \in Resources, Working(r), NEW s \in Current(r), Ask(s)
    PROVE  Service'
  <1>1. /\ s.kind \in {"open", "close"} /\ Call(s.kind)
        /\ plan' = plan /\ st' = st /\ pc' = pc
    BY Zenon DEF Ask
  <1>2. Asking /\ s.kind = Verb
    BY <1>1, AskPlace, Zenon
  <1>3. /\ Service /\ calls \in Seq(CallRecord) /\ reply = "idle"
        /\ svc' = svc /\ opened' = opened /\ saved' = saved /\ gen' = gen /\ amiss' = amiss
        /\ \/ svc = "up" /\ reply' = "waiting" /\ calls' = Append(calls, [verb |-> Verb, live |-> TRUE])
           \/ svc # "up" /\ reply' = "failed" /\ calls' = calls
    BY <1>1, <1>2, ServiceHolds, Zenon DEF Call
  <1>4. (Asking' <=> Asking) /\ Verb' = Verb /\ CreateVPC' = CreateVPC
    BY <1>1, ListsKept, Zenon DEF Asking, Verb
  <1>5. \A i \in 1 .. Len(calls) : ~calls[i].live
    BY <1>3, ServiceHolds, Zenon
  <1>6. ~ToServe'
    <2>1. Len(CreateVPC) \in 1 .. 18 /\ st["vpc"] \in {"creating", "deleting"}
      BY <1>2, AskingPlace, Grounded, Zenon DEF Builds, Working
    <2> QED
      BY <1>1, <1>2, <1>3, <1>4, <2>1 DEF ToServe, Asking
  <1>7. CASE svc = "up"
    <2> DEFINE e == [verb |-> Verb, live |-> TRUE]
    <2>1. e \in CallRecord /\ e.live /\ e.verb = Verb
      BY Zenon DEF CallRecord, Verb
    <2>2. calls' = Append(calls, e) /\ reply' = "waiting"
      BY <1>3, <1>7, Zenon
    <2> HIDE DEF e
    <2>3. /\ calls' \in Seq(CallRecord) /\ calls' # <<>> /\ Len(calls) \in Nat
          /\ Len(calls') = Len(calls) + 1 /\ calls'[Len(calls) + 1] = e
          /\ \A i \in 1 .. Len(calls) : calls'[i] = calls[i]
      BY <1>3, <2>1, <2>2, Appending, Zenon
    <2>4. SvcTypeOK'
      BY <1>3, <2>2, <2>3, Zenon DEF Service, SvcTypeOK, CallRecord
    <2>5. CallInv'
      <3>1. calls'[Len(calls')].live
        BY <2>1, <2>3, Zenon
      <3>2. ASSUME NEW i \in 1 .. Len(calls'), calls'[i].live
            PROVE  i = Len(calls') /\ calls'[i].verb = Verb
        <4>1. i = Len(calls) + 1
          BY <1>5, <2>3, <3>2
        <4> QED
          BY <2>1, <2>3, <4>1, Zenon
      <3>3. svc' # "down"
        BY <1>3, <1>7, Zenon
      <3> QED
        BY <1>2, <1>4, <2>2, <2>3, <3>1, <3>2, <3>3, Zenon DEF CallInv
    <2>6. ServeInv'
      <3>1. NotToServe' => NotToServe
        BY <1>1, <1>2, <1>3, <1>4, <2>2, Zenon DEF NotToServe, Asking
      <3>2. NotToServe => Len(calls') = 1
        BY <1>3, <2>3 DEF Service, ServeInv
      <3> QED
        BY <1>3, <1>6, <2>2, <3>1, <3>2, Zenon DEF Service, ServeInv, Closed
    <2> QED
      BY <2>4, <2>5, <2>6, Zenon DEF Service
  <1>8. CASE svc # "up"
    <2>1. reply' = "failed" /\ calls' = calls
      BY <1>3, <1>8, Zenon
    <2>2. SvcTypeOK'
      BY <1>3, <2>1, Zenon DEF Service, SvcTypeOK
    <2>3. CallInv'
      BY <1>2, <1>3, <1>4, <1>5, <2>1, Zenon DEF Service, CallInv
    <2>4. ~NotToServe'
      <3>1. st["vpc"] # "none"
        BY <1>2, Zenon DEF Asking
      <3>2. st["vpc"] = "deleting" => pc["vpc"] = 1
        BY <1>2, Zenon DEF Asking
      <3> QED
        BY <1>1, <2>1, <3>1, <3>2 DEF NotToServe
    <2>5. ServeInv'
      BY <1>3, <1>6, <2>4, Zenon DEF Service, ServeInv, Closed
    <2> QED
      BY <2>2, <2>3, <2>5, Zenon DEF Service
  <1> QED
    BY <1>7, <1>8, Zenon

(* Its answer is taken. *)
LEMMA AnsweredServes ==
    ASSUME HostInv, Answered
    PROVE  Service'
  <1>1. /\ Working("vpc") /\ reply \in {"ok", "failed"} /\ reply' = "idle" /\ plan' = plan
        /\ UNCHANGED <<svc, opened, saved, gen, calls, amiss>>
        /\ \/ reply = "ok" /\ Advance("vpc") /\ st' = st
           \/ reply # "ok" /\ Fail("vpc")
    BY Zenon DEF Answered
  <1>2. "vpc" \in Resources /\ Service /\ CreateVPC' = CreateVPC /\ RecordsOK
    <2>1. plan' = plan /\ "vpc" \in Resources
      BY <1>1, Zenon DEF Resources
    <2> QED
      BY <2>1, ServiceHolds, ListsKept, CoreHolds, Zenon DEF Core
  <1>3. Asking
    BY <1>1, <1>2, Zenon DEF Service, CallInv
  <1>4. \A i \in 1 .. Len(calls) : ~calls[i].live
    BY <1>1, ServiceHolds, Zenon
  <1>5. SvcTypeOK'
    BY <1>1, <1>2, Zenon DEF Service, SvcTypeOK
  <1>6. CallInv'
    BY <1>1, <1>2, <1>4, Zenon DEF Service, CallInv
  <1>7. CASE reply = "ok"
    <2>1. st' = st /\ pc'["vpc"] = pc["vpc"] + 1
      <3>1. pc' = [pc EXCEPT !["vpc"] = @ + 1] /\ st' = st
        BY <1>1, <1>7, Zenon DEF Advance
      <3> QED
        BY <1>2, <3>1, Zenon DEF RecordsOK
    <2>2. /\ Len(CreateVPC) \in 1 .. 18
          /\ \/ st["vpc"] = "creating" /\ pc["vpc"] = Len(CreateVPC)
             \/ st["vpc"] = "deleting" /\ pc["vpc"] = 1
      BY <1>3, AskingPlace, Grounded, Zenon DEF Builds, Working, Asking
    <2>3. (ToServe' => ToServe) /\ (NotToServe' => NotToServe)
      BY <1>1, <1>2, <1>7, <2>1, <2>2 DEF ToServe, NotToServe
    <2>4. ServeInv'
      BY <1>1, <1>2, <1>7, <2>3, Zenon DEF Service, ServeInv, Closed
    <2> QED
      BY <1>5, <1>6, <2>4, Zenon DEF Service
  <1>8. CASE reply # "ok"
    <2>1. st'["vpc"] = "error"
      BY <1>1, <1>2, <1>8, Zenon DEF Fail, RecordsOK
    <2>2. ~ToServe' /\ ~NotToServe'
      BY <2>1, Zenon DEF ToServe, NotToServe
    <2>3. ServeInv'
      BY <1>1, <1>2, <2>2, Zenon DEF Service, ServeInv, Closed
    <2> QED
      BY <1>5, <1>6, <2>3, Zenon DEF Service
  <1> QED
    BY <1>7, <1>8, Zenon

(* Nobody attends to the calls any longer. *)
LEMMA LeaveServes ==
    ASSUME HostInv, plan' = plan, calls' = Unattended, UNCHANGED <<svc, opened, saved, gen, amiss>>,
           \/ /\ reply = "waiting" /\ reply' = "failed"
              /\ st'["vpc"] = st["vpc"] /\ pc'["vpc"] = pc["vpc"]
           \/ /\ reply' = "idle"
              /\ Working("vpc") => st'["vpc"] = "error"
              /\ ~Working("vpc") => st'["vpc"] = st["vpc"]
    PROVE  Service'
  <1>1. Service /\ calls \in Seq(CallRecord) /\ CreateVPC' = CreateVPC
    BY ServiceHolds, ListsKept, Zenon
  <1>2. /\ Unattended \in Seq(CallRecord) /\ Len(Unattended) = Len(calls)
        /\ \A i \in 1 .. Len(calls) : Unattended[i].live = FALSE
        /\ calls = <<>> => Unattended = <<>>
    BY <1>1, Leaving, Zenon
  <1>3. SvcTypeOK'
    BY <1>1, <1>2, Zenon DEF Service, SvcTypeOK, CallRecord
  <1>4. \A i \in 1 .. Len(calls') : ~calls'[i].live
    BY <1>2, Zenon
  <1>5. CASE /\ reply = "waiting" /\ reply' = "failed"
             /\ st'["vpc"] = st["vpc"] /\ pc'["vpc"] = pc["vpc"]
    <2>1. Asking /\ Asking'
      BY <1>1, <1>5, Zenon DEF Service, CallInv, Asking
    <2>2. CallInv'
      BY <1>1, <1>2, <1>4, <1>5, <2>1, Zenon DEF Service, CallInv
    <2>3. Len(CreateVPC) \in 1 .. 18 /\ st["vpc"] \in {"creating", "deleting"}
      BY <2>1, AskingPlace, Grounded, Zenon DEF Builds, Working
    <2>4. ~ToServe' /\ ~NotToServe'
      BY <1>1, <1>5, <2>1, <2>3 DEF ToServe, NotToServe, Asking
    <2>5. ServeInv'
      BY <1>1, <2>4, Zenon DEF Service, ServeInv, Closed
    <2> QED
      BY <1>3, <2>2, <2>5, Zenon DEF Service
  <1>6. CASE /\ reply' = "idle"
             /\ Working("vpc") => st'["vpc"] = "error"
             /\ ~Working("vpc") => st'["vpc"] = st["vpc"]
    <2>1. CallInv'
      BY <1>1, <1>2, <1>4, <1>6, Zenon DEF Service, CallInv
    <2>2. /\ ToServe' => st["vpc"] = "running" /\ ToServe
          /\ NotToServe' => st["vpc"] = "none" /\ NotToServe
      BY <1>6, Zenon DEF ToServe, NotToServe, Working
    <2>3. NotToServe' => Len(calls) = 0
      <3>1. st["vpc"] = "none" => reply = "idle"
        BY ServiceHolds, Zenon
      <3> QED
        BY <1>1, <2>2, <3>1, Zenon DEF Service, ServeInv
    <2>4. ServeInv'
      BY <1>1, <1>2, <1>6, <2>2, <2>3, Zenon DEF Service, ServeInv, Closed
    <2> QED
      BY <1>3, <2>1, <2>4, Zenon DEF Service
  <1> QED
    BY <1>5, <1>6, Zenon

(* What a call does to the VPC it is about and to the others. *)
LEMMA CallEffect ==
    ASSUME HostInv, NEW opens \in BOOLEAN, NEW saves \in BOOLEAN, Handle(opens, saves)
    PROVE  /\ opened' \in [VPCs -> 0 .. 2] /\ saved' \subseteq VPCs /\ amiss' \subseteq VPCs
           /\ \A v \in Others : opened'[v] = opened[v]
           /\ \A v \in Others \ amiss' : v \notin amiss /\ (v \in saved => v \in saved')
           /\ Head(calls).live /\ Head(calls).verb = "open" =>
                 /\ reply' \in {"ok", "failed"}
                 /\ reply' = "ok" /\ Vpc \notin amiss' /\ (Vpc \notin amiss => opened[Vpc] = 0) =>
                       Vpc \in saved' /\ opened'[Vpc] = gen
           /\ Head(calls).live /\ Head(calls).verb # "open" =>
                 /\ reply' \in {"ok", "failed"}
                 /\ reply' = "ok" /\ Vpc \notin amiss' => Vpc \notin saved' /\ opened'[Vpc] = 0
           /\ ~Head(calls).live => reply' = reply
  <1>1. SvcTypeOK
    BY Zenon DEF HostInv, TypeOK
  <1>2. /\ opened \in [VPCs -> 0 .. 2] /\ saved \subseteq VPCs /\ amiss \subseteq VPCs /\ gen \in 1 .. 2
    BY <1>1, Zenon DEF SvcTypeOK
  <1>3. Vpc \in VPCs /\ Others \subseteq VPCs /\ Vpc \notin Others
    BY VpcAssumption, Zenon DEF VPCs
  <1>4. \A o : names(o) \subseteq VPCs /\ \A v \in VPCs : v \in names(o) <=> o[v] # 0
    BY Zenon DEF names
  <1> DEFINE c == Head(calls)
  <1>5. IF c.verb = "open" THEN Open(c, opens, saves) ELSE Close(c, saves)
    BY Zenon DEF Handle
  <1> HIDE DEF c
  <1>6. CASE c.verb = "open"
    <2>1. Open(c, opens, saves)
      BY <1>5, <1>6, Zenon
    <2>2. CASE opened[Vpc] # 0
      <3>1. /\ opened' = opened /\ saved' = saved /\ amiss' = amiss
            /\ reply' = IF c.live THEN "ok" ELSE reply
        BY <2>1, <2>2, Zenon DEF Open, Answer
      <3> QED
        BY <1>2, <1>3, <1>6, <2>2, <3>1, Zenon DEF c
    <2>3. CASE opened[Vpc] = 0 /\ ~(opens /\ Addressed(Vpc))
      <3>1. /\ opened' = opened /\ saved' = saved /\ amiss' = amiss
            /\ reply' = IF c.live THEN "failed" ELSE reply
        BY <2>1, <2>3, Zenon DEF Open, Answer
      <3> QED
        BY <1>2, <1>3, <1>6, <3>1, Zenon DEF c
    <2>4. CASE opened[Vpc] = 0 /\ opens /\ Addressed(Vpc)
      <3>1. /\ opened' = [opened EXCEPT ![Vpc] = gen]
            /\ saved' = IF saves THEN names(opened') ELSE saved
            /\ reply' = IF c.live THEN (IF saves THEN "ok" ELSE "failed") ELSE reply
            /\ amiss' = IF saves THEN (amiss \cup (saved \ saved')) \ {Vpc} ELSE amiss
        BY <2>1, <2>4, Zenon DEF Open, Answer
      <3>2. /\ opened' \in [VPCs -> 0 .. 2] /\ opened'[Vpc] = gen /\ gen # 0
            /\ \A v \in Others : opened'[v] = opened[v]
        BY <1>2, <1>3, <3>1
      <3>3. CASE saves
        <4>1. saved' = names(opened') /\ Vpc \in saved' /\ saved' \subseteq VPCs
          BY <1>3, <1>4, <3>1, <3>2, <3>3, Zenon
        <4>2. amiss' = (amiss \cup (saved \ saved')) \ {Vpc}
          BY <3>1, <3>3, Zenon
        <4>3. reply' = IF c.live THEN "ok" ELSE reply
          BY <3>1, <3>3, Zenon
        <4> QED
          BY <1>2, <1>3, <1>6, <3>2, <4>1, <4>2, <4>3, Zenon DEF c
      <3>4. CASE ~saves
        <4>1. saved' = saved /\ amiss' = amiss /\ reply' = IF c.live THEN "failed" ELSE reply
          BY <3>1, <3>4, Zenon
        <4> QED
          BY <1>2, <1>3, <1>6, <3>2, <4>1, Zenon DEF c
      <3> QED
        BY <3>3, <3>4, Zenon
    <2> QED
      BY <2>2, <2>3, <2>4, Zenon
  <1>7. CASE c.verb # "open"
    <2>1. Close(c, saves)
      BY <1>5, <1>7, Zenon
    <2>2. CASE opened[Vpc] = 0
      <3>1. /\ opened' = opened /\ saved' = saved /\ amiss' = amiss \cup (saved \cap {Vpc})
            /\ reply' = IF c.live THEN "ok" ELSE reply
        BY <2>1, <2>2, Zenon DEF Close, Answer
      <3> QED
        BY <1>2, <1>3, <1>7, <2>2, <3>1, Zenon DEF c
    <2>3. CASE opened[Vpc] # 0
      <3>1. /\ opened' = [opened EXCEPT ![Vpc] = 0]
            /\ saved' = IF saves THEN names(opened') ELSE saved
            /\ reply' = IF c.live THEN (IF saves THEN "ok" ELSE "failed") ELSE reply
            /\ amiss' = IF saves THEN (amiss \cup (saved \ saved')) \ {Vpc} ELSE amiss \cup {Vpc}
        BY <2>1, <2>3, Zenon DEF Close, Answer
      <3>2. /\ opened' \in [VPCs -> 0 .. 2] /\ opened'[Vpc] = 0
            /\ \A v \in Others : opened'[v] = opened[v]
        BY <1>2, <1>3, <3>1
      <3>3. CASE saves
        <4>1. saved' = names(opened') /\ Vpc \notin saved' /\ saved' \subseteq VPCs
          BY <1>3, <1>4, <3>1, <3>2, <3>3, Zenon
        <4>2. amiss' = (amiss \cup (saved \ saved')) \ {Vpc}
          BY <3>1, <3>3, Zenon
        <4>3. reply' = IF c.live THEN "ok" ELSE reply
          BY <3>1, <3>3, Zenon
        <4> QED
          BY <1>2, <1>3, <1>7, <3>2, <4>1, <4>2, <4>3, Zenon DEF c
      <3>4. CASE ~saves
        <4>1. saved' = saved /\ amiss' = amiss \cup {Vpc} /\ reply' = IF c.live THEN "failed" ELSE reply
          BY <3>1, <3>4, Zenon
        <4> QED
          BY <1>2, <1>3, <1>7, <3>2, <4>1, Zenon DEF c
      <3> QED
        BY <3>3, <3>4, Zenon
    <2> QED
      BY <2>2, <2>3, Zenon
  <1> QED
    BY <1>6, <1>7, Zenon

(* A call is carried out: the answer agrees with what is served and saved. *)
LEMMA HandleServes ==
    ASSUME HostInv, NEW opens \in BOOLEAN, NEW saves \in BOOLEAN, Handle(opens, saves),
           plan' = plan, st' = st, pc' = pc
    PROVE  Service'
  <1> DEFINE c == Head(calls)
  <1>1. /\ svc \in {"up", "stopping"} /\ calls # <<>> /\ calls' = Tail(calls)
        /\ svc' = svc /\ gen' = gen
    BY Zenon DEF Handle
  <1>2. Service /\ calls \in Seq(CallRecord) /\ CreateVPC' = CreateVPC
    BY ServiceHolds, ListsKept, Zenon
  <1>3. /\ calls' \in Seq(CallRecord) /\ c = calls[1] /\ c \in CallRecord
        /\ Len(calls) \in Nat \ {0} /\ Len(calls') = Len(calls) - 1
        /\ \A i \in 1 .. Len(calls) - 1 : calls'[i] = calls[i + 1]
        /\ Len(calls) = 1 => calls' = <<>>
    BY <1>1, <1>2, Taking, Zenon
  <1>4. /\ opened' \in [VPCs -> 0 .. 2] /\ saved' \subseteq VPCs /\ amiss' \subseteq VPCs
        /\ \A v \in Others : opened'[v] = opened[v]
        /\ \A v \in Others \ amiss' : v \notin amiss /\ (v \in saved => v \in saved')
        /\ c.live /\ c.verb = "open" =>
              /\ reply' \in {"ok", "failed"}
              /\ reply' = "ok" /\ Vpc \notin amiss' /\ (Vpc \notin amiss => opened[Vpc] = 0) =>
                    Vpc \in saved' /\ opened'[Vpc] = gen
        /\ c.live /\ c.verb # "open" =>
              /\ reply' \in {"ok", "failed"}
              /\ reply' = "ok" /\ Vpc \notin amiss' => Vpc \notin saved' /\ opened'[Vpc] = 0
        /\ ~c.live => reply' = reply
    BY CallEffect, Zenon
  <1> HIDE DEF c
  <1>5. (Asking' <=> Asking) /\ Verb' = Verb /\ svc' # "down" /\ svc # "down"
    BY <1>1, <1>2, Zenon DEF Asking, Verb
  <1>6. SvcTypeOK'
    <2>1. reply' \in {"idle", "waiting", "ok", "failed"}
      BY <1>2, <1>4, Zenon DEF Service, SvcTypeOK
    <2> QED
      BY <1>1, <1>2, <1>3, <1>4, <2>1, Zenon DEF Service, SvcTypeOK, CallRecord
  <1>7. c.live => reply = "waiting" /\ Len(calls) = 1 /\ c.verb = Verb /\ Asking
    BY <1>2, <1>3 DEF Service, CallInv
  <1>8. CallInv'
    <2>1. reply' # "idle" => Asking'
      BY <1>2, <1>4, <1>5, <1>7, Zenon DEF Service, CallInv
    <2>2. ASSUME NEW i \in 1 .. Len(calls'), calls'[i].live
          PROVE  reply' = "waiting" /\ i = Len(calls') /\ calls'[i].verb = Verb'
      <3>1. i + 1 \in 1 .. Len(calls) /\ calls'[i] = calls[i + 1]
        BY <1>3
      <3>2. reply = "waiting" /\ i + 1 = Len(calls) /\ calls[i + 1].verb = Verb
        BY <1>2, <2>2, <3>1, Zenon DEF Service, CallInv
      <3>3. ~c.live
        BY <1>3, <1>7, <3>1
      <3> QED
        BY <1>3, <1>4, <1>5, <3>1, <3>2, <3>3
    <2>3. ASSUME reply' = "waiting" PROVE calls' # <<>> /\ calls'[Len(calls')].live
      <3>1. ~c.live /\ reply = "waiting"
        BY <1>4, <2>3, Zenon
      <3>2. calls[Len(calls)].live
        BY <1>2, <3>1, Zenon DEF Service, CallInv
      <3>3. Len(calls) # 1
        BY <1>3, <3>1, <3>2, Zenon
      <3>4. Len(calls') \in Nat \ {0} /\ calls'[Len(calls')] = calls[Len(calls)]
        BY <1>3, <3>3
      <3> QED
        BY <3>2, <3>4
    <2> QED
      BY <1>5, <2>1, <2>2, <2>3, Zenon DEF CallInv
  <1>9. ~ToServe
    BY <1>1, <1>2, Zenon DEF Service, ServeInv
  <1>10. \A v \in Others \ amiss' : v \in saved' /\ (svc' = "up" => opened'[v] = 1)
    BY <1>1, <1>2, <1>4, Zenon DEF Service, ServeInv
  <1>11. CASE ~c.live
    <2>1. (ToServe' <=> ToServe) /\ (NotToServe' <=> NotToServe)
      BY <1>2, <1>4, <1>11, Zenon DEF ToServe, NotToServe
    <2>2. ~NotToServe
      <3>1. SUFFICES ASSUME NotToServe PROVE FALSE
        BY Zenon
      <3>2. Len(calls) = 1 /\ reply = "waiting"
        BY <1>2, <1>3, <3>1, Zenon DEF Service, ServeInv
      <3>3. calls[Len(calls)].live
        BY <1>2, <3>2, Zenon DEF Service, CallInv
      <3> QED
        BY <1>3, <1>11, <3>2, <3>3, Zenon
    <2>3. ServeInv'
      BY <1>5, <1>9, <1>10, <2>1, <2>2, Zenon DEF ServeInv
    <2> QED
      BY <1>6, <1>8, <2>3, Zenon DEF Service
  <1>12. CASE c.live
    <2>1. /\ reply = "waiting" /\ Len(calls) = 1 /\ c.verb = Verb /\ Asking /\ calls' = <<>>
          /\ reply' \in {"ok", "failed"} /\ Len(calls') = 0
      BY <1>3, <1>4, <1>7, <1>12, Zenon
    <2>2. Len(CreateVPC) \in 1 .. 18
      BY <2>1, AskingPlace, Grounded, Zenon DEF Builds, Working
    <2>3. CASE st["vpc"] = "creating"
      <3>1. NotToServe /\ c.verb = "open" /\ ~NotToServe'
        <4>1. pc["vpc"] <= Len(CreateVPC)
          BY <2>1, <2>2, <2>3 DEF Asking
        <4>2. NotToServe
          BY <2>1, <2>3, <4>1, Zenon DEF NotToServe
        <4>3. c.verb = "open"
          BY <2>1, <2>3, Zenon DEF Verb
        <4>4. ~NotToServe'
          BY <2>1, <2>3, Zenon DEF NotToServe
        <4> QED
          BY <4>2, <4>3, <4>4, Zenon
      <3>2. Vpc \notin amiss => opened[Vpc] = 0
        BY <1>2, <3>1, Zenon DEF Service, ServeInv
      <3>3. ToServe' => reply' = "ok"
        BY <1>2, <2>1, <2>2, <2>3 DEF ToServe, Asking
      <3>4. ToServe' /\ Vpc \notin amiss' => Vpc \in saved' /\ opened'[Vpc] = gen
        BY <1>4, <1>12, <3>1, <3>2, <3>3, Zenon
      <3>5. ServeInv'
        BY <1>1, <1>5, <1>10, <2>1, <3>1, <3>4, Zenon DEF ServeInv
      <3> QED
        BY <1>6, <1>8, <3>5, Zenon DEF Service
    <2>4. CASE st["vpc"] = "deleting"
      <3>1. c.verb # "open" /\ ~ToServe'
        BY <2>1, <2>4, Zenon DEF ToServe, Verb
      <3>2. NotToServe' => reply' = "ok"
        BY <2>1, <2>4 DEF NotToServe, Asking
      <3>3. NotToServe' /\ Vpc \notin amiss' => Vpc \notin saved' /\ opened'[Vpc] = 0
        BY <1>4, <1>12, <3>1, <3>2, Zenon
      <3>4. reply' # "waiting"
        BY <2>1, Zenon
      <3>5. Len(calls') = IF reply' = "waiting" THEN 1 ELSE 0
        BY <2>1, <3>4
      <3>6. ServeInv'
        BY <1>5, <1>10, <3>1, <3>3, <3>5, Zenon DEF ServeInv
      <3> QED
        BY <1>6, <1>8, <3>6, Zenon DEF Service
    <2> QED
      BY <2>1, <2>3, <2>4, Zenon DEF Asking
  <1> QED
    BY <1>11, <1>12, Zenon

(* The process exits: the list it saved stays. *)
LEMMA ExitServes ==
    ASSUME HostInv, Exit, plan' = plan, st' = st, pc' = pc
    PROVE  Service'
  <1>1. /\ svc' = "down" /\ opened' = Closed /\ calls' = <<>>
        /\ reply' = IF reply = "waiting" THEN "failed" ELSE reply
        /\ saved' = saved /\ gen' = gen /\ amiss' = amiss
    BY Zenon DEF Exit
  <1>2. Service /\ CreateVPC' = CreateVPC
    BY ServiceHolds, ListsKept, Zenon
  <1>3. Closed \in [VPCs -> 0 .. 2] /\ Closed[Vpc] = 0 /\ Closed' = Closed
    <2>1. 0 \in 0 .. 2 /\ Vpc \in VPCs
      BY DEF VPCs
    <2> QED
      BY <2>1, Zenon DEF Closed
  <1>4. reply' # "waiting" /\ (reply' # "idle" => reply # "idle")
        /\ reply' \in {"idle", "waiting", "ok", "failed"} /\ <<>> \in Seq(CallRecord) /\ Len(<<>>) = 0
    BY <1>1, <1>2 DEF Service, SvcTypeOK
  <1>5. SvcTypeOK'
    <2>1. svc' \in {"down", "up", "stopping"}
      BY <1>1, Zenon
    <2> QED
      BY <1>1, <1>2, <1>3, <1>4, <2>1, Zenon DEF Service, SvcTypeOK, CallRecord
  <1>6. Asking' <=> Asking
    BY <1>2, Zenon DEF Asking
  <1>7. CallInv'
    <2>1. 1 .. Len(calls') = {}
      BY <1>1, <1>4
    <2> QED
      BY <1>1, <1>2, <1>4, <1>6, <2>1, Zenon DEF Service, CallInv
  <1>8. CASE reply # "waiting"
    <2>1. reply' = reply
      BY <1>1, <1>8, Zenon
    <2>2. (ToServe' => ToServe) /\ (NotToServe' => NotToServe)
      BY <1>2, <2>1, Zenon DEF ToServe, NotToServe
    <2>3. Len(calls') = IF reply' = "waiting" THEN 1 ELSE 0
      BY <1>1, <1>4
    <2>4. svc' # "up"
      BY <1>1, Zenon
    <2>5. ServeInv'
      BY <1>1, <1>2, <1>3, <2>2, <2>3, <2>4, Zenon DEF Service, ServeInv
    <2> QED
      BY <1>5, <1>7, <2>5, Zenon DEF Service
  <1>9. CASE reply = "waiting"
    <2>1. reply' = "failed" /\ Asking
      BY <1>1, <1>2, <1>9, Zenon DEF Service, CallInv
    <2>2. /\ Len(CreateVPC) \in 1 .. 18
          /\ \/ st["vpc"] = "creating" /\ pc["vpc"] = Len(CreateVPC)
             \/ st["vpc"] = "deleting" /\ pc["vpc"] = 1
      BY <2>1, AskingPlace, Grounded, Zenon DEF Builds, Working, Asking
    <2>3. ~ToServe' /\ ~NotToServe'
      BY <1>2, <2>1, <2>2 DEF ToServe, NotToServe
    <2>4. svc' # "up"
      BY <1>1, Zenon
    <2>5. ServeInv'
      BY <1>1, <1>2, <1>3, <2>3, <2>4, Zenon DEF Service, ServeInv
    <2> QED
      BY <1>5, <1>7, <2>5, Zenon DEF Service
  <1> QED
    BY <1>8, <1>9, Zenon

(* Shutdown closes the sockets and saves nothing. *)
LEMMA StopServes ==
    ASSUME HostInv, Stop, plan' = plan, st' = st, pc' = pc
    PROVE  Service'
  <1>1. /\ svc = "up" /\ svc' = "stopping" /\ opened' = Closed
        /\ saved' = saved /\ gen' = gen /\ calls' = calls /\ reply' = reply /\ amiss' = amiss
    BY Zenon DEF Stop
  <1>2. Service /\ CreateVPC' = CreateVPC
    BY ServiceHolds, ListsKept, Zenon
  <1>3. Closed \in [VPCs -> 0 .. 2] /\ Closed[Vpc] = 0
    <2>1. 0 \in 0 .. 2 /\ Vpc \in VPCs
      BY DEF VPCs
    <2> QED
      BY <2>1, Zenon DEF Closed
  <1>4. svc' \in {"down", "up", "stopping"} /\ svc' # "up" /\ svc' # "down"
    BY <1>1, Zenon
  <1>5. SvcTypeOK'
    BY <1>1, <1>2, <1>3, <1>4, Zenon DEF Service, SvcTypeOK
  <1>6. (Asking' <=> Asking) /\ Verb' = Verb /\ (ToServe' <=> ToServe) /\ (NotToServe' <=> NotToServe)
    BY <1>1, <1>2, Zenon DEF Asking, Verb, ToServe, NotToServe
  <1>7. CallInv'
    BY <1>1, <1>2, <1>4, <1>6, Zenon DEF Service, CallInv
  <1>8. ServeInv'
    BY <1>1, <1>2, <1>3, <1>4, <1>6, Zenon DEF Service, ServeInv
  <1> QED
    BY <1>5, <1>7, <1>8, Zenon DEF Service

(* A place at the end of a list or past it is past the places before. *)
LEMMA Reached ==
    ASSUME NEW n \in 1 .. 18, NEW p \in 1 .. 20
    PROVE  /\ p = n \/ p > n => p >= n
           /\ \A j \in 1 .. n : j < n /\ p >= n => j < p
  OBVIOUS

(* A VPC that is to be served has its namespace. *)
LEMMA ServedExists ==
    ASSUME HostInv, ToServe PROVE "netns" \in has
  <1> DEFINE L == Creation("vpc")
  <1>1. "vpc" \in Resources /\ st["vpc"] \in {"running", "creating"} /\ st["vpc"] # "none"
    BY Zenon DEF ToServe, Resources
  <1>2. Builds(L, "vpc") /\ CreateVPC = L /\ Len(L) \in 1 .. 18
    <2>1. CreateVPC = L
      BY Zenon DEF Creation
    <2> QED
      BY <1>1, <2>1, Grounded, Zenon DEF Builds
  <1>3. PICK j \in 1 .. Len(L) - 1 : L[j].on = "netns"
    BY <1>2, Zenon DEF Builds, Leads, Earlier
  <1>4. j \in 1 .. Len(L) /\ j < Len(L)
    BY <1>2, <1>3
  <1>k. L[j].kind # "load" /\ "vpc" \notin late
    <2>1. Makes(L, "vpc")
      BY <1>2, Zenon DEF Builds
    <2>2. "vpc" \notin late
      BY ParentsRun, Zenon
    <2> QED
      BY <1>4, <2>1, <2>2 DEF Makes, Step
  <1>5. CASE st["vpc"] = "running"
    <2>1. "netns" \in Made("vpc") /\ RunningInv("vpc")
      BY <1>1, <1>3, <1>4, <1>k, Zenon DEF HostInv, ResourceInv, Made
    <2> QED
      BY <1>5, <1>k, <2>1, Zenon DEF RunningInv
  <1>6. CASE st["vpc"] = "creating"
    <2>1. pc["vpc"] >= Len(L)
      <3>1. reply = "ok" => pc["vpc"] = Len(L)
        BY <1>2, <1>6, Zenon DEF HostInv, CallInv, Asking
      <3>2. reply = "ok" \/ pc["vpc"] > Len(L)
        BY <1>2, <1>6, Zenon DEF ToServe
      <3>3. pc["vpc"] \in 1 .. 20
        BY <1>1, Zenon DEF HostInv, TypeOK
      <3> QED
        BY <1>2, <3>1, <3>2, <3>3, Reached, Zenon
    <2>2. j < pc["vpc"]
      <3>1. pc["vpc"] \in 1 .. 20
        BY <1>1, Zenon DEF HostInv, TypeOK
      <3> QED
        BY <1>2, <1>4, <2>1, <3>1, Reached, Zenon
    <2>3. CreateInv("vpc")
      BY <1>1, Zenon DEF HostInv, ResourceInv
    <2>4. "netns" \in has \cup {"qemu"}
      BY <1>3, <1>4, <1>6, <1>k, <2>2, <2>3, Zenon DEF CreateInv
    <2> QED
      BY <2>4, Zenon
  <1> QED
    BY <1>1, <1>5, <1>6, Zenon

(* A process that starts serves what it finds in the list. *)
LEMMA RestoreServes ==
    ASSUME HostInv, NEW fails, NEW saves \in BOOLEAN, Restore(fails, saves),
           plan' = plan, st' = st, pc' = pc
    PROVE  Service'
  <1> DEFINE found == {v \in saved : Exists(v)}
             restored == {v \in found \ fails : Addressed(v)}
  <1>1. /\ svc = "down" /\ svc' = "up" /\ gen' = gen /\ calls' = calls /\ reply' = reply
        /\ opened' = [v \in VPCs |-> IF v \in restored THEN Namespace(v) ELSE 0]
        /\ saved' = IF saves THEN restored ELSE saved
        /\ amiss' = amiss \cup (found \ restored)
    BY Zenon DEF Restore
  <1>2. Service /\ CreateVPC' = CreateVPC
    BY ServiceHolds, ListsKept, Zenon
  <1>3. /\ saved \subseteq VPCs /\ amiss \subseteq VPCs /\ gen \in 1 .. 2
    BY <1>2, Zenon DEF Service, SvcTypeOK
  <1>4. restored \subseteq found /\ found \subseteq saved /\ (\A v \in saved : Exists(v) => v \in found)
    BY Zenon
  <1>5. /\ Vpc \in VPCs /\ Others \subseteq VPCs /\ Namespace(Vpc) = gen
        /\ \A v \in Others : Namespace(v) = 1 /\ Exists(v)
    BY VpcAssumption, Zenon DEF VPCs, Namespace, Exists
  <1>6. \A v \in VPCs : Namespace(v) \in 0 .. 2
    BY <1>3 DEF Namespace
  <1> HIDE DEF found, restored
  <1>7. SvcTypeOK'
    <2>1. opened' \in [VPCs -> 0 .. 2]
      <3>1. 0 \in 0 .. 2
        OBVIOUS
      <3> QED
        BY <1>1, <1>6, <3>1, Zenon
    <2>2. saved' \subseteq VPCs /\ amiss' \subseteq VPCs
      BY <1>1, <1>3, <1>4, Zenon
    <2>3. svc' \in {"down", "up", "stopping"}
      BY <1>1, Zenon
    <2> QED
      BY <1>1, <1>2, <2>1, <2>2, <2>3, Zenon DEF Service, SvcTypeOK
  <1>8. (Asking' <=> Asking) /\ Verb' = Verb /\ (ToServe' <=> ToServe) /\ (NotToServe' <=> NotToServe)
    BY <1>1, <1>2, Zenon DEF Asking, Verb, ToServe, NotToServe
  <1>9. CallInv'
    <2>1. svc' # "down"
      BY <1>1, Zenon
    <2> QED
      BY <1>1, <1>2, <1>8, <2>1, Zenon DEF Service, CallInv
  <1>10. ASSUME NEW v \in VPCs, v \notin amiss', v \in saved, Exists(v)
         PROVE  v \notin amiss /\ v \in saved' /\ opened'[v] = Namespace(v)
    <2>1. v \in restored
      BY <1>1, <1>4, <1>10, Zenon
    <2> QED
      BY <1>1, <1>10, <2>1, Zenon
  <1>11. ServeInv'
    <2>1. ToServe /\ Vpc \notin amiss' => Vpc \in saved' /\ opened'[Vpc] = gen
      <3>1. SUFFICES ASSUME ToServe, Vpc \notin amiss' PROVE Vpc \in saved' /\ opened'[Vpc] = gen
        BY Zenon
      <3>2. Exists(Vpc)
        BY <3>1, ServedExists, Zenon DEF Exists
      <3>3. Vpc \in saved
        BY <1>1, <1>2, <3>1, Zenon DEF Service, ServeInv
      <3> QED
        BY <1>5, <1>10, <3>1, <3>2, <3>3, Zenon
    <2>2. NotToServe /\ Vpc \notin amiss' => Vpc \notin saved' /\ opened'[Vpc] = 0
      <3>1. SUFFICES ASSUME NotToServe, Vpc \notin amiss' PROVE Vpc \notin saved' /\ opened'[Vpc] = 0
        BY Zenon
      <3>2. Vpc \notin saved
        BY <1>1, <1>2, <3>1, Zenon DEF Service, ServeInv
      <3> QED
        BY <1>1, <1>4, <1>5, <3>2, Zenon
    <2>3. \A v \in Others \ amiss' : v \in saved' /\ opened'[v] = 1
      <3>1. SUFFICES ASSUME NEW v \in Others, v \notin amiss' PROVE v \in saved' /\ opened'[v] = 1
        BY Zenon
      <3>2. v \in saved
        BY <1>1, <1>2, <3>1, Zenon DEF Service, ServeInv
      <3> QED
        BY <1>5, <1>10, <3>1, <3>2, Zenon
    <2>4. svc' # "down"
      BY <1>1, Zenon
    <2> QED
      BY <1>1, <1>2, <1>8, <2>1, <2>2, <2>3, <2>4, Zenon DEF Service, ServeInv
  <1> QED
    BY <1>7, <1>9, <1>11, Zenon DEF Service

-----------------------------------------------------------------------------
(* The host service and the workers *)

(* Only the worker of the VPC touches the namespace. *)
LEMMA NamespaceOfVPC ==
    ASSUME HostInv, NEW r \in Resources, Working(r), NEW s \in Current(r), s.on = "netns",
           OnHost(s)
    PROVE  r = "vpc"
  <1>1. /\ st[r] \in {"creating", "deleting"} /\ pc[r] \in 1 .. Len(Steps(r))
        /\ s = Steps(r)[pc[r]]
        /\ st[r] = "creating" => Steps(r) = Creation(r)
        /\ st[r] = "deleting" => Steps(r) = Deletion(r)
    BY Placed, Zenon DEF Working
  <1>2. Makes(Creation(r), r) /\ Unmakes(Deletion(r), r)
    BY <1>1, Grounded, Zenon DEF Builds, Unbuilds
  <1>3. "netns" \in Own(r)
    BY <1>1, <1>2 DEF Makes, Unmakes, Step, OnHost
  <1> QED
    BY <1>3, OwnFacts DEF Own, Resources

(* What a worker does to its record and its place. *)
LEMMA Moved ==
    ASSUME HostInv, NEW r \in Resources,
           \/ st' = st /\ pc' = [pc EXCEPT ![r] = @ + 1]
           \/ st' = [st EXCEPT ![r] = "error"] /\ pc' = pc
    PROVE  /\ \A q \in Resources \ {r} : st'[q] = st[q] /\ pc'[q] = pc[q]
           /\ st'[r] = "error" \/ (st'[r] = st[r] /\ pc'[r] = pc[r] + 1)
  <1>1. DOMAIN st = Resources /\ DOMAIN pc = Resources
    BY Zenon DEF HostInv, TypeOK
  <1> QED
    BY <1>1, Zenon

(* A worker keeps the invariant of the host service. *)
LEMMA WorkServes ==
    ASSUME HostInv, NEW r \in Resources, Working(r), NEW s \in Current(r), Work(r, s)
    PROVE  Service'
  <1>1. gen \in 1 .. 2 /\ 3 - gen \in 1 .. 2
    <2>1. gen \in 1 .. 2
      BY Zenon DEF HostInv, TypeOK, SvcTypeOK
    <2> QED
      BY <2>1
  <1>2. CASE Run(r, s) \/ Fault(r, s)
    <2>1. /\ plan' = plan /\ UNCHANGED <<svc, opened, saved, calls, reply, amiss>> /\ OnHost(s)
          /\ gen' = gen \/ (gen' = 3 - gen /\ s.on = "netns")
          /\ \/ st' = st /\ pc' = [pc EXCEPT ![r] = @ + 1]
             \/ st' = [st EXCEPT ![r] = "error"] /\ pc' = pc
      BY <1>2, Zenon DEF Run, Fault, Advance
    <2>2. s.kind \notin {"open", "close"} /\ gen' \in 1 .. 2 /\ (r # "vpc" => gen' = gen)
      <3>1. s.kind \notin {"open", "close"}
        BY <2>1, Zenon DEF OnHost
      <3> QED
        BY <1>1, <2>1, <3>1, NamespaceOfVPC, Zenon
    <2> QED
      BY <2>1, <2>2, Moved, ServeWork, Zenon
  <1>3. CASE \/ Refuse(r, s) \/ Unread(r, s) \/ Collect(r, s) \/ Load(r, s)
             \/ Halted(r, s) \/ Mute(r, s) \/ Deadline(r, s)
    <2>1. /\ plan' = plan /\ UNCHANGED svcVars
          /\ \/ st' = st /\ pc' = [pc EXCEPT ![r] = @ + 1]
             \/ st' = [st EXCEPT ![r] = "error"] /\ pc' = pc
          /\ Refused(s) \/ s.kind \in {"restart", "drop", "collect", "load", "halt"}
      BY <1>3, Zenon DEF Refuse, Unread, Collect, Load, Halted, Mute, Deadline, Advance, Fail
    <2>2. s.kind \notin {"open", "close"}
      BY <2>1, Zenon DEF Refused
    <2>3. UNCHANGED <<svc, opened, saved, calls, reply, amiss>> /\ gen' = gen
      BY <2>1, Zenon DEF svcVars
    <2> QED
      BY <1>1, <2>1, <2>2, <2>3, Moved, ServeWork, Zenon
  <1>4. CASE Ask(s)
    BY <1>4, AskServes, Zenon
  <1> QED
    BY <1>2, <1>3, <1>4, Zenon DEF Work

(* A command is accepted, or a worker ends. *)
LEMMA RecordServes ==
    ASSUME HostInv, NEW r \in Resources,
           Create(r) \/ Attach(r) \/ Delete(r) \/ Detach(r) \/ End(r)
    PROVE  Service'
  <1>1. DOMAIN st = Resources /\ DOMAIN pc = Resources
    BY Zenon DEF HostInv, TypeOK
  <1>2. /\ plan' = plan /\ UNCHANGED svcVars
        /\ pc' = [pc EXCEPT ![r] = 1]
        /\ \/ r \in plan.uses /\ st[r] = "none" /\ st' = [st EXCEPT ![r] = "creating"]
           \/ st[r] \in {"running", "error"} /\ st' = [st EXCEPT ![r] = "deleting"]
           \/ /\ Working(r) /\ Current(r) = {}
              /\ st' = [st EXCEPT ![r] = IF @ = "creating" THEN "running" ELSE "none"]
    BY Zenon DEF Create, Attach, Delete, Detach, End, Begin, HostInv, SeenInv
  <1>3. \A q \in Resources \ {r} : st'[q] = st[q] /\ pc'[q] = pc[q]
    BY <1>1, <1>2, Zenon
  <1>4. pc'[r] = 1
    BY <1>1, <1>2, Zenon
  <1>5. CASE r \in plan.uses /\ st[r] = "none" /\ st' = [st EXCEPT ![r] = "creating"]
    <2>1. st'[r] = "creating"
      BY <1>1, <1>5, Zenon
    <2> QED
      BY <1>2, <1>3, <1>4, <1>5, <2>1, ServeRecord, Zenon
  <1>6. CASE st[r] \in {"running", "error"} /\ st' = [st EXCEPT ![r] = "deleting"]
    <2>1. st'[r] = "deleting"
      BY <1>1, <1>6, Zenon
    <2> QED
      BY <1>2, <1>3, <1>4, <1>6, <2>1, ServeRecord, Zenon
  <1>7. CASE /\ Working(r) /\ Current(r) = {}
             /\ st' = [st EXCEPT ![r] = IF @ = "creating" THEN "running" ELSE "none"]
    <2>1. st'[r] = IF st[r] = "creating" THEN "running" ELSE "none"
      BY <1>1, <1>7, Zenon
    <2> QED
      BY <1>2, <1>3, <1>7, <2>1, ServeRecord, Zenon
  <1> QED
    BY <1>2, <1>5, <1>6, <1>7, Zenon

=============================================================================

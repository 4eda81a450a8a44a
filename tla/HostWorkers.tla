---------------------------- MODULE HostWorkers -----------------------------
(***************************************************************************)
(* Each step of a worker keeps the invariant of HostInvariant but for the  *)
(* host service: it leaves the other resources as they are, and makes or   *)
(* removes its own objects in the order of its list.                       *)
(***************************************************************************)
EXTENDS HostFacts

-----------------------------------------------------------------------------
(* A worker leaves the other resources as they are *)

(* A step of the worker of a resource: what it may do to records, places   *)
(* and hurts.                                                              *)
Local(r) ==
    /\ plan' = plan /\ seen' = seen /\ ObjectInv' /\ Gains(r) /\ Loses(r) /\ Swaps
    /\ \A q \in Resources \ {r} :
          /\ st'[q] = st[q] /\ pc'[q] = pc[q]
          /\ (q \in bad' <=> q \in bad) /\ (q \in hurt => q \in hurt')
          /\ (q \in late' <=> q \in late)
    /\ "unread" \in hurt \ hurt' =>
          (r = "vm" /\ st[r] = "deleting") \/ "dhcp_unit" \notin has'
    /\ "dhcp" \in hurt \ hurt' => r = "subnet"
    /\ "dhcp_unit" \in has \ has' /\ r = "vm" => "dhcp" \in hurt'
    /\ "mute" \in hurt => "mute" \in hurt'
    /\ "exit" \in hurt \ hurt' => r = "vm"

(* A worker leaves the objects of the others where they are, but for the   *)
(* default route of a VPC, the DHCP unit, and those of a gateway or a      *)
(* floating IP that raced it.                                              *)
LEMMA OwnKept ==
    ASSUME HostInv, NEW r \in Resources, Working(r), Gains(r), Loses(r),
           NEW q \in Resources \ {r}, NEW o \in Own(q)
    PROVE  /\ o \in has /\ st[q] # "none" /\ q \notin late =>
                \/ o \in has' \/ o = "default_vrf"
                \/ o \in {"deaf", "dhcp_unit"} /\ r = "vm" /\ st[q] = "running"
           /\ o \in has' => o \in has \/ o = "default_vrf"
  <1>1. o \notin Own(r) /\ o # "qemu"
    BY OwnFacts, Zenon
  <1>2. \A d \in Below(r) : st[q] # "none" /\ q \notin late => o \notin Own(d)
    BY Alone, OwnFacts, Zenon
  <1>3. o \in {"deaf", "dhcp_unit"} /\ r = "vm" => st[q] = "running"
    <2>1. o \in {"deaf", "dhcp_unit"} => q = "subnet"
      BY Zenon DEF Own, Resources
    <2> QED
      BY <2>1, ParentsRun, Zenon DEF Working
  <1> QED
    BY <1>1, <1>2, <1>3, Zenon DEF Gains, Loses

(* The commands that looked find what they saw. *)
LEMMA SeenKept ==
    ASSUME HostInv, NEW r \in Resources, Working(r), Local(r),
           late' = late \/ (late' = late \ {r} /\ st'[r] = "none")
    PROVE  SeenInv'
  <1>1. SeenInv /\ Working(r)
    BY Zenon DEF HostInv
  <1>2. \A c \in Attachments : c \in Resources /\ \A p \in Parent[c] : p \in Resources
    BY DEF Attachments, Resources, Parent
  <1>3. seen' = seen /\ plan' = plan /\ \A q \in Resources \ {r} : st'[q] = st[q]
    BY Zenon DEF Local
  <1>4. ASSUME NEW c \in Attachments, c \in seen PROVE st'[c] = "none" /\ c \in plan.uses
    <2>1. st[c] = "none" /\ c \in plan.uses /\ c \in Resources
      BY <1>1, <1>2, <1>4, Zenon DEF SeenInv
    <2>2. c # r
      BY <1>1, <2>1, Zenon DEF Working
    <2> QED
      BY <1>3, <2>1, <2>2, Zenon
  <1>5. ASSUME NEW c \in Attachments, c \notin late', NEW p \in Parent[c]
        PROVE  (c \in seen => st'[p] = "running") /\ (p \in seen => st'[c] = "none")
    <2>1. c \in Resources /\ p \in Resources
      BY <1>2, <1>5, Zenon
    <2>2. CASE c \notin late
      <3>1. (c \in seen => st[p] = "running") /\ (p \in seen => st[c] = "none")
        BY <1>1, <1>5, <2>2 DEF SeenInv
      <3>2. (st[p] = "running" => p # r) /\ (st[c] = "none" => c # r)
        BY <1>1, Zenon DEF Working
      <3> QED
        BY <1>3, <2>1, <3>1, <3>2, Zenon
    <2>3. CASE c \in late
      <3>1. c = r /\ st'[r] = "none"
        BY <1>5, <2>3, Zenon
      <3>2. st[r] = "none" \/ c \notin seen
        BY <1>1, <1>5, <3>1, Zenon DEF SeenInv
      <3> QED
        BY <1>1, <3>1, <3>2, Zenon DEF Working
    <2> QED
      BY <2>2, <2>3, Zenon
  <1> QED
    BY <1>3, <1>4, <1>5, Zenon DEF SeenInv

(* A worker keeps the invariant of the other resources. *)
LEMMA OthersKept ==
    ASSUME HostInv, NEW r \in Resources, Working(r), Local(r), NEW q \in Resources \ {r}
    PROVE  ResourceInv(q)'
  <1>1. /\ \A o \in Own(q) :
              /\ o \in has /\ st[q] # "none" /\ q \notin late =>
                   \/ o \in has' \/ o = "default_vrf"
                   \/ o \in {"deaf", "dhcp_unit"} /\ r = "vm" /\ st[q] = "running"
              /\ o \in has' => o \in has \/ o = "default_vrf"
    BY OwnKept, Zenon DEF Local
  <1>2. /\ st'[q] = st[q] /\ pc'[q] = pc[q] /\ (q \in bad' <=> q \in bad)
        /\ (q \in hurt => q \in hurt') /\ (q \in late' <=> q \in late)
        /\ Creation(q)' = Creation(q) /\ Deletion(q)' = Deletion(q) /\ Made(q)' = Made(q)
    BY ListsKept, Zenon DEF Local
  <1>3. ResourceInv(q)
    BY Zenon DEF HostInv
  <1>4. /\ "lease" \in Own("vm") /\ {"dhcp_unit", "deaf"} \subseteq Own("subnet")
        /\ Own(q) \cap {"lease", "dhcp_unit", "deaf"} # {} => q \in {"vm", "subnet"}
        /\ "dhcp_unit" \in Own(q) => q = "subnet"
        /\ "default_vrf" \in Own(q) => q = "vpc"
        /\ "default_ng" \in Own("nat")
    BY Zenon DEF Own, Resources
  <1>5. "dhcp_unit" \notin has' => "lease" \notin has' /\ "deaf" \notin has'
    <2>1. "dhcp_unit" \in Support("lease")' /\ "dhcp_unit" \in Support("deaf")'
      BY Zenon DEF Support, Base
    <2> QED
      BY <2>1, Zenon DEF Local, ObjectInv, Upheld
  <1>6. r = "vm" => st["subnet"] = "running"
    BY ParentsRun, Zenon DEF Working
  <1>7. TreeInv(q)'
    <2>1. TreeInv(q)
      BY <1>3, Zenon DEF ResourceInv
    <2>2. \A p \in Parent[q] : p \in Resources
      BY DEF Parent, Resources
    <2>3. st[r] # "running"
      BY Zenon DEF Working
    <2> QED
      BY <1>2, <2>1, <2>2, <2>3, Zenon DEF TreeInv, Local
  <1>8. PlaceInv(q)'
    <2>1. PlaceInv(q)
      BY <1>3, Zenon DEF ResourceInv
    <2>2. Steps(q)' = Steps(q) /\ (Working(q)' <=> Working(q))
      BY <1>2, Zenon DEF Steps, Working
    <2> QED
      BY <1>2, <2>1, <2>2, Zenon DEF PlaceInv
  <1>9. ASSUME st[q] # "none"
        PROVE  /\ \A i \in 1 .. Len(Creation(q)) :
                     /\ Creation(q)[i].kind # "load" => Creation(q)[i].on \in Own(q) \cup {"qemu"}
                     /\ Creation(q)[i].on \notin {"lease", "deaf", "sockets"}
                     /\ Creation(q)[i].kind = "make" => Creation(q)[i].on # "default_vrf"
               /\ \A i \in 1 .. Len(Deletion(q)) :
                     /\ Removes(Deletion(q)[i]) =>
                           Deletion(q)[i].on \in Own(q) \ {"lease", "deaf", "default_vrf", "default_ng"}
                     /\ Deletion(q)[i].kind = "restart" => q = "vm"
                     /\ Deletion(q)[i].kind = "set" => q = "nat"
                     /\ MustFind(Deletion(q)[i]) => q \notin late
    <2>2. Builds(Creation(q), q) /\ Unbuilds(Deletion(q), q, Creation(q))
      BY <1>9, Grounded, Zenon
    <2>3. Makes(Creation(q), q) /\ Unmakes(Deletion(q), q) /\ Looks(Deletion(q), q)
      BY <2>2, Zenon DEF Builds, Unbuilds
    <2>4. \A i \in 1 .. Len(Creation(q)) :
             /\ Creation(q)[i].kind # "load" => Creation(q)[i].on \in Own(q) \cup {"qemu"}
             /\ Creation(q)[i].on \notin {"lease", "deaf", "sockets"}
             /\ Creation(q)[i].kind = "make" => Creation(q)[i].on # "default_vrf"
      BY <2>3 DEF Makes, Step
    <2>5. \A i \in 1 .. Len(Deletion(q)) :
             /\ Removes(Deletion(q)[i]) =>
                   Deletion(q)[i].on \in Own(q) \ {"lease", "deaf", "default_vrf", "default_ng"}
             /\ Deletion(q)[i].kind = "restart" => q = "vm"
             /\ Deletion(q)[i].kind = "set" => q = "nat"
      BY <2>3 DEF Unmakes, Removes, Step
    <2>6. \A i \in 1 .. Len(Deletion(q)) : MustFind(Deletion(q)[i]) => q \notin late
      BY <2>3, Zenon DEF Looks, HostInv, TypeOK, Attachments
    <2> QED
      BY <2>4, <2>5, <2>6, Zenon
  <1>10. CreateInv(q)'
    <2>1. CreateInv(q)
      BY <1>3, Zenon DEF ResourceInv
    <2>2. SUFFICES ASSUME st[q] = "creating", NEW i \in 1 .. Len(Creation(q)), NEW s, s = Creation(q)[i]
                   PROVE  /\ i < pc[q] /\ q \notin late /\ s.kind # "load" =>
                                \/ s.on \in has' \cup {"qemu"}
                                \/ s.on = "default_vrf" /\ "default_ng" \in has'
                          /\ i >= pc[q] /\ s.kind = "make" => s.on \notin has' \ {"qemu"}
      BY <1>2, Zenon DEF CreateInv
    <2>3. /\ i < pc[q] /\ q \notin late /\ s.kind # "load" =>
                \/ s.on \in has \cup {"qemu"}
                \/ s.on = "default_vrf" /\ "default_ng" \in has
          /\ i >= pc[q] /\ s.kind = "make" => s.on \notin has \ {"qemu"}
      BY <2>1, <2>2, Zenon DEF CreateInv
    <2>4. /\ s.kind # "load" => s.on \in Own(q) \cup {"qemu"}
          /\ s.on \notin {"lease", "deaf", "sockets"}
          /\ s.kind = "make" => s.on # "default_vrf" /\ s.kind # "load"
      BY <1>9, <2>2, Zenon
    <2>5. i >= pc[q] /\ s.kind = "make" => s.on \notin has' \ {"qemu"}
      BY <1>1, <2>3, <2>4, Zenon
    <2>6. ASSUME i < pc[q], q \notin late, s.kind # "load"
          PROVE  s.on \in has' \cup {"qemu"} \/ (s.on = "default_vrf" /\ "default_ng" \in has')
      <3>1. CASE s.on # "default_vrf"
        <4>1. s.on \in has \cup {"qemu"}
          BY <2>3, <2>6, <3>1, Zenon
        <4>2. st[q] # "none" /\ st[q] # "running"
          BY <2>2, Zenon
        <4> QED
          BY <1>1, <2>4, <2>6, <3>1, <4>1, <4>2, Zenon
      <3>2. CASE s.on = "default_vrf"
        <4>1. q = "vpc" /\ {"default_vrf", "default_ng"} \cap has # {}
          BY <1>4, <2>3, <2>4, <2>6, <3>2, Zenon
        <4> QED
          BY <2>2, <3>2, <4>1, Zenon DEF Local, Swaps
      <3> QED
        BY <3>1, <3>2, Zenon
    <2> QED
      BY <2>5, <2>6, Zenon
  <1>11. RunningInv(q)'
    <2>1. RunningInv(q)
      BY <1>3, Zenon DEF ResourceInv
    <2>2. st[q] = "running" => Made(q) \subseteq (Own(q) \cup {"qemu"}) \ {"deaf"}
      BY <1>9, Zenon DEF Made
    <2> QED
      BY <1>1, <1>2, <1>4, <2>1, <2>2 DEF RunningInv, Local
  <1>12. DeleteInv(q)'
    <2>1. DeleteInv(q)
      BY <1>3, Zenon DEF ResourceInv
    <2>2. "unread" \in hurt \ hurt' =>
              (st["subnet"] = "running" /\ q # "vm") \/ "dhcp_unit" \notin has'
      BY <1>6, Zenon DEF Local
    <2>3. \A s : MustFind(s) => Removes(s)
      BY Zenon DEF MustFind, Removes
    <2>4. SUFFICES ASSUME st[q] = "deleting", NEW i \in 1 .. Len(Deletion(q)), NEW s, s = Deletion(q)[i]
                   PROVE  /\ i < pc[q] /\ Removes(s) =>
                                \/ s.on \notin has'
                                \/ s.on = "dhcp_unit" /\ "unread" \in hurt'
                                \/ Tried(s) /\ q \in bad'
                          /\ i < pc[q] /\ s.kind = "restart" => "lease" \notin has' \/ "unread" \in hurt'
                          /\ i < pc[q] /\ s.kind = "set" => "default_ng" \notin has'
                          /\ i >= pc[q] /\ MustFind(s) => s.on \in has' \/ q \in hurt'
      BY <1>2, Zenon DEF DeleteInv, Removes, MustFind, Tried
    <2>5. /\ i < pc[q] /\ Removes(s) => \/ s.on \notin has
                                        \/ s.on = "dhcp_unit" /\ "unread" \in hurt
                                        \/ Tried(s) /\ q \in bad
          /\ i < pc[q] /\ s.kind = "restart" => "lease" \notin has \/ "unread" \in hurt
          /\ i < pc[q] /\ s.kind = "set" => "default_ng" \notin has
          /\ i >= pc[q] /\ MustFind(s) => s.on \in has \/ q \in hurt
      BY <2>1, <2>4, Zenon DEF DeleteInv
    <2>6. /\ Removes(s) => s.on \in Own(q) \ {"lease", "deaf", "default_vrf", "default_ng"}
          /\ s.kind = "restart" => q = "vm"
          /\ s.kind = "set" => q = "nat"
          /\ MustFind(s) => q \notin late
      BY <1>9, <2>4, Zenon
    <2>7. i < pc[q] /\ Removes(s) => \/ s.on \notin has'
                                     \/ s.on = "dhcp_unit" /\ "unread" \in hurt'
                                     \/ Tried(s) /\ q \in bad'
      BY <1>1, <1>2, <1>4, <2>2, <2>4, <2>5, <2>6, Zenon
    <2>8. i < pc[q] /\ s.kind = "restart" => "lease" \notin has' \/ "unread" \in hurt'
      BY <1>1, <1>4, <1>5, <2>2, <2>4, <2>5, <2>6, Zenon
    <2>9. i >= pc[q] /\ MustFind(s) => s.on \in has' \/ q \in hurt'
      BY <1>1, <1>2, <2>3, <2>4, <2>5, <2>6, Zenon
    <2>10. i < pc[q] /\ s.kind = "set" => "default_ng" \notin has'
      BY <1>1, <1>4, <2>5, <2>6, Zenon
    <2> QED
      BY <2>7, <2>8, <2>9, <2>10, Zenon
  <1>13. GoneInv(q)'
    <2>1. GoneInv(q)
      BY <1>3, Zenon DEF ResourceInv
    <2>2. "unread" \in hurt \ hurt' => (q \notin {"vm", "subnet"} \/ st[q] # "none") \/ "dhcp_unit" \notin has'
      BY <1>6, Zenon DEF Local
    <2>3. ASSUME st[q] = "none", "default_vrf" \in Own(q), "default_vrf" \in has' PROVE FALSE
      <3>1. "l3" \in Support("default_vrf")' /\ "l3" \in Own("vpc") /\ q = "vpc"
        <4>1. "l3" \in Base["default_vrf"]
          BY Zenon DEF Base
        <4>2. "l3" \in Own("vpc")
          BY Zenon DEF Own
        <4> QED
          BY <1>4, <2>3, <4>1, <4>2, Zenon DEF Support
      <3>2. "l3" \in has'
        BY <2>3, <3>1, Zenon DEF Local, ObjectInv, Upheld
      <3>3. "l3" \in has
        BY <1>1, <3>1, <3>2, Zenon
      <3>4. "l3" \in Spared
        BY <2>1, <2>3, <3>1, <3>3, Zenon DEF GoneInv
      <3> QED
        BY <3>4, Zenon DEF Spared
    <2> QED
      BY <1>1, <1>2, <1>4, <1>5, <2>1, <2>2, <2>3, Zenon DEF GoneInv, Spared
  <1> QED
    BY <1>7, <1>8, <1>10, <1>11, <1>12, <1>13, Zenon DEF ResourceInv

-----------------------------------------------------------------------------
(* A worker goes on, or ends in error *)

(* A worker that stops on an error keeps the invariant. *)
LEMMA Erring ==
    ASSUME HostInv, NEW r \in Resources, Working(r), Local(r), late' = late,
           st'[r] = "error", r \in hurt', r \notin bad'
    PROVE  \A q \in Resources : ResourceInv(q)'
  <1>1. TreeInv(r)'
    <2>1. TreeInv(r) /\ st[r] # "none"
      BY Zenon DEF HostInv, ResourceInv, Working
    <2>2. \A p \in Parent[r] : p \in Resources \ {r}
      BY DEF Parent, Resources
    <2> QED
      BY <2>1, <2>2, Zenon DEF TreeInv, Local
  <1>2. PlaceInv(r)' /\ CreateInv(r)' /\ RunningInv(r)' /\ DeleteInv(r)' /\ GoneInv(r)'
    BY Zenon DEF PlaceInv, CreateInv, RunningInv, DeleteInv, GoneInv, Working
  <1> QED
    BY <1>1, <1>2, OthersKept, Zenon DEF ResourceInv

(* A creation that goes on to its next step has done what it passed. *)
LEMMA CreateAdvance ==
    ASSUME HostInv, NEW r \in Resources, Local(r), late' = late, st[r] = "creating",
           pc[r] <= Len(Creation(r)), NEW s, s = Creation(r)[pc[r]],
           st'[r] = st[r], pc'[r] = pc[r] + 1, r \notin bad',
           s.kind = "load" \/ s.on \in has', has' \ has \subseteq {s.on, "lease", "sockets"},
           has \ has' \subseteq {"default_vrf", "default_ng"} \ Own(r)
    PROVE  \A q \in Resources : ResourceInv(q)'
  <1> DEFINE L == Creation(r)
  <1>1. Working(r) /\ Working(r)' /\ Steps(r)' = Creation(r) /\ Creation(r)' = Creation(r)
    BY ListsKept, Zenon DEF Working, Steps, Local
  <1>2. Builds(L, r) /\ pc[r] \in 1 .. Len(L) /\ Len(L) \in 1 .. 18
    BY <1>1, Grounded, Placed DEF Working
  <1>3. TreeInv(r)'
    <2>1. TreeInv(r) /\ st[r] # "none"
      BY Zenon DEF HostInv, ResourceInv
    <2>2. \A p \in Parent[r] : p \in Resources \ {r}
      BY DEF Parent, Resources
    <2> QED
      BY <2>1, <2>2, Zenon DEF TreeInv, Local
  <1>4. PlaceInv(r)'
    BY <1>1, <1>2 DEF PlaceInv
  <1>5. CreateInv(r)'
    <2>1. CreateInv(r)
      BY Zenon DEF HostInv, ResourceInv
    <2>2. /\ \A i \in 1 .. Len(L) : /\ L[i].kind # "load" => L[i].on \in Own(r) \cup {"qemu"}
                                    /\ L[i].on \notin {"lease", "sockets"}
          /\ \A i \in 1 .. Len(L) : L[i].kind = "make" => \A j \in 1 .. i - 1 : L[j].on # L[i].on
      <3>1. Makes(L, r) /\ Once(L)
        BY <1>2, Zenon DEF Builds
      <3>2. \A i \in 1 .. Len(L) : L[i].kind = "make" => \A j \in 1 .. i - 1 : L[j].on # L[i].on
        BY <3>1, Zenon DEF Once, Earlier
      <3> QED
        BY <3>1, <3>2 DEF Makes, Step
    <2>3. SUFFICES ASSUME NEW i \in 1 .. Len(L)
                   PROVE  /\ i < pc[r] + 1 /\ r \notin late /\ L[i].kind # "load" =>
                                \/ L[i].on \in has' \cup {"qemu"}
                                \/ L[i].on = "default_vrf" /\ "default_ng" \in has'
                          /\ i >= pc[r] + 1 /\ L[i].kind = "make" => L[i].on \notin has' \ {"qemu"}
      BY <1>1, Zenon DEF CreateInv
    <2>4. ASSUME i < pc[r], r \notin late, L[i].kind # "load"
          PROVE  L[i].on \in has' \cup {"qemu"} \/ (L[i].on = "default_vrf" /\ "default_ng" \in has')
      <3>1. CASE L[i].on \in has \cup {"qemu"}
        BY <2>2, <2>3, <2>4, <3>1, Zenon
      <3>2. CASE L[i].on = "default_vrf" /\ "default_ng" \in has
        <4>1. "default_vrf" \in Own(r)
          BY <2>2, <2>3, <2>4, <3>2, Zenon
        <4>2. r = "vpc"
          BY <4>1, Zenon DEF Own, Resources
        <4> QED
          BY <3>2, <4>2 DEF Local, Swaps
      <3> QED
        BY <2>1, <2>3, <2>4, <3>1, <3>2, Zenon DEF CreateInv
    <2>5. i >= pc[r] + 1 /\ L[i].kind = "make" => L[i].on \notin has' \ {"qemu"}
      <3>1. i >= pc[r] + 1 => pc[r] \in 1 .. i - 1 /\ i >= pc[r]
        BY <1>2, <2>3
      <3> QED
        BY <2>1, <2>2, <2>3, <3>1, Zenon DEF CreateInv
    <2> QED
      BY <1>2, <2>3, <2>4, <2>5
  <1>6. RunningInv(r)' /\ DeleteInv(r)' /\ GoneInv(r)'
    BY Zenon DEF RunningInv, DeleteInv, GoneInv
  <1> QED
    BY <1>1, <1>3, <1>4, <1>5, <1>6, OthersKept, Zenon DEF ResourceInv

(* A deletion that goes on to its next step has done what it passed. *)
LEMMA DeleteAdvance ==
    ASSUME HostInv, NEW r \in Resources, Local(r), late' = late, st[r] = "deleting",
           pc[r] <= Len(Deletion(r)), NEW s, s = Deletion(r)[pc[r]],
           st'[r] = st[r], pc'[r] = pc[r] + 1, r \in hurt => r \in hurt',
           r \in bad => r \in bad',
           r \in bad' => (r \in bad /\ s.kind # "collect") \/ Tried(s),
           Removes(s) => \/ s.on \notin has'
                         \/ s.on = "dhcp_unit" /\ "unread" \in hurt'
                         \/ Tried(s) /\ r \in bad',
           s.kind = "restart" => "lease" \notin has' \/ "unread" \in hurt',
           s.kind = "set" => "default_ng" \notin has',
           "unread" \in hurt \ hurt' => s.kind = "restart",
           has' \ has \subseteq {"deaf", "default_vrf"}, "default_vrf" \in has' \ has => r = "nat",
           r \in hurt' \/ has \ has' \subseteq (IF Removes(s) THEN Fallen[s.on]
                                               ELSE {"lease", "deaf", "dhcp_unit", "default_ng"})
    PROVE  \A q \in Resources : ResourceInv(q)'
  <1> DEFINE L == Deletion(r)
  <1>1. Working(r) /\ Working(r)' /\ Steps(r)' = Deletion(r) /\ Deletion(r)' = Deletion(r)
    BY ListsKept, Zenon DEF Working, Steps, Local
  <1>2. Unbuilds(L, r, Creation(r)) /\ pc[r] \in 1 .. Len(L) /\ Len(L) \in 1 .. 18
    BY <1>1, Grounded, Placed DEF Working
  <1>3. TreeInv(r)'
    <2>1. TreeInv(r) /\ st[r] # "none"
      BY Zenon DEF HostInv, ResourceInv
    <2>2. \A p \in Parent[r] : p \in Resources \ {r}
      BY DEF Parent, Resources
    <2> QED
      BY <2>1, <2>2, Zenon DEF TreeInv, Local
  <1>4. PlaceInv(r)'
    <2>1. PlaceInv(r)
      BY Zenon DEF HostInv, ResourceInv
    <2>2. r \in bad' => \E i \in pc[r] + 1 .. Len(L) : L[i].kind = "collect"
      <3>1. CASE r \in bad /\ s.kind # "collect"
        BY <1>2, <2>1, <3>1 DEF PlaceInv
      <3>2. CASE Tried(s)
        BY <1>2, <3>2, Zenon DEF Unbuilds, Collects
      <3> QED
        BY <3>1, <3>2, Zenon
    <2> QED
      BY <1>1, <1>2, <2>2 DEF PlaceInv
  <1>5. DeleteInv(r)'
    <2>1. DeleteInv(r)
      BY Zenon DEF HostInv, ResourceInv
    <2>2. \A i \in 1 .. Len(L) :
             /\ Removes(L[i]) => L[i].on \in Own(r) \ {"lease", "deaf"}
             /\ L[i].kind = "restart" => r = "vm"
             /\ MustFind(L[i]) => /\ L[i].on \notin {"qemu", "default_vrf", "default_ng", "dhcp_unit"}
                                  /\ \A j \in 1 .. i - 1 : Removes(L[j]) => L[i].on \notin Fallen[L[j].on]
      <3>1. Unmakes(L, r) /\ Finds(L, Creation(r))
        BY <1>2, Zenon DEF Unbuilds
      <3>2. \A i \in 1 .. Len(L) : L[i].kind = "restart" => r = "vm"
        BY <3>1 DEF Unmakes, Removes, Step
      <3> QED
        BY <3>1, <3>2, Zenon DEF Unmakes, Finds
    <2>3. ("default_vrf" \in Own(r) => r = "vpc") /\ ("dhcp_unit" \in Own(r) => r = "subnet")
      BY Zenon DEF Own, Resources
    <2>4. SUFFICES ASSUME NEW i \in 1 .. Len(L), NEW t, t = L[i]
                   PROVE  /\ i < pc[r] + 1 /\ Removes(t) =>
                                \/ t.on \notin has'
                                \/ t.on = "dhcp_unit" /\ "unread" \in hurt'
                                \/ Tried(t) /\ r \in bad'
                          /\ i < pc[r] + 1 /\ t.kind = "restart" => "lease" \notin has' \/ "unread" \in hurt'
                          /\ i < pc[r] + 1 /\ t.kind = "set" => "default_ng" \notin has'
                          /\ i >= pc[r] + 1 /\ MustFind(t) => t.on \in has' \/ r \in hurt'
      BY <1>1, Zenon DEF DeleteInv, Removes, MustFind, Tried
    <2>5. /\ i < pc[r] /\ Removes(t) => \/ t.on \notin has
                                        \/ t.on = "dhcp_unit" /\ "unread" \in hurt
                                        \/ Tried(t) /\ r \in bad
          /\ i < pc[r] /\ t.kind = "restart" => "lease" \notin has \/ "unread" \in hurt
          /\ i < pc[r] /\ t.kind = "set" => "default_ng" \notin has
          /\ i >= pc[r] /\ MustFind(t) => t.on \in has \/ r \in hurt
      BY <2>1, <2>4, Zenon DEF DeleteInv
    <2>6. s.kind = "restart" => r = "vm"
      BY <1>2, <2>2, Zenon
    <2>7. i < pc[r] /\ Removes(t) => \/ t.on \notin has'
                                     \/ t.on = "dhcp_unit" /\ "unread" \in hurt'
                                     \/ Tried(t) /\ r \in bad'
      BY <2>2, <2>3, <2>4, <2>5, <2>6, Zenon
    <2>8. i < pc[r] /\ t.kind = "restart" => "lease" \notin has' \/ "unread" \in hurt'
      BY <2>4, <2>5
    <2>9. i >= pc[r] + 1 /\ MustFind(t) => t.on \in has' \/ r \in hurt'
      <3>1. SUFFICES ASSUME i >= pc[r] + 1, MustFind(t), r \notin hurt'
                     PROVE  t.on \in has'
        BY Zenon
      <3>2. pc[r] \in 1 .. i - 1 /\ i >= pc[r]
        BY <1>2, <2>4, <3>1
      <3>3. t.on \in has
        BY <2>5, <3>1, <3>2, Zenon
      <3>4. Removes(t)
        BY <3>1, Zenon DEF MustFind, Removes
      <3>5. t.on \notin {"lease", "deaf", "dhcp_unit", "default_ng"}
        BY <2>2, <2>4, <3>1, <3>4, Zenon
      <3>6. Removes(s) => t.on \notin Fallen[s.on]
        BY <2>2, <2>4, <3>1, <3>2, Zenon
      <3> QED
        BY <3>1, <3>3, <3>5, <3>6, Zenon
    <2>10. i < pc[r] /\ t.kind = "set" => "default_ng" \notin has'
      BY <2>5
    <2> QED
      BY <1>2, <2>4, <2>7, <2>8, <2>9, <2>10
  <1>6. RunningInv(r)' /\ CreateInv(r)' /\ GoneInv(r)'
    BY Zenon DEF RunningInv, CreateInv, GoneInv
  <1> QED
    BY <1>1, <1>3, <1>4, <1>5, <1>6, OthersKept, Zenon DEF ResourceInv

-----------------------------------------------------------------------------
(* QEMU *)

(* A worker of another resource does not abandon QEMU. *)
LEMMA QemuOthers ==
    ASSUME HostInv, NEW r \in Resources, Working(r), r # "vm", Local(r), told' = told
    PROVE  QemuInv'
  <1>1. /\ "vm" \in Resources \ {r} /\ {"tap", "sockets"} \subseteq Own("vm")
        /\ \A q \in Resources : "qemu" \notin Own(q)
    <2>1. \A q \in Resources : "qemu" \notin Own(q)
      BY OwnFacts, Zenon
    <2> QED
      BY <2>1, Zenon DEF Resources, Own
  <1>2. /\ st'["vm"] = st["vm"] /\ pc'["vm"] = pc["vm"] /\ ("vm" \in hurt => "vm" \in hurt')
        /\ ("mute" \in hurt => "mute" \in hurt') /\ ("exit" \in hurt => "exit" \in hurt')
        /\ Creation("vm")' = Creation("vm") /\ Deletion("vm")' = Deletion("vm")
    BY <1>1, ListsKept, Zenon DEF Local
  <1>3. Steps("vm")' = Steps("vm")
    BY <1>2, Zenon DEF Steps
  <1>4. \A s : Passed("vm", s)' <=> Passed("vm", s)
    BY <1>2, <1>3, Zenon DEF Passed
  <1>5. "qemu" \in has' => "qemu" \in has
    BY <1>1 DEF Local, Gains
  <1>6. \A o \in {"tap", "sockets"} : o \in has /\ st["vm"] # "none" => o \in has'
    <2>1. \A o \in {"tap", "sockets"} :
             o \in has /\ st["vm"] # "none" /\ "vm" \notin late =>
                \/ o \in has' \/ o = "default_vrf"
                \/ o \in {"deaf", "dhcp_unit"} /\ r = "vm" /\ st["vm"] = "running"
      BY <1>1, OwnKept, Zenon DEF Local
    <2>2. "vm" \notin late
      BY ParentsRun, Zenon
    <2> QED
      BY <2>1, <2>2, Zenon
  <1>7. (Abandoned' => Abandoned) /\ (Alive' => Alive)
    BY <1>2, <1>4, <1>6, Zenon DEF Abandoned, Alive, Step
  <1>8. QemuInv
    BY Zenon DEF HostInv
  <1>9. "qemu" \in has => "qemu" \in has'
    <2>1. \A d \in Below(r) : d \in Resources
      BY Alone, Zenon
    <2> QED
      BY <1>1, <2>1, Zenon DEF Local, Loses
  <1>10. Alive => st["vm"] # "none"
    BY Zenon DEF Alive
  <1> QED
    BY <1>2, <1>5, <1>6, <1>7, <1>8, <1>9, <1>10, Zenon DEF QemuInv

(* The order of StopVM: QEMU is halted before its sockets and its tap go,  *)
(* and before the end.                                                     *)
LEMMA HaltFirst ==
    ASSUME HostInv, st["vm"] = "deleting",
           pc["vm"] > Len(Deletion("vm")) \/ Deletion("vm")[pc["vm"]].on \in {"tap", "sockets"}
    PROVE  Passed("vm", Step("halt", "qemu"))
  <1> DEFINE L == Deletion("vm")
  <1>1. "vm" \in Resources /\ Working("vm")
    BY Zenon DEF Resources, Working
  <1>2. /\ Unbuilds(L, "vm", Creation("vm")) /\ pc["vm"] \in 1 .. Len(L) + 1 /\ Len(L) \in 1 .. 18
        /\ Steps("vm") = L
    BY <1>1, Grounded, Placed, Zenon
  <1>3. Clears(L) /\ Covers(L, "vm") /\ Unmakes(L, "vm")
    BY <1>2, Zenon DEF Unbuilds
  <1>4. "sockets" \in Own("vm") \ ({"lease"} \cup Unplanned)
    BY Zenon DEF Own, Unplanned
  <1>5. PICK i \in 1 .. Len(L) : Removes(L[i]) /\ "sockets" \in Fallen[L[i].on]
    BY <1>3, <1>4, Zenon DEF Covers
  <1>6. L[i].on = "sockets"
    <2>1. L[i].on \in Own("vm")
      BY <1>3, <1>5, Zenon DEF Unmakes
    <2> QED
      BY <1>5, <2>1, MachineAlone, Zenon
  <1>7. PICK k \in 1 .. Len(L) : L[k].on \in {"tap", "sockets"} /\ k <= pc["vm"]
    <2>1. CASE pc["vm"] > Len(L)
      BY <1>2, <1>6, <2>1
    <2>2. CASE pc["vm"] \in 1 .. Len(L)
      BY <1>2, <2>2
    <2> QED
      BY <1>2, <2>1, <2>2
  <1>8. PICK j \in 1 .. k - 1 : L[j] = Step("halt", "qemu")
    BY <1>3, <1>7, Zenon DEF Clears
  <1>9. j \in 1 .. pc["vm"] - 1 /\ j <= Len(L)
    BY <1>2, <1>7, <1>8
  <1> QED
    BY <1>2, <1>8, <1>9, Zenon DEF Passed

(* QEMU was told to quit, or its socket failed. *)
Quit == (told \/ "mute" \in hurt) /\ "vm" \in hurt

(* A step of the VM that leaves the host as it is. *)
LEMMA QemuStill ==
    ASSUME HostInv, Working("vm"), plan' = plan, has' = has,
           told => told', \A h \in {"vm", "mute", "exit"} : h \in hurt => h \in hurt',
           \/ st'["vm"] = "error"
           \/ st'["vm"] = st["vm"] /\ pc'["vm"] = pc["vm"]
           \/ st'["vm"] = "running" /\ st["vm"] = "creating" /\ pc["vm"] > Len(Creation("vm"))
           \/ st'["vm"] = "none" /\ st["vm"] = "deleting" /\ pc["vm"] > Len(Deletion("vm"))
           \/ /\ st'["vm"] = st["vm"] /\ pc'["vm"] = pc["vm"] + 1 /\ pc["vm"] <= Len(Steps("vm"))
              /\ Steps("vm")[pc["vm"]].kind # "make"
              /\ Steps("vm")[pc["vm"]].kind = "halt" => Quit' \/ ~({"qemu", "sockets"} \subseteq has)
    PROVE  QemuInv'
  <1>1. QemuInv /\ "vm" \in Resources
    BY Zenon DEF HostInv, Resources
  <1>2. /\ st["vm"] \in {"creating", "deleting"} /\ pc["vm"] \in 1 .. Len(Steps("vm")) + 1
        /\ Len(Steps("vm")) \in 1 .. 18
    BY <1>1, Placed, Zenon DEF Working
  <1>3. "qemu" \in has => (Abandoned' => Abandoned) \/ Quit'
    <2>1. CASE st'["vm"] = "error"
      BY <2>1, <1>2, Zenon DEF Abandoned
    <2>2. CASE st'["vm"] = "running" /\ st["vm"] = "creating"
      BY <2>2, Zenon DEF Abandoned
    <2>3. CASE st'["vm"] = "none" /\ st["vm"] = "deleting" /\ pc["vm"] > Len(Deletion("vm"))
      BY <2>3, HaltFirst, Zenon DEF Abandoned
    <2>4. ASSUME st'["vm"] = st["vm"], pc'["vm"] \in {pc["vm"], pc["vm"] + 1},
                 pc'["vm"] = pc["vm"] + 1 =>
                   /\ pc["vm"] <= Len(Steps("vm"))
                   /\ Steps("vm")[pc["vm"]].kind = "halt" =>
                         Quit' \/ ~({"qemu", "sockets"} \subseteq has)
          PROVE  "qemu" \in has => (Abandoned' => Abandoned) \/ Quit'
      <3>1. Steps("vm")' = Steps("vm")
        BY <2>4, ListsKept, Zenon DEF Steps
      <3>2. \A s : Passed("vm", s) => Passed("vm", s)'
        BY <1>2, <2>4, <3>1 DEF Passed
      <3>3. Passed("vm", Step("halt", "qemu"))' =>
               \/ Passed("vm", Step("halt", "qemu"))
               \/ pc'["vm"] = pc["vm"] + 1 /\ Steps("vm")[pc["vm"]] = Step("halt", "qemu")
        BY <1>2, <2>4, <3>1 DEF Passed
      <3>4. Step("halt", "qemu").kind = "halt"
        BY Zenon DEF Step
      <3> QED
        BY <2>4, <3>2, <3>3, <3>4, Zenon DEF Abandoned, Step
    <2>5. CASE st'["vm"] = st["vm"] /\ pc'["vm"] = pc["vm"]
      <3>1. pc'["vm"] # pc["vm"] + 1
        BY <1>2, <2>5
      <3> QED
        BY <2>4, <2>5, <3>1, Zenon
    <2> QED
      BY <2>1, <2>2, <2>3, <2>4, <2>5, Zenon
  <1>4. Alive' => Alive
    <2>1. CASE st'["vm"] \in {"error", "none"}
      BY <2>1, Zenon DEF Alive
    <2>2. CASE st'["vm"] = "running" /\ st["vm"] = "creating" /\ pc["vm"] > Len(Creation("vm"))
      <3>1. Steps("vm") = Creation("vm") /\ Leads(Creation("vm"), "vm")
        BY <1>1, <2>2, Grounded, Zenon DEF Steps, Builds
      <3>2. PICK i \in 1 .. Len(Steps("vm")) : Steps("vm")[i] = Step("make", "qemu")
        BY <3>1, Zenon DEF Leads
      <3>3. i \in 1 .. pc["vm"] - 1 /\ i <= Len(Steps("vm"))
        BY <1>2, <2>2, <3>1
      <3> QED
        BY <2>2, <3>2, <3>3, Zenon DEF Alive, Passed
    <2>3. ASSUME st'["vm"] = st["vm"], pc'["vm"] \in {pc["vm"], pc["vm"] + 1},
                 pc'["vm"] = pc["vm"] + 1 => Steps("vm")[pc["vm"]].kind # "make"
          PROVE  Alive' => Alive
      <3>1. Steps("vm")' = Steps("vm")
        BY <2>3, ListsKept, Zenon DEF Steps
      <3>2. Step("make", "qemu").kind = "make"
        BY DEF Step
      <3>3. Passed("vm", Step("make", "qemu"))' => Passed("vm", Step("make", "qemu"))
        BY <1>2, <2>3, <3>1, <3>2 DEF Passed
      <3> QED
        BY <2>3, <3>3, Zenon DEF Alive, Step
    <2>4. CASE st'["vm"] = st["vm"] /\ pc'["vm"] = pc["vm"]
      <3>1. pc'["vm"] # pc["vm"] + 1
        BY <1>2, <2>4
      <3> QED
        BY <2>3, <2>4, <3>1, Zenon
    <2> QED
      BY <2>1, <2>2, <2>3, <2>4, Zenon
  <1>5. /\ told \in BOOLEAN /\ (Quit => Quit')
        /\ ("exit" \in hurt => "exit" \in hurt')
    BY Zenon DEF HostInv, TypeOK, Quit
  <1> QED
    BY <1>1, <1>3, <1>4, <1>5, Zenon DEF QemuInv, Quit

-----------------------------------------------------------------------------
(* The steps of a worker *)

(* What a step that is carried out, or fails halfway, does to the host. *)
LEMMA Touch ==
    ASSUME HostInv, NEW r \in Resources, Working(r), NEW s \in Current(r),
           OnHost(s), ~Refused(s), plan' = plan, late' = late, has' = Done(s) \/ has' \in Left(s)
    PROVE  /\ has' \subseteq Objects /\ ObjectInv' /\ Gains(r) /\ Loses(r) /\ Swaps
           /\ st[r] = "creating" =>
                 /\ s.kind \in {"make", "set"}
                 /\ has' \ has \subseteq {s.on, "lease", "sockets"}
                 /\ has \ has' \subseteq {"default_vrf", "default_ng"} \ Own(r)
                 /\ has' = Done(s) => s.on \in has'
                 /\ has' = Done(s) /\ s.on = "qemu" =>
                       "sockets" \in has' /\ "tap" \in has' /\ "qemu" \notin has
           /\ st[r] = "deleting" =>
                 /\ Removes(s) \/ (s.kind = "restart" /\ r = "vm") \/ (s.kind = "set" /\ r = "nat")
                 /\ has' \ has \subseteq {"deaf", "default_vrf"}
                 /\ "default_vrf" \in has' \ has => r = "nat"
                 /\ has \ has' \subseteq (IF Removes(s) THEN Fallen[s.on]
                                          ELSE {"lease", "deaf", "dhcp_unit", "default_ng"})
                 /\ has' = Done(s) /\ Removes(s) => s.on \notin has'
                 /\ has' = Done(s) /\ s.kind = "restart" =>
                       "lease" \notin has' /\ has \ has' \subseteq {"lease", "deaf"}
                 /\ has' = Done(s) /\ s.kind = "set" => "default_ng" \notin has'
           /\ has' = Done(s) \/ has' = has \/ (s.kind = "restart" /\ st[r] = "deleting")
  <1>1. /\ pc[r] <= Len(Steps(r)) /\ s = Steps(r)[pc[r]] /\ st[r] \in {"creating", "deleting"}
        /\ pc[r] \in 1 .. Len(Steps(r))
        /\ st[r] = "creating" => Steps(r) = Creation(r)
        /\ st[r] = "deleting" => Steps(r) = Deletion(r)
    BY Placed DEF Working
  <1>2. has \subseteq Objects /\ ObjectInv
    BY Zenon DEF HostInv, TypeOK
  <1>3. has' = has => ObjectInv' /\ Gains(r) /\ Loses(r) /\ Swaps
    <2>1. ASSUME has' = has PROVE ObjectInv'
      BY <2>1, StillObject, Zenon
    <2> QED
      BY <2>1, Zenon DEF Gains, Loses, Swaps
  <1>4. CASE st[r] = "creating"
    <2>1. s.kind \in {"make", "set"}
      <3>1. Makes(Creation(r), r)
        BY <1>4, Grounded, Zenon DEF Builds
      <3> QED
        BY <1>1, <1>4, <3>1 DEF Makes, OnHost, Step
    <2>2. has' = Done(s) \/ has' = has
      BY <2>1, Zenon DEF Left
    <2>3. CASE has' = Done(s)
      BY <1>1, <1>4, <2>1, <2>3, CreateEffect
    <2>4. CASE has' = has /\ has' # Done(s)
      BY <1>2, <1>3, <1>4, <2>1, <2>4, Zenon
    <2> QED
      BY <2>2, <2>3, <2>4, Zenon
  <1>5. CASE st[r] = "deleting"
    <2>1. Removes(s) \/ (s.kind = "restart" /\ r = "vm") \/ (s.kind = "set" /\ r = "nat")
      <3>1. Unmakes(Deletion(r), r)
        BY <1>5, Grounded, Zenon DEF Unbuilds
      <3> QED
        BY <1>1, <1>5, <3>1 DEF Unmakes, OnHost, Step
    <2>2. CASE Removes(s)
      <3>1. s.kind # "restart" /\ s.kind # "set"
        BY <2>2, Zenon DEF Removes
      <3>2. CASE has' = Done(s)
        BY <1>1, <1>5, <2>2, <3>1, <3>2, RemoveEffect, Zenon
      <3>3. CASE has' = has /\ has' # Done(s)
        BY <1>2, <1>3, <1>5, <2>2, <3>3, Zenon
      <3> QED
        BY <3>1, <3>2, <3>3, Zenon DEF Left
    <2>3. CASE s.kind = "restart"
      <3>1. ~Removes(s) /\ r = "vm"
        BY <2>1, <2>3, Zenon DEF Removes
      <3>2. CASE has' = Done(s) \/ has' = has \ Fallen[s.on]
        <4>1. /\ has' \subseteq Objects /\ ObjectInv' /\ Gains(r) /\ Loses(r) /\ Swaps
              /\ has' \subseteq has \ {"lease"}
              /\ has \ has' \subseteq {"lease", "deaf", "dhcp_unit"}
              /\ has' = Done(s) => has \ has' \subseteq {"lease", "deaf"}
          BY <1>1, <1>5, <2>3, <3>2, RestartEffect, Zenon
        <4> QED
          BY <1>5, <2>3, <3>1, <4>1, Zenon
      <3>3. CASE has' = has /\ has' # Done(s)
        BY <1>2, <1>3, <1>5, <2>3, <3>1, <3>3, Zenon
      <3> QED
        BY <2>3, <3>2, <3>3, Zenon DEF Left
    <2>4. CASE s.kind = "set"
      <3>1. ~Removes(s) /\ s.kind # "restart"
        BY <2>4, Zenon DEF Removes
      <3>2. CASE has' = Done(s)
        BY <1>1, <1>5, <2>4, <3>1, <3>2, ReturnEffect, Zenon
      <3>3. CASE has' = has /\ has' # Done(s)
        BY <1>2, <1>3, <1>5, <2>1, <3>1, <3>3, Zenon
      <3> QED
        BY <3>1, <3>2, <3>3, Zenon DEF Left
    <2> QED
      BY <2>1, <2>2, <2>3, <2>4, Zenon
  <1> QED
    BY <1>1, <1>4, <1>5, Zenon

(* A step on the host keeps what is known of QEMU. *)
LEMMA QemuTouch ==
    ASSUME HostInv, Working("vm"), NEW s \in Current("vm"),
           OnHost(s), ~Refused(s), plan' = plan, late' = late, has' = Done(s) \/ has' \in Left(s),
           told' = told, \A h \in {"vm", "mute"} : h \in hurt => h \in hurt',
           "exit" \in hurt \ hurt' => s = Step("make", "qemu"),
           \/ st'["vm"] = "error"
           \/ /\ st'["vm"] = st["vm"] /\ pc'["vm"] = pc["vm"] + 1
              /\ st["vm"] = "creating" => has' = Done(s)
    PROVE  QemuInv'
  <1>1. QemuInv /\ "vm" \in Resources
    BY Zenon DEF HostInv, Resources
  <1>2. /\ st["vm"] \in {"creating", "deleting"} /\ pc["vm"] \in 1 .. Len(Steps("vm"))
        /\ Len(Steps("vm")) \in 1 .. 18 /\ s = Steps("vm")[pc["vm"]]
        /\ st["vm"] = "creating" => Steps("vm") = Creation("vm")
        /\ st["vm"] = "deleting" => Steps("vm") = Deletion("vm")
    BY <1>1, Placed, Zenon DEF Working
  <1>3. /\ st["vm"] = "creating" => s.kind \in {"make", "set"}
        /\ {"tap", "sockets"} \subseteq Own("vm") /\ "qemu" \notin Own("vm")
    BY <1>1, Touch, Zenon DEF Own
  <1>4. CASE "qemu" \in has' \ has
    <2>1. st["vm"] = "creating" /\ has' = Done(s) /\ s.on = "qemu"
      <3>1. has' # has /\ (st["vm"] = "deleting" => "qemu" \notin has' \ has)
        BY <1>1, <1>4, Touch
      <3>2. has' = Done(s)
        BY <1>1, <1>2, <3>1, <1>4, Touch
      <3> QED
        BY <1>1, <1>2, <1>4, <3>1, <3>2, Touch
    <2>2. "sockets" \in has' /\ "tap" \in has'
      BY <1>1, <2>1, Touch, Zenon
    <2>3. st'["vm"] = "creating" => Passed("vm", Step("make", "qemu"))'
      <3>1. SUFFICES ASSUME st'["vm"] = "creating" PROVE Passed("vm", Step("make", "qemu"))'
        BY Zenon
      <3>2. Steps("vm")' = Steps("vm") /\ pc'["vm"] = pc["vm"] + 1
        BY <2>1, <3>1, ListsKept, Zenon DEF Steps
      <3>3. s = Step("make", "qemu")
        <4>1. Makes(Creation("vm"), "vm")
          BY <1>1, <2>1, Grounded, Zenon DEF Builds
        <4> QED
          BY <1>2, <1>3, <2>1, <4>1 DEF Makes
      <3> QED
        BY <1>2, <3>2, <3>3 DEF Passed
    <2>4. ~Abandoned'
      BY <2>1, <2>2, <2>3, Zenon DEF Abandoned
    <2> QED
      BY <1>4, <2>2, <2>4, Zenon DEF QemuInv
  <1>5. CASE "qemu" \notin has' \ has
    <2>1. \A o \in {"tap", "sockets"} : o \in has \ has' => Abandoned
      <3>1. SUFFICES ASSUME NEW o \in {"tap", "sockets"}, o \in has \ has' PROVE Abandoned
        BY Zenon
      <3>2. st["vm"] = "deleting" /\ Removes(s) /\ o \in Fallen[s.on]
        BY <1>1, <1>2, <1>3, <3>1, Touch
      <3>3. s.on \in Own("vm")
        <4>1. Unmakes(Deletion("vm"), "vm")
          BY <1>1, <3>2, Grounded, Zenon DEF Unbuilds
        <4> QED
          BY <1>2, <3>2, <4>1, Zenon DEF Unmakes
      <3>4. s.on = o
        BY <3>2, <3>3, MachineAlone, Zenon
      <3> QED
        BY <1>2, <3>1, <3>2, <3>4, HaltFirst, Zenon DEF Abandoned
    <2>2. st'["vm"] = st["vm"] /\ pc'["vm"] = pc["vm"] + 1 =>
             /\ \A t : Passed("vm", t) => Passed("vm", t)'
             /\ Passed("vm", Step("halt", "qemu"))' => Passed("vm", Step("halt", "qemu"))
      <3>1. SUFFICES ASSUME st'["vm"] = st["vm"], pc'["vm"] = pc["vm"] + 1
                     PROVE  /\ \A t : Passed("vm", t) => Passed("vm", t)'
                            /\ Passed("vm", Step("halt", "qemu"))' => Passed("vm", Step("halt", "qemu"))
        BY Zenon
      <3>2. Steps("vm")' = Steps("vm")
        BY <3>1, ListsKept, Zenon DEF Steps
      <3>3. s # Step("halt", "qemu")
        BY DEF OnHost, Step
      <3> QED
        BY <1>2, <3>1, <3>2, <3>3 DEF Passed
    <2>3. Abandoned' => Abandoned
      BY <1>2, <2>1, <2>2, Zenon DEF Abandoned
    <2>4. ASSUME Alive', "exit" \notin hurt' PROVE {"qemu", "sockets"} \subseteq has'
      <3>1. /\ st'["vm"] = "creating" /\ st["vm"] = "creating" /\ pc'["vm"] = pc["vm"] + 1
            /\ has' = Done(s) /\ Passed("vm", Step("make", "qemu"))'
        BY <1>2, <2>4, Zenon DEF Alive, Step
      <3>2. CASE s = Step("make", "qemu")
        <4>1. s.on = "qemu"
          BY <3>2, Zenon DEF Step
        <4>2. s.on \in has' /\ "sockets" \in has'
          BY <1>1, <3>1, <4>1, Touch, Zenon
        <4> QED
          BY <4>1, <4>2, Zenon
      <3>3. CASE s # Step("make", "qemu")
        <4>1. Steps("vm")' = Steps("vm")
          BY <3>1, ListsKept, Zenon DEF Steps
        <4>2. Passed("vm", Step("make", "qemu"))
          BY <1>2, <3>1, <3>3, <4>1 DEF Passed
        <4>3. {"qemu", "sockets"} \subseteq has
          BY <1>1, <2>4, <3>1, <3>3, <4>2, Zenon DEF QemuInv, Alive
        <4>4. has \ has' \subseteq {"default_vrf", "default_ng"}
          BY <1>1, <3>1, Touch
        <4> QED
          BY <4>3, <4>4
      <3> QED
        BY <3>2, <3>3, Zenon
    <2> QED
      BY <1>1, <1>5, <2>3, <2>4, Zenon DEF QemuInv
  <1> QED
    BY <1>4, <1>5, Zenon

(* A step that is carried out keeps the core. *)
LEMMA RunKeeps ==
    ASSUME HostInv, NEW r \in Resources, Working(r), NEW s \in Current(r), Run(r, s)
    PROVE  Core'
  <1>1. /\ OnHost(s) /\ ~Refused(s) /\ has' = Done(s) /\ plan' = plan /\ st' = st
        /\ bad' = bad /\ told' = told /\ faults' = faults
        /\ pc' = [pc EXCEPT ![r] = @ + 1]
        /\ seen' = seen /\ late' = late
    BY Zenon DEF Run, Advance
  <1>10. /\ hurt' \subseteq hurt /\ hurt \ hurt' \subseteq {"unread", "exit"}
         /\ "unread" \in hurt \ hurt' => s.kind = "restart"
         /\ "exit" \in hurt \ hurt' => s = Step("make", "qemu")
    BY DEF Run
  <1>2. /\ st[r] \in {"creating", "deleting"} /\ pc[r] \in 1 .. Len(Steps(r))
        /\ Len(Steps(r)) \in 1 .. 18 /\ s = Steps(r)[pc[r]]
        /\ st[r] = "creating" => Steps(r) = Creation(r)
        /\ st[r] = "deleting" => Steps(r) = Deletion(r)
    BY Placed, Zenon DEF Working
  <1>3. RecordsOK
    BY CoreHolds, Zenon DEF Core
  <1>4. RecordsOK'
    <2>1. has' \subseteq Objects
      BY <1>1, Touch, Zenon
    <2>2. pc' \in [Resources -> 1 .. 20]
      <3>1. pc[r] <= 18
        BY <1>2
      <3> QED
        BY <1>1, <1>3, <3>1, PlaceTyped, Zenon
    <2> QED
      BY <1>1, <1>3, <1>10, <2>1, <2>2, Zenon DEF RecordsOK
  <1>5. pc'[r] = pc[r] + 1 /\ \A q \in Resources \ {r} : pc'[q] = pc[q]
    BY <1>1, <1>3, Zenon DEF RecordsOK
  <1>6. s.kind = "restart" => st[r] = "deleting" /\ r = "vm" /\ ~Removes(s)
    BY <1>1, <1>2, Touch DEF Removes
  <1>11. s = Step("make", "qemu") => r = "vm"
    <2>1. s = Step("make", "qemu") => s.kind = "make" /\ s.on = "qemu" /\ ~Removes(s)
      BY DEF Step, Removes
    <2>2. CASE st[r] = "creating"
      <3>1. Makes(Creation(r), r) /\ "qemu" \notin Own(r)
        BY <2>2, Grounded, OwnFacts, Zenon DEF Builds
      <3> QED
        BY <1>2, <2>1, <2>2, <3>1 DEF Makes
    <2>3. CASE st[r] = "deleting"
      BY <1>1, <2>1, <2>3, Touch
    <2> QED
      BY <1>2, <2>2, <2>3, Zenon
  <1>7. Local(r)
    <2>1. ObjectInv' /\ Gains(r) /\ Loses(r) /\ Swaps
      BY <1>1, Touch, Zenon
    <2>2. r = "vm" => "dhcp_unit" \notin has \ has'
      <3>1. SUFFICES ASSUME r = "vm" PROVE "dhcp_unit" \notin has \ has'
        BY Zenon
      <3>2. CASE st[r] = "creating"
        BY <1>1, <3>2, Touch
      <3>3. CASE st[r] = "deleting" /\ Removes(s)
        <4>1. Unmakes(Deletion("vm"), "vm")
          BY <3>1, <3>3, Grounded, Zenon DEF Unbuilds
        <4>2. Fallen[s.on] = {s.on} /\ s.on # "dhcp_unit"
          BY <1>2, <3>1, <3>3, <4>1, MachineAlone, Zenon DEF Unmakes, Own
        <4> QED
          BY <1>1, <3>3, <4>2, Touch, Zenon
      <3>4. CASE st[r] = "deleting" /\ ~Removes(s)
        BY <1>1, <3>1, <3>4, Touch, Zenon
      <3> QED
        BY <1>2, <3>2, <3>3, <3>4, Zenon
    <2>3. \A h \in Resources \cup {"dhcp", "mute"} : h \in hurt => h \in hurt'
      BY <1>10 DEF Resources
    <2> QED
      BY <1>1, <1>5, <1>6, <1>10, <1>11, <2>1, <2>2, <2>3, Zenon DEF Local
  <1>8. \A q \in Resources : ResourceInv(q)'
    <2>1. CASE st[r] = "creating"
      <3>1. r \notin bad
        BY <2>1, Zenon DEF HostInv, ResourceInv, PlaceInv
      <3>2. /\ pc[r] <= Len(Creation(r)) /\ s = Creation(r)[pc[r]]
            /\ st'[r] = st[r] /\ pc'[r] = pc[r] + 1 /\ r \notin bad'
        BY <1>1, <1>2, <1>5, <2>1, <3>1
      <3>3. /\ s.on \in has' /\ has' \ has \subseteq {s.on, "lease", "sockets"}
            /\ has \ has' \subseteq {"default_vrf", "default_ng"} \ Own(r)
        BY <1>1, <2>1, Touch, Zenon
      <3> QED
        BY <1>1, <1>7, <2>1, <3>2, <3>3, CreateAdvance, Zenon
    <2>2. CASE st[r] = "deleting"
      <3>1. /\ has' \ has \subseteq {"deaf", "default_vrf"}
            /\ "default_vrf" \in has' \ has => r = "nat"
            /\ has \ has' \subseteq (IF Removes(s) THEN Fallen[s.on]
                                     ELSE {"lease", "deaf", "dhcp_unit", "default_ng"})
            /\ Removes(s) => s.on \notin has'
            /\ s.kind = "restart" => "lease" \notin has'
            /\ s.kind = "set" => "default_ng" \notin has'
        BY <1>1, <2>2, Touch, Zenon
      <3>2. s.kind # "collect"
        BY <1>1, Zenon DEF OnHost
      <3>3. (r \in hurt => r \in hurt') /\ ("unread" \in hurt \ hurt' => s.kind = "restart")
        BY <1>10 DEF Resources
      <3>4. /\ pc[r] <= Len(Deletion(r)) /\ s = Deletion(r)[pc[r]]
            /\ st'[r] = st[r] /\ pc'[r] = pc[r] + 1 /\ bad' = bad
        BY <1>1, <1>2, <1>5, <2>2
      <3> QED
        BY <1>1, <1>7, <2>2, <3>1, <3>2, <3>3, <3>4, DeleteAdvance, Zenon
    <2> QED
      BY <1>2, <2>1, <2>2, Zenon
  <1>9. QemuInv'
    <2>1. CASE r = "vm"
      <3>1. \A h \in {"vm", "mute"} : h \in hurt => h \in hurt'
        BY <1>10
      <3> QED
        BY <1>1, <1>5, <1>10, <2>1, <3>1, QemuTouch, Zenon
    <2>2. CASE r # "vm"
      BY <1>1, <1>7, <2>2, QemuOthers, Zenon
    <2> QED
      BY <2>1, <2>2, Zenon
  <1>12. SeenInv'
    BY <1>1, <1>7, SeenKept, Zenon
  <1> QED
    BY <1>4, <1>7, <1>8, <1>9, <1>12, Zenon DEF Core, Local

(* A step that fails, before or after its effect, keeps the core. *)
LEMMA FaultKeeps ==
    ASSUME HostInv, NEW r \in Resources, Working(r), NEW s \in Current(r), Fault(r, s)
    PROVE  Core'
  <1>1. /\ OnHost(s) /\ ~Refused(s) /\ has' \in Left(s) /\ plan' = plan
        /\ told' = told /\ faults < MaxFaults /\ faults' = faults + 1
        /\ \/ Tried(s) /\ bad' = bad \cup {r} /\ st' = st /\ pc' = [pc EXCEPT ![r] = @ + 1]
           \/ ~Tried(s) /\ bad' = bad \ {r} /\ st' = [st EXCEPT ![r] = "error"] /\ pc' = pc
        /\ seen' = seen /\ late' = late
        /\ hurt' = hurt \cup {r} \cup (IF s.kind = "restart" /\ "dhcp_unit" \in has \ has'
                                      THEN {"dhcp"} ELSE {})
    BY Zenon DEF Fault, Advance
  <1>2. /\ st[r] \in {"creating", "deleting"} /\ pc[r] \in 1 .. Len(Steps(r))
        /\ Len(Steps(r)) \in 1 .. 18 /\ s = Steps(r)[pc[r]]
        /\ st[r] = "creating" => Steps(r) = Creation(r)
        /\ st[r] = "deleting" => Steps(r) = Deletion(r)
    BY Placed, Zenon DEF Working
  <1>3. RecordsOK
    BY CoreHolds, Zenon DEF Core
  <1>4. RecordsOK'
    <2>1. has' \subseteq Objects
      BY <1>1, Touch, Zenon
    <2>2. faults' \in 0 .. MaxFaults
      BY <1>1, <1>3, FaultsAssumption DEF RecordsOK
    <2>3. pc' \in [Resources -> 1 .. 20]
      <3>1. pc[r] <= 18
        BY <1>2
      <3>4. pc \in [Resources -> 1 .. 20]
        BY <1>3, Zenon DEF RecordsOK
      <3>2. [pc EXCEPT ![r] = @ + 1] \in [Resources -> 1 .. 20]
        BY <1>3, <3>1, PlaceTyped, Zenon
      <3>3. pc' = pc \/ pc' = [pc EXCEPT ![r] = @ + 1]
        BY <1>1, Zenon
      <3> QED
        BY <3>2, <3>3, <3>4, Zenon
    <2>4. st' \in [Resources -> {"none", "creating", "running", "deleting", "error"}]
      BY <1>1, <1>3, Zenon DEF RecordsOK
    <2>5. \A q \in Resources : st'[q] # "none" => q \in plan.uses
      BY <1>1, <1>2, <1>3, Zenon DEF RecordsOK
    <2>6. hurt' \subseteq Resources \cup {"dhcp", "unread", "mute", "exit"} /\ bad' \subseteq Resources
      BY <1>1, <1>3 DEF RecordsOK
    <2> QED
      BY <1>1, <1>3, <2>1, <2>2, <2>3, <2>4, <2>5, <2>6, Zenon DEF RecordsOK
  <1>5. /\ \A q \in Resources \ {r} : pc'[q] = pc[q] /\ st'[q] = st[q]
        /\ Tried(s) => pc'[r] = pc[r] + 1 /\ st'[r] = st[r]
        /\ ~Tried(s) => st'[r] = "error"
    BY <1>1, <1>3 DEF RecordsOK
  <1>6. Tried(s) => st[r] = "deleting" /\ Removes(s) /\ s.kind # "restart"
    BY <1>1, <1>2, Touch DEF Tried, Removes
  <1>7. Local(r)
    <2>1. ObjectInv' /\ Gains(r) /\ Loses(r) /\ Swaps
      BY <1>1, Touch, Zenon
    <2>2. r = "vm" /\ "dhcp_unit" \in has \ has' => s.kind = "restart"
      <3>1. SUFFICES ASSUME r = "vm", "dhcp_unit" \in has \ has' PROVE s.kind = "restart"
        BY Zenon
      <3>2. CASE st[r] = "creating"
        BY <1>1, <3>1, <3>2, Touch
      <3>3. CASE st[r] = "deleting" /\ Removes(s)
        <4>1. Unmakes(Deletion("vm"), "vm")
          BY <3>1, <3>3, Grounded, Zenon DEF Unbuilds
        <4>2. Fallen[s.on] = {s.on} /\ s.on # "dhcp_unit"
          BY <1>2, <3>1, <3>3, <4>1, MachineAlone, Zenon DEF Unmakes, Own
        <4> QED
          BY <1>1, <3>1, <3>3, <4>2, Touch
      <3>4. CASE st[r] = "deleting" /\ ~Removes(s)
        BY <1>1, <3>1, <3>4, Touch, Zenon
      <3> QED
        BY <1>2, <3>2, <3>3, <3>4, Zenon
    <2>3. hurt \subseteq hurt'
      BY <1>1, Zenon
    <2>4. "dhcp_unit" \in has \ has' /\ r = "vm" => "dhcp" \in hurt'
      BY <1>1, <2>2, Zenon
    <2> QED
      BY <1>1, <1>5, <2>1, <2>3, <2>4, Zenon DEF Local
  <1>8. \A q \in Resources : ResourceInv(q)'
    <2>1. CASE ~Tried(s)
      BY <1>1, <1>5, <1>7, <2>1, Erring, Zenon
    <2>2. CASE Tried(s)
      <3>1. /\ has' \ has \subseteq {"deaf", "default_vrf"}
            /\ "default_vrf" \in has' \ has => r = "nat"
        BY <1>1, <1>6, <2>2, Touch, Zenon
      <3>2. r \in hurt' /\ r \in bad' /\ hurt \subseteq hurt'
        BY <1>1, <2>2, Zenon
      <3>3. /\ pc[r] <= Len(Deletion(r)) /\ s = Deletion(r)[pc[r]] /\ st[r] = "deleting"
            /\ st'[r] = st[r] /\ pc'[r] = pc[r] + 1 /\ s.kind # "restart"
        BY <1>2, <1>5, <1>6, <2>2
      <3>4. s.kind # "set"
        BY <2>2, Zenon DEF Tried
      <3> QED
        BY <1>1, <1>7, <2>2, <3>1, <3>2, <3>3, <3>4, DeleteAdvance, Zenon
    <2> QED
      BY <2>1, <2>2, Zenon
  <1>9. QemuInv'
    <2>1. CASE r = "vm"
      <3>1. hurt \subseteq hurt'
        BY <1>1, Zenon
      <3>2. \/ st'["vm"] = "error"
            \/ st'["vm"] = st["vm"] /\ pc'["vm"] = pc["vm"] + 1 /\ st["vm"] # "creating"
        BY <1>5, <1>6, <2>1, Zenon
      <3> QED
        BY <1>1, <2>1, <3>1, <3>2, QemuTouch, Zenon
    <2>2. CASE r # "vm"
      BY <1>1, <1>7, <2>2, QemuOthers, Zenon
    <2> QED
      BY <2>1, <2>2, Zenon
  <1>10. SeenInv'
    BY <1>1, <1>7, SeenKept, Zenon
  <1> QED
    BY <1>4, <1>7, <1>8, <1>9, <1>10, Zenon DEF Core, Local

(* A worker that fails leaves the host as it is. *)
LEMMA FailKeeps ==
    ASSUME HostInv, NEW r \in Resources, Working(r), Fail(r),
           has' = has, plan' = plan, told' = told, seen' = seen, late' = late, faults' = faults
    PROVE  Core'
  <1>1. RecordsOK
    BY CoreHolds, Zenon DEF Core
  <1>2. /\ st' = [st EXCEPT ![r] = "error"] /\ pc' = pc /\ bad' = bad \ {r} /\ hurt' = hurt \cup {r}
    BY Zenon DEF Fail
  <1>3. st'[r] = "error" /\ \A q \in Resources \ {r} : st'[q] = st[q]
    BY <1>1, <1>2, Zenon DEF RecordsOK
  <1>4. ObjectInv'
    BY StillObject, Zenon
  <1>5. Local(r)
    <2>1. Gains(r) /\ Loses(r) /\ Swaps
      BY Zenon DEF Gains, Loses, Swaps
    <2> QED
      BY <1>2, <1>3, <1>4, <2>1, Zenon DEF Local
  <1>6. RecordsOK'
    <2>1. st' \in [Resources -> {"none", "creating", "running", "deleting", "error"}]
      BY <1>1, <1>2, Zenon DEF RecordsOK
    <2>2. \A q \in Resources : st'[q] # "none" => q \in plan.uses
      BY <1>1, <1>3, Zenon DEF RecordsOK, Working
    <2>3. bad' \subseteq Resources /\ hurt' \subseteq Resources \cup {"dhcp", "unread", "mute", "exit"}
      BY <1>1, <1>2, Zenon DEF RecordsOK
    <2> QED
      BY <1>1, <1>2, <2>1, <2>2, <2>3, Zenon DEF RecordsOK
  <1>7. \A q \in Resources : ResourceInv(q)'
    BY <1>2, <1>3, <1>5, Erring, Zenon
  <1>8. QemuInv'
    <2>1. CASE r = "vm"
      <3>1. hurt \subseteq hurt' /\ (told => told')
        BY <1>2, <2>1, Zenon
      <3> QED
        BY <1>3, <2>1, <3>1, QemuStill, Zenon
    <2>2. CASE r # "vm"
      BY <1>5, <2>2, QemuOthers, Zenon
    <2> QED
      BY <2>1, <2>2, Zenon
  <1>9. SeenInv'
    BY <1>5, SeenKept, Zenon
  <1> QED
    BY <1>4, <1>6, <1>7, <1>8, <1>9, Zenon DEF Core

(* A worker that goes on past a step that leaves the host as it is. *)
LEMMA PassKeeps ==
    ASSUME HostInv, NEW r \in Resources, Working(r), NEW s \in Current(r),
           has' = has, plan' = plan, st' = st, pc' = [pc EXCEPT ![r] = @ + 1],
           seen' = seen, late' = late, faults' \in 0 .. MaxFaults,
           hurt \subseteq hurt', hurt' \subseteq hurt \cup {r, "unread", "mute"},
           r \in bad => s.kind # "collect",
           bad' = bad \/ (bad' = bad \cup {r} /\ Tried(s)),
           Removes(s) => \/ s.on = "dhcp_unit" /\ "unread" \in hurt'
                         \/ Tried(s) /\ r \in bad',
           s.kind = "restart" => "unread" \in hurt',
           s.kind \in {"make", "set"} => FALSE,
           s.kind # "halt" => told' = told,
           s.kind = "halt" => \/ told' = TRUE /\ "vm" \in hurt'
                              \/ told' = told /\ {"vm", "mute"} \subseteq hurt'
                              \/ told' = told /\ ~({"qemu", "sockets"} \subseteq has)
    PROVE  Core'
  <1>1. RecordsOK
    BY CoreHolds, Zenon DEF Core
  <1>2. /\ st[r] \in {"creating", "deleting"} /\ pc[r] \in 1 .. Len(Steps(r))
        /\ Len(Steps(r)) \in 1 .. 18 /\ s = Steps(r)[pc[r]]
        /\ st[r] = "creating" => Steps(r) = Creation(r)
        /\ st[r] = "deleting" => Steps(r) = Deletion(r)
    BY Placed, Zenon DEF Working
  <1>3. pc'[r] = pc[r] + 1 /\ \A q \in Resources \ {r} : pc'[q] = pc[q]
    BY <1>1 DEF RecordsOK
  <1>4. ObjectInv'
    BY StillObject, Zenon
  <1>5. RecordsOK'
    <2>1. pc' \in [Resources -> 1 .. 20]
      <3>1. pc[r] <= 18
        BY <1>2, Bounded, Zenon
      <3> QED
        BY <1>1, <3>1, PlaceTyped, Zenon
    <2>2. bad' \subseteq Resources /\ hurt' \subseteq Resources \cup {"dhcp", "unread", "mute", "exit"}
      BY <1>1, Zenon DEF RecordsOK
    <2>3. told' \in BOOLEAN
      BY <1>1, Zenon DEF RecordsOK
    <2> QED
      BY <1>1, <2>1, <2>2, <2>3, Zenon DEF RecordsOK
  <1>6. Local(r)
    <2>1. Gains(r) /\ Loses(r) /\ Swaps
      BY Zenon DEF Gains, Loses, Swaps
    <2>2. \A q \in Resources \ {r} : q \in bad' <=> q \in bad
      BY Zenon
    <2> QED
      BY <1>3, <1>4, <2>1, <2>2, Zenon DEF Local
  <1>7. \A q \in Resources : ResourceInv(q)'
    <2>1. CASE st[r] = "creating"
      <3>1. Builds(Creation(r), r)
        BY <2>1, Grounded, Zenon
      <3>2. \/ s = Step("open", "hostsvc") /\ pc[r] = Len(Creation(r)) /\ r = "vpc"
            \/ s = Step("load", "netns")
        BY <1>2, <2>1, <3>1, Zenon DEF Builds, Makes
      <3>3. s.kind = "load" \/ s.on \in has'
        <4>1. CASE s = Step("load", "netns")
          BY <4>1, Zenon DEF Step
        <4>2. CASE s = Step("open", "hostsvc") /\ pc[r] = Len(Creation(r)) /\ r = "vpc"
          <5>1. Earlier(Creation(r), pc[r], "hostsvc") /\ Makes(Creation(r), r)
            BY <3>1, <4>2, Zenon DEF Builds, Leads
          <5>2. CreateInv(r) /\ r \notin late
            BY <4>2, ParentsRun, Zenon DEF HostInv, ResourceInv
          <5>3. PICK j \in 1 .. pc[r] - 1 : Creation(r)[j].on = "hostsvc"
            BY <5>1, Zenon DEF Earlier
          <5>4. j \in 1 .. Len(Creation(r)) /\ j < pc[r]
            BY <1>2, <4>2, <5>3
          <5>5. Creation(r)[j].kind # "load"
            BY <4>2, <5>1, <5>4 DEF Makes, Step
          <5>6. Creation(r)[j].on \in has
            BY <2>1, <5>2, <5>3, <5>4, <5>5 DEF CreateInv
          <5> QED
            BY <4>2, <5>3, <5>6, Zenon DEF Step
        <4> QED
          BY <3>2, <4>1, <4>2, Zenon
      <3>4. r \notin bad'
        <4>1. r \notin bad
          BY <2>1, Zenon DEF HostInv, ResourceInv, PlaceInv
        <4>2. s.kind \in {"open", "load"}
          BY <3>2 DEF Step
        <4> QED
          BY <4>1, <4>2, Zenon DEF Tried
      <3>5. pc[r] <= Len(Creation(r)) /\ s = Creation(r)[pc[r]] /\ st'[r] = st[r]
        BY <1>2, <2>1
      <3> QED
        BY <1>3, <1>6, <2>1, <3>3, <3>4, <3>5, CreateAdvance, Zenon
    <2>2. CASE st[r] = "deleting"
      <3>1. pc[r] <= Len(Deletion(r)) /\ s = Deletion(r)[pc[r]] /\ st'[r] = st[r]
        BY <1>2, <2>2
      <3>2. /\ r \in hurt => r \in hurt'
            /\ r \in bad => r \in bad'
            /\ r \in bad' => (r \in bad /\ s.kind # "collect") \/ Tried(s)
            /\ "unread" \notin hurt \ hurt' /\ s.kind # "set"
        BY Zenon
      <3>3. has' \ has = {} /\ has \ has' = {}
        BY Zenon
      <3> QED
        BY <1>3, <1>6, <2>2, <3>1, <3>2, <3>3, DeleteAdvance, Zenon
    <2> QED
      BY <1>2, <2>1, <2>2, Zenon
  <1>8. QemuInv'
    <2>1. CASE r = "vm"
      <3>1. /\ told => told'
            /\ s.kind = "halt" => Quit' \/ ~({"qemu", "sockets"} \subseteq has)
        BY DEF Quit
      <3>2. st'["vm"] = st["vm"] /\ pc["vm"] <= Len(Steps("vm")) /\ s = Steps("vm")[pc["vm"]]
            /\ s.kind # "make"
        BY <1>2, <2>1
      <3> QED
        BY <1>3, <2>1, <3>1, <3>2, QemuStill, Zenon
    <2>2. CASE r # "vm"
      <3>1. s.kind # "halt"
        <4>1. CASE st[r] = "creating"
          <5>1. Makes(Creation(r), r)
            BY <4>1, Grounded, Zenon DEF Builds
          <5> QED
            BY <1>2, <4>1, <5>1 DEF Makes, Step
        <4>2. CASE st[r] = "deleting"
          <5>1. Unmakes(Deletion(r), r)
            BY <4>2, Grounded, Zenon DEF Unbuilds
          <5>2. Removes(s) => s.kind # "halt"
            BY Zenon DEF Removes
          <5>3. ~Removes(s) => s \in {Step("close", "hostsvc"), Step("collect", "bridge"),
                                     Step("set", "default_vrf"), Step("load", "netns")}
            BY <1>2, <2>2, <4>2, <5>1, Zenon DEF Unmakes
          <5> QED
            BY <5>2, <5>3 DEF Step
        <4> QED
          BY <1>2, <4>1, <4>2, Zenon
      <3> QED
        BY <1>6, <2>2, <3>1, QemuOthers, Zenon
    <2> QED
      BY <2>1, <2>2, Zenon
  <1>9. SeenInv'
    BY <1>6, SeenKept, Zenon
  <1> QED
    BY <1>4, <1>5, <1>7, <1>8, <1>9, Zenon DEF Core

(* A step the host refuses is passed over, or ends the worker. *)
LEMMA RefuseKeeps ==
    ASSUME HostInv, NEW r \in Resources, Working(r), NEW s \in Current(r), Refuse(r, s)
    PROVE  Core'
  <1>1. /\ has' = has /\ plan' = plan /\ told' = told /\ faults' = faults
        /\ seen' = seen /\ late' = late
    BY Zenon DEF Refuse
  <1>2. CASE ~Tried(s)
    BY <1>1, <1>2, FailKeeps, Zenon DEF Refuse
  <1>3. CASE Tried(s)
    <2>1. /\ bad' = bad \cup {r} /\ pc' = [pc EXCEPT ![r] = @ + 1] /\ st' = st /\ hurt' = hurt
      BY <1>3, Zenon DEF Refuse, Advance
    <2>2. s.kind \notin {"collect", "restart", "make", "set", "halt"}
      BY <1>3, Zenon DEF Tried
    <2>3. faults' \in 0 .. MaxFaults
      BY <1>1, Zenon DEF HostInv, TypeOK
    <2>4. r \in bad' /\ hurt \subseteq hurt' /\ hurt' \subseteq hurt \cup {r, "unread", "mute"}
      BY <2>1, Zenon
    <2> QED
      BY <1>1, <1>3, <2>1, <2>2, <2>3, <2>4, PassKeeps, Zenon
  <1> QED
    BY <1>2, <1>3, Zenon

(* A unit whose status cannot be read is passed over. *)
LEMMA UnreadKeeps ==
    ASSUME HostInv, NEW r \in Resources, Working(r), NEW s \in Current(r), Unread(r, s)
    PROVE  Core'
  <1>1. /\ has' = has /\ plan' = plan /\ told' = told /\ st' = st /\ bad' = bad
        /\ pc' = [pc EXCEPT ![r] = @ + 1] /\ hurt' = hurt \cup {"unread"}
        /\ s.on = "dhcp_unit" /\ s.kind \in {"restart", "drop"}
        /\ faults < MaxFaults /\ faults' = faults + 1 /\ seen' = seen /\ late' = late
    BY Zenon DEF Unread, Advance
  <1>2. faults' \in 0 .. MaxFaults
    <2>1. faults \in 0 .. MaxFaults
      BY Zenon DEF HostInv, TypeOK
    <2> QED
      BY <1>1, <2>1, FaultsAssumption
  <1>3. hurt \subseteq hurt' /\ hurt' \subseteq hurt \cup {r, "unread", "mute"} /\ "unread" \in hurt'
    BY <1>1, Zenon
  <1>4. s.kind \notin {"collect", "make", "set", "halt"}
    BY <1>1, Zenon
  <1> QED
    BY <1>1, <1>2, <1>3, <1>4, PassKeeps, Zenon

(* The errors kept for later end the worker, or there are none. *)
LEMMA CollectKeeps ==
    ASSUME HostInv, NEW r \in Resources, Working(r), NEW s \in Current(r), Collect(r, s)
    PROVE  Core'
  <1>1. /\ has' = has /\ plan' = plan /\ told' = told /\ faults' = faults /\ s.kind = "collect"
        /\ seen' = seen /\ late' = late
    BY Zenon DEF Collect
  <1>2. CASE r \in bad
    BY <1>1, <1>2, FailKeeps, Zenon DEF Collect
  <1>3. CASE r \notin bad
    <2>1. bad' = bad /\ pc' = [pc EXCEPT ![r] = @ + 1] /\ st' = st /\ hurt' = hurt
      BY <1>3, Zenon DEF Collect, Advance
    <2>2. s.kind \notin {"restart", "make", "set", "halt"} /\ ~Removes(s)
      BY <1>1, Zenon DEF Removes
    <2>3. faults' \in 0 .. MaxFaults
      BY <1>1, Zenon DEF HostInv, TypeOK
    <2>4. hurt \subseteq hurt' /\ hurt' \subseteq hurt \cup {r, "unread", "mute"}
      BY <2>1, Zenon
    <2> QED
      BY <1>1, <1>3, <2>1, <2>2, <2>3, <2>4, PassKeeps, Zenon
  <1> QED
    BY <1>2, <1>3, Zenon

(* A gateway or a floating IP finds its namespace, or gives up. *)
LEMMA LoadKeeps ==
    ASSUME HostInv, NEW r \in Resources, Working(r), NEW s \in Current(r), Load(r, s)
    PROVE  Core'
  <1>1. /\ has' = has /\ plan' = plan /\ told' = told /\ faults' = faults /\ s.kind = "load"
        /\ seen' = seen /\ late' = late
    BY Zenon DEF Load
  <1>2. CASE Fail(r)
    BY <1>1, <1>2, FailKeeps, Zenon
  <1>3. CASE Advance(r) /\ UNCHANGED <<st, bad, hurt>>
    <2>1. bad' = bad /\ pc' = [pc EXCEPT ![r] = @ + 1] /\ st' = st /\ hurt' = hurt
      BY <1>3, Zenon DEF Advance
    <2>2. s.kind \notin {"collect", "restart", "make", "set", "halt"} /\ ~Removes(s)
      BY <1>1, Zenon DEF Removes
    <2>3. faults' \in 0 .. MaxFaults
      BY <1>1, Zenon DEF HostInv, TypeOK
    <2>4. hurt \subseteq hurt' /\ hurt' \subseteq hurt \cup {r, "unread", "mute"}
      BY <2>1, Zenon
    <2> QED
      BY <1>1, <2>1, <2>2, <2>3, <2>4, PassKeeps, Zenon
  <1> QED
    BY <1>2, <1>3, Zenon DEF Load

(* StopVM goes on once QEMU has stopped, was told to quit, or did not      *)
(* answer.                                                                 *)
LEMMA HaltKeeps ==
    ASSUME HostInv, NEW r \in Resources, Working(r), NEW s \in Current(r),
           Halted(r, s) \/ Mute(r, s) \/ Deadline(r, s)
    PROVE  Core'
  <1>1. /\ has' = has /\ plan' = plan /\ st' = st /\ bad' = bad
        /\ seen' = seen /\ late' = late
        /\ pc' = [pc EXCEPT ![r] = @ + 1] /\ s.kind = "halt"
        /\ \/ told' = TRUE /\ hurt' = hurt \cup {r}
           \/ told' = told /\ hurt' = hurt \cup {r, "mute"}
           \/ told' = told /\ hurt' = hurt /\ ~({"qemu", "sockets"} \subseteq has)
    BY Zenon DEF Halted, Mute, Deadline, Advance
  <1>2. faults' \in 0 .. MaxFaults
    <2>1. faults \in 0 .. MaxFaults
      BY Zenon DEF HostInv, TypeOK
    <2>2. faults' = faults \/ (faults < MaxFaults /\ faults' = faults + 1)
      BY Zenon DEF Halted, Mute, Deadline
    <2> QED
      BY <2>1, <2>2, FaultsAssumption
  <1>3. hurt \subseteq hurt' /\ hurt' \subseteq hurt \cup {r, "unread", "mute"}
    BY <1>1, Zenon
  <1>4. s.kind \notin {"collect", "restart", "make", "set"} /\ ~Removes(s)
    BY <1>1, Zenon DEF Removes
  <1>5. r = "vm"
    <2>1. /\ st[r] \in {"creating", "deleting"} /\ pc[r] \in 1 .. Len(Steps(r))
          /\ s = Steps(r)[pc[r]]
          /\ st[r] = "creating" => Steps(r) = Creation(r)
          /\ st[r] = "deleting" => Steps(r) = Deletion(r)
      BY Placed, Zenon DEF Working
    <2>2. Makes(Creation(r), r) /\ Unmakes(Deletion(r), r)
      BY <2>1, Grounded, Zenon DEF Builds, Unbuilds
    <2> QED
      BY <1>1, <1>4, <2>1, <2>2 DEF Makes, Unmakes, Step
  <1>6. \/ told' = TRUE /\ "vm" \in hurt'
        \/ told' = told /\ {"vm", "mute"} \subseteq hurt'
        \/ told' = told /\ ~({"qemu", "sockets"} \subseteq has)
    BY <1>1, <1>5, Zenon
  <1> QED
    BY <1>1, <1>2, <1>3, <1>4, <1>6, PassKeeps, Zenon

=============================================================================

---------------------------- MODULE AgentProofs -----------------------------
(***************************************************************************)
(* The safety of the agent, for any number of resources, clients, handlers *)
(* and workers: type correctness, which is not only about types (a         *)
(* reference never names a resource of the wrong kind, or commands would   *)
(* look up a record that is not there), what a step leaves alone, the      *)
(* steps of Execute and of Prepare, the invariant and its consequences.    *)
(***************************************************************************)
EXTENDS AgentRefinement, AgentInvariant, TLAPS

(* Sending on a buffered channel puts the value behind those it holds. *)
LEMMA AppendFacts ==
    ASSUME NEW S, NEW q \in Seq(S), NEW e \in S
    PROVE  /\ Append(q, e) \in Seq(S)
           /\ Len(Append(q, e)) = Len(q) + 1
           /\ \A i \in 1..Len(q) : Append(q, e)[i] = q[i]
           /\ Append(q, e)[Len(q) + 1] = e
  OBVIOUS

(* Receiving takes the oldest value and moves the others up. *)
LEMMA TailFacts ==
    ASSUME NEW S, NEW q \in Seq(S), q # <<>>
    PROVE  /\ Len(q) \in Nat \ {0}
           /\ Head(q) = q[1] /\ q[1] \in S
           /\ Tail(q) \in Seq(S)
           /\ Len(Tail(q)) = Len(q) - 1
           /\ \A i \in 1..Len(Tail(q)) : i + 1 \in 1..Len(q) /\ Tail(q)[i] = q[i + 1]
  <1>1. Len(q) \in Nat \ {0}
    OBVIOUS
  <1>2. Head(q) = q[1] /\ q[1] \in S
    BY <1>1
  <1>3. Tail(q) \in Seq(S) /\ Len(Tail(q)) = Len(q) - 1
    BY <1>1
  <1>4. \A i \in 1..Len(Tail(q)) : i + 1 \in 1..Len(q) /\ Tail(q)[i] = q[i + 1]
    BY <1>1, <1>3
  <1> QED
    BY <1>1, <1>2, <1>3, <1>4, Zenon

(* A name has one kind. *)
LEMMA Kinds ==
    /\ \A n \in VPCs : n \notin Subnets /\ n \notin VMs /\ n \notin FIPs /\ n \notin NATGWs
    /\ \A n \in Subnets : n \notin VPCs /\ n \notin VMs /\ n \notin FIPs /\ n \notin NATGWs
    /\ \A n \in VMs : n \notin VPCs /\ n \notin Subnets /\ n \notin FIPs /\ n \notin NATGWs
    /\ \A n \in FIPs : n \notin VPCs /\ n \notin Subnets /\ n \notin VMs /\ n \notin NATGWs
    /\ \A n \in NATGWs : n \notin VPCs /\ n \notin Subnets /\ n \notin VMs /\ n \notin FIPs
    /\ None \notin Names /\ None \notin VNIs
  BY KindsAssumption, Zenon DEF Names

(* What a client asks for names a parent of the right kind. *)
LEMMA PlacementFacts ==
    ASSUME NEW a \in Placements
    PROVE  /\ a[1] \in Names /\ a[2] \in Refs
           /\ a[2] \in Parents(a[1]) \cup {None}
           /\ a[1] \notin VPCs => a[2] # None
  BY PlacementsAssumption, Kinds DEF Names, Refs, Parents

(* A handler or worker that is not idle carries a command. *)
LEMMA ActiveCommand ==
    ASSUME NEW pcs, NEW c \in Commands(pcs), c.pc # "idle"
    PROVE  /\ c \in [pc : pcs, op : {"create", "delete"}, name : Names, ref : Refs,
                     at : VPCs \cup {None}, todo : SUBSET Fields]
           /\ c.ref \in Parents(c.name) \cup {None}
  BY DEF Commands, Idle

(* Advancing a command keeps it one. *)
LEMMA Advance ==
    ASSUME NEW pcs, NEW c \in Commands(pcs), c.pc # "idle", NEW x \in pcs
    PROVE  [c EXCEPT !.pc = x] \in Commands(pcs)
  BY ActiveCommand DEF Commands

(* The site of a command is a VPC, when there is one. *)
LEMMA SiteIsVPC ==
    ASSUME TypeOK, NEW n \in Names, NEW p \in Parents(n) \cup {None}, n \in FIPs => p # None
    PROVE  Site(n, p) \in VPCs \cup {None}
  <1>1. \A m \in VMs : VPCOf(m) \in VPCs \cup {None}
    BY Kinds, Zenon DEF TypeOK, VPCOf, Parents, Names
  <1>2. CASE n \in VPCs \cup Subnets \cup NATGWs
    BY <1>2, Kinds, Zenon DEF Site, Parents
  <1>3. CASE n \in VMs
    BY <1>3, <1>1, Kinds, Zenon DEF Site
  <1>4. CASE n \in FIPs
    BY <1>4, <1>1, Kinds, Zenon DEF Site, Parents
  <1> QED
    BY <1>2, <1>3, <1>4, Zenon DEF Names

(* A step of a handler that leaves all but its command alone. *)
LEMMA HandlerFrame ==
    ASSUME TypeOK, hnd' \in [Handlers -> Commands(HandlerPcs)],
           UNCHANGED <<st, ref, body, host, natif, queue, wk>>
    PROVE  TypeOK'
  BY Zenon DEF TypeOK

(* A step of a worker that leaves all but its command alone. *)
LEMMA WorkerFrame ==
    ASSUME TypeOK, wk' \in [Workers -> Commands(WorkerPcs)],
           UNCHANGED <<st, ref, body, host, natif, hnd, queue>>
    PROVE  TypeOK'
  BY Zenon DEF TypeOK

(* A handler goes on or answers. *)
LEMMA HandlerMoves ==
    ASSUME TypeOK, NEW h \in Handlers, hnd[h].pc # "idle"
    PROVE  /\ \A pc \in HandlerPcs : Become(h, pc) => hnd' \in [Handlers -> Commands(HandlerPcs)]
           /\ Answer(h) => hnd' \in [Handlers -> Commands(HandlerPcs)]
  <1>1. \A pc \in HandlerPcs : [hnd[h] EXCEPT !.pc = pc] \in Commands(HandlerPcs)
    BY Advance, Zenon DEF TypeOK
  <1>2. Idle \in Commands(HandlerPcs)
    BY Zenon DEF Commands
  <1> QED
    BY <1>1, <1>2, Zenon DEF TypeOK, Become, Answer

(* A worker goes on or finishes. *)
LEMMA WorkerMoves ==
    ASSUME TypeOK, NEW w \in Workers, wk[w].pc # "idle"
    PROVE  /\ \A pc \in WorkerPcs : Goto(w, pc) => wk' \in [Workers -> Commands(WorkerPcs)]
           /\ Finish(w) => wk' \in [Workers -> Commands(WorkerPcs)]
  <1>1. \A pc \in WorkerPcs : [wk[w] EXCEPT !.pc = pc] \in Commands(WorkerPcs)
    BY Advance, Zenon DEF TypeOK
  <1>2. Idle \in Commands(WorkerPcs)
    BY Zenon DEF Commands
  <1> QED
    BY <1>1, <1>2, Zenon DEF TypeOK, Goto, Finish

(* A host change keeps the levels of host and natif. *)
LEMMA LevelTypes ==
    ASSUME TypeOK, NEW n \in Names, NEW p, NEW l \in Levels, SetLevel(n, p, l)
    PROVE  host' \in [Names \ NATGWs -> Levels] /\ natif' \in [VPCs -> Levels]
  BY Zenon DEF TypeOK, SetLevel

(* The steps of Prepare and Dispatch keep the types. *)
LEMMA HandlerTypes ==
    ASSUME TypeOK, NEW h \in Handlers, Create(h) \/ Delete(h) \/ Prepare(h) \/ Dispatch(h)
    PROVE  TypeOK'
  <1>1. CASE Create(h) \/ Delete(h)
    <2>1. PICK a \in Placements : \/ hnd' = [hnd EXCEPT ![h] = Command("exists", "create", a[1], a[2])]
                                 \/ hnd' = [hnd EXCEPT ![h] = Command("deletable", "delete", a[1], None)]
      BY <1>1, Zenon DEF Create, Delete
    <2>2. /\ Command("exists", "create", a[1], a[2]) \in Commands(HandlerPcs)
          /\ Command("deletable", "delete", a[1], None) \in Commands(HandlerPcs)
      BY PlacementFacts, Zenon DEF Command, Commands, HandlerPcs, Refs
    <2>3. hnd' \in [Handlers -> Commands(HandlerPcs)]
      BY <2>1, <2>2, Zenon DEF TypeOK
    <2> QED
      BY <1>1, <2>3, HandlerFrame, Zenon DEF Create, Delete
  <1>2. CASE CheckAbsent(h) \/ CheckParent(h) \/ CheckDeletable(h) \/ ScanUsers(h) \/ ScanAttachments(h)
    <2>1. PICK pc \in HandlerPcs : /\ Become(h, pc) \/ Answer(h)
                                   /\ UNCHANGED <<st, ref, body, host, natif, queue, wk>>
      BY <1>2, Zenon DEF CheckAbsent, CheckParent, CheckDeletable, ScanUsers, ScanAttachments,
                  FirstScan, HandlerPcs, Proceed
    <2>2. hnd[h].pc # "idle"
      BY <1>2, Zenon DEF CheckAbsent, CheckParent, CheckDeletable, ScanUsers, ScanAttachments
    <2> QED
      BY <2>1, <2>2, HandlerMoves, HandlerFrame, Zenon
  <1>3. CASE CheckConflict(h)
    <2>1. hnd[h] \in Commands(HandlerPcs) /\ hnd[h].pc # "idle"
      BY <1>3, Zenon DEF TypeOK, CheckConflict
    <2>2. [hnd[h] EXCEPT !.pc = "write", !.todo = KeysToWrite(hnd[h].ref)] \in Commands(HandlerPcs)
      BY <2>1, ActiveCommand, Zenon DEF Commands, HandlerPcs, KeysToWrite
    <2>3. hnd' \in [Handlers -> Commands(HandlerPcs)]
      BY <1>3, <2>1, <2>2, HandlerMoves, Zenon DEF CheckConflict, TypeOK
    <2> QED
      BY <1>3, <2>3, HandlerFrame, Zenon DEF CheckConflict
  <1>4. CASE WriteKey(h)
    <2> DEFINE n == hnd[h].name
    <2>1. /\ hnd[h] \in [pc : HandlerPcs, op : {"create", "delete"}, name : Names, ref : Refs,
                         at : VPCs \cup {None}, todo : SUBSET Fields]
          /\ hnd[h].ref \in Parents(n) \cup {None}
      BY <1>4, ActiveCommand, Zenon DEF TypeOK, WriteKey
    <2>2. PICK f \in First(WriteRank(n), hnd[h].todo) :
             /\ IF f = "state" THEN st' = [st EXCEPT ![n] = "creating"] ELSE UNCHANGED st
             /\ IF f = "ref" THEN ref' = [ref EXCEPT ![n] = hnd[h].ref] ELSE UNCHANGED ref
             /\ IF f = "body" THEN body' = [body EXCEPT ![n] = TRUE] ELSE UNCHANGED body
             /\ hnd' = [hnd EXCEPT ![h].todo = @ \ {f},
                                   ![h].pc = IF hnd[h].todo = {f} THEN "dispatch" ELSE "write"]
      BY <1>4, Zenon DEF WriteKey
    <2>3. [hnd[h] EXCEPT !.todo = @ \ {f}, !.pc = IF hnd[h].todo = {f} THEN "dispatch" ELSE "write"]
             \in Commands(HandlerPcs)
      BY <2>1, Zenon DEF Commands, HandlerPcs
    <2>4. hnd' \in [Handlers -> Commands(HandlerPcs)]
      BY <2>2, <2>3, Zenon DEF TypeOK
    <2>5. st' \in [Names -> States \cup {None}] /\ body' \in [Names -> BOOLEAN]
      BY <2>1, <2>2, Zenon DEF TypeOK, States
    <2>6. ref' \in [Names -> Refs] /\ \A x \in Names : ref'[x] \in Parents(x) \cup {None}
      BY <2>1, <2>2, Zenon DEF TypeOK
    <2> QED
      BY <1>4, <2>4, <2>5, <2>6, Zenon DEF TypeOK, WriteKey
  <1>5. CASE MarkDeleting(h)
    <2>1. hnd' \in [Handlers -> Commands(HandlerPcs)]
      BY <1>5, HandlerMoves, Zenon DEF MarkDeleting, HandlerPcs
    <2>2. st' \in [Names -> States \cup {None}]
      BY <1>5, Zenon DEF TypeOK, MarkDeleting, States
    <2> QED
      BY <1>5, <2>1, <2>2, Zenon DEF TypeOK, MarkDeleting
  <1>6. CASE Dispatch(h)
    <2> DEFINE t == [op |-> hnd[h].op, name |-> hnd[h].name, ref |-> hnd[h].ref]
    <2>1. t \in Tasks /\ t.ref \in Parents(t.name) \cup {None}
      BY <1>6, ActiveCommand DEF Dispatch, TypeOK, Tasks, Refs
    <2>2. queue' = Append(queue, t) /\ queue \in Seq(Tasks)
      BY <1>6, Zenon DEF Dispatch, TypeOK
    <2>3. /\ queue' \in Seq(Tasks) /\ Len(queue') = Len(queue) + 1 /\ Len(queue) \in Nat
          /\ \A i \in 1..Len(queue) : queue'[i] = queue[i]
          /\ queue'[Len(queue) + 1] = t
      BY <2>1, <2>2, AppendFacts
    <2>4. \A i \in 1..Len(queue') : queue'[i].ref \in Parents(queue'[i].name) \cup {None}
      BY <2>1, <2>3, SMTT(30) DEF TypeOK
    <2>5. hnd' \in [Handlers -> Commands(HandlerPcs)]
      BY <1>6, HandlerMoves, Zenon DEF Dispatch
    <2> QED
      BY <1>6, <2>3, <2>4, <2>5, Zenon DEF TypeOK, Dispatch
  <1> QED
    BY <1>1, <1>2, <1>3, <1>4, <1>5, <1>6, Zenon DEF Prepare

(* The steps of the workers keep the types. *)
LEMMA WorkerTypes ==
    ASSUME TypeOK, NEW w \in Workers, Take(w) \/ Execute(w)
    PROVE  TypeOK'
  <1> DEFINE n == wk[w].name
  <1>a. wk[w] \in Commands(WorkerPcs)
    BY Zenon DEF TypeOK
  <1>b. ASSUME wk[w].pc # "idle"
        PROVE  /\ wk[w] \in [pc : WorkerPcs, op : {"create", "delete"}, name : Names, ref : Refs,
                             at : VPCs \cup {None}, todo : SUBSET Fields]
               /\ wk[w].ref \in Parents(n) \cup {None}
    BY <1>a, <1>b, ActiveCommand, Zenon
  <1>1. CASE Take(w)
    <2> DEFINE t == Head(queue)
    <2>1. queue \in Seq(Tasks) /\ queue # <<>> /\ queue' = Tail(queue)
      BY <1>1, Zenon DEF Take, TypeOK
    <2>2. /\ Len(queue) \in Nat \ {0} /\ t = queue[1] /\ t \in Tasks
          /\ queue' \in Seq(Tasks) /\ Len(queue') = Len(queue) - 1
          /\ \A i \in 1..Len(queue') : i + 1 \in 1..Len(queue) /\ queue'[i] = queue[i + 1]
      BY <2>1, TailFacts
    <2>3. t.ref \in Parents(t.name) \cup {None}
      BY <2>2 DEF TypeOK
    <2>4. Command(FirstStep(t), t.op, t.name, t.ref) \in Commands(WorkerPcs)
      BY <2>2, <2>3, Zenon DEF Command, FirstStep, Commands, WorkerPcs, Tasks, Refs
    <2>5. wk' \in [Workers -> Commands(WorkerPcs)]
      BY <1>1, <2>4, Zenon DEF Take, TypeOK
    <2>6. \A i \in 1..Len(queue') : queue'[i].ref \in Parents(queue'[i].name) \cup {None}
      BY <2>2, Zenon DEF TypeOK
    <2> QED
      BY <1>1, <2>2, <2>5, <2>6, Zenon DEF TypeOK, Take
  <1>2. CASE WaitDone(w) \/ WaitAbandoned(w) \/ Reread(w) \/ PurgeEnd(w)
    <2>1. wk' \in [Workers -> Commands(WorkerPcs)]
      BY <1>2, WorkerMoves, Zenon DEF WaitDone, WaitAbandoned, Reread, PurgeEnd, WorkerPcs
    <2> QED
      BY <1>2, <2>1, WorkerFrame, Zenon DEF WaitDone, WaitAbandoned, Reread, PurgeEnd
  <1>3. CASE LoadCreate(w) \/ LoadDelete(w)
    <2> DEFINE p == IF wk[w].op = "delete" \/ n \in Subnets \cup VMs THEN ref[n] ELSE wk[w].ref
               c == [wk[w] EXCEPT !.pc = IF wk[w].op = "create" THEN "build" ELSE "tear",
                                  !.ref = p, !.at = Site(n, p)]
    <2>1. wk[w].pc = "load"
      BY <1>3, Zenon DEF LoadCreate, LoadDelete
    <2>2. n \in Names /\ p \in Parents(n) \cup {None} /\ p \in Refs
      BY <2>1, <1>b, Zenon DEF TypeOK
    <2>3. \/ Goto(w, "fail") \/ Finish(w) \/ Goto(w, "reread")
          \/ Loadable(n, p) /\ wk' = [wk EXCEPT ![w] = c]
      BY <1>3, Zenon DEF LoadCreate, LoadDelete, TypeOK
    <2>4. ASSUME Loadable(n, p) PROVE c \in Commands(WorkerPcs)
      <3>1. n \in FIPs => p # None
        BY <2>4, Kinds, Zenon DEF Loadable
      <3>2. Site(n, p) \in VPCs \cup {None}
        BY <2>2, <3>1, SiteIsVPC, Zenon
      <3> QED
        BY <2>1, <2>2, <3>2, <1>b, Zenon DEF Commands, WorkerPcs
    <2>5. wk' \in [Workers -> Commands(WorkerPcs)]
      BY <2>1, <2>3, <2>4, WorkerMoves, SMTT(30) DEF TypeOK, WorkerPcs
    <2> QED
      BY <1>3, <2>5, WorkerFrame, Zenon DEF LoadCreate, LoadDelete
  <1>4. CASE BuildBegin(w) \/ BuildEnd(w) \/ TearBegin(w) \/ TearEnd(w)
    <2>1. wk[w].pc # "idle"
      BY <1>4, Zenon DEF BuildBegin, BuildEnd, TearBegin, TearEnd
    <2>2. wk' \in [Workers -> Commands(WorkerPcs)]
      BY <1>4, <2>1, WorkerMoves, Zenon DEF BuildBegin, BuildEnd, TearBegin, TearEnd, WorkerPcs
    <2>3. /\ n \in Names /\ UNCHANGED <<st, ref, body, hnd, queue>>
          /\ \/ UNCHANGED <<host, natif>>
             \/ \E l \in Levels : SetLevel(n, wk[w].ref, l)
             \/ /\ n \in VPCs /\ host' = [host EXCEPT ![n] = "absent"]
                /\ natif' = [natif EXCEPT ![n] = "absent"]
      BY <1>4, <2>1, <1>b, Zenon DEF BuildBegin, BuildEnd, TearBegin, TearEnd, Levels
    <2>4. host' \in [Names \ NATGWs -> Levels] /\ natif' \in [VPCs -> Levels]
      BY <2>3, LevelTypes, Zenon DEF TypeOK, Levels
    <2> QED
      BY <2>2, <2>3, <2>4, Zenon DEF TypeOK
  <1>5. CASE SetRunning(w) \/ SetDeleted(w) \/ MarkError(w)
    <2>1. wk' \in [Workers -> Commands(WorkerPcs)]
      BY <1>5, WorkerMoves, Zenon DEF SetRunning, SetDeleted, MarkError, WorkerPcs
    <2>2. st' \in [Names -> States \cup {None}]
      BY <1>5, Zenon DEF TypeOK, SetRunning, SetDeleted, MarkError, States
    <2> QED
      BY <1>5, <2>1, <2>2, Zenon DEF TypeOK, SetRunning, SetDeleted, MarkError
  <1>6. CASE PurgeList(w)
    <2>1. [wk[w] EXCEPT !.pc = "purging", !.todo = Present(n)] \in Commands(WorkerPcs)
      BY <1>6, <1>b, Zenon DEF PurgeList, Commands, WorkerPcs, Present
    <2>2. wk' \in [Workers -> Commands(WorkerPcs)]
      BY <1>6, <2>1, Zenon DEF PurgeList, TypeOK
    <2> QED
      BY <1>6, <2>2, WorkerFrame, Zenon DEF PurgeList
  <1>7. CASE PurgeKey(w)
    <2>1. PICK f \in First(PurgeRank(n), wk[w].todo) :
             /\ IF f = "state" THEN st' = [st EXCEPT ![n] = None] ELSE UNCHANGED st
             /\ IF f = "ref" THEN ref' = [ref EXCEPT ![n] = None] ELSE UNCHANGED ref
             /\ IF f = "body" THEN body' = [body EXCEPT ![n] = FALSE] ELSE UNCHANGED body
             /\ wk' = [wk EXCEPT ![w].todo = @ \ {f}]
      BY <1>7, Zenon DEF PurgeKey
    <2>2. [wk[w] EXCEPT !.todo = @ \ {f}] \in Commands(WorkerPcs)
      BY <1>7, <1>b, Zenon DEF PurgeKey, Commands
    <2>3. wk' \in [Workers -> Commands(WorkerPcs)]
      BY <2>1, <2>2, Zenon DEF TypeOK
    <2>4. st' \in [Names -> States \cup {None}] /\ body' \in [Names -> BOOLEAN]
      BY <2>1, Zenon DEF TypeOK
    <2>5. ref' \in [Names -> Refs] /\ \A x \in Names : ref'[x] \in Parents(x) \cup {None}
      BY <2>1, Zenon DEF TypeOK, Refs
    <2> QED
      BY <1>7, <2>3, <2>4, <2>5, Zenon DEF TypeOK, PurgeKey
  <1> QED
    BY <1>1, <1>2, <1>3, <1>4, <1>5, <1>6, <1>7, Zenon DEF Execute

(* The variables keep their types, and references their kinds, whatever    *)
(* clients ask for and however often the agent restarts.                   *)
THEOREM TypeCorrect == Spec => []TypeOK
  <1>1. Init => TypeOK
    <2>1. <<>> \in Seq(Tasks)
      OBVIOUS
    <2> QED
      BY <2>1 DEF Init, TypeOK, Refs, Levels, Commands
  <1>2. TypeOK /\ [Next]_vars => TypeOK'
    <2> SUFFICES ASSUME TypeOK, [Next]_vars PROVE TypeOK'
      BY Zenon
    <2>1. CASE Restart
      <3>1. <<>> \in Seq(Tasks)
        OBVIOUS
      <3>2. st' \in [Names -> States \cup {None}]
        BY <2>1, Zenon DEF Restart, targetState, Transient, States, TypeOK
      <3> QED
        BY <2>1, <3>1, <3>2 DEF Restart, TypeOK, Commands
    <2>2. CASE UNCHANGED vars
      BY <2>2, Zenon DEF vars, TypeOK
    <2> QED
      BY <2>1, <2>2, HandlerTypes, WorkerTypes, Zenon DEF Next
  <1> QED
    BY <1>1, <1>2, PTL DEF Spec

-----------------------------------------------------------------------------
(* What a step leaves alone *)

(* Nothing happens to the record and the host objects of n. *)
Same(n) == /\ st'[n] = st[n] /\ ref'[n] = ref[n] /\ body'[n] = body[n]
           /\ n \notin NATGWs => host'[n] = host[n]

(* The step of handler h, whose command is about a, is about a only. *)
HandlerStep(h, a) ==
    /\ hnd[h].name = a
    /\ \A k \in Handlers \ {h} : hnd'[k] = hnd[k]
    /\ hnd'[h].name \in {a, None}
    /\ UNCHANGED <<host, natif, queue, wk>>
    /\ \A n \in Names \ {a} : Same(n)

(* The same of worker w. *)
WorkerStep(w, a) ==
    /\ wk[w].name = a
    /\ \A x \in Workers \ {w} : wk'[x] = wk[x]
    /\ wk'[w].name \in {a, None}
    /\ UNCHANGED <<hnd, queue>>
    /\ \A n \in Names \ {a} : Same(n)

-----------------------------------------------------------------------------
(* The queue holds tasks. *)
LEMMA QueueTasks ==
    ASSUME TypeOK
    PROVE  \A i \in 1..Len(queue) : queue[i] \in Tasks
  <1>1. queue \in Seq(Tasks)
    BY Zenon DEF TypeOK
  <1> QED
    BY <1>1

(* A child that relies on its parent has one. *)
LEMMA ParentKnown ==
    ASSUME TypeOK, CommandInv, NEW c \in Subnets \cup VMs, Relies(c)
    PROVE  ref[c] \in VPCs \cup Subnets /\ ref[c] \in Parents(c)
  <1>1. ref[c] # None
    <2>1. CASE host[c] # "absent"
      BY <2>1, Kinds, Zenon DEF CommandInv, RecordOK, Holds, Names
    <2>2. CASE host[c] = "absent"
      <3>1. PICK w \in Workers : /\ wk[w].name = c /\ wk[w].op = "create"
                                 /\ wk[w].pc \in {"load", "build", "built", "running"}
        BY <2>2, Zenon DEF Relies
      <3>2. Written(wk[w])
        BY <3>1, Zenon DEF CommandInv, WorkerOK, Prepared, Names
      <3> QED
        BY <3>1, <3>2, Kinds, Zenon DEF Written
    <2> QED
      BY <2>1, <2>2, Zenon
  <1> QED
    BY <1>1, Kinds, Zenon DEF TypeOK, Parents, Names

(* What holds of a command still holds when neither it nor its record is   *)
(* touched.                                                                *)
LEMMA HandlerOKSame ==
    ASSUME NEW h \in Handlers, hnd'[h] = hnd[h], HandlerOK(hnd[h]), Same(hnd[h].name)
    PROVE  HandlerOK(hnd[h])'
  BY DEF HandlerOK, Same, Prepared, Written, Holds

LEMMA PreparedSame ==
    ASSUME NEW i \in 1..Len(queue), queue'[i] = queue[i], Prepared(queue[i]), Same(queue[i].name)
    PROVE  Prepared(queue[i])'
  BY Zenon DEF Same, Prepared, Written, Holds

LEMMA WorkerOKSame ==
    ASSUME NEW w \in Workers, wk'[w] = wk[w], WorkerOK(wk[w]), Same(wk[w].name)
    PROVE  WorkerOK(wk[w])'
  BY DEF WorkerOK, Same, Prepared, Written, Holds

(* A handler's step preserves the invariant when it does for its own name, *)
(* does not move a child that relies on its parent, and does not take a    *)
(* parent out of the states a child may rely on.                           *)
LEMMA HandlerStepKeeps ==
    ASSUME TypeOK, TypeOK', CommandInv, NEW h \in Handlers, NEW a \in Names,
           HandlerStep(h, a),
           hnd'[h].name = a => HandlerOK(hnd[h])',
           hnd'[h].name = None => st'[a] \notin Transient,
           RecordOK(a)',
           st[a] \in {"running", "deleting", "error"} =>
              st'[a] \in {"running", "deleting", "error"},
           a \in Tree /\ host[a] # "absent" => ref'[a] = ref[a],
           a \in NATGWs => \A v \in VPCs : Answers(a, v) => Answers(a, v)'
    PROVE  CommandInv'
  <1>0. Exclusive
    BY Zenon DEF CommandInv
  <1> USE DEF HandlerStep
  <1>1. Exclusive'
    <2>1. \A i \in 1..Len(queue) : queue[i].name \in Names
      BY QueueTasks, Zenon DEF Tasks
    <2>2. \A h1 \in Handlers : ~InQueue(hnd'[h1].name)
      BY <1>0, <2>1, Kinds DEF Exclusive, InQueue
    <2> QED
      BY <1>0, <2>2, Kinds DEF Exclusive, InQueue
  <1>2. ASSUME NEW k \in Handlers, hnd'[k].name \in Names PROVE HandlerOK(hnd[k])'
    <2>1. CASE k = h
      BY <1>2, <2>1, Kinds, Zenon
    <2>2. CASE k # h
      <3>1. hnd'[k] = hnd[k] /\ HandlerOK(hnd[k]) /\ Same(hnd[k].name)
        BY <1>2, <2>2, Kinds DEF CommandInv, Exclusive
      <3> QED
        BY <3>1, HandlerOKSame, Zenon
    <2> QED
      BY <2>1, <2>2, Zenon
  <1>3. ASSUME NEW i \in 1..Len(queue') PROVE Prepared(queue[i])'
    <2>1. queue'[i] = queue[i] /\ Prepared(queue[i]) /\ Same(queue[i].name)
      BY <1>3, QueueTasks, Kinds DEF CommandInv, Exclusive, InQueue, Tasks
    <2> QED
      BY <1>3, <2>1, PreparedSame, Zenon
  <1>4. ASSUME NEW w \in Workers, wk'[w].name \in Names PROVE WorkerOK(wk[w])'
    <2>1. wk'[w] = wk[w] /\ WorkerOK(wk[w]) /\ Same(wk[w].name)
      BY <1>4, Kinds DEF CommandInv, Exclusive
    <2> QED
      BY <2>1, WorkerOKSame, Zenon
  <1>5. ASSUME NEW n \in Names PROVE RecordOK(n)'
    <2>1. CASE n = a
      BY <2>1, <1>5, Zenon
    <2>2. CASE n # a
      <3>1. RecordOK(n) /\ Same(n)
        BY <1>5, <2>2, Zenon DEF CommandInv
      <3>2. Busy(n) => Busy(n)'
        BY <2>2, Zenon DEF Busy
      <3> QED
        BY <3>1, <3>2, Zenon DEF RecordOK, Same, Holds
    <2> QED
      BY <2>1, <2>2, Zenon
  <1>6. ASSUME NEW c \in Subnets \cup VMs, Relies(c)' PROVE Supported(ref[c])'
    <2>1. Relies(c)
      BY <1>6, Zenon DEF Relies
    <2>2. Supported(ref[c])
      BY <2>1, Zenon DEF CommandInv
    <2>3. ref'[c] = ref[c]
      <3>1. CASE c = a
        <4>1. \A w \in Workers : wk[w].name # a
          BY <1>0, Kinds, Zenon DEF Exclusive, Names
        <4>2. host[c] # "absent"
          BY <2>1, <3>1, <4>1, Zenon DEF Relies
        <4> QED
          BY <3>1, <4>2, Zenon DEF Tree
      <3>2. CASE c # a
        BY <3>2, Zenon DEF Same, Names
      <3> QED
        BY <3>1, <3>2, Zenon
    <2>4. ref[c] \in Names
      BY <2>1, ParentKnown, Zenon DEF Names
    <2>5. st'[ref[c]] \in {"running", "deleting", "error"}
      BY <2>2, <2>4, Zenon DEF Supported, Same
    <2> QED
      BY <2>2, <2>3, <2>5, Zenon DEF Supported, Closing
  <1>7. ASSUME NEW v \in VPCs, natif'[v] # "absent" PROVE \E g \in NATGWs : Answers(g, v)'
    <2>1. PICK g \in NATGWs : Answers(g, v)
      BY <1>7, Zenon DEF CommandInv
    <2>2. CASE g = a
      BY <2>1, <2>2, Zenon
    <2>3. CASE g # a
      <3>1. Same(g) /\ g # None
        BY <2>3, Kinds, Zenon DEF Names
      <3> QED
        BY <2>1, <2>3, <3>1 DEF Answers, Same
    <2> QED
      BY <2>2, <2>3, Zenon
  <1> QED
    BY <1>1, <1>2, <1>3, <1>4, <1>5, <1>6, <1>7, Zenon DEF CommandInv

(* Nothing hangs on itself. *)
LEMMA NotItsParent ==
    ASSUME TypeOK, NEW c \in Subnets \cup VMs, ref[c] \in VPCs \cup Subnets
    PROVE  ref[c] # c
  <1>1. ref[c] \in Parents(c) \cup {None} /\ None \notin VPCs \cup Subnets
    BY Kinds, Zenon DEF TypeOK, Names
  <1> QED
    BY <1>1, Kinds, Zenon DEF Parents

(* A worker's step makes no one but the resource of its command rely on a  *)
(* parent ...                                                              *)
LEMMA OthersRely ==
    ASSUME NEW w \in Workers, NEW a \in Names, WorkerStep(w, a),
           NEW c \in Subnets \cup VMs, c # a, Relies(c)'
    PROVE  Relies(c)
  <1>1. host'[c] = host[c] /\ c # None
    BY Kinds, Zenon DEF WorkerStep, Same, Names
  <1> QED
    BY <1>1, Zenon DEF Relies, WorkerStep

(* ... and closes no other resource. *)
LEMMA OthersClose ==
    ASSUME NEW w \in Workers, NEW a \in Names, WorkerStep(w, a),
           NEW p \in Tree, p # a, Closing(p)'
    PROVE  Closing(p)
  <1>1. p # None
    BY Kinds, Zenon DEF Tree, Names
  <1> QED
    BY <1>1, Zenon DEF Closing, WorkerStep

(* What the other NAT gateways answer for stays. *)
LEMMA OthersAnswer ==
    ASSUME NEW w \in Workers, NEW a \in Names, WorkerStep(w, a),
           NEW g \in NATGWs, g # a, NEW v \in VPCs, Answers(g, v)
    PROVE  Answers(g, v)'
  <1>1. Same(g) /\ g # None
    BY Kinds, Zenon DEF WorkerStep, Names
  <1> QED
    BY <1>1 DEF Answers, WorkerStep, Same

(* A worker's step preserves the invariant when it does for its own name,  *)
(* does not make a child rely on a parent that does not support it, leaves *)
(* a parent that a child relies on as it was, and leaves no NAT interface  *)
(* without a gateway that answers for it.                                  *)
LEMMA WorkerStepKeeps ==
    ASSUME TypeOK, TypeOK', CommandInv, NEW w \in Workers, NEW a \in Names,
           WorkerStep(w, a),
           wk'[w].name = a => WorkerOK(wk[w])',
           wk'[w].name = None => st'[a] \notin Transient,
           RecordOK(a)',
           a \in Subnets \cup VMs =>
              (Relies(a)' => ref'[a] = ref[a] /\ ref[a] \in VPCs \cup Subnets /\ Supported(ref[a])),
           \A c \in Subnets \cup VMs : ref[c] = a /\ Relies(c) => Supported(a)',
           \A v \in VPCs : natif'[v] # "absent" =>
              \/ a \in NATGWs /\ Answers(a, v)'
              \/ natif[v] # "absent" /\ (a \in NATGWs => ~Answers(a, v))
    PROVE  CommandInv'
  <1>0. Exclusive
    BY Zenon DEF CommandInv
  <1> USE DEF WorkerStep
  <1>1. Exclusive'
    <2>1. \A i \in 1..Len(queue) : queue[i].name \in Names
      BY QueueTasks, Zenon DEF Tasks
    <2>2. \A x \in Workers : ~InQueue(wk'[x].name)
      BY <1>0, <2>1, Kinds DEF Exclusive, InQueue
    <2> QED
      BY <1>0, <2>2, Kinds DEF Exclusive, InQueue
  <1>2. ASSUME NEW k \in Handlers, hnd'[k].name \in Names PROVE HandlerOK(hnd[k])'
    <2>1. hnd'[k] = hnd[k] /\ HandlerOK(hnd[k]) /\ Same(hnd[k].name)
      BY <1>2, Kinds, SMTT(30) DEF CommandInv, Exclusive
    <2> QED
      BY <2>1, HandlerOKSame, Zenon
  <1>3. ASSUME NEW i \in 1..Len(queue') PROVE Prepared(queue[i])'
    <2>1. queue'[i] = queue[i] /\ Prepared(queue[i]) /\ Same(queue[i].name)
      BY <1>3, QueueTasks, Kinds, SMTT(30) DEF CommandInv, Exclusive, InQueue, Tasks
    <2> QED
      BY <1>3, <2>1, PreparedSame, Zenon
  <1>4. ASSUME NEW x \in Workers, wk'[x].name \in Names PROVE WorkerOK(wk[x])'
    <2>1. CASE x = w
      BY <1>4, <2>1, Kinds, Zenon
    <2>2. CASE x # w
      <3>1. wk'[x] = wk[x] /\ WorkerOK(wk[x]) /\ Same(wk[x].name)
        BY <1>4, <2>2, Kinds, SMTT(30) DEF CommandInv, Exclusive
      <3> QED
        BY <3>1, WorkerOKSame, Zenon
    <2> QED
      BY <2>1, <2>2, Zenon
  <1>5. ASSUME NEW n \in Names PROVE RecordOK(n)'
    <2>1. CASE n = a
      BY <2>1, <1>5, Zenon
    <2>2. CASE n # a
      <3>1. RecordOK(n) /\ Same(n)
        BY <1>5, <2>2, Zenon DEF CommandInv
      <3>2. Busy(n) => Busy(n)'
        BY <2>2, Zenon DEF Busy
      <3> QED
        BY <3>1, <3>2, Zenon DEF RecordOK, Same, Holds
    <2> QED
      BY <2>1, <2>2, Zenon
  <1>6. ASSUME NEW c \in Subnets \cup VMs, Relies(c)' PROVE Supported(ref[c])'
    <2>1. ref'[c] = ref[c] /\ ref[c] \in VPCs \cup Subnets /\ Supported(ref[c])
      <3>1. CASE c = a
        BY <1>6, <3>1, Zenon
      <3>2. CASE c # a
        <4>1. Same(c)
          BY <3>2, Zenon DEF Names
        <4>2. Relies(c)
          BY <1>6, <3>2, OthersRely, Zenon
        <4> QED
          BY <4>1, <4>2, ParentKnown, Zenon DEF CommandInv, Same
      <3> QED
        BY <3>1, <3>2, Zenon
    <2>2. CASE ref[c] = a
      <3>1. c # a
        BY <2>1, <2>2, NotItsParent, Zenon
      <3>2. Relies(c)
        BY <1>6, <3>1, OthersRely, Zenon
      <3>3. Supported(a)'
        BY <2>2, <3>2, Zenon
      <3> QED
        BY <2>1, <2>2, <3>3, Zenon DEF Supported, Closing
    <2>3. CASE ref[c] # a
      <3>1. PICK p \in Tree : p = ref[c]
        BY <2>1, Zenon DEF Tree
      <3>2. Same(p) /\ Supported(p)
        BY <2>1, <2>3, <3>1, Zenon DEF Tree, Names
      <3>3. ~Closing(p)'
        BY <2>3, <3>1, <3>2, OthersClose, Zenon DEF Supported
      <3>4. Supported(p)'
        BY <3>1, <3>2, <3>3, Kinds, Zenon DEF Supported, Same, Tree
      <3> QED
        BY <2>1, <3>1, <3>4 DEF Supported, Closing
    <2> QED
      BY <2>2, <2>3, Zenon
  <1>7. ASSUME NEW v \in VPCs, natif'[v] # "absent" PROVE \E g \in NATGWs : Answers(g, v)'
    <2>1. CASE a \in NATGWs /\ Answers(a, v)'
      BY <2>1, Zenon
    <2>2. CASE natif[v] # "absent" /\ (a \in NATGWs => ~Answers(a, v))
      <3>1. PICK g \in NATGWs : Answers(g, v)
        BY <2>2, Zenon DEF CommandInv
      <3>2. g # a
        BY <2>2, <3>1, Zenon
      <3> QED
        BY <3>1, <3>2, OthersAnswer, Zenon
    <2> QED
      BY <1>7, <2>1, <2>2, Zenon
  <1> QED
    BY <1>1, <1>2, <1>3, <1>4, <1>5, <1>6, <1>7, Zenon DEF CommandInv
-----------------------------------------------------------------------------
(* The steps that pass a command on, from a client to a handler, to the    *)
(* queue and to a worker. *)

(* What holds of a command holds of it in the new state when no record is  *)
(* touched.                                                                *)
LEMMA HandlerOKNew ==
    ASSUME UNCHANGED <<st, ref, body, host>>, NEW h \in Handlers, HandlerOK(hnd'[h])
    PROVE  HandlerOK(hnd[h])'
  BY Zenon DEF HandlerOK, Prepared, Written, Holds

LEMMA PreparedNew ==
    ASSUME UNCHANGED <<st, ref, body, host>>, NEW i \in 1..Len(queue'), Prepared(queue'[i])
    PROVE  Prepared(queue[i])'
  BY Zenon DEF Prepared, Written, Holds

LEMMA WorkerOKNew ==
    ASSUME UNCHANGED <<st, ref, body, host>>, NEW w \in Workers, WorkerOK(wk'[w])
    PROVE  WorkerOK(wk[w])'
  BY Zenon DEF WorkerOK, Prepared, Written, Holds

(* A command as a worker takes it from the queue. *)
Taken(c) == /\ c.pc \in {"wait", "load"}
            /\ c.pc = "load" => IF c.op = "create" THEN c.name \notin Subnets \cup VMs
                                ELSE c.name \notin VPCs \cup Subnets

(* A step that only passes commands on: the store and the host stay.  Each *)
(* command is in order, every busy name stays busy, and no one comes to    *)
(* rely on a parent, or to close one.                                      *)
LEMMA PassingOnKeeps ==
    ASSUME TypeOK, TypeOK', CommandInv, UNCHANGED <<st, ref, body, host, natif>>, Exclusive',
           \A h \in Handlers : hnd'[h].name \in Names => HandlerOK(hnd'[h]),
           \A i \in 1..Len(queue') : Prepared(queue'[i]),
           \A w \in Workers : wk'[w].name \in Names => WorkerOK(wk'[w]),
           \A n \in Names : Busy(n) => Busy(n)',
           \A h \in Handlers : hnd'[h] = hnd[h] \/ hnd'[h].pc # "write",
           \A w \in Workers : wk'[w] = wk[w] \/ Taken(wk'[w])
    PROVE  CommandInv'
  <1>1. ASSUME NEW h \in Handlers, hnd'[h].name \in Names PROVE HandlerOK(hnd[h])'
    BY <1>1, HandlerOKNew, Zenon
  <1>2. ASSUME NEW i \in 1..Len(queue') PROVE Prepared(queue[i])'
    BY <1>2, PreparedNew, Zenon
  <1>3. ASSUME NEW w \in Workers, wk'[w].name \in Names PROVE WorkerOK(wk[w])'
    BY <1>3, WorkerOKNew, Zenon
  <1>4. ASSUME NEW n \in Names PROVE RecordOK(n)'
    BY <1>4, Zenon DEF RecordOK, CommandInv, Holds
  <1>5. ASSUME NEW c \in Subnets \cup VMs, Relies(c)' PROVE Supported(ref[c])'
    <2>1. Relies(c)
      BY <1>5, Zenon DEF Relies, Taken
    <2>2. Supported(ref[c]) /\ ref[c] \in VPCs \cup Subnets
      BY <2>1, ParentKnown, Zenon DEF CommandInv
    <2>3. Closing(ref[c])' => Closing(ref[c])
      BY <2>2, Zenon DEF Closing, Taken
    <2> QED
      BY <2>2, <2>3, Zenon DEF Supported
  <1>6. ASSUME NEW v \in VPCs, natif'[v] # "absent" PROVE \E g \in NATGWs : Answers(g, v)'
    <2>1. PICK g \in NATGWs : Answers(g, v)
      BY <1>6, Zenon DEF CommandInv
    <2>2. Answers(g, v)'
      BY <2>1, Zenon DEF Answers, Taken
    <2> QED
      BY <2>2, Zenon
  <1> QED
    BY <1>1, <1>2, <1>3, <1>4, <1>5, <1>6, Zenon DEF CommandInv

(* A request comes in: Patient means that nothing else is about its name,  *)
(* and then its state is not a transient one.                              *)
LEMMA RequestKeeps ==
    ASSUME TypeOK, TypeOK', CommandInv, Patient, NEW h \in Handlers, Create(h) \/ Delete(h)
    PROVE  CommandInv'
  <1>1. PICK a \in Placements :
           /\ ~Busy(a[1])
           /\ \/ hnd' = [hnd EXCEPT ![h] = Command("exists", "create", a[1], a[2])]
              \/ hnd' = [hnd EXCEPT ![h] = Command("deletable", "delete", a[1], None)]
    BY Zenon DEF Create, Delete
  <1>2. UNCHANGED <<st, ref, body, host, natif, queue, wk>> /\ hnd[h].pc = "idle"
    BY Zenon DEF Create, Delete
  <1>3. /\ hnd[h].name = None /\ hnd'[h].name = a[1] /\ a[1] \in Names
        /\ \A k \in Handlers \ {h} : hnd'[k] = hnd[k]
        /\ hnd'[h].pc # "write"
    BY <1>1, <1>2, PlacementFacts, SMTT(30) DEF TypeOK, Commands, HandlerPcs, Idle, Command
  <1>4. Exclusive'
    <2>1. \A k \in Handlers : hnd[k].name # a[1]
      BY <1>1, Zenon DEF Busy
    <2>2. ~InQueue(a[1])
      BY <1>1, Zenon DEF Busy, InQueue
    <2>3. \A w \in Workers : wk[w].name # a[1]
      BY <1>1, Zenon DEF Busy
    <2> QED
      BY <1>2, <1>3, <2>1, <2>2, <2>3 DEF CommandInv, Exclusive, InQueue
  <1>5. ASSUME NEW k \in Handlers, hnd'[k].name \in Names PROVE HandlerOK(hnd'[k])
    <2>1. CASE k = h
      <3>1. st[a[1]] \notin Transient
        BY <1>1, <1>3, <1>5, <2>1, Zenon DEF CommandInv, RecordOK
      <3>2. \/ hnd'[h] = Command("exists", "create", a[1], a[2])
            \/ hnd'[h] = Command("deletable", "delete", a[1], None)
        BY <1>1, Zenon DEF TypeOK
      <3> QED
        BY <2>1, <3>1, <3>2, PlacementFacts DEF HandlerOK, Command
    <2>2. CASE k # h
      BY <1>3, <1>5, <2>2, Zenon DEF CommandInv
    <2> QED
      BY <2>1, <2>2, Zenon
  <1>6. ASSUME NEW n \in Names, Busy(n) PROVE Busy(n)'
    BY <1>2, <1>3, <1>6, Kinds, Zenon DEF Busy
  <1> QED
    BY <1>2, <1>3, <1>4, <1>5, <1>6, PassingOnKeeps, Zenon DEF CommandInv

(* The command goes from its handler to the queue. *)
LEMMA DispatchKeeps ==
    ASSUME TypeOK, TypeOK', CommandInv, NEW h \in Handlers, Dispatch(h)
    PROVE  CommandInv'
  <1> DEFINE t == [op |-> hnd[h].op, name |-> hnd[h].name, ref |-> hnd[h].ref]
  <1>1. /\ hnd[h].pc = "dispatch" /\ UNCHANGED <<st, ref, body, host, natif, wk>>
        /\ hnd'[h] = Idle /\ \A k \in Handlers \ {h} : hnd'[k] = hnd[k]
    BY Zenon DEF Dispatch, Answer, TypeOK
  <1>2. t \in Tasks /\ t.name \in Names
    BY <1>1, ActiveCommand DEF TypeOK, Tasks, Refs
  <1>3. /\ Len(queue) \in Nat /\ Len(queue') = Len(queue) + 1
        /\ \A i \in 1..Len(queue) : queue'[i] = queue[i]
        /\ queue'[Len(queue) + 1] = t
    BY <1>2, AppendFacts DEF Dispatch, TypeOK
  <1>4. \A i \in 1..Len(queue') : \/ i \in 1..Len(queue) /\ queue'[i] = queue[i]
                                  \/ i = Len(queue) + 1 /\ queue'[i] = t
    BY <1>3
  <1>b. Exclusive
    BY Zenon DEF CommandInv
  <1>a. PICK a \in Names : a = t.name
    BY <1>2, Zenon
  <1>5. \A n : InQueue(n)' => InQueue(n) \/ n = a
    BY <1>4, <1>a, Zenon DEF InQueue
  <1>6. \A n : InQueue(n) => InQueue(n)'
    BY <1>3 DEF InQueue
  <1>7. InQueue(a)'
    <2>1. Len(queue) + 1 \in 1..Len(queue')
      BY <1>3
    <2> QED
      BY <1>3, <1>a, <2>1, Zenon DEF InQueue
  <1>8. Exclusive'
    <2>1. \A k \in Handlers : ~InQueue(hnd[k].name)'
      <3>1. ~InQueue(None)
        BY QueueTasks, Kinds, Zenon DEF InQueue, Tasks
      <3>2. \A k \in Handlers : hnd'[k].name # a
        BY <1>1, <1>a, Kinds, <1>b DEF Exclusive, Idle
      <3>3. \A k \in Handlers : ~InQueue(hnd'[k].name)
        BY <1>1, <3>1, <1>b DEF Exclusive, Idle
      <3> QED
        BY <1>5, <3>2, <3>3, Zenon
    <2>2. \A w \in Workers : ~InQueue(wk[w].name)'
      BY <1>1, <1>a, <1>5, Kinds, <1>b DEF Exclusive
    <2>3. \A i, j \in 1..Len(queue') : queue'[i].name = queue'[j].name => i = j
      BY <1>4, <1>b, SMTT(30) DEF Exclusive, InQueue
    <2>4. /\ \A g, k \in Handlers : hnd'[g].name = hnd'[k].name /\ hnd'[g].name # None => g = k
          /\ \A g \in Handlers, w \in Workers : hnd'[g].name = wk'[w].name => hnd'[g].name = None
      BY <1>1, <1>b DEF Exclusive, Idle
    <2> QED
      BY <1>1, <2>1, <2>2, <2>3, <2>4, <1>b, Zenon DEF Exclusive
  <1>9. ASSUME NEW k \in Handlers, hnd'[k].name \in Names PROVE HandlerOK(hnd'[k])
    BY <1>1, <1>9, Kinds DEF CommandInv, Idle
  <1>10. ASSUME NEW i \in 1..Len(queue') PROVE Prepared(queue'[i])
    <2>1. CASE queue'[i] = t
      <3>1. Prepared(hnd[h])
        BY <1>1, <1>2, Zenon DEF CommandInv, HandlerOK
      <3> QED
        BY <2>1, <3>1, SMTT(30) DEF Prepared, Written
    <2>2. CASE i \in 1..Len(queue) /\ queue'[i] = queue[i]
      BY <1>10, <2>2, Zenon DEF CommandInv
    <2> QED
      BY <1>4, <2>1, <2>2, Zenon
  <1>11. ASSUME NEW n \in Names, Busy(n) PROVE Busy(n)'
    <2>1. CASE n = a
      BY <2>1, <1>7, Zenon DEF Busy, InQueue
    <2>2. CASE n # a
      <3>1. InQueue(n) => InQueue(n)'
        BY <1>6, Zenon
      <3> QED
        BY <1>1, <1>a, <1>11, <2>2, <3>1, Zenon DEF Busy, InQueue
    <2> QED
      BY <2>1, <2>2, Zenon
  <1> QED
    BY <1>1, <1>8, <1>9, <1>10, <1>11, PassingOnKeeps, SMTT(30) DEF CommandInv, Idle

(* An idle worker has no command. *)
LEMMA IdleWorker ==
    ASSUME TypeOK, NEW w \in Workers, wk[w].pc = "idle"
    PROVE  wk[w].name = None
  <1>1. wk[w] \in Commands(WorkerPcs)
    BY Zenon DEF TypeOK
  <1> QED
    BY <1>1 DEF Commands, WorkerPcs, Idle

(* Taking the first task takes its name out of the queue, and no other. *)
LEMMA HeadLeaves ==
    ASSUME queue \in Seq(Tasks), Exclusive, queue # <<>>, queue' = Tail(queue),
           NEW t, t = Head(queue)
    PROVE  /\ t = queue[1] /\ 1 \in 1..Len(queue) /\ t \in Tasks /\ InQueue(t.name)
           /\ \A i \in 1..Len(queue') : i + 1 \in 1..Len(queue) /\ queue'[i] = queue[i + 1]
           /\ \A i, j \in 1..Len(queue') : queue'[i].name = queue'[j].name => i = j
           /\ \A n : InQueue(n)' => InQueue(n) /\ n # t.name
           /\ \A n : InQueue(n) => InQueue(n)' \/ n = t.name
  <1>1. /\ Len(queue) \in Nat \ {0} /\ t = queue[1] /\ t \in Tasks
        /\ Len(queue') = Len(queue) - 1
        /\ \A i \in 1..Len(queue') : i + 1 \in 1..Len(queue) /\ queue'[i] = queue[i + 1]
    BY TailFacts
  <1>2. InQueue(t.name)
    BY <1>1 DEF InQueue
  <1>3. \A i, j \in 1..Len(queue') : queue'[i].name = queue'[j].name => i = j
    BY <1>1 DEF Exclusive
  <1>4. ASSUME NEW n, InQueue(n)' PROVE InQueue(n) /\ n # t.name
    <2>1. PICK i \in 1..Len(queue') : queue'[i].name = n
      BY <1>4, Zenon DEF InQueue
    <2>2. i + 1 \in 1..Len(queue) /\ queue[i + 1].name = n /\ i + 1 # 1 /\ 1 \in 1..Len(queue)
      BY <1>1, <2>1
    <2> QED
      BY <1>1, <2>2, Zenon DEF InQueue, Exclusive
  <1>5. ASSUME NEW n, InQueue(n), n # t.name PROVE InQueue(n)'
    <2>1. PICK i \in 1..Len(queue) : queue[i].name = n
      BY <1>5, Zenon DEF InQueue
    <2>2. i - 1 \in 1..Len(queue') /\ queue'[i - 1] = queue[i]
      BY <1>1, <1>5, <2>1, SMTT(30)
    <2> QED
      BY <2>1, <2>2, Zenon DEF InQueue
  <1> QED
    BY <1>1, <1>2, <1>3, <1>4, <1>5

(* The command goes from the queue to a worker. *)
LEMMA TakeKeeps ==
    ASSUME TypeOK, TypeOK', CommandInv, NEW w \in Workers, Take(w)
    PROVE  CommandInv'
  <1>1. PICK t : t = Head(queue)
    BY Zenon
  <1>2. PICK c : c = Command(FirstStep(t), t.op, t.name, t.ref)
    BY Zenon
  <1>3. /\ wk[w].pc = "idle" /\ UNCHANGED <<st, ref, body, host, natif, hnd>>
        /\ queue # <<>> /\ queue' = Tail(queue) /\ wk' = [wk EXCEPT ![w] = c]
    BY <1>1, <1>2, Zenon DEF Take
  <1>4. /\ wk[w].name = None
        /\ wk'[w] = c /\ \A x \in Workers \ {w} : wk'[x] = wk[x]
    BY <1>3, IdleWorker, Zenon DEF TypeOK
  <1>5. Exclusive /\ queue \in Seq(Tasks)
    BY Zenon DEF CommandInv, TypeOK
  <1>6. /\ t = queue[1] /\ 1 \in 1..Len(queue) /\ t \in Tasks /\ InQueue(t.name)
        /\ \A i \in 1..Len(queue') : i + 1 \in 1..Len(queue) /\ queue'[i] = queue[i + 1]
        /\ \A i, j \in 1..Len(queue') : queue'[i].name = queue'[j].name => i = j
        /\ \A n : InQueue(n)' => InQueue(n) /\ n # t.name
        /\ \A n : InQueue(n) => InQueue(n)' \/ n = t.name
    BY <1>1, <1>3, <1>5, HeadLeaves, Zenon
  <1>7. c.name = t.name /\ c.op = t.op /\ c.ref = t.ref /\ c.pc = FirstStep(t)
    BY <1>2, Zenon DEF Command
  <1>8. Exclusive'
    <2>1. \A k \in Handlers : ~InQueue(hnd[k].name)'
      BY <1>3, <1>5, <1>6, Zenon DEF Exclusive
    <2>2. \A x \in Workers : ~InQueue(wk[x].name)'
      BY <1>4, <1>5, <1>6, <1>7, SMTT(30) DEF Exclusive
    <2>3. \A x, y \in Workers : wk'[x].name = wk'[y].name /\ wk'[x].name # None => x = y
      BY <1>4, <1>5, <1>6, <1>7, SMTT(30) DEF Exclusive
    <2>4. \A k \in Handlers, x \in Workers : hnd'[k].name = wk'[x].name => hnd'[k].name = None
      BY <1>3, <1>4, <1>5, <1>6, <1>7, SMTT(30) DEF Exclusive
    <2>5. \A h, k \in Handlers : hnd'[h].name = hnd'[k].name /\ hnd'[h].name # None => h = k
      BY <1>3, <1>5, Zenon DEF Exclusive
    <2> QED
      BY <1>6, <2>1, <2>2, <2>3, <2>4, <2>5, Zenon DEF Exclusive
  <1>9. ASSUME NEW i \in 1..Len(queue') PROVE Prepared(queue'[i])
    BY <1>6, <1>9, Zenon DEF CommandInv
  <1>10. ASSUME NEW x \in Workers, wk'[x].name \in Names PROVE WorkerOK(wk'[x])
    <2>1. CASE x = w
      <3>1. Prepared(t)
        BY <1>4, <1>6, <1>7, <1>10, <2>1, Zenon DEF CommandInv
      <3>2. Prepared(c) /\ c.pc \in {"wait", "load"}
        BY <3>1, <1>7, Zenon DEF Prepared, Written, Holds, FirstStep
      <3> QED
        BY <1>4, <2>1, <3>2, Zenon DEF WorkerOK
    <2>2. CASE x # w
      BY <1>4, <1>10, <2>2, Zenon DEF CommandInv
    <2> QED
      BY <2>1, <2>2, Zenon
  <1>11. Taken(c)
    BY <1>6, <1>7, Zenon DEF Taken, FirstStep, Tasks
  <1>12. ASSUME NEW n \in Names, Busy(n) PROVE Busy(n)'
    <2>1. n # None
      BY <1>12, Kinds, Zenon
    <2>2. InQueue(n) => InQueue(n)' \/ n = c.name
      BY <1>6, <1>7, Zenon
    <2> QED
      BY <1>3, <1>4, <1>12, <2>1, <2>2, Zenon DEF Busy, InQueue
  <1> QED
    BY <1>3, <1>4, <1>8, <1>9, <1>10, <1>11, <1>12, PassingOnKeeps, Zenon DEF CommandInv

-----------------------------------------------------------------------------
(* Execute touches no record but that of its command. *)
LEMMA ExecuteIsLocal ==
    ASSUME TypeOK, NEW w \in Workers, Execute(w), NEW a \in Names, wk[w].name = a
    PROVE  WorkerStep(w, a)
  <1>1. wk[w] \in [pc : WorkerPcs, op : {"create", "delete"}, name : Names, ref : Refs,
                   at : VPCs \cup {None}, todo : SUBSET Fields]
    <2>1. wk[w] \in Commands(WorkerPcs) /\ wk[w] # Idle
      BY Kinds DEF TypeOK, Idle
    <2> QED
      BY <2>1, Zenon DEF Commands
  <1>2. ASSUME NEW pc, Goto(w, pc) \/ Finish(w)
        PROVE  (\A x \in Workers \ {w} : wk'[x] = wk[x]) /\ wk'[w].name \in {a, None}
    BY <1>1, <1>2 DEF Goto, Finish, Idle, TypeOK
  <1>3. ASSUME NEW p, NEW l, SetLevel(a, p, l) PROVE \A n \in Names \ ({a} \cup NATGWs) : host'[n] = host[n]
    BY <1>3, Kinds, Zenon DEF SetLevel, TypeOK
  <1>4. CASE WaitDone(w) \/ WaitAbandoned(w) \/ Reread(w) \/ PurgeEnd(w)
    BY <1>2, <1>4, Zenon DEF WaitDone, WaitAbandoned, Reread, PurgeEnd, WorkerStep, Same
  <1>5. CASE LoadCreate(w) \/ LoadDelete(w)
    <2>1. UNCHANGED <<st, ref, body, host, hnd, queue>>
      BY <1>5, Zenon DEF LoadCreate, LoadDelete
    <2>2. (\A x \in Workers \ {w} : wk'[x] = wk[x]) /\ wk'[w].name \in {a, None}
      BY <1>1, <1>5, <1>2 DEF LoadCreate, LoadDelete, TypeOK
    <2> QED
      BY <2>1, <2>2, Zenon DEF WorkerStep, Same
  <1>6. CASE BuildBegin(w) \/ BuildEnd(w) \/ TearBegin(w) \/ TearEnd(w)
    <2>1. (\A x \in Workers \ {w} : wk'[x] = wk[x]) /\ wk'[w].name \in {a, None}
      BY <1>6, <1>2, Zenon DEF BuildBegin, BuildEnd, TearBegin, TearEnd
    <2>2. UNCHANGED <<st, ref, body, hnd, queue>>
      BY <1>6, Zenon DEF BuildBegin, BuildEnd, TearBegin, TearEnd
    <2>3. \/ UNCHANGED host
          \/ \E l \in Levels : SetLevel(a, wk[w].ref, l)
          \/ a \in VPCs /\ host' = [host EXCEPT ![a] = "absent"]
      BY <1>6, Zenon DEF BuildBegin, BuildEnd, TearBegin, TearEnd, Levels
    <2>4. \A n \in Names \ ({a} \cup NATGWs) : host'[n] = host[n]
      BY <2>3, <1>3, Kinds, Zenon DEF TypeOK
    <2> QED
      BY <2>1, <2>2, <2>4, Zenon DEF WorkerStep, Same
  <1>7. CASE SetRunning(w) \/ SetDeleted(w) \/ MarkError(w)
    <2>1. \A n \in Names \ {a} : Same(n)
      BY <1>7, Zenon DEF SetRunning, SetDeleted, MarkError, Same, TypeOK
    <2> QED
      BY <2>1, <1>2, <1>7, Zenon DEF SetRunning, SetDeleted, MarkError, WorkerStep
  <1>8. CASE PurgeList(w) \/ PurgeKey(w)
    <2>1. \A n \in Names \ {a} : Same(n)
      BY <1>8 DEF PurgeList, PurgeKey, Same, TypeOK
    <2>2. (\A x \in Workers \ {w} : wk'[x] = wk[x]) /\ wk'[w].name \in {a, None}
      BY <1>1, <1>8 DEF PurgeList, PurgeKey, TypeOK
    <2> QED
      BY <1>8, <2>1, <2>2, Zenon DEF PurgeList, PurgeKey, WorkerStep
  <1> QED
    BY <1>4, <1>5, <1>6, <1>7, <1>8, Zenon DEF Execute

(* No child relies on a resource that is being created, or that is closing. *)
LEMMA NoChild ==
    ASSUME TypeOK, CommandInv, NEW w \in Workers, NEW a \in Names, wk[w].name = a,
           \/ wk[w].op = "create" /\ wk[w].pc \in {"wait", "load", "build", "built", "running"}
           \/ /\ wk[w].op = "delete"
              /\ wk[w].pc \in {"load", "tear", "torn", "deleted", "reread", "purge", "purging"}
    PROVE  \A c \in Subnets \cup VMs : ref[c] = a => ~Relies(c)
  <1>1. WorkerOK(wk[w])
    BY Zenon DEF CommandInv
  <1>2. ~Supported(a)
    BY <1>1, Zenon DEF WorkerOK, Prepared, Written, Supported, Closing
  <1> QED
    BY <1>2, Zenon DEF CommandInv

(* A resource that the store calls running supports its children. *)
LEMMA RunningSupports ==
    ASSUME TypeOK, CommandInv, NEW p \in Tree, st[p] = "running"
    PROVE  Supported(p)
  <1>0. p \in Names /\ p \notin NATGWs
    BY Kinds, Zenon DEF Tree, Names
  <1>1. host[p] = "up"
    BY <1>0, Zenon DEF CommandInv, RecordOK, Holds
  <1>2. ASSUME NEW w \in Workers, wk[w].name = p, wk[w].op = "delete",
               wk[w].pc \in {"load", "tear", "torn", "deleted", "reread", "purge", "purging"}
        PROVE  FALSE
    BY <1>0, <1>2, Zenon DEF CommandInv, WorkerOK, Prepared, None
  <1> QED
    BY <1>1, <1>2, Zenon DEF Supported, Closing

(* A step that leaves the NAT interfaces alone leaves them answered for,   *)
(* when its gateway goes on answering, or did not answer before.           *)
LEMMA NatKept ==
    ASSUME NEW w \in Workers, NEW a \in Names, WorkerStep(w, a), UNCHANGED natif,
           \/ /\ ref'[a] = ref[a] /\ wk'[w].pc # "deleted"
              /\ st'[a] \in {"creating", "running", "error", "deleting"}
           \/ wk[w].pc = "deleted"
           \/ st[a] \notin {"creating", "running", "error", "deleting"}
    PROVE  \A v \in VPCs : natif'[v] # "absent" =>
              \/ a \in NATGWs /\ Answers(a, v)'
              \/ natif[v] # "absent" /\ (a \in NATGWs => ~Answers(a, v))
  <1>1. ASSUME NEW v \in VPCs, Answers(a, v) PROVE Answers(a, v)'
    BY <1>1, Zenon DEF Answers, WorkerStep
  <1> QED
    BY <1>1, Zenon

(* A gateway answers for the interface it builds or tears down, until it   *)
(* is gone.                                                                *)
LEMMA NatMoved ==
    ASSUME TypeOK, CommandInv, NEW w \in Workers, NEW a \in NATGWs, WorkerStep(w, a),
           UNCHANGED <<st, ref>>, st[a] \in {"creating", "deleting"},
           \A v \in VPCs : v # ref[a] => natif'[v] = natif[v],
           wk'[w].pc = "deleted" => \A v \in VPCs : v = ref[a] => natif'[v] = "absent"
    PROVE  \A v \in VPCs : natif'[v] # "absent" =>
              \/ a \in NATGWs /\ Answers(a, v)'
              \/ natif[v] # "absent" /\ (a \in NATGWs => ~Answers(a, v))
  <1> SUFFICES ASSUME NEW v \in VPCs, natif'[v] # "absent"
               PROVE  \/ Answers(a, v)'
                      \/ natif[v] # "absent" /\ ~Answers(a, v)
    BY Zenon
  <1>1. CASE v = ref[a]
    <2>1. wk'[w].pc # "deleted" /\ a # None
      BY <1>1, Kinds, Zenon DEF Names
    <2>2. \A h \in Handlers : hnd[h].name # a
      BY <2>1, Zenon DEF WorkerStep, CommandInv, Exclusive
    <2>3. \A x \in Workers : wk'[x].name = a => x = w
      BY <2>1 DEF WorkerStep, CommandInv, Exclusive
    <2> QED
      BY <1>1, <2>1, <2>2, <2>3, Zenon DEF Answers, WorkerStep
  <1>2. CASE v # ref[a]
    BY <1>2, Zenon DEF Answers
  <1> QED
    BY <1>1, <1>2, Zenon

(* The steps of Execute. *)
LEMMA ExecuteKeeps ==
    ASSUME TypeOK, TypeOK', CommandInv, NEW w \in Workers, Execute(w)
    PROVE  CommandInv'
  <1>1. wk[w].pc # "idle"
    BY Zenon DEF Execute, WaitDone, WaitAbandoned, LoadCreate, LoadDelete, BuildBegin, BuildEnd,
           SetRunning, TearBegin, TearEnd, SetDeleted, Reread, PurgeList, PurgeKey, PurgeEnd,
           MarkError
  <1>2. PICK a \in Names : wk[w].name = a
    BY <1>1, ActiveCommand DEF TypeOK
  <1>3. WorkerStep(w, a)
    BY <1>2, ExecuteIsLocal, Zenon
  <1>4. WorkerOK(wk[w]) /\ RecordOK(a)
    BY <1>2, Zenon DEF CommandInv
  <1>5. wk'[w].name = a => Busy(a)'
    BY Zenon DEF Busy
  <1>6. wk[w] \in [pc : WorkerPcs, op : {"create", "delete"}, name : Names, ref : Refs,
                   at : VPCs \cup {None}, todo : SUBSET Fields]
    BY <1>1, ActiveCommand, Zenon DEF TypeOK
  <1>7. a # None /\ (a \in Subnets \cup VMs => a \notin VPCs /\ a \notin NATGWs)
        /\ (a \in VPCs => a \notin NATGWs)
    BY Kinds, Zenon
  <1>8. ASSUME a \in Subnets \cup VMs, Relies(a)
        PROVE  ref[a] \in VPCs \cup Subnets /\ Supported(ref[a])
    BY <1>8, ParentKnown, Zenon DEF CommandInv
  <1>9. ASSUME NEW x \in Workers, x # w PROVE wk'[x].name # a
    BY <1>2, <1>3, <1>7, <1>9 DEF WorkerStep, CommandInv, Exclusive
  <1>10. CASE WaitDone(w)
    <2>1. /\ wk[w].pc = "wait" /\ ~WaitFailed(wk[w]) /\ WaitOver(wk[w])
          /\ wk'[w] = [wk[w] EXCEPT !.pc = "load"]
          /\ UNCHANGED <<st, ref, body, host, natif>>
      BY <1>10, Zenon DEF WaitDone, Goto, TypeOK
    <2>2. WorkerOK(wk[w])' /\ RecordOK(a)' /\ wk'[w].name = a
      BY <1>2, <1>4, <1>5, <1>6, <2>1 DEF WorkerOK, Prepared, Written, RecordOK, Holds
    <2>3. ASSUME a \in Subnets \cup VMs, Relies(a)'
          PROVE  ref[a] \in VPCs \cup Subnets /\ Supported(ref[a])
      <3>1. CASE host[a] # "absent"
        BY <1>8, <2>3, <3>1, Zenon DEF Relies
      <3>2. CASE host[a] = "absent"
        <4>1. wk[w].op = "create"
          BY <1>9, <2>1, <2>3, <3>2, <1>6, <1>3 DEF Relies, WorkerStep
        <4>2. ref[a] = wk[w].ref /\ ref[a] # None /\ st[ref[a]] = "running"
          BY <1>2, <1>4, <1>7, <2>1, <2>3, <4>1, Zenon DEF WorkerOK, Prepared, Written, WaitOver, ParentReady
        <4>3. ref[a] \in VPCs \cup Subnets
          BY <2>3, <4>2, Kinds, Zenon DEF TypeOK, Parents, Names
        <4> QED
          BY <4>2, <4>3, RunningSupports, Zenon DEF Tree
      <3> QED
        BY <3>1, <3>2, Zenon
    <2>4. \A c \in Subnets \cup VMs : ref[c] = a => ~Relies(c)
      <3>1. CASE wk[w].op = "create"
        BY <1>2, <2>1, <3>1, NoChild, Zenon
      <3>2. CASE wk[w].op = "delete"
        <4>1. ASSUME NEW c \in Subnets \cup VMs, ref[c] = a, Relies(c) PROVE FALSE
          <5>1. st[c] \in {"creating", "running", "error", "deleting"}
            <6>1. CASE host[c] # "absent"
              BY <6>1, Kinds, Zenon DEF CommandInv, RecordOK, Holds, Names
            <6>2. CASE host[c] = "absent"
              BY <4>1, <6>2 DEF Relies, CommandInv, WorkerOK, Prepared, Written, Names
            <6> QED
              BY <6>1, <6>2, Zenon
          <5>2. a \in Parents(c)
            BY <4>1, ParentKnown, Zenon
          <5>3. CASE a \in VPCs
            <6>1. c \in Subnets
              BY <5>2, <5>3, Kinds, Zenon DEF Parents
            <6>2. st[c] \in {None, "deleted"}
              BY <1>2, <2>1, <3>2, <4>1, <5>3, <6>1, Zenon DEF WaitOver, SubnetsGone, subnetsOf
            <6> QED
              BY <5>1, <6>2, Zenon DEF None
          <5>4. CASE a \notin VPCs
            <6>1. c \in VMs /\ a \in Subnets
              BY <5>2, <5>4, Kinds, Zenon DEF Parents
            <6>2. st[c] = "deleted"
              BY <1>2, <2>1, <3>2, <4>1, <5>4, <6>1, Zenon DEF WaitOver, VMsGone, vmsUsingSubnet
            <6> QED
              BY <5>1, <6>2, Zenon
          <5> QED
            BY <5>3, <5>4, Zenon
        <4> QED
          BY <4>1, Zenon
      <3> QED
        BY <1>6, <3>1, <3>2, Zenon
    <2>5. /\ st'[a] \in {"creating", "running", "error", "deleting"}
          /\ ref'[a] = ref[a] /\ natif' = natif /\ wk'[w].pc # "deleted"
      BY <1>2, <1>4, <1>6, <2>1, Zenon DEF WorkerOK, Prepared, Written
    <2>6. \A v \in VPCs : natif'[v] # "absent" =>
             \/ a \in NATGWs /\ Answers(a, v)'
             \/ natif[v] # "absent" /\ (a \in NATGWs => ~Answers(a, v))
      BY <1>3, <2>5, NatKept, Zenon
    <2> QED
      BY <1>3, <1>7, <2>1, <2>2, <2>3, <2>4, <2>6, WorkerStepKeeps, Zenon
  <1>11. CASE WaitAbandoned(w)
    <2>1. /\ wk[w].pc = "wait" /\ wk'[w] = [wk[w] EXCEPT !.pc = "fail"]
          /\ UNCHANGED <<st, ref, body, host, natif>>
      BY <1>11, Zenon DEF WaitAbandoned, Goto, TypeOK
    <2>2. WorkerOK(wk[w])' /\ RecordOK(a)' /\ wk'[w].name = a
      BY <1>2, <1>4, <1>5, <1>6, <2>1, Zenon DEF WorkerOK, Prepared, Written, RecordOK, Transient, Holds
    <2>3. Relies(a)' => Relies(a)
      BY <1>2, <1>6, <1>9, <2>1, <1>3, Zenon DEF Relies, WorkerStep
    <2>4. Closing(a)' => FALSE
      BY <1>6, <1>9, <2>1, Zenon DEF Closing
    <2>5. Supported(a) => Supported(a)'
      BY <2>1, <2>4, Zenon DEF Supported
    <2>6. \A c \in Subnets \cup VMs : ref[c] = a /\ Relies(c) => Supported(a)'
      BY <2>5, Zenon DEF CommandInv
    <2>7. /\ st'[a] \in {"creating", "running", "error", "deleting"}
          /\ ref'[a] = ref[a] /\ natif' = natif /\ wk'[w].pc # "deleted"
      BY <1>2, <1>4, <1>6, <2>1, Zenon DEF WorkerOK, Prepared, Written
    <2>8. \A v \in VPCs : natif'[v] # "absent" =>
             \/ a \in NATGWs /\ Answers(a, v)'
             \/ natif[v] # "absent" /\ (a \in NATGWs => ~Answers(a, v))
      BY <1>3, <2>7, NatKept, Zenon
    <2> QED
      BY <1>3, <1>7, <1>8, <2>1, <2>2, <2>3, <2>6, <2>8, WorkerStepKeeps, Zenon
  <1>12. ASSUME wk[w].pc \notin {"wait", "fail"}
        PROVE  \A c \in Subnets \cup VMs : ref[c] = a => ~Relies(c)
    <2>1. \/ wk[w].op = "create" /\ wk[w].pc \in {"wait", "load", "build", "built", "running"}
          \/ /\ wk[w].op = "delete"
             /\ wk[w].pc \in {"load", "tear", "torn", "deleted", "reread", "purge", "purging"}
      BY <1>4, <1>6, <1>12, Zenon DEF WorkerOK, WorkerPcs
    <2> QED
      BY <1>2, <2>1, NoChild, Zenon
  <1>13. ASSUME wk[w].pc \in {"load", "build", "built", "running"}, wk[w].op = "create"
         PROVE  Relies(a)
    BY <1>2, <1>13, Zenon DEF Relies
  <1>14. ASSUME wk'[w].pc \notin {"load", "build", "built", "running"} \/ wk'[w].op = "delete",
                Relies(a)'
         PROVE  host'[a] # "absent"
    BY <1>9, <1>14, Zenon DEF Relies
  <1>15. CASE LoadCreate(w)
    <2>1. wk[w].pc = "load" /\ wk[w].op = "create" /\ UNCHANGED <<st, ref, body, host, natif>>
      BY <1>15, Zenon DEF LoadCreate
    <2>2. Prepared(wk[w]) /\ st[a] = "creating" /\ st[a] # None
      BY <1>2, <1>4, <2>1, Zenon DEF WorkerOK, Prepared, Written, None
    <2>3. PICK p : /\ p = IF a \in Subnets \cup VMs THEN ref[a] ELSE wk[w].ref
                   /\ \/ Goto(w, "fail")
                      \/ wk' = [wk EXCEPT ![w].pc = "build", ![w].ref = p, ![w].at = Site(a, p)]
      BY <1>2, <1>15, <2>2, Zenon DEF LoadCreate
    <2>4. \/ wk'[w] = [wk[w] EXCEPT !.pc = "fail"]
          \/ wk'[w] = [wk[w] EXCEPT !.pc = "build", !.ref = p, !.at = Site(a, p)]
      BY <2>3, Zenon DEF Goto, TypeOK
    <2>5. wk'[w].name = a
      BY <1>2, <1>6, <2>4, Zenon
    <2>6. WorkerOK(wk[w])'
      <3>1. a \notin VPCs => p = wk[w].ref
        BY <1>2, <2>1, <2>2, <2>3, Zenon DEF Prepared, Written
      <3>2. /\ wk'[w].op = "create" /\ wk'[w].pc \in {"fail", "build"}
            /\ a \notin VPCs => wk'[w].ref = wk[w].ref
        BY <1>6, <2>1, <2>4, <3>1, Zenon
      <3> QED
        BY <1>2, <2>1, <2>2, <2>5, <3>2, Zenon DEF WorkerOK, Prepared, Written, Transient, Holds
    <2>7. RecordOK(a)'
      BY <1>4, <1>5, <2>1, <2>5, Zenon DEF RecordOK, Holds
    <2>8. wk'[w].pc # "deleted"
      BY <1>6, <2>4, Zenon
    <2>9. \A v \in VPCs : natif'[v] # "absent" =>
             \/ a \in NATGWs /\ Answers(a, v)'
             \/ natif[v] # "absent" /\ (a \in NATGWs => ~Answers(a, v))
      BY <1>3, <2>1, <2>2, <2>8, NatKept, Zenon
    <2> QED
      BY <1>3, <1>7, <1>8, <1>12, <1>13, <2>1, <2>5, <2>6, <2>7, <2>9, WorkerStepKeeps, Zenon
  <1>16. CASE LoadDelete(w)
    <2>1. wk[w].pc = "load" /\ wk[w].op = "delete" /\ UNCHANGED <<st, ref, body, host, natif>>
      BY <1>16, Zenon DEF LoadDelete
    <2>2. st[a] = "deleting" /\ st[a] # None
      BY <1>2, <1>4, <2>1, Zenon DEF WorkerOK, Prepared, None
    <2>3. \/ wk'[w] = [wk[w] EXCEPT !.pc = "fail"]
          \/ wk'[w] = [wk[w] EXCEPT !.pc = "tear", !.ref = ref[a], !.at = Site(a, ref[a])]
      BY <1>2, <1>16, <2>2, Zenon DEF LoadDelete, Goto, TypeOK
    <2>4. /\ wk'[w].name = a /\ wk'[w].op = "delete" /\ wk'[w].pc \in {"fail", "tear"}
          /\ wk'[w].pc = "tear" => wk'[w].ref = ref[a]
      BY <1>2, <1>6, <2>1, <2>3, Zenon
    <2>5. WorkerOK(wk[w])' /\ RecordOK(a)'
      BY <1>2, <1>4, <1>5, <2>1, <2>2, <2>4, Zenon DEF WorkerOK, RecordOK, Transient, Holds
    <2>6. Relies(a)' => Relies(a)
      BY <1>14, <2>1, <2>4, Zenon DEF Relies
    <2>7. \A v \in VPCs : natif'[v] # "absent" =>
             \/ a \in NATGWs /\ Answers(a, v)'
             \/ natif[v] # "absent" /\ (a \in NATGWs => ~Answers(a, v))
      BY <1>3, <2>1, <2>2, <2>4, NatKept, Zenon
    <2> QED
      BY <1>3, <1>7, <1>8, <1>12, <2>1, <2>4, <2>5, <2>6, <2>7, WorkerStepKeeps, Zenon
  <1>17. CASE BuildBegin(w) \/ BuildEnd(w)
    <2>1. /\ wk[w].pc \in {"build", "built"} /\ wk[w].op = "create" /\ Written(wk[w])
          /\ Holds(a, IF wk[w].pc = "build" THEN "absent" ELSE "partial")
          /\ UNCHANGED <<st, ref, body>>
      BY <1>2, <1>4, <1>17, Zenon DEF BuildBegin, BuildEnd, WorkerOK, Prepared
    <2>2. \/ wk'[w] = [wk[w] EXCEPT !.pc = "fail"] /\ UNCHANGED host
          \/ wk'[w] = [wk[w] EXCEPT !.pc = "built"] /\ Holds(a, "partial")'
          \/ wk'[w] = [wk[w] EXCEPT !.pc = "running"] /\ Holds(a, "up")'
      BY <1>2, <1>7, <1>17, <2>1, Zenon DEF BuildBegin, BuildEnd, SetLevel, Level, Goto, TypeOK, Holds
    <2>3. /\ wk'[w].name = a /\ wk'[w].op = "create" /\ wk'[w].ref = wk[w].ref
          /\ \/ wk'[w].pc = "fail"
             \/ wk'[w].pc = "built" /\ Holds(a, "partial")'
             \/ wk'[w].pc = "running" /\ Holds(a, "up")'
      BY <1>2, <1>6, <2>1, <2>2, Zenon
    <2>4. Written(wk[w])'
      BY <1>2, <2>1, <2>3, Zenon DEF Written
    <2>5. WorkerOK(wk[w])'
      BY <2>3, <2>4, Zenon DEF WorkerOK, Written, Transient
    <2>6. RecordOK(a)'
      BY <1>5, <2>3, <2>4, Zenon DEF RecordOK, Written
    <2>7. CASE a \notin NATGWs
      <3>1. natif' = natif
        BY <1>2, <1>17, <2>7, Zenon DEF BuildBegin, BuildEnd, SetLevel
      <3>2. Relies(a)
        BY <1>13, <2>1, Zenon
      <3>3. a \in Subnets \cup VMs =>
               (Relies(a)' => ref'[a] = ref[a] /\ ref[a] \in VPCs \cup Subnets /\ Supported(ref[a]))
        BY <1>8, <2>1, <3>2, Zenon
      <3>4. \A c \in Subnets \cup VMs : ref[c] = a /\ Relies(c) => Supported(a)'
        BY <1>12, <2>1, Zenon
      <3>5. \A v \in VPCs : natif'[v] # "absent" =>
               \/ a \in NATGWs /\ Answers(a, v)'
               \/ natif[v] # "absent" /\ (a \in NATGWs => ~Answers(a, v))
        BY <2>7, <3>1, Zenon
      <3> QED
        BY <1>3, <1>7, <2>3, <2>5, <2>6, <3>3, <3>4, <3>5, WorkerStepKeeps, Zenon
    <2>8. CASE a \in NATGWs
      <3>1. ref[a] = wk[w].ref /\ st[a] = "creating" /\ a \notin Subnets \cup VMs
        BY <1>2, <2>1, <2>8, Kinds, Zenon DEF Written
      <3>2. \A v \in VPCs : v # ref[a] => natif'[v] = natif[v]
        BY <1>2, <1>17, <2>8, <3>1, Zenon DEF BuildBegin, BuildEnd, SetLevel, TypeOK
      <3>3. \A v \in VPCs : natif'[v] # "absent" =>
               \/ a \in NATGWs /\ Answers(a, v)'
               \/ natif[v] # "absent" /\ (a \in NATGWs => ~Answers(a, v))
        BY <1>3, <2>1, <2>3, <2>8, <3>1, <3>2, NatMoved, Zenon
      <3>4. \A c \in Subnets \cup VMs : ref[c] = a /\ Relies(c) => Supported(a)'
        BY <1>12, <2>1, Zenon
      <3> QED
        BY <1>3, <1>7, <2>3, <2>5, <2>6, <3>1, <3>3, <3>4, WorkerStepKeeps, Zenon
    <2> QED
      BY <2>7, <2>8, Zenon
  <1>18. CASE SetRunning(w)
    <2>1. /\ wk[w].pc = "running" /\ wk'[w] = Idle /\ st' = [st EXCEPT ![a] = "running"]
          /\ UNCHANGED <<ref, body, host, natif>>
      BY <1>2, <1>18, Zenon DEF SetRunning, Finish, TypeOK
    <2>2. wk[w].op = "create" /\ Written(wk[w]) /\ Holds(a, "up")
      BY <1>2, <1>4, <2>1, Zenon DEF WorkerOK
    <2>3. st'[a] = "running" /\ wk'[w].name = None
      BY <2>1 DEF TypeOK, Idle
    <2>4. RecordOK(a)' /\ st'[a] \notin Transient
      BY <1>2, <2>1, <2>2, <2>3, Zenon DEF RecordOK, Written, Transient, Holds
    <2>5. \A v \in VPCs : natif'[v] # "absent" =>
             \/ a \in NATGWs /\ Answers(a, v)'
             \/ natif[v] # "absent" /\ (a \in NATGWs => ~Answers(a, v))
      BY <1>3, <2>1, <2>3, NatKept, SMTT(30) DEF Idle
    <2>6. a \in Subnets \cup VMs =>
             (Relies(a)' => ref'[a] = ref[a] /\ ref[a] \in VPCs \cup Subnets /\ Supported(ref[a]))
      BY <1>8, <1>13, <2>1, <2>2, Zenon
    <2>7. \A c \in Subnets \cup VMs : ref[c] = a /\ Relies(c) => Supported(a)'
      BY <1>12, <2>1, Zenon
    <2> QED
      BY <1>3, <1>7, <2>3, <2>4, <2>5, <2>6, <2>7, WorkerStepKeeps, Zenon
  <1>19. CASE TearBegin(w) \/ TearEnd(w)
    <2>1. /\ wk[w].pc \in {"tear", "torn"} /\ wk[w].op = "delete" /\ st[a] = "deleting"
          /\ wk[w].ref = ref[a] /\ UNCHANGED <<st, ref, body>>
      BY <1>2, <1>4, <1>19, Zenon DEF TearBegin, TearEnd, WorkerOK
    <2>2. \/ /\ wk'[w] = [wk[w] EXCEPT !.pc = "fail"] \/ wk'[w] = [wk[w] EXCEPT !.pc = "torn"]
             /\ Holds(a, "absent") => Holds(a, "absent")'
          \/ wk'[w] = [wk[w] EXCEPT !.pc = "deleted"] /\ Holds(a, "absent")'
      BY <1>2, <1>7, <1>19 DEF TearBegin, TearEnd, SetLevel, Level, Goto, TypeOK, Holds
    <2>3. /\ wk'[w].name = a /\ wk'[w].op = "delete" /\ wk'[w].ref = wk[w].ref
          /\ \/ wk'[w].pc \in {"fail", "torn"}
             \/ wk'[w].pc = "deleted" /\ Holds(a, "absent")'
      BY <1>2, <1>6, <2>1, <2>2, Zenon
    <2>4. Holds(a, "absent") => Holds(a, "absent")'
      BY <2>2, Zenon
    <2>a. wk'[w].pc = "torn" /\ a \in Tree => Holds(a, "partial")'
      BY <1>2, <1>6, <1>19, Kinds, SMTT(30) DEF TearBegin, TearEnd, SetLevel, Level, Goto, TypeOK, Holds
    <2>5. WorkerOK(wk[w])'
      BY <2>1, <2>3, <2>a, Zenon DEF WorkerOK, Transient
    <2>6. RecordOK(a)'
      <3>1. st'[a] = "deleting" /\ ref'[a] = ref[a] /\ body'[a] = body[a] /\ Busy(a)'
        BY <1>5, <2>1, <2>3, Zenon
      <3> QED
        BY <1>4, <2>1, <2>4, <3>1, Zenon DEF RecordOK
    <2>7. CASE a \notin NATGWs
      <3>1. Relies(a)' => Relies(a)
        BY <1>14, <2>3, <2>4, <2>7, Zenon DEF Relies, Holds
      <3>2. \A v \in VPCs : natif'[v] # "absent" => natif[v] # "absent"
        BY <1>2, <1>19, <2>7, Zenon DEF TearBegin, TearEnd, SetLevel, TypeOK
      <3>3. a \in Subnets \cup VMs =>
               (Relies(a)' => ref'[a] = ref[a] /\ ref[a] \in VPCs \cup Subnets /\ Supported(ref[a]))
        BY <1>8, <2>1, <3>1, Zenon
      <3>4. \A c \in Subnets \cup VMs : ref[c] = a /\ Relies(c) => Supported(a)'
        BY <1>12, <2>1, Zenon
      <3>5. \A v \in VPCs : natif'[v] # "absent" =>
               \/ a \in NATGWs /\ Answers(a, v)'
               \/ natif[v] # "absent" /\ (a \in NATGWs => ~Answers(a, v))
        BY <2>7, <3>2, Zenon
      <3> QED
        BY <1>3, <1>7, <2>3, <2>5, <2>6, <3>3, <3>4, <3>5, WorkerStepKeeps, Zenon
    <2>8. CASE a \in NATGWs
      <3>1. a \notin Subnets \cup VMs /\ a \notin VPCs
        BY <2>8, Kinds, Zenon
      <3>2. /\ \A v \in VPCs : v # ref[a] => natif'[v] = natif[v]
            /\ wk'[w].pc = "deleted" => \A v \in VPCs : v = ref[a] => natif'[v] = "absent"
        BY <1>2, <1>6, <1>19, <2>1, <2>8, <3>1, SMTT(30) DEF TearBegin, TearEnd, SetLevel, Goto, TypeOK
      <3>3. \A v \in VPCs : natif'[v] # "absent" =>
               \/ a \in NATGWs /\ Answers(a, v)'
               \/ natif[v] # "absent" /\ (a \in NATGWs => ~Answers(a, v))
        BY <1>3, <2>1, <2>3, <2>8, <3>2, NatMoved, Zenon
      <3>4. \A c \in Subnets \cup VMs : ref[c] = a /\ Relies(c) => Supported(a)'
        BY <1>12, <2>1, Zenon
      <3> QED
        BY <1>3, <1>7, <2>3, <2>5, <2>6, <3>1, <3>3, <3>4, WorkerStepKeeps, Zenon
    <2> QED
      BY <2>7, <2>8, Zenon
  <1>20. CASE SetDeleted(w) \/ Reread(w) \/ PurgeList(w) \/ PurgeKey(w) \/ PurgeEnd(w)
    <2>1. /\ wk[w].pc \in {"deleted", "reread", "purge", "purging"} /\ wk[w].op = "delete"
          /\ Holds(a, "absent") /\ UNCHANGED <<host, natif>>
      BY <1>2, <1>4, <1>20, Zenon DEF SetDeleted, Reread, PurgeList, PurgeKey, PurgeEnd, WorkerOK
    <2>2. a \in Subnets \cup VMs => ~Relies(a)'
      <3>1. wk'[w].op \in {"delete", None}
        BY <1>6, <1>20, <2>1, SMTT(30) DEF SetDeleted, Reread, PurgeList, PurgeKey, PurgeEnd, Goto, Finish,
                                 Idle, TypeOK
      <3> QED
        BY <1>7, <1>9, <2>1, <3>1, Zenon DEF Relies, Holds, None
    <2>3. /\ wk'[w].name = a => WorkerOK(wk[w])'
          /\ wk'[w].name = None => st'[a] \notin Transient
          /\ RecordOK(a)'
      <3>1. CASE SetDeleted(w)
        <4>1. /\ wk'[w] = [wk[w] EXCEPT !.pc = IF a \in Tree THEN "reread" ELSE "purge"]
              /\ st'[a] = "deleted"
          BY <1>2, <3>1, Zenon DEF SetDeleted, Goto, TypeOK
        <4> QED
          BY <1>2, <1>6, <2>1, <4>1 DEF WorkerOK, RecordOK, Transient, Holds
      <3>2. CASE Reread(w)
        <4>1. st[a] = "deleted" /\ st'[a] = "deleted" /\ st[a] # None
          BY <1>2, <1>4, <3>2, Zenon DEF Reread, WorkerOK, None
        <4>2. wk'[w] = [wk[w] EXCEPT !.pc = "purge"]
          BY <1>2, <3>2, <4>1, Zenon DEF Reread, Goto, TypeOK
        <4> QED
          BY <1>2, <1>6, <2>1, <4>1, <4>2, SMTT(30) DEF WorkerOK, RecordOK, Transient, Holds
      <3>3. CASE PurgeList(w)
        <4>1. /\ st[a] = "deleted" /\ st'[a] = "deleted"
              /\ wk'[w] = [wk[w] EXCEPT !.pc = "purging", !.todo = Present(a)]
          BY <1>2, <1>4, <3>3 DEF PurgeList, WorkerOK, TypeOK
        <4>2. "state" \in Present(a)
          BY <4>1, Zenon DEF Present, Fields, None
        <4> QED
          BY <1>2, <1>6, <2>1, <4>1, <4>2 DEF WorkerOK, RecordOK, Transient, Holds
      <3>4. CASE PurgeKey(w)
        <4>1. PICK f \in wk[w].todo :
                 /\ IF f = "state" THEN st' = [st EXCEPT ![a] = None] ELSE UNCHANGED st
                 /\ wk' = [wk EXCEPT ![w].todo = @ \ {f}]
          BY <1>2, <3>4, Zenon DEF PurgeKey, First
        <4>2. /\ wk[w].pc = "purging"
              /\ st[a] = IF "state" \in wk[w].todo THEN "deleted" ELSE None
          BY <1>2, <1>4, <3>4, Zenon DEF PurgeKey, WorkerOK
        <4>3. st'[a] = IF "state" \in wk[w].todo \ {f} THEN "deleted" ELSE None
          BY <4>1, <4>2, Zenon DEF TypeOK
        <4>4. wk'[w] = [wk[w] EXCEPT !.todo = @ \ {f}]
          BY <4>1, Zenon DEF TypeOK
        <4> QED
          BY <1>2, <1>6, <2>1, <4>2, <4>3, <4>4 DEF WorkerOK, RecordOK, Transient, Holds, None
      <3>5. CASE PurgeEnd(w)
        <4>1. wk'[w] = Idle /\ st' = st /\ wk[w].pc = "purging" /\ wk[w].todo = {}
          BY <3>5, Zenon DEF PurgeEnd, Finish, TypeOK
        <4>2. st'[a] = None /\ wk'[w].name = None
          BY <1>2, <1>4, <4>1 DEF WorkerOK, Idle
        <4>3. Holds(a, "absent")'
          BY <2>1, Zenon DEF Holds
        <4> QED
          BY <1>7, <4>2, <4>3, Zenon DEF RecordOK, Transient, None
      <3> QED
        BY <1>20, <3>1, <3>2, <3>3, <3>4, <3>5, Zenon
    <2>4. \/ wk[w].pc = "deleted"
          \/ st[a] \notin {"creating", "running", "error", "deleting"}
      BY <1>2, <1>4, <2>1, Zenon DEF WorkerOK, None
    <2>5. \A v \in VPCs : natif'[v] # "absent" =>
             \/ a \in NATGWs /\ Answers(a, v)'
             \/ natif[v] # "absent" /\ (a \in NATGWs => ~Answers(a, v))
      BY <1>3, <2>1, <2>4, NatKept, Zenon
    <2> QED
      <3>1. \A c \in Subnets \cup VMs : ref[c] = a /\ Relies(c) => Supported(a)'
        BY <1>12, <2>1, Zenon
      <3> QED
        BY <1>3, <2>2, <2>3, <2>5, <3>1, WorkerStepKeeps, Zenon
  <1>21. CASE MarkError(w)
    <2>1. /\ wk[w].pc = "fail" /\ wk'[w] = Idle /\ st' = [st EXCEPT ![a] = "error"]
          /\ UNCHANGED <<ref, body, host, natif>>
      BY <1>2, <1>21, Zenon DEF MarkError, Finish, TypeOK
    <2>2. st'[a] = "error" /\ wk'[w].name = None /\ wk'[w].pc = "idle"
      BY <2>1 DEF TypeOK, Idle
    <2>3. RecordOK(a)' /\ st'[a] \notin Transient
      BY <1>4, <2>1, <2>2, Zenon DEF RecordOK, Transient, Holds
    <2>4. Relies(a)' => Relies(a)
      BY <1>14, <2>1, <2>2, Zenon DEF Relies
    <2>5. ~Closing(a)'
      BY <1>9, <2>2, Zenon DEF Closing
    <2>6. Supported(a) => Supported(a)'
      BY <2>1, <2>2, <2>5, Zenon DEF Supported
    <2>7. \A c \in Subnets \cup VMs : ref[c] = a /\ Relies(c) => Supported(a)'
      BY <2>6, Zenon DEF CommandInv
    <2>8. \A v \in VPCs : natif'[v] # "absent" =>
             \/ a \in NATGWs /\ Answers(a, v)'
             \/ natif[v] # "absent" /\ (a \in NATGWs => ~Answers(a, v))
      BY <1>3, <2>1, <2>2, NatKept, Zenon
    <2> QED
      <3>1. a \in Subnets \cup VMs =>
               (Relies(a)' => ref'[a] = ref[a] /\ ref[a] \in VPCs \cup Subnets /\ Supported(ref[a]))
        BY <1>8, <2>1, <2>4, Zenon
      <3> QED
        BY <1>3, <1>7, <2>2, <2>3, <2>7, <2>8, <3>1, WorkerStepKeeps, Zenon
  <1> QED
    BY <1>10, <1>11, <1>15, <1>16, <1>17, <1>18, <1>19, <1>20, <1>21, Zenon DEF Execute

-----------------------------------------------------------------------------
(* The steps of Prepare. *)
LEMMA PrepareKeeps ==
    ASSUME TypeOK, TypeOK', CommandInv, NEW h \in Handlers, Prepare(h)
    PROVE  CommandInv'
  <1>1. hnd[h].pc # "idle"
    BY Zenon DEF Prepare, CheckAbsent, CheckParent, CheckConflict, WriteKey, CheckDeletable, ScanUsers,
           ScanAttachments, MarkDeleting
  <1>2. PICK a \in Names : hnd[h].name = a
    BY <1>1, ActiveCommand DEF TypeOK
  <1>3. HandlerOK(hnd[h]) /\ RecordOK(a) /\ a # None
    BY <1>2, Kinds, Zenon DEF CommandInv, Names
  <1>4. hnd'[h].name = a => Busy(a)'
    BY Zenon DEF Busy
  <1>5. hnd[h] \in [pc : HandlerPcs, op : {"create", "delete"}, name : Names, ref : Refs,
                    at : VPCs \cup {None}, todo : SUBSET Fields]
    BY <1>1, ActiveCommand, Zenon DEF TypeOK
  <1>6. CASE CheckAbsent(h) \/ CheckParent(h) \/ CheckConflict(h) \/ CheckDeletable(h)
             \/ ScanUsers(h) \/ ScanAttachments(h)
    <2>1. UNCHANGED <<st, ref, body, host, natif, queue, wk>>
      BY <1>6, Zenon DEF CheckAbsent, CheckParent, CheckConflict, CheckDeletable, ScanUsers,
                  ScanAttachments, Proceed
    <2>2. /\ \A k \in Handlers \ {h} : hnd'[k] = hnd[k]
          /\ hnd'[h].name \in {a, None}
      BY <1>2, <1>5, <1>6 DEF CheckAbsent, CheckParent, CheckConflict, CheckDeletable, ScanUsers,
                  ScanAttachments, Proceed, Become, Answer, Idle, TypeOK
    <2>3. HandlerStep(h, a)
      BY <1>2, <2>1, <2>2, Zenon DEF HandlerStep, Same
    <2>4. /\ hnd'[h].name = a => HandlerOK(hnd[h])'
          /\ st[a] \notin Transient
      <3>1. HandlerOK(hnd[h])
        BY <1>3, Zenon
      <3>2. st[a] \notin Transient
        BY <1>2, <1>6, <3>1, Zenon DEF CheckAbsent, CheckParent, CheckConflict, CheckDeletable, ScanUsers,
                  ScanAttachments, HandlerOK, CanDelete, Transient, None
      <3>3. ASSUME hnd'[h].name = a PROVE HandlerOK(hnd[h])'
        <4>0. a # None
          BY <1>3, Zenon
        <4>1. CASE CheckAbsent(h)
          <5>1. st[a] = None /\ hnd'[h] = [hnd[h] EXCEPT !.pc = "parent"] /\ hnd[h].pc = "exists"
            BY <1>2, <3>3, <4>0, <4>1 DEF CheckAbsent, Proceed, Become, Answer, Idle, TypeOK
          <5> QED
            BY <1>2, <1>5, <2>1, <3>1, <5>1, Zenon DEF HandlerOK
        <4>2. CASE CheckParent(h)
          <5>1. hnd'[h] = [hnd[h] EXCEPT !.pc = "conflict"] /\ hnd[h].pc = "parent"
            BY <1>2, <3>3, <4>0, <4>2 DEF CheckParent, Proceed, Become, Answer, Idle, TypeOK
          <5> QED
            BY <1>2, <1>5, <2>1, <3>1, <5>1 DEF HandlerOK
        <4>3. CASE CheckConflict(h)
          <5>1. /\ hnd'[h] = [hnd[h] EXCEPT !.pc = "write", !.todo = KeysToWrite(hnd[h].ref)]
                /\ hnd[h].pc = "conflict"
            <6>1. ~Answer(h)
              BY <3>3, <4>0 DEF Answer, Idle, TypeOK
            <6>2. hnd' = [hnd EXCEPT ![h].pc = "write", ![h].todo = KeysToWrite(hnd[h].ref)]
              BY <4>3, <6>1, Zenon DEF CheckConflict
            <6>3. hnd'[h] = [hnd[h] EXCEPT !.pc = "write", !.todo = KeysToWrite(hnd[h].ref)]
              BY <6>2, Zenon DEF TypeOK
            <6> QED
              BY <4>3, <6>3, Zenon DEF CheckConflict
          <5>2. Holds(a, "absent")
            BY <1>2, <1>3, <3>1, <5>1, Zenon DEF HandlerOK, RecordOK, None
          <5> QED
            BY <1>2, <1>5, <2>1, <3>1, <5>1, <5>2 DEF HandlerOK, Holds, KeysToWrite, Fields
        <4>4. CASE CheckDeletable(h) \/ ScanUsers(h) \/ ScanAttachments(h)
          <5>1. PICK pc \in {"users", "attached", "mark"} : hnd'[h] = [hnd[h] EXCEPT !.pc = pc]
            BY <1>2, <3>3, <4>0, <4>4, SMTT(30) DEF CheckDeletable, ScanUsers, ScanAttachments, FirstScan,
               Proceed, Become, Answer, Idle, TypeOK
          <5>2. CanDelete(st[a]) /\ hnd[h].op = "delete"
            BY <1>2, <3>1, <3>3, <4>0, <4>4, SMTT(30) DEF CheckDeletable, ScanUsers, ScanAttachments,
               Proceed, Answer, Idle, TypeOK, HandlerOK
          <5> QED
            BY <1>2, <1>5, <2>1, <5>1, <5>2 DEF HandlerOK, CanDelete
        <4> QED
          BY <1>6, <4>1, <4>2, <4>3, <4>4, Zenon
      <3> QED
        BY <3>2, <3>3, Zenon
    <2>5. RecordOK(a)'
      BY <1>3, <2>1, <2>4, Zenon DEF RecordOK, Holds
    <2>6. ASSUME NEW v \in VPCs, Answers(a, v) PROVE Answers(a, v)'
      <3>1. st[a] # None
        BY <2>6, Zenon DEF Answers, None
      <3>2. hnd'[h].name = a => hnd'[h].pc # "write"
        BY <1>2, <1>3, <1>5, <1>6, <3>1, SMTT(30) DEF HandlerOK, CheckAbsent, CheckParent, CheckConflict,
           CheckDeletable, ScanUsers, ScanAttachments, FirstScan, Proceed, Become, Answer, Idle, TypeOK
      <3> QED
        BY <2>1, <2>2, <2>6, <3>2, Zenon DEF Answers
    <2> QED
      BY <2>1, <2>3, <2>4, <2>5, <2>6, HandlerStepKeeps, Zenon
  <1>7. CASE WriteKey(h)
    <2>1. PICK f \in hnd[h].todo :
             /\ IF f = "state" THEN st' = [st EXCEPT ![a] = "creating"] ELSE UNCHANGED st
             /\ IF f = "ref" THEN ref' = [ref EXCEPT ![a] = hnd[h].ref] ELSE UNCHANGED ref
             /\ IF f = "body" THEN body' = [body EXCEPT ![a] = TRUE] ELSE UNCHANGED body
             /\ hnd' = [hnd EXCEPT ![h].todo = @ \ {f},
                                   ![h].pc = IF hnd[h].todo = {f} THEN "dispatch" ELSE "write"]
      BY <1>2, <1>7, Zenon DEF WriteKey, First
    <2>2. hnd[h].pc = "write" /\ UNCHANGED <<host, natif, queue, wk>>
      BY <1>7, Zenon DEF WriteKey
    <2>3. hnd'[h] = [hnd[h] EXCEPT !.todo = @ \ {f},
                                   !.pc = IF hnd[h].todo = {f} THEN "dispatch" ELSE "write"]
      BY <2>1, Zenon DEF TypeOK
    <2>4. HandlerStep(h, a)
      BY <1>2, <1>5, <2>1, <2>2, <2>3 DEF HandlerStep, Same, TypeOK
    <2>5. /\ HandlerOK(hnd[h])' /\ RecordOK(a)' /\ Holds(a, "absent")
          /\ st[a] \notin {"running", "deleting", "error"}
      <3>1. HandlerOK(hnd[h])
        BY <1>3, Zenon
      <3>2. /\ hnd[h].op = "create" /\ (a \notin VPCs => hnd[h].ref # None)
            /\ st[a] = IF "state" \in hnd[h].todo THEN None ELSE "creating"
            /\ Holds(a, "absent")
            /\ "body" \notin hnd[h].todo => body[a]
            /\ a \notin VPCs /\ "ref" \notin hnd[h].todo => ref[a] = hnd[h].ref
        BY <1>2, <2>2, <3>1, Zenon DEF HandlerOK
      <3>3. /\ st'[a] = IF "state" \in hnd[h].todo \ {f} THEN None ELSE "creating"
            /\ Holds(a, "absent")'
            /\ "body" \notin hnd[h].todo \ {f} => body'[a]
            /\ a \notin VPCs /\ "ref" \notin hnd[h].todo \ {f} => ref'[a] = hnd[h].ref
        BY <2>1, <2>2, <3>2 DEF TypeOK, Holds
      <3>4. HandlerOK(hnd[h])'
        BY <1>2, <1>5, <2>3, <3>2, <3>3 DEF HandlerOK, Prepared, Written
      <3>5. RecordOK(a)'
        BY <1>2, <1>4, <1>5, <2>3, <3>3, Zenon DEF RecordOK, None
      <3> QED
        BY <3>2, <3>4, <3>5, Zenon DEF None
    <2>6. hnd'[h].name = a /\ a # None
      BY <1>2, <1>3, <1>5, <2>3, Zenon
    <2>7. \A v \in VPCs : ~Answers(a, v)
      BY <1>2, <2>2, Zenon DEF Answers
    <2>8. a \in Tree => host[a] = "absent"
      BY <2>5, Kinds, Zenon DEF Holds, Tree
    <2> QED
      BY <2>4, <2>5, <2>6, <2>7, <2>8, HandlerStepKeeps, Zenon
  <1>8. CASE MarkDeleting(h)
    <2>1. /\ hnd[h].pc = "mark" /\ hnd'[h] = [hnd[h] EXCEPT !.pc = "dispatch"]
          /\ st' = [st EXCEPT ![a] = "deleting"]
          /\ UNCHANGED <<ref, body, host, natif, queue, wk>>
      BY <1>2, <1>8, Zenon DEF MarkDeleting, Become, TypeOK
    <2>2. HandlerStep(h, a)
      BY <1>2, <1>5, <1>8, <2>1 DEF HandlerStep, Same, TypeOK, MarkDeleting, Become
    <2>3. HandlerOK(hnd[h])' /\ RecordOK(a)' /\ st'[a] = "deleting"
      <3>1. st'[a] = "deleting" /\ hnd[h].op = "delete"
        BY <1>2, <1>3, <2>1 DEF TypeOK, HandlerOK
      <3>2. HandlerOK(hnd[h])'
        BY <1>2, <1>5, <2>1, <3>1, Zenon DEF HandlerOK, Prepared
      <3>3. RecordOK(a)'
        BY <1>2, <1>3, <1>4, <1>5, <2>1, <3>1 DEF RecordOK, Holds
      <3> QED
        BY <3>1, <3>2, <3>3, Zenon
    <2>4. hnd'[h].name = a /\ a # None
      BY <1>2, <1>3, <1>5, <2>1, Zenon
    <2>5. ASSUME NEW v \in VPCs, Answers(a, v) PROVE Answers(a, v)'
      <3>1. hnd'[h].pc # "write" /\ \A k \in Handlers \ {h} : hnd'[k] = hnd[k]
        BY <1>5, <2>1, <2>2, Zenon DEF HandlerStep
      <3>2. ref' = ref /\ wk' = wk
        BY <2>1, Zenon
      <3> QED
        BY <2>3, <2>5, <3>1, <3>2, Zenon DEF Answers
    <2> QED
      BY <2>1, <2>2, <2>3, <2>4, <2>5, HandlerStepKeeps, Zenon
  <1> QED
    BY <1>6, <1>7, <1>8, Zenon DEF Prepare

-----------------------------------------------------------------------------
(* A crash and the next boot: MigrateStates leaves no transient state, and *)
(* what is on the host stays on it.                                        *)
LEMMA RestartKeeps ==
    ASSUME TypeOK, TypeOK', CommandInv, Restart
    PROVE  CommandInv'
  <1>1. /\ UNCHANGED <<ref, body, host, natif>> /\ queue' = <<>>
        /\ \A n \in Names : st'[n] = IF st[n] \in Transient THEN "error" ELSE st[n]
        /\ \A h \in Handlers : hnd'[h] = Idle
        /\ \A w \in Workers : wk'[w] = Idle
    BY Zenon DEF Restart, targetState
  <1>2. Len(queue') = 0
    BY <1>1, Zenon
  <1>3. \A n : ~InQueue(n)'
    BY <1>2 DEF InQueue
  <1>4. Exclusive'
    BY <1>1, <1>2, <1>3 DEF Exclusive, Idle
  <1>5. None \notin Names
    BY Kinds, Zenon
  <1>6. ASSUME NEW n \in Names PROVE RecordOK(n)'
    <2>1. RecordOK(n) /\ st'[n] = IF st[n] \in Transient THEN "error" ELSE st[n]
      BY <1>1, <1>6, Zenon DEF CommandInv
    <2> QED
      BY <1>1, <2>1, Zenon DEF RecordOK, Transient, Holds
  <1>7. ASSUME NEW c \in Subnets \cup VMs, Relies(c)' PROVE Supported(ref[c])'
    <2>1. host[c] # "absent"
      BY <1>1, <1>7 DEF Relies, Idle
    <2>2. Relies(c)
      BY <2>1, Zenon DEF Relies
    <2>3. Supported(ref[c]) /\ ref[c] \in Names
      BY <2>2, ParentKnown, Zenon DEF CommandInv, Names
    <2> QED
      BY <1>1, <2>3 DEF Supported, Closing, Transient, Idle
  <1>8. ASSUME NEW v \in VPCs, natif'[v] # "absent" PROVE \E g \in NATGWs : Answers(g, v)'
    <2>1. PICK g \in NATGWs : Answers(g, v)
      BY <1>1, <1>8, Zenon DEF CommandInv
    <2>2. g \in Names /\ g # None
      BY Kinds, Zenon DEF Names
    <2>3. Answers(g, v)'
      BY <1>1, <2>1, <2>2 DEF Answers, Idle, Transient
    <2> QED
      BY <2>3, Zenon
  <1> QED
    BY <1>1, <1>2, <1>4, <1>5, <1>6, <1>7, <1>8 DEF CommandInv, Idle

(* The inductive invariant holds for patient clients, whatever else        *)
(* happens: no two activities about a name, each finds its record as it    *)
(* left it, no parent that a child relies on is closing, and every NAT     *)
(* interface has a gateway that answers for it.                            *)
THEOREM CommandInvariant ==
    ASSUME Patient
    PROVE  Spec => []CommandInv
  <1>1. Init => CommandInv
    <2> SUFFICES ASSUME Init PROVE CommandInv
      BY Zenon
    <2>1. /\ \A h \in Handlers : hnd[h].name = None
          /\ \A w \in Workers : wk[w].name = None /\ wk[w].pc = "idle"
          /\ Len(queue) = 0
          /\ \A n \in Names : st[n] = None /\ Holds(n, "absent")
          /\ \A v \in VPCs : natif[v] = "absent"
      BY Kinds, Zenon DEF Init, Idle, Holds
    <2>2. None \notin Names
      BY Kinds, Zenon
    <2>3. Exclusive
      BY <2>1 DEF Exclusive, InQueue
    <2>4. \A n \in Names : RecordOK(n)
      BY <2>1, Zenon DEF RecordOK, Transient, None
    <2>5. \A c \in Subnets \cup VMs : ~Relies(c)
      BY <2>1, Kinds, Zenon DEF Relies, Holds, Names
    <2> QED
      BY <2>1, <2>2, <2>3, <2>4, <2>5 DEF CommandInv
  <1>2. TypeOK /\ TypeOK' /\ CommandInv /\ [Next]_vars => CommandInv'
    <2> SUFFICES ASSUME TypeOK, TypeOK', CommandInv, [Next]_vars PROVE CommandInv'
      BY Zenon
    <2>1. CASE UNCHANGED vars
      <3>1. UNCHANGED <<st, ref, body, host, natif, hnd, queue, wk>>
        BY <2>1, Zenon DEF vars
      <3>2. Exclusive'
        BY <3>1 DEF CommandInv, Exclusive, InQueue
      <3>3. \A n \in Names : Busy(n) => Busy(n)'
        BY <3>1, Zenon DEF Busy
      <3> QED
        BY <3>1, <3>2, <3>3, PassingOnKeeps DEF CommandInv
    <2> QED
      BY <2>1, RequestKeeps, PrepareKeeps, DispatchKeeps, TakeKeeps, ExecuteKeeps, RestartKeeps, Zenon DEF Next
  <1> QED
    BY <1>1, <1>2, TypeCorrect, PTL, Zenon DEF Spec

(* No VPC is torn down under a subnet, no subnet under a VM.  The argument *)
(* is that of two flags: a child writes its reference before Execute reads *)
(* the state of the parent, a parent writes deleting before Execute reads  *)
(* the children, so at least one of the two sees the other.                *)
THEOREM TreeSafe ==
    ASSUME Patient
    PROVE  Spec => []TreeStandsOnParents
  <1>1. TypeOK /\ CommandInv => TreeStandsOnParents
    <2> SUFFICES ASSUME TypeOK, CommandInv, NEW c \in Subnets \cup VMs, host[c] # "absent"
                 PROVE  ref[c] # None /\ host[ref[c]] = "up"
      BY Zenon DEF TreeStandsOnParents
    <2>1. Relies(c)
      BY Zenon DEF Relies
    <2> QED
      BY <2>1, ParentKnown, Kinds, Zenon DEF CommandInv, Supported, Names
  <1> QED
    BY <1>1, CommandInvariant, TypeCorrect, PTL, Zenon

(* What a complete resource of the tree hangs on can be loaded. *)
LEMMA BuiltIsLoadable ==
    ASSUME TypeOK, CommandInv, NEW n \in Tree, host[n] # "absent"
    PROVE  Loadable(n, ref[n])
  <1>1. \A x \in Tree : host[x] # "absent" => body[x] /\ (x \notin VPCs => ref[x] # None)
    BY Kinds, Zenon DEF CommandInv, RecordOK, Holds, Tree, Names
  <1>2. ASSUME NEW x \in Subnets \cup VMs, host[x] # "absent"
        PROVE  ref[x] \in VPCs \cup Subnets /\ ref[x] \in Parents(x) /\ host[ref[x]] # "absent"
    <2>1. Relies(x)
      BY <1>2, Zenon DEF Relies
    <2> QED
      BY <2>1, ParentKnown, Zenon DEF CommandInv, Supported
  <1>3. CASE n \in VPCs
    BY <1>1, <1>3, Kinds, Zenon DEF Loadable
  <1>4. CASE n \in Subnets
    <2>1. body[n] /\ ref[n] # None /\ body[ref[n]]
      BY <1>1, <1>2, <1>4, Kinds, Zenon DEF Tree
    <2> QED
      BY <1>4, <2>1, Kinds, Zenon DEF Loadable
  <1>5. CASE n \in VMs
    <2>1. ref[n] \in Subnets /\ host[ref[n]] # "absent" /\ body[n] /\ body[ref[n]]
      BY <1>1, <1>2, <1>5, Kinds, Zenon DEF Parents, Tree
    <2>2. ref[ref[n]] \in VPCs /\ body[ref[ref[n]]]
      BY <1>1, <1>2, <2>1, Kinds, Zenon DEF Parents, Tree
    <2>3. VPCOf(n) = ref[ref[n]] /\ VPCOf(n) # None
      BY <2>1, <2>2, Kinds, Zenon DEF VPCOf, Names
    <2> QED
      BY <1>5, <2>1, <2>2, <2>3, Kinds, Zenon DEF Loadable, Resolves
  <1> QED
    BY <1>3, <1>4, <1>5, Zenon DEF Tree

(* Running means built: CreateVPC, CreateSubnet and StartVM call a         *)
(* resource running when it is up, and only its own deletion changes that. *)
THEOREM RunningBuilt ==
    ASSUME Patient
    PROVE  Spec => []RunningIsBuilt
  <1>1. TypeOK /\ CommandInv => RunningIsBuilt
    BY BuiltIsLoadable, Kinds, Zenon DEF RunningIsBuilt, CommandInv, RecordOK, Holds, Tree, Names
  <1> QED
    BY <1>1, CommandInvariant, TypeCorrect, PTL, Zenon

(* What is on the host when nothing is in flight about it can be deleted:  *)
(* no crash leaves an object behind that no request can reach.             *)
THEOREM Reclaimable ==
    ASSUME Patient
    PROVE  Spec => []HostObjectsReclaimable
  <1>1. TypeOK /\ CommandInv => HostObjectsReclaimable
    BY BuiltIsLoadable, Kinds, Zenon DEF HostObjectsReclaimable, CommandInv, RecordOK, Transient, CanDelete,
                            Holds, Tree, Names
  <1> QED
    BY <1>1, CommandInvariant, TypeCorrect, PTL, Zenon

(* Nothing of an attachment is forgotten: a NAT interface has a gateway of *)
(* its VPC in the store, a floating IP on the host keeps the keys its own  *)
(* deletion reads, whatever the other gateways of the VPC do and wherever  *)
(* a crash stops a purge.                                                  *)
THEOREM AttachmentsAnswered ==
    ASSUME Patient
    PROVE  Spec => []AttachmentsOwned
  <1>1. TypeOK /\ CommandInv => AttachmentsOwned
    <2> SUFFICES ASSUME TypeOK, CommandInv PROVE AttachmentsOwned
      BY Zenon
    <2>1. \A v \in VPCs : natif[v] # "absent" =>
             \E g \in NATGWs : ref[g] = v /\ st[g] \in States \ {"deleted"}
      BY Zenon DEF CommandInv, Answers, States
    <2>2. ASSUME NEW f \in FIPs, host[f] # "absent"
          PROVE  ref[f] # None /\ body[f] /\ st[f] \in States \ {"deleted"}
      BY <2>2, Kinds, Zenon DEF CommandInv, RecordOK, Holds, Names, States
    <2> QED
      BY <2>1, <2>2, Zenon DEF AttachmentsOwned
  <1> QED
    BY <1>1, CommandInvariant, TypeCorrect, PTL, Zenon

(* Nobody waits for nothing: a resource that is awaited is in a transient  *)
(* state, and a transient state always has a command in flight.            *)
THEOREM AwaitedInFlight ==
    ASSUME Patient
    PROVE  Spec => []AwaitedIsInFlight
  <1>1. TypeOK /\ CommandInv => AwaitedIsInFlight
    <2> SUFFICES ASSUME TypeOK, CommandInv, NEW w \in Workers, wk[w].pc = "wait",
                        ~WaitOver(wk[w]), ~WaitFailed(wk[w]),
                        NEW n \in Awaited(wk[w])
                 PROVE  Busy(n)
      BY Zenon DEF AwaitedIsInFlight
    <2>1. CASE wk[w].op = "create"
      <3>1. n = wk[w].ref /\ n \in Tree
        BY <2>1, Zenon DEF Awaited, Tree
      <3>2. st[n] = "creating"
        BY <2>1, <3>1, Zenon DEF WaitOver, WaitFailed, ParentReady, ParentFailed
      <3> QED
        BY <3>1, <3>2, Zenon DEF CommandInv, RecordOK, Transient, Tree, Names
    <2>2. CASE wk[w].op # "create"
      <3>1. n \in Tree /\ st[n] = "deleting"
        BY <2>2, Zenon DEF Awaited, subnetsOf, vmsUsingSubnet, Tree
      <3> QED
        BY <3>1, Zenon DEF CommandInv, RecordOK, Transient, Tree, Names
    <2> QED
      BY <2>1, <2>2, Zenon
  <1> QED
    BY <1>1, CommandInvariant, TypeCorrect, PTL, Zenon

-----------------------------------------------------------------------------
(* The refinement of Lifecycle: an action about a moves the abstract       *)
(* resource a, when it moves anything of the tree at all.                  *)

(* The tree as it is seen from Lifecycle. *)
LEMMA TreeView ==
    /\ Tracked!Resources = Tree
    /\ \A F : \A n \in Tree : OnTree(F)[n] = F[n]
    /\ TypeOK => /\ \A n \in Tree : \A x : OnTree([st EXCEPT ![n] = x]) = [OnTree(st) EXCEPT ![n] = x]
                 /\ \A n \in Tree : \A x : OnTree([ref EXCEPT ![n] = x]) = [OnTree(ref) EXCEPT ![n] = x]
                 /\ \A n \in Tree : \A x : OnTree([host EXCEPT ![n] = x]) = [OnTree(host) EXCEPT ![n] = x]
  <1>1. Tracked!Resources = Tree
    BY Zenon DEF Tracked!Resources, Tree
  <1>2. \A F : \A n \in Tree : OnTree(F)[n] = F[n]
    BY Zenon DEF OnTree
  <1>3. ASSUME TypeOK, NEW n \in Tree, NEW x
        PROVE  /\ OnTree([st EXCEPT ![n] = x]) = [OnTree(st) EXCEPT ![n] = x]
               /\ OnTree([ref EXCEPT ![n] = x]) = [OnTree(ref) EXCEPT ![n] = x]
               /\ OnTree([host EXCEPT ![n] = x]) = [OnTree(host) EXCEPT ![n] = x]
    <2>1. \A m \in Tree : m \in Names /\ m \in Names \ NATGWs
      BY Kinds, Zenon DEF Tree, Names
    <2> QED
      BY <1>3, <2>1, Zenon DEF OnTree, TypeOK
  <1> QED
    BY <1>1, <1>2, <1>3, Zenon

(* A record or a host object that does not belong to the tree is not seen. *)
LEMMA OutsideTree ==
    ASSUME TypeOK, NEW n, n \notin Tree, NEW x
    PROVE  /\ OnTree([st EXCEPT ![n] = x]) = OnTree(st)
           /\ OnTree([ref EXCEPT ![n] = x]) = OnTree(ref)
           /\ OnTree([host EXCEPT ![n] = x]) = OnTree(host)
  <1>1. \A m \in Tree : m \in Names /\ m \in Names \ NATGWs /\ m # n
    BY Kinds, Zenon DEF Tree, Names
  <1> QED
    BY <1>1, Zenon DEF OnTree, TypeOK

(* The abstract state moves along one edge of the lifecycle, or not. *)
LEMMA StateMoves ==
    ASSUME TypeOK, NEW a \in Names, NEW s, st' = [st EXCEPT ![a] = s],
           UNCHANGED <<ref, host>>,
           a \in Tree => \/ st[a] = None /\ s = "creating"
                         \/ st[a] = "creating" /\ s = "running" /\ host[a] = "up"
                         \/ st[a] \in {"running", "error"} /\ s = "deleting"
                         \/ st[a] = "deleting" /\ s = "deleted" /\ host[a] = "absent"
                         \/ st[a] = "deleted" /\ s = None
                         \/ st[a] \in Transient /\ s = "error"
    PROVE  [Tracked!Next]_(Tracked!vars)
  <1>1. OnTree(ref)' = OnTree(ref) /\ OnTree(host)' = OnTree(host)
    BY Zenon DEF OnTree
  <1>2. CASE a \notin Tree
    <2>1. OnTree(st)' = OnTree(st)
      BY <1>2, OutsideTree, Zenon
    <2> QED
      BY <1>1, <2>1, Zenon DEF Tracked!vars
  <1>3. CASE a \in Tree
    <2>1. /\ OnTree(st)' = [OnTree(st) EXCEPT ![a] = s] /\ OnTree(st)[a] = st[a]
          /\ OnTree(host)[a] = host[a] /\ a \in Tracked!Resources
      BY <1>3, TreeView, Zenon
    <2>2. \/ Tracked!Accept(a) \/ Tracked!Ready(a) \/ Tracked!Retire(a) \/ Tracked!Gone(a)
          \/ Tracked!Forget(a) \/ Tracked!Fail(a)
      BY <1>1, <1>3, <2>1, Zenon DEF Tracked!Accept, Tracked!Ready, Tracked!Retire, Tracked!Gone,
         Tracked!Forget, Tracked!Fail, Tracked!Move, Transient
    <2> QED
      BY <2>1, <2>2, Zenon DEF Tracked!Next
  <1> QED
    BY <1>2, <1>3, Zenon

(* The reference of a resource that is not on the host changes. *)
LEMMA PlaceMoves ==
    ASSUME TypeOK, NEW a \in Names, NEW r \in Refs, ref' = [ref EXCEPT ![a] = r],
           UNCHANGED <<st, host>>, a \in Tree => host[a] = "absent"
    PROVE  [Tracked!Next]_(Tracked!vars)
  <1>1. OnTree(st)' = OnTree(st) /\ OnTree(host)' = OnTree(host)
    BY Zenon DEF OnTree
  <1>2. CASE a \notin Tree
    <2>1. OnTree(ref)' = OnTree(ref)
      BY <1>2, OutsideTree, Zenon
    <2> QED
      BY <1>1, <2>1, Zenon DEF Tracked!vars
  <1>3. CASE a \in Tree
    <2>1. /\ OnTree(ref)' = [OnTree(ref) EXCEPT ![a] = r]
          /\ OnTree(host)[a] = host[a] /\ a \in Tracked!Resources
      BY <1>3, TreeView, Zenon
    <2>2. Tracked!Place(a)
      BY <1>1, <1>3, <2>1, Zenon DEF Tracked!Place
    <2> QED
      BY <2>1, <2>2, Zenon DEF Tracked!Next
  <1> QED
    BY <1>2, <1>3, Zenon

(* What is on the host changes by one level, on a parent that is complete  *)
(* or under no child.                                                      *)
LEMMA HostMoves ==
    ASSUME TypeOK, NEW a \in Names, NEW l, host' = [host EXCEPT ![a] = l],
           UNCHANGED <<st, ref>>,
           a \in Tree =>
              \/ l = host[a]
              \/ /\ st[a] = "creating"
                 /\ a \in Subnets \cup VMs => ref[a] \in Tree /\ host[ref[a]] = "up"
                 /\ \/ host[a] = "absent" /\ l = "partial"
                    \/ host[a] = "partial" /\ l = "up"
              \/ /\ st[a] = "deleting"
                 /\ \A c \in Subnets \cup VMs : ref[c] = a => host[c] = "absent"
                 /\ \/ host[a] = "up" /\ l = "partial"
                    \/ host[a] = "partial" /\ l = "absent"
    PROVE  [Tracked!Next]_(Tracked!vars)
  <1>1. OnTree(st)' = OnTree(st) /\ OnTree(ref)' = OnTree(ref)
    BY Zenon DEF OnTree
  <1>2. CASE a \notin Tree
    <2>1. OnTree(host)' = OnTree(host)
      BY <1>2, OutsideTree, Zenon
    <2> QED
      BY <1>1, <2>1, Zenon DEF Tracked!vars
  <1>3. CASE a \in Tree
    <2>1. /\ OnTree(host)' = [OnTree(host) EXCEPT ![a] = l]
          /\ OnTree(host)[a] = host[a] /\ OnTree(st)[a] = st[a] /\ OnTree(ref)[a] = ref[a]
          /\ a \in Tracked!Resources /\ Tracked!Resources = Tree
      BY <1>3, TreeView, ZenonT(30)
    <2>2. \A c \in Subnets \cup VMs : OnTree(ref)[c] = ref[c] /\ OnTree(host)[c] = host[c]
      BY TreeView DEF Tree
    <2>3. CASE l = host[a]
      <3>1. OnTree(host)' = OnTree(host)
        BY <2>1, <2>3, Zenon DEF OnTree
      <3> QED
        BY <1>1, <3>1, Zenon DEF Tracked!vars
    <2>4. CASE /\ st[a] = "creating"
               /\ a \in Subnets \cup VMs => ref[a] \in Tree /\ host[ref[a]] = "up"
               /\ \/ host[a] = "absent" /\ l = "partial"
                  \/ host[a] = "partial" /\ l = "up"
      <3>1. a \in Subnets \cup VMs => OnTree(host)[ref[a]] = "up"
        BY <2>4, TreeView
      <3>2. Tracked!Stands(a)
        BY <2>1, <2>4, <3>1, Zenon DEF Tracked!Stands
      <3>3. Tracked!Build(a)
        BY <1>1, <2>1, <2>4, <3>2, Zenon DEF Tracked!Build
      <3> QED
        BY <2>1, <3>3, Zenon DEF Tracked!Next
    <2>5. CASE /\ st[a] = "deleting"
               /\ \A c \in Subnets \cup VMs : ref[c] = a => host[c] = "absent"
               /\ \/ host[a] = "up" /\ l = "partial"
                  \/ host[a] = "partial" /\ l = "absent"
      <3>1. Tracked!Dismantle(a)
        BY <1>1, <2>1, <2>2, <2>5, Zenon DEF Tracked!Dismantle
      <3> QED
        BY <2>1, <3>1, Zenon DEF Tracked!Next
    <2> QED
      BY <1>3, <2>3, <2>4, <2>5, Zenon
  <1> QED
    BY <1>2, <1>3, Zenon

(* Nothing of the tree changes. *)
LEMMA NothingMoves ==
    ASSUME UNCHANGED <<st, ref, host>>
    PROVE  [Tracked!Next]_(Tracked!vars)
  BY Zenon DEF Tracked!vars, OnTree

(* Prepare accepts, retires or places. *)
LEMMA PrepareTracks ==
    ASSUME TypeOK, CommandInv, NEW h \in Handlers, Prepare(h)
    PROVE  [Tracked!Next]_(Tracked!vars)
  <1>1. hnd[h].pc # "idle"
    BY Zenon DEF Prepare, CheckAbsent, CheckParent, CheckConflict, WriteKey, CheckDeletable, ScanUsers,
           ScanAttachments, MarkDeleting
  <1>2. PICK a \in Names : hnd[h].name = a
    BY <1>1, ActiveCommand DEF TypeOK
  <1>3. HandlerOK(hnd[h]) /\ hnd[h].ref \in Refs
    BY <1>1, <1>2, ActiveCommand DEF CommandInv, TypeOK
  <1>4. CASE CheckAbsent(h) \/ CheckParent(h) \/ CheckConflict(h) \/ CheckDeletable(h)
             \/ ScanUsers(h) \/ ScanAttachments(h)
    <2>1. UNCHANGED <<st, ref, host>>
      BY <1>4, Zenon DEF CheckAbsent, CheckParent, CheckConflict, CheckDeletable, ScanUsers,
                  ScanAttachments, Proceed
    <2> QED
      BY <2>1, NothingMoves, Zenon
  <1>5. CASE WriteKey(h)
    <2>1. PICK f \in hnd[h].todo :
             /\ IF f = "state" THEN st' = [st EXCEPT ![a] = "creating"] ELSE UNCHANGED st
             /\ IF f = "ref" THEN ref' = [ref EXCEPT ![a] = hnd[h].ref] ELSE UNCHANGED ref
      BY <1>2, <1>5, Zenon DEF WriteKey, First
    <2>2. hnd[h].pc = "write" /\ UNCHANGED host
      BY <1>5, Zenon DEF WriteKey
    <2>3. /\ st[a] = IF "state" \in hnd[h].todo THEN None ELSE "creating"
          /\ a \in Tree => host[a] = "absent"
      BY <1>2, <1>3, <2>2, Kinds, Zenon DEF HandlerOK, Holds, Tree
    <2>4. CASE f = "state"
      <3>1. st' = [st EXCEPT ![a] = "creating"] /\ UNCHANGED <<ref, host>> /\ st[a] = None
        BY <2>1, <2>2, <2>3, <2>4, Zenon
      <3> QED
        BY <3>1, StateMoves, Zenon
    <2>5. CASE f = "ref"
      <3>1. ref' = [ref EXCEPT ![a] = hnd[h].ref] /\ UNCHANGED <<st, host>>
        BY <2>1, <2>2, <2>5, Zenon
      <3> QED
        BY <1>3, <2>3, <3>1, PlaceMoves, Zenon
    <2>6. CASE f \notin {"state", "ref"}
      BY <2>1, <2>2, <2>6, NothingMoves, Zenon
    <2> QED
      BY <2>4, <2>5, <2>6, Zenon
  <1>6. CASE MarkDeleting(h)
    <2>1. st' = [st EXCEPT ![a] = "deleting"] /\ UNCHANGED <<ref, host>> /\ hnd[h].pc = "mark"
      BY <1>2, <1>6, Zenon DEF MarkDeleting
    <2>2. st[a] \in {"running", "error"}
      BY <1>2, <1>3, <2>1, Zenon DEF HandlerOK, CanDelete
    <2> QED
      BY <2>1, <2>2, StateMoves, Zenon
  <1> QED
    BY <1>4, <1>5, <1>6, Zenon DEF Prepare

(* Execute builds, dismantles, and moves the state when it is done. *)
LEMMA ExecuteTracks ==
    ASSUME TypeOK, CommandInv, NEW w \in Workers, Execute(w)
    PROVE  [Tracked!Next]_(Tracked!vars)
  <1>1. wk[w].pc # "idle"
    BY Zenon DEF Execute, WaitDone, WaitAbandoned, LoadCreate, LoadDelete, BuildBegin, BuildEnd,
           SetRunning, TearBegin, TearEnd, SetDeleted, Reread, PurgeList, PurgeKey, PurgeEnd,
           MarkError
  <1>2. PICK a \in Names : wk[w].name = a
    BY <1>1, ActiveCommand DEF TypeOK
  <1>3. WorkerOK(wk[w])
    BY <1>2, Zenon DEF CommandInv
  <1>4. a \in Tree => a \notin NATGWs
    BY Kinds, Zenon DEF Tree
  <1>5. CASE WaitDone(w) \/ WaitAbandoned(w) \/ LoadCreate(w) \/ LoadDelete(w) \/ Reread(w)
             \/ PurgeList(w) \/ PurgeEnd(w)
    <2>1. UNCHANGED <<st, ref, host>>
      BY <1>5, Zenon DEF WaitDone, WaitAbandoned, LoadCreate, LoadDelete, Reread, PurgeList, PurgeEnd
    <2> QED
      BY <2>1, NothingMoves, Zenon
  <1>6. CASE BuildBegin(w) \/ BuildEnd(w)
    <2>1. /\ wk[w].pc \in {"build", "built"} /\ wk[w].op = "create"
          /\ st[a] = "creating" /\ UNCHANGED <<st, ref>>
          /\ Holds(a, IF wk[w].pc = "build" THEN "absent" ELSE "partial")
      BY <1>2, <1>3, <1>6, Zenon DEF BuildBegin, BuildEnd, WorkerOK, Prepared, Written
    <2>2. a \in Subnets \cup VMs => ref[a] \in Tree /\ host[ref[a]] = "up"
      <3> SUFFICES ASSUME a \in Subnets \cup VMs PROVE ref[a] \in Tree /\ host[ref[a]] = "up"
        BY Zenon
      <3>1. Relies(a)
        BY <1>2, <2>1, Zenon DEF Relies
      <3> QED
        BY <3>1, ParentKnown, Zenon DEF CommandInv, Supported, Tree
    <2>3. CASE host' = host
      BY <2>1, <2>3, NothingMoves, Zenon
    <2>4. CASE host' # host
      <3>1. /\ host' = [host EXCEPT ![a] = IF wk[w].pc = "build" THEN "partial" ELSE "up"]
            /\ a \notin NATGWs
        BY <1>2, <1>6, <2>4, Zenon DEF BuildBegin, BuildEnd, SetLevel
      <3>2. host[a] = IF wk[w].pc = "build" THEN "absent" ELSE "partial"
        BY <2>1, <3>1, Zenon DEF Holds
      <3> QED
        BY <2>1, <2>2, <3>1, <3>2, HostMoves, Zenon
    <2> QED
      BY <2>3, <2>4, Zenon
  <1>7. CASE SetRunning(w)
    <2>1. st' = [st EXCEPT ![a] = "running"] /\ UNCHANGED <<ref, host>> /\ wk[w].pc = "running"
      BY <1>2, <1>7, Zenon DEF SetRunning
    <2>2. st[a] = "creating" /\ (a \in Tree => host[a] = "up")
      BY <1>2, <1>3, <1>4, <2>1, Zenon DEF WorkerOK, Written, Holds
    <2> QED
      BY <2>1, <2>2, StateMoves, Zenon
  <1>8. CASE TearBegin(w) \/ TearEnd(w)
    <2>1. /\ wk[w].pc \in {"tear", "torn"} /\ wk[w].op = "delete"
          /\ st[a] = "deleting" /\ UNCHANGED <<st, ref>>
          /\ wk[w].pc = "torn" /\ a \in Tree => host[a] = "partial"
      BY <1>2, <1>3, <1>4, <1>8, Zenon DEF TearBegin, TearEnd, WorkerOK, Holds
    <2>2. \A c \in Subnets \cup VMs : ref[c] = a => host[c] = "absent"
      BY <1>2, <2>1, NoChild, Zenon DEF Relies
    <2>3. CASE host' = host
      BY <2>1, <2>3, NothingMoves, Zenon
    <2>4. CASE host' # host
      <3>1. /\ host' = [host EXCEPT ![a] = IF wk[w].pc = "tear" THEN "partial" ELSE "absent"]
            /\ wk[w].pc = "tear" => host[a] # "absent"
        BY <1>2, <1>8, <2>4, Kinds, Zenon DEF TearBegin, TearEnd, SetLevel, Level
      <3>2. a \in Tree => host[a] \in Levels
        BY <1>4, Zenon DEF TypeOK
      <3>3. a \in Tree => \/ host[a] = "partial"
                          \/ wk[w].pc = "tear" /\ host[a] = "up"
        BY <2>1, <3>1, <3>2, Zenon DEF Levels
      <3> QED
        BY <2>1, <2>2, <3>1, <3>3, HostMoves, Zenon
    <2> QED
      BY <2>3, <2>4, Zenon
  <1>9. CASE SetDeleted(w)
    <2>1. st' = [st EXCEPT ![a] = "deleted"] /\ UNCHANGED <<ref, host>> /\ wk[w].pc = "deleted"
      BY <1>2, <1>9, Zenon DEF SetDeleted
    <2>2. st[a] = "deleting" /\ (a \in Tree => host[a] = "absent")
      BY <1>2, <1>3, <1>4, <2>1, Zenon DEF WorkerOK, Holds
    <2> QED
      BY <2>1, <2>2, StateMoves, Zenon
  <1>10. CASE PurgeKey(w)
    <2>1. PICK f \in wk[w].todo :
             /\ IF f = "state" THEN st' = [st EXCEPT ![a] = None] ELSE UNCHANGED st
             /\ IF f = "ref" THEN ref' = [ref EXCEPT ![a] = None] ELSE UNCHANGED ref
      BY <1>2, <1>10, Zenon DEF PurgeKey, First
    <2>2. wk[w].pc = "purging" /\ UNCHANGED host
      BY <1>10, Zenon DEF PurgeKey
    <2>3. /\ st[a] = IF "state" \in wk[w].todo THEN "deleted" ELSE None
          /\ a \in Tree => host[a] = "absent"
      BY <1>2, <1>3, <1>4, <2>2, Zenon DEF WorkerOK, Holds
    <2>4. CASE f = "state"
      <3>1. st' = [st EXCEPT ![a] = None] /\ UNCHANGED <<ref, host>> /\ st[a] = "deleted"
        BY <2>1, <2>2, <2>3, <2>4, Zenon
      <3> QED
        BY <3>1, StateMoves, Zenon
    <2>5. CASE f = "ref"
      <3>1. ref' = [ref EXCEPT ![a] = None] /\ UNCHANGED <<st, host>> /\ None \in Refs
        BY <2>1, <2>2, <2>5, Zenon DEF Refs
      <3> QED
        BY <2>3, <3>1, PlaceMoves, Zenon
    <2>6. CASE f \notin {"state", "ref"}
      BY <2>1, <2>2, <2>6, NothingMoves, Zenon
    <2> QED
      BY <2>4, <2>5, <2>6, Zenon
  <1>11. CASE MarkError(w)
    <2>1. st' = [st EXCEPT ![a] = "error"] /\ UNCHANGED <<ref, host>> /\ wk[w].pc = "fail"
      BY <1>2, <1>11, Zenon DEF MarkError
    <2>2. st[a] \in Transient
      BY <1>2, <1>3, <2>1, Zenon DEF WorkerOK
    <2> QED
      BY <2>1, <2>2, StateMoves, Zenon
  <1> QED
    BY <1>5, <1>6, <1>7, <1>8, <1>9, <1>10, <1>11, Zenon DEF Execute

(* A restart fails the transitions that were under way. *)
LEMMA RestartTracks ==
    ASSUME TypeOK, Restart
    PROVE  [Tracked!Next]_(Tracked!vars)
  <1>1. OnTree(ref)' = OnTree(ref) /\ OnTree(host)' = OnTree(host)
    BY Zenon DEF OnTree, Restart
  <1>2. /\ Tracked!Resources = Tree /\ Tree \subseteq Names
        /\ \A n \in Tree : OnTree(st)[n] = st[n]
    BY TreeView, Zenon DEF Tree, Names
  <1>3. OnTree(st)' = [n \in Tree |-> IF OnTree(st)[n] \in {"creating", "deleting"}
                                      THEN "error" ELSE OnTree(st)[n]]
    BY <1>2, Zenon DEF OnTree, Restart, targetState, Transient
  <1>4. Tracked!Reboot
    BY <1>1, <1>2, <1>3, Zenon DEF Tracked!Reboot
  <1> QED
    BY <1>4, Zenon DEF Tracked!Next

(* The agent implements Lifecycle for patient clients: whatever handlers,  *)
(* workers and crashes interleave, a resource of the tree moves along the  *)
(* edges of its lifecycle, is built only on a complete parent, called      *)
(* running only when it is complete, dismantled only under no child, and   *)
(* forgotten only when nothing of it is left.                              *)
THEOREM LifecycleImplemented ==
    ASSUME Patient
    PROVE  Spec => FollowsLifecycle
  <1>1. Init => Tracked!Init
    <2> SUFFICES ASSUME Init PROVE Tracked!Init
      BY Zenon
    <2>1. Tracked!Resources = Tree /\ \A n \in Tree : n \in Names /\ n \in Names \ NATGWs
      BY TreeView, Kinds, Zenon DEF Tree, Names
    <2> QED
      BY <2>1, Zenon DEF Init, Tracked!Init, OnTree
  <1>2. TypeOK /\ CommandInv /\ [Next]_vars => [Tracked!Next]_(Tracked!vars)
    <2> SUFFICES ASSUME TypeOK, CommandInv, [Next]_vars PROVE [Tracked!Next]_(Tracked!vars)
      BY Zenon
    <2>1. ASSUME NEW h \in Handlers, Create(h) \/ Delete(h) \/ Dispatch(h)
          PROVE  UNCHANGED <<st, ref, host>>
      BY <2>1, Zenon DEF Create, Delete, Dispatch
    <2>2. ASSUME NEW w \in Workers, Take(w)
          PROVE  UNCHANGED <<st, ref, host>>
      BY <2>2, Zenon DEF Take
    <2>3. CASE UNCHANGED vars
      BY <2>3, NothingMoves, Zenon DEF vars
    <2> QED
      BY <2>1, <2>2, <2>3, NothingMoves, PrepareTracks, ExecuteTracks, RestartTracks, Zenon DEF Next
  <1> QED
    BY <1>1, <1>2, CommandInvariant, TypeCorrect, PTL, Zenon DEF Spec, FollowsLifecycle, Tracked!Spec
=============================================================================

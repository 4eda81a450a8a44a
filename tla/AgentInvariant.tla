--------------------------- MODULE AgentInvariant ---------------------------
(***************************************************************************)
(* The inductive invariant behind the safety of the agent, for clients     *)
(* that send one request at a time about a name.                           *)
(***************************************************************************)
EXTENDS Agent

InQueue(n) == \E i \in 1..Len(queue) : queue[i].name = n

(* At most one activity about a name: in a handler, in the queue or in a   *)
(* worker.                                                                 *)
Exclusive ==
    /\ \A h, k \in Handlers : hnd[h].name = hnd[k].name /\ hnd[h].name # None => h = k
    /\ \A w, x \in Workers : wk[w].name = wk[x].name /\ wk[w].name # None => w = x
    /\ \A h \in Handlers, w \in Workers : hnd[h].name = wk[w].name => hnd[h].name = None
    /\ \A h \in Handlers : ~InQueue(hnd[h].name)
    /\ \A w \in Workers : ~InQueue(wk[w].name)
    /\ \A i, j \in 1..Len(queue) : queue[i].name = queue[j].name => i = j

(* What a resource has on the host; that of a NAT gateway is not its own.  *)
Holds(n, l) == n \notin NATGWs => host[n] = l

(* A record as the Execute of a create command finds and leaves it. *)
Written(c) == /\ st[c.name] = "creating" /\ body[c.name]
              /\ c.name \notin VPCs => c.ref # None /\ ref[c.name] = c.ref

(* What Prepare has established when the command goes to the queue. *)
Prepared(c) == IF c.op = "create" THEN Written(c) /\ Holds(c.name, "absent")
               ELSE st[c.name] = "deleting"

HandlerOK(c) ==
    LET n == c.name IN
    /\ c.pc \in {"exists", "parent", "conflict", "write"} =>
          c.op = "create" /\ (n \notin VPCs => c.ref # None)
    /\ c.pc \in {"deletable", "users", "attached", "mark"} => c.op = "delete"
    /\ c.pc \in {"exists", "deletable"} => st[n] \notin Transient
    /\ c.pc \in {"parent", "conflict"} => st[n] = None
    /\ c.pc = "write" => /\ st[n] = IF "state" \in c.todo THEN None ELSE "creating"
                         /\ Holds(n, "absent")
                         /\ "body" \notin c.todo => body[n]
                         /\ n \notin VPCs /\ "ref" \notin c.todo => ref[n] = c.ref
    /\ c.pc \in {"users", "attached", "mark"} => CanDelete(st[n])
    /\ c.pc = "dispatch" => Prepared(c)

WorkerOK(c) ==
    LET n == c.name IN
    /\ c.pc \in {"build", "built", "running"} => c.op = "create"
    /\ c.pc \in {"tear", "torn", "deleted", "reread", "purge", "purging"} => c.op = "delete"
    /\ c.pc \in {"wait", "load", "build"} => Prepared(c)
    /\ c.pc = "built" => Written(c) /\ Holds(n, "partial")
    /\ c.pc = "running" => Written(c) /\ Holds(n, "up")
    /\ c.pc \in {"tear", "torn"} => st[n] = "deleting" /\ c.ref = ref[n]
    /\ c.pc = "torn" /\ n \in Tree => Holds(n, "partial")
    /\ c.pc = "deleted" => st[n] = "deleting" /\ Holds(n, "absent")
    /\ c.pc \in {"reread", "purge"} => st[n] = "deleted" /\ Holds(n, "absent")
    /\ c.pc = "purging" => /\ st[n] = IF "state" \in c.todo THEN "deleted" ELSE None
                           /\ Holds(n, "absent")
    /\ c.pc = "fail" => st[n] \in Transient

(* What holds of the record and the host objects of a name by themselves. *)
RecordOK(n) ==
    /\ st[n] \in Transient => Busy(n)
    /\ st[n] = "running" => Holds(n, "up")
    /\ ~Holds(n, "absent") => /\ st[n] \in {"creating", "running", "error", "deleting"}
                              /\ body[n]
                              /\ n \notin VPCs => ref[n] # None

(* The two sides of the protection of a parent.  A child relies on it from *)
(* the moment it has seen it running until it has left the host; a parent  *)
(* is closing from the moment it has seen no child.                        *)
Relies(c) == \/ host[c] # "absent"
             \/ \E w \in Workers : /\ wk[w].name = c /\ wk[w].op = "create"
                                   /\ wk[w].pc \in {"load", "build", "built", "running"}

Closing(p) == \E w \in Workers :
                 /\ wk[w].name = p /\ wk[w].op = "delete"
                 /\ wk[w].pc \in {"load", "tear", "torn", "deleted", "reread", "purge", "purging"}

Supported(p) == /\ host[p] = "up"
                /\ st[p] \in {"running", "deleting", "error"}
                /\ ~Closing(p)

(* A NAT gateway answers for the NAT interface of its VPC from the moment  *)
(* its state is written until it has taken the interface away.             *)
Answers(g, v) ==
    /\ ref[g] = v /\ st[g] \in {"creating", "running", "error", "deleting"}
    /\ \A h \in Handlers : hnd[h].name = g => hnd[h].pc # "write"
    /\ \A w \in Workers : wk[w].name = g => wk[w].pc # "deleted"

(* The inductive invariant: one activity per name, each activity finds its *)
(* record as it left it, no parent that a child relies on is closing, and  *)
(* every NAT interface has a gateway that answers for it.                  *)
CommandInv ==
    /\ Exclusive
    /\ \A h \in Handlers : hnd[h].name \in Names => HandlerOK(hnd[h])
    /\ \A i \in 1..Len(queue) : Prepared(queue[i])
    /\ \A w \in Workers : wk[w].name \in Names => WorkerOK(wk[w])
    /\ \A n \in Names : RecordOK(n)
    /\ \A c \in Subnets \cup VMs : Relies(c) => Supported(ref[c])
    /\ \A v \in VPCs : natif[v] # "absent" => \E g \in NATGWs : Answers(g, v)
=============================================================================

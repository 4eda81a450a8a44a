------------------------------ MODULE HostSvc ------------------------------
(***************************************************************************)
(* two-hostsvc, the one process of a host that serves DNS and NTP inside   *)
(* the network namespaces of its VPCs.  The agent asks it over a control   *)
(* socket to open or to close a VPC; the list of the VPCs it serves is in  *)
(* a state file it reads when it starts.                                   *)
(*                                                                         *)
(* The VPC under construction is Vpc; the VPCs of Others are running and   *)
(* served, and nobody asks anything about them.  Calls reach the lock of   *)
(* the service in the order they came, as in DhcpServer; a client gives up *)
(* after five seconds and its call is carried out all the same.            *)
(***************************************************************************)
EXTENDS HostObjects

CONSTANTS Vpc, Others

(* The VPC of HostCommands is told apart from the VPCs beside it. *)
ASSUME VpcAssumption == Vpc \notin Others

VARIABLES
    svc,      \* down, up, or stopping: the listener closed, not exited yet
    opened,   \* [VPCs -> which namespace of the VPC the sockets are in, or 0]
    saved,    \* the VPCs of the state file
    gen,      \* which of two namespaces, made in turn, Vpc has or had last
    calls,    \* calls on their way to the lock: [verb, live]
    reply,    \* of the call of the agent: idle, waiting, ok, failed
    amiss     \* VPCs whose entry in the state file was lost or left behind

svcVars == <<svc, opened, saved, gen, calls, reply, amiss>>

VPCs == {Vpc} \cup Others

SvcInit == /\ svc = "up" /\ gen = 2 /\ calls = <<>> /\ reply = "idle"
           /\ opened = [v \in VPCs |-> IF v \in Others THEN 1 ELSE 0]
           /\ saved = Others /\ amiss = {}

Namespace(v) == IF v \in Others THEN 1 ELSE gen

Exists(v) == v \in Others \/ "netns" \in has

(* The sockets are bound to the address of the dummy link. *)
Addressed(v) == v \in Others \/ {"netns", "hostsvc"} \subseteq has

names(o) == {v \in VPCs : o[v] # 0}

Closed == [v \in VPCs |-> 0]

(* Client.call: without a listener the dial is refused. *)
Call(verb) ==
    /\ reply = "idle"
    /\ IF svc = "up"
       THEN reply' = "waiting" /\ calls' = Append(calls, [verb |-> verb, live |-> TRUE])
       ELSE reply' = "failed" /\ UNCHANGED calls
    /\ UNCHANGED <<svc, opened, saved, gen, amiss>>

(* The client is gone: it timed out, or the agent died. *)
Unattended == [i \in DOMAIN calls |-> [calls[i] EXCEPT !.live = FALSE]]

Answer(c, r) == reply' = IF c.live THEN r ELSE reply

(* Service.Open: a VPC that is open is left as it is, and not saved.  The  *)
(* three sockets may fail to open; then the file may fail to be written.   *)
(* A service that is stopping has emptied its map, so that the list it     *)
(* saves is this VPC alone.                                                *)
Open(c, opens, saves) ==
    IF opened[Vpc] # 0
    THEN Answer(c, "ok") /\ UNCHANGED <<opened, saved, amiss>>
    ELSE IF ~(opens /\ Addressed(Vpc))
    THEN Answer(c, "failed") /\ UNCHANGED <<opened, saved, amiss>>
    ELSE /\ opened' = [opened EXCEPT ![Vpc] = gen]
         /\ saved' = IF saves THEN names(opened') ELSE saved
         /\ Answer(c, IF saves THEN "ok" ELSE "failed")
         /\ amiss' = IF saves THEN (amiss \cup (saved \ saved')) \ {Vpc} ELSE amiss

(* Service.Close: a VPC that is not open is left as it is, and not saved.  *)
(* So a Close that could not write the file leaves it unwritten when it is *)
(* asked again, and so does one carried out after Shutdown.                *)
Close(c, saves) ==
    IF opened[Vpc] = 0
    THEN /\ Answer(c, "ok") /\ UNCHANGED <<opened, saved>>
         /\ amiss' = amiss \cup (saved \cap {Vpc})
    ELSE /\ opened' = [opened EXCEPT ![Vpc] = 0]
         /\ saved' = IF saves THEN names(opened') ELSE saved
         /\ Answer(c, IF saves THEN "ok" ELSE "failed")
         /\ amiss' = IF saves THEN (amiss \cup (saved \ saved')) \ {Vpc}
                     ELSE amiss \cup {Vpc}

(* The call that has the lock is carried out, by a process that serves or  *)
(* that has stopped listening and not exited.                              *)
Handle(opens, saves) ==
    /\ svc \in {"up", "stopping"} /\ calls # <<>>
    /\ calls' = Tail(calls)
    /\ LET c == Head(calls)
       IN IF c.verb = "open" THEN Open(c, opens, saves) ELSE Close(c, saves)
    /\ UNCHANGED <<svc, gen>>

(* Faulty variant: the emptied list is saved. *)
StopSaving == /\ svc = "up" /\ svc' = "stopping"
              /\ opened' = Closed /\ saved' = {}
              /\ UNCHANGED <<gen, calls, reply, amiss>>

(* Shutdown closes the sockets, forgets the VPCs and saves nothing. *)
Stop == /\ svc = "up" /\ svc' = "stopping"
        /\ opened' = Closed
        /\ UNCHANGED <<saved, gen, calls, reply, amiss>>

(* The process exits, after Shutdown or by accident: the connections are   *)
(* closed under their clients.                                             *)
Exit == /\ svc \in {"up", "stopping"} /\ svc' = "down"
        /\ opened' = Closed /\ calls' = <<>>
        /\ reply' = IF reply = "waiting" THEN "failed" ELSE reply
        /\ UNCHANGED <<saved, gen, amiss>>

(* Restore, then Listen: the VPCs of the file whose namespace is there are *)
(* opened, and the list of those that did open is saved.                   *)
Restore(fails, saves) ==
    /\ svc = "down" /\ svc' = "up"
    /\ LET found == {v \in saved : Exists(v)}
           restored == {v \in found \ fails : Addressed(v)}
       IN /\ fails \subseteq found
          /\ opened' = [v \in VPCs |-> IF v \in restored THEN Namespace(v) ELSE 0]
          /\ saved' = IF saves THEN restored ELSE saved
          /\ amiss' = amiss \cup (found \ restored)
    /\ UNCHANGED <<gen, calls, reply>>

SvcTypeOK == /\ svc \in {"down", "up", "stopping"}
             /\ opened \in [VPCs -> 0 .. 2]
             /\ saved \subseteq VPCs /\ amiss \subseteq VPCs
             /\ gen \in 1 .. 2
             /\ calls \in Seq([verb : {"open", "close"}, live : BOOLEAN])
             /\ reply \in {"idle", "waiting", "ok", "failed"}
=============================================================================

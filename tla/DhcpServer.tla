----------------------------- MODULE DhcpServer -----------------------------
(***************************************************************************)
(* The DHCP server of one subnet (cmd/dhcp): the store and its state file, *)
(* the control socket with the calls that clients make on it, the read     *)
(* side that answers datagrams and probes, and the systemd unit.           *)
(*                                                                         *)
(* An order that changes the store holds the write lock while it changes   *)
(* the memory and saves the file, and puts the memory back if that fails.  *)
(* Calls reach the lock in the order they came: a goroutine that has       *)
(* waited a millisecond for a Go mutex is served first-come first-served.  *)
(* A client gives up after five seconds; its call is carried out all the   *)
(* same.                                                                   *)
(***************************************************************************)
EXTENDS Sequences, Naturals

CONSTANTS Configs, Macs, Hosts, None,
          Missing,    \* no state file
          Clients,    \* who calls the control socket, one call at a time each
          MaxCalls    \* bound on the calls a server holds

VARIABLES
    proc,     \* the unit: down, launched (state not read yet), loaded, up
    mem,      \* Store.subnet, Store.configured and Store.hosts
    old,      \* what the holder of the write lock will put back, or None
    file,     \* the state file, or Missing
    socket,   \* does the path of the control socket lead to this process?
    calls,    \* calls on their way to the write lock, the first one has it
    answer,   \* [Clients -> idle, waiting, ok or failed]
    read      \* a request between its two reads of the store, or None

serverVars == <<proc, mem, old, file, socket, calls, answer, read>>

CurrentTable == IF old # None THEN old
                ELSE IF proc \in {"loaded", "up"} THEN mem
                ELSE IF file # Missing THEN file
                ELSE [subnet |-> None, hosts |-> [m \in Macs |-> None]]

T == INSTANCE LeaseTable WITH table <- CurrentTable, wiped <- (file = Missing)

Empty == T!Empty

(* The two marks are no values of the kinds they stand beside. *)
ASSUME DhcpAssumption == /\ None \notin Configs \cup Hosts
                         /\ None \notin T!Tables /\ Missing \notin T!Tables
                         /\ None \notin Clients

ServerInit == /\ proc = "down" /\ mem = Empty /\ old = None /\ file = Missing
              /\ socket = FALSE /\ calls = <<>> /\ read = None
              /\ answer = [c \in Clients |-> "idle"]

-----------------------------------------------------------------------------
(* The process *)

(* systemd starts a simple unit as soon as it has forked; starting a unit  *)
(* that is active does nothing.                                            *)
Launch == /\ proc' = IF proc = "down" THEN "launched" ELSE proc
          /\ UNCHANGED <<mem, old, file, socket, calls, answer, read>>

(* Store.Load: a state file that is not there is created empty first. *)
Load == /\ proc = "launched"
        /\ mem' = IF file = Missing THEN Empty ELSE file
        /\ file' = mem'
        /\ proc' = "loaded"
        /\ UNCHANGED <<old, socket, calls, answer, read>>

(* A stale socket is replaced. *)
Listen == /\ proc = "loaded"
          /\ proc' = "up" /\ socket' = TRUE
          /\ UNCHANGED <<mem, old, file, calls, answer, read>>

(* The process ends: a failed start, a signal or a crash.  Every call it   *)
(* held is cut off, wherever it was, and clients see the connection go.    *)
Down == /\ proc' = "down" /\ socket' = FALSE
        /\ mem' = Empty /\ old' = None /\ calls' = <<>> /\ read' = None
        /\ answer' = [c \in Clients |-> IF answer[c] = "waiting" THEN "failed" ELSE answer[c]]
        /\ UNCHANGED file

Exit == proc # "down" /\ Down

-----------------------------------------------------------------------------
(* Calls on the control socket *)

Settle(c, a) == IF c = None THEN answer ELSE [answer EXCEPT ![c] = a]

(* Client.call: dial, send, and wait for the answer. *)
Call(c, r) ==
    /\ answer[c] = "idle"
    /\ IF socket
       THEN /\ Len(calls) < MaxCalls
            /\ calls' = Append(calls, [req |-> r, from |-> c])
            /\ answer' = Settle(c, "waiting")
       ELSE answer' = Settle(c, "failed") /\ UNCHANGED calls
    /\ UNCHANGED <<proc, mem, old, file, socket, read>>

(* The calls q when nobody in set C waits for them any more. *)
Released(q, C) ==
    [i \in 1..Len(q) |-> IF q[i].from \in C THEN [q[i] EXCEPT !.from = None] ELSE q[i]]

(* The deadline of the client. *)
GiveUp(c) == /\ answer[c] = "waiting"
             /\ answer' = Settle(c, "failed")
             /\ calls' = Released(calls, {c})
             /\ UNCHANGED <<proc, mem, old, file, socket, read>>

(* The client reads its answer and goes on. *)
Resume(c, a) == /\ answer[c] = a
                /\ answer' = Settle(c, "idle")
                /\ UNCHANGED <<proc, mem, old, file, socket, calls, read>>

(* Store.SetSubnet, SetHost and DelHost up to persist. *)
Change == /\ old = None /\ calls # <<>>
          /\ old' = mem
          /\ mem' = T!dispatch(mem, Head(calls).req)
          /\ UNCHANGED <<proc, file, socket, calls, answer, read>>

(* Faulty variant: the memory is saved as it was before the change. *)
PersistStale == /\ old # None
                /\ file' = old
                /\ old' = None /\ calls' = Tail(calls)
                /\ answer' = Settle(Head(calls).from, "ok")
                /\ UNCHANGED <<proc, mem, socket, read>>

(* statefile.Save replaces the file by a rename once its new content is    *)
(* on the disk.                                                            *)
Persist == /\ old # None
           /\ file' = mem
           /\ old' = None /\ calls' = Tail(calls)
           /\ answer' = Settle(Head(calls).from, "ok")
           /\ UNCHANGED <<proc, mem, socket, read>>

(* Faulty variant: a change that could not be saved stays in memory. *)
NoRollBack == /\ old # None
              /\ old' = None /\ calls' = Tail(calls)
              /\ answer' = Settle(Head(calls).from, "failed")
              /\ UNCHANGED <<proc, mem, file, socket, read>>

(* Save fails before the rename: the memory goes back to what it was. *)
RollBack == /\ old # None
            /\ mem' = old
            /\ old' = None /\ calls' = Tail(calls)
            /\ answer' = Settle(Head(calls).from, "failed")
            /\ UNCHANGED <<proc, file, socket, read>>

-----------------------------------------------------------------------------
(* Faulty variant: configured is not looked at. *)
HandleUnconfigured(m) ==
    /\ proc = "up" /\ read = None /\ old = None
    /\ read' = [mac |-> m, subnet |-> mem.subnet]
    /\ UNCHANGED <<proc, mem, old, file, socket, calls, answer>>

(* Handle and Probe read the subnet, then the reservation, each under a    *)
(* read lock of its own.  Without either there is no reply.                *)
HandleSubnet(m) ==
    /\ proc = "up" /\ read = None /\ old = None
    /\ read' = IF mem.subnet = None THEN None ELSE [mac |-> m, subnet |-> mem.subnet]
    /\ UNCHANGED <<proc, mem, old, file, socket, calls, answer>>

HandleHost ==
    /\ read # None /\ old = None
    /\ read' = None
    /\ UNCHANGED <<proc, mem, old, file, socket, calls, answer>>

(* The agent takes the files away: statefile.Remove minds no absence. *)
RemoveState == /\ file' = Missing
               /\ UNCHANGED <<proc, mem, old, socket, calls, answer, read>>

RemoveSocket == /\ socket' = FALSE
                /\ UNCHANGED <<proc, mem, old, file, calls, answer, read>>

ServerStep == \/ Load \/ Listen \/ Exit \/ Change \/ Persist \/ RollBack
              \/ (\E m \in Macs : HandleSubnet(m)) \/ HandleHost

(* What clients, the agent and the host's operator do to the server. *)
ServerUse == \/ Launch \/ RemoveState \/ RemoveSocket
             \/ \E c \in Clients : \/ \E r \in T!Requests : Call(c, r)
                                   \/ GiveUp(c)
                                   \/ \E a \in {"ok", "failed"} : Resume(c, a)

ServerNext == ServerStep \/ ServerUse
ServerSpec == ServerInit /\ [][ServerNext]_serverVars

-----------------------------------------------------------------------------
(* The values the parts of the server hold. *)
ServerTypeOK ==
    /\ proc \in {"down", "launched", "loaded", "up"}
    /\ mem \in T!Tables /\ old \in T!Tables \cup {None}
    /\ file \in T!Tables \cup {Missing}
    /\ socket \in BOOLEAN
    /\ calls \in Seq([req : T!Requests, from : Clients \cup {None}])
    /\ answer \in [Clients -> {"idle", "waiting", "ok", "failed"}]
    /\ read \in [mac : Macs, subnet : Configs] \cup {None}

(* What the lock and the rename protect: a state file that is there holds  *)
(* what the memory held when the lock was last free, so a crash at any     *)
(* point of a change loses nothing that was acknowledged and keeps nothing *)
(* that was refused.                                                       *)
FileHoldsTable ==
    /\ proc \in {"loaded", "up"} => file \in {Missing, CurrentTable}
    /\ old # None => /\ proc = "up" /\ calls # <<>>
                     /\ mem = T!dispatch(old, Head(calls).req)
    /\ calls # <<>> => proc = "up"
    /\ socket => proc = "up"

(* The server keeps the promise of LeaseTable, whatever crashes, fails to  *)
(* be saved or is taken away under it.                                     *)
ImplementsTable == T!Spec
=============================================================================

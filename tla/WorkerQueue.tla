---------------------------- MODULE WorkerQueue ----------------------------
(***************************************************************************)
(* The task queue of the agent (pkg/worker) and the agent's orderly stop   *)
(* (shutdown in cmd/agent): HTTP handlers submit tasks to a channel that   *)
(* workers drain; on a signal the servers stop, the queue stops, and the   *)
(* database is closed if both were in time.                                *)
(*                                                                         *)
(* Submit holds the read side of a lock while it sends, and the send       *)
(* blocks when the channel is full; Stop closes the channel under the      *)
(* write side.  Go lets no reader in while a writer waits.                 *)
(***************************************************************************)
EXTENDS Naturals, Sequences

CONSTANTS Requests,   \* HTTP requests; each one submits one task, named after it
          Workers,    \* worker goroutines (worker.count)
          Capacity    \* buffer of the channel (worker.buffer_size)

(* A worker runs a task, or is one of these. *)
Idle   == "idle"
Exited == "exited"

(* The pool has a worker: worker.count is 4 unless it is configured. *)
ASSUME QueueAssumption == /\ Capacity \in Nat
                          /\ Workers # {}
                          /\ Requests \cap {Idle, Exited} = {}

VARIABLES
    pc,        \* [Requests -> where the handler of the request is]
    chan,      \* the channel's buffer
    closed,    \* has the channel been closed?
    stopped,   \* Queue.stopped
    work,      \* [Workers -> the task it runs, Idle or Exited]
    stop,      \* where the goroutine that calls Queue.Stop is
    main,      \* where shutdown is
    expired,   \* has the shutdown context expired?
    watchdog,  \* has the watchdog stopped?
    accepted,  \* tasks that Submit has sent
    ran        \* tasks that have run to their end

vars == <<pc, chan, closed, stopped, work, stop, main, expired, watchdog, accepted, ran>>
queueVars == <<chan, closed, stopped, work, stop, accepted, ran>>
mainVars == <<main, expired, watchdog>>

Init == /\ pc = [r \in Requests |-> "new"]
        /\ chan = <<>>
        /\ closed = FALSE
        /\ stopped = FALSE
        /\ work = [w \in Workers |-> Idle]
        /\ stop = "off"
        /\ main = "serving"
        /\ expired = FALSE
        /\ watchdog = FALSE
        /\ accepted = {}
        /\ ran = {}

-----------------------------------------------------------------------------
(* Handlers.  "prepare" and "answer" read and write the database. *)

Goto(r, l) == pc' = [pc EXCEPT ![r] = l]

(* The listener is closed as soon as Shutdown is called. *)
Accept(r) ==
    /\ pc[r] = "new" /\ main = "serving"
    /\ Goto(r, "prepare")
    /\ UNCHANGED <<queueVars, mainVars>>

(* Prepare may refuse the request: nothing is submitted. *)
Refuse(r) ==
    /\ pc[r] = "prepare"
    /\ Goto(r, "answer")
    /\ UNCHANGED <<queueVars, mainVars>>

RLock(r) ==
    /\ pc[r] = "prepare"
    /\ stop # "pending"
    /\ Goto(r, "locked")
    /\ UNCHANGED <<queueVars, mainVars>>

(* Faulty variant: stopped is not looked at. *)
SendAnyway(r) ==
    /\ pc[r] = "locked"
    /\ Goto(r, "sending")
    /\ UNCHANGED <<queueVars, mainVars>>

(* The check of stopped; a rejected task is only logged. *)
CheckStopped(r) ==
    /\ pc[r] = "locked"
    /\ Goto(r, IF stopped THEN "answer" ELSE "sending")
    /\ UNCHANGED <<queueVars, mainVars>>

Send(r) ==
    /\ pc[r] = "sending"
    /\ Len(chan) < Capacity
    /\ chan' = Append(chan, r)
    /\ accepted' = accepted \cup {r}
    /\ Goto(r, "answer")
    /\ UNCHANGED <<closed, stopped, work, stop, ran, mainVars>>

(* A receiver that waits on an empty channel is handed the task directly:  *)
(* the only way to send when the channel has no buffer.                    *)
HandOver(r, w) ==
    /\ pc[r] = "sending"
    /\ chan = <<>> /\ work[w] = Idle
    /\ work' = [work EXCEPT ![w] = r]
    /\ accepted' = accepted \cup {r}
    /\ Goto(r, "answer")
    /\ UNCHANGED <<chan, closed, stopped, stop, ran, mainVars>>

Answer(r) ==
    /\ pc[r] = "answer"
    /\ Goto(r, "done")
    /\ UNCHANGED <<queueVars, mainVars>>

-----------------------------------------------------------------------------
(* Workers: for task := range q.tasks { task() } *)

(* Faulty variants: the end of the channel is not told from a task; a      *)
(* worker takes no task once Stop has been called.                         *)
ReceiveUnchecked(w) ==
    /\ work[w] = Idle /\ (chan # <<>> \/ closed)
    /\ work' = [work EXCEPT ![w] = IF chan = <<>> THEN "nil" ELSE Head(chan)]
    /\ chan' = IF chan = <<>> THEN <<>> ELSE Tail(chan)
    /\ UNCHANGED <<pc, closed, stopped, stop, accepted, ran, mainVars>>

ReceiveUntilStop(w) ==
    /\ work[w] = Idle /\ chan # <<>> /\ stop = "off"
    /\ work' = [work EXCEPT ![w] = Head(chan)]
    /\ chan' = Tail(chan)
    /\ UNCHANGED <<pc, closed, stopped, stop, accepted, ran, mainVars>>

Receive(w) ==
    /\ work[w] = Idle /\ chan # <<>>
    /\ work' = [work EXCEPT ![w] = Head(chan)]
    /\ chan' = Tail(chan)
    /\ UNCHANGED <<pc, closed, stopped, stop, accepted, ran, mainVars>>

Complete(w) ==
    /\ work[w] \in Requests
    /\ ran' = ran \cup {work[w]}
    /\ work' = [work EXCEPT ![w] = Idle]
    /\ UNCHANGED <<pc, chan, closed, stopped, stop, accepted, mainVars>>

(* Faulty variant: a worker leaves without draining the channel. *)
ExitAtOnce(w) ==
    /\ work[w] = Idle /\ closed
    /\ work' = [work EXCEPT ![w] = Exited]
    /\ UNCHANGED <<pc, chan, closed, stopped, stop, accepted, ran, mainVars>>

Exit(w) ==
    /\ work[w] = Idle /\ closed /\ chan = <<>>
    /\ work' = [work EXCEPT ![w] = Exited]
    /\ UNCHANGED <<pc, chan, closed, stopped, stop, accepted, ran, mainVars>>

-----------------------------------------------------------------------------
(* Queue.Stop *)

Readers == {r \in Requests : pc[r] \in {"locked", "sending"}}

(* Faulty variant: the buffered tasks are dropped. *)
CloseAndDrop ==
    /\ stop = "pending"
    /\ Readers = {}
    /\ stopped' = TRUE /\ closed' = TRUE
    /\ chan' = <<>>
    /\ stop' = "draining"
    /\ UNCHANGED <<pc, work, accepted, ran, mainVars>>

(* Lock, stopped = true, close, Unlock: no other goroutine sees a state    *)
(* between them.                                                           *)
Close ==
    /\ stop = "pending"
    /\ Readers = {}
    /\ stopped' = TRUE /\ closed' = TRUE
    /\ stop' = "draining"
    /\ UNCHANGED <<pc, chan, work, accepted, ran, mainVars>>

(* Faulty variant: Stop does not wait for the workers. *)
DrainedAtOnce ==
    /\ stop = "draining"
    /\ stop' = "returned"
    /\ UNCHANGED <<pc, chan, closed, stopped, work, accepted, ran, mainVars>>

Drained ==
    /\ stop = "draining"
    /\ \A w \in Workers : work[w] = Exited
    /\ stop' = "returned"
    /\ UNCHANGED <<pc, chan, closed, stopped, work, accepted, ran, mainVars>>

-----------------------------------------------------------------------------
(* shutdown *)

Active == {r \in Requests : pc[r] \notin {"new", "done"}}

Signal ==
    /\ main = "serving"
    /\ main' = "http"
    /\ UNCHANGED <<pc, queueVars, expired, watchdog>>

Expire ==
    /\ main # "serving" /\ ~expired
    /\ expired' = TRUE
    /\ UNCHANGED <<pc, queueVars, main, watchdog>>

WatchdogStops ==
    /\ main # "serving" /\ ~watchdog
    /\ watchdog' = TRUE
    /\ UNCHANGED <<pc, queueVars, main, expired>>

(* Shutdown of the servers returns when no handler is left, or when the    *)
(* context expires; then a goroutine calls Stop.                           *)
HTTPDown ==
    /\ main = "http"
    /\ Active = {} \/ expired
    /\ main' = "drain"
    /\ stop' = "pending"
    /\ UNCHANGED <<pc, chan, closed, stopped, work, accepted, ran, expired, watchdog>>

(* Each select takes any of its cases that is ready. *)
SelectDrained ==
    /\ main = "drain" /\ stop = "returned"
    /\ main' = "watchdog"
    /\ UNCHANGED <<pc, queueVars, expired, watchdog>>

SelectWatchdog ==
    /\ main = "watchdog" /\ watchdog
    /\ main' = "closed"
    /\ UNCHANGED <<pc, queueVars, expired, watchdog>>

SelectExpired ==
    /\ main \in {"drain", "watchdog"} /\ expired
    /\ main' = "left"
    /\ UNCHANGED <<pc, queueVars, expired, watchdog>>

-----------------------------------------------------------------------------
Handle(r) == Refuse(r) \/ RLock(r) \/ CheckStopped(r) \/ Answer(r)
Submit(r) == Send(r) \/ \E w \in Workers : HandOver(r, w)
Run(w)    == Receive(w) \/ Complete(w) \/ Exit(w)
Shutdown  == HTTPDown \/ Close \/ Drained \/ SelectDrained \/ SelectWatchdog \/ SelectExpired

Next == \/ \E r \in Requests : Accept(r) \/ Handle(r) \/ Submit(r)
        \/ \E w \in Workers : Run(w)
        \/ Signal \/ Expire \/ WatchdogStops \/ Shutdown

Spec == Init /\ [][Next]_vars

(* Handlers and tasks end, a blocked sender gets its turn, the shutdown    *)
(* goroutines are scheduled.  No signal need come, and no timer is needed. *)
Fairness == /\ \A r \in Requests : WF_vars(Handle(r)) /\ SF_vars(Submit(r))
            /\ \A w \in Workers : WF_vars(Run(w))
            /\ WF_vars(Close) /\ WF_vars(Drained) /\ WF_vars(HTTPDown)

FairSpec == Spec /\ Fairness

-----------------------------------------------------------------------------
(* The kinds of values the variables hold. *)
QueueTypeOK ==
    /\ pc \in [Requests -> {"new", "prepare", "locked", "sending", "answer", "done"}]
    /\ chan \in Seq(Requests)
    /\ closed \in BOOLEAN /\ stopped \in BOOLEAN
    /\ work \in [Workers -> Requests \cup {Idle, Exited}]
    /\ stop \in {"off", "pending", "draining", "returned"}
    /\ main \in {"serving", "http", "drain", "watchdog", "closed", "left"}
    /\ expired \in BOOLEAN /\ watchdog \in BOOLEAN
    /\ accepted \in SUBSET Requests /\ ran \in SUBSET Requests

(* No goroutine is about to send on the channel once it is closed, which   *)
(* would panic the agent: Stop gets the write lock only when every Submit  *)
(* has released the read lock, and a later Submit sees stopped.            *)
NoSendOnClosed == closed => \A r \in Requests : pc[r] # "sending"

InChannel(r) == \E i \in 1..Len(chan) : chan[i] = r
InWorker(r)  == \E w \in Workers : work[w] = r

(* A task that Submit accepted is queued, running or done, and in one      *)
(* place only: none is dropped by Stop, none is run twice.                 *)
TasksConserved ==
    /\ \A r \in accepted : InChannel(r) \/ InWorker(r) \/ r \in ran
    /\ \A r \in Requests : InChannel(r) \/ InWorker(r) => r \in accepted \ ran
    /\ \A i, j \in 1..Len(chan) : chan[i] = chan[j] => i = j
    /\ \A w, x \in Workers : work[w] = work[x] /\ work[w] \in Requests => w = x
    /\ \A r \in Requests : ~(InChannel(r) /\ InWorker(r))

(* When Stop has returned, and so whenever the database has been closed,   *)
(* every accepted task has run and no worker is left.                      *)
StopDrains ==
    stop = "returned" \/ main \in {"watchdog", "closed"} =>
       accepted = ran /\ \A w \in Workers : work[w] = Exited

(* A task that was accepted runs. *)
AcceptedTasksRun == \A r \in Requests : r \in accepted ~> r \in ran

(* Stop returns, even if it finds a full channel and a sender blocked on   *)
(* it with the read lock held.                                             *)
StopReturns == stop = "pending" ~> stop = "returned"

(* No handler is left to use the database after it has been closed: the    *)
(* servers are stopped first, and a stop that takes too long does not      *)
(* close it.                                                               *)
ClosedDatabaseIsQuiet == main = "closed" => Active = {}
=============================================================================

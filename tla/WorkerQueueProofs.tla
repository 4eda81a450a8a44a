------------------------- MODULE WorkerQueueProofs -------------------------
(***************************************************************************)
(* For any number of requests, workers and slots: no send on the closed    *)
(* channel, no task lost or run twice, nothing left when Stop returns.     *)
(***************************************************************************)
EXTENDS WorkerQueue, SequenceTheorems, TLAPS

(* The variables keep their types. *)
THEOREM QueueTypeCorrect == Spec => []QueueTypeOK
  <1>1. Init => QueueTypeOK
    <2>1. <<>> \in Seq(Requests)
      OBVIOUS
    <2> QED
      BY <2>1, Zenon DEF Init, QueueTypeOK
  <1>2. QueueTypeOK /\ [Next]_vars => QueueTypeOK'
    <2> SUFFICES ASSUME QueueTypeOK, [Next]_vars PROVE QueueTypeOK'
      OBVIOUS
    <2> USE DEF QueueTypeOK, Goto, queueVars, mainVars
    <2>1. ASSUME NEW r \in Requests, Accept(r) \/ Handle(r) PROVE QueueTypeOK'
      BY <2>1 DEF Accept, Handle, Refuse, RLock, CheckStopped, Answer
    <2>2. ASSUME NEW r \in Requests, Send(r) PROVE QueueTypeOK'
      BY <2>2, AppendProperties DEF Send
    <2>3. ASSUME NEW r \in Requests, NEW w \in Workers, HandOver(r, w) PROVE QueueTypeOK'
      BY <2>3 DEF HandOver
    <2>4. ASSUME NEW w \in Workers, Receive(w) PROVE QueueTypeOK'
      <3>1. Head(chan) \in Requests /\ Tail(chan) \in Seq(Requests)
        BY <2>4, HeadTailProperties DEF Receive
      <3> QED
        BY <2>4, <3>1 DEF Receive
    <2>5. ASSUME NEW w \in Workers, Complete(w) \/ Exit(w) PROVE QueueTypeOK'
      BY <2>5 DEF Complete, Exit
    <2>6. CASE Signal \/ Expire \/ WatchdogStops
      BY <2>6, Zenon DEF Signal, Expire, WatchdogStops
    <2>7. CASE Shutdown
      BY <2>7, Zenon DEF Shutdown, HTTPDown, Close, Drained, SelectDrained, SelectWatchdog, SelectExpired
    <2>8. CASE UNCHANGED vars
      BY <2>8 DEF vars
    <2> QED
      BY <2>1, <2>2, <2>3, <2>4, <2>5, <2>6, <2>7, <2>8 DEF Next, Submit, Run
  <1> QED
    BY <1>1, <1>2, PTL DEF Spec

(* Submit checks under the read lock what Stop sets under the write lock:  *)
(* no send on a closed channel.                                            *)
THEOREM SendIsSafe == Spec => []NoSendOnClosed
  <1> DEFINE Inv == closed = stopped /\ NoSendOnClosed
  <1>1. Init => Inv
    BY Zenon DEF Init, NoSendOnClosed
  <1>2. QueueTypeOK /\ Inv /\ [Next]_vars => Inv'
    <2> SUFFICES ASSUME QueueTypeOK, Inv, [Next]_vars PROVE Inv'
      OBVIOUS
    <2> USE DEF QueueTypeOK, NoSendOnClosed, Goto, queueVars, mainVars
    <2>1. ASSUME NEW r \in Requests, Accept(r) \/ Handle(r) PROVE Inv'
      BY <2>1 DEF Accept, Handle, Refuse, RLock, CheckStopped, Answer
    <2>2. ASSUME NEW r \in Requests, Submit(r) PROVE Inv'
      BY <2>2 DEF Submit, Send, HandOver
    <2>3. ASSUME NEW w \in Workers, Run(w) PROVE Inv'
      BY <2>3 DEF Run, Receive, Complete, Exit
    <2>4. CASE Signal \/ Expire \/ WatchdogStops
      BY <2>4 DEF Signal, Expire, WatchdogStops
    <2>5. CASE Close
      BY <2>5 DEF Close, Readers
    <2>6. CASE HTTPDown \/ Drained \/ SelectDrained \/ SelectWatchdog \/ SelectExpired
      BY <2>6 DEF HTTPDown, Drained, SelectDrained, SelectWatchdog, SelectExpired
    <2>7. CASE UNCHANGED vars
      BY <2>7 DEF vars
    <2> QED
      BY <2>1, <2>2, <2>3, <2>4, <2>5, <2>6, <2>7 DEF Next, Shutdown
  <1> QED
    BY <1>1, <1>2, QueueTypeCorrect, PTL DEF Spec

(* What makes TasksConserved inductive: a handler that is still to send    *)
(* has nothing in the queue.                                               *)
Conserved == /\ TasksConserved
             /\ \A r \in accepted : pc[r] \in {"answer", "done"}
             /\ ran \subseteq accepted

(* Tasks are conserved, and a task is accepted once. *)
LEMMA ConservedAlways == Spec => []Conserved
  <1>1. Init => Conserved
    BY QueueAssumption DEF Init, Conserved, TasksConserved, InChannel, InWorker, Idle
  <1>2. QueueTypeOK /\ Conserved /\ [Next]_vars => Conserved'
    <2> SUFFICES ASSUME QueueTypeOK, Conserved, [Next]_vars PROVE Conserved'
      OBVIOUS
    <2> USE QueueAssumption DEF QueueTypeOK, Conserved, Goto, queueVars, mainVars
    <2>1. ASSUME NEW r \in Requests, Accept(r) \/ Handle(r) PROVE Conserved'
      BY <2>1 DEF Accept, Handle, Refuse, RLock, CheckStopped, Answer,
                  TasksConserved, InChannel, InWorker
    <2>2. ASSUME NEW r \in Requests, Send(r) PROVE Conserved'
      <3>1. /\ chan' = Append(chan, r) /\ work' = work /\ ran' = ran
            /\ accepted' = accepted \cup {r} /\ r \notin accepted
            /\ \A q \in accepted' : pc'[q] \in {"answer", "done"}
        BY <2>2 DEF Send
      <3>2. ~InChannel(r) /\ ~InWorker(r)
        BY <3>1 DEF TasksConserved
      <3>3. /\ Len(chan') = Len(chan) + 1 /\ Len(chan) \in Nat
            /\ \A i \in 1..Len(chan) : chan'[i] = chan[i]
            /\ chan'[Len(chan) + 1] = r
        BY <3>1, AppendProperties
      <3>4. \A j \in 1..Len(chan') : \/ j \in 1..Len(chan) /\ chan'[j] = chan[j]
                                     \/ j = Len(chan) + 1 /\ chan'[j] = r
        BY <3>3
      <3>5. \A q \in Requests : InChannel(q)' <=> InChannel(q) \/ q = r
        <4>1. ASSUME NEW q \in Requests, InChannel(q)' PROVE InChannel(q) \/ q = r
          BY <4>1, <3>4 DEF InChannel
        <4>2. ASSUME NEW q \in Requests, InChannel(q) PROVE InChannel(q)'
          BY <4>2, <3>3 DEF InChannel
        <4>3. Len(chan) + 1 \in 1..Len(chan')
          BY <3>3
        <4>4. InChannel(r)'
          BY <3>3, <4>3 DEF InChannel
        <4> QED
          BY <4>1, <4>2, <4>4
      <3>6. \A q \in Requests : InWorker(q)' <=> InWorker(q)
        BY <3>1 DEF InWorker
      <3>7. \A i, j \in 1..Len(chan') : chan'[i] = chan'[j] => i = j
        BY <3>2, <3>4 DEF InChannel, TasksConserved
      <3> QED
        BY <3>1, <3>2, <3>5, <3>6, <3>7 DEF TasksConserved
    <2>3. ASSUME NEW r \in Requests, NEW w \in Workers, HandOver(r, w) PROVE Conserved'
      <3>1. /\ chan' = chan /\ ran' = ran
            /\ work[w] = Idle /\ work' = [work EXCEPT ![w] = r]
            /\ accepted' = accepted \cup {r} /\ r \notin accepted
            /\ \A q \in accepted' : pc'[q] \in {"answer", "done"}
        BY <2>3 DEF HandOver
      <3>2. ~InChannel(r) /\ ~InWorker(r)
        BY <3>1 DEF TasksConserved
      <3>3. \A q \in Requests : InChannel(q)' <=> InChannel(q)
        BY <3>1 DEF InChannel
      <3>4. \A q \in Requests : InWorker(q)' <=> InWorker(q) \/ q = r
        BY <3>1 DEF InWorker
      <3> QED
        BY <3>1, <3>2, <3>3, <3>4 DEF TasksConserved, InWorker
    <2>4. ASSUME NEW w \in Workers, Receive(w) PROVE Conserved'
      <3> DEFINE t == Head(chan)
      <3>1. /\ chan' = Tail(chan) /\ chan # <<>> /\ ran' = ran /\ accepted' = accepted
            /\ work[w] = Idle /\ work' = [work EXCEPT ![w] = t] /\ pc' = pc
        BY <2>4 DEF Receive
      <3>2. /\ Len(chan) \in Nat \ {0} /\ t = chan[1] /\ t \in Requests
            /\ Len(chan') = Len(chan) - 1
            /\ \A i \in 1..Len(chan') : i + 1 \in 1..Len(chan) /\ chan'[i] = chan[i + 1]
        BY <3>1, HeadTailProperties
      <3>3. InChannel(t) /\ ~InWorker(t)
        BY <3>2 DEF InChannel, TasksConserved
      <3>4. \A q \in Requests : InChannel(q)' <=> InChannel(q) /\ q # t
        <4>1. \A i \in 2..Len(chan) : i - 1 \in 1..Len(chan') /\ chan'[i - 1] = chan[i]
          BY <3>2
        <4>2. \A i \in 1..Len(chan) : chan[i] = t => i = 1
          BY <3>2 DEF TasksConserved
        <4>3. ASSUME NEW q \in Requests, InChannel(q)' PROVE InChannel(q) /\ q # t
          <5>1. PICK i \in 1..Len(chan') : chan'[i] = q
            BY <4>3 DEF InChannel
          <5>2. i \in Nat /\ i + 1 \in 1..Len(chan) /\ chan[i + 1] = q /\ i + 1 # 1
            BY <5>1, <3>2
          <5> QED
            BY <5>2, <4>2 DEF InChannel
        <4>4. ASSUME NEW q \in Requests, InChannel(q), q # t PROVE InChannel(q)'
          <5>1. PICK i \in 1..Len(chan) : chan[i] = q
            BY <4>4 DEF InChannel
          <5>2. i \in 2..Len(chan)
            BY <5>1, <4>4, <3>2
          <5>3. i - 1 \in 1..Len(chan') /\ chan'[i - 1] = q
            BY <5>1, <5>2, <4>1
          <5> QED
            BY <5>3 DEF InChannel
        <4> QED
          BY <4>3, <4>4
      <3>5. \A q \in Requests : InWorker(q)' <=> InWorker(q) \/ q = t
        BY <3>1, <3>2 DEF InWorker
      <3>6. \A i, j \in 1..Len(chan') : chan'[i] = chan'[j] => i = j
        BY <3>2 DEF TasksConserved
      <3> QED
        BY <3>1, <3>2, <3>3, <3>4, <3>5, <3>6 DEF TasksConserved, InWorker
    <2>5. ASSUME NEW w \in Workers, Complete(w) PROVE Conserved'
      <3>1. /\ chan' = chan /\ accepted' = accepted /\ pc' = pc
            /\ work[w] \in Requests /\ work' = [work EXCEPT ![w] = Idle]
            /\ ran' = ran \cup {work[w]}
        BY <2>5 DEF Complete
      <3>2. InWorker(work[w])
        BY <3>1 DEF InWorker
      <3>3. \A q \in Requests : InChannel(q)' <=> InChannel(q)
        BY <3>1 DEF InChannel
      <3>4. \A q \in Requests : InWorker(q)' <=> InWorker(q) /\ q # work[w]
        BY <3>1 DEF InWorker, TasksConserved
      <3> QED
        BY <3>1, <3>2, <3>3, <3>4 DEF TasksConserved
    <2>6. ASSUME NEW w \in Workers, Exit(w) PROVE Conserved'
      <3>1. /\ chan' = chan /\ accepted' = accepted /\ pc' = pc /\ ran' = ran
            /\ work[w] = Idle /\ work' = [work EXCEPT ![w] = Exited]
        BY <2>6 DEF Exit
      <3>2. \A q \in Requests : (InChannel(q)' <=> InChannel(q)) /\ (InWorker(q)' <=> InWorker(q))
        BY <3>1 DEF InChannel, InWorker
      <3> QED
        BY <3>1, <3>2 DEF TasksConserved
    <2>7. CASE Signal \/ Expire \/ WatchdogStops \/ Shutdown
      BY <2>7 DEF Signal, Expire, WatchdogStops, Shutdown, HTTPDown, Close, Drained, SelectDrained,
                  SelectWatchdog, SelectExpired, TasksConserved, InChannel, InWorker
    <2>8. CASE UNCHANGED vars
      BY <2>8 DEF vars, TasksConserved, InChannel, InWorker
    <2> QED
      BY <2>1, <2>2, <2>3, <2>4, <2>5, <2>6, <2>7, <2>8 DEF Next, Submit, Run
  <1> QED
    BY <1>1, <1>2, QueueTypeCorrect, PTL DEF Spec

(* A task that Submit accepted is in one place until it has run, once. *)
THEOREM NoTaskLost == Spec => []TasksConserved
  <1>1. Conserved => TasksConserved
    BY DEF Conserved
  <1> QED
    BY <1>1, ConservedAlways, PTL

(* What makes StopDrains inductive: a worker leaves only a closed and      *)
(* empty channel, which stays so; shutdown asks for Stop once.             *)
Draining == /\ closed = stopped /\ NoSendOnClosed
            /\ \A w \in Workers : work[w] = Exited => closed /\ chan = <<>>
            /\ stop = "returned" => \A w \in Workers : work[w] = Exited
            /\ main \in {"serving", "http"} => stop = "off"
            /\ main \in {"watchdog", "closed"} => stop = "returned"

(* When Stop has returned, and when shutdown has closed the database, all  *)
(* accepted tasks have run and the workers are gone.                       *)
THEOREM StopLeavesNothing == Spec => []StopDrains
  <1>1. Init => Draining
    BY QueueAssumption, Zenon DEF Init, Draining, NoSendOnClosed, Idle, Exited
  <1>2. QueueTypeOK /\ Draining /\ [Next]_vars => Draining'
    <2> SUFFICES ASSUME QueueTypeOK, Draining, [Next]_vars PROVE Draining'
      OBVIOUS
    <2> USE QueueAssumption DEF QueueTypeOK, Draining, NoSendOnClosed, Goto, queueVars, mainVars
    <2>1. ASSUME NEW r \in Requests, Accept(r) \/ Handle(r) PROVE Draining'
      BY <2>1 DEF Accept, Handle, Refuse, RLock, CheckStopped, Answer
    <2>2. ASSUME NEW r \in Requests, Submit(r) PROVE Draining'
      <3>1. ~closed
        BY <2>2 DEF Submit, Send, HandOver
      <3> QED
        BY <2>2, <3>1 DEF Submit, Send, HandOver
    <2>3. ASSUME NEW w \in Workers, Run(w) PROVE Draining'
      BY <2>3 DEF Run, Receive, Complete, Exit, Idle, Exited
    <2>4. CASE Signal \/ Expire \/ WatchdogStops
      BY <2>4 DEF Signal, Expire, WatchdogStops
    <2>5. CASE Close
      BY <2>5 DEF Close, Readers
    <2>6. CASE HTTPDown \/ Drained
      BY <2>6 DEF HTTPDown, Drained
    <2>7. CASE SelectDrained \/ SelectWatchdog \/ SelectExpired
      BY <2>7 DEF SelectDrained, SelectWatchdog, SelectExpired
    <2>8. CASE UNCHANGED vars
      BY <2>8 DEF vars
    <2> QED
      BY <2>1, <2>2, <2>3, <2>4, <2>5, <2>6, <2>7, <2>8 DEF Next, Shutdown
  <1>3. QueueTypeOK /\ Draining /\ Conserved => StopDrains
    <2> SUFFICES ASSUME QueueTypeOK, Draining, Conserved,
                        stop = "returned" \/ main \in {"watchdog", "closed"}
                 PROVE  accepted = ran /\ \A w \in Workers : work[w] = Exited
      BY DEF StopDrains
    <2>1. \A w \in Workers : work[w] = Exited
      BY DEF Draining
    <2>2. chan = <<>>
      BY <2>1, QueueAssumption DEF Draining
    <2>3. \A r \in Requests : ~InChannel(r) /\ ~InWorker(r)
      BY <2>1, <2>2, QueueAssumption DEF InChannel, InWorker
    <2> QED
      BY <2>1, <2>3, Zenon DEF Conserved, TasksConserved, QueueTypeOK
  <1> QED
    BY <1>1, <1>2, <1>3, QueueTypeCorrect, ConservedAlways, PTL DEF Spec
=============================================================================

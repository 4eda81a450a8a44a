---------------------------- MODULE SubnetProofs ----------------------------
(***************************************************************************)
(* The DHCP server keeps its table; what the database calls running is     *)
(* served and what is gone is not, for every number of VMs, interfaces,    *)
(* clients and calls.  First the server by itself; then what a step of the *)
(* server, of a client or of a watcher leaves of what SubnetInv says of    *)
(* one VM, one interface, one call; then the steps themselves.             *)
(***************************************************************************)
EXTENDS SubnetInvariant, TLAPS

-----------------------------------------------------------------------------
(* The server: its queue, its table and its file *)

CallRecords == [req : T!Requests, from : Clients \cup {None}]

(* The queue with a call more. *)
LEMMA Appended ==
    ASSUME NEW q \in Seq(CallRecords), NEW e \in CallRecords
    PROVE  /\ Append(q, e) \in Seq(CallRecords) /\ Append(q, e) # <<>>
           /\ Len(Append(q, e)) = Len(q) + 1
           /\ \A i \in 1..Len(q) : Append(q, e)[i] = q[i]
           /\ Append(q, e)[Len(q) + 1] = e
           /\ q # <<>> => Head(Append(q, e)) = Head(q)
  <1>1. /\ Append(q, e) \in Seq(CallRecords) /\ Len(Append(q, e)) = Len(q) + 1
        /\ \A i \in 1..Len(q) : Append(q, e)[i] = q[i]
    OBVIOUS
  <1>2. Len(q) \in Nat /\ Append(q, e)[Len(q) + 1] = e
    OBVIOUS
  <1>3. Append(q, e) # <<>>
    BY <1>1, <1>2
  <1>4. ASSUME q # <<>> PROVE Head(Append(q, e)) = Head(q)
    <2>1. 1 \in 1..Len(q)
      BY <1>4
    <2>2. Head(q) = q[1] /\ Head(Append(q, e)) = Append(q, e)[1]
      BY <1>1, <1>3, <1>4
    <2> QED
      BY <1>1, <2>1, <2>2
  <1> QED
    BY <1>1, <1>2, <1>3, <1>4

(* The queue without its first call. *)
LEMMA Tailed ==
    ASSUME NEW q \in Seq(CallRecords), q # <<>>
    PROVE  /\ Tail(q) \in Seq(CallRecords) /\ Head(q) \in CallRecords
           /\ Len(Tail(q)) \in Nat /\ Len(q) = Len(Tail(q)) + 1
           /\ \A i \in 1..Len(Tail(q)) : i + 1 \in 1..Len(q) /\ Tail(q)[i] = q[i + 1]
           /\ Head(q) = q[1] /\ 1 \in 1..Len(q)
  OBVIOUS

(* An order makes a table of a table. *)
LEMMA DispatchType ==
    ASSUME NEW t \in T!Tables, NEW r \in T!Requests
    PROVE  T!dispatch(t, r) \in T!Tables
  <1>1. CASE r \in [op : {"set-subnet"}, subnet : Configs]
    BY <1>1 DEF T!dispatch, T!SetSubnet, T!Tables
  <1>2. CASE r \in [op : {"set-host"}, mac : Macs, host : Hosts]
    BY <1>2 DEF T!dispatch, T!SetHost, T!Tables
  <1>3. CASE r \in [op : {"del-host"}, mac : Macs]
    BY <1>3 DEF T!dispatch, T!DelHost, T!Tables
  <1> QED
    BY <1>1, <1>2, <1>3 DEF T!Requests

LEMMA EmptyType == Empty \in T!Tables
  BY DEF Empty, T!Empty, T!Tables

(* The marks are told apart from the tables. *)
LEMMA Marks == /\ \A t \in T!Tables : t # None /\ t # Missing
               /\ None \notin Clients /\ None \notin Configs \cup Hosts
  BY DhcpAssumption DEF DhcpAssumption

(* Giving up a call leaves the calls where they are. *)
LEMMA ReleasedFacts ==
    ASSUME NEW q \in Seq(CallRecords), NEW C
    PROVE  /\ Released(q, C) \in Seq(CallRecords)
           /\ q # <<>> <=> Released(q, C) # <<>>
           /\ q # <<>> => Head(Released(q, C)).req = Head(q).req
  <1>1. Len(q) \in Nat /\ \A i \in 1..Len(q) : q[i] \in CallRecords
    OBVIOUS
  <1>2. \A i \in 1..Len(q) : Released(q, C)[i] \in CallRecords
    BY <1>1 DEF CallRecords, Released
  <1>3. Released(q, C) \in Seq(CallRecords) /\ Len(Released(q, C)) = Len(q)
    BY <1>1, <1>2 DEF Released
  <1>4. q # <<>> <=> Released(q, C) # <<>>
    BY <1>1, <1>3
  <1>5. ASSUME q # <<>>
        PROVE  Head(Released(q, C)).req = Head(q).req
    <2>1. 1 \in 1..Len(q) /\ Head(q) = q[1] /\ Head(Released(q, C)) = Released(q, C)[1]
      BY <1>1, <1>3, <1>4, <1>5
    <2> QED
      BY <1>1, <2>1 DEF CallRecords, Released
  <1> QED
    BY <1>3, <1>4, <1>5

(* The answer of a client is one of the four, whoever is answered. *)
LEMMA SettleType ==
    ASSUME answer \in [Clients -> {"idle", "waiting", "ok", "failed"}],
           NEW c \in Clients \cup {None}, NEW a \in {"idle", "waiting", "ok", "failed"}
    PROVE  Settle(c, a) \in [Clients -> {"idle", "waiting", "ok", "failed"}]
  BY DEF Settle

(* A call at the head of the queue carries a request of a client, or of    *)
(* one that has given it up.                                               *)
LEMMA HeadFacts ==
    ASSUME ServerTypeOK, calls # <<>>
    PROVE  /\ Head(calls).req \in T!Requests
           /\ Head(calls).from \in Clients \cup {None}
           /\ Tail(calls) \in Seq(CallRecords)
  <1>1. calls \in Seq(CallRecords)
    BY DEF ServerTypeOK, CallRecords
  <1>2. Head(calls) \in CallRecords /\ Tail(calls) \in Seq(CallRecords)
    BY <1>1, Tailed
  <1> QED
    BY <1>2 DEF CallRecords

(* Every step of the server, and of those who use it, keeps the types. *)
LEMMA TypeStep ==
    ASSUME ServerTypeOK, FileHoldsTable, [ServerNext]_serverVars
    PROVE  ServerTypeOK'
  <1>1. CASE Launch
    BY <1>1 DEF Launch, ServerTypeOK
  <1>2. CASE Load
    BY <1>2, EmptyType DEF Load, ServerTypeOK
  <1>3. CASE Listen
    BY <1>3 DEF Listen, ServerTypeOK
  <1>4. CASE Exit
    <2>1. answer' \in [Clients -> {"idle", "waiting", "ok", "failed"}]
      BY <1>4 DEF Exit, Down, ServerTypeOK
    <2>2. calls' \in Seq([req : T!Requests, from : Clients \cup {None}])
      BY <1>4 DEF Exit, Down
    <2> QED
      BY <1>4, <2>1, <2>2, EmptyType DEF Exit, Down, ServerTypeOK
  <1>5. CASE Change
    <2>1. mem' \in T!Tables /\ old' \in T!Tables
      BY <1>5, HeadFacts, DispatchType DEF Change, ServerTypeOK
    <2> QED
      BY <1>5, <2>1 DEF Change, ServerTypeOK
  <1>6. CASE Persist \/ RollBack
    <2>1. calls # <<>> /\ old \in T!Tables
      BY <1>6 DEF Persist, RollBack, FileHoldsTable, ServerTypeOK
    <2>2. calls' \in Seq(CallRecords)
      BY <1>6, <2>1, HeadFacts DEF Persist, RollBack
    <2>3. answer' \in [Clients -> {"idle", "waiting", "ok", "failed"}]
      BY <1>6, <2>1, HeadFacts, SettleType DEF Persist, RollBack, ServerTypeOK
    <2> QED
      BY <1>6, <2>1, <2>2, <2>3 DEF Persist, RollBack, ServerTypeOK, CallRecords
  <1>7. ASSUME NEW m \in Macs, HandleSubnet(m)
        PROVE  ServerTypeOK'
    <2>1. mem.subnet \in Configs \cup {None}
      BY DEF ServerTypeOK, T!Tables
    <2> QED
      BY <1>7, <2>1 DEF HandleSubnet, ServerTypeOK
  <1>8. CASE HandleHost
    BY <1>8 DEF HandleHost, ServerTypeOK
  <1>9. CASE RemoveState \/ RemoveSocket
    BY <1>9 DEF RemoveState, RemoveSocket, ServerTypeOK
  <1>10. ASSUME NEW c \in Clients, NEW r \in T!Requests, Call(c, r)
         PROVE  ServerTypeOK'
    <2>1. calls \in Seq(CallRecords) /\ [req |-> r, from |-> c] \in CallRecords
      BY DEF ServerTypeOK, CallRecords
    <2>2. calls' \in Seq(CallRecords)
      BY <1>10, <2>1, Appended DEF Call
    <2>3. answer' \in [Clients -> {"idle", "waiting", "ok", "failed"}]
      BY <1>10, SettleType DEF Call, ServerTypeOK
    <2> QED
      BY <1>10, <2>2, <2>3 DEF Call, ServerTypeOK, CallRecords
  <1>11. ASSUME NEW c \in Clients, GiveUp(c)
         PROVE  ServerTypeOK'
    <2>1. calls \in Seq(CallRecords)
      BY DEF ServerTypeOK, CallRecords
    <2>3. calls' \in Seq(CallRecords)
      BY <1>11, <2>1, ReleasedFacts DEF GiveUp
    <2>2. answer' \in [Clients -> {"idle", "waiting", "ok", "failed"}]
      BY <1>11, SettleType DEF GiveUp, ServerTypeOK
    <2> QED
      BY <1>11, <2>2, <2>3 DEF GiveUp, ServerTypeOK, CallRecords
  <1>12. ASSUME NEW c \in Clients, NEW a \in {"ok", "failed"}, Resume(c, a)
         PROVE  ServerTypeOK'
    BY <1>12, SettleType DEF Resume, ServerTypeOK
  <1>13. CASE UNCHANGED serverVars
    BY <1>13 DEF serverVars, ServerTypeOK
  <1> QED
    BY <1>1, <1>2, <1>3, <1>4, <1>5, <1>6, <1>7, <1>8, <1>9, <1>10, <1>11, <1>12, <1>13
       DEF ServerNext, ServerStep, ServerUse

(* What the lock and the rename protect is protected by every step. *)
LEMMA FileStep ==
    ASSUME ServerTypeOK, FileHoldsTable, [ServerNext]_serverVars
    PROVE  FileHoldsTable'
  <1> USE DEF FileHoldsTable, CurrentTable
  <1>1. CASE Launch
    BY <1>1 DEF Launch
  <1>2. CASE Load
    BY <1>2 DEF Load
  <1>3. CASE Listen
    BY <1>3 DEF Listen
  <1>4. CASE Exit
    BY <1>4 DEF Exit, Down
  <1>5. CASE Change
    <2>1. mem # None
      BY Marks DEF ServerTypeOK
    <2> QED
      BY <1>5, <2>1 DEF Change
  <1>6. CASE Persist
    BY <1>6 DEF Persist
  <1>7. CASE RollBack
    BY <1>7 DEF RollBack
  <1>8. ASSUME NEW m \in Macs, HandleSubnet(m)
        PROVE  FileHoldsTable'
    BY <1>8 DEF HandleSubnet
  <1>9. CASE HandleHost
    BY <1>9 DEF HandleHost
  <1>10. CASE RemoveState \/ RemoveSocket
    BY <1>10 DEF RemoveState, RemoveSocket
  <1>11. ASSUME NEW c \in Clients, NEW r \in T!Requests, Call(c, r)
         PROVE  FileHoldsTable'
    <2>1. calls' # <<>> => calls # <<>> \/ socket
      BY <1>11 DEF Call
    <2>2. calls # <<>> => calls' # <<>>
      BY <1>11, Appended DEF Call, ServerTypeOK, CallRecords
    <2> QED
      BY <1>11, <2>1, <2>2 DEF Call
  <1>12. ASSUME NEW c \in Clients, GiveUp(c)
         PROVE  FileHoldsTable'
    <2>1. calls \in Seq(CallRecords)
      BY DEF ServerTypeOK, CallRecords
    <2>2. /\ calls # <<>> <=> calls' # <<>>
          /\ calls # <<>> => Head(calls').req = Head(calls).req
      BY <1>12, <2>1, ReleasedFacts DEF GiveUp
    <2> QED
      BY <1>12, <2>2 DEF GiveUp
  <1>13. ASSUME NEW c \in Clients, NEW a \in {"ok", "failed"}, Resume(c, a)
         PROVE  FileHoldsTable'
    BY <1>13 DEF Resume
  <1>14. CASE UNCHANGED serverVars
    BY <1>14 DEF serverVars
  <1> QED
    BY <1>1, <1>2, <1>3, <1>4, <1>5, <1>6, <1>7, <1>8, <1>9, <1>10, <1>11, <1>12, <1>13, <1>14
       DEF ServerNext, ServerStep, ServerUse

(* A crash at any point of a change loses nothing that was acknowledged:   *)
(* the file holds what the memory held when the lock was last free.        *)
THEOREM FileInvariant == ServerSpec => [](ServerTypeOK /\ FileHoldsTable)
  <1>1. ServerInit => ServerTypeOK /\ FileHoldsTable
    <2> SUFFICES ASSUME ServerInit
                 PROVE  ServerTypeOK /\ FileHoldsTable
      OBVIOUS
    <2>1. calls \in Seq([req : T!Requests, from : Clients \cup {None}])
      BY DEF ServerInit
    <2>2. answer \in [Clients -> {"idle", "waiting", "ok", "failed"}]
      BY DEF ServerInit
    <2>3. ServerTypeOK
      BY <2>1, <2>2, EmptyType DEF ServerInit, ServerTypeOK
    <2> QED
      BY <2>3 DEF ServerInit, FileHoldsTable
  <1>2. ServerTypeOK /\ FileHoldsTable /\ [ServerNext]_serverVars => (ServerTypeOK /\ FileHoldsTable)'
    BY TypeStep, FileStep
  <1> QED
    BY <1>1, <1>2, PTL DEF ServerSpec

(* A step of the server is a step of the table, or none. *)
LEMMA TableStep ==
    ASSUME ServerTypeOK, FileHoldsTable, [ServerNext]_serverVars
    PROVE  [T!Next]_<<CurrentTable, file = Missing>>
  <1> DEFINE same == CurrentTable' = CurrentTable /\ (file = Missing)' = (file = Missing)
  <1>1. CASE Launch
    <2>1. same
      BY <1>1 DEF Launch, CurrentTable
    <2> QED
      BY <2>1
  <1>2. CASE Load
    <2>1. old = None /\ CurrentTable' = mem' /\ file' # Missing
      BY <1>2, EmptyType, Marks DEF Load, FileHoldsTable, CurrentTable, ServerTypeOK
    <2>2. CASE file = Missing
      <3>1. T!Renew
        BY <1>2, <2>1, <2>2 DEF Load, T!Renew, Empty
      <3> QED
        BY <3>1 DEF T!Next
    <2>3. CASE file # Missing
      BY <1>2, <2>1, <2>3 DEF Load, CurrentTable
    <2> QED
      BY <2>2, <2>3
  <1>3. CASE Listen
    <2>1. same
      BY <1>3 DEF Listen, CurrentTable
    <2> QED
      BY <2>1
  <1>4. CASE Exit
    <2>1. CurrentTable' = IF file # Missing THEN file ELSE Empty
      BY <1>4 DEF Exit, Down, CurrentTable, Empty, T!Empty
    <2>2. CASE file = Missing
      <3>1. T!Lose
        BY <1>4, <2>1, <2>2 DEF Exit, Down, T!Lose, Empty
      <3> QED
        BY <3>1 DEF T!Next
    <2>3. CASE file # Missing
      <3>1. CurrentTable = file
        BY <2>3 DEF FileHoldsTable, CurrentTable
      <3> QED
        BY <1>4, <2>1, <2>3, <3>1 DEF Exit, Down
    <2> QED
      BY <2>2, <2>3
  <1>5. CASE Change
    <2>1. same
      BY <1>5, Marks DEF Change, CurrentTable, ServerTypeOK, FileHoldsTable
    <2> QED
      BY <2>1
  <1>6. CASE Persist
    <2>1. calls # <<>> /\ CurrentTable = old /\ CurrentTable' = mem /\ proc = "up"
      BY <1>6 DEF Persist, FileHoldsTable, CurrentTable
    <2>2. mem = T!dispatch(old, Head(calls).req)
      BY <1>6, <2>1 DEF Persist, FileHoldsTable
    <2>3. file' # Missing
      BY <1>6, Marks DEF Persist, ServerTypeOK
    <2>4. T!Update
      BY <2>1, <2>2, <2>3, HeadFacts DEF T!Update
    <2> QED
      BY <2>4 DEF T!Next
  <1>7. CASE RollBack
    <2>1. same
      BY <1>7 DEF RollBack, CurrentTable, FileHoldsTable
    <2> QED
      BY <2>1
  <1>8. CASE HandleHost \/ RemoveSocket \/ \E m \in Macs : HandleSubnet(m)
    <2>1. same
      BY <1>8 DEF HandleHost, RemoveSocket, HandleSubnet, CurrentTable
    <2> QED
      BY <2>1
  <1>9. CASE RemoveState
    <2>1. CASE proc \in {"loaded", "up"} \/ old # None
      <3>1. CurrentTable' = CurrentTable
        BY <1>9, <2>1 DEF RemoveState, CurrentTable
      <3>2. T!Wipe
        BY <1>9, <3>1 DEF RemoveState, T!Wipe
      <3> QED
        BY <3>2 DEF T!Next
    <2>2. CASE proc \notin {"loaded", "up"} /\ old = None
      <3>1. T!WipeAtRest
        BY <1>9, <2>2 DEF RemoveState, CurrentTable, T!WipeAtRest, T!Empty
      <3> QED
        BY <3>1 DEF T!Next
    <2> QED
      BY <2>1, <2>2
  <1>10. ASSUME NEW c \in Clients,
                \/ \E r \in T!Requests : Call(c, r)
                \/ GiveUp(c)
                \/ \E a \in {"ok", "failed"} : Resume(c, a)
         PROVE  same
    BY <1>10 DEF Call, GiveUp, Resume, CurrentTable
  <1>11. CASE UNCHANGED serverVars
    BY <1>11 DEF serverVars, CurrentTable
  <1> QED
    BY <1>1, <1>2, <1>3, <1>4, <1>5, <1>6, <1>7, <1>8, <1>9, <1>10, <1>11
       DEF ServerNext, ServerStep, ServerUse

(* The server keeps the promise of LeaseTable: an order takes effect whole *)
(* and for good at the rename, and only a wiped file loses the table.      *)
THEOREM TableImplemented == ServerSpec => ImplementsTable
  <1>1. ServerInit => T!Init
    BY DEF ServerInit, T!Init, CurrentTable, T!Empty
  <1>2. ServerTypeOK /\ FileHoldsTable /\ [ServerNext]_serverVars
           => [T!Next]_<<CurrentTable, file = Missing>>
    BY TableStep
  <1> QED
    BY <1>1, <1>2, FileInvariant, PTL DEF ServerSpec, ImplementsTable, T!Spec


-----------------------------------------------------------------------------
(* The queue of calls: what Append, Tail and Released leave of what is     *)
(* said about it.                                                          *)

LEMMA AppendSilent ==
    ASSUME NEW q \in Seq(CallRecords), NEW e \in CallRecords, NEW s,
           Silent(q, s), Subject(e.req) # s
    PROVE  Silent(Append(q, e), s)
  <1> SUFFICES ASSUME NEW i \in 1..Len(Append(q, e))
               PROVE  Subject(Append(q, e)[i].req) # s
    BY Zenon DEF Silent
  <1>1. Len(q) \in Nat
    OBVIOUS
  <1>2. i \in 1..Len(q) \/ i = Len(q) + 1
    BY <1>1, Appended
  <1>3. CASE i \in 1..Len(q)
    BY <1>3, Appended, Zenon DEF Silent
  <1>4. CASE i = Len(q) + 1
    BY <1>4, Appended, Zenon
  <1> QED
    BY <1>2, <1>3, <1>4, Zenon

LEMMA AppendNoneFrom ==
    ASSUME NEW q \in Seq(CallRecords), NEW e \in CallRecords, NEW c,
           NoneFrom(q, c), e.from # c
    PROVE  NoneFrom(Append(q, e), c)
  <1> SUFFICES ASSUME NEW i \in 1..Len(Append(q, e))
               PROVE  Append(q, e)[i].from # c
    BY Zenon DEF NoneFrom
  <1>1. Len(q) \in Nat
    OBVIOUS
  <1>2. i \in 1..Len(q) \/ i = Len(q) + 1
    BY <1>1, Appended
  <1>3. CASE i \in 1..Len(q)
    BY <1>3, Appended, Zenon DEF NoneFrom
  <1>4. CASE i = Len(q) + 1
    BY <1>4, Appended, Zenon
  <1> QED
    BY <1>2, <1>3, <1>4, Zenon

(* A call about another subject leaves the last word where it was. *)
LEMMA AppendLastWord ==
    ASSUME NEW q \in Seq(CallRecords), NEW e \in CallRecords, NEW c, NEW r,
           LastWord(q, c, r), e.from # c, Subject(e.req) # Subject(r)
    PROVE  LastWord(Append(q, e), c, r)
  <1> DEFINE p == Append(q, e)
  <1>1. Len(q) \in Nat /\ Len(p) = Len(q) + 1
    BY Appended
  <1>2. \A i \in 1..Len(q) : p[i] = q[i]
    BY Appended, Zenon
  <1>3. p[Len(q) + 1] = e
    BY Appended, Zenon
  <1> HIDE DEF p
  <1>4. ASSUME NEW i \in 1..Len(p), p[i].from = c
        PROVE  /\ p[i].req = r
               /\ \A j \in 1..Len(p) : j > i => p[j].from # c /\ Subject(p[j].req) # Subject(r)
    <2>1. i \in 1..Len(q) /\ q[i].from = c
      BY <1>1, <1>2, <1>3, <1>4
    <2>2. /\ q[i].req = r
          /\ \A j \in 1..Len(q) : j > i => q[j].from # c /\ Subject(q[j].req) # Subject(r)
      BY <2>1, Zenon DEF LastWord
    <2> QED
      BY <1>1, <1>2, <1>3, <2>1, <2>2
  <1> QED
    BY <1>4, Zenon DEF LastWord, p

(* The call that comes last has the last word. *)
LEMMA AppendOwn ==
    ASSUME NEW q \in Seq(CallRecords), NEW e \in CallRecords, NoneFrom(q, e.from)
    PROVE  LastWord(Append(q, e), e.from, e.req)
  <1> DEFINE p == Append(q, e)
  <1>1. Len(q) \in Nat /\ Len(p) = Len(q) + 1
    BY Appended
  <1>2. \A i \in 1..Len(q) : p[i].from # e.from
    BY Appended, Zenon DEF NoneFrom
  <1>3. p[Len(q) + 1] = e
    BY Appended, Zenon
  <1> HIDE DEF p
  <1>4. ASSUME NEW i \in 1..Len(p), p[i].from = e.from
        PROVE  i = Len(p) /\ p[i].req = e.req
    BY <1>1, <1>2, <1>3, <1>4
  <1> QED
    BY <1>1, <1>4 DEF LastWord, p

LEMMA TailKeeps ==
    ASSUME NEW q \in Seq(CallRecords), q # <<>>
    PROVE  /\ \A s : Silent(q, s) => Silent(Tail(q), s)
           /\ \A c : NoneFrom(q, c) => NoneFrom(Tail(q), c)
           /\ \A c, r : LastWord(q, c, r) => LastWord(Tail(q), c, r)
  <1> DEFINE p == Tail(q)
  <1>1. Len(p) \in Nat /\ \A i \in 1..Len(p) : i + 1 \in 1..Len(q) /\ p[i] = q[i + 1]
    BY Tailed, Zenon
  <1> HIDE DEF p
  <1>2. \A s : Silent(q, s) => Silent(p, s)
    BY <1>1, Zenon DEF Silent
  <1>3. \A c : NoneFrom(q, c) => NoneFrom(p, c)
    BY <1>1, Zenon DEF NoneFrom
  <1>4. ASSUME NEW c, NEW r, LastWord(q, c, r)
        PROVE  LastWord(p, c, r)
    <2> SUFFICES ASSUME NEW i \in 1..Len(p), p[i].from = c
                 PROVE  /\ p[i].req = r
                        /\ \A j \in 1..Len(p) : j > i => p[j].from # c /\ Subject(p[j].req) # Subject(r)
      BY Zenon DEF LastWord
    <2>1. i + 1 \in 1..Len(q) /\ q[i + 1].from = c
      BY <1>1, Zenon
    <2>2. q[i + 1].req = r
      BY <1>4, <2>1, Zenon DEF LastWord
    <2>3. \A k \in 1..Len(q) : k > i + 1 => q[k].from # c /\ Subject(q[k].req) # Subject(r)
      BY <1>4, <2>1, Zenon DEF LastWord
    <2>4. ASSUME NEW j \in 1..Len(p), j > i
          PROVE  p[j].from # c /\ Subject(p[j].req) # Subject(r)
      <3>1. j + 1 \in 1..Len(q) /\ j + 1 > i + 1 /\ p[j] = q[j + 1]
        BY <1>1, <2>4
      <3> QED
        BY <2>3, <3>1, Zenon
    <2> QED
      BY <1>1, <2>2, <2>4, Zenon
  <1> QED
    BY <1>2, <1>3, <1>4, Zenon DEF p

(* Behind a call with the last word its subject is not heard of again. *)
LEMMA HeadHasLastWord ==
    ASSUME NEW q \in Seq(CallRecords), q # <<>>, NEW c, NEW r,
           LastWord(q, c, r), Head(q).from = c
    PROVE  Head(q).req = r /\ Silent(Tail(q), Subject(r)) /\ NoneFrom(Tail(q), c)
  <1> DEFINE p == Tail(q)
  <1>1. Len(p) \in Nat /\ \A i \in 1..Len(p) : i + 1 \in 1..Len(q) /\ p[i] = q[i + 1]
    BY Tailed, Zenon
  <1>2. Head(q) = q[1] /\ 1 \in 1..Len(q)
    BY Tailed, Zenon
  <1> HIDE DEF p
  <1>3. /\ Head(q).req = r
        /\ \A j \in 1..Len(q) : j > 1 => q[j].from # c /\ Subject(q[j].req) # Subject(r)
    BY <1>2, Zenon DEF LastWord
  <1>4. ASSUME NEW i \in 1..Len(p)
        PROVE  p[i].from # c /\ Subject(p[i].req) # Subject(r)
    <2>1. i + 1 \in 1..Len(q) /\ i + 1 > 1 /\ p[i] = q[i + 1]
      BY <1>1
    <2> QED
      BY <1>3, <2>1, Zenon
  <1> QED
    BY <1>3, <1>4, Zenon DEF Silent, NoneFrom, p

LEMMA ReleasedKeeps ==
    ASSUME NEW q \in Seq(CallRecords), NEW C
    PROVE  /\ \A s : Silent(q, s) => Silent(Released(q, C), s)
           /\ \A c \in Clients : NoneFrom(q, c) \/ c \in C => NoneFrom(Released(q, C), c)
           /\ \A c \in Clients : \A r : LastWord(q, c, r) => LastWord(Released(q, C), c, r)
  <1> DEFINE p == Released(q, C)
  <1>1. Len(q) \in Nat /\ Len(p) = Len(q) /\ \A i \in 1..Len(q) : q[i] \in CallRecords
    BY DEF Released
  <1>2. ASSUME NEW i \in 1..Len(q)
        PROVE  /\ p[i].req = q[i].req
               /\ p[i].from = IF q[i].from \in C THEN None ELSE q[i].from
    BY <1>1, Zenon DEF Released, CallRecords
  <1>3. None \notin Clients
    BY Marks, Zenon
  <1> HIDE DEF p
  <1>4. \A s : Silent(q, s) => Silent(p, s)
    BY <1>1, <1>2, Zenon DEF Silent
  <1>5. \A c \in Clients : NoneFrom(q, c) \/ c \in C => NoneFrom(p, c)
    BY <1>1, <1>2, <1>3, Zenon DEF NoneFrom
  <1>6. ASSUME NEW c \in Clients, NEW r, LastWord(q, c, r)
        PROVE  LastWord(p, c, r)
    <2> SUFFICES ASSUME NEW i \in 1..Len(p), p[i].from = c
                 PROVE  /\ p[i].req = r
                        /\ \A j \in 1..Len(p) : j > i => p[j].from # c /\ Subject(p[j].req) # Subject(r)
      BY Zenon DEF LastWord
    <2>1. i \in 1..Len(q) /\ q[i].from = c /\ p[i].req = q[i].req
      BY <1>1, <1>2, <1>3, Zenon
    <2>2. q[i].req = r
      BY <1>6, <2>1, Zenon DEF LastWord
    <2>3. \A k \in 1..Len(q) : k > i => q[k].from # c /\ Subject(q[k].req) # Subject(r)
      BY <1>6, <2>1, Zenon DEF LastWord
    <2> QED
      BY <1>1, <1>2, <1>3, <2>1, <2>2, <2>3, Zenon
  <1> QED
    BY <1>4, <1>5, <1>6, Zenon DEF p

(* An empty queue says nothing. *)
LEMMA EmptyQueue ==
    ASSUME NEW s, NEW c, NEW r
    PROVE  Silent(<<>>, s) /\ NoneFrom(<<>>, c) /\ LastWord(<<>>, c, r)
  BY DEF Silent, NoneFrom, LastWord

-----------------------------------------------------------------------------
(* The server under the agent: what a step does to one subject. *)

Subjects == {<<>>} \cup {<<m>> : m \in Macs}
Value(t, s) == IF s = <<>> THEN t.subnet ELSE t.hosts[s[1]]

(* The agent restarts: nobody waits for a call any more. *)
Abandon == /\ answer' = [c \in Clients |-> "idle"]
           /\ calls' = Released(calls, Clients)
           /\ UNCHANGED <<proc, mem, old, file, socket, read>>

(* Every step of the server or of its users that makes no call. *)
QuietStep == \/ Launch \/ Load \/ Listen \/ Down \/ Change \/ Persist \/ RollBack
             \/ (\E m \in Macs : HandleSubnet(m)) \/ HandleHost
             \/ RemoveState \/ RemoveSocket
             \/ (\E c \in Clients : GiveUp(c) \/ \E a \in {"ok", "failed"} : Resume(c, a))
             \/ Abandon \/ UNCHANGED serverVars

LEMMA DispatchOther ==
    ASSUME NEW t \in T!Tables, NEW r \in T!Requests, NEW s \in Subjects, Subject(r) # s
    PROVE  Value(T!dispatch(t, r), s) = Value(t, s)
  <1>1. CASE r \in [op : {"set-subnet"}, subnet : Configs]
    <2>1. PICK m \in Macs : s = <<m>>
      BY <1>1, Zenon DEF Subject, Subjects
    <2>2. T!dispatch(t, r).hosts = t.hosts
      BY <1>1, Zenon DEF T!dispatch, T!SetSubnet, T!Tables
    <2> QED
      BY <2>1, <2>2, Zenon DEF Value
  <1>2. CASE r \in [op : {"set-host"}, mac : Macs, host : Hosts]
    <2>1. /\ T!dispatch(t, r).subnet = t.subnet
          /\ \A m \in Macs : m # r.mac => T!dispatch(t, r).hosts[m] = t.hosts[m]
      BY <1>2, Zenon DEF T!dispatch, T!SetHost, T!Tables
    <2>2. Subject(r) = <<r.mac>>
      BY <1>2, Zenon DEF Subject
    <2> QED
      BY <2>1, <2>2 DEF Value, Subjects
  <1>3. CASE r \in [op : {"del-host"}, mac : Macs]
    <2>1. /\ T!dispatch(t, r).subnet = t.subnet
          /\ \A m \in Macs : m # r.mac => T!dispatch(t, r).hosts[m] = t.hosts[m]
      BY <1>3, Zenon DEF T!dispatch, T!DelHost, T!Tables
    <2>2. Subject(r) = <<r.mac>>
      BY <1>3, Zenon DEF Subject
    <2> QED
      BY <2>1, <2>2 DEF Value, Subjects
  <1> QED
    BY <1>1, <1>2, <1>3, Zenon DEF T!Requests

LEMMA EmptyValue ==
    ASSUME NEW s \in Subjects
    PROVE  Value(Empty, s) = None
  BY DEF Value, Subjects, Empty, T!Empty

LEMMA Apart == \A x : <<x>> # <<>>
  <1>1. \A x : Len(<<x>>) = 1 /\ Len(<<>>) = 0
    BY Zenon
  <1> QED
    BY <1>1, Zenon

LEMMA CallsType == ServerTypeOK => calls \in Seq(CallRecords)
  BY Zenon DEF ServerTypeOK, CallRecords

(* What happens to the table in a step: nothing, an order at the head of   *)
(* the queue, or its loss when there is no file.                           *)
LEMMA TableMoves ==
    ASSUME ServerTypeOK, FileHoldsTable,
           QuietStep \/ \E c \in Clients, r \in T!Requests : Call(c, r)
    PROVE  \/ CurrentTable' = CurrentTable
           \/ CurrentTable' = Empty /\ (file = Missing \/ file' = Missing)
           \/ /\ Persist /\ calls # <<>> /\ CurrentTable \in T!Tables
              /\ CurrentTable' = T!dispatch(CurrentTable, Head(calls).req)
  <1>1. CASE Launch \/ Listen \/ HandleHost \/ RemoveSocket \/ Abandon \/ UNCHANGED serverVars
             \/ \E m \in Macs : HandleSubnet(m)
    BY <1>1, Zenon DEF Launch, Listen, HandleHost, RemoveSocket, Abandon, HandleSubnet, serverVars, CurrentTable
  <1>2. CASE Load
    BY <1>2, Zenon DEF Load, FileHoldsTable, CurrentTable, Empty, T!Empty
  <1>3. CASE Down
    BY <1>3, Zenon DEF Down, FileHoldsTable, CurrentTable, Empty, T!Empty
  <1>4. CASE Change
    BY <1>4, Marks, Zenon DEF Change, CurrentTable, ServerTypeOK, FileHoldsTable
  <1>5. CASE Persist
    BY <1>5, Zenon DEF Persist, FileHoldsTable, CurrentTable, ServerTypeOK
  <1>6. CASE RollBack
    BY <1>6, Zenon DEF RollBack, CurrentTable, FileHoldsTable
  <1>7. CASE RemoveState
    BY <1>7, Zenon DEF RemoveState, CurrentTable, Empty, T!Empty
  <1>8. ASSUME NEW c \in Clients,
               GiveUp(c) \/ (\E a \in {"ok", "failed"} : Resume(c, a)) \/ \E r \in T!Requests : Call(c, r)
        PROVE  CurrentTable' = CurrentTable
    BY <1>8, Zenon DEF Call, GiveUp, Resume, CurrentTable
  <1> QED
    BY <1>1, <1>2, <1>3, <1>4, <1>5, <1>6, <1>7, <1>8, Zenon DEF QuietStep

(* What happens to the queue in a step that makes no call. *)
LEMMA QueueMoves ==
    ASSUME FileHoldsTable, QuietStep
    PROVE  \/ calls' = calls \/ calls' = <<>>
           \/ \E C : calls' = Released(calls, C)
           \/ calls # <<>> /\ calls' = Tail(calls)
  <1>1. CASE Persist \/ RollBack
    BY <1>1, Zenon DEF Persist, RollBack, FileHoldsTable
  <1>2. CASE Down
    BY <1>2, Zenon DEF Down
  <1>3. CASE Abandon \/ \E c \in Clients : GiveUp(c)
    BY <1>3, Zenon DEF Abandon, GiveUp
  <1>4. CASE \/ Launch \/ Load \/ Listen \/ Change \/ HandleHost \/ RemoveState \/ RemoveSocket
             \/ (\E m \in Macs : HandleSubnet(m)) \/ UNCHANGED serverVars
             \/ \E c \in Clients : \E a \in {"ok", "failed"} : Resume(c, a)
    BY <1>4, Zenon DEF Launch, Load, Listen, Change, HandleHost, RemoveState, RemoveSocket, HandleSubnet,
                serverVars, Resume
  <1> QED
    BY <1>1, <1>2, <1>3, <1>4, Zenon DEF QuietStep

(* A subject nobody speaks of keeps its value, unless the table is lost    *)
(* for want of a file.                                                     *)
LEMMA SubjectKept ==
    ASSUME ServerTypeOK, FileHoldsTable, NEW s \in Subjects, Silent(calls, s),
           \/ QuietStep
           \/ \E c \in Clients, r \in T!Requests : Subject(r) # s /\ Call(c, r)
    PROVE  /\ Silent(calls', s)
           /\ \/ Value(CurrentTable', s) = Value(CurrentTable, s)
              \/ Value(CurrentTable', s) = None /\ (file = Missing \/ file' = Missing)
  <1>q. calls \in Seq(CallRecords)
    BY CallsType, Zenon
  <1>1. Silent(calls', s)
    <2>1. CASE QuietStep
      <3>1. CASE calls # <<>> /\ calls' = Tail(calls)
        BY <1>q, <3>1, TailKeeps, Zenon
      <3>2. ASSUME NEW C, calls' = Released(calls, C)
            PROVE  Silent(calls', s)
        BY <1>q, <3>2, ReleasedKeeps, Zenon
      <3>3. CASE calls' = <<>>
        BY <3>3, EmptyQueue, Zenon
      <3> QED
        BY <2>1, <3>1, <3>2, <3>3, QueueMoves, Zenon
    <2>2. ASSUME NEW c \in Clients, NEW r \in T!Requests, Subject(r) # s, Call(c, r)
          PROVE  Silent(calls', s)
      <3>1. [req |-> r, from |-> c] \in CallRecords
        BY Zenon DEF CallRecords
      <3>2. Silent(Append(calls, [req |-> r, from |-> c]), s)
        BY <1>q, <2>2, <3>1, AppendSilent, Zenon
      <3> QED
        BY <2>2, <3>2, Zenon DEF Call
    <2> QED
      BY <2>1, <2>2, Zenon
  <1>2. ASSUME calls # <<>>, CurrentTable \in T!Tables
        PROVE  Value(T!dispatch(CurrentTable, Head(calls).req), s) = Value(CurrentTable, s)
    <2>1. Head(calls).req \in T!Requests
      BY <1>2, HeadFacts, Zenon
    <2>2. Subject(Head(calls).req) # s
      BY <1>q, <1>2, Tailed, Zenon DEF Silent
    <2> QED
      BY <1>2, <2>1, <2>2, DispatchOther, Zenon
  <1> QED
    BY <1>1, <1>2, TableMoves, EmptyValue, Zenon

-----------------------------------------------------------------------------
(* Clients and their calls. *)

LEMMA ClientFacts == /\ Net \in Clients /\ Net \notin VMs /\ VMs \subseteq Clients
                     /\ \A c \in Clients : c # Net => c \in VMs
                     /\ \A c \in Clients : c # None
  BY SubnetAssumption, Marks, Zenon DEF SubnetAssumption

LEMMA NicFacts ==
    /\ \A v \in VMs : \A n \in 1..Len(Nics[v]) : Nics[v][n] \in Macs /\ <<Nics[v][n]>> \in Subjects
    /\ \A v \in VMs : Len(Nics[v]) \in Nat /\ Len(Nics[v]) > 0
    /\ \A v, w \in VMs : \A i \in 1..Len(Nics[v]), j \in 1..Len(Nics[w]) :
          <<Nics[v][i]>> = <<Nics[w][j]>> => v = w /\ i = j
  <1>1. \A v \in VMs : Nics[v] \in Seq(Macs) /\ Nics[v] # <<>>
    BY NicsAssumption, Zenon DEF NicsAssumption
  <1>2. \A v \in VMs : \A n \in 1..Len(Nics[v]) : Nics[v][n] \in Macs
    BY <1>1
  <1>3. \A v \in VMs : Len(Nics[v]) \in Nat /\ Len(Nics[v]) > 0
    BY <1>1
  <1>4. \A v, w \in VMs : \A i \in 1..Len(Nics[v]), j \in 1..Len(Nics[w]) :
          <<Nics[v][i]>> = <<Nics[w][j]>> => v = w /\ i = j
    BY NicsAssumption DEF NicsAssumption
  <1> QED
    BY <1>2, <1>3, <1>4, Zenon DEF Subjects

(* A step that answers nobody, but one client whose call was carried out. *)
LEMMA Acknowledged ==
    ASSUME ServerTypeOK, FileHoldsTable, QuietStep, NEW d \in Clients, CallInv(d),
           answer'[d] = "ok", answer[d] # "ok"
    PROVE  /\ Persist /\ calls # <<>> /\ Head(calls).from = d
           /\ answer[d] = "waiting"
  <1>q. calls \in Seq(CallRecords) /\ answer \in [Clients -> {"idle", "waiting", "ok", "failed"}]
    BY CallsType, Zenon DEF ServerTypeOK
  <1>1. CASE Persist
    <2>1. calls # <<>> /\ Head(calls).from = d
      BY <1>q, <1>1, HeadFacts, Zenon DEF Persist, FileHoldsTable, Settle
    <2>2. ~NoneFrom(calls, d)
      BY <1>q, <2>1, Tailed, Zenon DEF NoneFrom
    <2> QED
      BY <1>1, <2>1, <2>2, Zenon DEF CallInv
  <1>2. CASE RollBack
    <2>1. calls # <<>>
      BY <1>2, Zenon DEF RollBack, FileHoldsTable
    <2>2. answer'[d] \in {answer[d], "failed"}
      BY <1>q, <1>2, <2>1, HeadFacts, Zenon DEF RollBack, Settle
    <2> QED
      BY <2>2, Zenon
  <1>3. CASE Down
    BY <1>3, Zenon DEF Down
  <1>4. ASSUME NEW c \in Clients, GiveUp(c) \/ \E a \in {"ok", "failed"} : Resume(c, a)
        PROVE  FALSE
    BY <1>q, <1>4, Marks, Zenon DEF GiveUp, Resume, Settle
  <1>5. CASE \/ Launch \/ Load \/ Listen \/ Change \/ HandleHost \/ RemoveState \/ RemoveSocket
             \/ (\E m \in Macs : HandleSubnet(m)) \/ UNCHANGED serverVars
    BY <1>5, Zenon DEF Launch, Load, Listen, Change, HandleHost, RemoveState, RemoveSocket, HandleSubnet,
                serverVars
  <1>6. CASE Abandon
    BY <1>6, Zenon DEF Abandon
  <1> QED
    BY <1>1, <1>2, <1>3, <1>4, <1>5, <1>6, Zenon DEF QuietStep

(* The order that was acknowledged has been carried out, and nothing that  *)
(* is still under way bears on its subject.                                *)
LEMMA AckEffect ==
    ASSUME ServerTypeOK, FileHoldsTable, QuietStep, NEW d \in Clients, CallInv(d),
           answer'[d] = "ok", answer[d] # "ok"
    PROVE  /\ CurrentTable \in T!Tables /\ CurrentTable' = T!dispatch(CurrentTable, Order(d))
           /\ Order(d) \in T!Requests
           /\ Silent(calls', Subject(Order(d)))
           /\ file' # Missing
  <1>q. calls \in Seq(CallRecords)
    BY CallsType, Zenon
  <1>1. Persist /\ calls # <<>> /\ Head(calls).from = d /\ answer[d] = "waiting"
    BY Acknowledged, Zenon
  <1>2. LastWord(calls, d, Order(d))
    BY <1>1, Zenon DEF CallInv
  <1>3. Head(calls).req = Order(d) /\ Silent(Tail(calls), Subject(Order(d)))
    BY <1>q, <1>1, <1>2, HeadHasLastWord, Zenon
  <1>4. /\ CurrentTable \in T!Tables /\ CurrentTable' = T!dispatch(CurrentTable, Head(calls).req)
        /\ calls' = Tail(calls) /\ file' # Missing
    BY <1>1, Marks, Zenon DEF Persist, FileHoldsTable, CurrentTable, ServerTypeOK
  <1> QED
    BY <1>1, <1>3, <1>4, HeadFacts, Zenon

(* A call that another client makes, about what is its own. *)
CallOf(c) == \E r \in T!Requests :
                /\ Call(c, r)
                /\ IF c = Net THEN Subject(r) = <<>>
                   ELSE job[c].nic \in 1..Len(Nics[c]) /\ Subject(r) = <<Mac(c)>>

OtherCall(d) == \E c \in Clients \ {d} : CallOf(c)

(* The subject of an order is that of the client. *)
LEMMA OrderSubject ==
    ASSUME NEW d \in Clients
    PROVE  Subject(Order(d)) = IF d = Net THEN <<>> ELSE <<Mac(d)>>
  BY Zenon DEF Subject, Order

(* A client that does not move, or does not wait, keeps what is said of    *)
(* its call.                                                               *)
LEMMA CallKept ==
    ASSUME ServerTypeOK, FileHoldsTable, QuietStep, NEW d \in Clients, CallInv(d),
           answer[d] # "waiting" \/ (job'[d] = job[d] /\ Order(d)' = Order(d))
    PROVE  CallInv(d)'
  <1>q. calls \in Seq(CallRecords) /\ answer \in [Clients -> {"idle", "waiting", "ok", "failed"}]
    BY CallsType, Zenon DEF ServerTypeOK
  <1> DEFINE said  == \A r : LastWord(calls, d, r) => LastWord(calls', d, r)
             over  == answer'[d] # "waiting" /\ NoneFrom(calls', d)
  <1>1. ASSUME answer'[d] = answer[d], NoneFrom(calls, d) => NoneFrom(calls', d), said
        PROVE  CallInv(d)'
    BY <1>1, Zenon DEF CallInv
  <1>2. ASSUME over
        PROVE  CallInv(d)'
    BY <1>2, Zenon DEF CallInv
  <1>3. CASE Persist \/ RollBack
    <2>1. calls # <<>> /\ calls' = Tail(calls)
      BY <1>3, Zenon DEF Persist, RollBack, FileHoldsTable
    <2>2. CASE Head(calls).from = d
      <3>1. ~NoneFrom(calls, d)
        BY <1>q, <2>1, <2>2, Tailed, Zenon DEF NoneFrom
      <3>2. LastWord(calls, d, Order(d))
        BY <3>1, Zenon DEF CallInv
      <3>3. NoneFrom(calls', d)
        BY <1>q, <2>1, <2>2, <3>2, HeadHasLastWord, Zenon
      <3>4. answer'[d] # "waiting"
        BY <1>q, <1>3, <2>2, Marks, Zenon DEF Persist, RollBack, Settle
      <3> QED
        BY <1>2, <3>3, <3>4, Zenon
    <2>3. CASE Head(calls).from # d
      <3>1. answer'[d] = answer[d]
        BY <1>q, <1>3, <2>1, <2>3, HeadFacts, Zenon DEF Persist, RollBack, Settle
      <3>2. (NoneFrom(calls, d) => NoneFrom(calls', d)) /\ said
        BY <1>q, <2>1, TailKeeps, Zenon
      <3> QED
        BY <1>1, <3>1, <3>2, Zenon
    <2> QED
      BY <2>2, <2>3, Zenon
  <1>4. CASE Down
    <2>1. answer'[d] # "waiting"
      BY <1>4, Zenon DEF Down
    <2>2. NoneFrom(calls', d)
      BY <1>4, EmptyQueue, Zenon DEF Down
    <2> QED
      BY <1>2, <2>1, <2>2, Zenon
  <1>5. CASE Abandon
    <2>1. answer'[d] # "waiting"
      BY <1>5, Zenon DEF Abandon
    <2>2. NoneFrom(calls', d)
      BY <1>q, <1>5, ReleasedKeeps, Zenon DEF Abandon
    <2> QED
      BY <1>2, <2>1, <2>2, Zenon
  <1>6. ASSUME NEW c \in Clients, GiveUp(c)
        PROVE  CallInv(d)'
    <2>1. /\ (NoneFrom(calls, d) \/ d = c => NoneFrom(calls', d)) /\ said
      BY <1>q, <1>6, ReleasedKeeps, Zenon DEF GiveUp
    <2>2. answer'[d] = IF d = c THEN "failed" ELSE answer[d]
      BY <1>q, <1>6, Marks, Zenon DEF GiveUp, Settle
    <2> QED
      BY <1>1, <1>2, <2>1, <2>2, Zenon
  <1>7. ASSUME NEW c \in Clients, NEW a \in {"ok", "failed"}, Resume(c, a)
        PROVE  CallInv(d)'
    <2>1. calls' = calls /\ answer[c] = a /\ answer'[d] = IF d = c THEN "idle" ELSE answer[d]
      BY <1>q, <1>7, Marks, Zenon DEF Resume, Settle
    <2>2. CASE d = c
      BY <1>2, <2>1, <2>2, Zenon DEF CallInv
    <2>3. CASE d # c
      BY <1>1, <2>1, <2>3, Zenon
    <2> QED
      BY <2>2, <2>3, Zenon
  <1>8. CASE \/ Launch \/ Load \/ Listen \/ Change \/ HandleHost \/ RemoveState \/ RemoveSocket
             \/ (\E m \in Macs : HandleSubnet(m)) \/ UNCHANGED serverVars
    <2>1. calls' = calls /\ answer' = answer
      BY <1>8, Zenon DEF Launch, Load, Listen, Change, HandleHost, RemoveState, RemoveSocket, HandleSubnet,
                  serverVars
    <2> QED
      BY <1>1, <2>1, Zenon
  <1> QED
    BY <1>3, <1>4, <1>5, <1>6, <1>7, <1>8, Zenon DEF QuietStep

(* The same when another client makes a call. *)
LEMMA CallKeptByOthers ==
    ASSUME ServerTypeOK, NEW d \in Clients, CallInv(d), OtherCall(d),
           d # Net /\ answer[d] = "waiting" => job[d].nic \in 1..Len(Nics[d]),
           job'[d] = job[d], Order(d)' = Order(d)
    PROVE  CallInv(d)'
  <1>q. calls \in Seq(CallRecords) /\ answer \in [Clients -> {"idle", "waiting", "ok", "failed"}]
    BY CallsType, Zenon DEF ServerTypeOK
  <1>1. PICK c \in Clients \ {d} : CallOf(c)
    BY Zenon DEF OtherCall
  <1>2. PICK r \in T!Requests :
           /\ Call(c, r)
           /\ IF c = Net THEN Subject(r) = <<>>
              ELSE job[c].nic \in 1..Len(Nics[c]) /\ Subject(r) = <<Mac(c)>>
    BY <1>1, Zenon DEF CallOf
  <1> DEFINE e == [req |-> r, from |-> c]
  <1>3. e \in CallRecords /\ e.from = c /\ e.req = r
    BY Zenon DEF CallRecords
  <1>4. answer'[d] = answer[d]
    BY <1>q, <1>2, Marks, Zenon DEF Call, Settle
  <1>5. calls' = calls \/ calls' = Append(calls, e)
    BY <1>2, Zenon DEF Call
  <1> HIDE DEF e
  <1>6. CASE answer[d] # "waiting"
    BY <1>q, <1>3, <1>4, <1>5, <1>6, AppendNoneFrom, Zenon DEF CallInv
  <1>7. CASE answer[d] = "waiting"
    <2>1. Subject(e.req) # Subject(Order(d))
      <3>1. CASE c = Net
        BY <1>2, <1>3, <3>1, OrderSubject, Apart, Zenon
      <3>2. CASE c # Net /\ d = Net
        BY <1>2, <1>3, <3>2, OrderSubject, Apart, Zenon
      <3>3. CASE c # Net /\ d # Net
        BY <1>2, <1>3, <1>7, <3>3, OrderSubject, NicFacts, ClientFacts, SMTT(30) DEF Mac
      <3> QED
        BY <3>1, <3>2, <3>3, Zenon
    <2>2. LastWord(calls', d, Order(d))
      BY <1>q, <1>3, <1>5, <1>7, <2>1, AppendLastWord, Zenon DEF CallInv
    <2> QED
      BY <1>4, <1>7, <2>2, Zenon DEF CallInv
  <1> QED
    BY <1>6, <1>7, Zenon

-----------------------------------------------------------------------------
(* The reservations. *)

(* A step that says nothing new about subject s. *)
Beside(s) == \/ QuietStep
             \/ \E c \in Clients, r \in T!Requests : Subject(r) # s /\ Call(c, r)

LEMMA CallBeside ==
    ASSUME NEW v \in VMs, NEW n \in 1..Len(Nics[v]), OtherCall(v)
    PROVE  Beside(<<Nics[v][n]>>)
  <1>1. PICK c \in Clients \ {v} : CallOf(c)
    BY Zenon DEF OtherCall
  <1>2. PICK r \in T!Requests :
           /\ Call(c, r)
           /\ IF c = Net THEN Subject(r) = <<>>
              ELSE job[c].nic \in 1..Len(Nics[c]) /\ Subject(r) = <<Mac(c)>>
    BY <1>1, Zenon DEF CallOf
  <1>3. Subject(r) # <<Nics[v][n]>>
    <2>1. CASE c = Net
      BY <1>2, <2>1, Apart, Zenon
    <2>2. CASE c # Net
      BY <1>2, <2>2, NicFacts, ClientFacts, SMTT(30) DEF Mac
    <2> QED
      BY <2>1, <2>2, Zenon
  <1> QED
    BY <1>2, <1>3, Zenon DEF Beside

(* What a command has achieved for an interface stays, whoever moves, as   *)
(* long as it claims no more than before.                                  *)
LEMMA HostKept ==
    ASSUME ServerTypeOK, FileHoldsTable,
           NEW v \in VMs, NEW n \in 1..Len(Nics[v]), HostInv(v, n),
           Beside(<<Nics[v][n]>>),
           Serves(v, n)' => /\ Serves(v, n) /\ want'[v] = want[v]
                            /\ file # Missing /\ file' # Missing,
           Clears(v, n)' => Clears(v, n)
    PROVE  HostInv(v, n)'
  <1> DEFINE m == Nics[v][n]
             s == <<m>>
  <1>1. m \in Macs /\ s \in Subjects
    BY NicFacts, Zenon
  <1>2. \A t : Value(t, s) = t.hosts[m]
    BY Apart, Zenon DEF Value
  <1>3. ASSUME Silent(calls, s)
        PROVE  /\ Silent(calls', s)
               /\ \/ CurrentTable'.hosts[m] = CurrentTable.hosts[m]
                  \/ CurrentTable'.hosts[m] = None /\ (file = Missing \/ file' = Missing)
    <2>1. /\ Silent(calls', s)
          /\ \/ Value(CurrentTable', s) = Value(CurrentTable, s)
             \/ Value(CurrentTable', s) = None /\ (file = Missing \/ file' = Missing)
      BY <1>1, <1>3, SubjectKept, Zenon DEF Beside
    <2> QED
      BY <1>2, <2>1, SMTT(30)
  <1> QED
    BY <1>3, Zenon DEF HostInv

(* The order about the interface at hand was acknowledged. *)
LEMMA HostAcked ==
    ASSUME ServerTypeOK, FileHoldsTable, QuietStep,
           NEW v \in VMs, CallInv(v), job[v].nic \in 1..Len(Nics[v]),
           answer'[v] = "ok", answer[v] # "ok", job[v].pc \in {"setting", "deling"}
    PROVE  /\ Silent(calls', <<Mac(v)>>) /\ file' # Missing
           /\ CurrentTable'.hosts[Mac(v)] = IF job[v].pc = "setting" THEN want[v] ELSE None
  <1>1. v \in Clients /\ v # Net /\ Mac(v) \in Macs
    BY ClientFacts, NicFacts, Zenon DEF Mac
  <1>2. /\ CurrentTable \in T!Tables /\ CurrentTable' = T!dispatch(CurrentTable, Order(v))
        /\ Silent(calls', Subject(Order(v))) /\ file' # Missing
    BY <1>1, AckEffect, Zenon
  <1>3. Subject(Order(v)) = <<Mac(v)>>
    BY <1>1, OrderSubject, Zenon
  <1>4. CASE job[v].pc = "setting"
    <2>1. Order(v) = [op |-> "set-host", mac |-> Mac(v), host |-> want[v]]
      BY <1>1, <1>4, Zenon DEF Order
    <2>2. \A t \in T!Tables : T!dispatch(t, Order(v)).hosts[Mac(v)] = want[v]
      BY <1>1, <2>1 DEF T!dispatch, T!SetHost, T!Tables
    <2> QED
      BY <1>2, <1>3, <1>4, <2>2, Zenon
  <1>5. CASE job[v].pc = "deling"
    <2>1. Order(v) = [op |-> "del-host", mac |-> Mac(v)]
      BY <1>1, <1>5, Zenon DEF Order
    <2>2. \A t \in T!Tables : T!dispatch(t, Order(v)).hosts[Mac(v)] = None
      BY <1>1, <2>1 DEF T!dispatch, T!DelHost, T!Tables
    <2> QED
      BY <1>2, <1>3, <1>5, <2>2, Zenon
  <1> QED
    BY <1>4, <1>5, Zenon

(* A VM whose command does not move. *)
LEMMA HostUnmoved ==
    ASSUME ServerTypeOK, FileHoldsTable,
           NEW v \in VMs, NEW n \in 1..Len(Nics[v]), HostInv(v, n), CallInv(v),
           job[v].nic \in Nat, job[v].pc \in VMPlaces(st[v]),
           st'[v] = st[v], job'[v] = job[v], want'[v] = want[v],
           QuietStep \/ OtherCall(v),
           Settled(v) => file # Missing /\ file' # Missing
    PROVE  HostInv(v, n)'
  <1>1. Beside(<<Nics[v][n]>>)
    BY CallBeside, Zenon DEF Beside
  <1>2. Settled(v)' = Settled(v)
    BY Zenon DEF Settled
  <1>3. answer'[v] = "ok" /\ answer[v] # "ok" => QuietStep
    <2> SUFFICES ASSUME OtherCall(v)
                 PROVE  answer'[v] = answer[v]
      BY Zenon
    <2>1. PICK c \in Clients \ {v}, r \in T!Requests : Call(c, r)
      BY Zenon DEF OtherCall, CallOf
    <2> QED
      BY <2>1, Marks, ClientFacts, Zenon DEF Call, Settle, ServerTypeOK
  <1>4. CASE (answer'[v] = "ok" => answer[v] = "ok") \/ n # job[v].nic
             \/ job[v].pc \notin {"setting", "deling"}
    <2>1. Serves(v, n)' => Serves(v, n)
      BY <1>2, <1>4, Zenon DEF Serves, Done
    <2>2. Clears(v, n)' => Clears(v, n)
      BY <1>4, Zenon DEF Clears, Done
    <2>3. Serves(v, n)' => /\ Serves(v, n) /\ want'[v] = want[v]
                           /\ file # Missing /\ file' # Missing
      BY <2>1, Zenon DEF Serves
    <2> QED
      BY <1>1, <2>2, <2>3, HostKept, Zenon
  <1>5. CASE answer'[v] = "ok" /\ answer[v] # "ok" /\ n = job[v].nic
             /\ job[v].pc \in {"setting", "deling"}
    <2>1. /\ Silent(calls', <<Mac(v)>>)
          /\ CurrentTable'.hosts[Mac(v)] = IF job[v].pc = "setting" THEN want[v] ELSE None
      BY <1>3, <1>5, HostAcked, Zenon
    <2>2. Mac(v) = Nics[v][n]
      BY <1>5, Zenon DEF Mac
    <2>3. Serves(v, n)' => job[v].pc = "setting"
      BY <1>5, Zenon DEF Serves, Settled, VMPlaces
    <2>4. Clears(v, n)' => job[v].pc = "deling"
      BY <1>5, Zenon DEF Clears, VMPlaces
    <2> QED
      BY <2>1, <2>2, <2>3, <2>4, Zenon DEF HostInv
  <1> QED
    BY <1>4, <1>5, Zenon

-----------------------------------------------------------------------------
(* The parameters of the subnet. *)

LEMMA HeldKept ==
    ASSUME ServerTypeOK, FileHoldsTable, Beside(<<>>), InForce, cfg' = cfg, file' # Missing
    PROVE  InForce'
  <1>1. <<>> \in Subjects /\ \A t : Value(t, <<>>) = t.subnet
    BY Zenon DEF Subjects, Value
  <1>2. /\ Silent(calls', <<>>)
        /\ \/ Value(CurrentTable', <<>>) = Value(CurrentTable, <<>>)
           \/ Value(CurrentTable', <<>>) = None /\ (file = Missing \/ file' = Missing)
    BY <1>1, SubjectKept, Zenon DEF Beside, InForce
  <1> QED
    BY <1>1, <1>2, Zenon DEF InForce

LEMMA PushAcked ==
    ASSUME ServerTypeOK, FileHoldsTable, QuietStep, CallInv(Net),
           answer'[Net] = "ok", answer[Net] # "ok", cfg' = cfg
    PROVE  InForce'
  <1>1. /\ CurrentTable \in T!Tables /\ CurrentTable' = T!dispatch(CurrentTable, Order(Net))
        /\ Silent(calls', Subject(Order(Net))) /\ file' # Missing
    BY ClientFacts, AckEffect, Zenon
  <1>2. Order(Net) = [op |-> "set-subnet", subnet |-> cfg] /\ Subject(Order(Net)) = <<>>
    BY Zenon DEF Order, Subject
  <1>3. \A t \in T!Tables : T!dispatch(t, Order(Net)).subnet = cfg
    BY <1>2 DEF T!dispatch, T!SetSubnet, T!Tables
  <1> QED
    BY <1>1, <1>2, <1>3, Zenon DEF InForce

-----------------------------------------------------------------------------
(* The server keeps its own invariant and its promise under the agent. *)

LEMMA ServerKept ==
    ASSUME ServerTypeOK, FileHoldsTable, QuietStep \/ \E c \in Clients : CallOf(c)
    PROVE  /\ ServerTypeOK' /\ FileHoldsTable'
           /\ [T!Next]_<<CurrentTable, file = Missing>>
  <1>1. CASE [ServerNext]_serverVars
    BY <1>1, TypeStep, FileStep, TableStep, Zenon
  <1>2. CASE Down
    <2>1. CASE proc # "down"
      BY <1>1, <1>2, <2>1, Zenon DEF ServerNext, ServerStep, Exit
    <2>2. CASE proc = "down"
      <3>1. ServerTypeOK'
        <4>1. answer' \in [Clients -> {"idle", "waiting", "ok", "failed"}]
          BY <1>2, Zenon DEF Down, ServerTypeOK
        <4>2. calls' \in Seq([req : T!Requests, from : Clients \cup {None}])
          BY <1>2 DEF Down
        <4> QED
          BY <1>2, <4>1, <4>2, EmptyType, Zenon DEF Down, ServerTypeOK
      <3>2. FileHoldsTable'
        BY <1>2, Zenon DEF Down, FileHoldsTable
      <3>3. CurrentTable' = CurrentTable /\ (file = Missing)' = (file = Missing)
        BY <1>2, <2>2, Zenon DEF Down, FileHoldsTable, CurrentTable
      <3> QED
        BY <3>1, <3>2, <3>3, Zenon
    <2> QED
      BY <2>1, <2>2, Zenon
  <1>3. CASE Abandon
    <2>1. calls \in Seq(CallRecords)
      BY CallsType, Zenon
    <2>2. /\ calls' \in Seq(CallRecords)
          /\ calls # <<>> <=> calls' # <<>>
          /\ calls # <<>> => Head(calls').req = Head(calls).req
      BY <1>3, <2>1, ReleasedFacts, Zenon DEF Abandon
    <2>3. answer' \in [Clients -> {"idle", "waiting", "ok", "failed"}]
      BY <1>3, Zenon DEF Abandon
    <2>4. ServerTypeOK'
      BY <1>3, <2>2, <2>3, Zenon DEF Abandon, ServerTypeOK, CallRecords
    <2>5. FileHoldsTable'
      BY <1>3, <2>2, Zenon DEF Abandon, FileHoldsTable, CurrentTable
    <2>6. CurrentTable' = CurrentTable /\ (file = Missing)' = (file = Missing)
      BY <1>3, Zenon DEF Abandon, CurrentTable
    <2> QED
      BY <2>4, <2>5, <2>6, Zenon
  <1>4. (QuietStep \/ \E c \in Clients : CallOf(c)) => [ServerNext]_serverVars \/ Down \/ Abandon
    BY Zenon DEF QuietStep, CallOf, ServerNext, ServerStep, ServerUse
  <1> QED
    BY <1>1, <1>2, <1>3, <1>4, Zenon

-----------------------------------------------------------------------------
(* One resource moves, or none (c = None): what holds of the others stays. *)

Moves(c) ==
    /\ \A d \in Clients \ {c} : st'[d] = st[d] /\ job'[d] = job[d]
    /\ \A v \in VMs \ {c} : want'[v] = want[v]
    /\ c # Net => cfg' = cfg
    /\ QuietStep \/ (c \in Clients /\ CallOf(c))
    /\ file # Missing => file' # Missing \/ (c = Net /\ job[Net].pc \in {"unfile", "unstate"})

LEMMA TypeFacts ==
    ASSUME TypeOK
    PROVE  /\ ServerTypeOK
           /\ answer \in [Clients -> {"idle", "waiting", "ok", "failed"}]
           /\ \A c \in Clients : job[c].nic \in Nat /\ job[c].pc \in Places
           /\ st \in [Clients -> {"absent", "creating", "running", "deleting", "error"}]
           /\ job \in [Clients -> [pc : Places, nic : Nat]]
           /\ want \in [VMs -> Hosts]
  BY Zenon DEF TypeOK, ServerTypeOK

(* A settled VM keeps the teardown of its subnet away. *)
LEMMA SettledHolds ==
    ASSUME SubnetInv, NEW v \in VMs, Settled(v)
    PROVE  /\ InForce /\ st[Net] \in {"running", "deleting", "error"}
           /\ job[Net].pc \in {"idle", "children", "fail"}
  BY Zenon DEF SubnetInv, NetInv, Held

LEMMA OthersKept ==
    ASSUME SubnetInv, NEW c \in Clients \cup {None}, Moves(c)
    PROVE  /\ \A d \in Clients \ {c} : CallInv(d)'
           /\ \A v \in VMs \ {c} : \A n \in 1..Len(Nics[v]) : HostInv(v, n)'
  <1> USE DEF Moves
  <1>t. TypeOK /\ ServerTypeOK /\ FileHoldsTable /\ JobInv
    BY TypeFacts, Zenon DEF SubnetInv
  <1>1. ASSUME NEW d \in Clients \ {c}
        PROVE  CallInv(d)'
    <2>1. CallInv(d)
      BY Zenon DEF SubnetInv
    <2>2. Order(d)' = Order(d)
      <3>1. CASE d = Net
        BY <3>1, Zenon DEF Order
      <3>2. CASE d # Net
        BY <3>2, ClientFacts, Zenon DEF Order, Mac
      <3> QED
        BY <3>1, <3>2, Zenon
    <2>3. CASE QuietStep
      BY <1>t, <2>1, <2>2, <2>3, CallKept, Zenon
    <2>4. CASE c \in Clients /\ CallOf(c)
      <3>1. OtherCall(d)
        BY <2>4, Zenon DEF OtherCall
      <3>2. d # Net /\ answer[d] = "waiting" => job[d].nic \in 1..Len(Nics[d])
        BY <1>t, <2>1, ClientFacts, Zenon DEF CallInv, JobInv, VMPlaces
      <3> QED
        BY <1>t, <2>1, <2>2, <3>1, <3>2, CallKeptByOthers, Zenon
    <2> QED
      BY <2>3, <2>4, Zenon
  <1>2. ASSUME NEW v \in VMs \ {c}, NEW n \in 1..Len(Nics[v])
        PROVE  HostInv(v, n)'
    <2>1. HostInv(v, n) /\ CallInv(v) /\ v \in Clients \ {c}
      BY ClientFacts, Zenon DEF SubnetInv
    <2>2. job[v].nic \in Nat /\ job[v].pc \in VMPlaces(st[v])
      BY <1>t, <2>1, TypeFacts, Zenon DEF JobInv
    <2>3. Settled(v) => file # Missing /\ file' # Missing
      BY SettledHolds, Zenon DEF InForce
    <2>4. QuietStep \/ OtherCall(v)
      BY <2>1, Zenon DEF OtherCall
    <2> QED
      BY <1>t, <2>1, <2>2, <2>3, <2>4, HostUnmoved, Zenon
  <1> QED
    BY <1>1, <1>2, Zenon

(* The subnet is not disturbed by a VM, nor by the server. *)
LEMMA NetKept ==
    ASSUME SubnetInv, NEW c \in VMs \cup {None}, Moves(c),
           c \in VMs /\ Settled(c)' => Settled(c) \/ st[Net] = "running"
    PROVE  NetInv'
  <1>t. TypeOK /\ ServerTypeOK /\ FileHoldsTable /\ JobInv /\ NetInv /\ CallInv(Net)
    BY TypeFacts, ClientFacts, Zenon DEF SubnetInv
  <1>c. c # Net /\ (c \in Clients => c \in VMs)
    BY ClientFacts, Zenon
  <1>1. /\ st'[Net] = st[Net] /\ job'[Net] = job[Net] /\ cfg' = cfg
        /\ file # Missing => file' # Missing
    BY <1>c, ClientFacts, Zenon DEF Moves
  <1>2. \A v \in VMs : Settled(v)' => Settled(v) \/ st[Net] = "running"
    BY ClientFacts, Zenon DEF Moves, Settled
  <1>3. Beside(<<>>)
    <2>1. CASE QuietStep
      BY <2>1, Zenon DEF Beside
    <2>2. CASE c \in Clients /\ CallOf(c)
      <3>1. PICK r \in T!Requests : Call(c, r) /\ Subject(r) = <<Mac(c)>>
        BY <1>c, <2>2, Zenon DEF CallOf
      <3> QED
        BY <2>2, <3>1, Apart, Zenon DEF Beside
    <2> QED
      BY <2>1, <2>2, Zenon DEF Moves
  <1>4. CASE Held
    <2>1. InForce'
      BY <1>t, <1>1, <1>3, <1>4, HeldKept, Zenon DEF NetInv, InForce
    <2> QED
      BY <1>t, <1>1, <1>2, <2>1, Zenon DEF NetInv, JobInv, NetPlaces
  <1>5. CASE ~Held
    <2>1. \A v \in VMs : ~Settled(v)'
      BY <1>2, <1>5, Zenon DEF Held
    <2>2. ASSUME Held'
          PROVE  InForce'
      <3>1. answer[Net] # "ok" /\ answer'[Net] = "ok"
        BY <1>1, <1>5, <2>1, <2>2, Zenon DEF Held
      <3>2. QuietStep
        <4> SUFFICES ASSUME c \in Clients, CallOf(c)
                     PROVE  answer'[Net] = answer[Net]
          BY <3>1, Zenon DEF Moves
        <4>1. PICK r \in T!Requests : Call(c, r)
          BY Zenon DEF CallOf
        <4> QED
          BY <1>t, <1>c, <4>1, ClientFacts, Zenon DEF Call, Settle, ServerTypeOK
      <3> QED
        BY <1>t, <1>1, <3>1, <3>2, PushAcked, Zenon
    <2> QED
      BY <2>1, <2>2, Zenon DEF NetInv
  <1> QED
    BY <1>4, <1>5, Zenon

(* What the watchdog has gathered stays true of the VMs it can rely on. *)
LEMMA WatchKept ==
    ASSUME WatchInv, watch' = watch, calm' \subseteq calm,
           \A v \in calm' : st'[v] = st[v] /\ want'[v] = want[v]
    PROVE  WatchInv'
  <1> SUFFICES ASSUME watch.pc = "vms", NEW v \in calm'
               PROVE  (/\ st[v] = "running" => \A m \in Owned(v) : watch.served[m] = want[v]
                       /\ st[v] = "absent" => \A m \in Owned(v) : watch.served[m] = None
                       /\ v \in watch.todo \/
                             /\ st[v] = "running" => \A m \in Owned(v) : <<m, want[v]>> \in watch.expected
                             /\ st[v] \in {"creating", "deleting", "error"} => v \in watch.transient
                       /\ \A e \in watch.expected : e[1] \in Owned(v)
                             => st[v] = "running" /\ e[2] = want[v])'
    BY Zenon DEF WatchInv
  <1>1. v \in calm /\ st'[v] = st[v] /\ want'[v] = want[v]
    BY Zenon
  <1>2. Owned(v)' = Owned(v)
    BY Zenon DEF Owned
  <1> QED
    BY <1>1, <1>2, Zenon DEF WatchInv

(* The step takes no new request in. *)
ReadStays == read' # None => read' = read /\ (proc = "up" => proc' = "up")

LEMMA ReadKept ==
    ASSUME ReadInv, ReadStays, steady' \subseteq steady, \A v \in steady' : st'[v] = st[v],
           steady # {} => cfg' = cfg
    PROVE  ReadInv'
  BY Zenon DEF ReadInv, ReadStays

(* The resource that moves is no longer relied on, or its state stays. *)
Noticed(c) == /\ watch' = watch /\ calm' \subseteq calm /\ steady' \subseteq steady
              /\ c \in VMs => \/ c \notin calm' /\ c \notin steady'
                              \/ st'[c] = st[c] /\ want'[c] = want[c]
              /\ redo' = redo /\ ReadStays

TypedMove(c) == /\ st'[c] \in {"absent", "creating", "running", "deleting", "error"}
                /\ st' = [st EXCEPT ![c] = st'[c]]
                /\ job'[c] \in [pc : Places, nic : Nat]
                /\ job' = [job EXCEPT ![c] = job'[c]]
                /\ cfg' \in Configs /\ want' \in [VMs -> Hosts]

Placed(c) == IF c = Net THEN job[Net].pc \in NetPlaces(st[Net])
             ELSE /\ job[c].pc \in VMPlaces(st[c])
                  /\ job[c].pc \in {"set", "setting", "del", "deling"} => job[c].nic \in 1..Len(Nics[c])

(* What is left to show of a move of c. *)
LEMMA Assembled ==
    ASSUME SubnetInv, NEW c \in Clients, Moves(c), TypedMove(c), Noticed(c),
           steady # {} => cfg' = cfg,
           Placed(c)', NetInv', CallInv(c)',
           \A n \in 1..Len(Nics[c]) : c \in VMs => HostInv(c, n)'
    PROVE  SubnetInv'
  <1>t. TypeOK /\ ServerTypeOK /\ FileHoldsTable /\ JobInv /\ ReadInv /\ WatchInv
    BY TypeFacts, Zenon DEF SubnetInv
  <1>1. ServerTypeOK' /\ FileHoldsTable'
    BY <1>t, ServerKept, Zenon DEF Moves
  <1>2. st' \in [Clients -> {"absent", "creating", "running", "deleting", "error"}]
    BY <1>t, TypeFacts, Zenon DEF TypedMove
  <1>3. job' \in [Clients -> [pc : Places, nic : Nat]]
    BY <1>t, TypeFacts, Zenon DEF TypedMove
  <1>4. TypeOK'
    <2>1. /\ redo' \in BOOLEAN
          /\ watch' \in [pc : {"idle", "vms"}, served : [Macs -> Hosts \cup {None}], todo : SUBSET VMs,
                         expected : SUBSET (Macs \X Hosts), transient : SUBSET VMs]
          /\ calm' \subseteq VMs /\ steady' \subseteq VMs
      BY <1>t, Zenon DEF TypeOK, Noticed
    <2> QED
      BY <1>1, <1>2, <1>3, <2>1, Zenon DEF TypeOK, TypedMove
  <1>5. JobInv'
    <2>1. job'[Net].pc \in NetPlaces(st'[Net])
      BY <1>t, ClientFacts, Zenon DEF JobInv, Placed, Moves
    <2>2. ASSUME NEW v \in VMs
          PROVE  /\ job'[v].pc \in VMPlaces(st'[v])
                 /\ job'[v].pc \in {"set", "setting", "del", "deling"} => job'[v].nic \in 1..Len(Nics[v])
      BY <1>t, ClientFacts, Zenon DEF JobInv, Placed, Moves
    <2> QED
      BY <2>1, <2>2, Zenon DEF JobInv
  <1>6. \A d \in Clients : CallInv(d)'
    BY OthersKept, Zenon
  <1>7. \A v \in VMs : \A n \in 1..Len(Nics[v]) : HostInv(v, n)'
    BY OthersKept, Zenon
  <1>8. \A v \in VMs : v \in calm' \/ v \in steady' => st'[v] = st[v] /\ want'[v] = want[v]
    BY ClientFacts, Zenon DEF Noticed, Moves
  <1>9. calm' \subseteq VMs /\ steady' \subseteq VMs
    BY <1>4, Zenon DEF TypeOK
  <1>10. ReadInv'
    BY <1>t, <1>8, <1>9, ReadKept, Zenon DEF Noticed
  <1>11. WatchInv'
    BY <1>t, <1>8, <1>9, WatchKept, Zenon DEF Noticed
  <1> QED
    BY <1>1, <1>4, <1>5, <1>6, <1>7, <1>10, <1>11, Zenon DEF SubnetInv

-----------------------------------------------------------------------------
(* The commands of a VM. *)

(* Server parts of the moves, and what they leave alone. *)
LEMMA QuietMoves ==
    /\ UNCHANGED serverVars \/ Launch \/ RemoveSocket => QuietStep /\ ReadStays /\ file' = file
    /\ RemoveState \/ Down => QuietStep /\ ReadStays
    /\ \A c \in Clients, a \in {"ok", "failed"} :
          Resume(c, a) => QuietStep /\ ReadStays /\ file' = file
  <1>1. UNCHANGED serverVars \/ Launch \/ RemoveSocket => ReadStays /\ file' = file
    BY Zenon DEF serverVars, Launch, RemoveSocket, ReadStays
  <1>2. RemoveState \/ Down => ReadStays
    BY Zenon DEF RemoveState, Down, ReadStays
  <1>3. \A c, a : Resume(c, a) => ReadStays /\ file' = file
    BY Zenon DEF Resume, ReadStays
  <1> QED
    BY <1>1, <1>2, <1>3, Zenon DEF QuietStep

(* A move of v that makes no call and claims nothing new. *)
LEMMA VMQuiet ==
    ASSUME SubnetInv, NEW v \in VMs, QuietStep, Moves(v), TypedMove(v), Noticed(v), Placed(v)',
           answer[v] # "waiting",
           Settled(v)' => Settled(v) \/ st[Net] = "running",
           \A n \in 1..Len(Nics[v]) : /\ Serves(v, n)' => Serves(v, n) /\ want'[v] = want[v]
                                      /\ Clears(v, n)' => Clears(v, n)
    PROVE  SubnetInv'
  <1>t. TypeOK /\ ServerTypeOK /\ FileHoldsTable /\ CallInv(v) /\ v \in Clients /\ v # Net /\ v # None
    BY TypeFacts, ClientFacts, Zenon DEF SubnetInv
  <1>1. NetInv'
    BY NetKept, Zenon
  <1>2. CallInv(v)'
    BY <1>t, CallKept, Zenon
  <1>3. ASSUME NEW n \in 1..Len(Nics[v])
        PROVE  HostInv(v, n)'
    <2>1. HostInv(v, n) /\ Beside(<<Nics[v][n]>>)
      BY Zenon DEF SubnetInv, Beside
    <2>2. Serves(v, n) => file # Missing /\ file' # Missing
      BY <1>t, SettledHolds, Zenon DEF Serves, InForce, Moves
    <2>3. Serves(v, n)' => /\ Serves(v, n) /\ want'[v] = want[v]
                           /\ file # Missing /\ file' # Missing
      BY <2>2, Zenon
    <2> QED
      BY <1>t, <2>1, <2>3, HostKept, Zenon
  <1>4. cfg' = cfg
    BY <1>t, Zenon DEF Moves
  <1> QED
    BY <1>t, <1>1, <1>2, <1>3, <1>4, Assembled, Zenon

(* The same for v in state s with its command at j. *)
LEMMA VMMove ==
    ASSUME SubnetInv, NEW v \in VMs,
           NEW s \in {"absent", "creating", "running", "deleting", "error"},
           NEW j \in [pc : Places, nic : Nat],
           UNCHANGED serverVars \/ \E a \in {"ok", "failed"} : Resume(v, a),
           st' = [st EXCEPT ![v] = s], job' = [job EXCEPT ![v] = j],
           UNCHANGED <<cfg, redo, watch>>,
           \/ UNCHANGED <<want, calm, steady>> /\ s = st[v]
           \/ /\ calm' = calm \ {v} /\ steady' = steady \ {v}
              /\ want' \in [VMs -> Hosts] /\ \A u \in VMs \ {v} : want'[u] = want[u],
           answer[v] # "waiting",
           j.pc \in VMPlaces(s),
           j.pc \in {"set", "setting", "del", "deling"} => j.nic \in 1..Len(Nics[v]),
           Settled(v)' => Settled(v) \/ st[Net] = "running",
           \A n \in 1..Len(Nics[v]) : /\ Serves(v, n)' => Serves(v, n) /\ want'[v] = want[v]
                                      /\ Clears(v, n)' => Clears(v, n)
    PROVE  SubnetInv'
  <1>t. TypeOK /\ v \in Clients /\ v # Net
    BY ClientFacts, Zenon DEF SubnetInv
  <1>1. QuietStep /\ ReadStays /\ file' = file
    BY <1>t, QuietMoves, Zenon
  <1>2. st'[v] = s /\ job'[v] = j
    BY <1>t, TypeFacts, Zenon
  <1>3. want' \in [VMs -> Hosts] /\ \A u \in VMs \ {v} : want'[u] = want[u]
    BY <1>t, TypeFacts, Zenon
  <1>4. TypedMove(v)
    BY <1>t, <1>2, <1>3, Zenon DEF TypedMove, TypeOK
  <1>5. \A d \in Clients \ {v} : st'[d] = st[d] /\ job'[d] = job[d]
    BY <1>t, TypeFacts, Zenon
  <1>6. Moves(v)
    BY <1>1, <1>3, <1>5, Zenon DEF Moves
  <1>7. Noticed(v)
    BY <1>1, <1>2, Zenon DEF Noticed
  <1>8. Placed(v)'
    BY <1>t, <1>2, Zenon DEF Placed
  <1> QED
    BY <1>1, <1>4, <1>6, <1>7, <1>8, VMQuiet, Zenon

(* A VM past none of its interfaces claims nothing. *)
LEMMA NothingClaimed ==
    ASSUME NEW v \in VMs, job'[v].pc \in {"idle", "fail", "parent"}, st'[v] \notin {"running", "absent"}
    PROVE  ~Settled(v)' /\ \A n : ~Serves(v, n)' /\ ~Clears(v, n)'
  BY Zenon DEF Settled, Serves, Clears

LEMMA VMRequests ==
    ASSUME SubnetInv, NEW v \in VMs, Create(v) \/ Delete(v)
    PROVE  SubnetInv'
  <1>t. TypeOK /\ JobInv /\ CallInv(v) /\ v \in Clients /\ v # Net
    BY ClientFacts, Zenon DEF SubnetInv
  <1>1. UNCHANGED serverVars /\ calm' = calm \ {v} /\ steady' = steady \ {v} /\ UNCHANGED <<cfg, redo, watch>>
    BY <1>t, Zenon DEF Create, Delete, Become
  <1>2. answer[v] # "waiting"
    BY <1>t, Zenon DEF CallInv, JobInv, VMPlaces, Create, Delete
  <1>3. CASE Create(v)
    <2> DEFINE j == [job[v] EXCEPT !.pc = "parent"]
    <2>1. st' = [st EXCEPT ![v] = "creating"] /\ job' = [job EXCEPT ![v] = j]
      BY <1>t, <1>3, Zenon DEF Create, Become
    <2>2. want' \in [VMs -> Hosts] /\ \A u \in VMs \ {v} : want'[u] = want[u]
      BY <1>t, <1>3, TypeFacts, Zenon DEF Create
    <2>3. j \in [pc : Places, nic : Nat] /\ j.pc = "parent"
      BY <1>t, TypeFacts, Zenon DEF Places
    <2>4. st'[v] = "creating" /\ job'[v] = j
      BY <1>t, <2>1, TypeFacts, Zenon
    <2> HIDE DEF j
    <2>5. ~Settled(v)' /\ \A n : ~Serves(v, n)' /\ ~Clears(v, n)'
      BY <2>3, <2>4, NothingClaimed, Zenon
    <2>6. j.pc \in VMPlaces("creating")
      BY <2>3, Zenon DEF VMPlaces
    <2> QED
      BY <1>1, <1>2, <2>1, <2>2, <2>3, <2>5, <2>6, VMMove, Zenon
  <1>4. CASE Delete(v)
    <2> DEFINE j == [job[v] EXCEPT !.pc = "del", !.nic = 1]
    <2>1. st' = [st EXCEPT ![v] = "deleting"] /\ job' = [job EXCEPT ![v] = j]
      BY <1>t, <1>4, TypeFacts, Zenon DEF Delete, Become
    <2>2. want' \in [VMs -> Hosts] /\ \A u \in VMs \ {v} : want'[u] = want[u]
      BY <1>t, <1>4, TypeFacts, Zenon DEF Delete
    <2>3. j \in [pc : Places, nic : Nat] /\ j.pc = "del" /\ j.nic = 1
      BY <1>t, TypeFacts, Zenon DEF Places
    <2>4. st'[v] = "deleting" /\ job'[v] = j
      BY <1>t, <2>1, TypeFacts, Zenon
    <2> HIDE DEF j
    <2>5. ~Settled(v)' /\ \A n \in 1..Len(Nics[v]) : ~Serves(v, n)' /\ ~Clears(v, n)'
      BY <2>3, <2>4, NicFacts DEF Settled, Serves, Clears, Done
    <2>6. j.pc \in VMPlaces("deleting") /\ j.nic \in 1..Len(Nics[v])
      BY <2>3, NicFacts DEF VMPlaces
    <2> QED
      BY <1>1, <1>2, <2>1, <2>2, <2>3, <2>5, <2>6, VMMove, Zenon
  <1> QED
    BY <1>3, <1>4, Zenon

(* A command of the VM fails, or the failed one is marked. *)
LEMMA VMFails ==
    ASSUME SubnetInv, NEW v \in VMs,
           \/ job[v].pc \in {"links", "started", "parent"} /\ Step(v, "fail")
           \/ MarkError(v)
    PROVE  SubnetInv'
  <1>t. TypeOK /\ JobInv /\ CallInv(v) /\ v \in Clients /\ v # Net
    BY ClientFacts, Zenon DEF SubnetInv
  <1>1. UNCHANGED serverVars /\ UNCHANGED <<cfg, redo, watch, want>>
    BY Zenon DEF Step, MarkError, Fail
  <1>2. answer[v] # "waiting"
    BY <1>t, Zenon DEF CallInv, MarkError
  <1>3. CASE job[v].pc \in {"links", "started", "parent"} /\ Step(v, "fail")
    <2> DEFINE j == [job[v] EXCEPT !.pc = "fail"]
    <2>1. st' = [st EXCEPT ![v] = st[v]] /\ job' = [job EXCEPT ![v] = j]
      BY <1>t, <1>3, TypeFacts, Zenon DEF Step, Goto
    <2>2. j \in [pc : Places, nic : Nat] /\ j.pc = "fail"
      BY <1>t, TypeFacts, Zenon DEF Places
    <2>3. st'[v] = st[v] /\ job'[v] = j
      BY <1>t, <2>1, TypeFacts, Zenon
    <2> HIDE DEF j
    <2>4. st[v] \in {"creating", "deleting"}
      BY <1>t, <1>3, TypeFacts, Zenon DEF JobInv, VMPlaces
    <2>5. ~Settled(v)' /\ \A n : ~Serves(v, n)' /\ ~Clears(v, n)'
      BY <2>2, <2>3, <2>4, NothingClaimed, Zenon
    <2>6. j.pc \in VMPlaces(st[v])
      BY <2>2, <2>4, Zenon DEF VMPlaces
    <2>7. UNCHANGED <<want, calm, steady>>
      BY <1>3, Zenon DEF Step
    <2> QED
      BY <1>1, <1>2, <2>1, <2>2, <2>4, <2>5, <2>6, <2>7, VMMove, Zenon
  <1>4. CASE MarkError(v)
    <2>1. st' = [st EXCEPT ![v] = "error"] /\ job' = [job EXCEPT ![v] = Idle]
      BY <1>4, Zenon DEF MarkError, Fail, Finish, Become
    <2>2. Idle \in [pc : Places, nic : Nat] /\ Idle.pc = "idle"
      BY Zenon DEF Idle, Places
    <2>3. st'[v] = "error" /\ job'[v] = Idle
      BY <1>t, <2>1, TypeFacts, Zenon
    <2>5. ~Settled(v)' /\ \A n : ~Serves(v, n)' /\ ~Clears(v, n)'
      BY <2>2, <2>3, NothingClaimed, Zenon
    <2>6. Idle.pc \in VMPlaces("error")
      BY <2>2, Zenon DEF VMPlaces
    <2>7. calm' = calm \ {v} /\ steady' = steady \ {v} /\ want' \in [VMs -> Hosts]
      BY <1>t, <1>1, <1>4, TypeFacts, Zenon DEF MarkError, Fail, Finish, Become
    <2> QED
      BY <1>1, <1>2, <2>1, <2>2, <2>5, <2>6, <2>7, VMMove, Zenon
  <1> QED
    BY <1>3, <1>4, Zenon

(* The parent runs: the VM is settled, and has served no interface yet. *)
LEMMA VMWaited ==
    ASSUME SubnetInv, NEW v \in VMs, waitSubnet(v)
    PROVE  SubnetInv'
  <1>t. TypeOK /\ JobInv /\ CallInv(v) /\ v \in Clients /\ v # Net
    BY ClientFacts, Zenon DEF SubnetInv
  <1>1. CASE st[Net] # "running"
    BY <1>1, VMFails, Zenon DEF waitSubnet
  <1>2. CASE st[Net] = "running"
    <2> DEFINE j == [pc |-> "set", nic |-> 1]
    <2>1. /\ UNCHANGED serverVars /\ UNCHANGED <<cfg, redo, watch>> /\ UNCHANGED <<want, calm, steady>>
          /\ st' = st /\ job' = [job EXCEPT ![v] = j] /\ job[v].pc = "parent"
      BY <1>2, Zenon DEF waitSubnet
    <2>2. st[v] = "creating" /\ answer[v] # "waiting" /\ st' = [st EXCEPT ![v] = "creating"]
      BY <1>t, <2>1, TypeFacts, Zenon DEF JobInv, CallInv, VMPlaces
    <2>3. j \in [pc : Places, nic : Nat] /\ j.pc = "set" /\ j.nic = 1
      BY Zenon DEF Places
    <2>4. st'[v] = "creating" /\ job'[v] = j
      BY <1>t, <2>1, <2>2, TypeFacts, Zenon
    <2> HIDE DEF j
    <2>5. \A n \in 1..Len(Nics[v]) : ~Serves(v, n)' /\ ~Clears(v, n)'
      BY <2>3, <2>4, NicFacts DEF Serves, Clears, Done
    <2>6. j.pc \in VMPlaces("creating") /\ j.nic \in 1..Len(Nics[v])
      BY <2>3, NicFacts DEF VMPlaces
    <2> QED
      BY <1>2, <2>1, <2>2, <2>3, <2>5, <2>6, VMMove, Zenon
  <1> QED
    BY <1>1, <1>2, Zenon

(* An order about an interface was acknowledged or failed. *)
LEMMA VMNextNic ==
    ASSUME SubnetInv, NEW v \in VMs,
           NEW pc \in Places, NEW again \in Places, NEW done \in Places,
           \/ pc = "setting" /\ again = "set" /\ done = "started"
           \/ pc = "deling" /\ again = "del" /\ done = "links",
           NextNic(v, pc, again, done)
    PROVE  SubnetInv'
  <1>t. TypeOK /\ JobInv /\ CallInv(v) /\ v \in Clients /\ v # Net
    BY ClientFacts, Zenon DEF SubnetInv
  <1>1. /\ job[v].pc = pc /\ st' = st /\ UNCHANGED <<cfg, redo, watch>> /\ UNCHANGED <<want, calm, steady>>
        /\ job[v].nic \in 1..Len(Nics[v]) /\ job[v].nic \in Nat
    BY <1>t, TypeFacts, Zenon DEF NextNic, JobInv
  <1>2. st[v] = IF pc = "setting" THEN "creating" ELSE "deleting"
    BY <1>t, <1>1, TypeFacts, Zenon DEF JobInv, VMPlaces
  <1>s. st' = [st EXCEPT ![v] = st[v]] /\ st'[v] = st[v]
    BY <1>t, <1>1, TypeFacts, Zenon
  <1>3. CASE Resume(v, "failed") /\ Goto(v, "fail")
    <2> DEFINE j == [job[v] EXCEPT !.pc = "fail"]
    <2>1. job' = [job EXCEPT ![v] = j] /\ answer[v] # "waiting"
      BY <1>3, Zenon DEF Goto, Resume
    <2>2. j \in [pc : Places, nic : Nat] /\ j.pc = "fail"
      BY <1>t, TypeFacts, Zenon DEF Places
    <2>3. job'[v] = j
      BY <1>t, <2>1, TypeFacts, Zenon
    <2> HIDE DEF j
    <2>4. ~Settled(v)' /\ \A n : ~Serves(v, n)' /\ ~Clears(v, n)'
      BY <1>2, <1>s, <2>2, <2>3, NothingClaimed, Zenon
    <2>5. j.pc \in VMPlaces(st[v]) /\ st[v] \in {"creating", "deleting"}
      BY <1>2, <2>2, Zenon DEF VMPlaces
    <2> QED
      BY <1>1, <1>3, <1>s, <2>1, <2>2, <2>4, <2>5, VMMove, Zenon
  <1>4. CASE Resume(v, "ok")
    <2> DEFINE more == job[v].nic < Len(Nics[v])
               j == IF more THEN [pc |-> again, nic |-> job[v].nic + 1] ELSE [pc |-> done, nic |-> 1]
    <2>1. answer[v] = "ok"
      BY <1>4, Zenon DEF Resume
    <2>2. job' = [job EXCEPT ![v] = j]
      BY <1>4, <2>1, Zenon DEF NextNic, Resume
    <2>3. /\ j \in [pc : Places, nic : Nat]
          /\ more => j.pc = again /\ j.nic = job[v].nic + 1 /\ j.nic \in 1..Len(Nics[v])
          /\ ~more => j.pc = done /\ job[v].nic = Len(Nics[v])
      BY <1>1, NicFacts
    <2>4. job'[v] = j
      BY <1>t, <2>2, TypeFacts, Zenon
    <2> HIDE DEF j
    <2>5. \A n \in 1..Len(Nics[v]) : n < job[v].nic \/ n = job[v].nic \/ (more /\ n >= j.nic)
      BY <1>1, <2>3, NicFacts, SMTT(30)
    <2>6. CASE pc = "setting"
      <3>1. \A n \in 1..Len(Nics[v]) : Serves(v, n)' => Serves(v, n) /\ want'[v] = want[v]
        BY <1>1, <2>1, <2>3, <2>4, <2>5, <2>6 DEF Serves, Settled, Done
      <3>2. \A n : ~Clears(v, n)'
        BY <1>2, <1>s, <2>3, <2>4, <2>6, Zenon DEF Clears
      <3>3. j.pc \in VMPlaces(st[v]) /\ (j.pc \in {"set", "setting", "del", "deling"} => j.nic \in 1..Len(Nics[v]))
        BY <1>2, <2>3, <2>6, Zenon DEF VMPlaces
      <3>4. Settled(v)
        BY <1>1, <2>6, Zenon DEF Settled
      <3>5. st[v] \in {"creating", "deleting"} /\ answer[v] # "waiting"
        BY <1>2, <2>1, Zenon
      <3> QED
        BY <1>1, <1>4, <1>s, <2>2, <2>3, <3>1, <3>2, <3>3, <3>4, <3>5, VMMove, Zenon
    <2>7. CASE pc = "deling"
      <3>1. \A n \in 1..Len(Nics[v]) : Clears(v, n)' => Clears(v, n)
        BY <1>1, <2>1, <2>3, <2>4, <2>5, <2>7 DEF Clears, Done
      <3>2. ~Settled(v)' /\ \A n : ~Serves(v, n)'
        BY <1>2, <1>s, <2>3, <2>4, <2>7, Zenon DEF Serves, Settled
      <3>3. j.pc \in VMPlaces(st[v]) /\ (j.pc \in {"set", "setting", "del", "deling"} => j.nic \in 1..Len(Nics[v]))
        BY <1>2, <2>3, <2>7, Zenon DEF VMPlaces
      <3>5. st[v] \in {"creating", "deleting"} /\ answer[v] # "waiting"
        BY <1>2, <2>1, Zenon
      <3> QED
        BY <1>1, <1>4, <1>s, <2>2, <2>3, <3>1, <3>2, <3>3, <3>5, VMMove, Zenon
    <2> QED
      BY <2>6, <2>7, Zenon
  <1> QED
    BY <1>3, <1>4, Zenon DEF NextNic

(* The command ends. *)
LEMMA VMEnds ==
    ASSUME SubnetInv, NEW v \in VMs, StartEnd(v) \/ DeleteEnd(v, "links")
    PROVE  SubnetInv'
  <1>t. TypeOK /\ JobInv /\ CallInv(v) /\ v \in Clients /\ v # Net
    BY ClientFacts, Zenon DEF SubnetInv
  <1> DEFINE s == IF job[v].pc = "started" THEN "running" ELSE "absent"
  <1>1. /\ UNCHANGED serverVars /\ UNCHANGED <<cfg, redo, watch>>
        /\ want' \in [VMs -> Hosts] /\ want' = want
        /\ calm' = calm \ {v} /\ steady' = steady \ {v}
        /\ st' = [st EXCEPT ![v] = s] /\ job' = [job EXCEPT ![v] = Idle]
        /\ job[v].pc \in {"started", "links"}
    BY <1>t, TypeFacts, Zenon DEF StartEnd, CreateEnd, DeleteEnd, Finish, Become
  <1>2. answer[v] # "waiting"
    BY <1>t, <1>1, Zenon DEF CallInv
  <1>3. Idle \in [pc : Places, nic : Nat] /\ Idle.pc = "idle"
    BY Zenon DEF Idle, Places
  <1>4. st'[v] = s /\ job'[v] = Idle
    BY <1>t, <1>1, TypeFacts, Zenon
  <1>5. \A n \in 1..Len(Nics[v]) : /\ Serves(v, n)' => Serves(v, n) /\ want'[v] = want[v]
                                   /\ Clears(v, n)' => Clears(v, n)
    BY <1>1, <1>3, <1>4 DEF Serves, Clears, Settled, Done
  <1>6. Settled(v)' => Settled(v)
    BY <1>1, <1>3, <1>4 DEF Settled
  <1>7. Idle.pc \in VMPlaces(s) /\ s \in {"absent", "creating", "running", "deleting", "error"}
    BY <1>3, Zenon DEF VMPlaces
  <1> HIDE DEF s
  <1> QED
    BY <1>1, <1>2, <1>3, <1>5, <1>6, <1>7, VMMove, Zenon

(* A call has the last word on its subject when it joins the queue. *)
LEMMA OwnCall ==
    ASSUME ServerTypeOK, NEW c \in Clients, NEW r \in T!Requests, Call(c, r), CallInv(c),
           job'[c].pc \in {"pushed", "setting", "deling"}, Order(c)' = r
    PROVE  CallInv(c)' /\ answer'[c] \in {"waiting", "failed"} /\ file' = file /\ ReadStays
  <1>q. calls \in Seq(CallRecords) /\ answer \in [Clients -> {"idle", "waiting", "ok", "failed"}]
    BY CallsType, Zenon DEF ServerTypeOK
  <1> DEFINE e == [req |-> r, from |-> c]
  <1>1. e \in CallRecords /\ e.from = c /\ e.req = r
    BY Zenon DEF CallRecords
  <1>2. NoneFrom(calls, c) /\ c # None
    BY ClientFacts, Zenon DEF Call, CallInv
  <1>3. file' = file /\ ReadStays
    BY Zenon DEF Call, ReadStays
  <1>4. CASE socket
    <2>1. calls' = Append(calls, e) /\ answer'[c] = "waiting"
      BY <1>q, <1>2, <1>4, Zenon DEF Call, Settle
    <2>2. LastWord(Append(calls, e), e.from, e.req)
      BY <1>q, <1>1, <1>2, AppendOwn, Zenon
    <2> QED
      BY <1>1, <1>3, <2>1, <2>2, Zenon DEF CallInv
  <1>5. CASE ~socket
    <2>1. calls' = calls /\ answer'[c] = "failed"
      BY <1>q, <1>2, <1>5, Zenon DEF Call, Settle
    <2> QED
      BY <1>2, <1>3, <2>1, Zenon DEF CallInv
  <1> QED
    BY <1>4, <1>5, Zenon

LEMMA VMCalls ==
    ASSUME SubnetInv, NEW v \in VMs, SetVM(v) \/ DelVM(v)
    PROVE  SubnetInv'
  <1>t. /\ TypeOK /\ ServerTypeOK /\ FileHoldsTable /\ JobInv /\ CallInv(v)
        /\ v \in Clients /\ v # Net /\ v # None
    BY TypeFacts, ClientFacts, Zenon DEF SubnetInv
  <1> DEFINE set == job[v].pc = "set"
             pc == IF set THEN "setting" ELSE "deling"
             r == IF set THEN [op |-> "set-host", mac |-> Mac(v), host |-> want[v]]
                  ELSE [op |-> "del-host", mac |-> Mac(v)]
  <1>1. /\ job[v].pc \in {"set", "del"} /\ Call(v, r) /\ job' = [job EXCEPT ![v].pc = pc]
        /\ st' = st /\ want' = want /\ cfg' = cfg /\ redo' = redo
        /\ watch' = watch /\ calm' = calm /\ steady' = steady
    BY Zenon DEF SetVM, DelVM, Drive, Goto
  <1>2. job[v].nic \in 1..Len(Nics[v]) /\ Mac(v) \in Macs /\ want[v] \in Hosts
    BY <1>t, <1>1, NicFacts, TypeFacts, Zenon DEF JobInv, Mac
  <1>3. r \in T!Requests /\ Subject(r) = <<Mac(v)>>
    BY <1>2, Zenon DEF T!Requests, Subject
  <1>4. /\ job'[v].pc = pc /\ job'[v].nic = job[v].nic /\ st'[v] = st[v]
        /\ job'[v] \in [pc : Places, nic : Nat] /\ job' = [job EXCEPT ![v] = job'[v]]
    BY <1>t, <1>1, TypeFacts, Zenon DEF Places
  <1>5. Order(v)' = r
    BY <1>t, <1>1, <1>4 DEF Order, Mac
  <1> HIDE DEF r
  <1>6. CallInv(v)' /\ answer'[v] \in {"waiting", "failed"} /\ file' = file /\ ReadStays
    BY <1>t, <1>1, <1>3, <1>4, <1>5, OwnCall, Zenon
  <1>7. TypedMove(v)
    BY <1>t, <1>1, <1>4, TypeFacts, Zenon DEF TypedMove, TypeOK
  <1>8. Moves(v)
    <2>1. CallOf(v)
      BY <1>t, <1>1, <1>2, <1>3, Zenon DEF CallOf
    <2> QED
      BY <1>t, <1>1, <1>6, <2>1, TypeFacts, Zenon DEF Moves
  <1>9. Noticed(v)
    BY <1>1, <1>6, Zenon DEF Noticed
  <1>10. Placed(v)'
    BY <1>t, <1>1, <1>2, <1>4, TypeFacts, Zenon DEF Placed, JobInv, VMPlaces
  <1>11. NetInv'
    <2>1. Settled(v)' => Settled(v)
      BY <1>1, <1>4 DEF Settled
    <2> QED
      BY <1>8, <2>1, NetKept, Zenon
  <1>12. ASSUME NEW n \in 1..Len(Nics[v])
         PROVE  HostInv(v, n)'
    <2>1. CASE n = job[v].nic
      <3>1. ~Serves(v, n)' /\ ~Clears(v, n)'
        BY <1>t, <1>1, <1>2, <1>4, <1>6, <2>1, NicFacts, SMTT(30)
           DEF Serves, Clears, Settled, Done, JobInv, VMPlaces
      <3> QED
        BY <3>1, Zenon DEF HostInv
    <2>2. CASE n # job[v].nic
      <3>1. Subject(r) # <<Nics[v][n]>>
        BY <1>2, <1>3, <2>2, NicFacts DEF Mac
      <3>2. HostInv(v, n) /\ Beside(<<Nics[v][n]>>)
        BY <1>t, <1>1, <1>3, <3>1, Zenon DEF SubnetInv, Beside
      <3>3. Serves(v, n)' => Serves(v, n)
        BY <1>1, <1>4, <2>2 DEF Serves, Settled, Done
      <3>4. Clears(v, n)' => Clears(v, n)
        BY <1>1, <1>4, <2>2 DEF Clears, Done
      <3>5. Serves(v, n)' => /\ Serves(v, n) /\ want'[v] = want[v]
                             /\ file # Missing /\ file' # Missing
        BY <1>1, <1>6, <3>3, SettledHolds, Zenon DEF Serves, InForce
      <3> QED
        BY <1>t, <3>2, <3>4, <3>5, HostKept, Zenon
    <2> QED
      BY <2>1, <2>2, Zenon
  <1> QED
    BY <1>t, <1>1, <1>6, <1>7, <1>8, <1>9, <1>10, <1>11, <1>12, Assembled

-----------------------------------------------------------------------------
(* The commands of the subnet. *)

(* A move of the subnet that makes no call: either no VM is settled and it *)
(* claims nothing, or the table is left alone.                             *)
LEMMA NetMove ==
    ASSUME SubnetInv,
           NEW s \in {"absent", "creating", "running", "deleting", "error"},
           NEW j \in [pc : Places, nic : Nat],
           QuietStep, ReadStays, file # Missing => file' # Missing \/ job[Net].pc \in {"unfile", "unstate"},
           st' = [st EXCEPT ![Net] = s], job' = [job EXCEPT ![Net] = j],
           UNCHANGED <<want, redo, watch>>, calm' \subseteq calm, steady' \subseteq steady,
           cfg' \in Configs, cfg' = cfg \/ st[Net] = "absent",
           answer[Net] # "waiting",
           j.pc \in NetPlaces(s),
           \/ (\A v \in VMs : ~Settled(v)) /\ s # "running" /\ j.pc # "pushed"
           \/ /\ cfg' = cfg /\ UNCHANGED <<proc, mem, old, file, calls>>
              /\ s \in {"running", "deleting", "error"} /\ j.pc \in {"idle", "children", "fail"}
              /\ s = "running" => Held
    PROVE  SubnetInv'
  <1>t. /\ TypeOK /\ ServerTypeOK /\ FileHoldsTable /\ NetInv /\ ReadInv /\ CallInv(Net)
        /\ Net \in Clients /\ Net \notin VMs
    BY TypeFacts, ClientFacts, Zenon DEF SubnetInv
  <1>1. st'[Net] = s /\ job'[Net] = j
    BY <1>t, TypeFacts, Zenon
  <1>2. \A d \in Clients \ {Net} : st'[d] = st[d] /\ job'[d] = job[d]
    BY <1>t, TypeFacts, Zenon
  <1>3. Moves(Net)
    BY <1>2, Zenon DEF Moves
  <1>4. TypedMove(Net) /\ Noticed(Net)
    BY <1>t, <1>1, TypeFacts, Zenon DEF TypedMove, Noticed
  <1>5. Placed(Net)'
    BY <1>1, Zenon DEF Placed
  <1>6. CallInv(Net)'
    BY <1>t, CallKept, Zenon
  <1>7. steady # {} => cfg' = cfg
    <2> SUFFICES ASSUME NEW v \in VMs, v \in steady
                 PROVE  st[Net] # "absent"
      BY <1>t, Zenon DEF TypeOK
    <2> QED
      BY <1>t, SettledHolds, Zenon DEF ReadInv, Settled
  <1>8. \A v \in VMs : Settled(v)' = Settled(v)
    BY <1>2, ClientFacts, Zenon DEF Settled
  <1>9. NetInv'
    <2>1. CASE (\A v \in VMs : ~Settled(v)) /\ s # "running" /\ j.pc # "pushed"
      BY <1>1, <1>8, <2>1, Zenon DEF NetInv, Held
    <2>2. CASE /\ cfg' = cfg /\ UNCHANGED <<proc, mem, old, file, calls>>
               /\ s \in {"running", "deleting", "error"} /\ j.pc \in {"idle", "children", "fail"}
               /\ s = "running" => Held
      <3>1. Held' => Held
        BY <1>1, <1>8, <2>2, Zenon DEF Held
      <3>2. InForce' = InForce
        BY <2>2, Zenon DEF InForce, CurrentTable, Silent, Subject
      <3> QED
        BY <1>t, <1>1, <2>2, <3>1, <3>2, Zenon DEF NetInv
    <2> QED
      BY <2>1, <2>2, Zenon
  <1> QED
    BY <1>t, <1>3, <1>4, <1>5, <1>6, <1>7, <1>9, Assembled, Zenon

(* No VM is settled while the subnet is built or torn down. *)
LEMMA NoneSettled ==
    ASSUME SubnetInv, \/ job[Net].pc \notin {"idle", "children", "fail"}
                      \/ st[Net] \in {"absent", "creating"}
                      \/ \A v \in VMs : st[v] = "absent"
    PROVE  \A v \in VMs : ~Settled(v)
  <1>1. CASE \A v \in VMs : st[v] = "absent"
    BY <1>1, Zenon DEF SubnetInv, JobInv, VMPlaces, Settled
  <1> QED
    BY <1>1, SettledHolds, Zenon

(* A move to another place of the same command. *)
LEMMA NetGoes ==
    ASSUME SubnetInv, NEW pc \in Places \ {"pushed"}, Drive(Net, pc), pc \in NetPlaces(st[Net]),
           st[Net] # "running",
           QuietStep, ReadStays, file # Missing => file' # Missing \/ job[Net].pc \in {"unfile", "unstate"},
           answer[Net] # "waiting",
           \/ job[Net].pc \notin {"idle", "children", "fail"}
           \/ st[Net] \in {"absent", "creating"}
           \/ \A v \in VMs : st[v] = "absent"
    PROVE  SubnetInv'
  <1>t. TypeOK /\ Net \in Clients
    BY ClientFacts, Zenon DEF SubnetInv
  <1> DEFINE j == [job[Net] EXCEPT !.pc = pc]
  <1>1. st' = [st EXCEPT ![Net] = st[Net]] /\ job' = [job EXCEPT ![Net] = j]
    BY <1>t, TypeFacts, Zenon DEF Drive, Goto
  <1>2. j \in [pc : Places, nic : Nat] /\ j.pc = pc
    BY <1>t, TypeFacts, Zenon
  <1>3. st[Net] \in {"absent", "creating", "running", "deleting", "error"} /\ cfg \in Configs
    BY <1>t, TypeFacts, Zenon DEF TypeOK
  <1>4. UNCHANGED <<want, redo, watch>> /\ calm' = calm /\ steady' = steady /\ cfg' = cfg
    BY Zenon DEF Drive
  <1>5. \A v \in VMs : ~Settled(v)
    BY NoneSettled, Zenon
  <1> HIDE DEF j
  <1> QED
    BY <1>1, <1>2, <1>3, <1>4, <1>5, NetMove, Zenon

(* The subnet's command is at a place of the construction or of the teardown. *)
LEMMA NetStates ==
    ASSUME SubnetInv
    PROVE  /\ job[Net].pc \in {"unfile", "start", "ready", "push", "pushed"} => st[Net] = "creating"
           /\ job[Net].pc \in {"children", "status", "stop", "unstate", "unsocket", "links"}
                 => st[Net] = "deleting"
           /\ job[Net].pc = "fail" => st[Net] \in {"creating", "deleting"}
           /\ job[Net].pc # "pushed" => answer[Net] # "waiting"
  <1>1. job[Net].pc \in NetPlaces(st[Net]) /\ st[Net] \in {"absent", "creating", "running", "deleting", "error"}
    BY TypeFacts, ClientFacts, Zenon DEF SubnetInv, JobInv
  <1>2. CallInv(Net)
    BY ClientFacts, Zenon DEF SubnetInv
  <1>3. job[Net].pc \notin {"setting", "deling"}
    BY <1>1, Zenon DEF NetPlaces
  <1> QED
    BY <1>1, <1>2, <1>3, Zenon DEF NetPlaces, CallInv

LEMMA NetSteps ==
    ASSUME SubnetInv,
           \/ ConfigureUnfile \/ ConfigureStart \/ waitReady
           \/ Resume(Net, "failed") /\ job[Net].pc = "pushed" /\ Drive(Net, "fail")
           \/ job[Net].pc = "children" /\ (\A v \in VMs : st[v] = "absent") /\ Step(Net, "status")
           \/ TeardownStatus \/ TeardownStop \/ TeardownState \/ TeardownSocket
           \/ job[Net].pc = "links" /\ Step(Net, "fail")
    PROVE  SubnetInv'
  <1>p. /\ {"start", "ready", "fail", "push", "status", "unstate", "stop", "unsocket", "links"}
              \subseteq Places \ {"pushed"}
        /\ {"start", "ready", "fail", "push"} \subseteq NetPlaces("creating")
        /\ {"status", "unstate", "stop", "unsocket", "links", "fail"} \subseteq NetPlaces("deleting")
    BY Zenon DEF Places, NetPlaces
  <1>s. \A pc : Step(Net, pc) => /\ Drive(Net, pc) /\ QuietStep /\ ReadStays /\ file' = file
    BY QuietMoves, Zenon DEF Step, Drive
  <1>1. CASE ConfigureUnfile
    BY <1>1, <1>p, QuietMoves, NetStates, NetGoes, Zenon DEF ConfigureUnfile
  <1>2. ASSUME NEW pc \in {"ready", "fail"}, job[Net].pc = "start", Launch, Drive(Net, pc)
        PROVE  SubnetInv'
    BY <1>2, <1>p, QuietMoves, NetStates, NetGoes, Zenon
  <1>3. CASE waitReady
    BY <1>3, <1>p, <1>s, NetStates, NetGoes, Zenon DEF waitReady
  <1>4. CASE Resume(Net, "failed") /\ job[Net].pc = "pushed" /\ Drive(Net, "fail")
    <2>1. answer[Net] # "waiting"
      BY <1>4, Zenon DEF Resume
    <2> QED
      BY <1>4, <2>1, <1>p, QuietMoves, ClientFacts, NetStates, NetGoes, Zenon
  <1>5. CASE job[Net].pc = "children" /\ (\A v \in VMs : st[v] = "absent") /\ Step(Net, "status")
    BY <1>5, <1>p, <1>s, NetStates, NetGoes, Zenon
  <1>6. CASE TeardownStatus
    BY <1>6, <1>p, <1>s, NetStates, NetGoes, Zenon DEF TeardownStatus
  <1>7. ASSUME NEW pc \in {"unstate", "fail"}, job[Net].pc = "stop", Down, Drive(Net, pc)
        PROVE  SubnetInv'
    <2>1. file' = file
      BY <1>7, Zenon DEF Down
    <2> QED
      BY <1>7, <2>1, <1>p, QuietMoves, NetStates, NetGoes, Zenon
  <1>8. CASE job[Net].pc = "stop" /\ Step(Net, "fail")
    BY <1>8, <1>p, <1>s, NetStates, NetGoes, Zenon
  <1>9. CASE TeardownState
    BY <1>9, <1>p, QuietMoves, NetStates, NetGoes, Zenon DEF TeardownState
  <1>10. CASE TeardownSocket
    BY <1>10, <1>p, QuietMoves, NetStates, NetGoes, Zenon DEF TeardownSocket
  <1>11. CASE job[Net].pc = "links" /\ Step(Net, "fail")
    BY <1>11, <1>p, <1>s, NetStates, NetGoes, Zenon
  <1> QED
    BY <1>1, <1>2, <1>3, <1>4, <1>5, <1>6, <1>7, <1>8, <1>9, <1>10, <1>11, SMTT(30)
       DEF ConfigureStart, TeardownStop

(* The command of the subnet begins, is given up for the VMs, or ends. *)
LEMMA NetTurns ==
    ASSUME SubnetInv,
           \/ Create(Net) \/ Delete(Net) \/ MarkError(Net) \/ DeleteEnd(Net, "links")
           \/ Resume(Net, "ok") /\ CreateEnd(Net, "pushed")
           \/ job[Net].pc = "children" /\ Step(Net, "fail")
    PROVE  SubnetInv'
  <1>t. TypeOK /\ JobInv /\ NetInv /\ Net \in Clients /\ cfg \in Configs
    BY ClientFacts, Zenon DEF SubnetInv, TypeOK
  <1>i. Idle \in [pc : Places, nic : Nat] /\ Idle.pc = "idle" /\ \A s : Idle.pc \in NetPlaces(s) <=> s \notin {"creating", "deleting"}
    BY Zenon DEF Idle, Places, NetPlaces
  <1>u. UNCHANGED serverVars => /\ QuietStep /\ ReadStays /\ file' = file
                                /\ UNCHANGED <<proc, mem, old, file, calls>>
    BY QuietMoves, Zenon DEF serverVars
  <1>1. CASE Create(Net)
    <2> DEFINE j == [job[Net] EXCEPT !.pc = "unfile"]
    <2>1. /\ UNCHANGED serverVars /\ UNCHANGED <<want, redo, watch>> /\ cfg' \in Configs
          /\ st[Net] = "absent" /\ calm' \subseteq calm /\ steady' \subseteq steady
          /\ st' = [st EXCEPT ![Net] = "creating"] /\ job' = [job EXCEPT ![Net] = j]
      BY <1>1, Zenon DEF Create, Become
    <2>2. j \in [pc : Places, nic : Nat] /\ j.pc = "unfile" /\ j.pc \in NetPlaces("creating")
      BY <1>t, TypeFacts, Zenon DEF Places, NetPlaces
    <2>3. answer[Net] # "waiting" /\ \A v \in VMs : ~Settled(v)
      BY <1>t, <2>1, NetStates, NoneSettled, Zenon DEF JobInv, NetPlaces
    <2> HIDE DEF j
    <2> QED
      BY <1>u, <2>1, <2>2, <2>3, NetMove, Zenon
  <1>2. CASE Delete(Net)
    <2> DEFINE j == [job[Net] EXCEPT !.pc = "children", !.nic = 1]
    <2>1. /\ UNCHANGED serverVars /\ UNCHANGED <<want, redo, watch>> /\ cfg' = cfg
          /\ st[Net] \in {"running", "error"} /\ calm' \subseteq calm /\ steady' \subseteq steady
          /\ st' = [st EXCEPT ![Net] = "deleting"] /\ job' = [job EXCEPT ![Net] = j]
      BY <1>t, <1>2, TypeFacts, Zenon DEF Delete, Become
    <2>2. j \in [pc : Places, nic : Nat] /\ j.pc = "children" /\ j.pc \in NetPlaces("deleting")
      BY <1>t, TypeFacts, Zenon DEF Places, NetPlaces
    <2>3. answer[Net] # "waiting"
      BY <1>t, <2>1, NetStates, Zenon DEF JobInv, NetPlaces
    <2> HIDE DEF j
    <2> QED
      BY <1>t, <1>u, <2>1, <2>2, <2>3, NetMove, Zenon
  <1>3. CASE MarkError(Net)
    <2>1. /\ UNCHANGED serverVars /\ UNCHANGED <<want, redo, watch>> /\ cfg' = cfg
          /\ job[Net].pc = "fail" /\ calm' \subseteq calm /\ steady' \subseteq steady
          /\ st' = [st EXCEPT ![Net] = "error"] /\ job' = [job EXCEPT ![Net] = Idle]
      BY <1>3, Zenon DEF MarkError, Fail, Finish, Become
    <2>2. answer[Net] # "waiting"
      BY <2>1, NetStates, Zenon
    <2> QED
      BY <1>t, <1>i, <1>u, <2>1, <2>2, NetMove, Zenon
  <1>4. CASE DeleteEnd(Net, "links")
    <2>1. /\ UNCHANGED serverVars /\ UNCHANGED <<want, redo, watch>> /\ cfg' = cfg
          /\ job[Net].pc = "links" /\ calm' \subseteq calm /\ steady' \subseteq steady
          /\ st' = [st EXCEPT ![Net] = "absent"] /\ job' = [job EXCEPT ![Net] = Idle]
      BY <1>4, Zenon DEF DeleteEnd, Finish, Become
    <2>2. answer[Net] # "waiting" /\ \A v \in VMs : ~Settled(v)
      BY <2>1, NetStates, NoneSettled, Zenon
    <2> QED
      BY <1>t, <1>i, <1>u, <2>1, <2>2, NetMove, Zenon
  <1>5. CASE Resume(Net, "ok") /\ CreateEnd(Net, "pushed")
    <2>1. /\ UNCHANGED <<want, redo, watch>> /\ cfg' = cfg
          /\ job[Net].pc = "pushed" /\ calm' \subseteq calm /\ steady' \subseteq steady
          /\ st' = [st EXCEPT ![Net] = "running"] /\ job' = [job EXCEPT ![Net] = Idle]
      BY <1>5, Zenon DEF CreateEnd, Finish, Become
    <2>2. answer[Net] = "ok" /\ UNCHANGED <<proc, mem, old, file, calls>>
      BY <1>5, Zenon DEF Resume
    <2>3. Held /\ QuietStep /\ ReadStays
      BY <1>5, <2>1, <2>2, QuietMoves, ClientFacts, Zenon DEF Held
    <2> QED
      BY <1>t, <1>i, <2>1, <2>2, <2>3, NetMove, Zenon
  <1>6. CASE job[Net].pc = "children" /\ Step(Net, "fail")
    <2> DEFINE j == [job[Net] EXCEPT !.pc = "fail"]
    <2>1. /\ UNCHANGED serverVars /\ UNCHANGED <<want, redo, watch>> /\ cfg' = cfg
          /\ calm' \subseteq calm /\ steady' \subseteq steady
          /\ st' = st /\ job' = [job EXCEPT ![Net] = j]
      BY <1>6, Zenon DEF Step, Goto
    <2>2. j \in [pc : Places, nic : Nat] /\ j.pc = "fail" /\ j.pc \in NetPlaces("deleting")
      BY <1>t, TypeFacts, Zenon DEF Places, NetPlaces
    <2>3. answer[Net] # "waiting" /\ st[Net] = "deleting" /\ st' = [st EXCEPT ![Net] = "deleting"]
      BY <1>t, <1>6, <2>1, NetStates, TypeFacts, Zenon
    <2> HIDE DEF j
    <2> QED
      BY <1>t, <1>u, <2>1, <2>2, <2>3, NetMove, Zenon
  <1> QED
    BY <1>1, <1>2, <1>3, <1>4, <1>5, <1>6, Zenon

LEMMA NetPushes ==
    ASSUME SubnetInv, pushSubnet
    PROVE  SubnetInv'
  <1>t. /\ TypeOK /\ ServerTypeOK /\ FileHoldsTable /\ JobInv /\ CallInv(Net)
        /\ Net \in Clients /\ Net \notin VMs /\ Net # None
    BY TypeFacts, ClientFacts, Zenon DEF SubnetInv
  <1> DEFINE r == [op |-> "set-subnet", subnet |-> cfg]
  <1>1. /\ job[Net].pc = "push" /\ Call(Net, r) /\ job' = [job EXCEPT ![Net].pc = "pushed"]
        /\ st' = st /\ want' = want /\ cfg' = cfg /\ redo' = redo
        /\ watch' = watch /\ calm' = calm /\ steady' = steady
    BY Zenon DEF pushSubnet, Drive, Goto
  <1>2. r \in T!Requests /\ Subject(r) = <<>> /\ Order(Net)' = r
    BY <1>t, <1>1, Zenon DEF T!Requests, Subject, TypeOK, Order
  <1> HIDE DEF r
  <1>3. /\ job'[Net].pc = "pushed" /\ st'[Net] = st[Net] /\ st[Net] = "creating"
        /\ job'[Net] \in [pc : Places, nic : Nat] /\ job' = [job EXCEPT ![Net] = job'[Net]]
    BY <1>t, <1>1, TypeFacts, NetStates, Zenon DEF Places
  <1>4. CallInv(Net)' /\ answer'[Net] \in {"waiting", "failed"} /\ file' = file /\ ReadStays
    BY <1>t, <1>1, <1>2, <1>3, OwnCall, Zenon
  <1>5. TypedMove(Net)
    BY <1>t, <1>1, <1>3, TypeFacts, Zenon DEF TypedMove, TypeOK
  <1>6. Moves(Net)
    <2>1. CallOf(Net)
      BY <1>1, <1>2, Zenon DEF CallOf
    <2> QED
      BY <1>t, <1>1, <1>4, <2>1, TypeFacts, Zenon DEF Moves
  <1>7. Noticed(Net)
    BY <1>t, <1>1, <1>4, Zenon DEF Noticed
  <1>8. Placed(Net)'
    BY <1>3, Zenon DEF Placed, NetPlaces
  <1>9. \A v \in VMs : ~Settled(v)'
    <2>1. \A v \in VMs : ~Settled(v)
      BY <1>1, NoneSettled, Zenon
    <2> QED
      BY <1>1, <1>6, <2>1, ClientFacts, Zenon DEF Moves, Settled
  <1>10. NetInv'
    BY <1>3, <1>4, <1>9, Zenon DEF NetInv, Held
  <1> QED
    BY <1>t, <1>1, <1>4, <1>5, <1>6, <1>7, <1>8, <1>10, Assembled, Zenon

-----------------------------------------------------------------------------
(* Steps that move no command. *)

WatchTypeOK == watch \in [pc : {"idle", "vms"}, served : [Macs -> Hosts \cup {None}], todo : SUBSET VMs,
                          expected : SUBSET (Macs \X Hosts), transient : SUBSET VMs]

LEMMA ServerSide ==
    ASSUME SubnetInv, QuietStep, file # Missing => file' # Missing,
           UNCHANGED <<st, cfg, want, job>>, redo' \in BOOLEAN,
           WatchTypeOK', calm' \subseteq VMs, steady' \subseteq VMs,
           ReadInv', WatchInv'
    PROVE  SubnetInv'
  <1>t. TypeOK /\ ServerTypeOK /\ FileHoldsTable /\ JobInv
    BY TypeFacts, Zenon DEF SubnetInv
  <1>1. Moves(None)
    BY Zenon DEF Moves
  <1>2. None \notin Clients /\ None \notin VMs
    BY Marks, ClientFacts, Zenon
  <1>3. NetInv'
    BY <1>1, <1>2, NetKept, Zenon
  <1>4. /\ \A d \in Clients : CallInv(d)'
        /\ \A v \in VMs : \A n \in 1..Len(Nics[v]) : HostInv(v, n)'
    BY <1>1, <1>2, OthersKept, Zenon
  <1>5. ServerTypeOK' /\ FileHoldsTable'
    BY <1>t, ServerKept, Zenon
  <1>6. TypeOK'
    BY <1>t, <1>5, Zenon DEF TypeOK, WatchTypeOK
  <1>7. JobInv'
    BY <1>t, Zenon DEF JobInv
  <1> QED
    BY <1>3, <1>4, <1>5, <1>6, <1>7, Zenon DEF SubnetInv

LEMMA ServerMoves ==
    ASSUME SubnetInv, Serve \/ DeployStop \/ DeployStart \/ \E c \in Clients : CallFails(c)
    PROVE  SubnetInv'
  <1>t. TypeOK /\ ServerTypeOK /\ FileHoldsTable /\ ReadInv /\ WatchInv
    BY TypeFacts, Zenon DEF SubnetInv
  <1>1. /\ UNCHANGED <<st, cfg, want, job>> /\ watch' = watch /\ calm' = calm
        /\ redo' \in BOOLEAN
    BY <1>t, Zenon DEF Serve, DeployStop, DeployStart, CallFails, agentVars, TypeOK
  <1>2. WatchTypeOK' /\ calm' \subseteq VMs
    BY <1>t, <1>1, Zenon DEF TypeOK, WatchTypeOK
  <1>3. WatchInv'
    BY <1>t, <1>1, WatchKept, Zenon
  <1>4. ASSUME NEW m \in Macs, HandleSubnet(m), steady' = {v \in VMs : st[v] = "running"}
        PROVE  SubnetInv'
    <2>1. /\ proc = "up" /\ proc' = "up" /\ old = None /\ file' = file
          /\ read' = IF mem.subnet = None THEN None ELSE [mac |-> m, subnet |-> mem.subnet]
      BY <1>4, Zenon DEF HandleSubnet
    <2>2. CurrentTable = mem
      BY <2>1, Zenon DEF CurrentTable
    <2>3. ASSUME steady' # {}
          PROVE  mem.subnet = cfg
      <3>1. PICK v \in VMs : st[v] = "running"
        BY <1>4, <2>3, Zenon
      <3> QED
        BY <2>2, <3>1, SettledHolds, Zenon DEF Settled, InForce
    <2>4. ReadInv'
      BY <1>1, <1>4, <2>1, <2>3, Zenon DEF ReadInv
    <2>5. steady' \subseteq VMs /\ QuietStep
      BY <1>4, Zenon DEF QuietStep
    <2> QED
      BY <1>1, <1>2, <1>3, <2>1, <2>4, <2>5, ServerSide, Zenon
  <1>5. ASSUME steady' = steady, QuietStep, ReadStays, file # Missing => file' # Missing
        PROVE  SubnetInv'
    <2>1. ReadInv'
      BY <1>t, <1>1, <1>5, ReadKept, Zenon
    <2>2. steady' \subseteq VMs
      BY <1>t, <1>5, Zenon DEF TypeOK
    <2> QED
      BY <1>1, <1>2, <1>3, <1>5, <2>1, <2>2, ServerSide, Zenon
  <1>6. ASSUME Load \/ Listen \/ Down \/ Change \/ Persist \/ RollBack \/ HandleHost \/ Launch
               \/ \E c \in Clients : GiveUp(c)
        PROVE  QuietStep /\ ReadStays /\ (file # Missing => file' # Missing)
    <2>1. QuietStep
      BY <1>6, Zenon DEF QuietStep
    <2>2. file # Missing => file' # Missing
      BY <1>t, <1>6, EmptyType, Marks, Zenon
         DEF Load, Listen, Down, Change, Persist, RollBack, HandleHost, Launch, GiveUp, ServerTypeOK
    <2>3. ReadStays
      BY <1>t, <1>6, Zenon DEF ReadStays, ReadInv,
                    Load, Listen, Down, Change, Persist, RollBack, HandleHost, Launch, GiveUp
    <2> QED
      BY <2>1, <2>2, <2>3, Zenon
  <1>7. CASE DeployStop \/ DeployStart \/ \E c \in Clients : CallFails(c)
    BY <1>5, <1>6, <1>7, Zenon DEF DeployStop, DeployStart, CallFails
  <1>8. CASE (Load \/ Listen \/ Exit \/ Change \/ Persist \/ RollBack \/ HandleHost) /\ UNCHANGED steady
    BY <1>5, <1>6, <1>8, Zenon DEF Exit
  <1> QED
    BY <1>4, <1>7, <1>8, Zenon DEF Serve

(* What the invariant says of VMs at rest. *)
LEMMA AtRest ==
    ASSUME SubnetInv, NEW v \in VMs, NEW m \in Owned(v)
    PROVE  /\ m \in Macs
           /\ st[v] = "running" => CurrentTable.hosts[m] = want[v]
           /\ st[v] = "absent" => CurrentTable.hosts[m] = None /\ Silent(calls, <<m>>)
  <1>1. PICK n \in 1..Len(Nics[v]) : m = Nics[v][n]
    BY Zenon DEF Owned
  <1>2. HostInv(v, n) /\ job[v].pc \in VMPlaces(st[v])
    BY Zenon DEF SubnetInv, JobInv
  <1>3. st[v] = "running" => Serves(v, n)
    BY <1>2, Zenon DEF VMPlaces, Serves, Settled, Done
  <1>4. st[v] = "absent" => Clears(v, n)
    BY <1>2, Zenon DEF VMPlaces, Clears, Done
  <1> QED
    BY <1>1, <1>2, <1>3, <1>4, NicFacts, Zenon DEF HostInv

LEMMA OwnedApart ==
    ASSUME NEW v \in VMs, NEW w \in VMs, NEW m \in Owned(v), m \in Owned(w)
    PROVE  v = w
  BY NicsAssumption, Zenon DEF NicsAssumption, Owned

LEMMA WatchMoves ==
    ASSUME SubnetInv, WatchServer \/ Report \/ \E v \in VMs : expectedHosts(v)
    PROVE  SubnetInv'
  <1>t. TypeOK /\ ServerTypeOK /\ FileHoldsTable /\ ReadInv /\ WatchInv
    BY TypeFacts, Zenon DEF SubnetInv
  <1>1. UNCHANGED serverVars /\ UNCHANGED <<st, cfg, want, job>> /\ redo' = redo /\ steady' = steady
    BY Zenon DEF WatchServer, Report, expectedHosts, WatchTo, agentVars
  <1>2. QuietStep /\ ReadStays /\ file' = file
    BY <1>1, QuietMoves, Zenon
  <1>3. ReadInv'
    BY <1>t, <1>1, <1>2, ReadKept, Zenon
  <1>4. redo' \in BOOLEAN /\ steady' \subseteq VMs /\ WatchTypeOK /\ calm \subseteq VMs
    BY <1>t, <1>1, Zenon DEF TypeOK, WatchTypeOK
  <1>5. ASSUME WatchTypeOK', calm' \subseteq VMs, WatchInv'
        PROVE  SubnetInv'
    BY <1>1, <1>2, <1>3, <1>4, <1>5, ServerSide, Zenon
  <1>e. Empty.hosts \in [Macs -> Hosts \cup {None}]
    BY Zenon DEF Empty, T!Empty
  <1>6. CASE Report
    <2>1. watch' = Quiet /\ calm' = {}
      BY <1>6, Zenon DEF Report, WatchTo
    <2>2. WatchTypeOK'
      BY <1>e, <2>1, Zenon DEF WatchTypeOK, Quiet
    <2>3. WatchInv'
      BY <2>1, Zenon DEF WatchInv, Quiet
    <2> QED
      BY <1>5, <2>1, <2>2, <2>3, Zenon
  <1>7. CASE WatchServer
    <2>1. /\ watch' = [pc |-> "vms", served |-> mem.hosts, todo |-> VMs, expected |-> {}, transient |-> {}]
          /\ calm' = VMs
      BY <1>7, Zenon DEF WatchServer, WatchTo, Quiet
    <2>2. mem.hosts \in [Macs -> Hosts \cup {None}] /\ CurrentTable = mem
      BY <1>t, <1>7, Zenon DEF WatchServer, ServerTypeOK, T!Tables, FileHoldsTable, CurrentTable
    <2>3. WatchTypeOK'
      BY <2>1, <2>2, Zenon DEF WatchTypeOK
    <2>4. \A v \in VMs : \A m \in Owned(v) :
             /\ st'[v] = "running" => watch'.served[m] = want'[v]
             /\ st'[v] = "absent" => watch'.served[m] = None
      BY <1>1, <2>1, <2>2, AtRest, Zenon
    <2>5. WatchInv'
      BY <2>1, <2>4, Zenon DEF WatchInv, Owned
    <2> QED
      BY <1>5, <2>1, <2>3, <2>5, Zenon
  <1>8. ASSUME NEW v \in VMs, expectedHosts(v)
        PROVE  SubnetInv'
    <2> DEFINE new == IF st[v] = "running" THEN {<<m, want[v]>> : m \in Owned(v)} ELSE {}
               tra == IF st[v] \in {"creating", "deleting", "error"} THEN {v} ELSE {}
    <2>1. watch' = [watch EXCEPT !.todo = watch.todo \ {v}, !.transient = watch.transient \cup tra,
                                 !.expected = watch.expected \cup new]
      BY <1>8, ZenonT(30) DEF expectedHosts, WatchTo
    <2>2. calm' = calm
      BY <1>8, Zenon DEF expectedHosts
    <2>3. /\ watch'.pc = watch.pc /\ watch'.served = watch.served
          /\ watch'.todo = watch.todo \ {v} /\ watch'.transient = watch.transient \cup tra
          /\ watch'.expected = watch.expected \cup new
      BY <1>4, <2>1, Zenon DEF WatchTypeOK
    <2>4. want[v] \in Hosts /\ Owned(v) \subseteq Macs
      BY <1>t, TypeFacts, AtRest, Zenon
    <2>5. new \subseteq Macs \X Hosts /\ tra \subseteq VMs
      BY <2>4
    <2>n. \A e \in new : e[1] \in Owned(v) /\ e[2] = want[v] /\ st[v] = "running"
      OBVIOUS
    <2>o. st[v] = "running" => \A m \in Owned(v) : <<m, want[v]>> \in new
      BY Zenon
    <2>a. st[v] \in {"creating", "deleting", "error"} => v \in tra
      BY Zenon
    <2> HIDE DEF new, tra
    <2>6. WatchTypeOK'
      BY <1>4, <2>1, <2>5, Zenon DEF WatchTypeOK
    <2>7. ASSUME watch.pc = "vms", NEW u \in calm
          PROVE  /\ st[u] = "running" => \A m \in Owned(u) : watch'.served[m] = want[u]
                 /\ st[u] = "absent" => \A m \in Owned(u) : watch'.served[m] = None
                 /\ u \in watch'.todo \/
                       /\ st[u] = "running" => \A m \in Owned(u) : <<m, want[u]>> \in watch'.expected
                       /\ st[u] \in {"creating", "deleting", "error"} => u \in watch'.transient
                 /\ \A e \in watch'.expected : e[1] \in Owned(u) => st[u] = "running" /\ e[2] = want[u]
      <3>1. u \in VMs
        BY <1>4, Zenon
      <3>2. /\ st[u] = "running" => \A m \in Owned(u) : watch.served[m] = want[u]
            /\ st[u] = "absent" => \A m \in Owned(u) : watch.served[m] = None
        BY <1>t, <2>7, Zenon DEF WatchInv
      <3>3. u \in watch.todo \/
               /\ st[u] = "running" => \A m \in Owned(u) : <<m, want[u]>> \in watch.expected
               /\ st[u] \in {"creating", "deleting", "error"} => u \in watch.transient
        BY <1>t, <2>7, Zenon DEF WatchInv
      <3>4. \A e \in watch.expected : e[1] \in Owned(u) => st[u] = "running" /\ e[2] = want[u]
        BY <1>t, <2>7, Zenon DEF WatchInv
      <3>5. \A e \in new : e[1] \in Owned(u) => u = v
        BY <2>n, <3>1, OwnedApart, Zenon
      <3>6. \A e \in watch'.expected : e[1] \in Owned(u) => st[u] = "running" /\ e[2] = want[u]
        BY <2>3, <2>n, <3>4, <3>5, Zenon
      <3>7. u \in watch'.todo \/
               /\ st[u] = "running" => \A m \in Owned(u) : <<m, want[u]>> \in watch'.expected
               /\ st[u] \in {"creating", "deleting", "error"} => u \in watch'.transient
        BY <2>3, <2>o, <2>a, <3>3, Zenon
      <3> QED
        BY <2>3, <3>2, <3>6, <3>7, Zenon
    <2>8. WatchInv'
      BY <1>1, <2>2, <2>3, <2>7, Zenon DEF WatchInv, Owned
    <2> QED
      BY <1>4, <1>5, <2>2, <2>6, <2>8, Zenon
  <1> QED
    BY <1>6, <1>7, <1>8, Zenon

(* The agent stops and starts again. *)
LEMMA RestartKeeps ==
    ASSUME SubnetInv, AgentRestart
    PROVE  SubnetInv'
  <1>t. TypeOK /\ ServerTypeOK /\ FileHoldsTable /\ JobInv /\ NetInv /\ ReadInv /\ calls \in Seq(CallRecords)
    BY TypeFacts, CallsType, Zenon DEF SubnetInv
  <1>1. Abandon /\ QuietStep /\ UNCHANGED <<file, cfg, want, read, proc, redo>>
    BY Zenon DEF AgentRestart, Abandon, QuietStep
  <1>2. ServerTypeOK' /\ FileHoldsTable'
    BY <1>t, <1>1, ServerKept, Zenon
  <1>3. \A c \in Clients : /\ st'[c] = IF st[c] \in {"creating", "deleting"} THEN "error" ELSE st[c]
                           /\ job'[c] = Idle /\ answer'[c] = "idle"
    BY Zenon DEF AgentRestart
  <1>4. TypeOK'
    <2>1. Idle \in [pc : Places, nic : Nat]
      BY Zenon DEF Idle, Places
    <2>2. /\ st' \in [Clients -> {"absent", "creating", "running", "deleting", "error"}]
          /\ job' \in [Clients -> [pc : Places, nic : Nat]]
      BY <1>t, <2>1, TypeFacts, Zenon DEF AgentRestart
    <2>3. WatchTypeOK'
      BY Zenon DEF AgentRestart, WatchTypeOK, Quiet, Empty, T!Empty
    <2>4. calm' \subseteq VMs /\ steady' \subseteq VMs
      BY <1>t, Zenon DEF AgentRestart, TypeOK
    <2> QED
      BY <1>t, <1>1, <1>2, <2>2, <2>3, <2>4, Zenon DEF TypeOK, WatchTypeOK
  <1>5. JobInv'
    BY <1>3, <1>t, TypeFacts, ClientFacts, SMTT(30) DEF JobInv, Idle, NetPlaces, VMPlaces
  <1>6. ASSUME NEW c \in Clients
        PROVE  CallInv(c)'
    <2>1. NoneFrom(calls', c)
      BY <1>t, <1>1, ReleasedKeeps, Zenon DEF Abandon
    <2> QED
      BY <1>3, <2>1, Zenon DEF CallInv
  <1>7. ASSUME NEW v \in VMs, Settled(v)'
        PROVE  st[v] = "running"
    <2>1. v \in Clients
      BY ClientFacts, Zenon
    <2>2. job'[v] = Idle /\ st'[v] = IF st[v] \in {"creating", "deleting"} THEN "error" ELSE st[v]
      BY <1>3, <2>1, Zenon
    <2>3. job'[v].pc = "idle"
      BY <2>2 DEF Idle
    <2> QED
      BY <1>7, <2>2, <2>3, Zenon DEF Settled
  <1>8. NetInv'
    <2>1. Held' => Held
      BY <1>3, <1>7, ClientFacts, Zenon DEF Held, Settled, Idle
    <2>2. Held => InForce'
      BY <1>t, <1>1, HeldKept, Zenon DEF NetInv, Beside, InForce
    <2>3. ASSUME NEW v \in VMs, Settled(v)'
          PROVE  st'[Net] \in {"running", "deleting", "error"} /\ job'[Net].pc = "idle"
      BY <1>3, <1>7, <2>3, SettledHolds, ClientFacts, SMTT(30) DEF Settled, Idle
    <2> QED
      BY <2>1, <2>2, <2>3, Zenon DEF NetInv
  <1>9. ASSUME NEW v \in VMs, NEW n \in 1..Len(Nics[v])
        PROVE  HostInv(v, n)'
    <2>1. HostInv(v, n) /\ Beside(<<Nics[v][n]>>) /\ v \in Clients /\ job[v].pc \in VMPlaces(st[v])
      BY <1>t, <1>1, ClientFacts, Zenon DEF SubnetInv, Beside, JobInv
    <2>2. Serves(v, n)' => Serves(v, n) /\ st[v] = "running"
      BY <1>7, <2>1, Zenon DEF Serves, Settled, Done, VMPlaces
    <2>3. Clears(v, n)' => Clears(v, n)
      BY <1>3, <2>1, SMTT(30) DEF Clears, Done, VMPlaces, Idle
    <2>4. Serves(v, n)' => /\ Serves(v, n) /\ want'[v] = want[v]
                           /\ file # Missing /\ file' # Missing
      BY <1>1, <2>2, SettledHolds, Zenon DEF Settled, InForce
    <2> QED
      BY <1>t, <2>1, <2>3, <2>4, HostKept, Zenon
  <1>10. ReadInv' /\ WatchInv'
    <2>1. steady' = {v \in steady : st[v] = "running"} /\ watch' = Quiet
      BY Zenon DEF AgentRestart
    <2>2. steady' \subseteq VMs
      BY <1>4, Zenon DEF TypeOK
    <2> QED
      BY <1>t, <1>1, <1>3, <2>1, <2>2, ClientFacts, Zenon DEF ReadInv, WatchInv, Quiet
  <1> QED
    BY <1>2, <1>4, <1>5, <1>6, <1>8, <1>9, <1>10, Zenon DEF SubnetInv

-----------------------------------------------------------------------------
LEMMA InitKeeps == Init => SubnetInv
  <1> SUFFICES ASSUME Init
               PROVE  SubnetInv
    BY Zenon
  <1>1. ServerTypeOK /\ FileHoldsTable
    <2>1. calls \in Seq([req : T!Requests, from : Clients \cup {None}])
      BY DEF Init, ServerInit
    <2>2. answer \in [Clients -> {"idle", "waiting", "ok", "failed"}]
      BY Zenon DEF Init, ServerInit
    <2>3. ServerTypeOK
      BY <2>1, <2>2, EmptyType, Zenon DEF Init, ServerInit, ServerTypeOK
    <2> QED
      BY <2>3, Zenon DEF Init, ServerInit, FileHoldsTable
  <1>2. /\ \A c \in Clients : st[c] = "absent" /\ job[c] = Idle /\ answer[c] = "idle"
        /\ calls = <<>> /\ read = None /\ watch = Quiet /\ calm = {} /\ steady = {}
    BY Zenon DEF Init, ServerInit
  <1>3. TypeOK
    <2>1. st \in [Clients -> {"absent", "creating", "running", "deleting", "error"}]
      BY Zenon DEF Init
    <2>2. job \in [Clients -> [pc : Places, nic : Nat]]
      BY Zenon DEF Init, Idle, Places
    <2>3. WatchTypeOK
      BY <1>2, Zenon DEF WatchTypeOK, Quiet, Empty, T!Empty
    <2> QED
      BY <1>1, <2>1, <2>2, <2>3, Zenon DEF Init, TypeOK, WatchTypeOK
  <1>4. JobInv
    BY <1>2, ClientFacts, SMTT(30) DEF JobInv, NetPlaces, VMPlaces, Idle
  <1>5. NetInv
    BY <1>2, ClientFacts, SMTT(30) DEF NetInv, Held, Settled, Idle
  <1>6. \A c \in Clients : CallInv(c)
    BY <1>2, EmptyQueue, Zenon DEF CallInv
  <1>7. \A v \in VMs : \A n \in 1..Len(Nics[v]) : HostInv(v, n)
    <2>1. CurrentTable = Empty /\ \A s : Silent(calls, s)
      BY <1>2, EmptyQueue, Zenon DEF Init, ServerInit, CurrentTable, Empty, T!Empty
    <2>2. \A m \in Macs : Empty.hosts[m] = None
      BY Zenon DEF Empty, T!Empty
    <2>3. \A v \in VMs : ~Settled(v)
      BY <1>2, ClientFacts, SMTT(30) DEF Settled, Idle
    <2> QED
      BY <2>1, <2>2, <2>3, NicFacts, Zenon DEF HostInv, Serves
  <1>8. ReadInv /\ WatchInv
    BY <1>2, Zenon DEF ReadInv, WatchInv, Quiet
  <1> QED
    BY <1>1, <1>3, <1>4, <1>5, <1>6, <1>7, <1>8 DEF SubnetInv

LEMMA StutterKeeps ==
    ASSUME SubnetInv, UNCHANGED vars
    PROVE  SubnetInv'
  <1>t. TypeOK /\ ReadInv /\ WatchInv
    BY Zenon DEF SubnetInv
  <1>1. /\ UNCHANGED serverVars /\ UNCHANGED <<st, cfg, want, job>> /\ redo' = redo
        /\ watch' = watch /\ calm' = calm /\ steady' = steady
    BY Zenon DEF vars, agentVars
  <1>2. QuietStep /\ ReadStays /\ file' = file
    BY <1>1, QuietMoves, Zenon
  <1>3. ReadInv' /\ WatchInv'
    BY <1>t, <1>1, <1>2, ReadKept, WatchKept, Zenon
  <1>4. redo' \in BOOLEAN /\ WatchTypeOK' /\ calm' \subseteq VMs /\ steady' \subseteq VMs
    BY <1>t, <1>1, Zenon DEF TypeOK, WatchTypeOK
  <1> QED
    BY <1>1, <1>2, <1>3, <1>4, ServerSide, Zenon

(* Every step of the agent, of the server and of the watchdog keeps the    *)
(* invariant.                                                              *)
LEMMA NextKeeps ==
    ASSUME SubnetInv, [Next]_vars
    PROVE  SubnetInv'
  <1>1. ASSUME NEW c \in Clients,
               Create(c) \/ Delete(c) \/ HostFails(c) \/ MarkError(c) \/ CallFails(c)
        PROVE  SubnetInv'
    <2>1. CASE CallFails(c)
      BY <2>1, ServerMoves, Zenon
    <2>2. CASE c = Net
      <3>1. HostFails(c) => job[Net].pc = "links" /\ Step(Net, "fail")
        <4>1. job[Net].pc # "started"
          BY Zenon DEF SubnetInv, JobInv, NetPlaces
        <4> QED
          BY <2>2, <4>1, Zenon DEF HostFails
      <3> QED
        BY <1>1, <2>1, <2>2, <3>1, NetTurns, NetSteps, Zenon
    <2>3. CASE c # Net
      <3>1. c \in VMs
        BY <2>3, ClientFacts, Zenon
      <3> QED
        BY <1>1, <2>1, <3>1, VMRequests, VMFails, Zenon DEF HostFails
    <2> QED
      BY <2>2, <2>3, Zenon
  <1>2. CASE SubnetStep
    BY <1>2, NetSteps, NetTurns, NetPushes, Zenon DEF SubnetStep, Pushed, waitVMsDeleted
  <1>3. ASSUME NEW v \in VMs, VMStep(v)
        PROVE  SubnetInv'
    <2>1. {"setting", "set", "started", "deling", "del", "links"} \subseteq Places
      BY Zenon DEF Places
    <2>2. CASE NextNic(v, "setting", "set", "started")
      BY <2>1, <2>2, VMNextNic, Zenon
    <2>3. CASE NextNic(v, "deling", "del", "links")
      BY <2>1, <2>3, VMNextNic, Zenon
    <2> QED
      BY <1>3, <2>2, <2>3, VMWaited, VMCalls, VMEnds, Zenon DEF VMStep
  <1>4. CASE AgentRestart
    BY <1>4, RestartKeeps, Zenon
  <1>5. CASE DeployStop \/ DeployStart \/ Serve
    BY <1>5, ServerMoves, Zenon
  <1>6. CASE WatchServer \/ Report \/ \E v \in VMs : expectedHosts(v)
    BY <1>6, WatchMoves, Zenon
  <1>7. CASE UNCHANGED vars
    BY <1>7, StutterKeeps, Zenon
  <1> QED
    BY <1>1, <1>2, <1>3, <1>4, <1>5, <1>6, <1>7, Zenon DEF Next

(* For any VMs, interfaces, clients and calls: a call that is waited for   *)
(* has the last word on its subject, and what a command has had            *)
(* acknowledged is in the table for good.                                  *)
THEOREM CallsHaveTheLastWord == Spec => []SubnetInv
  BY InitKeeps, NextKeeps, PTL, Zenon DEF Spec

(* The database, the commands and the watchdog hold values of their kinds. *)
THEOREM SubnetTypeCorrect == Spec => []TypeOK
  <1>1. SubnetInv => TypeOK
    BY Zenon DEF SubnetInv
  <1> QED
    BY <1>1, CallsHaveTheLastWord, PTL, Zenon

(* Whatever the database calls running is served, and stays so through     *)
(* failed saves, late calls and restarts of the server and of the agent.   *)
THEOREM RunningServed == Spec => []RunningIsServed
  <1>1. SubnetInv => RunningIsServed
    <2> SUFFICES ASSUME SubnetInv
                 PROVE  RunningIsServed
      BY Zenon
    <2>1. st[Net] = "running" => CurrentTable.subnet = cfg
      BY Zenon DEF SubnetInv, NetInv, Held, InForce
    <2> QED
      BY <2>1, AtRest, Zenon DEF RunningIsServed
  <1> QED
    BY <1>1, CallsHaveTheLastWord, PTL, Zenon

(* A VM that is gone has no reservation, and no order under way that would *)
(* bring one back.                                                         *)
THEOREM GoneForgotten == Spec => []GoneIsNotServed
  <1>1. SubnetInv => GoneIsNotServed
    <2> SUFFICES ASSUME SubnetInv, NEW v \in VMs, st[v] = "absent", NEW m \in Owned(v)
                 PROVE  /\ CurrentTable.hosts[m] = None
                        /\ \A i \in 1..Len(calls) : calls[i].req.op = "set-host" => calls[i].req.mac # m
      BY Zenon DEF GoneIsNotServed
    <2>1. CurrentTable.hosts[m] = None /\ Silent(calls, <<m>>)
      BY AtRest, Zenon
    <2> QED
      BY <2>1, Zenon DEF Silent, Subject
  <1> QED
    BY <1>1, CallsHaveTheLastWord, PTL, Zenon

(* A reply to a VM that has been running since its request came in says    *)
(* what the database says, though it is read in two parts.                 *)
THEOREM RepliesMatch == Spec => []ReplyMatchesDatabase
  <1>1. SubnetInv => ReplyMatchesDatabase
    <2> SUFFICES ASSUME SubnetInv, read # None, old = None, NEW v \in steady, read.mac \in Owned(v)
                 PROVE  read.subnet = cfg /\ mem.hosts[read.mac] = want[v]
      BY Zenon DEF ReplyMatchesDatabase
    <2>1. v \in VMs /\ st[v] = "running" /\ proc = "up" /\ read.subnet = cfg
      BY Zenon DEF SubnetInv, ReadInv, TypeOK
    <2>2. CurrentTable = mem
      BY <2>1, Zenon DEF CurrentTable
    <2> QED
      BY <2>1, <2>2, AtRest, Zenon
  <1> QED
    BY <1>1, CallsHaveTheLastWord, PTL, Zenon

(* The watchdog, which reads the server and then the VMs one by one,       *)
(* raises no alarm about a VM that no request has touched meanwhile.       *)
THEOREM AlarmsCaused == Spec => []AlarmsAreCaused
  <1>1. SubnetInv => AlarmsAreCaused
    <2> SUFFICES ASSUME SubnetInv, watch.pc = "vms", watch.todo = {}, NEW v \in calm,
                        NEW m \in reservationGaps(watch), m \in Owned(v)
                 PROVE  FALSE
      BY Zenon DEF AlarmsAreCaused
    <2>1. /\ v \in VMs /\ m \in Macs /\ want[v] \in Hosts /\ want[v] # None
          /\ st[v] \in {"absent", "creating", "running", "deleting", "error"}
          /\ watch.expected \subseteq Macs \X Hosts
      <3>1. TypeOK /\ v \in VMs
        BY Zenon DEF SubnetInv, TypeOK
      <3>2. m \in Macs
        BY <3>1, AtRest, Zenon
      <3>3. want[v] \in Hosts /\ want[v] # None
        BY <3>1, TypeFacts, Marks
      <3>4. st[v] \in {"absent", "creating", "running", "deleting", "error"}
        BY <3>1, TypeFacts, ClientFacts, Zenon
      <3>5. watch.expected \subseteq Macs \X Hosts
        BY <3>1, Zenon DEF TypeOK
      <3> QED
        BY <3>1, <3>2, <3>3, <3>4, <3>5, Zenon
    <2>2. /\ st[v] = "running" => watch.served[m] = want[v] /\ <<m, want[v]>> \in watch.expected
          /\ st[v] = "absent" => watch.served[m] = None
          /\ st[v] \in {"creating", "deleting", "error"} => v \in watch.transient
          /\ \A e \in watch.expected : e[1] = m => st[v] = "running" /\ e[2] = want[v]
      BY DEF SubnetInv, WatchInv
    <2>3. PICK e \in (watch.expected \ withoutTransient(watch)) \cup (withoutTransient(watch) \ watch.expected) :
             e[1] = m
      BY Zenon DEF reservationGaps
    <2>4. CASE e \in watch.expected /\ e \notin withoutTransient(watch)
      <3>1. st[v] = "running" /\ e[2] = want[v] /\ watch.served[m] = want[v]
        BY <2>2, <2>3, <2>4, Zenon
      <3>2. e = <<m, watch.served[m]>>
        BY <2>1, <2>3, <2>4, <3>1
      <3>3. m \in Wanted(watch)
        BY <2>3, <2>4, Zenon DEF Wanted
      <3> QED
        BY <2>1, <2>4, <3>1, <3>2, <3>3, Zenon DEF withoutTransient
    <2>5. CASE e \in withoutTransient(watch) /\ e \notin watch.expected
      <3>1. PICK x \in Macs : /\ e = <<x, watch.served[x]>> /\ watch.served[x] # None
                              /\ x \in Wanted(watch) \/ \A u \in watch.transient : x \notin Owned(u)
        BY <2>5, Zenon DEF withoutTransient
      <3>2. x = m /\ e = <<m, watch.served[m]>>
        BY <2>3, <3>1, Zenon
      <3>3. m \in Wanted(watch) => st[v] = "running"
        BY <2>2, Zenon DEF Wanted
      <3> QED
        BY <2>1, <2>2, <2>5, <3>1, <3>2, <3>3, Zenon
    <2> QED
      BY <2>3, <2>4, <2>5, Zenon
  <1> QED
    BY <1>1, CallsHaveTheLastWord, PTL, Zenon

(* Under the agent the server is only used as it may be. *)
LEMMA NextServer ==
    ASSUME SubnetInv, [Next]_vars
    PROVE  QuietStep \/ \E c \in Clients : CallOf(c)
  <1>t. TypeOK /\ JobInv
    BY Zenon DEF SubnetInv
  <1>1. ASSUME NEW v \in VMs, SetVM(v) \/ DelVM(v)
        PROVE  CallOf(v)
    <2>1. v # Net /\ job[v].nic \in 1..Len(Nics[v]) /\ Mac(v) \in Macs /\ want[v] \in Hosts
      BY <1>t, <1>1, ClientFacts, NicFacts, TypeFacts, Zenon DEF SetVM, DelVM, JobInv, Mac
    <2> DEFINE h == [op |-> "set-host", mac |-> Mac(v), host |-> want[v]]
               g == [op |-> "del-host", mac |-> Mac(v)]
    <2>2. /\ h \in T!Requests /\ Subject(h) = <<Mac(v)>>
          /\ g \in T!Requests /\ Subject(g) = <<Mac(v)>>
      BY <2>1, Zenon DEF T!Requests, Subject
    <2>3. Call(v, h) \/ Call(v, g)
      BY <1>1, Zenon DEF SetVM, DelVM
    <2> HIDE DEF h, g
    <2> QED
      BY <2>1, <2>2, <2>3, Zenon DEF CallOf
  <1>2. ASSUME pushSubnet
        PROVE  CallOf(Net)
    <2> DEFINE r == [op |-> "set-subnet", subnet |-> cfg]
    <2>1. r \in T!Requests /\ Subject(r) = <<>>
      BY <1>t, Zenon DEF T!Requests, Subject, TypeOK
    <2>2. Call(Net, r)
      BY <1>2, Zenon DEF pushSubnet
    <2> HIDE DEF r
    <2> QED
      BY <2>1, <2>2, Zenon DEF CallOf
  <1>3. ASSUME NEW c \in Clients,
               Create(c) \/ Delete(c) \/ HostFails(c) \/ MarkError(c) \/ CallFails(c)
        PROVE  QuietStep
    <2>1. UNCHANGED serverVars \/ GiveUp(c)
      BY <1>3, Zenon DEF Create, Delete, HostFails, Step, MarkError, Fail, CallFails
    <2> QED
      BY <2>1, Zenon DEF QuietStep
  <1>4. ASSUME NEW v \in VMs, VMStep(v)
        PROVE  QuietStep \/ CallOf(v)
    <2>1. CASE waitSubnet(v) \/ StartEnd(v) \/ DeleteEnd(v, "links")
      <3>1. UNCHANGED serverVars
        BY <2>1, Zenon DEF waitSubnet, Step, StartEnd, DeleteEnd
      <3> QED
        BY <3>1, Zenon DEF QuietStep
    <2>2. CASE NextNic(v, "setting", "set", "started") \/ NextNic(v, "deling", "del", "links")
      <3>1. Resume(v, "ok") \/ Resume(v, "failed")
        BY <2>2, Zenon DEF NextNic
      <3> QED
        BY <3>1, ClientFacts, Zenon DEF QuietStep
    <2> QED
      BY <1>1, <1>4, <2>1, <2>2, Zenon DEF VMStep
  <1>5. ASSUME SubnetStep
        PROVE  QuietStep \/ pushSubnet
    <2>1. \/ UNCHANGED serverVars \/ Launch \/ Down \/ RemoveState \/ RemoveSocket
          \/ Resume(Net, "ok") \/ Resume(Net, "failed") \/ pushSubnet
      BY <1>5, Zenon DEF SubnetStep, ConfigureUnfile, ConfigureStart, waitReady, Pushed, waitVMsDeleted,
                  TeardownStatus, TeardownStop, TeardownState, TeardownSocket, DeleteEnd, Step
    <2> QED
      BY <2>1, ClientFacts, Zenon DEF QuietStep
  <1>6. ASSUME AgentRestart \/ DeployStop \/ DeployStart \/ Serve
        PROVE  QuietStep
    BY <1>6, Zenon DEF AgentRestart, DeployStop, DeployStart, Serve, Exit, Abandon, QuietStep
  <1>7. ASSUME WatchServer \/ Report \/ (\E v \in VMs : expectedHosts(v)) \/ UNCHANGED vars
        PROVE  QuietStep
    <2>1. UNCHANGED serverVars
      BY <1>7, Zenon DEF WatchServer, Report, expectedHosts, WatchTo, vars
    <2> QED
      BY <2>1, Zenon DEF QuietStep
  <1> QED
    BY <1>2, <1>3, <1>4, <1>5, <1>6, <1>7, ClientFacts, Zenon DEF Next

(* The server keeps the promise of LeaseTable under the agent, the         *)
(* deployments and the watchdog as it does under any clients.              *)
THEOREM TableKeptForSubnet == Spec => ImplementsTable
  <1>1. Init => T!Init
    BY Zenon DEF Init, ServerInit, T!Init, CurrentTable, T!Empty
  <1>2. SubnetInv /\ [Next]_vars => [T!Next]_<<CurrentTable, file = Missing>>
    <2> SUFFICES ASSUME SubnetInv, [Next]_vars
                 PROVE  [T!Next]_<<CurrentTable, file = Missing>>
      BY Zenon
    <2>1. ServerTypeOK /\ FileHoldsTable
      BY TypeFacts, Zenon DEF SubnetInv
    <2> QED
      BY <2>1, NextServer, ServerKept, Zenon
  <1> QED
    BY <1>1, <1>2, CallsHaveTheLastWord, PTL, Zenon DEF Spec, ImplementsTable, T!Spec
=============================================================================

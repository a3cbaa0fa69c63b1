-------------------------- MODULE NodeSessionProofs --------------------------
(***************************************************************************)
(* What the session of a node and the requests over it never do, for every *)
(* set of connections and of requests.                                     *)
(***************************************************************************)
EXTENDS NodeSession, Failover, TLAPS

\* Requests that have not been written to a connection, and those that have.
Unsent == {"idle", "loaded", "registered", "offline"}
Sent   == {"waiting", "ok", "timeout"}

\* A session was stored by its handler, and a connection that was never dialled has none.
Stored == /\ session # NoConn => handler[session] \in {"stored", "done"}
          /\ \A c \in Conns : link[c] = "unused" => handler[c] = "none"

\* While no goroutine was overtaken by another: an installed session is online, and a row
\* that is online without a session has a reader that will see to it.
Row == ~ raced =>
    /\ session # NoConn /\ handler[session] = "done" => status = 1
    /\ session = NoConn /\ status = 1 => \E c \in Conns : reader[c] = "removed"

\* A command waits on one connection at most, at one place, and was not executed yet.
Queued == \A c \in Conns : \A i \in 1..Len(toNode[c]) :
    /\ caller[toNode[c][i]] \in Sent
    /\ executed[toNode[c][i]] = 0
    /\ \A d \in Conns : \A k \in 1..Len(toNode[d]) :
          toNode[c][i] = toNode[d][k] => c = d /\ i = k

\* A response, and what was made of it, is of a request that was sent and executed.
Responded ==
    /\ \A c \in Conns : \A i \in 1..Len(toPanel[c]) : executed[toPanel[c][i]] = 1
    /\ \A r \in Requests :
          /\ working[r] # NoConn => executed[r] = 1
          /\ r \in result => executed[r] = 1 /\ r \notin pending
          /\ caller[r] = "ok" => r \in result
          /\ executed[r] \in {0, 1}
          /\ executed[r] = 1 => caller[r] \in Sent

\* A request that holds a session has loaded one; who is registered is known.
Held == \A r \in Requests :
    /\ caller[r] \in {"loaded", "registered"} => via[r] # NoConn
    /\ r \in pending => caller[r] \in {"registered", "waiting"}

IInv == TypeOK /\ Stored /\ Row /\ Queued /\ Responded /\ Held

-----------------------------------------------------------------------------
LEMMA Initially == Init => IInv
<1> SUFFICES ASSUME Init PROVE IInv
  OBVIOUS
<1> USE SessionAssumption DEF Init
<1>1. TypeOK
  <2>1. toNode \in [Conns -> Seq(Requests)] /\ toPanel \in [Conns -> Seq(Requests)]
    <3>1. <<>> \in Seq(Requests)
      OBVIOUS
    <3>2. QED
      BY <3>1
  <2>2. executed \in [Requests -> Nat] /\ status \in {0, 1}
    OBVIOUS
  <2>3. raced \in BOOLEAN /\ pending \in SUBSET Requests /\ result \in SUBSET Requests
    BY Zenon
  <2>4. QED
    BY <2>1, <2>2, <2>3 DEF TypeOK, LinkStates, HandlerStates, ReaderStates, CallerStates
<1>2. Stored /\ Row
  BY DEF Stored, Row
<1>3. Queued /\ Responded /\ Held
  BY DEF Queued, Responded, Held, Sent
<1>4. QED
  BY <1>1, <1>2, <1>3 DEF IInv

LEMMA QueueTypes ==
    ASSUME TypeOK
    PROVE  \A c \in Conns :
              /\ toNode[c] \in Seq(Requests) /\ toPanel[c] \in Seq(Requests)
              /\ Len(toNode[c]) \in Nat /\ Len(toPanel[c]) \in Nat
              /\ \A i \in 1..Len(toNode[c]) : toNode[c][i] \in Requests
              /\ \A i \in 1..Len(toPanel[c]) : toPanel[c][i] \in Requests
BY DEF TypeOK

LEMMA QueuedFrame ==
    ASSUME TypeOK, Queued, toNode' = toNode, executed' = executed,
           \A q \in Requests : caller[q] \in Sent => caller'[q] \in Sent
    PROVE  Queued'
BY QueueTypes DEF Queued

\* Connections leave requests alone, but for the commands a connection loses with it.
LEMMA ConnectionsKeepRequests ==
    ASSUME IInv, UNCHANGED <<caller, via, pending, result, toPanel, working, executed>>,
           toNode' = toNode \/ \E c \in Conns : toNode' = [toNode EXCEPT ![c] = <<>>]
    PROVE  Queued' /\ Responded' /\ Held'
<1>1. Responded' /\ Held'
  BY DEF IInv, Responded, Held
<1>2. CASE toNode' = toNode
  BY <1>1, <1>2 DEF IInv, Queued
<1>3. CASE \E c \in Conns : toNode' = [toNode EXCEPT ![c] = <<>>]
  <2>1. PICK e \in Conns : toNode' = [toNode EXCEPT ![e] = <<>>]
    BY <1>3
  <2>2. \A c \in Conns : /\ c = e => Len(toNode'[c]) = 0
                         /\ c # e => toNode'[c] = toNode[c]
    BY <2>1 DEF IInv, TypeOK
  <2>3. Queued'
    BY <2>2 DEF IInv, Queued
  <2>4. QED
    BY <1>1, <2>3
<1>4. QED
  BY <1>2, <1>3

\* Requests leave sessions alone.
LEMMA RequestsKeepConnections ==
    ASSUME IInv, UNCHANGED connvars
    PROVE  Stored' /\ Row'
BY DEF IInv, connvars, Stored, Row

-----------------------------------------------------------------------------
(* Connections: types, Stored and Row.                                      *)

LEMMA ConnectionTypes ==
    ASSUME TypeOK, NEW c \in Conns,
           \/ Dial(c) \/ Break(c) \/ NodeSeesBreak(c) \/ Installing(c) \/ Removing(c)
    PROVE  TypeOK'
<1> USE DEF TypeOK, reqvars
<1>1. CASE Dial(c)
  BY <1>1 DEF Dial, LinkStates, HandlerStates
<1>2. CASE Break(c)
  BY <1>2 DEF Break, LinkStates
<1>3. CASE NodeSeesBreak(c)
  <2>1. <<>> \in Seq(Requests)
    OBVIOUS
  <2>2. QED
    BY <1>3, <2>1 DEF NodeSeesBreak
<1>4. CASE CloseExisting(c)
  BY <1>4 DEF CloseExisting, LinkStates, HandlerStates
<1>5. CASE StoreSession(c)
  BY <1>5 DEF StoreSession, HandlerStates
<1>6. CASE NodeOnline(c)
  <2>1. raced' \in BOOLEAN
    BY <1>6, Zenon DEF NodeOnline
  <2>2. QED
    BY <1>6, <2>1 DEF NodeOnline, HandlerStates, ReaderStates
<1>7. CASE ReadFails(c)
  BY <1>7 DEF ReadFails, ReaderStates
<1>8. CASE CheckCurrent(c)
  BY <1>8 DEF CheckCurrent, ReaderStates
<1>9. CASE RemoveSession(c)
  <2>1. raced' \in BOOLEAN
    BY <1>9, Zenon DEF RemoveSession
  <2>2. QED
    BY <1>9, <2>1 DEF RemoveSession, ReaderStates
<1>10. CASE NodeOffline(c)
  <2>1. raced' \in BOOLEAN
    BY <1>10, Zenon DEF NodeOffline
  <2>2. QED
    BY <1>10, <2>1 DEF NodeOffline, ReaderStates
<1>11. QED
  BY <1>1, <1>2, <1>3, <1>4, <1>5, <1>6, <1>7, <1>8, <1>9, <1>10 DEF Installing, Removing

\* The reader of c is the only one whose progress changes.
LEMMA OthersRemoved ==
    ASSUME TypeOK, NEW c \in Conns, NEW s, reader' = [reader EXCEPT ![c] = s],
           reader[c] # "removed", \E d \in Conns : reader[d] = "removed"
    PROVE  \E d \in Conns : reader'[d] = "removed"
BY DEF TypeOK

LEMMA ConnectionsKeepRow ==
    ASSUME IInv, NEW c \in Conns,
           \/ Dial(c) \/ Break(c) \/ NodeSeesBreak(c) \/ Installing(c) \/ Removing(c)
    PROVE  Stored' /\ Row'
<1> USE SessionAssumption DEF IInv, TypeOK, Stored, Row
<1>1. CASE Dial(c)
  BY <1>1 DEF Dial
<1>2. CASE Break(c)
  BY <1>2 DEF Break
<1>3. CASE NodeSeesBreak(c)
  BY <1>3 DEF NodeSeesBreak
<1>4. CASE CloseExisting(c)
  BY <1>4 DEF CloseExisting
<1>5. CASE StoreSession(c)
  BY <1>5 DEF StoreSession
<1>6. CASE NodeOnline(c)
  BY <1>6 DEF NodeOnline
<1>7. CASE ReadFails(c)
  BY <1>7 DEF ReadFails
<1>8. CASE CheckCurrent(c)
  BY <1>8 DEF CheckCurrent
<1>9. CASE RemoveSession(c)
  BY <1>9 DEF RemoveSession
<1>10. CASE NodeOffline(c)
  <2>1. Stored'
    BY <1>10 DEF NodeOffline
  <2>2. ~ raced' => session' = NoConn /\ status' = 0
    BY <1>10, Zenon DEF NodeOffline
  <2>3. QED
    BY <2>1, <2>2
<1>11. QED
  BY <1>1, <1>2, <1>3, <1>4, <1>5, <1>6, <1>7, <1>8, <1>9, <1>10 DEF Installing, Removing

LEMMA ConnectionsPreserve ==
    ASSUME IInv, NEW c \in Conns,
           \/ Dial(c) \/ Break(c) \/ NodeSeesBreak(c) \/ Installing(c) \/ Removing(c)
    PROVE  IInv'
<1>1. /\ UNCHANGED <<caller, via, pending, result, toPanel, working, executed>>
      /\ toNode' = toNode \/ \E d \in Conns : toNode' = [toNode EXCEPT ![d] = <<>>]
  BY DEF Dial, Break, NodeSeesBreak, Installing, CloseExisting, StoreSession, NodeOnline,
         Removing, ReadFails, CheckCurrent, RemoveSession, NodeOffline, reqvars
<1>2. QED
  BY <1>1, ConnectionTypes, ConnectionsKeepRow, ConnectionsKeepRequests DEF IInv

-----------------------------------------------------------------------------
(* Requests.                                                                *)

LEMMA RequestTypes ==
    ASSUME TypeOK,
           \/ \E r \in Requests : Calling(r) \/ NodeRespond(r)
           \/ \E c \in Conns : NodeExecute(c) \/ ReadResponse(c)
    PROVE  TypeOK'
<1> USE DEF TypeOK, connvars
<1>1. ASSUME NEW r \in Requests, LoadSession(r) PROVE TypeOK'
  BY <1>1 DEF LoadSession, Proceed, CallerStates
<1>2. ASSUME NEW r \in Requests, Register(r) PROVE TypeOK'
  BY <1>2 DEF Register, Proceed, CallerStates
<1>3. ASSUME NEW r \in Requests, Send(r) PROVE TypeOK'
  <2>1. \A c \in Conns : Append(toNode[c], r) \in Seq(Requests)
    OBVIOUS
  <2>2. toNode' \in [Conns -> Seq(Requests)]
    BY <1>3, <2>1 DEF Send
  <2>3. QED
    BY <1>3, <2>2 DEF Send, Proceed, CallerStates
<1>4. ASSUME NEW r \in Requests, Receive(r) PROVE TypeOK'
  BY <1>4 DEF Receive, Proceed, CallerStates
<1>5. ASSUME NEW r \in Requests, TimeOut(r) PROVE TypeOK'
  BY <1>5 DEF TimeOut, Proceed, CallerStates
<1>6. ASSUME NEW r \in Requests, NodeRespond(r) PROVE TypeOK'
  <2>1. \A c \in Conns : Append(toPanel[c], r) \in Seq(Requests)
    OBVIOUS
  <2>2. toPanel' \in [Conns -> Seq(Requests)]
    BY <1>6, <2>1 DEF NodeRespond
  <2>3. QED
    BY <1>6, <2>2 DEF NodeRespond
<1>7. ASSUME NEW c \in Conns, NodeExecute(c) PROVE TypeOK'
  <2>1. Head(toNode[c]) \in Requests /\ Tail(toNode[c]) \in Seq(Requests)
    BY <1>7 DEF NodeExecute
  <2>2. QED
    BY <1>7, <2>1 DEF NodeExecute
<1>8. ASSUME NEW c \in Conns, ReadResponse(c) PROVE TypeOK'
  <2>1. Head(toPanel[c]) \in Requests /\ Tail(toPanel[c]) \in Seq(Requests)
    BY <1>8 DEF ReadResponse
  <2>2. QED
    BY <1>8, <2>1 DEF ReadResponse
<1>9. QED
  BY <1>1, <1>2, <1>3, <1>4, <1>5, <1>6, <1>7, <1>8 DEF Calling

ReqInv == Queued /\ Responded /\ Held

LEMMA LoadSessionPreserves ==
    ASSUME IInv, NEW r \in Requests, LoadSession(r)
    PROVE  ReqInv'
<1> USE DEF IInv
<1>1. /\ caller[r] = "idle"
      /\ \/ session # NoConn /\ caller' = [caller EXCEPT ![r] = "loaded"]
         \/ session = NoConn /\ caller' = [caller EXCEPT ![r] = "offline"]
      /\ via' = [via EXCEPT ![r] = session]
      /\ UNCHANGED <<pending, result, toNode, toPanel, working, executed>>
  BY DEF LoadSession, Proceed
<1>2. \A q \in Requests : q # r => caller'[q] = caller[q] /\ via'[q] = via[q]
  BY <1>1 DEF TypeOK
<1>3. \/ caller'[r] = "loaded" /\ via'[r] # NoConn
      \/ caller'[r] = "offline"
  BY <1>1 DEF TypeOK
<1>4. executed[r] # 1 /\ r \notin pending
  BY <1>1 DEF Responded, Held, Sent
<1>5. \A q \in Requests : caller[q] \in Sent => caller'[q] \in Sent
  BY <1>1, <1>2 DEF Sent
<1>6. Queued'
  BY <1>1, <1>5, QueuedFrame
<1>7. Responded'
  <2>1. \A q \in Requests : caller'[q] = "ok" => q \in result
    BY <1>2, <1>3 DEF Responded
  <2>2. QED
    BY <1>1, <1>5, <2>1 DEF Responded
<1>8. Held'
  BY <1>1, <1>2, <1>3, <1>4 DEF Held
<1>9. QED
  BY <1>6, <1>7, <1>8 DEF ReqInv

LEMMA RegisterPreserves ==
    ASSUME IInv, NEW r \in Requests, Register(r)
    PROVE  ReqInv'
<1> USE DEF IInv, TypeOK, Register, Proceed
<1>1. Queued'
  BY QueuedFrame DEF Sent
<1>2. Responded' /\ Held'
  BY DEF Responded, Held, Sent
<1>3. QED
  BY <1>1, <1>2 DEF ReqInv

LEMMA ReceivePreserves ==
    ASSUME IInv, NEW r \in Requests, Receive(r)
    PROVE  ReqInv'
<1> USE DEF IInv, TypeOK, Receive, Proceed
<1>1. Queued'
  BY QueuedFrame DEF Sent
<1>2. Responded' /\ Held'
  BY DEF Responded, Held, Sent
<1>3. QED
  BY <1>1, <1>2 DEF ReqInv

LEMMA TimeOutPreserves ==
    ASSUME IInv, NEW r \in Requests, TimeOut(r)
    PROVE  ReqInv'
<1> USE DEF IInv, TypeOK, TimeOut, Proceed
<1>1. Queued'
  BY QueuedFrame DEF Sent
<1>2. Responded' /\ Held'
  BY DEF Responded, Held, Sent
<1>3. QED
  BY <1>1, <1>2 DEF ReqInv

\* A request that was not sent is in no queue and was not executed, so it may be added.
LEMMA SendPreserves ==
    ASSUME IInv, NEW r \in Requests, Send(r)
    PROVE  ReqInv'
<1> USE DEF IInv, TypeOK
<1>1. caller[r] = "registered" /\ caller' = [caller EXCEPT ![r] = "waiting"]
  BY DEF Send, Proceed
<1>2. executed[r] = 0
  BY <1>1 DEF Responded, Sent
<1>3. \A c \in Conns : \A i \in 1..Len(toNode[c]) : toNode[c][i] # r
  BY <1>1 DEF Queued, Sent
<1>4. \A q \in Requests : caller[q] \in Sent => caller'[q] \in Sent
  BY <1>1 DEF Sent
<1>5. executed' = executed
  BY DEF Send
<1>6. Responded' /\ Held'
  BY <1>1, <1>2 DEF Send, Responded, Held, Sent
<1>7. CASE toNode' = toNode
  <2>1. Queued'
    BY <1>4, <1>5, <1>7, QueuedFrame
  <2>2. QED
    BY <1>6, <2>1 DEF ReqInv
<1>8. CASE toNode' = [toNode EXCEPT ![via[r]] = Append(@, r)]
  <2> DEFINE v == via[r]
  <2>1. v \in Conns
    BY <1>1, SessionAssumption DEF Held
  <2>2. /\ Len(toNode'[v]) = Len(toNode[v]) + 1
        /\ toNode'[v][Len(toNode[v]) + 1] = r
        /\ \A i \in 1..Len(toNode[v]) : toNode'[v][i] = toNode[v][i]
    BY <1>8, <2>1
  <2>3. \A c \in Conns : c # v => toNode'[c] = toNode[c]
    BY <1>8, <2>1
  <2> HIDE DEF v
  <2>4. \A c \in Conns : \A i \in 1..Len(toNode'[c]) :
           \/ i \in 1..Len(toNode[c]) /\ toNode'[c][i] = toNode[c][i]
           \/ c = v /\ i = Len(toNode[v]) + 1 /\ toNode'[c][i] = r
    <3> SUFFICES ASSUME NEW c \in Conns, NEW i \in 1..Len(toNode'[c])
                 PROVE  \/ i \in 1..Len(toNode[c]) /\ toNode'[c][i] = toNode[c][i]
                        \/ c = v /\ i = Len(toNode[v]) + 1 /\ toNode'[c][i] = r
      OBVIOUS
    <3>1. CASE c = v
      <4>1. Len(toNode[v]) \in Nat /\ i \in 1..(Len(toNode[v]) + 1)
        BY <2>1, <2>2, <3>1, QueueTypes
      <4>2. i \in 1..Len(toNode[v]) \/ i = Len(toNode[v]) + 1
        BY <4>1
      <4>3. QED
        BY <2>2, <3>1, <4>2
    <3>2. CASE c # v
      BY <2>3, <3>2
    <3>3. QED
      BY <3>1, <3>2
  <2>5. Queued'
    <3> SUFFICES ASSUME NEW c \in Conns, NEW i \in 1..Len(toNode'[c])
                 PROVE  /\ caller'[toNode'[c][i]] \in Sent
                        /\ executed'[toNode'[c][i]] = 0
                        /\ \A d \in Conns : \A k \in 1..Len(toNode'[d]) :
                              toNode'[c][i] = toNode'[d][k] => c = d /\ i = k
      BY DEF Queued
    <3>1. caller'[r] \in Sent
      BY <1>1 DEF Sent
    <3>2. caller'[toNode'[c][i]] \in Sent /\ executed'[toNode'[c][i]] = 0
      <4>1. CASE toNode'[c][i] = r
        BY <1>2, <1>5, <3>1, <4>1
      <4>2. CASE i \in 1..Len(toNode[c]) /\ toNode'[c][i] = toNode[c][i]
        <5>1. toNode[c][i] \in Requests
          BY <4>2, QueueTypes
        <5>2. caller[toNode[c][i]] \in Sent /\ executed[toNode[c][i]] = 0
          BY <4>2 DEF Queued
        <5>3. QED
          BY <1>4, <1>5, <4>2, <5>1, <5>2
      <4>3. QED
        BY <2>4, <4>1, <4>2
    <3>3. ASSUME NEW d \in Conns, NEW k \in 1..Len(toNode'[d]), toNode'[c][i] = toNode'[d][k]
          PROVE  c = d /\ i = k
      <4>1. \/ i \in 1..Len(toNode[c]) /\ toNode'[c][i] = toNode[c][i]
            \/ c = v /\ i = Len(toNode[v]) + 1 /\ toNode'[c][i] = r
        BY <2>4
      <4>2. \/ k \in 1..Len(toNode[d]) /\ toNode'[d][k] = toNode[d][k]
            \/ d = v /\ k = Len(toNode[v]) + 1 /\ toNode'[d][k] = r
        BY <2>4
      <4>3. CASE toNode'[c][i] = r
        BY <1>3, <3>3, <4>1, <4>2, <4>3
      <4>4. CASE toNode'[c][i] # r
        <5>1. i \in 1..Len(toNode[c]) /\ toNode'[c][i] = toNode[c][i]
          BY <4>1, <4>4
        <5>2. k \in 1..Len(toNode[d]) /\ toNode'[d][k] = toNode[d][k]
          BY <3>3, <4>2, <4>4
        <5>3. toNode[c][i] = toNode[d][k]
          BY <3>3, <5>1, <5>2
        <5>4. QED
          BY <5>1, <5>2, <5>3 DEF Queued
      <4>5. QED
        BY <4>3, <4>4
    <3>4. QED
      BY <3>2, <3>3
  <2>6. QED
    BY <1>6, <2>5 DEF ReqInv
<1>9. QED
  BY <1>7, <1>8 DEF Send

\* What the queue of a connection loses at its head.
LEMMA HeadGone ==
    ASSUME NEW S, NEW q \in Seq(S), q # <<>>
    PROVE  /\ Head(q) = q[1] /\ 1 \in 1..Len(q)
           /\ Len(Tail(q)) = Len(q) - 1
           /\ \A i \in 1..Len(Tail(q)) : i + 1 \in 1..Len(q) /\ Tail(q)[i] = q[i + 1]
OBVIOUS

LEMMA NodeExecutePreserves ==
    ASSUME IInv, NEW c \in Conns, NodeExecute(c)
    PROVE  ReqInv'
<1> USE DEF IInv, TypeOK
<1> DEFINE h == Head(toNode[c])
<1>1. /\ h = toNode[c][1] /\ 1 \in 1..Len(toNode[c])
      /\ Len(toNode'[c]) = Len(toNode[c]) - 1
      /\ \A i \in 1..Len(toNode'[c]) :
            i + 1 \in 1..Len(toNode[c]) /\ toNode'[c][i] = toNode[c][i + 1]
  <2>1. toNode[c] \in Seq(Requests) /\ toNode[c] # <<>> /\ toNode'[c] = Tail(toNode[c])
    BY DEF NodeExecute
  <2>2. QED
    BY <2>1, HeadGone
<1>2. \A d \in Conns : d # c => toNode'[d] = toNode[d]
  BY DEF NodeExecute
<1>3. h \in Requests /\ executed[h] = 0 /\ caller[h] \in Sent
  BY <1>1 DEF Queued
<1>4. executed' = [executed EXCEPT ![h] = executed[h] + 1] /\ working' = [working EXCEPT ![h] = c]
  BY DEF NodeExecute
<1>5. UNCHANGED <<caller, via, pending, result, toPanel>>
  BY DEF NodeExecute
<1> HIDE DEF h
<1>6. ASSUME NEW d \in Conns, NEW i \in 1..Len(toNode'[d])
      PROVE  LET k == IF d = c THEN i + 1 ELSE i
             IN  k \in 1..Len(toNode[d]) /\ toNode'[d][i] = toNode[d][k]
  <2>1. CASE d = c
    BY <1>1, <2>1
  <2>2. CASE d # c
    BY <1>2, <2>2
  <2>3. QED
    BY <2>1, <2>2
<1>7. ASSUME NEW d \in Conns, NEW i \in 1..Len(toNode'[d])
      PROVE  toNode'[d][i] # h
  <2> DEFINE k == IF d = c THEN i + 1 ELSE i
  <2>1. k \in 1..Len(toNode[d]) /\ toNode'[d][i] = toNode[d][k]
    BY <1>6
  <2>2. d = c => k # 1
    <3>1. i \in Nat /\ i >= 1
      OBVIOUS
    <3>2. QED
      BY <3>1
  <2> HIDE DEF k
  <2>3. toNode[d][k] = toNode[c][1] => d = c /\ k = 1
    BY <1>1, <2>1 DEF Queued
  <2>4. QED
    BY <1>1, <2>1, <2>2, <2>3
<1>8. Queued'
  <2> SUFFICES ASSUME NEW d \in Conns, NEW i \in 1..Len(toNode'[d])
               PROVE  /\ caller'[toNode'[d][i]] \in Sent
                      /\ executed'[toNode'[d][i]] = 0
                      /\ \A e \in Conns : \A k \in 1..Len(toNode'[e]) :
                            toNode'[d][i] = toNode'[e][k] => d = e /\ i = k
    BY DEF Queued
  <2> DEFINE x == IF d = c THEN i + 1 ELSE i
  <2>0. x \in 1..Len(toNode[d]) /\ toNode'[d][i] = toNode[d][x]
    BY <1>6
  <2> HIDE DEF x
  <2>1. caller'[toNode'[d][i]] \in Sent /\ executed[toNode'[d][i]] = 0
    BY <1>5, <2>0 DEF Queued
  <2>2. toNode'[d][i] \in Requests
    BY <2>0, QueueTypes
  <2>3. executed'[toNode'[d][i]] = 0
    BY <1>3, <1>4, <1>7, <2>1, <2>2
  <2>4. ASSUME NEW e \in Conns, NEW k \in 1..Len(toNode'[e]), toNode'[d][i] = toNode'[e][k]
        PROVE  d = e /\ i = k
    <3> DEFINE y == IF e = c THEN k + 1 ELSE k
    <3>1. y \in 1..Len(toNode[e]) /\ toNode'[e][k] = toNode[e][y]
      BY <1>6
    <3> HIDE DEF y
    <3>2. toNode[d][x] = toNode[e][y]
      BY <2>4, <2>0, <3>1
    <3>3. d = e /\ x = y
      BY <2>0, <3>1, <3>2 DEF Queued
    <3>4. QED
      BY <3>3 DEF x, y
  <2>5. QED
    BY <2>1, <2>3, <2>4
<1>9. Responded'
  <2>1. \A r \in Requests : executed'[r] = IF r = h THEN 1 ELSE executed[r]
    BY <1>3, <1>4
  <2>2. \A d \in Conns : \A i \in 1..Len(toPanel[d]) : toPanel[d][i] \in Requests
    OBVIOUS
  <2>3. QED
    BY <1>3, <1>4, <1>5, <2>1, <2>2 DEF Responded
<1>10. Held'
  BY <1>5 DEF Held
<1>11. QED
  BY <1>8, <1>9, <1>10 DEF ReqInv

LEMMA NodeRespondPreserves ==
    ASSUME IInv, NEW r \in Requests, NodeRespond(r)
    PROVE  ReqInv'
<1> USE DEF IInv, TypeOK
<1>1. executed[r] = 1
  BY DEF NodeRespond, Responded
<1>2. UNCHANGED <<caller, via, pending, result, toNode, executed>>
      /\ working' = [working EXCEPT ![r] = NoConn]
  BY DEF NodeRespond
<1>3. \A c \in Conns : \A i \in 1..Len(toPanel'[c]) :
         toPanel'[c][i] = r \/ (i \in 1..Len(toPanel[c]) /\ toPanel'[c][i] = toPanel[c][i])
  <2>1. CASE toPanel' = toPanel
    BY <2>1
  <2>2. CASE node \in Conns /\ toPanel' = [toPanel EXCEPT ![node] = Append(@, r)]
    <3> SUFFICES ASSUME NEW c \in Conns, NEW i \in 1..Len(toPanel'[c]), c = node
                 PROVE  \/ toPanel'[c][i] = r
                        \/ i \in 1..Len(toPanel[c]) /\ toPanel'[c][i] = toPanel[c][i]
      BY <2>2
    <3>1. toPanel'[c] = Append(toPanel[c], r) /\ toPanel[c] \in Seq(Requests)
      BY <2>2
    <3>2. QED
      BY <3>1
  <2>3. QED
    BY <2>1, <2>2 DEF NodeRespond
<1>4. \A c \in Conns : \A i \in 1..Len(toPanel'[c]) : executed'[toPanel'[c][i]] = 1
  <2>1. SUFFICES ASSUME NEW c \in Conns, NEW i \in 1..Len(toPanel'[c])
                 PROVE  executed'[toPanel'[c][i]] = 1
    OBVIOUS
  <2>2. CASE toPanel'[c][i] = r
    BY <1>1, <1>2, <2>2
  <2>3. CASE i \in 1..Len(toPanel[c]) /\ toPanel'[c][i] = toPanel[c][i]
    <3>1. executed[toPanel[c][i]] = 1
      BY <2>3 DEF Responded
    <3>2. QED
      BY <1>2, <2>3, <3>1
  <2>4. QED
    BY <1>3, <2>2, <2>3
<1>5. Queued'
  BY <1>2, QueuedFrame
<1>6. Responded' /\ Held'
  BY <1>2, <1>4 DEF Responded, Held
<1>7. QED
  BY <1>5, <1>6 DEF ReqInv

LEMMA ReadResponsePreserves ==
    ASSUME IInv, NEW c \in Conns, ReadResponse(c)
    PROVE  ReqInv'
<1> USE DEF IInv, TypeOK
<1> DEFINE h == Head(toPanel[c])
<1>1. toPanel[c] \in Seq(Requests) /\ toPanel[c] # <<>> /\ toPanel'[c] = Tail(toPanel[c])
  BY DEF ReadResponse
<1>2. h = toPanel[c][1] /\ 1 \in 1..Len(toPanel[c])
  BY <1>1, HeadGone
<1>3. h \in Requests /\ executed[h] = 1
  BY <1>2 DEF Responded
<1>4. /\ result' = IF h \in pending THEN result \cup {h} ELSE result
      /\ pending' = pending \ {h}
      /\ UNCHANGED <<caller, via, toNode, working, executed>>
  BY DEF ReadResponse
<1> HIDE DEF h
<1>5. \A d \in Conns : \A i \in 1..Len(toPanel'[d]) : executed[toPanel'[d][i]] = 1
  <2>1. \A i \in 1..Len(toPanel'[c]) :
           i + 1 \in 1..Len(toPanel[c]) /\ toPanel'[c][i] = toPanel[c][i + 1]
    BY <1>1, HeadGone
  <2>2. \A d \in Conns : d # c => toPanel'[d] = toPanel[d]
    BY DEF ReadResponse
  <2>3. \A d \in Conns : \A i \in 1..Len(toPanel[d]) : executed[toPanel[d][i]] = 1
    BY DEF Responded
  <2>4. ASSUME NEW i \in 1..Len(toPanel'[c])
        PROVE  executed[toPanel'[c][i]] = 1
    <3>1. i + 1 \in 1..Len(toPanel[c]) /\ toPanel'[c][i] = toPanel[c][i + 1]
      BY <2>1
    <3>2. executed[toPanel[c][i + 1]] = 1
      BY <2>3, <3>1
    <3>3. QED
      BY <3>1, <3>2
  <2>5. SUFFICES ASSUME NEW d \in Conns, NEW i \in 1..Len(toPanel'[d])
                 PROVE  executed[toPanel'[d][i]] = 1
    OBVIOUS
  <2>6. CASE d = c
    BY <2>4, <2>6
  <2>7. CASE d # c
    <3>1. toPanel'[d] = toPanel[d]
      BY <2>2, <2>7
    <3>2. i \in 1..Len(toPanel[d])
      BY <3>1
    <3>3. QED
      BY <2>3, <3>1, <3>2
  <2>8. QED
    BY <2>6, <2>7
<1>6. Queued'
  BY <1>4, QueuedFrame
<1>7. Responded' /\ Held'
  BY <1>3, <1>4, <1>5 DEF Responded, Held
<1>8. QED
  BY <1>6, <1>7 DEF ReqInv

-----------------------------------------------------------------------------
LEMMA Preserved == IInv /\ [Next]_vars => IInv'
<1> SUFFICES ASSUME IInv, [Next]_vars PROVE IInv'
  OBVIOUS
<1>1. CASE \E c \in Conns :
             Dial(c) \/ Break(c) \/ NodeSeesBreak(c) \/ Installing(c) \/ Removing(c)
  BY <1>1, ConnectionsPreserve
<1>2. CASE \/ \E r \in Requests : Calling(r) \/ NodeRespond(r)
           \/ \E c \in Conns : NodeExecute(c) \/ ReadResponse(c)
  <2>1. UNCHANGED connvars
    BY <1>2 DEF Calling, LoadSession, Register, Send, Receive, TimeOut, NodeRespond,
                NodeExecute, ReadResponse
  <2>2. TypeOK' /\ Stored' /\ Row'
    BY <1>2, <2>1, RequestTypes, RequestsKeepConnections DEF IInv
  <2>3. ReqInv'
    BY <1>2, LoadSessionPreserves, RegisterPreserves, SendPreserves, ReceivePreserves,
       TimeOutPreserves, NodeRespondPreserves, NodeExecutePreserves, ReadResponsePreserves
       DEF Calling
  <2>4. QED
    BY <2>2, <2>3 DEF IInv, ReqInv
<1>3. CASE UNCHANGED vars
  BY <1>3 DEF vars, connvars, reqvars, IInv, TypeOK, Stored, Row, Queued, Responded, Held
<1>4. QED
  BY <1>1, <1>2, <1>3 DEF Next

LEMMA Invariant == Spec => []IInv
BY Initially, Preserved, PTL DEF Spec

\* The variables of sessions and requests keep their types (ws.go).
THEOREM Types == Spec => []TypeOK
<1>1. IInv => TypeOK
  BY DEF IInv
<1>2. QED
  BY Invariant, <1>1, PTL

\* When no goroutine is half-way and none overtook another, the node's row says online
\* exactly when there is a session (main.go:124-155).
THEOREM StatusRight == Spec => []StatusFollowsSession
<1>1. IInv => StatusFollowsSession
  BY SessionAssumption
     DEF IInv, TypeOK, Stored, Row, StatusFollowsSession, Settled
<1>2. QED
  BY Invariant, <1>1, PTL

\* No entry of pendingRequests is left behind by its caller (ws.go:308, 385).
THEOREM NoLeak == Spec => []PendingHasCaller
<1>1. IInv => PendingHasCaller
  BY DEF IInv, Held, TypeOK, PendingHasCaller
<1>2. QED
  BY Invariant, <1>1, PTL

-----------------------------------------------------------------------------
(* What the outcome of a request says in NodeRequest itself, whose outcome  *)
(* is a variable, and not computed from the progress of SendMsg.            *)

VARIABLE outcome

Promise == INSTANCE NodeRequest

PInv == Promise!TypeOK /\ Promise!Conclusive

LEMMA PromiseInitially == Promise!Init => PInv
BY DEF Promise!Init, PInv, Promise!TypeOK, Promise!Conclusive, Promise!Outcomes

LEMMA PromisePreserved == PInv /\ [Promise!Next]_(Promise!rvars) => PInv'
<1> SUFFICES ASSUME PInv, [Promise!Next]_(Promise!rvars) PROVE PInv'
  OBVIOUS
<1> USE DEF PInv, Promise!TypeOK, Promise!Conclusive, Promise!Outcomes
<1>1. ASSUME NEW r \in Requests, Promise!Refuse(r) PROVE PInv'
  BY <1>1 DEF Promise!Refuse
<1>2. ASSUME NEW r \in Requests, Promise!Issue(r) PROVE PInv'
  BY <1>2 DEF Promise!Issue
<1>3. ASSUME NEW r \in Requests, Promise!Execute(r) PROVE PInv'
  BY <1>3 DEF Promise!Execute
<1>4. ASSUME NEW r \in Requests, Promise!Answer(r) PROVE PInv'
  BY <1>4 DEF Promise!Answer
<1>5. ASSUME NEW r \in Requests, Promise!TimeOut(r) PROVE PInv'
  BY <1>5 DEF Promise!TimeOut
<1>6. CASE UNCHANGED Promise!rvars
  BY <1>6 DEF Promise!rvars
<1>7. QED
  BY <1>1, <1>2, <1>3, <1>4, <1>5, <1>6 DEF Promise!Next

\* A request is executed at most once (ws.go has no retry: SendMsg writes it
\* once, and the node reads each message once).
THEOREM AtMostOnce == Promise!Spec => []Promise!TypeOK
<1>1. PInv => Promise!TypeOK
  BY DEF PInv
<1>2. QED
  BY PromiseInitially, PromisePreserved, <1>1, PTL DEF Promise!Spec, Promise!Safe

\* An answer means that the node executed the request, "node offline" that it
\* never does (ws.go:359-362, 378-381).
THEOREM OutcomeIsConclusive == Promise!Spec => []Promise!Conclusive
<1>1. PInv => Promise!Conclusive
  BY DEF PInv
<1>2. QED
  BY PromiseInitially, PromisePreserved, <1>1, PTL DEF Promise!Spec, Promise!Safe

-----------------------------------------------------------------------------
(* The safety part of NodeRequest, which SendMsg implements.                *)

OutcomeOf(state) ==
    CASE state = "idle" -> "none"
      [] state \in {"loaded", "registered", "waiting"} -> "pending"
      [] OTHER -> state

LEMMA RequestInit == Init => Request!Init
BY DEF Init, Request!Init

\* A step that changes neither callers nor executions is none of the abstract module.
LEMMA Stutters ==
    ASSUME UNCHANGED <<caller, executed>>
    PROVE  UNCHANGED Request!rvars
BY DEF Request!rvars

\* Of one call of SendMsg, a step changes the state as the abstract module may.
LEMMA CallerMoves ==
    ASSUME IInv, NEW r \in Requests, NEW to, Proceed(r, caller[r], to), UNCHANGED executed,
           \/ OutcomeOf(to) = OutcomeOf(caller[r])
           \/ caller[r] = "idle" /\ to = "offline"
           \/ caller[r] = "idle" /\ to = "loaded"
           \/ caller[r] = "waiting" /\ to = "timeout"
           \/ caller[r] = "waiting" /\ to = "ok" /\ executed[r] = 1
    PROVE  [Request!Next]_(Request!rvars)
<1> DEFINE old == [q \in Requests |->
                     CASE caller[q] = "idle" -> "none"
                       [] caller[q] \in {"loaded", "registered", "waiting"} -> "pending"
                       [] OTHER -> caller[q]]
<1> DEFINE new == [q \in Requests |->
                     CASE caller'[q] = "idle" -> "none"
                       [] caller'[q] \in {"loaded", "registered", "waiting"} -> "pending"
                       [] OTHER -> caller'[q]]
<1>1. new = [old EXCEPT ![r] = OutcomeOf(to)]
  BY DEF Proceed, IInv, TypeOK, OutcomeOf
<1>2. old[r] = OutcomeOf(caller[r])
  BY DEF OutcomeOf
<1>3. CASE OutcomeOf(to) = OutcomeOf(caller[r])
  <2>1. new = old
    BY <1>1, <1>2, <1>3
  <2>2. QED
    BY <2>1 DEF Request!rvars
<1>4. CASE caller[r] = "idle" /\ to = "offline"
  <2>1. old[r] = "none" /\ new = [old EXCEPT ![r] = "offline"]
    BY <1>1, <1>2, <1>4 DEF OutcomeOf
  <2>2. QED
    BY <2>1 DEF Request!Refuse, Request!Next
<1>5. CASE caller[r] = "idle" /\ to = "loaded"
  <2>1. old[r] = "none" /\ new = [old EXCEPT ![r] = "pending"]
    BY <1>1, <1>2, <1>5 DEF OutcomeOf
  <2>2. QED
    BY <2>1 DEF Request!Issue, Request!Next
<1>6. CASE caller[r] = "waiting" /\ to = "timeout"
  <2>1. old[r] = "pending" /\ new = [old EXCEPT ![r] = "timeout"]
    BY <1>1, <1>2, <1>6 DEF OutcomeOf
  <2>2. QED
    BY <2>1 DEF Request!TimeOut, Request!Next
<1>7. CASE caller[r] = "waiting" /\ to = "ok" /\ executed[r] = 1
  <2>1. old[r] = "pending" /\ new = [old EXCEPT ![r] = "ok"]
    BY <1>1, <1>2, <1>7 DEF OutcomeOf
  <2>2. QED
    BY <1>7, <2>1 DEF Request!Answer, Request!Next
<1>8. QED
  BY <1>3, <1>4, <1>5, <1>6, <1>7

LEMMA NodeExecutes ==
    ASSUME IInv, NEW c \in Conns, NodeExecute(c)
    PROVE  [Request!Next]_(Request!rvars)
<1> DEFINE h == Head(toNode[c])
<1>1. toNode[c] \in Seq(Requests) /\ toNode[c] # <<>>
  BY DEF IInv, TypeOK, NodeExecute
<1>2. h = toNode[c][1] /\ 1 \in 1..Len(toNode[c]) /\ h \in Requests
  BY <1>1, HeadGone
<1>3. caller[h] \in Sent /\ executed[h] = 0
  BY <1>2 DEF IInv, Queued
<1>4. caller[h] \in {"waiting", "timeout"}
  BY <1>2, <1>3 DEF IInv, Responded, Sent
<1>5. executed' = [executed EXCEPT ![h] = 1] /\ UNCHANGED caller
  BY <1>3 DEF NodeExecute
<1> HIDE DEF h
<1>6. Request!Execute(h)
  BY <1>2, <1>3, <1>4, <1>5 DEF Request!Execute
<1>7. QED
  BY <1>2, <1>6 DEF Request!Next

LEMMA RequestStep == IInv /\ [Next]_vars => [Request!Next]_(Request!rvars)
<1> SUFFICES ASSUME IInv, [Next]_vars PROVE [Request!Next]_(Request!rvars)
  OBVIOUS
<1>1. CASE UNCHANGED <<caller, executed>>
  BY <1>1, Stutters
<1>2. ASSUME NEW c \in Conns, NodeExecute(c) PROVE [Request!Next]_(Request!rvars)
  BY <1>2, NodeExecutes
<1>3. ASSUME NEW r \in Requests, Calling(r) PROVE [Request!Next]_(Request!rvars)
  <2>1. CASE LoadSession(r)
    <3>1. caller[r] = "idle" /\ UNCHANGED executed
      BY <2>1 DEF LoadSession, Proceed
    <3>2. \E to \in {"loaded", "offline"} : Proceed(r, caller[r], to)
      BY <2>1, <3>1 DEF LoadSession, Proceed
    <3>3. QED
      BY <3>1, <3>2, CallerMoves
  <2>2. CASE Register(r)
    <3>1. Proceed(r, caller[r], "registered") /\ caller[r] = "loaded" /\ UNCHANGED executed
      BY <2>2 DEF Register, Proceed
    <3>2. OutcomeOf("registered") = OutcomeOf("loaded")
      BY DEF OutcomeOf
    <3>3. QED
      BY <3>1, <3>2, CallerMoves
  <2>3. CASE Send(r)
    <3>1. Proceed(r, caller[r], "waiting") /\ caller[r] = "registered" /\ UNCHANGED executed
      BY <2>3 DEF Send, Proceed
    <3>2. OutcomeOf("waiting") = OutcomeOf("registered")
      BY DEF OutcomeOf
    <3>3. QED
      BY <3>1, <3>2, CallerMoves
  <2>4. CASE Receive(r)
    <3>1. Proceed(r, caller[r], "ok") /\ caller[r] = "waiting" /\ UNCHANGED executed
      BY <2>4 DEF Receive, Proceed
    <3>2. executed[r] = 1
      BY <2>4 DEF Receive, IInv, Responded
    <3>3. QED
      BY <3>1, <3>2, CallerMoves
  <2>5. CASE TimeOut(r)
    <3>1. Proceed(r, caller[r], "timeout") /\ caller[r] = "waiting" /\ UNCHANGED executed
      BY <2>5 DEF TimeOut, Proceed
    <3>2. QED
      BY <3>1, CallerMoves
  <2>6. QED
    BY <1>3, <2>1, <2>2, <2>3, <2>4, <2>5 DEF Calling
<1>4. CASE UNCHANGED vars
  BY <1>1, <1>4 DEF vars, reqvars
<1>5. ASSUME NEW c \in Conns,
             Dial(c) \/ Break(c) \/ NodeSeesBreak(c) \/ Installing(c) \/ Removing(c)
      PROVE  UNCHANGED <<caller, executed>>
  BY <1>5 DEF Dial, Break, NodeSeesBreak, Installing, CloseExisting, StoreSession, NodeOnline,
         Removing, ReadFails, CheckCurrent, RemoveSession, NodeOffline, reqvars
<1>6. ASSUME NEW c \in Conns, ReadResponse(c) PROVE UNCHANGED <<caller, executed>>
  BY <1>6 DEF ReadResponse
<1>7. ASSUME NEW r \in Requests, NodeRespond(r) PROVE UNCHANGED <<caller, executed>>
  BY <1>7 DEF NodeRespond
<1>8. QED
  BY <1>1, <1>2, <1>3, <1>4, <1>5, <1>6, <1>7 DEF Next

\* SendMsg never does what NodeRequest forbids: an answer means executed once, "node
\* offline" never, whatever connections do meanwhile (ws.go:358-387).
THEOREM Implements == Spec => Request!Safe
<1>1. Init => Request!Init
  BY RequestInit
<1>2. IInv /\ [Next]_vars => [Request!Next]_(Request!rvars)
  BY RequestStep
<1>3. QED
  BY Invariant, <1>1, <1>2, PTL DEF Spec, Request!Safe

\* So what callers conclude from an outcome is right of every session (ws.go:359-381).
THEOREM Conclusions == Spec => []Request!Conclusive
<1>1. IInv => Request!Conclusive
  BY DEF IInv, TypeOK, CallerStates, Responded, Sent, Request!Conclusive
<1>2. QED
  BY Invariant, <1>1, PTL

-----------------------------------------------------------------------------
(* What follows a node that goes offline: the failover of node groups.     *)

GroupAges == 0..Debounce

IsGroup(g) == g = [active |-> g.active, age |-> g.age, back |-> g.back]
IsTask(t)  == t = [at |-> t.at, group |-> t.group, target |-> t.target, todo |-> t.todo]

\* The rows that were read are rows.
RowsRead ==
    /\ IsGroup(group)
    /\ IsTask(task)
    /\ task.at = "read" => IsGroup(task.group)
    /\ editor.at = "read" => /\ editor = [at |-> "read", row |-> editor.row]
                             /\ IsGroup(editor.row)

\* Unless a request has saved an old row, the row's age is the time since the last
\* switch, and so is the age that the task has read.
AgesAgree == ~ stale =>
    /\ group.age = age
    /\ task.at = "read" => task.group.age = age

GroupInv == RowsRead /\ AgesAgree /\ age \in GroupAges

LEMMA GroupInit == ASSUME FailoverInit PROVE GroupInv
<1>1. PICK b \in BOOLEAN : group = [active |-> None, age |-> Debounce, back |-> b]
  BY DEF FailoverInit
<1>2. QED
  BY <1>1, FailoverAssumption DEF FailoverInit, GroupInv, RowsRead, AgesAgree, GroupAges, IsGroup, IsTask,
              NoWork, NoRow

\* A task that has read nothing yet, or is done with what it read.
LEMMA TaskMoves ==
    ASSUME GroupInv, UNCHANGED <<group, editor, age, stale>>,
           IsTask(task'), task'.at # "read"
    PROVE  GroupInv'
BY DEF GroupInv, RowsRead, AgesAgree, IsGroup

LEMMA WorkerMoves ==
    ASSUME IsTask(task), task.at # "read"
    PROVE  /\ IsTask(Told(task)) /\ Told(task).at # "read"
           /\ IsTask(Next1(task)) /\ Next1(task).at # "read"
           /\ IsTask(NoWork) /\ NoWork.at # "read"
<1>1. IsTask(Told(task)) /\ Told(task).at # "read"
  BY DEF IsTask, Told
<1>2. IsTask(NoWork) /\ NoWork.at # "read"
  BY DEF IsTask, NoWork
<1>3. Next1(task).at # "read" /\ IsTask(Next1(task))
  <2>1. CASE Len(task.todo) = 1
    BY <1>2, <2>1 DEF Next1
  <2>2. CASE Len(task.todo) # 1
    <3> DEFINE rest == Tail(task.todo)
    <3>1. Next1(task) = [task EXCEPT !.at = "records", !.todo = rest]
      BY <2>2 DEF Next1
    <3> HIDE DEF rest
    <3>2. QED
      BY <3>1 DEF IsTask
  <2>3. QED
    BY <2>1, <2>2
<1>4. QED
  BY <1>1, <1>2, <1>3

LEMMA GroupRest ==
    ASSUME GroupInv, UNCHANGED <<group, task, editor, age, stale>>
    PROVE  GroupInv'
BY DEF GroupInv, RowsRead, AgesAgree, IsGroup, IsTask

LEMMA TickKeeps == ASSUME GroupInv, Tick PROVE GroupInv'
<1> USE DEF GroupInv, RowsRead, AgesAgree
<1>1. age' \in GroupAges
  BY FailoverAssumption DEF Tick, Older, GroupAges
<1>2. IsGroup(group') /\ group'.age = Older(group.age)
  BY DEF Tick, IsGroup
<1>3. /\ IsTask(task') /\ task'.at = task.at
      /\ task.at = "read" => IsGroup(task'.group) /\ task'.group.age = Older(task.group.age)
  BY DEF Tick, IsGroup, IsTask
<1>4. editor'.at = editor.at /\ (editor.at = "read" =>
         editor' = [at |-> "read", row |-> editor'.row] /\ IsGroup(editor'.row))
  BY DEF Tick, IsGroup
<1>5. age' = Older(age) /\ stale' = stale
  BY DEF Tick
<1>6. QED
  BY <1>1, <1>2, <1>3, <1>4, <1>5

LEMMA SwitchKeeps == ASSUME GroupInv, Switch PROVE GroupInv'
<1> USE DEF GroupInv, RowsRead, AgesAgree
<1>1. IsGroup(group') /\ group'.age = 0 /\ age' = 0 /\ stale' = stale /\ editor' = editor
  BY DEF Switch, IsGroup
<1>2. IsTask(task') /\ task'.at = "records"
  BY DEF Switch, IsTask, NoWork
<1>3. QED
  BY <1>1, <1>2, FailoverAssumption DEF GroupAges

LEMMA ReadGroupsKeeps == ASSUME GroupInv, ReadGroups PROVE GroupInv'
<1> USE DEF GroupInv, RowsRead, AgesAgree
<1>1. IsTask(task') /\ task'.at = "read" /\ task'.group = group
  BY DEF ReadGroups, IsTask, NoWork
<1>2. QED
  BY <1>1 DEF ReadGroups

\* UpdateGroup: an age that differs from the row's makes it a stale save.
LEMMA SaveKeeps ==
    ASSUME GroupInv, NEW o, NEW back, SaveGroup(o, back) PROVE GroupInv'
<1> USE DEF GroupInv, RowsRead, AgesAgree
<1>1. IsGroup(editor.row) /\ IsGroup(group') /\ group'.age = editor.row.age
  BY DEF SaveGroup, IsGroup
<1>2. ~ stale' => ~ stale /\ editor.row.age = group.age
  BY Zenon DEF SaveGroup
<1>3. UNCHANGED <<task, age>> /\ editor' = NoRow
  BY DEF SaveGroup
<1>4. QED
  BY <1>1, <1>2, <1>3 DEF NoRow

LEMMA GroupStep == ASSUME GroupInv, [FailoverNext]_failoverVars PROVE GroupInv'
<1>1. ASSUME NEW n \in Nodes, ComeAndGo(n) PROVE GroupInv'
  BY <1>1, GroupRest DEF ComeAndGo
<1>2. CASE Tick
  BY <1>2, TickKeeps
<1>3. CASE Task
  <2>1. CASE ReadGroups
    BY <2>1, ReadGroupsKeeps
  <2>2. CASE Switch
    BY <2>2, SwitchKeeps
  <2>3. CASE EvaluateNoSwitch
    <3>1. IsTask(task') /\ task'.at # "read"
      BY <2>3 DEF EvaluateNoSwitch, NoWork, IsTask
    <3>2. QED
      BY <2>3, <3>1, TaskMoves DEF EvaluateNoSwitch
  <2>4. CASE \/ TaskSetsRecord \/ TaskSavesRecord
             \/ TaskRecordFails \/ TaskHasNoRecords
    <3>1. task.at # "read" /\ task' \in {Told(task), Next1(task), NoWork}
      BY <2>4 DEF TaskSetsRecord, TaskSavesRecord, TaskRecordFails,
                  TaskHasNoRecords, SetRecord, SaveRecord
    <3>2. IsTask(task') /\ task'.at # "read"
      BY <3>1, WorkerMoves DEF GroupInv, RowsRead
    <3>3. UNCHANGED <<group, editor, age, stale>>
      BY <2>4 DEF TaskSetsRecord, TaskSavesRecord, TaskRecordFails,
                  TaskHasNoRecords
    <3>4. QED
      BY <3>2, <3>3, TaskMoves
  <2>5. QED
    BY <1>3, <2>1, <2>2, <2>3, <2>4 DEF Task
<1>4. CASE ReadGroup
  BY <1>4 DEF ReadGroup, GroupInv, RowsRead, AgesAgree, IsGroup, IsTask
<1>5. CASE EditGroup
  BY <1>5, SaveKeeps DEF EditGroup
<1>6. ASSUME NEW d \in Domains, PickMember(d) \/ ReadDomain(d) PROVE GroupInv'
  BY <1>6, GroupRest DEF PickMember, ReadDomain
<1>7. CASE Resolver
  BY <1>7, GroupRest DEF Resolver, ResolverSetsRecord, ResolverFails,
                         ResolverSavesRecord
<1>8. CASE EditDomain
  BY <1>8, GroupRest DEF EditDomain, SaveDomain
<1>9. CASE UNCHANGED failoverVars
  BY <1>9, GroupRest DEF failoverVars
<1>10. QED
  BY <1>1, <1>2, <1>3, <1>4, <1>5, <1>6, <1>7, <1>8, <1>9 DEF FailoverNext

\* Whatever nodes and requests do, two switches of the task are a debounce apart, unless
\* a request has saved a group row it read before the first (failover.go:65-68).
THEOREM DebounceKept == FailoverSpec => Debounced
<1>1. GroupInv => (Switch => age = Debounce \/ stale)
  BY Zenon DEF GroupInv, AgesAgree, Switch
<1>2. GroupInv /\ [FailoverNext]_failoverVars => [Switch => age = Debounce \/ stale]_failoverVars
  BY <1>1
<1>3. FailoverInit => GroupInv
  BY GroupInit
<1>4. GroupInv /\ [FailoverNext]_failoverVars => GroupInv'
  BY GroupStep
<1>5. QED
  BY <1>2, <1>3, <1>4, PTL DEF FailoverSpec, Debounced
=============================================================================

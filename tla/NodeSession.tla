----------------------------- MODULE NodeSession -----------------------------
(***************************************************************************)
(* The websocket session between the panel (WSManager, pkg/ws.go, and the  *)
(* callbacks main.go installs) and one node (WebSocketReporter): dialling, *)
(* replacing and losing connections, the node row's online status, and the *)
(* requests that SendMsg makes over whatever session is current.           *)
(*                                                                         *)
(* Every connection has two goroutines on the panel: HandleConnection,     *)
(* which installs it, then readNodeMessages, which removes it.             *)
(***************************************************************************)
EXTENDS Naturals, Sequences, FiniteSets

CONSTANTS
    Conns,      \* connections the node dials, one after the other
    Requests,   \* calls of SendMsg
    NoConn      \* no connection

ASSUME SessionAssumption == NoConn \notin Conns

VARIABLES
    node,       \* the node's w.conn
    link,       \* the connections themselves
    handler,    \* progress of HandleConnection
    reader,     \* progress of readNodeMessages
    session,    \* nodeSessions: the node's entry
    status,     \* status of the node's row: 1 online, 0 offline
    caller,     \* progress of SendMsg
    via,        \* the session a SendMsg has loaded
    pending,    \* pendingRequests
    result,     \* requests whose result channel is filled
    toNode,     \* commands under way
    toPanel,    \* responses under way
    working,    \* the connection a command being executed arrived on
    executed,   \* auxiliary: how often the node has executed a request
    raced       \* auxiliary: two goroutines disagreed about the session

connvars == <<node, link, handler, reader, session, status, raced>>
reqvars  == <<caller, via, pending, result, toNode, toPanel, working, executed>>
vars     == <<connvars, reqvars>>

LinkStates    == {"unused", "up", "broken"}
HandlerStates == {"none", "upgraded", "replaced", "stored", "done"}
ReaderStates  == {"none", "reading", "failed", "current", "removed", "done"}
CallerStates  == {"idle", "loaded", "registered", "waiting", "ok", "timeout",
                  "offline"}

-----------------------------------------------------------------------------
(* Connections.                                                            *)

\* connect: the node dials when it has no connection; the panel has checked
\* the secret and upgraded the request.
Dial(c) ==
    /\ node = NoConn
    /\ link[c] = "unused"
    /\ node' = c
    /\ link' = [link EXCEPT ![c] = "up"]
    /\ handler' = [handler EXCEPT ![c] = "upgraded"]
    /\ UNCHANGED <<reader, session, status, raced, reqvars>>

\* The network or a process gives the connection up.
Break(c) ==
    /\ link[c] = "up"
    /\ link' = [link EXCEPT ![c] = "broken"]
    /\ UNCHANGED <<node, handler, reader, session, status, raced, reqvars>>

\* receiveMessages fails; what was not read is lost; handleConnection ends.
NodeSeesBreak(c) ==
    /\ node = c
    /\ link[c] = "broken"
    /\ node' = NoConn
    /\ toNode' = [toNode EXCEPT ![c] = <<>>]
    /\ UNCHANGED <<link, handler, reader, session, status, raced, caller, via,
                   pending, result, toPanel, working, executed>>

\* HandleConnection: close the session there is, ...
CloseExisting(c) ==
    /\ handler[c] = "upgraded"
    /\ link' = IF session = NoConn THEN link
               ELSE [link EXCEPT ![session] = "broken"]
    /\ handler' = [handler EXCEPT ![c] = "replaced"]
    /\ UNCHANGED <<node, reader, session, status, raced, reqvars>>

\* ... take its place, ...
StoreSession(c) ==
    /\ handler[c] = "replaced"
    /\ session' = c
    /\ handler' = [handler EXCEPT ![c] = "stored"]
    /\ UNCHANGED <<node, link, reader, status, raced, reqvars>>

\* ... run OnNodeOnline and start the reader.
NodeOnline(c) ==
    /\ handler[c] = "stored"
    /\ status' = 1
    /\ raced' = (raced \/ session # c)
    /\ handler' = [handler EXCEPT ![c] = "done"]
    /\ reader' = [reader EXCEPT ![c] = "reading"]
    /\ UNCHANGED <<node, link, session, reqvars>>

ReadFails(c) ==
    /\ reader[c] = "reading"
    /\ link[c] = "broken"
    /\ reader' = [reader EXCEPT ![c] = "failed"]
    /\ UNCHANGED <<node, link, handler, session, status, raced, reqvars>>

\* Variant, not part of Next: only readers that were replaced clean up.
CheckReplaced(c) ==
    /\ reader[c] = "failed"
    /\ reader' = [reader EXCEPT ![c] = IF session = c THEN "done" ELSE "current"]
    /\ UNCHANGED <<node, link, handler, session, status, raced, reqvars>>

\* The deferred function of readNodeMessages: is this still the session?
CheckCurrent(c) ==
    /\ reader[c] = "failed"
    /\ reader' = [reader EXCEPT ![c] = IF session = c THEN "current" ELSE "done"]
    /\ UNCHANGED <<node, link, handler, session, status, raced, reqvars>>

\* Variant, not part of Next: OnNodeOffline is not called.
RemoveSessionSilently(c) ==
    /\ reader[c] = "current"
    /\ raced' = (raced \/ session # c)
    /\ session' = NoConn
    /\ reader' = [reader EXCEPT ![c] = "done"]
    /\ UNCHANGED <<node, link, handler, status, reqvars>>

\* Delete removes the entry of the node, whoever has stored it by now.
RemoveSession(c) ==
    /\ reader[c] = "current"
    /\ raced' = (raced \/ session # c)
    /\ session' = NoConn
    /\ reader' = [reader EXCEPT ![c] = "removed"]
    /\ UNCHANGED <<node, link, handler, status, reqvars>>

\* Variant, not part of Next: the row counts sessions.
NodeOfflineCounts(c) ==
    /\ reader[c] = "removed"
    /\ status' = status - 1
    /\ raced' = (raced \/ session # NoConn)
    /\ reader' = [reader EXCEPT ![c] = "done"]
    /\ UNCHANGED <<node, link, handler, session, reqvars>>

NodeOffline(c) ==
    /\ reader[c] = "removed"
    /\ status' = 0
    /\ raced' = (raced \/ session # NoConn)
    /\ reader' = [reader EXCEPT ![c] = "done"]
    /\ UNCHANGED <<node, link, handler, session, reqvars>>

-----------------------------------------------------------------------------
(* Requests.                                                               *)

Proceed(r, from, to) ==
    /\ caller[r] = from
    /\ caller' = [caller EXCEPT ![r] = to]

\* SendMsg loads the session or returns "node offline".
LoadSession(r) ==
    /\ \/ session # NoConn /\ Proceed(r, "idle", "loaded")
       \/ session = NoConn /\ Proceed(r, "idle", "offline")
    /\ via' = [via EXCEPT ![r] = session]
    /\ UNCHANGED <<connvars, pending, result, toNode, toPanel, working, executed>>

Register(r) ==
    /\ Proceed(r, "loaded", "registered")
    /\ pending' = pending \cup {r}
    /\ UNCHANGED <<connvars, via, result, toNode, toPanel, working, executed>>

\* Variant, not part of Next: the command is written a second time, as if the
\* first write might have failed.
SendTwice(r) ==
    /\ Proceed(r, "registered", "waiting")
    /\ toNode' = IF link[via[r]] = "up"
                 THEN [toNode EXCEPT ![via[r]] = @ \o <<r, r>>] ELSE toNode
    /\ UNCHANGED <<connvars, via, pending, result, toPanel, working, executed>>

\* sendToNode: a write error is only logged, the caller waits all the same.
Send(r) ==
    /\ Proceed(r, "registered", "waiting")
    /\ toNode' = IF link[via[r]] = "up"
                 THEN [toNode EXCEPT ![via[r]] = Append(@, r)] ELSE toNode
    /\ UNCHANGED <<connvars, via, pending, result, toPanel, working, executed>>

Receive(r) ==
    /\ r \in result
    /\ Proceed(r, "waiting", "ok")
    /\ UNCHANGED <<connvars, via, pending, result, toNode, toPanel, working, executed>>

\* Variant, not part of Next: the entry is left behind.
TimeOutLeaky(r) ==
    /\ Proceed(r, "waiting", "timeout")
    /\ UNCHANGED <<connvars, via, pending, result, toNode, toPanel, working, executed>>

TimeOut(r) ==
    /\ Proceed(r, "waiting", "timeout")
    /\ pending' = pending \ {r}
    /\ UNCHANGED <<connvars, via, result, toNode, toPanel, working, executed>>

\* The receiving goroutine of connection c executes the next command; one at a
\* time, but the goroutine of an earlier connection may be busy still.
NodeExecute(c) ==
    /\ node = c
    /\ toNode[c] # <<>>
    /\ \A r \in Requests : working[r] # c
    /\ toNode' = [toNode EXCEPT ![c] = Tail(@)]
    /\ working' = [working EXCEPT ![Head(toNode[c])] = c]
    /\ executed' = [executed EXCEPT ![Head(toNode[c])] = @ + 1]
    /\ UNCHANGED <<connvars, caller, via, pending, result, toPanel>>

\* sendResponse writes to the connection there is by then, or drops it.
NodeRespond(r) ==
    /\ working[r] # NoConn
    /\ working' = [working EXCEPT ![r] = NoConn]
    /\ toPanel' = IF node # NoConn /\ link[node] = "up"
                  THEN [toPanel EXCEPT ![node] = Append(@, r)] ELSE toPanel
    /\ UNCHANGED <<connvars, caller, via, pending, result, toNode, executed>>

\* readNodeMessages passes a response on to the caller that still waits.
ReadResponse(c) ==
    /\ reader[c] = "reading"
    /\ toPanel[c] # <<>>
    /\ toPanel' = [toPanel EXCEPT ![c] = Tail(@)]
    /\ LET r == Head(toPanel[c]) IN
       /\ result' = IF r \in pending THEN result \cup {r} ELSE result
       /\ pending' = pending \ {r}
    /\ UNCHANGED <<connvars, caller, via, toNode, working, executed>>

-----------------------------------------------------------------------------
Init ==
    /\ node = NoConn
    /\ link = [c \in Conns |-> "unused"]
    /\ handler = [c \in Conns |-> "none"]
    /\ reader = [c \in Conns |-> "none"]
    /\ session = NoConn
    /\ status = 0
    /\ caller = [r \in Requests |-> "idle"]
    /\ via = [r \in Requests |-> NoConn]
    /\ pending = {}
    /\ result = {}
    /\ toNode = [c \in Conns |-> <<>>]
    /\ toPanel = [c \in Conns |-> <<>>]
    /\ working = [r \in Requests |-> NoConn]
    /\ executed = [r \in Requests |-> 0]
    /\ raced = FALSE

Installing(c) == CloseExisting(c) \/ StoreSession(c) \/ NodeOnline(c)
Removing(c)   == ReadFails(c) \/ CheckCurrent(c) \/ RemoveSession(c) \/ NodeOffline(c)
Calling(r)    == LoadSession(r) \/ Register(r) \/ Send(r) \/ Receive(r) \/ TimeOut(r)

Next ==
    \/ \E c \in Conns : \/ Dial(c) \/ Break(c) \/ NodeSeesBreak(c)
                        \/ Installing(c) \/ Removing(c)
                        \/ NodeExecute(c) \/ ReadResponse(c)
    \/ \E r \in Requests : Calling(r) \/ NodeRespond(r)

\* The panel's goroutines run; the timer of a waiting caller fires.
Fairness ==
    /\ \A c \in Conns : WF_vars(Installing(c)) /\ WF_vars(Removing(c))
    /\ \A r \in Requests :
          WF_vars(Register(r) \/ Send(r) \/ Receive(r) \/ TimeOut(r))

Spec == Init /\ [][Next]_vars /\ Fairness

-----------------------------------------------------------------------------
(* Properties.                                                             *)

\* Every variable has its type.
TypeOK ==
    /\ node \in Conns \cup {NoConn}
    /\ link \in [Conns -> LinkStates]
    /\ handler \in [Conns -> HandlerStates]
    /\ reader \in [Conns -> ReaderStates]
    /\ session \in Conns \cup {NoConn}
    /\ status \in {0, 1}
    /\ caller \in [Requests -> CallerStates]
    /\ via \in [Requests -> Conns \cup {NoConn}]
    /\ pending \in SUBSET Requests
    /\ result \in SUBSET Requests
    /\ toNode \in [Conns -> Seq(Requests)]
    /\ toPanel \in [Conns -> Seq(Requests)]
    /\ working \in [Requests -> Conns \cup {NoConn}]
    /\ executed \in [Requests -> Nat]
    /\ raced \in BOOLEAN

\* SendMsg keeps the promise of NodeRequest: whatever connections do meanwhile,
\* an answer means executed, once, "node offline" never executed, and every call
\* returns (ws.go:358-387).
Request == INSTANCE NodeRequest WITH
    outcome <- [r \in Requests |->
                  CASE caller[r] = "idle" -> "none"
                    [] caller[r] \in {"loaded", "registered", "waiting"} -> "pending"
                    [] OTHER -> caller[r]]

ImplementsRequest == Request!Spec

\* pendingRequests does not leak: an entry has a caller that will take it out,
\* however late or twice the answer comes (ws.go:308, 385).
PendingHasCaller == \A r \in pending : caller[r] \in {"registered", "waiting"}

\* When no goroutine is half-way and none was overtaken by another, the row says
\* online exactly when there is a session (main.go:124-155).
Settled == \A c \in Conns : /\ handler[c] \in {"none", "done"}
                            /\ reader[c] \in {"none", "reading", "done"}

StatusFollowsSession == Settled /\ ~ raced => (status = 1 <=> session # NoConn)

\* A dead connection does not stay the session of the node: IsNodeOnline becomes
\* false, or true of a newer connection (ws.go:233-245).
DeadSessionGoes ==
    \A c \in Conns : session = c /\ link[c] = "broken" ~> session # c
=============================================================================

----------------------------- MODULE PortAlloc -----------------------------
(***************************************************************************)
(* The ports that forwards take on the nodes (go-backend/service:          *)
(* forward.go, route.go, user.go, user_tunnel.go).                         *)
(*                                                                         *)
(* A forward over a tunnel takes a port on the tunnel's in-node, and one   *)
(* on its out-node when the tunnel has two nodes.  A forward over a route  *)
(* takes one on each hop: the entry's is in the forward's row, the others  *)
(* are rows of forward_route_port.  A request looks up which ports are in  *)
(* use, node by node, takes the lowest free one and saves it later; nothing*)
(* keeps another request from doing the same meanwhile.                    *)
(***************************************************************************)
EXTENDS Naturals, Sequences

CONSTANTS
    Nodes,
    PortRange,      \* node -> the ports that may be allocated there
    Tunnels,
    InNode,         \* tunnel -> its in-node
    OutNode,        \* tunnel -> its out-node; the in-node in a port forward
    Routes,
    Paths,          \* sequences of nodes a route may be given
    Forwards,       \* identifiers of forwards, used once
    Asks,           \* ports that callers ask for; 0 for any
    Jobs,           \* requests that run at a time
    Ops,            \* what requests do: a subset of AllOps
    none

AllOps == {"create", "update", "delete", "force", "user", "route"}

ASSUME PortAssumption ==
    /\ PortRange \in [Nodes -> SUBSET (Nat \ {0})]
    /\ InNode \in [Tunnels -> Nodes]
    /\ OutNode \in [Tunnels -> Nodes]
    /\ Paths \subseteq Seq(Nodes)
    /\ \A s \in Paths : Len(s) >= 2 /\ (\A i, k \in 1..Len(s) : s[i] = s[k] => i = k)
    /\ Asks \subseteq Nat
    /\ none \notin Tunnels \cup Routes \cup Forwards
    /\ Ops \subseteq AllOps

Port == UNION {PortRange[n] : n \in Nodes}
NoPort == 0
TwoNodes(t) == InNode[t] # OutNode[t]

VARIABLES
    row,        \* forward -> its row
    relays,     \* forward -> its rows of forward_route_port: node and port
    hops,       \* route -> its nodes; <<>> once it is deleted
    job,        \* request -> what it has read and chosen
    raced       \* auxiliary: forwards whose ports were chosen, or whose route
                \* was replaced, while another request was saving

vars == <<row, relays, hops, job, raced>>

Unborn == [status |-> "unborn", tunnel |-> none, route |-> none,
           in |-> NoPort, out |-> NoPort, owner |-> none]
Gone   == [Unborn EXCEPT !.status = "gone"]
Exists(f) == row[f].status = "saved"

\* fwd is the forward itself (none when it is to be created), entry the node of
\* the in-port, rest the hops that wait for a port, relays those that have one.
\* clean holds until another request saves.
NoJob == [op |-> "idle", fwd |-> none, tunnel |-> none, route |-> none,
          entry |-> none, ask |-> NoPort, in |-> NoPort, out |-> NoPort,
          rest |-> <<>>, relays |-> {}, clean |-> TRUE]
Idle(j) == job[j] = NoJob

-----------------------------------------------------------------------------
(* Ports in use.                                                           *)

\* The rows hold port p of node n for a forward, as the four queries find it:
\* in-ports and out-ports through the tunnel, entry ports through the first hop of
\* the route, relay ports by node.
Takes(f, n, p) ==
    \/ row[f].tunnel # none /\ InNode[row[f].tunnel] = n /\ row[f].in = p
    \/ row[f].tunnel # none /\ OutNode[row[f].tunnel] = n /\ row[f].out = p
    \/ /\ row[f].route # none /\ hops[row[f].route] # <<>>
       /\ Head(hops[row[f].route]) = n /\ row[f].in = p
    \/ <<n, p>> \in relays[f]

\* Variant, not part of Next: relay ports are not looked up.
FreeOfRows(n, f) ==
    {p \in PortRange[n] :
        \A g \in Forwards \ {f} : Takes(g, n, p) => <<n, p>> \in relays[g]}

\* Ports of node n a request about forward f may take.
Free(n, f) == {p \in PortRange[n] : \A g \in Forwards \ {f} : ~ Takes(g, n, p)}

\* Variant, not part of Next: a position in the range, not a port.
LowestIndex(S) == {p - 1 : p \in {q \in S : \A o \in S : q <= o}}

Lowest(S) == {p \in S : \A q \in S : p <= q}

-----------------------------------------------------------------------------
(* Requests.                                                               *)

Begin(j, new) == job' = [job EXCEPT ![j] = new] /\ UNCHANGED <<row, relays, hops, raced>>
End(j) == job' = [job EXCEPT ![j] = NoJob]

Over(t) == [NoJob EXCEPT !.tunnel = t, !.entry = InNode[t]]
Along(r) == [NoJob EXCEPT !.route = r, !.entry = Head(hops[r]), !.rest = Tail(hops[r])]

\* ask is the port the caller wants, NoPort for any.
BeginCreate(j, ask) ==
    /\ "create" \in Ops /\ Idle(j)
    /\ \/ \E t \in Tunnels : Begin(j, [Over(t) EXCEPT !.op = "create", !.ask = ask])
       \/ \E r \in Routes : /\ hops[r] # <<>>
                            /\ Begin(j, [Along(r) EXCEPT !.op = "create", !.ask = ask])

\* A forward over a tunnel keeps its ports unless another tunnel or port is asked.
BeginUpdate(j, f, ask) ==
    /\ "update" \in Ops /\ Idle(j) /\ Exists(f) /\ row[f].route = none
    /\ \E t \in Tunnels :
         IF t # row[f].tunnel \/ ask \notin {NoPort, row[f].in}
         THEN Begin(j, [Over(t) EXCEPT !.op = "update", !.fwd = f, !.ask = ask])
         ELSE Begin(j, [Over(t) EXCEPT !.op = "keep", !.fwd = f,
                                       !.in = row[f].in, !.out = row[f].out])

\* A forward over a route is allocated anew; one over a tunnel can be moved to a
\* route, never back.
BeginReroute(j, f, ask) ==
    /\ "update" \in Ops /\ Idle(j) /\ Exists(f)
    /\ \E r \in Routes :
         /\ hops[r] # <<>>
         /\ Begin(j, [Along(r) EXCEPT !.op = "update", !.fwd = f,
                         !.ask = IF ask = NoPort THEN row[f].in ELSE ask])

\* The port asked for, when it is free, or the lowest one; otherwise an error.
ChooseEntry(j) ==
    /\ job[j].op \in {"create", "update"} /\ job[j].in = NoPort
    /\ LET free == Free(job[j].entry, job[j].fwd)
           choice == IF job[j].ask = NoPort THEN Lowest(free) ELSE free \cap {job[j].ask}
       IN  IF choice = {} THEN End(j)
           ELSE \E p \in choice : job' = [job EXCEPT ![j].in = p, ![j].ask = NoPort]
    /\ UNCHANGED <<row, relays, hops, raced>>

ChooseOut(j) ==
    /\ job[j].op \in {"create", "update"} /\ job[j].in # NoPort /\ job[j].out = NoPort
    /\ job[j].tunnel # none /\ TwoNodes(job[j].tunnel)
    /\ LET choice == Lowest(Free(OutNode[job[j].tunnel], job[j].fwd))
       IN  IF choice = {} THEN End(j)
           ELSE \E p \in choice : job' = [job EXCEPT ![j].out = p]
    /\ UNCHANGED <<row, relays, hops, raced>>

ChooseRelay(j) ==
    /\ job[j].op \in {"create", "update"} /\ job[j].in # NoPort /\ job[j].rest # <<>>
    /\ LET n == Head(job[j].rest)
           choice == Lowest(Free(n, job[j].fwd))
       IN  IF choice = {} THEN End(j)
           ELSE \E p \in choice :
                  job' = [job EXCEPT ![j].out = p, ![j].rest = Tail(job[j].rest),
                                     ![j].relays = job[j].relays \cup {<<n, p>>}]
    /\ UNCHANGED <<row, relays, hops, raced>>

Chosen(j) ==
    /\ job[j].op \in {"create", "update", "keep"}
    /\ job[j].in # NoPort /\ job[j].rest = <<>>
    /\ job[j].tunnel # none /\ TwoNodes(job[j].tunnel) => job[j].out # NoPort

\* What a request leaves behind: the other requests have read before it saved.
Saved(j) ==
    job' = [i \in Jobs |-> IF i = j THEN NoJob
                           ELSE IF Idle(i) THEN job[i] ELSE [job[i] EXCEPT !.clean = FALSE]]

Racing(j, f) ==
    raced' = IF ~ job[j].clean THEN raced \cup {f}
             ELSE IF job[j].op = "keep" \/ ~ Exists(f) THEN raced ELSE raced \ {f}

SaveCreate(j) ==
    /\ job[j].op = "create" /\ Chosen(j)
    /\ \E f \in Forwards :
         /\ row[f] = Unborn
         /\ \E o \in (IF job[j].route = none THEN {"user", "admin"} ELSE {"admin"}) :
              row' = [row EXCEPT ![f] = [status |-> "saved", tunnel |-> job[j].tunnel,
                                         route |-> job[j].route, in |-> job[j].in,
                                         out |-> job[j].out, owner |-> o]]
         /\ relays' = [relays EXCEPT ![f] = job[j].relays]
         /\ Racing(j, f)
    /\ Saved(j)
    /\ UNCHANGED hops

\* The row gets the tunnel and the ports, when it still exists.
SaveUpdate(j) ==
    /\ job[j].op \in {"update", "keep"} /\ job[j].route = none /\ Chosen(j)
    /\ row' = IF Exists(job[j].fwd)
              THEN [row EXCEPT ![job[j].fwd] = [@ EXCEPT !.tunnel = job[j].tunnel,
                                       !.in = job[j].in, !.out = job[j].out]]
              ELSE row
    /\ Racing(j, job[j].fwd)
    /\ Saved(j)
    /\ UNCHANGED <<relays, hops>>

\* Variant, not part of Next: the former relay ports stay.
SaveRerouteBeside(j) ==
    /\ job[j].op = "update" /\ job[j].route # none /\ Chosen(j)
    /\ row' = IF Exists(job[j].fwd)
              THEN [row EXCEPT ![job[j].fwd] = [@ EXCEPT !.tunnel = none,
                       !.route = job[j].route, !.in = job[j].in, !.out = job[j].out]]
              ELSE row
    /\ relays' = [relays EXCEPT ![job[j].fwd] = @ \cup job[j].relays]
    /\ Racing(j, job[j].fwd)
    /\ Saved(j)
    /\ UNCHANGED hops

\* In one transaction; the relay ports are saved even when the row is gone.
SaveReroute(j) ==
    /\ job[j].op = "update" /\ job[j].route # none /\ Chosen(j)
    /\ row' = IF Exists(job[j].fwd)
              THEN [row EXCEPT ![job[j].fwd] = [@ EXCEPT !.tunnel = none,
                       !.route = job[j].route, !.in = job[j].in, !.out = job[j].out]]
              ELSE row
    /\ relays' = [relays EXCEPT ![job[j].fwd] = job[j].relays]
    /\ Racing(j, job[j].fwd)
    /\ Saved(j)
    /\ UNCHANGED hops

\* A command or the database failed: the ports of the row stay as they are.
Abandon(j) == ~ Idle(j) /\ End(j) /\ UNCHANGED <<row, relays, hops, raced>>

-----------------------------------------------------------------------------
(* Forwards are deleted, routes are changed.                               *)

\* What is to be deleted depends on the row as it was read first.
BeginDelete(j, f) ==
    /\ "delete" \in Ops /\ Idle(j) /\ Exists(f)
    /\ Begin(j, [NoJob EXCEPT !.op = "delete", !.fwd = f, !.route = row[f].route])

Drop(f, rest) ==
    /\ row' = [row EXCEPT ![f] = Gone]
    /\ relays' = [relays EXCEPT ![f] = rest]
    /\ UNCHANGED <<hops, raced>>

Delete(j) ==
    /\ job[j].op = "delete"
    /\ Drop(job[j].fwd, IF job[j].route = none THEN relays[job[j].fwd] ELSE {})
    /\ End(j)

ForceDelete(j, f) ==
    "force" \in Ops /\ Idle(j) /\ Exists(f) /\ Drop(f, {}) /\ UNCHANGED job

\* With its user, or with the user's permission for the tunnel.
DeleteWithUser(j, f) ==
    /\ "user" \in Ops /\ Idle(j) /\ Exists(f) /\ row[f].owner = "user"
    /\ Drop(f, relays[f])
    /\ UNCHANGED job

\* A route's hops are replaced, or the route deleted, when no forward uses it.
BeginRoute(j, r, path) ==
    /\ "route" \in Ops /\ Idle(j) /\ hops[r] # <<>>
    /\ \A f \in Forwards : ~ (Exists(f) /\ row[f].route = r)
    /\ Begin(j, [NoJob EXCEPT !.op = "route", !.route = r, !.rest = path])

ReplaceRoute(j) ==
    /\ job[j].op = "route"
    /\ hops' = [hops EXCEPT ![job[j].route] = job[j].rest]
    /\ raced' = raced \cup {f \in Forwards : row[f].route = job[j].route}
    /\ Saved(j)
    /\ UNCHANGED <<row, relays>>

-----------------------------------------------------------------------------

Init ==
    /\ row = [f \in Forwards |-> Unborn]
    /\ relays = [f \in Forwards |-> {}]
    /\ hops \in [Routes -> Paths]
    /\ job = [j \in Jobs |-> NoJob]
    /\ raced = {}

Next ==
    \/ \E j \in Jobs : \E ask \in Asks :
         \/ BeginCreate(j, ask)
         \/ \E f \in Forwards : BeginUpdate(j, f, ask) \/ BeginReroute(j, f, ask)
    \/ \E j \in Jobs :
         \/ ChooseEntry(j) \/ ChooseOut(j) \/ ChooseRelay(j)
         \/ SaveCreate(j) \/ SaveUpdate(j) \/ SaveReroute(j) \/ Abandon(j)
         \/ \E f \in Forwards : BeginDelete(j, f) \/ ForceDelete(j, f) \/ DeleteWithUser(j, f)
         \/ Delete(j)
         \/ \E r \in Routes : \E path \in Paths \cup {<<>>} : BeginRoute(j, r, path)
         \/ ReplaceRoute(j)

Spec == Init /\ [][Next]_vars

-----------------------------------------------------------------------------
(* Properties.                                                             *)

Pairs == Nodes \X Port

Row == [status : {"unborn", "saved", "gone"}, tunnel : Tunnels \cup {none},
        route : Routes \cup {none}, in : Nat, out : Nat,
        owner : {"user", "admin", none}]

Request == [op : {"idle", "create", "update", "keep", "delete", "route"},
            fwd : Forwards \cup {none}, tunnel : Tunnels \cup {none},
            route : Routes \cup {none}, entry : Nodes \cup {none}, ask : Nat,
            in : Nat, out : Nat, rest : Seq(Nodes), relays : SUBSET Pairs,
            clean : BOOLEAN]

Directed(q) ==
    /\ q.op \in {"update", "keep", "delete"} => q.fwd \in Forwards
    /\ q.op \in {"create", "update", "keep"} => q.entry \in Nodes
    /\ q.op = "route" => q.route \in Routes

\* Types of the rows and of the requests (model.Forward, model.ForwardRoutePort,
\* model.RouteHop).
TypeOK ==
    /\ row \in [Forwards -> Row]
    /\ relays \in [Forwards -> SUBSET Pairs]
    /\ hops \in [Routes -> Seq(Nodes)]
    /\ job \in [Jobs -> Request]
    /\ \A j \in Jobs : Directed(job[j])
    /\ raced \subseteq Forwards

\* Two forwards have a port of a node in common only when one of them was
\* saved by a request during which another one was saved, or its route was
\* replaced after its count of forwards (allocatePorts, allocateRouteForwardPorts:
\* one at a time, requests never give a port twice, whatever was created, moved to
\* a route, updated or deleted before).
PortsDistinct ==
    \A f, g \in Forwards : \A n \in Nodes : \A p \in Port :
        f # g /\ Takes(f, n, p) /\ Takes(g, n, p) => f \in raced \/ g \in raced

\* Outside such races the relay ports of a forward are on the hops of its route
\* after the first, one each, and a forward over a tunnel has none
\* (createRouteForward, updateRouteForward, UpdateRoute's count of forwards).
RelaysFollowRoute ==
    \A f \in Forwards : Exists(f) /\ f \notin raced =>
        LET path == IF row[f].route = none THEN <<>> ELSE Tail(hops[row[f].route])
        IN  /\ {x[1] : x \in relays[f]} = {path[i] : i \in 1..Len(path)}
            /\ \A x, y \in relays[f] : x[1] = y[1] => x = y
=============================================================================

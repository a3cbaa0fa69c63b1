---------------------------- MODULE RouteControl ----------------------------
(***************************************************************************)
(* A forward over a route of several nodes: its row, and on every node of  *)
(* the route a service and the chain that leads to the next node           *)
(* (go-backend/service: forward.go, reconcile.go, config_check.go).        *)
(*                                                                         *)
(* The services are deployed from the last node to the entry and taken     *)
(* back from the entry, one command at a time; meanwhile nodes leave and   *)
(* come back, and each that comes back is reconciled by a goroutine of its *)
(* own.  Nothing locks a forward.                                          *)
(***************************************************************************)
EXTENDS Naturals, Sequences

CONSTANTS
    Last,       \* the nodes of the route are 1 (entry) to Last (terminal)
    MaxGen,     \* bound: contents the row can have (ports and addresses)
    Jobs,       \* goroutines that serve requests and reports
    Ops,        \* what they do: a subset of AllOps
    Arrived,    \* nodes that have just connected when the behaviour begins
    MaxFaults   \* bound: commands that fail, sessions and nodes that end

AllOps == {"create", "update", "delete", "force", "pause", "resume", "report"}

Hops == 1..Last

ASSUME RouteAssumption ==
    /\ Last \in Nat /\ Last >= 2
    /\ MaxGen \in Nat \ {0}
    /\ Ops \subseteq AllOps
    /\ Arrived \subseteq Hops
    /\ MaxFaults \in Nat
    /\ Jobs \cap Hops = {}

VARIABLES
    row,        \* the forward's row and those of its ports
    svc,        \* node -> its service: entry pair, relay or terminal
    chain,      \* node -> content of its chain, 0 for none
    online,     \* nodes with a session
    due,        \* nodes that came online and wait for their reconcile
    job,        \* goroutines; the one named like a node is its reconcile
    faults,
    disturbed   \* auxiliary: row and nodes may disagree, and why is known

vars == <<row, svc, chain, online, due, job, faults, disturbed>>

Gens == 1..MaxGen
None == [gen |-> 0, open |-> FALSE]
Service(g) == [gen |-> g, open |-> TRUE]

Unborn == [status |-> "unborn", gen |-> 0]
Gone   == [status |-> "gone", gen |-> 0]
Exists == row.status \in {"active", "paused", "error"}

Runners == Jobs \cup Hops
NoJob == [op |-> "idle", read |-> Unborn, gen |-> 0, plan |-> <<>>,
          failed |-> FALSE, clean |-> TRUE]
Busy == {j \in Runners : job[j] # NoJob}
Overlapped == [j \in Runners |-> IF j \in Busy THEN [job[j] EXCEPT !.clean = FALSE]
                                 ELSE job[j]]

Fault == faults < MaxFaults /\ faults' = faults + 1

-----------------------------------------------------------------------------
(* Commands, as a node executes them (module GostNode).                    *)

\* The answer, and what the node has then.
Result(a, s, c) == [answer |-> a, svc |-> s, chain |-> c]

OnService(cmd, s, c, g) ==
    CASE cmd = "add" /\ s = None      -> Result("ok", Service(g), c)
      [] cmd = "add" /\ s # None      -> Result("already_exists", s, c)
      [] cmd # "add" /\ s = None      -> Result("not_found", s, c)
      [] cmd = "delete" /\ s # None   -> Result("ok", None, c)
      [] cmd = "pause" /\ s # None    -> Result("ok", [s EXCEPT !.open = FALSE], c)
      [] cmd = "resume" /\ s # None   -> Result("ok", [s EXCEPT !.open = TRUE], c)

OnChain(cmd, s, c, g) ==
    CASE cmd = "add" /\ c = 0         -> Result("ok", s, g)
      [] cmd = "add" /\ c # 0         -> Result("already_exists", s, c)
      [] cmd # "add" /\ c = 0         -> Result("not_found", s, c)
      [] cmd = "update" /\ c # 0      -> Result("ok", s, g)
      [] cmd = "delete" /\ c # 0      -> Result("ok", s, 0)

Execute(x, g) == IF x.what = "svc" THEN OnService(x.cmd, svc[x.hop], chain[x.hop], g)
                                   ELSE OnChain(x.cmd, svc[x.hop], chain[x.hop], g)

-----------------------------------------------------------------------------
(* Plans: what a goroutine has still to do.                                *)

Step(cmd, what, h, mode) == [cmd |-> cmd, what |-> what, hop |-> h, mode |-> mode]
Each(cmd, what, hops, mode) == [i \in DOMAIN hops |-> Step(cmd, what, hops[i], mode)]
UpTo(n) == [i \in 1..n |-> i]
Relays == [i \in 1..(Last - 1) |-> i + 1]

\* A node that is not the last has its chain before its service.
Part(i, h) == Step("add", IF i % 2 = 1 THEN "chain" ELSE "svc", h, "build")

\* Variant, not part of Next: from the entry on.
BuildForth ==
    [i \in 1..(2 * (Last - 1)) |-> Part(i, (i + 1) \div 2)]
    \o <<Step("add", "svc", Last, "build")>>

\* createRouteGostServices: the terminal, then the other nodes from the back.
Build ==
    <<Step("add", "svc", Last, "build")>>
    \o [i \in 1..(2 * (Last - 1)) |-> Part(i, Last - (i + 1) \div 2)]

\* cleanupRouteForwardServices
Cleanup(mode) ==
    <<Step("delete", "svc", 1, mode)>>
    \o Each("delete", "chain", UpTo(Last - 1), mode)
    \o Each("delete", "svc", Relays, mode)

\* setRouteForwardServicesPaused
Switch(cmd) == Each(cmd, "svc", UpTo(Last), "must")

\* Variant, not part of Next: every node gets a chain.
GentleChained(h) == <<Step("add", "chain", h, "sync"), Step("add", "svc", h, "sync")>>

\* gentleSyncRouteGostServicesOnNode: the chain is brought up to date, a service that
\* exists is left as it is.
Gentle(h) ==
    (IF h < Last THEN <<Step("add", "chain", h, "sync")>> ELSE <<>>)
    \o <<Step("add", "svc", h, "sync")>>

PlanOf(op) ==
    CASE op = "create"              -> Build
      [] op = "update"              -> Cleanup("must") \o <<Step("save", "row", 1, "must")>>
                                          \o Build
      [] op = "delete"              -> Cleanup("must")
      [] op = "force"               -> Cleanup("try")
      [] op \in {"pause", "resume"} -> Switch(op)

\* With these answers a goroutine goes on.
Accepts(x, answer) ==
    \/ answer = "ok"
    \/ x.cmd = "delete" /\ answer = "not_found"
    \/ x.mode = "sync" /\ x.what = "svc" /\ answer = "already_exists"
    \/ x.mode = "best"

\* Variant, not part of Next: what was deployed before the failure stays.
AdvanceOnly(j, x, answer) ==
    IF Accepts(x, answer) THEN [job[j] EXCEPT !.plan = Tail(@)]
    ELSE IF x.mode = "sync" /\ x.what = "chain" /\ answer = "already_exists"
    THEN [job[j] EXCEPT !.plan = <<Step("update", "chain", x.hop, "sync")>> \o Tail(@)]
    ELSE [job[j] EXCEPT !.plan = <<>>, !.failed = TRUE]

\* Otherwise a chain is updated, a deployment is taken back, or the rest is dropped.
\* There is nothing to take back when the terminal fails.
Advance(j, x, answer) ==
    IF Accepts(x, answer) THEN [job[j] EXCEPT !.plan = Tail(@)]
    ELSE IF x.mode = "sync" /\ x.what = "chain" /\ answer = "already_exists"
    THEN [job[j] EXCEPT !.plan = <<Step("update", "chain", x.hop, "sync")>> \o Tail(@)]
    ELSE IF x.mode = "build" /\ x.hop # Last
    THEN [job[j] EXCEPT !.plan = Cleanup("try"), !.failed = TRUE]
    ELSE [job[j] EXCEPT !.plan = <<>>, !.failed = TRUE]

\* A failure after which nodes and row may differ: but for a command that deploys and
\* is refused.
Stumble(j, x, answer, known) ==
    /\ job' = [job EXCEPT ![j] = [Advance(j, x, answer) EXCEPT !.clean = @ /\ known]]
    /\ disturbed' = (disturbed \/ ~ known)

Answered(j, x) ==
    LET done == Execute(x, job[j].gen) IN
    /\ svc' = [svc EXCEPT ![x.hop] = done.svc]
    /\ chain' = [chain EXCEPT ![x.hop] = done.chain]
    /\ job' = [job EXCEPT ![j] = Advance(j, x, done.answer)]
    /\ UNCHANGED <<faults, disturbed>>

\* The node refuses, a port being taken; or there is no answer in time, whether the
\* command was executed or not.
Fails(j, x) ==
    LET done == Execute(x, job[j].gen) IN
    /\ Fault
    /\ \/ /\ Stumble(j, x, "refused", x.mode = "build")
          /\ UNCHANGED <<svc, chain>>
       \/ /\ Stumble(j, x, "timeout", FALSE)
          /\ UNCHANGED <<svc, chain>>
       \/ /\ Stumble(j, x, "timeout", FALSE)
          /\ svc' = [svc EXCEPT ![x.hop] = done.svc]
          /\ chain' = [chain EXCEPT ![x.hop] = done.chain]

Cleans(x) == x.cmd = "delete" /\ x.mode \in {"must", "try"}

\* Who takes back services leaves out nodes without a session.
Unreachable(j, x) ==
    /\ IF Cleans(x) THEN /\ job' = [job EXCEPT ![j].plan = Tail(@), ![j].clean = FALSE]
                         /\ disturbed' = TRUE
       ELSE Stumble(j, x, "node_offline", x.mode = "build")
    /\ UNCHANGED <<svc, chain, faults>>

Command(j) ==
    /\ job[j].plan # <<>>
    /\ LET x == Head(job[j].plan) IN
       /\ x.cmd # "save"
       /\ \/ x.hop \in online /\ (Answered(j, x) \/ Fails(j, x))
          \/ x.hop \notin online /\ Unreachable(j, x)
    /\ UNCHANGED <<row, online, due>>

SetRow(status, gen) ==
    row' = IF Exists THEN [status |-> status, gen |-> gen] ELSE row

\* updateRouteForward between taking back and deploying.
SaveUpdate(j) ==
    /\ job[j].plan # <<>>
    /\ Head(job[j].plan).cmd = "save"
    /\ SetRow("active", job[j].gen)
    /\ job' = [job EXCEPT ![j].plan = Tail(@), ![j].read.status = "saved"]
    /\ UNCHANGED <<svc, chain, online, due, faults, disturbed>>

-----------------------------------------------------------------------------
(* Goroutines begin and end.                                               *)

Begins(op, g) ==
    CASE op = "create" -> row = Unborn
      [] op = "update" -> Exists /\ g # row.gen
      [] OTHER         -> Exists /\ g = row.gen /\ op # "report"

Begin(j, op, g, plan) ==
    /\ job[j] = NoJob
    /\ job' = [Overlapped EXCEPT ![j] =
                 [op |-> op, read |-> row, gen |-> g, plan |-> plan,
                  failed |-> FALSE, clean |-> Busy = {}]]

StartJob(j, op, g) ==
    /\ Begins(op, g)
    /\ Begin(j, op, g, PlanOf(op))
    /\ row' = IF op = "create" THEN [status |-> "active", gen |-> g] ELSE row
    /\ disturbed' = (disturbed \/ Busy # {})
    /\ UNCHANGED <<svc, chain, online, due, faults>>

\* CleanNodeConfigs: what a node reports of a forward that has no row.
StartReport(j, h) ==
    /\ row = Gone
    /\ svc[h] # None \/ chain[h] # 0
    /\ Begin(j, "report", 0,
             (IF svc[h] # None THEN <<Step("delete", "svc", h, "best")>> ELSE <<>>)
             \o (IF chain[h] # 0 THEN <<Step("delete", "chain", h, "best")>> ELSE <<>>))
    /\ disturbed' = (disturbed \/ Busy # {})
    /\ UNCHANGED <<row, svc, chain, online, due, faults>>

\* After all went well, or not.
RowAfter(g) ==
    CASE g.op \in {"create", "update"} /\ g.failed ->
           IF g.op = "update" /\ g.read.status # "saved" THEN UNCHANGED row
           ELSE SetRow("error", row.gen)
      [] g.op = "delete" /\ ~ g.failed -> row' = Gone
      [] g.op = "force"                -> row' = Gone
      [] g.op = "pause" /\ ~ g.failed  -> SetRow("paused", row.gen)
      [] g.op = "resume" /\ ~ g.failed -> SetRow("active", row.gen)
      [] OTHER                         -> UNCHANGED row

\* An update that nothing interferes with puts right what was wrong.
Repairs(g) == g.op = "update" /\ ~ g.failed /\ g.clean

FinishJob(j) ==
    /\ job[j].op \in AllOps
    /\ job[j].plan = <<>>
    /\ RowAfter(job[j])
    /\ job' = [job EXCEPT ![j] = NoJob]
    /\ disturbed' = (disturbed /\ ~ Repairs(job[j]))
    /\ UNCHANGED <<svc, chain, online, due, faults>>

\* ReconcileNode: reconcileRouteForwards ...  It gives a forward in error to this node
\* only.
StartReconcile(h) ==
    /\ h \in due
    /\ due' = due \ {h}
    /\ Begin(h, "sync", row.gen, IF Exists THEN Gentle(h) ELSE <<>>)
    /\ disturbed' = (disturbed \/ Busy # {} \/ row.status = "error")
    /\ UNCHANGED <<row, svc, chain, online, faults>>

\* TryLock fails.
SkipReconcile(h) ==
    /\ h \in due
    /\ job[h] # NoJob
    /\ due' = due \ {h}
    /\ UNCHANGED <<row, svc, chain, online, job, faults, disturbed>>

\* Variant, not part of Next: a paused forward is not paused again.
FinishSyncOpen(h) ==
    LET g == job[h] IN
    /\ g.op = "sync"
    /\ g.plan = <<>>
    /\ IF g.read.status = "error" /\ ~ g.failed
       THEN SetRow("active", row.gen) ELSE UNCHANGED row
    /\ job' = [job EXCEPT ![h].op = "repause"]
    /\ UNCHANGED <<svc, chain, online, due, faults, disturbed>>

\* An error is over when this node has its part, whatever the others have.
FinishSync(h) ==
    LET g == job[h] IN
    /\ g.op = "sync"
    /\ g.plan = <<>>
    /\ IF g.read.status = "error" /\ ~ g.failed
       THEN SetRow("active", row.gen) ELSE UNCHANGED row
    /\ job' = [job EXCEPT ![h].op = "repause",
                 ![h].plan = IF g.read.status = "paused"
                             THEN <<Step("pause", "svc", h, "best")>> ELSE <<>>]
    /\ UNCHANGED <<svc, chain, online, due, faults, disturbed>>

\* ... and cleanupOrphanServices, which knows of services only.
FinishRepause(h) ==
    /\ job[h].op = "repause"
    /\ job[h].plan = <<>>
    /\ \/ /\ job' = [job EXCEPT ![h].op = "orphans",
                       ![h].plan = IF h \in online /\ row = Gone /\ svc[h] # None
                                   THEN <<Step("delete", "svc", h, "best")>> ELSE <<>>]
          /\ UNCHANGED faults
       \/ Fault /\ job' = [job EXCEPT ![h].op = "orphans"]
    /\ UNCHANGED <<row, svc, chain, online, due, disturbed>>

FinishReconcile(h) ==
    /\ job[h].op = "orphans"
    /\ job[h].plan = <<>>
    /\ job' = [job EXCEPT ![h] = NoJob]
    /\ UNCHANGED <<row, svc, chain, online, due, faults, disturbed>>

-----------------------------------------------------------------------------
(* Nodes.                                                                  *)

Disconnect(h) ==
    /\ h \in online
    /\ Fault
    /\ online' = online \ {h}
    /\ UNCHANGED <<row, svc, chain, due, job, disturbed>>

\* A node that is started again opens every service, the paused ones too.
Restart(h) ==
    /\ Fault
    /\ online' = online \ {h}
    /\ svc' = [svc EXCEPT ![h].open = svc[h] # None]
    /\ job' = Overlapped
    /\ disturbed' = TRUE
    /\ UNCHANGED <<row, chain, due>>

Connect(h) ==
    /\ h \notin online
    /\ online' = online \cup {h}
    /\ due' = due \cup {h}
    /\ UNCHANGED <<row, svc, chain, job, faults, disturbed>>

-----------------------------------------------------------------------------
Init ==
    /\ row = Unborn
    /\ svc = [h \in Hops |-> None]
    /\ chain = [h \in Hops |-> 0]
    /\ online = Hops
    /\ due = Arrived
    /\ job = [j \in Runners |-> NoJob]
    /\ faults = 0
    /\ disturbed = FALSE

Reporting(h) == "report" \in Ops /\ \E j \in Jobs : StartReport(j, h)

Reconciling(h) == \/ StartReconcile(h) \/ SkipReconcile(h)
                  \/ FinishSync(h) \/ FinishRepause(h) \/ FinishReconcile(h)

Next ==
    \/ \E j \in Jobs, op \in Ops, g \in Gens : StartJob(j, op, g)
    \/ \E j \in Jobs : SaveUpdate(j) \/ FinishJob(j)
    \/ \E j \in Runners : Command(j)
    \/ \E h \in Hops : \/ Reporting(h) \/ Reconciling(h)
                       \/ Disconnect(h) \/ Restart(h) \/ Connect(h)

Spec == Init /\ [][Next]_vars

-----------------------------------------------------------------------------
(* Properties.                                                             *)

\* Every variable has its type.
TypeOK ==
    /\ row.status \in {"unborn", "active", "paused", "error", "gone"}
    /\ row.gen \in {0} \cup Gens
    /\ svc \in [Hops -> [gen : {0} \cup Gens, open : BOOLEAN]]
    /\ \A h \in Hops : svc[h].gen = 0 => ~ svc[h].open
    /\ chain \in [Hops -> {0} \cup Gens]
    /\ chain[Last] = 0
    /\ online \subseteq Hops /\ due \subseteq Hops
    /\ faults \in 0..MaxFaults
    /\ disturbed \in BOOLEAN

Whole(g, open) ==
    /\ \A h \in Hops : svc[h] = [gen |-> g, open |-> open]
    /\ \A h \in Hops \ {Last} : chain[h] = g
Bare == \A h \in Hops : svc[h] = None /\ chain[h] = 0

Agree ==
    CASE row.status = "active" -> Whole(row.gen, TRUE)
      [] row.status = "paused" -> Whole(row.gen, FALSE)
      [] OTHER                 -> Bare

\* Requests that do not overlap keep every node of the route as the row says; a
\* deployment that is refused somewhere leaves nothing on any node; and a successful
\* update puts right whatever went wrong before (forward.go:1318-1404, 1487-1540).
UndisturbedAgree == Busy = {} /\ ~ disturbed => Agree

\* While a forward is deployed, changed or taken back, the entry takes connections only
\* when the whole path behind it is in place and fits (forward.go:1487-1584).
EntryLast ==
    ~ disturbed /\ svc[1] # None =>
        /\ \A h \in Hops : svc[h].gen = svc[1].gen
        /\ \A h \in Hops \ {Last} : chain[h] = svc[1].gen

\* After a reconcile without failures, during which nothing else happened, a node has
\* a service and the right chain, and does not serve a paused forward (reconcile.go:257-294).
ReconcileRestores ==
    \A h \in Hops :
        job[h].op = "orphans" /\ job[h].plan = <<>> /\ job[h].clean /\ ~ job[h].failed
            /\ Exists
        => /\ svc[h] # None
           /\ h < Last => chain[h] = row.gen
           /\ row.status = "paused" => ~ svc[h].open
=============================================================================

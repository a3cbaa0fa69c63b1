--------------------------- MODULE ForwardControl ---------------------------
(***************************************************************************)
(* The life of one forward: its row in the panel's database, the services  *)
(* and the chain it needs on the nodes, and the goroutines that change     *)
(* both (go-backend/service: forward.go, reconcile.go, config_check.go,    *)
(* flow.go, user_tunnel.go).                                               *)
(*                                                                         *)
(* A port forward is a pair of services on the in-node.  A tunnel forward  *)
(* also has a chain there and a remote service on the out-node.  Nothing   *)
(* locks a forward: a goroutine reads the row, sends its commands one by   *)
(* one, and writes the row.                                                *)
(***************************************************************************)
EXTENDS Naturals, Sequences, FiniteSets

CONSTANTS
    Tunnel,     \* TRUE: a tunnel forward; FALSE: a port forward
    Targets,    \* contents of the forward: remote addresses, strategy
    Jobs,       \* goroutines that serve requests and node reports
    Ops,        \* what these goroutines do: a subset of AllOps
    MaxFaults   \* bound: commands lost, late or failing; crashes; disconnections

AllOps == {"create", "rename", "hot", "rebuild", "relisten", "respeed",
           "delete", "force", "pause", "resume", "limit", "report"}

ASSUME ControlAssumption ==
    /\ Tunnel \in BOOLEAN
    /\ "none" \notin Targets
    /\ Jobs \cap {"in", "out"} = {}
    /\ Ops \subseteq AllOps
    /\ MaxFaults \in Nat

\* The names a command is about: the pair <name>_tcp and <name>_udp, the remote
\* service <name>_tls, the chain <name>_chains.
Main   == {"tcp", "udp"}
Remote == {"tls"}
Chain  == {"chain"}

Names == IF Tunnel THEN Main \cup Remote \cup Chain ELSE Main
Nodes == IF Tunnel THEN {"in", "out"} ELSE {"in"}
Host(s) == IF s \in Remote THEN "out" ELSE "in"
HostOf(N) == IF N \subseteq Remote THEN "out" ELSE "in"
On(n) == {s \in Names : Host(s) = n}

VARIABLES
    row,        \* the forward's row: status and target
    svc,        \* what the nodes have under the forward's names
    up,         \* nodes whose process runs
    online,     \* nodes with a session
    late,       \* commands whose caller has timed out, still to be executed
    due,        \* nodes that came online and wait for their reconcile
    job,        \* goroutines; the one named like a node is its reconcile
    faults,     \* what MaxFaults bounds
    disturbed   \* auxiliary: row and services may disagree, and why is known

vars == <<row, svc, up, online, late, due, job, faults, disturbed>>

Unborn == [status |-> "unborn", target |-> "none"]
Gone   == [status |-> "gone", target |-> "none"]
Exists == row.status \in {"active", "paused", "error"}

\* Under a name: whether it is registered, and serves; its content; in the node's
\* configuration the content of the first entry of that name, whether it is marked
\* as paused, and whether there are more.
Nothing == [reg |-> "absent", target |-> "none",
            kept |-> "none", mark |-> FALSE, twice |-> FALSE]
Registered == {s \in Names : svc[s].reg # "absent"}

Runners == Jobs \cup Nodes
NoJob == [op |-> "idle", snap |-> Unborn, new |-> "none", plan |-> <<>>,
          failed |-> FALSE, clean |-> TRUE]
Busy == {j \in Runners : job[j] # NoJob}

\* Goroutines under way when something else happens to the forward.
Overlapped == [j \in Runners |-> IF j \in Busy THEN [job[j] EXCEPT !.clean = FALSE]
                                 ELSE job[j]]

Fault == faults < MaxFaults /\ faults' = faults + 1

-----------------------------------------------------------------------------
(* Commands, as a node executes them (module GostNode).                    *)

\* What the names in N become, the others staying as they are.
Become(N, new) == [s \in Names |-> IF s \in N THEN new[s] ELSE svc[s]]

\* Variant, not part of Next: the configuration is not told.
CreatedUnkept(N, t) ==
    Become(N, [s \in N |-> [svc[s] EXCEPT !.reg = "open", !.target = t]])

Created(N, t) ==
    Become(N, [s \in N |->
        IF svc[s].kept = "none"
        THEN [Nothing EXCEPT !.reg = "open", !.target = t, !.kept = t]
        ELSE [svc[s] EXCEPT !.reg = "open", !.target = t, !.twice = TRUE]])

Updated(N, t) ==
    Become(N, [s \in N |-> [svc[s] EXCEPT !.reg = "open", !.target = t, !.kept = t,
                                          !.mark = FALSE]])

Deleted(N) == Become(N, [s \in N |-> Nothing])

PausedAll(N) ==
    Become(N, [s \in N |-> [svc[s] EXCEPT !.reg = "closed", !.mark = TRUE]])

Marked(N) == {s \in N : svc[s].mark}

\* What is marked is re-created from its first entry.
Resumed(N) ==
    Become(Marked(N), [s \in N |-> [svc[s] EXCEPT !.reg = "open", !.target = svc[s].kept,
                                                  !.mark = FALSE]])

Retargeted(N, t) ==
    Become(N, [s \in N |-> [svc[s] EXCEPT !.target = t, !.kept = t]])

\* The pair is looked up service by service: the first may be told alone.
HalfRetargeted(N, t) ==
    IF "udp" \in Registered THEN svc
    ELSE Become(N \cap Registered, [s \in N |-> [svc[s] EXCEPT !.target = t]])

\* The answer and the services when nothing goes wrong on the node.
Result(a, v) == [answer |-> a, svc |-> v]

Execute(c, N, t) ==
    IF c = "add"
    THEN IF N \cap Registered = {} THEN Result("ok", Created(N, t))
         ELSE Result("already_exists", svc)
    ELSE IF ~ (N \subseteq Registered)
    THEN Result("not_found", IF c = "forwarder" THEN HalfRetargeted(N, t) ELSE svc)
    ELSE Result("ok", CASE c = "update"    -> Updated(N, t)
                        [] c = "delete"    -> Deleted(N)
                        [] c = "pause"     -> PausedAll(N)
                        [] c = "resume"    -> Resumed(N)
                        [] c = "forwarder" -> Retargeted(N, t))

\* A listener cannot be opened: services of the batch are lost, their
\* configuration is not.
Lost(s) == [svc[s] EXCEPT !.reg = "absent", !.target = "none"]

HalfUpdated(N, t, D) ==
    Become(N, [s \in N |-> IF s \in D THEN [svc[s] EXCEPT !.reg = "open", !.target = t]
                           ELSE Lost(s)])

HalfResumed(N, D, f) ==
    Become(D \cup {f}, [s \in N |->
        IF s = f THEN Lost(s)
        ELSE [svc[s] EXCEPT !.reg = "closed", !.target = svc[s].kept]])

\* A chain has no listener.
Damaged(c, N, t) ==
    \/ /\ c = "add" /\ N # Chain /\ N \cap Registered = {}
       /\ svc' = svc
    \/ /\ c = "update" /\ N # Chain /\ N \subseteq Registered
       /\ \E D \in (SUBSET N) \ {N} : svc' = HalfUpdated(N, t, D)
    \/ /\ c = "resume" /\ N \subseteq Registered
       /\ \E D \in SUBSET Marked(N), f \in Marked(N) : svc' = HalfResumed(N, D, f)

-----------------------------------------------------------------------------
(* Plans: the commands a goroutine has still to send.                      *)

Step(c, N, m) == [cmd |-> c, names |-> N, mode |-> m]
Steps(c, order, m) == [i \in DOMAIN order |-> Step(c, order[i], m)]

\* Variant, not part of Next: the remote service is forgotten.
RemoveOrderLocal == IF Tunnel THEN <<Main, Chain>> ELSE <<Main>>

BuildOrder  == IF Tunnel THEN <<Chain, Remote, Main>> ELSE <<Main>>
RemoveOrder == IF Tunnel THEN <<Main, Chain, Remote>> ELSE <<Main>>
SwitchOrder == IF Tunnel THEN <<Main, Remote>> ELSE <<Main>>
Forwarding  == IF Tunnel THEN Remote ELSE Main

SyncPlan == Steps("update", BuildOrder, "sync")

PlanOf(op) ==
    CASE op = "create"   -> Steps("add", BuildOrder, "create")
      [] op = "hot"      -> <<Step("forwarder", Forwarding, "hot")>>
      [] op = "rebuild"  -> SyncPlan
      [] op = "relisten" -> Steps("delete", RemoveOrder, "best")
                              \o Steps("add", BuildOrder, "create")
      [] op = "respeed"  -> <<Step("update", Main, "best")>>
      [] op = "delete"   -> IF Nodes \subseteq online
                            THEN Steps("delete", RemoveOrder, "delete") ELSE <<>>
      [] op = "force"    -> Steps("delete", RemoveOrder, "best")
      [] op = "pause"    -> Steps("pause", SwitchOrder, "must")
      [] op = "resume"   -> Steps("resume", SwitchOrder, "must")
      [] op = "limit"    -> Steps("pause", SwitchOrder, "best")
      [] OTHER           -> <<>>

\* Variant, not part of Next: what exists is taken to be right.
AcceptsExisting(x, answer) ==
    answer = "ok" \/ x.mode = "best" \/ answer = "already_exists"

\* The answers with which a goroutine goes on to its next command ...
Accepts(x, answer) ==
    \/ answer = "ok"
    \/ x.mode = "best"
    \/ x.mode = "delete" /\ answer = "not_found"
    \/ /\ x.mode = "gentle" /\ x.cmd = "add" /\ answer = "already_exists"
       /\ x.names # Forwarding

\* ... and those for which it sends something else first.
FallsBack(x, answer) ==
    \/ x.mode = "sync" /\ x.cmd = "update" /\ answer = "not_found"
    \/ /\ x.mode = "gentle" /\ x.cmd = "add" /\ answer = "already_exists"
       /\ x.names = Forwarding
    \/ x.mode = "hot" /\ answer # "ok"

Instead(x) ==
    CASE x.mode = "sync"   -> <<Step("add", x.names, "sync")>>
      [] x.mode = "gentle" -> <<Step("forwarder", x.names, "gentle")>>
      [] x.mode = "hot"    -> SyncPlan

\* What createGostServices takes back when a command fails.
Compensation(x) ==
    IF x.mode # "create" \/ ~ Tunnel THEN <<>>
    ELSE <<Step("delete", Chain, "best")>>
         \o (IF x.names = Chain THEN <<>> ELSE <<Step("delete", Remote, "best")>>)

Advance(j, x, answer) ==
    LET rest == Tail(job[j].plan) IN
    IF Accepts(x, answer) THEN [job[j] EXCEPT !.plan = rest]
    ELSE IF FallsBack(x, answer) THEN [job[j] EXCEPT !.plan = Instead(x) \o rest]
    ELSE [job[j] EXCEPT !.plan = Compensation(x), !.failed = TRUE]

\* After a command that failed for a reason the row does not show.
Stumble(j, x, answer) ==
    /\ job' = [job EXCEPT ![j] = [Advance(j, x, answer) EXCEPT !.clean = FALSE]]
    /\ disturbed' = TRUE

Answered(j, x) ==
    LET done == Execute(x.cmd, x.names, job[j].new) IN
    /\ late[HostOf(x.names)] = <<>>
    /\ svc' = done.svc
    /\ job' = [job EXCEPT ![j] = Advance(j, x, done.answer)]
    /\ UNCHANGED <<late, faults, disturbed>>

NodeFails(j, x) ==
    /\ late[HostOf(x.names)] = <<>>
    /\ Fault
    /\ Damaged(x.cmd, x.names, job[j].new)
    /\ Stumble(j, x, "failed")
    /\ UNCHANGED late

\* No answer in time: it was lost, or the command was, or it is under way.
TimesOut(j, x) ==
    LET n == HostOf(x.names)
        done == Execute(x.cmd, x.names, job[j].new) IN
    /\ Fault
    /\ \/ late[n] = <<>> /\ svc' = done.svc /\ UNCHANGED late
       \/ UNCHANGED <<svc, late>>
       \/ /\ late' = [late EXCEPT ![n] = Append(@,
                        [cmd |-> x.cmd, names |-> x.names, target |-> job[j].new])]
          /\ UNCHANGED svc
    /\ Stumble(j, x, "timeout")

Unreachable(j, x, answer) ==
    /\ Stumble(j, x, answer)
    /\ UNCHANGED <<svc, late, faults>>

\* SendMsg for the next command of the plan.
Command(j) ==
    /\ job[j].plan # <<>>
    /\ LET x == Head(job[j].plan)
           n == HostOf(x.names) IN
       \/ n \in online \cap up /\ (Answered(j, x) \/ NodeFails(j, x) \/ TimesOut(j, x))
       \/ n \in online \ up /\ Unreachable(j, x, "timeout")
       \/ n \notin online /\ Unreachable(j, x, "node_offline")
    /\ UNCHANGED <<row, up, online, due>>

\* A command executed after its caller gave up.
ExecuteLate(n) ==
    /\ n \in up
    /\ late[n] # <<>>
    /\ LET x == Head(late[n]) IN svc' = Execute(x.cmd, x.names, x.target).svc
    /\ late' = [late EXCEPT ![n] = Tail(@)]
    /\ job' = Overlapped
    /\ disturbed' = TRUE
    /\ UNCHANGED <<row, up, online, due, faults>>

-----------------------------------------------------------------------------
(* Goroutines begin: they read the row, and plan.                          *)

\* Variant, not part of Next: a hot update returns before the row is saved.
EditsUnsaved == {"rename", "rebuild", "relisten"}

Edits == {"rename", "hot", "rebuild", "relisten"}

\* What the row lets a request do, with the content it leads to.
Begins(op, t) ==
    CASE op = "create"              -> row = Unborn
      [] op = "hot"                 -> Exists /\ t # row.target
      [] op \in {"rebuild", "relisten"} -> Exists
      [] op = "limit"               -> Exists /\ row.status # "paused" /\ t = row.target
      [] op = "report"              -> FALSE
      [] OTHER                      -> Exists /\ t = row.target

\* Operations that leave services and row apart although nothing fails: an edit
\* of a paused forward makes the row active, a new speed makes the services
\* run, a forward is deleted while a node is away.
Disturbs(op) ==
    \/ row.status # "active" /\ op \in {"rename", "hot", "respeed"}
    \/ op = "delete" /\ ~ (Nodes \subseteq online)

Begin(j, op, t, plan) ==
    /\ job[j] = NoJob
    /\ job' = [Overlapped EXCEPT ![j] =
                 [op |-> op, snap |-> row, new |-> t, plan |-> plan,
                  failed |-> FALSE, clean |-> Busy = {}]]

StartJob(j, op, t) ==
    /\ Begins(op, t)
    /\ Begin(j, op, t, PlanOf(op))
    /\ row' = IF op = "create" THEN [status |-> "active", target |-> t] ELSE row
    /\ disturbed' = (disturbed \/ Busy # {} \/ Disturbs(op))
    /\ UNCHANGED <<svc, up, online, late, due, faults>>

\* CleanNodeConfigs on the report of node n: for each service or chain in its
\* configuration that no row accounts for, the part is deleted.
Configured(n) == {s \in On(n) : svc[s].kept # "none"}

PartOf(s) == IF s \in Main THEN Main ELSE {s}

Found(s, n) == IF s \in Configured(n) THEN <<Step("delete", PartOf(s), "best")>> ELSE <<>>

\* Variant, not part of Next: only remote services and chains are told apart.
ReportPlanRemote(n) == Found("tls", n) \o Found("chain", n)

ReportPlan(n) == Found("tcp", n) \o Found("udp", n) \o Found("tls", n) \o Found("chain", n)

StartReport(j, n) ==
    /\ row = Gone
    /\ n \in up
    /\ Configured(n) # {}
    /\ Begin(j, "report", "none", ReportPlan(n))
    /\ disturbed' = (disturbed \/ Busy # {})
    /\ UNCHANGED <<row, svc, up, online, late, due, faults>>

\* ReconcileNode: reconcileForwards first.  One that finds the lock taken is not made:
\* here it waits, and need not ever start.
StartReconcile(n) ==
    /\ n \in due
    /\ Begin(n, "reconcile", row.target,
             IF Exists THEN Steps("add", BuildOrder, "gentle") ELSE <<>>)
    /\ due' = due \ {n}
    /\ disturbed' = (disturbed \/ Busy # {})
    /\ UNCHANGED <<row, svc, up, online, late, faults>>

-----------------------------------------------------------------------------
(* Goroutines end: they write the row.                                     *)

SetRow(status, target) ==
    row' = IF Exists THEN [status |-> status, target |-> target] ELSE row

\* The row after operation op of a goroutine g.
RowAfter(op, g) ==
    CASE op = "create" /\ g.failed     -> SetRow("error", row.target)
      [] op \in Edits /\ g.failed      -> SetRow("error", row.target)
      [] op \in Edits /\ ~ g.failed    -> SetRow("active", g.new)
      [] op = "delete" /\ ~ g.failed   -> row' = Gone
      [] op = "force"                  -> row' = Gone
      [] op = "pause" /\ ~ g.failed    -> SetRow("paused", row.target)
      [] op = "resume" /\ ~ g.failed   -> SetRow("active", row.target)
      [] op = "limit"                  -> SetRow("paused", row.target)
      [] OTHER                         -> UNCHANGED row

\* A complete rebuild that nothing interfered with puts everything right, but
\* for a second entry in a configuration: the older one will be resumed.
Repairs(op, g) ==
    /\ op = "rebuild" /\ g.clean /\ ~ g.failed
    /\ \A n \in Nodes : late[n] = <<>>
    /\ \A s \in Names : ~ svc[s].twice

FinishJob(j) ==
    LET g == job[j] IN
    /\ g.op \in AllOps
    /\ g.plan = <<>>
    /\ RowAfter(g.op, g)
    /\ job' = [job EXCEPT ![j] = NoJob]
    /\ disturbed' = (disturbed /\ ~ Repairs(g.op, g))
    /\ UNCHANGED <<svc, up, online, late, due, faults>>

\* A reconcile goes on to its next part.
Onward(n, op, plan) == [job EXCEPT ![n].op = op, ![n].plan = plan]

\* reconcileForwards: an error is over; what was read as paused is paused again
\* on this node.
FinishSync(n) ==
    LET g == job[n] IN
    /\ g.op = "reconcile"
    /\ g.plan = <<>>
    /\ IF g.snap.status = "error" /\ ~ g.failed THEN SetRow("active", row.target)
       ELSE UNCHANGED row
    /\ job' = Onward(n, "repause", IF g.snap.status = "paused"
                                   THEN <<Step("pause", On(n) \ Chain, "best")>> ELSE <<>>)
    /\ UNCHANGED <<svc, up, online, late, due, faults, disturbed>>

Orphans(n) == (Registered \cap On(n)) \ Chain

\* cleanupOrphanServices: the services the node names, if there is no row, are
\* deleted in one command; if it names none in time, none.
FinishRepause(n) ==
    LET found == n \in online \cap up /\ row = Gone /\ Orphans(n) # {} IN
    /\ job[n].op = "repause"
    /\ job[n].plan = <<>>
    /\ \/ /\ found
          /\ job' = Onward(n, "orphans", <<Step("delete", Orphans(n), "best")>>)
          /\ UNCHANGED faults
       \/ ~ found /\ job' = Onward(n, "orphans", <<>>) /\ UNCHANGED faults
       \/ Fault /\ job' = Onward(n, "orphans", <<>>)
    /\ UNCHANGED <<row, svc, up, online, late, due, disturbed>>

FinishReconcile(n) ==
    /\ job[n].op = "orphans"
    /\ job[n].plan = <<>>
    /\ job' = [job EXCEPT ![n] = NoJob]
    /\ UNCHANGED <<row, svc, up, online, late, due, faults, disturbed>>

-----------------------------------------------------------------------------
(* Nodes.                                                                  *)

NodeCrash(n) ==
    /\ n \in up
    /\ Fault
    /\ up' = up \ {n}
    /\ svc' = Become(On(n), [s \in Names |-> Lost(s)])
    /\ late' = [late EXCEPT ![n] = <<>>]
    /\ job' = Overlapped
    /\ disturbed' = TRUE
    /\ UNCHANGED <<row, online, due>>

\* Every service of runtime.json runs again, the paused ones too; with two
\* entries of a name the process does not start.
NodeBoot(n) ==
    /\ n \notin up \cup online
    /\ \A s \in On(n) : ~ svc[s].twice
    /\ up' = up \cup {n}
    /\ svc' = Become(Configured(n), [s \in Names |->
                               [svc[s] EXCEPT !.reg = "open", !.target = svc[s].kept]])
    /\ UNCHANGED <<row, online, late, due, job, faults, disturbed>>

\* Commands not read yet are lost; one may be under way.
Disconnect(n) ==
    /\ n \in online
    /\ IF n \in up THEN Fault ELSE UNCHANGED faults
    /\ online' = online \ {n}
    /\ \/ late' = [late EXCEPT ![n] = <<>>]
       \/ late[n] # <<>> /\ late' = [late EXCEPT ![n] = <<Head(@)>>]
    /\ UNCHANGED <<row, svc, up, due, job, disturbed>>

Connect(n) ==
    /\ n \in up \ online
    /\ online' = online \cup {n}
    /\ due' = due \cup {n}
    /\ UNCHANGED <<row, svc, up, late, job, faults, disturbed>>

-----------------------------------------------------------------------------
Init ==
    /\ row = Unborn
    /\ svc = [s \in Names |-> Nothing]
    /\ up = Nodes
    /\ online = Nodes
    /\ late = [n \in Nodes |-> <<>>]
    /\ due = {}
    /\ job = [j \in Runners |-> NoJob]
    /\ faults = 0
    /\ disturbed = FALSE

Reporting(n) == "report" \in Ops /\ \E j \in Jobs : StartReport(j, n)

Reconciling(n) ==
    FinishSync(n) \/ FinishRepause(n) \/ FinishReconcile(n)

Next ==
    \/ \E j \in Jobs, op \in Ops, t \in Targets : StartJob(j, op, t)
    \/ \E j \in Jobs : FinishJob(j)
    \/ \E j \in Runners : Command(j)
    \/ \E n \in Nodes : \/ Reporting(n) \/ ExecuteLate(n)
                        \/ StartReconcile(n) \/ Reconciling(n)
                        \/ NodeCrash(n) \/ NodeBoot(n)
                        \/ Disconnect(n) \/ Connect(n)

\* Goroutines run and commands end; nodes report, are started again and
\* reconnect.  Strong for reports: each has a goroutine of its own, whatever
\* others are doing.  None for the start of a reconcile, which may be skipped.
Fairness ==
    /\ \A j \in Runners : WF_vars(Command(j))
    /\ \A j \in Jobs : WF_vars(FinishJob(j))
    /\ \A n \in Nodes : /\ SF_vars(Reporting(n))
                        /\ WF_vars(Reconciling(n))
                        /\ WF_vars(ExecuteLate(n))
                        /\ WF_vars(NodeBoot(n))
                        /\ WF_vars(Disconnect(n) /\ n \notin up)
                        /\ WF_vars(Connect(n))

Safe == Init /\ [][Next]_vars

Spec == Safe /\ Fairness

-----------------------------------------------------------------------------
(* Properties.                                                             *)

Contents == Targets \cup {"none"}
Commands == [cmd: {"add", "update", "delete", "pause", "resume", "forwarder"},
             names: SUBSET Names]

\* Every variable has its type.
TypeOK ==
    /\ row.status \in {"unborn", "active", "paused", "error", "gone"}
    /\ row.target \in Contents
    /\ \A s \in Names : /\ svc[s].reg \in {"absent", "open", "closed"}
                        /\ svc[s].target \in Contents
                        /\ svc[s].kept \in Contents
                        /\ svc[s].mark \in BOOLEAN /\ svc[s].twice \in BOOLEAN
                        /\ svc[s].reg # "absent" \/ svc[s].twice => svc[s].kept # "none"
    /\ up \in SUBSET Nodes /\ online \in SUBSET Nodes /\ due \in SUBSET Nodes
    /\ \A n \in Nodes : \A i \in DOMAIN late[n] :
         [cmd |-> late[n][i].cmd, names |-> late[n][i].names] \in Commands
    /\ faults \in 0..MaxFaults
    /\ disturbed \in BOOLEAN

\* The nodes are as the row says.
Runs(N)    == \A s \in N : svc[s].reg = "open"
Rests(N)   == \A s \in N : svc[s].reg # "open"
Forwards(t) == \A s \in Forwarding : svc[s].target = t

Agree ==
    CASE row.status = "active" -> Runs(Names) /\ Forwards(row.target)
      [] row.status = "paused" -> /\ Names \subseteq Registered
                                  /\ Rests((Main \cup Remote) \cap Names)
                                  /\ Forwards(row.target)
      [] row.status = "error"  -> FALSE
      [] OTHER                 -> Registered = {}

\* Requests that do not overlap, on nodes that answer, keep the row true; and a
\* complete rebuild that succeeds undisturbed makes it true again, whatever
\* failures, overlaps and late commands came before (forward.go:1129-1166).
UndisturbedAgree == Busy = {} /\ ~ disturbed => Agree

\* A reconcile of node n that has sent its commands, without a failure and with
\* nothing happening to the forward meanwhile.
Reconciled(n) ==
    job[n].op = "orphans" /\ job[n].plan = <<>> /\ job[n].clean /\ ~ job[n].failed

\* What is left when an update has replaced one of a tunnel's two services and failed on
\* the other: adding the pair is refused because one exists, and that is accepted.
HalfPair == Tunnel /\ Main \cap Registered # {} /\ ~ (Main \subseteq Registered)

\* Then every service and chain of an existing forward is registered, a tunnel's half
\* pair alone excepted, and forwards to the row's content, a paused forward is not
\* served by the node, and an error is over, whatever the node had lost
\* (reconcile.go:155-196, 204-255).
ReconcileRestores ==
    \A n \in Nodes : Reconciled(n) /\ Exists =>
        /\ HalfPair \/ Main \subseteq Registered
        /\ Names \ Main \subseteq Registered
        /\ Forwards(row.target)
        /\ row.status # "error"
        /\ row.status = "paused" /\ ~ HalfPair => Rests(On(n) \ Chain)

\* A complete pair of services of a deleted forward does not stay: the next
\* reconcile or report of the node's configuration removes it
\* (config_check.go:95-108, reconcile.go cleanupOrphanServices).
OrphansGo == row = Gone ~> row = Gone /\ ~ (Main \subseteq Registered)
=============================================================================

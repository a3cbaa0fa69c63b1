---------------------------- MODULE XrayControl ----------------------------
(***************************************************************************)
(* Xray as the panel sees it: the rows of inbounds and clients, and what   *)
(* the node has of them (go-backend/service: xray_inbound.go,              *)
(* xray_client.go, xray_scheduler.go, flow.go, reconcile.go).              *)
(*                                                                         *)
(* A request changes the row, sends its commands, and puts the row back    *)
(* when one fails.  Reports of traffic and the hourly check switch clients *)
(* off and on and do not look at the answers.  Nothing locks a row.        *)
(***************************************************************************)
EXTENDS Naturals, Sequences, FiniteSets

CONSTANTS
    Last,       \* the inbounds are 1 to Last
    Clients,
    InboundOf,  \* client -> its inbound
    MaxGen,     \* bound: inbound -> contents it can have, one after the other
    Limit,      \* the traffic a client may have, and the bound on it
    Jobs,       \* goroutines that serve requests, reports and the hourly check
    Ops,        \* what they do: a subset of AllOps
    MaxFaults   \* bound: commands that fail, sessions and processes that end

AllOps == {"createInbound", "updateInbound", "deleteInbound", "enable", "disable",
           "createClient", "updateClient", "deleteClient", "reset", "check",
           "traffic", "expel"}

Inbounds == 1..Last

ASSUME PanelAssumption ==
    /\ Last \in Nat \ {0} /\ MaxGen \in [Inbounds -> Nat \ {0}] /\ Limit \in Nat \ {0}
    /\ InboundOf \in [Clients -> Inbounds]
    /\ Ops \subseteq AllOps
    /\ MaxFaults \in Nat
    /\ "reconcile" \notin Jobs

VARIABLES
    inbound,    \* rows: enable is "on" (1), "off" (0) or "error" (-1)
    client,     \* rows: enable, traffic, and has updated_time been written since the
                \* last reset cycle ended
    xray,       \* the node: does Xray run, and the inbounds it has with their users
    online,     \* the node has a session
    due,        \* it came online and waits for its reconcile
    job,        \* goroutines
    faults,
    excused,    \* auxiliary: clients an administrator let go beyond their limit
    disturbed   \* auxiliary: inbounds, and 0 for the process, that may differ
                \* from the rows, and why is known

vars == <<inbound, client, xray, online, due, job, faults, excused, disturbed>>

Unborn == [enable |-> "unborn", gen |-> 0]
Gone   == [enable |-> "gone", gen |-> 0]
Row(enable, gen) == [enable |-> enable, gen |-> gen]
Exists(i) == inbound[i].enable \in {"on", "off", "error"}
Enabled == {i \in Inbounds : inbound[i].enable = "on"}

NoClient == [enable |-> "none", used |-> 0, written |-> TRUE]
HasRow(c) == client[c].enable # "none"
ClientsOf(i) == {c \in Clients : InboundOf[c] = i}

Absent == [gen |-> 0, users |-> {}]

\* Variant, not part of Next: clients of every inbound.
MergedAll(i, gen) == [gen |-> gen, users |-> {c \in Clients : client[c].enable = "on"}]

\* mergeClientsIntoSettings
Merged(i, gen) == [gen |-> gen, users |-> {c \in ClientsOf(i) : client[c].enable = "on"}]

Runners == Jobs \cup {"reconcile"}
NoJob == [op |-> "idle", i |-> 1, c |-> "", inbound |-> Unborn, client |-> NoClient,
          want |-> "", all |-> [i \in Inbounds |-> Absent], plan |-> <<>>,
          failed |-> FALSE, clean |-> TRUE]
Busy == {j \in Runners : job[j] # NoJob}
Overlapped == [j \in Runners |-> IF j \in Busy THEN [job[j] EXCEPT !.clean = FALSE]
                                 ELSE job[j]]
All == {0} \cup Inbounds

Fault == faults < MaxFaults /\ faults' = faults + 1

-----------------------------------------------------------------------------
(* Commands, as the node executes them (module XrayNode).                  *)

Result(ok, x) == [ok |-> ok, xray |-> x]
Put(i, content) == [xray EXCEPT !.at[i] = content]
Reachable(i) == xray.runs /\ xray.at[i] # Absent

\* What an added inbound consists of.
Content(j, x) == IF job[j].op = "reconcile" THEN job[j].all[x.i] ELSE Merged(x.i, x.gen)

\* An inbound starts Xray when it does not run, with all the file has; a user that is
\* there already is lost.
Execute(j, x) ==
    LET here == xray.at[x.i] IN
    CASE x.do = "stop"  -> Result(TRUE, [xray EXCEPT !.runs = FALSE])
      [] x.do = "apply" -> Result(TRUE, [runs |-> TRUE, at |-> job[j].all])
      [] x.do = "addInbound" ->
           IF Reachable(x.i) THEN Result(FALSE, xray)
           ELSE Result(TRUE, [Put(x.i, Content(j, x)) EXCEPT !.runs = TRUE])
      [] x.do \notin {"stop", "apply", "addInbound"} /\ ~ Reachable(x.i) ->
           Result(FALSE, xray)
      [] x.do = "removeInbound" /\ Reachable(x.i) -> Result(TRUE, Put(x.i, Absent))
      [] x.do = "removeClient" /\ Reachable(x.i) ->
           Result(TRUE, Put(x.i, [here EXCEPT !.users = @ \ {x.c}]))
      [] x.do = "addClient" /\ Reachable(x.i) ->
           IF x.c \in here.users
           THEN Result(FALSE, Put(x.i, [here EXCEPT !.users = @ \ {x.c}]))
           ELSE Result(TRUE, Put(x.i, [here EXCEPT !.users = @ \cup {x.c}]))

-----------------------------------------------------------------------------
(* Plans: what a goroutine has still to do.  A step is a command to the    *)
(* node ("must" succeed; or one "tries"), or a write to the database.      *)

Step(do, i, c, gen, mode) == <<[do |-> do, i |-> i, c |-> c, gen |-> gen, mode |-> mode]>>
AddInbound(i, gen, mode) == Step("addInbound", i, "", gen, mode)
RemoveInbound(i, mode) == Step("removeInbound", i, "", 0, mode)
AddClient(c, mode) == Step("addClient", InboundOf[c], c, 0, mode)
RemoveClient(c, mode) == Step("removeClient", InboundOf[c], c, 0, mode)
Stop == Step("stop", 0, "", 0, "try")
Write(what) == Step(what, 0, "", 0, "row")

IsCommand(x) == x.mode # "row"

\* Variant, not part of Next: the old inbound is put back into the database only.
RemedyRow(g, x) ==
    CASE g.op = "createInbound" -> Write("error")
      [] g.op = "updateInbound" -> Write("revertInbound")
      [] g.op = "enable"        -> Write("off")
      [] g.op = "createClient"  -> Write("dropClient")
      [] g.op = "updateClient"  -> Write("revertClient")
      [] g.op = "reconcile"     -> Write("tags")
      [] OTHER                  -> <<>>

\* After a command that had to succeed and did not.
Remedy(g, x) ==
    CASE g.op = "createInbound" -> Write("error")
      [] g.op = "updateInbound" ->
           (IF x.do = "addInbound" THEN AddInbound(g.i, g.inbound.gen, "try") ELSE <<>>)
           \o Write("revertInbound")
      [] g.op = "enable"       -> Write("off")
      [] g.op = "createClient" -> Write("dropClient")
      [] g.op = "updateClient" ->
           Write("revertClient")
           \o (IF x.do = "addClient" /\ g.client.enable = "on"
               THEN AddClient(g.c, "try") ELSE <<>>)
      [] g.op = "reconcile"    -> Write("tags")
      [] OTHER                 -> <<>>

Advance(j, x, ok) ==
    IF ok \/ x.mode # "must" THEN [job[j] EXCEPT !.plan = Tail(@)]
    ELSE [job[j] EXCEPT !.plan = Remedy(job[j], x), !.failed = TRUE]

\* Enabling what is enabled switches off a row that the node serves.
Answered(j, x) ==
    LET done == Execute(j, x)  g == job[j] IN
    /\ xray' = done.xray
    /\ job' = [job EXCEPT ![j] = Advance(j, x, done.ok)]
    /\ disturbed' = IF g.op = "enable" /\ ~ done.ok THEN disturbed \cup {0, g.i}
                    ELSE disturbed
    /\ UNCHANGED faults

\* The node refuses, and all is as it was but where Xray was to be started; or there is
\* no answer in time, whether the command was executed or not.
Fails(j, x) ==
    LET starts == x.do = "addInbound" /\ ~ xray.runs
        known  == x.mode = "must" /\ ~ starts /\ job[j].op # "enable"
        failed == [Advance(j, x, FALSE) EXCEPT !.failed = TRUE]
    IN
    /\ Fault
    /\ \/ /\ job' = [job EXCEPT ![j] = failed]
          /\ xray' = IF starts THEN Put(x.i, Content(j, x)) ELSE xray
          /\ disturbed' = IF known THEN disturbed ELSE disturbed \cup {0, x.i}
       \/ /\ job' = [job EXCEPT ![j] = failed]
          /\ xray' \in {xray, Execute(j, x).xray}
          /\ disturbed' = IF x.do = "apply" THEN All ELSE disturbed \cup {0, x.i}
       \/ /\ x.mode = "first"
          /\ job' = [job EXCEPT ![j].plan =
                       Step("apply", 0, "", 0, "must") \o Write("recover") \o Write("tags")]
          /\ UNCHANGED <<xray, disturbed>>

Unreachable(j, x) ==
    /\ job' = [job EXCEPT ![j] = [Advance(j, x, FALSE) EXCEPT !.failed = TRUE]]
    /\ disturbed' = IF x.mode = "must" /\ job[j].op # "enable" THEN disturbed
                    ELSE disturbed \cup {0, x.i}
    /\ UNCHANGED <<xray, faults>>

Command(j) ==
    /\ job[j].plan # <<>>
    /\ LET x == Head(job[j].plan) IN
       /\ IsCommand(x)
       /\ \/ online /\ (Answered(j, x) \/ Fails(j, x))
          \/ ~ online /\ Unreachable(j, x)
    /\ UNCHANGED <<inbound, client, online, due, excused>>

-----------------------------------------------------------------------------
(* Writes to the database after the first one of an operation.             *)

At(j, what) == job[j].plan # <<>> /\ Head(job[j].plan) = Head(Write(what))
Next1(j) == job' = [job EXCEPT ![j].plan = Tail(@)]
Instead(j, plan) == job' = [job EXCEPT ![j].plan = plan \o Tail(@)]

SetInbound(i, e) ==
    inbound' = IF Exists(i) THEN [inbound EXCEPT ![i].enable = e] ELSE inbound
SetClient(c, e) ==
    client' = IF HasRow(c) THEN [client EXCEPT ![c].enable = e] ELSE client

\* DB.Save of the row as it was read makes a row that is gone again.
WriteInbound(j) ==
    LET i == job[j].i IN
    /\ \/ At(j, "off") /\ SetInbound(i, "off")
       \/ At(j, "error") /\ SetInbound(i, "error")
       \/ At(j, "revertInbound") /\ inbound' = [inbound EXCEPT ![i] = job[j].inbound]
       \/ /\ At(j, "recover")
          /\ inbound' = [k \in Inbounds |-> IF inbound[k].enable = "error"
                                            THEN [inbound[k] EXCEPT !.enable = "on"]
                                            ELSE inbound[k]]
    /\ Next1(j)
    /\ UNCHANGED <<client, xray, online, due, faults, excused, disturbed>>

WriteClient(j) ==
    LET c == job[j].c IN
    /\ \/ At(j, "offClient") /\ SetClient(c, "off")
       \/ At(j, "onClient") /\ SetClient(c, "on")
       \/ At(j, "dropClient") /\ client' = [client EXCEPT ![c] = NoClient]
       \/ At(j, "revertClient") /\ client' = [client EXCEPT ![c] = job[j].client]
    /\ Next1(j)
    /\ disturbed' = IF job[j].want = "offline" THEN disturbed \cup {job[j].i} ELSE disturbed
    /\ UNCHANGED <<inbound, xray, online, due, faults, excused>>

\* The end of DeleteXrayInbound.
Drop(j) ==
    LET i == job[j].i IN
    /\ At(j, "drop")
    /\ inbound' = [inbound EXCEPT ![i] = Gone]
    /\ client' = [c \in Clients |-> IF InboundOf[c] = i THEN NoClient ELSE client[c]]
    /\ Next1(j)
    /\ disturbed' = IF job[j].want = "offline" THEN disturbed \cup {0, i} ELSE disturbed
    /\ UNCHANGED <<xray, online, due, faults, excused>>

\* Variant, not part of Next: beyond the limit, not at it.
ExceedsStrictly(c) == client[c].used > Limit

Exceeds(c) == client[c].used >= Limit

\* What is read decides what is still to do.
Read(j) ==
    LET g == job[j]  c == g.c IN
    /\ \/ /\ At(j, "last")
          /\ Instead(j, IF Enabled = {} THEN Stop ELSE <<>>)
          /\ UNCHANGED <<client, faults>>
       \/ /\ At(j, "reload")
          /\ Instead(j, IF (IF HasRow(c) THEN client[c].enable ELSE g.want) = "on"
                        THEN AddClient(c, "must") ELSE <<>>)
          /\ UNCHANGED <<client, faults>>
       \/ /\ At(j, "limit")
          /\ IF client[c].enable = "on" /\ Exceeds(c)
             THEN SetClient(c, "off") /\ Instead(j, RemoveClient(c, "try"))
             ELSE Next1(j) /\ UNCHANGED client
          /\ UNCHANGED faults
    /\ UNCHANGED <<inbound, xray, online, due, excused, disturbed>>

\* Neither the rows of a query nor the tags of a node come in a certain order.
Orders(S) ==
    {s \in [1..Cardinality(S) -> S] : \A k \in S : \E n \in 1..Cardinality(S) : s[n] = k}

\* cleanupOrphanXrayInbounds: a node that does not tell its tags is let be.
Orphans == {i \in Inbounds : ~ Exists(i) /\ xray.at[i] # Absent}
Collect(j) ==
    /\ At(j, "tags")
    /\ \/ /\ online
          /\ \E s \in Orders(Orphans) :
                Instead(j, [n \in DOMAIN s |-> Head(RemoveInbound(s[n], "try"))])
          /\ UNCHANGED faults
       \/ /\ IF online THEN Fault ELSE UNCHANGED faults
          /\ job' = [job EXCEPT ![j].plan = Tail(@), ![j].failed = TRUE]
    /\ UNCHANGED <<inbound, client, xray, online, due, excused, disturbed>>

-----------------------------------------------------------------------------
(* Operations: the first write, and the plan.                              *)

\* Variant, not part of Next: without those that could not be started.
WantedEnabled == {i \in Inbounds : inbound[i].enable = "on"}

Wanted == {i \in Inbounds : inbound[i].enable \in {"on", "error"}}
Deployed(i) == IF i \in Wanted THEN Merged(i, inbound[i].gen) ELSE Absent

Begin(j, op, i, c, want, plan) ==
    /\ job[j] = NoJob
    /\ job' = [Overlapped EXCEPT ![j] =
                 [op |-> op, i |-> i, c |-> c,
                  inbound |-> IF op = "updateInbound" THEN inbound[i] ELSE Unborn,
                  client |-> IF op = "updateClient" THEN client[c] ELSE NoClient, want |-> want,
                  all |-> IF op = "reconcile" THEN [k \in Inbounds |-> Deployed(k)]
                          ELSE NoJob.all,
                  plan |-> plan, failed |-> FALSE, clean |-> Busy = {}]]
    /\ disturbed' = IF Busy = {} THEN disturbed ELSE All
    /\ UNCHANGED <<xray, faults>>

OnInbound(j, op, i, want, plan) ==
    /\ op \in Ops
    /\ Begin(j, op, i, "", want, plan)
    /\ UNCHANGED <<client, online, due, excused>>

CreateInbound(j, i) ==
    /\ inbound[i] = Unborn
    /\ inbound' = [inbound EXCEPT ![i] = Row("on", 1)]
    /\ OnInbound(j, "createInbound", i, "", AddInbound(i, 1, "must"))

\* An inbound that is off is not in Xray.
UpdateInbound(j, i) ==
    LET gen == inbound[i].gen + 1 IN
    /\ Exists(i)
    /\ inbound[i].gen < MaxGen[i]
    /\ inbound' = [inbound EXCEPT ![i].gen = gen]
    /\ OnInbound(j, "updateInbound", i, "",
                 IF inbound[i].enable = "off" THEN <<>>
                 ELSE RemoveInbound(i, "must") \o AddInbound(i, gen, "must"))

Away == IF online THEN "" ELSE "offline"

DeleteInbound(j, i) ==
    /\ Exists(i)
    /\ OnInbound(j, "deleteInbound", i, Away,
                 (IF online THEN RemoveInbound(i, "must") ELSE <<>>)
                 \o Write("drop") \o Write("last"))
    /\ UNCHANGED inbound

EnableInbound(j, i) ==
    /\ Exists(i)
    /\ SetInbound(i, "on")
    /\ OnInbound(j, "enable", i, "", AddInbound(i, inbound[i].gen, "must"))

DisableInbound(j, i) ==
    /\ Exists(i)
    /\ OnInbound(j, "disable", i, "", RemoveInbound(i, "must") \o Write("off") \o Write("last"))
    /\ UNCHANGED inbound

OnClient(j, op, c, want, plan) ==
    /\ op \in Ops
    /\ Begin(j, op, InboundOf[c], c, want, plan)
    /\ UNCHANGED <<inbound, online, due>>

CreateClient(j, c) ==
    /\ ~ HasRow(c) /\ Exists(InboundOf[c])
    /\ client' = [client EXCEPT ![c] = [enable |-> "on", used |-> 0, written |-> TRUE]]
    /\ OnClient(j, "createClient", c, "on", AddClient(c, "must"))
    /\ excused' = excused \ {c}

\* An administrator may switch on a client that is beyond its limit.
UpdateClient(j, c, e) ==
    /\ HasRow(c) /\ Exists(InboundOf[c])
    /\ client' = [client EXCEPT ![c].enable = e, ![c].written = TRUE]
    /\ OnClient(j, "updateClient", c, e,
                (IF client[c].enable = "on" THEN RemoveClient(c, "must") ELSE <<>>)
                \o Write("reload"))
    /\ excused' = IF e = "on" /\ client[c].used >= Limit THEN excused \cup {c} ELSE excused

DeleteClient(j, c) ==
    /\ HasRow(c)
    /\ OnClient(j, "deleteClient", c, Away,
                (IF online /\ Exists(InboundOf[c]) THEN RemoveClient(c, "must") ELSE <<>>)
                \o Write("dropClient"))
    /\ UNCHANGED <<client, excused>>

\* What was off is on, whoever switched it off.
Reset(j, c, op) ==
    /\ client' = [client EXCEPT ![c].used = 0, ![c].written = TRUE]
    /\ OnClient(j, op, c, "",
                IF client[c].enable = "off" THEN Write("onClient") \o AddClient(c, "try")
                ELSE <<>>)
    /\ UNCHANGED excused

ResetClient(j, c) == HasRow(c) /\ Reset(j, c, "reset")

\* checkClientTrafficReset: whatever wrote the row since the cycle ended counts as the
\* reset.
Check(j, c) ==
    /\ HasRow(c)
    /\ \/ ~ client[c].written /\ Reset(j, c, "check")
       \/ /\ client[c].written
          /\ OnClient(j, "check", c, "", <<>>)
          /\ UNCHANGED <<client, excused>>

\* ProcessXrayFlowUpload
Traffic(j, c) ==
    /\ HasRow(c)
    /\ client' = [client EXCEPT ![c].used = IF @ < Limit THEN @ + 1 ELSE @]
    /\ OnClient(j, "traffic", c, "", Write("limit"))
    /\ UNCHANGED excused

\* checkUserXrayLimits, and disableAllUserXrayClients of a user that is switched off.
Expel(j, c) ==
    /\ client[c].enable = "on"
    /\ \/ /\ SetClient(c, "off")
          /\ OnClient(j, "expel", c, "", RemoveClient(c, "try"))
       \/ /\ UNCHANGED client
          /\ OnClient(j, "expel", c, "", RemoveClient(c, "try") \o Write("offClient"))
    /\ UNCHANGED excused

\* reconcileXrayInbounds: the first inbound shows whether Xray runs.
Deploy(s) ==
    IF s = <<>> THEN Stop
    ELSE [n \in DOMAIN s |-> Head(AddInbound(s[n], 0, IF n = 1 THEN "first" ELSE "try"))]
         \o Write("recover")

\* One reconcile at a time.  One that finds the lock taken is not made: here it waits, and
\* need not ever start.
StartReconcile ==
    /\ due
    /\ due' = FALSE
    /\ \E s \in Orders(Wanted) :
          Begin("reconcile", "reconcile", 1, "", "", Deploy(s) \o Write("tags"))
    /\ UNCHANGED <<inbound, client, online, excused>>

\* Who deals with an inbound, with success and alone, puts right what was wrong.
Repaired(g) ==
    IF g.failed \/ ~ g.clean \/ g.want = "offline" THEN {}
    ELSE IF g.op = "enable" \/ (g.op = "updateInbound" /\ g.inbound.enable = "on")
    THEN {g.i}
    ELSE IF g.op \in {"disable", "deleteInbound"}
    THEN {g.i} \cup (IF Enabled = {} THEN {0} ELSE {})
    ELSE {}

\* A client that is reset and one that is reported, or an update that brings old
\* counters back, may meet.
Finish(j) ==
    LET g == job[j] IN
    /\ g # NoJob
    /\ g.plan = <<>>
    /\ job' = [job EXCEPT ![j] = NoJob]
    /\ disturbed' = disturbed \ Repaired(g)
    /\ excused' = IF g.op \in {"reset", "check", "updateClient"} /\ ~ g.clean
                  THEN excused \cup {g.c}
                  ELSE IF g.op = "reset" THEN excused \ {g.c} ELSE excused
    /\ UNCHANGED <<inbound, client, xray, online, due, faults>>

-----------------------------------------------------------------------------
(* Time, and the node.                                                     *)

CycleEnds(c) ==
    /\ HasRow(c)
    /\ client' = [client EXCEPT ![c].written = FALSE]
    /\ UNCHANGED <<inbound, xray, online, due, job, faults, excused, disturbed>>

Disconnect ==
    /\ online
    /\ Fault
    /\ online' = FALSE
    /\ UNCHANGED <<inbound, client, xray, due, job, excused, disturbed>>

\* Nobody starts Xray again.
Crash ==
    /\ xray.runs
    /\ Fault
    /\ xray' = [xray EXCEPT !.runs = FALSE]
    /\ job' = Overlapped
    /\ disturbed' = All
    /\ UNCHANGED <<inbound, client, online, due, excused>>

Connect ==
    /\ ~ online
    /\ online' = TRUE
    /\ due' = TRUE
    /\ UNCHANGED <<inbound, client, xray, job, faults, excused, disturbed>>

-----------------------------------------------------------------------------
Init ==
    /\ inbound = [i \in Inbounds |-> Unborn]
    /\ client = [c \in Clients |-> NoClient]
    /\ xray = [runs |-> FALSE, at |-> [i \in Inbounds |-> Absent]]
    /\ online = TRUE
    /\ due = FALSE
    /\ job = [j \in Runners |-> NoJob]
    /\ faults = 0
    /\ excused = {}
    /\ disturbed = {}

InboundRequest(j) ==
    \E i \in Inbounds :
        \/ CreateInbound(j, i)
        \/ UpdateInbound(j, i)
        \/ DeleteInbound(j, i)
        \/ EnableInbound(j, i)
        \/ DisableInbound(j, i)

ClientRequest(j) ==
    \E c \in Clients :
        \/ CreateClient(j, c)
        \/ \E e \in {"on", "off"} : UpdateClient(j, c, e)
        \/ DeleteClient(j, c)
        \/ ResetClient(j, c)

Report(j) == \E c \in Clients : Traffic(j, c) \/ Expel(j, c)

\* A reconcile does not write clients, and it alone looks for orphans.
Work(j) == Command(j) \/ WriteInbound(j) \/ Finish(j)
JobWork(j) == WriteClient(j) \/ Drop(j) \/ Read(j)

Next ==
    \/ \E j \in Jobs : InboundRequest(j) \/ ClientRequest(j) \/ Report(j)
    \/ \E j \in Jobs, c \in Clients : Check(j, c)
    \/ \E j \in Runners : Work(j)
    \/ \E j \in Jobs : JobWork(j)
    \/ StartReconcile \/ Collect("reconcile")
    \/ \E c \in Clients : CycleEnds(c)
    \/ Disconnect \/ Crash \/ Connect

Spec == Init /\ [][Next]_vars

-----------------------------------------------------------------------------
(* Properties.                                                             *)

\* Every variable has its type.
TypeOK ==
    /\ \A i \in Inbounds :
          /\ inbound[i].enable \in {"unborn", "on", "off", "error", "gone"}
          /\ inbound[i].gen \in IF Exists(i) THEN 1..MaxGen[i] ELSE {0}
          /\ xray.at[i].gen \in 0..MaxGen[i]
          /\ xray.at[i].users \subseteq ClientsOf(i)
          /\ xray.at[i].gen = 0 => xray.at[i].users = {}
    /\ xray.runs \in BOOLEAN
    /\ client \in [Clients -> [enable : {"none", "on", "off"}, used : 0..Limit,
                               written : BOOLEAN]]
    /\ online \in BOOLEAN /\ due \in BOOLEAN
    /\ faults \in 0..MaxFaults
    /\ excused \subseteq Clients
    /\ disturbed \subseteq All

Agree(i) ==
    IF inbound[i].enable = "on"
    THEN xray.runs /\ xray.at[i] = Merged(i, inbound[i].gen)
    ELSE xray.at[i] = Absent

\* Operations that do not overlap keep what Xray serves as the rows say, also when a
\* command is refused and the row is put back: every enabled inbound with its content
\* and its enabled clients, no other; and without one Xray is stopped
\* (xray_inbound.go:118-537, xray_client.go:98-375).
UndisturbedAgree ==
    Busy = {} =>
        /\ \A i \in Inbounds \ disturbed : Agree(i)
        /\ 0 \notin disturbed /\ Enabled = {} => ~ xray.runs

\* A client that has used up its traffic is switched off with the report that says so,
\* and comes back with new traffic only, or because an administrator wants it
\* (flow.go:143-157, xray_client.go:214-375).
LimitNoticed ==
    Busy = {} =>
        \A c \in Clients : client[c].enable = "on" /\ client[c].used >= Limit => c \in excused

\* After a reconcile without failures, during which nothing else happened, every inbound
\* that is wanted is there, and none that was deleted is served (reconcile.go:405-468,
\* 574-642).
ReconcileRestores ==
    LET g == job["reconcile"] IN
    g.op = "reconcile" /\ g.plan = <<>> /\ g.clean /\ ~ g.failed =>
        \A i \in Inbounds :
            /\ inbound[i].enable # "error"
            /\ inbound[i].enable = "on" => xray.runs /\ xray.at[i] # Absent
            /\ ~ Exists(i) => ~ Reachable(i)

\* xray_scheduler.go:39-41: "checkClientTrafficReset resets traffic for clients whose reset
\* cycle has elapsed.  [...]  If current time has passed the next reset boundary, reset
\* traffic counters."  Not so for a client that an administrator edits in between: what
\* is compared with the boundary is the time of the last write.
ResetWhenDue ==
    [][\A c \in Clients :
          HasRow(c) /\ ~ client[c].written /\ client'[c].written => client'[c].used = 0]_vars
=============================================================================

-------------------------- MODULE XrayControlProofs --------------------------
(***************************************************************************)
(* Types, rows that agree with what Xray serves, limits that are noticed,  *)
(* and what a reconcile achieves: for every set of clients, inbounds and   *)
(* goroutines, every limit and any number of faults.                       *)
(***************************************************************************)
EXTENDS XrayControl, FiniteSetTheorems, SequenceTheorems, TLAPS

InboundRow == [enable : {"unborn", "on", "off", "error", "gone"}, gen : Nat]
ClientRow  == [enable : {"none", "on", "off"}, used : 0..Limit, written : BOOLEAN]

There == {"on", "off", "error"}
RowOK(i, r) == r.gen \in IF r.enable \in There THEN 1..MaxGen[i] ELSE {0}
GoodRows == {f \in [Inbounds -> InboundRow] : \A i \in Inbounds : RowOK(i, f[i])}

\* What Xray may have of an inbound.
Contents == [gen : Nat, users : SUBSET Clients]
ContentOK(i, a) ==
    /\ a.gen \in 0..MaxGen[i]
    /\ a.users \subseteq ClientsOf(i)
    /\ a.gen = 0 => a.users = {}
GoodContents == {f \in [Inbounds -> Contents] : \A i \in Inbounds : ContentOK(i, f[i])}

\* Operations on a client, and those whose end excuses it when another one overlapped.
ClientOps == {"createClient", "updateClient", "deleteClient", "reset", "check",
              "traffic", "expel"}
Excusing  == {"reset", "check", "updateClient"}

\* Which operation takes the steps that write a client's row.
Allowed(op, do) ==
    /\ do \in {"offClient", "dropClient", "reload"} => op \in ClientOps
    /\ do = "onClient" => op \in {"reset", "check"}
    /\ do = "revertClient" => op = "updateClient"
    /\ do = "limit" => op = "traffic"

\* Commands are about an inbound or a client that there can be; only a reconcile gets the
\* contents from somewhere else.
Commands == {"stop", "apply", "addInbound", "removeInbound", "addClient", "removeClient"}
Sound(op, x) ==
    /\ x.do \in Commands <=> x.mode # "row"
    /\ x.do \in {"addInbound", "removeInbound"} => x.i \in Inbounds
    /\ x.do = "addInbound" => op = "reconcile" \/ x.gen \in 1..MaxGen[x.i]
    /\ x.do \in {"addClient", "removeClient"} => x.c \in Clients /\ x.i = InboundOf[x.c]

Dos == {"stop", "addInbound", "removeInbound", "addClient", "removeClient", "apply",
        "off", "error", "revertInbound", "recover", "offClient", "onClient",
        "dropClient", "revertClient", "drop", "last", "reload", "limit", "tags"}

AnyStep == [do : Dos, i : {0} \cup Inbounds, c : {""} \cup Clients, gen : Nat,
            mode : {"must", "try", "first", "row"}]
StepsOf(op) == {x \in AnyStep : Allowed(op, x.do) /\ Sound(op, x)}

\* A goroutine: all of its fields, and what they are used for.
Fields == {"op", "i", "c", "inbound", "client", "want", "all", "plan", "failed", "clean"}
Shape(g) == g = [x \in Fields |-> g[x]]

JobOK(g) ==
    /\ Shape(g)
    /\ g.i \in Inbounds
    /\ g.c \in {""} \cup Clients
    /\ g.inbound \in InboundRow /\ RowOK(g.i, g.inbound)
    /\ g.client \in ClientRow
    /\ g.all \in GoodContents
    /\ g.clean \in BOOLEAN /\ g.failed \in BOOLEAN
    /\ g.op = "idle" => g = NoJob
    /\ g.op \in ClientOps => g.c \in Clients /\ g.i = InboundOf[g.c]
    /\ g.op = "updateInbound" => g.inbound.enable \in There

Types ==
    /\ inbound \in GoodRows
    /\ client \in [Clients -> ClientRow]
    /\ excused \in SUBSET Clients
    /\ job = [j \in Runners |-> job[j]]
    /\ \A j \in Runners : JobOK(job[j])
    /\ \A j \in Runners : job[j].plan \in Seq(StepsOf(job[j].op))
    /\ \A j \in Jobs : job[j].op # "reconcile"
    /\ job["reconcile"].op \in {"idle", "reconcile"}

\* A goroutine that nothing has overlapped is the only one.
CleanAlone == \A j \in Runners : job[j] # NoJob /\ job[j].clean => Busy = {j}

\* What it has put aside, or begun with, is then still so.
CleanKnows == \A j \in Jobs :
    /\ job[j].clean /\ (job[j].op = "reset" \/ (job[j].op = "check" /\ job[j].plan # <<>>))
       => client[job[j].c].used = 0
    /\ job[j].clean /\ job[j].op = "updateClient"
          /\ job[j].client.enable = "on" /\ job[j].client.used >= Limit
       => job[j].c \in excused

Beyond(c) == client[c].enable = "on" /\ client[c].used >= Limit /\ c \notin excused

\* A goroutine that will see to a client beyond its limit.
SeesTo(g, c) ==
    /\ g.c = c
    /\ \/ g.op \in Excusing /\ ~ g.clean
       \/ g.op = "traffic" /\ g.plan # <<>> /\ Head(g.plan) = Head(Write("limit"))

Noticed == \A c \in Clients : Beyond(c) => \E j \in Jobs : SeesTo(job[j], c)

IInv == Types /\ CleanAlone /\ CleanKnows /\ Noticed

LEMMA RunnersFact == Jobs \subseteq Runners /\ "reconcile" \in Runners /\ "reconcile" \notin Jobs
BY PanelAssumption DEF Runners

LEMMA Bounds == Limit \in Nat \ {0} /\ \A i \in Inbounds : MaxGen[i] \in Nat \ {0}
BY PanelAssumption

LEMMA NothingGood == [i \in Inbounds |-> Absent] \in GoodContents
<1>1. Absent \in Contents /\ Absent.gen = 0 /\ Absent.users = {}
  BY DEF Absent, Contents
<1>2. \A i \in Inbounds : ContentOK(i, Absent)
  BY <1>1, Bounds DEF ContentOK
<1>3. QED
  BY <1>1, <1>2 DEF GoodContents

LEMMA NoClientRow == NoClient \in ClientRow /\ NoClient.used = 0 /\ NoClient.enable = "none"
<1>1. 0 \in 0..Limit
  BY PanelAssumption
<1>2. QED
  BY <1>1 DEF NoClient, ClientRow

LEMMA NoJobOK == JobOK(NoJob)
<1>1. Shape(NoJob)
  BY DEF NoJob, Shape, Fields
<1>2. NoJob.i \in Inbounds
  BY PanelAssumption DEF NoJob, Inbounds
<1>3. NoJob.inbound \in InboundRow /\ RowOK(NoJob.i, NoJob.inbound)
  BY DEF NoJob, InboundRow, Unborn, RowOK, There
<1>4. NoJob.client \in ClientRow
  BY PanelAssumption DEF NoJob, ClientRow, NoClient
<1>5. NoJob.c = "" /\ NoJob.clean = TRUE /\ NoJob.failed = FALSE /\ NoJob.op = "idle"
  BY DEF NoJob
<1>6. NoJob.all \in GoodContents
  <2>1. NoJob.all = [i \in Inbounds |-> Absent]
    BY DEF NoJob
  <2>2. QED
    BY <2>1, NothingGood
<1>7. QED
  BY <1>1, <1>2, <1>3, <1>4, <1>5, <1>6 DEF JobOK, ClientOps

LEMMA NoJobIdle == NoJob.op = "idle" /\ NoJob.clean /\ NoJob.plan = <<>>
BY DEF NoJob

LEMMA BusyByOp ==
    ASSUME \A j \in Runners : JobOK(job[j])
    PROVE  \A j \in Runners : j \in Busy <=> job[j].op # "idle"
BY NoJobIdle DEF JobOK, Busy

LEMMA Initially == Init => IInv
<1> SUFFICES ASSUME Init PROVE IInv
  OBVIOUS
<1>1. \A j \in Runners : job[j] = NoJob
  BY DEF Init
<1>2. inbound \in GoodRows
  BY DEF Init, InboundRow, Unborn, GoodRows, RowOK, There
<1>8. client \in [Clients -> ClientRow] /\ excused \in SUBSET Clients
  BY PanelAssumption DEF Init, ClientRow, NoClient
<1>3. <<>> \in Seq(StepsOf("idle"))
  OBVIOUS
<1>4. Types
  <2>1. \A j \in Runners : JobOK(job[j]) /\ job[j].op = "idle" /\ job[j].plan = <<>>
    BY <1>1, NoJobOK, NoJobIdle
  <2>2. job = [j \in Runners |-> job[j]]
    BY DEF Init
  <2>3. QED
    BY <1>2, <1>3, <1>8, <2>1, <2>2, RunnersFact DEF Types
<1>5. CleanAlone /\ CleanKnows
  BY <1>1, RunnersFact, NoJobIdle DEF CleanAlone, CleanKnows
<1>6. \A c \in Clients : ~ Beyond(c)
  BY DEF Init, Beyond, NoClient
<1>7. QED
  BY <1>4, <1>5, <1>6 DEF IInv, Noticed

-----------------------------------------------------------------------------
(* A goroutine goes on.                                                     *)

\* The step of one goroutine that leaves clients and what it is about alone.
LEMMA PlanMoves ==
    ASSUME IInv, NEW j \in Runners, NEW g,
           job[j] # NoJob, job[j].plan # <<>>,
           job' = [job EXCEPT ![j] = g],
           JobOK(g), g.op = job[j].op, g.c = job[j].c, g.client = job[j].client,
           g.clean = job[j].clean,
           g.plan \in Seq(StepsOf(g.op)),
           j \in Jobs => ~ (job[j].plan # <<>> /\ Head(job[j].plan) = Head(Write("limit"))),
           inbound' \in GoodRows,
           UNCHANGED <<client, excused>>
    PROVE  IInv'
<1> USE DEF IInv
<1>1. \A k \in Runners : job'[k] = IF k = j THEN g ELSE job[k]
  BY DEF Types
<1>2. job' = [k \in Runners |-> job'[k]]
  BY DEF Types
<1>3. Types'
  BY <1>1, <1>2, RunnersFact DEF Types
<1>4. Busy' = Busy
  <2>1. \A k \in Runners : k \in Busy' <=> job'[k].op # "idle"
    BY <1>3, NoJobIdle DEF Types, JobOK, Busy
  <2>2. \A k \in Runners : k \in Busy <=> job[k].op # "idle"
    BY BusyByOp DEF Types
  <2>3. \A k \in Runners : job'[k].op = job[k].op
    BY <1>1
  <2>4. QED
    BY <2>1, <2>2, <2>3 DEF Busy
<1>5. CleanAlone'
  <2>1. \A k \in Runners : job'[k] # NoJob => job[k] # NoJob
    BY <1>1
  <2>2. QED
    BY <1>1, <1>4, <2>1 DEF CleanAlone
<1>6. CleanKnows'
  BY <1>1, RunnersFact DEF CleanKnows
<1>7. Noticed'
  <2> SUFFICES ASSUME NEW c \in Clients, Beyond(c)' PROVE \E k \in Jobs : SeesTo(job'[k], c)
    BY DEF Noticed
  <2>1. PICK k \in Jobs : SeesTo(job[k], c)
    BY DEF Noticed, Beyond
  <2>2. SeesTo(job'[k], c)
    BY <1>1, <2>1, RunnersFact DEF SeesTo
  <2>3. QED
    BY <2>2
<1>8. QED
  BY <1>3, <1>5, <1>6, <1>7

\* The same goroutine with another plan.
Same(g, h) ==
    /\ JobOK(h) /\ h.op = g.op /\ h.c = g.c /\ h.client = g.client /\ h.clean = g.clean
    /\ h.i = g.i /\ h.inbound = g.inbound /\ h.want = g.want /\ h.all = g.all

LEMMA WithPlan ==
    ASSUME NEW g, JobOK(g), g.op # "idle", NEW p
    PROVE  /\ Same(g, [g EXCEPT !.plan = p])
           /\ [g EXCEPT !.plan = p].plan = p
           /\ [g EXCEPT !.plan = p].failed = g.failed
<1> DEFINE h == [g EXCEPT !.plan = p]
<1>1. /\ Shape(h)
      /\ h.op = g.op /\ h.i = g.i /\ h.c = g.c /\ h.inbound = g.inbound
      /\ h.client = g.client /\ h.clean = g.clean /\ h.plan = p
      /\ h.want = g.want /\ h.all = g.all /\ h.failed = g.failed
  BY DEF JobOK, Shape, Fields
<1> HIDE DEF h
<1>2. Same(g, h)
  BY <1>1 DEF JobOK, Same
<1>3. QED
  BY <1>1, <1>2 DEF h

LEMMA WithPlanFailed ==
    ASSUME NEW g, JobOK(g), g.op # "idle", NEW p, NEW f \in BOOLEAN
    PROVE  /\ Same(g, [g EXCEPT !.plan = p, !.failed = f])
           /\ [g EXCEPT !.plan = p, !.failed = f].plan = p
           /\ [g EXCEPT !.plan = p, !.failed = f].failed = f
<1> DEFINE h == [g EXCEPT !.plan = p, !.failed = f]
<1>1. /\ Shape(h)
      /\ h.op = g.op /\ h.i = g.i /\ h.c = g.c /\ h.inbound = g.inbound
      /\ h.client = g.client /\ h.clean = g.clean /\ h.plan = p
      /\ h.want = g.want /\ h.all = g.all /\ h.failed = f
  BY DEF JobOK, Shape, Fields
<1> HIDE DEF h
<1>2. Same(g, h)
  BY <1>1 DEF JobOK, Same
<1>3. QED
  BY <1>1, <1>2 DEF h

LEMMA BusyHasOp ==
    ASSUME Types, NEW j \in Runners, job[j].plan # <<>> \/ job[j] # NoJob
    PROVE  job[j] # NoJob /\ JobOK(job[j]) /\ job[j].op # "idle"
BY NoJobIdle DEF Types, JobOK

LEMMA HeadOne == ASSUME NEW x PROVE Head(<<x>>) = x
OBVIOUS

LEMMA WriteHead ==
    ASSUME NEW what
    PROVE  Head(Write(what)).do = what /\ Head(Write(what)).mode = "row"
<1> DEFINE x == [do |-> what, i |-> 0, c |-> "", gen |-> 0, mode |-> "row"]
<1>1. x.do = what /\ x.mode = "row"
  OBVIOUS
<1>2. Write(what) = <<x>>
  BY DEF Write, Step
<1> HIDE DEF x
<1>3. QED
  BY <1>1, <1>2, HeadOne

LEMMA Concat ==
    ASSUME NEW op, NEW p \in Seq(StepsOf(op)), NEW q \in Seq(StepsOf(op))
    PROVE  p \o q \in Seq(StepsOf(op)) /\ <<>> \in Seq(StepsOf(op))
OBVIOUS

LEMMA Single == ASSUME NEW S, NEW x \in S PROVE <<x>> \in Seq(S)
OBVIOUS

LEMMA TailIn == ASSUME NEW S, NEW p \in Seq(S), p # <<>> PROVE Tail(p) \in Seq(S)
OBVIOUS

LEMMA StepIn ==
    ASSUME NEW op, NEW do \in Dos, Allowed(op, do), NEW i \in {0} \cup Inbounds,
           NEW c \in {""} \cup Clients, NEW gen \in Nat,
           NEW mode \in {"must", "try", "first", "row"},
           Sound(op, [do |-> do, i |-> i, c |-> c, gen |-> gen, mode |-> mode])
    PROVE  /\ Step(do, i, c, gen, mode) \in Seq(StepsOf(op))
           /\ Head(Step(do, i, c, gen, mode)) \in StepsOf(op)
<1> DEFINE x == [do |-> do, i |-> i, c |-> c, gen |-> gen, mode |-> mode]
<1>1. x \in StepsOf(op)
  BY DEF StepsOf, AnyStep
<1>2. Step(do, i, c, gen, mode) = <<x>>
  BY DEF Step
<1> HIDE DEF x
<1>3. QED
  BY <1>1, <1>2, Single, HeadOne

LEMMA WriteIn ==
    ASSUME NEW op, NEW what \in Dos \ Commands, Allowed(op, what)
    PROVE  Write(what) \in Seq(StepsOf(op))
<1> DEFINE x == [do |-> what, i |-> 0, c |-> "", gen |-> 0, mode |-> "row"]
<1>1. x.do = what /\ x.mode = "row"
  OBVIOUS
<1>2. Sound(op, x)
  BY <1>1 DEF Sound, Commands
<1>3. QED
  BY <1>2, StepIn DEF Write

LEMMA CommandsIn ==
    ASSUME NEW op, NEW mode \in {"must", "try", "first"}
    PROVE  /\ \A i \in Inbounds, gen \in Nat :
                 op = "reconcile" \/ gen \in 1..MaxGen[i]
                    => /\ AddInbound(i, gen, mode) \in Seq(StepsOf(op))
                       /\ Head(AddInbound(i, gen, mode)) \in StepsOf(op)
           /\ \A i \in Inbounds : /\ RemoveInbound(i, mode) \in Seq(StepsOf(op))
                                  /\ Head(RemoveInbound(i, mode)) \in StepsOf(op)
           /\ \A c \in Clients : AddClient(c, mode) \in Seq(StepsOf(op))
           /\ \A c \in Clients : RemoveClient(c, mode) \in Seq(StepsOf(op))
           /\ Stop \in Seq(StepsOf(op))
           /\ Step("apply", 0, "", 0, "must") \in Seq(StepsOf(op))
<1>1. \A do \in Commands : do \in Dos /\ Allowed(op, do)
  BY DEF Dos, Allowed, Commands
<1>2. ASSUME NEW i \in Inbounds, NEW gen \in Nat, op = "reconcile" \/ gen \in 1..MaxGen[i]
      PROVE  /\ AddInbound(i, gen, mode) \in Seq(StepsOf(op))
             /\ Head(AddInbound(i, gen, mode)) \in StepsOf(op)
  <2>1. Sound(op, [do |-> "addInbound", i |-> i, c |-> "", gen |-> gen, mode |-> mode])
    BY <1>2 DEF Sound, Commands
  <2>2. "addInbound" \in Commands
    BY DEF Commands
  <2>3. QED
    BY <1>1, <2>1, <2>2, StepIn DEF AddInbound
<1>3. ASSUME NEW i \in Inbounds
      PROVE  /\ RemoveInbound(i, mode) \in Seq(StepsOf(op))
             /\ Head(RemoveInbound(i, mode)) \in StepsOf(op)
  <2>1. Sound(op, [do |-> "removeInbound", i |-> i, c |-> "", gen |-> 0, mode |-> mode])
    BY DEF Sound, Commands
  <2>2. "removeInbound" \in Commands
    BY DEF Commands
  <2>3. QED
    BY <1>1, <2>1, <2>2, StepIn DEF RemoveInbound
<1>4. ASSUME NEW c \in Clients, NEW do \in {"addClient", "removeClient"}
      PROVE  Step(do, InboundOf[c], c, 0, mode) \in Seq(StepsOf(op))
  <2>1. InboundOf[c] \in Inbounds
    BY PanelAssumption
  <2>2. Sound(op, [do |-> do, i |-> InboundOf[c], c |-> c, gen |-> 0, mode |-> mode])
    BY <1>4 DEF Sound, Commands
  <2>3. do \in Commands
    BY <1>4 DEF Commands
  <2>4. QED
    BY <1>1, <2>1, <2>2, <2>3, StepIn
<1>5. \A c \in Clients : AddClient(c, mode) \in Seq(StepsOf(op))
  BY <1>4 DEF AddClient
<1>6. \A c \in Clients : RemoveClient(c, mode) \in Seq(StepsOf(op))
  BY <1>4 DEF RemoveClient
<1>7. ASSUME NEW do \in {"stop", "apply"}, NEW m \in {"try", "must"}
      PROVE  Step(do, 0, "", 0, m) \in Seq(StepsOf(op))
  <2>1. Sound(op, [do |-> do, i |-> 0, c |-> "", gen |-> 0, mode |-> m])
    BY <1>7 DEF Sound, Commands
  <2>2. do \in Commands
    BY <1>7 DEF Commands
  <2>3. QED
    BY <1>1, <1>7, <2>1, <2>2, StepIn
<1>8. Stop \in Seq(StepsOf(op))
  BY <1>7 DEF Stop
<1>9. QED
  BY <1>2, <1>3, <1>5, <1>6, <1>7, <1>8

LEMMA RemedyIn ==
    ASSUME NEW g, JobOK(g), NEW x
    PROVE  Remedy(g, x) \in Seq(StepsOf(g.op))
<1> DEFINE S == Seq(StepsOf(g.op))
<1>1. <<>> \in S
  BY Concat
<1>2. g.i \in Inbounds /\ g.inbound.gen \in Nat
  BY DEF JobOK, InboundRow
<1>3. CASE g.op = "createInbound"
  BY <1>3, WriteIn DEF Remedy, Dos, Allowed, Commands
<1>4. CASE g.op = "updateInbound"
  <2>1. Write("revertInbound") \in S
    BY <1>4, WriteIn DEF Dos, Allowed, Commands
  <2>2. AddInbound(g.i, g.inbound.gen, "try") \in S
    <3>1. g.inbound.gen \in 1..MaxGen[g.i]
      BY <1>4 DEF JobOK, RowOK
    <3>2. QED
      BY <1>2, <3>1, CommandsIn
  <2>3. Remedy(g, x) = (IF x.do = "addInbound" THEN AddInbound(g.i, g.inbound.gen, "try")
                        ELSE <<>>) \o Write("revertInbound")
    BY <1>4 DEF Remedy
  <2>4. QED
    BY <1>1, <2>1, <2>2, <2>3, Concat
<1>5. CASE g.op = "enable"
  BY <1>5, WriteIn DEF Remedy, Dos, Allowed, Commands
<1>6. CASE g.op = "createClient"
  BY <1>6, WriteIn DEF Remedy, Dos, Allowed, ClientOps, Commands
<1>7. CASE g.op = "updateClient"
  <2>1. Write("revertClient") \in S
    BY <1>7, WriteIn DEF Dos, Allowed, Commands
  <2>2. AddClient(g.c, "try") \in S
    BY <1>7, CommandsIn DEF JobOK, ClientOps
  <2>3. Remedy(g, x) = Write("revertClient")
           \o (IF x.do = "addClient" /\ g.client.enable = "on" THEN AddClient(g.c, "try")
               ELSE <<>>)
    BY <1>7 DEF Remedy
  <2>4. QED
    BY <1>1, <2>1, <2>2, <2>3, Concat
<1>8. CASE g.op = "reconcile"
  BY <1>8, WriteIn DEF Remedy, Dos, Allowed, Commands
<1>9. CASE g.op \notin {"createInbound", "updateInbound", "enable", "createClient",
                        "updateClient", "reconcile"}
  BY <1>1, <1>9 DEF Remedy
<1>10. QED
  BY <1>3, <1>4, <1>5, <1>6, <1>7, <1>8, <1>9

\* What a command leaves of its goroutine.
After(j, x, ok) == IF ok \/ x.mode # "must" THEN Tail(job[j].plan) ELSE Remedy(job[j], x)

LEMMA AdvanceOK ==
    ASSUME Types, NEW j \in Runners, job[j].plan # <<>>, NEW x, NEW ok
    PROVE  /\ Same(job[j], Advance(j, x, ok))
           /\ Advance(j, x, ok).plan = After(j, x, ok)
           /\ Advance(j, x, ok).failed = IF ok \/ x.mode # "must" THEN job[j].failed ELSE TRUE
           /\ Same(job[j], [Advance(j, x, ok) EXCEPT !.failed = TRUE])
           /\ [Advance(j, x, ok) EXCEPT !.failed = TRUE].plan = After(j, x, ok)
           /\ [Advance(j, x, ok) EXCEPT !.failed = TRUE].failed = TRUE
           /\ After(j, x, ok) \in Seq(StepsOf(job[j].op))
<1>1. JobOK(job[j]) /\ job[j].op # "idle"
  BY BusyHasOp
<1> DEFINE p == After(j, x, ok)
           f == IF ok \/ x.mode # "must" THEN job[j].failed ELSE TRUE
<1>2. \/ f = job[j].failed /\ Advance(j, x, ok) = [job[j] EXCEPT !.plan = p]
      \/ f = TRUE /\ Advance(j, x, ok) = [job[j] EXCEPT !.plan = p, !.failed = TRUE]
  BY DEF Advance, After
<1>3. p \in Seq(StepsOf(job[j].op))
  <2>1. job[j].plan \in Seq(StepsOf(job[j].op))
    BY DEF Types
  <2>2. Tail(job[j].plan) \in Seq(StepsOf(job[j].op))
    BY <2>1, TailIn
  <2>3. Remedy(job[j], x) \in Seq(StepsOf(job[j].op))
    BY <1>1, RemedyIn
  <2>4. QED
    BY <2>2, <2>3 DEF After
<1> DEFINE a == Advance(j, x, ok)
<1> HIDE DEF a, p, f
<1>4. \/ f = job[j].failed /\ a = [job[j] EXCEPT !.plan = p]
      \/ f = TRUE /\ a = [job[j] EXCEPT !.plan = p, !.failed = TRUE]
  BY <1>2 DEF a
<1>5. Same(job[j], a) /\ a.plan = p /\ a.failed = f
  <2>1. CASE f = job[j].failed /\ a = [job[j] EXCEPT !.plan = p]
    <3>1. /\ Same(job[j], [job[j] EXCEPT !.plan = p]) /\ [job[j] EXCEPT !.plan = p].plan = p
          /\ [job[j] EXCEPT !.plan = p].failed = job[j].failed
      BY <1>1, WithPlan
    <3>2. QED
      BY <2>1, <3>1, Zenon
  <2>2. CASE f = TRUE /\ a = [job[j] EXCEPT !.plan = p, !.failed = TRUE]
    <3>1. /\ Same(job[j], [job[j] EXCEPT !.plan = p, !.failed = TRUE])
          /\ [job[j] EXCEPT !.plan = p, !.failed = TRUE].plan = p
          /\ [job[j] EXCEPT !.plan = p, !.failed = TRUE].failed = TRUE
      BY <1>1, WithPlanFailed
    <3>2. QED
      BY <2>2, <3>1, Zenon
  <2>3. QED
    BY <1>4, <2>1, <2>2
<1>6. /\ Same(job[j], [a EXCEPT !.failed = TRUE])
      /\ [a EXCEPT !.failed = TRUE].plan = p /\ [a EXCEPT !.failed = TRUE].failed = TRUE
  <2>1. JobOK(a) /\ a.op # "idle"
    BY <1>1, <1>5 DEF Same
  <2>2. [a EXCEPT !.failed = TRUE] = [a EXCEPT !.plan = p, !.failed = TRUE]
    BY <1>5, <2>1 DEF JobOK, Shape, Fields
  <2>3. /\ Same(a, [a EXCEPT !.plan = p, !.failed = TRUE])
        /\ [a EXCEPT !.plan = p, !.failed = TRUE].plan = p
        /\ [a EXCEPT !.plan = p, !.failed = TRUE].failed = TRUE
    BY <2>1, WithPlanFailed
  <2>4. /\ Same(a, [a EXCEPT !.failed = TRUE]) /\ [a EXCEPT !.failed = TRUE].plan = p
        /\ [a EXCEPT !.failed = TRUE].failed = TRUE
    BY <2>2, <2>3, Zenon
  <2>5. QED
    BY <1>5, <2>4 DEF Same
<1>7. QED
  BY <1>3, <1>5, <1>6 DEF a, p, f

LEMMA PlanSet ==
    ASSUME Types, NEW j \in Runners, NEW p, job' = [job EXCEPT ![j].plan = p]
    PROVE  job' = [job EXCEPT ![j] = [job[j] EXCEPT !.plan = p]]
BY DEF Types

LEMMA CommandKeeps ==
    ASSUME IInv, NEW j \in Runners, Command(j)
    PROVE  IInv'
<1> DEFINE x == Head(job[j].plan)
<1>1. job[j].plan # <<>> /\ IsCommand(x) /\ UNCHANGED <<inbound, client, excused>>
  BY DEF Command
<1>2. Types /\ job[j] # NoJob /\ JobOK(job[j]) /\ job[j].op # "idle"
  BY <1>1, BusyHasOp DEF IInv
<1>3. x # Head(Write("limit"))
  <2>1. x.mode # "row"
    BY <1>1 DEF IsCommand
  <2>2. Head(Write("limit")).mode = "row"
    BY WriteHead
  <2>3. QED
    BY <2>1, <2>2
<1>4. Answered(j, x) \/ Fails(j, x) \/ Unreachable(j, x)
  BY DEF Command
<1> HIDE DEF x
<1>5. PICK g : /\ job' = [job EXCEPT ![j] = g]
               /\ Same(job[j], g)
               /\ g.plan \in Seq(StepsOf(job[j].op))
  <2>1. CASE Answered(j, x)
    <3>1. PICK ok : job' = [job EXCEPT ![j] = Advance(j, x, ok)]
      BY <2>1 DEF Answered
    <3>2. Same(job[j], Advance(j, x, ok)) /\ Advance(j, x, ok).plan \in Seq(StepsOf(job[j].op))
      <4>1. /\ Same(job[j], Advance(j, x, ok))
            /\ Advance(j, x, ok).plan = After(j, x, ok)
        BY <1>1, <1>2, AdvanceOK
      <4>2. After(j, x, ok) \in Seq(StepsOf(job[j].op))
        BY <1>1, <1>2, AdvanceOK
      <4>3. QED
        BY <4>1, <4>2
    <3>3. QED
      BY <3>1, <3>2
  <2>2. CASE job' = [job EXCEPT ![j] = [Advance(j, x, FALSE) EXCEPT !.failed = TRUE]]
    <3>1. PICK no : no = FALSE
      OBVIOUS
    <3>2. /\ Same(job[j], [Advance(j, x, no) EXCEPT !.failed = TRUE])
          /\ [Advance(j, x, no) EXCEPT !.failed = TRUE].plan = After(j, x, no)
          /\ After(j, x, no) \in Seq(StepsOf(job[j].op))
      BY <1>1, <1>2, AdvanceOK, Zenon
    <3>3. job' = [job EXCEPT ![j] = [Advance(j, x, no) EXCEPT !.failed = TRUE]]
      BY <2>2, <3>1
    <3>4. QED
      BY <3>2, <3>3
  <2>3. CASE job' = [job EXCEPT ![j].plan =
                       Step("apply", 0, "", 0, "must") \o Write("recover") \o Write("tags")]
    <3> DEFINE p == Step("apply", 0, "", 0, "must") \o Write("recover") \o Write("tags")
    <3>1. p \in Seq(StepsOf(job[j].op))
      <4>1. \A do \in {"recover", "tags"} : do \in Dos \ Commands /\ Allowed(job[j].op, do)
        BY DEF Dos, Allowed, Commands
      <4>2. /\ Step("apply", 0, "", 0, "must") \in Seq(StepsOf(job[j].op))
            /\ Write("recover") \in Seq(StepsOf(job[j].op))
            /\ Write("tags") \in Seq(StepsOf(job[j].op))
        BY <4>1, CommandsIn, WriteIn
      <4>3. QED
        BY <4>2, Concat
    <3>2. job' = [job EXCEPT ![j] = [job[j] EXCEPT !.plan = p]]
      BY <1>2, <2>3, PlanSet
    <3> HIDE DEF p
    <3>3. Same(job[j], [job[j] EXCEPT !.plan = p]) /\ [job[j] EXCEPT !.plan = p].plan = p
      BY <1>2, WithPlan
    <3>4. QED
      BY <3>1, <3>2, <3>3
  <2>4. QED
    BY <1>4, <2>1, <2>2, <2>3 DEF Fails, Unreachable
<1>6. QED
  BY <1>1, <1>2, <1>3, <1>5, PlanMoves DEF Same, x, IInv, Types

LEMMA InboundRows ==
    ASSUME inbound \in GoodRows
    PROVE  /\ \A i \in Inbounds, e \in There :
                 Exists(i) => [inbound EXCEPT ![i].enable = e] \in GoodRows
           /\ \A i \in Inbounds, x \in InboundRow :
                 RowOK(i, x) => [inbound EXCEPT ![i] = x] \in GoodRows
           /\ \A i \in Inbounds : Exists(i) <=> inbound[i].gen \in 1..MaxGen[i]
           /\ \A i \in Inbounds : inbound[i] \in InboundRow /\ RowOK(i, inbound[i])
<1>1. ASSUME NEW i \in Inbounds, NEW e \in There, Exists(i)
      PROVE  [inbound EXCEPT ![i].enable = e] \in GoodRows
  <2>1. PICK x : x = [inbound[i] EXCEPT !.enable = e]
    OBVIOUS
  <2>2. x \in InboundRow /\ x.enable = e /\ x.gen = inbound[i].gen
    BY <2>1 DEF GoodRows, InboundRow, There
  <2>3. RowOK(i, x)
    BY <1>1, <2>2 DEF GoodRows, RowOK, Exists, There
  <2>4. [inbound EXCEPT ![i].enable = e] = [inbound EXCEPT ![i] = x]
    BY <2>1 DEF GoodRows
  <2>5. QED
    BY <2>2, <2>3, <2>4 DEF GoodRows
<1>2. ASSUME NEW i \in Inbounds, NEW x \in InboundRow, RowOK(i, x)
      PROVE  [inbound EXCEPT ![i] = x] \in GoodRows
  BY <1>2 DEF GoodRows
<1>3. \A i \in Inbounds : inbound[i] \in InboundRow /\ RowOK(i, inbound[i])
  BY DEF GoodRows
<1>4. \A i \in Inbounds : Exists(i) <=> inbound[i].gen \in 1..MaxGen[i]
  BY <1>3, Bounds DEF RowOK, Exists, There
<1>5. QED
  BY <1>1, <1>2, <1>3, <1>4

LEMMA RecoveredRows ==
    ASSUME inbound \in GoodRows
    PROVE  [k \in Inbounds |-> IF inbound[k].enable = "error"
                               THEN [inbound[k] EXCEPT !.enable = "on"]
                               ELSE inbound[k]] \in GoodRows
<1> DEFINE new(k) == IF inbound[k].enable = "error" THEN [inbound[k] EXCEPT !.enable = "on"]
                     ELSE inbound[k]
<1>1. ASSUME NEW k \in Inbounds PROVE new(k) \in InboundRow /\ RowOK(k, new(k))
  <2>1. inbound[k] \in InboundRow /\ RowOK(k, inbound[k])
    BY DEF GoodRows
  <2>2. CASE inbound[k].enable = "error"
    <3>1. PICK x : x = [inbound[k] EXCEPT !.enable = "on"]
      OBVIOUS
    <3>2. x \in InboundRow /\ x.enable = "on" /\ x.gen = inbound[k].gen
      BY <2>1, <3>1 DEF InboundRow
    <3>3. RowOK(k, x)
      BY <2>1, <2>2, <3>2 DEF RowOK, There
    <3>4. QED
      BY <2>2, <3>1, <3>2, <3>3
  <2>3. CASE inbound[k].enable # "error"
    BY <2>1, <2>3
  <2>4. QED
    BY <2>2, <2>3
<1> HIDE DEF new
<1>2. [k \in Inbounds |-> new(k)] \in GoodRows
  BY <1>1 DEF GoodRows
<1>3. QED
  BY <1>2 DEF new

LEMMA WriteInboundKeeps ==
    ASSUME IInv, NEW j \in Runners, WriteInbound(j)
    PROVE  IInv'
<1> DEFINE p == Tail(job[j].plan)
<1>1. job[j].plan # <<>> /\ Head(job[j].plan) # Head(Write("limit"))
  <2>1. PICK what \in {"off", "error", "revertInbound", "recover"} : At(j, what)
    BY DEF WriteInbound
  <2>2. QED
    BY <2>1, WriteHead DEF At
<1>2. Types /\ job[j] # NoJob /\ JobOK(job[j]) /\ job[j].op # "idle"
  BY <1>1, BusyHasOp DEF IInv
<1>3. job' = [job EXCEPT ![j] = [job[j] EXCEPT !.plan = p]]
  BY <1>2, PlanSet DEF WriteInbound, Next1
<1>4. p \in Seq(StepsOf(job[j].op))
  BY <1>1, <1>2, TailIn DEF Types
<1>5. inbound' \in GoodRows
  <2> DEFINE i == job[j].i
  <2>1. /\ inbound \in GoodRows /\ i \in Inbounds
        /\ job[j].inbound \in InboundRow /\ RowOK(i, job[j].inbound)
    <3>1. inbound \in GoodRows
      BY <1>2 DEF Types
    <3>2. i \in Inbounds /\ job[j].inbound \in InboundRow /\ RowOK(i, job[j].inbound)
      BY <1>2 DEF JobOK
    <3>3. QED
      BY <3>1, <3>2
  <2>2. \/ SetInbound(i, "off") \/ SetInbound(i, "error")
        \/ inbound' = [inbound EXCEPT ![i] = job[j].inbound]
        \/ inbound' = [k \in Inbounds |-> IF inbound[k].enable = "error"
                                          THEN [inbound[k] EXCEPT !.enable = "on"]
                                          ELSE inbound[k]]
    BY DEF WriteInbound
  <2> HIDE DEF i
  <2>3. CASE SetInbound(i, "off") \/ SetInbound(i, "error")
    <3>1. PICK e \in There : SetInbound(i, e)
      BY <2>3 DEF There
    <3>2. (inbound' = [inbound EXCEPT ![i].enable = e] /\ Exists(i)) \/ inbound' = inbound
      BY <3>1 DEF SetInbound
    <3>3. Exists(i) => [inbound EXCEPT ![i].enable = e] \in GoodRows
      BY <2>1, InboundRows
    <3>4. QED
      BY <2>1, <3>2, <3>3
  <2>4. CASE inbound' = [inbound EXCEPT ![i] = job[j].inbound]
    BY <2>1, <2>4, InboundRows
  <2>5. CASE inbound' = [k \in Inbounds |-> IF inbound[k].enable = "error"
                                           THEN [inbound[k] EXCEPT !.enable = "on"]
                                           ELSE inbound[k]]
    BY <2>1, <2>5, RecoveredRows
  <2>6. QED
    BY <2>2, <2>3, <2>4, <2>5
<1>6. UNCHANGED <<client, excused>>
  BY DEF WriteInbound
<1> HIDE DEF p
<1>7. Same(job[j], [job[j] EXCEPT !.plan = p]) /\ [job[j] EXCEPT !.plan = p].plan = p
  BY <1>2, WithPlan
<1>8. QED
  BY <1>1, <1>2, <1>3, <1>4, <1>5, <1>6, <1>7, PlanMoves DEF Same

\* Orders of a set of inbounds.
LEMMA OrdersFact ==
    ASSUME NEW S \in SUBSET Inbounds, NEW s \in Orders(S)
    PROVE  /\ s \in Seq(S) /\ DOMAIN s = 1..Len(s)
           /\ \A n \in 1..Len(s) : s[n] \in S
           /\ \A k \in S : \E n \in 1..Len(s) : s[n] = k
           /\ s = <<>> <=> S = {}
<1>1. Cardinality(S) \in Nat
  <2>1. IsFiniteSet(Inbounds)
    BY PanelAssumption, FS_Interval DEF Inbounds
  <2>2. QED
    BY <2>1, FS_Subset, FS_CardinalityType
<1>2. s \in [1..Cardinality(S) -> S] /\ \A k \in S : \E n \in 1..Cardinality(S) : s[n] = k
  BY DEF Orders
<1>3. s \in Seq(S) /\ Len(s) = Cardinality(S)
  BY <1>1, <1>2
<1>4. s = <<>> => S = {}
  BY <1>2, <1>3
<1>5. s # <<>> => S # {}
  BY <1>3
<1>6. QED
  BY <1>2, <1>3, <1>4, <1>5

LEMMA PlanFails ==
    ASSUME Types, NEW j \in Runners, JobOK(job[j]), job[j].op # "idle",
           job' = [job EXCEPT ![j].plan = Tail(@), ![j].failed = TRUE]
    PROVE  \E g : /\ job' = [job EXCEPT ![j] = g] /\ Same(job[j], g)
                  /\ g.plan = Tail(job[j].plan) /\ g.failed = TRUE
<1>1. PICK p : p = Tail(job[j].plan)
  OBVIOUS
<1>2. job' = [job EXCEPT ![j] = [job[j] EXCEPT !.plan = p, !.failed = TRUE]]
  BY <1>1 DEF Types
<1>3. /\ Same(job[j], [job[j] EXCEPT !.plan = p, !.failed = TRUE])
      /\ [job[j] EXCEPT !.plan = p, !.failed = TRUE].plan = p
      /\ [job[j] EXCEPT !.plan = p, !.failed = TRUE].failed = TRUE
  BY WithPlanFailed
<1>4. QED
  BY <1>1, <1>2, <1>3

LEMMA CollectKeeps ==
    ASSUME IInv, Collect("reconcile")
    PROVE  IInv'
<1> DEFINE j == "reconcile"
<1>1. At(j, "tags") /\ job[j].plan # <<>> /\ UNCHANGED <<inbound, client, excused>>
  BY DEF Collect, At
<1>2. j \in Runners /\ j \notin Jobs
  BY RunnersFact
<1>3. Types /\ job[j] # NoJob /\ JobOK(job[j]) /\ job[j].op # "idle"
  BY <1>1, <1>2, BusyHasOp DEF IInv
<1>4. Tail(job[j].plan) \in Seq(StepsOf(job[j].op))
  BY <1>1, <1>2, <1>3, TailIn DEF Types
<1>5. PICK g : /\ job' = [job EXCEPT ![j] = g]
               /\ Same(job[j], g) /\ g.plan \in Seq(StepsOf(job[j].op))
  <2>1. CASE \E s \in Orders(Orphans) :
               Instead(j, [n \in DOMAIN s |-> Head(RemoveInbound(s[n], "try"))])
    <3>1. PICK s \in Orders(Orphans) :
             Instead(j, [n \in DOMAIN s |-> Head(RemoveInbound(s[n], "try"))])
      BY <2>1
    <3> DEFINE q == [n \in DOMAIN s |-> Head(RemoveInbound(s[n], "try"))]
               p == q \o Tail(job[j].plan)
    <3>2. s \in Seq(Orphans) /\ DOMAIN s = 1..Len(s) /\ \A n \in 1..Len(s) : s[n] \in Inbounds
      BY OrdersFact DEF Orphans
    <3>3. \A n \in DOMAIN s : Head(RemoveInbound(s[n], "try")) \in StepsOf(job[j].op)
      BY <3>2, CommandsIn
    <3>4. q \in Seq(StepsOf(job[j].op))
      BY <3>2, <3>3
    <3>5. job' = [job EXCEPT ![j] = [job[j] EXCEPT !.plan = p]]
      BY <1>2, <1>3, <3>1, PlanSet DEF Instead
    <3> HIDE DEF q
    <3>6. p \in Seq(StepsOf(job[j].op))
      BY <1>4, <3>4, Concat
    <3> HIDE DEF p
    <3>7. Same(job[j], [job[j] EXCEPT !.plan = p]) /\ [job[j] EXCEPT !.plan = p].plan = p
      BY <1>3, WithPlan
    <3>8. QED
      BY <3>5, <3>6, <3>7
  <2>2. CASE job' = [job EXCEPT ![j].plan = Tail(@), ![j].failed = TRUE]
    BY <1>2, <1>3, <1>4, <2>2, PlanFails
  <2>3. QED
    BY <2>1, <2>2 DEF Collect
<1>6. QED
  BY <1>1, <1>2, <1>3, <1>5, PlanMoves DEF Same, Types

-----------------------------------------------------------------------------
(* A goroutine begins, and overlaps the others.                            *)

LEMMA Overlaps ==
    ASSUME Types
    PROVE  /\ Overlapped = [k \in Runners |-> Overlapped[k]]
           /\ \A k \in Runners :
                 /\ JobOK(Overlapped[k])
                 /\ Overlapped[k].op = job[k].op
                 /\ Overlapped[k].c = job[k].c
                 /\ Overlapped[k].client = job[k].client
                 /\ Overlapped[k].plan = job[k].plan
                 /\ (Overlapped[k] = NoJob <=> job[k] = NoJob)
                 /\ Overlapped[k].clean => Overlapped[k] = NoJob /\ job[k] = NoJob
                 /\ ~ job[k].clean => ~ Overlapped[k].clean
<1>1. Overlapped = [k \in Runners |-> Overlapped[k]]
  BY DEF Overlapped
<1> SUFFICES ASSUME NEW k \in Runners
             PROVE  /\ JobOK(Overlapped[k])
                    /\ Overlapped[k].op = job[k].op
                    /\ Overlapped[k].c = job[k].c
                    /\ Overlapped[k].client = job[k].client
                    /\ Overlapped[k].plan = job[k].plan
                    /\ (Overlapped[k] = NoJob <=> job[k] = NoJob)
                    /\ Overlapped[k].clean => Overlapped[k] = NoJob /\ job[k] = NoJob
                    /\ ~ job[k].clean => ~ Overlapped[k].clean
  BY <1>1
<1>2. JobOK(job[k])
  BY DEF Types
<1>3. CASE job[k] = NoJob
  <2>1. Overlapped[k] = job[k]
    BY <1>3 DEF Overlapped, Busy
  <2>2. QED
    BY <1>2, <1>3, <2>1
<1>4. CASE job[k] # NoJob
  <2> DEFINE g == job[k]
             h == [g EXCEPT !.clean = FALSE]
  <2>1. Overlapped[k] = h
    BY <1>4 DEF Overlapped, Busy
  <2>2. /\ Shape(h)
        /\ h.op = g.op /\ h.i = g.i /\ h.c = g.c /\ h.inbound = g.inbound
        /\ h.client = g.client /\ h.plan = g.plan /\ h.clean = FALSE
        /\ h.all = g.all /\ h.failed = g.failed
    BY <1>2 DEF JobOK, Shape, Fields
  <2>3. g.op # "idle"
    BY <1>2, <1>4 DEF JobOK
  <2> HIDE DEF h
  <2>4. JobOK(h)
    BY <1>2, <2>2, <2>3 DEF JobOK
  <2>5. h # NoJob
    BY <2>2, <2>3, NoJobIdle
  <2>6. QED
    BY <1>4, <2>1, <2>2, <2>4, <2>5
<1>5. QED
  BY <1>3, <1>4

LEMMA CrashKeeps == ASSUME IInv, Crash PROVE IInv'
<1> USE DEF IInv
<1>1. job' = Overlapped /\ UNCHANGED <<inbound, client, excused>>
  BY DEF Crash
<1>2. Types'
  BY <1>1, Overlaps, RunnersFact DEF Types
<1>3. \A k \in Runners : job'[k].clean => job'[k] = NoJob
  BY <1>1, Overlaps
<1>4. CleanAlone'
  BY <1>3 DEF CleanAlone
<1>5. CleanKnows'
  BY <1>3, RunnersFact, NoJobIdle DEF CleanKnows
<1>6. Noticed'
  <2> SUFFICES ASSUME NEW c \in Clients, Beyond(c)' PROVE \E k \in Jobs : SeesTo(job'[k], c)
    BY DEF Noticed
  <2>1. PICK k \in Jobs : SeesTo(job[k], c)
    BY <1>1 DEF Noticed, Beyond
  <2>2. /\ job'[k].op = job[k].op /\ job'[k].c = job[k].c /\ job'[k].plan = job[k].plan
        /\ ~ job[k].clean => ~ job'[k].clean
    BY <1>1, Overlaps, RunnersFact
  <2>3. QED
    BY <2>1, <2>2 DEF SeesTo
<1>7. QED
  BY <1>2, <1>4, <1>5, <1>6

\* What an operation does to the rows as it begins, with its plan.
FirstWrite(op, c, plan) ==
    /\ inbound' \in GoodRows
    /\ client' \in [Clients -> ClientRow]
    /\ excused' \in SUBSET Clients
    /\ \A d \in Clients : Beyond(d)' =>
          Beyond(d) \/ (d = c /\ op = "traffic" /\ plan = Write("limit"))
    /\ op = "reset" \/ (op = "check" /\ plan # <<>>) => client'[c].used = 0
    /\ op = "updateClient" => excused \subseteq excused'

LEMMA MergedGood ==
    ASSUME NEW i \in Inbounds, NEW gen \in 1..MaxGen[i]
    PROVE  /\ Merged(i, gen) \in Contents /\ ContentOK(i, Merged(i, gen))
           /\ Merged(i, gen).gen = gen /\ Merged(i, gen) # Absent
<1> DEFINE us == {c \in ClientsOf(i) : client[c].enable = "on"}
<1>1. us \in SUBSET Clients /\ us \subseteq ClientsOf(i)
  BY DEF ClientsOf
<1>2. gen \in Nat /\ gen # 0 /\ gen \in 0..MaxGen[i]
  BY Bounds
<1> HIDE DEF us
<1> DEFINE m == [gen |-> gen, users |-> us]
<1>3. m \in Contents /\ m.gen = gen /\ m.users = us
  BY <1>1, <1>2 DEF Contents
<1>4. Merged(i, gen) = m
  BY DEF Merged, us
<1> HIDE DEF m
<1>5. m # Absent
  BY <1>2, <1>3 DEF Absent
<1>6. ContentOK(i, m)
  BY <1>1, <1>2, <1>3 DEF ContentOK
<1>7. QED
  BY <1>3, <1>4, <1>5, <1>6

LEMMA AbsentGood ==
    /\ Absent \in Contents /\ Absent.gen = 0
    /\ \A i \in Inbounds : ContentOK(i, Absent)
    /\ \A i \in Inbounds, a \in Contents : ContentOK(i, a) => (a = Absent <=> a.gen = 0)
<1>1. Absent \in Contents /\ Absent.gen = 0 /\ Absent.users = {}
  BY DEF Absent, Contents
<1>2. \A i \in Inbounds : ContentOK(i, Absent)
  BY <1>1, Bounds DEF ContentOK
<1>3. ASSUME NEW i \in Inbounds, NEW a \in Contents, ContentOK(i, a), a.gen = 0
      PROVE  a = Absent
  BY <1>3 DEF ContentOK, Contents, Absent
<1>4. QED
  BY <1>1, <1>2, <1>3

LEMMA DeployedGood ==
    ASSUME inbound \in GoodRows
    PROVE  [k \in Inbounds |-> Deployed(k)] \in GoodContents
<1>1. ASSUME NEW k \in Inbounds
      PROVE  Deployed(k) \in Contents /\ ContentOK(k, Deployed(k))
  <2>1. k \in Wanted => inbound[k].gen \in 1..MaxGen[k]
    BY InboundRows DEF Wanted, Exists
  <2>2. QED
    BY <2>1, MergedGood, AbsentGood DEF Deployed
<1>2. QED
  BY <1>1 DEF GoodContents

LEMMA BeginKeeps ==
    ASSUME IInv, NEW j \in Runners, NEW op, NEW i \in Inbounds,
           NEW c \in {""} \cup Clients, NEW want, NEW plan,
           Begin(j, op, i, c, want, plan),
           op # "idle", op \in ClientOps => c \in Clients /\ i = InboundOf[c],
           op = "updateInbound" => Exists(i),
           plan \in Seq(StepsOf(op)),
           j \in Jobs <=> op # "reconcile",
           FirstWrite(op, c, plan)
    PROVE  IInv'
<1> USE DEF IInv, FirstWrite
<1> DEFINE r == job'[j]
<1>1. /\ job[j] = NoJob
      /\ job' = [Overlapped EXCEPT ![j] = r]
      /\ Shape(r)
      /\ r.op = op /\ r.i = i /\ r.c = c /\ r.plan = plan
      /\ r.inbound = IF op = "updateInbound" THEN inbound[i] ELSE Unborn
      /\ r.client = IF op = "updateClient" THEN client[c] ELSE NoClient
      /\ r.clean = (Busy = {}) /\ r.failed = FALSE
      /\ r.all = IF op = "reconcile" THEN [k \in Inbounds |-> Deployed(k)] ELSE NoJob.all
  BY Overlaps DEF Begin, Shape, Fields
<1>2. \A k \in Runners : job'[k] = IF k = j THEN r ELSE Overlapped[k]
  BY <1>1, Overlaps
<1>3. job' = [k \in Runners |-> job'[k]]
  BY <1>1, Overlaps
<1> HIDE DEF r
<1>4. JobOK(r)
  <2>1. /\ r.inbound \in InboundRow /\ RowOK(i, r.inbound)
        /\ op = "updateInbound" => r.inbound.enable \in There
    <3>1. inbound[i] \in InboundRow /\ RowOK(i, inbound[i])
      BY InboundRows DEF Types
    <3>2. Unborn \in InboundRow /\ RowOK(i, Unborn)
      BY DEF InboundRow, RowOK, Unborn, There
    <3>3. op = "updateInbound" => inbound[i].enable \in There
      BY DEF Exists, There
    <3>4. QED
      BY <1>1, <3>1, <3>2, <3>3
  <2>2. r.client \in ClientRow
    <3>1. NoClient \in ClientRow
      BY NoClientRow
    <3>2. op = "updateClient" => client[c] \in ClientRow
      BY DEF Types, ClientOps
    <3>3. QED
      BY <1>1, <3>1, <3>2
  <2>3. r.clean \in BOOLEAN /\ r.failed \in BOOLEAN
    BY <1>1
  <2>4. r.all \in GoodContents
    <3>1. NoJob.all \in GoodContents
      BY NoJobOK DEF JobOK
    <3>2. [k \in Inbounds |-> Deployed(k)] \in GoodContents
      BY DeployedGood DEF Types
    <3>3. QED
      BY <1>1, <3>1, <3>2
  <2>5. QED
    BY <1>1, <2>1, <2>2, <2>3, <2>4 DEF JobOK
<1>5. Types'
  <2>1. \A k \in Runners : JobOK(job'[k])
    BY <1>2, <1>4, Overlaps
  <2>2. /\ \A k \in Runners : job'[k].plan \in Seq(StepsOf(job'[k].op))
        /\ \A k \in Jobs : job'[k].op # "reconcile"
    <3> SUFFICES ASSUME NEW k \in Runners
                 PROVE  /\ job'[k].plan \in Seq(StepsOf(job'[k].op))
                        /\ k \in Jobs => job'[k].op # "reconcile"
      BY RunnersFact
    <3>1. CASE k = j
      BY <1>1, <1>2, <3>1
    <3>2. CASE k # j
      <4>1. job'[k].plan = job[k].plan /\ job'[k].op = job[k].op
        BY <1>2, <3>2, Overlaps
      <4>2. QED
        BY <4>1 DEF Types
    <3>3. QED
      BY <3>1, <3>2
  <2>3. job'["reconcile"].op \in {"idle", "reconcile"}
    BY <1>1, <1>2, Overlaps, RunnersFact DEF Types
  <2>4. QED
    BY <1>3, <2>1, <2>2, <2>3 DEF Types
<1>6. \A k \in Runners : k # j /\ job'[k].clean => job'[k] = NoJob /\ job[k] = NoJob
  BY <1>2, Overlaps
<1>7. CleanAlone'
  <2> SUFFICES ASSUME NEW k \in Runners, job'[k] # NoJob, job'[k].clean PROVE Busy' = {k}
    BY DEF CleanAlone
  <2>1. k = j /\ Busy = {}
    BY <1>1, <1>2, <1>6
  <2>2. \A m \in Runners : m # j => job'[m] = NoJob
    <3>1. \A m \in Runners : m # j => job[m] = NoJob /\ job'[m] = Overlapped[m]
      BY <1>2, <2>1 DEF Busy
    <3>2. QED
      BY <3>1 DEF Overlapped, Busy
  <2>3. QED
    BY <2>1, <2>2 DEF Busy
<1>8. CleanKnows'
  <2> SUFFICES ASSUME NEW k \in Jobs, job'[k].clean
        PROVE /\ (job'[k].op = "reset" \/ (job'[k].op = "check" /\ job'[k].plan # <<>>))
                 => client'[job'[k].c].used = 0
              /\ job'[k].op = "updateClient"
                    /\ job'[k].client.enable = "on" /\ job'[k].client.used >= Limit
                 => job'[k].c \in excused'
    BY DEF CleanKnows
  <2>1. CASE k # j
    BY <1>6, <2>1, RunnersFact, NoJobIdle
  <2>2. CASE k = j
    <3>1. Busy = {} /\ job'[k] = r
      BY <1>1, <1>2, <2>2
    <3>2. \A d \in Clients : ~ Beyond(d)
      <4>1. \A m \in Jobs : job[m] = NoJob
        BY <3>1, RunnersFact DEF Busy
      <4>2. \A m \in Jobs, d \in Clients : ~ SeesTo(job[m], d)
        BY <4>1, NoJobIdle DEF SeesTo, Excusing
      <4>3. QED
        BY <4>2 DEF Noticed
    <3>3. op = "updateClient" => c \in Clients
      BY DEF ClientOps
    <3>4. op = "updateClient" /\ r.client.enable = "on" /\ r.client.used >= Limit
             => c \in excused'
      BY <1>1, <3>2, <3>3 DEF Beyond
    <3>5. op = "reset" \/ (op = "check" /\ r.plan # <<>>) => client'[c].used = 0
      BY <1>1
    <3>6. r.op = op /\ r.c = c
      BY <1>1
    <3>7. QED
      BY <3>1, <3>4, <3>5, <3>6
  <2>3. QED
    BY <2>1, <2>2
<1>9. Noticed'
  <2> SUFFICES ASSUME NEW d \in Clients, Beyond(d)' PROVE \E k \in Jobs : SeesTo(job'[k], d)
    BY DEF Noticed
  <2>1. CASE Beyond(d)
    <3>1. PICK k \in Jobs : SeesTo(job[k], d)
      BY <2>1 DEF Noticed
    <3>2. k # j
      BY <1>1, <3>1, NoJobIdle DEF SeesTo, Excusing
    <3>3. /\ job'[k].op = job[k].op /\ job'[k].c = job[k].c /\ job'[k].plan = job[k].plan
          /\ ~ job[k].clean => ~ job'[k].clean
      BY <1>2, <3>2, Overlaps, RunnersFact
    <3>4. QED
      BY <3>1, <3>3 DEF SeesTo
  <2>2. CASE d = c /\ op = "traffic" /\ plan = Write("limit")
    <3>1. Write("limit") # <<>>
      BY DEF Write, Step
    <3>2. j \in Jobs
      BY <1>1, <2>2
    <3>3. job'[j] = r
      BY <1>1, <1>2, <3>2
    <3>4. r.op = "traffic" /\ r.c = d /\ r.plan = Write("limit")
      BY <1>1, <2>2
    <3>5. SeesTo(r, d)
      BY <3>1, <3>4 DEF SeesTo
    <3>6. QED
      BY <3>2, <3>3, <3>5
  <2>3. QED
    BY <2>1, <2>2
<1>10. QED
  BY <1>5, <1>7, <1>8, <1>9

LEMMA ClientRows ==
    ASSUME client \in [Clients -> ClientRow], NEW c \in Clients
    PROVE  /\ \A e \in {"on", "off"} :
                 /\ [client EXCEPT ![c].enable = e] \in [Clients -> ClientRow]
                 /\ [client EXCEPT ![c].enable = e, ![c].written = TRUE]
                       \in [Clients -> ClientRow]
           /\ \A x \in ClientRow : [client EXCEPT ![c] = x] \in [Clients -> ClientRow]
           /\ [client EXCEPT ![c].used = 0, ![c].written = TRUE] \in [Clients -> ClientRow]
           /\ [client EXCEPT ![c].written = FALSE] \in [Clients -> ClientRow]
           /\ [client EXCEPT ![c].used = IF @ < Limit THEN @ + 1 ELSE @]
                 \in [Clients -> ClientRow]
<1>7. 0 \in 0..Limit /\ Limit \in Nat
  BY Bounds
<1>1. \A e \in {"on", "off"} : [client EXCEPT ![c].enable = e] \in [Clients -> ClientRow]
  BY DEF ClientRow
<1>2. \A e \in {"on", "off"} : [client EXCEPT ![c].enable = e, ![c].written = TRUE]
                                  \in [Clients -> ClientRow]
  BY DEF ClientRow
<1>3. \A x \in ClientRow : [client EXCEPT ![c] = x] \in [Clients -> ClientRow]
  OBVIOUS
<1>4. [client EXCEPT ![c].used = 0, ![c].written = TRUE] \in [Clients -> ClientRow]
  BY <1>7 DEF ClientRow
<1>5. [client EXCEPT ![c].written = FALSE] \in [Clients -> ClientRow]
  BY DEF ClientRow
<1>6. [client EXCEPT ![c].used = IF @ < Limit THEN @ + 1 ELSE @] \in [Clients -> ClientRow]
  <2> DEFINE n == IF client[c].used < Limit THEN client[c].used + 1 ELSE client[c].used
  <2>1. n \in 0..Limit
    <3>1. client[c].used \in 0..Limit
      BY DEF ClientRow
    <3>2. QED
      BY <1>7, <3>1
  <2> HIDE DEF n
  <2>2. [client EXCEPT ![c].used = n] \in [Clients -> ClientRow]
    BY <2>1 DEF ClientRow
  <2>3. QED
    BY <2>2 DEF n
<1>8. QED
  BY <1>1, <1>2, <1>3, <1>4, <1>5, <1>6

InboundOps == {"createInbound", "updateInbound", "deleteInbound", "enable", "disable"}

\* A request that is about an inbound.
LEMMA OnInboundKeeps ==
    ASSUME IInv, NEW j \in Jobs, NEW op \in InboundOps, NEW i \in Inbounds, NEW want,
           NEW plan \in Seq(StepsOf(op)), OnInbound(j, op, i, want, plan),
           op = "updateInbound" => Exists(i),
           inbound' \in GoodRows
    PROVE  IInv'
<1>1. Begin(j, op, i, "", want, plan) /\ UNCHANGED <<client, excused>>
  BY DEF OnInbound
<1>2. client' \in [Clients -> ClientRow] /\ excused' \in SUBSET Clients
  BY <1>1 DEF IInv, Types
<1>3. \A d \in Clients : Beyond(d)' => Beyond(d)
  BY <1>1 DEF Beyond
<1>4. op \notin ClientOps /\ op \notin {"idle", "reconcile"}
  BY DEF ClientOps, InboundOps
<1>5. op \notin {"reset", "check", "updateClient"}
  BY DEF InboundOps
<1>6. j \in Runners
  BY RunnersFact
<1>7. FirstWrite(op, "", plan)
  BY <1>2, <1>3, <1>5 DEF FirstWrite
<1>8. QED
  BY <1>1, <1>4, <1>6, <1>7, BeginKeeps

LEMMA InboundRequestKeeps ==
    ASSUME IInv, NEW j \in Jobs, InboundRequest(j)
    PROVE  IInv'
<1>1. PICK i \in Inbounds : \/ CreateInbound(j, i)
                            \/ UpdateInbound(j, i)
                            \/ DeleteInbound(j, i)
                            \/ EnableInbound(j, i)
                            \/ DisableInbound(j, i)
  BY DEF InboundRequest
<1>2. /\ inbound \in GoodRows /\ inbound[i] \in InboundRow /\ inbound[i].gen \in Nat
      /\ Exists(i) => inbound[i].gen \in 1..MaxGen[i]
      /\ MaxGen[i] \in Nat \ {0}
  <2>1. inbound \in GoodRows
    BY DEF IInv, Types
  <2>2. inbound[i] \in InboundRow
    BY <2>1, InboundRows
  <2>3. QED
    BY <2>1, <2>2, InboundRows, Bounds DEF InboundRow
<1>3. \A op : /\ \A w \in {"drop", "last", "off"} : Write(w) \in Seq(StepsOf(op))
              /\ <<>> \in Seq(StepsOf(op))
  BY WriteIn DEF Dos, Allowed, Commands
<1>4. ASSUME NEW op
      PROVE  /\ \A gen \in 1..MaxGen[i] : AddInbound(i, gen, "must") \in Seq(StepsOf(op))
             /\ RemoveInbound(i, "must") \in Seq(StepsOf(op))
  <2>1. \A gen \in 1..MaxGen[i] : gen \in Nat
    BY <1>2
  <2>2. QED
    BY <2>1, CommandsIn
<1>5. CASE CreateInbound(j, i)
  <2>1. Row("on", 1) \in InboundRow /\ RowOK(i, Row("on", 1)) /\ 1 \in 1..MaxGen[i]
    BY <1>2 DEF Row, InboundRow, RowOK, There
  <2>2. inbound' \in GoodRows
    BY <1>2, <1>5, <2>1, InboundRows DEF CreateInbound
  <2>3. OnInbound(j, "createInbound", i, "", AddInbound(i, 1, "must"))
    BY <1>5 DEF CreateInbound
  <2>4. AddInbound(i, 1, "must") \in Seq(StepsOf("createInbound"))
    BY <1>4, <2>1
  <2>5. QED
    BY <2>2, <2>3, <2>4, OnInboundKeeps DEF InboundOps
<1>6. CASE UpdateInbound(j, i)
  <2> DEFINE plan == IF inbound[i].enable = "off" THEN <<>>
                     ELSE RemoveInbound(i, "must")
                          \o AddInbound(i, inbound[i].gen + 1, "must")
  <2>1. inbound' \in GoodRows
    <3>1. /\ inbound' = [inbound EXCEPT ![i].gen = inbound[i].gen + 1]
          /\ Exists(i) /\ inbound[i].gen < MaxGen[i]
      BY <1>6 DEF UpdateInbound
    <3>2. PICK x : x = [inbound[i] EXCEPT !.gen = inbound[i].gen + 1]
      OBVIOUS
    <3>3. x \in InboundRow /\ x.enable = inbound[i].enable /\ x.gen = inbound[i].gen + 1
      BY <1>2, <3>2 DEF InboundRow
    <3>4. x.gen \in 1..MaxGen[i]
      BY <1>2, <3>1, <3>3
    <3>5. RowOK(i, x)
      BY <3>1, <3>3, <3>4 DEF RowOK, Exists, There
    <3>6. inbound' = [inbound EXCEPT ![i] = x]
      BY <1>2, <3>1, <3>2 DEF GoodRows
    <3>7. QED
      BY <1>2, <3>3, <3>5, <3>6, InboundRows
  <2>2. RemoveInbound(i, "must") \o AddInbound(i, inbound[i].gen + 1, "must")
           \in Seq(StepsOf("updateInbound"))
    <3>1. inbound[i].gen + 1 \in 1..MaxGen[i]
      <4>1. inbound[i].gen < MaxGen[i] /\ inbound[i].gen \in Nat /\ MaxGen[i] \in Nat
        BY <1>2, <1>6 DEF UpdateInbound
      <4>2. QED
        BY <4>1
    <3>2. /\ RemoveInbound(i, "must") \in Seq(StepsOf("updateInbound"))
          /\ AddInbound(i, inbound[i].gen + 1, "must") \in Seq(StepsOf("updateInbound"))
      BY <1>4, <3>1
    <3>3. QED
      BY <3>2, Concat
  <2>3. plan \in Seq(StepsOf("updateInbound"))
    BY <1>3, <2>2
  <2>4. OnInbound(j, "updateInbound", i, "", plan) /\ Exists(i)
    BY <1>6 DEF UpdateInbound
  <2> HIDE DEF plan
  <2>5. QED
    BY <2>1, <2>3, <2>4, OnInboundKeeps DEF InboundOps
<1>7. CASE DeleteInbound(j, i)
  <2> DEFINE p == IF online THEN RemoveInbound(i, "must") ELSE <<>>
             plan == p \o Write("drop") \o Write("last")
  <2>1. p \in Seq(StepsOf("deleteInbound"))
    BY <1>3, <1>4
  <2>2. OnInbound(j, "deleteInbound", i, Away, plan) /\ UNCHANGED inbound
    BY <1>7 DEF DeleteInbound
  <2> HIDE DEF p
  <2>3. plan \in Seq(StepsOf("deleteInbound"))
    BY <1>3, <2>1, Concat
  <2> HIDE DEF plan
  <2>4. QED
    BY <1>2, <2>2, <2>3, OnInboundKeeps DEF InboundOps
<1>8. CASE EnableInbound(j, i)
  <2>1. inbound' \in GoodRows
    BY <1>2, <1>8, InboundRows DEF EnableInbound, SetInbound, There
  <2>2. OnInbound(j, "enable", i, "", AddInbound(i, inbound[i].gen, "must")) /\ Exists(i)
    BY <1>8 DEF EnableInbound
  <2>3. QED
    BY <1>2, <1>4, <2>1, <2>2, OnInboundKeeps DEF InboundOps
<1>9. CASE DisableInbound(j, i)
  <2> DEFINE plan == RemoveInbound(i, "must") \o Write("off") \o Write("last")
  <2>1. plan \in Seq(StepsOf("disable"))
    BY <1>3, <1>4, Concat
  <2>2. OnInbound(j, "disable", i, "", plan) /\ UNCHANGED inbound
    BY <1>9 DEF DisableInbound
  <2> HIDE DEF plan
  <2>3. QED
    BY <1>2, <2>1, <2>2, OnInboundKeeps DEF InboundOps
<1>10. QED
  BY <1>1, <1>5, <1>6, <1>7, <1>8, <1>9

\* A request, a report or a check that is about a client.
LEMMA OnClientKeeps ==
    ASSUME IInv, NEW j \in Jobs, NEW op \in ClientOps, NEW c \in Clients, NEW want,
           NEW plan \in Seq(StepsOf(op)), OnClient(j, op, c, want, plan),
           FirstWrite(op, c, plan)
    PROVE  IInv'
<1>1. /\ Begin(j, op, InboundOf[c], c, want, plan) /\ UNCHANGED inbound
      /\ InboundOf[c] \in Inbounds
  BY PanelAssumption DEF OnClient
<1>3. op # "idle" /\ op # "reconcile" /\ op # "updateInbound"
  BY DEF ClientOps
<1>4. j \in Runners /\ c \in {""} \cup Clients
  BY RunnersFact
<1>5. QED
  BY <1>1, <1>3, <1>4, BeginKeeps

\* How clients may change when an operation begins.
LEMMA Unbeyond ==
    ASSUME Types, NEW c \in Clients,
           \A d \in Clients : d # c => client'[d] = client[d] /\ (d \in excused => d \in excused'),
           client'[c].enable # "on" \/ client'[c].used = 0
              \/ c \in excused' \/ (client'[c] = client[c] /\ excused' = excused)
    PROVE  \A d \in Clients : Beyond(d)' => Beyond(d)
<1> SUFFICES ASSUME NEW d \in Clients, Beyond(d)' PROVE Beyond(d)
  OBVIOUS
<1>1. client'[d].enable = "on" /\ client'[d].used >= Limit /\ d \notin excused'
  BY DEF Beyond
<1>2. CASE d # c
  BY <1>1, <1>2 DEF Beyond
<1>3. CASE d = c
  <2>1. ~ (0 >= Limit)
    BY PanelAssumption
  <2>2. client'[c] = client[c] /\ excused' = excused
    BY <1>1, <1>3, <2>1
  <2>3. QED
    BY <1>1, <1>3, <2>2 DEF Beyond
<1>4. QED
  BY <1>2, <1>3

\* The row of a client and its part in the plans.
LEMMA AboutClient ==
    ASSUME Types, NEW op \in ClientOps, NEW c \in Clients, NEW j, NEW want, NEW plan,
           OnClient(j, op, c, want, plan)
    PROVE  /\ client \in [Clients -> ClientRow] /\ inbound' \in GoodRows
           /\ excused \in SUBSET Clients
           /\ <<>> \in Seq(StepsOf(op))
           /\ \A w \in {"offClient", "dropClient", "reload"} : Write(w) \in Seq(StepsOf(op))
           /\ \A mode \in {"must", "try"} : /\ AddClient(c, mode) \in Seq(StepsOf(op))
                                            /\ RemoveClient(c, mode) \in Seq(StepsOf(op))
<1>1. UNCHANGED inbound
  BY DEF OnClient
<1>2. \A w \in {"offClient", "dropClient", "reload"} : w \in Dos \ Commands /\ Allowed(op, w)
  BY DEF Dos, Allowed, Commands
<1>3. \A w \in {"offClient", "dropClient", "reload"} : Write(w) \in Seq(StepsOf(op))
  BY <1>2, WriteIn
<1>4. \A mode \in {"must", "try"} : /\ AddClient(c, mode) \in Seq(StepsOf(op))
                                    /\ RemoveClient(c, mode) \in Seq(StepsOf(op))
  BY CommandsIn
<1>5. QED
  BY <1>1, <1>3, <1>4 DEF Types

LEMMA CreateClientKeeps ==
    ASSUME IInv, NEW j \in Jobs, NEW c \in Clients, CreateClient(j, c)
    PROVE  IInv'
<1> DEFINE op == "createClient"
           plan == AddClient(c, "must")
           row == [enable |-> "on", used |-> 0, written |-> TRUE]
<1>1. /\ OnClient(j, op, c, "on", plan)
      /\ client' = [client EXCEPT ![c] = row]
      /\ excused' = excused \ {c}
  BY DEF CreateClient
<1>2. op \in ClientOps /\ Types
  BY DEF ClientOps, IInv
<1>3. /\ plan \in Seq(StepsOf(op)) /\ inbound' \in GoodRows
      /\ client \in [Clients -> ClientRow] /\ excused \in SUBSET Clients
  BY <1>1, <1>2, AboutClient
<1> HIDE DEF plan
<1>4. row \in ClientRow /\ row.used = 0
  <2>1. 0 \in 0..Limit
    BY Bounds
  <2>2. QED
    BY <2>1 DEF ClientRow
<1> HIDE DEF row
<1>5. client' \in [Clients -> ClientRow]
  BY <1>1, <1>3, <1>4
<1>6. \A d \in Clients : Beyond(d)' => Beyond(d)
  BY <1>1, <1>2, <1>3, <1>4, Unbeyond
<1>7. FirstWrite(op, c, plan)
  BY <1>1, <1>3, <1>5, <1>6 DEF FirstWrite
<1>8. QED
  BY <1>1, <1>2, <1>3, <1>7, OnClientKeeps

LEMMA UpdateClientKeeps ==
    ASSUME IInv, NEW j \in Jobs, NEW c \in Clients, NEW e \in {"on", "off"},
           UpdateClient(j, c, e)
    PROVE  IInv'
<1> DEFINE op == "updateClient"
           p == IF client[c].enable = "on" THEN RemoveClient(c, "must") ELSE <<>>
           plan == p \o Write("reload")
<1>1. /\ OnClient(j, op, c, e, plan)
      /\ client' = [client EXCEPT ![c].enable = e, ![c].written = TRUE]
      /\ excused' = IF e = "on" /\ client[c].used >= Limit THEN excused \cup {c} ELSE excused
  BY DEF UpdateClient
<1>2. op \in ClientOps /\ Types
  BY DEF ClientOps, IInv
<1>3. /\ p \in Seq(StepsOf(op)) /\ Write("reload") \in Seq(StepsOf(op))
      /\ inbound' \in GoodRows
      /\ client \in [Clients -> ClientRow] /\ excused \in SUBSET Clients
  BY <1>1, <1>2, AboutClient
<1> HIDE DEF p
<1>4. plan \in Seq(StepsOf(op))
  BY <1>3, Concat
<1> HIDE DEF plan
<1>5. client' \in [Clients -> ClientRow]
  BY <1>1, <1>3, ClientRows
<1>6. /\ \A d \in Clients : d # c => client'[d] = client[d]
      /\ client'[c].enable = e /\ client'[c].used = client[c].used
      /\ client[c].used \in Nat
  BY <1>1, <1>3 DEF ClientRow
<1>7. \A d \in Clients : Beyond(d)' => Beyond(d)
  BY <1>1, <1>6, PanelAssumption DEF Beyond
<1>8. FirstWrite(op, c, plan)
  BY <1>1, <1>3, <1>5, <1>7 DEF FirstWrite
<1>9. QED
  BY <1>1, <1>2, <1>4, <1>8, OnClientKeeps

\* Operations that begin without a change of a client, or with one that switches it off.
LEMMA NoneBegins ==
    ASSUME Types, NEW j, NEW op \in ClientOps \ {"reset", "updateClient"}, NEW c \in Clients,
           NEW want, NEW plan, OnClient(j, op, c, want, plan), op = "check" => plan = <<>>,
           client' = client \/ client' = [client EXCEPT ![c].enable = "off"],
           excused' = excused
    PROVE  FirstWrite(op, c, plan)
<1>1. /\ inbound' \in GoodRows
      /\ client \in [Clients -> ClientRow] /\ excused \in SUBSET Clients
  BY AboutClient
<1>2. client' \in [Clients -> ClientRow]
  <2>1. [client EXCEPT ![c].enable = "off"] \in [Clients -> ClientRow]
    BY <1>1, ClientRows
  <2>2. QED
    BY <1>1, <2>1
<1>3. \A d \in Clients : Beyond(d)' => Beyond(d)
  BY <1>1 DEF Beyond, ClientRow
<1>4. QED
  BY <1>1, <1>2, <1>3 DEF FirstWrite

LEMMA DeleteClientKeeps ==
    ASSUME IInv, NEW j \in Jobs, NEW c \in Clients, DeleteClient(j, c)
    PROVE  IInv'
<1> DEFINE op == "deleteClient"
           p == IF online /\ Exists(InboundOf[c]) THEN RemoveClient(c, "must") ELSE <<>>
           plan == p \o Write("dropClient")
<1>1. OnClient(j, op, c, Away, plan) /\ UNCHANGED <<client, excused>>
  BY DEF DeleteClient
<1>2. op \in ClientOps /\ op \in ClientOps \ {"reset", "updateClient"} /\ Types
  BY DEF ClientOps, IInv
<1>3. p \in Seq(StepsOf(op)) /\ Write("dropClient") \in Seq(StepsOf(op))
  BY <1>1, <1>2, AboutClient
<1> HIDE DEF p
<1>4. plan \in Seq(StepsOf(op))
  BY <1>3, Concat
<1> HIDE DEF plan
<1>5. FirstWrite(op, c, plan)
  BY <1>1, <1>2, NoneBegins
<1>6. QED
  BY <1>1, <1>2, <1>4, <1>5, OnClientKeeps

LEMMA ResetKeeps ==
    ASSUME IInv, NEW j \in Jobs, NEW c \in Clients, NEW op \in {"reset", "check"},
           Reset(j, c, op)
    PROVE  IInv'
<1> DEFINE on == Write("onClient") \o AddClient(c, "try")
           plan == IF client[c].enable = "off" THEN on ELSE <<>>
<1>1. /\ OnClient(j, op, c, "", plan)
      /\ client' = [client EXCEPT ![c].used = 0, ![c].written = TRUE]
      /\ UNCHANGED excused
  BY DEF Reset
<1>2. op \in ClientOps /\ Types
  BY DEF ClientOps, IInv
<1>3. /\ AddClient(c, "try") \in Seq(StepsOf(op)) /\ <<>> \in Seq(StepsOf(op))
      /\ inbound' \in GoodRows
      /\ client \in [Clients -> ClientRow] /\ excused \in SUBSET Clients
  BY <1>1, <1>2, AboutClient
<1>4. plan \in Seq(StepsOf(op))
  <2>1. Write("onClient") \in Seq(StepsOf(op))
    BY WriteIn DEF Dos, Allowed, Commands
  <2>2. on \in Seq(StepsOf(op))
    BY <1>3, <2>1, Concat
  <2> HIDE DEF on
  <2>3. QED
    BY <1>3, <2>2
<1> HIDE DEF plan
<1>5. client' \in [Clients -> ClientRow]
  BY <1>1, <1>3, ClientRows
<1>6. client'[c].used = 0 /\ \A d \in Clients : d # c => client'[d] = client[d]
  BY <1>1, <1>3 DEF ClientRow
<1>7. \A d \in Clients : Beyond(d)' => Beyond(d)
  BY <1>1, <1>2, <1>6, Unbeyond
<1>8. FirstWrite(op, c, plan)
  BY <1>1, <1>3, <1>5, <1>6, <1>7 DEF FirstWrite
<1>9. QED
  BY <1>1, <1>2, <1>4, <1>8, OnClientKeeps

LEMMA CheckKeeps ==
    ASSUME IInv, NEW j \in Jobs, NEW c \in Clients, Check(j, c)
    PROVE  IInv'
<1>1. CASE Reset(j, c, "check")
  BY <1>1, ResetKeeps
<1>2. CASE OnClient(j, "check", c, "", <<>>) /\ UNCHANGED <<client, excused>>
  <2>1. "check" \in ClientOps /\ "check" \in ClientOps \ {"reset", "updateClient"} /\ Types
    BY DEF ClientOps, IInv
  <2>2. FirstWrite("check", c, <<>>)
    BY <1>2, <2>1, NoneBegins
  <2>3. <<>> \in Seq(StepsOf("check"))
    OBVIOUS
  <2>4. QED
    BY <1>2, <2>1, <2>2, <2>3, OnClientKeeps
<1>3. QED
  BY <1>1, <1>2 DEF Check

LEMMA ExpelKeeps ==
    ASSUME IInv, NEW j \in Jobs, NEW c \in Clients, Expel(j, c)
    PROVE  IInv'
<1> DEFINE off == RemoveClient(c, "try")
           last == off \o Write("offClient")
<1>1. /\ client' = client \/ client' = [client EXCEPT ![c].enable = "off"]
      /\ excused' = excused
      /\ OnClient(j, "expel", c, "", off) \/ OnClient(j, "expel", c, "", last)
  BY DEF Expel, SetClient
<1>2. "expel" \in ClientOps /\ "expel" \in ClientOps \ {"reset", "updateClient"} /\ Types
  BY DEF ClientOps, IInv
<1>3. off \in Seq(StepsOf("expel")) /\ Write("offClient") \in Seq(StepsOf("expel"))
  BY <1>1, <1>2, AboutClient
<1> HIDE DEF off
<1>4. last \in Seq(StepsOf("expel"))
  BY <1>3, Concat
<1> HIDE DEF last
<1>5. PICK plan \in Seq(StepsOf("expel")) : OnClient(j, "expel", c, "", plan)
  BY <1>1, <1>3, <1>4
<1>6. FirstWrite("expel", c, plan)
  BY <1>1, <1>2, <1>5, NoneBegins
<1>7. QED
  BY <1>2, <1>5, <1>6, OnClientKeeps

LEMMA TrafficKeeps ==
    ASSUME IInv, NEW j \in Jobs, NEW c \in Clients, Traffic(j, c)
    PROVE  IInv'
<1>1. /\ OnClient(j, "traffic", c, "", Write("limit"))
      /\ client' = [client EXCEPT ![c].used = IF @ < Limit THEN @ + 1 ELSE @]
      /\ UNCHANGED excused
  BY DEF Traffic
<1>2. "traffic" \in ClientOps /\ Types
  BY DEF ClientOps, IInv
<1>3. /\ inbound' \in GoodRows
      /\ client \in [Clients -> ClientRow] /\ excused \in SUBSET Clients
  BY <1>1, <1>2, AboutClient
<1>4. Write("limit") \in Seq(StepsOf("traffic"))
  BY WriteIn DEF Dos, Allowed, Commands
<1>5. client' \in [Clients -> ClientRow]
  BY <1>1, <1>3, ClientRows
<1>6. \A d \in Clients : Beyond(d)' => Beyond(d) \/ d = c
  BY <1>1, <1>3 DEF Beyond
<1>7. FirstWrite("traffic", c, Write("limit"))
  BY <1>1, <1>3, <1>5, <1>6 DEF FirstWrite
<1>8. QED
  BY <1>1, <1>2, <1>4, <1>7, OnClientKeeps

LEMMA DeployIn ==
    ASSUME NEW s \in Orders(Wanted)
    PROVE  Deploy(s) \o Write("tags") \in Seq(StepsOf("reconcile"))
<1> DEFINE S == StepsOf("reconcile")
           mode(n) == IF n = 1 THEN "first" ELSE "try"
           q == [n \in DOMAIN s |-> Head(AddInbound(s[n], 0, mode(n)))]
<1>1. DOMAIN s = 1..Len(s) /\ Len(s) \in Nat /\ \A n \in 1..Len(s) : s[n] \in Inbounds
  <2>1. s \in Seq(Wanted) /\ DOMAIN s = 1..Len(s) /\ \A n \in 1..Len(s) : s[n] \in Wanted
    BY OrdersFact DEF Wanted
  <2>2. QED
    BY <2>1 DEF Wanted
<1>2. \A n \in DOMAIN s : Head(AddInbound(s[n], 0, mode(n))) \in S
  BY <1>1, CommandsIn
<1>3. q \in Seq(S)
  BY <1>1, <1>2
<1>4. Write("recover") \in Seq(S) /\ Write("tags") \in Seq(S) /\ Stop \in Seq(S)
  <2>1. \A w \in {"recover", "tags"} : w \in Dos \ Commands /\ Allowed("reconcile", w)
    BY DEF Dos, Allowed, Commands
  <2>2. QED
    BY <2>1, WriteIn, CommandsIn
<1>5. Deploy(s) = Stop \/ Deploy(s) = q \o Write("recover")
  BY DEF Deploy
<1> HIDE DEF q, S
<1>6. Deploy(s) \in Seq(S)
  BY <1>3, <1>4, <1>5, Concat DEF S
<1>7. QED
  BY <1>4, <1>6, Concat DEF S

LEMMA StartReconcileKeeps == ASSUME IInv, StartReconcile PROVE IInv'
<1> DEFINE op == "reconcile"
<1>1. PICK s \in Orders(Wanted) :
         Begin("reconcile", op, 1, "", "", Deploy(s) \o Write("tags"))
  BY DEF StartReconcile
<1> DEFINE plan == Deploy(s) \o Write("tags")
<1>2. plan \in Seq(StepsOf(op))
  BY DeployIn
<1>3. UNCHANGED <<inbound, client, excused>> /\ Begin("reconcile", op, 1, "", "", plan)
  BY <1>1 DEF StartReconcile
<1> HIDE DEF plan
<1>4. FirstWrite(op, "", plan)
  BY <1>3 DEF FirstWrite, Beyond, IInv, Types
<1>5. 1 \in Inbounds /\ op \notin ClientOps /\ op # "idle"
  BY PanelAssumption DEF Inbounds, ClientOps
<1>6. QED
  BY <1>2, <1>3, <1>4, <1>5, RunnersFact, BeginKeeps

-----------------------------------------------------------------------------
(* A goroutine writes the row of a client, or ends.                        *)

\* What a later write does to the rows, of goroutine g with plan p to go.
LaterWrite(g, p) ==
    /\ inbound' \in GoodRows
    /\ client' \in [Clients -> ClientRow]
    /\ excused' = excused
    /\ p \in Seq(StepsOf(g.op))
    /\ \A d \in Clients : Beyond(d)' =>
          \/ Beyond(d) /\ ~ (d = g.c /\ Head(g.plan) = Head(Write("limit")))
          \/ d = g.c /\ g.op \in Excusing /\ ~ g.clean
    /\ g.clean /\ g.op \in {"reset", "check"} => client'[g.c].used = 0

LEMMA WriteKeeps ==
    ASSUME IInv, NEW j \in Jobs, NEW p,
           job[j].plan # <<>>, job' = [job EXCEPT ![j].plan = p],
           LaterWrite(job[j], p)
    PROVE  IInv'
<1> USE DEF IInv
<1> DEFINE h == [job[j] EXCEPT !.plan = p]
<1>1. j \in Runners /\ job[j] # NoJob /\ JobOK(job[j]) /\ job[j].op # "idle"
  BY RunnersFact, BusyHasOp
<1>2. Same(job[j], h) /\ h.plan = p
  BY <1>1, WithPlan
<1>3. job' = [job EXCEPT ![j] = h]
  BY <1>1, PlanSet
<1> HIDE DEF h
<1>4. \A k \in Runners : job'[k] = IF k = j THEN h ELSE job[k]
  BY <1>3 DEF Types
<1>5. job' = [k \in Runners |-> job'[k]]
  BY <1>3 DEF Types
<1>6. Types'
  <2>1. \A k \in Runners : JobOK(job'[k]) /\ job'[k].op = job[k].op
    BY <1>2, <1>4 DEF Same, Types
  <2>2. \A k \in Runners : job'[k].plan \in Seq(StepsOf(job'[k].op))
    BY <1>2, <1>4 DEF Same, Types, LaterWrite
  <2>3. excused' \in SUBSET Clients
    BY DEF Types, LaterWrite
  <2>4. QED
    BY <1>5, <2>1, <2>2, <2>3, RunnersFact DEF Types, LaterWrite
<1>7. \A k \in Runners : job[k].clean /\ k # j => job[k] = NoJob
  BY <1>1 DEF CleanAlone, Busy
<1>8. CleanAlone'
  <2>1. h # NoJob /\ h.clean = job[j].clean
    BY <1>1, <1>2, NoJobIdle DEF Same
  <2>2. \A k \in Runners : k \in Busy' <=> k \in Busy
    BY <1>1, <1>4, <2>1 DEF Busy
  <2>3. Busy' = Busy
    BY <2>2 DEF Busy
  <2>4. QED
    BY <1>1, <1>4, <2>1, <2>3 DEF CleanAlone
<1>9. CleanKnows'
  <2> SUFFICES ASSUME NEW k \in Jobs, job'[k].clean
        PROVE /\ job'[k].op \in {"reset", "check"} => client'[job'[k].c].used = 0
              /\ job'[k].op = "updateClient"
                    /\ job'[k].client.enable = "on" /\ job'[k].client.used >= Limit
                 => job'[k].c \in excused'
    BY DEF CleanKnows
  <2>1. CASE k # j
    BY <1>4, <1>7, <2>1, RunnersFact, NoJobIdle
  <2>2. CASE k = j
    BY <1>1, <1>2, <1>4, <2>2 DEF Same, CleanKnows, LaterWrite
  <2>3. QED
    BY <2>1, <2>2
<1>10. Noticed'
  <2> SUFFICES ASSUME NEW d \in Clients, Beyond(d)' PROVE \E k \in Jobs : SeesTo(job'[k], d)
    BY DEF Noticed
  <2>1. CASE Beyond(d) /\ ~ (d = job[j].c /\ Head(job[j].plan) = Head(Write("limit")))
    <3>1. PICK k \in Jobs : SeesTo(job[k], d)
      BY <2>1 DEF Noticed
    <3>2. CASE k # j
      BY <1>4, <3>1, <3>2, RunnersFact
    <3>3. CASE k = j
      <4>1. job[j].c = d /\ job[j].op \in Excusing /\ ~ job[j].clean
        BY <2>1, <3>1, <3>3 DEF SeesTo
      <4>2. QED
        BY <1>1, <1>2, <1>4, <4>1 DEF Same, SeesTo
    <3>4. QED
      BY <3>2, <3>3
  <2>2. CASE d = job[j].c /\ job[j].op \in Excusing /\ ~ job[j].clean
    BY <1>1, <1>2, <1>4, <2>2 DEF Same, SeesTo
  <2>3. QED
    BY <2>1, <2>2 DEF LaterWrite
<1>11. QED
  BY <1>6, <1>8, <1>9, <1>10

\* What a goroutine writes at the head of its plan is for its own operation.
LEMMA HeadAllowed ==
    ASSUME Types, NEW j \in Jobs, NEW what, At(j, what)
    PROVE  /\ Allowed(job[j].op, what)
           /\ Tail(job[j].plan) \in Seq(StepsOf(job[j].op))
           /\ job[j].plan # <<>>
           /\ what # "limit" => Head(job[j].plan) # Head(Write("limit"))
           /\ job[j].op \in ClientOps => job[j].c \in Clients
<1>1. job[j].plan \in Seq(StepsOf(job[j].op)) /\ job[j].plan # <<>>
  BY RunnersFact DEF Types, At
<1>2. Head(job[j].plan) \in StepsOf(job[j].op)
  BY <1>1
<1>3. Head(job[j].plan).do = what
  BY WriteHead DEF At
<1>4. Allowed(job[j].op, what)
  BY <1>2, <1>3 DEF StepsOf
<1>5. Tail(job[j].plan) \in Seq(StepsOf(job[j].op))
  BY <1>1, TailIn
<1>6. what # "limit" => Head(job[j].plan) # Head(Write("limit"))
  BY <1>3, WriteHead
<1>7. job[j].op \in ClientOps => job[j].c \in Clients
  BY RunnersFact DEF Types, JobOK
<1>8. QED
  BY <1>1, <1>4, <1>5, <1>6, <1>7

\* What is true of every goroutine with something to do.
LEMMA Going ==
    ASSUME IInv, NEW j \in Jobs, NEW what, At(j, what)
    PROVE  /\ client \in [Clients -> ClientRow] /\ inbound \in GoodRows
           /\ JobOK(job[j])
           /\ job[j].clean /\ job[j].op \in {"reset", "check"} => client[job[j].c].used = 0
           /\ job[j].clean /\ job[j].op = "updateClient"
                 /\ job[j].client.enable = "on" /\ job[j].client.used >= Limit
              => job[j].c \in excused
BY RunnersFact DEF IInv, Types, CleanKnows, At

\* Clients stay as they are, but those of a set are switched off or lose their rows.
Fewer(D) ==
    /\ D \in SUBSET Clients
    /\ \A d \in Clients \ D : client'[d] = client[d]
    /\ \A d \in D : client'[d] = NoClient \/ client'[d] = [client[d] EXCEPT !.enable = "off"]
    /\ client' = [d \in Clients |-> client'[d]]

LEMMA NoneLater ==
    ASSUME IInv, NEW j \in Jobs, NEW what, At(j, what), what # "limit",
           NEW p \in Seq(StepsOf(job[j].op)), NEW D, Fewer(D),
           inbound' \in GoodRows, excused' = excused
    PROVE  LaterWrite(job[j], p)
<1>1. client \in [Clients -> ClientRow] /\ NoClient \in ClientRow /\ NoClient.used = 0
      /\ NoClient.enable # "on"
  BY Going, NoClientRow
<1>2. \A d \in Clients : /\ client'[d] \in ClientRow
                         /\ client'[d] = client[d] \/ client'[d].enable # "on"
                         /\ client[d].used = 0 => client'[d].used = 0
  <2> SUFFICES ASSUME NEW d \in Clients
               PROVE  /\ client'[d] \in ClientRow
                      /\ client'[d] = client[d] \/ client'[d].enable # "on"
                      /\ client[d].used = 0 => client'[d].used = 0
    OBVIOUS
  <2>1. client[d] \in ClientRow
    BY <1>1
  <2>2. LET x == [client[d] EXCEPT !.enable = "off"]
        IN  x \in ClientRow /\ x.enable = "off" /\ x.used = client[d].used
    BY <2>1 DEF ClientRow
  <2>3. QED
    BY <1>1, <2>1, <2>2 DEF Fewer
<1>3. client' \in [Clients -> ClientRow]
  BY <1>2 DEF Fewer
<1>4. \A d \in Clients : Beyond(d)' => Beyond(d)
  BY <1>2 DEF Beyond
<1>5. Head(job[j].plan) # Head(Write("limit"))
  BY HeadAllowed DEF IInv
<1>6. job[j].op \in {"reset", "check"} => job[j].c \in Clients
  BY HeadAllowed DEF IInv, ClientOps
<1>7. job[j].clean /\ job[j].op \in {"reset", "check"} => client'[job[j].c].used = 0
  BY <1>2, <1>6, Going
<1>8. QED
  BY <1>3, <1>4, <1>5, <1>7 DEF LaterWrite

LEMMA WriteClientKeeps ==
    ASSUME IInv, NEW j \in Jobs, WriteClient(j)
    PROVE  IInv'
<1> DEFINE c == job[j].c
           p == Tail(job[j].plan)
<1>1. /\ job' = [job EXCEPT ![j].plan = p]
      /\ UNCHANGED <<inbound, excused>>
  BY DEF WriteClient, Next1
<1> SUFFICES job[j].plan # <<>> /\ LaterWrite(job[j], p)
  BY <1>1, WriteKeeps
<1>2. Types
  BY DEF IInv
<1>3. CASE At(j, "offClient") /\ SetClient(c, "off")
  <2>1. job[j].op \in ClientOps
    BY <1>2, <1>3, HeadAllowed DEF Allowed
  <2>2. c \in Clients /\ p \in Seq(StepsOf(job[j].op)) /\ job[j].plan # <<>>
    BY <1>2, <1>3, <2>1, HeadAllowed
  <2>3. client \in [Clients -> ClientRow] /\ inbound' \in GoodRows
    BY <1>1, <1>2 DEF Types
  <2>4. CASE client' = client
    <3>1. Fewer({})
      BY <2>3, <2>4 DEF Fewer
    <3>2. QED
      BY <1>1, <1>3, <2>2, <2>3, <3>1, NoneLater
  <2>5. CASE client' = [client EXCEPT ![c].enable = "off"]
    <3>1. \A d \in Clients \ {c} : client'[d] = client[d]
      BY <2>3, <2>5
    <3>2. client'[c] = [client[c] EXCEPT !.enable = "off"]
      BY <2>2, <2>3, <2>5
    <3>3. client' = [d \in Clients |-> client'[d]]
      BY <2>3, <2>5
    <3>4. Fewer({c})
      BY <2>2, <3>1, <3>2, <3>3 DEF Fewer
    <3>5. QED
      BY <1>1, <1>3, <2>2, <2>3, <3>4, NoneLater
  <2>6. QED
    BY <1>3, <2>4, <2>5 DEF SetClient
<1>4. CASE At(j, "onClient") /\ SetClient(c, "on")
  <2>1. job[j].op \in {"reset", "check"}
    BY <1>2, <1>4, HeadAllowed DEF Allowed
  <2>2. /\ c \in Clients /\ p \in Seq(StepsOf(job[j].op)) /\ job[j].plan # <<>>
        /\ Head(job[j].plan) # Head(Write("limit"))
    BY <1>2, <1>4, <2>1, HeadAllowed DEF ClientOps
  <2>3. client \in [Clients -> ClientRow] /\ inbound' \in GoodRows
    BY <1>1, <1>2 DEF Types
  <2>4. client' \in [Clients -> ClientRow]
    BY <1>4, <2>2, <2>3, ClientRows DEF SetClient
  <2>5. /\ \A d \in Clients : d # c => client'[d] = client[d]
        /\ client'[c].used = client[c].used
    BY <1>4, <2>2, <2>3 DEF SetClient, ClientRow
  <2>6. job[j].clean => client[c].used = 0
    BY <1>4, <2>1, Going
  <2>7. job[j].clean \in BOOLEAN
    BY <1>4, Going DEF JobOK
  <2>8. \A d \in Clients : Beyond(d)' => Beyond(d) \/ (d = c /\ ~ job[j].clean)
    BY <1>1, <2>5, <2>6, <2>7, PanelAssumption DEF Beyond
  <2>9. QED
    BY <1>1, <2>1, <2>2, <2>3, <2>4, <2>5, <2>6, <2>8 DEF LaterWrite, Excusing
<1>5. CASE At(j, "dropClient") /\ client' = [client EXCEPT ![c] = NoClient]
  <2>1. job[j].op \in ClientOps
    BY <1>2, <1>5, HeadAllowed DEF Allowed
  <2>2. c \in Clients /\ p \in Seq(StepsOf(job[j].op)) /\ job[j].plan # <<>>
    BY <1>2, <1>5, <2>1, HeadAllowed
  <2>3. client \in [Clients -> ClientRow] /\ inbound' \in GoodRows
    BY <1>1, <1>2 DEF Types
  <2>4. \A d \in Clients \ {c} : client'[d] = client[d]
    BY <1>5, <2>3
  <2>5. Fewer({c})
    BY <1>5, <2>2, <2>3, <2>4 DEF Fewer
  <2>6. QED
    BY <1>1, <1>5, <2>2, <2>3, <2>5, NoneLater
<1>6. CASE At(j, "revertClient") /\ client' = [client EXCEPT ![c] = job[j].client]
  <2>1. job[j].op = "updateClient"
    BY <1>2, <1>6, HeadAllowed DEF Allowed
  <2>2. /\ c \in Clients /\ p \in Seq(StepsOf(job[j].op)) /\ job[j].plan # <<>>
        /\ Head(job[j].plan) # Head(Write("limit"))
    <3>1. job[j].op \in ClientOps
      BY <2>1 DEF ClientOps
    <3>2. QED
      BY <1>2, <1>6, <3>1, HeadAllowed
  <2>3. /\ client \in [Clients -> ClientRow] /\ inbound' \in GoodRows
        /\ job[j].client \in ClientRow /\ job[j].clean \in BOOLEAN
    BY <1>1, <1>6, Going DEF JobOK
  <2>4. client' \in [Clients -> ClientRow] /\ client'[c] = job[j].client
        /\ \A d \in Clients : d # c => client'[d] = client[d]
    BY <1>6, <2>2, <2>3
  <2>5. job[j].clean /\ job[j].client.enable = "on" /\ job[j].client.used >= Limit
        => c \in excused
    BY <1>6, <2>1, Going
  <2>6. \A d \in Clients : Beyond(d)' => (Beyond(d) /\ d # c) \/ (d = c /\ ~ job[j].clean)
    BY <1>1, <2>3, <2>4, <2>5 DEF Beyond
  <2>7. QED
    BY <1>1, <2>1, <2>2, <2>3, <2>4, <2>6 DEF LaterWrite, Excusing
<1>7. QED
  BY <1>3, <1>4, <1>5, <1>6 DEF WriteClient

LEMMA DropKeeps ==
    ASSUME IInv, NEW j \in Jobs, Drop(j)
    PROVE  IInv'
<1> DEFINE i == job[j].i
           p == Tail(job[j].plan)
           D == {c \in Clients : InboundOf[c] = i}
<1>1. /\ At(j, "drop") /\ job' = [job EXCEPT ![j].plan = p] /\ UNCHANGED excused
      /\ inbound' = [inbound EXCEPT ![i] = Gone]
      /\ client' = [c \in Clients |-> IF InboundOf[c] = i THEN NoClient ELSE client[c]]
  BY DEF Drop, Next1
<1>2. Types
  BY DEF IInv
<1>3. p \in Seq(StepsOf(job[j].op)) /\ job[j].plan # <<>>
  BY <1>1, <1>2, HeadAllowed
<1>4. inbound' \in GoodRows
  <2>1. Gone \in InboundRow /\ RowOK(i, Gone)
    BY DEF Gone, InboundRow, RowOK, There
  <2>2. i \in Inbounds /\ inbound \in GoodRows
    BY <1>1, Going DEF JobOK
  <2>3. QED
    BY <1>1, <2>1, <2>2, InboundRows
<1>5. Fewer(D)
  BY <1>1 DEF Fewer
<1> HIDE DEF D
<1>6. LaterWrite(job[j], p)
  BY <1>1, <1>3, <1>4, <1>5, NoneLater
<1>7. QED
  BY <1>1, <1>3, <1>6, WriteKeeps

LEMMA ReadKeeps ==
    ASSUME IInv, NEW j \in Jobs, Read(j)
    PROVE  IInv'
<1> DEFINE c == job[j].c
           t == Tail(job[j].plan)
           add == IF (IF HasRow(c) THEN client[c].enable ELSE job[j].want) = "on"
                  THEN AddClient(c, "must") ELSE <<>>
           off == RemoveClient(c, "try")
<1>1. Types /\ UNCHANGED <<inbound, excused>>
  BY DEF IInv, Read
<1>2. /\ client \in [Clients -> ClientRow] /\ inbound' \in GoodRows
      /\ \A op : Stop \in Seq(StepsOf(op)) /\ <<>> \in Seq(StepsOf(op))
  <2>1. ASSUME NEW op PROVE Stop \in Seq(StepsOf(op)) /\ <<>> \in Seq(StepsOf(op))
    <3>1. PICK mode \in {"must", "try", "first"} : TRUE
      OBVIOUS
    <3>2. Stop \in Seq(StepsOf(op))
      BY CommandsIn
    <3>3. QED
      BY <3>2
  <2>2. QED
    BY <1>1, <2>1 DEF Types
<1>3. CASE At(j, "last") /\ Instead(j, IF Enabled = {} THEN Stop ELSE <<>>) /\ UNCHANGED client
  <2> DEFINE q == IF Enabled = {} THEN Stop ELSE <<>>
             p == q \o t
  <2>1. q \in Seq(StepsOf(job[j].op)) /\ t \in Seq(StepsOf(job[j].op)) /\ job[j].plan # <<>>
    BY <1>1, <1>2, <1>3, HeadAllowed
  <2>2. job' = [job EXCEPT ![j].plan = p]
    BY <1>3 DEF Instead
  <2> HIDE DEF q
  <2>3. p \in Seq(StepsOf(job[j].op))
    BY <2>1, Concat
  <2> HIDE DEF p
  <2>4. Fewer({})
    BY <1>2, <1>3 DEF Fewer
  <2>5. LaterWrite(job[j], p)
    BY <1>1, <1>2, <1>3, <2>3, <2>4, NoneLater
  <2>6. QED
    BY <2>1, <2>2, <2>5, WriteKeeps
<1>4. CASE At(j, "reload") /\ Instead(j, add) /\ UNCHANGED client
  <2> DEFINE p == add \o t
  <2>1. job[j].op \in ClientOps
    BY <1>1, <1>4, HeadAllowed DEF Allowed
  <2>2. c \in Clients /\ t \in Seq(StepsOf(job[j].op)) /\ job[j].plan # <<>>
    BY <1>1, <1>4, <2>1, HeadAllowed
  <2>3. AddClient(c, "must") \in Seq(StepsOf(job[j].op))
    BY <2>2, CommandsIn
  <2>4. job' = [job EXCEPT ![j].plan = p]
    BY <1>4 DEF Instead
  <2>5. add \in Seq(StepsOf(job[j].op))
    BY <1>2, <2>3
  <2> HIDE DEF add
  <2>6. p \in Seq(StepsOf(job[j].op))
    BY <2>2, <2>5, Concat
  <2> HIDE DEF p
  <2>7. Fewer({})
    BY <1>2, <1>4 DEF Fewer
  <2>8. LaterWrite(job[j], p)
    BY <1>1, <1>2, <1>4, <2>6, <2>7, NoneLater
  <2>9. QED
    BY <2>2, <2>4, <2>8, WriteKeeps
<1>5. CASE /\ At(j, "limit")
           /\ IF client[c].enable = "on" /\ Exceeds(c)
              THEN SetClient(c, "off") /\ Instead(j, off)
              ELSE Next1(j) /\ UNCHANGED client
  <2>1. job[j].op = "traffic"
    BY <1>1, <1>5, HeadAllowed DEF Allowed
  <2>2. c \in Clients /\ t \in Seq(StepsOf(job[j].op)) /\ job[j].plan # <<>>
    <3>1. job[j].op \in ClientOps
      BY <2>1 DEF ClientOps
    <3>2. QED
      BY <1>1, <1>5, <3>1, HeadAllowed
  <2>3. CASE client[c].enable = "on" /\ Exceeds(c)
    <3> DEFINE p == off \o t
    <3>1. off \in Seq(StepsOf(job[j].op))
      BY <2>2, CommandsIn
    <3>2. job' = [job EXCEPT ![j].plan = p] /\ client' = [client EXCEPT ![c].enable = "off"]
      BY <1>5, <2>3 DEF Instead, SetClient, HasRow
    <3> HIDE DEF off
    <3>3. p \in Seq(StepsOf(job[j].op))
      BY <2>2, <3>1, Concat
    <3> HIDE DEF p
    <3>4. client' \in [Clients -> ClientRow]
      <4>1. [client EXCEPT ![c].enable = "off"] \in [Clients -> ClientRow]
        BY <1>2, <2>2, ClientRows
      <4>2. QED
        BY <3>2, <4>1
    <3>5. client'[c].enable = "off" /\ \A d \in Clients : d # c => client'[d] = client[d]
      BY <1>2, <2>2, <3>2 DEF ClientRow
    <3>6. \A d \in Clients : Beyond(d)' => Beyond(d) /\ d # c
      BY <1>1, <3>5 DEF Beyond
    <3>7. LaterWrite(job[j], p)
      BY <1>1, <1>2, <2>1, <3>3, <3>4, <3>6 DEF LaterWrite
    <3>8. QED
      BY <2>2, <3>2, <3>7, WriteKeeps
  <2>4. CASE ~ (client[c].enable = "on" /\ Exceeds(c))
    <3>1. job' = [job EXCEPT ![j].plan = t] /\ client' = client
      BY <1>5, <2>4 DEF Next1
    <3>2. \A d \in Clients : Beyond(d)' => Beyond(d) /\ d # c
      BY <1>1, <2>4, <3>1 DEF Beyond, Exceeds
    <3>3. LaterWrite(job[j], t)
      BY <1>1, <1>2, <2>1, <2>2, <3>1, <3>2 DEF LaterWrite
    <3>4. QED
      BY <2>2, <3>1, <3>3, WriteKeeps
  <2>5. QED
    BY <2>3, <2>4
<1>6. QED
  BY <1>3, <1>4, <1>5 DEF Read

LEMMA FinishKeeps ==
    ASSUME IInv, NEW j \in Runners, Finish(j)
    PROVE  IInv'
<1> USE DEF IInv
<1> DEFINE g == job[j]
<1>1. /\ g # NoJob /\ g.plan = <<>> /\ job' = [job EXCEPT ![j] = NoJob]
      /\ UNCHANGED <<inbound, client>>
      /\ excused' = IF g.op \in Excusing /\ ~ g.clean THEN excused \cup {g.c}
                    ELSE IF g.op = "reset" THEN excused \ {g.c} ELSE excused
  BY DEF Finish, Excusing
<1>2. /\ \A k \in Runners : job'[k] = IF k = j THEN NoJob ELSE job[k]
      /\ job' = [k \in Runners |-> job'[k]]
  BY <1>1 DEF Types
<1>3. JobOK(g) /\ (g.op \in ClientOps => g.c \in Clients)
  BY DEF Types, JobOK
<1>4. excused' \in SUBSET Clients
  BY <1>1, <1>3 DEF Types, Excusing, ClientOps
<1>5. Types'
  <2>1. \A k \in Runners : JobOK(job'[k])
    BY <1>2, NoJobOK DEF Types
  <2>2. NoJob.plan \in Seq(StepsOf(NoJob.op)) /\ NoJob.op = "idle"
    BY NoJobIdle
  <2>3. /\ \A k \in Runners : job'[k].plan \in Seq(StepsOf(job'[k].op))
        /\ \A k \in Jobs : job'[k].op # "reconcile"
    BY <1>2, <2>2, RunnersFact DEF Types
  <2>4. job'["reconcile"].op \in {"idle", "reconcile"}
    BY <1>2, <2>2, RunnersFact DEF Types
  <2>5. QED
    BY <1>1, <1>2, <1>4, <2>1, <2>3, <2>4 DEF Types
<1>6. \A k \in Runners : job'[k].clean => job'[k] = NoJob
  BY <1>1, <1>2 DEF CleanAlone, Busy
<1>7. CleanAlone'
  BY <1>6 DEF CleanAlone
<1>8. CleanKnows'
  BY <1>6, RunnersFact, NoJobIdle DEF CleanKnows
<1>9. Noticed'
  <2> SUFFICES ASSUME NEW d \in Clients, Beyond(d)' PROVE \E k \in Jobs : SeesTo(job'[k], d)
    BY DEF Noticed
  <2>1. d \notin excused' /\ client[d].enable = "on" /\ client[d].used >= Limit
    BY <1>1 DEF Beyond
  <2>2. d \notin excused
    <3>1. CASE g.op = "reset" /\ g.clean /\ d = g.c
      <4>1. j \in Jobs
        BY <3>1 DEF Types, Runners
      <4>2. client[d].used = 0
        BY <3>1, <4>1 DEF CleanKnows
      <4>3. QED
        BY <2>1, <4>2, PanelAssumption
    <3>2. CASE ~ (g.op = "reset" /\ g.clean /\ d = g.c)
      BY <1>1, <2>1, <3>2 DEF Excusing
    <3>3. QED
      BY <3>1, <3>2
  <2>3. PICK k \in Jobs : SeesTo(job[k], d)
    BY <2>1, <2>2 DEF Noticed, Beyond
  <2>4. k # j
    BY <1>1, <2>1, <2>3 DEF SeesTo
  <2>5. QED
    BY <1>2, <2>3, <2>4, RunnersFact
<1>10. QED
  BY <1>5, <1>7, <1>8, <1>9

-----------------------------------------------------------------------------
(* The rest.                                                               *)

LEMMA StillKeeps ==
    ASSUME IInv, UNCHANGED <<inbound, job, excused>>,
           client' \in [Clients -> ClientRow],
           \A c \in Clients : /\ client'[c].enable = client[c].enable
                              /\ client'[c].used = client[c].used
    PROVE  IInv'
<1> USE DEF IInv
<1>1. Types'
  BY DEF Types
<1>2. CleanAlone' /\ Busy' = Busy
  BY DEF CleanAlone, Busy
<1>3. CleanKnows'
  <2>1. \A j \in Jobs : job[j].op \in {"reset", "check"} => job[j].c \in Clients
    BY RunnersFact DEF Types, JobOK, ClientOps
  <2>2. QED
    BY <2>1 DEF CleanKnows
<1>4. \A c \in Clients : Beyond(c)' => Beyond(c)
  BY DEF Beyond
<1>5. Noticed'
  BY <1>4 DEF Noticed
<1>6. QED
  BY <1>1, <1>2, <1>3, <1>5

LEMMA CycleEndsKeeps ==
    ASSUME IInv, NEW c \in Clients, CycleEnds(c)
    PROVE  IInv'
<1>1. client' = [client EXCEPT ![c].written = FALSE] /\ UNCHANGED <<inbound, job, excused>>
  BY DEF CycleEnds
<1>2. client \in [Clients -> ClientRow]
  BY DEF IInv, Types
<1>3. client' \in [Clients -> ClientRow]
  BY <1>1, <1>2, ClientRows
<1>4. \A d \in Clients : client'[d].enable = client[d].enable /\ client'[d].used = client[d].used
  BY <1>1, <1>2 DEF ClientRow
<1>5. QED
  BY <1>1, <1>3, <1>4, StillKeeps

LEMMA Preserved == IInv /\ [Next]_vars => IInv'
<1> SUFFICES ASSUME IInv, [Next]_vars PROVE IInv'
  OBVIOUS
<1>1. ASSUME NEW j \in Jobs, InboundRequest(j) PROVE IInv'
  BY <1>1, InboundRequestKeeps
<1>2. ASSUME NEW j \in Jobs, ClientRequest(j) PROVE IInv'
  <2>1. PICK c \in Clients :
           \/ CreateClient(j, c)
           \/ \E e \in {"on", "off"} : UpdateClient(j, c, e)
           \/ DeleteClient(j, c)
           \/ ResetClient(j, c)
    BY <1>2 DEF ClientRequest
  <2>2. CASE ResetClient(j, c)
    BY <2>2, ResetKeeps DEF ResetClient
  <2>3. QED
    BY <2>1, <2>2, CreateClientKeeps, UpdateClientKeeps, DeleteClientKeeps
<1>3. ASSUME NEW j \in Jobs, Report(j) PROVE IInv'
  BY <1>3, TrafficKeeps, ExpelKeeps DEF Report
<1>4. ASSUME NEW j \in Jobs, NEW c \in Clients, Check(j, c) PROVE IInv'
  BY <1>4, CheckKeeps
<1>5. ASSUME NEW j \in Runners, Work(j) PROVE IInv'
  BY <1>5, CommandKeeps, WriteInboundKeeps, FinishKeeps DEF Work
<1>6. ASSUME NEW j \in Jobs, JobWork(j) PROVE IInv'
  BY <1>6, WriteClientKeeps, DropKeeps, ReadKeeps DEF JobWork
<1>7. CASE StartReconcile \/ Collect("reconcile")
  BY <1>7, StartReconcileKeeps, CollectKeeps
<1>8. ASSUME NEW c \in Clients, CycleEnds(c) PROVE IInv'
  BY <1>8, CycleEndsKeeps
<1>9. CASE Crash
  BY <1>9, CrashKeeps
<1>10. CASE Disconnect \/ Connect \/ UNCHANGED vars
  <2>1. UNCHANGED <<inbound, client, job, excused>>
    BY <1>10 DEF Disconnect, Connect, vars
  <2>2. client' \in [Clients -> ClientRow]
    BY <2>1 DEF IInv, Types
  <2>3. QED
    BY <2>1, <2>2, StillKeeps
<1>11. QED
  BY <1>1, <1>2, <1>3, <1>4, <1>5, <1>6, <1>7, <1>8, <1>9, <1>10 DEF Next

LEMMA AtRest == IInv => LimitNoticed
<1> SUFFICES ASSUME IInv, Busy = {}, NEW c \in Clients,
                    client[c].enable = "on", client[c].used >= Limit
             PROVE  c \in excused
  BY DEF LimitNoticed
<1>1. \A j \in Jobs : job[j] = NoJob
  BY RunnersFact DEF Busy
<1>2. \A j \in Jobs : ~ SeesTo(job[j], c)
  BY <1>1, NoJobIdle DEF SeesTo, Excusing
<1>3. ~ Beyond(c)
  BY <1>2 DEF IInv, Noticed
<1>4. QED
  BY <1>3 DEF Beyond

\* Whatever requests, reports, checks and faults there are, and however they interleave: a
\* client that is at rest beyond its limit and still switched on is one that an
\* administrator let go on, or that was reset or edited while something else ran
\* (flow.go:143-157, xray_client.go:214-375, xray_scheduler.go:39-120).
THEOREM LimitSeen == Spec => []LimitNoticed
<1>1. IInv /\ [Next]_vars => IInv'
  BY Preserved
<1>2. QED
  BY Initially, <1>1, AtRest, PTL DEF Spec

-----------------------------------------------------------------------------
(* Xray, and what a command leaves of it.                                   *)

XraySet == [runs : BOOLEAN, at : GoodContents]

Kinds ==
    /\ xray \in XraySet
    /\ online \in BOOLEAN /\ due \in BOOLEAN
    /\ faults \in 0..MaxFaults
    /\ disturbed \in SUBSET All

\* A goroutine goes on with plan p.
Goes(j, p, f) ==
    /\ \A k \in Runners : k # j => job'[k] = job[k]
    /\ Same(job[j], job'[j])
    /\ job'[j].plan = p
    /\ job'[j].failed = f

LEMMA GoesWith ==
    ASSUME Types, NEW j \in Runners, NEW g, Same(job[j], g), job' = [job EXCEPT ![j] = g]
    PROVE  Goes(j, g.plan, g.failed)
BY DEF Types, Goes

LEMMA GoesOn ==
    ASSUME Types, NEW j \in Runners, NEW p, job[j].plan # <<>>, job' = [job EXCEPT ![j].plan = p]
    PROVE  Goes(j, p, job[j].failed)
<1>1. JobOK(job[j]) /\ job[j].op # "idle"
  BY BusyHasOp
<1>2. PICK g : g = [job[j] EXCEPT !.plan = p]
  OBVIOUS
<1>3. Same(job[j], g) /\ g.plan = p /\ g.failed = job[j].failed
  BY <1>1, <1>2, WithPlan
<1>4. job' = [job EXCEPT ![j] = g]
  BY <1>2, PlanSet
<1>5. QED
  BY <1>3, <1>4, GoesWith

\* What becomes of one inbound.
Puts(i, a) == \A k \in Inbounds : xray'.at[k] = IF k = i THEN a ELSE xray.at[k]

LEMMA PutFacts ==
    ASSUME xray \in XraySet, NEW i \in Inbounds, NEW a \in Contents, ContentOK(i, a)
    PROVE  /\ Put(i, a) \in XraySet
           /\ Put(i, a).runs <=> xray.runs
           /\ \A k \in Inbounds : Put(i, a).at[k] = IF k = i THEN a ELSE xray.at[k]
           /\ [Put(i, a) EXCEPT !.runs = TRUE] \in XraySet
           /\ [Put(i, a) EXCEPT !.runs = TRUE].runs
           /\ \A k \in Inbounds :
                 [Put(i, a) EXCEPT !.runs = TRUE].at[k] = IF k = i THEN a ELSE xray.at[k]
<1>1. xray.runs \in BOOLEAN /\ xray.at \in GoodContents /\ xray = [runs |-> xray.runs, at |-> xray.at]
  BY DEF XraySet
<1>2. PICK b \in BOOLEAN, f \in GoodContents : b = xray.runs /\ f = xray.at
  BY <1>1
<1>3. PICK h : h = [f EXCEPT ![i] = a]
  OBVIOUS
<1>4. h \in GoodContents /\ \A k \in Inbounds : h[k] = IF k = i THEN a ELSE f[k]
  BY <1>3 DEF GoodContents
<1>5. Put(i, a) = [runs |-> b, at |-> h]
  BY <1>1, <1>2, <1>3 DEF Put
<1>6. [Put(i, a) EXCEPT !.runs = TRUE] = [runs |-> TRUE, at |-> h]
  <2>1. PICK y : y = TRUE
    OBVIOUS
  <2>2. [[runs |-> b, at |-> h] EXCEPT !.runs = y] = [runs |-> y, at |-> h]
    OBVIOUS
  <2>3. QED
    BY <1>5, <2>1, <2>2, Zenon
<1>7. [runs |-> b, at |-> h] \in XraySet /\ [runs |-> TRUE, at |-> h] \in XraySet
  BY <1>4 DEF XraySet
<1>8. QED
  BY <1>2, <1>4, <1>5, <1>6, <1>7

LEMMA StopFacts ==
    ASSUME xray \in XraySet
    PROVE  /\ [xray EXCEPT !.runs = FALSE] \in XraySet
           /\ ~ [xray EXCEPT !.runs = FALSE].runs
           /\ [xray EXCEPT !.runs = FALSE].at = xray.at
BY DEF XraySet

LEMMA Executes ==
    ASSUME NEW j, NEW x
    PROVE  /\ x.do = "stop" => Execute(j, x) = Result(TRUE, [xray EXCEPT !.runs = FALSE])
           /\ x.do = "apply" => Execute(j, x) = Result(TRUE, [runs |-> TRUE, at |-> job[j].all])
           /\ x.do = "addInbound" /\ Reachable(x.i) => Execute(j, x) = Result(FALSE, xray)
           /\ x.do = "addInbound" /\ ~ Reachable(x.i) =>
                 Execute(j, x) = Result(TRUE, [Put(x.i, Content(j, x)) EXCEPT !.runs = TRUE])
           /\ x.do \in {"removeInbound", "removeClient", "addClient"} /\ ~ Reachable(x.i) =>
                 Execute(j, x) = Result(FALSE, xray)
           /\ x.do = "removeInbound" /\ Reachable(x.i) =>
                 Execute(j, x) = Result(TRUE, Put(x.i, Absent))
           /\ x.do = "removeClient" /\ Reachable(x.i) =>
                 Execute(j, x) =
                   Result(TRUE, Put(x.i, [xray.at[x.i] EXCEPT !.users = @ \ {x.c}]))
           /\ x.do = "addClient" /\ Reachable(x.i) /\ x.c \in xray.at[x.i].users =>
                 Execute(j, x) =
                   Result(FALSE, Put(x.i, [xray.at[x.i] EXCEPT !.users = @ \ {x.c}]))
           /\ x.do = "addClient" /\ Reachable(x.i) /\ x.c \notin xray.at[x.i].users =>
                 Execute(j, x) =
                   Result(TRUE, Put(x.i, [xray.at[x.i] EXCEPT !.users = @ \cup {x.c}]))
<1>1. CASE x.do = "stop"
  BY <1>1 DEF Execute
<1>2. CASE x.do = "apply"
  BY <1>2 DEF Execute
<1>3. CASE x.do = "addInbound"
  BY <1>3 DEF Execute
<1>4. CASE x.do = "removeInbound"
  BY <1>4 DEF Execute
<1>5. CASE x.do = "removeClient"
  BY <1>5 DEF Execute
<1>6. CASE x.do = "addClient"
  BY <1>6 DEF Execute
<1>7. QED
  BY <1>1, <1>2, <1>3, <1>4, <1>5, <1>6

LEMMA ResultFacts ==
    ASSUME NEW x
    PROVE  /\ Result(TRUE, x).ok /\ Result(TRUE, x).xray = x
           /\ ~ Result(FALSE, x).ok /\ Result(FALSE, x).xray = x
BY DEF Result

\* The outcomes of a command.
Fallback(j, x) == After(j, x, FALSE)
Restart == Step("apply", 0, "", 0, "must") \o Write("recover") \o Write("tags")

Taken(j, x) ==
    /\ Execute(j, x).ok
    /\ xray' = Execute(j, x).xray
    /\ disturbed' = disturbed
    /\ Goes(j, Tail(job[j].plan), job[j].failed)

Refused(j, x) ==
    /\ ~ Execute(j, x).ok
    /\ xray' = Execute(j, x).xray
    /\ disturbed' = IF job[j].op = "enable" THEN disturbed \cup {0, job[j].i} ELSE disturbed
    /\ Goes(j, Fallback(j, x), IF x.mode = "must" THEN TRUE ELSE job[j].failed)

NotDone(j, x) ==
    /\ x.mode = "must" /\ job[j].op # "enable"
    /\ xray' = xray /\ disturbed' = disturbed
    /\ Goes(j, Fallback(j, x), TRUE)

Unclear(j, x) ==
    /\ \/ xray' \in {xray, Execute(j, x).xray}
       \/ x.do = "addInbound" /\ xray' = Put(x.i, Content(j, x))
    /\ disturbed' = disturbed \cup {0, x.i} \/ disturbed' = All
    /\ x.do = "apply" /\ x.mode = "must" /\ job[j].op # "enable" => disturbed' = All
    /\ Goes(j, Fallback(j, x), TRUE)

Restarts(j, x) ==
    /\ x.mode = "first"
    /\ xray' = xray /\ disturbed' = disturbed
    /\ Goes(j, Restart, job[j].failed)

LEMMA Advances ==
    ASSUME Types, NEW j \in Runners, job[j].plan # <<>>, NEW x, NEW ok,
           job' = [job EXCEPT ![j] = Advance(j, x, ok)]
    PROVE  Goes(j, After(j, x, ok), IF ok \/ x.mode # "must" THEN job[j].failed ELSE TRUE)
<1>1. PICK g : g = Advance(j, x, ok)
  OBVIOUS
<1>2. /\ Same(job[j], g) /\ g.plan = After(j, x, ok)
      /\ g.failed = IF ok \/ x.mode # "must" THEN job[j].failed ELSE TRUE
  <2>1. Same(job[j], Advance(j, x, ok)) /\ Advance(j, x, ok).plan = After(j, x, ok)
    BY AdvanceOK
  <2>2. Advance(j, x, ok).failed = IF ok \/ x.mode # "must" THEN job[j].failed ELSE TRUE
    BY AdvanceOK
  <2>3. QED
    BY <1>1, <2>1, <2>2, Zenon
<1>3. job' = [job EXCEPT ![j] = g]
  BY <1>1
<1>4. Goes(j, g.plan, g.failed)
  BY <1>2, <1>3, GoesWith
<1>5. QED
  BY <1>2, <1>4, Zenon

LEMMA AdvancesFailed ==
    ASSUME Types, NEW j \in Runners, job[j].plan # <<>>, NEW x,
           job' = [job EXCEPT ![j] = [Advance(j, x, FALSE) EXCEPT !.failed = TRUE]]
    PROVE  Goes(j, Fallback(j, x), TRUE)
<1>1. PICK no : no = FALSE
  OBVIOUS
<1>2. PICK g : g = [Advance(j, x, no) EXCEPT !.failed = TRUE]
  OBVIOUS
<1>3. Same(job[j], g) /\ g.plan = After(j, x, no) /\ g.failed = TRUE
  BY <1>2, AdvanceOK, Zenon
<1>4. job' = [job EXCEPT ![j] = g]
  BY <1>1, <1>2
<1>5. After(j, x, no) = Fallback(j, x)
  BY <1>1 DEF Fallback
<1>6. Goes(j, g.plan, g.failed)
  BY <1>3, <1>4, GoesWith
<1>7. QED
  BY <1>3, <1>5, <1>6

LEMMA CommandTurn ==
    ASSUME Types, NEW j \in Runners, Command(j), NEW x, x = Head(job[j].plan)
    PROVE  /\ job[j].plan # <<>> /\ JobOK(job[j])
           /\ x \in StepsOf(job[j].op) /\ x.do \in Commands
           /\ UNCHANGED <<inbound, client, online, due, excused>>
           /\ faults' = faults \/ (faults < MaxFaults /\ faults' = faults + 1)
           /\ \/ Taken(j, x) \/ Refused(j, x) \/ NotDone(j, x) \/ Unclear(j, x)
              \/ Restarts(j, x)
<1>1. /\ job[j].plan # <<>> /\ IsCommand(x)
      /\ UNCHANGED <<inbound, client, online, due, excused>>
      /\ Answered(j, x) \/ Fails(j, x) \/ Unreachable(j, x)
  BY DEF Command
<1>2. JobOK(job[j]) /\ job[j].plan \in Seq(StepsOf(job[j].op))
  BY DEF Types
<1>3. x \in StepsOf(job[j].op)
  BY <1>1, <1>2
<1>4. x.do \in Commands
  BY <1>1, <1>3 DEF StepsOf, Sound, IsCommand
<1>5. CASE Answered(j, x)
  <2>1. PICK ok : ok = Execute(j, x).ok
    OBVIOUS
  <2>2. /\ xray' = Execute(j, x).xray
        /\ job' = [job EXCEPT ![j] = Advance(j, x, ok)]
        /\ disturbed' = IF job[j].op = "enable" /\ ~ ok THEN disturbed \cup {0, job[j].i}
                        ELSE disturbed
        /\ faults' = faults
    BY <1>5, <2>1 DEF Answered
  <2>3. Goes(j, After(j, x, ok), IF ok \/ x.mode # "must" THEN job[j].failed ELSE TRUE)
    BY <1>1, <2>2, Advances
  <2>4. CASE ok
    <3>1. After(j, x, ok) = Tail(job[j].plan)
      BY <2>4 DEF After
    <3>2. Goes(j, Tail(job[j].plan), job[j].failed)
      BY <2>3, <2>4, <3>1, Zenon
    <3>3. Taken(j, x)
      BY <2>1, <2>2, <2>4, <3>2 DEF Taken
    <3>4. QED
      BY <1>1, <1>2, <1>3, <1>4, <2>2, <3>3
  <2>5. CASE ~ ok
    <3>1. After(j, x, ok) = Fallback(j, x)
      BY <2>5 DEF After, Fallback
    <3>2. Goes(j, Fallback(j, x), IF x.mode = "must" THEN TRUE ELSE job[j].failed)
      <4>1. CASE x.mode = "must"
        BY <2>3, <2>5, <3>1, <4>1, Zenon
      <4>2. CASE x.mode # "must"
        BY <2>3, <2>5, <3>1, <4>2, Zenon
      <4>3. QED
        BY <4>1, <4>2
    <3>3. Refused(j, x)
      BY <2>1, <2>2, <2>5, <3>2 DEF Refused
    <3>4. QED
      BY <1>1, <1>2, <1>3, <1>4, <2>2, <3>3
  <2>6. QED
    BY <2>4, <2>5
<1>6. CASE Fails(j, x)
  <2> DEFINE starts == x.do = "addInbound" /\ ~ xray.runs
             known == x.mode = "must" /\ ~ starts /\ job[j].op # "enable"
             failed == [Advance(j, x, FALSE) EXCEPT !.failed = TRUE]
  <2>1. faults < MaxFaults /\ faults' = faults + 1
    BY <1>6 DEF Fails, Fault
  <2>2. CASE /\ job' = [job EXCEPT ![j] = failed]
             /\ xray' = IF starts THEN Put(x.i, Content(j, x)) ELSE xray
             /\ disturbed' = IF known THEN disturbed ELSE disturbed \cup {0, x.i}
    <3>1. Goes(j, Fallback(j, x), TRUE)
      BY <1>1, <2>2, AdvancesFailed
    <3>2. CASE known
      <4>1. NotDone(j, x)
        BY <2>2, <3>1, <3>2 DEF NotDone
      <4>2. QED
        BY <1>1, <1>2, <1>3, <1>4, <2>1, <4>1
    <3>3. CASE ~ known
      <4>1. Unclear(j, x)
        BY <2>2, <3>1, <3>3 DEF Unclear
      <4>2. QED
        BY <1>1, <1>2, <1>3, <1>4, <2>1, <4>1
    <3>4. QED
      BY <3>2, <3>3
  <2>3. CASE /\ job' = [job EXCEPT ![j] = failed]
             /\ xray' \in {xray, Execute(j, x).xray}
             /\ disturbed' = IF x.do = "apply" THEN All ELSE disturbed \cup {0, x.i}
    <3>1. Goes(j, Fallback(j, x), TRUE)
      BY <1>1, <2>3, AdvancesFailed
    <3>2. Unclear(j, x)
      BY <2>3, <3>1 DEF Unclear
    <3>3. QED
      BY <1>1, <1>2, <1>3, <1>4, <2>1, <3>2
  <2>4. CASE /\ x.mode = "first"
             /\ job' = [job EXCEPT ![j].plan =
                          Step("apply", 0, "", 0, "must") \o Write("recover") \o Write("tags")]
             /\ UNCHANGED <<xray, disturbed>>
    <3>1. job' = [job EXCEPT ![j].plan = Restart]
      BY <2>4 DEF Restart
    <3>2. Goes(j, Restart, job[j].failed)
      BY <1>1, <3>1, GoesOn
    <3>3. Restarts(j, x)
      BY <2>4, <3>2 DEF Restarts
    <3>4. QED
      BY <1>1, <1>2, <1>3, <1>4, <2>1, <3>3
  <2>5. QED
    BY <1>6, <2>2, <2>3, <2>4 DEF Fails
<1>7. CASE Unreachable(j, x)
  <2>1. /\ job' = [job EXCEPT ![j] = [Advance(j, x, FALSE) EXCEPT !.failed = TRUE]]
        /\ disturbed' = IF x.mode = "must" /\ job[j].op # "enable" THEN disturbed
                        ELSE disturbed \cup {0, x.i}
        /\ xray' = xray /\ faults' = faults
    BY <1>7 DEF Unreachable
  <2>2. Goes(j, Fallback(j, x), TRUE)
    BY <1>1, <2>1, AdvancesFailed
  <2>3. CASE x.mode = "must" /\ job[j].op # "enable"
    <3>1. NotDone(j, x)
      BY <2>1, <2>2, <2>3 DEF NotDone
    <3>2. QED
      BY <1>1, <1>2, <1>3, <1>4, <2>1, <3>1
  <2>4. CASE ~ (x.mode = "must" /\ job[j].op # "enable")
    <3>1. Unclear(j, x)
      BY <2>1, <2>2, <2>4 DEF Unclear
    <3>2. QED
      BY <1>1, <1>2, <1>3, <1>4, <2>1, <3>1
  <2>5. QED
    BY <2>3, <2>4
<1>8. QED
  BY <1>1, <1>5, <1>6, <1>7

-----------------------------------------------------------------------------
(* Every variable has its type.                                             *)

LEMMA ContentGood ==
    ASSUME Types, NEW j \in Runners, JobOK(job[j]), NEW x \in StepsOf(job[j].op),
           x.do = "addInbound"
    PROVE  /\ x.i \in Inbounds
           /\ Content(j, x) \in Contents /\ ContentOK(x.i, Content(j, x))
<1>1. x.i \in Inbounds /\ (job[j].op = "reconcile" \/ x.gen \in 1..MaxGen[x.i])
  BY DEF StepsOf, Sound
<1>2. CASE job[j].op = "reconcile"
  <2>1. Content(j, x) = job[j].all[x.i] /\ job[j].all \in GoodContents
    BY <1>2 DEF Content, JobOK
  <2>2. QED
    BY <1>1, <2>1 DEF GoodContents
<1>3. CASE job[j].op # "reconcile"
  <2>1. Content(j, x) = Merged(x.i, x.gen)
    BY <1>3 DEF Content
  <2>2. QED
    BY <1>1, <1>3, <2>1, MergedGood
<1>4. QED
  BY <1>2, <1>3

\* An inbound with other users.
LEMMA UsersGood ==
    ASSUME xray \in XraySet, NEW i \in Inbounds, xray.at[i] # Absent,
           NEW us \in SUBSET ClientsOf(i)
    PROVE  /\ [xray.at[i] EXCEPT !.users = us] = [gen |-> xray.at[i].gen, users |-> us]
           /\ [gen |-> xray.at[i].gen, users |-> us] \in Contents
           /\ ContentOK(i, [gen |-> xray.at[i].gen, users |-> us])
           /\ xray.at[i].users \subseteq ClientsOf(i)
           /\ xray.at[i].gen # 0
<1>1. PICK a : a = xray.at[i]
  OBVIOUS
<1>2. a \in Contents /\ ContentOK(i, a)
  BY <1>1 DEF XraySet, GoodContents
<1>3. a.gen # 0
  BY <1>1, <1>2, AbsentGood
<1>4. [a EXCEPT !.users = us] = [gen |-> a.gen, users |-> us]
  BY <1>2 DEF Contents
<1>5. [gen |-> a.gen, users |-> us] \in Contents
  BY <1>2 DEF Contents, ClientsOf
<1>6. ContentOK(i, [gen |-> a.gen, users |-> us])
  BY <1>2, <1>3 DEF ContentOK
<1>7. QED
  BY <1>1, <1>2, <1>3, <1>4, <1>5, <1>6 DEF ContentOK

LEMMA ExecuteGood ==
    ASSUME Types, xray \in XraySet, NEW j \in Runners, JobOK(job[j]),
           NEW x \in StepsOf(job[j].op), x.do \in Commands
    PROVE  Execute(j, x).xray \in XraySet
<1>1. CASE x.do = "stop"
  <2>1. Execute(j, x) = Result(TRUE, [xray EXCEPT !.runs = FALSE])
    BY <1>1, Executes
  <2>2. QED
    BY <2>1, StopFacts, ResultFacts
<1>2. CASE x.do = "apply"
  <2>1. Execute(j, x) = Result(TRUE, [runs |-> TRUE, at |-> job[j].all])
    BY <1>2, Executes
  <2>2. job[j].all \in GoodContents
    BY DEF JobOK
  <2>3. [runs |-> TRUE, at |-> job[j].all] \in XraySet
    BY <2>2 DEF XraySet
  <2>4. QED
    BY <2>1, <2>3, ResultFacts
<1>3. CASE x.do = "addInbound"
  <2>1. /\ x.i \in Inbounds
        /\ Content(j, x) \in Contents /\ ContentOK(x.i, Content(j, x))
    BY <1>3, ContentGood
  <2>2. [Put(x.i, Content(j, x)) EXCEPT !.runs = TRUE] \in XraySet
    BY <2>1, PutFacts
  <2>3. \/ Execute(j, x) = Result(FALSE, xray)
        \/ Execute(j, x) = Result(TRUE, [Put(x.i, Content(j, x)) EXCEPT !.runs = TRUE])
    BY <1>3, Executes
  <2>4. QED
    BY <2>2, <2>3, ResultFacts
<1>4. CASE x.do \in {"removeInbound", "removeClient", "addClient"} /\ ~ Reachable(x.i)
  <2>1. Execute(j, x) = Result(FALSE, xray)
    BY <1>4, Executes
  <2>2. QED
    BY <2>1, ResultFacts
<1>5. CASE x.do = "removeInbound" /\ Reachable(x.i)
  <2>1. x.i \in Inbounds
    BY <1>5 DEF StepsOf, Sound
  <2>2. Put(x.i, Absent) \in XraySet
    BY <2>1, AbsentGood, PutFacts
  <2>3. Execute(j, x) = Result(TRUE, Put(x.i, Absent))
    BY <1>5, Executes
  <2>4. QED
    BY <2>2, <2>3, ResultFacts
<1>6. CASE x.do \in {"removeClient", "addClient"} /\ Reachable(x.i)
  <2>1. x.i \in Inbounds /\ x.c \in ClientsOf(x.i)
    <3>1. x.c \in Clients /\ x.i = InboundOf[x.c]
      BY <1>6 DEF StepsOf, Sound
    <3>2. InboundOf[x.c] \in Inbounds
      BY <3>1, PanelAssumption
    <3>3. QED
      BY <3>1, <3>2 DEF ClientsOf
  <2>2. xray.at[x.i] # Absent
    BY <1>6 DEF Reachable
  <2>3. ASSUME NEW us \in SUBSET ClientsOf(x.i)
        PROVE  Put(x.i, [xray.at[x.i] EXCEPT !.users = us]) \in XraySet
    <3>1. PICK a : a = [xray.at[x.i] EXCEPT !.users = us]
      OBVIOUS
    <3>2. a \in Contents /\ ContentOK(x.i, a)
      BY <2>1, <2>2, <3>1, UsersGood
    <3>3. Put(x.i, a) \in XraySet
      BY <2>1, <3>2, PutFacts
    <3>4. QED
      BY <3>1, <3>3
  <2>4. PICK us : us = xray.at[x.i].users
    OBVIOUS
  <2>5. us \subseteq ClientsOf(x.i)
    BY <2>1, <2>2, <2>4, UsersGood
  <2>6. /\ Put(x.i, [xray.at[x.i] EXCEPT !.users = @ \ {x.c}]) \in XraySet
        /\ Put(x.i, [xray.at[x.i] EXCEPT !.users = @ \cup {x.c}]) \in XraySet
    <3>1. us \ {x.c} \in SUBSET ClientsOf(x.i) /\ us \cup {x.c} \in SUBSET ClientsOf(x.i)
      BY <2>1, <2>5
    <3>2. /\ Put(x.i, [xray.at[x.i] EXCEPT !.users = us \ {x.c}]) \in XraySet
          /\ Put(x.i, [xray.at[x.i] EXCEPT !.users = us \cup {x.c}]) \in XraySet
      BY <2>3, <3>1
    <3>3. QED
      BY <2>4, <3>2
  <2>7. CASE x.do = "removeClient"
    <3>1. Execute(j, x) = Result(TRUE, Put(x.i, [xray.at[x.i] EXCEPT !.users = @ \ {x.c}]))
      BY <1>6, <2>7, Executes
    <3>2. QED
      BY <2>6, <3>1, ResultFacts
  <2>8. CASE x.do = "addClient" /\ x.c \in us
    <3>1. Execute(j, x) = Result(FALSE, Put(x.i, [xray.at[x.i] EXCEPT !.users = @ \ {x.c}]))
      BY <1>6, <2>4, <2>8, Executes
    <3>2. QED
      BY <2>6, <3>1, ResultFacts
  <2>9. CASE x.do = "addClient" /\ x.c \notin us
    <3>1. Execute(j, x) =
            Result(TRUE, Put(x.i, [xray.at[x.i] EXCEPT !.users = @ \cup {x.c}]))
      BY <1>6, <2>4, <2>9, Executes
    <3>2. QED
      BY <2>6, <3>1, ResultFacts
  <2>10. QED
    BY <1>6, <2>7, <2>8, <2>9
<1>7. QED
  BY <1>1, <1>2, <1>3, <1>4, <1>5, <1>6 DEF Commands

LEMMA CommandKinds ==
    ASSUME Types, Kinds, NEW j \in Runners, Command(j)
    PROVE  Kinds'
<1>1. PICK x : x = Head(job[j].plan)
  OBVIOUS
<1>2. /\ job[j].plan # <<>> /\ JobOK(job[j])
      /\ x \in StepsOf(job[j].op) /\ x.do \in Commands
      /\ UNCHANGED <<inbound, client, online, due, excused>>
      /\ faults' = faults \/ (faults < MaxFaults /\ faults' = faults + 1)
      /\ \/ Taken(j, x) \/ Refused(j, x) \/ NotDone(j, x) \/ Unclear(j, x)
         \/ Restarts(j, x)
  BY <1>1, CommandTurn
<1>3. faults' \in 0..MaxFaults /\ online' \in BOOLEAN /\ due' \in BOOLEAN
  BY <1>2, PanelAssumption DEF Kinds
<1>4. xray \in XraySet /\ disturbed \in SUBSET All /\ job[j].i \in Inbounds /\ x.i \in All
  BY <1>2 DEF Kinds, JobOK, StepsOf, AnyStep, All
<1>5. Execute(j, x).xray \in XraySet
  BY <1>2, <1>4, ExecuteGood
<1>6. xray' \in XraySet
  <2>1. x.do = "addInbound" => Put(x.i, Content(j, x)) \in XraySet
    BY <1>2, <1>4, ContentGood, PutFacts
  <2>2. QED
    BY <1>2, <1>4, <1>5, <2>1 DEF Taken, Refused, NotDone, Unclear, Restarts
<1>7. disturbed' \in SUBSET All
  BY <1>2, <1>4 DEF Taken, Refused, NotDone, Unclear, Restarts, All
<1>8. QED
  BY <1>3, <1>6, <1>7 DEF Kinds

LEMMA FirstKinds == Init => Kinds
<1> SUFFICES ASSUME Init PROVE Kinds
  OBVIOUS
<1>1. xray \in XraySet
  BY NothingGood DEF Init, XraySet
<1>2. faults \in 0..MaxFaults
  BY PanelAssumption DEF Init
<1>3. QED
  BY <1>1, <1>2 DEF Init, Kinds

LEMMA KindsKept == IInv /\ Kinds /\ [Next]_vars => Kinds'
<1> SUFFICES ASSUME IInv, Kinds, [Next]_vars PROVE Kinds'
  OBVIOUS
<1>1. Types /\ xray \in XraySet /\ disturbed \in SUBSET All /\ faults \in 0..MaxFaults
  BY DEF IInv, Kinds
<1>2. \A j \in Runners : job[j].i \in Inbounds
  BY <1>1 DEF Types, JobOK
<1>3. CASE UNCHANGED vars
  BY <1>3 DEF vars, Kinds
<1>4. ASSUME NEW j, NEW op, NEW i, NEW c, NEW want, NEW plan,
             Begin(j, op, i, c, want, plan), online' \in BOOLEAN, due' \in BOOLEAN
      PROVE  Kinds'
  <2>1. disturbed' \in {disturbed, All} /\ UNCHANGED <<xray, faults>>
    BY <1>4 DEF Begin
  <2>2. QED
    BY <1>1, <1>4, <2>1 DEF Kinds
<1>5. ASSUME NEW j \in Jobs, InboundRequest(j) PROVE Kinds'
  <2>1. PICK i \in Inbounds : \/ CreateInbound(j, i) \/ UpdateInbound(j, i)
                              \/ DeleteInbound(j, i) \/ EnableInbound(j, i)
                              \/ DisableInbound(j, i)
    BY <1>5 DEF InboundRequest
  <2>2. \E op, want, plan : OnInbound(j, op, i, want, plan)
    BY <2>1 DEF CreateInbound, UpdateInbound, DeleteInbound, EnableInbound, DisableInbound
  <2>3. QED
    BY <1>4, <2>2 DEF OnInbound, Kinds
<1>6. ASSUME NEW j, NEW op, NEW c, NEW want, NEW plan, OnClient(j, op, c, want, plan)
      PROVE  Kinds'
  BY <1>4, <1>6 DEF OnClient, Kinds
<1>7. ASSUME NEW j \in Jobs, NEW c \in Clients, Check(j, c) PROVE Kinds'
  <2>1. \E op, want, plan : OnClient(j, op, c, want, plan)
    BY <1>7 DEF Check, Reset
  <2>2. QED
    BY <1>6, <2>1
<1>8. ASSUME NEW j \in Jobs, ClientRequest(j) \/ Report(j) PROVE Kinds'
  <2>1. PICK c \in Clients : \/ CreateClient(j, c)
                             \/ \E e \in {"on", "off"} : UpdateClient(j, c, e)
                             \/ DeleteClient(j, c) \/ ResetClient(j, c)
                             \/ Traffic(j, c) \/ Expel(j, c)
    BY <1>8 DEF ClientRequest, Report
  <2>2. \E op, want, plan : OnClient(j, op, c, want, plan)
    BY <2>1 DEF CreateClient, UpdateClient, DeleteClient, ResetClient, Reset, Traffic, Expel
  <2>3. QED
    BY <1>6, <2>2
<1>9. ASSUME NEW j \in Runners, WriteInbound(j) \/ Finish(j) PROVE Kinds'
  BY <1>1, <1>9 DEF WriteInbound, Finish, Kinds
<1>10. ASSUME NEW j \in Jobs, JobWork(j) PROVE Kinds'
  <2>1. /\ disturbed' \in {disturbed, disturbed \cup {job[j].i}, disturbed \cup {0, job[j].i}}
        /\ UNCHANGED <<xray, faults, online, due>>
    BY <1>10 DEF JobWork, WriteClient, Drop, Read
  <2>2. PICK i \in Inbounds : i = job[j].i
    BY <1>2, RunnersFact
  <2>3. disturbed \cup {i} \in SUBSET All /\ disturbed \cup {0, i} \in SUBSET All
    BY <1>1 DEF All
  <2>4. disturbed' \in SUBSET All
    BY <1>1, <2>1, <2>2, <2>3
  <2>5. QED
    BY <2>1, <2>4 DEF Kinds
<1>11. CASE StartReconcile
  <2>1. PICK plan : Begin("reconcile", "reconcile", 1, "", "", plan)
    BY <1>11 DEF StartReconcile
  <2>2. online' \in BOOLEAN /\ due' \in BOOLEAN
    BY <1>11 DEF StartReconcile, Kinds
  <2>3. QED
    BY <1>4, <2>1, <2>2
<1>12. ASSUME faults' = faults \/ (faults < MaxFaults /\ faults' = faults + 1)
       PROVE  faults' \in 0..MaxFaults
  BY <1>1, <1>12, PanelAssumption
<1>13. CASE Collect("reconcile")
  <2>1. faults' \in 0..MaxFaults /\ UNCHANGED <<xray, online, due, disturbed>>
    BY <1>12, <1>13 DEF Collect, Fault
  <2>2. QED
    BY <2>1 DEF Kinds
<1>14. CASE \E c \in Clients : CycleEnds(c)
  BY <1>14 DEF CycleEnds, Kinds
<1>15. CASE Disconnect \/ Connect
  <2>1. /\ faults' \in 0..MaxFaults /\ UNCHANGED <<xray, disturbed>>
        /\ online' \in BOOLEAN /\ due' \in BOOLEAN
    BY <1>12, <1>15 DEF Disconnect, Connect, Fault, Kinds
  <2>2. QED
    BY <1>1, <2>1 DEF Kinds
<1>16. CASE Crash
  <2>1. /\ faults' \in 0..MaxFaults /\ UNCHANGED <<online, due>> /\ disturbed' = All
        /\ xray' = [xray EXCEPT !.runs = FALSE]
    BY <1>12, <1>16 DEF Crash, Fault
  <2>2. xray' \in XraySet
    BY <1>1, <2>1, StopFacts
  <2>3. QED
    BY <2>1, <2>2 DEF Kinds
<1>17. CASE Next
  BY <1>1, <1>5, <1>7, <1>8, <1>9, <1>10, <1>11, <1>13, <1>14, <1>15, <1>16, <1>17,
     CommandKinds DEF Next, Work
<1>18. QED
  BY <1>3, <1>17

LEMMA TypesOK == IInv /\ Kinds => TypeOK
<1> SUFFICES ASSUME IInv, Kinds PROVE TypeOK
  OBVIOUS
<1>1. inbound \in GoodRows /\ client \in [Clients -> ClientRow] /\ excused \in SUBSET Clients
  BY DEF IInv, Types
<1>2. ASSUME NEW i \in Inbounds
      PROVE  /\ inbound[i].enable \in {"unborn", "on", "off", "error", "gone"}
             /\ inbound[i].gen \in IF Exists(i) THEN 1..MaxGen[i] ELSE {0}
  BY <1>1 DEF GoodRows, InboundRow, RowOK, There, Exists
<1>3. ASSUME NEW i \in Inbounds
      PROVE  /\ xray.at[i].gen \in 0..MaxGen[i]
             /\ xray.at[i].users \subseteq ClientsOf(i)
             /\ xray.at[i].gen = 0 => xray.at[i].users = {}
  <2>1. ContentOK(i, xray.at[i])
    BY DEF Kinds, XraySet, GoodContents
  <2>2. QED
    BY <2>1 DEF ContentOK
<1>4. client \in [Clients -> [enable : {"none", "on", "off"}, used : 0..Limit,
                              written : BOOLEAN]]
  BY <1>1 DEF ClientRow
<1>5. /\ xray.runs \in BOOLEAN /\ online \in BOOLEAN /\ due \in BOOLEAN
      /\ faults \in 0..MaxFaults /\ disturbed \subseteq All
  BY DEF Kinds, XraySet
<1>6. QED
  BY <1>1, <1>2, <1>3, <1>4, <1>5 DEF TypeOK

\* TypeOK: rows, what Xray has, sessions, faults and what may differ, through every
\* operation, fault and crash.
THEOREM TypeCorrect == Spec => []TypeOK
<1>1. Init => IInv /\ Kinds
  BY Initially, FirstKinds
<1>2. IInv /\ Kinds /\ [Next]_vars => IInv' /\ Kinds'
  BY Preserved, KindsKept
<1>3. QED
  BY <1>1, <1>2, TypesOK, PTL DEF Spec

-----------------------------------------------------------------------------
(* What a goroutine knows: an invariant of one that is alone.               *)

AddStep(i, gen, mode) ==
    [do |-> "addInbound", i |-> i, c |-> "", gen |-> gen, mode |-> mode]
RemoveStep(i, mode) ==
    [do |-> "removeInbound", i |-> i, c |-> "", gen |-> 0, mode |-> mode]
AddUser(c, mode) ==
    [do |-> "addClient", i |-> InboundOf[c], c |-> c, gen |-> 0, mode |-> mode]
RemoveUser(c, mode) ==
    [do |-> "removeClient", i |-> InboundOf[c], c |-> c, gen |-> 0, mode |-> mode]
StopStep == [do |-> "stop", i |-> 0, c |-> "", gen |-> 0, mode |-> "try"]
ApplyStep == [do |-> "apply", i |-> 0, c |-> "", gen |-> 0, mode |-> "must"]
RowStep(what) == [do |-> what, i |-> 0, c |-> "", gen |-> 0, mode |-> "row"]

Known(i) == i \notin disturbed
Quiet == 0 \notin disturbed /\ Enabled = {} => ~ xray.runs
Serves(i, content) == xray.runs /\ xray.at[i] = content
Kept == \A k \in Inbounds : Known(k) => Agree(k)
Spared(i) == \A k \in Inbounds : k # i => (Known(k) => Agree(k))

\* Xray has what a row says of its inbound.
Held(i, r) == IF r.enable = "on" THEN Serves(i, Merged(i, r.gen)) ELSE xray.at[i] = Absent

\* Xray has the enabled users, and client c if b.
On(c) == client[c].enable = "on"
With(c, b) == {d \in ClientsOf(InboundOf[c]) : IF d = c THEN b ELSE On(d)}
User(c, b) ==
    Known(InboundOf[c]) =>
       IF inbound[InboundOf[c]].enable = "on"
       THEN Serves(InboundOf[c], [gen |-> inbound[InboundOf[c]].gen, users |-> With(c, b)])
       ELSE xray.at[InboundOf[c]] = Absent

Creating(g) ==
    \/ /\ g.plan = <<AddStep(g.i, 1, "must")>> \/ g.plan = <<RowStep("error")>>
       /\ inbound[g.i] = Row("on", 1)
       /\ Known(g.i) => xray.at[g.i] = Absent
       /\ 0 \notin disturbed /\ Enabled \subseteq {g.i} => ~ xray.runs
    \/ g.plan = <<>> /\ (Known(g.i) => Agree(g.i)) /\ Quiet

Old(g) == AddStep(g.i, g.inbound.gen, "try")
New(g) == AddStep(g.i, g.inbound.gen + 1, "must")
Updating(g) ==
    /\ Quiet
    /\ g.plan # <<>> => /\ inbound[g.i] = Row(g.inbound.enable, g.inbound.gen + 1)
                        /\ g.inbound.enable \in {"on", "error"}
    /\ \/ g.plan = <<RemoveStep(g.i, "must"), New(g)>> /\ (Known(g.i) => Held(g.i, g.inbound))
       \/ /\ g.plan = <<New(g)>>
          /\ xray.at[g.i] = Absent /\ xray.runs
          /\ Known(g.i) => g.inbound.enable = "on"
       \/ /\ g.plan = <<Old(g), RowStep("revertInbound")>>
          /\ Known(g.i) => xray.at[g.i] = Absent /\ g.inbound.enable = "on"
          /\ 0 \notin disturbed => xray.runs
          /\ g.failed
       \/ /\ g.plan = <<RowStep("revertInbound")>>
          /\ Known(g.i) => Held(g.i, g.inbound)
          /\ g.failed
       \/ /\ g.plan = <<>>
          /\ Known(g.i) \/ (~ g.failed /\ g.inbound.enable = "on") => Agree(g.i)

Removed(g) == IF g.op = "disable" THEN RowStep("off") ELSE RowStep("drop")
Offline(g) == g.want = "offline"
Removing(g) ==
    /\ Offline(g) => g.op = "deleteInbound"
    /\ \/ /\ g.plan = <<RemoveStep(g.i, "must"), Removed(g), RowStep("last")>>
          /\ Known(g.i) => Agree(g.i)
          /\ Quiet
       \/ /\ g.plan = <<Removed(g), RowStep("last")>>
          /\ ~ Offline(g) => xray.at[g.i] = Absent
       \/ /\ g.plan = <<RowStep("last")>> \/ g.plan = <<StopStep>>
          /\ inbound[g.i].enable # "on"
          /\ IF Offline(g) THEN {0, g.i} \subseteq disturbed ELSE xray.at[g.i] = Absent
          /\ g.plan = <<StopStep>> => Enabled = {}
       \/ /\ g.plan = <<>>
          /\ Known(g.i) => Agree(g.i)
          /\ Quiet
          /\ ~ g.failed /\ ~ Offline(g) => Agree(g.i) /\ (Enabled = {} => ~ xray.runs)

Enabling(g) ==
    \/ /\ g.plan = <<AddStep(g.i, inbound[g.i].gen, "must")>>
       /\ inbound[g.i].enable = "on" /\ ~ g.failed
    \/ /\ g.plan = <<RowStep("off")>> \/ g.plan = <<>>
       /\ {0, g.i} \subseteq disturbed
       /\ g.failed
    \/ g.plan = <<>> /\ ~ g.failed /\ inbound[g.i].enable = "on" /\ Agree(g.i)

CreatingClient(g) ==
    \/ /\ g.plan = <<AddUser(g.c, "must")>> \/ g.plan = <<RowStep("dropClient")>>
       /\ User(g.c, FALSE) /\ On(g.c)
    \/ g.plan = <<>> /\ User(g.c, On(g.c))

WasOn(g) == g.client.enable = "on"
UpdatingClient(g) ==
    \/ /\ g.plan = <<RemoveUser(g.c, "must"), RowStep("reload")>>
       /\ User(g.c, TRUE) /\ WasOn(g) /\ client[g.c].enable = g.want
    \/ g.plan = <<RowStep("reload")>> /\ User(g.c, FALSE) /\ client[g.c].enable = g.want
    \/ g.plan = <<AddUser(g.c, "must")>> /\ User(g.c, FALSE) /\ On(g.c)
    \/ g.plan = <<RowStep("revertClient"), AddUser(g.c, "try")>>
       /\ User(g.c, FALSE) /\ WasOn(g)
    \/ g.plan = <<RowStep("revertClient")>> /\ User(g.c, WasOn(g))
    \/ g.plan = <<AddUser(g.c, "try")>> /\ User(g.c, FALSE) /\ On(g.c)
    \/ g.plan = <<>> /\ User(g.c, On(g.c))

DeletingClient(g) ==
    \/ g.plan = <<RemoveUser(g.c, "must"), RowStep("dropClient")>> /\ User(g.c, On(g.c))
    \/ g.plan = <<RowStep("dropClient")>> /\ (~ Offline(g) => User(g.c, FALSE))
    \/ g.plan = <<>> /\ User(g.c, On(g.c))

Resetting(g) ==
    \/ /\ g.plan = <<RowStep("onClient"), AddUser(g.c, "try")>>
       /\ User(g.c, FALSE) /\ client[g.c].enable = "off"
    \/ g.plan = <<AddUser(g.c, "try")>> /\ User(g.c, FALSE) /\ On(g.c)
    \/ g.plan = <<>> /\ User(g.c, On(g.c))

Reporting(g) ==
    \/ g.plan = <<RowStep("limit")>> /\ User(g.c, On(g.c))
    \/ g.plan = <<RemoveUser(g.c, "try")>> /\ User(g.c, TRUE) /\ ~ On(g.c)
    \/ g.plan = <<RemoveUser(g.c, "try"), RowStep("offClient")>> /\ User(g.c, TRUE) /\ On(g.c)
    \/ g.plan = <<RowStep("offClient")>> /\ User(g.c, FALSE) /\ On(g.c)
    \/ g.plan = <<>> /\ User(g.c, On(g.c))

\* A reconcile: the inbounds it has still to add, and what it has achieved.
Restored(k) == Serves(k, Deployed(k))
NoneWrong == /\ \A k \in Inbounds : inbound[k].enable # "error"
             /\ \A k \in Enabled : Reachable(k)

AddsOf(p, n) == {p[m].i : m \in 1..n}
Plans(g) == g.all = [k \in Inbounds |-> Deployed(k)]

\* Inbounds outside A are what they shall be, and nobody else is served.
Gathered(A) ==
    \A k \in Inbounds : Known(k) =>
        /\ k \in Enabled \/ (k \in Wanted /\ k \notin A) => Restored(k)
        /\ xray.at[k] = Absent \/ (k \in Wanted /\ Restored(k))
Present(A) == \A k \in Wanted : k \notin A => Reachable(k)

Adds(g, n) ==
    /\ Len(g.plan) = n + 2
    /\ g.plan[n + 1] = RowStep("recover") /\ g.plan[n + 2] = RowStep("tags")
    /\ \A m \in 1..n : /\ g.plan[m].i \in Wanted
                       /\ \/ g.plan[m] = AddStep(g.plan[m].i, 0, "try")
                          \/ /\ g.plan[m] = AddStep(g.plan[m].i, 0, "first")
                             /\ m = 1 /\ Kept /\ Quiet
Adding(g, n) ==
    /\ Adds(g, n) /\ Plans(g) /\ Wanted # {}
    /\ Gathered(AddsOf(g.plan, n))
    /\ ~ g.failed => Present(AddsOf(g.plan, n))

Cleaning(g) ==
    /\ Kept /\ Quiet
    /\ \A m \in 1..Len(g.plan) : /\ g.plan[m].i \in Inbounds /\ ~ Exists(g.plan[m].i)
                                 /\ g.plan[m] = RemoveStep(g.plan[m].i, "try")
    /\ ~ g.failed => /\ NoneWrong
                     /\ \A k \in Inbounds : ~ Exists(k) /\ Reachable(k) =>
                           \E m \in 1..Len(g.plan) : g.plan[m].i = k

Reconciling(g) ==
    \/ \E n \in Nat : Adding(g, n)
    \/ /\ g.plan = <<ApplyStep, RowStep("recover"), RowStep("tags")>>
       /\ Plans(g) /\ Kept /\ Quiet /\ Wanted # {}
    \/ g.plan = <<StopStep, RowStep("tags")>> /\ Kept /\ Quiet /\ Wanted = {}
    \/ g.plan = <<RowStep("tags")>> /\ Kept /\ Quiet /\ (~ g.failed => NoneWrong)
    \/ Cleaning(g)

DoesInbound(g) ==
    /\ g.op = "createInbound" => Creating(g)
    /\ g.op = "updateInbound" => Updating(g)
    /\ g.op \in {"disable", "deleteInbound"} => Removing(g)
    /\ g.op = "enable" => Enabling(g)

DoesClient(g) ==
    /\ g.op = "createClient" => CreatingClient(g)
    /\ g.op = "updateClient" => UpdatingClient(g)
    /\ g.op = "deleteClient" => DeletingClient(g)
    /\ g.op \in {"reset", "check"} => Resetting(g)
    /\ g.op \in {"traffic", "expel"} => Reporting(g)

Knows(g) ==
    /\ g.op \in InboundOps \cup ClientOps \cup {"reconcile"}
    /\ g.op \in InboundOps => DoesInbound(g) /\ Spared(g.i)
    /\ g.op \in ClientOps => DoesClient(g) /\ Spared(g.i) /\ Quiet
    /\ g.op = "reconcile" => Reconciling(g)

\* One that was overlapped says nothing of any inbound.
Blamed == \A j \in Runners : job[j] # NoJob /\ ~ job[j].clean => disturbed = All
Understood == \A j \in Runners : job[j] # NoJob /\ job[j].clean => Knows(job[j])

-----------------------------------------------------------------------------
(* Plans of few steps.                                                      *)

LEMMA One ==
    ASSUME NEW a
    PROVE  <<a>> # <<>> /\ Head(<<a>>) = a /\ Tail(<<a>>) = <<>>
OBVIOUS

LEMMA Two ==
    ASSUME NEW a, NEW b
    PROVE  <<a, b>> # <<>> /\ Head(<<a, b>>) = a /\ Tail(<<a, b>>) = <<b>>
OBVIOUS

LEMMA Three ==
    ASSUME NEW a, NEW b, NEW d
    PROVE  <<a, b, d>> # <<>> /\ Head(<<a, b, d>>) = a /\ Tail(<<a, b, d>>) = <<b, d>>
OBVIOUS

LEMMA Joins ==
    ASSUME NEW a, NEW b, NEW d
    PROVE  /\ <<a>> \o <<b>> = <<a, b>> /\ <<a>> \o <<>> = <<a>> /\ <<>> \o <<a>> = <<a>>
           /\ <<>> \o <<>> = <<>> /\ <<>> \o <<a, b>> = <<a, b>>
           /\ <<a, b>> \o <<d>> = <<a, b, d>> /\ <<a>> \o <<b, d>> = <<a, b, d>>
<1> DEFINE S == {a, b, d}
<1>1. /\ <<a>> \in Seq(S) /\ <<b>> \in Seq(S) /\ <<d>> \in Seq(S)
      /\ <<a, b>> \in Seq(S) /\ <<b, d>> \in Seq(S) /\ <<a, b, d>> \in Seq(S)
  OBVIOUS
<1>2. /\ Len(<<a>>) = 1 /\ Len(<<b>>) = 1 /\ Len(<<d>>) = 1
      /\ Len(<<a, b>>) = 2 /\ Len(<<b, d>>) = 2 /\ Len(<<a, b, d>>) = 3
  OBVIOUS
<1>3. /\ <<a>>[1] = a /\ <<b>>[1] = b /\ <<d>>[1] = d /\ <<a, b>>[1] = a /\ <<a, b>>[2] = b
      /\ <<b, d>>[1] = b /\ <<b, d>>[2] = d
      /\ <<a, b, d>>[1] = a /\ <<a, b, d>>[2] = b /\ <<a, b, d>>[3] = d
  OBVIOUS
<1> HIDE DEF S
<1>4. <<a>> \o <<b>> = <<a, b>>
  <2>1. PICK s : s = <<a>> \o <<b>>
    OBVIOUS
  <2>2. s \in Seq(S) /\ Len(s) = 2 /\ s[1] = a /\ s[2] = b
    BY <1>1, <1>2, <1>3, <2>1, ConcatProperties
  <2>3. s = <<a, b>>
    BY <1>1, <1>2, <1>3, <2>2, SeqEqual
  <2>4. QED
    BY <2>1, <2>3
<1>5. <<a, b>> \o <<d>> = <<a, b, d>>
  <2>1. PICK s : s = <<a, b>> \o <<d>>
    OBVIOUS
  <2>2. s \in Seq(S) /\ Len(s) = 3 /\ s[1] = a /\ s[2] = b /\ s[3] = d
    BY <1>1, <1>2, <1>3, <2>1, ConcatProperties
  <2>3. s = <<a, b, d>>
    BY <1>1, <1>2, <1>3, <2>2, SeqEqual
  <2>4. QED
    BY <2>1, <2>3
<1>6. <<a>> \o <<b, d>> = <<a, b, d>>
  <2>1. PICK s : s = <<a>> \o <<b, d>>
    OBVIOUS
  <2>2. s \in Seq(S) /\ Len(s) = 3 /\ s[1] = a /\ s[2] = b /\ s[3] = d
    BY <1>1, <1>2, <1>3, <2>1, ConcatProperties
  <2>3. s = <<a, b, d>>
    BY <1>1, <1>2, <1>3, <2>2, SeqEqual
  <2>4. QED
    BY <2>1, <2>3
<1>7. /\ <<a>> \o <<>> = <<a>> /\ <<>> \o <<a>> = <<a>> /\ <<>> \o <<a, b>> = <<a, b>>
      /\ <<>> \o <<>> = <<>>
  <2>1. <<>> \in Seq(S)
    OBVIOUS
  <2>2. \A s \in Seq(S) : s \o <<>> = s /\ <<>> \o s = s
    BY ConcatEmptySeq
  <2>3. QED
    BY <1>1, <2>1, <2>2
<1>8. QED
  BY <1>4, <1>5, <1>6, <1>7

LEMMA Steps ==
    /\ \A i, gen, mode : AddInbound(i, gen, mode) = <<AddStep(i, gen, mode)>>
    /\ \A i, mode : RemoveInbound(i, mode) = <<RemoveStep(i, mode)>>
    /\ \A c, mode : AddClient(c, mode) = <<AddUser(c, mode)>>
    /\ \A c, mode : RemoveClient(c, mode) = <<RemoveUser(c, mode)>>
    /\ \A w : Write(w) = <<RowStep(w)>>
    /\ Stop = <<StopStep>>
    /\ Restart = <<ApplyStep, RowStep("recover"), RowStep("tags")>>
<1>1. Step("apply", 0, "", 0, "must") = <<ApplyStep>>
  BY DEF Step, ApplyStep
<1>2. \A w : Write(w) = <<RowStep(w)>>
  BY DEF Write, Step, RowStep
<1>3. Restart = <<ApplyStep, RowStep("recover"), RowStep("tags")>>
  <2>1. PICK a, b, d : a = ApplyStep /\ b = RowStep("recover") /\ d = RowStep("tags")
    OBVIOUS
  <2>2. Restart = <<a>> \o <<b>> \o <<d>>
    BY <1>1, <1>2, <2>1 DEF Restart
  <2>3. <<a>> \o <<b>> \o <<d>> = <<a, b, d>>
    BY Joins
  <2>4. QED
    BY <2>1, <2>2, <2>3
<1>4. \A i, gen, mode : AddInbound(i, gen, mode) = <<AddStep(i, gen, mode)>>
  BY DEF AddInbound, Step, AddStep
<1>5. \A i, mode : RemoveInbound(i, mode) = <<RemoveStep(i, mode)>>
  BY DEF RemoveInbound, Step, RemoveStep
<1>6. \A c, mode : AddClient(c, mode) = <<AddUser(c, mode)>>
  BY DEF AddClient, Step, AddUser
<1>7. \A c, mode : RemoveClient(c, mode) = <<RemoveUser(c, mode)>>
  BY DEF RemoveClient, Step, RemoveUser
<1>8. Stop = <<StopStep>>
  BY DEF Stop, Step, StopStep
<1>9. QED
  BY <1>2, <1>3, <1>4, <1>5, <1>6, <1>7, <1>8

LEMMA StepFacts ==
    /\ \A i, gen, mode : /\ AddStep(i, gen, mode).do = "addInbound"
                         /\ AddStep(i, gen, mode).i = i /\ AddStep(i, gen, mode).gen = gen
                         /\ AddStep(i, gen, mode).mode = mode
    /\ \A i, mode : /\ RemoveStep(i, mode).do = "removeInbound"
                    /\ RemoveStep(i, mode).i = i /\ RemoveStep(i, mode).mode = mode
    /\ \A c, mode : /\ AddUser(c, mode).do = "addClient" /\ AddUser(c, mode).c = c
                    /\ AddUser(c, mode).i = InboundOf[c] /\ AddUser(c, mode).mode = mode
    /\ \A c, mode : /\ RemoveUser(c, mode).do = "removeClient" /\ RemoveUser(c, mode).c = c
                    /\ RemoveUser(c, mode).i = InboundOf[c] /\ RemoveUser(c, mode).mode = mode
    /\ StopStep.do = "stop" /\ StopStep.mode = "try" /\ StopStep.i = 0
    /\ ApplyStep.do = "apply" /\ ApplyStep.mode = "must"
    /\ \A w : RowStep(w).do = w /\ RowStep(w).mode = "row"
BY DEF AddStep, RemoveStep, AddUser, RemoveUser, StopStep, ApplyStep, RowStep

-----------------------------------------------------------------------------
(* What one step of a goroutine does.                                       *)

Moves(j) ==
    \/ Command(j)
    \/ WriteInbound(j)
    \/ j \in Jobs /\ JobWork(j)
    \/ j = "reconcile" /\ Collect(j)

LEMMA AtStep ==
    ASSUME NEW j, NEW w, At(j, w)
    PROVE  job[j].plan # <<>> /\ Head(job[j].plan) = RowStep(w)
<1>1. Head(Write(w)) = RowStep(w)
  BY Steps, One
<1>2. QED
  BY <1>1 DEF At

Rows == {"off", "error", "revertInbound", "recover"}
ClientRows0 == {"offClient", "onClient", "dropClient", "revertClient"}
Reads == {"last", "reload", "limit"}

LEMMA WhichRow ==
    ASSUME NEW j, NEW x, x = Head(job[j].plan)
    PROVE  /\ WriteInbound(j) => x.mode = "row" /\ x.do \in Rows /\ job[j].plan # <<>>
           /\ WriteClient(j) => x.mode = "row" /\ x.do \in ClientRows0 /\ job[j].plan # <<>>
           /\ Drop(j) => x.mode = "row" /\ x.do = "drop" /\ job[j].plan # <<>>
           /\ Read(j) => x.mode = "row" /\ x.do \in Reads /\ job[j].plan # <<>>
           /\ Collect(j) => x.mode = "row" /\ x.do = "tags" /\ job[j].plan # <<>>
           /\ Command(j) => x.mode # "row" /\ job[j].plan # <<>>
<1>1. \A w : At(j, w) => x.mode = "row" /\ x.do = w /\ job[j].plan # <<>>
  BY AtStep, StepFacts
<1>2. WriteInbound(j) => \E w \in Rows : At(j, w)
  BY DEF WriteInbound, Rows
<1>3. WriteClient(j) => \E w \in ClientRows0 : At(j, w)
  BY DEF WriteClient, ClientRows0
<1>4. Drop(j) => At(j, "drop")
  BY DEF Drop
<1>5. Read(j) => \E w \in Reads : At(j, w)
  BY DEF Read, Reads
<1>6. Collect(j) => At(j, "tags")
  BY DEF Collect
<1>7. Command(j) => x.mode # "row" /\ job[j].plan # <<>>
  BY DEF Command, IsCommand
<1>8. QED
  BY <1>1, <1>2, <1>3, <1>4, <1>5, <1>6, <1>7

LEMMA OnlyCommand ==
    ASSUME NEW j, Moves(j), Head(job[j].plan).mode # "row"
    PROVE  Command(j)
BY WhichRow DEF Moves, JobWork

LEMMA SomeStep == ASSUME NEW j, Moves(j) PROVE job[j].plan # <<>>
BY WhichRow DEF Moves, JobWork

LEMMA OnlyRow ==
    ASSUME NEW j, Moves(j), NEW w, Head(job[j].plan) = RowStep(w)
    PROVE  /\ w \in Rows => WriteInbound(j)
           /\ w \in ClientRows0 => WriteClient(j)
           /\ w = "drop" => Drop(j)
           /\ w \in Reads => Read(j)
           /\ w = "tags" => Collect(j) /\ j = "reconcile"
<1>1. Head(job[j].plan).do = w /\ Head(job[j].plan).mode = "row"
  BY StepFacts
<1>2. \/ WriteInbound(j) /\ w \in Rows
      \/ WriteClient(j) /\ w \in ClientRows0
      \/ Drop(j) /\ w = "drop"
      \/ Read(j) /\ w \in Reads
      \/ Collect(j) /\ j = "reconcile" /\ w = "tags"
  <2>1. PICK x : x = Head(job[j].plan)
    OBVIOUS
  <2>2. /\ WriteInbound(j) => x.do \in Rows
        /\ WriteClient(j) => x.do \in ClientRows0
        /\ Drop(j) => x.do = "drop"
        /\ Read(j) => x.do \in Reads
        /\ Collect(j) => x.do = "tags"
        /\ Command(j) => x.mode # "row"
    BY <2>1, WhichRow
  <2>3. x.do = w /\ x.mode = "row"
    BY <1>1, <2>1
  <2>4. ~ Command(j) /\ (WriteInbound(j) \/ WriteClient(j) \/ Drop(j) \/ Read(j)
                          \/ (Collect(j) /\ j = "reconcile"))
    BY <2>2, <2>3 DEF Moves, JobWork
  <2>5. /\ WriteInbound(j) => w \in Rows
        /\ WriteClient(j) => w \in ClientRows0
        /\ Drop(j) => w = "drop"
        /\ Read(j) => w \in Reads
        /\ Collect(j) => w = "tags"
    BY <2>2, <2>3
  <2>6. QED
    BY <2>4, <2>5, Zenon
<1>3. QED
  BY <1>2 DEF Rows, ClientRows0, Reads

LEMMA AtOnly ==
    ASSUME NEW j, NEW w, Head(job[j].plan) = RowStep(w), NEW v, At(j, v)
    PROVE  v = w
<1>1. RowStep(w).do = w /\ RowStep(v).do = v
  BY StepFacts
<1>2. QED
  BY <1>1, AtStep

LEMMA FallsBack ==
    ASSUME NEW j, NEW x
    PROVE  /\ x.mode # "must" => Fallback(j, x) = Tail(job[j].plan)
           /\ x.mode = "must" => Fallback(j, x) = Remedy(job[j], x)
BY DEF Fallback, After

\* Nobody knows what a command did to inbound i.
Loses(i) ==
    /\ {0, i} \subseteq disturbed' /\ disturbed \subseteq disturbed'
    /\ xray.runs => xray'.runs
    /\ \A k \in Inbounds : k # i => xray'.at[k] = xray.at[k]

Faulted(j, x) == IF x.mode = "must" THEN TRUE ELSE job[j].failed

LEMMA PutLooks ==
    ASSUME xray \in XraySet, NEW i \in Inbounds, NEW a \in Contents, ContentOK(i, a),
           NEW y, y = Put(i, a), NEW z, z = [Put(i, a) EXCEPT !.runs = TRUE]
    PROVE  /\ y.runs <=> xray.runs
           /\ \A k \in Inbounds : y.at[k] = IF k = i THEN a ELSE xray.at[k]
           /\ z.runs
           /\ \A k \in Inbounds : z.at[k] = IF k = i THEN a ELSE xray.at[k]
BY PutFacts

LEMMA AddTurn ==
    ASSUME Types, Kinds, NEW j \in Runners, Moves(j), NEW x, x = Head(job[j].plan),
           x.do = "addInbound", x.mode # "row"
    PROVE  /\ UNCHANGED <<inbound, client>> /\ x.i \in Inbounds
           /\ Content(j, x) \in Contents /\ ContentOK(x.i, Content(j, x))
           /\ \/ /\ ~ Reachable(x.i) /\ xray'.runs /\ Puts(x.i, Content(j, x))
                 /\ disturbed' = disturbed /\ Goes(j, Tail(job[j].plan), job[j].failed)
              \/ /\ Reachable(x.i) /\ xray' = xray
                 /\ disturbed' = IF job[j].op = "enable" THEN disturbed \cup {0, job[j].i}
                                 ELSE disturbed
                 /\ Goes(j, Fallback(j, x), Faulted(j, x))
              \/ NotDone(j, x)
              \/ Loses(x.i) /\ Goes(j, Fallback(j, x), TRUE)
              \/ Restarts(j, x)
<1>1. Command(j)
  BY OnlyCommand
<1>2. /\ JobOK(job[j]) /\ x \in StepsOf(job[j].op)
      /\ UNCHANGED <<inbound, client, online, due, excused>>
      /\ \/ Taken(j, x) \/ Refused(j, x) \/ NotDone(j, x) \/ Unclear(j, x)
         \/ Restarts(j, x)
  BY <1>1, CommandTurn
<1>3. PICK a : a = Content(j, x)
  OBVIOUS
<1>4. x.i \in Inbounds /\ a \in Contents /\ ContentOK(x.i, a)
  BY <1>2, <1>3, ContentGood
<1>5. xray \in XraySet /\ disturbed \in SUBSET All
  BY DEF Kinds
<1>6. /\ \A k \in Inbounds : Put(x.i, a).at[k] = IF k = x.i THEN a ELSE xray.at[k]
      /\ Put(x.i, a).runs <=> xray.runs
      /\ [Put(x.i, a) EXCEPT !.runs = TRUE].runs
      /\ \A k \in Inbounds :
            [Put(x.i, a) EXCEPT !.runs = TRUE].at[k] = IF k = x.i THEN a ELSE xray.at[k]
  <2>1. PICK i \in Inbounds : i = x.i
    BY <1>4
  <2>2. ContentOK(i, a)
    BY <1>4, <2>1
  <2>3. PICK y, z : y = Put(i, a) /\ z = [Put(i, a) EXCEPT !.runs = TRUE]
    OBVIOUS
  <2>4. /\ y.runs <=> xray.runs
        /\ \A k \in Inbounds : y.at[k] = IF k = i THEN a ELSE xray.at[k]
        /\ z.runs
        /\ \A k \in Inbounds : z.at[k] = IF k = i THEN a ELSE xray.at[k]
    <3>1. xray \in XraySet /\ a \in Contents
      BY <1>4, <1>5
    <3>2. QED
      BY <2>2, <2>3, <3>1, PutLooks
  <2>5. QED
    BY <2>1, <2>3, <2>4
<1>7. /\ Reachable(x.i) => Execute(j, x) = Result(FALSE, xray)
      /\ ~ Reachable(x.i) => Execute(j, x) = Result(TRUE, [Put(x.i, a) EXCEPT !.runs = TRUE])
  BY <1>3, Executes
<1>8. PICK y : y = [Put(x.i, a) EXCEPT !.runs = TRUE]
  OBVIOUS
<1>9. /\ Reachable(x.i) => ~ Execute(j, x).ok /\ Execute(j, x).xray = xray
      /\ ~ Reachable(x.i) => Execute(j, x).ok /\ Execute(j, x).xray = y
  BY <1>7, <1>8, ResultFacts
<1>10. y.runs /\ \A k \in Inbounds : y.at[k] = IF k = x.i THEN a ELSE xray.at[k]
  BY <1>6, <1>8
<1>11. CASE Taken(j, x)
  <2>1. ~ Reachable(x.i) /\ xray' = y
    BY <1>9, <1>11 DEF Taken
  <2>2. xray'.runs /\ Puts(x.i, a)
    BY <1>10, <2>1 DEF Puts
  <2>3. disturbed' = disturbed /\ Goes(j, Tail(job[j].plan), job[j].failed)
    BY <1>11 DEF Taken
  <2>4. QED
    BY <1>2, <1>3, <1>4, <2>1, <2>2, <2>3
<1>12. CASE Refused(j, x)
  <2>1. Reachable(x.i) /\ xray' = xray
    BY <1>9, <1>12 DEF Refused
  <2>2. QED
    BY <1>2, <1>3, <1>4, <1>12, <2>1 DEF Refused, Faulted
<1>13. CASE Unclear(j, x)
  <2>1. xray' = xray \/ xray' = y \/ xray' = Put(x.i, a)
    BY <1>3, <1>9, <1>13 DEF Unclear
  <2>2. /\ xray.runs => xray'.runs
        /\ \A k \in Inbounds : k # x.i => xray'.at[k] = xray.at[k]
    BY <1>6, <1>10, <2>1
  <2>3. {0, x.i} \subseteq disturbed' /\ disturbed \subseteq disturbed'
    BY <1>4, <1>5, <1>13 DEF Unclear, All
  <2>4. Loses(x.i) /\ Goes(j, Fallback(j, x), TRUE)
    BY <1>13, <2>2, <2>3 DEF Unclear, Loses
  <2>5. QED
    BY <1>2, <1>3, <1>4, <2>4
<1>14. QED
  BY <1>2, <1>3, <1>4, <1>11, <1>12, <1>13

LEMMA RemoveTurn ==
    ASSUME Types, Kinds, NEW j \in Runners, Moves(j), NEW x, x = Head(job[j].plan),
           x.do = "removeInbound", x.mode \in {"must", "try"}, job[j].op # "enable"
    PROVE  /\ UNCHANGED <<inbound, client>> /\ x.i \in Inbounds
           /\ \/ /\ Reachable(x.i) /\ xray'.runs /\ Puts(x.i, Absent)
                 /\ disturbed' = disturbed /\ Goes(j, Tail(job[j].plan), job[j].failed)
              \/ /\ ~ Reachable(x.i) /\ xray' = xray /\ disturbed' = disturbed
                 /\ Goes(j, Fallback(j, x), Faulted(j, x))
              \/ NotDone(j, x)
              \/ Loses(x.i) /\ Goes(j, Fallback(j, x), TRUE)
<1>1. Command(j)
  BY OnlyCommand
<1>2. /\ JobOK(job[j]) /\ x \in StepsOf(job[j].op)
      /\ UNCHANGED <<inbound, client, online, due, excused>>
      /\ \/ Taken(j, x) \/ Refused(j, x) \/ NotDone(j, x) \/ Unclear(j, x)
         \/ Restarts(j, x)
  BY <1>1, CommandTurn
<1>3. x.i \in Inbounds
  BY <1>2 DEF StepsOf, Sound
<1>4. xray \in XraySet /\ disturbed \in SUBSET All
  BY DEF Kinds
<1>5. PICK y : y = Put(x.i, Absent)
  OBVIOUS
<1>6. /\ \A k \in Inbounds : y.at[k] = IF k = x.i THEN Absent ELSE xray.at[k]
      /\ y.runs <=> xray.runs
  <2>1. PICK i \in Inbounds : i = x.i
    BY <1>3
  <2>1a. PICK a : a = Absent
    OBVIOUS
  <2>2. a \in Contents /\ ContentOK(i, a)
    BY <2>1a, AbsentGood
  <2>3. /\ Put(i, a).runs <=> xray.runs
        /\ \A k \in Inbounds : Put(i, a).at[k] = IF k = i THEN a ELSE xray.at[k]
    BY <1>4, <2>2, PutFacts
  <2>4. y = Put(i, a)
    BY <1>5, <2>1, <2>1a
  <2>5. QED
    BY <2>1, <2>1a, <2>3, <2>4
<1>7. /\ ~ Reachable(x.i) => Execute(j, x) = Result(FALSE, xray)
      /\ Reachable(x.i) => Execute(j, x) = Result(TRUE, y)
  BY <1>5, Executes
<1>8. /\ ~ Reachable(x.i) => ~ Execute(j, x).ok /\ Execute(j, x).xray = xray
      /\ Reachable(x.i) => Execute(j, x).ok /\ Execute(j, x).xray = y
  BY <1>7, ResultFacts
<1>9. CASE Taken(j, x)
  <2>1. Reachable(x.i) /\ xray' = y
    BY <1>8, <1>9 DEF Taken
  <2>2. xray.runs
    BY <2>1 DEF Reachable
  <2>3. xray'.runs /\ Puts(x.i, Absent)
    BY <1>6, <2>1, <2>2 DEF Puts
  <2>4. disturbed' = disturbed /\ Goes(j, Tail(job[j].plan), job[j].failed)
    BY <1>9 DEF Taken
  <2>5. QED
    BY <1>2, <1>3, <2>1, <2>3, <2>4
<1>10. CASE Refused(j, x)
  <2>1. ~ Reachable(x.i) /\ xray' = xray
    BY <1>8, <1>10 DEF Refused
  <2>2. QED
    BY <1>2, <1>3, <1>10, <2>1 DEF Refused, Faulted
<1>11. CASE Unclear(j, x)
  <2>1. xray' = xray \/ xray' = y
    BY <1>8, <1>11 DEF Unclear
  <2>2. /\ xray.runs => xray'.runs
        /\ \A k \in Inbounds : k # x.i => xray'.at[k] = xray.at[k]
    BY <1>6, <2>1
  <2>3. {0, x.i} \subseteq disturbed' /\ disturbed \subseteq disturbed'
    BY <1>3, <1>4, <1>11 DEF Unclear, All
  <2>4. Loses(x.i) /\ Goes(j, Fallback(j, x), TRUE)
    BY <1>11, <2>2, <2>3 DEF Unclear, Loses
  <2>5. QED
    BY <1>2, <1>3, <2>4
<1>12. ~ Restarts(j, x)
  BY DEF Restarts
<1>13. QED
  BY <1>2, <1>3, <1>9, <1>10, <1>11, <1>12

LEMMA StopTurn ==
    ASSUME Types, Kinds, NEW j \in Runners, Moves(j), Head(job[j].plan) = StopStep,
           job[j].op # "enable"
    PROVE  /\ UNCHANGED <<inbound, client>> /\ xray'.at = xray.at
           /\ \/ /\ ~ xray'.runs /\ disturbed' = disturbed
                 /\ Goes(j, Tail(job[j].plan), job[j].failed)
              \/ /\ 0 \in disturbed' /\ disturbed \subseteq disturbed'
                 /\ Goes(j, Tail(job[j].plan), TRUE)
<1>1. PICK x : x = StopStep
  OBVIOUS
<1>2. x.do = "stop" /\ x.mode = "try" /\ x.i = 0 /\ x = Head(job[j].plan)
  BY <1>1, StepFacts
<1>3. Command(j)
  BY <1>2, OnlyCommand
<1>4. /\ UNCHANGED <<inbound, client, online, due, excused>>
      /\ \/ Taken(j, x) \/ Refused(j, x) \/ NotDone(j, x) \/ Unclear(j, x)
         \/ Restarts(j, x)
  BY <1>2, <1>3, CommandTurn
<1>5. xray \in XraySet /\ disturbed \in SUBSET All
  BY DEF Kinds
<1>6. PICK y : y = [xray EXCEPT !.runs = FALSE]
  OBVIOUS
<1>7. ~ y.runs /\ y.at = xray.at
  BY <1>5, <1>6, StopFacts
<1>8. Execute(j, x) = Result(TRUE, y)
  BY <1>2, <1>6, Executes
<1>9. Execute(j, x).ok /\ Execute(j, x).xray = y
  BY <1>8, ResultFacts
<1>10. Fallback(j, x) = Tail(job[j].plan)
  BY <1>2, FallsBack
<1>11. ~ Refused(j, x) /\ ~ NotDone(j, x) /\ ~ Restarts(j, x)
  BY <1>2, <1>9 DEF Refused, NotDone, Restarts
<1>12. CASE Taken(j, x)
  BY <1>4, <1>7, <1>9, <1>12 DEF Taken
<1>13. CASE Unclear(j, x)
  <2>1. xray' = xray \/ xray' = y
    BY <1>2, <1>9, <1>13 DEF Unclear
  <2>2. 0 \in disturbed' /\ disturbed \subseteq disturbed'
    BY <1>5, <1>13 DEF Unclear, All
  <2>3. Goes(j, Tail(job[j].plan), TRUE)
    BY <1>10, <1>13 DEF Unclear
  <2>4. QED
    BY <1>4, <1>7, <2>1, <2>2, <2>3
<1>14. QED
  BY <1>4, <1>11, <1>12, <1>13

LEMMA ApplyTurn ==
    ASSUME Types, Kinds, NEW j \in Runners, Moves(j), Head(job[j].plan) = ApplyStep,
           job[j].op # "enable"
    PROVE  /\ UNCHANGED <<inbound, client>>
           /\ \/ /\ xray'.runs /\ xray'.at = job[j].all /\ disturbed' = disturbed
                 /\ Goes(j, Tail(job[j].plan), job[j].failed)
              \/ /\ xray' = xray /\ disturbed' = disturbed
                 /\ Goes(j, Remedy(job[j], ApplyStep), TRUE)
              \/ disturbed' = All /\ Goes(j, Remedy(job[j], ApplyStep), TRUE)
<1>1. PICK x : x = ApplyStep
  OBVIOUS
<1>2. x.do = "apply" /\ x.mode = "must" /\ x = Head(job[j].plan)
  BY <1>1, StepFacts
<1>3. Command(j)
  BY <1>2, OnlyCommand
<1>4. /\ UNCHANGED <<inbound, client, online, due, excused>>
      /\ \/ Taken(j, x) \/ Refused(j, x) \/ NotDone(j, x) \/ Unclear(j, x)
         \/ Restarts(j, x)
  BY <1>2, <1>3, CommandTurn
<1>5. Execute(j, x) = Result(TRUE, [runs |-> TRUE, at |-> job[j].all])
  BY <1>2, Executes
<1>6. Execute(j, x).ok /\ Execute(j, x).xray.runs /\ Execute(j, x).xray.at = job[j].all
  <2>1. PICK y : y = [runs |-> TRUE, at |-> job[j].all]
    OBVIOUS
  <2>2. y.runs /\ y.at = job[j].all
    BY <2>1
  <2>3. Execute(j, x).ok /\ Execute(j, x).xray = y
    BY <1>5, <2>1, ResultFacts
  <2>4. QED
    BY <2>2, <2>3
<1>7. Fallback(j, x) = Remedy(job[j], ApplyStep)
  BY <1>1, <1>2, FallsBack
<1>8. ~ Refused(j, x) /\ ~ Restarts(j, x)
  BY <1>2, <1>6 DEF Refused, Restarts
<1>9. CASE Taken(j, x)
  BY <1>4, <1>6, <1>9 DEF Taken
<1>10. CASE NotDone(j, x)
  BY <1>4, <1>7, <1>10 DEF NotDone
<1>11. CASE Unclear(j, x)
  BY <1>2, <1>4, <1>7, <1>11 DEF Unclear
<1>12. QED
  BY <1>4, <1>8, <1>9, <1>10, <1>11

LEMMA Nexts ==
    ASSUME Types, NEW j \in Runners, NEW w, At(j, w)
    PROVE  /\ Next1(j) => Goes(j, Tail(job[j].plan), job[j].failed)
           /\ \A p : Instead(j, p) => Goes(j, p \o Tail(job[j].plan), job[j].failed)
<1>1. job[j].plan # <<>>
  BY AtStep
<1>2. Next1(j) => job' = [job EXCEPT ![j].plan = Tail(job[j].plan)]
  BY DEF Next1
<1>3. ASSUME NEW p, Instead(j, p)
      PROVE  Goes(j, p \o Tail(job[j].plan), job[j].failed)
  <2>1. job' = [job EXCEPT ![j].plan = p \o Tail(job[j].plan)]
    BY <1>3 DEF Instead
  <2>2. PICK q : q = p \o Tail(job[j].plan)
    OBVIOUS
  <2>3. QED
    BY <1>1, <2>1, <2>2, GoesOn
<1>4. Next1(j) => Goes(j, Tail(job[j].plan), job[j].failed)
  <2>1. PICK q : q = Tail(job[j].plan)
    OBVIOUS
  <2>2. QED
    BY <1>1, <1>2, <2>1, GoesOn
<1>5. QED
  BY <1>3, <1>4

LEMMA RowsTurn ==
    ASSUME Types, NEW j \in Runners, Moves(j), NEW w \in Rows, Head(job[j].plan) = RowStep(w)
    PROVE  /\ UNCHANGED <<client, xray, disturbed>>
           /\ Goes(j, Tail(job[j].plan), job[j].failed)
           /\ w = "off" => SetInbound(job[j].i, "off")
           /\ w = "error" => SetInbound(job[j].i, "error")
           /\ w = "revertInbound" => inbound' = [inbound EXCEPT ![job[j].i] = job[j].inbound]
           /\ w = "recover" =>
                 inbound' = [k \in Inbounds |-> IF inbound[k].enable = "error"
                                                THEN [inbound[k] EXCEPT !.enable = "on"]
                                                ELSE inbound[k]]
<1>1. WriteInbound(j)
  BY OnlyRow
<1>2. /\ UNCHANGED <<client, xray, disturbed>> /\ Next1(j)
      /\ \/ At(j, "off") /\ SetInbound(job[j].i, "off")
         \/ At(j, "error") /\ SetInbound(job[j].i, "error")
         \/ At(j, "revertInbound") /\ inbound' = [inbound EXCEPT ![job[j].i] = job[j].inbound]
         \/ /\ At(j, "recover")
            /\ inbound' = [k \in Inbounds |-> IF inbound[k].enable = "error"
                                              THEN [inbound[k] EXCEPT !.enable = "on"]
                                              ELSE inbound[k]]
  BY <1>1 DEF WriteInbound
<1>3. \A v : At(j, v) => v = w
  BY AtOnly
<1>4. Goes(j, Tail(job[j].plan), job[j].failed)
  BY <1>2, Nexts
<1>5. QED
  BY <1>2, <1>3, <1>4

LEMMA ClientsTurn ==
    ASSUME Types, NEW j \in Runners, Moves(j), NEW w \in ClientRows0,
           Head(job[j].plan) = RowStep(w)
    PROVE  /\ UNCHANGED <<inbound, xray>>
           /\ disturbed' = IF job[j].want = "offline" THEN disturbed \cup {job[j].i}
                           ELSE disturbed
           /\ Goes(j, Tail(job[j].plan), job[j].failed)
           /\ w = "offClient" => SetClient(job[j].c, "off")
           /\ w = "onClient" => SetClient(job[j].c, "on")
           /\ w = "dropClient" => client' = [client EXCEPT ![job[j].c] = NoClient]
           /\ w = "revertClient" => client' = [client EXCEPT ![job[j].c] = job[j].client]
<1>1. WriteClient(j)
  BY OnlyRow
<1>2. /\ UNCHANGED <<inbound, xray>> /\ Next1(j)
      /\ disturbed' = IF job[j].want = "offline" THEN disturbed \cup {job[j].i} ELSE disturbed
      /\ \/ At(j, "offClient") /\ SetClient(job[j].c, "off")
         \/ At(j, "onClient") /\ SetClient(job[j].c, "on")
         \/ At(j, "dropClient") /\ client' = [client EXCEPT ![job[j].c] = NoClient]
         \/ At(j, "revertClient") /\ client' = [client EXCEPT ![job[j].c] = job[j].client]
  BY <1>1 DEF WriteClient
<1>3. \A v : At(j, v) => v = w
  BY AtOnly
<1>4. Goes(j, Tail(job[j].plan), job[j].failed)
  BY <1>2, Nexts
<1>5. QED
  BY <1>2, <1>3, <1>4

LEMMA DropTurn ==
    ASSUME Types, NEW j \in Runners, Moves(j), Head(job[j].plan) = RowStep("drop")
    PROVE  /\ xray' = xray
           /\ inbound' = [inbound EXCEPT ![job[j].i] = Gone]
           /\ client' = [c \in Clients |-> IF InboundOf[c] = job[j].i THEN NoClient
                                           ELSE client[c]]
           /\ disturbed' = IF job[j].want = "offline" THEN disturbed \cup {0, job[j].i}
                           ELSE disturbed
           /\ Goes(j, Tail(job[j].plan), job[j].failed)
<1>1. Drop(j)
  BY OnlyRow
<1>2. At(j, "drop") /\ Next1(j)
  BY <1>1 DEF Drop
<1>3. Goes(j, Tail(job[j].plan), job[j].failed)
  BY <1>2, Nexts
<1>4. QED
  BY <1>1, <1>3 DEF Drop

LEMMA ReadsTurn ==
    ASSUME Types, NEW j \in Runners, Moves(j), NEW w \in Reads, Head(job[j].plan) = RowStep(w),
           NEW tail, tail = Tail(job[j].plan), NEW f, f = job[j].failed
    PROVE  /\ UNCHANGED <<inbound, xray, disturbed>>
           /\ w = "last" => /\ client' = client
                            /\ Goes(j, (IF Enabled = {} THEN Stop ELSE <<>>) \o tail, f)
           /\ w = "reload" =>
                 /\ client' = client
                 /\ Goes(j, (IF (IF HasRow(job[j].c) THEN client[job[j].c].enable
                                 ELSE job[j].want) = "on"
                             THEN AddClient(job[j].c, "must") ELSE <<>>) \o tail, f)
           /\ w = "limit" =>
                 \/ /\ client[job[j].c].enable = "on" /\ SetClient(job[j].c, "off")
                    /\ Goes(j, RemoveClient(job[j].c, "try") \o tail, f)
                 \/ client' = client /\ Goes(j, tail, f)
<1>1. Read(j)
  BY OnlyRow
<1>2. \A v : At(j, v) => v = w
  BY AtOnly
<1>3. /\ UNCHANGED <<inbound, xray, disturbed>>
      /\ \/ /\ At(j, "last")
            /\ Instead(j, IF Enabled = {} THEN Stop ELSE <<>>)
            /\ client' = client
         \/ /\ At(j, "reload")
            /\ Instead(j, IF (IF HasRow(job[j].c) THEN client[job[j].c].enable
                              ELSE job[j].want) = "on"
                          THEN AddClient(job[j].c, "must") ELSE <<>>)
            /\ client' = client
         \/ /\ At(j, "limit")
            /\ \/ /\ client[job[j].c].enable = "on" /\ SetClient(job[j].c, "off")
                  /\ Instead(j, RemoveClient(job[j].c, "try"))
               \/ Next1(j) /\ client' = client
  BY <1>1 DEF Read
<1>4. ASSUME NEW v, At(j, v)
      PROVE  /\ Next1(j) => Goes(j, tail, f)
             /\ \A p : Instead(j, p) => Goes(j, p \o tail, f)
  BY <1>4, Nexts
<1>5. CASE At(j, "last")
  BY <1>2, <1>3, <1>4, <1>5
<1>6. CASE At(j, "reload")
  BY <1>2, <1>3, <1>4, <1>6
<1>7. CASE At(j, "limit")
  BY <1>2, <1>3, <1>4, <1>7
<1>8. QED
  BY <1>3, <1>5, <1>6, <1>7

Cleanup(s) == [n \in DOMAIN s |-> Head(RemoveInbound(s[n], "try"))]
LEMMA TagsTurn ==
    ASSUME Types, NEW j \in Runners, Moves(j), Head(job[j].plan) = RowStep("tags")
    PROVE  /\ UNCHANGED <<inbound, client, xray, disturbed>>
           /\ \/ Goes(j, Tail(job[j].plan), TRUE)
              \/ \E s \in Orders(Orphans) :
                    Goes(j, Cleanup(s) \o Tail(job[j].plan), job[j].failed)
<1>1. Collect(j)
  BY OnlyRow
<1>2. At(j, "tags") /\ UNCHANGED <<inbound, client, xray, disturbed>>
  BY <1>1 DEF Collect
<1>3. JobOK(job[j]) /\ job[j].op # "idle"
  BY <1>2, AtStep, BusyHasOp
<1>4. CASE job' = [job EXCEPT ![j].plan = Tail(@), ![j].failed = TRUE]
  <2>1. PICK g : /\ job' = [job EXCEPT ![j] = g] /\ Same(job[j], g)
                 /\ g.plan = Tail(job[j].plan) /\ g.failed = TRUE
    BY <1>3, <1>4, PlanFails
  <2>2. Goes(j, g.plan, g.failed)
    BY <2>1, GoesWith
  <2>3. QED
    BY <1>2, <2>1, <2>2
<1>5. CASE \E s \in Orders(Orphans) :
              Instead(j, [n \in DOMAIN s |-> Head(RemoveInbound(s[n], "try"))])
  <2>1. PICK s \in Orders(Orphans) : Instead(j, Cleanup(s))
    BY <1>5 DEF Cleanup
  <2>2. Goes(j, Cleanup(s) \o Tail(job[j].plan), job[j].failed)
    BY <1>2, <2>1, Nexts
  <2>3. QED
    BY <1>2, <2>1, <2>2
<1>6. QED
  BY <1>1, <1>4, <1>5 DEF Collect

LEMMA UserPut ==
    ASSUME xray \in XraySet, NEW i \in Inbounds, Reachable(i), NEW us \in SUBSET ClientsOf(i),
           NEW y, y = Put(i, [xray.at[i] EXCEPT !.users = us])
    PROVE  /\ y.runs
           /\ \A k \in Inbounds : y.at[k] = IF k = i THEN [gen |-> xray.at[i].gen, users |-> us]
                                            ELSE xray.at[k]
<1>1. xray.runs /\ xray.at[i] # Absent
  BY DEF Reachable
<1>2. PICK a : a = [xray.at[i] EXCEPT !.users = us]
  OBVIOUS
<1>3. a = [gen |-> xray.at[i].gen, users |-> us]
  BY <1>1, <1>2, UsersGood
<1>8. a \in Contents
  BY <1>1, <1>3, UsersGood
<1>9. ContentOK(i, a)
  BY <1>1, <1>3, UsersGood
<1>4. y = Put(i, a)
  BY <1>2
<1>5. PICK w, z : w = Put(i, a) /\ z = [Put(i, a) EXCEPT !.runs = TRUE]
  OBVIOUS
<1>6. /\ w.runs <=> xray.runs
      /\ \A k \in Inbounds : w.at[k] = IF k = i THEN a ELSE xray.at[k]
      /\ z.runs
      /\ \A k \in Inbounds : z.at[k] = IF k = i THEN a ELSE xray.at[k]
  <2>1. w = Put(i, a) /\ z = [Put(i, a) EXCEPT !.runs = TRUE]
    BY <1>5
  <2>2. a \in Contents /\ ContentOK(i, a)
    BY <1>8, <1>9
  <2>3. QED
    BY <2>1, <2>2, PutLooks
<1>7. QED
  BY <1>1, <1>3, <1>4, <1>5, <1>6

LEMMA UserTurn ==
    ASSUME Types, Kinds, NEW j \in Runners, Moves(j), NEW x, x = Head(job[j].plan),
           x.do \in {"addClient", "removeClient"}, x.mode \in {"must", "try"},
           job[j].op # "enable",
           NEW here, here = xray.at[x.i]
    PROVE  /\ UNCHANGED <<inbound, client>>
           /\ x.c \in Clients /\ x.i = InboundOf[x.c] /\ x.i \in Inbounds
           /\ \/ /\ Reachable(x.i) /\ xray'.runs
                 /\ x.do = "addClient" =>
                       Puts(x.i, [gen |-> here.gen, users |-> here.users \cup {x.c}])
                 /\ x.do = "removeClient" =>
                       Puts(x.i, [gen |-> here.gen, users |-> here.users \ {x.c}])
                 /\ disturbed' = disturbed /\ Goes(j, Tail(job[j].plan), job[j].failed)
              \/ /\ Reachable(x.i) /\ x.do = "addClient" /\ x.c \in here.users /\ xray'.runs
                 /\ Puts(x.i, [gen |-> here.gen, users |-> here.users \ {x.c}])
                 /\ disturbed' = disturbed /\ Goes(j, Fallback(j, x), Faulted(j, x))
              \/ /\ ~ Reachable(x.i) /\ xray' = xray /\ disturbed' = disturbed
                 /\ Goes(j, Fallback(j, x), Faulted(j, x))
              \/ NotDone(j, x)
              \/ Loses(x.i) /\ Goes(j, Fallback(j, x), TRUE)
<1>1. Command(j)
  BY OnlyCommand
<1>2. /\ JobOK(job[j]) /\ x \in StepsOf(job[j].op)
      /\ UNCHANGED <<inbound, client, online, due, excused>>
      /\ \/ Taken(j, x) \/ Refused(j, x) \/ NotDone(j, x) \/ Unclear(j, x)
         \/ Restarts(j, x)
  BY <1>1, CommandTurn
<1>3. x.c \in Clients /\ x.i = InboundOf[x.c] /\ x.i \in Inbounds /\ x.c \in ClientsOf(x.i)
  <2>1. x.c \in Clients /\ x.i = InboundOf[x.c]
    BY <1>2 DEF StepsOf, Sound
  <2>2. InboundOf[x.c] \in Inbounds
    BY <2>1, PanelAssumption
  <2>3. QED
    BY <2>1, <2>2 DEF ClientsOf
<1>4. xray \in XraySet
  BY DEF Kinds
<1>5. disturbed \in SUBSET All
  BY DEF Kinds
<1>6. PICK us : us = here.users
  OBVIOUS
<1>7. ASSUME Reachable(x.i)
      PROVE  us \ {x.c} \in SUBSET ClientsOf(x.i) /\ us \cup {x.c} \in SUBSET ClientsOf(x.i)
  <2>1. xray.at[x.i] # Absent
    BY <1>7 DEF Reachable
  <2>2. {} \in SUBSET ClientsOf(x.i)
    OBVIOUS
  <2>3. xray.at[x.i].users \subseteq ClientsOf(x.i)
    BY <1>3, <1>4, <2>1, <2>2, UsersGood
  <2>4. QED
    BY <1>3, <1>6, <2>3
<1>8. PICK less, more : /\ less = Put(x.i, [here EXCEPT !.users = us \ {x.c}])
                        /\ more = Put(x.i, [here EXCEPT !.users = us \cup {x.c}])
  OBVIOUS
<1>9. ASSUME Reachable(x.i)
      PROVE  /\ less.runs
             /\ \A k \in Inbounds :
                   less.at[k] = IF k = x.i THEN [gen |-> here.gen, users |-> us \ {x.c}]
                                ELSE xray.at[k]
  <2>1. PICK i \in Inbounds : i = x.i
    BY <1>3
  <2>2. PICK u : u = us \ {x.c}
    OBVIOUS
  <2>3. u \in SUBSET ClientsOf(i) /\ Reachable(i)
    BY <1>7, <1>9, <2>1, <2>2
  <2>4. less = Put(i, [xray.at[i] EXCEPT !.users = u])
    BY <1>8, <2>1, <2>2
  <2>5. /\ less.runs
        /\ \A k \in Inbounds : less.at[k] = IF k = i THEN [gen |-> xray.at[i].gen, users |-> u]
                                         ELSE xray.at[k]
    BY <1>4, <2>3, <2>4, UserPut
  <2>6. QED
    BY <2>1, <2>2, <2>5
<1>10. ASSUME Reachable(x.i)
       PROVE  /\ more.runs
              /\ \A k \in Inbounds :
                    more.at[k] = IF k = x.i THEN [gen |-> here.gen, users |-> us \cup {x.c}]
                                 ELSE xray.at[k]
  <2>1. PICK i \in Inbounds : i = x.i
    BY <1>3
  <2>2. PICK u : u = us \cup {x.c}
    OBVIOUS
  <2>3. u \in SUBSET ClientsOf(i) /\ Reachable(i)
    BY <1>7, <1>10, <2>1, <2>2
  <2>4. more = Put(i, [xray.at[i] EXCEPT !.users = u])
    BY <1>8, <2>1, <2>2
  <2>5. /\ more.runs
        /\ \A k \in Inbounds : more.at[k] = IF k = i THEN [gen |-> xray.at[i].gen, users |-> u]
                                         ELSE xray.at[k]
    BY <1>4, <2>3, <2>4, UserPut
  <2>6. QED
    BY <2>1, <2>2, <2>5
<1>11. /\ ~ Reachable(x.i) => ~ Execute(j, x).ok /\ Execute(j, x).xray = xray
       /\ x.do = "removeClient" /\ Reachable(x.i) =>
             Execute(j, x).ok /\ Execute(j, x).xray = less
       /\ x.do = "addClient" /\ Reachable(x.i) /\ x.c \in us =>
             ~ Execute(j, x).ok /\ Execute(j, x).xray = less
       /\ x.do = "addClient" /\ Reachable(x.i) /\ x.c \notin us =>
             Execute(j, x).ok /\ Execute(j, x).xray = more
  <2>1. ~ Reachable(x.i) => Execute(j, x) = Result(FALSE, xray)
    BY Executes
  <2>2. /\ less = Put(x.i, [xray.at[x.i] EXCEPT !.users = @ \ {x.c}])
        /\ more = Put(x.i, [xray.at[x.i] EXCEPT !.users = @ \cup {x.c}])
    BY <1>6, <1>8
  <2>3. x.do = "removeClient" /\ Reachable(x.i) => Execute(j, x) = Result(TRUE, less)
    BY <2>2, Executes
  <2>4. x.do = "addClient" /\ Reachable(x.i) /\ x.c \in us => Execute(j, x) = Result(FALSE, less)
    <3>1. x.do = "addClient" /\ Reachable(x.i) /\ x.c \in xray.at[x.i].users =>
             Execute(j, x) =
                Result(FALSE, Put(x.i, [xray.at[x.i] EXCEPT !.users = @ \ {x.c}]))
      BY Executes
    <3>2. QED
      BY <1>6, <2>2, <3>1
  <2>5. x.do = "addClient" /\ Reachable(x.i) /\ x.c \notin us => Execute(j, x) = Result(TRUE, more)
    <3>1. x.do = "addClient" /\ Reachable(x.i) /\ x.c \notin xray.at[x.i].users =>
             Execute(j, x) =
                Result(TRUE, Put(x.i, [xray.at[x.i] EXCEPT !.users = @ \cup {x.c}]))
      BY Executes
    <3>2. QED
      BY <1>6, <2>2, <3>1
  <2>6. QED
    BY <2>1, <2>3, <2>4, <2>5, ResultFacts
<1>12. CASE Taken(j, x)
  <2>1. disturbed' = disturbed /\ Goes(j, Tail(job[j].plan), job[j].failed)
    BY <1>12 DEF Taken
  <2>2. Reachable(x.i) /\ xray' = IF x.do = "addClient" THEN more ELSE less
    BY <1>11, <1>12 DEF Taken
  <2>3. /\ xray'.runs
        /\ x.do = "addClient" =>
              Puts(x.i, [gen |-> here.gen, users |-> here.users \cup {x.c}])
        /\ x.do = "removeClient" =>
              Puts(x.i, [gen |-> here.gen, users |-> here.users \ {x.c}])
    BY <1>6, <1>9, <1>10, <2>2 DEF Puts
  <2>4. QED
    BY <1>2, <1>3, <2>1, <2>2, <2>3
<1>13. CASE Refused(j, x)
  <2>1. /\ disturbed' = disturbed /\ Goes(j, Fallback(j, x), Faulted(j, x))
        /\ xray' = Execute(j, x).xray /\ ~ Execute(j, x).ok
    BY <1>13 DEF Refused, Faulted
  <2>2. CASE ~ Reachable(x.i)
    BY <1>2, <1>3, <1>11, <2>1, <2>2
  <2>3. CASE Reachable(x.i)
    <3>1. x.do = "addClient" /\ x.c \in us /\ xray' = less
      BY <1>11, <2>1, <2>3
    <3>2. xray'.runs /\ Puts(x.i, [gen |-> here.gen, users |-> here.users \ {x.c}])
      BY <1>6, <1>9, <2>3, <3>1 DEF Puts
    <3>3. QED
      BY <1>2, <1>3, <1>6, <2>1, <2>3, <3>1, <3>2
  <2>4. QED
    BY <2>2, <2>3
<1>14. CASE Unclear(j, x)
  <2>1. xray' = xray \/ (Reachable(x.i) /\ (xray' = less \/ xray' = more))
    BY <1>11, <1>14 DEF Unclear
  <2>2. /\ xray.runs => xray'.runs
        /\ \A k \in Inbounds : k # x.i => xray'.at[k] = xray.at[k]
    BY <1>9, <1>10, <2>1
  <2>3. {0, x.i} \subseteq disturbed' /\ disturbed \subseteq disturbed'
    BY <1>3, <1>5, <1>14 DEF Unclear, All
  <2>4. Loses(x.i) /\ Goes(j, Fallback(j, x), TRUE)
    BY <1>14, <2>2, <2>3 DEF Unclear, Loses
  <2>5. QED
    BY <1>2, <1>3, <2>4
<1>15. ~ Restarts(j, x)
  BY DEF Restarts
<1>16. QED
  BY <1>2, <1>3, <1>12, <1>13, <1>14, <1>15

-----------------------------------------------------------------------------
(* What a step leaves as it is.                                             *)

\* Only inbound i, its row, and its clients are other than they were.
About(i) ==
    /\ \A k \in Inbounds : k # i => inbound'[k] = inbound[k] /\ xray'.at[k] = xray.at[k]
    /\ \A c \in Clients : InboundOf[c] # i => client'[c].enable = client[c].enable
    /\ disturbed \subseteq disturbed'
    /\ xray.runs => xray'.runs

LEMMA MergedKept ==
    ASSUME NEW k, \A c \in Clients : InboundOf[c] = k => client'[c].enable = client[c].enable
    PROVE  \A gen : Merged(k, gen)' = Merged(k, gen)
BY DEF Merged, ClientsOf

LEMMA SparedKept ==
    ASSUME NEW i, Spared(i), About(i)
    PROVE  Spared(i)'
<1> SUFFICES ASSUME NEW k \in Inbounds, k # i, Known(k)' PROVE Agree(k)'
  BY DEF Spared
<1>1. Known(k) /\ Agree(k)
  BY DEF Spared, About, Known
<1>2. inbound'[k] = inbound[k] /\ xray'.at[k] = xray.at[k] /\ (xray.runs => xray'.runs)
  BY DEF About
<1>3. \A gen : Merged(k, gen)' = Merged(k, gen)
  BY MergedKept DEF About
<1>4. QED
  BY <1>1, <1>2, <1>3 DEF Agree

\* Without an enabled inbound Xray may stop.
LEMMA SparedStopped ==
    ASSUME NEW i, Spared(i), Enabled = {}, inbound' = inbound, xray'.at = xray.at,
           disturbed \subseteq disturbed'
    PROVE  Spared(i)'
<1> SUFFICES ASSUME NEW k \in Inbounds, k # i, Known(k)' PROVE Agree(k)'
  BY DEF Spared
<1>1. Known(k) /\ Agree(k) /\ inbound[k].enable # "on"
  BY DEF Spared, Known, Enabled
<1>2. QED
  BY <1>1 DEF Agree

LEMMA SparedIsKept == ASSUME NEW i \in Inbounds PROVE Kept <=> Spared(i) /\ (Known(i) => Agree(i))
BY DEF Kept, Spared

LEMMA AgreeHeld == \A i : Agree(i) <=> Held(i, inbound[i])
BY DEF Agree, Held, Serves

LEMMA EnabledKept ==
    ASSUME \A k \in Inbounds : inbound'[k].enable = "on" <=> inbound[k].enable = "on"
    PROVE  Enabled' = Enabled
BY DEF Enabled

LEMMA QuietKept ==
    ASSUME Quiet, Enabled' = Enabled, disturbed \subseteq disturbed', xray'.runs <=> xray.runs
    PROVE  Quiet'
BY DEF Quiet

\* Users of one inbound.
LEMMA MergedUsers ==
    ASSUME NEW c \in Clients, NEW gen
    PROVE  Merged(InboundOf[c], gen) = [gen |-> gen, users |-> With(c, On(c))]
BY DEF Merged, With, On

LEMMA AgreeUser ==
    ASSUME NEW c \in Clients
    PROVE  User(c, On(c)) <=> (Known(InboundOf[c]) => Agree(InboundOf[c]))
BY MergedUsers DEF User, Agree, Serves

\* A row of a client that is written.
WritesClient(c) ==
    /\ UNCHANGED <<inbound, xray>> /\ disturbed \subseteq disturbed'
    /\ \A d \in Clients : d # c => client'[d].enable = client[d].enable

LEMMA UserKept ==
    ASSUME NEW c \in Clients, NEW b, User(c, b), WritesClient(c)
    PROVE  User(c, b)'
<1>1. With(c, b)' = With(c, b)
  BY DEF With, On, WritesClient, ClientsOf
<1>2. Known(InboundOf[c])' => Known(InboundOf[c])
  BY DEF Known, WritesClient
<1>3. inbound' = inbound /\ xray' = xray
  BY DEF WritesClient
<1>4. QED
  BY <1>1, <1>2, <1>3 DEF User, Serves

LEMMA ClientWriteFrame ==
    ASSUME NEW c \in Clients, WritesClient(c), Spared(InboundOf[c]), Quiet
    PROVE  Spared(InboundOf[c])' /\ Quiet'
<1>1. About(InboundOf[c])
  BY DEF About, WritesClient
<1>2. Quiet'
  BY DEF Quiet, Enabled, WritesClient
<1>3. QED
  BY <1>1, <1>2, SparedKept

\* Nobody is known to be wrong where nothing is known.
LEMMA Unknown ==
    ASSUME NEW c, ~ Known(InboundOf[c])
    PROVE  \A b : User(c, b)
BY DEF User

\* Where the inbound is not served, its users do not matter.
LEMMA NotServed ==
    ASSUME Types, NEW c \in Clients, NEW b, User(c, b), ~ Reachable(InboundOf[c])
    PROVE  \A d : User(c, d)
<1>1. PICK i \in Inbounds : i = InboundOf[c]
  BY PanelAssumption
<1>2. CASE ~ Known(i)
  BY <1>1, <1>2, Unknown
<1>3. CASE Known(i) /\ inbound[i].enable = "on"
  <2>1. inbound[i].gen \in 1..MaxGen[i]
    BY <1>3, InboundRows DEF Types, Exists
  <2>2. PICK a : a = [gen |-> inbound[i].gen, users |-> With(c, b)]
    OBVIOUS
  <2>3. xray.runs /\ xray.at[i] = a
    BY <1>1, <1>3, <2>2 DEF User, Serves
  <2>4. a.gen # 0
    <3>1. MaxGen[i] \in Nat
      BY Bounds
    <3>2. QED
      BY <2>1, <2>2, <3>1
  <2>5. xray.at[i] # Absent
    BY <2>3, <2>4, AbsentGood
  <2>6. QED
    BY <1>1, <2>3, <2>5 DEF Reachable
<1>4. CASE Known(i) /\ inbound[i].enable # "on"
  BY <1>1, <1>4 DEF User
<1>5. QED
  BY <1>2, <1>3, <1>4

LEMMA RemoveUserTurn ==
    ASSUME Types, Kinds, NEW j \in Runners, Moves(j), NEW c \in Clients,
           NEW mode \in {"must", "try"}, NEW x, x = RemoveUser(c, mode),
           x = Head(job[j].plan), job[j].op # "enable",
           NEW b \in BOOLEAN, User(c, b), Spared(InboundOf[c]), Quiet
    PROVE  /\ UNCHANGED <<inbound, client>>
           /\ Spared(InboundOf[c])' /\ Quiet'
           /\ \/ Goes(j, Tail(job[j].plan), job[j].failed) /\ User(c, FALSE)'
              \/ /\ \E f : Goes(j, Fallback(j, x), f)
                 /\ User(c, b)' /\ (mode = "try" => User(c, FALSE)')
<1>1. x.do = "removeClient" /\ x.c = c /\ x.mode = mode
  <2>1. /\ RemoveUser(c, mode).do = "removeClient" /\ RemoveUser(c, mode).c = c
        /\ RemoveUser(c, mode).mode = mode
    BY DEF RemoveUser
  <2>2. QED
    BY <2>1
<1>2. PICK here : here = xray.at[x.i]
  OBVIOUS
<1>3. /\ UNCHANGED <<inbound, client>>
      /\ x.c \in Clients /\ x.i = InboundOf[x.c] /\ x.i \in Inbounds
      /\ \/ /\ Reachable(x.i) /\ xray'.runs
            /\ x.do = "addClient" =>
                  Puts(x.i, [gen |-> here.gen, users |-> here.users \cup {x.c}])
            /\ x.do = "removeClient" =>
                  Puts(x.i, [gen |-> here.gen, users |-> here.users \ {x.c}])
            /\ disturbed' = disturbed /\ Goes(j, Tail(job[j].plan), job[j].failed)
         \/ /\ Reachable(x.i) /\ x.do = "addClient" /\ x.c \in here.users /\ xray'.runs
            /\ Puts(x.i, [gen |-> here.gen, users |-> here.users \ {x.c}])
            /\ disturbed' = disturbed /\ Goes(j, Fallback(j, x), Faulted(j, x))
         \/ /\ ~ Reachable(x.i) /\ xray' = xray /\ disturbed' = disturbed
            /\ Goes(j, Fallback(j, x), Faulted(j, x))
         \/ NotDone(j, x)
         \/ Loses(x.i) /\ Goes(j, Fallback(j, x), TRUE)
  BY <1>1, <1>2, UserTurn
<1>4. PICK i \in Inbounds : i = InboundOf[c] /\ x.i = i
  BY <1>1, <1>3
<1>5. Enabled' = Enabled /\ \A gen, k : Merged(k, gen)' = Merged(k, gen)
  BY <1>3, MergedKept DEF Enabled
<1>6. \A d : With(c, d)' = With(c, d)
  BY <1>3 DEF With, On
<1>7. CASE /\ Reachable(i) /\ xray'.runs
           /\ Puts(i, [gen |-> here.gen, users |-> here.users \ {c}])
           /\ disturbed' = disturbed /\ Goes(j, Tail(job[j].plan), job[j].failed)
  <2>1. xray.runs
    BY <1>7 DEF Reachable
  <2>2. About(i)
    BY <1>3, <1>7, <2>1 DEF About, Puts
  <2>3. Quiet'
    BY <1>5, <1>7, <2>1 DEF Quiet
  <2>4. User(c, FALSE)'
    <3>1. CASE Known(i) /\ inbound[i].enable = "on"
      <4>1. xray.at[i] = [gen |-> inbound[i].gen, users |-> With(c, b)]
        BY <1>4, <3>1 DEF User, Serves
      <4>2. here.gen = inbound[i].gen /\ here.users = With(c, b)
        BY <1>2, <1>4, <4>1
      <4>3. With(c, b) \ {c} = With(c, FALSE)
        BY DEF With
      <4>4. xray'.at[i] = [gen |-> inbound[i].gen, users |-> With(c, FALSE)]
        BY <1>7, <4>2, <4>3 DEF Puts
      <4>5. QED
        BY <1>3, <1>4, <1>6, <1>7, <3>1, <4>4 DEF User, Serves
    <3>2. CASE Known(i) /\ inbound[i].enable # "on"
      BY <1>4, <1>7, <3>2 DEF User, Reachable
    <3>3. CASE ~ Known(i)
      BY <1>4, <1>7, <3>3 DEF User, Known
    <3>4. QED
      BY <3>1, <3>2, <3>3
  <2>5. QED
    BY <1>3, <1>4, <1>7, <2>2, <2>3, <2>4, SparedKept
<1>8. ASSUME xray' = xray, disturbed' = disturbed
      PROVE  /\ Spared(InboundOf[c])' /\ Quiet' /\ User(c, b)'
             /\ User(c, FALSE) => User(c, FALSE)'
  <2>1. WritesClient(c)
    BY <1>3, <1>8 DEF WritesClient
  <2>2. User(c, FALSE) => User(c, FALSE)'
    <3>1. PICK no : no = FALSE
      OBVIOUS
    <3>2. QED
      BY <2>1, <3>1, UserKept
  <2>3. QED
    BY <2>1, <2>2, UserKept, ClientWriteFrame
<1>9. CASE /\ ~ Reachable(i) /\ xray' = xray /\ disturbed' = disturbed
           /\ Goes(j, Fallback(j, x), Faulted(j, x))
  <2>1. User(c, FALSE)
    BY <1>4, <1>9, NotServed
  <2>2. QED
    BY <1>3, <1>8, <1>9, <2>1
<1>10. CASE NotDone(j, x)
  <2>1. x.mode = "must" /\ xray' = xray /\ disturbed' = disturbed
    BY <1>10 DEF NotDone
  <2>2. Goes(j, Fallback(j, x), TRUE)
    BY <1>10 DEF NotDone
  <2>3. mode # "try"
    BY <1>1, <2>1
  <2>4. QED
    BY <1>3, <1>8, <2>1, <2>2, <2>3
<1>11. CASE Loses(i) /\ Goes(j, Fallback(j, x), TRUE)
  <2>1. About(i) /\ Quiet'
    BY <1>3, <1>11 DEF About, Loses, Quiet
  <2>2. ~ Known(InboundOf[c])'
    BY <1>4, <1>11 DEF Loses, Known
  <2>3. User(c, FALSE)' /\ User(c, b)'
    BY <2>2 DEF User
  <2>4. QED
    BY <1>3, <1>4, <1>11, <2>1, <2>3, SparedKept
<1>12. QED
  BY <1>1, <1>3, <1>4, <1>7, <1>9, <1>10, <1>11

LEMMA AddUserTurn ==
    ASSUME Types, Kinds, NEW j \in Runners, Moves(j), NEW c \in Clients,
           NEW mode \in {"must", "try"}, NEW x, x = AddUser(c, mode),
           x = Head(job[j].plan), job[j].op # "enable",
           User(c, FALSE), Spared(InboundOf[c]), Quiet
    PROVE  /\ UNCHANGED <<inbound, client>>
           /\ Spared(InboundOf[c])' /\ Quiet'
           /\ \/ Goes(j, Tail(job[j].plan), job[j].failed) /\ User(c, TRUE)'
              \/ /\ \E f : Goes(j, Fallback(j, x), f)
                 /\ User(c, FALSE)' /\ (mode = "try" => User(c, TRUE)')
<1>1. x.do = "addClient" /\ x.c = c /\ x.mode = mode
  <2>1. /\ AddUser(c, mode).do = "addClient" /\ AddUser(c, mode).c = c
        /\ AddUser(c, mode).mode = mode
    BY DEF AddUser
  <2>2. QED
    BY <2>1
<1>2. PICK here : here = xray.at[x.i]
  OBVIOUS
<1>3. /\ UNCHANGED <<inbound, client>>
      /\ x.c \in Clients /\ x.i = InboundOf[x.c] /\ x.i \in Inbounds
      /\ \/ /\ Reachable(x.i) /\ xray'.runs
            /\ x.do = "addClient" =>
                  Puts(x.i, [gen |-> here.gen, users |-> here.users \cup {x.c}])
            /\ x.do = "removeClient" =>
                  Puts(x.i, [gen |-> here.gen, users |-> here.users \ {x.c}])
            /\ disturbed' = disturbed /\ Goes(j, Tail(job[j].plan), job[j].failed)
         \/ /\ Reachable(x.i) /\ x.do = "addClient" /\ x.c \in here.users /\ xray'.runs
            /\ Puts(x.i, [gen |-> here.gen, users |-> here.users \ {x.c}])
            /\ disturbed' = disturbed /\ Goes(j, Fallback(j, x), Faulted(j, x))
         \/ /\ ~ Reachable(x.i) /\ xray' = xray /\ disturbed' = disturbed
            /\ Goes(j, Fallback(j, x), Faulted(j, x))
         \/ NotDone(j, x)
         \/ Loses(x.i) /\ Goes(j, Fallback(j, x), TRUE)
  BY <1>1, <1>2, UserTurn
<1>4. PICK i \in Inbounds : i = InboundOf[c] /\ x.i = i
  BY <1>1, <1>3
<1>5. Enabled' = Enabled
  BY <1>3 DEF Enabled
<1>6. \A d : With(c, d)' = With(c, d)
  BY <1>3 DEF With, On
<1>7. ASSUME NEW us, Reachable(i), xray'.runs, disturbed' = disturbed,
             Puts(i, [gen |-> here.gen, users |-> us])
      PROVE  Spared(i)' /\ Quiet'
  <2>1. xray.runs
    BY <1>7 DEF Reachable
  <2>2. About(i)
    BY <1>3, <1>7, <2>1 DEF About, Puts
  <2>3. Quiet'
    BY <1>5, <1>7, <2>1 DEF Quiet
  <2>4. QED
    BY <1>4, <2>2, <2>3, SparedKept
<1>8. ASSUME Known(i), Reachable(i)
      PROVE  /\ inbound[i].enable = "on"
             /\ here.gen = inbound[i].gen /\ here.users = With(c, FALSE)
  <2>1. inbound[i].enable = "on"
    BY <1>4, <1>8 DEF User, Reachable
  <2>2. xray.at[i] = [gen |-> inbound[i].gen, users |-> With(c, FALSE)]
    BY <1>4, <1>8, <2>1 DEF User, Serves
  <2>3. PICK w : w = [gen |-> inbound[i].gen, users |-> With(c, FALSE)]
    OBVIOUS
  <2>4. w.gen = inbound[i].gen /\ w.users = With(c, FALSE)
    BY <2>3
  <2>5. here = w
    BY <1>2, <1>4, <2>2, <2>3
  <2>6. QED
    BY <2>1, <2>4, <2>5
<1>9. CASE /\ Reachable(i) /\ xray'.runs
           /\ Puts(i, [gen |-> here.gen, users |-> here.users \cup {c}])
           /\ disturbed' = disturbed /\ Goes(j, Tail(job[j].plan), job[j].failed)
  <2>1. User(c, TRUE)'
    <3>1. CASE Known(i)
      <4>1. With(c, FALSE) \cup {c} = With(c, TRUE)
        BY <1>4 DEF With, ClientsOf
      <4>2. xray'.at[i] = [gen |-> inbound[i].gen, users |-> With(c, TRUE)]
        BY <1>8, <1>9, <3>1, <4>1 DEF Puts
      <4>3. QED
        BY <1>3, <1>4, <1>6, <1>8, <1>9, <3>1, <4>2 DEF User, Serves
    <3>2. CASE ~ Known(i)
      BY <1>4, <1>9, <3>2 DEF User, Known
    <3>3. QED
      BY <3>1, <3>2
  <2>2. QED
    BY <1>3, <1>4, <1>7, <1>9, <2>1
<1>10. CASE /\ Reachable(i) /\ c \in here.users /\ xray'.runs
            /\ Puts(i, [gen |-> here.gen, users |-> here.users \ {c}])
            /\ disturbed' = disturbed /\ Goes(j, Fallback(j, x), Faulted(j, x))
  <2>1. ~ Known(i)
    BY <1>8, <1>10 DEF With
  <2>2. ~ Known(InboundOf[c])'
    BY <1>4, <1>10, <2>1 DEF Known
  <2>3. User(c, FALSE)' /\ User(c, TRUE)'
    BY <2>2 DEF User
  <2>4. QED
    BY <1>3, <1>4, <1>7, <1>10, <2>3
<1>11. ASSUME xray' = xray, disturbed' = disturbed
       PROVE  /\ Spared(InboundOf[c])' /\ Quiet' /\ User(c, FALSE)'
              /\ User(c, TRUE) => User(c, TRUE)'
  <2>1. WritesClient(c)
    BY <1>3, <1>11 DEF WritesClient
  <2>2. /\ User(c, FALSE) => User(c, FALSE)'
        /\ User(c, TRUE) => User(c, TRUE)'
    <3>1. PICK no, yes : no = FALSE /\ yes = TRUE
      OBVIOUS
    <3>2. /\ User(c, no) => User(c, no)'
          /\ User(c, yes) => User(c, yes)'
      BY <2>1, UserKept
    <3>3. QED
      BY <3>1, <3>2
  <2>3. QED
    BY <2>1, <2>2, ClientWriteFrame
<1>12. CASE /\ ~ Reachable(i) /\ xray' = xray /\ disturbed' = disturbed
            /\ Goes(j, Fallback(j, x), Faulted(j, x))
  <2>1. User(c, TRUE)
    BY <1>4, <1>12, NotServed
  <2>2. QED
    BY <1>3, <1>11, <1>12, <2>1
<1>13. CASE NotDone(j, x)
  <2>1. x.mode = "must" /\ xray' = xray /\ disturbed' = disturbed
    BY <1>13 DEF NotDone
  <2>2. Goes(j, Fallback(j, x), TRUE)
    BY <1>13 DEF NotDone
  <2>3. mode # "try"
    BY <1>1, <2>1
  <2>4. QED
    BY <1>3, <1>11, <2>1, <2>2, <2>3
<1>14. CASE Loses(i) /\ Goes(j, Fallback(j, x), TRUE)
  <2>1. About(i) /\ Quiet'
    BY <1>3, <1>14 DEF About, Loses, Quiet
  <2>2. ~ Known(InboundOf[c])'
    BY <1>4, <1>14 DEF Loses, Known
  <2>3. User(c, FALSE)' /\ User(c, TRUE)'
    BY <2>2 DEF User
  <2>4. QED
    BY <1>3, <1>4, <1>14, <2>1, <2>3, SparedKept
<1>15. QED
  BY <1>1, <1>3, <1>4, <1>9, <1>10, <1>12, <1>13, <1>14

-----------------------------------------------------------------------------
(* Operations on clients, step by step.                                     *)

LEMMA GoesTo ==
    ASSUME NEW j, NEW g, g = job[j], NEW h, h = job'[j], NEW p, NEW f, Goes(j, p, f)
    PROVE  /\ h.plan = p /\ h.failed = f /\ h.op = g.op /\ h.i = g.i /\ h.c = g.c
           /\ h.inbound = g.inbound /\ h.client = g.client /\ h.want = g.want
           /\ h.all = g.all
BY DEF Goes, Same

LEMMA Remedies ==
    ASSUME NEW g, NEW x
    PROVE  /\ g.op = "createInbound" => Remedy(g, x) = <<RowStep("error")>>
           /\ g.op = "updateInbound" /\ x.do # "addInbound" =>
                 Remedy(g, x) = <<RowStep("revertInbound")>>
           /\ g.op = "updateInbound" /\ x.do = "addInbound" =>
                 Remedy(g, x) = <<Old(g), RowStep("revertInbound")>>
           /\ g.op = "enable" => Remedy(g, x) = <<RowStep("off")>>
           /\ g.op = "createClient" => Remedy(g, x) = <<RowStep("dropClient")>>
           /\ g.op = "updateClient" /\ ~ (x.do = "addClient" /\ WasOn(g)) =>
                 Remedy(g, x) = <<RowStep("revertClient")>>
           /\ g.op = "updateClient" /\ x.do = "addClient" /\ WasOn(g) =>
                 Remedy(g, x) = <<RowStep("revertClient"), AddUser(g.c, "try")>>
           /\ g.op = "reconcile" => Remedy(g, x) = <<RowStep("tags")>>
           /\ g.op \in {"disable", "deleteInbound", "deleteClient", "reset", "check",
                        "traffic", "expel"} => Remedy(g, x) = <<>>
<1>1. \A w : Write(w) = <<RowStep(w)>>
  BY Steps
<1>2. CASE g.op = "updateInbound"
  <2>1. PICK a, b : a = Old(g) /\ b = RowStep("revertInbound")
    OBVIOUS
  <2>2. AddInbound(g.i, g.inbound.gen, "try") = <<a>>
    BY <2>1, Steps DEF Old
  <2>3. Remedy(g, x) = (IF x.do = "addInbound" THEN <<a>> ELSE <<>>) \o <<b>>
    BY <1>1, <1>2, <2>1, <2>2 DEF Remedy
  <2>4. <<a>> \o <<b>> = <<a, b>> /\ <<>> \o <<b>> = <<b>>
    BY Joins
  <2>5. QED
    BY <1>2, <2>1, <2>3, <2>4
<1>3. CASE g.op = "updateClient"
  <2>1. PICK a, b : a = AddUser(g.c, "try") /\ b = RowStep("revertClient")
    OBVIOUS
  <2>2. AddClient(g.c, "try") = <<a>>
    BY <2>1, Steps
  <2>3. Remedy(g, x) = <<b>> \o (IF x.do = "addClient" /\ WasOn(g) THEN <<a>> ELSE <<>>)
    BY <1>1, <1>3, <2>1, <2>2 DEF Remedy, WasOn
  <2>4. <<b>> \o <<a>> = <<b, a>> /\ <<b>> \o <<>> = <<b>>
    BY Joins
  <2>5. QED
    BY <1>3, <2>1, <2>3, <2>4
<1>4. CASE g.op \notin {"updateInbound", "updateClient"}
  BY <1>1, <1>4 DEF Remedy
<1>5. QED
  BY <1>2, <1>3, <1>4

LEMMA UserOn ==
    ASSUME NEW c \in Clients, NEW b \in BOOLEAN, User(c, b)', b <=> On(c)'
    PROVE  User(c, On(c))'
<1>1. With(c, b)' = With(c, On(c))'
  BY DEF With, On
<1>2. QED
  BY <1>1 DEF User, Serves

LEMMA UsersKept ==
    ASSUME NEW c \in Clients, WritesClient(c)
    PROVE  /\ User(c, FALSE) => User(c, FALSE)'
           /\ User(c, TRUE) => User(c, TRUE)'
<1>1. PICK no, yes : no = FALSE /\ yes = TRUE
  OBVIOUS
<1>2. /\ User(c, no) => User(c, no)'
      /\ User(c, yes) => User(c, yes)'
  BY UserKept
<1>3. QED
  BY <1>1, <1>2

LEMMA UserOnOff ==
    ASSUME NEW c \in Clients
    PROVE  /\ User(c, TRUE)' /\ On(c)' => User(c, On(c))'
           /\ User(c, FALSE)' /\ ~ On(c)' => User(c, On(c))'
<1>1. On(c)' \in BOOLEAN
  BY DEF On
<1>2. PICK no \in BOOLEAN, yes \in BOOLEAN : no = FALSE /\ yes = TRUE
  OBVIOUS
<1>3. ASSUME User(c, FALSE)', ~ On(c)'
      PROVE  User(c, On(c))'
  <2>1. User(c, no)'
    BY <1>2, <1>3
  <2>2. no <=> On(c)'
    BY <1>2, <1>3
  <2>3. QED
    BY <2>1, <2>2, UserOn
<1>4. ASSUME User(c, TRUE)', On(c)'
      PROVE  User(c, On(c))'
  <2>1. User(c, yes)'
    BY <1>2, <1>4
  <2>2. yes <=> On(c)'
    BY <1>2, <1>4
  <2>3. QED
    BY <2>1, <2>2, UserOn
<1>5. QED
  BY <1>3, <1>4

\* A client's row is written in the course of an operation.
LEMMA ClientWritten ==
    ASSUME Types, NEW j \in Runners, Moves(j), NEW w \in ClientRows0,
           Head(job[j].plan) = RowStep(w), NEW c \in Clients, c = job[j].c,
           NEW i, i = InboundOf[c], Spared(i), Quiet
    PROVE  /\ Goes(j, Tail(job[j].plan), job[j].failed)
           /\ Spared(i)' /\ Quiet' /\ WritesClient(c)
           /\ w \in {"offClient", "dropClient"} => ~ On(c)'
           /\ w = "onClient" /\ HasRow(c) => On(c)'
           /\ w = "revertClient" => (On(c)' <=> WasOn(job[j]))
           /\ job[j].want = "offline" => job[j].i \in disturbed'
<1>1. /\ UNCHANGED <<inbound, xray>>
      /\ disturbed' = IF job[j].want = "offline" THEN disturbed \cup {job[j].i} ELSE disturbed
      /\ Goes(j, Tail(job[j].plan), job[j].failed)
      /\ w = "offClient" => SetClient(c, "off")
      /\ w = "onClient" => SetClient(c, "on")
      /\ w = "dropClient" => client' = [client EXCEPT ![c] = NoClient]
      /\ w = "revertClient" => client' = [client EXCEPT ![c] = job[j].client]
  BY ClientsTurn
<1>2. client \in [Clients -> ClientRow]
  BY DEF Types
<1>3. /\ \A d \in Clients : d # c => client'[d].enable = client[d].enable
      /\ w \in {"offClient", "dropClient"} => ~ On(c)'
      /\ w = "onClient" /\ HasRow(c) => On(c)'
      /\ w = "revertClient" => (On(c)' <=> WasOn(job[j]))
  <2>1. CASE w = "offClient"
    BY <1>1, <1>2, <2>1 DEF SetClient, On, HasRow, ClientRow
  <2>2. CASE w = "onClient"
    BY <1>1, <1>2, <2>2 DEF SetClient, On, HasRow, ClientRow
  <2>3. CASE w = "dropClient"
    BY <1>1, <1>2, <2>3, NoClientRow DEF On
  <2>4. CASE w = "revertClient"
    BY <1>1, <1>2, <2>4 DEF On, WasOn
  <2>5. QED
    BY <2>1, <2>2, <2>3, <2>4 DEF ClientRows0
<1>4. WritesClient(c)
  BY <1>1, <1>3 DEF WritesClient
<1>5. Spared(i)' /\ Quiet'
  BY <1>4, ClientWriteFrame
<1>6. QED
  BY <1>1, <1>3, <1>4, <1>5

LEMMA AboutJob ==
    ASSUME Types, NEW j \in Runners, NEW g, g = job[j], g.op \in ClientOps
    PROVE  /\ g.c \in Clients /\ g.i = InboundOf[g.c] /\ g.i \in Inbounds /\ JobOK(g)
           /\ g.op # "enable"
<1>1. JobOK(g)
  BY DEF Types
<1>2. QED
  BY <1>1 DEF JobOK, ClientOps

LEMMA CreatingClientMoves ==
    ASSUME Types, Kinds, NEW j \in Runners, Moves(j), NEW g, g = job[j], NEW h, h = job'[j],
           g.op = "createClient", CreatingClient(g), Spared(g.i), Quiet
    PROVE  CreatingClient(h)' /\ Spared(g.i)' /\ Quiet'
<1>1. /\ g.op \in ClientOps /\ g.c \in Clients /\ g.i = InboundOf[g.c] /\ g.op # "enable"
  BY AboutJob DEF ClientOps
<1>2. PICK c \in Clients : c = g.c
  BY <1>1
<1>3. PICK i : i = g.i
  OBVIOUS
<1>4. ASSUME NEW p, NEW f, Goes(j, p, f)
      PROVE  h.plan = p /\ h.c = c
  BY <1>2, <1>4, GoesTo
<1>5. CASE g.plan = <<AddUser(c, "must")>> /\ User(c, FALSE) /\ On(c)
  <2>1. PICK x : x = AddUser(c, "must")
    OBVIOUS
  <2>2. x = Head(job[j].plan) /\ Tail(job[j].plan) = <<>>
    BY <1>5, <2>1, One
  <2>3. /\ UNCHANGED <<inbound, client>>
        /\ Spared(i)' /\ Quiet'
        /\ \/ Goes(j, Tail(job[j].plan), job[j].failed) /\ User(c, TRUE)'
           \/ \E f : Goes(j, Fallback(j, x), f) /\ User(c, FALSE)'
    BY <1>1, <1>2, <1>3, <1>5, <2>1, <2>2, AddUserTurn
  <2>4. On(c)'
    <3>1. client' = client
      BY <2>3
    <3>2. On(c)
      BY <1>5
    <3>3. QED
      BY <3>1, <3>2 DEF On
  <2>5. CASE Goes(j, Tail(job[j].plan), job[j].failed) /\ User(c, TRUE)'
    <3>1. h.plan = <<>> /\ h.c = c
      BY <1>4, <2>2, <2>5
    <3>2. User(c, On(c))'
      BY <2>4, <2>5, UserOnOff
    <3>3. QED
      BY <1>3, <2>3, <3>1, <3>2 DEF CreatingClient
  <2>6. CASE \E f : Goes(j, Fallback(j, x), f) /\ User(c, FALSE)'
    <3>1. x.mode = "must"
      BY <2>1 DEF AddUser
    <3>2. Fallback(j, x) = <<RowStep("dropClient")>>
      BY <3>1, FallsBack, Remedies
    <3>3. h.plan = <<RowStep("dropClient")>> /\ h.c = c
      BY <1>4, <2>6, <3>2
    <3>4. QED
      BY <1>3, <2>3, <2>4, <2>6, <3>3 DEF CreatingClient
  <2>7. QED
    BY <2>3, <2>5, <2>6
<1>6. CASE g.plan = <<RowStep("dropClient")>> /\ User(c, FALSE)
  <2>1. PICK w : w = "dropClient"
    OBVIOUS
  <2>2. Head(job[j].plan) = RowStep(w) /\ Tail(job[j].plan) = <<>>
    BY <1>6, <2>1, One
  <2>3. w \in ClientRows0
    BY <2>1 DEF ClientRows0
  <2>4. /\ Goes(j, Tail(job[j].plan), job[j].failed)
        /\ Spared(i)' /\ Quiet' /\ WritesClient(c) /\ ~ On(c)'
    BY <1>1, <1>2, <1>3, <2>1, <2>2, <2>3, ClientWritten
  <2>5. User(c, FALSE)'
    BY <1>6, <2>4, UsersKept
  <2>6. User(c, On(c))'
    BY <2>4, <2>5, UserOnOff
  <2>7. h.plan = <<>> /\ h.c = c
    BY <1>4, <2>2, <2>4
  <2>8. QED
    BY <1>3, <2>4, <2>6, <2>7 DEF CreatingClient
<1>7. g.plan # <<>>
  BY SomeStep
<1>8. QED
  BY <1>2, <1>5, <1>6, <1>7 DEF CreatingClient

LEMMA DeletingClientMoves ==
    ASSUME Types, Kinds, NEW j \in Runners, Moves(j), NEW g, g = job[j], NEW h, h = job'[j],
           g.op = "deleteClient", DeletingClient(g), Spared(g.i), Quiet
    PROVE  DeletingClient(h)' /\ Spared(g.i)' /\ Quiet'
<1>1. /\ g.op \in ClientOps /\ g.c \in Clients /\ g.i = InboundOf[g.c] /\ g.op # "enable"
  BY AboutJob DEF ClientOps
<1>2. PICK c \in Clients : c = g.c
  BY <1>1
<1>3. PICK i : i = g.i
  OBVIOUS
<1>4. ASSUME NEW p, NEW f, Goes(j, p, f)
      PROVE  h.plan = p /\ h.c = c /\ (Offline(h) <=> Offline(g))
  BY <1>2, <1>4, GoesTo DEF Offline
<1>5. CASE g.plan = <<RemoveUser(c, "must"), RowStep("dropClient")>> /\ User(c, On(c))
  <2>1. PICK x, y : x = RemoveUser(c, "must") /\ y = RowStep("dropClient")
    OBVIOUS
  <2>2. x = Head(job[j].plan) /\ Tail(job[j].plan) = <<y>>
    BY <1>5, <2>1, Two
  <2>3. PICK b \in BOOLEAN : b = On(c)
    BY DEF On
  <2>4. User(c, b)
    BY <1>5, <2>3
  <2>5. /\ UNCHANGED <<inbound, client>>
        /\ Spared(i)' /\ Quiet'
        /\ \/ Goes(j, Tail(job[j].plan), job[j].failed) /\ User(c, FALSE)'
           \/ \E f : Goes(j, Fallback(j, x), f) /\ User(c, b)'
    BY <1>1, <1>2, <1>3, <2>1, <2>2, <2>4, RemoveUserTurn
  <2>6. CASE Goes(j, Tail(job[j].plan), job[j].failed) /\ User(c, FALSE)'
    <3>1. h.plan = <<RowStep("dropClient")>> /\ h.c = c
      BY <1>4, <2>1, <2>2, <2>6
    <3>2. QED
      BY <1>3, <2>5, <2>6, <3>1 DEF DeletingClient
  <2>7. CASE \E f : Goes(j, Fallback(j, x), f) /\ User(c, b)'
    <3>1. x.mode = "must"
      BY <2>1 DEF RemoveUser
    <3>2. Fallback(j, x) = <<>>
      BY <3>1, FallsBack, Remedies
    <3>3. h.plan = <<>> /\ h.c = c
      BY <1>4, <2>7, <3>2
    <3>4. b <=> On(c)'
      <4>1. client' = client
        BY <2>5
      <4>2. QED
        BY <2>3, <4>1 DEF On
    <3>5. User(c, On(c))'
      BY <2>7, <3>4, UserOn
    <3>6. QED
      BY <1>3, <2>5, <3>3, <3>5 DEF DeletingClient
  <2>8. QED
    BY <2>5, <2>6, <2>7
<1>6. CASE g.plan = <<RowStep("dropClient")>> /\ (~ Offline(g) => User(c, FALSE))
  <2>1. PICK w : w = "dropClient"
    OBVIOUS
  <2>2. Head(job[j].plan) = RowStep(w) /\ Tail(job[j].plan) = <<>>
    BY <1>6, <2>1, One
  <2>3. w \in ClientRows0
    BY <2>1 DEF ClientRows0
  <2>4. /\ Goes(j, Tail(job[j].plan), job[j].failed)
        /\ Spared(i)' /\ Quiet' /\ WritesClient(c) /\ ~ On(c)'
        /\ job[j].want = "offline" => job[j].i \in disturbed'
    BY <1>1, <1>2, <1>3, <2>1, <2>2, <2>3, ClientWritten
  <2>5. User(c, FALSE)'
    <3>1. CASE Offline(g)
      <4>1. ~ Known(InboundOf[c])'
        BY <1>1, <1>2, <2>4, <3>1 DEF Offline, Known
      <4>2. QED
        BY <4>1 DEF User
    <3>2. CASE ~ Offline(g)
      BY <1>6, <2>4, <3>2, UsersKept
    <3>3. QED
      BY <3>1, <3>2
  <2>6. User(c, On(c))'
    BY <2>4, <2>5, UserOnOff
  <2>7. h.plan = <<>> /\ h.c = c
    BY <1>4, <2>2, <2>4
  <2>8. QED
    BY <1>3, <2>4, <2>6, <2>7 DEF DeletingClient
<1>7. g.plan # <<>>
  BY SomeStep
<1>8. QED
  BY <1>2, <1>5, <1>6, <1>7 DEF DeletingClient

LEMMA ResettingMoves ==
    ASSUME Types, Kinds, NEW j \in Runners, Moves(j), NEW g, g = job[j], NEW h, h = job'[j],
           g.op \in {"reset", "check"}, Resetting(g), Spared(g.i), Quiet
    PROVE  Resetting(h)' /\ Spared(g.i)' /\ Quiet'
<1>1. /\ g.op \in ClientOps /\ g.c \in Clients /\ g.i = InboundOf[g.c] /\ g.op # "enable"
  BY AboutJob DEF ClientOps
<1>2. PICK c \in Clients : c = g.c
  BY <1>1
<1>3. PICK i : i = g.i
  OBVIOUS
<1>4. ASSUME NEW p, NEW f, Goes(j, p, f)
      PROVE  h.plan = p /\ h.c = c
  BY <1>2, <1>4, GoesTo
<1>5. CASE /\ g.plan = <<RowStep("onClient"), AddUser(c, "try")>>
           /\ User(c, FALSE) /\ client[c].enable = "off"
  <2>1. PICK w : w = "onClient"
    OBVIOUS
  <2>2. PICK x : x = AddUser(c, "try")
    OBVIOUS
  <2>3. Head(job[j].plan) = RowStep(w) /\ Tail(job[j].plan) = <<x>>
    BY <1>5, <2>1, <2>2, Two
  <2>4. w \in ClientRows0
    BY <2>1 DEF ClientRows0
  <2>5. HasRow(c)
    BY <1>5 DEF HasRow
  <2>6. /\ Goes(j, Tail(job[j].plan), job[j].failed)
        /\ Spared(i)' /\ Quiet' /\ WritesClient(c) /\ On(c)'
    BY <1>1, <1>2, <1>3, <2>1, <2>3, <2>4, <2>5, ClientWritten
  <2>7. User(c, FALSE)'
    BY <1>5, <2>6, UsersKept
  <2>8. h.plan = <<AddUser(c, "try")>> /\ h.c = c
    BY <1>4, <2>2, <2>3, <2>6
  <2>9. QED
    BY <1>3, <2>6, <2>7, <2>8 DEF Resetting
<1>6. CASE g.plan = <<AddUser(c, "try")>> /\ User(c, FALSE) /\ On(c)
  <2>1. PICK x : x = AddUser(c, "try")
    OBVIOUS
  <2>2. x = Head(job[j].plan) /\ Tail(job[j].plan) = <<>>
    BY <1>6, <2>1, One
  <2>3. /\ UNCHANGED <<inbound, client>>
        /\ Spared(i)' /\ Quiet'
        /\ \/ Goes(j, Tail(job[j].plan), job[j].failed) /\ User(c, TRUE)'
           \/ \E f : Goes(j, Fallback(j, x), f) /\ User(c, TRUE)'
    BY <1>1, <1>2, <1>3, <1>6, <2>1, <2>2, AddUserTurn
  <2>4. x.mode # "must"
    BY <2>1 DEF AddUser
  <2>5. Fallback(j, x) = <<>>
    BY <2>2, <2>4, FallsBack
  <2>6. h.plan = <<>> /\ h.c = c /\ User(c, TRUE)'
    BY <1>4, <2>2, <2>3, <2>5
  <2>7. On(c)'
    <3>1. client' = client
      BY <2>3
    <3>2. On(c)
      BY <1>6
    <3>3. QED
      BY <3>1, <3>2 DEF On
  <2>8. User(c, On(c))'
    BY <2>6, <2>7, UserOnOff
  <2>9. QED
    BY <1>3, <2>3, <2>6, <2>8 DEF Resetting
<1>7. g.plan # <<>>
  BY SomeStep
<1>8. QED
  BY <1>2, <1>5, <1>6, <1>7 DEF Resetting

\* The last step, that adds a user again.
LEMMA AddsAgain ==
    ASSUME Types, Kinds, NEW j \in Runners, Moves(j), job[j].op \in ClientOps,
           NEW c \in Clients, c = job[j].c, NEW i, i = InboundOf[c],
           job[j].plan = <<AddUser(c, "try")>>, User(c, FALSE), On(c), Spared(i), Quiet
    PROVE  /\ \E f : Goes(j, <<>>, f)
           /\ User(c, On(c))' /\ Spared(i)' /\ Quiet'
<1>1. PICK x : x = AddUser(c, "try")
  OBVIOUS
<1>2. x = Head(job[j].plan) /\ Tail(job[j].plan) = <<>>
  BY <1>1, One
<1>3. job[j].op # "enable"
  BY DEF ClientOps
<1>4. /\ UNCHANGED <<inbound, client>>
      /\ Spared(i)' /\ Quiet'
      /\ \/ Goes(j, Tail(job[j].plan), job[j].failed) /\ User(c, TRUE)'
         \/ \E f : Goes(j, Fallback(j, x), f) /\ User(c, TRUE)'
  BY <1>1, <1>2, <1>3, AddUserTurn
<1>5. x.mode # "must"
  BY <1>1 DEF AddUser
<1>6. Fallback(j, x) = <<>>
  BY <1>2, <1>5, FallsBack
<1>7. (\E f : Goes(j, <<>>, f)) /\ User(c, TRUE)'
  BY <1>2, <1>4, <1>6
<1>8. On(c)'
  <2>1. client' = client
    BY <1>4
  <2>2. QED
    BY <2>1 DEF On
<1>9. User(c, On(c))'
  BY <1>7, <1>8, UserOnOff
<1>10. QED
  BY <1>4, <1>7, <1>9

LEMMA UpdatingClientMoves ==
    ASSUME Types, Kinds, NEW j \in Runners, Moves(j), NEW g, g = job[j], NEW h, h = job'[j],
           g.op = "updateClient", UpdatingClient(g), Spared(g.i), Quiet
    PROVE  UpdatingClient(h)' /\ Spared(g.i)' /\ Quiet'
<1>1. /\ g.op \in ClientOps /\ g.c \in Clients /\ g.i = InboundOf[g.c] /\ g.op # "enable"
  BY AboutJob DEF ClientOps
<1>2. PICK c \in Clients : c = g.c
  BY <1>1
<1>3. PICK i : i = g.i
  OBVIOUS
<1>4. ASSUME NEW p, NEW f, Goes(j, p, f)
      PROVE  h.plan = p /\ h.c = c /\ h.want = g.want /\ (WasOn(h) <=> WasOn(g))
  BY <1>2, <1>4, GoesTo DEF WasOn
<1>5. CASE /\ g.plan = <<RemoveUser(c, "must"), RowStep("reload")>>
           /\ User(c, TRUE) /\ WasOn(g) /\ client[c].enable = g.want
  <2>1. PICK x, y : x = RemoveUser(c, "must") /\ y = RowStep("reload")
    OBVIOUS
  <2>2. x = Head(job[j].plan) /\ Tail(job[j].plan) = <<y>>
    BY <1>5, <2>1, Two
  <2>3. PICK b \in BOOLEAN : b = TRUE
    OBVIOUS
  <2>4. User(c, b)
    BY <1>5, <2>3
  <2>5. /\ UNCHANGED <<inbound, client>>
        /\ Spared(i)' /\ Quiet'
        /\ \/ Goes(j, Tail(job[j].plan), job[j].failed) /\ User(c, FALSE)'
           \/ \E f : Goes(j, Fallback(j, x), f) /\ User(c, b)'
    BY <1>1, <1>2, <1>3, <2>1, <2>2, <2>4, RemoveUserTurn
  <2>6. CASE Goes(j, Tail(job[j].plan), job[j].failed) /\ User(c, FALSE)'
    <3>1. h.plan = <<RowStep("reload")>> /\ h.c = c /\ h.want = g.want
      BY <1>4, <2>1, <2>2, <2>6
    <3>2. client'[c].enable = g.want
      BY <1>5, <2>5
    <3>3. QED
      BY <1>3, <2>5, <2>6, <3>1, <3>2 DEF UpdatingClient
  <2>7. CASE \E f : Goes(j, Fallback(j, x), f) /\ User(c, b)'
    <3>1. x.mode = "must" /\ x.do = "removeClient"
      BY <2>1 DEF RemoveUser
    <3>2. Fallback(j, x) = <<RowStep("revertClient")>>
      BY <3>1, FallsBack, Remedies
    <3>3. h.plan = <<RowStep("revertClient")>> /\ h.c = c /\ (WasOn(h) <=> WasOn(g))
      BY <1>4, <2>7, <3>2
    <3>4. User(c, WasOn(h))'
      <4>1. WasOn(h) = b
        BY <1>5, <2>3, <3>3 DEF WasOn
      <4>2. QED
        BY <2>7, <4>1
    <3>5. QED
      BY <1>3, <2>5, <3>3, <3>4 DEF UpdatingClient
  <2>8. QED
    BY <2>5, <2>6, <2>7
<1>6. CASE /\ g.plan = <<RowStep("reload")>> /\ User(c, FALSE) /\ client[c].enable = g.want
  <2>1. PICK w : w = "reload"
    OBVIOUS
  <2>2. Head(job[j].plan) = RowStep(w) /\ Tail(job[j].plan) = <<>>
    BY <1>6, <2>1, One
  <2>3. PICK tail, f : tail = Tail(job[j].plan) /\ f = job[j].failed
    OBVIOUS
  <2>4. w \in Reads
    BY <2>1 DEF Reads
  <2>5. /\ UNCHANGED <<inbound, xray, disturbed>> /\ client' = client
        /\ Goes(j, (IF (IF HasRow(c) THEN client[c].enable ELSE g.want) = "on"
                    THEN AddClient(c, "must") ELSE <<>>) \o tail, f)
    BY <1>2, <2>1, <2>2, <2>3, <2>4, ReadsTurn
  <2>6. WritesClient(c)
    BY <2>5 DEF WritesClient
  <2>7. Spared(i)' /\ Quiet' /\ User(c, FALSE)'
    BY <1>1, <1>2, <1>3, <1>6, <2>6, ClientWriteFrame, UsersKept
  <2>8. CASE On(c)
    <3>1. PICK x : x = AddUser(c, "must")
      OBVIOUS
    <3>2. AddClient(c, "must") = <<x>>
      BY <3>1, Steps
    <3>3. (IF (IF HasRow(c) THEN client[c].enable ELSE g.want) = "on"
           THEN AddClient(c, "must") ELSE <<>>) = <<x>>
      BY <1>6, <2>8, <3>2 DEF On
    <3>4. <<x>> \o tail = <<x>>
      BY <2>2, <2>3, Joins
    <3>5. h.plan = <<AddUser(c, "must")>> /\ h.c = c
      BY <1>4, <2>5, <3>1, <3>3, <3>4
    <3>6. On(c)'
      BY <2>5, <2>8 DEF On
    <3>7. QED
      BY <1>3, <2>7, <3>5, <3>6 DEF UpdatingClient
  <2>9. CASE ~ On(c)
    <3>1. (IF (IF HasRow(c) THEN client[c].enable ELSE g.want) = "on"
           THEN AddClient(c, "must") ELSE <<>>) = <<>>
      BY <1>6, <2>9 DEF On
    <3>2. <<>> \o tail = <<>>
      BY <2>2, <2>3, Joins
    <3>3. h.plan = <<>> /\ h.c = c
      BY <1>4, <2>5, <3>1, <3>2
    <3>4. ~ On(c)'
      BY <2>5, <2>9 DEF On
    <3>5. User(c, On(c))'
      BY <2>7, <3>4, UserOnOff
    <3>6. QED
      BY <1>3, <2>7, <3>3, <3>5 DEF UpdatingClient
  <2>10. QED
    BY <2>8, <2>9
<1>7. CASE g.plan = <<AddUser(c, "must")>> /\ User(c, FALSE) /\ On(c)
  <2>1. PICK x : x = AddUser(c, "must")
    OBVIOUS
  <2>2. x = Head(job[j].plan) /\ Tail(job[j].plan) = <<>>
    BY <1>7, <2>1, One
  <2>3. /\ UNCHANGED <<inbound, client>>
        /\ Spared(i)' /\ Quiet'
        /\ \/ Goes(j, Tail(job[j].plan), job[j].failed) /\ User(c, TRUE)'
           \/ \E f : Goes(j, Fallback(j, x), f) /\ User(c, FALSE)'
    BY <1>1, <1>2, <1>3, <1>7, <2>1, <2>2, AddUserTurn
  <2>4. On(c)'
    <3>1. client' = client
      BY <2>3
    <3>2. On(c)
      BY <1>7
    <3>3. QED
      BY <3>1, <3>2 DEF On
  <2>5. CASE Goes(j, Tail(job[j].plan), job[j].failed) /\ User(c, TRUE)'
    <3>1. h.plan = <<>> /\ h.c = c
      BY <1>4, <2>2, <2>5
    <3>2. User(c, On(c))'
      BY <2>4, <2>5, UserOnOff
    <3>3. QED
      BY <1>3, <2>3, <3>1, <3>2 DEF UpdatingClient
  <2>6. CASE \E f : Goes(j, Fallback(j, x), f) /\ User(c, FALSE)'
    <3>1. x.mode = "must" /\ x.do = "addClient"
      BY <2>1 DEF AddUser
    <3>2. Fallback(j, x) = Remedy(g, x)
      BY <3>1, FallsBack
    <3>3. CASE WasOn(g)
      <4>1. Remedy(g, x) = <<RowStep("revertClient"), AddUser(c, "try")>>
        BY <1>2, <3>1, <3>3, Remedies
      <4>2. h.plan = <<RowStep("revertClient"), AddUser(c, "try")>> /\ h.c = c /\ WasOn(h)
        BY <1>4, <2>6, <3>2, <3>3, <4>1
      <4>3. QED
        BY <1>3, <2>3, <2>6, <4>2 DEF UpdatingClient
    <3>4. CASE ~ WasOn(g)
      <4>1. Remedy(g, x) = <<RowStep("revertClient")>>
        BY <3>4, Remedies
      <4>2. h.plan = <<RowStep("revertClient")>> /\ h.c = c /\ ~ WasOn(h)
        BY <1>4, <2>6, <3>2, <3>4, <4>1
      <4>3. User(c, WasOn(h))'
        <5>1. WasOn(h) = FALSE
          BY <4>2 DEF WasOn
        <5>2. QED
          BY <2>6, <5>1
      <4>4. QED
        BY <1>3, <2>3, <4>2, <4>3 DEF UpdatingClient
    <3>5. QED
      BY <3>3, <3>4
  <2>7. QED
    BY <2>3, <2>5, <2>6
<1>8. ASSUME NEW y, Head(g.plan) = RowStep("revertClient"), Tail(g.plan) = y
      PROVE  /\ h.plan = y /\ h.c = c /\ (WasOn(h) <=> WasOn(g))
             /\ Spared(i)' /\ Quiet' /\ WritesClient(c) /\ (On(c)' <=> WasOn(g))
  <2>1. PICK w : w = "revertClient"
    OBVIOUS
  <2>2. Head(job[j].plan) = RowStep(w) /\ w \in ClientRows0
    BY <1>8, <2>1 DEF ClientRows0
  <2>3. /\ Goes(j, Tail(job[j].plan), job[j].failed)
        /\ Spared(i)' /\ Quiet' /\ WritesClient(c)
        /\ w = "revertClient" => (On(c)' <=> WasOn(job[j]))
    BY <1>1, <1>2, <1>3, <2>2, ClientWritten
  <2>4. On(c)' <=> WasOn(g)
    BY <2>1, <2>3
  <2>5. h.plan = y /\ h.c = c /\ (WasOn(h) <=> WasOn(g))
    BY <1>4, <1>8, <2>3
  <2>6. QED
    BY <2>3, <2>4, <2>5
<1>9. CASE /\ g.plan = <<RowStep("revertClient"), AddUser(c, "try")>>
           /\ User(c, FALSE) /\ WasOn(g)
  <2>1. PICK x, y : x = AddUser(c, "try") /\ y = RowStep("revertClient")
    OBVIOUS
  <2>2. Head(g.plan) = y /\ Tail(g.plan) = <<x>>
    BY <1>9, <2>1, Two
  <2>3. /\ h.plan = <<x>> /\ h.c = c
        /\ Spared(i)' /\ Quiet' /\ WritesClient(c) /\ On(c)'
    BY <1>8, <1>9, <2>1, <2>2
  <2>4. User(c, FALSE)'
    BY <1>9, <2>3, UsersKept
  <2>5. QED
    BY <1>3, <2>1, <2>3, <2>4 DEF UpdatingClient
<1>10. CASE g.plan = <<RowStep("revertClient")>> /\ User(c, WasOn(g))
  <2>1. Head(g.plan) = RowStep("revertClient") /\ Tail(g.plan) = <<>>
    BY <1>10, One
  <2>2. /\ h.plan = <<>> /\ h.c = c
        /\ Spared(i)' /\ Quiet' /\ WritesClient(c) /\ (On(c)' <=> WasOn(g))
    BY <1>8, <2>1
  <2>3. PICK b \in BOOLEAN : b = WasOn(g)
    BY DEF WasOn
  <2>4. User(c, b)'
    BY <1>10, <2>2, <2>3, UserKept
  <2>5. b <=> On(c)'
    BY <2>2, <2>3
  <2>6. User(c, On(c))'
    BY <2>4, <2>5, UserOn
  <2>7. QED
    BY <1>3, <2>2, <2>6 DEF UpdatingClient
<1>11. CASE g.plan = <<AddUser(c, "try")>> /\ User(c, FALSE) /\ On(c)
  <2>1. /\ \E f : Goes(j, <<>>, f)
        /\ User(c, On(c))' /\ Spared(i)' /\ Quiet'
    BY <1>1, <1>2, <1>3, <1>11, AddsAgain
  <2>2. h.plan = <<>> /\ h.c = c
    BY <1>4, <2>1
  <2>3. QED
    BY <1>3, <2>1, <2>2 DEF UpdatingClient
<1>12. g.plan # <<>>
  BY SomeStep
<1>13. QED
  BY <1>2, <1>5, <1>6, <1>7, <1>9, <1>10, <1>11, <1>12 DEF UpdatingClient

LEMMA ReportingMoves ==
    ASSUME Types, Kinds, NEW j \in Runners, Moves(j), NEW g, g = job[j], NEW h, h = job'[j],
           g.op \in {"traffic", "expel"}, Reporting(g), Spared(g.i), Quiet
    PROVE  Reporting(h)' /\ Spared(g.i)' /\ Quiet'
<1>1. /\ g.op \in ClientOps /\ g.c \in Clients /\ g.i = InboundOf[g.c] /\ g.op # "enable"
  BY AboutJob DEF ClientOps
<1>2. PICK c \in Clients : c = g.c
  BY <1>1
<1>3. PICK i : i = g.i
  OBVIOUS
<1>4. ASSUME NEW p, NEW f, Goes(j, p, f)
      PROVE  h.plan = p /\ h.c = c
  BY <1>2, <1>4, GoesTo
<1>5. CASE g.plan = <<RowStep("limit")>> /\ User(c, On(c))
  <2>1. PICK w : w = "limit"
    OBVIOUS
  <2>2. Head(job[j].plan) = RowStep(w) /\ Tail(job[j].plan) = <<>>
    BY <1>5, <2>1, One
  <2>3. PICK tail, f : tail = Tail(job[j].plan) /\ f = job[j].failed
    OBVIOUS
  <2>4. w \in Reads
    BY <2>1 DEF Reads
  <2>5. /\ UNCHANGED <<inbound, xray, disturbed>>
        /\ \/ /\ client[c].enable = "on" /\ SetClient(c, "off")
              /\ Goes(j, RemoveClient(c, "try") \o tail, f)
           \/ client' = client /\ Goes(j, tail, f)
    BY <1>2, <2>1, <2>2, <2>3, <2>4, ReadsTurn
  <2>6. CASE /\ client[c].enable = "on" /\ SetClient(c, "off")
             /\ Goes(j, RemoveClient(c, "try") \o tail, f)
    <3>1. PICK x : x = RemoveUser(c, "try")
      OBVIOUS
    <3>2. RemoveClient(c, "try") = <<x>> /\ <<x>> \o tail = <<x>>
      BY <2>2, <2>3, <3>1, Steps, Joins
    <3>3. h.plan = <<x>> /\ h.c = c
      BY <1>4, <2>6, <3>2
    <3>4. client \in [Clients -> ClientRow]
      BY DEF Types
    <3>5. ~ On(c)' /\ \A d \in Clients : d # c => client'[d].enable = client[d].enable
      BY <2>6, <3>4 DEF SetClient, On, HasRow, ClientRow
    <3>6. WritesClient(c)
      BY <2>5, <3>5 DEF WritesClient
    <3>7. User(c, TRUE)
      <4>1. On(c) = TRUE
        BY <2>6 DEF On
      <4>2. QED
        BY <1>5, <4>1
    <3>8. Spared(i)' /\ Quiet' /\ User(c, TRUE)'
      BY <1>1, <1>2, <1>3, <3>6, <3>7, ClientWriteFrame, UsersKept
    <3>9. QED
      BY <1>3, <3>1, <3>3, <3>5, <3>8 DEF Reporting
  <2>7. CASE client' = client /\ Goes(j, tail, f)
    <3>1. WritesClient(c)
      BY <2>5, <2>7 DEF WritesClient
    <3>2. PICK b \in BOOLEAN : b = On(c)
      BY DEF On
    <3>3. User(c, b)'
      BY <1>5, <3>1, <3>2, UserKept
    <3>4. b <=> On(c)'
      BY <2>7, <3>2 DEF On
    <3>5. User(c, On(c))'
      BY <3>3, <3>4, UserOn
    <3>6. Spared(i)' /\ Quiet'
      BY <1>1, <1>2, <1>3, <3>1, ClientWriteFrame
    <3>7. h.plan = <<>> /\ h.c = c
      BY <1>4, <2>2, <2>3, <2>7
    <3>8. QED
      BY <1>3, <3>5, <3>6, <3>7 DEF Reporting
  <2>8. QED
    BY <2>5, <2>6, <2>7
<1>6. ASSUME User(c, TRUE), NEW y, Head(g.plan) = RemoveUser(c, "try"), Tail(g.plan) = y
      PROVE  /\ UNCHANGED <<inbound, client>> /\ Spared(i)' /\ Quiet'
             /\ h.plan = y /\ h.c = c /\ User(c, FALSE)'
  <2>1. PICK x : x = RemoveUser(c, "try")
    OBVIOUS
  <2>2. PICK b \in BOOLEAN : b = TRUE
    OBVIOUS
  <2>3. User(c, b)
    BY <1>6, <2>2
  <2>4. x = Head(job[j].plan) /\ Tail(job[j].plan) = y
    BY <1>6, <2>1
  <2>5. /\ UNCHANGED <<inbound, client>>
        /\ Spared(i)' /\ Quiet'
        /\ \/ Goes(j, Tail(job[j].plan), job[j].failed) /\ User(c, FALSE)'
           \/ \E f : Goes(j, Fallback(j, x), f) /\ User(c, FALSE)'
    BY <1>1, <1>2, <1>3, <2>1, <2>3, <2>4, RemoveUserTurn
  <2>6. x.mode # "must"
    BY <2>1 DEF RemoveUser
  <2>7. Fallback(j, x) = y
    BY <2>4, <2>6, FallsBack
  <2>8. h.plan = y /\ h.c = c /\ User(c, FALSE)'
    BY <1>4, <2>4, <2>5, <2>7
  <2>9. QED
    BY <2>5, <2>8
<1>7. CASE g.plan = <<RemoveUser(c, "try")>> /\ User(c, TRUE) /\ ~ On(c)
  <2>1. Head(g.plan) = RemoveUser(c, "try") /\ Tail(g.plan) = <<>>
    BY <1>7, One
  <2>2. /\ client' = client /\ Spared(i)' /\ Quiet'
        /\ h.plan = <<>> /\ h.c = c /\ User(c, FALSE)'
    BY <1>6, <1>7, <2>1
  <2>3. ~ On(c)'
    BY <1>7, <2>2 DEF On
  <2>4. User(c, On(c))'
    BY <2>2, <2>3, UserOnOff
  <2>5. QED
    BY <1>3, <2>2, <2>4 DEF Reporting
<1>8. CASE /\ g.plan = <<RemoveUser(c, "try"), RowStep("offClient")>>
           /\ User(c, TRUE) /\ On(c)
  <2>1. PICK y : y = RowStep("offClient")
    OBVIOUS
  <2>2. Head(g.plan) = RemoveUser(c, "try") /\ Tail(g.plan) = <<y>>
    BY <1>8, <2>1, Two
  <2>3. /\ client' = client /\ Spared(i)' /\ Quiet'
        /\ h.plan = <<y>> /\ h.c = c /\ User(c, FALSE)'
    BY <1>6, <1>8, <2>2
  <2>4. On(c)'
    BY <1>8, <2>3 DEF On
  <2>5. QED
    BY <1>3, <2>1, <2>3, <2>4 DEF Reporting
<1>9. CASE g.plan = <<RowStep("offClient")>> /\ User(c, FALSE)
  <2>1. PICK w : w = "offClient"
    OBVIOUS
  <2>2. Head(job[j].plan) = RowStep(w) /\ Tail(job[j].plan) = <<>>
    BY <1>9, <2>1, One
  <2>3. w \in ClientRows0
    BY <2>1 DEF ClientRows0
  <2>4. /\ Goes(j, Tail(job[j].plan), job[j].failed)
        /\ Spared(i)' /\ Quiet' /\ WritesClient(c) /\ ~ On(c)'
    BY <1>1, <1>2, <1>3, <2>1, <2>2, <2>3, ClientWritten
  <2>5. User(c, FALSE)'
    BY <1>9, <2>4, UsersKept
  <2>6. User(c, On(c))'
    BY <2>4, <2>5, UserOnOff
  <2>7. h.plan = <<>> /\ h.c = c
    BY <1>4, <2>2, <2>4
  <2>8. QED
    BY <1>3, <2>4, <2>6, <2>7 DEF Reporting
<1>10. g.plan # <<>>
  BY SomeStep
<1>11. QED
  BY <1>2, <1>5, <1>7, <1>8, <1>9, <1>10 DEF Reporting

-----------------------------------------------------------------------------
(* Operations on inbounds, step by step.                                    *)

LEMMA AboutInbound ==
    ASSUME Types, NEW j \in Runners, NEW g, g = job[j], g.op \in InboundOps
    PROVE  /\ g.i \in Inbounds /\ JobOK(g) /\ g.op # "reconcile" /\ g.op # "idle"
           /\ g.failed \in BOOLEAN
<1>1. JobOK(g)
  BY DEF Types
<1>2. QED
  BY <1>1 DEF JobOK, InboundOps

\* A command that changed nothing.
LEMMA NothingDone ==
    ASSUME UNCHANGED <<inbound, client>>, xray' = xray, disturbed' = disturbed
    PROVE  /\ Quiet' <=> Quiet
           /\ Enabled' = Enabled
           /\ \A k : (Known(k)' <=> Known(k)) /\ (Agree(k)' <=> Agree(k))
           /\ \A k, r : Held(k, r)' <=> Held(k, r)
           /\ \A k : Spared(k)' <=> Spared(k)
<1>1. \A k, gen : Merged(k, gen)' = Merged(k, gen)
  BY DEF Merged
<1>2. Enabled' = Enabled
  BY DEF Enabled
<1>3. Quiet' <=> Quiet
  BY <1>2 DEF Quiet
<1>4. \A k : (Known(k)' <=> Known(k)) /\ (Agree(k)' <=> Agree(k))
  BY <1>1 DEF Known, Agree
<1>5. \A k, r : Held(k, r)' <=> Held(k, r)
  BY <1>1 DEF Held, Serves
<1>6. \A k : Spared(k)' <=> Spared(k)
  BY <1>4 DEF Spared
<1>7. QED
  BY <1>2, <1>3, <1>4, <1>5, <1>6

\* A command whose outcome for inbound i is not known.
Lost(i) ==
    /\ {0, i} \subseteq disturbed' /\ disturbed \subseteq disturbed'
    /\ xray.runs => xray'.runs

LEMMA AddOnce ==
    ASSUME Types, Kinds, NEW j \in Runners, Moves(j), job[j].op \in InboundOps,
           NEW i, i = job[j].i, NEW gen, NEW mode \in {"must", "try"},
           NEW x, x = AddStep(i, gen, mode), x = Head(job[j].plan), Spared(i),
           job[j].op = "enable" => mode = "must"
    PROVE  /\ UNCHANGED <<inbound, client>> /\ Spared(i)'
           /\ \/ /\ ~ Reachable(i) /\ xray'.runs /\ xray'.at[i] = Merged(i, gen)
                 /\ disturbed' = disturbed /\ Goes(j, Tail(job[j].plan), job[j].failed)
              \/ /\ xray' = xray /\ disturbed' = disturbed /\ job[j].op # "enable"
                 /\ mode = "try" => Reachable(i)
                 /\ Goes(j, Fallback(j, x), IF mode = "must" THEN TRUE ELSE job[j].failed)
              \/ Lost(i) /\ Goes(j, Fallback(j, x), TRUE)
<1>1. x.do = "addInbound" /\ x.i = i /\ x.gen = gen /\ x.mode = mode
  <2>1. /\ AddStep(i, gen, mode).do = "addInbound" /\ AddStep(i, gen, mode).i = i
        /\ AddStep(i, gen, mode).gen = gen /\ AddStep(i, gen, mode).mode = mode
    BY DEF AddStep
  <2>2. QED
    BY <2>1
<1>2. x.mode # "row" /\ x.mode # "first"
  BY <1>1
<1>3. job[j].op # "reconcile"
  BY AboutInbound
<1>4. /\ UNCHANGED <<inbound, client>> /\ x.i \in Inbounds
      /\ \/ /\ ~ Reachable(x.i) /\ xray'.runs /\ Puts(x.i, Content(j, x))
            /\ disturbed' = disturbed /\ Goes(j, Tail(job[j].plan), job[j].failed)
         \/ /\ Reachable(x.i) /\ xray' = xray
            /\ disturbed' = IF job[j].op = "enable" THEN disturbed \cup {0, job[j].i}
                            ELSE disturbed
            /\ Goes(j, Fallback(j, x), Faulted(j, x))
         \/ NotDone(j, x)
         \/ Loses(x.i) /\ Goes(j, Fallback(j, x), TRUE)
         \/ Restarts(j, x)
  BY <1>1, <1>2, AddTurn
<1>5. Content(j, x) = Merged(i, gen)
  BY <1>1, <1>3 DEF Content
<1>6. Faulted(j, x) = IF mode = "must" THEN TRUE ELSE job[j].failed
  BY <1>1 DEF Faulted
<1>7. i \in Inbounds
  BY <1>1, <1>4
<1>8. CASE /\ ~ Reachable(i) /\ xray'.runs /\ Puts(i, Merged(i, gen))
           /\ disturbed' = disturbed /\ Goes(j, Tail(job[j].plan), job[j].failed)
  <2>1. About(i) /\ xray'.at[i] = Merged(i, gen)
    BY <1>4, <1>7, <1>8 DEF About, Puts
  <2>2. QED
    BY <1>4, <1>8, <2>1, SparedKept
<1>9. ASSUME xray' = xray, disturbed \subseteq disturbed'
      PROVE  Spared(i)'
  <2>1. About(i)
    BY <1>4, <1>9 DEF About
  <2>2. QED
    BY <2>1, SparedKept
<1>10. CASE /\ Reachable(i) /\ xray' = xray
            /\ disturbed' = IF job[j].op = "enable" THEN disturbed \cup {0, job[j].i}
                            ELSE disturbed
            /\ Goes(j, Fallback(j, x), Faulted(j, x))
  <2>1. Spared(i)'
    BY <1>9, <1>10
  <2>2. CASE job[j].op = "enable"
    <3>1. Lost(i)
      BY <1>10, <2>2 DEF Lost
    <3>2. QED
      BY <1>4, <1>6, <1>10, <2>1, <3>1
  <2>3. CASE job[j].op # "enable"
    BY <1>4, <1>6, <1>10, <2>1, <2>3
  <2>4. QED
    BY <2>2, <2>3
<1>11. CASE NotDone(j, x)
  <2>1. /\ mode = "must" /\ job[j].op # "enable" /\ xray' = xray /\ disturbed' = disturbed
        /\ Goes(j, Fallback(j, x), TRUE)
    BY <1>1, <1>11 DEF NotDone
  <2>2. QED
    BY <1>4, <1>9, <2>1
<1>12. CASE Loses(i) /\ Goes(j, Fallback(j, x), TRUE)
  <2>1. About(i)
    BY <1>4, <1>12 DEF About, Loses
  <2>2. Lost(i)
    BY <1>12 DEF Lost, Loses
  <2>3. Spared(i)'
    BY <2>1, SparedKept
  <2>4. QED
    BY <1>4, <1>12, <2>2, <2>3
<1>13. ~ Restarts(j, x)
  BY <1>2 DEF Restarts
<1>14. QED
  BY <1>1, <1>4, <1>5, <1>8, <1>10, <1>11, <1>12, <1>13

LEMMA RemoveOnce ==
    ASSUME Types, Kinds, NEW j \in Runners, Moves(j), job[j].op \in InboundOps,
           job[j].op # "enable", NEW i, i = job[j].i,
           NEW x, x = RemoveStep(i, "must"), x = Head(job[j].plan), Spared(i)
    PROVE  /\ UNCHANGED <<inbound, client>> /\ Spared(i)'
           /\ \/ /\ Reachable(i) /\ xray'.runs /\ xray'.at[i] = Absent
                 /\ disturbed' = disturbed /\ Goes(j, Tail(job[j].plan), job[j].failed)
              \/ /\ xray' = xray /\ disturbed' = disturbed
                 /\ Goes(j, Fallback(j, x), TRUE)
              \/ Lost(i) /\ Goes(j, Fallback(j, x), TRUE)
<1>1. x.do = "removeInbound" /\ x.i = i /\ x.mode = "must"
  <2>1. /\ RemoveStep(i, "must").do = "removeInbound" /\ RemoveStep(i, "must").i = i
        /\ RemoveStep(i, "must").mode = "must"
    BY DEF RemoveStep
  <2>2. QED
    BY <2>1
<1>2. x.mode \in {"must", "try"}
  BY <1>1
<1>3. /\ UNCHANGED <<inbound, client>> /\ x.i \in Inbounds
      /\ \/ /\ Reachable(x.i) /\ xray'.runs /\ Puts(x.i, Absent)
            /\ disturbed' = disturbed /\ Goes(j, Tail(job[j].plan), job[j].failed)
         \/ /\ ~ Reachable(x.i) /\ xray' = xray /\ disturbed' = disturbed
            /\ Goes(j, Fallback(j, x), Faulted(j, x))
         \/ NotDone(j, x)
         \/ Loses(x.i) /\ Goes(j, Fallback(j, x), TRUE)
  BY <1>1, <1>2, RemoveTurn
<1>4. i \in Inbounds
  BY <1>1, <1>3
<1>5. CASE /\ Reachable(i) /\ xray'.runs /\ Puts(i, Absent)
           /\ disturbed' = disturbed /\ Goes(j, Tail(job[j].plan), job[j].failed)
  <2>1. About(i) /\ xray'.at[i] = Absent
    BY <1>3, <1>4, <1>5 DEF About, Puts
  <2>2. QED
    BY <1>3, <1>5, <2>1, SparedKept
<1>6. CASE xray' = xray /\ disturbed' = disturbed /\ Goes(j, Fallback(j, x), TRUE)
  <2>1. Spared(i)'
    BY <1>3, <1>6, NothingDone
  <2>2. QED
    BY <1>3, <1>6, <2>1
<1>7. NotDone(j, x) => xray' = xray /\ disturbed' = disturbed /\ Goes(j, Fallback(j, x), TRUE)
  BY DEF NotDone
<1>8. Faulted(j, x) = TRUE
  BY <1>1 DEF Faulted
<1>9. CASE Loses(i) /\ Goes(j, Fallback(j, x), TRUE)
  <2>1. About(i)
    BY <1>3, <1>9 DEF About, Loses
  <2>2. Lost(i)
    BY <1>9 DEF Lost, Loses
  <2>3. Spared(i)'
    BY <2>1, SparedKept
  <2>4. QED
    BY <1>3, <1>9, <2>2, <2>3
<1>10. QED
  BY <1>1, <1>3, <1>5, <1>6, <1>7, <1>8, <1>9

\* An inbound's row is written in the course of an operation.
LEMMA InboundWritten ==
    ASSUME Types, NEW j \in Runners, Moves(j), NEW w \in {"off", "error", "revertInbound"},
           Head(job[j].plan) = RowStep(w), NEW i \in Inbounds, i = job[j].i, Spared(i)
    PROVE  /\ Goes(j, Tail(job[j].plan), job[j].failed)
           /\ UNCHANGED <<client, xray, disturbed>>
           /\ Spared(i)'
           /\ \A k \in Inbounds : k # i => inbound'[k] = inbound[k]
           /\ w \in {"off", "error"} => inbound'[i].enable # "on"
           /\ w = "revertInbound" => inbound'[i] = job[j].inbound
<1>1. w \in Rows
  BY DEF Rows
<1>2. /\ UNCHANGED <<client, xray, disturbed>>
      /\ Goes(j, Tail(job[j].plan), job[j].failed)
      /\ w = "off" => SetInbound(i, "off")
      /\ w = "error" => SetInbound(i, "error")
      /\ w = "revertInbound" => inbound' = [inbound EXCEPT ![i] = job[j].inbound]
  BY <1>1, RowsTurn
<1>3. inbound \in [Inbounds -> InboundRow]
  BY DEF Types, GoodRows
<1>4. /\ \A k \in Inbounds : k # i => inbound'[k] = inbound[k]
      /\ w \in {"off", "error"} => inbound'[i].enable # "on"
      /\ w = "revertInbound" => inbound'[i] = job[j].inbound
  <2>1. CASE w = "off"
    BY <1>2, <1>3, <2>1 DEF SetInbound, Exists, InboundRow
  <2>2. CASE w = "error"
    BY <1>2, <1>3, <2>2 DEF SetInbound, Exists, InboundRow
  <2>3. CASE w = "revertInbound"
    BY <1>2, <1>3, <2>3
  <2>4. QED
    BY <2>1, <2>2, <2>3
<1>5. About(i)
  BY <1>2, <1>4 DEF About
<1>6. Spared(i)'
  BY <1>5, SparedKept
<1>7. QED
  BY <1>2, <1>4, <1>6

LEMMA CreatingMoves ==
    ASSUME Types, Kinds, NEW j \in Runners, Moves(j), NEW g, g = job[j], NEW h, h = job'[j],
           g.op = "createInbound", Creating(g), Spared(g.i)
    PROVE  Creating(h)' /\ Spared(g.i)'
<1>1. g.op \in InboundOps
  BY DEF InboundOps
<1>2. PICK i \in Inbounds : i = g.i
  BY <1>1, AboutInbound
<1>3. ASSUME NEW p, NEW f, Goes(j, p, f)
      PROVE  h.plan = p /\ h.i = i
  BY <1>2, <1>3, GoesTo
<1>4. CASE /\ g.plan = <<AddStep(i, 1, "must")>> /\ inbound[i] = Row("on", 1)
           /\ Known(i) => xray.at[i] = Absent
           /\ 0 \notin disturbed /\ Enabled \subseteq {i} => ~ xray.runs
  <2>1. PICK x, mode : x = AddStep(i, 1, mode) /\ mode = "must"
    OBVIOUS
  <2>2. x = Head(job[j].plan) /\ Tail(job[j].plan) = <<>>
    BY <1>4, <2>1, One
  <2>3. PICK gen : gen = 1
    OBVIOUS
  <2>4. x = AddStep(i, gen, mode) /\ mode \in {"must", "try"}
    BY <2>1, <2>3
  <2>5. /\ UNCHANGED <<inbound, client>> /\ Spared(i)'
        /\ \/ /\ ~ Reachable(i) /\ xray'.runs /\ xray'.at[i] = Merged(i, gen)
              /\ disturbed' = disturbed /\ Goes(j, Tail(job[j].plan), job[j].failed)
           \/ /\ xray' = xray /\ disturbed' = disturbed
              /\ \E f : Goes(j, Fallback(j, x), f)
           \/ Lost(i) /\ \E f : Goes(j, Fallback(j, x), f)
    BY <1>1, <1>2, <2>1, <2>2, <2>4, AddOnce
  <2>6. inbound' = inbound /\ Enabled' = Enabled /\ Merged(i, gen)' = Merged(i, gen)
    BY <2>5 DEF Enabled, Merged
  <2>7. Fallback(j, x) = <<RowStep("error")>>
    <3>1. x.mode = "must"
      BY <2>1 DEF AddStep
    <3>2. QED
      BY <3>1, FallsBack, Remedies
  <2>8. CASE /\ xray'.runs /\ xray'.at[i] = Merged(i, gen)
             /\ disturbed' = disturbed /\ Goes(j, Tail(job[j].plan), job[j].failed)
    <3>1. h.plan = <<>> /\ h.i = i
      BY <1>3, <2>2, <2>8
    <3>2. Agree(i)'
      BY <1>4, <2>3, <2>6, <2>8 DEF Agree, Row
    <3>3. i \in Enabled'
      BY <1>4, <2>6 DEF Enabled, Row
    <3>4. Quiet'
      BY <3>3 DEF Quiet
    <3>5. QED
      BY <1>2, <2>5, <3>1, <3>2, <3>4 DEF Creating
  <2>9. CASE /\ xray' = xray /\ disturbed' = disturbed /\ \E f : Goes(j, Fallback(j, x), f)
    <3>1. h.plan = <<RowStep("error")>> /\ h.i = i
      BY <1>3, <2>7, <2>9
    <3>2. QED
      BY <1>2, <1>4, <2>5, <2>6, <2>9, <3>1 DEF Creating, Known
  <2>10. CASE Lost(i) /\ \E f : Goes(j, Fallback(j, x), f)
    <3>1. h.plan = <<RowStep("error")>> /\ h.i = i
      BY <1>3, <2>7, <2>10
    <3>2. 0 \in disturbed' /\ i \in disturbed'
      BY <2>10 DEF Lost
    <3>3. QED
      BY <1>2, <1>4, <2>5, <2>6, <3>1, <3>2 DEF Creating, Known
  <2>11. QED
    BY <2>5, <2>8, <2>9, <2>10
<1>5. CASE /\ g.plan = <<RowStep("error")>>
           /\ Known(i) => xray.at[i] = Absent
           /\ 0 \notin disturbed /\ Enabled \subseteq {i} => ~ xray.runs
  <2>1. PICK w : w = "error"
    OBVIOUS
  <2>2. Head(job[j].plan) = RowStep(w) /\ Tail(job[j].plan) = <<>>
    BY <1>5, <2>1, One
  <2>3. w \in {"off", "error", "revertInbound"} /\ w \in {"off", "error"}
    BY <2>1
  <2>4. /\ Goes(j, Tail(job[j].plan), job[j].failed)
        /\ UNCHANGED <<client, xray, disturbed>> /\ Spared(i)'
        /\ \A k \in Inbounds : k # i => inbound'[k] = inbound[k]
        /\ inbound'[i].enable # "on"
    BY <1>2, <2>2, <2>3, InboundWritten
  <2>5. h.plan = <<>> /\ h.i = i
    BY <1>3, <2>2, <2>4
  <2>6. Known(i)' => Agree(i)'
    BY <1>5, <2>4 DEF Known, Agree
  <2>7. Quiet'
    <3>1. Enabled \subseteq Enabled' \cup {i}
      BY <2>4 DEF Enabled
    <3>2. QED
      BY <1>5, <2>4, <3>1 DEF Quiet
  <2>8. QED
    BY <1>2, <2>4, <2>5, <2>6, <2>7 DEF Creating
<1>6. g.plan # <<>>
  BY SomeStep
<1>7. QED
  BY <1>2, <1>4, <1>5, <1>6 DEF Creating

LEMMA UpdatingMoves ==
    ASSUME Types, Kinds, NEW j \in Runners, Moves(j), NEW g, g = job[j], NEW h, h = job'[j],
           g.op = "updateInbound", Updating(g), Spared(g.i)
    PROVE  Updating(h)' /\ Spared(g.i)'
<1>1. g.op \in InboundOps /\ g.op # "enable"
  BY DEF InboundOps
<1>2. PICK i \in Inbounds : i = g.i
  BY <1>1, AboutInbound
<1>3. PICK was, gen : was = g.inbound /\ gen = g.inbound.gen + 1
  OBVIOUS
<1>4. ASSUME NEW p, NEW f, Goes(j, p, f)
      PROVE  h.plan = p /\ h.i = i /\ h.inbound = was /\ h.failed = f
  BY <1>2, <1>3, <1>4, GoesTo
<1>5. g.plan # <<>>
  BY SomeStep
<1>6. /\ Quiet /\ inbound[i] = Row(was.enable, gen) /\ was.enable \in {"on", "error"}
  BY <1>2, <1>3, <1>5 DEF Updating
<1>7. Row(was.enable, gen).enable = was.enable /\ Row(was.enable, gen).gen = gen
  BY DEF Row
<1>8. ASSUME inbound' = inbound, NEW p, h.plan = p, h.i = i, h.inbound = was
      PROVE  h.plan # <<>> => /\ inbound'[h.i] = Row(h.inbound.enable, h.inbound.gen + 1)
                              /\ h.inbound.enable \in {"on", "error"}
  BY <1>3, <1>6, <1>8
<1>9. ASSUME inbound' = inbound, 0 \notin disturbed => xray'.runs /\ Enabled # {},
             disturbed \subseteq disturbed'
      PROVE  Quiet'
  <2>1. Enabled' = Enabled
    BY <1>9 DEF Enabled
  <2>2. QED
    BY <1>9, <2>1 DEF Quiet
<1>10. 0 \notin disturbed /\ xray.runs => Enabled # {}
  BY <1>6 DEF Quiet
<1>11. CASE /\ g.plan = <<RemoveStep(i, "must"), New(g)>>
            /\ Known(i) => Held(i, was)
  <2>1. PICK x, y : x = RemoveStep(i, "must") /\ y = New(g)
    OBVIOUS
  <2>2. x = Head(job[j].plan) /\ Tail(job[j].plan) = <<y>>
    BY <1>11, <2>1, Two
  <2>3. /\ UNCHANGED <<inbound, client>> /\ Spared(i)'
        /\ \/ /\ Reachable(i) /\ xray'.runs /\ xray'.at[i] = Absent
              /\ disturbed' = disturbed /\ Goes(j, Tail(job[j].plan), job[j].failed)
           \/ /\ xray' = xray /\ disturbed' = disturbed
              /\ Goes(j, Fallback(j, x), TRUE)
           \/ Lost(i) /\ Goes(j, Fallback(j, x), TRUE)
    BY <1>1, <1>2, <2>1, <2>2, RemoveOnce
  <2>4. Fallback(j, x) = <<RowStep("revertInbound")>>
    <3>1. x.mode = "must" /\ x.do # "addInbound"
      BY <2>1 DEF RemoveStep
    <3>2. QED
      BY <3>1, FallsBack, Remedies
  <2>5. CASE /\ Reachable(i) /\ xray'.runs /\ xray'.at[i] = Absent
             /\ disturbed' = disturbed /\ Goes(j, Tail(job[j].plan), job[j].failed)
    <3>1. h.plan = <<y>> /\ h.i = i /\ h.inbound = was
      BY <1>4, <2>2, <2>5
    <3>2. y = New(h)
      BY <1>2, <1>3, <2>1, <3>1 DEF New
    <3>3. Known(i)' => was.enable = "on"
      BY <1>11, <2>5 DEF Known, Held, Reachable
    <3>4. Quiet'
      BY <1>9, <1>10, <2>3, <2>5 DEF Reachable
    <3>5. h.plan = <<New(h)>>
      BY <3>1, <3>2
    <3>6. QED
      BY <1>2, <1>8, <2>3, <2>5, <3>1, <3>3, <3>4, <3>5 DEF Updating, New
  <2>6. CASE /\ xray' = xray /\ disturbed' = disturbed /\ Goes(j, Fallback(j, x), TRUE)
    <3>1. h.plan = <<RowStep("revertInbound")>> /\ h.i = i /\ h.inbound = was /\ h.failed
      BY <1>4, <2>4, <2>6
    <3>2. Quiet' /\ (Known(i)' => Held(i, was)')
      BY <1>6, <1>11, <2>3, <2>6, NothingDone
    <3>3. QED
      BY <1>2, <1>8, <2>3, <3>1, <3>2 DEF Updating
  <2>7. CASE Lost(i) /\ Goes(j, Fallback(j, x), TRUE)
    <3>1. h.plan = <<RowStep("revertInbound")>> /\ h.i = i /\ h.inbound = was /\ h.failed
      BY <1>4, <2>4, <2>7
    <3>2. Quiet' /\ ~ Known(i)'
      BY <2>7 DEF Lost, Quiet, Known
    <3>3. QED
      BY <1>2, <1>8, <2>3, <3>1, <3>2 DEF Updating
  <2>8. QED
    BY <2>3, <2>5, <2>6, <2>7
<1>12. CASE /\ g.plan = <<New(g)>>
            /\ xray.at[i] = Absent /\ xray.runs
            /\ Known(i) => was.enable = "on"
  <2>1. PICK mode : mode = "must"
    OBVIOUS
  <2>2. PICK x : x = AddStep(i, gen, mode)
    OBVIOUS
  <2>3. x = Head(job[j].plan) /\ Tail(job[j].plan) = <<>>
    BY <1>2, <1>3, <1>12, <2>1, <2>2, One DEF New
  <2>4. mode \in {"must", "try"}
    BY <2>1
  <2>5. /\ UNCHANGED <<inbound, client>> /\ Spared(i)'
        /\ \/ /\ ~ Reachable(i) /\ xray'.runs /\ xray'.at[i] = Merged(i, gen)
              /\ disturbed' = disturbed /\ Goes(j, Tail(job[j].plan), job[j].failed)
           \/ /\ xray' = xray /\ disturbed' = disturbed
              /\ Goes(j, Fallback(j, x), TRUE)
           \/ Lost(i) /\ Goes(j, Fallback(j, x), TRUE)
    BY <1>1, <1>2, <2>1, <2>2, <2>3, <2>4, AddOnce
  <2>6. Fallback(j, x) = <<Old(g), RowStep("revertInbound")>>
    <3>1. x.mode = "must" /\ x.do = "addInbound"
      BY <2>1, <2>2 DEF AddStep
    <3>2. QED
      BY <3>1, FallsBack, Remedies
  <2>7. CASE /\ xray'.runs /\ xray'.at[i] = Merged(i, gen)
             /\ disturbed' = disturbed /\ Goes(j, Tail(job[j].plan), job[j].failed)
    <3>1. h.plan = <<>> /\ h.i = i /\ h.inbound = was
      BY <1>4, <2>3, <2>7
    <3>2. Merged(i, gen)' = Merged(i, gen) /\ inbound' = inbound
      BY <2>5 DEF Merged
    <3>3. was.enable = "on" => Agree(i)'
      BY <1>6, <1>7, <2>7, <3>2 DEF Agree
    <3>4. Quiet'
      BY <1>9, <1>10, <1>12, <2>5, <2>7
    <3>5. Known(i)' => was.enable = "on"
      BY <1>12, <2>7 DEF Known
    <3>6. QED
      BY <1>2, <2>5, <3>1, <3>3, <3>4, <3>5 DEF Updating
  <2>8. ASSUME Goes(j, Fallback(j, x), TRUE)
        PROVE  /\ h.plan = <<Old(h), RowStep("revertInbound")>> /\ h.i = i /\ h.inbound = was
               /\ h.failed
    <3>1. h.plan = <<Old(g), RowStep("revertInbound")>> /\ h.i = i /\ h.inbound = was
          /\ h.failed
      BY <1>4, <2>6, <2>8
    <3>2. Old(h) = Old(g)
      BY <1>2, <1>3, <3>1 DEF Old
    <3>3. QED
      BY <3>1, <3>2
  <2>9. CASE /\ xray' = xray /\ disturbed' = disturbed /\ Goes(j, Fallback(j, x), TRUE)
    <3>1. Quiet'
      BY <1>6, <2>5, <2>9, NothingDone
    <3>2. Known(i)' => xray'.at[i] = Absent /\ was.enable = "on"
      BY <1>12, <2>9 DEF Known
    <3>3. xray'.runs
      BY <1>12, <2>9
    <3>4. PICK p : p = h.plan
      OBVIOUS
    <3>5. QED
      BY <1>2, <1>8, <2>5, <2>8, <2>9, <3>1, <3>2, <3>3 DEF Updating, Old
  <2>10. CASE Lost(i) /\ Goes(j, Fallback(j, x), TRUE)
    <3>1. Quiet' /\ ~ Known(i)' /\ 0 \in disturbed'
      BY <2>10 DEF Lost, Quiet, Known
    <3>2. QED
      BY <1>2, <1>8, <2>5, <2>8, <2>10, <3>1 DEF Updating, Old
  <2>11. QED
    BY <2>5, <2>7, <2>9, <2>10
<1>13. CASE /\ g.plan = <<Old(g), RowStep("revertInbound")>>
            /\ Known(i) => xray.at[i] = Absent /\ was.enable = "on"
            /\ 0 \notin disturbed => xray.runs
            /\ g.failed
  <2>1. PICK mode : mode = "try"
    OBVIOUS
  <2>2. PICK x, y : x = AddStep(i, was.gen, mode) /\ y = RowStep("revertInbound")
    OBVIOUS
  <2>3. x = Old(g)
    BY <1>2, <1>3, <2>1, <2>2 DEF Old
  <2>4. x = Head(job[j].plan) /\ Tail(job[j].plan) = <<y>>
    BY <1>13, <2>2, <2>3, Two
  <2>5. mode \in {"must", "try"} /\ mode # "must"
    BY <2>1
  <2>6. PICK old : old = was.gen
    OBVIOUS
  <2>7. Fallback(j, x) = <<y>>
    <3>1. x.mode # "must"
      BY <2>1, <2>2 DEF AddStep
    <3>2. QED
      BY <2>4, <3>1, FallsBack
  <2>8. /\ UNCHANGED <<inbound, client>> /\ Spared(i)'
        /\ \/ /\ xray'.runs /\ xray'.at[i] = Merged(i, old)
              /\ disturbed' = disturbed /\ Goes(j, <<y>>, TRUE)
           \/ /\ xray' = xray /\ disturbed' = disturbed /\ Reachable(i)
              /\ Goes(j, <<y>>, TRUE)
           \/ Lost(i) /\ Goes(j, <<y>>, TRUE)
    <3>1. x = AddStep(i, old, mode)
      BY <2>2, <2>6
    <3>2. /\ UNCHANGED <<inbound, client>> /\ Spared(i)'
          /\ \/ /\ ~ Reachable(i) /\ xray'.runs /\ xray'.at[i] = Merged(i, old)
                /\ disturbed' = disturbed /\ Goes(j, Tail(job[j].plan), job[j].failed)
             \/ /\ xray' = xray /\ disturbed' = disturbed /\ Reachable(i)
                /\ Goes(j, Fallback(j, x), job[j].failed)
             \/ Lost(i) /\ Goes(j, Fallback(j, x), TRUE)
      BY <1>1, <1>2, <2>1, <2>4, <2>5, <3>1, AddOnce
    <3>3. job[j].failed = TRUE
      <4>1. job[j].failed \in BOOLEAN
        BY <1>1, AboutInbound
      <4>2. QED
        BY <1>13, <4>1
    <3>4. QED
      BY <2>4, <2>7, <3>2, <3>3
  <2>9. CASE /\ xray'.runs /\ xray'.at[i] = Merged(i, old)
             /\ disturbed' = disturbed /\ Goes(j, <<y>>, TRUE)
    <3>1. h.plan = <<RowStep("revertInbound")>> /\ h.i = i /\ h.inbound = was /\ h.failed
      BY <1>4, <2>2, <2>9
    <3>2. Merged(i, old)' = Merged(i, old)
      BY <2>8 DEF Merged
    <3>3. Known(i)' => Held(i, was)'
      BY <1>13, <2>6, <2>9, <3>2 DEF Known, Held, Serves
    <3>4. Quiet'
      BY <1>9, <1>10, <1>13, <2>8, <2>9
    <3>5. QED
      BY <1>2, <1>8, <2>8, <3>1, <3>3, <3>4 DEF Updating
  <2>10. CASE /\ xray' = xray /\ disturbed' = disturbed /\ Reachable(i)
              /\ Goes(j, <<y>>, TRUE)
    <3>1. h.plan = <<RowStep("revertInbound")>> /\ h.i = i /\ h.inbound = was /\ h.failed
      BY <1>4, <2>2, <2>10
    <3>2. ~ Known(i)'
      BY <1>13, <2>10 DEF Known, Reachable
    <3>3. Quiet'
      BY <1>6, <2>8, <2>10, NothingDone
    <3>4. QED
      BY <1>2, <1>8, <2>8, <3>1, <3>2, <3>3 DEF Updating
  <2>11. CASE Lost(i) /\ Goes(j, <<y>>, TRUE)
    <3>1. h.plan = <<RowStep("revertInbound")>> /\ h.i = i /\ h.inbound = was /\ h.failed
      BY <1>4, <2>2, <2>11
    <3>2. Quiet' /\ ~ Known(i)'
      BY <2>11 DEF Lost, Quiet, Known
    <3>3. QED
      BY <1>2, <1>8, <2>8, <3>1, <3>2 DEF Updating
  <2>12. QED
    BY <2>8, <2>9, <2>10, <2>11
<1>14. CASE g.plan = <<RowStep("revertInbound")>> /\ (Known(i) => Held(i, was)) /\ g.failed
  <2>1. PICK w : w = "revertInbound"
    OBVIOUS
  <2>2. Head(job[j].plan) = RowStep(w) /\ Tail(job[j].plan) = <<>>
    BY <1>14, <2>1, One
  <2>3. w \in {"off", "error", "revertInbound"}
    BY <2>1
  <2>4. /\ Goes(j, Tail(job[j].plan), job[j].failed)
        /\ UNCHANGED <<client, xray, disturbed>> /\ Spared(i)'
        /\ \A k \in Inbounds : k # i => inbound'[k] = inbound[k]
        /\ inbound'[i] = was
    BY <1>2, <1>3, <2>1, <2>2, <2>3, InboundWritten
  <2>5. h.plan = <<>> /\ h.i = i /\ h.failed
    BY <1>4, <1>14, <2>2, <2>4
  <2>6. Known(i)' => Agree(i)'
    <3>1. Merged(i, was.gen)' = Merged(i, was.gen)
      BY <2>4 DEF Merged
    <3>2. Known(i)' => Held(i, was)
      BY <1>14, <2>4 DEF Known
    <3>3. Held(i, was) => Agree(i)'
      BY <2>4, <3>1 DEF Held, Serves, Agree
    <3>4. QED
      BY <3>2, <3>3
  <2>7. Quiet'
    <3>1. Enabled' = Enabled
      BY <1>6, <1>7, <2>4 DEF Enabled
    <3>2. QED
      BY <1>6, <2>4, <3>1 DEF Quiet
  <2>8. QED
    BY <1>2, <2>4, <2>5, <2>6, <2>7 DEF Updating
<1>15. QED
  BY <1>2, <1>3, <1>5, <1>11, <1>12, <1>13, <1>14 DEF Updating

LEMMA RemovingMoves ==
    ASSUME Types, Kinds, NEW j \in Runners, Moves(j), NEW g, g = job[j], NEW h, h = job'[j],
           g.op \in {"disable", "deleteInbound"}, Removing(g), Spared(g.i)
    PROVE  Removing(h)' /\ Spared(g.i)'
<1>1. g.op \in InboundOps /\ g.op # "enable"
  BY DEF InboundOps
<1>2. PICK i \in Inbounds : i = g.i
  BY <1>1, AboutInbound
<1>3. ASSUME NEW p, NEW f, Goes(j, p, f)
      PROVE  /\ h.plan = p /\ h.i = i /\ h.failed = f /\ (Offline(h) <=> Offline(g))
             /\ h.op = g.op /\ (Offline(h) => h.op = "deleteInbound")
             /\ Removed(h) = Removed(g)
  <2>1. /\ h.plan = p /\ h.i = g.i /\ h.failed = f /\ h.op = g.op /\ h.want = g.want
    BY <1>3, GoesTo
  <2>2. Offline(g) => g.op = "deleteInbound"
    BY DEF Removing
  <2>3. QED
    BY <1>2, <2>1, <2>2 DEF Offline, Removed
<1>4. CASE /\ g.plan = <<RemoveStep(i, "must"), Removed(g), RowStep("last")>>
           /\ Known(i) => Agree(i)
           /\ Quiet
  <2>1. PICK x, y, z : x = RemoveStep(i, "must") /\ y = Removed(g) /\ z = RowStep("last")
    OBVIOUS
  <2>2. x = Head(job[j].plan) /\ Tail(job[j].plan) = <<y, z>>
    BY <1>4, <2>1, Three
  <2>3. /\ UNCHANGED <<inbound, client>> /\ Spared(i)'
        /\ \/ /\ Reachable(i) /\ xray'.runs /\ xray'.at[i] = Absent
              /\ disturbed' = disturbed /\ Goes(j, Tail(job[j].plan), job[j].failed)
           \/ /\ xray' = xray /\ disturbed' = disturbed
              /\ Goes(j, Fallback(j, x), TRUE)
           \/ Lost(i) /\ Goes(j, Fallback(j, x), TRUE)
    BY <1>1, <1>2, <2>1, <2>2, RemoveOnce
  <2>4. Fallback(j, x) = <<>>
    <3>1. x.mode = "must"
      BY <2>1 DEF RemoveStep
    <3>2. QED
      BY <3>1, FallsBack, Remedies
  <2>5. CASE /\ xray'.at[i] = Absent /\ Goes(j, Tail(job[j].plan), job[j].failed)
    <3>1. h.plan = <<y, z>> /\ h.i = i /\ Removed(h) = Removed(g)
          /\ (Offline(h) => h.op = "deleteInbound")
      BY <1>3, <2>2, <2>5
    <3>2. h.plan = <<Removed(h), RowStep("last")>>
      BY <2>1, <3>1
    <3>3. QED
      BY <1>2, <2>3, <2>5, <3>1, <3>2 DEF Removing, Removed, Offline
  <2>6. ASSUME Goes(j, Fallback(j, x), TRUE), Quiet', Known(i)' => Agree(i)'
        PROVE  Removing(h)'
    <3>1. h.plan = <<>> /\ h.i = i /\ h.failed /\ (Offline(h) => h.op = "deleteInbound")
      BY <1>3, <2>4, <2>6
    <3>2. QED
      BY <2>6, <3>1 DEF Removing, Offline
  <2>7. CASE /\ xray' = xray /\ disturbed' = disturbed /\ Goes(j, Fallback(j, x), TRUE)
    <3>1. Quiet' /\ (Known(i)' => Agree(i)')
      BY <1>4, <2>3, <2>7, NothingDone
    <3>2. QED
      BY <1>2, <2>3, <2>6, <2>7, <3>1
  <2>8. CASE Lost(i) /\ Goes(j, Fallback(j, x), TRUE)
    <3>1. Quiet' /\ ~ Known(i)'
      BY <2>8 DEF Lost, Quiet, Known
    <3>2. QED
      BY <1>2, <2>3, <2>6, <2>8, <3>1
  <2>9. QED
    BY <2>3, <2>5, <2>7, <2>8
<1>5. CASE g.plan = <<Removed(g), RowStep("last")>> /\ (~ Offline(g) => xray.at[i] = Absent)
  <2>1. PICK y, z : y = Removed(g) /\ z = RowStep("last")
    OBVIOUS
  <2>2. Head(job[j].plan) = Removed(g) /\ Tail(job[j].plan) = <<z>>
    BY <1>5, <2>1, Two
  <2>3. ASSUME Goes(j, Tail(job[j].plan), job[j].failed), inbound'[i].enable # "on",
               Offline(g) => {0, i} \subseteq disturbed', xray' = xray
        PROVE  Removing(h)'
    <3>1. h.plan = <<z>> /\ h.i = i /\ (Offline(h) <=> Offline(g))
          /\ (Offline(h) => h.op = "deleteInbound")
      BY <1>3, <2>2, <2>3
    <3>2. h.plan = <<RowStep("last")>>
      BY <2>1, <3>1
    <3>3. IF Offline(h) THEN {0, h.i} \subseteq disturbed' ELSE xray'.at[h.i] = Absent
      BY <1>5, <2>3, <3>1
    <3>4. h.plan # <<StopStep>>
      <4>1. PICK a, b : a = RowStep("last") /\ b = StopStep
        OBVIOUS
      <4>2. a # b
        BY <4>1, StepFacts
      <4>3. <<a>> # <<b>>
        BY <4>2, One
      <4>4. QED
        BY <3>2, <4>1, <4>3
    <3>5. QED
      BY <2>3, <3>1, <3>2, <3>3, <3>4 DEF Removing, Offline
  <2>4. CASE g.op = "disable"
    <3>1. PICK w : w = "off"
      OBVIOUS
    <3>2. Head(job[j].plan) = RowStep(w) /\ w \in {"off", "error", "revertInbound"}
          /\ w \in {"off", "error"}
      BY <2>2, <2>4, <3>1 DEF Removed
    <3>3. /\ Goes(j, Tail(job[j].plan), job[j].failed)
          /\ UNCHANGED <<client, xray, disturbed>> /\ Spared(i)'
          /\ inbound'[i].enable # "on"
      BY <1>2, <3>2, InboundWritten
    <3>4. ~ Offline(g)
      BY <2>4 DEF Removing
    <3>5. QED
      BY <1>2, <2>3, <3>3, <3>4
  <2>5. CASE g.op = "deleteInbound"
    <3>1. Head(job[j].plan) = RowStep("drop")
      BY <2>2, <2>5 DEF Removed
    <3>2. /\ xray' = xray
          /\ inbound' = [inbound EXCEPT ![i] = Gone]
          /\ client' = [c \in Clients |-> IF InboundOf[c] = i THEN NoClient
                                          ELSE client[c]]
          /\ disturbed' = IF job[j].want = "offline" THEN disturbed \cup {0, i}
                          ELSE disturbed
          /\ Goes(j, Tail(job[j].plan), job[j].failed)
      BY <1>2, <3>1, DropTurn
    <3>3. inbound \in [Inbounds -> InboundRow]
      BY DEF Types, GoodRows
    <3>4. /\ inbound'[i].enable # "on"
          /\ \A k \in Inbounds : k # i => inbound'[k] = inbound[k]
      BY <3>2, <3>3 DEF Gone
    <3>5. /\ Offline(g) => {0, i} \subseteq disturbed'
          /\ disturbed \subseteq disturbed'
      BY <3>2 DEF Offline
    <3>6. About(i)
      BY <3>2, <3>4, <3>5 DEF About
    <3>7. QED
      BY <1>2, <2>3, <3>2, <3>4, <3>5, <3>6, SparedKept
  <2>6. QED
    BY <2>4, <2>5
<1>6. ASSUME inbound[i].enable # "on", inbound' = inbound, xray'.at = xray.at,
             disturbed \subseteq disturbed',
             IF Offline(g) THEN {0, i} \subseteq disturbed ELSE xray.at[i] = Absent
      PROVE  /\ Known(i)' => Agree(i)'
             /\ ~ Offline(g) => Agree(i)'
             /\ Offline(g) => 0 \in disturbed'
  <2>1. ~ Offline(g) => Agree(i)'
    BY <1>6 DEF Agree
  <2>2. Offline(g) => ~ Known(i)'
    BY <1>6 DEF Known
  <2>3. QED
    BY <1>6, <2>1, <2>2
<1>7. CASE /\ g.plan = <<RowStep("last")>>
           /\ inbound[i].enable # "on"
           /\ IF Offline(g) THEN {0, i} \subseteq disturbed ELSE xray.at[i] = Absent
  <2>1. PICK w : w = "last"
    OBVIOUS
  <2>2. Head(job[j].plan) = RowStep(w) /\ Tail(job[j].plan) = <<>>
    BY <1>7, <2>1, One
  <2>3. PICK tail, f : tail = Tail(job[j].plan) /\ f = job[j].failed
    OBVIOUS
  <2>4. w \in Reads
    BY <2>1 DEF Reads
  <2>5. /\ UNCHANGED <<inbound, xray, disturbed>> /\ client' = client
        /\ Goes(j, (IF Enabled = {} THEN Stop ELSE <<>>) \o tail, f)
    BY <2>1, <2>2, <2>3, <2>4, ReadsTurn
  <2>6. Spared(i)' /\ Enabled' = Enabled
    BY <1>2, <2>5, NothingDone
  <2>7. CASE Enabled = {}
    <3>1. PICK x : x = StopStep
      OBVIOUS
    <3>2. Stop = <<x>> /\ <<x>> \o <<>> = <<x>>
      BY <3>1, Steps, Joins
    <3>3. h.plan = <<StopStep>> /\ h.i = i /\ (Offline(h) <=> Offline(g))
          /\ (Offline(h) => h.op = "deleteInbound")
      BY <1>3, <2>2, <2>3, <2>5, <2>7, <3>1, <3>2
    <3>4. /\ inbound'[i].enable # "on"
          /\ IF Offline(h) THEN {0, i} \subseteq disturbed' ELSE xray'.at[i] = Absent
      BY <1>7, <2>5, <3>3
    <3>5. QED
      BY <1>2, <2>6, <2>7, <3>3, <3>4 DEF Removing, Offline
  <2>8. CASE Enabled # {}
    <3>1. <<>> \o <<>> = <<>>
      BY Joins
    <3>2. h.plan = <<>> /\ h.i = i /\ (Offline(h) <=> Offline(g))
          /\ (Offline(h) => h.op = "deleteInbound")
      BY <1>3, <2>2, <2>3, <2>5, <2>8, <3>1
    <3>3. Quiet' /\ Enabled' # {}
      BY <2>6, <2>8 DEF Quiet
    <3>4. (Known(i)' => Agree(i)') /\ (~ Offline(g) => Agree(i)')
      BY <1>6, <1>7, <2>5
    <3>5. QED
      BY <1>2, <2>6, <3>2, <3>3, <3>4 DEF Removing, Offline
  <2>9. QED
    BY <2>7, <2>8
<1>8. CASE /\ g.plan = <<StopStep>> /\ Enabled = {}
           /\ inbound[i].enable # "on"
           /\ IF Offline(g) THEN {0, i} \subseteq disturbed ELSE xray.at[i] = Absent
  <2>1. Head(job[j].plan) = StopStep /\ Tail(job[j].plan) = <<>>
    BY <1>8, One
  <2>2. /\ UNCHANGED <<inbound, client>> /\ xray'.at = xray.at
        /\ \/ /\ ~ xray'.runs /\ disturbed' = disturbed
              /\ Goes(j, <<>>, job[j].failed)
           \/ /\ 0 \in disturbed' /\ disturbed \subseteq disturbed'
              /\ Goes(j, <<>>, TRUE)
    BY <1>1, <2>1, StopTurn
  <2>3. Spared(i)'
    BY <1>2, <1>8, <2>2, SparedStopped
  <2>4. (Known(i)' => Agree(i)') /\ (~ Offline(g) => Agree(i)')
    BY <1>6, <1>8, <2>2
  <2>5. Quiet'
    BY <2>2 DEF Quiet
  <2>6. h.plan = <<>> /\ h.i = i /\ (Offline(h) <=> Offline(g))
        /\ (Offline(h) => h.op = "deleteInbound")
        /\ (~ xray'.runs \/ h.failed)
    BY <1>3, <2>2
  <2>7. QED
    BY <1>2, <2>3, <2>4, <2>5, <2>6 DEF Removing, Offline
<1>9. g.plan # <<>>
  BY SomeStep
<1>10. QED
  BY <1>2, <1>4, <1>5, <1>7, <1>8, <1>9 DEF Removing

LEMMA EnablingMoves ==
    ASSUME Types, Kinds, NEW j \in Runners, Moves(j), NEW g, g = job[j], NEW h, h = job'[j],
           g.op = "enable", Enabling(g), Spared(g.i)
    PROVE  Enabling(h)' /\ Spared(g.i)'
<1>1. g.op \in InboundOps
  BY DEF InboundOps
<1>2. PICK i \in Inbounds : i = g.i
  BY <1>1, AboutInbound
<1>3. ASSUME NEW p, NEW f, Goes(j, p, f)
      PROVE  h.plan = p /\ h.i = i /\ h.failed = f
  BY <1>2, <1>3, GoesTo
<1>4. CASE /\ g.plan = <<AddStep(i, inbound[i].gen, "must")>>
           /\ inbound[i].enable = "on" /\ ~ g.failed
  <2>1. PICK mode, gen : mode = "must" /\ gen = inbound[i].gen
    OBVIOUS
  <2>2. PICK x : x = AddStep(i, gen, mode)
    OBVIOUS
  <2>3. x = Head(job[j].plan) /\ Tail(job[j].plan) = <<>> /\ mode \in {"must", "try"}
    BY <1>4, <2>1, <2>2, One
  <2>4. /\ UNCHANGED <<inbound, client>> /\ Spared(i)'
        /\ \/ /\ xray'.runs /\ xray'.at[i] = Merged(i, gen)
              /\ Goes(j, Tail(job[j].plan), job[j].failed)
           \/ Lost(i) /\ Goes(j, Fallback(j, x), TRUE)
    BY <1>1, <1>2, <2>1, <2>2, <2>3, AddOnce
  <2>5. Fallback(j, x) = <<RowStep("off")>>
    <3>1. x.mode = "must"
      BY <2>1, <2>2 DEF AddStep
    <3>2. QED
      BY <3>1, FallsBack, Remedies
  <2>6. CASE /\ xray'.runs /\ xray'.at[i] = Merged(i, gen)
             /\ Goes(j, Tail(job[j].plan), job[j].failed)
    <3>1. h.plan = <<>> /\ h.i = i /\ (h.failed <=> g.failed)
      BY <1>3, <2>3, <2>6
    <3>2. Merged(i, gen)' = Merged(i, gen) /\ inbound'[i].enable = "on"
      BY <1>4, <2>4 DEF Merged
    <3>3. Agree(i)'
      BY <2>1, <2>4, <2>6, <3>2 DEF Agree
    <3>4. QED
      BY <1>2, <1>4, <2>4, <3>1, <3>2, <3>3 DEF Enabling
  <2>7. CASE Lost(i) /\ Goes(j, Fallback(j, x), TRUE)
    <3>1. h.plan = <<RowStep("off")>> /\ h.i = i /\ h.failed
      BY <1>3, <2>5, <2>7
    <3>2. {0, i} \subseteq disturbed'
      BY <2>7 DEF Lost
    <3>3. QED
      BY <1>2, <2>4, <3>1, <3>2 DEF Enabling
  <2>8. QED
    BY <2>4, <2>6, <2>7
<1>5. CASE g.plan = <<RowStep("off")>> /\ {0, i} \subseteq disturbed /\ g.failed
  <2>1. PICK w : w = "off"
    OBVIOUS
  <2>2. Head(job[j].plan) = RowStep(w) /\ Tail(job[j].plan) = <<>>
    BY <1>5, <2>1, One
  <2>3. w \in {"off", "error", "revertInbound"}
    BY <2>1
  <2>4. /\ Goes(j, Tail(job[j].plan), job[j].failed)
        /\ disturbed' = disturbed /\ Spared(i)'
    BY <1>2, <2>2, <2>3, InboundWritten
  <2>5. h.plan = <<>> /\ h.i = i /\ h.failed
    BY <1>3, <1>5, <2>2, <2>4
  <2>6. QED
    BY <1>2, <1>5, <2>4, <2>5 DEF Enabling
<1>6. g.plan # <<>>
  BY SomeStep
<1>7. QED
  BY <1>2, <1>4, <1>5, <1>6 DEF Enabling

-----------------------------------------------------------------------------
(* A reconcile, step by step.                                               *)

LEMMA RowsKept ==
    ASSUME UNCHANGED <<inbound, client>>
    PROVE  /\ Wanted' = Wanted /\ Enabled' = Enabled
           /\ \A k \in Inbounds : Deployed(k)' = Deployed(k)
           /\ [k \in Inbounds |-> Deployed(k)]' = [k \in Inbounds |-> Deployed(k)]
           /\ \A k : (inbound'[k].enable = "error" <=> inbound[k].enable = "error")
           /\ \A k : Exists(k)' <=> Exists(k)
<1>1. Wanted' = Wanted /\ Enabled' = Enabled
  BY DEF Wanted, Enabled
<1>2. \A k, gen : Merged(k, gen)' = Merged(k, gen)
  BY DEF Merged
<1>3. \A k \in Inbounds : Deployed(k)' = Deployed(k)
  BY <1>1, <1>2 DEF Deployed
<1>4. QED
  BY <1>1, <1>3 DEF Exists

LEMMA WantedOnes ==
    ASSUME Types
    PROVE  /\ Enabled \subseteq Wanted /\ Wanted \subseteq Inbounds
           /\ \A k \in Wanted : Deployed(k) # Absent /\ Exists(k)
           /\ \A k \in Inbounds : k \notin Wanted => Deployed(k) = Absent
           /\ \A k \in Enabled : Agree(k) <=> Restored(k)
           /\ \A k \in Inbounds : k \notin Enabled => (Agree(k) <=> xray.at[k] = Absent)
<1>1. Enabled \subseteq Wanted /\ Wanted \subseteq Inbounds
  BY DEF Enabled, Wanted
<1>2. ASSUME NEW k \in Wanted
      PROVE  Deployed(k) # Absent /\ Exists(k)
  <2>1. k \in Inbounds /\ Exists(k)
    BY DEF Wanted, Exists
  <2>2. inbound[k].gen \in 1..MaxGen[k]
    BY <2>1, InboundRows DEF Types
  <2>3. QED
    BY <2>1, <2>2, MergedGood DEF Deployed
<1>3. \A k \in Enabled : Agree(k) <=> Restored(k)
  BY <1>1 DEF Enabled, Agree, Restored, Serves, Deployed
<1>4. \A k \in Inbounds : k \notin Enabled => (Agree(k) <=> xray.at[k] = Absent)
  BY DEF Enabled, Agree
<1>5. QED
  BY <1>1, <1>2, <1>3, <1>4 DEF Deployed

LEMMA Gathers ==
    ASSUME UNCHANGED <<inbound, client>>, NEW A, NEW B, NEW i \in Wanted, A \subseteq B \cup {i},
           Gathered(A), disturbed \subseteq disturbed', xray.runs => xray'.runs,
           \A k \in Inbounds : k # i => xray'.at[k] = xray.at[k],
           i \notin disturbed' => xray'.runs /\ xray'.at[i] = Deployed(i)
    PROVE  Gathered(B)'
<1>1. /\ Wanted' = Wanted /\ Enabled' = Enabled
      /\ \A k \in Inbounds : Deployed(k)' = Deployed(k)
  BY RowsKept
<1>2. i \in Inbounds
  BY DEF Wanted
<1>3. ASSUME NEW k \in Inbounds, Known(k)', k # i
      PROVE  /\ k \in Enabled' \/ (k \in Wanted' /\ k \notin B) => Restored(k)'
             /\ xray'.at[k] = Absent \/ (k \in Wanted' /\ Restored(k)')
  <2>1. Known(k) /\ (k \notin B => k \notin A)
    BY <1>3 DEF Known
  <2>2. Restored(k) => Restored(k)'
    BY <1>1, <1>3 DEF Restored, Serves
  <2>3. QED
    BY <1>1, <1>3, <2>1, <2>2 DEF Gathered
<1>4. ASSUME Known(i)' PROVE Restored(i)' /\ i \in Wanted'
  BY <1>1, <1>2, <1>4 DEF Known, Restored, Serves
<1>5. QED
  BY <1>3, <1>4 DEF Gathered

LEMMA StaysPresent ==
    ASSUME UNCHANGED <<inbound, client>>, NEW A, NEW B, NEW i \in Wanted, A \subseteq B \cup {i},
           Present(A), xray.runs => xray'.runs,
           \A k \in Inbounds : k # i => xray'.at[k] = xray.at[k], Reachable(i)'
    PROVE  Present(B)'
<1>1. Wanted' = Wanted /\ Wanted \subseteq Inbounds
  BY RowsKept DEF Wanted
<1>2. QED
  BY <1>1 DEF Present, Reachable

LEMMA KeptWithoutChange ==
    ASSUME UNCHANGED <<inbound, client>>, xray' = xray, disturbed' = disturbed
    PROVE  Kept' <=> Kept
BY NothingDone DEF Kept

\* One inbound less to add.
LEMMA OneLess ==
    ASSUME Types, NEW j \in Runners, NEW g, g = job[j], NEW n \in Nat, Adds(g, n), n # 0,
           NEW h, h.plan = Tail(g.plan), UNCHANGED <<inbound, client>>
    PROVE  /\ Adds(h, n - 1)'
           /\ AddsOf(g.plan, n) \subseteq AddsOf(h.plan, n - 1) \cup {g.plan[1].i}
<1>1. PICK S : g.plan \in Seq(S)
  BY DEF Types
<1>2. Len(g.plan) = n + 2 /\ g.plan # <<>>
  BY <1>1 DEF Adds
<1>3. PICK q : q = h.plan
  OBVIOUS
<1>4. /\ q \in Seq(S) /\ Len(q) = (n - 1) + 2
      /\ \A m \in 1..(n + 1) : q[m] = g.plan[m + 1]
  <2>1. Len(Tail(g.plan)) = n + 1
    BY <1>1, <1>2, HeadTailProperties
  <2>2. QED
    BY <1>1, <1>2, <1>3, <2>1, HeadTailProperties
<1>5. q[(n - 1) + 1] = RowStep("recover") /\ q[(n - 1) + 2] = RowStep("tags")
  <2>1. n \in 1..(n + 1) /\ n + 1 \in 1..(n + 1) /\ (n - 1) + 1 = n /\ (n - 1) + 2 = n + 1
    OBVIOUS
  <2>2. q[n] = g.plan[n + 1] /\ q[n + 1] = g.plan[n + 2]
    BY <1>4, <2>1
  <2>3. QED
    BY <2>1, <2>2 DEF Adds
<1>6. ASSUME NEW m \in 1..(n - 1)
      PROVE  q[m].i \in Wanted' /\ q[m] = AddStep(q[m].i, 0, "try")
  <2>1. q[m] = g.plan[m + 1] /\ m + 1 \in 1..n /\ m + 1 # 1
    BY <1>4
  <2>2. Wanted' = Wanted
    BY RowsKept
  <2>3. QED
    BY <2>1, <2>2 DEF Adds
<1>7. Adds(h, n - 1)'
  BY <1>3, <1>4, <1>5, <1>6 DEF Adds
<1>8. ASSUME NEW k \in AddsOf(g.plan, n), k # g.plan[1].i
      PROVE  k \in AddsOf(q, n - 1)
  <2>1. PICK m \in 1..n : k = g.plan[m].i
    BY DEF AddsOf
  <2>2. m # 1 /\ m - 1 \in 1..(n - 1) /\ m - 1 \in 1..(n + 1) /\ (m - 1) + 1 = m
    BY <1>8, <2>1
  <2>3. k = q[m - 1].i
    BY <1>4, <2>1, <2>2
  <2>4. QED
    BY <2>2, <2>3 DEF AddsOf
<1>9. QED
  BY <1>3, <1>7, <1>8

LEMMA AddingMoves ==
    ASSUME Types, Kinds, NEW j \in Runners, Moves(j), NEW g, g = job[j], NEW h, h = job'[j],
           g.op = "reconcile", NEW n \in Nat, n # 0, Adding(g, n)
    PROVE  Reconciling(h)'
<1>1. ASSUME NEW p, NEW f, Goes(j, p, f)
      PROVE  h.plan = p /\ h.failed = f /\ h.all = g.all
  BY <1>1, GoesTo
<1>2. PICK x, i : x = g.plan[1] /\ i = g.plan[1].i
  OBVIOUS
<1>3. /\ Adds(g, n) /\ Plans(g) /\ Wanted # {} /\ Gathered(AddsOf(g.plan, n))
      /\ ~ g.failed => Present(AddsOf(g.plan, n))
  BY DEF Adding
<1>4. /\ i \in Wanted /\ i \in Inbounds /\ x = Head(job[j].plan)
      /\ x = AddStep(i, 0, "try") \/ (x = AddStep(i, 0, "first") /\ Kept /\ Quiet)
  <2>1. 1 \in 1..n
    OBVIOUS
  <2>2. Head(job[j].plan) = g.plan[1]
    <3>1. PICK S : g.plan \in Seq(S)
      BY DEF Types
    <3>2. QED
      BY <3>1, SomeStep
  <2>3. QED
    BY <1>2, <1>3, <2>1, <2>2 DEF Adds, Wanted
<1>5. /\ x.do = "addInbound" /\ x.i = i /\ x.mode \in {"try", "first"}
      /\ x.mode = "first" => Kept /\ Quiet
  <2>1. ASSUME NEW mode, x = AddStep(i, 0, mode)
        PROVE  x.do = "addInbound" /\ x.i = i /\ x.mode = mode
    BY <2>1 DEF AddStep
  <2>2. QED
    BY <1>4, <2>1
<1>6. x.mode # "must" /\ x.mode # "row"
  BY <1>5
<1>7. Content(j, x) = Deployed(i)
  BY <1>3, <1>4, <1>5 DEF Content, Plans
<1>8. Fallback(j, x) = Tail(job[j].plan) /\ Faulted(j, x) = g.failed
  BY <1>6, FallsBack DEF Faulted
<1>9. /\ UNCHANGED <<inbound, client>>
      /\ \/ /\ ~ Reachable(i) /\ xray'.runs /\ Puts(i, Deployed(i))
            /\ disturbed' = disturbed /\ Goes(j, Tail(job[j].plan), g.failed)
         \/ /\ Reachable(i) /\ xray' = xray /\ disturbed' = disturbed
            /\ Goes(j, Tail(job[j].plan), g.failed)
         \/ Loses(i) /\ Goes(j, Tail(job[j].plan), TRUE)
         \/ Restarts(j, x)
  <2>1. /\ UNCHANGED <<inbound, client>>
        /\ \/ /\ ~ Reachable(x.i) /\ xray'.runs /\ Puts(x.i, Content(j, x))
              /\ disturbed' = disturbed /\ Goes(j, Tail(job[j].plan), job[j].failed)
           \/ /\ Reachable(x.i) /\ xray' = xray
              /\ disturbed' = IF job[j].op = "enable" THEN disturbed \cup {0, job[j].i}
                              ELSE disturbed
              /\ Goes(j, Fallback(j, x), Faulted(j, x))
           \/ NotDone(j, x)
           \/ Loses(x.i) /\ Goes(j, Fallback(j, x), TRUE)
           \/ Restarts(j, x)
    BY <1>4, <1>5, <1>6, AddTurn
  <2>2. ~ NotDone(j, x)
    BY <1>6 DEF NotDone
  <2>3. QED
    BY <1>5, <1>7, <1>8, <2>1, <2>2
<1>10. /\ Wanted' = Wanted /\ Wanted' # {}
       /\ Plans(h)' <=> h.all = g.all
  BY <1>3, <1>9, RowsKept DEF Plans
<1>11. ASSUME NEW f, Goes(j, Tail(job[j].plan), f), disturbed \subseteq disturbed',
              xray.runs => xray'.runs,
              \A k \in Inbounds : k # i => xray'.at[k] = xray.at[k],
              i \notin disturbed' => xray'.runs /\ xray'.at[i] = Deployed(i),
              ~ f => ~ g.failed /\ Reachable(i)'
       PROVE  Reconciling(h)'
  <2>1. h.plan = Tail(g.plan) /\ h.failed = f /\ h.all = g.all
    BY <1>1, <1>11
  <2>2. /\ Adds(h, n - 1)'
        /\ AddsOf(g.plan, n) \subseteq AddsOf(h.plan, n - 1) \cup {i}
    BY <1>2, <1>3, <1>9, <2>1, OneLess
  <2>3. PICK A, B : A = AddsOf(g.plan, n) /\ B = AddsOf(h.plan, n - 1)
    OBVIOUS
  <2>4. A \subseteq B \cup {i} /\ Gathered(A) /\ (~ g.failed => Present(A))
    BY <1>3, <2>2, <2>3
  <2>5. Gathered(B)'
    BY <1>4, <1>9, <1>11, <2>4, Gathers
  <2>6. ~ f => Present(B)'
    <3>1. ASSUME ~ f PROVE Present(B)'
      BY <1>4, <1>9, <1>11, <2>4, <3>1, StaysPresent
    <3>2. QED
      BY <3>1
  <2>7. PICK m \in Nat : m = n - 1
    OBVIOUS
  <2>8. B = AddsOf(h.plan, m) /\ Adds(h, m)'
    BY <2>2, <2>3, <2>7
  <2>9. Plans(h)'
    BY <1>10, <2>1
  <2>10. Adding(h, m)'
    BY <1>10, <2>1, <2>5, <2>6, <2>8, <2>9 DEF Adding
  <2>11. QED
    BY <2>7, <2>10 DEF Reconciling
<1>12. CASE /\ xray'.runs /\ Puts(i, Deployed(i))
            /\ disturbed' = disturbed /\ Goes(j, Tail(job[j].plan), g.failed)
  <2>1. /\ \A k \in Inbounds : k # i => xray'.at[k] = xray.at[k]
        /\ xray'.at[i] = Deployed(i)
    BY <1>4, <1>12 DEF Puts
  <2>2. Reachable(i)'
    <3>1. Deployed(i) # Absent
      BY <1>4, WantedOnes
    <3>2. QED
      BY <1>12, <2>1, <3>1 DEF Reachable
  <2>3. PICK f : f = g.failed
    OBVIOUS
  <2>4. QED
    BY <1>11, <1>12, <2>1, <2>2, <2>3
<1>13. CASE /\ Reachable(i) /\ xray' = xray /\ disturbed' = disturbed
            /\ Goes(j, Tail(job[j].plan), g.failed)
  <2>1. Reachable(i)'
    BY <1>13 DEF Reachable
  <2>2. i \notin disturbed' => xray'.runs /\ xray'.at[i] = Deployed(i)
    BY <1>3, <1>4, <1>13 DEF Gathered, Known, Reachable, Restored, Serves
  <2>3. PICK f : f = g.failed
    OBVIOUS
  <2>4. QED
    BY <1>11, <1>13, <2>1, <2>2, <2>3
<1>14. CASE Loses(i) /\ Goes(j, Tail(job[j].plan), TRUE)
  <2>1. /\ disturbed \subseteq disturbed' /\ (xray.runs => xray'.runs)
        /\ \A k \in Inbounds : k # i => xray'.at[k] = xray.at[k]
        /\ i \in disturbed'
    BY <1>14 DEF Loses
  <2>2. PICK f : f = TRUE
    OBVIOUS
  <2>3. QED
    BY <1>11, <1>14, <2>1, <2>2
<1>15. CASE Restarts(j, x)
  <2>1. /\ x.mode = "first" /\ xray' = xray /\ disturbed' = disturbed
        /\ Goes(j, Restart, job[j].failed)
    BY <1>15 DEF Restarts
  <2>2. h.plan = <<ApplyStep, RowStep("recover"), RowStep("tags")>> /\ h.all = g.all
    BY <1>1, <2>1, Steps
  <2>3. Kept' /\ Quiet'
    BY <1>5, <1>9, <2>1, NothingDone, KeptWithoutChange
  <2>4. QED
    BY <1>10, <2>2, <2>3 DEF Reconciling
<1>16. QED
  BY <1>9, <1>12, <1>13, <1>14, <1>15

\* Rows that could not be started are on again.
LEMMA Recovers ==
    ASSUME Types, inbound' = [k \in Inbounds |-> IF inbound[k].enable = "error"
                                                 THEN [inbound[k] EXCEPT !.enable = "on"]
                                                 ELSE inbound[k]]
    PROVE  /\ Enabled' = Wanted
           /\ \A k \in Inbounds : /\ inbound'[k].gen = inbound[k].gen
                                  /\ inbound'[k].enable = "on" <=> k \in Wanted
                                  /\ inbound'[k].enable # "error"
<1>1. ASSUME NEW k \in Inbounds
      PROVE  /\ inbound'[k].gen = inbound[k].gen
             /\ inbound'[k].enable = "on" <=> k \in Wanted
             /\ inbound'[k].enable # "error"
  <2>1. inbound[k] \in InboundRow
    BY DEF Types, GoodRows
  <2>2. CASE inbound[k].enable = "error"
    BY <2>1, <2>2 DEF InboundRow, Wanted
  <2>3. CASE inbound[k].enable # "error"
    BY <2>3 DEF Wanted
  <2>4. QED
    BY <2>2, <2>3
<1>2. Enabled' = Wanted
  <2>1. \A k : k \in Enabled' <=> k \in Wanted
    BY <1>1 DEF Enabled, Wanted
  <2>2. QED
    BY <2>1
<1>3. QED
  BY <1>1, <1>2

LEMMA RecoverMoves ==
    ASSUME Types, Kinds, NEW j \in Runners, Moves(j), NEW g, g = job[j], NEW h, h = job'[j],
           g.op = "reconcile", Adding(g, 0)
    PROVE  Reconciling(h)'
<1>1. PICK y : y = RowStep("tags")
  OBVIOUS
<1>2. PICK w : w = "recover"
  OBVIOUS
<1>3. Head(job[j].plan) = RowStep(w) /\ Tail(job[j].plan) = <<y>>
  <2>1. PICK S : g.plan \in Seq(S)
    BY DEF Types
  <2>2. Len(g.plan) = 2 /\ g.plan[1] = RowStep(w) /\ g.plan[2] = y
    BY <1>1, <1>2 DEF Adding, Adds
  <2>3. g.plan # <<>>
    BY <2>1, <2>2
  <2>4. PICK t : t = Tail(g.plan)
    OBVIOUS
  <2>5. t \in Seq(S) /\ Len(t) = 1 /\ t[1] = g.plan[2]
    BY <2>1, <2>2, <2>3, <2>4, HeadTailProperties
  <2>6. t = <<y>>
    BY <2>2, <2>5
  <2>7. Head(g.plan) = g.plan[1]
    BY <2>1, <2>3
  <2>8. QED
    BY <2>2, <2>4, <2>6, <2>7
<1>4. w \in Rows
  BY <1>2 DEF Rows
<1>5. /\ UNCHANGED <<client, xray, disturbed>>
      /\ Goes(j, Tail(job[j].plan), job[j].failed)
      /\ inbound' = [k \in Inbounds |-> IF inbound[k].enable = "error"
                                        THEN [inbound[k] EXCEPT !.enable = "on"]
                                        ELSE inbound[k]]
  BY <1>2, <1>3, <1>4, RowsTurn
<1>6. /\ Enabled' = Wanted
      /\ \A k \in Inbounds : /\ inbound'[k].gen = inbound[k].gen
                             /\ inbound'[k].enable = "on" <=> k \in Wanted
                             /\ inbound'[k].enable # "error"
  BY <1>5, Recovers
<1>7. AddsOf(g.plan, 0) = {}
  BY DEF AddsOf
<1>8. /\ Wanted # {} /\ Gathered({}) /\ (~ g.failed => Present({}))
  BY <1>7 DEF Adding
<1>9. ASSUME NEW k \in Inbounds, Known(k)' PROVE Agree(k)'
  <2>1. Known(k)
    BY <1>5, <1>9 DEF Known
  <2>2. Merged(k, inbound[k].gen)' = Merged(k, inbound'[k].gen)
    BY <1>5, <1>6 DEF Merged
  <2>3. CASE k \in Wanted
    <3>1. Restored(k)
      BY <1>8, <2>1, <2>3 DEF Gathered
    <3>2. xray.runs /\ xray.at[k] = Merged(k, inbound[k].gen)
      BY <2>3, <3>1 DEF Restored, Serves, Deployed
    <3>3. \A gen : Merged(k, gen)' = Merged(k, gen)
      BY <1>5 DEF Merged
    <3>4. QED
      BY <1>5, <1>6, <2>3, <3>2, <3>3 DEF Agree
  <2>4. CASE k \notin Wanted
    <3>1. xray.at[k] = Absent
      BY <1>8, <2>1, <2>4 DEF Gathered
    <3>2. QED
      BY <1>5, <1>6, <2>4, <3>1 DEF Agree
  <2>5. QED
    BY <2>3, <2>4
<1>10. Kept' /\ Quiet'
  BY <1>6, <1>8, <1>9 DEF Kept, Quiet
<1>11. ~ g.failed => NoneWrong'
  <2>1. ~ g.failed => \A k \in Wanted : xray.runs /\ xray.at[k] # Absent
    BY <1>8 DEF Present, Reachable
  <2>2. xray' = xray
    BY <1>5
  <2>3. \A k \in Inbounds : inbound'[k].enable # "error"
    BY <1>6
  <2>4. ~ g.failed => \A k \in Enabled' : Reachable(k)'
    BY <1>6, <2>1, <2>2 DEF Reachable
  <2>5. QED
    BY <2>3, <2>4 DEF NoneWrong
<1>12. h.plan = <<y>> /\ (h.failed <=> g.failed)
  <2>1. ASSUME NEW p, NEW f, Goes(j, p, f)
        PROVE  h.plan = p /\ h.failed = f
    BY <2>1, GoesTo
  <2>2. QED
    BY <1>3, <1>5, <2>1
<1>13. QED
  BY <1>1, <1>10, <1>11, <1>12 DEF Reconciling

LEMMA StartingMoves ==
    ASSUME Types, Kinds, NEW j \in Runners, Moves(j), NEW g, g = job[j], NEW h, h = job'[j],
           g.op = "reconcile", g.plan = <<ApplyStep, RowStep("recover"), RowStep("tags")>>,
           Plans(g), Kept, Quiet, Wanted # {}
    PROVE  Reconciling(h)'
<1>1. ASSUME NEW p, NEW f, Goes(j, p, f)
      PROVE  h.plan = p /\ h.failed = f /\ h.all = g.all
  BY <1>1, GoesTo
<1>2. PICK x, y, z : x = ApplyStep /\ y = RowStep("recover") /\ z = RowStep("tags")
  OBVIOUS
<1>3. Head(job[j].plan) = ApplyStep /\ Tail(job[j].plan) = <<y, z>>
  BY <1>2, Three
<1>4. Remedy(job[j], ApplyStep) = <<z>>
  BY <1>2, Remedies
<1>5. /\ UNCHANGED <<inbound, client>>
      /\ \/ /\ xray'.runs /\ xray'.at = job[j].all /\ disturbed' = disturbed
            /\ Goes(j, <<y, z>>, job[j].failed)
         \/ /\ xray' = xray /\ disturbed' = disturbed /\ Goes(j, <<z>>, TRUE)
         \/ disturbed' = All /\ Goes(j, <<z>>, TRUE)
  BY <1>3, <1>4, ApplyTurn
<1>6. /\ Wanted' = Wanted /\ Enabled' = Enabled
      /\ \A k \in Inbounds : Deployed(k)' = Deployed(k)
      /\ [k \in Inbounds |-> Deployed(k)]' = [k \in Inbounds |-> Deployed(k)]
  BY <1>5, RowsKept
<1>7. CASE /\ xray'.runs /\ xray'.at = job[j].all /\ disturbed' = disturbed
           /\ Goes(j, <<y, z>>, job[j].failed)
  <2>1. h.plan = <<y, z>> /\ h.all = g.all
    BY <1>1, <1>7
  <2>2. Adds(h, 0)'
    BY <1>2, <2>1 DEF Adds
  <2>3. Plans(h)'
    BY <1>6, <2>1 DEF Plans
  <2>4. \A k \in Inbounds : xray'.at[k] = Deployed(k)
    BY <1>7 DEF Plans
  <2>5. PICK none : none = AddsOf(h.plan, 0)
    OBVIOUS
  <2>6. Gathered(none)'
    <3>1. \A k \in Inbounds : Restored(k)'
      BY <1>6, <1>7, <2>4 DEF Restored, Serves
    <3>2. \A k \in Inbounds : k \notin Wanted => xray'.at[k] = Absent
      BY <2>4 DEF Deployed
    <3>3. QED
      BY <1>6, <3>1, <3>2 DEF Gathered
  <2>7. Present(none)'
    <3>1. \A k \in Wanted : xray'.at[k] # Absent
      BY <2>4, WantedOnes
    <3>2. QED
      BY <1>6, <1>7, <3>1 DEF Present, Reachable
  <2>8. Adding(h, 0)'
    BY <1>6, <2>2, <2>3, <2>5, <2>6, <2>7 DEF Adding
  <2>9. QED
    BY <2>8 DEF Reconciling
<1>8. ASSUME Goes(j, <<z>>, TRUE), Kept', Quiet'
      PROVE  Reconciling(h)'
  <2>1. h.plan = <<z>> /\ h.failed
    BY <1>1, <1>8
  <2>2. QED
    BY <1>2, <1>8, <2>1 DEF Reconciling
<1>9. CASE xray' = xray /\ disturbed' = disturbed /\ Goes(j, <<z>>, TRUE)
  <2>1. Kept' /\ Quiet'
    BY <1>5, <1>9, NothingDone, KeptWithoutChange
  <2>2. QED
    BY <1>8, <1>9, <2>1
<1>10. CASE disturbed' = All /\ Goes(j, <<z>>, TRUE)
  <2>1. Kept' /\ Quiet'
    BY <1>10 DEF Kept, Quiet, Known, All
  <2>2. QED
    BY <1>8, <1>10, <2>1
<1>11. QED
  BY <1>5, <1>7, <1>9, <1>10

LEMMA StoppingMoves ==
    ASSUME Types, Kinds, NEW j \in Runners, Moves(j), NEW g, g = job[j], NEW h, h = job'[j],
           g.op = "reconcile", g.plan = <<StopStep, RowStep("tags")>>, Kept, Quiet, Wanted = {}
    PROVE  Reconciling(h)'
<1>1. PICK x, y : x = StopStep /\ y = RowStep("tags")
  OBVIOUS
<1>2. Head(job[j].plan) = StopStep /\ Tail(job[j].plan) = <<y>>
  BY <1>1, Two
<1>3. /\ UNCHANGED <<inbound, client>> /\ xray'.at = xray.at
      /\ \/ /\ ~ xray'.runs /\ disturbed' = disturbed
            /\ Goes(j, <<y>>, job[j].failed)
         \/ /\ 0 \in disturbed' /\ disturbed \subseteq disturbed'
            /\ Goes(j, <<y>>, TRUE)
  BY <1>2, StopTurn
<1>4. Wanted' = {} /\ Enabled' = {} /\ Enabled = {}
  BY <1>3, RowsKept, WantedOnes
<1>5. Kept'
  <2>1. ASSUME NEW k \in Inbounds, Known(k)' PROVE Agree(k)'
    <3>1. Known(k) /\ Agree(k) /\ inbound[k].enable # "on"
      BY <1>3, <1>4, <2>1 DEF Kept, Known, Enabled
    <3>2. QED
      BY <1>3, <3>1 DEF Agree
  <2>2. QED
    BY <2>1 DEF Kept
<1>6. Quiet'
  BY <1>3 DEF Quiet
<1>7. NoneWrong'
  <2>1. \A k \in Inbounds : inbound'[k].enable = "error" => k \in Wanted'
    BY DEF Wanted
  <2>2. QED
    BY <1>4, <2>1 DEF NoneWrong
<1>8. h.plan = <<y>>
  <2>1. ASSUME NEW p, NEW f, Goes(j, p, f)
        PROVE  h.plan = p
    BY <2>1, GoesTo
  <2>2. QED
    BY <1>3, <2>1
<1>9. QED
  BY <1>1, <1>5, <1>6, <1>7, <1>8 DEF Reconciling

\* A step of a goroutine is one of its plan, and settles nothing.
LEMMA MovesGo ==
    ASSUME Types, NEW j \in Runners, Moves(j)
    PROVE  (\E p, f : Goes(j, p, f)) /\ (disturbed = All => disturbed' = All)
<1>1. CASE Command(j)
  <2>1. PICK x : x = Head(job[j].plan)
    OBVIOUS
  <2>2. Taken(j, x) \/ Refused(j, x) \/ NotDone(j, x) \/ Unclear(j, x) \/ Restarts(j, x)
    BY <1>1, <2>1, CommandTurn
  <2>3. \E p, f : Goes(j, p, f)
    BY <2>2 DEF Taken, Refused, NotDone, Unclear, Restarts
  <2>4. disturbed = All => disturbed' = All
    <3>1. JobOK(job[j]) /\ x \in StepsOf(job[j].op)
      BY <1>1, <2>1, CommandTurn
    <3>2. job[j].i \in All /\ x.i \in All /\ 0 \in All
      BY <3>1 DEF JobOK, StepsOf, AnyStep, All
    <3>3. QED
      BY <2>2, <3>2 DEF Taken, Refused, NotDone, Unclear, Restarts
  <2>5. QED
    BY <2>3, <2>4
<1>2. ASSUME NEW w, At(j, w), Next1(j) \/ \E p : Instead(j, p)
      PROVE  \E p, f : Goes(j, p, f)
  BY <1>2, Nexts
<1>3. job[j].i \in All /\ 0 \in All
  BY DEF Types, JobOK, All
<1>4. CASE WriteInbound(j)
  <2>1. (\E w : At(j, w)) /\ Next1(j) /\ disturbed' = disturbed
    BY <1>4 DEF WriteInbound
  <2>2. QED
    BY <1>2, <2>1
<1>5. CASE WriteClient(j)
  <2>1. (\E w : At(j, w)) /\ Next1(j)
        /\ (disturbed' = disturbed \/ disturbed' = disturbed \cup {job[j].i})
    BY <1>5 DEF WriteClient
  <2>2. disturbed = All => disturbed' = All
    BY <1>3, <2>1
  <2>3. QED
    BY <1>2, <2>1, <2>2
<1>6. CASE Drop(j)
  <2>1. At(j, "drop") /\ Next1(j)
        /\ (disturbed' = disturbed \/ disturbed' = disturbed \cup {0, job[j].i})
    BY <1>6 DEF Drop
  <2>2. disturbed = All => disturbed' = All
    BY <1>3, <2>1
  <2>3. QED
    BY <1>2, <2>1, <2>2
<1>7. CASE Read(j)
  <2>1. /\ \E w : At(j, w)
        /\ Next1(j) \/ \E p : Instead(j, p)
        /\ disturbed' = disturbed
    BY <1>7 DEF Read
  <2>2. QED
    BY <1>2, <2>1
<1>8. CASE j = "reconcile" /\ Collect(j)
  <2>1. At(j, "tags")
    BY <1>8 DEF Collect
  <2>2. Head(job[j].plan) = RowStep("tags")
    BY <2>1, AtStep
  <2>3. disturbed' = disturbed
    BY <1>8 DEF Collect
  <2>4. \E p, f : Goes(j, p, f)
    BY <2>2, TagsTurn
  <2>5. QED
    BY <2>3, <2>4
<1>9. QED
  BY <1>1, <1>4, <1>5, <1>6, <1>7, <1>8 DEF Moves, JobWork

LEMMA TagsMoves ==
    ASSUME Types, Kinds, NEW j \in Runners, Moves(j), NEW g, g = job[j], NEW h, h = job'[j],
           g.op = "reconcile", g.plan = <<RowStep("tags")>>, Kept, Quiet,
           ~ g.failed => NoneWrong
    PROVE  Cleaning(h)'
<1>1. Head(job[j].plan) = RowStep("tags") /\ Tail(job[j].plan) = <<>>
  BY One
<1>2. /\ UNCHANGED <<inbound, client, xray, disturbed>>
      /\ \/ Goes(j, <<>>, TRUE)
         \/ \E s \in Orders(Orphans) : Goes(j, Cleanup(s) \o <<>>, job[j].failed)
  BY <1>1, TagsTurn
<1>3. Kept' /\ Quiet'
  BY <1>2, NothingDone, KeptWithoutChange
<1>7. ASSUME NEW p, NEW f, Goes(j, p, f)
      PROVE  h.plan = p /\ h.failed = f
  BY <1>7, GoesTo
<1>4. CASE Goes(j, <<>>, TRUE)
  <2>1. h.plan = <<>> /\ h.failed
    BY <1>4, <1>7
  <2>2. QED
    BY <1>3, <2>1 DEF Cleaning
<1>5. ASSUME NEW s \in Orders(Orphans), Goes(j, Cleanup(s) \o <<>>, job[j].failed)
      PROVE  Cleaning(h)'
  <2>1. /\ s \in Seq(Orphans) /\ DOMAIN s = 1..Len(s)
        /\ \A n \in 1..Len(s) : s[n] \in Orphans
        /\ \A k \in Orphans : \E n \in 1..Len(s) : s[n] = k
    <3>1. PICK S \in SUBSET Inbounds : S = Orphans
      BY DEF Orphans
    <3>2. s \in Orders(S)
      BY <3>1
    <3>3. s \in Seq(S) /\ DOMAIN s = 1..Len(s)
      BY <3>2, OrdersFact
    <3>4. \A n \in 1..Len(s) : s[n] \in S
      BY <3>2, OrdersFact
    <3>5. \A k \in S : \E n \in 1..Len(s) : s[n] = k
      BY <3>2, OrdersFact
    <3>6. QED
      BY <3>1, <3>3, <3>4, <3>5
  <2>2. PICK p : p = Cleanup(s)
    OBVIOUS
  <2>3. ASSUME NEW n \in 1..Len(s)
        PROVE  p[n] = RemoveStep(s[n], "try") /\ p[n].i = s[n]
    <3>1. PICK i : i = s[n]
      OBVIOUS
    <3>2. Head(RemoveInbound(i, "try")) = RemoveStep(i, "try")
      BY Steps, One
    <3>3. p[n] = RemoveStep(i, "try")
      BY <2>1, <2>2, <3>1, <3>2 DEF Cleanup
    <3>4. RemoveStep(i, "try").i = i
      BY DEF RemoveStep
    <3>5. QED
      BY <3>1, <3>3, <3>4
  <2>4. p \in Seq({RemoveStep(i, "try") : i \in Orphans}) /\ Len(p) = Len(s)
    <3>1. p = [n \in 1..Len(s) |-> p[n]]
      BY <2>1, <2>2 DEF Cleanup
    <3>2. \A n \in 1..Len(s) : p[n] \in {RemoveStep(i, "try") : i \in Orphans}
      BY <2>1, <2>3
    <3>3. Len(s) \in Nat
      BY <2>1
    <3>4. QED
      BY <3>1, <3>2, <3>3
  <2>5. p \o <<>> = p
    BY <2>4, ConcatEmptySeq
  <2>6. h.plan = p /\ (h.failed <=> g.failed)
    BY <1>5, <1>7, <2>2, <2>5
  <2>7. \A k \in Orphans : k \in Inbounds /\ ~ Exists(k)'
    BY <1>2, RowsKept DEF Orphans
  <2>8. \A m \in 1..Len(h.plan) : /\ h.plan[m].i \in Inbounds /\ ~ Exists(h.plan[m].i)'
                                  /\ h.plan[m] = RemoveStep(h.plan[m].i, "try")
    <3>1. SUFFICES ASSUME NEW m \in 1..Len(h.plan)
                   PROVE  /\ h.plan[m].i \in Inbounds /\ ~ Exists(h.plan[m].i)'
                          /\ h.plan[m] = RemoveStep(h.plan[m].i, "try")
      OBVIOUS
    <3>2. m \in 1..Len(s) /\ h.plan[m] = p[m]
      BY <2>4, <2>6
    <3>3. PICK k : k = s[m]
      OBVIOUS
    <3>4. k \in Orphans /\ p[m] = RemoveStep(k, "try") /\ p[m].i = k
      BY <2>1, <2>3, <3>2, <3>3
    <3>5. k \in Inbounds /\ ~ Exists(k)'
      BY <2>7, <3>4
    <3>6. QED
      BY <3>2, <3>4, <3>5
  <2>9. ~ h.failed => NoneWrong'
    BY <1>2, <2>6 DEF NoneWrong, Enabled, Reachable
  <2>10. ASSUME NEW k \in Inbounds, ~ Exists(k)', Reachable(k)'
         PROVE  \E m \in 1..Len(h.plan) : h.plan[m].i = k
    <3>1. k \in Orphans
      BY <1>2, <2>10 DEF Orphans, Exists, Reachable
    <3>2. QED
      <4>1. PICK m \in 1..Len(s) : s[m] = k
        BY <2>1, <3>1
      <4>2. m \in 1..Len(h.plan) /\ h.plan[m].i = k
        BY <2>3, <2>4, <2>6, <4>1
      <4>3. QED
        BY <4>2
  <2>11. QED
    BY <1>3, <2>8, <2>9, <2>10 DEF Cleaning
<1>6. QED
  BY <1>2, <1>4, <1>5

LEMMA CleaningMoves ==
    ASSUME Types, Kinds, NEW j \in Runners, Moves(j), NEW g, g = job[j], NEW h, h = job'[j],
           g.op = "reconcile", Cleaning(g)
    PROVE  Cleaning(h)'
<1>1. PICK S : g.plan \in Seq(S)
  BY DEF Types
<1>2. g.plan # <<>>
  BY SomeStep
<1>3. PICK q : q = Tail(g.plan)
  OBVIOUS
<1>4. /\ q \in Seq(S) /\ Len(q) = Len(g.plan) - 1 /\ Len(g.plan) \in Nat \ {0}
      /\ \A m \in 1..Len(q) : q[m] = g.plan[m + 1]
      /\ Head(g.plan) = g.plan[1] /\ 1 \in 1..Len(g.plan)
  BY <1>1, <1>2, <1>3, HeadTailProperties
<1>5. PICK x, i : x = g.plan[1] /\ i = g.plan[1].i
  OBVIOUS
<1>6. /\ i \in Inbounds /\ ~ Exists(i) /\ x = RemoveStep(i, "try") /\ x = Head(job[j].plan)
  <2>1. /\ g.plan[1].i \in Inbounds /\ ~ Exists(g.plan[1].i)
        /\ g.plan[1] = RemoveStep(g.plan[1].i, "try")
    BY <1>4 DEF Cleaning
  <2>2. i \in Inbounds /\ ~ Exists(i)
    BY <1>5, <2>1
  <2>3. x = RemoveStep(i, "try")
    BY <1>5, <2>1
  <2>4. x = Head(job[j].plan)
    BY <1>4, <1>5
  <2>5. QED
    BY <2>2, <2>3, <2>4
<1>7. x.do = "removeInbound" /\ x.i = i /\ x.mode = "try"
  <2>1. /\ RemoveStep(i, "try").do = "removeInbound" /\ RemoveStep(i, "try").i = i
        /\ RemoveStep(i, "try").mode = "try"
    BY DEF RemoveStep
  <2>2. x = RemoveStep(i, "try")
    BY <1>6
  <2>3. QED
    BY <2>1, <2>2
<1>8. Fallback(j, x) = q /\ Faulted(j, x) = g.failed
  <2>1. x.mode # "must"
    BY <1>7
  <2>2. QED
    BY <1>3, <2>1, FallsBack DEF Faulted
<1>9. /\ UNCHANGED <<inbound, client>>
      /\ \/ /\ Reachable(i) /\ xray'.runs /\ Puts(i, Absent)
            /\ disturbed' = disturbed /\ Goes(j, q, g.failed)
         \/ /\ ~ Reachable(i) /\ xray' = xray /\ disturbed' = disturbed
            /\ Goes(j, q, g.failed)
         \/ Loses(i) /\ Goes(j, q, TRUE)
  <2>1. x.mode \in {"must", "try"} /\ job[j].op # "enable"
    BY <1>7
  <2>2. /\ UNCHANGED <<inbound, client>>
        /\ \/ /\ Reachable(x.i) /\ xray'.runs /\ Puts(x.i, Absent)
              /\ disturbed' = disturbed /\ Goes(j, Tail(job[j].plan), job[j].failed)
           \/ /\ ~ Reachable(x.i) /\ xray' = xray /\ disturbed' = disturbed
              /\ Goes(j, Fallback(j, x), Faulted(j, x))
           \/ NotDone(j, x)
           \/ Loses(x.i) /\ Goes(j, Fallback(j, x), TRUE)
    BY <1>6, <1>7, <2>1, RemoveTurn
  <2>3. ~ NotDone(j, x)
    BY <1>7 DEF NotDone
  <2>4. QED
    BY <1>3, <1>7, <1>8, <2>2, <2>3
<1>10. /\ Enabled' = Enabled /\ \A k : Exists(k)' <=> Exists(k)
       /\ \A k : (inbound'[k].enable = "error" <=> inbound[k].enable = "error")
       /\ \A k, gen : Merged(k, gen)' = Merged(k, gen)
  <2>1. \A k, gen : Merged(k, gen)' = Merged(k, gen)
    BY <1>9 DEF Merged
  <2>2. QED
    BY <1>9, <2>1, RowsKept
<1>11. inbound[i].enable # "on" /\ i \notin Enabled
  BY <1>6 DEF Exists, Enabled
<1>12. ASSUME NEW f, Goes(j, q, f), ~ f => ~ g.failed, Kept', Quiet',
              ~ f => /\ xray.runs => xray'.runs
                     /\ \A k \in Inbounds : k # i =>
                           xray'.at[k] = xray.at[k] /\ (Reachable(k)' => Reachable(k))
                     /\ ~ Reachable(i)'
       PROVE  Cleaning(h)'
  <2>1. h.plan = q /\ h.failed = f
    BY <1>12, GoesTo
  <2>2. \A m \in 1..Len(q) : /\ q[m].i \in Inbounds /\ ~ Exists(q[m].i)'
                             /\ q[m] = RemoveStep(q[m].i, "try")
    <3>1. ASSUME NEW m \in 1..Len(q)
          PROVE  /\ q[m].i \in Inbounds /\ ~ Exists(q[m].i)
                 /\ q[m] = RemoveStep(q[m].i, "try")
      <4>1. m + 1 \in 1..Len(g.plan) /\ q[m] = g.plan[m + 1]
        BY <1>4
      <4>2. QED
        BY <4>1 DEF Cleaning
    <3>2. QED
      BY <1>10, <3>1
  <2>3. ASSUME ~ f PROVE NoneWrong'
    <3>1. NoneWrong
      BY <1>12, <2>3 DEF Cleaning
    <3>2. \A k \in Enabled : Reachable(k)'
      BY <1>11, <1>12, <2>3, <3>1 DEF NoneWrong, Reachable, Enabled
    <3>3. QED
      BY <1>10, <3>1, <3>2 DEF NoneWrong
  <2>4. ASSUME ~ f, NEW k \in Inbounds, ~ Exists(k)', Reachable(k)'
        PROVE  \E m \in 1..Len(q) : q[m].i = k
    <3>1. k # i /\ ~ Exists(k) /\ Reachable(k) /\ ~ g.failed
      BY <1>10, <1>12, <2>4
    <3>2. PICK m \in 1..Len(g.plan) : g.plan[m].i = k
      BY <3>1 DEF Cleaning
    <3>3. m # 1 /\ m - 1 \in 1..Len(q) /\ (m - 1) + 1 = m
      BY <1>4, <1>5, <3>1, <3>2
    <3>4. q[m - 1].i = k
      BY <1>4, <3>2, <3>3
    <3>5. QED
      BY <3>3, <3>4
  <2>5. QED
    BY <1>12, <2>1, <2>2, <2>3, <2>4 DEF Cleaning
<1>13. Kept /\ Quiet
  BY DEF Cleaning
<1>14. CASE /\ Reachable(i) /\ xray'.runs /\ Puts(i, Absent)
            /\ disturbed' = disturbed /\ Goes(j, q, g.failed)
  <2>1. ASSUME NEW k \in Inbounds
        PROVE  xray'.at[k] = IF k = i THEN Absent ELSE xray.at[k]
    BY <1>14 DEF Puts
  <2>2. Kept'
    <3>1. ASSUME NEW k \in Inbounds, Known(k)' PROVE Agree(k)'
      <4>1. Agree(k)
        BY <1>13, <1>14, <3>1 DEF Kept, Known
      <4>2. QED
        BY <1>9, <1>10, <1>11, <1>14, <2>1, <4>1 DEF Agree
    <3>2. QED
      BY <3>1 DEF Kept
  <2>3. Quiet'
    BY <1>10, <1>13, <1>14 DEF Quiet, Reachable
  <2>4. ~ Reachable(i)'
    BY <1>6, <2>1 DEF Reachable
  <2>5. PICK f : f = g.failed
    OBVIOUS
  <2>6. \A k \in Inbounds : k # i =>
           xray'.at[k] = xray.at[k] /\ (Reachable(k)' => Reachable(k))
    BY <1>14, <2>1 DEF Reachable
  <2>7. QED
    BY <1>12, <1>14, <2>2, <2>3, <2>4, <2>5, <2>6
<1>15. CASE /\ ~ Reachable(i) /\ xray' = xray /\ disturbed' = disturbed
            /\ Goes(j, q, g.failed)
  <2>1. Kept' /\ Quiet'
    BY <1>9, <1>13, <1>15, NothingDone, KeptWithoutChange
  <2>2. \A k : Reachable(k)' <=> Reachable(k)
    BY <1>15 DEF Reachable
  <2>3. PICK f : f = g.failed
    OBVIOUS
  <2>4. QED
    BY <1>12, <1>15, <2>1, <2>2, <2>3
<1>16. CASE Loses(i) /\ Goes(j, q, TRUE)
  <2>1. Kept'
    <3>1. ASSUME NEW k \in Inbounds, Known(k)' PROVE Agree(k)'
      <4>1. k # i /\ Known(k)
        BY <1>16, <3>1 DEF Loses, Known
      <4>2. Agree(k)
        BY <1>13, <4>1 DEF Kept
      <4>3. xray'.at[k] = xray.at[k] /\ (xray.runs => xray'.runs)
        BY <1>16, <4>1 DEF Loses
      <4>4. QED
        BY <1>9, <1>10, <4>2, <4>3 DEF Agree
    <3>2. QED
      BY <3>1 DEF Kept
  <2>2. Quiet'
    BY <1>16 DEF Loses, Quiet
  <2>3. PICK f : f = TRUE
    OBVIOUS
  <2>4. QED
    BY <1>12, <1>16, <2>1, <2>2, <2>3
<1>17. QED
  BY <1>9, <1>14, <1>15, <1>16

LEMMA ReconcilingMoves ==
    ASSUME Types, Kinds, NEW j \in Runners, Moves(j), NEW g, g = job[j], NEW h, h = job'[j],
           g.op = "reconcile", Reconciling(g)
    PROVE  Reconciling(h)'
<1>1. ASSUME NEW n \in Nat, Adding(g, n) PROVE Reconciling(h)'
  <2>1. CASE n = 0
    BY <1>1, <2>1, RecoverMoves
  <2>2. CASE n # 0
    BY <1>1, <2>2, AddingMoves
  <2>3. QED
    BY <2>1, <2>2
<1>2. CASE /\ g.plan = <<ApplyStep, RowStep("recover"), RowStep("tags")>>
           /\ Plans(g) /\ Kept /\ Quiet /\ Wanted # {}
  BY <1>2, StartingMoves
<1>3. CASE g.plan = <<StopStep, RowStep("tags")>> /\ Kept /\ Quiet /\ Wanted = {}
  BY <1>3, StoppingMoves
<1>4. CASE g.plan = <<RowStep("tags")>> /\ Kept /\ Quiet /\ (~ g.failed => NoneWrong)
  <2>1. Cleaning(h)'
    BY <1>4, TagsMoves
  <2>2. QED
    BY <2>1 DEF Reconciling
<1>5. CASE Cleaning(g)
  <2>1. Cleaning(h)'
    BY <1>5, CleaningMoves
  <2>2. QED
    BY <2>1 DEF Reconciling
<1>6. QED
  BY <1>1, <1>2, <1>3, <1>4, <1>5 DEF Reconciling

\* A goroutine that knows how things are still knows it after a step of its own.
LEMMA KnowsMoves ==
    ASSUME Types, Kinds, NEW j \in Runners, Moves(j), NEW g, g = job[j], NEW h, h = job'[j],
           Knows(g)
    PROVE  Knows(h)'
<1>1. h.op = g.op /\ h.i = g.i
  <2>1. \E p, f : Goes(j, p, f)
    BY MovesGo
  <2>2. QED
    BY <2>1, GoesTo
<1>2. CASE g.op \in InboundOps
  <2>1. g.op \notin ClientOps /\ g.op # "reconcile"
    BY <1>2 DEF InboundOps, ClientOps
  <2>2. DoesInbound(g) /\ Spared(g.i)
    BY <1>2 DEF Knows
  <2>3. DoesInbound(h)' /\ Spared(g.i)'
    <3>1. CASE g.op = "createInbound"
      BY <1>1, <2>2, <3>1, CreatingMoves DEF DoesInbound
    <3>2. CASE g.op = "updateInbound"
      BY <1>1, <2>2, <3>2, UpdatingMoves DEF DoesInbound
    <3>3. CASE g.op \in {"disable", "deleteInbound"}
      BY <1>1, <2>2, <3>3, RemovingMoves DEF DoesInbound
    <3>4. CASE g.op = "enable"
      BY <1>1, <2>2, <3>4, EnablingMoves DEF DoesInbound
    <3>5. QED
      BY <1>2, <3>1, <3>2, <3>3, <3>4 DEF InboundOps
  <2>4. QED
    BY <1>1, <2>1, <2>3 DEF Knows
<1>3. CASE g.op \in ClientOps
  <2>1. g.op \notin InboundOps /\ g.op # "reconcile"
    BY <1>3 DEF InboundOps, ClientOps
  <2>2. DoesClient(g) /\ Spared(g.i) /\ Quiet
    BY <1>3 DEF Knows
  <2>3. DoesClient(h)' /\ Spared(g.i)' /\ Quiet'
    <3>1. CASE g.op = "createClient"
      BY <1>1, <2>2, <3>1, CreatingClientMoves DEF DoesClient
    <3>2. CASE g.op = "updateClient"
      BY <1>1, <2>2, <3>2, UpdatingClientMoves DEF DoesClient
    <3>3. CASE g.op = "deleteClient"
      BY <1>1, <2>2, <3>3, DeletingClientMoves DEF DoesClient
    <3>4. CASE g.op \in {"reset", "check"}
      BY <1>1, <2>2, <3>4, ResettingMoves DEF DoesClient
    <3>5. CASE g.op \in {"traffic", "expel"}
      BY <1>1, <2>2, <3>5, ReportingMoves DEF DoesClient
    <3>6. QED
      BY <1>3, <3>1, <3>2, <3>3, <3>4, <3>5 DEF ClientOps
  <2>4. QED
    BY <1>1, <2>1, <2>3 DEF Knows
<1>4. CASE g.op = "reconcile"
  <2>1. g.op \notin InboundOps /\ g.op \notin ClientOps
    BY <1>4 DEF InboundOps, ClientOps
  <2>2. Reconciling(h)'
    BY <1>4, ReconcilingMoves DEF Knows
  <2>3. QED
    BY <1>1, <2>1, <2>2 DEF Knows
<1>5. CASE g.op \notin InboundOps \cup ClientOps \cup {"reconcile"}
  BY <1>1, <1>5 DEF Knows
<1>6. QED
  BY <1>2, <1>3, <1>4, <1>5

-----------------------------------------------------------------------------
(* A goroutine that begins alone knows how things are.                      *)

LEMMA BeginWorld ==
    ASSUME NEW j, NEW op, NEW i, NEW c, NEW want, NEW plan, Begin(j, op, i, c, want, plan)
    PROVE  /\ job[j] = NoJob /\ xray' = xray
           /\ disturbed' = IF Busy = {} THEN disturbed ELSE All
BY DEF Begin

LEMMA BeginOthers ==
    ASSUME Types, NEW j, NEW op, NEW i, NEW c, NEW want, NEW plan,
           Begin(j, op, i, c, want, plan)
    PROVE  \A k \in Runners : k # j => job'[k] = Overlapped[k]
BY Overlaps DEF Begin

LEMMA BeginJob ==
    ASSUME Types, NEW j \in Runners, NEW op, NEW i, NEW c, NEW want, NEW plan,
           Begin(j, op, i, c, want, plan), NEW h, h = job'[j]
    PROVE  h.op = op /\ h.i = i /\ h.c = c /\ h.want = want /\ h.plan = plan
BY Overlaps DEF Begin

LEMMA BeginClean ==
    ASSUME Types, NEW j \in Runners, NEW op, NEW i, NEW c, NEW want, NEW plan,
           Begin(j, op, i, c, want, plan), NEW h, h = job'[j]
    PROVE  ~ h.failed /\ (h.clean <=> Busy = {})
BY Overlaps DEF Begin

LEMMA BeginRows ==
    ASSUME Types, NEW j \in Runners, NEW op, NEW i, NEW c, NEW want, NEW plan,
           Begin(j, op, i, c, want, plan), NEW h, h = job'[j]
    PROVE  /\ op = "updateInbound" => h.inbound = inbound[i]
           /\ op = "updateClient" => h.client = client[c]
BY Overlaps DEF Begin

LEMMA BeginAll ==
    ASSUME Types, NEW j \in Runners, NEW op, NEW i, NEW c, NEW want, NEW plan,
           Begin(j, op, i, c, want, plan), op = "reconcile", NEW h, h = job'[j]
    PROVE  h.all = [k \in Inbounds |-> Deployed(k)]
BY Overlaps DEF Begin

LEMMA BeginsKnowing ==
    ASSUME Types, NEW j \in Runners, NEW op, NEW i, NEW c, NEW want, NEW plan,
           Begin(j, op, i, c, want, plan), op # "idle", NEW h, h = job'[j],
           Busy = {} => Knows(h)'
    PROVE  Blamed' /\ Understood' /\ UndisturbedAgree'
<1>8. \A k \in Runners : k # j => job'[k] = Overlapped[k]
  BY BeginOthers
<1>9. h.op = op /\ (h.clean <=> Busy = {})
  <2>1. h.op = op
    BY BeginJob
  <2>2. h.clean <=> Busy = {}
    BY BeginClean
  <2>3. QED
    BY <2>1, <2>2
<1>1. /\ disturbed' = IF Busy = {} THEN disturbed ELSE All
      /\ h.op = op /\ (h.clean <=> Busy = {})
      /\ \A k \in Runners : k # j => job'[k] = Overlapped[k]
  BY <1>8, <1>9, BeginWorld
<1>2. h # NoJob
  BY <1>1, NoJobIdle
<1>3. UndisturbedAgree'
  BY <1>2 DEF UndisturbedAgree, Busy
<1>4. \A k \in Runners : k # j /\ job'[k].clean => job'[k] = NoJob
  BY <1>1, Overlaps
<1>5. CASE Busy = {}
  <2>1. \A k \in Runners : k # j => job'[k] = NoJob
    BY <1>1, <1>5, Overlaps DEF Busy
  <2>2. h.clean = TRUE
    BY <1>1, <1>5
  <2>3. Blamed'
    BY <2>1, <2>2 DEF Blamed
  <2>4. Understood'
    BY <1>5, <2>1 DEF Understood
  <2>5. QED
    BY <1>3, <2>3, <2>4
<1>6. CASE Busy # {}
  <2>1. Blamed'
    BY <1>1, <1>6 DEF Blamed
  <2>2. ~ h.clean
    BY <1>1, <1>6
  <2>3. Understood'
    BY <1>4, <2>2 DEF Understood
  <2>4. QED
    BY <1>3, <2>1, <2>3
<1>7. QED
  BY <1>5, <1>6

LEMMA RestKnown ==
    ASSUME Busy = {}, UndisturbedAgree
    PROVE  Kept /\ Quiet /\ \A i : Spared(i)
BY DEF UndisturbedAgree, Kept, Quiet, Known, Spared

LEMMA CreateBegins ==
    ASSUME Types, NEW j \in Runners, NEW i \in Inbounds, CreateInbound(j, i), UndisturbedAgree
    PROVE  Blamed' /\ Understood' /\ UndisturbedAgree'
<1>1. PICK op, c, want, plan : /\ op = "createInbound" /\ c = "" /\ want = ""
                               /\ plan = AddInbound(i, 1, "must")
  OBVIOUS
<1>2. PICK h : h = job'[j]
  OBVIOUS
<1>3. /\ inbound[i] = Unborn /\ inbound' = [inbound EXCEPT ![i] = Row("on", 1)]
      /\ Begin(j, op, i, c, want, plan) /\ UNCHANGED client
  BY <1>1 DEF CreateInbound, OnInbound
<1>4. /\ xray' = xray /\ h.op = op /\ h.i = i /\ h.plan = plan
      /\ disturbed' = IF Busy = {} THEN disturbed ELSE All
  <2>1. h.op = op /\ h.i = i /\ h.plan = plan
    BY <1>2, <1>3, BeginJob
  <2>2. QED
    BY <1>3, <2>1, BeginWorld
<1>5. ASSUME Busy = {} PROVE Knows(h)'
  <2>1. Kept /\ Quiet /\ Spared(i) /\ disturbed' = disturbed
    BY <1>4, <1>5, RestKnown
  <2>2. h.plan = <<AddStep(i, 1, "must")>>
    BY <1>1, <1>4, Steps
  <2>3. inbound \in [Inbounds -> InboundRow]
    BY DEF Types, GoodRows
  <2>4. inbound'[i] = Row("on", 1) /\ \A k \in Inbounds : k # i => inbound'[k] = inbound[k]
    BY <1>3, <2>3
  <2>5. inbound[i].enable # "on"
    BY <1>3 DEF Unborn
  <2>6. Known(i)' => xray'.at[i] = Absent
    BY <1>4, <2>1, <2>5 DEF Known, Kept, Agree
  <2>7. Enabled' \subseteq {i} => Enabled = {}
    BY <2>4, <2>5 DEF Enabled
  <2>8. 0 \notin disturbed' /\ Enabled' \subseteq {i} => ~ xray'.runs
    BY <1>4, <2>1, <2>7 DEF Quiet
  <2>9. Creating(h)'
    BY <1>4, <2>2, <2>4, <2>6, <2>8 DEF Creating
  <2>10. About(i)
    BY <1>3, <1>4, <2>1, <2>4 DEF About
  <2>11. Spared(i)'
    BY <2>1, <2>10, SparedKept
  <2>12. h.op = "createInbound"
    BY <1>1, <1>4
  <2>13. QED
    BY <1>4, <2>9, <2>11, <2>12 DEF Knows, DoesInbound, InboundOps, ClientOps
<1>6. op # "idle"
  BY <1>1
<1>7. QED
  BY <1>2, <1>3, <1>5, <1>6, BeginsKnowing

LEMMA UpdateBegins ==
    ASSUME Types, NEW j \in Runners, NEW i \in Inbounds, UpdateInbound(j, i), UndisturbedAgree
    PROVE  Blamed' /\ Understood' /\ UndisturbedAgree'
<1>1. PICK op, c, want : op = "updateInbound" /\ c = "" /\ want = ""
  OBVIOUS
<1>2. PICK gen, was : gen = inbound[i].gen + 1 /\ was = inbound[i]
  OBVIOUS
<1>3. PICK plan : plan = IF inbound[i].enable = "off" THEN <<>>
                         ELSE RemoveInbound(i, "must") \o AddInbound(i, gen, "must")
  OBVIOUS
<1>4. PICK h : h = job'[j]
  OBVIOUS
<1>5. /\ Exists(i) /\ inbound' = [inbound EXCEPT ![i].gen = gen]
      /\ Begin(j, op, i, c, want, plan) /\ UNCHANGED client
  BY <1>1, <1>2, <1>3 DEF UpdateInbound, OnInbound
<1>6. /\ xray' = xray /\ h.op = op /\ h.i = i /\ h.plan = plan /\ h.inbound = was
      /\ disturbed' = IF Busy = {} THEN disturbed ELSE All
  <2>1. h.op = op /\ h.i = i /\ h.plan = plan
    BY <1>4, <1>5, BeginJob
  <2>2. h.inbound = was
    <3>1. op = "updateInbound" => h.inbound = inbound[i]
      BY <1>4, <1>5, BeginRows
    <3>2. QED
      BY <1>1, <1>2, <3>1
  <2>3. QED
    BY <1>5, <2>1, <2>2, BeginWorld
<1>7. ASSUME Busy = {} PROVE Knows(h)'
  <2>1. Kept /\ Quiet /\ Spared(i) /\ disturbed' = disturbed
    BY <1>6, <1>7, RestKnown
  <2>2. inbound \in [Inbounds -> InboundRow]
    BY DEF Types, GoodRows
  <2>3. /\ inbound'[i] = Row(was.enable, gen)
        /\ \A k \in Inbounds : k # i => inbound'[k] = inbound[k]
    BY <1>2, <1>5, <2>2 DEF Row, InboundRow
  <2>4. was.enable \in {"on", "off", "error"} /\ inbound'[i].enable = was.enable
    BY <1>2, <1>5, <2>3 DEF Exists, Row
  <2>5. Enabled' = Enabled
    BY <1>2, <2>3, <2>4 DEF Enabled
  <2>6. Quiet'
    BY <1>6, <2>1, <2>5 DEF Quiet
  <2>7. About(i)
    BY <1>5, <1>6, <2>1, <2>3 DEF About
  <2>8. Spared(i)'
    BY <2>1, <2>7, SparedKept
  <2>9. CASE was.enable = "off"
    <3>1. h.plan = <<>>
      BY <1>2, <1>3, <1>6, <2>9
    <3>2. Known(i)' => Agree(i)'
      BY <1>2, <1>6, <2>1, <2>4, <2>9 DEF Known, Kept, Agree
    <3>3. Updating(h)'
      BY <1>6, <2>6, <2>9, <3>1, <3>2 DEF Updating
    <3>4. QED
      BY <1>1, <1>6, <2>8, <3>3 DEF Knows, DoesInbound, InboundOps, ClientOps
  <2>10. CASE was.enable # "off"
    <3>1. PICK x, y : x = RemoveStep(i, "must") /\ y = AddStep(i, gen, "must")
      OBVIOUS
    <3>2. RemoveInbound(i, "must") \o AddInbound(i, gen, "must") = <<x, y>>
      BY <3>1, Steps, Joins
    <3>3. y = New(h)
      BY <1>2, <1>6, <3>1 DEF New
    <3>4. h.plan = <<RemoveStep(h.i, "must"), New(h)>>
      BY <1>2, <1>3, <1>6, <2>10, <3>1, <3>2, <3>3
    <3>5. Known(i)' => Held(i, was)'
      <4>1. Known(i)' => Agree(i)
        BY <2>1 DEF Kept, Known
      <4>2. Merged(i, was.gen)' = Merged(i, was.gen)
        BY <1>5 DEF Merged
      <4>3. Agree(i) => Held(i, was)'
        BY <1>2, <1>6, <4>2 DEF Agree, Held, Serves
      <4>4. QED
        BY <4>1, <4>3
    <3>6. inbound'[h.i] = Row(h.inbound.enable, h.inbound.gen + 1)
      BY <1>2, <1>6, <2>3
    <3>7. Updating(h)'
      BY <1>6, <2>4, <2>6, <2>10, <3>4, <3>5, <3>6 DEF Updating, New
    <3>8. QED
      BY <1>1, <1>6, <2>8, <3>7 DEF Knows, DoesInbound, InboundOps, ClientOps
  <2>11. QED
    BY <2>9, <2>10
<1>8. op # "idle"
  BY <1>1
<1>9. QED
  BY <1>4, <1>5, <1>7, <1>8, BeginsKnowing

LEMMA BeginsIdle ==
    ASSUME Types, NEW j \in Runners, NEW op, NEW i, NEW c, NEW want, NEW plan,
           Begin(j, op, i, c, want, plan), Busy = {}, UndisturbedAgree,
           UNCHANGED <<inbound, client>>
    PROVE  /\ Kept' /\ Quiet' /\ \A k : Spared(k)'
           /\ \A k \in Inbounds : Known(k)' => Agree(k)'
<1>1. xray' = xray /\ disturbed' = disturbed
  BY BeginWorld
<1>2. Kept /\ Quiet /\ \A k : Spared(k)
  BY RestKnown
<1>3. /\ Quiet' /\ \A k : Spared(k)'
      /\ \A k : (Known(k)' <=> Known(k)) /\ (Agree(k)' <=> Agree(k))
  BY <1>1, <1>2, NothingDone
<1>4. Kept'
  BY <1>2, <1>3 DEF Kept
<1>5. QED
  BY <1>3, <1>4 DEF Kept

LEMMA RemovalBegins ==
    ASSUME Types, NEW j \in Runners, NEW i \in Inbounds, NEW op \in {"disable", "deleteInbound"},
           NEW want, want = "offline" => op = "deleteInbound", NEW plan, NEW x, NEW y, NEW z,
           x = RemoveStep(i, "must"), z = RowStep("last"),
           y = IF op = "disable" THEN RowStep("off") ELSE RowStep("drop"),
           plan = <<x, y, z>> \/ (plan = <<y, z>> /\ want = "offline"),
           NEW c, Begin(j, op, i, c, want, plan), UNCHANGED <<inbound, client>>,
           UndisturbedAgree
    PROVE  Blamed' /\ Understood' /\ UndisturbedAgree'
<1>1. PICK h : h = job'[j]
  OBVIOUS
<1>2. h.op = op /\ h.i = i /\ h.want = want /\ h.plan = plan
  BY <1>1, BeginJob
<1>3. ASSUME Busy = {} PROVE Knows(h)'
  <2>1. Quiet' /\ Spared(i)' /\ (Known(i)' => Agree(i)')
    BY <1>3, BeginsIdle
  <2>2. (Offline(h) <=> want = "offline") /\ y = Removed(h) /\ x = RemoveStep(h.i, "must")
    BY <1>2 DEF Offline, Removed
  <2>3. Removing(h)'
    <3>1. \/ h.plan = <<RemoveStep(h.i, "must"), Removed(h), RowStep("last")>>
          \/ h.plan = <<Removed(h), RowStep("last")>> /\ Offline(h)
      BY <1>2, <2>2
    <3>2. Offline(h) => h.op = "deleteInbound"
      BY <1>2, <2>2
    <3>3. Known(h.i)' => Agree(h.i)'
      BY <1>2, <2>1
    <3>4. QED
      BY <2>1, <3>1, <3>2, <3>3 DEF Removing, Removed, Offline
  <2>4. Spared(h.i)'
    BY <1>2, <2>1
  <2>5. QED
    BY <1>2, <2>3, <2>4 DEF Knows, DoesInbound, InboundOps, ClientOps
<1>4. op # "idle"
  OBVIOUS
<1>5. QED
  BY <1>1, <1>3, <1>4, BeginsKnowing

LEMMA DeleteBegins ==
    ASSUME Types, NEW j \in Runners, NEW i \in Inbounds, DeleteInbound(j, i), UndisturbedAgree
    PROVE  Blamed' /\ Understood' /\ UndisturbedAgree'
<1>1. PICK op, c, want : op = "deleteInbound" /\ c = "" /\ want = Away
  OBVIOUS
<1>2. PICK x, y, z : x = RemoveStep(i, "must") /\ y = RowStep("drop") /\ z = RowStep("last")
  OBVIOUS
<1>3. PICK plan : plan = (IF online THEN RemoveInbound(i, "must") ELSE <<>>)
                         \o Write("drop") \o Write("last")
  OBVIOUS
<1>4. Begin(j, op, i, c, want, plan) /\ UNCHANGED <<inbound, client>>
  BY <1>1, <1>3 DEF DeleteInbound, OnInbound
<1>5. RemoveInbound(i, "must") = <<x>> /\ Write("drop") = <<y>> /\ Write("last") = <<z>>
  BY <1>2, Steps
<1>6. plan = <<x, y, z>> \/ (plan = <<y, z>> /\ want = "offline")
  <2>1. /\ <<x>> \o <<y>> = <<x, y>> /\ <<x, y>> \o <<z>> = <<x, y, z>>
        /\ <<>> \o <<y>> = <<y>> /\ <<y>> \o <<z>> = <<y, z>>
    BY Joins
  <2>2. CASE online
    BY <1>3, <1>5, <2>1, <2>2
  <2>3. CASE ~ online
    BY <1>1, <1>3, <1>5, <2>1, <2>3 DEF Away
  <2>4. QED
    BY <2>2, <2>3
<1>7. op \in {"disable", "deleteInbound"} /\ (want = "offline" => op = "deleteInbound")
  BY <1>1
<1>8. y = IF op = "disable" THEN RowStep("off") ELSE RowStep("drop")
  BY <1>1, <1>2
<1>9. QED
  BY <1>2, <1>4, <1>6, <1>7, <1>8, RemovalBegins

LEMMA DisableBegins ==
    ASSUME Types, NEW j \in Runners, NEW i \in Inbounds, DisableInbound(j, i), UndisturbedAgree
    PROVE  Blamed' /\ Understood' /\ UndisturbedAgree'
<1>1. PICK op, c, want : op = "disable" /\ c = "" /\ want = ""
  OBVIOUS
<1>2. PICK x, y, z : x = RemoveStep(i, "must") /\ y = RowStep("off") /\ z = RowStep("last")
  OBVIOUS
<1>3. PICK plan : plan = RemoveInbound(i, "must") \o Write("off") \o Write("last")
  OBVIOUS
<1>4. Begin(j, op, i, c, want, plan) /\ UNCHANGED <<inbound, client>>
  BY <1>1, <1>3 DEF DisableInbound, OnInbound
<1>5. RemoveInbound(i, "must") = <<x>> /\ Write("off") = <<y>> /\ Write("last") = <<z>>
  BY <1>2, Steps
<1>6. plan = <<x, y, z>>
  <2>1. <<x>> \o <<y>> = <<x, y>> /\ <<x, y>> \o <<z>> = <<x, y, z>>
    BY Joins
  <2>2. QED
    BY <1>3, <1>5, <2>1
<1>7. op \in {"disable", "deleteInbound"} /\ (want = "offline" => op = "deleteInbound")
  BY <1>1
<1>8. y = IF op = "disable" THEN RowStep("off") ELSE RowStep("drop")
  BY <1>1, <1>2
<1>9. QED
  BY <1>2, <1>4, <1>6, <1>7, <1>8, RemovalBegins

LEMMA EnableBegins ==
    ASSUME Types, NEW j \in Runners, NEW i \in Inbounds, EnableInbound(j, i), UndisturbedAgree
    PROVE  Blamed' /\ Understood' /\ UndisturbedAgree'
<1>1. PICK op, c, want, gen : op = "enable" /\ c = "" /\ want = "" /\ gen = inbound[i].gen
  OBVIOUS
<1>2. PICK plan : plan = AddInbound(i, gen, "must")
  OBVIOUS
<1>3. PICK h : h = job'[j]
  OBVIOUS
<1>4. /\ Exists(i) /\ inbound' = [inbound EXCEPT ![i].enable = "on"]
      /\ Begin(j, op, i, c, want, plan) /\ UNCHANGED client
  BY <1>1, <1>2 DEF EnableInbound, OnInbound, SetInbound
<1>5. h.op = op /\ h.i = i /\ h.plan = plan
  BY <1>3, <1>4, BeginJob
<1>6. ~ h.failed
  BY <1>3, <1>4, BeginClean
<1>7. xray' = xray /\ disturbed' = IF Busy = {} THEN disturbed ELSE All
  BY <1>4, BeginWorld
<1>8. ASSUME Busy = {} PROVE Knows(h)'
  <2>1. Spared(i) /\ disturbed' = disturbed
    BY <1>7, <1>8, RestKnown
  <2>2. inbound \in [Inbounds -> InboundRow]
    BY DEF Types, GoodRows
  <2>3. /\ inbound'[i].enable = "on" /\ inbound'[i].gen = gen
        /\ \A k \in Inbounds : k # i => inbound'[k] = inbound[k]
    BY <1>1, <1>4, <2>2 DEF InboundRow
  <2>4. About(i)
    BY <1>4, <1>7, <2>1, <2>3 DEF About
  <2>5. Spared(h.i)'
    BY <1>5, <2>1, <2>4, SparedKept
  <2>6. h.plan = <<AddStep(i, gen, "must")>>
    BY <1>2, <1>5, Steps
  <2>7. Enabling(h)'
    BY <1>5, <1>6, <2>3, <2>6 DEF Enabling
  <2>8. h.op = "enable"
    BY <1>1, <1>5
  <2>9. QED
    BY <2>5, <2>7, <2>8 DEF Knows, DoesInbound, InboundOps, ClientOps
<1>9. op # "idle"
  BY <1>1
<1>10. QED
  BY <1>3, <1>4, <1>8, <1>9, BeginsKnowing

LEMMA UserIs ==
    ASSUME NEW c \in Clients, Kept
    PROVE  /\ On(c) => User(c, TRUE)
           /\ ~ On(c) => User(c, FALSE)
<1>1. InboundOf[c] \in Inbounds
  BY PanelAssumption
<1>2. User(c, On(c))
  BY <1>1, AgreeUser DEF Kept
<1>3. PICK no \in BOOLEAN, yes \in BOOLEAN : no = FALSE /\ yes = TRUE
  OBVIOUS
<1>4. ASSUME NEW b \in BOOLEAN, b <=> On(c) PROVE User(c, b)
  <2>1. With(c, b) = With(c, On(c))
    BY <1>4 DEF With, On
  <2>2. QED
    BY <1>2, <2>1 DEF User, Serves
<1>5. /\ On(c) => User(c, yes)
      /\ ~ On(c) => User(c, no)
  BY <1>3, <1>4
<1>6. QED
  BY <1>3, <1>5

\* An operation of a client begins, and writes no row but the client's.
ClientBegins(j, op, c, want, plan) ==
    /\ Begin(j, op, InboundOf[c], c, want, plan)
    /\ inbound' = inbound
    /\ \A d \in Clients : d # c => client'[d].enable = client[d].enable

LEMMA ClientBegun ==
    ASSUME Types, NEW j \in Runners, NEW op, NEW c \in Clients, NEW want, NEW plan,
           ClientBegins(j, op, c, want, plan), UndisturbedAgree, Busy = {}
    PROVE  /\ On(c) => User(c, TRUE)'
           /\ ~ On(c) => User(c, FALSE)'
           /\ Spared(InboundOf[c])' /\ Quiet'
<1>1. PICK i : i = InboundOf[c]
  OBVIOUS
<1>2. Begin(j, op, i, c, want, plan)
  BY <1>1 DEF ClientBegins
<1>3. xray' = xray /\ disturbed' = disturbed
  BY <1>2, BeginWorld
<1>4. WritesClient(c)
  BY <1>3 DEF ClientBegins, WritesClient
<1>5. Kept /\ Quiet /\ Spared(InboundOf[c])
  BY RestKnown
<1>6. Spared(InboundOf[c])' /\ Quiet'
  BY <1>4, <1>5, ClientWriteFrame
<1>7. /\ User(c, FALSE) => User(c, FALSE)'
      /\ User(c, TRUE) => User(c, TRUE)'
  BY <1>4, UsersKept
<1>8. /\ On(c) => User(c, TRUE)
      /\ ~ On(c) => User(c, FALSE)
  BY <1>5, UserIs
<1>9. QED
  BY <1>6, <1>7, <1>8

LEMMA ClientBeginsKnowing ==
    ASSUME Types, NEW j \in Runners, NEW op \in ClientOps, NEW c \in Clients, NEW want, NEW plan,
           ClientBegins(j, op, c, want, plan), UndisturbedAgree, NEW h, h = job'[j],
           Busy = {} => DoesClient(h)'
    PROVE  Blamed' /\ Understood' /\ UndisturbedAgree'
<1>1. PICK i : i = InboundOf[c]
  OBVIOUS
<1>2. Begin(j, op, i, c, want, plan)
  BY <1>1 DEF ClientBegins
<1>3. h.op = op /\ h.i = i
  BY <1>2, BeginJob
<1>4. ASSUME Busy = {} PROVE Knows(h)'
  <2>1. Spared(i)' /\ Quiet'
    BY <1>1, <1>4, ClientBegun
  <2>2. h.op \in ClientOps /\ h.op \notin InboundOps /\ h.op # "reconcile"
    BY <1>3 DEF ClientOps, InboundOps
  <2>3. Spared(h.i)'
    BY <1>3, <2>1
  <2>4. QED
    BY <1>4, <2>1, <2>2, <2>3 DEF Knows
<1>5. op # "idle"
  BY DEF ClientOps
<1>6. QED
  BY <1>2, <1>4, <1>5, BeginsKnowing

LEMMA ClientBeginsJob ==
    ASSUME Types, NEW j \in Runners, NEW op, NEW c \in Clients, NEW want, NEW plan,
           ClientBegins(j, op, c, want, plan), NEW h, h = job'[j]
    PROVE  h.op = op /\ h.c = c /\ h.want = want /\ h.plan = plan
<1>1. PICK i : i = InboundOf[c]
  OBVIOUS
<1>2. Begin(j, op, i, c, want, plan)
  BY <1>1 DEF ClientBegins
<1>3. QED
  BY <1>2, BeginJob

LEMMA CreateClientBegins ==
    ASSUME Types, NEW j \in Runners, NEW c \in Clients, CreateClient(j, c), UndisturbedAgree
    PROVE  Blamed' /\ Understood' /\ UndisturbedAgree'
<1>1. PICK op, want : op = "createClient" /\ want = "on"
  OBVIOUS
<1>2. PICK plan : plan = AddClient(c, "must")
  OBVIOUS
<1>3. PICK h : h = job'[j]
  OBVIOUS
<1>4. client \in [Clients -> ClientRow]
  BY DEF Types
<1>5. /\ client'[c].enable = "on" /\ ~ On(c)
      /\ ClientBegins(j, op, c, want, plan)
  BY <1>1, <1>2, <1>4 DEF CreateClient, OnClient, ClientBegins, HasRow, On
<1>6. h.op = op /\ h.c = c /\ h.plan = plan
  BY <1>3, <1>5, ClientBeginsJob
<1>7. ASSUME Busy = {} PROVE DoesClient(h)'
  <2>1. User(c, FALSE)'
    BY <1>5, <1>7, ClientBegun
  <2>2. h.plan = <<AddUser(c, "must")>> /\ On(c)'
    BY <1>2, <1>5, <1>6, Steps DEF On
  <2>3. CreatingClient(h)'
    BY <1>6, <2>1, <2>2 DEF CreatingClient
  <2>4. QED
    BY <1>1, <1>6, <2>3 DEF DoesClient
<1>8. op \in ClientOps
  BY <1>1 DEF ClientOps
<1>9. QED
  BY <1>3, <1>5, <1>7, <1>8, ClientBeginsKnowing

LEMMA UpdateClientBegins ==
    ASSUME Types, NEW j \in Runners, NEW c \in Clients, NEW e \in {"on", "off"},
           UpdateClient(j, c, e), UndisturbedAgree
    PROVE  Blamed' /\ Understood' /\ UndisturbedAgree'
<1>1. PICK op : op = "updateClient"
  OBVIOUS
<1>2. PICK x, y : x = RemoveUser(c, "must") /\ y = RowStep("reload")
  OBVIOUS
<1>3. PICK plan : plan = (IF client[c].enable = "on" THEN RemoveClient(c, "must") ELSE <<>>)
                         \o Write("reload")
  OBVIOUS
<1>4. PICK h : h = job'[j]
  OBVIOUS
<1>5. client \in [Clients -> ClientRow]
  BY DEF Types
<1>6. client' = [client EXCEPT ![c].enable = e, ![c].written = TRUE]
  BY DEF UpdateClient
<1>7. client'[c].enable = e /\ \A d \in Clients : d # c => client'[d].enable = client[d].enable
  BY <1>5, <1>6 DEF ClientRow
<1>8. ClientBegins(j, op, c, e, plan)
  BY <1>1, <1>3, <1>7 DEF UpdateClient, OnClient, ClientBegins
<1>9. h.op = op /\ h.c = c /\ h.want = e /\ h.plan = plan
  BY <1>4, <1>8, ClientBeginsJob
<1>10. WasOn(h) <=> On(c)
  <2>1. PICK i : i = InboundOf[c]
    OBVIOUS
  <2>2. Begin(j, op, i, c, e, plan)
    BY <1>8, <2>1 DEF ClientBegins
  <2>3. op = "updateClient" => h.client = client[c]
    BY <1>4, <2>2, BeginRows
  <2>4. QED
    BY <1>1, <2>3 DEF WasOn, On
<1>11. RemoveClient(c, "must") = <<x>> /\ Write("reload") = <<y>>
  BY <1>2, Steps
<1>12. <<x>> \o <<y>> = <<x, y>> /\ <<>> \o <<y>> = <<y>>
  BY Joins
<1>13. ASSUME Busy = {} PROVE DoesClient(h)'
  <2>1. CASE On(c)
    <3>1. User(c, TRUE)'
      BY <1>8, <1>13, <2>1, ClientBegun
    <3>2. h.plan = <<x, y>>
      BY <1>3, <1>9, <1>11, <1>12, <2>1 DEF On
    <3>3. UpdatingClient(h)'
      BY <1>2, <1>7, <1>9, <1>10, <2>1, <3>1, <3>2 DEF UpdatingClient, WasOn
    <3>4. QED
      BY <1>1, <1>9, <3>3 DEF DoesClient
  <2>2. CASE ~ On(c)
    <3>1. User(c, FALSE)'
      BY <1>8, <1>13, <2>2, ClientBegun
    <3>2. h.plan = <<y>>
      BY <1>3, <1>9, <1>11, <1>12, <2>2 DEF On
    <3>3. UpdatingClient(h)'
      BY <1>2, <1>7, <1>9, <3>1, <3>2 DEF UpdatingClient
    <3>4. QED
      BY <1>1, <1>9, <3>3 DEF DoesClient
  <2>3. QED
    BY <2>1, <2>2
<1>14. op \in ClientOps
  BY <1>1 DEF ClientOps
<1>15. QED
  BY <1>4, <1>8, <1>13, <1>14, ClientBeginsKnowing

LEMMA DeleteClientBegins ==
    ASSUME Types, NEW j \in Runners, NEW c \in Clients, DeleteClient(j, c), UndisturbedAgree
    PROVE  Blamed' /\ Understood' /\ UndisturbedAgree'
<1>1. PICK op, want : op = "deleteClient" /\ want = Away
  OBVIOUS
<1>2. PICK x, y : x = RemoveUser(c, "must") /\ y = RowStep("dropClient")
  OBVIOUS
<1>3. PICK plan : plan = (IF online /\ Exists(InboundOf[c]) THEN RemoveClient(c, "must") ELSE <<>>)
                         \o Write("dropClient")
  OBVIOUS
<1>4. PICK h : h = job'[j]
  OBVIOUS
<1>5. ClientBegins(j, op, c, want, plan) /\ UNCHANGED <<inbound, client>>
  BY <1>1, <1>3 DEF DeleteClient, OnClient, ClientBegins
<1>6. h.op = op /\ h.c = c /\ h.want = want /\ h.plan = plan
  BY <1>4, <1>5, ClientBeginsJob
<1>7. RemoveClient(c, "must") = <<x>> /\ Write("dropClient") = <<y>>
  BY <1>2, Steps
<1>8. <<x>> \o <<y>> = <<x, y>> /\ <<>> \o <<y>> = <<y>>
  BY Joins
<1>9. ASSUME Busy = {} PROVE DoesClient(h)'
  <2>1. On(c)' <=> On(c)
    BY <1>5 DEF On
  <2>2. /\ On(c) => User(c, TRUE)'
        /\ ~ On(c) => User(c, FALSE)'
    BY <1>5, <1>9, ClientBegun
  <2>3. User(c, On(c))'
    BY <2>1, <2>2, UserOnOff
  <2>4. CASE online /\ Exists(InboundOf[c])
    <3>1. h.plan = <<x, y>>
      BY <1>3, <1>6, <1>7, <1>8, <2>4
    <3>2. DeletingClient(h)'
      BY <1>2, <1>6, <2>3, <3>1 DEF DeletingClient
    <3>3. QED
      BY <1>1, <1>6, <3>2 DEF DoesClient
  <2>5. CASE ~ (online /\ Exists(InboundOf[c]))
    <3>1. h.plan = <<y>>
      BY <1>3, <1>6, <1>7, <1>8, <2>5
    <3>2. ~ Offline(h) => User(c, FALSE)'
      <4>1. SUFFICES ASSUME ~ Offline(h) PROVE User(c, FALSE)'
        OBVIOUS
      <4>2. ~ Exists(InboundOf[c])
        BY <1>1, <1>6, <2>5, <4>1 DEF Offline, Away
      <4>3. inbound'[InboundOf[c]].enable # "on"
        BY <1>5, <4>2 DEF Exists
      <4>4. User(c, On(c))' => User(c, FALSE)'
        BY <4>3 DEF User
      <4>5. QED
        BY <2>3, <4>4
    <3>3. DeletingClient(h)'
      BY <1>2, <1>6, <3>1, <3>2 DEF DeletingClient, Offline
    <3>4. QED
      BY <1>1, <1>6, <3>3 DEF DoesClient
  <2>6. QED
    BY <2>4, <2>5
<1>10. op \in ClientOps
  BY <1>1 DEF ClientOps
<1>11. QED
  BY <1>4, <1>5, <1>9, <1>10, ClientBeginsKnowing

\* An operation begins that leaves the client as it is, on or off.
LEMMA ClientSame ==
    ASSUME Types, NEW j \in Runners, NEW op, NEW c \in Clients, NEW want, NEW plan,
           ClientBegins(j, op, c, want, plan), client'[c].enable = client[c].enable,
           UndisturbedAgree, Busy = {}
    PROVE  User(c, On(c))' /\ (On(c) => User(c, TRUE)') /\ (~ On(c) => User(c, FALSE)')
<1>1. On(c)' <=> On(c)
  BY DEF On
<1>2. /\ On(c) => User(c, TRUE)'
      /\ ~ On(c) => User(c, FALSE)'
  BY ClientBegun
<1>3. User(c, On(c))'
  BY <1>1, <1>2, UserOnOff
<1>4. QED
  BY <1>2, <1>3

LEMMA IdleBegins ==
    ASSUME Types, NEW j \in Runners, NEW op \in {"reset", "check"}, NEW c \in Clients,
           NEW want, NEW plan, plan = <<>>, ClientBegins(j, op, c, want, plan),
           client'[c].enable = client[c].enable, UndisturbedAgree
    PROVE  Blamed' /\ Understood' /\ UndisturbedAgree'
<1>1. PICK h : h = job'[j]
  OBVIOUS
<1>2. h.op = op /\ h.c = c /\ h.plan = plan
  BY <1>1, ClientBeginsJob
<1>3. ASSUME Busy = {} PROVE DoesClient(h)'
  <2>1. User(c, On(c))'
    BY <1>3, ClientSame
  <2>2. Resetting(h)'
    BY <1>2, <2>1 DEF Resetting
  <2>3. QED
    BY <1>2, <2>2 DEF DoesClient
<1>4. op \in ClientOps
  BY DEF ClientOps
<1>5. QED
  BY <1>1, <1>3, <1>4, ClientBeginsKnowing

LEMMA ResetBegins ==
    ASSUME Types, NEW j \in Runners, NEW op \in {"reset", "check"}, NEW c \in Clients,
           HasRow(c), Reset(j, c, op), UndisturbedAgree
    PROVE  Blamed' /\ Understood' /\ UndisturbedAgree'
<1>1. PICK want, plan : /\ want = ""
                        /\ plan = IF client[c].enable = "off"
                                  THEN Write("onClient") \o AddClient(c, "try") ELSE <<>>
  OBVIOUS
<1>2. client \in [Clients -> ClientRow]
  BY DEF Types
<1>3. client' = [client EXCEPT ![c].used = 0, ![c].written = TRUE]
  BY DEF Reset
<1>4. /\ client'[c].enable = client[c].enable
      /\ \A d \in Clients : d # c => client'[d].enable = client[d].enable
  BY <1>2, <1>3 DEF ClientRow
<1>5. ClientBegins(j, op, c, want, plan)
  BY <1>1, <1>4 DEF Reset, OnClient, ClientBegins
<1>6. CASE client[c].enable # "off"
  <2>1. plan = <<>>
    BY <1>1, <1>6
  <2>2. QED
    BY <1>4, <1>5, <2>1, IdleBegins
<1>7. CASE client[c].enable = "off"
  <2>1. PICK x, y : x = RowStep("onClient") /\ y = AddUser(c, "try")
    OBVIOUS
  <2>2. Write("onClient") = <<x>> /\ AddClient(c, "try") = <<y>>
    BY <2>1, Steps
  <2>3. <<x>> \o <<y>> = <<x, y>>
    BY Joins
  <2>4. PICK h : h = job'[j]
    OBVIOUS
  <2>5. h.op = op /\ h.c = c /\ h.plan = plan
    BY <1>5, <2>4, ClientBeginsJob
  <2>6. ASSUME Busy = {} PROVE DoesClient(h)'
    <3>1. ~ On(c)
      BY <1>7 DEF On
    <3>2. User(c, FALSE)'
      BY <1>5, <2>6, <3>1, ClientBegun
    <3>3. h.plan = <<x, y>>
      BY <1>1, <1>7, <2>2, <2>3, <2>5
    <3>4. Resetting(h)'
      BY <1>4, <1>7, <2>1, <2>5, <3>2, <3>3 DEF Resetting
    <3>5. QED
      BY <2>5, <3>4 DEF DoesClient
  <2>7. op \in ClientOps
    BY DEF ClientOps
  <2>8. QED
    BY <1>5, <2>4, <2>6, <2>7, ClientBeginsKnowing
<1>8. QED
  BY <1>6, <1>7

LEMMA CheckBegins ==
    ASSUME Types, NEW j \in Runners, NEW c \in Clients, Check(j, c), UndisturbedAgree
    PROVE  Blamed' /\ Understood' /\ UndisturbedAgree'
<1>1. PICK op, want, plan : op = "check" /\ want = "" /\ plan = <<>>
  OBVIOUS
<1>2. HasRow(c) /\ op \in {"reset", "check"}
  BY <1>1 DEF Check
<1>3. CASE Reset(j, c, op)
  BY <1>2, <1>3, ResetBegins
<1>4. CASE OnClient(j, op, c, want, plan) /\ UNCHANGED client
  <2>1. ClientBegins(j, op, c, want, plan) /\ client'[c].enable = client[c].enable
    BY <1>4 DEF OnClient, ClientBegins
  <2>2. QED
    BY <1>1, <1>2, <2>1, IdleBegins
<1>5. QED
  BY <1>1, <1>3, <1>4 DEF Check

LEMMA TrafficBegins ==
    ASSUME Types, NEW j \in Runners, NEW c \in Clients, Traffic(j, c), UndisturbedAgree
    PROVE  Blamed' /\ Understood' /\ UndisturbedAgree'
<1>1. PICK op, want, plan : op = "traffic" /\ want = "" /\ plan = Write("limit")
  OBVIOUS
<1>2. PICK h : h = job'[j]
  OBVIOUS
<1>3. client \in [Clients -> ClientRow]
  BY DEF Types
<1>4. client' = [client EXCEPT ![c].used = IF @ < Limit THEN @ + 1 ELSE @]
  BY DEF Traffic
<1>5. /\ client'[c].enable = client[c].enable
      /\ \A d \in Clients : d # c => client'[d].enable = client[d].enable
  BY <1>3, <1>4 DEF ClientRow
<1>6. ClientBegins(j, op, c, want, plan)
  BY <1>1, <1>5 DEF Traffic, OnClient, ClientBegins
<1>7. h.op = op /\ h.c = c /\ h.plan = plan
  BY <1>2, <1>6, ClientBeginsJob
<1>8. ASSUME Busy = {} PROVE DoesClient(h)'
  <2>1. User(c, On(c))'
    BY <1>5, <1>6, <1>8, ClientSame
  <2>2. h.plan = <<RowStep("limit")>>
    BY <1>1, <1>7, Steps
  <2>3. Reporting(h)'
    BY <1>7, <2>1, <2>2 DEF Reporting
  <2>4. QED
    BY <1>1, <1>7, <2>3 DEF DoesClient
<1>9. op \in ClientOps
  BY <1>1 DEF ClientOps
<1>10. QED
  BY <1>2, <1>6, <1>8, <1>9, ClientBeginsKnowing

LEMMA ExpelBegins ==
    ASSUME Types, NEW j \in Runners, NEW c \in Clients, Expel(j, c), UndisturbedAgree
    PROVE  Blamed' /\ Understood' /\ UndisturbedAgree'
<1>1. PICK op, want, x, y : /\ op = "expel" /\ want = ""
                            /\ x = RemoveUser(c, "try") /\ y = RowStep("offClient")
  OBVIOUS
<1>2. PICK h : h = job'[j]
  OBVIOUS
<1>3. client \in [Clients -> ClientRow]
  BY DEF Types
<1>4. On(c) /\ HasRow(c)
  BY DEF Expel, On, HasRow
<1>5. RemoveClient(c, "try") = <<x>> /\ Write("offClient") = <<y>> /\ <<x>> \o <<y>> = <<x, y>>
  BY <1>1, Steps, Joins
<1>6. op \in ClientOps
  BY <1>1 DEF ClientOps
<1>7. CASE SetClient(c, "off") /\ OnClient(j, "expel", c, "", RemoveClient(c, "try"))
  <2>1. PICK plan : plan = RemoveClient(c, "try")
    OBVIOUS
  <2>2. /\ client'[c].enable = "off"
        /\ \A d \in Clients : d # c => client'[d].enable = client[d].enable
    BY <1>3, <1>4, <1>7 DEF SetClient, ClientRow
  <2>3. ClientBegins(j, op, c, want, plan)
    BY <1>1, <1>7, <2>1, <2>2 DEF OnClient, ClientBegins
  <2>4. h.op = op /\ h.c = c /\ h.plan = plan
    BY <1>2, <2>3, ClientBeginsJob
  <2>5. ASSUME Busy = {} PROVE DoesClient(h)'
    <3>1. User(c, TRUE)'
      BY <1>4, <2>3, <2>5, ClientBegun
    <3>2. h.plan = <<x>> /\ ~ On(c)'
      BY <1>5, <2>1, <2>2, <2>4 DEF On
    <3>3. Reporting(h)'
      BY <1>1, <2>4, <3>1, <3>2 DEF Reporting
    <3>4. QED
      BY <1>1, <2>4, <3>3 DEF DoesClient
  <2>6. QED
    BY <1>2, <1>6, <2>3, <2>5, ClientBeginsKnowing
<1>8. CASE /\ UNCHANGED client
           /\ OnClient(j, "expel", c, "", RemoveClient(c, "try") \o Write("offClient"))
  <2>1. PICK plan : plan = RemoveClient(c, "try") \o Write("offClient")
    OBVIOUS
  <2>2. client'[c].enable = client[c].enable
    BY <1>8
  <2>3. ClientBegins(j, op, c, want, plan)
    BY <1>1, <1>8, <2>1 DEF OnClient, ClientBegins
  <2>4. h.op = op /\ h.c = c /\ h.plan = plan
    BY <1>2, <2>3, ClientBeginsJob
  <2>5. ASSUME Busy = {} PROVE DoesClient(h)'
    <3>1. User(c, TRUE)'
      BY <1>4, <2>3, <2>5, ClientBegun
    <3>2. h.plan = <<x, y>> /\ On(c)'
      BY <1>4, <1>5, <2>1, <2>2, <2>4 DEF On
    <3>3. Reporting(h)'
      BY <1>1, <2>4, <3>1, <3>2 DEF Reporting
    <3>4. QED
      BY <1>1, <2>4, <3>3 DEF DoesClient
  <2>6. QED
    BY <1>2, <1>6, <2>3, <2>5, ClientBeginsKnowing
<1>9. QED
  BY <1>7, <1>8 DEF Expel

\* A plan of n inbounds to add, in the order s.
AddsAll(s, n, p) ==
    /\ n \in Nat /\ n = Len(s) /\ Len(p) = n + 2
    /\ p[n + 1] = RowStep("recover") /\ p[n + 2] = RowStep("tags")
    /\ \A m \in 1..n : \/ p[m] = AddStep(s[m], 0, "try")
                       \/ p[m] = AddStep(s[m], 0, "first") /\ m = 1

LEMMA DeployPlan ==
    ASSUME NEW s \in Orders(Wanted), Wanted # {}, NEW plan, plan = Deploy(s) \o Write("tags")
    PROVE  \E n : AddsAll(s, n, plan)
<1>1. s \in Seq(Wanted) /\ DOMAIN s = 1..Len(s)
  BY OrdersFact DEF Wanted
<1>2. s # <<>>
  BY OrdersFact DEF Wanted
<1>3. Len(s) \in Nat
  BY <1>1, LenProperties
<1>4. PICK n \in Nat : n = Len(s)
  BY <1>3
<1>5. DOMAIN s = 1..n
  BY <1>1, <1>4
<1> DEFINE q == [m \in 1..n |-> AddStep(s[m], 0, IF m = 1 THEN "first" ELSE "try")]
           T == {q[m] : m \in 1..n} \cup {RowStep("recover"), RowStep("tags")}
<1>6. Deploy(s) = q \o Write("recover")
  <2>1. \A i, mode : Head(AddInbound(i, 0, mode)) = AddStep(i, 0, mode)
    <3>1. \A x : Head(<<x>>) = x
      OBVIOUS
    <3>2. QED
      BY <3>1, Steps
  <2>2. [m \in DOMAIN s |-> Head(AddInbound(s[m], 0, IF m = 1 THEN "first" ELSE "try"))] = q
    BY <1>5, <2>1
  <2>3. QED
    BY <1>2, <2>2 DEF Deploy
<1>7. PICK y, z : y = RowStep("recover") /\ z = RowStep("tags")
  OBVIOUS
<1>8. plan = (q \o <<y>>) \o <<z>>
  BY <1>6, <1>7, Steps
<1>9. /\ q \in Seq(T) /\ Len(q) = n
      /\ \A m \in 1..n : q[m] = AddStep(s[m], 0, IF m = 1 THEN "first" ELSE "try")
  OBVIOUS
<1>10. y \in T /\ z \in T
  BY <1>7
<1> HIDE DEF q, T
<1>11. PICK u : u = q \o <<y>>
  OBVIOUS
<1>12. u \in Seq(T) /\ Len(u) = n + 1 /\ u[n + 1] = y /\ \A m \in 1..n : u[m] = q[m]
  BY <1>4, <1>9, <1>10, <1>11
<1>13. /\ Len(plan) = n + 2 /\ plan[n + 2] = z
       /\ \A m \in 1..(n + 1) : plan[m] = u[m]
  BY <1>4, <1>8, <1>10, <1>11, <1>12
<1>14. plan[n + 1] = y /\ \A m \in 1..n : plan[m] = q[m]
  <2>1. n + 1 \in 1..(n + 1) /\ 1..n \subseteq 1..(n + 1)
    BY <1>4
  <2>2. QED
    BY <1>12, <1>13, <2>1
<1>15. ASSUME NEW m \in 1..n
       PROVE  \/ plan[m] = AddStep(s[m], 0, "try")
              \/ plan[m] = AddStep(s[m], 0, "first") /\ m = 1
  BY <1>9, <1>14
<1>16. AddsAll(s, n, plan)
  BY <1>4, <1>7, <1>13, <1>14, <1>15 DEF AddsAll
<1>17. QED
  BY <1>16

LEMMA ReconcileBegins ==
    ASSUME Types, StartReconcile, UndisturbedAgree
    PROVE  Blamed' /\ Understood' /\ UndisturbedAgree'
<1>1. PICK s \in Orders(Wanted) :
         Begin("reconcile", "reconcile", 1, "", "", Deploy(s) \o Write("tags"))
  BY DEF StartReconcile
<1>2. PICK op, i, c, want, plan : /\ op = "reconcile" /\ i = 1 /\ c = "" /\ want = ""
                                  /\ plan = Deploy(s) \o Write("tags")
  OBVIOUS
<1>3. PICK j \in Runners : j = "reconcile"
  BY DEF Runners
<1>4. Begin(j, op, i, c, want, plan) /\ UNCHANGED <<inbound, client>>
  BY <1>1, <1>2, <1>3 DEF StartReconcile
<1>5. PICK h : h = job'[j]
  OBVIOUS
<1>6. h.op = op /\ h.plan = plan
  BY <1>4, <1>5, BeginJob
<1>7. ~ h.failed
  BY <1>4, <1>5, BeginClean
<1>8. h.all = [k \in Inbounds |-> Deployed(k)]
  BY <1>2, <1>4, <1>5, BeginAll
<1>9. ASSUME Busy = {} PROVE Knows(h)'
  <2>1. Kept' /\ Quiet'
    BY <1>4, <1>9, BeginsIdle
  <2>2. /\ Wanted' = Wanted /\ Enabled' = Enabled
        /\ \A k \in Inbounds : Deployed(k)' = Deployed(k)
        /\ [k \in Inbounds |-> Deployed(k)]' = [k \in Inbounds |-> Deployed(k)]
    BY <1>4, RowsKept
  <2>3. Wanted \in SUBSET Inbounds
    BY DEF Wanted
  <2>4. CASE Wanted = {}
    <3>1. s = <<>>
      BY <2>3, <2>4, OrdersFact
    <3>2. PICK x, y : x = StopStep /\ y = RowStep("tags")
      OBVIOUS
    <3>3. plan = <<x>> \o <<y>>
      BY <1>2, <3>1, <3>2, Steps DEF Deploy
    <3>4. h.plan = <<StopStep, RowStep("tags")>>
      BY <1>6, <3>2, <3>3, Joins
    <3>5. Reconciling(h)'
      BY <2>1, <2>2, <2>4, <3>4 DEF Reconciling
    <3>6. QED
      BY <1>2, <1>6, <3>5 DEF Knows, InboundOps, ClientOps
  <2>5. CASE Wanted # {}
    <3>1. PICK n : AddsAll(s, n, plan)
      BY <1>2, <2>5, DeployPlan
    <3>2. /\ n \in Nat /\ n = Len(s) /\ Len(plan) = n + 2
          /\ plan[n + 1] = RowStep("recover") /\ plan[n + 2] = RowStep("tags")
          /\ \A m \in 1..n : \/ plan[m] = AddStep(s[m], 0, "try")
                             \/ plan[m] = AddStep(s[m], 0, "first") /\ m = 1
      BY <3>1 DEF AddsAll
    <3>3. /\ \A m \in 1..n : s[m] \in Wanted
          /\ \A k \in Wanted : \E m \in 1..n : s[m] = k
      BY <2>3, <3>2, OrdersFact
    <3>4. \A m \in 1..n : plan[m].i = s[m]
      <4>1. \A k, mode : AddStep(k, 0, mode).i = k
        BY DEF AddStep
      <4>2. QED
        BY <3>2, <4>1
    <3>5. Adds(h, n)'
      <4>1. ASSUME NEW m \in 1..n
            PROVE  /\ plan[m].i \in Wanted'
                   /\ \/ plan[m] = AddStep(plan[m].i, 0, "try")
                      \/ plan[m] = AddStep(plan[m].i, 0, "first") /\ m = 1
        BY <2>2, <3>2, <3>3, <3>4
      <4>2. QED
        BY <1>6, <2>1, <3>2, <4>1 DEF Adds
    <3>6. PICK A : A = AddsOf(plan, n)
      OBVIOUS
    <3>7. Wanted \subseteq A
      BY <3>3, <3>4, <3>6 DEF AddsOf
    <3>8. Gathered(A)'
      <4>1. ASSUME NEW k \in Inbounds, Known(k)'
            PROVE  /\ k \in Enabled' \/ (k \in Wanted' /\ k \notin A) => Restored(k)'
                   /\ xray'.at[k] = Absent \/ (k \in Wanted' /\ Restored(k)')
        <5>1. Agree(k)'
          BY <2>1, <4>1 DEF Kept
        <5>2. ASSUME k \in Enabled' PROVE k \in Wanted' /\ Restored(k)'
          <6>1. inbound'[k].enable = "on" /\ k \in Wanted'
            BY <5>2 DEF Enabled, Wanted
          <6>2. QED
            BY <5>1, <6>1 DEF Agree, Restored, Serves, Deployed
        <5>3. ASSUME k \notin Enabled' PROVE xray'.at[k] = Absent
          BY <5>1, <5>3 DEF Agree, Enabled
        <5>4. QED
          BY <2>2, <3>7, <5>2, <5>3
      <4>2. QED
        BY <4>1 DEF Gathered
    <3>9. Present(A)'
      BY <2>2, <3>7 DEF Present
    <3>10. Adding(h, n)'
      <4>1. Plans(h)'
        BY <1>8, <2>2 DEF Plans
      <4>2. A = AddsOf(h.plan, n)
        BY <1>6, <3>6
      <4>3. QED
        BY <2>2, <2>5, <3>5, <3>8, <3>9, <4>1, <4>2 DEF Adding
    <3>11. Reconciling(h)'
      BY <3>2, <3>10 DEF Reconciling
    <3>12. QED
      BY <1>2, <1>6, <3>11 DEF Knows, InboundOps, ClientOps
  <2>6. QED
    BY <2>4, <2>5
<1>10. op # "idle"
  BY <1>2
<1>11. QED
  BY <1>4, <1>5, <1>9, <1>10, BeginsKnowing

-----------------------------------------------------------------------------
(* A goroutine that ends alone leaves things as the rows say.               *)

LEMMA Nothing ==
    ASSUME NEW p, p = <<>>
    PROVE  /\ \A a : p # <<a>>
           /\ \A a, b : p # <<a, b>>
           /\ \A a, b, d : p # <<a, b, d>>
BY One, Two, Three

\* What holds when an operation is over.
Settled(g) ==
    /\ Kept /\ Quiet
    /\ ~ g.failed /\ ~ Offline(g) =>
          /\ g.op \in {"enable", "disable", "deleteInbound"} => Agree(g.i)
          /\ g.op = "updateInbound" /\ g.inbound.enable = "on" => Agree(g.i)
          /\ g.op \in {"disable", "deleteInbound"} => (Enabled = {} => ~ xray.runs)

LEMMA InboundSettled ==
    ASSUME Types, NEW j \in Runners, NEW g, g = job[j], g.op \in InboundOps,
           g.plan = <<>>, Knows(g)
    PROVE  Settled(g)
<1>1. DoesInbound(g) /\ Spared(g.i)
  BY DEF Knows
<1>2. g.i \in Inbounds
  BY AboutInbound
<1>3. Kept <=> (Known(g.i) => Agree(g.i))
  BY <1>1, <1>2, SparedIsKept
<1>4. PICK p : p = g.plan
  OBVIOUS
<1>5. /\ \A a : p # <<a>>
      /\ \A a, b : p # <<a, b>>
      /\ \A a, b, d : p # <<a, b, d>>
  BY <1>4, Nothing
<1>6. CASE g.op = "createInbound"
  <2>1. Creating(g)
    BY <1>1, <1>6 DEF DoesInbound
  <2>2. (Known(g.i) => Agree(g.i)) /\ Quiet
    BY <1>4, <1>5, <2>1 DEF Creating
  <2>3. QED
    BY <1>3, <1>6, <2>2 DEF Settled
<1>7. CASE g.op = "updateInbound"
  <2>1. Updating(g)
    BY <1>1, <1>7 DEF DoesInbound
  <2>2. (Known(g.i) \/ (~ g.failed /\ g.inbound.enable = "on") => Agree(g.i)) /\ Quiet
    BY <1>4, <1>5, <2>1 DEF Updating
  <2>3. QED
    BY <1>3, <1>7, <2>2 DEF Settled
<1>8. CASE g.op \in {"disable", "deleteInbound"}
  <2>1. Removing(g)
    BY <1>1, <1>8 DEF DoesInbound
  <2>2. /\ (Known(g.i) => Agree(g.i)) /\ Quiet
        /\ ~ g.failed /\ ~ Offline(g) => Agree(g.i) /\ (Enabled = {} => ~ xray.runs)
    BY <1>4, <1>5, <2>1 DEF Removing
  <2>3. QED
    BY <1>3, <1>8, <2>2 DEF Settled
<1>9. CASE g.op = "enable"
  <2>1. Enabling(g)
    BY <1>1, <1>9 DEF DoesInbound
  <2>2. \/ {0, g.i} \subseteq disturbed /\ g.failed
        \/ inbound[g.i].enable = "on" /\ Agree(g.i)
    BY <1>4, <1>5, <2>1 DEF Enabling
  <2>3. CASE {0, g.i} \subseteq disturbed /\ g.failed
    BY <1>3, <1>9, <2>3 DEF Settled, Quiet, Known
  <2>4. CASE inbound[g.i].enable = "on" /\ Agree(g.i)
    <3>1. Quiet
      BY <1>2, <2>4 DEF Quiet, Enabled
    <3>2. QED
      BY <1>3, <1>9, <2>4, <3>1 DEF Settled
  <2>5. QED
    BY <2>2, <2>3, <2>4
<1>10. QED
  BY <1>6, <1>7, <1>8, <1>9 DEF InboundOps

LEMMA ClientSettled ==
    ASSUME Types, NEW j \in Runners, NEW g, g = job[j], g.op \in ClientOps,
           g.plan = <<>>, Knows(g)
    PROVE  Settled(g)
<1>1. DoesClient(g) /\ Spared(g.i) /\ Quiet
  BY DEF Knows
<1>2. g.c \in Clients /\ g.i = InboundOf[g.c] /\ g.i \in Inbounds
  BY AboutJob
<1>3. PICK p : p = g.plan
  OBVIOUS
<1>4. /\ \A a : p # <<a>>
      /\ \A a, b : p # <<a, b>>
  BY <1>3, Nothing
<1>5. User(g.c, On(g.c))
  <2>1. CASE g.op = "createClient"
    BY <1>1, <1>3, <1>4, <2>1 DEF DoesClient, CreatingClient
  <2>2. CASE g.op = "updateClient"
    BY <1>1, <1>3, <1>4, <2>2 DEF DoesClient, UpdatingClient
  <2>3. CASE g.op = "deleteClient"
    BY <1>1, <1>3, <1>4, <2>3 DEF DoesClient, DeletingClient
  <2>4. CASE g.op \in {"reset", "check"}
    BY <1>1, <1>3, <1>4, <2>4 DEF DoesClient, Resetting
  <2>5. CASE g.op \in {"traffic", "expel"}
    BY <1>1, <1>3, <1>4, <2>5 DEF DoesClient, Reporting
  <2>6. QED
    BY <2>1, <2>2, <2>3, <2>4, <2>5 DEF ClientOps
<1>6. PICK c : c = g.c
  OBVIOUS
<1>7. Known(g.i) => Agree(g.i)
  <2>1. User(c, On(c)) <=> (Known(InboundOf[c]) => Agree(InboundOf[c]))
    BY <1>2, <1>6, AgreeUser
  <2>2. QED
    BY <1>2, <1>5, <1>6, <2>1
<1>8. Kept
  BY <1>1, <1>2, <1>7, SparedIsKept
<1>9. QED
  BY <1>1, <1>8 DEF Settled, ClientOps

LEMMA ReconcileSettled ==
    ASSUME NEW g, g.op = "reconcile", g.plan = <<>>, Knows(g)
    PROVE  Settled(g) /\ Cleaning(g)
<1>1. Reconciling(g)
  BY DEF Knows
<1>2. PICK p : p = g.plan
  OBVIOUS
<1>3. /\ \A a : p # <<a>>
      /\ \A a, b : p # <<a, b>>
      /\ \A a, b, d : p # <<a, b, d>>
  BY <1>2, Nothing
<1>4. ~ \E n \in Nat : Adding(g, n)
  <2>1. ASSUME NEW n \in Nat, Adding(g, n) PROVE FALSE
    <3>1. Len(g.plan) = n + 2
      BY <2>1 DEF Adding, Adds
    <3>2. Len(g.plan) = 0
      OBVIOUS
    <3>3. QED
      BY <3>1, <3>2
  <2>2. QED
    BY <2>1
<1>5. Cleaning(g)
  BY <1>1, <1>2, <1>3, <1>4 DEF Reconciling
<1>6. QED
  BY <1>5 DEF Settled, Cleaning

LEMMA FinishSettles ==
    ASSUME IInv, Kinds, Blamed, Understood, NEW j \in Runners, Finish(j)
    PROVE  Blamed' /\ Understood' /\ UndisturbedAgree'
<1>1. PICK g : g = job[j]
  OBVIOUS
<1>2. /\ g # NoJob /\ g.plan = <<>> /\ UNCHANGED <<inbound, client, xray>>
      /\ disturbed' = disturbed \ Repaired(g)
      /\ job' = [job EXCEPT ![j] = NoJob]
  BY <1>1 DEF Finish
<1>3. job'[j] = NoJob /\ \A k \in Runners : k # j => job'[k] = job[k]
  BY <1>2 DEF IInv, Types
<1>4. CASE ~ g.clean
  <2>1. disturbed = All /\ Repaired(g) = {}
    BY <1>1, <1>2, <1>4 DEF Blamed, Repaired
  <2>2. disturbed' = All
    BY <1>2, <2>1
  <2>3. Blamed' /\ UndisturbedAgree'
    BY <2>2 DEF Blamed, UndisturbedAgree, All
  <2>4. \A k \in Runners : ~ (job'[k] # NoJob /\ job'[k].clean)
    <3>1. SUFFICES ASSUME NEW k \in Runners, job'[k] # NoJob, job'[k].clean PROVE FALSE
      OBVIOUS
    <3>2. k # j /\ job[k] # NoJob /\ job[k].clean
      BY <1>3, <3>1
    <3>3. Busy = {k}
      BY <3>2 DEF IInv, CleanAlone
    <3>4. j \in Busy
      BY <1>1, <1>2 DEF Busy
    <3>5. QED
      BY <3>2, <3>3, <3>4
  <2>5. QED
    BY <2>3, <2>4 DEF Understood
<1>5. CASE g.clean
  <2>1. Busy = {j}
    BY <1>1, <1>2, <1>5 DEF IInv, CleanAlone
  <2>2. \A k \in Runners : job'[k] = NoJob
    BY <1>3, <2>1 DEF Busy
  <2>3. Blamed' /\ Understood'
    BY <2>2 DEF Blamed, Understood
  <2>4. Knows(g)
    BY <1>1, <1>2, <1>5 DEF Understood
  <2>5. Settled(g)
    <3>1. CASE g.op \in InboundOps
      BY <1>1, <1>2, <2>4, <3>1, InboundSettled DEF IInv
    <3>2. CASE g.op \in ClientOps
      BY <1>1, <1>2, <2>4, <3>2, ClientSettled DEF IInv
    <3>3. CASE g.op = "reconcile"
      BY <1>2, <2>4, <3>3, ReconcileSettled
    <3>4. QED
      BY <2>4, <3>1, <3>2, <3>3 DEF Knows
  <2>6. \A k : Agree(k)' <=> Agree(k)
    BY <1>2 DEF Agree, Merged
  <2>7. ASSUME NEW k \in Inbounds, k \notin disturbed' PROVE Agree(k)
    <3>1. CASE k \notin disturbed
      BY <2>5, <3>1 DEF Settled, Kept, Known
    <3>2. CASE k \in disturbed
      <4>1. k \in Repaired(g) /\ k # 0
        BY <1>2, <2>7, <3>2 DEF Inbounds
      <4>2. /\ k = g.i /\ ~ g.failed /\ ~ Offline(g)
            /\ \/ g.op \in {"enable", "disable", "deleteInbound"}
               \/ g.op = "updateInbound" /\ g.inbound.enable = "on"
        BY <4>1 DEF Repaired, Offline
      <4>3. QED
        BY <2>5, <4>2 DEF Settled
    <3>3. QED
      BY <3>1, <3>2
  <2>8. ASSUME 0 \notin disturbed', Enabled = {} PROVE ~ xray.runs
    <3>1. CASE 0 \notin disturbed
      BY <2>5, <2>8, <3>1 DEF Settled, Quiet
    <3>2. CASE 0 \in disturbed
      <4>1. 0 \in Repaired(g)
        BY <1>2, <2>8, <3>2
      <4>2. g.i # 0
        <5>1. JobOK(g)
          BY <1>1 DEF IInv, Types
        <5>2. g.i \in Inbounds
          BY <5>1 DEF JobOK
        <5>3. QED
          BY <5>2, PanelAssumption DEF Inbounds
      <4>3. ~ g.failed /\ ~ Offline(g) /\ g.op \in {"disable", "deleteInbound"}
        BY <4>1, <4>2 DEF Repaired, Offline
      <4>4. QED
        BY <2>5, <2>8, <4>3 DEF Settled
    <3>3. QED
      BY <3>1, <3>2
  <2>9. UndisturbedAgree'
    BY <1>2, <2>6, <2>7, <2>8 DEF UndisturbedAgree, Enabled
  <2>10. QED
    BY <2>3, <2>9
<1>6. QED
  BY <1>4, <1>5

-----------------------------------------------------------------------------
(* Steps of nobody: what a goroutine knows stays so.                        *)

\* Rows are on or off as they were, and Xray has what it had.
Still == /\ UNCHANGED <<inbound, xray, disturbed>>
         /\ \A c \in Clients : client'[c].enable = client[c].enable

LEMMA StillRows ==
    ASSUME Still
    PROVE  /\ \A i, gen : Merged(i, gen)' = Merged(i, gen)
           /\ \A i : (Known(i)' <=> Known(i)) /\ (Agree(i)' <=> Agree(i))
           /\ \A i : Spared(i)' <=> Spared(i)
           /\ \A i, r : Held(i, r)' <=> Held(i, r)
           /\ (Kept' <=> Kept) /\ (Quiet' <=> Quiet) /\ Enabled' = Enabled
<1>1. \A i, gen : Merged(i, gen)' = Merged(i, gen)
  BY DEF Still, Merged, ClientsOf
<1>2. inbound' = inbound /\ xray' = xray /\ disturbed' = disturbed
  BY DEF Still
<1>3. \A i : (Known(i)' <=> Known(i)) /\ (Agree(i)' <=> Agree(i))
  BY <1>1, <1>2 DEF Known, Agree
<1>4. \A i, r : Held(i, r)' <=> Held(i, r)
  BY <1>1, <1>2 DEF Held, Serves
<1>5. Enabled' = Enabled
  BY <1>2 DEF Enabled
<1>6. (Kept' <=> Kept) /\ \A i : Spared(i)' <=> Spared(i)
  BY <1>3 DEF Kept, Spared
<1>7. Quiet' <=> Quiet
  BY <1>2, <1>5 DEF Quiet
<1>8. QED
  BY <1>1, <1>3, <1>4, <1>5, <1>6, <1>7

LEMMA StillInbound ==
    ASSUME Still, NEW g, DoesInbound(g)
    PROVE  DoesInbound(g)'
<1>1. /\ inbound' = inbound /\ xray' = xray /\ disturbed' = disturbed
      /\ (Known(g.i)' <=> Known(g.i)) /\ (Agree(g.i)' <=> Agree(g.i))
      /\ Held(g.i, g.inbound)' <=> Held(g.i, g.inbound)
      /\ (Quiet' <=> Quiet) /\ Enabled' = Enabled
  BY StillRows DEF Still
<1>2. Creating(g) => Creating(g)'
  BY <1>1 DEF Creating
<1>3. Updating(g) => Updating(g)'
  BY <1>1 DEF Updating, Old, New
<1>4. Removing(g) => Removing(g)'
  BY <1>1 DEF Removing, Removed, Offline
<1>5. Enabling(g) => Enabling(g)'
  BY <1>1 DEF Enabling
<1>6. QED
  BY <1>2, <1>3, <1>4, <1>5 DEF DoesInbound

LEMMA StillClient ==
    ASSUME Still, NEW g, g.c \in Clients, DoesClient(g)
    PROVE  DoesClient(g)'
<1>1. inbound' = inbound /\ xray' = xray /\ disturbed' = disturbed
  BY DEF Still
<1>2. PICK c \in Clients : c = g.c
  OBVIOUS
<1>3. client'[c].enable = client[c].enable /\ (On(c)' <=> On(c))
  BY DEF Still, On
<1>4. \A b : With(c, b)' = With(c, b)
  BY DEF Still, With, On, ClientsOf
<1>5. \A b : User(c, b)' <=> User(c, b)
  BY <1>1, <1>4 DEF User, Serves, Known
<1>6. User(c, On(c))' <=> User(c, On(c))
  <2>1. With(c, On(c))' = With(c, On(c))
    BY <1>3, <1>4 DEF On
  <2>2. QED
    BY <1>1, <2>1 DEF User, Serves, Known
<1>7. /\ User(c, TRUE)' <=> User(c, TRUE)
      /\ User(c, FALSE)' <=> User(c, FALSE)
  <2>1. PICK no, yes : no = FALSE /\ yes = TRUE
    OBVIOUS
  <2>2. (User(c, no)' <=> User(c, no)) /\ (User(c, yes)' <=> User(c, yes))
    BY <1>5
  <2>3. QED
    BY <2>1, <2>2
<1>8. User(c, WasOn(g))' <=> User(c, WasOn(g))
  <2>1. PICK b : b = WasOn(g)
    OBVIOUS
  <2>2. User(c, b)' <=> User(c, b)
    BY <1>5
  <2>3. QED
    BY <2>1, <2>2 DEF WasOn
<1>9. CreatingClient(g) => CreatingClient(g)'
  BY <1>2, <1>3, <1>6, <1>7 DEF CreatingClient
<1>10. UpdatingClient(g) => UpdatingClient(g)'
  BY <1>2, <1>3, <1>6, <1>7, <1>8 DEF UpdatingClient, WasOn
<1>11. DeletingClient(g) => DeletingClient(g)'
  BY <1>2, <1>3, <1>6, <1>7 DEF DeletingClient, Offline
<1>12. Resetting(g) => Resetting(g)'
  BY <1>2, <1>3, <1>6, <1>7 DEF Resetting
<1>13. Reporting(g) => Reporting(g)'
  BY <1>2, <1>3, <1>6, <1>7 DEF Reporting
<1>14. QED
  BY <1>9, <1>10, <1>11, <1>12, <1>13 DEF DoesClient

LEMMA StillReconcile ==
    ASSUME Still, NEW g, Reconciling(g)
    PROVE  Reconciling(g)'
<1>1. inbound' = inbound /\ xray' = xray /\ disturbed' = disturbed
  BY DEF Still
<1>2. /\ \A i, gen : Merged(i, gen)' = Merged(i, gen)
      /\ (Kept' <=> Kept) /\ (Quiet' <=> Quiet) /\ Enabled' = Enabled
  BY StillRows
<1>3. Wanted' = Wanted /\ \A k : (Exists(k)' <=> Exists(k)) /\ (Reachable(k)' <=> Reachable(k))
  BY <1>1 DEF Wanted, Exists, Reachable
<1>4. \A k : Deployed(k)' = Deployed(k)
  BY <1>1, <1>2, <1>3 DEF Deployed
<1>5. Plans(g)' <=> Plans(g)
  BY <1>4 DEF Plans
<1>6. NoneWrong' <=> NoneWrong
  BY <1>1, <1>2, <1>3 DEF NoneWrong
<1>7. \A A : (Gathered(A)' <=> Gathered(A)) /\ (Present(A)' <=> Present(A))
  BY <1>1, <1>2, <1>3, <1>4 DEF Gathered, Present, Restored, Serves, Known
<1>8. Cleaning(g)' <=> Cleaning(g)
  BY <1>2, <1>3, <1>6 DEF Cleaning
<1>9. ASSUME NEW n \in Nat, Adding(g, n)
      PROVE  Adding(g, n)'
  <2>1. Adds(g, n)'
    BY <1>2, <1>3, <1>9 DEF Adding, Adds
  <2>2. PICK A : A = AddsOf(g.plan, n)
    OBVIOUS
  <2>3. Gathered(A)' /\ (~ g.failed => Present(A)')
    BY <1>7, <1>9, <2>2 DEF Adding
  <2>4. QED
    BY <1>3, <1>5, <1>9, <2>1, <2>2, <2>3 DEF Adding, AddsOf
<1>10. QED
  BY <1>2, <1>3, <1>5, <1>6, <1>8, <1>9 DEF Reconciling

LEMMA StillKnows ==
    ASSUME Still, NEW g, JobOK(g), Knows(g)
    PROVE  Knows(g)'
<1>1. CASE g.op \in InboundOps
  <2>1. DoesInbound(g)' /\ Spared(g.i)'
    BY <1>1, StillInbound, StillRows DEF Knows
  <2>2. QED
    BY <1>1, <2>1 DEF Knows, InboundOps, ClientOps
<1>2. CASE g.op \in ClientOps
  <2>1. g.c \in Clients
    BY <1>2 DEF JobOK
  <2>2. DoesClient(g)' /\ Spared(g.i)' /\ Quiet'
    BY <1>2, <2>1, StillClient, StillRows DEF Knows
  <2>3. QED
    BY <1>2, <2>2 DEF Knows, InboundOps, ClientOps
<1>3. CASE g.op = "reconcile"
  <2>1. Reconciling(g)'
    BY <1>3, StillReconcile DEF Knows
  <2>2. QED
    BY <1>3, <2>1 DEF Knows, InboundOps, ClientOps
<1>4. QED
  BY <1>1, <1>2, <1>3 DEF Knows

LEMMA StillSettled ==
    ASSUME Types, Blamed, Understood, UndisturbedAgree, Still, job' = job
    PROVE  Blamed' /\ Understood' /\ UndisturbedAgree'
<1>1. Blamed'
  BY DEF Blamed, Still
<1>2. Understood'
  <2>1. ASSUME NEW j \in Runners, NEW g, g = job[j], g # NoJob, g.clean PROVE Knows(g)'
    <3>1. JobOK(g) /\ Knows(g)
      BY <2>1 DEF Types, Understood
    <3>2. QED
      BY <3>1, StillKnows
  <2>2. QED
    BY <2>1 DEF Understood
<1>3. UndisturbedAgree'
  <2>1. Busy' = Busy
    BY DEF Busy
  <2>2. QED
    BY <2>1, StillRows DEF UndisturbedAgree, Still
<1>4. QED
  BY <1>1, <1>2, <1>3

-----------------------------------------------------------------------------
(* Together.                                                                *)

LEMMA MovesBusy ==
    ASSUME Types, NEW j \in Runners, Moves(j), NEW g, g = job[j], NEW h, h = job'[j]
    PROVE  /\ g # NoJob /\ h # NoJob /\ (h.clean <=> g.clean)
           /\ \A k \in Runners : k # j => job'[k] = job[k]
<1>1. \E p, f : Goes(j, p, f)
  BY MovesGo
<1>2. h.op = g.op /\ h.clean = g.clean /\ \A k \in Runners : k # j => job'[k] = job[k]
  BY <1>1 DEF Goes, Same
<1>3. g.plan # <<>>
  BY DEF Moves, Command, WriteInbound, WriteClient, Drop, Read, JobWork, Collect, At
<1>4. JobOK(g)
  BY DEF Types
<1>5. g.op # "idle" /\ g # NoJob
  BY <1>3, <1>4, NoJobIdle DEF JobOK
<1>6. QED
  BY <1>2, <1>5, NoJobIdle

LEMMA MovesSettled ==
    ASSUME IInv, Kinds, Blamed, Understood, NEW j \in Runners, Moves(j)
    PROVE  Blamed' /\ Understood' /\ UndisturbedAgree'
<1>1. PICK g, h : g = job[j] /\ h = job'[j]
  OBVIOUS
<1>2. /\ g # NoJob /\ h # NoJob /\ (h.clean <=> g.clean)
      /\ \A k \in Runners : k # j => job'[k] = job[k]
  BY <1>1, MovesBusy DEF IInv
<1>3. CASE ~ g.clean
  <2>1. disturbed = All
    BY <1>1, <1>2, <1>3 DEF Blamed
  <2>2. disturbed' = All
    BY <2>1, MovesGo DEF IInv
  <2>3. Blamed' /\ UndisturbedAgree'
    BY <2>2 DEF Blamed, UndisturbedAgree, All
  <2>4. \A k \in Runners : ~ (job'[k] # NoJob /\ job'[k].clean)
    <3>1. SUFFICES ASSUME NEW k \in Runners, job'[k] # NoJob, job'[k].clean PROVE FALSE
      OBVIOUS
    <3>2. k # j /\ job[k] # NoJob /\ job[k].clean
      BY <1>1, <1>2, <1>3, <3>1
    <3>3. Busy = {k}
      BY <3>2 DEF IInv, CleanAlone
    <3>4. j \in Busy
      BY <1>1, <1>2 DEF Busy
    <3>5. QED
      BY <3>2, <3>3, <3>4
  <2>5. QED
    BY <2>3, <2>4 DEF Understood
<1>4. CASE g.clean
  <2>1. Busy = {j}
    BY <1>1, <1>2, <1>4 DEF IInv, CleanAlone
  <2>2. \A k \in Runners : k # j => job'[k] = NoJob
    BY <1>2, <2>1 DEF Busy
  <2>3. Knows(g)
    BY <1>1, <1>2, <1>4 DEF Understood
  <2>4. Knows(h)'
    BY <1>1, <2>3, KnowsMoves DEF IInv
  <2>5. Blamed'
    BY <1>1, <1>2, <1>4, <2>2 DEF Blamed
  <2>6. Understood'
    BY <1>1, <2>2, <2>4 DEF Understood
  <2>7. UndisturbedAgree'
    BY <1>1, <1>2 DEF UndisturbedAgree, Busy
  <2>8. QED
    BY <2>5, <2>6, <2>7
<1>5. QED
  BY <1>3, <1>4

LEMMA CrashSettled ==
    ASSUME Types, Crash
    PROVE  Blamed' /\ Understood' /\ UndisturbedAgree'
<1>1. disturbed' = All /\ job' = Overlapped
  BY DEF Crash
<1>2. \A k \in Runners : job'[k].clean => job'[k] = NoJob
  BY <1>1, Overlaps
<1>3. QED
  BY <1>1, <1>2 DEF Blamed, Understood, UndisturbedAgree, All

LEMMA IdleSettled ==
    ASSUME Types, Blamed, Understood, UndisturbedAgree,
           (\E c \in Clients : CycleEnds(c)) \/ Disconnect \/ Connect \/ UNCHANGED vars
    PROVE  Blamed' /\ Understood' /\ UndisturbedAgree'
<1>1. Still /\ job' = job
  <2>1. CASE \E c \in Clients : CycleEnds(c)
    <3>1. PICK c \in Clients : CycleEnds(c)
      BY <2>1
    <3>2. client \in [Clients -> ClientRow]
      BY DEF Types
    <3>3. client' = [client EXCEPT ![c].written = FALSE]
      BY <3>1 DEF CycleEnds
    <3>4. \A d \in Clients : client'[d].enable = client[d].enable
      BY <3>2, <3>3 DEF ClientRow
    <3>5. QED
      BY <3>1, <3>4 DEF CycleEnds, Still
  <2>2. CASE Disconnect \/ Connect \/ UNCHANGED vars
    BY <2>2 DEF Disconnect, Connect, vars, Still
  <2>3. QED
    BY <2>1, <2>2
<1>2. QED
  BY <1>1, StillSettled

LEMMA RequestsSettled ==
    ASSUME Types, UndisturbedAgree, NEW j \in Jobs,
           \/ InboundRequest(j) \/ ClientRequest(j) \/ Report(j)
           \/ \E c \in Clients : Check(j, c)
    PROVE  Blamed' /\ Understood' /\ UndisturbedAgree'
<1>1. j \in Runners
  BY DEF Runners
<1>2. CASE InboundRequest(j)
  BY <1>1, <1>2, CreateBegins, UpdateBegins, DeleteBegins, EnableBegins, DisableBegins
  DEF InboundRequest
<1>3. CASE ClientRequest(j)
  <2>1. PICK c \in Clients : \/ CreateClient(j, c)
                             \/ \E e \in {"on", "off"} : UpdateClient(j, c, e)
                             \/ DeleteClient(j, c)
                             \/ ResetClient(j, c)
    BY <1>3 DEF ClientRequest
  <2>2. CASE ResetClient(j, c)
    <3>1. PICK op \in {"reset", "check"} : op = "reset"
      OBVIOUS
    <3>2. HasRow(c) /\ Reset(j, c, op)
      BY <2>2, <3>1 DEF ResetClient
    <3>3. QED
      BY <1>1, <3>2, ResetBegins
  <2>3. QED
    BY <1>1, <2>1, <2>2, CreateClientBegins, UpdateClientBegins, DeleteClientBegins
<1>4. CASE Report(j)
  BY <1>1, <1>4, TrafficBegins, ExpelBegins DEF Report
<1>5. CASE \E c \in Clients : Check(j, c)
  BY <1>1, <1>5, CheckBegins
<1>6. QED
  BY <1>2, <1>3, <1>4, <1>5

\* The rows and what Xray has, between operations and in the course of each.
SettledInv == IInv /\ Kinds /\ Blamed /\ Understood /\ UndisturbedAgree

LEMMA FirstSettled == Init => SettledInv
<1> SUFFICES ASSUME Init PROVE SettledInv
  OBVIOUS
<1>1. IInv /\ Kinds
  BY Initially, FirstKinds
<1>2. \A j \in Runners : job[j] = NoJob
  BY DEF Init
<1>3. Blamed /\ Understood
  BY <1>2 DEF Blamed, Understood
<1>4. UndisturbedAgree
  BY DEF Init, UndisturbedAgree, Agree, Unborn, Absent
<1>5. QED
  BY <1>1, <1>3, <1>4 DEF SettledInv

LEMMA SettledKept == SettledInv /\ [Next]_vars => SettledInv'
<1> SUFFICES ASSUME IInv, Kinds, Blamed, Understood, UndisturbedAgree, [Next]_vars
             PROVE  SettledInv'
  BY DEF SettledInv
<1>1. IInv' /\ Kinds'
  BY Preserved, KindsKept
<1>2. Types
  BY DEF IInv
<1>3. ASSUME NEW j \in Runners, Work(j) \/ (j \in Jobs /\ JobWork(j))
             \/ (j = "reconcile" /\ Collect(j))
      PROVE  Blamed' /\ Understood' /\ UndisturbedAgree'
  <2>1. Moves(j) \/ Finish(j)
    BY <1>3 DEF Work, Moves
  <2>2. QED
    BY <2>1, MovesSettled, FinishSettles
<1>4. CASE Next
  <2>1. Blamed' /\ Understood' /\ UndisturbedAgree'
    <3>1. CASE \E j \in Jobs : InboundRequest(j) \/ ClientRequest(j) \/ Report(j)
      BY <1>2, <3>1, RequestsSettled
    <3>2. CASE \E j \in Jobs, c \in Clients : Check(j, c)
      BY <1>2, <3>2, RequestsSettled
    <3>3. CASE \E j \in Runners : Work(j)
      BY <1>3, <3>3
    <3>4. CASE \E j \in Jobs : JobWork(j)
      BY <1>3, <3>4, RunnersFact
    <3>5. CASE StartReconcile
      BY <1>2, <3>5, ReconcileBegins
    <3>6. CASE Collect("reconcile")
      BY <1>3, <3>6, RunnersFact
    <3>7. CASE (\E c \in Clients : CycleEnds(c)) \/ Disconnect \/ Connect
      BY <1>2, <3>7, IdleSettled
    <3>8. CASE Crash
      BY <1>2, <3>8, CrashSettled
    <3>9. QED
      BY <1>4, <3>1, <3>2, <3>3, <3>4, <3>5, <3>6, <3>7, <3>8 DEF Next
  <2>2. QED
    BY <1>1, <2>1 DEF SettledInv
<1>5. CASE UNCHANGED vars
  <2>1. Blamed' /\ Understood' /\ UndisturbedAgree'
    BY <1>2, <1>5, IdleSettled
  <2>2. QED
    BY <1>1, <2>1 DEF SettledInv
<1>6. QED
  BY <1>4, <1>5

\* UndisturbedAgree: operations that do not overlap, on the rows of inbounds and clients
\* (xray_inbound.go, xray_client.go, flow.go) and in a reconcile (reconcile.go), leave
\* Xray with what the rows say, also when commands fail and rows are put back: for every
\* number of inbounds, clients and goroutines, and any number of faults.
THEOREM RowsAgree == Spec => []UndisturbedAgree
<1>1. SettledInv => UndisturbedAgree
  BY DEF SettledInv
<1>2. QED
  BY <1>1, FirstSettled, SettledKept, PTL DEF Spec

LEMMA ReconcileIsOver == SettledInv => ReconcileRestores
<1> SUFFICES ASSUME SettledInv, NEW g, g = job["reconcile"], g.op = "reconcile", g.plan = <<>>,
                    g.clean, ~ g.failed, NEW i \in Inbounds
             PROVE  /\ inbound[i].enable # "error"
                    /\ inbound[i].enable = "on" => xray.runs /\ xray.at[i] # Absent
                    /\ ~ Exists(i) => ~ Reachable(i)
  BY DEF ReconcileRestores
<1>1. g # NoJob
  BY NoJobIdle
<1>2. Knows(g)
  BY <1>1, RunnersFact DEF SettledInv, Understood
<1>3. Cleaning(g)
  BY <1>2, ReconcileSettled
<1>4. Len(g.plan) = 0
  OBVIOUS
<1>5. NoneWrong /\ (~ Exists(i) => ~ Reachable(i))
  BY <1>3, <1>4 DEF Cleaning
<1>6. QED
  BY <1>5 DEF NoneWrong, Enabled, Reachable

\* ReconcileRestores: a reconcile that nothing overlapped and no command of which failed
\* has put every inbound that is wanted into Xray and left none that has no row
\* (reconcile.go:405-468, 574-642), in whatever order it went through them.
THEOREM ReconcileGives == Spec => []ReconcileRestores
BY FirstSettled, SettledKept, ReconcileIsOver, PTL DEF Spec
=============================================================================

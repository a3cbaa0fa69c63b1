--------------------------- MODULE RouteControlProofs ---------------------------
(***************************************************************************)
(* What the nodes of a route have, for every length of the route, all      *)
(* contents and goroutines and any number of faults: they agree with the   *)
(* row at rest, the entry is never there without the path behind it, and a *)
(* reconcile gives its node what it lacks.                                 *)
(***************************************************************************)
EXTENDS RouteControl, TLAPS

-----------------------------------------------------------------------------
(* Types of goroutines and their plans.                                     *)

Statuses == {"unborn", "active", "paused", "error", "gone"}
Modes    == {"build", "must", "try", "sync", "best"}

\* The terminal node has no chain.
AnyStep ==
    [cmd : {"add", "delete", "pause", "resume"}, what : {"svc"}, hop : Hops, mode : Modes]
    \cup [cmd : {"add", "update", "delete"}, what : {"chain"}, hop : 1..(Last - 1),
          mode : Modes]
    \cup [cmd : {"save"}, what : {"row"}, hop : {1}, mode : {"must"}]

JobOps  == AllOps
SyncOps == {"sync", "repause", "orphans"}

Contents == {0} \cup Gens

Fields == DOMAIN NoJob
Shape(g) == g = [x \in Fields |-> g[x]]

\* Who adds, updates or saves does so with a content.
JobOK(g) ==
    /\ Shape(g)
    /\ g.op \in {"idle"} \cup JobOps \cup SyncOps
    /\ g.read \in [status : Statuses \cup {"saved"}, gen : Contents]
    /\ g.gen \in Contents
    /\ g.plan \in Seq(AnyStep)
    /\ g.failed \in BOOLEAN /\ g.clean \in BOOLEAN
    /\ g.gen \in Gens \/ \A i \in 1..Len(g.plan) : g.plan[i].cmd \in {"delete", "pause"}
    /\ g.op = "idle" => g = NoJob

Live == {"active", "paused", "error"}
RowOK(r) ==
    /\ r \in [status : Statuses, gen : Contents]
    /\ r.status \in Live => r.gen \in Gens
    /\ r.status = "unborn" => r = Unborn
    /\ r.status = "gone" => r = Gone

\* Services s and chains c of the nodes.
ServiceRow == {v \in [gen : {0} \cup Gens, open : BOOLEAN] : v.gen = 0 => ~ v.open}
Nodes(s, c) == /\ s \in [Hops -> ServiceRow]
               /\ c \in [Hops -> Contents] /\ c[Last] = 0

JobsOK(jobs) ==
    /\ jobs = [j \in Runners |-> jobs[j]]
    /\ \A j \in Runners : JobOK(jobs[j])
    /\ \A j \in Jobs : jobs[j].op \in {"idle"} \cup JobOps
    /\ \A h \in Hops : jobs[h].op \in {"idle"} \cup SyncOps

Types ==
    /\ RowOK(row) /\ Nodes(svc, chain) /\ JobsOK(job)
    /\ online \subseteq Hops /\ due \subseteq Hops
    /\ faults \in 0..MaxFaults
    /\ disturbed \in BOOLEAN

-----------------------------------------------------------------------------
(* Goroutines that nothing has overlapped.                                  *)

CleanAlone == \A j \in Runners : job[j] # NoJob /\ job[j].clean => Busy = {j}

UndisturbedClean == ~ disturbed => \A j \in Busy : job[j].clean

\* A plan still has a step for the service (or the chain) of node h.
Todo(p, cmds, what, h) ==
    \E i \in 1..Len(p) : p[i].cmd \in cmds /\ p[i].what = what /\ p[i].hop = h

Adding == {"add", "update"}

\* Services s and chains c: what is taken back already is not there, ...
Cleared(s, c, p) == \A h \in Hops :
    /\ ~ Todo(p, {"delete"}, "svc", h) => s[h] = None
    /\ h < Last /\ ~ Todo(p, {"delete"}, "chain", h) => c[h] = 0

\* ... the entry before all else.
EntryFirst(s, p) == s[1] # None => p # <<>> /\ Head(p).what = "svc" /\ Head(p).hop = 1

\* What is deployed already is there, and nothing else.
Built(s, c, p, g) == \A h \in Hops :
    /\ s[h] = IF Todo(p, Adding, "svc", h) THEN None ELSE Service(g)
    /\ h < Last => c[h] = IF Todo(p, Adding, "chain", h) THEN 0 ELSE g

\* The rest of a deployment: nothing twice, the terminal first, the entry last.
BuildPlan(p) ==
    /\ \A i \in 1..Len(p) : p[i].cmd = "add" /\ p[i].mode = "build"
    /\ \A i, k \in 1..Len(p) : p[i].what = p[k].what /\ p[i].hop = p[k].hop => i = k
    /\ p # <<>> => p[Len(p)].what = "svc" /\ p[Len(p)].hop = 1
    /\ p # <<>> /\ Head(p).hop = Last =>
         \A h \in Hops : /\ Todo(p, Adding, "svc", h)
                         /\ h < Last => Todo(p, Adding, "chain", h)
    /\ \A i \in 2..Len(p) : p[i].hop # Last

\* The rest of taking back.
Taking(p, mode) == \A i \in 1..Len(p) : p[i].cmd = "delete" /\ p[i].mode = mode

\* The rest of an update before the row is saved.
SavedAt(p) == Len(p) - Len(Build)
UpdatePlan(p) ==
    /\ SavedAt(p) >= 1
    /\ \A i \in 1..(SavedAt(p) - 1) : p[i].cmd = "delete" /\ p[i].mode = "must"
    /\ p[SavedAt(p)].cmd = "save"
    /\ \A i \in 1..Len(Build) : p[SavedAt(p) + i] = Build[i]

Deploying(s, c, g) ==
    IF g.failed THEN Taking(g.plan, "try") /\ Cleared(s, c, g.plan) /\ EntryFirst(s, g.plan)
    ELSE BuildPlan(g.plan) /\ Built(s, c, g.plan, g.gen)

\* The path has one content, and is complete.
Fits(s, c, g) == \A h \in Hops : s[h].gen = g /\ (h < Last => c[h] = g)
Behind(s, c) == s[1] # None => Fits(s, c, s[1].gen)
Empty(s, c) == \A h \in Hops : s[h] = None /\ c[h] = 0

\* A forward in error has nothing to pause or resume: the first node says so.
Switching(s, c, g, r) ==
    /\ \A i \in 1..Len(g.plan) : g.plan[i].cmd = g.op /\ g.plan[i].what = "svc"
                                 /\ g.plan[i].mode = "must"
    /\ IF r.status = "error" THEN Empty(s, c) /\ (~ g.failed => g.plan # <<>>)
       ELSE /\ ~ g.failed
            /\ Fits(s, c, r.gen)
            /\ \A h \in Hops : ~ Todo(g.plan, {g.op}, "svc", h) =>
                                  (s[h].open <=> g.op = "resume")

\* What a goroutine for a request knows, ...
Doing(g) ==
    /\ g.op = "create" /\ ~ disturbed =>
         row = [status |-> "active", gen |-> g.gen] /\ Deploying(svc, chain, g)
    /\ g.op = "update" =>
         IF g.read.status = "saved"
         THEN row = [status |-> "active", gen |-> g.gen] /\ Deploying(svc, chain, g)
         ELSE /\ Exists /\ ~ g.failed /\ UpdatePlan(g.plan)
              /\ Cleared(svc, chain, g.plan) /\ EntryFirst(svc, g.plan)
    /\ g.op \in {"delete", "force"} =>
         /\ Exists /\ ~ g.failed
         /\ Taking(g.plan, IF g.op = "delete" THEN "must" ELSE "try")
         /\ Cleared(svc, chain, g.plan) /\ EntryFirst(svc, g.plan)
    /\ g.op \in {"pause", "resume"} /\ ~ disturbed =>
         Exists /\ Switching(svc, chain, g, row)
    /\ g.op = "report" => disturbed

\* ... and what the reconcile of node h knows.
Mending(g, h) ==
    /\ g.op \in SyncOps /\ ~ disturbed => Agree /\ row.status # "error"
    /\ g.op = "sync" =>
         /\ row = g.read /\ g.gen = row.gen
         /\ \A i \in 1..Len(g.plan) :
              g.plan[i].hop = h /\ g.plan[i].mode = "sync" /\ g.plan[i].cmd \in Adding
         /\ g.plan # <<>> => Exists
         /\ ~ g.failed /\ Exists =>
              /\ h < Last /\ ~ Todo(g.plan, Adding, "chain", h) => chain[h] = row.gen
              /\ ~ Todo(g.plan, Adding, "svc", h) => svc[h] # None
    /\ g.op \in {"repause", "orphans"} /\ ~ g.failed /\ Exists =>
         /\ h < Last => chain[h] = row.gen
         /\ svc[h] # None
         /\ row.status = "paused" /\ g.plan = <<>> => ~ svc[h].open
    /\ g.op = "repause" =>
         /\ \A i \in 1..Len(g.plan) : g.plan[i] = Step("pause", "svc", h, "best")
         /\ g.plan # <<>> => row.status = "paused"
    /\ g.op = "orphans" =>
         /\ \A i \in 1..Len(g.plan) : g.plan[i] = Step("delete", "svc", h, "best")
         /\ g.plan # <<>> => row = Gone /\ disturbed

Known ==
    /\ \A j \in Jobs : job[j].clean => Doing(job[j])
    /\ \A h \in Hops : job[h].clean => Mending(job[h], h)

IInv == /\ Types /\ CleanAlone /\ UndisturbedClean /\ Known
        /\ UndisturbedAgree /\ EntryLast

-----------------------------------------------------------------------------
(* Sequences.                                                               *)

LEMMA HeadTail ==
    ASSUME NEW S, NEW p \in Seq(S), p # <<>>
    PROVE  /\ Len(p) \in Nat /\ Len(p) >= 1
           /\ Head(p) = p[1] /\ Head(p) \in S
           /\ Tail(p) \in Seq(S) /\ Len(Tail(p)) = Len(p) - 1
           /\ \A i \in 1..(Len(p) - 1) : Tail(p)[i] = p[i + 1]
OBVIOUS

LEMMA InFront ==
    ASSUME NEW S, NEW p \in Seq(S), NEW x \in S
    PROVE  /\ <<x>> \o p \in Seq(S) /\ Len(<<x>> \o p) = Len(p) + 1
           /\ (<<x>> \o p)[1] = x /\ Len(p) \in Nat
           /\ \A i \in 1..Len(p) : (<<x>> \o p)[i + 1] = p[i]
OBVIOUS

LEMMA Joined ==
    ASSUME NEW S, NEW p \in Seq(S), NEW q \in Seq(S)
    PROVE  /\ p \o q \in Seq(S) /\ Len(p \o q) = Len(p) + Len(q)
           /\ Len(p) \in Nat /\ Len(q) \in Nat
           /\ \A i \in 1..Len(p) : (p \o q)[i] = p[i]
           /\ \A i \in 1..Len(q) : (p \o q)[Len(p) + i] = q[i]
OBVIOUS

LEMMA Listed ==
    ASSUME NEW S, NEW n \in Nat, NEW f, \A i \in 1..n : f[i] \in S, f = [i \in 1..n |-> f[i]]
    PROVE  f \in Seq(S) /\ Len(f) = n
OBVIOUS

LEMMA TodoHead ==
    ASSUME NEW S, NEW p \in Seq(S), p # <<>>, NEW cmds, NEW what, NEW h
    PROVE  Todo(p, cmds, what, h) <=>
             \/ Head(p).cmd \in cmds /\ Head(p).what = what /\ Head(p).hop = h
             \/ Todo(Tail(p), cmds, what, h)
<1>1. ASSUME Todo(p, cmds, what, h)
      PROVE  \/ Head(p).cmd \in cmds /\ Head(p).what = what /\ Head(p).hop = h
             \/ Todo(Tail(p), cmds, what, h)
  <2>1. PICK i \in 1..Len(p) : p[i].cmd \in cmds /\ p[i].what = what /\ p[i].hop = h
    BY <1>1 DEF Todo
  <2>2. CASE i = 1
    BY <2>1, <2>2, HeadTail
  <2>3. CASE i # 1
    <3>1. i - 1 \in 1..Len(Tail(p)) /\ Tail(p)[i - 1] = p[i]
      BY <2>3, HeadTail
    <3>2. QED
      BY <2>1, <3>1 DEF Todo
  <2>4. QED
    BY <2>2, <2>3
<1>2. ASSUME Head(p).cmd \in cmds /\ Head(p).what = what /\ Head(p).hop = h
      PROVE  Todo(p, cmds, what, h)
  <2>1. 1 \in 1..Len(p) /\ Head(p) = p[1]
    BY HeadTail
  <2>2. QED
    BY <1>2, <2>1 DEF Todo
<1>3. ASSUME Todo(Tail(p), cmds, what, h) PROVE Todo(p, cmds, what, h)
  <2>1. PICK i \in 1..Len(Tail(p)) :
           Tail(p)[i].cmd \in cmds /\ Tail(p)[i].what = what /\ Tail(p)[i].hop = h
    BY <1>3 DEF Todo
  <2>2. i + 1 \in 1..Len(p) /\ Tail(p)[i] = p[i + 1]
    BY HeadTail
  <2>3. QED
    BY <2>1, <2>2 DEF Todo
<1>4. QED
  BY <1>1, <1>2, <1>3

LEMMA TodoNothing == ASSUME NEW cmds, NEW what, NEW h PROVE ~ Todo(<<>>, cmds, what, h)
BY DEF Todo

-----------------------------------------------------------------------------
(* Plans.                                                                   *)

\* The i-th step of a deployment after the terminal.
Nth(i) == Part(i, Last - (i + 1) \div 2)

LEMMA NthIs ==
    ASSUME NEW i \in Nat
    PROVE  /\ Nth(i).cmd = "add" /\ Nth(i).mode = "build"
           /\ Nth(i).hop = Last - (i + 1) \div 2
           /\ i % 2 = 1 => Nth(i).what = "chain"
           /\ i % 2 # 1 => Nth(i).what = "svc"
BY DEF Nth, Part, Step

LEMMA BuildSteps ==
    /\ Build \in Seq(AnyStep) /\ Len(Build) = 2 * Last - 1
    /\ Build[1] = Step("add", "svc", Last, "build")
    /\ \A i \in 1..(2 * (Last - 1)) :
         Build[i + 1] = Nth(i) /\ Nth(i).hop \in 1..(Last - 1)
<1> DEFINE n == 2 * (Last - 1)
           t == Step("add", "svc", Last, "build")
           f == [i \in 1..n |-> Nth(i)]
<1>1. Last \in Nat /\ Last >= 2 /\ n \in Nat /\ Hops = 1..Last
  BY RouteAssumption DEF Hops
<1>2. t \in AnyStep
  BY <1>1 DEF AnyStep, Step, Modes
<1>3. ASSUME NEW i \in 1..n PROVE Nth(i) \in AnyStep /\ Nth(i).hop \in 1..(Last - 1)
  <2>1. i \in Nat /\ Last - (i + 1) \div 2 \in 1..(Last - 1)
    BY <1>1
  <2>2. CASE i % 2 = 1
    BY <1>1, <2>1, <2>2 DEF AnyStep, Nth, Part, Step, Modes
  <2>3. CASE i % 2 # 1
    BY <1>1, <2>1, <2>3 DEF AnyStep, Nth, Part, Step, Modes
  <2>4. QED
    BY <2>2, <2>3
<1>4. f \in Seq(AnyStep) /\ Len(f) = n
  <2> HIDE DEF n
  <2>1. \A i \in 1..n : f[i] \in AnyStep
    BY <1>3
  <2>2. QED
    BY <1>1, <2>1, Listed
<1>5. Build = <<t>> \o f
  BY DEF Build, Nth
<1>6. /\ <<t>> \o f \in Seq(AnyStep) /\ Len(<<t>> \o f) = n + 1
      /\ (<<t>> \o f)[1] = t
      /\ \A i \in 1..n : (<<t>> \o f)[i + 1] = f[i]
  <2> HIDE DEF f, n, t
  <2>1. QED
    BY <1>2, <1>4, InFront
<1>7. \A i \in 1..n : f[i] = Nth(i)
  OBVIOUS
<1>8. Build \in Seq(AnyStep) /\ Len(Build) = n + 1 /\ Build[1] = t
  <2> HIDE DEF f, t, n
  <2>1. QED
    BY <1>5, <1>6
<1>9. \A i \in 1..n : Build[i + 1] = Nth(i) /\ Nth(i).hop \in 1..(Last - 1)
  <2> HIDE DEF f, t, n
  <2>1. QED
    BY <1>3, <1>5, <1>6, <1>7
<1>10. n + 1 = 2 * Last - 1
  BY <1>1
<1>11. QED
  <2> HIDE DEF f
  <2>1. QED
    BY <1>8, <1>9, <1>10


\* Every component of the route is deployed, once, and the service of the entry last.
LEMMA BuildAll == BuildPlan(Build)
<1> DEFINE n == 2 * (Last - 1)
<1>1. Last \in Nat /\ Last >= 2 /\ n \in Nat /\ Hops = 1..Last /\ Len(Build) = n + 1
  BY RouteAssumption, BuildSteps DEF Hops
<1>2. \A i \in 1..n : Build[i + 1] = Nth(i) /\ Nth(i).hop \in 1..(Last - 1)
  BY BuildSteps
<1>3. \A i \in 2..Len(Build) : Build[i] = Nth(i - 1) /\ Build[i].hop \in 1..(Last - 1)
  <2>1. ASSUME NEW i \in 2..Len(Build)
        PROVE  i - 1 \in 1..n /\ Build[(i - 1) + 1] = Build[i]
    BY <1>1
  <2> HIDE DEF n
  <2>2. QED
    BY <1>2, <2>1
<1>4. Build[1] = Step("add", "svc", Last, "build") /\ Build # <<>> /\ Head(Build) = Build[1]
  BY <1>1, BuildSteps, HeadTail
<1> HIDE DEF n
<1>5. \A i \in 1..Len(Build) : i = 1 \/ i \in 2..Len(Build)
  BY <1>1
<1>6. ASSUME NEW i \in 1..Len(Build)
      PROVE  Build[i].cmd = "add" /\ Build[i].mode = "build"
  <2>1. CASE i = 1
    BY <1>4, <2>1 DEF Step
  <2>2. CASE i \in 2..Len(Build)
    <3>1. Build[i] = Nth(i - 1) /\ i - 1 \in Nat
      BY <1>1, <1>3, <2>2
    <3>2. QED
      BY <3>1, NthIs
  <2>3. QED
    BY <1>5, <2>1, <2>2
<1>7. ASSUME NEW i \in 1..Len(Build), NEW k \in 1..Len(Build),
             Build[i].what = Build[k].what, Build[i].hop = Build[k].hop
      PROVE  i = k
  <2>1. CASE i = 1 /\ k = 1
    BY <2>1
  <2>2. CASE i = 1 /\ k \in 2..Len(Build)
    BY <1>1, <1>3, <1>4, <1>7, <2>2 DEF Step
  <2>3. CASE k = 1 /\ i \in 2..Len(Build)
    BY <1>1, <1>3, <1>4, <1>7, <2>3 DEF Step
  <2>4. CASE i \in 2..Len(Build) /\ k \in 2..Len(Build)
    <3>1. Nth(i - 1).what = Nth(k - 1).what /\ Nth(i - 1).hop = Nth(k - 1).hop
      BY <1>3, <1>7, <2>4
    <3>2. (i - 1) % 2 = 1 <=> (k - 1) % 2 = 1
      BY <3>1 DEF Nth, Part, Step
    <3>3. Last - ((i - 1) + 1) \div 2 = Last - ((k - 1) + 1) \div 2
      BY <3>1 DEF Nth, Part, Step
    <3>4. i \in Nat /\ k \in Nat
      BY <1>1
    <3>5. QED
      BY <1>1, <3>2, <3>3, <3>4
  <2>5. QED
    BY <1>5, <2>1, <2>2, <2>3, <2>4
<1>8. Build[Len(Build)].what = "svc" /\ Build[Len(Build)].hop = 1
  <2>1. n \in 1..n /\ n % 2 # 1 /\ Last - (n + 1) \div 2 = 1
    BY <1>1 DEF n
  <2>2. Build[Len(Build)] = Nth(n)
    BY <1>1, <1>2, <2>1
  <2>3. QED
    BY <1>1, <2>1, <2>2, NthIs
<1>9. ASSUME NEW h \in Hops
      PROVE  Todo(Build, Adding, "svc", h) /\ (h < Last => Todo(Build, Adding, "chain", h))
  <2>1. CASE h = Last
    <3>1. Todo(Build, Adding, "svc", h)
      BY <1>1, <1>4, <2>1 DEF Todo, Adding, Step
    <3>2. QED
      BY <1>1, <2>1, <3>1
  <2>2. CASE h < Last
    <3> DEFINE i == 2 * (Last - h) + 1
    <3>1. i \in 2..Len(Build) /\ i \in 1..Len(Build) /\ (i - 1) % 2 # 1
          /\ Last - ((i - 1) + 1) \div 2 = h
      BY <1>1, <2>2 DEF n
    <3>2. i - 1 \in 2..Len(Build) /\ i - 1 \in 1..Len(Build) /\ ((i - 1) - 1) % 2 = 1
          /\ Last - (((i - 1) - 1) + 1) \div 2 = h
      BY <1>1, <2>2 DEF n
    <3> HIDE DEF i
    <3>3. Build[i].cmd = "add" /\ Build[i].what = "svc" /\ Build[i].hop = h
      <4>1. Build[i] = Nth(i - 1) /\ i - 1 \in Nat
        BY <1>1, <1>3, <3>1
      <4>2. QED
        BY <3>1, <4>1, NthIs
    <3>4. Build[i - 1].cmd = "add" /\ Build[i - 1].what = "chain" /\ Build[i - 1].hop = h
      <4>1. Build[i - 1] = Nth((i - 1) - 1) /\ (i - 1) - 1 \in Nat
        BY <1>1, <1>3, <3>2
      <4>2. QED
        BY <3>2, <4>1, NthIs
    <3>5. QED
      BY <3>1, <3>2, <3>3, <3>4 DEF Todo, Adding
  <2>3. QED
    BY <1>1, <2>1, <2>2
<1>10. \A i \in 2..Len(Build) : Build[i].hop # Last
  BY <1>1, <1>3
<1>11. QED
  BY <1>6, <1>7, <1>8, <1>9, <1>10 DEF BuildPlan


\* Taking back names every component, the service of the entry first.
LEMMA CleanupSteps ==
    ASSUME NEW mode \in Modes
    PROVE  /\ Cleanup(mode) \in Seq(AnyStep) /\ Cleanup(mode) # <<>>
           /\ Taking(Cleanup(mode), mode)
           /\ Cleanup(mode)[1] = Step("delete", "svc", 1, mode)
           /\ \A h \in Hops :
                /\ Todo(Cleanup(mode), {"delete"}, "svc", h)
                /\ h < Last => Todo(Cleanup(mode), {"delete"}, "chain", h)
<1> DEFINE n == Last - 1
           a == Step("delete", "svc", 1, mode)
           b == [i \in 1..n |-> Step("delete", "chain", i, mode)]
           d == [i \in 1..n |-> Step("delete", "svc", i + 1, mode)]
           p == Cleanup(mode)
<1>1. Last \in Nat /\ Last >= 2 /\ n \in Nat /\ n >= 1 /\ Hops = 1..Last /\ n + 1 = Last
  BY RouteAssumption DEF Hops
<1>2. a \in AnyStep
  BY <1>1 DEF AnyStep, Step
<1>3. \A i \in 1..n : /\ Step("delete", "chain", i, mode) \in AnyStep
                      /\ Step("delete", "svc", i + 1, mode) \in AnyStep
  BY <1>1 DEF AnyStep, Step
<1>4. p = (<<a>> \o b) \o d
  <2>1. Each("delete", "chain", UpTo(n), mode) = b
    BY <1>1 DEF Each, UpTo
  <2>2. Each("delete", "svc", Relays, mode) = d
    BY <1>1 DEF Each, Relays
  <2>3. QED
    BY <2>1, <2>2 DEF Cleanup
<1>5. b \in Seq(AnyStep) /\ Len(b) = n /\ d \in Seq(AnyStep) /\ Len(d) = n
  <2> HIDE DEF n
  <2>1. (\A i \in 1..n : b[i] \in AnyStep) /\ (\A i \in 1..n : d[i] \in AnyStep)
    BY <1>3
  <2>2. QED
    BY <1>1, <2>1, Listed
<1>6. /\ <<a>> \o b \in Seq(AnyStep) /\ Len(<<a>> \o b) = n + 1 /\ (<<a>> \o b)[1] = a
      /\ \A i \in 1..n : (<<a>> \o b)[i + 1] = b[i]
  <2> HIDE DEF a, b, n
  <2>1. QED
    BY <1>2, <1>5, InFront
<1>7. /\ p \in Seq(AnyStep) /\ Len(p) = (n + 1) + n
      /\ \A i \in 1..(n + 1) : p[i] = (<<a>> \o b)[i]
      /\ \A i \in 1..n : p[(n + 1) + i] = d[i]
  <2> DEFINE q == <<a>> \o b
  <2> HIDE DEF a, b, d, n, p, q
  <2>1. q \in Seq(AnyStep) /\ d \in Seq(AnyStep)
    BY <1>5, <1>6 DEF q
  <2>2. Len(q) = n + 1 /\ Len(d) = n
    BY <1>5, <1>6 DEF q
  <2>3. /\ q \o d \in Seq(AnyStep) /\ Len(q \o d) = Len(q) + Len(d)
        /\ \A i \in 1..Len(q) : (q \o d)[i] = q[i]
        /\ \A i \in 1..Len(d) : (q \o d)[Len(q) + i] = d[i]
    BY <2>1, Joined
  <2>4. p = q \o d
    BY <1>4 DEF q
  <2>5. QED
    BY <2>1, <2>2, <2>3, <2>4 DEF q
<1>8. p[1] = a /\ p # <<>>
  <2> HIDE DEF a, b, d, n, p
  <2>1. QED
    BY <1>1, <1>6, <1>7
<1>9. ASSUME NEW i \in 1..n
      PROVE  /\ i + 1 \in 1..Len(p) /\ p[i + 1] = Step("delete", "chain", i, mode)
             /\ (n + 1) + i \in 1..Len(p) /\ p[(n + 1) + i] = Step("delete", "svc", i + 1, mode)
  <2>1. b[i] = Step("delete", "chain", i, mode) /\ d[i] = Step("delete", "svc", i + 1, mode)
    OBVIOUS
  <2>2. i + 1 \in 1..(n + 1) /\ i + 1 \in 1..Len(p) /\ (n + 1) + i \in 1..Len(p)
    <3> HIDE DEF a, b, d, n, p
    <3>1. QED
      BY <1>1, <1>7
  <2> HIDE DEF a, b, d, n, p
  <2>3. QED
    BY <1>6, <1>7, <2>1, <2>2
<1> HIDE DEF a, b, d, n, p
<1>10. ASSUME NEW i \in 1..Len(p) PROVE p[i].cmd = "delete" /\ p[i].mode = mode
  <2>1. CASE i = 1
    BY <1>8, <2>1 DEF a, Step
  <2>2. CASE i > 1 /\ i <= n + 1
    <3>1. i - 1 \in 1..n /\ (i - 1) + 1 = i
      BY <1>1, <2>2
    <3>2. p[i] = Step("delete", "chain", i - 1, mode)
      BY <1>9, <3>1
    <3>3. QED
      BY <3>2 DEF Step
  <2>3. CASE i > n + 1
    <3>1. i - (n + 1) \in 1..n /\ (n + 1) + (i - (n + 1)) = i
      BY <1>1, <1>7, <2>3
    <3>2. p[i] = Step("delete", "svc", (i - (n + 1)) + 1, mode)
      BY <1>9, <3>1
    <3>3. QED
      BY <3>2 DEF Step
  <2>4. QED
    BY <1>1, <1>7, <2>1, <2>2, <2>3
<1>11. ASSUME NEW h \in Hops PROVE Todo(p, {"delete"}, "svc", h)
  <2>1. CASE h = 1
    BY <1>1, <1>7, <1>8, <2>1 DEF Todo, a, Step
  <2>2. CASE h > 1
    <3>1. h - 1 \in 1..n /\ (h - 1) + 1 = h
      BY <1>1, <2>2
    <3>2. PICK i \in 1..Len(p) : p[i] = Step("delete", "svc", h, mode)
      BY <1>9, <3>1
    <3>3. QED
      BY <3>2 DEF Todo, Step
  <2>3. QED
    BY <1>1, <2>1, <2>2
<1>12. ASSUME NEW h \in Hops, h < Last PROVE Todo(p, {"delete"}, "chain", h)
  <2>1. h \in 1..n
    BY <1>1, <1>12
  <2>2. PICK i \in 1..Len(p) : p[i] = Step("delete", "chain", h, mode)
    BY <1>9, <2>1
  <2>3. QED
    BY <2>2 DEF Todo, Step
<1>13. QED
  BY <1>7, <1>8, <1>10, <1>11, <1>12 DEF Taking, p, a

LEMMA SwitchSteps ==
    ASSUME NEW cmd \in {"pause", "resume"}
    PROVE  /\ Switch(cmd) \in Seq(AnyStep) /\ Len(Switch(cmd)) = Last
           /\ \A i \in 1..Last : Switch(cmd)[i] = Step(cmd, "svc", i, "must")
<1>1. Last \in Nat /\ Last >= 2 /\ Hops = 1..Last
  BY RouteAssumption DEF Hops
<1>2. Switch(cmd) = [i \in 1..Last |-> Step(cmd, "svc", i, "must")]
  BY <1>1 DEF Switch, Each, UpTo
<1>3. \A i \in 1..Last : Step(cmd, "svc", i, "must") \in AnyStep
  BY <1>1 DEF AnyStep, Step, Modes
<1>4. QED
  BY <1>1, <1>2, <1>3, Listed

LEMMA GentleSteps ==
    ASSUME NEW h \in Hops
    PROVE  /\ Gentle(h) \in Seq(AnyStep) /\ Gentle(h) # <<>>
           /\ \A i \in 1..Len(Gentle(h)) :
                Gentle(h)[i].hop = h /\ Gentle(h)[i].mode = "sync" /\ Gentle(h)[i].cmd = "add"
           /\ h < Last => Todo(Gentle(h), Adding, "chain", h)
           /\ Todo(Gentle(h), Adding, "svc", h)
<1> DEFINE a == Step("add", "chain", h, "sync")
           b == Step("add", "svc", h, "sync")
<1>1. Last \in Nat /\ Last >= 2 /\ Hops = 1..Last
  BY RouteAssumption DEF Hops
<1>2. b \in AnyStep /\ (h < Last => a \in AnyStep)
  BY <1>1 DEF AnyStep, Step, Modes
<1>3. CASE h < Last
  <2> DEFINE p == Gentle(h)
  <2>1. p = <<a>> \o <<b>>
    BY <1>3 DEF Gentle
  <2>2. p \in Seq(AnyStep) /\ Len(p) = 2 /\ p[1] = a /\ p[2] = b /\ p # <<>>
    <3> HIDE DEF a, b, p
    <3>1. <<b>> \in Seq(AnyStep) /\ Len(<<b>>) = 1 /\ <<b>>[1] = b
      BY <1>2
    <3>2. /\ <<a>> \o <<b>> \in Seq(AnyStep) /\ Len(<<a>> \o <<b>>) = 1 + 1
          /\ (<<a>> \o <<b>>)[1] = a /\ (<<a>> \o <<b>>)[1 + 1] = b
      BY <1>2, <1>3, <3>1, InFront
    <3>3. QED
      BY <2>1, <3>2
  <2> HIDE DEF p
  <2>3. QED
    BY <1>1, <2>2 DEF Todo, Adding, Step, p
<1>4. CASE ~ h < Last
  <2>1. Gentle(h) = <<b>>
    BY <1>4 DEF Gentle
  <2>2. Len(<<b>>) = 1 /\ <<b>> \in Seq(AnyStep) /\ <<b>>[1] = b /\ <<b>> # <<>>
    <3> HIDE DEF a, b
    <3>1. QED
      BY <1>2
  <2>3. QED
    BY <1>1, <1>4, <2>1, <2>2 DEF Todo, Adding, Step
<1>5. QED
  BY <1>3, <1>4


LEMMA UpdateSteps ==
    /\ PlanOf("update") \in Seq(AnyStep) /\ UpdatePlan(PlanOf("update"))
    /\ PlanOf("update") # <<>> /\ Head(PlanOf("update")) = Step("delete", "svc", 1, "must")
    /\ \A h \in Hops :
         /\ Todo(PlanOf("update"), {"delete"}, "svc", h)
         /\ h < Last => Todo(PlanOf("update"), {"delete"}, "chain", h)
<1> DEFINE a == Cleanup("must")
           s == Step("save", "row", 1, "must")
           q == a \o <<s>>
           p == PlanOf("update")
<1>1. /\ a \in Seq(AnyStep) /\ a # <<>> /\ Taking(a, "must")
      /\ a[1] = Step("delete", "svc", 1, "must")
      /\ \A h \in Hops : /\ Todo(a, {"delete"}, "svc", h)
                         /\ h < Last => Todo(a, {"delete"}, "chain", h)
  BY CleanupSteps DEF Modes
<1>2. s \in AnyStep /\ s.cmd = "save"
  BY RouteAssumption DEF AnyStep, Step, Hops
<1>3. p = q \o Build
  BY DEF PlanOf
<1>4. Build \in Seq(AnyStep) /\ Len(Build) \in Nat
  BY BuildSteps, RouteAssumption
<1> HIDE DEF a, s, p
<1>5. <<s>> \in Seq(AnyStep) /\ Len(<<s>>) = 1 /\ <<s>>[1] = s
  BY <1>2
<1>6. /\ q \in Seq(AnyStep) /\ Len(q) = Len(a) + Len(<<s>>) /\ Len(a) \in Nat
      /\ \A i \in 1..Len(a) : q[i] = a[i]
      /\ \A i \in 1..Len(<<s>>) : q[Len(a) + i] = <<s>>[i]
  <2>1. a \in Seq(AnyStep) /\ <<s>> \in Seq(AnyStep)
    BY <1>1, <1>5
  <2>2. QED
    BY <2>1, Joined
<1>7. Len(q) = Len(a) + 1 /\ q[Len(a) + 1] = s
  BY <1>5, <1>6
<1> HIDE DEF q
<1>8. /\ p \in Seq(AnyStep) /\ Len(p) = Len(q) + Len(Build)
      /\ \A i \in 1..Len(q) : p[i] = q[i]
      /\ \A i \in 1..Len(Build) : p[Len(q) + i] = Build[i]
  <2>1. q \in Seq(AnyStep) /\ Build \in Seq(AnyStep)
    BY <1>4, <1>6
  <2>2. /\ q \o Build \in Seq(AnyStep) /\ Len(q \o Build) = Len(q) + Len(Build)
        /\ \A i \in 1..Len(q) : (q \o Build)[i] = q[i]
        /\ \A i \in 1..Len(Build) : (q \o Build)[Len(q) + i] = Build[i]
    BY <2>1, Joined
  <2>3. QED
    BY <1>3, <2>2
<1>9. \A i \in 1..Len(a) : i \in 1..Len(p) /\ p[i] = a[i]
  BY <1>4, <1>6, <1>7, <1>8
<1>10. Len(p) - Len(Build) = Len(a) + 1 /\ p[Len(a) + 1] = s
  BY <1>4, <1>6, <1>7, <1>8
<1>11. UpdatePlan(p)
  <2>1. \A i \in 1..((Len(a) + 1) - 1) : p[i].cmd = "delete" /\ p[i].mode = "must"
    BY <1>1, <1>6, <1>9 DEF Taking
  <2>2. \A i \in 1..Len(Build) : p[(Len(a) + 1) + i] = Build[i]
    BY <1>7, <1>8
  <2>3. SavedAt(p) = Len(a) + 1
    BY <1>10 DEF SavedAt
  <2>4. SavedAt(p) >= 1 /\ p[SavedAt(p)].cmd = "save"
    BY <1>2, <1>6, <1>10, <2>3
  <2>5. QED
    BY <2>1, <2>2, <2>3, <2>4 DEF UpdatePlan
<1>12. p # <<>> /\ Head(p) = Step("delete", "svc", 1, "must")
  <2>1. 1 \in 1..Len(a)
    BY <1>1, HeadTail
  <2>2. p # <<>>
    BY <1>9, <2>1
  <2>3. QED
    BY <1>1, <1>8, <1>9, <2>1, <2>2, HeadTail
<1>13. \A cmds, what, h : Todo(a, cmds, what, h) => Todo(p, cmds, what, h)
  BY <1>9 DEF Todo
<1>14. QED
  BY <1>1, <1>8, <1>11, <1>12, <1>13 DEF p

LEMMA PlanTypes == ASSUME NEW op \in AllOps \ {"report"} PROVE PlanOf(op) \in Seq(AnyStep)
<1>1. CASE op = "create"
  BY <1>1, BuildSteps DEF PlanOf
<1>2. CASE op = "update"
  BY <1>2, UpdateSteps
<1>3. CASE op = "delete"
  BY <1>3, CleanupSteps DEF PlanOf, Modes
<1>4. CASE op = "force"
  BY <1>4, CleanupSteps DEF PlanOf, Modes
<1>5. CASE op \in {"pause", "resume"}
  BY <1>5, SwitchSteps DEF PlanOf
<1>6. QED
  BY <1>1, <1>2, <1>3, <1>4, <1>5 DEF AllOps

-----------------------------------------------------------------------------
(* What a command does.                                                     *)

\* The answer to step x where the nodes have s and c, and what they have after it.
Did(s, c, x, g) == IF x.what = "svc" THEN OnService(x.cmd, s[x.hop], c[x.hop], g)
                   ELSE OnChain(x.cmd, s[x.hop], c[x.hop], g)
SvcAfter(s, c, x, g)   == [s EXCEPT ![x.hop] = Did(s, c, x, g).svc]
ChainAfter(s, c, x, g) == [c EXCEPT ![x.hop] = Did(s, c, x, g).chain]

LEMMA ServiceRows ==
    /\ None \in ServiceRow /\ None.gen = 0 /\ ~ None.open
    /\ \A g \in Gens : Service(g) \in ServiceRow /\ Service(g) # None
                       /\ Service(g).gen = g /\ Service(g).open
    /\ \A v \in ServiceRow : /\ v = None <=> v.gen = 0
                             /\ v.gen \in {0} \cup Gens /\ v.open \in BOOLEAN
                             /\ v = [gen |-> v.gen, open |-> v.open]
                             /\ v # None => \A b \in BOOLEAN : /\ [v EXCEPT !.open = b] \in ServiceRow
                                                               /\ [v EXCEPT !.open = b].gen = v.gen
                                                               /\ [v EXCEPT !.open = b].open = b
<1>1. \A g \in Gens : g \in Nat /\ g # 0
  BY RouteAssumption DEF Gens
<1>2. None \in ServiceRow /\ None.gen = 0 /\ ~ None.open
  BY DEF ServiceRow, None
<1>3. ASSUME NEW g \in Gens
      PROVE  Service(g) \in ServiceRow /\ Service(g) # None
             /\ Service(g).gen = g /\ Service(g).open
  BY <1>1 DEF ServiceRow, None, Service
<1>4. ASSUME NEW v \in ServiceRow
      PROVE  /\ v = None <=> v.gen = 0
             /\ v.gen \in {0} \cup Gens /\ v.open \in BOOLEAN
             /\ v = [gen |-> v.gen, open |-> v.open]
  BY DEF ServiceRow, None
<1>5. ASSUME NEW v \in ServiceRow, v # None, NEW b \in BOOLEAN
      PROVE  /\ [v EXCEPT !.open = b] \in ServiceRow
             /\ [v EXCEPT !.open = b].gen = v.gen
             /\ [v EXCEPT !.open = b].open = b
  BY <1>4, <1>5 DEF ServiceRow
<1>6. QED
  BY <1>2, <1>3, <1>4, <1>5

LEMMA Commands ==
    ASSUME NEW x \in AnyStep, x.cmd # "save"
    PROVE  /\ x.hop \in Hops /\ x.what \in {"svc", "chain"} /\ x.mode \in Modes
           /\ x.what = "svc" => x.cmd \in {"add", "delete", "pause", "resume"}
           /\ x.what = "chain" => x.cmd \in {"add", "update", "delete"} /\ x.hop < Last
BY RouteAssumption DEF AnyStep, Hops

\* A command for a service.
LEMMA OnServiceType ==
    ASSUME NEW cmd \in {"add", "delete", "pause", "resume"}, NEW s \in ServiceRow, NEW c, NEW g,
           g \in Gens \/ cmd \in {"delete", "pause"}
    PROVE  OnService(cmd, s, c, g).svc \in ServiceRow /\ OnService(cmd, s, c, g).chain = c
<1> DEFINE d == OnService(cmd, s, c, g)
<1>1. CASE cmd = "add" /\ s = None
  <2>1. d = Result("ok", Service(g), c)
    BY <1>1 DEF OnService
  <2>2. d.answer = "ok" /\ d.svc = Service(g) /\ d.chain = c
    BY <2>1 DEF Result
  <2>3. QED
    BY <1>1, <2>2, ServiceRows
<1>2. CASE cmd = "add" /\ s # None
  <2>1. d = Result("already_exists", s, c)
    BY <1>2 DEF OnService
  <2>2. d.answer = "already_exists" /\ d.svc = s /\ d.chain = c
    BY <2>1 DEF Result
  <2>3. QED
    BY <1>2, <2>2, ServiceRows
<1>3. CASE cmd = "delete" /\ s = None
  <2>1. d = Result("not_found", s, c)
    BY <1>3 DEF OnService
  <2>2. d.answer = "not_found" /\ d.svc = s /\ d.chain = c
    BY <2>1 DEF Result
  <2>3. QED
    BY <1>3, <2>2, ServiceRows
<1>4. CASE cmd = "delete" /\ s # None
  <2>1. d = Result("ok", None, c)
    BY <1>4 DEF OnService
  <2>2. d.answer = "ok" /\ d.svc = None /\ d.chain = c
    BY <2>1 DEF Result
  <2>3. QED
    BY <1>4, <2>2, ServiceRows
<1>5. CASE cmd \in {"pause", "resume"} /\ s = None
  <2>1. d = Result("not_found", s, c)
    BY <1>5 DEF OnService
  <2>2. d.answer = "not_found" /\ d.svc = s /\ d.chain = c
    BY <2>1 DEF Result
  <2>3. QED
    BY <1>5, <2>2, ServiceRows
<1>6. CASE cmd \in {"pause", "resume"} /\ s # None
  <2>1. d = Result("ok", [s EXCEPT !.open = (cmd = "resume")], c)
    BY <1>6 DEF OnService
  <2>2. (cmd = "resume") \in BOOLEAN
    OBVIOUS
  <2>3. [s EXCEPT !.open = (cmd = "resume")] \in ServiceRow
    BY <1>6, <2>2, ServiceRows
  <2>4. d.answer = "ok" /\ d.svc = [s EXCEPT !.open = (cmd = "resume")] /\ d.chain = c
    BY <2>1 DEF Result
  <2>5. QED
    BY <1>6, <2>3, <2>4
<1>7. QED
  BY <1>1, <1>2, <1>3, <1>4, <1>5, <1>6

LEMMA OnServiceDoes ==
    ASSUME NEW cmd \in {"add", "delete", "pause", "resume"}, NEW s \in ServiceRow, NEW c, NEW g,
           g \in Gens \/ cmd \in {"delete", "pause"}
    PROVE  /\ cmd = "add" /\ s = None =>
                /\ OnService(cmd, s, c, g).answer = "ok"
                /\ OnService(cmd, s, c, g).svc = Service(g)
           /\ cmd = "add" /\ s # None =>
                /\ OnService(cmd, s, c, g).answer = "already_exists"
                /\ OnService(cmd, s, c, g).svc = s
           /\ cmd = "delete" =>
                /\ OnService(cmd, s, c, g).answer \in {"ok", "not_found"}
                /\ OnService(cmd, s, c, g).svc = None
           /\ cmd \in {"pause", "resume"} /\ s = None =>
                /\ OnService(cmd, s, c, g).answer = "not_found"
                /\ OnService(cmd, s, c, g).svc = s
           /\ cmd \in {"pause", "resume"} /\ s # None =>
                /\ OnService(cmd, s, c, g).answer = "ok"
                /\ OnService(cmd, s, c, g).svc.gen = s.gen
                /\ OnService(cmd, s, c, g).svc.open <=> cmd = "resume"
<1> DEFINE d == OnService(cmd, s, c, g)
<1>1. CASE cmd = "add" /\ s = None
  <2>1. d = Result("ok", Service(g), c)
    BY <1>1 DEF OnService
  <2>2. d.answer = "ok" /\ d.svc = Service(g) /\ d.chain = c
    BY <2>1 DEF Result
  <2>3. QED
    BY <1>1, <2>2, ServiceRows
<1>2. CASE cmd = "add" /\ s # None
  <2>1. d = Result("already_exists", s, c)
    BY <1>2 DEF OnService
  <2>2. d.answer = "already_exists" /\ d.svc = s /\ d.chain = c
    BY <2>1 DEF Result
  <2>3. QED
    BY <1>2, <2>2, ServiceRows
<1>3. CASE cmd = "delete" /\ s = None
  <2>1. d = Result("not_found", s, c)
    BY <1>3 DEF OnService
  <2>2. d.answer = "not_found" /\ d.svc = s /\ d.chain = c
    BY <2>1 DEF Result
  <2>3. QED
    BY <1>3, <2>2, ServiceRows
<1>4. CASE cmd = "delete" /\ s # None
  <2>1. d = Result("ok", None, c)
    BY <1>4 DEF OnService
  <2>2. d.answer = "ok" /\ d.svc = None /\ d.chain = c
    BY <2>1 DEF Result
  <2>3. QED
    BY <1>4, <2>2, ServiceRows
<1>5. CASE cmd \in {"pause", "resume"} /\ s = None
  <2>1. d = Result("not_found", s, c)
    BY <1>5 DEF OnService
  <2>2. d.answer = "not_found" /\ d.svc = s /\ d.chain = c
    BY <2>1 DEF Result
  <2>3. QED
    BY <1>5, <2>2, ServiceRows
<1>6. CASE cmd \in {"pause", "resume"} /\ s # None
  <2>1. d = Result("ok", [s EXCEPT !.open = (cmd = "resume")], c)
    BY <1>6 DEF OnService
  <2>2. (cmd = "resume") \in BOOLEAN
    OBVIOUS
  <2>3. /\ [s EXCEPT !.open = (cmd = "resume")].gen = s.gen
        /\ [s EXCEPT !.open = (cmd = "resume")].open = (cmd = "resume")
    BY <1>6, <2>2, ServiceRows
  <2>4. d.answer = "ok" /\ d.svc = [s EXCEPT !.open = (cmd = "resume")] /\ d.chain = c
    BY <2>1 DEF Result
  <2>5. QED
    BY <1>6, <2>3, <2>4
<1>7. QED
  BY <1>1, <1>2, <1>3, <1>4, <1>5, <1>6

\* A command for a chain.
LEMMA OnChainType ==
    ASSUME NEW cmd \in {"add", "update", "delete"}, NEW s, NEW c \in Contents, NEW g,
           g \in Gens \/ cmd = "delete"
    PROVE  OnChain(cmd, s, c, g).svc = s /\ OnChain(cmd, s, c, g).chain \in Contents
<1> DEFINE d == OnChain(cmd, s, c, g)
<1>1. CASE cmd = "add" /\ c = 0
  <2>1. d = Result("ok", s, g)
    BY <1>1 DEF OnChain
  <2>2. d.answer = "ok" /\ d.svc = s /\ d.chain = g
    BY <2>1 DEF Result
  <2>3. QED
    BY <1>1, <2>2 DEF Contents
<1>2. CASE cmd = "add" /\ c # 0
  <2>1. d = Result("already_exists", s, c)
    BY <1>2 DEF OnChain
  <2>2. d.answer = "already_exists" /\ d.svc = s /\ d.chain = c
    BY <2>1 DEF Result
  <2>3. QED
    BY <1>2, <2>2 DEF Contents
<1>3. CASE cmd # "add" /\ c = 0
  <2>1. d = Result("not_found", s, c)
    BY <1>3 DEF OnChain
  <2>2. d.answer = "not_found" /\ d.svc = s /\ d.chain = c
    BY <2>1 DEF Result
  <2>3. QED
    BY <1>3, <2>2 DEF Contents
<1>4. CASE cmd = "update" /\ c # 0
  <2>1. d = Result("ok", s, g)
    BY <1>4 DEF OnChain
  <2>2. d.answer = "ok" /\ d.svc = s /\ d.chain = g
    BY <2>1 DEF Result
  <2>3. QED
    BY <1>4, <2>2 DEF Contents
<1>5. CASE cmd = "delete" /\ c # 0
  <2>1. d = Result("ok", s, 0)
    BY <1>5 DEF OnChain
  <2>2. d.answer = "ok" /\ d.svc = s /\ d.chain = 0
    BY <2>1 DEF Result
  <2>3. QED
    BY <1>5, <2>2 DEF Contents
<1>6. QED
  BY <1>1, <1>2, <1>3, <1>4, <1>5


LEMMA OnChainDoes ==
    ASSUME NEW cmd \in {"add", "update", "delete"}, NEW s, NEW c \in Contents, NEW g,
           g \in Gens \/ cmd = "delete"
    PROVE  /\ cmd = "add" /\ c = 0 =>
                /\ OnChain(cmd, s, c, g).answer = "ok"
                /\ OnChain(cmd, s, c, g).chain = g
           /\ cmd = "add" /\ c # 0 =>
                /\ OnChain(cmd, s, c, g).answer = "already_exists"
                /\ OnChain(cmd, s, c, g).chain = c
           /\ cmd = "update" /\ c = 0 =>
                /\ OnChain(cmd, s, c, g).answer = "not_found"
                /\ OnChain(cmd, s, c, g).chain = c
           /\ cmd = "update" /\ c # 0 =>
                /\ OnChain(cmd, s, c, g).answer = "ok"
                /\ OnChain(cmd, s, c, g).chain = g
           /\ cmd = "delete" =>
                /\ OnChain(cmd, s, c, g).answer \in {"ok", "not_found"}
                /\ OnChain(cmd, s, c, g).chain = 0
<1> DEFINE d == OnChain(cmd, s, c, g)
<1>1. CASE cmd = "add" /\ c = 0
  <2>1. d = Result("ok", s, g)
    BY <1>1 DEF OnChain
  <2>2. d.answer = "ok" /\ d.svc = s /\ d.chain = g
    BY <2>1 DEF Result
  <2>3. QED
    BY <1>1, <2>2 DEF Contents
<1>2. CASE cmd = "add" /\ c # 0
  <2>1. d = Result("already_exists", s, c)
    BY <1>2 DEF OnChain
  <2>2. d.answer = "already_exists" /\ d.svc = s /\ d.chain = c
    BY <2>1 DEF Result
  <2>3. QED
    BY <1>2, <2>2 DEF Contents
<1>3. CASE cmd # "add" /\ c = 0
  <2>1. d = Result("not_found", s, c)
    BY <1>3 DEF OnChain
  <2>2. d.answer = "not_found" /\ d.svc = s /\ d.chain = c
    BY <2>1 DEF Result
  <2>3. QED
    BY <1>3, <2>2 DEF Contents
<1>4. CASE cmd = "update" /\ c # 0
  <2>1. d = Result("ok", s, g)
    BY <1>4 DEF OnChain
  <2>2. d.answer = "ok" /\ d.svc = s /\ d.chain = g
    BY <2>1 DEF Result
  <2>3. QED
    BY <1>4, <2>2 DEF Contents
<1>5. CASE cmd = "delete" /\ c # 0
  <2>1. d = Result("ok", s, 0)
    BY <1>5 DEF OnChain
  <2>2. d.answer = "ok" /\ d.svc = s /\ d.chain = 0
    BY <2>1 DEF Result
  <2>3. QED
    BY <1>5, <2>2 DEF Contents
<1>6. QED
  BY <1>1, <1>2, <1>3, <1>4, <1>5


\* Only the component that the command names changes.
LEMMA Effect ==
    ASSUME NEW s, NEW c, Nodes(s, c), NEW x \in AnyStep, x.cmd # "save",
           NEW g, g \in Gens \/ x.cmd \in {"delete", "pause"},
           NEW s2, s2 = SvcAfter(s, c, x, g), NEW c2, c2 = ChainAfter(s, c, x, g)
    PROVE  /\ Nodes(s2, c2)
           /\ \A h \in Hops : h # x.hop \/ x.what # "svc" => s2[h] = s[h]
           /\ \A h \in Hops : h # x.hop \/ x.what # "chain" => c2[h] = c[h]
<1> DEFINE d == Did(s, c, x, g)
<1>1. x.hop \in Hops /\ s[x.hop] \in ServiceRow /\ c[x.hop] \in Contents
  BY Commands DEF Nodes
<1>2. s2 = [s EXCEPT ![x.hop] = d.svc] /\ c2 = [c EXCEPT ![x.hop] = d.chain]
  BY DEF SvcAfter, ChainAfter
<1> HIDE DEF d
<1>3. CASE x.what = "svc"
  <2>1. d = OnService(x.cmd, s[x.hop], c[x.hop], g)
    BY <1>3 DEF Did, d
  <2>2. d.svc \in ServiceRow /\ d.chain = c[x.hop]
    <3>1. x.cmd \in {"add", "delete", "pause", "resume"}
      BY <1>3, Commands
    <3>2. QED
      BY <1>1, <2>1, <3>1, OnServiceType
  <2>3. c2 = c /\ s2 \in [Hops -> ServiceRow]
    BY <1>1, <1>2, <2>2 DEF Nodes
  <2>4. QED
    BY <1>1, <1>2, <1>3, <2>3 DEF Nodes
<1>4. CASE x.what = "chain"
  <2>1. d = OnChain(x.cmd, s[x.hop], c[x.hop], g)
    BY <1>4 DEF Did, d
  <2>2. x.cmd \in {"add", "update", "delete"} /\ x.hop < Last
    BY <1>4, Commands
  <2>3. d.svc = s[x.hop] /\ d.chain \in Contents
    <3>1. g \in Gens \/ x.cmd = "delete"
      BY <2>2
    <3>2. QED
      BY <1>1, <2>1, <2>2, <3>1, OnChainType
  <2>4. s2 = s /\ c2 \in [Hops -> Contents]
    BY <1>1, <1>2, <2>3 DEF Nodes
  <2>5. x.hop # Last /\ Last \in Hops
    BY <1>1, <2>2, RouteAssumption DEF Hops
  <2>6. c2[Last] = 0
    BY <1>1, <1>2, <2>5 DEF Nodes
  <2>7. QED
    BY <1>1, <1>2, <1>4, <2>4, <2>6 DEF Nodes
<1>5. QED
  BY <1>3, <1>4, Commands

\* ... and what it has then.
LEMMA ServiceEffect ==
    ASSUME NEW s, NEW c, Nodes(s, c), NEW x \in AnyStep, x.cmd # "save", x.what = "svc",
           NEW g, g \in Gens \/ x.cmd \in {"delete", "pause"},
           NEW s2, s2 = SvcAfter(s, c, x, g)
    PROVE  /\ x.cmd = "add" /\ s[x.hop] = None =>
                Did(s, c, x, g).answer = "ok" /\ s2[x.hop] = Service(g)
           /\ x.cmd = "add" /\ s[x.hop] # None =>
                Did(s, c, x, g).answer = "already_exists" /\ s2[x.hop] = s[x.hop]
           /\ x.cmd = "delete" =>
                Did(s, c, x, g).answer \in {"ok", "not_found"} /\ s2[x.hop] = None
           /\ x.cmd \in {"pause", "resume"} /\ s[x.hop] = None =>
                Did(s, c, x, g).answer = "not_found" /\ s2[x.hop] = s[x.hop]
           /\ x.cmd \in {"pause", "resume"} /\ s[x.hop] # None =>
                /\ Did(s, c, x, g).answer = "ok" /\ s2[x.hop].gen = s[x.hop].gen
                /\ s2[x.hop].open <=> x.cmd = "resume"
<1> DEFINE d == Did(s, c, x, g)
<1>1. x.cmd \in {"add", "delete", "pause", "resume"} /\ s[x.hop] \in ServiceRow
  BY Commands DEF Nodes
<1>2. d = OnService(x.cmd, s[x.hop], c[x.hop], g)
  BY DEF Did
<1>3. s2[x.hop] = d.svc
  BY Commands DEF SvcAfter, Nodes
<1>4. QED
  BY <1>1, <1>2, <1>3, OnServiceDoes

LEMMA ChainEffect ==
    ASSUME NEW s, NEW c, Nodes(s, c), NEW x \in AnyStep, x.cmd # "save", x.what = "chain",
           NEW g, g \in Gens \/ x.cmd \in {"delete", "pause"},
           NEW c2, c2 = ChainAfter(s, c, x, g)
    PROVE  /\ x.cmd = "add" /\ c[x.hop] = 0 =>
                Did(s, c, x, g).answer = "ok" /\ c2[x.hop] = g
           /\ x.cmd = "add" /\ c[x.hop] # 0 =>
                Did(s, c, x, g).answer = "already_exists" /\ c2[x.hop] = c[x.hop]
           /\ x.cmd = "update" /\ c[x.hop] = 0 =>
                Did(s, c, x, g).answer = "not_found" /\ c2[x.hop] = c[x.hop]
           /\ x.cmd = "update" /\ c[x.hop] # 0 =>
                Did(s, c, x, g).answer = "ok" /\ c2[x.hop] = g
           /\ x.cmd = "delete" =>
                Did(s, c, x, g).answer \in {"ok", "not_found"} /\ c2[x.hop] = 0
<1> DEFINE d == Did(s, c, x, g)
<1>1. x.cmd \in {"add", "update", "delete"} /\ c[x.hop] \in Contents
  BY Commands DEF Nodes
<1>2. d = OnChain(x.cmd, s[x.hop], c[x.hop], g)
  BY DEF Did
<1>3. c2[x.hop] = d.chain
  BY Commands DEF ChainAfter, Nodes
<1>4. g \in Gens \/ x.cmd = "delete"
  BY <1>1
<1>5. /\ x.cmd = "add" /\ c[x.hop] = 0 => d.answer = "ok" /\ d.chain = g
      /\ x.cmd = "add" /\ c[x.hop] # 0 => d.answer = "already_exists" /\ d.chain = c[x.hop]
      /\ x.cmd = "update" /\ c[x.hop] = 0 => d.answer = "not_found" /\ d.chain = c[x.hop]
      /\ x.cmd = "update" /\ c[x.hop] # 0 => d.answer = "ok" /\ d.chain = g
      /\ x.cmd = "delete" => d.answer \in {"ok", "not_found"} /\ d.chain = 0
  BY <1>1, <1>2, <1>4, OnChainDoes
<1>6. QED
  BY <1>3, <1>5

\* Taking back a component that may not be there any more.
LEMMA Deletes ==
    ASSUME NEW s, NEW c, Nodes(s, c), NEW p \in Seq(AnyStep), p # <<>>,
           NEW x, x = Head(p), x.cmd = "delete", NEW g,
           NEW s2, s2 = SvcAfter(s, c, x, g), NEW c2, c2 = ChainAfter(s, c, x, g),
           Cleared(s, c, p), EntryFirst(s, p)
    PROVE  /\ Did(s, c, x, g).answer \in {"ok", "not_found"}
           /\ Cleared(s2, c2, Tail(p)) /\ s2[1] = None /\ EntryFirst(s2, Tail(p))
<1> DEFINE d == Did(s, c, x, g)
<1>1. x \in AnyStep /\ x.cmd # "save" /\ x.hop \in Hops /\ x.what \in {"svc", "chain"}
      /\ 1 \in Hops
  BY HeadTail, Commands, RouteAssumption DEF Hops
<1>2. /\ Nodes(s2, c2)
      /\ \A h \in Hops : h # x.hop \/ x.what # "svc" => s2[h] = s[h]
      /\ \A h \in Hops : h # x.hop \/ x.what # "chain" => c2[h] = c[h]
  BY <1>1, Effect
<1>3. ASSUME x.what = "svc" PROVE d.answer \in {"ok", "not_found"} /\ s2[x.hop] = None
  BY <1>1, <1>3, ServiceEffect
<1>4. ASSUME x.what = "chain" PROVE d.answer \in {"ok", "not_found"} /\ c2[x.hop] = 0
  BY <1>1, <1>4, ChainEffect
<1> HIDE DEF d
<1>5. ASSUME NEW h \in Hops, ~ Todo(Tail(p), {"delete"}, "svc", h) PROVE s2[h] = None
  <2>1. ~ Todo(p, {"delete"}, "svc", h) \/ (x.what = "svc" /\ x.hop = h)
    BY <1>5, TodoHead
  <2>2. ~ Todo(p, {"delete"}, "svc", h) => s[h] = None
    BY DEF Cleared
  <2>3. QED
    BY <1>2, <1>3, <2>1, <2>2
<1>6. ASSUME NEW h \in Hops, h < Last, ~ Todo(Tail(p), {"delete"}, "chain", h) PROVE c2[h] = 0
  <2>1. ~ Todo(p, {"delete"}, "chain", h) \/ (x.what = "chain" /\ x.hop = h)
    BY <1>6, TodoHead
  <2>2. ~ Todo(p, {"delete"}, "chain", h) => c[h] = 0
    BY <1>6 DEF Cleared
  <2>3. QED
    BY <1>2, <1>4, <2>1, <2>2
<1>7. s2[1] = None
  BY <1>1, <1>2, <1>3 DEF EntryFirst
<1>8. QED
  BY <1>1, <1>3, <1>4, <1>5, <1>6, <1>7 DEF Cleared, EntryFirst, d

\* Nothing is left when all is taken back.
LEMMA AllCleared ==
    ASSUME NEW s, NEW c, Nodes(s, c), NEW p,
           \A h \in Hops : /\ ~ Todo(p, {"delete"}, "svc", h)
                           /\ h < Last => ~ Todo(p, {"delete"}, "chain", h),
           Cleared(s, c, p)
    PROVE  Empty(s, c)
<1>1. \A h \in Hops : h < Last \/ h = Last
  BY RouteAssumption DEF Hops
<1>2. QED
  BY <1>1 DEF Cleared, Empty, Nodes

\* A command that deploys what is not there yet.
LEMMA Deploys ==
    ASSUME NEW s, NEW c, Nodes(s, c), NEW p \in Seq(AnyStep), p # <<>>,
           NEW x, x = Head(p), NEW g \in Gens,
           NEW s2, s2 = SvcAfter(s, c, x, g), NEW c2, c2 = ChainAfter(s, c, x, g),
           BuildPlan(p), Built(s, c, p, g)
    PROVE  /\ Did(s, c, x, g).answer = "ok"
           /\ BuildPlan(Tail(p)) /\ Built(s2, c2, Tail(p), g)
<1> DEFINE d == Did(s, c, x, g)
           q == Tail(p)
<1>1. /\ Len(p) \in Nat /\ Len(p) >= 1 /\ x = p[1] /\ x \in AnyStep
      /\ q \in Seq(AnyStep) /\ Len(q) = Len(p) - 1
      /\ \A i \in 1..(Len(p) - 1) : q[i] = p[i + 1]
  BY HeadTail
<1>2. x.cmd = "add" /\ x.cmd \in Adding
  BY <1>1 DEF BuildPlan, Adding
<1>3. x.hop \in Hops /\ x.what \in {"svc", "chain"} /\ (x.what = "chain" => x.hop < Last)
  BY <1>1, <1>2, Commands
<1>4. /\ Nodes(s2, c2)
      /\ \A h \in Hops : h # x.hop \/ x.what # "svc" => s2[h] = s[h]
      /\ \A h \in Hops : h # x.hop \/ x.what # "chain" => c2[h] = c[h]
  BY <1>1, <1>2, Effect
<1>5. Todo(p, Adding, x.what, x.hop)
  BY <1>1, <1>2, TodoHead
<1>6. ASSUME x.what = "svc" PROVE d.answer = "ok" /\ s2[x.hop] = Service(g)
  <2>1. s[x.hop] = None
    BY <1>3, <1>5, <1>6 DEF Built
  <2>2. QED
    BY <1>1, <1>2, <1>6, <2>1, ServiceEffect
<1>7. ASSUME x.what = "chain" PROVE d.answer = "ok" /\ c2[x.hop] = g
  <2>1. c[x.hop] = 0
    BY <1>3, <1>5, <1>7 DEF Built
  <2>2. QED
    BY <1>1, <1>2, <1>7, <2>1, ChainEffect
<1> HIDE DEF d, q
<1>8. ~ Todo(q, Adding, x.what, x.hop)
  <2> SUFFICES ASSUME NEW i \in 1..Len(q), q[i].what = x.what, q[i].hop = x.hop PROVE FALSE
    BY DEF Todo
  <2>1. i + 1 \in 1..Len(p) /\ 1 \in 1..Len(p) /\ q[i] = p[i + 1] /\ i + 1 # 1
    BY <1>1
  <2>2. QED
    BY <1>1, <2>1 DEF BuildPlan
<1>9. \A what, h : what # x.what \/ h # x.hop =>
                     (Todo(q, Adding, what, h) <=> Todo(p, Adding, what, h))
  BY <1>1, TodoHead DEF q
<1>10. Built(s2, c2, q, g)
  <2>1. ASSUME NEW h \in Hops
        PROVE  s2[h] = IF Todo(q, Adding, "svc", h) THEN None ELSE Service(g)
    <3>1. s[h] = IF Todo(p, Adding, "svc", h) THEN None ELSE Service(g)
      BY DEF Built
    <3>2. CASE x.what = "svc" /\ x.hop = h
      BY <1>6, <1>8, <3>2
    <3>3. CASE x.what # "svc" \/ x.hop # h
      BY <1>4, <1>9, <3>1, <3>3
    <3>4. QED
      BY <3>2, <3>3
  <2>2. ASSUME NEW h \in Hops, h < Last
        PROVE  c2[h] = IF Todo(q, Adding, "chain", h) THEN 0 ELSE g
    <3>1. c[h] = IF Todo(p, Adding, "chain", h) THEN 0 ELSE g
      BY <2>2 DEF Built
    <3>2. CASE x.what = "chain" /\ x.hop = h
      BY <1>7, <1>8, <3>2
    <3>3. CASE x.what # "chain" \/ x.hop # h
      BY <1>4, <1>9, <3>1, <3>3
    <3>4. QED
      BY <3>2, <3>3
  <2>3. QED
    BY <2>1, <2>2 DEF Built
<1>11. BuildPlan(q)
  <2>1. ASSUME NEW i \in 1..Len(q) PROVE i + 1 \in 1..Len(p) /\ i + 1 \in 2..Len(p) /\ q[i] = p[i + 1]
    BY <1>1
  <2>2. \A i \in 1..Len(q) : q[i].cmd = "add" /\ q[i].mode = "build" /\ q[i].hop # Last
    BY <2>1 DEF BuildPlan
  <2>3. ASSUME NEW i \in 1..Len(q), NEW k \in 1..Len(q),
               q[i].what = q[k].what, q[i].hop = q[k].hop
        PROVE  i = k
    <3>1. i + 1 = k + 1
      <4>1. \A a, b \in 1..Len(p) : p[a].what = p[b].what /\ p[a].hop = p[b].hop => a = b
        BY DEF BuildPlan
      <4>2. i + 1 \in 1..Len(p) /\ k + 1 \in 1..Len(p) /\ q[i] = p[i + 1] /\ q[k] = p[k + 1]
        BY <2>1
      <4>3. p[i + 1].what = p[k + 1].what /\ p[i + 1].hop = p[k + 1].hop
        BY <2>3, <4>2
      <4>4. QED
        BY <4>1, <4>2, <4>3
    <3>2. QED
      BY <1>1, <3>1
  <2>4. ASSUME q # <<>>
        PROVE  q[Len(q)].what = "svc" /\ q[Len(q)].hop = 1 /\ Head(q).hop # Last
    <3>1. Len(q) \in 1..Len(q) /\ 1 \in 1..Len(q) /\ Head(q) = q[1]
      BY <1>1, <2>4, HeadTail
    <3>2. q[Len(q)] = p[Len(p)]
      BY <1>1, <2>1, <3>1
    <3>3. QED
      BY <2>2, <3>1, <3>2 DEF BuildPlan
  <2>5. \A i \in 2..Len(q) : q[i].hop # Last
    BY <1>1, <2>2
  <2>6. QED
    BY <2>2, <2>3, <2>4, <2>5 DEF BuildPlan
<1>12. QED
  BY <1>3, <1>6, <1>7, <1>10, <1>11 DEF d, q


\* The rest of a deployment leaves no entry without its path, ...
LEMMA BuiltEntry ==
    ASSUME NEW s, NEW c, NEW p \in Seq(AnyStep), NEW g \in Gens, BuildPlan(p), Built(s, c, p, g)
    PROVE  /\ s[1] # None => p = <<>>
           /\ p = <<>> => \A h \in Hops : s[h] = Service(g) /\ (h < Last => c[h] = g)
           /\ Behind(s, c)
<1>1. 1 \in Hops
  BY RouteAssumption DEF Hops
<1>2. ASSUME s[1] # None PROVE p = <<>>
  <2>1. ~ Todo(p, Adding, "svc", 1)
    BY <1>1, <1>2 DEF Built
  <2>2. SUFFICES ASSUME p # <<>> PROVE FALSE
    OBVIOUS
  <2>3. Len(p) \in 1..Len(p)
    BY <2>2, HeadTail
  <2>4. p[Len(p)].cmd \in Adding /\ p[Len(p)].what = "svc" /\ p[Len(p)].hop = 1
    BY <2>2, <2>3 DEF BuildPlan, Adding
  <2>5. QED
    BY <2>1, <2>3, <2>4 DEF Todo
<1>3. ASSUME p = <<>> PROVE \A h \in Hops : s[h] = Service(g) /\ (h < Last => c[h] = g)
  BY <1>3, TodoNothing DEF Built
<1>4. Behind(s, c)
  <2>1. SUFFICES ASSUME s[1] # None PROVE Fits(s, c, s[1].gen)
    BY DEF Behind
  <2>2. \A h \in Hops : s[h] = Service(g) /\ (h < Last => c[h] = g)
    BY <1>2, <1>3, <2>1
  <2>3. QED
    BY <1>1, <2>2, ServiceRows DEF Fits
<1>5. QED
  BY <1>2, <1>3, <1>4

\* ... nothing is there before the terminal is, ...
LEMMA NothingBuilt ==
    ASSUME NEW s, NEW c, Nodes(s, c), NEW p, NEW g, BuildPlan(p), Built(s, c, p, g),
           p # <<>>, Head(p).hop = Last
    PROVE  Empty(s, c)
<1>1. \A h \in Hops : h < Last \/ h = Last
  BY RouteAssumption DEF Hops
<1>2. QED
  BY <1>1 DEF BuildPlan, Built, Empty, Nodes

\* ... and with nothing there a deployment may begin.
LEMMA Begun ==
    ASSUME NEW s, NEW c, NEW g, Empty(s, c)
    PROVE  Built(s, c, Build, g)
<1>1. Build # <<>> /\ Head(Build).hop = Last
  <2>1. Build \in Seq(AnyStep) /\ Len(Build) >= 1 /\ Build[1].hop = Last
    BY BuildSteps, RouteAssumption DEF Step
  <2>2. Build # <<>>
    BY <2>1
  <2>3. QED
    BY <2>1, <2>2, HeadTail
<1>2. QED
  BY <1>1, BuildAll DEF BuildPlan, Built, Empty

\* Taking back may begin whatever is there.
LEMMA FreshCleanup ==
    ASSUME NEW s, NEW c, NEW mode \in Modes
    PROVE  Cleared(s, c, Cleanup(mode)) /\ EntryFirst(s, Cleanup(mode))
<1>1. /\ Cleanup(mode) # <<>> /\ Head(Cleanup(mode)) = Step("delete", "svc", 1, mode)
  BY CleanupSteps, HeadTail
<1>2. Cleared(s, c, Cleanup(mode))
  BY CleanupSteps DEF Cleared
<1>3. EntryFirst(s, Cleanup(mode))
  BY <1>1 DEF EntryFirst, Step
<1>4. QED
  BY <1>2, <1>3

LEMMA FreshUpdate ==
    ASSUME NEW s, NEW c
    PROVE  Cleared(s, c, PlanOf("update")) /\ EntryFirst(s, PlanOf("update"))
BY UpdateSteps DEF Cleared, EntryFirst, Step

LEMMA EmptyCleared ==
    ASSUME NEW s, NEW c, NEW p, Empty(s, c)
    PROVE  Cleared(s, c, p) /\ EntryFirst(s, p) /\ Behind(s, c)
<1>1. 1 \in Hops
  BY RouteAssumption DEF Hops
<1>2. QED
  BY <1>1 DEF Empty, Cleared, EntryFirst, Behind

-----------------------------------------------------------------------------
(* How a goroutine goes on.                                                 *)

Advanced(g, x, answer) ==
    IF Accepts(x, answer) THEN [g EXCEPT !.plan = Tail(@)]
    ELSE IF x.mode = "sync" /\ x.what = "chain" /\ answer = "already_exists"
    THEN [g EXCEPT !.plan = <<Step("update", "chain", x.hop, "sync")>> \o Tail(@)]
    ELSE IF x.mode = "build" /\ x.hop # Last
    THEN [g EXCEPT !.plan = Cleanup("try"), !.failed = TRUE]
    ELSE [g EXCEPT !.plan = <<>>, !.failed = TRUE]

LEMMA AdvanceIs ==
    ASSUME NEW j, NEW x, NEW answer PROVE Advance(j, x, answer) = Advanced(job[j], x, answer)
BY DEF Advance, Advanced

\* What remains to be done, and what else a goroutine remembers.
LEMMA NewPlan ==
    ASSUME NEW g, Shape(g), NEW q
    PROVE  /\ Shape([g EXCEPT !.plan = q]) /\ [g EXCEPT !.plan = q].plan = q
           /\ [g EXCEPT !.plan = q].op = g.op /\ [g EXCEPT !.plan = q].read = g.read
           /\ [g EXCEPT !.plan = q].gen = g.gen /\ [g EXCEPT !.plan = q].clean = g.clean
           /\ [g EXCEPT !.plan = q].failed = g.failed
<1>1. Fields = {"op", "read", "gen", "plan", "failed", "clean"}
  BY DEF Fields, NoJob
<1>2. QED
  BY <1>1 DEF Shape

\* g2 is how g goes on after this answer to x.
Goes(g, g2, x, answer) ==
    /\ Shape(g2)
    /\ g2.op = g.op /\ g2.read = g.read /\ g2.gen = g.gen /\ g2.clean = g.clean
    /\ Accepts(x, answer) => g2.plan = Tail(g.plan) /\ g2.failed = g.failed
    /\ ~ Accepts(x, answer) =>
         IF x.mode = "sync" /\ x.what = "chain" /\ answer = "already_exists"
         THEN g2.plan = <<Step("update", "chain", x.hop, "sync")>> \o Tail(g.plan)
              /\ g2.failed = g.failed
         ELSE /\ g2.failed = TRUE
              /\ g2.plan = IF x.mode = "build" /\ x.hop # Last THEN Cleanup("try") ELSE <<>>

LEMMA AdvancedPlan ==
    ASSUME NEW g, Shape(g), NEW x, NEW answer PROVE Goes(g, Advanced(g, x, answer), x, answer)
<1> DEFINE g2 == Advanced(g, x, answer)
           Updates == x.mode = "sync" /\ x.what = "chain" /\ answer = "already_exists"
           t == Tail(g.plan)
           u == <<Step("update", "chain", x.hop, "sync")>> \o t
           Takes == x.mode = "build" /\ x.hop # Last
<1>0. Fields = {"op", "read", "gen", "plan", "failed", "clean"}
  BY DEF Fields, NoJob
<1>1. CASE Accepts(x, answer)
  <2>1. g2 = [g EXCEPT !.plan = t]
    BY <1>1 DEF Advanced
  <2> HIDE DEF t
  <2>2. Shape(g2) /\ g2.plan = t /\ g2.failed = g.failed
        /\ g2.op = g.op /\ g2.read = g.read /\ g2.gen = g.gen /\ g2.clean = g.clean
    BY <2>1, NewPlan
  <2>3. QED
    BY <1>1, <2>2 DEF t, Goes
<1>2. CASE ~ Accepts(x, answer) /\ Updates
  <2>1. g2 = [g EXCEPT !.plan = u]
    BY <1>2 DEF Advanced
  <2> HIDE DEF u
  <2>2. Shape(g2) /\ g2.plan = u /\ g2.failed = g.failed
        /\ g2.op = g.op /\ g2.read = g.read /\ g2.gen = g.gen /\ g2.clean = g.clean
    BY <2>1, NewPlan
  <2>3. QED
    BY <1>2, <2>2 DEF u, Goes
<1>3. CASE ~ Accepts(x, answer) /\ ~ Updates /\ Takes
  <2>1. g2 = [g EXCEPT !.plan = Cleanup("try"), !.failed = TRUE]
    BY <1>3 DEF Advanced
  <2>2. Shape(g2) /\ g2.plan = Cleanup("try") /\ g2.failed = TRUE
        /\ g2.op = g.op /\ g2.read = g.read /\ g2.gen = g.gen /\ g2.clean = g.clean
    BY <2>1, <1>0 DEF Shape
  <2>3. QED
    BY <1>3, <2>2 DEF Goes
<1>4. CASE ~ Accepts(x, answer) /\ ~ Updates /\ ~ Takes
  <2>1. g2 = [g EXCEPT !.plan = <<>>, !.failed = TRUE]
    BY <1>4 DEF Advanced
  <2>2. Shape(g2) /\ g2.plan = <<>> /\ g2.failed = TRUE
        /\ g2.op = g.op /\ g2.read = g.read /\ g2.gen = g.gen /\ g2.clean = g.clean
    BY <2>1, <1>0 DEF Shape
  <2>3. QED
    BY <1>4, <2>2 DEF Goes
<1>5. QED
  BY <1>1, <1>2, <1>3, <1>4

LEMMA AdvancedOK ==
    ASSUME NEW g, JobOK(g), g # NoJob, g.plan # <<>>, NEW x, x = Head(g.plan),
           NEW answer, answer = "already_exists" => x.cmd = "add",
           NEW g2, Goes(g, g2, x, answer)
    PROVE  JobOK(g2)
<1>1. /\ Shape(g) /\ g.plan \in Seq(AnyStep) /\ g.op # "idle" /\ x \in AnyStep
      /\ g.failed \in BOOLEAN
  <2>1. Shape(g) /\ g.plan \in Seq(AnyStep) /\ g.op # "idle" /\ g.failed \in BOOLEAN
    BY DEF JobOK
  <2>2. QED
    BY <2>1, HeadTail
<1> DEFINE u == Step("update", "chain", x.hop, "sync")
<1>2. x.what = "chain" => u \in AnyStep
  BY <1>1, Commands DEF AnyStep, Step, Modes
<1>3. Tail(g.plan) \in Seq(AnyStep) /\ \A i \in 1..Len(Tail(g.plan)) :
        \E k \in 1..Len(g.plan) : Tail(g.plan)[i] = g.plan[k]
  BY <1>1, HeadTail
<1>4. g2.plan \in Seq(AnyStep) /\ g2.failed \in BOOLEAN
  <2>1. CASE Accepts(x, answer)
    BY <1>1, <1>3, <2>1 DEF Goes
  <2>2. CASE ~ Accepts(x, answer) /\ x.mode = "sync" /\ x.what = "chain"
             /\ answer = "already_exists"
    <3>1. <<u>> \o Tail(g.plan) \in Seq(AnyStep)
      BY <1>2, <1>3, <2>2, InFront
    <3>2. g2.plan = <<u>> \o Tail(g.plan) /\ g2.failed = g.failed
      BY <1>1, <2>2 DEF Goes
    <3>3. QED
      BY <1>1, <3>1, <3>2
  <2>3. CASE ~ Accepts(x, answer) /\ ~ (x.mode = "sync" /\ x.what = "chain"
             /\ answer = "already_exists")
    <3>1. g2.failed = TRUE /\ (g2.plan = Cleanup("try") \/ g2.plan = <<>>)
      BY <1>1, <2>3 DEF Goes
    <3>2. Cleanup("try") \in Seq(AnyStep) /\ <<>> \in Seq(AnyStep)
      BY CleanupSteps DEF Modes
    <3>3. QED
      BY <3>1, <3>2
  <2>4. QED
    BY <2>1, <2>2, <2>3
<1>5. g2.gen \in Gens \/ \A i \in 1..Len(g2.plan) : g2.plan[i].cmd \in {"delete", "pause"}
  <2>1. SUFFICES ASSUME g2.gen \notin Gens, NEW i \in 1..Len(g2.plan)
                 PROVE  g2.plan[i].cmd \in {"delete", "pause"}
    OBVIOUS
  <2>2. \A k \in 1..Len(g.plan) : g.plan[k].cmd \in {"delete", "pause"}
    BY <1>1, <2>1 DEF Goes, JobOK
  <2>3. CASE Accepts(x, answer)
    <3>1. g2.plan = Tail(g.plan)
      BY <2>3 DEF Goes
    <3>2. PICK k \in 1..Len(g.plan) : Tail(g.plan)[i] = g.plan[k]
      BY <1>3, <2>1, <3>1
    <3>3. QED
      BY <2>2, <3>1, <3>2
  <2>4. CASE ~ Accepts(x, answer) /\ x.mode = "sync" /\ x.what = "chain"
             /\ answer = "already_exists"
    <3>1. 1 \in 1..Len(g.plan) /\ g.plan[1] = x
      BY <1>1, HeadTail
    <3>2. QED
      BY <2>2, <2>4, <3>1
  <2>5. CASE ~ Accepts(x, answer) /\ ~ (x.mode = "sync" /\ x.what = "chain"
             /\ answer = "already_exists")
    <3>1. g2.plan = Cleanup("try") \/ g2.plan = <<>>
      BY <1>1, <2>5 DEF Goes
    <3>2. \A k \in 1..Len(Cleanup("try")) : Cleanup("try")[k].cmd = "delete"
      BY CleanupSteps DEF Modes, Taking
    <3>3. QED
      BY <2>1, <3>1, <3>2
  <2>6. QED
    BY <2>3, <2>4, <2>5
<1>6. QED
  BY <1>1, <1>4, <1>5 DEF Goes, JobOK

-----------------------------------------------------------------------------
(* Types.                                                                   *)

LEMMA TypeOKHolds == ASSUME Types PROVE TypeOK
<1>1. row.status \in {"unborn", "active", "paused", "error", "gone"} /\ row.gen \in {0} \cup Gens
  BY DEF Types, RowOK, Statuses, Contents
<1>2. svc \in [Hops -> [gen : {0} \cup Gens, open : BOOLEAN]]
      /\ \A h \in Hops : svc[h].gen = 0 => ~ svc[h].open
  BY DEF Types, Nodes, ServiceRow
<1>3. chain \in [Hops -> {0} \cup Gens] /\ chain[Last] = 0
  BY DEF Types, Nodes, Contents
<1>4. QED
  BY <1>1, <1>2, <1>3 DEF Types, TypeOK

LEMMA NoJobOK == JobOK(NoJob)
<1>1. Shape(NoJob)
  BY DEF NoJob, Shape, Fields
<1>2. NoJob.plan = <<>> /\ Len(<<>>) = 0 /\ <<>> \in Seq(AnyStep)
  BY DEF NoJob
<1>3. NoJob.read \in [status : Statuses \cup {"saved"}, gen : Contents] /\ NoJob.gen \in Contents
  BY DEF NoJob, Unborn, Statuses, Contents
<1>4. NoJob.op = "idle" /\ NoJob.failed \in BOOLEAN /\ NoJob.clean \in BOOLEAN
  BY DEF NoJob
<1>5. QED
  BY <1>1, <1>2, <1>3, <1>4 DEF JobOK

LEMMA InitTypes == ASSUME Init PROVE Types
<1>1. RowOK(row)
  BY DEF Init, RowOK, Unborn, Live, Statuses, Contents
<1>2. Nodes(svc, chain)
  <2>1. Last \in Hops
    BY RouteAssumption DEF Hops
  <2>2. svc \in [Hops -> ServiceRow]
    BY ServiceRows DEF Init
  <2>3. QED
    BY <2>1, <2>2 DEF Init, Nodes, Contents
<1>3. JobsOK(job)
  <2>1. \A j \in Runners : job[j] = NoJob /\ job[j].op = "idle"
    BY DEF Init, NoJob
  <2>2. Jobs \subseteq Runners /\ Hops \subseteq Runners
    BY DEF Runners
  <2>3. QED
    BY <2>1, <2>2, NoJobOK DEF Init, JobsOK
<1>4. faults \in 0..MaxFaults
  BY RouteAssumption DEF Init
<1>5. online \subseteq Hops /\ due \subseteq Hops /\ disturbed \in BOOLEAN
  BY RouteAssumption DEF Init
<1>6. QED
  BY <1>1, <1>2, <1>3, <1>4, <1>5 DEF Types

\* A goroutine that is busy, and one that is idle.
LEMMA BusyOnes ==
    ASSUME JobsOK(job)
    PROVE  /\ \A j \in Runners : job[j] # NoJob <=> job[j].op # "idle"
           /\ \A j \in Jobs : j \in Runners /\ (job[j] # NoJob <=> job[j].op \in JobOps)
           /\ \A h \in Hops : h \in Runners /\ (job[h] # NoJob <=> job[h].op \in SyncOps)
<1>1. NoJob.op = "idle"
  BY DEF NoJob
<1>2. ASSUME NEW j \in Runners PROVE job[j] # NoJob <=> job[j].op # "idle"
  BY <1>1 DEF JobsOK, JobOK
<1>3. Jobs \subseteq Runners /\ Hops \subseteq Runners
  BY DEF Runners
<1>4. QED
  BY <1>2, <1>3 DEF JobsOK, JobOps, SyncOps, AllOps

LEMMA NewJobs ==
    ASSUME NEW jobs, JobsOK(jobs), NEW j \in Runners, NEW g, JobOK(g),
           j \in Jobs => g.op \in {"idle"} \cup JobOps,
           j \in Hops => g.op \in {"idle"} \cup SyncOps
    PROVE  JobsOK([jobs EXCEPT ![j] = g])
<1>1. Jobs \subseteq Runners /\ Hops \subseteq Runners
  BY DEF Runners
<1>2. QED
  BY <1>1 DEF JobsOK

\* What overlaps is no more alone.
LEMMA Overlaps ==
    ASSUME JobsOK(job)
    PROVE  /\ JobsOK(Overlapped)
           /\ \A j \in Runners : /\ Overlapped[j] = NoJob <=> job[j] = NoJob
                                 /\ Overlapped[j].clean => Overlapped[j] = NoJob
                                 /\ Overlapped[j].op = job[j].op
<1>1. Fields = {"op", "read", "gen", "plan", "failed", "clean"} /\ NoJob.op = "idle"
  BY DEF Fields, NoJob
<1>2. ASSUME NEW j \in Runners, job[j] # NoJob
      PROVE  /\ Overlapped[j].op = job[j].op /\ Overlapped[j].plan = job[j].plan
             /\ Overlapped[j].gen = job[j].gen /\ Overlapped[j].failed = job[j].failed
             /\ Overlapped[j].clean = FALSE /\ Shape(Overlapped[j])
             /\ Overlapped[j].read = job[j].read
  <2>1. Overlapped[j] = [job[j] EXCEPT !.clean = FALSE]
    BY <1>2 DEF Overlapped, Busy
  <2>2. Shape(job[j])
    BY DEF JobsOK, JobOK
  <2>3. QED
    BY <1>1, <2>1, <2>2 DEF Shape
<1>3. ASSUME NEW j \in Runners, job[j] = NoJob PROVE Overlapped[j] = job[j]
  BY <1>3 DEF Overlapped, Busy
<1>4. \A j \in Runners : /\ Overlapped[j] = NoJob <=> job[j] = NoJob
                         /\ Overlapped[j].clean => Overlapped[j] = NoJob
                         /\ Overlapped[j].op = job[j].op
  BY <1>1, <1>2, <1>3, BusyOnes
<1>5. ASSUME NEW j \in Runners PROVE JobOK(Overlapped[j])
  <2>1. CASE job[j] = NoJob
    BY <1>3, <2>1, NoJobOK
  <2>2. CASE job[j] # NoJob
    <3>1. JobOK(job[j]) /\ job[j].op # "idle"
      BY <2>2, BusyOnes DEF JobsOK
    <3>2. QED
      BY <1>2, <2>2, <3>1 DEF JobOK
  <2>3. QED
    BY <2>1, <2>2
<1>6. Overlapped = [j \in Runners |-> Overlapped[j]]
  BY DEF Overlapped
<1>7. JobsOK(Overlapped)
  <2>1. Jobs \subseteq Runners /\ Hops \subseteq Runners
    BY DEF Runners
  <2>2. QED
    BY <1>4, <1>5, <1>6, <2>1 DEF JobsOK
<1>8. QED
  BY <1>4, <1>7

\* A goroutine begins.
LEMMA Begins1 ==
    ASSUME Types, NEW j \in Runners, NEW op, NEW g, NEW plan, Begin(j, op, g, plan),
           g \in Contents, plan \in Seq(AnyStep),
           g \in Gens \/ \A i \in 1..Len(plan) : plan[i].cmd \in {"delete", "pause"},
           j \in Jobs => op \in JobOps, j \in Hops => op \in SyncOps
    PROVE  /\ JobsOK(job)' /\ job'[j] # NoJob
           /\ job'[j].op = op /\ job'[j].read = row /\ job'[j].gen = g /\ job'[j].plan = plan
           /\ job'[j].failed = FALSE /\ (job'[j].clean <=> Busy = {})
           /\ \A k \in Runners \ {j} : /\ job'[k] = Overlapped[k]
                                       /\ job'[k] = NoJob <=> job[k] = NoJob
                                       /\ job'[k].clean => job'[k] = NoJob
<1> DEFINE b == (Busy = {})
           r == [op |-> op, read |-> row, gen |-> g, plan |-> plan, failed |-> FALSE, clean |-> b]
<1>1. /\ r.op = op /\ r.read = row /\ r.gen = g /\ r.plan = plan
      /\ r.failed = FALSE /\ r.clean = b /\ b \in BOOLEAN
  OBVIOUS
<1>2. job' = [Overlapped EXCEPT ![j] = r]
  BY DEF Begin
<1>3. Shape(r)
  BY DEF Shape, Fields, NoJob
<1> HIDE DEF r
<1>4. op \in JobOps \cup SyncOps /\ op # "idle"
  BY DEF Runners, JobOps, SyncOps, AllOps
<1>5. JobOK(r)
  <2>1. r.op \in {"idle"} \cup JobOps \cup SyncOps /\ r.op # "idle"
    BY <1>1, <1>4
  <2>2. r.failed \in BOOLEAN /\ r.clean \in BOOLEAN
    BY <1>1
  <2>3. r.gen \in Gens \/ \A i \in 1..Len(r.plan) : r.plan[i].cmd \in {"delete", "pause"}
    BY <1>1
  <2>4. r.gen \in Contents /\ r.plan \in Seq(AnyStep)
    BY <1>1
  <2>5. r.read \in [status : Statuses \cup {"saved"}, gen : Contents]
    BY <1>1 DEF Types, RowOK
  <2>6. QED
    BY <1>3, <2>1, <2>2, <2>3, <2>4, <2>5 DEF JobOK
<1>6. JobsOK(Overlapped)
  BY Overlaps DEF Types
<1>7. JobsOK(job')
  BY <1>1, <1>2, <1>5, <1>6, NewJobs
<1>8. job'[j] = r /\ \A k \in Runners \ {j} : job'[k] = Overlapped[k]
  BY <1>2, <1>6 DEF JobsOK
<1>9. r # NoJob
  BY <1>1, <1>4 DEF NoJob
<1>10. \A k \in Runners \ {j} : /\ job'[k] = NoJob <=> job[k] = NoJob
                                /\ job'[k].clean => job'[k] = NoJob
  BY <1>8, Overlaps DEF Types
<1>11. QED
  BY <1>1, <1>7, <1>8, <1>9, <1>10 DEF JobsOK, b

LEMMA RowsSet ==
    ASSUME RowOK(row), NEW status \in Live, NEW gen, gen \in Gens \/ (~ Exists /\ gen \in Contents),
           SetRow(status, gen)
    PROVE  RowOK(row)'
<1>1. CASE Exists
  <2>1. row' = [status |-> status, gen |-> gen] /\ gen \in Gens
    BY <1>1 DEF SetRow
  <2>2. row'.status = status /\ row'.gen = gen
    BY <2>1
  <2>3. status \in Statuses /\ status # "unborn" /\ status # "gone" /\ gen \in Contents
    BY <2>1 DEF Live, Statuses, Contents
  <2>4. QED
    BY <2>1, <2>2, <2>3 DEF RowOK
<1>2. CASE ~ Exists
  BY <1>2 DEF SetRow, RowOK
<1>3. QED
  BY <1>1, <1>2

LEMMA ExistsLive == ASSUME RowOK(row) PROVE Exists <=> row.status \in Live
BY DEF Exists, Live

LEMMA StartJobTypes ==
    ASSUME Types, NEW j \in Jobs, NEW op \in Ops, NEW g \in Gens, StartJob(j, op, g)
    PROVE  Types'
<1>1. op \in AllOps \ {"report"} /\ j \in Runners /\ j \notin Hops
  BY RouteAssumption DEF StartJob, Begins, AllOps, Runners
<1>2. PlanOf(op) \in Seq(AnyStep)
  BY <1>1, PlanTypes
<1>3. Begin(j, op, g, PlanOf(op)) /\ g \in Contents
  BY DEF StartJob, Contents
<1>4. JobsOK(job)'
  BY <1>1, <1>2, <1>3, Begins1 DEF JobOps
<1>5. RowOK(row)'
  <2>1. CASE op = "create"
    <3>1. row' = [status |-> "active", gen |-> g]
      BY <2>1 DEF StartJob
    <3>2. QED
      BY <3>1 DEF RowOK, Statuses, Contents, Live
  <2>2. CASE op # "create"
    BY <2>2 DEF StartJob, Types
  <2>3. QED
    BY <2>1, <2>2
<1>6. /\ svc' = svc /\ chain' = chain /\ online' = online /\ due' = due /\ faults' = faults
      /\ disturbed' \in BOOLEAN
  BY DEF StartJob, Types
<1>7. QED
  BY <1>4, <1>5, <1>6 DEF Types

LEMMA StartReportTypes ==
    ASSUME Types, NEW j \in Jobs, NEW h \in Hops, StartReport(j, h)
    PROVE  Types'
<1> DEFINE a == Step("delete", "svc", h, "best")
           b == Step("delete", "chain", h, "best")
           p == IF svc[h] # None THEN <<a>> ELSE <<>>
           q == IF chain[h] # 0 THEN <<b>> ELSE <<>>
<1>1. a \in AnyStep /\ a.cmd = "delete" /\ b.cmd = "delete"
  BY DEF AnyStep, Step, Modes
<1>2. chain[h] # 0 => b \in AnyStep
  <2>1. chain[h] # 0 => h \in 1..(Last - 1)
    BY RouteAssumption DEF Types, Nodes, Hops
  <2>2. QED
    BY <2>1 DEF AnyStep, Step, Modes
<1> HIDE DEF a, b
<1>3. p \in Seq(AnyStep) /\ q \in Seq(AnyStep)
      /\ (\A i \in 1..Len(p) : p[i].cmd = "delete") /\ (\A i \in 1..Len(q) : q[i].cmd = "delete")
  BY <1>1, <1>2
<1> HIDE DEF p, q
<1>4. p \o q \in Seq(AnyStep) /\ \A i \in 1..Len(p \o q) : (p \o q)[i].cmd = "delete"
  <2>1. /\ p \o q \in Seq(AnyStep) /\ Len(p \o q) = Len(p) + Len(q)
        /\ Len(p) \in Nat /\ Len(q) \in Nat
        /\ \A i \in 1..Len(p) : (p \o q)[i] = p[i]
        /\ \A i \in 1..Len(q) : (p \o q)[Len(p) + i] = q[i]
    BY <1>3, Joined
  <2>2. ASSUME NEW i \in 1..Len(p \o q) PROVE (p \o q)[i].cmd = "delete"
    <3>1. CASE i <= Len(p)
      BY <1>3, <2>1, <3>1
    <3>2. CASE i > Len(p)
      <4>1. i - Len(p) \in 1..Len(q) /\ Len(p) + (i - Len(p)) = i
        BY <2>1, <3>2
      <4>2. (p \o q)[i] = q[i - Len(p)]
        BY <2>1, <4>1
      <4>3. QED
        BY <1>3, <4>1, <4>2
    <3>3. QED
      BY <2>1, <3>1, <3>2
  <2>3. QED
    BY <2>1, <2>2
<1>5. Begin(j, "report", 0, p \o q)
  BY DEF StartReport, a, b, p, q
<1>6. j \in Runners /\ j \notin Hops /\ "report" \in JobOps /\ 0 \in Contents
  BY RouteAssumption DEF Runners, JobOps, AllOps, Contents
<1>7. JobsOK(job)'
  BY <1>4, <1>5, <1>6, Begins1
<1>8. /\ row' = row /\ svc' = svc /\ chain' = chain /\ online' = online /\ due' = due
      /\ faults' = faults /\ disturbed' \in BOOLEAN
  BY DEF StartReport, Types
<1>9. QED
  BY <1>7, <1>8 DEF Types

-----------------------------------------------------------------------------
(* A command and its outcomes.                                              *)

\* The node answers, ...
Settled(j, x) ==
    /\ svc' = SvcAfter(svc, chain, x, job[j].gen)
    /\ chain' = ChainAfter(svc, chain, x, job[j].gen)
    /\ Goes(job[j], job'[j], x, Did(svc, chain, x, job[j].gen).answer)
    /\ disturbed' = disturbed

\* ... a deployment is refused, ...
Refused(j, x) ==
    /\ svc' = svc /\ chain' = chain /\ disturbed' = disturbed
    /\ x.mode = "build"
    /\ job'[j].clean = job[j].clean /\ job'[j].failed = TRUE
    /\ job'[j].plan = IF x.hop # Last THEN Cleanup("try") ELSE <<>>

\* ... or nobody knows.
Lost(j) == disturbed' /\ ~ job'[j].clean

\* In any case:
Moved(j) ==
    /\ job' = [job EXCEPT ![j] = job'[j]]
    /\ JobOK(job'[j])
    /\ job'[j].op = job[j].op /\ job'[j].read = job[j].read /\ job'[j].gen = job[j].gen
    /\ job'[j].clean => job[j].clean

LEMMA BusyStep ==
    ASSUME Types, NEW j \in Runners, job[j].plan # <<>>, NEW x, x = Head(job[j].plan)
    PROVE  /\ job[j] # NoJob /\ JobOK(job[j]) /\ Shape(job[j])
           /\ job[j].plan \in Seq(AnyStep) /\ x \in AnyStep
           /\ job[j].gen \in Gens \/ x.cmd \in {"delete", "pause"}
           /\ job[j].gen \in Contents /\ Tail(job[j].plan) \in Seq(AnyStep)
<1>1. NoJob.plan = <<>>
  BY DEF NoJob
<1>2. JobOK(job[j])
  BY DEF Types, JobsOK
<1>3. job[j].plan \in Seq(AnyStep) /\ Shape(job[j]) /\ job[j].gen \in Contents
  BY <1>2 DEF JobOK
<1>4. x \in AnyStep /\ Tail(job[j].plan) \in Seq(AnyStep)
      /\ 1 \in 1..Len(job[j].plan) /\ x = job[j].plan[1]
  BY <1>3, HeadTail
<1>5. job[j].gen \in Gens \/ x.cmd \in {"delete", "pause"}
  BY <1>2, <1>4 DEF JobOK
<1>6. QED
  BY <1>1, <1>2, <1>3, <1>4, <1>5

\* Nobody adds what the node says exists but who adds.
LEMMA AddExists ==
    ASSUME NEW s, NEW c, Nodes(s, c), NEW x \in AnyStep, x.cmd # "save",
           NEW g, g \in Gens \/ x.cmd \in {"delete", "pause"},
           Did(s, c, x, g).answer = "already_exists"
    PROVE  x.cmd = "add"
<1>1. CASE x.what = "svc"
  BY <1>1, Commands, ServiceEffect
<1>2. CASE x.what = "chain"
  BY <1>2, Commands, ChainEffect
<1>3. QED
  BY <1>1, <1>2, Commands

LEMMA AnsweredIs ==
    ASSUME Types, NEW j \in Runners, job[j].plan # <<>>, NEW x, x = Head(job[j].plan),
           x.cmd # "save", Answered(j, x)
    PROVE  Moved(j) /\ Settled(j, x)
<1> DEFINE g == job[j]
           d == Did(svc, chain, x, g.gen)
<1>1. JobOK(g) /\ g # NoJob /\ Shape(g) /\ x \in AnyStep
      /\ (g.gen \in Gens \/ x.cmd \in {"delete", "pause"})
  BY BusyStep
<1>2. Execute(x, g.gen) = d
  BY DEF Execute, Did
<1>3. svc' = SvcAfter(svc, chain, x, g.gen) /\ chain' = ChainAfter(svc, chain, x, g.gen)
      /\ job' = [job EXCEPT ![j] = Advance(j, x, d.answer)] /\ disturbed' = disturbed
  BY <1>2 DEF Answered, SvcAfter, ChainAfter
<1> HIDE DEF g, d
<1>4. job'[j] = Advanced(g, x, d.answer)
  BY <1>3, AdvanceIs DEF Types, JobsOK, g
<1>5. job' = [job EXCEPT ![j] = job'[j]]
  BY <1>3, <1>4, AdvanceIs DEF g
<1>6. Goes(g, job'[j], x, d.answer)
  BY <1>1, <1>4, AdvancedPlan
<1>7. d.answer = "already_exists" => x.cmd = "add"
  <2>1. Nodes(svc, chain)
    BY DEF Types
  <2>2. QED
    BY <1>1, <2>1, AddExists DEF d
<1>8. g.plan # <<>> /\ x = Head(g.plan)
  BY DEF g
<1>9. JobOK(job'[j])
  BY <1>1, <1>6, <1>7, <1>8, AdvancedOK
<1>10. QED
  BY <1>3, <1>5, <1>6, <1>9 DEF Moved, Settled, Goes, g, d

LEMMA NewClean ==
    ASSUME NEW g, Shape(g), NEW b
    PROVE  /\ Shape([g EXCEPT !.clean = b]) /\ [g EXCEPT !.clean = b].plan = g.plan
           /\ [g EXCEPT !.clean = b].op = g.op /\ [g EXCEPT !.clean = b].read = g.read
           /\ [g EXCEPT !.clean = b].gen = g.gen /\ [g EXCEPT !.clean = b].failed = g.failed
           /\ [g EXCEPT !.clean = b].clean = b
<1>1. Fields = {"op", "read", "gen", "plan", "failed", "clean"}
  BY DEF Fields, NoJob
<1>2. QED
  BY <1>1 DEF Shape

LEMMA StumbleIs ==
    ASSUME Types, NEW j \in Runners, job[j].plan # <<>>, NEW x, x = Head(job[j].plan),
           x.cmd # "save", NEW answer \in {"refused", "timeout", "node_offline"},
           NEW known \in BOOLEAN, Stumble(j, x, answer, known)
    PROVE  /\ Moved(j) /\ disturbed' = (disturbed \/ ~ known)
           /\ ~ known => Lost(j)
           /\ known /\ x.mode = "build" =>
                /\ job'[j].clean = job[j].clean /\ job'[j].failed = TRUE
                /\ job'[j].plan = IF x.hop # Last THEN Cleanup("try") ELSE <<>>
<1> DEFINE g == job[j]
           a == Advanced(g, x, answer)
           b == (a.clean /\ known)
           h == [a EXCEPT !.clean = b]
<1>1. JobOK(g) /\ g # NoJob /\ Shape(g) /\ x \in AnyStep /\ g.clean \in BOOLEAN
  BY BusyStep DEF JobOK
<1>2. Goes(g, a, x, answer)
  BY <1>1, AdvancedPlan
<1>3. job' = [job EXCEPT ![j] = h] /\ disturbed' = (disturbed \/ ~ known)
  BY AdvanceIs DEF Stumble
<1>4. Shape(a) /\ a.clean = g.clean /\ a.op = g.op /\ a.read = g.read /\ a.gen = g.gen
  BY <1>2 DEF Goes
<1>5. JobOK(a)
  <2>1. answer # "already_exists" /\ g.plan # <<>> /\ x = Head(g.plan)
    OBVIOUS
  <2> HIDE DEF g, a
  <2>2. QED
    BY <1>1, <1>2, <2>1, AdvancedOK
<1> HIDE DEF a
<1>6. /\ Shape(h) /\ h.plan = a.plan /\ h.op = a.op /\ h.read = a.read /\ h.gen = a.gen
      /\ h.failed = a.failed /\ h.clean = b
  <2> HIDE DEF b
  <2>1. QED
    BY <1>4, NewClean
<1>7. b \in BOOLEAN /\ (b => g.clean) /\ (known => b = g.clean) /\ (~ known => ~ b)
  BY <1>1, <1>4
<1> HIDE DEF b, h
<1>8. a.op # "idle"
  BY <1>1, <1>4 DEF JobOK
<1>9. JobOK(h)
  BY <1>5, <1>6, <1>7, <1>8 DEF JobOK
<1>10. job'[j] = h
  BY <1>3 DEF Types, JobsOK
<1>11. Moved(j)
  BY <1>3, <1>4, <1>6, <1>7, <1>9, <1>10 DEF Moved
<1>12. ASSUME ~ known PROVE Lost(j)
  BY <1>3, <1>6, <1>7, <1>10, <1>12 DEF Lost
<1>13. ASSUME known, x.mode = "build"
       PROVE  /\ h.clean = job[j].clean /\ h.failed = TRUE
              /\ h.plan = IF x.hop # Last THEN Cleanup("try") ELSE <<>>
  <2>1. ~ Accepts(x, answer)
    BY <1>13 DEF Accepts
  <2>2. QED
    BY <1>2, <1>6, <1>7, <1>13, <2>1 DEF Goes
<1>14. QED
  BY <1>3, <1>10, <1>11, <1>12, <1>13

\* Who takes back services passes over a node that is away.
LEMMA PassedOver ==
    ASSUME Types, NEW j \in Runners, job[j].plan # <<>>, NEW x, x = Head(job[j].plan),
           x.cmd # "save", Unreachable(j, x), Cleans(x)
    PROVE  Moved(j) /\ Lost(j)
<1> DEFINE g == job[j]
           h == [g EXCEPT !.plan = Tail(g.plan), !.clean = FALSE]
<1>1. JobOK(g) /\ g # NoJob /\ Shape(g) /\ Tail(g.plan) \in Seq(AnyStep)
      /\ g.plan \in Seq(AnyStep) /\ g.op # "idle"
  BY BusyStep DEF JobOK
<1>2. job' = [job EXCEPT ![j] = h] /\ disturbed'
  BY DEF Unreachable, Types, JobsOK
<1>3. Fields = {"op", "read", "gen", "plan", "failed", "clean"}
  BY DEF Fields, NoJob
<1>4. /\ Shape(h) /\ h.plan = Tail(g.plan) /\ h.op = g.op /\ h.read = g.read
      /\ h.gen = g.gen /\ h.failed = g.failed /\ h.clean = FALSE
  BY <1>1, <1>3 DEF Shape
<1>5. \A i \in 1..Len(Tail(g.plan)) : \E k \in 1..Len(g.plan) : Tail(g.plan)[i] = g.plan[k]
  BY <1>1, HeadTail
<1> HIDE DEF g, h
<1>6. h.gen \in Gens \/ \A i \in 1..Len(h.plan) : h.plan[i].cmd \in {"delete", "pause"}
  BY <1>1, <1>4, <1>5 DEF JobOK
<1>7. JobOK(h)
  BY <1>1, <1>4, <1>6 DEF JobOK
<1>8. job'[j] = h
  BY <1>2 DEF Types, JobsOK
<1>9. QED
  BY <1>2, <1>4, <1>7, <1>8 DEF Moved, Lost, g

LEMMA FailsIs ==
    ASSUME Types, NEW j \in Runners, job[j].plan # <<>>, NEW x, x = Head(job[j].plan),
           x.cmd # "save", Fails(j, x)
    PROVE  /\ Moved(j) /\ Nodes(svc', chain') /\ faults' \in 0..MaxFaults
           /\ disturbed' \in BOOLEAN /\ (disturbed => disturbed')
           /\ Refused(j, x) \/ Lost(j)
<1> DEFINE s2 == SvcAfter(svc, chain, x, job[j].gen)
           c2 == ChainAfter(svc, chain, x, job[j].gen)
           e  == Execute(x, job[j].gen)
           Goal == /\ Moved(j) /\ Nodes(svc', chain') /\ faults' \in 0..MaxFaults
                   /\ disturbed' \in BOOLEAN /\ (disturbed => disturbed')
                   /\ Refused(j, x) \/ Lost(j)
<1> SUFFICES Goal
  OBVIOUS
<1>1. faults' \in 0..MaxFaults
  BY RouteAssumption DEF Fails, Fault, Types
<1>2. disturbed \in BOOLEAN /\ (x.mode = "build") \in BOOLEAN /\ Nodes(svc, chain)
  BY DEF Types
<1>3. Nodes(s2, c2)
  BY <1>2, BusyStep, Effect
<1>4. CASE Stumble(j, x, "refused", x.mode = "build") /\ UNCHANGED <<svc, chain>>
  <2>1. /\ Moved(j) /\ disturbed' = (disturbed \/ ~ (x.mode = "build"))
        /\ ~ (x.mode = "build") => Lost(j)
        /\ x.mode = "build" =>
             /\ job'[j].clean = job[j].clean /\ job'[j].failed = TRUE
             /\ job'[j].plan = IF x.hop # Last THEN Cleanup("try") ELSE <<>>
    BY <1>2, <1>4, StumbleIs
  <2>2. Nodes(svc', chain')
    BY <1>2, <1>4 DEF Nodes
  <2>3. CASE x.mode = "build"
    <3>1. disturbed' = disturbed /\ svc' = svc /\ chain' = chain
      BY <1>2, <1>4, <2>1, <2>3
    <3>2. Refused(j, x)
      BY <2>1, <2>3, <3>1 DEF Refused
    <3>3. QED
      BY <1>1, <1>2, <2>1, <2>2, <3>1, <3>2
  <2>4. CASE x.mode # "build"
    <3>1. disturbed' = TRUE /\ Lost(j)
      BY <2>1, <2>4
    <3>2. QED
      BY <1>1, <2>1, <2>2, <3>1
  <2>5. QED
    BY <2>3, <2>4
<1>5. ASSUME Stumble(j, x, "timeout", FALSE), Nodes(svc', chain') PROVE Goal
  <2>1. Moved(j) /\ disturbed' = (disturbed \/ ~ FALSE) /\ (~ FALSE => Lost(j))
    BY <1>5, StumbleIs
  <2>2. QED
    BY <1>1, <1>2, <1>5, <2>1
<1>6. CASE Stumble(j, x, "timeout", FALSE) /\ UNCHANGED <<svc, chain>>
  <2>1. Nodes(svc', chain')
    BY <1>2, <1>6 DEF Nodes
  <2> HIDE DEF Goal
  <2>2. QED
    BY <1>5, <1>6, <2>1, Zenon
<1>7. CASE /\ Stumble(j, x, "timeout", FALSE)
           /\ svc' = [svc EXCEPT ![x.hop] = e.svc]
           /\ chain' = [chain EXCEPT ![x.hop] = e.chain]
  <2>1. e = Did(svc, chain, x, job[j].gen)
    BY DEF Execute, Did
  <2>2. svc' = s2 /\ chain' = c2
    BY <1>7, <2>1 DEF SvcAfter, ChainAfter
  <2>3. Nodes(svc', chain')
    <3> HIDE DEF s2, c2
    <3>1. QED
      BY <1>3, <2>2
  <2> HIDE DEF Goal
  <2>4. QED
    BY <1>5, <1>7, <2>3, Zenon
<1>8. QED
  <2>1. \/ Stumble(j, x, "refused", x.mode = "build") /\ UNCHANGED <<svc, chain>>
        \/ Stumble(j, x, "timeout", FALSE) /\ UNCHANGED <<svc, chain>>
        \/ /\ Stumble(j, x, "timeout", FALSE)
           /\ svc' = [svc EXCEPT ![x.hop] = e.svc]
           /\ chain' = [chain EXCEPT ![x.hop] = e.chain]
    BY Zenon DEF Fails
  <2> HIDE DEF Goal, e
  <2>2. QED
    BY <1>4, <1>6, <1>7, <2>1, Zenon

LEMMA CommandIs ==
    ASSUME Types, NEW j \in Runners, NEW x, x = Head(job[j].plan), Command(j)
    PROVE  /\ job[j].plan # <<>> /\ x.cmd # "save"
           /\ Moved(j) /\ Nodes(svc', chain') /\ faults' \in 0..MaxFaults
           /\ row' = row /\ online' = online /\ due' = due
           /\ disturbed' \in BOOLEAN /\ (disturbed => disturbed')
           /\ Settled(j, x) \/ Refused(j, x) \/ Lost(j)
<1>1. job[j].plan # <<>> /\ x.cmd # "save" /\ row' = row /\ online' = online /\ due' = due
      /\ (Answered(j, x) \/ Fails(j, x) \/ Unreachable(j, x))
  BY DEF Command
<1>2. disturbed \in BOOLEAN /\ (x.mode = "build") \in BOOLEAN /\ Nodes(svc, chain)
      /\ faults \in 0..MaxFaults
  BY DEF Types
<1>3. CASE Answered(j, x)
  <2>1. Moved(j) /\ Settled(j, x)
    BY <1>1, <1>3, AnsweredIs
  <2>2. Nodes(svc', chain')
    BY <1>1, <1>2, <2>1, BusyStep, Effect DEF Settled
  <2>3. faults' = faults /\ disturbed' = disturbed
    BY <1>3 DEF Answered
  <2>4. QED
    BY <1>1, <1>2, <2>1, <2>2, <2>3
<1>4. CASE Fails(j, x)
  BY <1>1, <1>4, FailsIs
<1>5. CASE Unreachable(j, x)
  <2>1. svc' = svc /\ chain' = chain /\ faults' = faults
    BY <1>5 DEF Unreachable
  <2>2. CASE Cleans(x)
    <3>1. Moved(j) /\ Lost(j)
      BY <1>1, <1>5, <2>2, PassedOver
    <3>2. disturbed' = TRUE
      BY <1>5, <2>2 DEF Unreachable
    <3>3. QED
      BY <1>1, <1>2, <2>1, <3>1, <3>2
  <2>3. CASE ~ Cleans(x)
    <3>1. Stumble(j, x, "node_offline", x.mode = "build")
      BY <1>5, <2>3 DEF Unreachable
    <3>2. /\ Moved(j) /\ disturbed' = (disturbed \/ ~ (x.mode = "build"))
          /\ ~ (x.mode = "build") => Lost(j)
          /\ x.mode = "build" =>
               /\ job'[j].clean = job[j].clean /\ job'[j].failed = TRUE
               /\ job'[j].plan = IF x.hop # Last THEN Cleanup("try") ELSE <<>>
      BY <1>1, <1>2, <3>1, StumbleIs
    <3>3. CASE x.mode = "build"
      <4>1. disturbed' = disturbed
        BY <1>2, <3>2, <3>3
      <4>2. Refused(j, x)
        BY <2>1, <3>2, <3>3, <4>1 DEF Refused
      <4>3. QED
        BY <1>1, <1>2, <2>1, <3>2, <4>1, <4>2
    <3>4. CASE x.mode # "build"
      BY <1>1, <1>2, <2>1, <3>2, <3>4
    <3>5. QED
      BY <3>3, <3>4
  <2>4. QED
    BY <2>2, <2>3
<1>6. QED
  BY <1>1, <1>3, <1>4, <1>5

LEMMA MovedTypes ==
    ASSUME JobsOK(job), NEW j \in Runners, job[j] # NoJob, Moved(j)
    PROVE  JobsOK(job)' /\ job'[j] # NoJob /\ Busy' = Busy
           /\ \A k \in Runners \ {j} : job'[k] = job[k]
<1>1. /\ j \in Jobs => job'[j].op \in {"idle"} \cup JobOps
      /\ j \in Hops => job'[j].op \in {"idle"} \cup SyncOps
  BY DEF Moved, JobsOK
<1>2. JobsOK(job')
  <2>1. JobsOK([job EXCEPT ![j] = job'[j]])
    BY <1>1, NewJobs DEF Moved
  <2>2. QED
    BY <2>1 DEF Moved
<1>3. job'[j] # NoJob
  <2>1. job[j].op # "idle" /\ NoJob.op = "idle"
    BY BusyOnes DEF NoJob
  <2>2. QED
    BY <2>1 DEF Moved
<1>4. \A k \in Runners \ {j} : job'[k] = job[k]
  BY DEF Moved, JobsOK
<1>5. Busy' = Busy
  BY <1>3, <1>4 DEF Busy
<1>6. QED
  BY <1>2, <1>3, <1>4, <1>5 DEF JobsOK

LEMMA CommandTypes ==
    ASSUME Types, NEW j \in Runners, Command(j) PROVE Types'
<1>1. /\ job[j].plan # <<>> /\ Moved(j) /\ Nodes(svc', chain') /\ faults' \in 0..MaxFaults
      /\ row' = row /\ online' = online /\ due' = due /\ disturbed' \in BOOLEAN
  BY CommandIs
<1>2. JobsOK(job)'
  BY <1>1, BusyStep, MovedTypes DEF Types
<1>3. QED
  BY <1>1, <1>2 DEF Types

\* A busy goroutine goes on with something else.
LEMMA Changes ==
    ASSUME JobsOK(job), NEW j \in Runners, job[j] # NoJob,
           job' = [job EXCEPT ![j] = job'[j]], JobOK(job'[j]),
           j \in Jobs => job'[j].op \in JobOps, j \in Hops => job'[j].op \in SyncOps
    PROVE  JobsOK(job)' /\ job'[j] # NoJob /\ Busy' = Busy
           /\ \A k \in Runners \ {j} : job'[k] = job[k]
<1>1. JobsOK(job')
  <2>1. JobsOK([job EXCEPT ![j] = job'[j]])
    BY NewJobs
  <2>2. QED
    BY <2>1
<1>2. job'[j] # NoJob
  <2>1. job'[j].op # "idle" /\ NoJob.op = "idle"
    BY DEF NoJob, JobOps, SyncOps, AllOps, Runners
  <2>2. QED
    BY <2>1
<1>3. \A k \in Runners \ {j} : job'[k] = job[k]
  BY DEF JobsOK
<1>4. Busy' = Busy
  BY <1>2, <1>3 DEF Busy
<1>5. QED
  BY <1>1, <1>2, <1>3, <1>4 DEF JobsOK

LEMMA SaveUpdateIs ==
    ASSUME Types, NEW j \in Jobs, SaveUpdate(j)
    PROVE  LET g == job[j]
               h == job'[j]
           IN  /\ g # NoJob /\ g.plan # <<>> /\ Head(g.plan).cmd = "save"
               /\ job' = [job EXCEPT ![j] = job'[j]] /\ JobOK(h)
               /\ h.op = g.op /\ h.gen = g.gen /\ h.clean = g.clean /\ h.failed = g.failed
               /\ h.plan = Tail(g.plan) /\ h.read.status = "saved"
               /\ g.gen \in Gens /\ SetRow("active", g.gen)
<1> DEFINE g == job[j]
           r == [g.read EXCEPT !.status = "saved"]
           h == [g EXCEPT !.plan = Tail(g.plan), !.read.status = "saved"]
<1>1. j \in Runners /\ g.plan # <<>> /\ Head(g.plan).cmd = "save" /\ SetRow("active", g.gen)
  BY DEF SaveUpdate, Runners
<1>2. /\ g # NoJob /\ JobOK(g) /\ Shape(g) /\ g.plan \in Seq(AnyStep)
      /\ g.gen \in Gens /\ Tail(g.plan) \in Seq(AnyStep)
  <2>1. Head(g.plan).cmd \notin {"delete", "pause"}
    BY <1>1
  <2>2. QED
    BY <1>1, <2>1, BusyStep
<1>3. job' = [job EXCEPT ![j] = h]
  BY <1>1 DEF SaveUpdate, Types, JobsOK
<1>4. Fields = {"op", "read", "gen", "plan", "failed", "clean"}
  BY DEF Fields, NoJob
<1>5. /\ Shape(h) /\ h.plan = Tail(g.plan) /\ h.op = g.op
      /\ h.gen = g.gen /\ h.failed = g.failed /\ h.clean = g.clean /\ h.read = r
  BY <1>2, <1>4 DEF Shape
<1>6. job'[j] = h
  BY <1>1, <1>3 DEF Types, JobsOK
<1>7. r.status = "saved" /\ r \in [status : Statuses \cup {"saved"}, gen : Contents]
  <2>1. g.read \in [status : Statuses \cup {"saved"}, gen : Contents]
    BY <1>2 DEF JobOK
  <2> HIDE DEF g
  <2>2. QED
    BY <2>1
<1> HIDE DEF g, h, r
<1>8. h.op # "idle"
  BY <1>2, <1>5 DEF JobOK
<1>9. JobOK(h)
  BY <1>2, <1>5, <1>7, <1>8 DEF JobOK
<1>10. QED
  BY <1>1, <1>2, <1>3, <1>5, <1>6, <1>7, <1>9 DEF g

LEMMA RowAfterOK == ASSUME RowOK(row), NEW g, RowAfter(g) PROVE RowOK(row)'
<1>1. RowOK(Gone)
  BY DEF RowOK, Gone, Statuses, Contents, Live
<1>2. row.gen \in Gens \/ (~ Exists /\ row.gen \in Contents)
  BY ExistsLive DEF RowOK
<1>3. \/ row' = row \/ row' = Gone
      \/ \E status \in Live : SetRow(status, row.gen)
  BY DEF RowAfter, Live
<1>4. CASE row' = row
  BY <1>4
<1>5. CASE row' = Gone
  BY <1>1, <1>5
<1>6. CASE \E status \in Live : SetRow(status, row.gen)
  <2>1. PICK status \in Live : SetRow(status, row.gen)
    BY <1>6
  <2>2. QED
    BY <1>2, <2>1, RowsSet
<1>7. QED
  BY <1>3, <1>4, <1>5, <1>6

\* A goroutine ends.
LEMMA Ends ==
    ASSUME JobsOK(job), NEW j \in Runners, job' = [job EXCEPT ![j] = NoJob]
    PROVE  JobsOK(job)' /\ job'[j] = NoJob /\ Busy' = Busy \ {j}
           /\ \A k \in Runners \ {j} : job'[k] = job[k]
<1>1. JobsOK(job')
  <2>1. JobsOK([job EXCEPT ![j] = NoJob])
    BY NewJobs, NoJobOK DEF NoJob
  <2>2. QED
    BY <2>1
<1>2. job'[j] = NoJob /\ \A k \in Runners \ {j} : job'[k] = job[k]
  BY DEF JobsOK
<1>3. Busy' = Busy \ {j}
  BY <1>2 DEF Busy
<1>4. QED
  BY <1>1, <1>2, <1>3 DEF JobsOK

LEMMA SaveUpdateTypes == ASSUME Types, NEW j \in Jobs, SaveUpdate(j) PROVE Types'
<1>1. /\ job[j] # NoJob /\ job' = [job EXCEPT ![j] = job'[j]] /\ JobOK(job'[j])
      /\ job'[j].op = job[j].op /\ job[j].gen \in Gens /\ SetRow("active", job[j].gen)
  BY SaveUpdateIs
<1>2. j \in Runners /\ j \notin Hops /\ job[j].op \in JobOps
  BY <1>1, BusyOnes, RouteAssumption DEF Runners, Types
<1>3. JobsOK(job)'
  BY <1>1, <1>2, Changes DEF Types
<1>4. RowOK(row)'
  BY <1>1, RowsSet DEF Types, Live
<1>5. /\ svc' = svc /\ chain' = chain /\ online' = online /\ due' = due /\ faults' = faults
      /\ disturbed' = disturbed
  BY DEF SaveUpdate
<1>6. QED
  BY <1>3, <1>4, <1>5 DEF Types

LEMMA FinishJobTypes == ASSUME Types, NEW j \in Jobs, FinishJob(j) PROVE Types'
<1>1. j \in Runners /\ job' = [job EXCEPT ![j] = NoJob] /\ RowAfter(job[j])
      /\ svc' = svc /\ chain' = chain /\ online' = online /\ due' = due /\ faults' = faults
  BY DEF FinishJob, Runners
<1>2. JobsOK(job)' /\ RowOK(row)'
  BY <1>1, Ends, RowAfterOK DEF Types
<1>3. disturbed' \in BOOLEAN
  BY DEF FinishJob, Types
<1>4. QED
  BY <1>1, <1>2, <1>3 DEF Types

LEMMA StartReconcileTypes == ASSUME Types, NEW h \in Hops, StartReconcile(h) PROVE Types'
<1> DEFINE p == IF Exists THEN Gentle(h) ELSE <<>>
<1>1. Begin(h, "sync", row.gen, p)
  BY DEF StartReconcile
<1>2. h \in Runners /\ h \notin Jobs /\ "sync" \in SyncOps /\ row.gen \in Contents
  BY RouteAssumption DEF Runners, SyncOps, Types, RowOK
<1>3. p \in Seq(AnyStep)
      /\ (row.gen \in Gens \/ \A i \in 1..Len(p) : p[i].cmd \in {"delete", "pause"})
  <2>1. CASE Exists
    BY <2>1, GentleSteps, ExistsLive DEF Types, RowOK
  <2>2. CASE ~ Exists
    BY <2>2
  <2>3. QED
    BY <2>1, <2>2
<1> HIDE DEF p
<1>4. JobsOK(job)'
  BY <1>1, <1>2, <1>3, Begins1
<1>5. /\ row' = row /\ svc' = svc /\ chain' = chain /\ online' = online /\ faults' = faults
      /\ due' \subseteq Hops /\ disturbed' \in BOOLEAN
  BY DEF StartReconcile, Types
<1>6. QED
  BY <1>4, <1>5 DEF Types

\* The reconcile of a node from its second part on.
LEMMA FinishSyncIs ==
    ASSUME Types, NEW h \in Hops, FinishSync(h)
    PROVE  LET g == job[h]
               k == job'[h]
           IN  /\ g # NoJob /\ h \in Runners
               /\ job' = [job EXCEPT ![h] = job'[h]] /\ JobOK(k)
               /\ k.op = "repause" /\ k.clean = g.clean /\ k.failed = g.failed
               /\ k.gen = g.gen /\ k.read = g.read
               /\ k.plan = IF g.read.status = "paused"
                           THEN <<Step("pause", "svc", h, "best")>> ELSE <<>>
               /\ RowOK(row)'
<1> DEFINE g == job[h]
           q == IF g.read.status = "paused" THEN <<Step("pause", "svc", h, "best")>> ELSE <<>>
           k == [g EXCEPT !.op = "repause", !.plan = q]
<1>1. h \in Runners /\ JobOK(g) /\ g # NoJob /\ Shape(g)
  <2>1. h \in Runners /\ g.op = "sync"
    BY DEF Runners, FinishSync
  <2>2. QED
    BY <2>1 DEF Types, JobsOK, JobOK, NoJob
<1>2. q \in Seq(AnyStep) /\ \A i \in 1..Len(q) : q[i].cmd \in {"delete", "pause"}
  <2>1. Step("pause", "svc", h, "best") \in AnyStep /\ Step("pause", "svc", h, "best").cmd = "pause"
    BY DEF Step, AnyStep, Modes
  <2>2. QED
    BY <2>1
<1>3. job' = [job EXCEPT ![h] = k]
  BY <1>1 DEF FinishSync, Types, JobsOK
<1>4. Fields = {"op", "read", "gen", "plan", "failed", "clean"}
  BY DEF Fields, NoJob
<1>5. /\ Shape(k) /\ k.plan = q /\ k.op = "repause" /\ k.read = g.read
      /\ k.gen = g.gen /\ k.failed = g.failed /\ k.clean = g.clean
  <2> HIDE DEF q
  <2>1. QED
    BY <1>1, <1>4 DEF Shape
<1>6. job'[h] = k
  BY <1>1, <1>3 DEF Types, JobsOK
<1> HIDE DEF k, q, g
<1>7. JobOK(k)
  BY <1>1, <1>2, <1>5 DEF JobOK, SyncOps
<1>8. RowOK(row)'
  <2>1. SetRow("active", row.gen) \/ row' = row
    BY DEF FinishSync
  <2>2. row.gen \in Gens \/ (~ Exists /\ row.gen \in Contents)
    BY ExistsLive DEF RowOK, Types
  <2>3. QED
    BY <2>1, <2>2, RowsSet DEF Types, Live
<1>9. QED
  BY <1>1, <1>3, <1>5, <1>6, <1>7, <1>8 DEF g, q

LEMMA FinishRepauseIs ==
    ASSUME Types, NEW h \in Hops, FinishRepause(h)
    PROVE  LET g == job[h]
               k == job'[h]
           IN  /\ g # NoJob /\ h \in Runners
               /\ job' = [job EXCEPT ![h] = job'[h]] /\ JobOK(k)
               /\ k.op = "orphans" /\ k.clean = g.clean /\ k.failed = g.failed
               /\ \/ k.plan = <<>>
                  \/ k.plan = <<Step("delete", "svc", h, "best")>> /\ row = Gone /\ svc[h] # None
               /\ faults' \in 0..MaxFaults
<1> DEFINE g == job[h]
           a == Step("delete", "svc", h, "best")
           k == job'[h]
<1>1. h \in Runners /\ JobOK(g) /\ g # NoJob /\ Shape(g) /\ g.plan = <<>>
  <2>1. h \in Runners /\ g.op = "repause" /\ g.plan = <<>>
    BY DEF Runners, FinishRepause
  <2>2. QED
    BY <2>1 DEF Types, JobsOK, JobOK, NoJob
<1>2. PICK q \in Seq(AnyStep) :
           /\ job' = [job EXCEPT ![h] = [g EXCEPT !.op = "orphans", !.plan = q]]
           /\ q = <<>> \/ (q = <<a>> /\ row = Gone /\ svc[h] # None)
  <2>1. a \in AnyStep
    BY DEF Step, AnyStep, Modes
  <2> HIDE DEF a
  <2>2. <<>> \in Seq(AnyStep) /\ <<a>> \in Seq(AnyStep)
    BY <2>1
  <2>3. CASE job' = [job EXCEPT ![h].op = "orphans",
                       ![h].plan = IF h \in online /\ row = Gone /\ svc[h] # None
                                   THEN <<a>> ELSE <<>>]
    <3> DEFINE q == IF h \in online /\ row = Gone /\ svc[h] # None THEN <<a>> ELSE <<>>
    <3>1. job' = [job EXCEPT ![h] = [g EXCEPT !.op = "orphans", !.plan = q]]
      BY <1>1, <2>3 DEF Types, JobsOK
    <3>2. q = <<>> \/ (q = <<a>> /\ row = Gone /\ svc[h] # None)
      OBVIOUS
    <3>3. q \in Seq(AnyStep)
      <4> HIDE DEF q
      <4>1. QED
        BY <2>2, <3>2
    <3> HIDE DEF q
    <3>4. QED
      BY <3>1, <3>2, <3>3
  <2>4. CASE job' = [job EXCEPT ![h].op = "orphans"]
    <3>1. job' = [job EXCEPT ![h] = [g EXCEPT !.op = "orphans", !.plan = <<>>]]
      <4>1. Fields = {"op", "read", "gen", "plan", "failed", "clean"}
        BY DEF Fields, NoJob
      <4>2. [g EXCEPT !.op = "orphans", !.plan = <<>>] = [g EXCEPT !.op = "orphans"]
        BY <1>1, <4>1 DEF Shape
      <4>3. job' = [job EXCEPT ![h] = [g EXCEPT !.op = "orphans"]]
        BY <1>1, <2>4 DEF Types, JobsOK
      <4>4. QED
        BY <4>2, <4>3
    <3> HIDE DEF g
    <3>2. WITNESS <<>> \in Seq(AnyStep)
    <3>3. QED
      BY <3>1
  <2>5. QED
    BY <2>3, <2>4 DEF FinishRepause, a
<1>3. Fields = {"op", "read", "gen", "plan", "failed", "clean"}
  BY DEF Fields, NoJob
<1>4. k = [g EXCEPT !.op = "orphans", !.plan = q]
  BY <1>1, <1>2 DEF Types, JobsOK
<1>5. /\ Shape(k) /\ k.plan = q /\ k.op = "orphans" /\ k.read = g.read
      /\ k.gen = g.gen /\ k.failed = g.failed /\ k.clean = g.clean
  <2> HIDE DEF k
  <2>1. QED
    BY <1>1, <1>3, <1>4 DEF Shape
<1>6. \A i \in 1..Len(q) : q[i].cmd \in {"delete", "pause"}
  BY <1>2 DEF Step
<1>7. job' = [job EXCEPT ![h] = k]
  BY <1>2, <1>4
<1>8. faults' \in 0..MaxFaults
  BY RouteAssumption DEF FinishRepause, Fault, Types
<1> HIDE DEF k, g
<1>9. JobOK(k)
  BY <1>1, <1>5, <1>6 DEF JobOK, SyncOps
<1>10. QED
  BY <1>1, <1>2, <1>5, <1>7, <1>8, <1>9 DEF g, k

LEMMA FinishSyncTypes == ASSUME Types, NEW h \in Hops, FinishSync(h) PROVE Types'
<1>1. /\ job[h] # NoJob /\ h \in Runners /\ job' = [job EXCEPT ![h] = job'[h]]
      /\ JobOK(job'[h]) /\ job'[h].op = "repause" /\ RowOK(row)'
  BY FinishSyncIs
<1>2. h \notin Jobs /\ "repause" \in SyncOps
  BY RouteAssumption DEF SyncOps
<1>3. JobsOK(job)'
  BY <1>1, <1>2, Changes DEF Types
<1>4. /\ svc' = svc /\ chain' = chain /\ online' = online /\ due' = due
      /\ faults' = faults /\ disturbed' = disturbed
  BY DEF FinishSync
<1>5. QED
  BY <1>1, <1>3, <1>4 DEF Types

LEMMA FinishRepauseTypes == ASSUME Types, NEW h \in Hops, FinishRepause(h) PROVE Types'
<1>1. /\ job[h] # NoJob /\ h \in Runners /\ job' = [job EXCEPT ![h] = job'[h]]
      /\ JobOK(job'[h]) /\ job'[h].op = "orphans" /\ faults' \in 0..MaxFaults
  BY FinishRepauseIs
<1>2. h \notin Jobs /\ "orphans" \in SyncOps
  BY RouteAssumption DEF SyncOps
<1>3. JobsOK(job)'
  BY <1>1, <1>2, Changes DEF Types
<1>4. /\ row' = row /\ svc' = svc /\ chain' = chain /\ online' = online /\ due' = due
      /\ disturbed' = disturbed
  BY DEF FinishRepause
<1>5. QED
  BY <1>1, <1>3, <1>4 DEF Types

LEMMA FinishReconcileTypes == ASSUME Types, NEW h \in Hops, FinishReconcile(h) PROVE Types'
<1>1. h \in Runners /\ job' = [job EXCEPT ![h] = NoJob]
  BY DEF FinishReconcile, Runners
<1>2. JobsOK(job)'
  BY <1>1, Ends DEF Types
<1>3. QED
  BY <1>2 DEF FinishReconcile, Types

LEMMA NodeTypes ==
    ASSUME Types, NEW h \in Hops,
           SkipReconcile(h) \/ Disconnect(h) \/ Restart(h) \/ Connect(h)
    PROVE  Types'
<1>1. CASE SkipReconcile(h)
  BY <1>1 DEF SkipReconcile, Types
<1>2. CASE Disconnect(h)
  <2>1. faults' \in 0..MaxFaults
    BY <1>2, RouteAssumption DEF Disconnect, Fault, Types
  <2>2. QED
    BY <1>2, <2>1 DEF Disconnect, Types
<1>3. CASE Restart(h)
  <2>1. faults' \in 0..MaxFaults
    BY <1>3, RouteAssumption DEF Restart, Fault, Types
  <2>2. JobsOK(job)'
    BY <1>3, Overlaps DEF Restart, Types, JobsOK
  <2>3. svc' \in [Hops -> ServiceRow]
    <3> DEFINE b == (svc[h] # None)
               v == [svc[h] EXCEPT !.open = b]
    <3>1. svc' = [svc EXCEPT ![h] = v] /\ svc \in [Hops -> ServiceRow]
      BY <1>3 DEF Restart, Types, Nodes
    <3>2. v \in ServiceRow
      BY <3>1 DEF ServiceRow, None
    <3> HIDE DEF v
    <3>3. QED
      BY <3>1, <3>2
  <2>4. Nodes(svc, chain)'
    BY <1>3, <2>3 DEF Restart, Types, Nodes
  <2>5. RowOK(row)' /\ online' \subseteq Hops /\ due' \subseteq Hops /\ disturbed' \in BOOLEAN
    BY <1>3 DEF Restart, Types
  <2>6. QED
    BY <2>1, <2>2, <2>4, <2>5 DEF Types
<1>4. CASE Connect(h)
  BY <1>4 DEF Connect, Types
<1>5. QED
  BY <1>1, <1>2, <1>3, <1>4

LEMMA IdleTypes == ASSUME Types, UNCHANGED vars PROVE Types'
BY DEF Types, vars

\* Every step keeps the types.
LEMMA NextTypes == ASSUME Types, [Next]_vars PROVE Types'
<1>1. CASE \E j \in Jobs, op \in Ops, g \in Gens : StartJob(j, op, g)
  BY <1>1, StartJobTypes
<1>2. CASE \E j \in Jobs : SaveUpdate(j) \/ FinishJob(j)
  BY <1>2, SaveUpdateTypes, FinishJobTypes
<1>3. CASE \E j \in Runners : Command(j)
  BY <1>3, CommandTypes
<1>4. ASSUME NEW h \in Hops, Reporting(h) PROVE Types'
  BY <1>4, StartReportTypes DEF Reporting
<1>5. ASSUME NEW h \in Hops, Reconciling(h) PROVE Types'
  BY <1>5, StartReconcileTypes, NodeTypes, FinishSyncTypes, FinishRepauseTypes,
     FinishReconcileTypes DEF Reconciling
<1>6. ASSUME NEW h \in Hops, Disconnect(h) \/ Restart(h) \/ Connect(h) PROVE Types'
  BY <1>6, NodeTypes
<1>7. CASE UNCHANGED vars
  BY <1>7, IdleTypes
<1>8. QED
  BY <1>1, <1>2, <1>3, <1>4, <1>5, <1>6, <1>7 DEF Next

\* The variables of RouteControl have their types, for every route, content and number
\* of goroutines and faults (go-backend/service/forward.go, reconcile.go).
THEOREM TypeCorrect == Spec => []TypeOK
<1>1. Init => Types
  BY InitTypes
<1>2. Types /\ [Next]_vars => Types'
  BY NextTypes
<1>3. Types => TypeOK
  BY TypeOKHolds
<1>4. QED
  BY <1>1, <1>2, <1>3, PTL DEF Spec

-----------------------------------------------------------------------------
(* How what a goroutine knows goes on from command to command.              *)

\* The command at hand, for a goroutine that has one.
AtHand(g, x) ==
    /\ JobOK(g) /\ g.plan # <<>> /\ x = Head(g.plan)
    /\ x.cmd # "save"

LEMMA InHand ==
    ASSUME NEW g, NEW x, AtHand(g, x)
    PROVE  /\ g.plan \in Seq(AnyStep) /\ x \in AnyStep /\ Shape(g)
           /\ Tail(g.plan) \in Seq(AnyStep) /\ x = g.plan[1] /\ 1 \in 1..Len(g.plan)
           /\ Len(g.plan) \in Nat /\ Len(Tail(g.plan)) = Len(g.plan) - 1
           /\ \A i \in 1..(Len(g.plan) - 1) : Tail(g.plan)[i] = g.plan[i + 1]
           /\ g.gen \in Gens \/ x.cmd \in {"delete", "pause"}
<1>1. g.plan \in Seq(AnyStep) /\ Shape(g) /\ g.plan # <<>> /\ x = Head(g.plan)
  BY DEF AtHand, JobOK
<1>2. /\ Len(g.plan) \in Nat /\ Len(g.plan) >= 1
      /\ x = g.plan[1] /\ x \in AnyStep
      /\ Tail(g.plan) \in Seq(AnyStep) /\ Len(Tail(g.plan)) = Len(g.plan) - 1
      /\ \A i \in 1..(Len(g.plan) - 1) : Tail(g.plan)[i] = g.plan[i + 1]
  BY <1>1, HeadTail
<1>3. 1 \in 1..Len(g.plan)
  BY <1>2
<1>4. g.gen \in Gens \/ x.cmd \in {"delete", "pause"}
  BY <1>2, <1>3 DEF AtHand, JobOK
<1>5. QED
  BY <1>1, <1>2, <1>3, <1>4

LEMMA TakingOn ==
    ASSUME NEW g, NEW x, AtHand(g, x), NEW mode \in {"must", "try"}, Taking(g.plan, mode)
    PROVE  x.cmd = "delete" /\ x.mode = mode /\ Taking(Tail(g.plan), mode)
<1>1. x.cmd = "delete" /\ x.mode = mode
  BY InHand DEF Taking
<1>2. Taking(Tail(g.plan), mode)
  <2>1. SUFFICES ASSUME NEW i \in 1..Len(Tail(g.plan))
                 PROVE  Tail(g.plan)[i].cmd = "delete" /\ Tail(g.plan)[i].mode = mode
    BY DEF Taking
  <2>2. i \in 1..(Len(g.plan) - 1) /\ i + 1 \in 1..Len(g.plan)
    BY InHand
  <2>3. QED
    BY <2>2, InHand DEF Taking
<1>3. QED
  BY <1>1, <1>2

\* Services are taken back one after the other.
LEMMA TakeOn ==
    ASSUME NEW s, NEW c, Nodes(s, c), NEW g, NEW x, AtHand(g, x), x.cmd = "delete",
           NEW h, Goes(g, h, x, Did(s, c, x, g.gen).answer),
           NEW s2, s2 = SvcAfter(s, c, x, g.gen), NEW c2, c2 = ChainAfter(s, c, x, g.gen),
           Cleared(s, c, g.plan), EntryFirst(s, g.plan)
    PROVE  /\ h.plan = Tail(g.plan) /\ h.failed = g.failed
           /\ Cleared(s2, c2, h.plan) /\ EntryFirst(s2, h.plan) /\ Behind(s2, c2)
<1> DEFINE a == Did(s, c, x, g.gen).answer
<1>1. /\ g.plan \in Seq(AnyStep) /\ g.plan # <<>> /\ x = Head(g.plan)
  BY InHand DEF AtHand
<1>2. /\ a \in {"ok", "not_found"}
      /\ Cleared(s2, c2, Tail(g.plan)) /\ s2[1] = None /\ EntryFirst(s2, Tail(g.plan))
  BY <1>1, Deletes
<1> HIDE DEF a
<1>3. Accepts(x, a)
  BY <1>2 DEF Accepts
<1>4. h.plan = Tail(g.plan) /\ h.failed = g.failed
  BY <1>3 DEF Goes, a
<1>5. QED
  BY <1>2, <1>4 DEF Behind

\* A deployment, and what is done when it fails.
LEMMA DeployOn ==
    ASSUME NEW s, NEW c, Nodes(s, c), NEW g, NEW x, AtHand(g, x),
           NEW h, Goes(g, h, x, Did(s, c, x, g.gen).answer),
           NEW s2, s2 = SvcAfter(s, c, x, g.gen), NEW c2, c2 = ChainAfter(s, c, x, g.gen),
           Deploying(s, c, g)
    PROVE  Deploying(s2, c2, h) /\ Behind(s2, c2)
<1> DEFINE a == Did(s, c, x, g.gen).answer
<1>1. /\ g.plan \in Seq(AnyStep) /\ g.plan # <<>> /\ x = Head(g.plan) /\ h.gen = g.gen
      /\ x = g.plan[1] /\ 1 \in 1..Len(g.plan) /\ Tail(g.plan) \in Seq(AnyStep)
      /\ (g.gen \in Gens \/ x.cmd \in {"delete", "pause"})
  BY InHand DEF AtHand, Goes
<1>2. CASE g.failed
  <2>1. Taking(g.plan, "try") /\ Cleared(s, c, g.plan) /\ EntryFirst(s, g.plan)
    BY <1>2 DEF Deploying
  <2>2. x.cmd = "delete" /\ Taking(Tail(g.plan), "try")
    BY <2>1, TakingOn
  <2>3. /\ h.plan = Tail(g.plan) /\ h.failed = g.failed
        /\ Cleared(s2, c2, h.plan) /\ EntryFirst(s2, h.plan) /\ Behind(s2, c2)
    BY <2>1, <2>2, TakeOn
  <2>4. QED
    BY <1>2, <2>2, <2>3 DEF Deploying
<1>3. CASE ~ g.failed
  <2>1. BuildPlan(g.plan) /\ Built(s, c, g.plan, g.gen)
    BY <1>3 DEF Deploying
  <2>2. x.cmd = "add" /\ g.gen \in Gens
    BY <1>1, <2>1 DEF BuildPlan
  <2>3. a = "ok" /\ BuildPlan(Tail(g.plan)) /\ Built(s2, c2, Tail(g.plan), g.gen)
    BY <1>1, <2>1, <2>2, Deploys
  <2> HIDE DEF a
  <2>4. h.plan = Tail(g.plan) /\ h.failed = g.failed
    BY <2>3 DEF Goes, Accepts, a
  <2>5. Behind(s2, c2)
    BY <1>1, <2>2, <2>3, BuiltEntry
  <2>6. QED
    BY <1>1, <1>3, <2>3, <2>4, <2>5 DEF Deploying
<1>4. QED
  BY <1>2, <1>3

LEMMA DeployRefused ==
    ASSUME NEW s, NEW c, Nodes(s, c), NEW g, NEW x, AtHand(g, x), x.mode = "build",
           NEW h, h.failed = TRUE,
           h.plan = IF x.hop # Last THEN Cleanup("try") ELSE <<>>,
           Deploying(s, c, g)
    PROVE  Deploying(s, c, h)
<1>1. ~ g.failed
  <2>1. SUFFICES ASSUME g.failed PROVE FALSE
    OBVIOUS
  <2>2. x.mode = "try"
    BY <2>1, TakingOn DEF Deploying
  <2>3. QED
    BY <2>2
<1>2. CASE x.hop # Last
  <2>1. Taking(h.plan, "try") /\ Cleared(s, c, h.plan) /\ EntryFirst(s, h.plan)
    BY <1>2, CleanupSteps, FreshCleanup DEF Modes
  <2>2. QED
    BY <2>1 DEF Deploying
<1>3. CASE x.hop = Last
  <2>1. Empty(s, c)
    BY <1>1, <1>3, NothingBuilt DEF Deploying, AtHand
  <2>2. h.plan = <<>> /\ Taking(<<>>, "try")
    BY <1>3 DEF Taking
  <2>3. QED
    BY <2>1, <2>2, EmptyCleared DEF Deploying
<1>4. QED
  BY <1>2, <1>3

\* An update before the row is saved.
LEMMA UpdateOn ==
    ASSUME NEW g, NEW x, AtHand(g, x), UpdatePlan(g.plan)
    PROVE  x.cmd = "delete" /\ x.mode = "must" /\ UpdatePlan(Tail(g.plan))
<1> DEFINE k == SavedAt(g.plan)
           n == Len(Build)
<1>1. n \in Nat /\ n >= 1 /\ Len(g.plan) \in Nat
  BY BuildSteps, InHand, RouteAssumption
<1>2. k \in Nat /\ k >= 1 /\ k = Len(g.plan) - n
  BY <1>1 DEF UpdatePlan, SavedAt
<1>3. SavedAt(Tail(g.plan)) = k - 1
  BY <1>1, <1>2, InHand DEF SavedAt
<1>4. k > 1
  <2>1. k # 1
    BY InHand DEF UpdatePlan, AtHand
  <2>2. QED
    BY <1>2, <2>1
<1>5. x.cmd = "delete" /\ x.mode = "must"
  <2>1. 1 \in 1..(k - 1)
    BY <1>2, <1>4
  <2>2. \A i \in 1..(k - 1) : g.plan[i].cmd = "delete" /\ g.plan[i].mode = "must"
    BY DEF UpdatePlan
  <2>3. x = g.plan[1]
    BY InHand
  <2> HIDE DEF k
  <2>4. QED
    BY <2>1, <2>2, <2>3
<1>6. \A i \in 1..((k - 1) - 1) : Tail(g.plan)[i].cmd = "delete" /\ Tail(g.plan)[i].mode = "must"
  <2>1. SUFFICES ASSUME NEW i \in 1..((k - 1) - 1)
                 PROVE  Tail(g.plan)[i].cmd = "delete" /\ Tail(g.plan)[i].mode = "must"
    OBVIOUS
  <2>2. i + 1 \in 1..(k - 1) /\ i \in 1..(Len(g.plan) - 1)
    BY <1>1, <1>2
  <2>3. QED
    BY <2>2, InHand DEF UpdatePlan
<1>7. Tail(g.plan)[k - 1].cmd = "save"
  <2>1. k - 1 \in 1..(Len(g.plan) - 1) /\ (k - 1) + 1 = k
    BY <1>1, <1>2, <1>4
  <2>2. Tail(g.plan)[k - 1] = g.plan[k]
    BY <2>1, InHand
  <2>3. QED
    BY <2>2 DEF UpdatePlan
<1>8. \A i \in 1..n : Tail(g.plan)[(k - 1) + i] = Build[i]
  <2>1. SUFFICES ASSUME NEW i \in 1..n PROVE Tail(g.plan)[(k - 1) + i] = Build[i]
    OBVIOUS
  <2>2. (k - 1) + i \in 1..(Len(g.plan) - 1) /\ ((k - 1) + i) + 1 = k + i
    BY <1>1, <1>2, <1>4
  <2>3. Tail(g.plan)[(k - 1) + i] = g.plan[k + i]
    BY <2>2, InHand
  <2>4. QED
    BY <2>3 DEF UpdatePlan
<1>9. UpdatePlan(Tail(g.plan))
  <2> DEFINE m == SavedAt(Tail(g.plan))
  <2>1. m = k - 1 /\ m >= 1
    BY <1>2, <1>3, <1>4
  <2> HIDE DEF k, m, n
  <2>2. /\ \A i \in 1..(m - 1) : Tail(g.plan)[i].cmd = "delete" /\ Tail(g.plan)[i].mode = "must"
        /\ Tail(g.plan)[m].cmd = "save"
        /\ \A i \in 1..n : Tail(g.plan)[m + i] = Build[i]
    BY <1>6, <1>7, <1>8, <2>1
  <2>3. QED
    BY <2>1, <2>2 DEF UpdatePlan, m, n
<1>10. QED
  BY <1>5, <1>9

LEMMA FitsBehind ==
    ASSUME NEW s, NEW c, NEW g, Fits(s, c, g) PROVE Behind(s, c)
<1>1. 1 \in Hops
  BY RouteAssumption DEF Hops
<1>2. QED
  BY <1>1 DEF Fits, Behind

\* Services are paused, or opened, one after the other.
LEMMA SwitchOn ==
    ASSUME NEW s, NEW c, Nodes(s, c), NEW g, NEW x, AtHand(g, x), g.op \in {"pause", "resume"},
           NEW r, r.gen \in Gens,
           NEW h, Goes(g, h, x, Did(s, c, x, g.gen).answer),
           NEW s2, s2 = SvcAfter(s, c, x, g.gen), NEW c2, c2 = ChainAfter(s, c, x, g.gen),
           Switching(s, c, g, r)
    PROVE  Switching(s2, c2, h, r) /\ Behind(s2, c2)
<1> DEFINE a == Did(s, c, x, g.gen).answer
           p == g.plan
           q == Tail(g.plan)
<1>1. /\ p \in Seq(AnyStep) /\ p # <<>> /\ x = Head(p) /\ x \in AnyStep /\ x.cmd # "save"
      /\ q \in Seq(AnyStep) /\ x = p[1] /\ 1 \in 1..Len(p)
      /\ Len(p) \in Nat /\ Len(q) = Len(p) - 1
      /\ \A i \in 1..(Len(p) - 1) : q[i] = p[i + 1]
      /\ (g.gen \in Gens \/ x.cmd \in {"delete", "pause"})
  BY InHand DEF AtHand
<1>2. \A i \in 1..Len(p) : p[i].cmd = g.op /\ p[i].what = "svc" /\ p[i].mode = "must"
  BY DEF Switching
<1>3. x.cmd = g.op /\ x.what = "svc" /\ x.mode = "must" /\ x.hop \in Hops
  BY <1>1, <1>2, Commands
<1> HIDE DEF p, q
<1>4. \A i \in 1..Len(q) : q[i].cmd = g.op /\ q[i].what = "svc" /\ q[i].mode = "must"
  <2>1. SUFFICES ASSUME NEW i \in 1..Len(q)
                 PROVE  q[i].cmd = g.op /\ q[i].what = "svc" /\ q[i].mode = "must"
    OBVIOUS
  <2>2. i \in 1..(Len(p) - 1) /\ i + 1 \in 1..Len(p)
    BY <1>1
  <2>3. QED
    BY <1>1, <1>2, <2>2
<1>5. /\ \A k \in Hops : k # x.hop => s2[k] = s[k]
      /\ \A k \in Hops : c2[k] = c[k]
  BY <1>1, <1>3, Effect
<1>6. /\ s[x.hop] = None => a = "not_found" /\ s2[x.hop] = s[x.hop]
      /\ s[x.hop] # None => a = "ok" /\ s2[x.hop].gen = s[x.hop].gen
                            /\ (s2[x.hop].open <=> x.cmd = "resume")
  BY <1>1, <1>3, ServiceEffect
<1> HIDE DEF a
<1>7. h.op = g.op
  BY DEF Goes
<1>8. CASE r.status = "error"
  <2>1. Empty(s, c)
    BY <1>8 DEF Switching
  <2>2. a = "not_found" /\ Empty(s2, c2)
    BY <1>3, <1>5, <1>6, <2>1 DEF Empty
  <2>3. h.failed = TRUE /\ h.plan = <<>>
    BY <1>3, <2>2 DEF Goes, Accepts, a
  <2>4. QED
    BY <1>8, <2>2, <2>3, EmptyCleared DEF Switching
<1>9. CASE r.status # "error"
  <2>1. Fits(s, c, r.gen) /\ ~ g.failed
        /\ \A k \in Hops : ~ Todo(p, {g.op}, "svc", k) => (s[k].open <=> g.op = "resume")
    BY <1>9 DEF Switching, p
  <2>2. s[x.hop] # None
    <3>1. s[x.hop].gen = r.gen /\ r.gen # 0
      BY <1>3, <2>1, RouteAssumption DEF Fits, Gens
    <3>2. QED
      BY <3>1, ServiceRows
  <2>3. Fits(s2, c2, r.gen)
    BY <1>3, <1>5, <1>6, <2>1, <2>2 DEF Fits
  <2>4. h.plan = q /\ h.failed = g.failed
    BY <1>6, <2>2 DEF Goes, Accepts, a, q
  <2>5. ASSUME NEW k \in Hops, ~ Todo(q, {g.op}, "svc", k)
        PROVE  s2[k].open <=> g.op = "resume"
    <3>1. CASE k = x.hop
      BY <1>3, <1>6, <2>2, <3>1
    <3>2. CASE k # x.hop
      <4>1. Todo(p, {g.op}, "svc", k) <=>
              \/ Head(p).cmd \in {g.op} /\ Head(p).what = "svc" /\ Head(p).hop = k
              \/ Todo(Tail(p), {g.op}, "svc", k)
        <5>1. p \in Seq(AnyStep) /\ p # <<>>
          BY <1>1
        <5>2. QED
          BY <5>1, TodoHead
      <4>2. q = Tail(p)
        BY DEF p, q
      <4>3. ~ Todo(p, {g.op}, "svc", k)
        BY <1>1, <2>5, <3>2, <4>1, <4>2
      <4>4. QED
        BY <1>5, <2>1, <3>2, <4>3
    <3>3. QED
      BY <3>1, <3>2
  <2>6. Switching(s2, c2, h, r)
    BY <1>4, <1>7, <1>9, <2>1, <2>3, <2>4, <2>5 DEF Switching
  <2>7. QED
    BY <2>3, <2>6, FitsBehind
<1>10. QED
  BY <1>8, <1>9

-----------------------------------------------------------------------------
(* The invariant from step to step: what has to be shown of the one          *)
(* goroutine that takes it.                                                 *)

LEMMA IdleKnows ==
    ASSUME NEW k, job'[k] = NoJob PROVE Doing(job[k])' /\ Mending(job[k], k)'
BY DEF Doing, Mending, NoJob, SyncOps

LEMMA Hopwise ==
    /\ 1 \in Hops /\ Last \in Hops
    /\ \A h \in Hops : h < Last <=> h \in Hops \ {Last}
    /\ \A h \in Hops : h \notin Jobs /\ h \in Runners
    /\ \A j \in Jobs : j \notin Hops /\ j \in Runners
    /\ \A j \in Runners : j \in Jobs \/ j \in Hops
BY RouteAssumption DEF Hops, Runners

LEMMA EntryIs == EntryLast <=> (~ disturbed => Behind(svc, chain))
BY Hopwise DEF EntryLast, Behind, Fits

LEMMA EntryNow == EntryLast' <=> (~ disturbed' => Behind(svc', chain'))
BY Hopwise DEF EntryLast, Behind, Fits

\* What row and nodes say of each other when they agree.
LEMMA AgreeIs ==
    ASSUME RowOK(row), Nodes(svc, chain), Agree
    PROVE  /\ row.status \in {"active", "paused"} =>
                /\ Fits(svc, chain, row.gen)
                /\ \A h \in Hops : svc[h].open <=> row.status = "active"
           /\ row.status \notin {"active", "paused"} => Empty(svc, chain)
           /\ Behind(svc, chain)
<1>1. CASE row.status = "active"
  <2>1. Whole(row.gen, TRUE)
    BY <1>1 DEF Agree
  <2>2. Fits(svc, chain, row.gen) /\ \A h \in Hops : svc[h].open
    BY <2>1, Hopwise DEF Whole, Fits
  <2>3. QED
    BY <1>1, <2>2, FitsBehind
<1>2. CASE row.status = "paused"
  <2>1. Whole(row.gen, FALSE)
    BY <1>2 DEF Agree
  <2>2. Fits(svc, chain, row.gen) /\ \A h \in Hops : ~ svc[h].open
    BY <2>1, Hopwise DEF Whole, Fits
  <2>3. QED
    BY <1>2, <2>2, FitsBehind
<1>3. CASE row.status \notin {"active", "paused"}
  <2>1. Bare
    BY <1>3 DEF Agree
  <2>2. Empty(svc, chain)
    BY <2>1 DEF Bare, Empty
  <2>3. QED
    BY <1>3, <2>2, EmptyCleared
<1>4. QED
  BY <1>1, <1>2, <1>3

\* A busy goroutine goes on.
LEMMA Keeps ==
    ASSUME IInv, Types', NEW j \in Runners, job[j] # NoJob, Busy' = Busy,
           \A k \in Runners \ {j} : job'[k] = job[k],
           job'[j].clean => job[j].clean, disturbed => disturbed',
           ~ job'[j].clean => disturbed',
           job'[j].clean /\ j \in Jobs => Doing(job[j])',
           job'[j].clean /\ j \in Hops => Mending(job[j], j)',
           ~ disturbed' => Behind(svc', chain')
    PROVE  IInv'
<1>1. j \in Busy /\ CleanAlone /\ UndisturbedClean
  BY DEF Busy, IInv
<1>2. ASSUME NEW k \in Runners, k # j, job'[k].clean PROVE job'[k] = NoJob
  <2>1. job[k].clean /\ job'[k] = job[k]
    BY <1>2
  <2>2. job[k] # NoJob => Busy = {k}
    BY <1>1, <2>1 DEF CleanAlone
  <2>3. QED
    BY <1>1, <1>2, <2>1, <2>2
<1>3. CleanAlone'
  <2>1. SUFFICES ASSUME NEW k \in Runners, job'[k] # NoJob, job'[k].clean PROVE Busy' = {k}
    BY DEF CleanAlone
  <2>2. k = j
    BY <1>2, <2>1
  <2>3. QED
    BY <1>1, <2>1, <2>2 DEF CleanAlone
<1>4. UndisturbedClean'
  <2>1. SUFFICES ASSUME ~ disturbed', NEW k \in Busy' PROVE job'[k].clean
    BY DEF UndisturbedClean
  <2>2. k \in Runners /\ (k # j => job'[k] = job[k]) /\ k \in Busy
    BY <2>1 DEF Busy
  <2>3. QED
    BY <1>1, <2>1, <2>2 DEF UndisturbedClean
<1>5. Known'
  <2>1. ASSUME NEW k \in Jobs, job'[k].clean PROVE Doing(job[k])'
    BY <1>2, <2>1, IdleKnows, Hopwise
  <2>2. ASSUME NEW h \in Hops, job'[h].clean PROVE Mending(job[h], h)'
    BY <1>2, <2>2, IdleKnows, Hopwise
  <2>3. QED
    BY <2>1, <2>2 DEF Known
<1>6. UndisturbedAgree'
  BY <1>1 DEF UndisturbedAgree
<1>7. EntryLast'
  BY EntryNow
<1>8. QED
  BY <1>3, <1>4, <1>5, <1>6, <1>7 DEF IInv

\* A goroutine begins, alone or not.
LEMMA Joins ==
    ASSUME IInv, Types', NEW j \in Runners, job[j] = NoJob, job'[j] # NoJob,
           job'[j].clean <=> Busy = {},
           \A k \in Runners \ {j} : /\ job'[k] = NoJob <=> job[k] = NoJob
                                    /\ job'[k].clean => job'[k] = NoJob,
           disturbed => disturbed', Busy # {} => disturbed',
           Busy = {} /\ j \in Jobs => Doing(job[j])',
           Busy = {} /\ j \in Hops => Mending(job[j], j)',
           ~ disturbed' => Behind(svc', chain')
    PROVE  IInv'
<1>1. Busy = {} => Busy' = {j}
  BY DEF Busy
<1>2. j \in Busy'
  BY DEF Busy
<1>3. CleanAlone'
  BY <1>1 DEF CleanAlone
<1>4. UndisturbedClean'
  BY <1>1 DEF UndisturbedClean
<1>5. Known'
  <2>1. ASSUME NEW k \in Jobs, job'[k].clean PROVE Doing(job[k])'
    BY <2>1, IdleKnows, Hopwise
  <2>2. ASSUME NEW h \in Hops, job'[h].clean PROVE Mending(job[h], h)'
    BY <2>2, IdleKnows, Hopwise
  <2>3. QED
    BY <2>1, <2>2 DEF Known
<1>6. UndisturbedAgree'
  BY <1>2 DEF UndisturbedAgree
<1>7. EntryLast'
  BY EntryNow
<1>8. QED
  BY <1>3, <1>4, <1>5, <1>6, <1>7 DEF IInv

\* A goroutine ends.
LEMMA Leaves ==
    ASSUME IInv, Types', NEW j \in Runners, job[j] # NoJob, job'[j] = NoJob,
           Busy' = Busy \ {j}, \A k \in Runners \ {j} : job'[k] = job[k],
           ~ disturbed' => job[j].clean,
           ~ disturbed' => Agree' /\ Behind(svc', chain')
    PROVE  IInv'
<1>1. j \in Busy /\ CleanAlone
  BY DEF Busy, IInv
<1>2. ASSUME NEW k \in Runners, job'[k].clean PROVE job'[k] = NoJob
  <2>1. SUFFICES ASSUME k # j, job[k] # NoJob PROVE FALSE
    OBVIOUS
  <2>2. Busy = {k}
    BY <1>1, <1>2, <2>1 DEF CleanAlone
  <2>3. QED
    BY <1>1, <2>1, <2>2
<1>3. CleanAlone'
  BY <1>2 DEF CleanAlone
<1>4. UndisturbedClean'
  <2>1. SUFFICES ASSUME ~ disturbed' PROVE Busy' = {}
    BY DEF UndisturbedClean
  <2>2. Busy = {j}
    BY <1>1, <2>1 DEF CleanAlone
  <2>3. QED
    BY <2>2
<1>5. Known'
  <2>1. ASSUME NEW k \in Jobs, job'[k].clean PROVE Doing(job[k])'
    BY <1>2, <2>1, IdleKnows, Hopwise
  <2>2. ASSUME NEW h \in Hops, job'[h].clean PROVE Mending(job[h], h)'
    BY <1>2, <2>2, IdleKnows, Hopwise
  <2>3. QED
    BY <2>1, <2>2 DEF Known
<1>6. UndisturbedAgree'
  BY DEF UndisturbedAgree
<1>7. EntryLast'
  BY EntryNow
<1>8. QED
  BY <1>3, <1>4, <1>5, <1>6, <1>7 DEF IInv

\* A request's goroutine, when the node has answered.
LEMMA DoingSettled ==
    ASSUME Types, NEW j \in Jobs, NEW x, AtHand(job[j], x), job[j].op \in JobOps,
           Doing(job[j]), Settled(j, x), row' = row
    PROVE  Doing(job[j])' /\ (~ disturbed' => Behind(svc', chain'))
<1> DEFINE g == job[j]
           h == job'[j]
<1>1. /\ Nodes(svc, chain) /\ RowOK(row)
      /\ svc' = SvcAfter(svc, chain, x, g.gen) /\ chain' = ChainAfter(svc, chain, x, g.gen)
      /\ Goes(g, h, x, Did(svc, chain, x, g.gen).answer) /\ disturbed' = disturbed
      /\ AtHand(g, x)
  BY DEF Types, Settled
<1>2. h.op = g.op /\ h.read = g.read /\ h.gen = g.gen
  BY <1>1 DEF Goes
<1>3. (Exists)' <=> Exists
  BY DEF Exists
<1>4. Doing(g)
  OBVIOUS
<1> HIDE DEF g, h
<1>5. CASE g.op = "create"
  <2>1. ASSUME ~ disturbed
        PROVE  row = [status |-> "active", gen |-> g.gen]
               /\ Deploying(svc', chain', h) /\ Behind(svc', chain')
    <3>1. row = [status |-> "active", gen |-> g.gen] /\ Deploying(svc, chain, g)
      BY <1>4, <1>5, <2>1 DEF Doing
    <3>2. QED
      BY <1>1, <3>1, DeployOn
  <2>2. QED
    BY <1>1, <1>2, <1>5, <2>1 DEF Doing, h
<1>6. CASE g.op = "update" /\ g.read.status = "saved"
  <2>1. row = [status |-> "active", gen |-> g.gen] /\ Deploying(svc, chain, g)
    BY <1>4, <1>6 DEF Doing
  <2>2. Deploying(svc', chain', h) /\ Behind(svc', chain')
    BY <1>1, <2>1, DeployOn
  <2>3. QED
    BY <1>2, <1>6, <2>1, <2>2 DEF Doing, h
<1>7. CASE g.op = "update" /\ g.read.status # "saved"
  <2>1. /\ Exists /\ ~ g.failed /\ UpdatePlan(g.plan)
        /\ Cleared(svc, chain, g.plan) /\ EntryFirst(svc, g.plan)
    BY <1>4, <1>7 DEF Doing
  <2>2. x.cmd = "delete" /\ UpdatePlan(Tail(g.plan))
    BY <1>1, <2>1, UpdateOn
  <2>3. /\ h.plan = Tail(g.plan) /\ h.failed = g.failed
        /\ Cleared(svc', chain', h.plan) /\ EntryFirst(svc', h.plan) /\ Behind(svc', chain')
    BY <1>1, <2>1, <2>2, TakeOn
  <2>4. QED
    BY <1>2, <1>3, <1>7, <2>1, <2>2, <2>3 DEF Doing, h
<1>8. CASE g.op \in {"delete", "force"}
  <2> DEFINE mode == IF g.op = "delete" THEN "must" ELSE "try"
  <2>1. /\ Exists /\ ~ g.failed /\ Taking(g.plan, mode)
        /\ Cleared(svc, chain, g.plan) /\ EntryFirst(svc, g.plan)
    BY <1>4, <1>8 DEF Doing
  <2>2. mode \in {"must", "try"}
    OBVIOUS
  <2> HIDE DEF mode
  <2>3. x.cmd = "delete" /\ Taking(Tail(g.plan), mode)
    BY <1>1, <2>1, <2>2, TakingOn
  <2>4. /\ h.plan = Tail(g.plan) /\ h.failed = g.failed
        /\ Cleared(svc', chain', h.plan) /\ EntryFirst(svc', h.plan) /\ Behind(svc', chain')
    BY <1>1, <2>1, <2>3, TakeOn
  <2>5. QED
    BY <1>2, <1>3, <1>8, <2>1, <2>3, <2>4 DEF Doing, h, mode
<1>9. CASE g.op \in {"pause", "resume"}
  <2>1. ASSUME ~ disturbed
        PROVE  Exists /\ Switching(svc', chain', h, row) /\ Behind(svc', chain')
    <3>1. Exists /\ Switching(svc, chain, g, row)
      BY <1>4, <1>9, <2>1 DEF Doing
    <3>2. row.gen \in Gens
      BY <1>1, <3>1, ExistsLive DEF RowOK
    <3>3. QED
      BY <1>1, <1>9, <3>1, <3>2, SwitchOn
  <2>2. QED
    BY <1>1, <1>2, <1>3, <1>9, <2>1 DEF Doing, h
<1>10. CASE g.op = "report"
  BY <1>1, <1>2, <1>4, <1>10 DEF Doing, h
<1>11. QED
  BY <1>5, <1>6, <1>7, <1>8, <1>9, <1>10 DEF JobOps, AllOps, g

\* ... and when it has refused to deploy.
LEMMA DoingRefused ==
    ASSUME Types, NEW j \in Jobs, NEW x, AtHand(job[j], x), job[j].op \in JobOps,
           Doing(job[j]), Refused(j, x), Moved(j), row' = row,
           ~ disturbed => Behind(svc, chain)
    PROVE  Doing(job[j])' /\ (~ disturbed' => Behind(svc', chain'))
<1> DEFINE g == job[j]
           h == job'[j]
<1>1. /\ Nodes(svc, chain)
      /\ svc' = svc /\ chain' = chain /\ disturbed' = disturbed
      /\ AtHand(g, x) /\ x.mode = "build" /\ h.failed = TRUE
      /\ h.plan = IF x.hop # Last THEN Cleanup("try") ELSE <<>>
      /\ h.op = g.op /\ h.read = g.read /\ h.gen = g.gen
  BY DEF Types, Refused, Moved
<1>2. Doing(g)
  OBVIOUS
<1> HIDE DEF g, h
<1>3. CASE g.op = "create"
  <2>1. ASSUME ~ disturbed
        PROVE  row = [status |-> "active", gen |-> g.gen] /\ Deploying(svc, chain, h)
    <3>1. row = [status |-> "active", gen |-> g.gen] /\ Deploying(svc, chain, g)
      BY <1>2, <1>3, <2>1 DEF Doing
    <3>2. QED
      BY <1>1, <3>1, DeployRefused
  <2>2. Deploying(svc, chain, h) => Deploying(svc', chain', h)
    BY <1>1
  <2>3. QED
    BY <1>1, <1>3, <2>1, <2>2 DEF Doing, h
<1>4. CASE g.op = "update" /\ g.read.status = "saved"
  <2>1. row = [status |-> "active", gen |-> g.gen] /\ Deploying(svc, chain, g)
    BY <1>2, <1>4 DEF Doing
  <2>2. Deploying(svc, chain, h)
    BY <1>1, <2>1, DeployRefused
  <2>3. Deploying(svc', chain', h)
    BY <1>1, <2>2
  <2>4. QED
    BY <1>1, <1>4, <2>1, <2>3 DEF Doing, h
<1>5. CASE g.op = "update" /\ g.read.status # "saved"
  <2>1. x.mode = "must"
    BY <1>1, <1>2, <1>5, UpdateOn DEF Doing
  <2>2. QED
    BY <1>1, <2>1
<1>6. CASE g.op \in {"delete", "force"}
  <2> DEFINE mode == IF g.op = "delete" THEN "must" ELSE "try"
  <2>1. Taking(g.plan, mode)
    BY <1>2, <1>6 DEF Doing
  <2>2. mode \in {"must", "try"}
    OBVIOUS
  <2> HIDE DEF mode
  <2>3. x.mode = mode
    BY <1>1, <2>1, <2>2, TakingOn
  <2>4. QED
    BY <1>1, <2>2, <2>3
<1>7. CASE g.op \in {"pause", "resume"}
  <2>1. ASSUME ~ disturbed PROVE FALSE
    <3>1. Switching(svc, chain, g, row)
      BY <1>2, <1>7, <2>1 DEF Doing
    <3>2. x.mode = "must"
      BY <1>1, <3>1, InHand DEF Switching
    <3>3. QED
      BY <1>1, <3>2
  <2>2. QED
    BY <1>1, <1>7, <2>1 DEF Doing, h
<1>8. CASE g.op = "report"
  BY <1>1, <1>2, <1>8 DEF Doing, h
<1>9. QED
  BY <1>3, <1>4, <1>5, <1>6, <1>7, <1>8 DEF JobOps, AllOps, g

LEMMA SameNodes ==
    ASSUME Nodes(svc, chain), row' = row,
           \A k \in Hops : svc'[k] = svc[k] /\ chain'[k] = chain[k]
    PROVE  (Agree => Agree') /\ (Behind(svc, chain) => Behind(svc', chain'))
<1>1. \A g, open : Whole(g, open) => Whole(g, open)'
  BY DEF Whole
<1>2. Bare => Bare'
  BY DEF Bare
<1>3. Behind(svc, chain) => Behind(svc', chain')
  BY Hopwise DEF Behind, Fits
<1>4. Agree => Agree'
  BY <1>1, <1>2 DEF Agree
<1>5. QED
  BY <1>3, <1>4

\* A reconcile gives the chain.
LEMMA SyncOn ==
    ASSUME NEW s, NEW c, Nodes(s, c), NEW h \in Hops, NEW g, NEW x, AtHand(g, x),
           g.gen \in Gens,
           \A i \in 1..Len(g.plan) :
              g.plan[i].hop = h /\ g.plan[i].mode = "sync" /\ g.plan[i].cmd \in Adding,
           h < Last /\ ~ Todo(g.plan, Adding, "chain", h) => c[h] = g.gen \/ g.failed,
           ~ Todo(g.plan, Adding, "svc", h) => s[h] # None \/ g.failed,
           NEW k, Goes(g, k, x, Did(s, c, x, g.gen).answer),
           NEW s2, s2 = SvcAfter(s, c, x, g.gen), NEW c2, c2 = ChainAfter(s, c, x, g.gen)
    PROVE  /\ Nodes(s2, c2)
           /\ \A i \in 1..Len(k.plan) :
                k.plan[i].hop = h /\ k.plan[i].mode = "sync" /\ k.plan[i].cmd \in Adding
           /\ h < Last /\ ~ Todo(k.plan, Adding, "chain", h) => c2[h] = g.gen \/ k.failed
           /\ ~ Todo(k.plan, Adding, "svc", h) => s2[h] # None \/ k.failed
           /\ g.failed => k.failed
           /\ s[h] # None /\ (h < Last => c[h] = g.gen) =>
                \A n \in Hops : s2[n] = s[n] /\ c2[n] = c[n]
<1> DEFINE a == Did(s, c, x, g.gen).answer
           p == g.plan
           q == Tail(g.plan)
           Same == \A n \in Hops : s2[n] = s[n] /\ c2[n] = c[n]
<1>1. /\ p \in Seq(AnyStep) /\ p # <<>> /\ x = Head(p) /\ x \in AnyStep /\ x.cmd # "save"
      /\ q \in Seq(AnyStep) /\ x = p[1] /\ 1 \in 1..Len(p)
      /\ Len(p) \in Nat /\ Len(q) = Len(p) - 1
      /\ \A i \in 1..(Len(p) - 1) : q[i] = p[i + 1]
      /\ (g.gen \in Gens \/ x.cmd \in {"delete", "pause"})
  BY InHand DEF AtHand
<1>2. \A i \in 1..Len(p) : p[i].hop = h /\ p[i].mode = "sync" /\ p[i].cmd \in Adding
  OBVIOUS
<1>3. /\ x.hop = h /\ x.mode = "sync" /\ x.cmd \in Adding
      /\ x.what \in {"svc", "chain"} /\ (x.what = "svc" => x.cmd = "add")
      /\ (x.what = "chain" => h < Last)
  BY <1>1, <1>2, Commands DEF Adding
<1>4. /\ Nodes(s2, c2)
      /\ \A n \in Hops : n # h \/ x.what # "svc" => s2[n] = s[n]
      /\ \A n \in Hops : n # h \/ x.what # "chain" => c2[n] = c[n]
  BY <1>1, <1>3, Effect
<1>5. \A what : Todo(p, Adding, what, h) <=> what = x.what \/ Todo(q, Adding, what, h)
  <2>1. SUFFICES ASSUME NEW what
                 PROVE  Todo(p, Adding, what, h) <=> what = x.what \/ Todo(q, Adding, what, h)
    OBVIOUS
  <2>2. Todo(p, Adding, what, h) <=>
             \/ Head(p).cmd \in Adding /\ Head(p).what = what /\ Head(p).hop = h
             \/ Todo(Tail(p), Adding, what, h)
    <3>1. p \in Seq(AnyStep) /\ p # <<>>
      BY <1>1
    <3> HIDE DEF p
    <3>2. QED
      BY <3>1, TodoHead
  <2>3. QED
    BY <1>1, <1>3, <2>2
<1>6. \A i \in 1..Len(q) : q[i].hop = h /\ q[i].mode = "sync" /\ q[i].cmd \in Adding
  <2>1. SUFFICES ASSUME NEW i \in 1..Len(q)
                 PROVE  q[i].hop = h /\ q[i].mode = "sync" /\ q[i].cmd \in Adding
    OBVIOUS
  <2>2. i \in 1..(Len(p) - 1) /\ i + 1 \in 1..Len(p)
    BY <1>1
  <2>3. QED
    BY <1>1, <1>2, <2>2
<1>7. /\ h < Last /\ ~ Todo(p, Adding, "chain", h) => c[h] = g.gen \/ g.failed
      /\ ~ Todo(p, Adding, "svc", h) => s[h] # None \/ g.failed
      /\ g.gen \in Gens /\ g.gen # 0
  BY RouteAssumption DEF Gens
<1>8. CASE x.what = "svc"
  <2>1. /\ s[h] = None => a = "ok" /\ s2[h] = Service(g.gen)
        /\ s[h] # None => a = "already_exists" /\ s2[h] = s[h]
    BY <1>1, <1>3, <1>8, ServiceEffect
  <2>2. s2[h] # None
    BY <1>7, <2>1, ServiceRows
  <2>3. Accepts(x, a)
    BY <1>3, <1>8, <2>1 DEF Accepts
  <2>4. k.plan = q /\ k.failed = g.failed
    BY <2>3 DEF Goes
  <2>5. c2[h] = c[h] /\ (Todo(p, Adding, "chain", h) <=> Todo(q, Adding, "chain", h))
    BY <1>4, <1>5, <1>8
  <2>6. s[h] # None => Same
    BY <1>4, <1>8, <2>1
  <2> HIDE DEF p, q, Same
  <2>7. QED
    BY <1>4, <1>6, <1>7, <2>2, <2>4, <2>5, <2>6 DEF Same
<1>9. CASE x.what = "chain" /\ x.cmd = "add" /\ c[h] # 0
  <2> DEFINE u == Step("update", "chain", h, "sync")
  <2>1. a = "already_exists" /\ c2[h] = c[h]
    BY <1>1, <1>3, <1>9, ChainEffect
  <2>2. k.plan = <<u>> \o q /\ k.failed = g.failed
    BY <1>3, <1>9, <2>1 DEF Goes, Accepts
  <2>3. u \in AnyStep /\ u.cmd \in Adding /\ u.what = "chain" /\ u.hop = h /\ u.mode = "sync"
    BY <1>3, <1>9, RouteAssumption DEF AnyStep, Step, Modes, Adding, Hops
  <2>4. Same
    BY <1>4, <1>9, <2>1
  <2> HIDE DEF p, q, u, Same
  <2>5. /\ <<u>> \o q \in Seq(AnyStep) /\ Len(<<u>> \o q) = Len(q) + 1
        /\ (<<u>> \o q)[1] = u /\ Len(q) \in Nat
        /\ \A i \in 1..Len(q) : (<<u>> \o q)[i + 1] = q[i]
    BY <1>1, <2>3, InFront
  <2>6. \A i \in 1..Len(k.plan) :
           k.plan[i].hop = h /\ k.plan[i].mode = "sync" /\ k.plan[i].cmd \in Adding
    <3>1. SUFFICES ASSUME NEW i \in 1..Len(k.plan)
          PROVE  k.plan[i].hop = h /\ k.plan[i].mode = "sync" /\ k.plan[i].cmd \in Adding
      OBVIOUS
    <3>2. i = 1 \/ (i - 1 \in 1..Len(q) /\ (i - 1) + 1 = i)
      BY <2>2, <2>5
    <3>3. QED
      BY <1>6, <2>2, <2>3, <2>5, <3>2
  <2>7. Todo(k.plan, Adding, "chain", h)
    <3>1. 1 \in 1..Len(k.plan) /\ k.plan[1] = u
      BY <2>2, <2>5
    <3>2. QED
      BY <2>3, <3>1 DEF Todo
  <2>8. Todo(p, Adding, "svc", h) => Todo(k.plan, Adding, "svc", h)
    <3>1. SUFFICES ASSUME Todo(q, Adding, "svc", h) PROVE Todo(k.plan, Adding, "svc", h)
      BY <1>5, <1>9
    <3>2. PICK i \in 1..Len(q) : q[i].cmd \in Adding /\ q[i].what = "svc" /\ q[i].hop = h
      BY <3>1 DEF Todo
    <3>3. i + 1 \in 1..Len(k.plan) /\ k.plan[i + 1] = q[i]
      BY <2>2, <2>5
    <3>4. QED
      BY <3>2, <3>3 DEF Todo
  <2>9. s2[h] = s[h]
    BY <1>4, <1>9
  <2>10. QED
    BY <1>4, <1>7, <2>2, <2>4, <2>6, <2>7, <2>8, <2>9 DEF Same
<1>10. CASE x.what = "chain" /\ ~ (x.cmd = "add" /\ c[h] # 0)
  <2>1. /\ x.cmd = "update" /\ c[h] = 0 => a = "not_found" /\ c2[h] = c[h]
        /\ x.cmd = "update" /\ c[h] # 0 => a = "ok" /\ c2[h] = g.gen
        /\ x.cmd = "add" => a = "ok" /\ c2[h] = g.gen
    BY <1>1, <1>3, <1>10, ChainEffect
  <2>2. s2[h] = s[h] /\ (Todo(p, Adding, "svc", h) <=> Todo(q, Adding, "svc", h))
    BY <1>4, <1>5, <1>10
  <2>3. c[h] = g.gen => Same
    BY <1>3, <1>4, <1>7, <1>10, <2>1 DEF Adding
  <2>4. CASE a = "ok"
    <3>1. k.plan = q /\ k.failed = g.failed
      BY <2>4 DEF Goes, Accepts
    <3>2. c2[h] = g.gen
      BY <1>3, <2>1, <2>4 DEF Adding
    <3> HIDE DEF p, q, Same, a
    <3>3. QED
      BY <1>3, <1>4, <1>6, <1>7, <1>10, <2>2, <2>3, <3>1, <3>2 DEF Same
  <2>5. CASE a # "ok"
    <3>1. x.cmd = "update" /\ a = "not_found" /\ ~ Accepts(x, a)
      BY <1>3, <2>1, <2>5 DEF Accepts, Adding
    <3>2. k.failed = TRUE /\ k.plan = <<>>
      BY <1>3, <3>1 DEF Goes
    <3> HIDE DEF p, q, Same, a
    <3>3. QED
      BY <1>3, <1>4, <1>10, <2>3, <3>2 DEF Same
  <2>6. QED
    BY <2>4, <2>5
<1>11. QED
  BY <1>3, <1>8, <1>9, <1>10

\* While nothing is disturbed a reconcile finds everything in place.
LEMMA InPlace ==
    ASSUME Types, Exists, Agree, row.status # "error"
    PROVE  /\ row.gen \in Gens /\ row.status \in {"active", "paused"}
           /\ \A h \in Hops : svc[h] # None /\ (h < Last => chain[h] = row.gen)
           /\ row.status = "paused" => \A h \in Hops : ~ svc[h].open
<1>1. RowOK(row) /\ Nodes(svc, chain) /\ row.gen \in Gens /\ row.gen # 0
      /\ row.status \in {"active", "paused"}
  BY ExistsLive, RouteAssumption DEF Types, RowOK, Live, Gens
<1>2. Fits(svc, chain, row.gen) /\ \A h \in Hops : svc[h].open <=> row.status = "active"
  BY <1>1, AgreeIs
<1>3. \A h \in Hops : svc[h] # None /\ (h < Last => chain[h] = row.gen)
  BY <1>1, <1>2, ServiceRows DEF Fits
<1>4. QED
  BY <1>1, <1>2, <1>3

\* The reconcile of a node, when the node has answered.
LEMMA MendingSettled ==
    ASSUME Types, NEW h \in Hops, NEW x, AtHand(job[h], x), job[h].op \in SyncOps,
           Mending(job[h], h), Settled(h, x), row' = row, ~ disturbed => Behind(svc, chain)
    PROVE  Mending(job[h], h)' /\ (~ disturbed' => Behind(svc', chain'))
<1> DEFINE g == job[h]
           k == job'[h]
           d == Did(svc, chain, x, g.gen)
           Still == \A n \in Hops : svc'[n] = svc[n] /\ chain'[n] = chain[n]
<1>1. /\ Nodes(svc, chain) /\ RowOK(row)
      /\ svc' = SvcAfter(svc, chain, x, g.gen) /\ chain' = ChainAfter(svc, chain, x, g.gen)
      /\ Goes(g, k, x, d.answer) /\ disturbed' = disturbed
      /\ AtHand(g, x) /\ Mending(g, h)
  BY DEF Types, Settled
<1>2. k.op = g.op /\ k.read = g.read /\ k.gen = g.gen
  BY <1>1 DEF Goes
<1>3. (Exists)' <=> Exists
  BY DEF Exists
<1>4. /\ g.plan \in Seq(AnyStep) /\ x \in AnyStep /\ g.plan # <<>> /\ x.cmd # "save"
      /\ Tail(g.plan) \in Seq(AnyStep) /\ x = g.plan[1] /\ 1 \in 1..Len(g.plan)
      /\ Len(g.plan) \in Nat /\ Len(Tail(g.plan)) = Len(g.plan) - 1
      /\ \A i \in 1..(Len(g.plan) - 1) : Tail(g.plan)[i] = g.plan[i + 1]
      /\ (g.gen \in Gens \/ x.cmd \in {"delete", "pause"})
  BY <1>1, InHand DEF AtHand
<1>5. \A i \in 1..Len(Tail(g.plan)) : \E n \in 1..Len(g.plan) : Tail(g.plan)[i] = g.plan[n]
  BY <1>4
<1>6. ASSUME Still PROVE (Agree => Agree') /\ (~ disturbed' => Behind(svc', chain'))
  BY <1>1, <1>6, SameNodes
<1> HIDE DEF g, k, d, Still
<1>7. CASE g.op = "sync"
  <2>1. /\ row = g.read /\ g.gen = row.gen /\ Exists
        /\ \A i \in 1..Len(g.plan) :
              g.plan[i].hop = h /\ g.plan[i].mode = "sync" /\ g.plan[i].cmd \in Adding
        /\ h < Last /\ ~ Todo(g.plan, Adding, "chain", h) => chain[h] = g.gen \/ g.failed
        /\ ~ Todo(g.plan, Adding, "svc", h) => svc[h] # None \/ g.failed
    BY <1>1, <1>4, <1>7 DEF Mending
  <2>2. g.gen \in Gens
    BY <1>1, <2>1, ExistsLive DEF RowOK
  <2>3. /\ Nodes(svc', chain')
        /\ \A i \in 1..Len(k.plan) :
             k.plan[i].hop = h /\ k.plan[i].mode = "sync" /\ k.plan[i].cmd \in Adding
        /\ h < Last /\ ~ Todo(k.plan, Adding, "chain", h) => chain'[h] = g.gen \/ k.failed
        /\ ~ Todo(k.plan, Adding, "svc", h) => svc'[h] # None \/ k.failed
        /\ g.failed => k.failed
        /\ svc[h] # None /\ (h < Last => chain[h] = g.gen) => Still
    BY <1>1, <2>1, <2>2, SyncOn DEF d, Still
  <2>4. ASSUME ~ disturbed PROVE Agree' /\ row.status # "error" /\ Behind(svc', chain')
    <3>1. Agree /\ row.status # "error"
      BY <1>1, <1>7, <2>4 DEF Mending, SyncOps
    <3>2. Still
      BY <2>1, <2>3, <3>1, InPlace
    <3>3. QED
      BY <1>1, <1>6, <2>4, <3>1, <3>2
  <2>5. QED
    BY <1>1, <1>2, <1>3, <1>7, <2>1, <2>3, <2>4 DEF Mending, k
<1>8. CASE g.op = "repause"
  <2> DEFINE y == Step("pause", "svc", h, "best")
  <2>1. /\ \A i \in 1..Len(g.plan) : g.plan[i] = y
        /\ row.status = "paused" /\ Exists
        /\ ~ g.failed => svc[h] # None /\ (h < Last => chain[h] = row.gen)
    BY <1>1, <1>4, <1>8 DEF Mending, Exists
  <2>2. x = y /\ \A i \in 1..Len(Tail(g.plan)) : Tail(g.plan)[i] = y
    <3> HIDE DEF y
    <3>1. QED
      BY <1>4, <1>5, <2>1
  <2>3. x.cmd = "pause" /\ x.what = "svc" /\ x.hop = h /\ x.mode = "best"
    BY <2>2 DEF Step
  <2>4. k.plan = Tail(g.plan) /\ k.failed = g.failed
    BY <1>1, <2>3 DEF Goes, Accepts
  <2>5. /\ \A n \in Hops : n # h => svc'[n] = svc[n]
        /\ \A n \in Hops : chain'[n] = chain[n]
        /\ svc' \in [Hops -> ServiceRow]
    BY <1>1, <1>4, <2>3, Effect DEF Nodes
  <2>6. /\ svc[h] = None => svc'[h] = svc[h]
        /\ svc[h] # None => svc'[h].gen = svc[h].gen /\ ~ svc'[h].open
    BY <1>1, <1>4, <2>3, ServiceEffect
  <2>7. svc[h] # None => svc'[h] # None /\ ~ svc'[h].open
    BY <1>1, <2>5, <2>6, ServiceRows DEF Nodes
  <2>8. svc[h] # None /\ ~ svc[h].open => Still
    <3>1. SUFFICES ASSUME svc[h] # None, ~ svc[h].open PROVE svc'[h] = svc[h]
      BY <2>5 DEF Still
    <3>2. svc[h] \in ServiceRow /\ svc'[h] \in ServiceRow
      BY <1>1, <2>5 DEF Nodes
    <3>3. /\ svc[h] = [gen |-> svc[h].gen, open |-> svc[h].open]
          /\ svc'[h] = [gen |-> svc'[h].gen, open |-> svc'[h].open]
          /\ svc[h].open = FALSE /\ svc'[h].open = FALSE
      BY <2>6, <3>1, <3>2, ServiceRows
    <3>4. QED
      BY <2>6, <3>1, <3>3
  <2>9. ASSUME ~ disturbed PROVE Agree' /\ row.status # "error" /\ Behind(svc', chain')
    <3>1. Agree /\ row.status # "error"
      BY <1>1, <1>8, <2>9 DEF Mending, SyncOps
    <3>2. Still
      BY <2>1, <2>8, <3>1, InPlace
    <3>3. QED
      BY <1>1, <1>6, <2>9, <3>1, <3>2
  <2>10. QED
    BY <1>1, <1>2, <1>3, <1>8, <2>1, <2>2, <2>4, <2>5, <2>7, <2>9 DEF Mending, k
<1>9. CASE g.op = "orphans"
  <2> DEFINE y == Step("delete", "svc", h, "best")
  <2>1. (\A i \in 1..Len(g.plan) : g.plan[i] = y) /\ row = Gone /\ disturbed
    BY <1>1, <1>4, <1>9 DEF Mending
  <2>2. x = y /\ \A i \in 1..Len(Tail(g.plan)) : Tail(g.plan)[i] = y
    <3> HIDE DEF y
    <3>1. QED
      BY <1>4, <1>5, <2>1
  <2>3. k.plan = Tail(g.plan)
    BY <1>1, <2>2 DEF Goes, Accepts, Step
  <2>4. ~ Exists
    BY <2>1 DEF Exists, Gone
  <2>5. QED
    BY <1>1, <1>2, <1>3, <1>9, <2>1, <2>2, <2>3, <2>4 DEF Mending, k
<1>10. QED
  BY <1>7, <1>8, <1>9 DEF SyncOps, g

LEMMA MendingRefused ==
    ASSUME NEW h \in Hops, NEW x, AtHand(job[h], x), job[h].op \in SyncOps,
           Mending(job[h], h), Refused(h, x)
    PROVE  FALSE
<1> DEFINE g == job[h]
<1>1. x = g.plan[1] /\ 1 \in 1..Len(g.plan) /\ x.mode = "build"
  BY InHand DEF Refused
<1>2. \A i \in 1..Len(g.plan) : g.plan[i].mode # "build"
  BY DEF Mending, SyncOps, Step
<1>3. QED
  BY <1>1, <1>2

LEMMA CommandKnows == ASSUME IInv, NEW j \in Runners, Command(j) PROVE IInv'
<1> DEFINE x == Head(job[j].plan)
<1>1. Types /\ UndisturbedClean /\ Known /\ (~ disturbed => Behind(svc, chain)) /\ Types'
  BY EntryIs, CommandTypes DEF IInv
<1>2. /\ job[j].plan # <<>> /\ x.cmd # "save" /\ Moved(j) /\ row' = row
      /\ (disturbed => disturbed') /\ (Settled(j, x) \/ Refused(j, x) \/ Lost(j))
  BY <1>1, CommandIs
<1>3. job[j] # NoJob /\ JobOK(job[j]) /\ AtHand(job[j], x)
  BY <1>1, <1>2, BusyStep DEF AtHand
<1>4. Busy' = Busy /\ \A k \in Runners \ {j} : job'[k] = job[k]
  BY <1>1, <1>2, <1>3, MovedTypes DEF Types
<1>5. /\ j \in Jobs => job[j].op \in JobOps
      /\ j \in Hops => job[j].op \in SyncOps
  BY <1>1, <1>3, BusyOnes DEF Types
<1> HIDE DEF x
<1>6. CASE Lost(j)
  BY <1>1, <1>2, <1>3, <1>4, <1>6, Keeps DEF Lost, Moved
<1>7. CASE Settled(j, x) \/ Refused(j, x)
  <2>1. job'[j].clean = job[j].clean /\ disturbed' = disturbed
    BY <1>7 DEF Settled, Refused, Goes
  <2>2. ~ job[j].clean => disturbed
    BY <1>1, <1>3 DEF UndisturbedClean, Busy
  <2>3. ASSUME job[j].clean, j \in Jobs
        PROVE  Doing(job[j])' /\ (~ disturbed' => Behind(svc', chain'))
    <3>1. Doing(job[j])
      BY <1>1, <2>3 DEF Known
    <3>2. QED
      BY <1>1, <1>2, <1>3, <1>5, <1>7, <2>3, <3>1, DoingSettled, DoingRefused
  <2>4. ASSUME job[j].clean, j \in Hops
        PROVE  Mending(job[j], j)' /\ (~ disturbed' => Behind(svc', chain'))
    <3>1. Mending(job[j], j)
      BY <1>1, <2>4 DEF Known
    <3>2. QED
      BY <1>1, <1>2, <1>3, <1>5, <1>7, <2>4, <3>1, MendingSettled, MendingRefused
  <2>5. ~ disturbed' => Behind(svc', chain')
    BY <2>1, <2>2, <2>3, <2>4, Hopwise
  <2>6. QED
    BY <1>1, <1>2, <1>3, <1>4, <2>1, <2>2, <2>3, <2>4, <2>5, Keeps
<1>8. QED
  BY <1>2, <1>6, <1>7

\* An update saves the row when all is taken back, and begins to deploy.
LEMMA SaveUpdateKnows == ASSUME IInv, NEW j \in Jobs, SaveUpdate(j) PROVE IInv'
<1> DEFINE g == job[j]
           h == job'[j]
<1>1. Types /\ UndisturbedClean /\ Known /\ (~ disturbed => Behind(svc, chain)) /\ Types'
  BY EntryIs, SaveUpdateTypes DEF IInv
<1>2. /\ g # NoJob /\ g.plan # <<>> /\ Head(g.plan).cmd = "save"
      /\ job' = [job EXCEPT ![j] = h] /\ JobOK(h)
      /\ h.op = g.op /\ h.gen = g.gen /\ h.clean = g.clean /\ h.failed = g.failed
      /\ h.plan = Tail(g.plan) /\ h.read.status = "saved"
      /\ g.gen \in Gens /\ SetRow("active", g.gen)
  BY <1>1, SaveUpdateIs
<1>3. /\ svc' = svc /\ chain' = chain /\ disturbed' = disturbed
      /\ j \in Runners /\ j \notin Hops /\ g.op \in JobOps
      /\ g.plan \in Seq(AnyStep) /\ JobOK(g)
  BY <1>1, <1>2, BusyOnes, Hopwise DEF SaveUpdate, Types, JobsOK, JobOK
<1>4. Busy' = Busy /\ \A k \in Runners \ {j} : job'[k] = job[k]
  BY <1>1, <1>2, <1>3, Changes DEF Types
<1>5. ~ g.clean => disturbed
  BY <1>1, <1>2, <1>3 DEF UndisturbedClean, Busy
<1> HIDE DEF g, h
<1>6. ASSUME g.clean PROVE Doing(job[j])'
  <2>1. Doing(g)
    BY <1>1, <1>6 DEF Known, g
  <2>2. 1 \in 1..Len(g.plan) /\ g.plan[1].cmd = "save" /\ Head(g.plan) = g.plan[1]
    BY <1>2, <1>3, HeadTail
  <2>3. CASE g.op = "update" /\ g.read.status # "saved"
    <3>1. /\ Exists /\ ~ g.failed /\ UpdatePlan(g.plan) /\ Cleared(svc, chain, g.plan)
      BY <2>1, <2>3 DEF Doing
    <3>2. SavedAt(g.plan) = 1
      <4>1. Len(Build) \in Nat /\ Len(g.plan) \in Nat /\ SavedAt(g.plan) >= 1
        BY <1>2, <1>3, <3>1, BuildSteps, HeadTail, RouteAssumption DEF UpdatePlan
      <4>2. SavedAt(g.plan) \in Nat
        BY <4>1 DEF SavedAt
      <4>3. 1 \notin 1..(SavedAt(g.plan) - 1)
        BY <2>2, <3>1 DEF UpdatePlan
      <4>4. QED
        BY <4>1, <4>2, <4>3
    <3>3. h.plan = Build /\ \A i \in 1..Len(g.plan) : g.plan[i].cmd # "delete"
      <4>1. /\ Len(g.plan) \in Nat /\ Len(Tail(g.plan)) = Len(g.plan) - 1
            /\ Tail(g.plan) \in Seq(AnyStep)
            /\ \A i \in 1..(Len(g.plan) - 1) : Tail(g.plan)[i] = g.plan[i + 1]
        BY <1>2, <1>3, HeadTail
      <4>2. Len(g.plan) - 1 = Len(Build) /\ Build \in Seq(AnyStep)
            /\ \A i \in 1..Len(Build) : g.plan[1 + i] = Build[i]
        <5>1. Build \in Seq(AnyStep) /\ Len(Build) \in Nat
          BY BuildSteps, RouteAssumption
        <5>2. Len(g.plan) - Len(Build) = 1
          BY <3>2 DEF SavedAt
        <5>3. \A i \in 1..Len(Build) : g.plan[SavedAt(g.plan) + i] = Build[i]
          BY <3>1 DEF UpdatePlan
        <5>4. QED
          BY <3>2, <4>1, <5>1, <5>2, <5>3
      <4>3. Len(Tail(g.plan)) = Len(Build) /\ \A i \in 1..Len(Build) : Tail(g.plan)[i] = Build[i]
        BY <4>1, <4>2
      <4>4. h.plan = Build
        BY <1>2, <4>1, <4>2, <4>3
      <4>5. ASSUME NEW i \in 1..Len(g.plan) PROVE g.plan[i].cmd # "delete"
        <5>1. i = 1 \/ (i - 1 \in 1..Len(Build) /\ 1 + (i - 1) = i)
          BY <4>1, <4>2
        <5>2. \A n \in 1..Len(Build) : Build[n].cmd = "add"
          BY BuildAll DEF BuildPlan
        <5>3. QED
          BY <2>2, <4>2, <5>1, <5>2
      <4>6. QED
        BY <4>4, <4>5
    <3>4. Empty(svc, chain)
      <4>1. \A what, n : ~ Todo(g.plan, {"delete"}, what, n)
        BY <3>3 DEF Todo
      <4>2. QED
        BY <1>1, <3>1, <4>1, AllCleared DEF Types
    <3>5. BuildPlan(h.plan) /\ Built(svc, chain, h.plan, g.gen)
      BY <3>3, <3>4, BuildAll, Begun
    <3>6. Deploying(svc', chain', h)
      BY <1>2, <1>3, <3>1, <3>5 DEF Deploying
    <3>7. row' = [status |-> "active", gen |-> g.gen]
      BY <1>2, <3>1 DEF SetRow
    <3>8. QED
      BY <1>2, <2>3, <3>6, <3>7 DEF Doing, h
  <2>4. CASE g.op = "update" /\ g.read.status = "saved"
    <3>1. Deploying(svc, chain, g)
      BY <2>1, <2>4 DEF Doing
    <3>2. g.plan[1].cmd \in {"delete", "add"}
      BY <2>2, <3>1 DEF Deploying, Taking, BuildPlan
    <3>3. QED
      BY <2>2, <3>2
  <2>5. CASE g.op \in {"delete", "force"}
    <3>1. \E mode : Taking(g.plan, mode)
      BY <2>1, <2>5 DEF Doing
    <3>2. QED
      BY <2>2, <3>1 DEF Taking
  <2>6. CASE g.op \in {"create", "pause", "resume", "report"}
    <3>1. ASSUME ~ disturbed PROVE FALSE
      <4>1. CASE g.op = "create"
        <5>1. Deploying(svc, chain, g)
          BY <2>1, <3>1, <4>1 DEF Doing
        <5>2. g.plan[1].cmd \in {"delete", "add"}
          BY <2>2, <5>1 DEF Deploying, Taking, BuildPlan
        <5>3. QED
          BY <2>2, <5>2
      <4>2. CASE g.op \in {"pause", "resume"}
        <5>1. Switching(svc, chain, g, row)
          BY <2>1, <3>1, <4>2 DEF Doing
        <5>2. QED
          BY <2>2, <4>2, <5>1 DEF Switching
      <4>3. CASE g.op = "report"
        BY <2>1, <3>1, <4>3 DEF Doing
      <4>4. QED
        BY <2>6, <4>1, <4>2, <4>3
    <3>2. QED
      BY <1>2, <1>3, <2>6, <3>1 DEF Doing, h
  <2>7. QED
    BY <1>3, <2>3, <2>4, <2>5, <2>6 DEF JobOps, AllOps
<1>7. QED
  BY <1>1, <1>2, <1>3, <1>4, <1>5, <1>6, Keeps DEF g, h

LEMMA BeginIs ==
    ASSUME Types, NEW j \in Runners, NEW op, op # "idle", NEW g, NEW plan, Begin(j, op, g, plan)
    PROVE  /\ job[j] = NoJob /\ job'[j] # NoJob
           /\ job'[j].op = op /\ job'[j].read = row /\ job'[j].gen = g /\ job'[j].plan = plan
           /\ job'[j].failed = FALSE /\ (job'[j].clean <=> Busy = {})
           /\ \A k \in Runners \ {j} : /\ job'[k] = NoJob <=> job[k] = NoJob
                                       /\ job'[k].clean => job'[k] = NoJob
<1> DEFINE b == (Busy = {})
           r == [op |-> op, read |-> row, gen |-> g, plan |-> plan, failed |-> FALSE, clean |-> b]
<1>1. /\ r.op = op /\ r.read = row /\ r.gen = g /\ r.plan = plan
      /\ r.failed = FALSE /\ r.clean = b /\ b \in BOOLEAN
  OBVIOUS
<1>2. job' = [Overlapped EXCEPT ![j] = r] /\ job[j] = NoJob
  BY DEF Begin
<1>3. r # NoJob
  BY <1>1 DEF NoJob
<1> HIDE DEF r
<1>4. job'[j] = r /\ \A k \in Runners \ {j} : job'[k] = Overlapped[k]
  BY <1>2 DEF Overlapped
<1>5. \A k \in Runners \ {j} : /\ job'[k] = NoJob <=> job[k] = NoJob
                               /\ job'[k].clean => job'[k] = NoJob
  BY <1>4, Overlaps DEF Types
<1>6. QED
  BY <1>1, <1>2, <1>3, <1>4, <1>5 DEF b

LEMMA StartJobKnows ==
    ASSUME IInv, NEW j \in Jobs, NEW op \in Ops, NEW g \in Gens, StartJob(j, op, g) PROVE IInv'
<1> DEFINE h == job'[j]
<1>1. Types /\ UndisturbedAgree /\ (~ disturbed => Behind(svc, chain)) /\ Types'
  BY EntryIs, StartJobTypes DEF IInv
<1>2. op \in AllOps \ {"report"} /\ op # "idle" /\ j \in Runners /\ j \notin Hops
  BY RouteAssumption, Hopwise DEF StartJob, Begins, AllOps
<1>3. /\ Begins(op, g) /\ Begin(j, op, g, PlanOf(op))
      /\ row' = IF op = "create" THEN [status |-> "active", gen |-> g] ELSE row
      /\ disturbed' = (disturbed \/ Busy # {})
      /\ svc' = svc /\ chain' = chain
  BY DEF StartJob
<1>4. disturbed \in BOOLEAN /\ RowOK(row) /\ Nodes(svc, chain)
  BY <1>1 DEF Types
<1>5. (disturbed => disturbed') /\ (Busy # {} => disturbed') /\ (~ disturbed' => ~ disturbed)
  BY <1>3, <1>4
<1>6. /\ job[j] = NoJob /\ h # NoJob
      /\ h.op = op /\ h.read = row /\ h.gen = g /\ h.plan = PlanOf(op)
      /\ h.failed = FALSE /\ (h.clean <=> Busy = {})
      /\ \A k \in Runners \ {j} : /\ job'[k] = NoJob <=> job[k] = NoJob
                                  /\ job'[k].clean => job'[k] = NoJob
  BY <1>1, <1>2, <1>3, BeginIs
<1> HIDE DEF h
<1>7. ASSUME Busy = {} PROVE Doing(job[j])'
  <2>1. ~ disturbed' => Agree
    BY <1>1, <1>5, <1>7 DEF UndisturbedAgree
  <2>2. CASE op = "create"
    <3>1. row.status = "unborn"
      BY <1>3, <2>2 DEF Begins, Unborn
    <3>2. ASSUME ~ disturbed' PROVE Deploying(svc, chain, h)
      <4>1. Empty(svc, chain)
        BY <1>4, <2>1, <3>1, <3>2, AgreeIs
      <4>2. h.plan = Build
        BY <1>6, <2>2 DEF PlanOf
      <4>3. QED
        BY <1>6, <4>1, <4>2, BuildAll, Begun DEF Deploying
    <3>3. Deploying(svc, chain, h) => Deploying(svc', chain', h)
      BY <1>3
    <3>4. QED
      BY <1>3, <1>6, <2>2, <3>2, <3>3 DEF Doing, h
  <2>3. CASE op = "update"
    <3>1. Exists /\ row.status # "saved" /\ (Exists)'
      BY <1>3, <2>3 DEF Begins, Exists
    <3>2. UpdatePlan(h.plan) /\ Cleared(svc', chain', h.plan) /\ EntryFirst(svc', h.plan)
      BY <1>6, <2>3, UpdateSteps, FreshUpdate
    <3>3. QED
      BY <1>6, <2>3, <3>1, <3>2 DEF Doing, h
  <2>4. CASE op \in {"delete", "force"}
    <3> DEFINE mode == IF op = "delete" THEN "must" ELSE "try"
    <3>1. (Exists)'
      BY <1>3, <2>4 DEF Begins, Exists
    <3>2. mode \in Modes
      BY DEF Modes
    <3>3. h.plan = Cleanup(mode)
      BY <1>6, <2>4 DEF PlanOf
    <3> HIDE DEF mode
    <3>4. Taking(h.plan, mode) /\ Cleared(svc', chain', h.plan) /\ EntryFirst(svc', h.plan)
      BY <3>2, <3>3, CleanupSteps, FreshCleanup
    <3>5. QED
      BY <1>6, <2>4, <3>1, <3>4 DEF Doing, h, mode
  <2>5. CASE op \in {"pause", "resume"}
    <3>1. Exists /\ (Exists)' /\ row' = row /\ h.plan = Switch(op)
      BY <1>3, <1>6, <2>5 DEF Begins, Exists, PlanOf
    <3>2. /\ Len(h.plan) = Last /\ h.plan # <<>>
          /\ \A i \in 1..Last : h.plan[i] = Step(op, "svc", i, "must")
      <4>1. /\ h.plan \in Seq(AnyStep) /\ Len(h.plan) = Last
            /\ \A i \in 1..Last : h.plan[i] = Step(op, "svc", i, "must")
        BY <2>5, <3>1, SwitchSteps
      <4>2. QED
        BY <4>1, RouteAssumption
    <3>3. \A i \in 1..Len(h.plan) : h.plan[i].cmd = h.op /\ h.plan[i].what = "svc"
                                    /\ h.plan[i].mode = "must"
      BY <1>6, <3>2 DEF Step
    <3>4. \A n \in Hops : Todo(h.plan, {h.op}, "svc", n)
      BY <1>6, <3>2 DEF Step, Todo, Hops
    <3>5. ASSUME ~ disturbed' PROVE Switching(svc', chain', h, row)
      <4>1. Agree
        BY <2>1, <3>5
      <4>2. row.status \in {"active", "paused", "error"}
        BY <3>1 DEF Exists
      <4>3. CASE row.status = "error"
        <5>1. Empty(svc', chain')
          BY <1>3, <1>4, <4>1, <4>3, AgreeIs
        <5>2. QED
          BY <3>2, <3>3, <4>3, <5>1 DEF Switching
      <4>4. CASE row.status # "error"
        <5>1. Fits(svc', chain', row.gen)
          BY <1>3, <1>4, <4>1, <4>2, <4>4, AgreeIs
        <5>2. QED
          BY <1>6, <3>3, <3>4, <4>4, <5>1 DEF Switching
      <4>5. QED
        BY <4>3, <4>4
    <3>6. QED
      BY <1>6, <2>5, <3>1, <3>5 DEF Doing, h
  <2>6. QED
    BY <1>2, <2>2, <2>3, <2>4, <2>5 DEF AllOps
<1>8. ~ disturbed' => Behind(svc', chain')
  BY <1>1, <1>3, <1>5
<1>9. QED
  BY <1>1, <1>2, <1>5, <1>6, <1>7, <1>8, Joins DEF h

\* What nothing disturbed is gone from the nodes, too: they have nothing to report.
LEMMA StartReportKnows ==
    ASSUME IInv, NEW j \in Jobs, NEW h \in Hops, StartReport(j, h) PROVE IInv'
<1>1. Types /\ UndisturbedAgree /\ (~ disturbed => Behind(svc, chain)) /\ Types'
      /\ j \in Runners /\ j \notin Hops
  BY EntryIs, StartReportTypes, Hopwise DEF IInv
<1>2. PICK plan : Begin(j, "report", 0, plan)
  BY DEF StartReport
<1>3. /\ job[j] = NoJob /\ job'[j] # NoJob
      /\ job'[j].op = "report" /\ (job'[j].clean <=> Busy = {})
      /\ \A k \in Runners \ {j} : /\ job'[k] = NoJob <=> job[k] = NoJob
                                  /\ job'[k].clean => job'[k] = NoJob
  BY <1>1, <1>2, BeginIs
<1>4. /\ row = Gone /\ (svc[h] # None \/ chain[h] # 0)
      /\ disturbed' = (disturbed \/ Busy # {}) /\ disturbed \in BOOLEAN
      /\ svc' = svc /\ chain' = chain
  BY <1>1 DEF StartReport, Types
<1>5. (disturbed => disturbed') /\ (Busy # {} => disturbed') /\ (~ disturbed' => ~ disturbed)
  BY <1>4
<1>6. Busy = {} => disturbed
  <2>1. SUFFICES ASSUME Agree PROVE FALSE
    BY <1>1 DEF UndisturbedAgree
  <2>2. Empty(svc, chain)
    BY <1>1, <1>4, <2>1, AgreeIs DEF Types, Gone
  <2>3. QED
    BY <1>4, <2>2 DEF Empty
<1>7. Busy = {} => Doing(job[j])'
  BY <1>3, <1>5, <1>6 DEF Doing
<1>8. ~ disturbed' => Behind(svc', chain')
  BY <1>1, <1>4, <1>5
<1>9. QED
  BY <1>1, <1>3, <1>5, <1>7, <1>8, Joins

LEMMA StartReconcileKnows ==
    ASSUME IInv, NEW h \in Hops, StartReconcile(h) PROVE IInv'
<1> DEFINE p == IF Exists THEN Gentle(h) ELSE <<>>
           k == job'[h]
<1>1. Types /\ UndisturbedAgree /\ (~ disturbed => Behind(svc, chain)) /\ Types'
      /\ h \in Runners /\ h \notin Jobs
  BY EntryIs, StartReconcileTypes, Hopwise DEF IInv
<1>2. /\ Begin(h, "sync", row.gen, p) /\ row' = row /\ svc' = svc /\ chain' = chain
      /\ disturbed' = (disturbed \/ Busy # {} \/ row.status = "error") /\ disturbed \in BOOLEAN
  BY <1>1 DEF StartReconcile, Types
<1>3. (disturbed => disturbed') /\ (Busy # {} => disturbed')
      /\ (~ disturbed' => ~ disturbed /\ row.status # "error")
  BY <1>2
<1> HIDE DEF p
<1>4. /\ job[h] = NoJob /\ k # NoJob
      /\ k.op = "sync" /\ k.read = row /\ k.gen = row.gen /\ k.plan = p
      /\ k.failed = FALSE /\ (k.clean <=> Busy = {})
      /\ \A n \in Runners \ {h} : /\ job'[n] = NoJob <=> job[n] = NoJob
                                  /\ job'[n].clean => job'[n] = NoJob
  BY <1>1, <1>2, BeginIs
<1> HIDE DEF k
<1>5. /\ \A i \in 1..Len(p) : p[i].hop = h /\ p[i].mode = "sync" /\ p[i].cmd \in Adding
      /\ p # <<>> => Exists
      /\ Exists => /\ h < Last => Todo(p, Adding, "chain", h)
                   /\ Todo(p, Adding, "svc", h)
  BY GentleSteps DEF p, Adding
<1>6. ASSUME Busy = {} PROVE Mending(job[h], h)'
  <2>1. ~ disturbed' => Agree' /\ row'.status # "error"
    <3>1. Agree => Agree'
      BY <1>1, <1>2, SameNodes DEF Types
    <3>2. QED
      BY <1>1, <1>2, <1>3, <1>6, <3>1 DEF UndisturbedAgree
  <2>2. (Exists)' <=> Exists
    BY <1>2 DEF Exists
  <2>3. QED
    BY <1>2, <1>4, <1>5, <2>1, <2>2 DEF Mending, k
<1>7. ~ disturbed' => Behind(svc', chain')
  BY <1>1, <1>2, <1>3
<1>8. QED
  BY <1>1, <1>3, <1>4, <1>6, <1>7, Joins DEF k

LEMMA BareNow ==
    ASSUME svc' = svc, chain' = chain, row'.status \notin {"active", "paused"}, Empty(svc, chain)
    PROVE  Agree' /\ Behind(svc', chain')
<1>1. Bare'
  BY DEF Empty, Bare
<1>2. Behind(svc', chain')
  BY EmptyCleared
<1>3. QED
  BY <1>1, <1>2 DEF Agree

LEMMA WholeNow ==
    ASSUME Nodes(svc, chain), svc' = svc, chain' = chain, row'.status \in {"active", "paused"},
           Fits(svc, chain, row'.gen), \A h \in Hops : svc[h].open <=> row'.status = "active"
    PROVE  Agree' /\ Behind(svc', chain')
<1>1. \A h \in Hops : svc[h] = [gen |-> row'.gen, open |-> svc[h].open] /\ svc[h].open \in BOOLEAN
  <2>1. ASSUME NEW h \in Hops
        PROVE  svc[h] = [gen |-> row'.gen, open |-> svc[h].open] /\ svc[h].open \in BOOLEAN
    <3>1. svc[h] \in ServiceRow /\ svc[h].gen = row'.gen
      BY DEF Nodes, Fits
    <3>2. QED
      BY <3>1, ServiceRows
  <2>2. QED
    BY <2>1
<1>2. \A h \in Hops \ {Last} : chain[h] = row'.gen
  BY Hopwise DEF Fits
<1>3. CASE row'.status = "active"
  <2>1. \A h \in Hops : svc[h].open = TRUE
    BY <1>1, <1>3
  <2>2. Whole(row.gen, TRUE)'
    BY <1>1, <1>2, <2>1 DEF Whole
  <2>3. QED
    BY <1>3, <2>2, FitsBehind DEF Agree
<1>4. CASE row'.status = "paused"
  <2>1. \A h \in Hops : svc[h].open = FALSE
    BY <1>1, <1>4
  <2>2. Whole(row.gen, FALSE)'
    BY <1>1, <1>2, <2>1 DEF Whole
  <2>3. QED
    BY <1>4, <2>2, FitsBehind DEF Agree
<1>5. QED
  BY <1>3, <1>4

\* The end of a deployment, and of one that has been taken back.
LEMMA Deployed ==
    ASSUME Nodes(svc, chain), svc' = svc, chain' = chain, NEW g, g.gen \in Gens, g.plan = <<>>,
           Deploying(svc, chain, g),
           IF g.failed THEN row'.status = "error"
           ELSE row' = [status |-> "active", gen |-> g.gen]
    PROVE  Agree' /\ Behind(svc', chain')
<1>1. CASE g.failed
  <2>1. Cleared(svc, chain, <<>>)
    BY <1>1 DEF Deploying
  <2>2. Empty(svc, chain)
    BY <2>1, AllCleared, TodoNothing
  <2>3. QED
    BY <1>1, <2>2, BareNow
<1>2. CASE ~ g.failed
  <2>1. BuildPlan(<<>>) /\ Built(svc, chain, <<>>, g.gen)
    BY <1>2 DEF Deploying
  <2>2. \A h \in Hops : svc[h] = Service(g.gen) /\ (h < Last => chain[h] = g.gen)
    BY <2>1, TodoNothing DEF Built
  <2>3. Fits(svc, chain, g.gen) /\ \A h \in Hops : svc[h].open
    BY <2>2, ServiceRows DEF Fits
  <2>4. row'.status = "active" /\ row'.gen = g.gen
    BY <1>2
  <2>5. QED
    BY <2>3, <2>4, WholeNow
<1>3. QED
  BY <1>1, <1>2

LEMMA FinishJobKnows == ASSUME IInv, NEW j \in Jobs, FinishJob(j) PROVE IInv'
<1> DEFINE g == job[j]
<1>1. /\ Types /\ UndisturbedClean /\ Known /\ (~ disturbed => Behind(svc, chain)) /\ Types'
      /\ j \in Runners /\ j \notin Hops /\ Nodes(svc, chain) /\ RowOK(row)
      /\ disturbed \in BOOLEAN
  BY EntryIs, FinishJobTypes, Hopwise DEF IInv, Types
<1>2. /\ g.op \in AllOps /\ g.plan = <<>> /\ RowAfter(g) /\ job' = [job EXCEPT ![j] = NoJob]
      /\ disturbed' = (disturbed /\ ~ Repairs(g)) /\ svc' = svc /\ chain' = chain
  BY DEF FinishJob
<1>3. g # NoJob /\ job'[j] = NoJob /\ Busy' = Busy \ {j}
      /\ \A k \in Runners \ {j} : job'[k] = job[k]
  <2>1. NoJob.op = "idle" /\ "idle" \notin AllOps
    BY DEF NoJob, AllOps
  <2>2. g # NoJob
    BY <1>2, <2>1
  <2>3. JobsOK(job)
    BY <1>1 DEF Types
  <2>4. QED
    BY <1>1, <1>2, <2>2, <2>3, Ends
<1>4. ~ disturbed' => ~ disturbed \/ Repairs(g)
  BY <1>1, <1>2
<1>5. ~ disturbed' => g.clean
  BY <1>1, <1>3, <1>4 DEF UndisturbedClean, Busy, Repairs
<1>6. g.clean => Doing(g)
  BY <1>1 DEF Known
<1> HIDE DEF g
<1>7. ASSUME ~ disturbed' PROVE Agree' /\ Behind(svc', chain')
  <2>1. Doing(g)
    BY <1>5, <1>6, <1>7
  <2>2. CASE g.op = "create" \/ (g.op = "update" /\ g.read.status = "saved")
    <3>1. row = [status |-> "active", gen |-> g.gen] /\ Deploying(svc, chain, g)
      BY <1>4, <1>7, <2>1, <2>2 DEF Doing, Repairs
    <3>2. Exists /\ row.status = "active" /\ row.gen = g.gen
      BY <3>1 DEF Exists
    <3>3. g.gen \in Gens
      BY <1>1, <3>2 DEF RowOK, Live
    <3>4. CASE g.failed
      <4>1. row' = [status |-> "error", gen |-> row.gen]
        BY <1>2, <2>2, <3>2, <3>4 DEF RowAfter, SetRow
      <4>2. row'.status = "error"
        BY <4>1
      <4>3. QED
        BY <1>1, <1>2, <3>1, <3>3, <3>4, <4>2, Deployed
    <3>5. CASE ~ g.failed
      <4>1. row' = row
        BY <1>2, <2>2, <3>5 DEF RowAfter
      <4>2. QED
        BY <1>1, <1>2, <3>1, <3>3, <3>5, <4>1, Deployed
    <3>6. QED
      BY <3>4, <3>5
  <2>3. CASE g.op = "update" /\ g.read.status # "saved"
    <3>1. SavedAt(<<>>) >= 1
      BY <1>2, <2>1, <2>3 DEF Doing, UpdatePlan
    <3>2. Len(Build) \in Nat /\ Len(Build) >= 1
      BY BuildSteps, RouteAssumption
    <3>3. QED
      BY <3>1, <3>2 DEF SavedAt
  <2>4. CASE g.op \in {"delete", "force"}
    <3>1. ~ g.failed /\ Cleared(svc, chain, <<>>)
      BY <1>2, <2>1, <2>4 DEF Doing
    <3>2. Empty(svc, chain)
      BY <1>1, <3>1, AllCleared, TodoNothing
    <3>3. row' = Gone
      BY <1>2, <2>4, <3>1 DEF RowAfter
    <3>4. QED
      BY <1>2, <3>2, <3>3, BareNow DEF Gone
  <2>5. CASE g.op \in {"pause", "resume"}
    <3>1. ~ disturbed
      BY <1>4, <1>7, <2>5 DEF Repairs
    <3>2. Exists /\ Switching(svc, chain, g, row)
      BY <2>1, <2>5, <3>1 DEF Doing
    <3>3. CASE row.status = "error"
      <4>1. g.failed /\ Empty(svc, chain)
        BY <1>2, <3>2, <3>3 DEF Switching
      <4>2. row' = row
        BY <1>2, <2>5, <4>1 DEF RowAfter
      <4>3. QED
        BY <1>2, <3>3, <4>1, <4>2, BareNow
    <3>4. CASE row.status # "error"
      <4>1. ~ g.failed /\ Fits(svc, chain, row.gen)
            /\ \A h \in Hops : svc[h].open <=> g.op = "resume"
        BY <1>2, <3>2, <3>4, TodoNothing DEF Switching
      <4>2. row' = [status |-> IF g.op = "pause" THEN "paused" ELSE "active", gen |-> row.gen]
        BY <1>2, <2>5, <3>2, <4>1 DEF RowAfter, SetRow
      <4>3. /\ row'.gen = row.gen /\ row'.status \in {"active", "paused"}
            /\ row'.status = "active" <=> g.op = "resume"
        BY <2>5, <4>2
      <4>4. QED
        BY <1>1, <1>2, <4>1, <4>3, WholeNow
    <3>5. QED
      BY <3>3, <3>4
  <2>6. CASE g.op = "report"
    BY <1>4, <1>7, <2>1, <2>6 DEF Doing, Repairs
  <2>7. QED
    BY <1>2, <2>2, <2>3, <2>4, <2>5, <2>6 DEF AllOps
<1>8. QED
  BY <1>1, <1>3, <1>5, <1>7, Leaves DEF g

\* A reconcile has synchronised its node, and pauses what is paused.
LEMMA FinishSyncKnows == ASSUME IInv, NEW h \in Hops, FinishSync(h) PROVE IInv'
<1> DEFINE g == job[h]
           k == job'[h]
           y == Step("pause", "svc", h, "best")
<1>1. /\ Types /\ UndisturbedClean /\ Known /\ (~ disturbed => Behind(svc, chain)) /\ Types'
      /\ h \in Runners /\ h \notin Jobs /\ Nodes(svc, chain) /\ RowOK(row) /\ JobsOK(job)
  BY EntryIs, FinishSyncTypes, Hopwise DEF IInv, Types
<1>2. /\ g # NoJob /\ job' = [job EXCEPT ![h] = k] /\ JobOK(k)
      /\ k.op = "repause" /\ k.clean = g.clean /\ k.failed = g.failed
      /\ k.plan = IF g.read.status = "paused" THEN <<y>> ELSE <<>>
  BY <1>1, FinishSyncIs
<1>3. /\ g.op = "sync" /\ g.plan = <<>>
      /\ IF g.read.status = "error" /\ ~ g.failed
         THEN SetRow("active", row.gen) ELSE row' = row
      /\ svc' = svc /\ chain' = chain /\ disturbed' = disturbed
  BY DEF FinishSync
<1>4. Busy' = Busy /\ \A n \in Runners \ {h} : job'[n] = job[n]
  BY <1>1, <1>2, Changes DEF SyncOps
<1>5. ~ g.clean => disturbed
  BY <1>1, <1>2 DEF UndisturbedClean, Busy
<1>6. g.clean => Mending(g, h)
  BY <1>1 DEF Known
<1> HIDE DEF g, k, y
<1>7. ASSUME k.clean PROVE Mending(job[h], h)'
  <2>1. Mending(g, h)
    BY <1>2, <1>6, <1>7
  <2>2. /\ row = g.read
        /\ ~ g.failed /\ Exists => svc[h] # None /\ (h < Last => chain[h] = row.gen)
    BY <1>3, <2>1, TodoNothing DEF Mending
  <2>3. /\ (Exists)' => Exists /\ row'.gen = row.gen
        /\ row'.status = "paused" => row' = row
        /\ row.status # "error" => row' = row
    <3>1. row' = row \/ (Exists /\ row' = [status |-> "active", gen |-> row.gen])
      BY <1>3 DEF SetRow
    <3>2. CASE row' = row
      BY <3>2 DEF Exists
    <3>3. CASE Exists /\ row' = [status |-> "active", gen |-> row.gen]
      <4>1. row'.status = "active" /\ row'.gen = row.gen
        BY <3>3
      <4>2. row.status # "error" => row' = row
        BY <1>3, <2>2
      <4>3. QED
        BY <3>3, <4>1, <4>2
    <3>4. QED
      BY <3>1, <3>2, <3>3
  <2>4. ~ disturbed' => Agree' /\ row'.status # "error"
    <3>1. SUFFICES ASSUME ~ disturbed PROVE Agree' /\ row'.status # "error"
      BY <1>3
    <3>2. Agree /\ row.status # "error"
      BY <1>3, <2>1, <3>1 DEF Mending, SyncOps
    <3>3. row' = row
      BY <2>3, <3>2
    <3>4. QED
      BY <1>1, <1>3, <3>2, <3>3, SameNodes
  <2>5. /\ \A i \in 1..Len(k.plan) : k.plan[i] = y
        /\ k.plan # <<>> <=> row.status = "paused"
    BY <1>2, <2>2
  <2>6. row.status = "paused" => row'.status = "paused"
    BY <2>3
  <2>7. ~ k.failed /\ (Exists)' =>
           /\ h < Last => chain'[h] = row'.gen
           /\ svc'[h] # None
           /\ row'.status = "paused" => k.plan # <<>>
    BY <1>2, <1>3, <2>2, <2>3, <2>5
  <2>8. QED
    BY <1>2, <2>4, <2>5, <2>6, <2>7 DEF Mending, k, y
<1>8. QED
  BY <1>1, <1>2, <1>3, <1>4, <1>5, <1>7, Keeps DEF g, k

LEMMA FinishRepauseKnows == ASSUME IInv, NEW h \in Hops, FinishRepause(h) PROVE IInv'
<1> DEFINE g == job[h]
           k == job'[h]
           y == Step("delete", "svc", h, "best")
<1>1. /\ Types /\ UndisturbedClean /\ Known /\ (~ disturbed => Behind(svc, chain)) /\ Types'
      /\ h \in Runners /\ h \notin Jobs /\ Nodes(svc, chain) /\ RowOK(row) /\ JobsOK(job)
  BY EntryIs, FinishRepauseTypes, Hopwise DEF IInv, Types
<1>2. /\ g # NoJob /\ job' = [job EXCEPT ![h] = k] /\ JobOK(k)
      /\ k.op = "orphans" /\ k.clean = g.clean /\ k.failed = g.failed
      /\ k.plan = <<>> \/ (k.plan = <<y>> /\ row = Gone /\ svc[h] # None)
  BY <1>1, FinishRepauseIs
<1>3. /\ g.op = "repause" /\ g.plan = <<>>
      /\ row' = row /\ svc' = svc /\ chain' = chain /\ disturbed' = disturbed
  BY DEF FinishRepause
<1>4. Busy' = Busy /\ \A n \in Runners \ {h} : job'[n] = job[n]
  BY <1>1, <1>2, Changes DEF SyncOps
<1>5. ~ g.clean => disturbed
  BY <1>1, <1>2 DEF UndisturbedClean, Busy
<1>6. g.clean => Mending(g, h)
  BY <1>1 DEF Known
<1> HIDE DEF g, k, y
<1>7. ASSUME k.clean PROVE Mending(job[h], h)'
  <2>1. Mending(g, h)
    BY <1>2, <1>6, <1>7
  <2>2. ~ disturbed => Agree /\ row.status # "error"
    BY <1>3, <2>1 DEF Mending, SyncOps
  <2>3. ~ disturbed' => Agree' /\ row'.status # "error"
    BY <1>1, <1>3, <2>2, SameNodes
  <2>4. k.plan # <<>> => row = Gone /\ disturbed
    <3>1. SUFFICES ASSUME row = Gone, svc[h] # None, Agree PROVE FALSE
      BY <1>2, <2>2
    <3>2. Empty(svc, chain)
      BY <1>1, <3>1, AgreeIs DEF Gone
    <3>3. QED
      BY <3>1, <3>2 DEF Empty
  <2>5. \A i \in 1..Len(k.plan) : k.plan[i] = y
    BY <1>2
  <2>6. ~ k.failed /\ Exists =>
           /\ h < Last => chain[h] = row.gen
           /\ svc[h] # None
           /\ row.status = "paused" => ~ svc[h].open
    BY <1>2, <1>3, <2>1 DEF Mending
  <2>7. (Exists)' <=> Exists
    BY <1>3 DEF Exists
  <2>8. QED
    BY <1>2, <1>3, <2>3, <2>4, <2>5, <2>6, <2>7 DEF Mending, k, y
<1>8. QED
  BY <1>1, <1>2, <1>3, <1>4, <1>5, <1>7, Keeps DEF g, k

LEMMA FinishReconcileKnows == ASSUME IInv, NEW h \in Hops, FinishReconcile(h) PROVE IInv'
<1> DEFINE g == job[h]
<1>1. /\ Types /\ UndisturbedClean /\ Known /\ (~ disturbed => Behind(svc, chain)) /\ Types'
      /\ h \in Runners /\ h \notin Jobs /\ Nodes(svc, chain) /\ JobsOK(job)
  BY EntryIs, FinishReconcileTypes, Hopwise DEF IInv, Types
<1>2. /\ g.op = "orphans" /\ job' = [job EXCEPT ![h] = NoJob]
      /\ row' = row /\ svc' = svc /\ chain' = chain /\ disturbed' = disturbed
  BY DEF FinishReconcile
<1>3. g # NoJob
  <2>1. NoJob.op = "idle"
    BY DEF NoJob
  <2>2. QED
    BY <1>2, <2>1
<1>4. job'[h] = NoJob /\ Busy' = Busy \ {h} /\ \A k \in Runners \ {h} : job'[k] = job[k]
  BY <1>1, <1>2, Ends
<1>5. ~ disturbed' => g.clean
  BY <1>1, <1>2, <1>3 DEF UndisturbedClean, Busy
<1>6. ASSUME ~ disturbed' PROVE Agree' /\ Behind(svc', chain')
  <2>1. Mending(g, h)
    BY <1>1, <1>5, <1>6 DEF Known
  <2>2. Agree
    BY <1>2, <1>6, <2>1 DEF Mending, SyncOps
  <2>3. QED
    BY <1>1, <1>2, <1>6, <2>2, SameNodes
<1>7. QED
  BY <1>1, <1>3, <1>4, <1>5, <1>6, Leaves

LEMMA RestartKnows == ASSUME IInv, NEW h \in Hops, Restart(h) PROVE IInv'
<1>1. Types /\ Types'
  BY NodeTypes DEF IInv
<1>2. job' = Overlapped /\ disturbed' = TRUE
  BY DEF Restart
<1>3. \A j \in Runners : job'[j].clean => job'[j] = NoJob
  BY <1>1, <1>2, Overlaps DEF Types
<1>4. Known'
  <2>1. ASSUME NEW k \in Jobs, job'[k].clean PROVE Doing(job[k])'
    BY <1>3, <2>1, IdleKnows, Hopwise
  <2>2. ASSUME NEW k \in Hops, job'[k].clean PROVE Mending(job[k], k)'
    BY <1>3, <2>2, IdleKnows, Hopwise
  <2>3. QED
    BY <2>1, <2>2 DEF Known
<1>5. CleanAlone'
  BY <1>3 DEF CleanAlone
<1>6. UndisturbedClean' /\ UndisturbedAgree' /\ EntryLast'
  BY <1>2 DEF UndisturbedClean, UndisturbedAgree, EntryLast
<1>7. QED
  BY <1>1, <1>4, <1>5, <1>6 DEF IInv

\* Nothing that the invariant speaks of changes when a session begins or ends.
LEMMA OutsideKnows ==
    ASSUME IInv, Types', UNCHANGED <<row, svc, chain, job, disturbed>> PROVE IInv'
<1>1. Busy' = Busy /\ row' = row /\ svc' = svc /\ chain' = chain /\ job' = job
      /\ disturbed' = disturbed
  BY DEF Busy
<1>2. CleanAlone' /\ UndisturbedClean'
  BY <1>1 DEF IInv, CleanAlone, UndisturbedClean
<1>3. UndisturbedAgree' /\ EntryLast'
  <2>1. Agree => Agree'
    BY <1>1, SameNodes DEF IInv, Types
  <2>2. Behind(svc, chain) => Behind(svc', chain')
    BY <1>1
  <2>3. QED
    BY <1>1, <2>1, <2>2, EntryIs, EntryNow DEF IInv, UndisturbedAgree
<1>4. Known'
  <2>1. (Exists)' <=> Exists
    BY <1>1 DEF Exists
  <2>2. ASSUME NEW j \in Jobs, job'[j].clean PROVE Doing(job[j])'
    <3>1. Doing(job[j])
      BY <1>1, <2>2 DEF IInv, Known
    <3>2. QED
      BY <1>1, <2>1, <3>1 DEF Doing
  <2>3. ASSUME NEW h \in Hops, job'[h].clean PROVE Mending(job[h], h)'
    <3>1. Mending(job[h], h)
      BY <1>1, <2>3 DEF IInv, Known
    <3>2. Agree => Agree'
      BY <1>1, SameNodes DEF IInv, Types
    <3>3. QED
      BY <1>1, <2>1, <3>1, <3>2 DEF Mending
  <2>4. QED
    BY <2>2, <2>3 DEF Known
<1>5. QED
  BY <1>2, <1>3, <1>4 DEF IInv

LEMMA InitKnows == ASSUME Init PROVE IInv
<1>1. Types
  BY InitTypes
<1>2. \A j \in Runners : job[j] = NoJob
  BY DEF Init
<1>3. Busy = {}
  BY <1>2 DEF Busy
<1>4. Known
  <2>1. \A j \in Jobs : Doing(job[j])
    BY <1>2, Hopwise DEF Doing, NoJob
  <2>2. \A h \in Hops : Mending(job[h], h)
    BY <1>2, Hopwise DEF Mending, NoJob, SyncOps
  <2>3. QED
    BY <2>1, <2>2 DEF Known
<1>5. Agree
  <2>1. Bare
    BY DEF Init, Bare
  <2>2. QED
    BY <2>1 DEF Init, Unborn, Agree
<1>6. EntryLast
  BY Hopwise DEF Init, EntryLast
<1>7. QED
  BY <1>1, <1>2, <1>3, <1>4, <1>5, <1>6 DEF IInv, CleanAlone, UndisturbedClean, UndisturbedAgree

LEMMA NextKnows == ASSUME IInv, [Next]_vars PROVE IInv'
<1>1. CASE \E j \in Jobs, op \in Ops, g \in Gens : StartJob(j, op, g)
  BY <1>1, StartJobKnows
<1>2. CASE \E j \in Jobs : SaveUpdate(j) \/ FinishJob(j)
  BY <1>2, SaveUpdateKnows, FinishJobKnows
<1>3. CASE \E j \in Runners : Command(j)
  BY <1>3, CommandKnows
<1>4. ASSUME NEW h \in Hops, Reporting(h) PROVE IInv'
  BY <1>4, StartReportKnows DEF Reporting
<1>5. ASSUME NEW h \in Hops, SkipReconcile(h) \/ Disconnect(h) \/ Connect(h) PROVE IInv'
  <2>1. UNCHANGED <<row, svc, chain, job, disturbed>>
    BY <1>5 DEF SkipReconcile, Disconnect, Connect
  <2>2. Types'
    BY <1>5, NodeTypes DEF IInv
  <2>3. QED
    BY <2>1, <2>2, OutsideKnows
<1>6. ASSUME NEW h \in Hops, Reconciling(h) PROVE IInv'
  BY <1>5, <1>6, StartReconcileKnows, FinishSyncKnows, FinishRepauseKnows,
     FinishReconcileKnows DEF Reconciling
<1>7. ASSUME NEW h \in Hops, Disconnect(h) \/ Restart(h) \/ Connect(h) PROVE IInv'
  BY <1>5, <1>7, RestartKnows
<1>8. CASE UNCHANGED vars
  <2>1. UNCHANGED <<row, svc, chain, job, disturbed>>
    BY <1>8 DEF vars
  <2>2. Types'
    BY <1>8, IdleTypes DEF IInv
  <2>3. QED
    BY <2>1, <2>2, OutsideKnows
<1>9. QED
  BY <1>1, <1>2, <1>3, <1>4, <1>6, <1>7, <1>8 DEF Next

LEMMA Invariant == Spec => []IInv
<1>1. Init => IInv
  BY InitKnows
<1>2. IInv /\ [Next]_vars => IInv'
  BY NextKnows
<1>3. QED
  BY <1>1, <1>2, PTL DEF Spec

-----------------------------------------------------------------------------
(* What follows for every route.                                            *)

\* Requests that do not overlap keep every node of the route as the row says; a deployment
\* that is refused somewhere leaves nothing on any node, because what takes it back names
\* every component (forward.go:1318-1404, 1487-1540).
THEOREM RowsAgree == Spec => []UndisturbedAgree
<1>1. IInv => UndisturbedAgree
  BY DEF IInv
<1>2. QED
  BY <1>1, Invariant, PTL

\* The entry takes connections only when the whole path behind it is in place and fits:
\* services are deployed from the terminal to the entry and taken back from the entry
\* (forward.go:1487-1584).
THEOREM EntryComesLast == Spec => []EntryLast
<1>1. IInv => EntryLast
  BY DEF IInv
<1>2. QED
  BY <1>1, Invariant, PTL

\* A reconcile without failures, during which nothing else happened, leaves its node with
\* a service and the right chain, and a paused forward paused (reconcile.go:257-294).
THEOREM ReconcileGives == Spec => []ReconcileRestores
<1>1. IInv => ReconcileRestores
  <2>1. SUFFICES ASSUME IInv, NEW h \in Hops, job[h].op = "orphans", job[h].plan = <<>>,
                        job[h].clean, ~ job[h].failed, Exists
                 PROVE  /\ svc[h] # None
                        /\ h < Last => chain[h] = row.gen
                        /\ row.status = "paused" => ~ svc[h].open
    BY DEF ReconcileRestores
  <2>2. Mending(job[h], h)
    BY <2>1 DEF IInv, Known
  <2>3. QED
    BY <2>1, <2>2 DEF Mending
<1>2. QED
  BY <1>1, Invariant, PTL
=================================================================

------------------------ MODULE ForwardControlProofs ------------------------
(***************************************************************************)
(* Types, rows that services follow, and what a reconcile achieves: for    *)
(* port forwards and tunnel forwards, every set of contents and of         *)
(* goroutines, and any number of faults.                                   *)
(***************************************************************************)
EXTENDS ForwardControl, FiniteSetTheorems, SequenceTheorems, TLAPS

\* A row, what a node can have under a name, and a forward's services.
Rows == [status : {"unborn", "active", "paused", "error", "gone"}, target : Contents]
RowOK(r) == r \in Rows /\ (r.status \in {"active", "paused", "error"} => r.target \in Targets)
Under == [reg : {"absent", "open", "closed"}, target : Contents, kept : Contents,
          mark : BOOLEAN, twice : BOOLEAN]
Services == {f \in [Names -> Under] :
                \A s \in Names : f[s].reg # "absent" \/ f[s].twice => f[s].kept # "none"}

\* A command is about some of the names; one that writes a content has one.
Parts == (SUBSET Names) \ {{}}
Writing == {"add", "update", "forwarder"}
Cmds    == {"add", "update", "delete", "pause", "resume", "forwarder"}
Modes   == {"create", "sync", "gentle", "hot", "best", "delete", "must"}
StepsOf(t) == {x \in [cmd : Cmds, names : Parts, mode : Modes] :
                  /\ x.cmd \in Writing => t \in Targets
                  /\ x.mode = "hot" => x.cmd \in Writing}
LateOK == {x \in [cmd : Cmds, names : Parts, target : Contents] :
              x.cmd \in Writing => x.target \in Targets}

RecOps == {"reconcile", "repause", "orphans"}
Goroutine == [op : AllOps \cup RecOps \cup {"idle"}, snap : Rows, new : Contents,
              plan : Seq([cmd : Cmds, names : Parts, mode : Modes]),
              failed : BOOLEAN, clean : BOOLEAN]
JobOK(j, g) ==
    /\ g \in Goroutine
    /\ g.plan \in Seq(StepsOf(g.new))
    /\ g.op = "idle" => g = NoJob
    /\ g.op \in AllOps => j \in Jobs
    /\ g.op \in RecOps => j \in Nodes
    /\ g.op \in Edits \cup {"create"} => g.new \in Targets

Types ==
    /\ RowOK(row)
    /\ svc \in Services
    /\ up \in SUBSET Nodes /\ online \in SUBSET Nodes /\ due \in SUBSET Nodes
    /\ late \in [Nodes -> Seq(LateOK)]
    /\ job = [j \in Runners |-> job[j]]
    /\ \A j \in Runners : JobOK(j, job[j])
    /\ faults \in 0..MaxFaults
    /\ disturbed \in BOOLEAN

\* A goroutine that nothing has overlapped is the only one; who was overlapped, or stumbled,
\* has disturbed the forward; and nodes that are down have, too.
CleanAlone == \A j \in Runners : job[j] # NoJob /\ job[j].clean => Busy = {j}
Blamed == \A j \in Runners : job[j] # NoJob /\ ~ job[j].clean => disturbed
AllUp  == ~ disturbed => up = Nodes

\* What a plan has left after k steps, and the names it is done with.
Rest(p, k) == [i \in 1..(Len(p) - k) |-> p[k + i]]
Past(order, k) == UNION {order[i] : i \in 1..k}

\* A name that serves, that is paused; a forward that is as its row says.
Told(s, t)    == s \in Forwarding => svc[s].target = t /\ svc[s].kept = t
Serving(s, t) == svc[s].reg = "open" /\ Told(s, t)
Resting(s, t) == svc[s].reg = "closed" /\ svc[s].mark /\ Told(s, t)
Either(s, t)  == IF s \in Chain THEN Serving(s, t) ELSE Serving(s, t) \/ Resting(s, t)

AllServe(t) == \A s \in Names : Serving(s, t)
AllRest(t)  == \A s \in Names : IF s \in Chain THEN Serving(s, t) ELSE Resting(s, t)
Settled ==
    /\ row.status # "error"
    /\ row.status = "active" => AllServe(row.target)
    /\ row.status = "paused" => AllRest(row.target)
    /\ ~ Exists => \A s \in Names : svc[s] = Nothing

\* What a goroutine knows that nothing has overlapped, on a forward nothing has disturbed.
Adds(mode) == Steps("add", BuildOrder, mode)
Deletes(mode) == Steps("delete", RemoveOrder, mode)

Built(t, k) == \A s \in Names : IF s \in Past(BuildOrder, k) THEN Serving(s, t)
                                ELSE svc[s] = Nothing
Emptied(k) == \A s \in Names : IF s \in Past(RemoveOrder, k) THEN svc[s] = Nothing
                               ELSE svc[s].reg # "absent"

Creating(g) ==
    /\ row = [status |-> "active", target |-> g.new]
    /\ \E k \in 0..Len(BuildOrder) : g.plan = Rest(Adds("create"), k) /\ Built(g.new, k)

Renaming(g) ==
    g.plan = <<>> /\ row.status = "active" /\ g.new = row.target /\ AllServe(g.new)

Retargeting(g) ==
    /\ row.status = "active"
    /\ \/ g.plan = <<Step("forwarder", Forwarding, "hot")>> /\ AllServe(row.target)
       \/ g.plan = <<>> /\ AllServe(g.new)

Relistening(g) ==
    /\ Exists
    /\ \/ \E k \in 0..Len(RemoveOrder) :
             g.plan = Rest(Deletes("best"), k) \o Adds("create") /\ Emptied(k)
       \/ \E k \in 0..Len(BuildOrder) : g.plan = Rest(Adds("create"), k) /\ Built(g.new, k)

Respeeding(g) ==
    /\ row.status = "active" /\ g.new = row.target /\ AllServe(g.new)
    /\ g.plan = <<Step("update", Main, "best")>> \/ g.plan = <<>>

Removing(g) ==
    /\ Exists
    /\ \E k \in 0..Len(RemoveOrder) :
          /\ g.plan = Rest(Deletes(IF g.op = "delete" THEN "delete" ELSE "best"), k)
          /\ Emptied(k)

Switching(g) ==
    /\ row.status \in {"active", "paused"}
    /\ \A s \in Names : Either(s, row.target)
    /\ \E k \in 0..Len(SwitchOrder) :
          IF g.op = "resume"
          THEN /\ g.plan = Rest(Steps("resume", SwitchOrder, "must"), k)
               /\ \A s \in Past(SwitchOrder, k) : Serving(s, row.target)
          ELSE /\ g.plan = Rest(Steps("pause", SwitchOrder,
                                      IF g.op = "pause" THEN "must" ELSE "best"), k)
               /\ \A s \in Past(SwitchOrder, k) : Resting(s, row.target)

Steady(g) ==
    /\ ~ g.failed
    /\ g.op # "report"
    /\ g.op = "create"   => Creating(g)
    /\ g.op = "rename"   => Renaming(g)
    /\ g.op = "hot"      => Retargeting(g)
    /\ g.op = "relisten" => Relistening(g)
    /\ g.op = "respeed"  => Respeeding(g)
    /\ g.op \in {"delete", "force"} => Removing(g)
    /\ g.op \in {"pause", "resume", "limit"} => Switching(g)
    /\ g.op \in RecOps => Settled /\ (~ Exists => g.plan = <<>>)

\* A rebuild knows more: whatever it found, what it has done is right.
Renewed(s, t) == /\ Host(s) \in up
                 /\ svc[s].reg = "open"
                 /\ s \in Forwarding => /\ svc[s].target = t
                                        /\ svc[s].kept = t \/ svc[s].twice

Rebuilding(g) ==
    g.op = "rebuild" /\ ~ g.failed =>
        /\ Exists
        /\ \E k \in 0..Len(BuildOrder) :
              /\ \A s \in Past(BuildOrder, k) : Renewed(s, g.new)
              /\ \/ g.plan = Rest(SyncPlan, k)
                 \/ /\ k < Len(BuildOrder) /\ disturbed
                    /\ g.plan = <<Step("add", BuildOrder[k + 1], "sync")>> \o Rest(SyncPlan, k + 1)
              /\ ~ disturbed =>
                    \A s \in Names : IF s \in Past(BuildOrder, k) THEN Serving(s, g.new)
                                     ELSE svc[s].reg # "absent"

\* And so does a reconcile.
Mended(N, t) ==
    /\ HostOf(N) \in up
    /\ IF N = Forwarding THEN \A s \in N : svc[s].reg # "absent" /\ svc[s].target = t
       ELSE N \cap Registered # {}
AllMended(t) == \A i \in 1..Len(BuildOrder) : Mended(BuildOrder[i], t)
Paused(n) == row.status = "paused" /\ ~ HalfPair => Rests(On(n) \ Chain)

Restoring(n, g) ==
    /\ g.op = "reconcile" => g.snap = row /\ g.new = row.target
    /\ g.op = "reconcile" /\ ~ g.failed /\ Exists =>
        \E k \in 0..Len(BuildOrder) :
           /\ \A i \in 1..k : Mended(BuildOrder[i], g.new)
           /\ \/ g.plan = Rest(Adds("gentle"), k)
              \/ /\ k < Len(BuildOrder) /\ BuildOrder[k + 1] = Forwarding
                 /\ g.plan = <<Step("forwarder", Forwarding, "gentle")>> \o Rest(Adds("gentle"), k + 1)
    /\ g.op = "repause" /\ ~ g.failed /\ Exists =>
           /\ row.status # "error"
           /\ AllMended(row.target)
           /\ \/ row.status = "paused" /\ g.plan = <<Step("pause", On(n) \ Chain, "best")>>
              \/ g.plan = <<>> /\ Paused(n)
    /\ g.op = "orphans" /\ ~ g.failed /\ Exists =>
           row.status # "error" /\ AllMended(row.target) /\ g.plan = <<>> /\ Paused(n)

Knows(j, g) ==
    /\ ~ disturbed => Steady(g)
    /\ Rebuilding(g)
    /\ Restoring(j, g)

Understood == \A j \in Runners : \A g : g = job[j] /\ g # NoJob /\ g.clean => Knows(j, g)
AtRest == Busy = {} /\ ~ disturbed => Settled

IInv == Types /\ CleanAlone /\ Blamed /\ AllUp /\ Understood /\ AtRest

-----------------------------------------------------------------------------
(* Names, nodes and orders.                                                *)

LEMMA Places ==
    /\ Main \subseteq Names /\ Forwarding \subseteq Names /\ Forwarding # {}
    /\ Main # {} /\ Chain \cap Main = {} /\ Chain \cap Forwarding = {}
    /\ "in" \in Nodes
    /\ \A s \in Names : Host(s) \in Nodes
    /\ \A n \in Nodes : On(n) \subseteq Names
    /\ \A N \in Parts : HostOf(N) \in Nodes
    /\ Names \subseteq Main \cup Remote \cup Chain
    /\ ~ Tunnel => Names = Main /\ Forwarding = Main /\ Nodes = {"in"}
    /\ Tunnel => Names = Main \cup Remote \cup Chain /\ Forwarding = Remote
                 /\ Nodes = {"in", "out"}
<1>1. CASE Tunnel
  BY <1>1 DEF Names, Nodes, Host, HostOf, Main, Remote, Chain, Forwarding, On, Parts
<1>2. CASE ~ Tunnel
  <2>1. /\ Names = Main /\ Forwarding = Main /\ Nodes = {"in"}
        /\ Main # {} /\ Chain \cap Main = {}
    BY <1>2 DEF Names, Nodes, Main, Chain, Forwarding
  <2>2. \A N \in Parts : HostOf(N) \in Nodes
    <3> SUFFICES ASSUME NEW N \in Parts, N \subseteq Remote PROVE FALSE
      BY <2>1 DEF HostOf
    <3> QED
      BY <2>1 DEF Main, Remote, Parts
  <2>3. \A s \in Names : Host(s) \in Nodes
    BY <2>1 DEF Main, Remote, Host
  <2>4. QED
    BY <1>2, <2>1, <2>2, <2>3 DEF On
<1>3. QED
  BY <1>1, <1>2

\* An order of parts that have nothing in common.
OrderOK(O) ==
    /\ O \in Seq(Parts)
    /\ \A i \in 1..Len(O) : \A s \in O[i] : Host(s) = HostOf(O[i])
    /\ \A i, k \in 1..Len(O) : i # k => O[i] \cap O[k] = {}

LEMMA OneOrder == OrderOK(<<Main>>) /\ Past(<<Main>>, 1) = Main
<1>1. <<Main>> \in Seq(Parts) /\ Len(<<Main>>) = 1 /\ <<Main>>[1] = Main
  BY Places DEF Parts
<1>2. \A s \in Main : Host(s) = HostOf(Main)
  BY DEF Main, Remote, Host, HostOf
<1>3. Past(<<Main>>, 1) = Main
  BY <1>1 DEF Past
<1>4. QED
  BY <1>1, <1>2, <1>3 DEF OrderOK

LEMMA ThreeOrders ==
    ASSUME Tunnel, NEW A \in {Main, Remote, Chain}, NEW B \in {Main, Remote, Chain},
           NEW C \in {Main, Remote, Chain}, A # B, A # C, B # C
    PROVE  /\ OrderOK(<<A, B, C>>) /\ Past(<<A, B, C>>, 3) = Names /\ Len(<<A, B, C>>) = 3
           /\ OrderOK(<<A, B>>) /\ Past(<<A, B>>, 2) = A \cup B /\ Len(<<A, B>>) = 2
<1> DEFINE O == <<A, B, C>>
           P == <<A, B>>
<1>1. /\ O \in Seq(Parts) /\ Len(O) = 3 /\ O[1] = A /\ O[2] = B /\ O[3] = C
      /\ P \in Seq(Parts) /\ Len(P) = 2 /\ P[1] = A /\ P[2] = B
  <2>1. A \in Parts /\ B \in Parts /\ C \in Parts
    BY Places DEF Parts, Main, Remote, Chain
  <2>2. QED
    BY <2>1
<1> HIDE DEF O, P
<1>2. \A N \in {Main, Remote, Chain} : \A s \in N : Host(s) = HostOf(N)
  BY DEF Main, Remote, Chain, Host, HostOf
<1>3. A \cap B = {} /\ A \cap C = {} /\ B \cap C = {} /\ A \cup B \cup C = Names
  BY Places DEF Main, Remote, Chain
<1>4. OrderOK(O) /\ OrderOK(P)
  <2>1. \A i \in 1..3 : i = 1 \/ i = 2 \/ i = 3
    OBVIOUS
  <2>2. \A i \in 1..2 : i = 1 \/ i = 2
    OBVIOUS
  <2>3. \A i \in 1..3 : \A s \in O[i] : Host(s) = HostOf(O[i])
    BY <1>1, <1>2, <2>1
  <2>4. \A i \in 1..2 : \A s \in P[i] : Host(s) = HostOf(P[i])
    BY <1>1, <1>2, <2>2
  <2>5. \A i, k \in 1..3 : i # k => O[i] \cap O[k] = {}
    BY <1>1, <1>3, <2>1
  <2>6. \A i, k \in 1..2 : i # k => P[i] \cap P[k] = {}
    BY <1>1, <1>3, <2>2
  <2>7. QED
    BY <1>1, <2>3, <2>4, <2>5, <2>6 DEF OrderOK
<1>5. Past(O, 3) = Names
  <2>1. {O[i] : i \in 1..3} = {A, B, C}
    BY <1>1
  <2>2. QED
    BY <1>3, <2>1 DEF Past
<1>6. Past(P, 2) = A \cup B
  <2>1. {P[i] : i \in 1..2} = {A, B}
    BY <1>1
  <2>2. QED
    BY <2>1 DEF Past
<1>7. QED
  BY <1>1, <1>4, <1>5, <1>6 DEF O, P

LEMMA Orders ==
    /\ OrderOK(BuildOrder) /\ Past(BuildOrder, Len(BuildOrder)) = Names
    /\ OrderOK(RemoveOrder) /\ Past(RemoveOrder, Len(RemoveOrder)) = Names
    /\ OrderOK(SwitchOrder) /\ Past(SwitchOrder, Len(SwitchOrder)) = Names \ Chain
    /\ \A i \in 1..Len(BuildOrder) : BuildOrder[i] \in {Main, Remote, Chain}
    /\ \E i \in 1..Len(BuildOrder) : BuildOrder[i] = Forwarding
    /\ \A n \in Nodes : \E i \in 1..Len(BuildOrder) : HostOf(BuildOrder[i]) = n
    /\ Len(BuildOrder) = Len(RemoveOrder) /\ Len(BuildOrder) \in {1, 3}
    /\ Tunnel => BuildOrder = <<Chain, Remote, Main>> /\ Len(BuildOrder) = 3
<1>1. CASE Tunnel
  <2>1. Main # Remote /\ Main # Chain /\ Remote # Chain
    BY DEF Main, Remote, Chain
  <2>2. /\ BuildOrder = <<Chain, Remote, Main>> /\ RemoveOrder = <<Main, Chain, Remote>>
        /\ SwitchOrder = <<Main, Remote>>
    BY <1>1 DEF BuildOrder, RemoveOrder, SwitchOrder
  <2>3. OrderOK(BuildOrder) /\ Past(BuildOrder, 3) = Names /\ Len(BuildOrder) = 3
    BY <1>1, <2>1, <2>2, ThreeOrders
  <2>4. OrderOK(RemoveOrder) /\ Past(RemoveOrder, 3) = Names /\ Len(RemoveOrder) = 3
    BY <1>1, <2>1, <2>2, ThreeOrders
  <2>5. /\ OrderOK(SwitchOrder) /\ Past(SwitchOrder, 2) = Main \cup Remote
        /\ Len(SwitchOrder) = 2
    BY <1>1, <2>1, <2>2, ThreeOrders
  <2>6. Main \cup Remote = Names \ Chain
    BY <1>1, Places DEF Main, Remote, Chain
  <2>7. /\ BuildOrder[1] = Chain /\ BuildOrder[2] = Remote /\ BuildOrder[3] = Main
    BY <2>2
  <2>8. \A i \in 1..3 : i = 1 \/ i = 2 \/ i = 3
    OBVIOUS
  <2>9. HostOf(Remote) = "out" /\ HostOf(Main) = "in"
    BY DEF HostOf, Main, Remote
  <2>10. \A n \in Nodes : \E i \in 1..3 : HostOf(BuildOrder[i]) = n
    <3>1. 2 \in 1..3 /\ 3 \in 1..3
      OBVIOUS
    <3>2. QED
      BY <1>1, <2>7, <2>9, <3>1, Places
  <2>11. \E i \in 1..3 : BuildOrder[i] = Forwarding
    <3>1. 2 \in 1..3 /\ BuildOrder[2] = Forwarding
      BY <1>1, <2>7, Places
    <3>2. QED
      BY <3>1
  <2>12. \A i \in 1..3 : BuildOrder[i] \in {Main, Remote, Chain}
    BY <2>7, <2>8
  <2>13. QED
    BY <2>2, <2>3, <2>4, <2>5, <2>6, <2>10, <2>11, <2>12
<1>2. CASE ~ Tunnel
  <2>1. BuildOrder = <<Main>> /\ RemoveOrder = <<Main>> /\ SwitchOrder = <<Main>>
    BY <1>2 DEF BuildOrder, RemoveOrder, SwitchOrder
  <2>2. Len(<<Main>>) = 1 /\ <<Main>>[1] = Main
    OBVIOUS
  <2>3. Names = Main /\ Main \ Chain = Main
    BY <1>2, Places DEF Main, Chain
  <2>4. HostOf(Main) = "in"
    BY DEF HostOf, Main, Remote
  <2>5. \A i \in 1..1 : i = 1
    OBVIOUS
  <2>6. 1 \in 1..1
    OBVIOUS
  <2>7. QED
    BY <1>2, <2>1, <2>2, <2>3, <2>4, <2>5, <2>6, OneOrder, Places
<1>3. QED
  BY <1>1, <1>2

\* Parts one after the other.
LEMMA PastGrows ==
    ASSUME NEW O, OrderOK(O)
    PROVE  /\ Past(O, 0) = {}
           /\ \A k \in 0..Len(O) : k < Len(O) =>
                 /\ k + 1 \in 1..Len(O) /\ k + 1 \in 0..Len(O)
                 /\ Past(O, k + 1) = Past(O, k) \cup O[k + 1]
                 /\ O[k + 1] \cap Past(O, k) = {}
                 /\ O[k + 1] \in Parts
<1>1. Len(O) \in Nat
  BY DEF OrderOK
<1>2. \A i \in 1..0 : FALSE
  OBVIOUS
<1>3. Past(O, 0) = {}
  BY <1>2 DEF Past
<1>4. ASSUME NEW k \in 0..Len(O), k < Len(O)
      PROVE  /\ k + 1 \in 1..Len(O) /\ k + 1 \in 0..Len(O)
             /\ Past(O, k + 1) = Past(O, k) \cup O[k + 1]
             /\ O[k + 1] \cap Past(O, k) = {}
             /\ O[k + 1] \in Parts
  <2>1. k + 1 \in 1..Len(O) /\ k + 1 \in 0..Len(O)
    BY <1>1, <1>4
  <2>2. \A i \in 1..(k + 1) : i \in 1..k \/ i = k + 1
    BY <1>1, <1>4
  <2>3. \A i \in 1..k : i \in 1..(k + 1) /\ i \in 1..Len(O) /\ i # k + 1
    BY <1>1, <1>4
  <2>4. k + 1 \in 1..(k + 1)
    BY <1>1, <1>4
  <2>5. Past(O, k + 1) = Past(O, k) \cup O[k + 1]
    <3>1. ASSUME NEW s \in Past(O, k + 1) PROVE s \in Past(O, k) \cup O[k + 1]
      <4>1. PICK i \in 1..(k + 1) : s \in O[i]
        BY <3>1 DEF Past
      <4>2. QED
        BY <2>2, <4>1 DEF Past
    <3>2. ASSUME NEW s \in Past(O, k) PROVE s \in Past(O, k + 1)
      <4>1. PICK i \in 1..k : s \in O[i]
        BY <3>2 DEF Past
      <4>2. QED
        BY <2>3, <4>1 DEF Past
    <3>3. ASSUME NEW s \in O[k + 1] PROVE s \in Past(O, k + 1)
      BY <2>4, <3>3 DEF Past
    <3>4. QED
      BY <3>1, <3>2, <3>3
  <2>6. O[k + 1] \cap Past(O, k) = {}
    <3> SUFFICES ASSUME NEW s \in O[k + 1], s \in Past(O, k) PROVE FALSE
      OBVIOUS
    <3>1. PICK i \in 1..k : s \in O[i]
      BY DEF Past
    <3>2. QED
      BY <2>1, <2>3, <3>1 DEF OrderOK
  <2>7. O[k + 1] \in Parts
    BY <2>1 DEF OrderOK
  <2>8. QED
    BY <2>1, <2>5, <2>6, <2>7
<1>5. QED
  BY <1>3, <1>4


-----------------------------------------------------------------------------
(* Plans.                                                                  *)

LEMMA Indices ==
    ASSUME NEW L \in Nat
    PROVE  /\ 0 \in 0..L /\ L - 0 = L /\ L \in 0..L /\ L - L = 0
           /\ \A i \in 1..L : 0 + i = i
           /\ \A k \in 0..L :
                 /\ L - k \in Nat /\ \A i \in 1..(L - k) : k + i \in 1..L
                 /\ L - k = 0 => k = L
                 /\ k < L => /\ k + 1 \in 1..L /\ k + 1 \in 0..L /\ 1 \in 1..(L - k)
                             /\ L - k # 0 /\ (L - k) - 1 = L - (k + 1)
                             /\ \A i \in 1..(L - (k + 1)) :
                                   /\ i + 1 \in 1..(L - k)
                                   /\ k + (i + 1) = (k + 1) + i
OBVIOUS

LEMMA RestOf ==
    ASSUME NEW S, NEW Q \in Seq(S)
    PROVE  /\ Rest(Q, 0) = Q /\ Rest(Q, Len(Q)) = <<>>
           /\ \A k \in 0..Len(Q) :
                /\ Rest(Q, k) \in Seq(S)
                /\ Rest(Q, k) = <<>> => k = Len(Q)
                /\ k < Len(Q) => /\ k + 1 \in 1..Len(Q) /\ k + 1 \in 0..Len(Q)
                                 /\ Rest(Q, k) # <<>>
                                 /\ Head(Rest(Q, k)) = Q[k + 1]
                                 /\ Tail(Rest(Q, k)) = Rest(Q, k + 1)
<1>1. Len(Q) \in Nat /\ \A i \in 1..Len(Q) : Q[i] \in S
  OBVIOUS
<1>2. ASSUME NEW k \in 0..Len(Q)
      PROVE  /\ Rest(Q, k) \in Seq(S) /\ Len(Rest(Q, k)) = Len(Q) - k
             /\ \A i \in 1..(Len(Q) - k) : Rest(Q, k)[i] = Q[k + i]
  <2>1. Len(Q) - k \in Nat /\ \A i \in 1..(Len(Q) - k) : k + i \in 1..Len(Q)
    BY <1>1, Indices
  <2>2. \A i \in 1..(Len(Q) - k) : Q[k + i] \in S
    BY <1>1, <2>1
  <2>3. Rest(Q, k) \in [1..(Len(Q) - k) -> S]
    BY <2>2 DEF Rest
  <2>4. Rest(Q, k) \in Seq(S) /\ Len(Rest(Q, k)) = Len(Q) - k
    BY <2>1, <2>3
  <2>5. QED
    BY <2>4 DEF Rest
<1>3. Rest(Q, 0) = Q
  <2>1. 0 \in 0..Len(Q) /\ Len(Q) - 0 = Len(Q) /\ \A i \in 1..Len(Q) : 0 + i = i
    BY <1>1, Indices
  <2>2. /\ Len(Rest(Q, 0)) = Len(Q) /\ Rest(Q, 0) \in Seq(S)
        /\ \A i \in 1..Len(Q) : Rest(Q, 0)[i] = Q[i]
    BY <1>2, <2>1
  <2>3. QED
    BY <2>2, SeqEqual
<1>4. Rest(Q, Len(Q)) = <<>>
  <2>1. Len(Q) \in 0..Len(Q) /\ Len(Q) - Len(Q) = 0
    BY <1>1, Indices
  <2>2. Len(Rest(Q, Len(Q))) = 0 /\ Rest(Q, Len(Q)) \in Seq(S)
    BY <1>2, <2>1
  <2>3. QED
    BY <2>2, EmptySeq
<1>5. ASSUME NEW k \in 0..Len(Q), Rest(Q, k) = <<>> PROVE k = Len(Q)
  <2>1. Len(Rest(Q, k)) = Len(Q) - k
    BY <1>2
  <2>2. Len(Q) - k = 0
    BY <1>5, <2>1, EmptySeq
  <2>3. QED
    BY <1>1, <2>2, Indices
<1>6. ASSUME NEW k \in 0..Len(Q), k < Len(Q)
      PROVE  /\ k + 1 \in 1..Len(Q) /\ k + 1 \in 0..Len(Q)
             /\ Rest(Q, k) # <<>>
             /\ Head(Rest(Q, k)) = Q[k + 1]
             /\ Tail(Rest(Q, k)) = Rest(Q, k + 1)
  <2>1. /\ k + 1 \in 1..Len(Q) /\ k + 1 \in 0..Len(Q) /\ 1 \in 1..(Len(Q) - k)
        /\ Len(Q) - k # 0 /\ (Len(Q) - k) - 1 = Len(Q) - (k + 1)
    BY <1>1, <1>6, Indices
  <2>2. \A i \in 1..(Len(Q) - (k + 1)) : /\ i + 1 \in 1..(Len(Q) - k)
                                         /\ k + (i + 1) = (k + 1) + i
    BY <1>1, <1>6, Indices
  <2>3. Len(Rest(Q, k)) = Len(Q) - k /\ Rest(Q, k) \in Seq(S)
    BY <1>2
  <2>4. Rest(Q, k) # <<>>
    BY <2>1, <2>3, EmptySeq
  <2>5. Head(Rest(Q, k)) = Q[k + 1]
    <3>1. Head(Rest(Q, k)) = Rest(Q, k)[1]
      BY <2>3, <2>4, HeadTailProperties
    <3>2. QED
      BY <1>2, <2>1, <3>1
  <2>6. /\ Tail(Rest(Q, k)) \in Seq(S) /\ Len(Tail(Rest(Q, k))) = Len(Q) - (k + 1)
        /\ \A i \in 1..(Len(Q) - (k + 1)) : Tail(Rest(Q, k))[i] = Rest(Q, k)[i + 1]
    BY <2>1, <2>3, <2>4, HeadTailProperties
  <2>7. \A i \in 1..(Len(Q) - (k + 1)) : Rest(Q, k)[i + 1] = Q[(k + 1) + i]
    BY <1>2, <2>2
  <2>8. /\ Rest(Q, k + 1) \in Seq(S) /\ Len(Rest(Q, k + 1)) = Len(Q) - (k + 1)
        /\ \A i \in 1..(Len(Q) - (k + 1)) : Rest(Q, k + 1)[i] = Q[(k + 1) + i]
    BY <1>2, <2>1
  <2>9. Len(Tail(Rest(Q, k))) = Len(Rest(Q, k + 1))
    BY <2>6, <2>8
  <2>10. \A i \in 1..Len(Tail(Rest(Q, k))) : Tail(Rest(Q, k))[i] = Rest(Q, k + 1)[i]
    BY <2>6, <2>7, <2>8
  <2>11. Tail(Rest(Q, k)) = Rest(Q, k + 1)
    BY <2>6, <2>8, <2>9, <2>10, SeqEqual
  <2>12. QED
    BY <2>1, <2>4, <2>5, <2>11
<1>7. QED
  BY <1>2, <1>3, <1>4, <1>5, <1>6

LEMMA Joined ==
    ASSUME NEW S, NEW p \in Seq(S), NEW q \in Seq(S)
    PROVE  /\ p \o q \in Seq(S) /\ <<>> \o q = q /\ p \o <<>> = p
           /\ p # <<>> => /\ p \o q # <<>> /\ Head(p \o q) = Head(p)
                          /\ Tail(p \o q) = Tail(p) \o q /\ Tail(p) \in Seq(S)
           /\ q # <<>> => p \o q # <<>>
<1>1. p \o q \in Seq(S) /\ Len(p \o q) = Len(p) + Len(q) /\ Len(p) \in Nat /\ Len(q) \in Nat
  OBVIOUS
<1>2. <<>> \o q = q /\ p \o <<>> = p
  BY ConcatEmptySeq
<1>3. q # <<>> => p \o q # <<>>
  BY <1>1
<1>4. ASSUME p # <<>>
      PROVE  /\ p \o q # <<>> /\ Head(p \o q) = Head(p)
             /\ Tail(p \o q) = Tail(p) \o q /\ Tail(p) \in Seq(S)
  <2>1. p \o q # <<>> /\ Tail(p) \in Seq(S) /\ Len(p) > 0
    BY <1>1, <1>4
  <2>2. Head(p \o q) = Head(p)
    BY <1>1, <2>1
  <2>3. /\ Tail(p \o q) \in Seq(S) /\ Len(Tail(p \o q)) = Len(p) + Len(q) - 1
        /\ Len(Tail(p)) = Len(p) - 1
    BY <1>1, <1>4, <2>1
  <2>4. /\ Tail(p) \o q \in Seq(S) /\ Len(Tail(p) \o q) = Len(p) + Len(q) - 1
    BY <1>1, <2>1, <2>3
  <2>5. \A i \in 1..(Len(p) + Len(q) - 1) : Tail(p \o q)[i] = (Tail(p) \o q)[i]
    BY <1>1, <1>4, <2>1, <2>3
  <2>6. Tail(p \o q) = Tail(p) \o q
    BY <2>3, <2>4, <2>5
  <2>7. QED
    BY <2>1, <2>2, <2>6
<1>5. QED
  BY <1>1, <1>2, <1>3, <1>4

LEMMA InFront ==
    ASSUME NEW S, NEW x \in S, NEW q \in Seq(S)
    PROVE  /\ <<x>> \in Seq(S) /\ <<x>> \o q \in Seq(S) /\ <<x>> \o q # <<>>
           /\ Head(<<x>> \o q) = x /\ Tail(<<x>> \o q) = q
           /\ Head(<<x>>) = x /\ Tail(<<x>>) = <<>>
<1>1. <<x>> \in Seq(S) /\ <<x>> # <<>> /\ Head(<<x>>) = x /\ Tail(<<x>>) = <<>>
  OBVIOUS
<1>2. QED
  BY <1>1, Joined

LEMMA StepsOK ==
    ASSUME NEW O, OrderOK(O), NEW c \in Cmds, NEW m \in Modes, NEW t,
           c \in Writing => t \in Targets, m = "hot" => c \in Writing
    PROVE  /\ Steps(c, O, m) \in Seq(StepsOf(t)) /\ Len(Steps(c, O, m)) = Len(O)
           /\ \A i \in 1..Len(O) : Steps(c, O, m)[i] = Step(c, O[i], m)
<1>1. Len(O) \in Nat /\ DOMAIN O = 1..Len(O) /\ \A i \in 1..Len(O) : O[i] \in Parts
  BY DEF OrderOK
<1>2. \A N \in Parts : Step(c, N, m) \in StepsOf(t)
  BY DEF Step, StepsOf
<1>3. Steps(c, O, m) \in [1..Len(O) -> StepsOf(t)]
  BY <1>1, <1>2 DEF Steps
<1>4. \A i \in 1..Len(O) : Steps(c, O, m)[i] = Step(c, O[i], m)
  BY <1>1 DEF Steps
<1>5. QED
  BY <1>1, <1>3, <1>4

LEMMA StepOK ==
    ASSUME NEW N \in Parts, NEW c \in Cmds, NEW m \in Modes, NEW t,
           c \in Writing => t \in Targets, m = "hot" => c \in Writing
    PROVE  Step(c, N, m) \in StepsOf(t) /\ <<Step(c, N, m)>> \in Seq(StepsOf(t))
<1>1. Step(c, N, m) \in StepsOf(t)
  BY DEF Step, StepsOf
<1>2. QED
  BY <1>1

LEMMA PlansOK ==
    ASSUME NEW op \in AllOps, NEW t \in Targets
    PROVE  PlanOf(op) \in Seq(StepsOf(t))
<1>1. Main \in Parts /\ Forwarding \in Parts
  BY Places DEF Parts
<1>2. <<>> \in Seq(StepsOf(t))
  OBVIOUS
<1>3. Steps("add", BuildOrder, "create") \in Seq(StepsOf(t))
  BY Orders, StepsOK DEF Cmds, Modes, Writing
<1>4. <<Step("forwarder", Forwarding, "hot")>> \in Seq(StepsOf(t))
  BY <1>1, StepOK DEF Cmds, Modes, Writing
<1>5. SyncPlan \in Seq(StepsOf(t))
  BY Orders, StepsOK DEF Cmds, Modes, Writing, SyncPlan
<1>6. /\ Steps("delete", RemoveOrder, "best") \in Seq(StepsOf(t))
      /\ Steps("delete", RemoveOrder, "delete") \in Seq(StepsOf(t))
  BY Orders, StepsOK DEF Cmds, Modes, Writing
<1>7. /\ Steps("pause", SwitchOrder, "must") \in Seq(StepsOf(t))
      /\ Steps("pause", SwitchOrder, "best") \in Seq(StepsOf(t))
      /\ Steps("resume", SwitchOrder, "must") \in Seq(StepsOf(t))
  BY Orders, StepsOK DEF Cmds, Modes, Writing
<1>8. <<Step("update", Main, "best")>> \in Seq(StepsOf(t))
  BY <1>1, StepOK DEF Cmds, Modes, Writing
<1>9. Steps("delete", RemoveOrder, "best") \o Steps("add", BuildOrder, "create")
        \in Seq(StepsOf(t))
  BY <1>3, <1>6, Joined
<1>10. QED
  BY <1>2, <1>3, <1>4, <1>5, <1>6, <1>7, <1>8, <1>9 DEF PlanOf, AllOps

-----------------------------------------------------------------------------
(* What commands do with services.                                         *)

\* What can be under a name; field by field.
Entry(e) == e \in Under /\ (e.reg # "absent" \/ e.twice => e.kept # "none")
Is(e, r, t, k, m, w) == e.reg = r /\ e.target = t /\ e.kept = k /\ e.mark = m /\ e.twice = w

LEMMA Entries ==
    /\ svc \in Services => \A s \in Names : Entry(svc[s])
    /\ Entry(Nothing)
<1>1. svc \in Services => \A s \in Names : Entry(svc[s])
  BY DEF Services, Entry
<1>2. Entry(Nothing)
  BY DEF Entry, Under, Nothing, Contents
<1>3. QED
  BY <1>1, <1>2

LEMMA Becomes ==
    ASSUME svc \in Services, NEW N \in SUBSET Names, NEW F, \A s \in N : Entry(F[s])
    PROVE  /\ Become(N, F) \in Services
           /\ \A s \in N : Become(N, F)[s] = F[s]
           /\ \A s \in Names \ N : Become(N, F)[s] = svc[s]
<1>1. \A s \in Names : Become(N, F)[s] = IF s \in N THEN F[s] ELSE svc[s]
  BY DEF Become
<1>2. \A s \in Names : Entry(Become(N, F)[s])
  BY <1>1, Entries
<1>3. Become(N, F) = [s \in Names |-> Become(N, F)[s]]
  BY <1>1 DEF Become
<1>4. Become(N, F) \in Services
  BY <1>2, <1>3 DEF Services, Entry
<1>5. QED
  BY <1>1, <1>4

LEMMA CreatedDoes ==
    ASSUME svc \in Services, NEW N \in SUBSET Names, NEW t \in Targets
    PROVE  /\ Created(N, t) \in Services
           /\ \A s \in Names \ N : Created(N, t)[s] = svc[s]
           /\ \A s \in N : IF svc[s].kept = "none" THEN Is(Created(N, t)[s], "open", t, t, FALSE, FALSE)
                           ELSE Is(Created(N, t)[s], "open", t, svc[s].kept, svc[s].mark, TRUE)
<1> DEFINE f == [s \in N |->
        IF svc[s].kept = "none"
        THEN [Nothing EXCEPT !.reg = "open", !.target = t, !.kept = t]
        ELSE [svc[s] EXCEPT !.reg = "open", !.target = t, !.twice = TRUE]]
<1>1. t # "none" /\ t \in Contents
  BY ControlAssumption DEF Contents
<1>2. ASSUME NEW s \in N
      PROVE  /\ Entry(f[s])
             /\ IF svc[s].kept = "none" THEN Is(f[s], "open", t, t, FALSE, FALSE)
                ELSE Is(f[s], "open", t, svc[s].kept, svc[s].mark, TRUE)
  <2>1. Entry(svc[s])
    BY Entries
  <2>2. QED
    BY <1>1, <2>1 DEF Entry, Under, Is, Nothing
<1>3. Created(N, t) = Become(N, f)
  BY DEF Created
<1> HIDE DEF f
<1>4. PICK F : F = f
  OBVIOUS
<1>5. \A s \in N : Entry(F[s])
  BY <1>2, <1>4
<1>6. /\ Become(N, F) \in Services
      /\ \A s \in N : Become(N, F)[s] = F[s]
      /\ \A s \in Names \ N : Become(N, F)[s] = svc[s]
  BY <1>5, Becomes
<1>7. QED
  BY <1>2, <1>3, <1>4, <1>6

LEMMA UpdatedDoes ==
    ASSUME svc \in Services, NEW N \in SUBSET Names, NEW t \in Targets
    PROVE  /\ Updated(N, t) \in Services
           /\ \A s \in Names \ N : Updated(N, t)[s] = svc[s]
           /\ \A s \in N : Is(Updated(N, t)[s], "open", t, t, FALSE, svc[s].twice)
<1> DEFINE f == [s \in N |-> [svc[s] EXCEPT !.reg = "open", !.target = t, !.kept = t,
                                            !.mark = FALSE]]
<1>1. t # "none" /\ t \in Contents
  BY ControlAssumption DEF Contents
<1>2. ASSUME NEW s \in N
      PROVE  Entry(f[s]) /\ Is(f[s], "open", t, t, FALSE, svc[s].twice)
  <2>1. Entry(svc[s])
    BY Entries
  <2>2. QED
    BY <1>1, <2>1 DEF Entry, Under, Is
<1>3. Updated(N, t) = Become(N, f)
  BY DEF Updated
<1> HIDE DEF f
<1>4. PICK F : F = f
  OBVIOUS
<1>5. \A s \in N : Entry(F[s])
  BY <1>2, <1>4
<1>6. /\ Become(N, F) \in Services
      /\ \A s \in N : Become(N, F)[s] = F[s]
      /\ \A s \in Names \ N : Become(N, F)[s] = svc[s]
  BY <1>5, Becomes
<1>7. QED
  BY <1>2, <1>3, <1>4, <1>6

LEMMA DeletedDoes ==
    ASSUME svc \in Services, NEW N \in SUBSET Names
    PROVE  /\ Deleted(N) \in Services
           /\ \A s \in Names \ N : Deleted(N)[s] = svc[s]
           /\ \A s \in N : Deleted(N)[s] = Nothing
<1> DEFINE f == [s \in N |-> Nothing]
<1>1. \A s \in N : Entry(f[s]) /\ f[s] = Nothing
  BY Entries
<1>2. Deleted(N) = Become(N, f)
  BY DEF Deleted
<1> HIDE DEF f
<1>3. PICK F : F = f
  OBVIOUS
<1>4. \A s \in N : Entry(F[s])
  BY <1>1, <1>3
<1>5. /\ Become(N, F) \in Services
      /\ \A s \in N : Become(N, F)[s] = F[s]
      /\ \A s \in Names \ N : Become(N, F)[s] = svc[s]
  BY <1>4, Becomes
<1>6. QED
  BY <1>1, <1>2, <1>3, <1>5

LEMMA PausedDoes ==
    ASSUME svc \in Services, NEW N \in SUBSET Names, N \subseteq Registered
    PROVE  /\ PausedAll(N) \in Services
           /\ \A s \in Names \ N : PausedAll(N)[s] = svc[s]
           /\ \A s \in N : Is(PausedAll(N)[s], "closed", svc[s].target, svc[s].kept, TRUE,
                              svc[s].twice)
<1> DEFINE f == [s \in N |-> [svc[s] EXCEPT !.reg = "closed", !.mark = TRUE]]
<1>1. ASSUME NEW s \in N
      PROVE  /\ Entry(f[s])
             /\ Is(f[s], "closed", svc[s].target, svc[s].kept, TRUE, svc[s].twice)
  <2>1. Entry(svc[s]) /\ svc[s].reg # "absent"
    BY Entries DEF Registered
  <2>2. QED
    BY <2>1 DEF Entry, Under, Is
<1>2. PausedAll(N) = Become(N, f)
  BY DEF PausedAll
<1> HIDE DEF f
<1>3. PICK F : F = f
  OBVIOUS
<1>4. \A s \in N : Entry(F[s])
  BY <1>1, <1>3
<1>5. /\ Become(N, F) \in Services
      /\ \A s \in N : Become(N, F)[s] = F[s]
      /\ \A s \in Names \ N : Become(N, F)[s] = svc[s]
  BY <1>4, Becomes
<1>6. QED
  BY <1>1, <1>2, <1>3, <1>5

LEMMA ResumedDoes ==
    ASSUME svc \in Services, NEW N \in SUBSET Names, N \subseteq Registered
    PROVE  /\ Resumed(N) \in Services
           /\ \A s \in Names \ N : Resumed(N)[s] = svc[s]
           /\ \A s \in N : IF svc[s].mark THEN Is(Resumed(N)[s], "open", svc[s].kept, svc[s].kept,
                                                  FALSE, svc[s].twice)
                           ELSE Resumed(N)[s] = svc[s]
<1> DEFINE f == [s \in N |-> [svc[s] EXCEPT !.reg = "open", !.target = svc[s].kept,
                                            !.mark = FALSE]]
<1>1. ASSUME NEW s \in Marked(N)
      PROVE  /\ Entry(f[s])
             /\ Is(f[s], "open", svc[s].kept, svc[s].kept, FALSE, svc[s].twice)
  <2>1. s \in N /\ Entry(svc[s]) /\ svc[s].reg # "absent"
    BY Entries DEF Registered, Marked
  <2>2. QED
    BY <2>1 DEF Entry, Under, Is
<1>2. Resumed(N) = Become(Marked(N), f)
  BY DEF Resumed
<1> HIDE DEF f
<1>3. PICK F : F = f
  OBVIOUS
<1>4. PICK M : M = Marked(N)
  OBVIOUS
<1>5. M \in SUBSET Names /\ \A s \in N : s \in M <=> svc[s].mark
  BY <1>4 DEF Marked
<1>6. M \subseteq N
  BY <1>4 DEF Marked
<1>7. \A s \in M : Entry(F[s])
  BY <1>1, <1>3, <1>4
<1>8. /\ Become(M, F) \in Services
      /\ \A s \in M : Become(M, F)[s] = F[s]
      /\ \A s \in Names \ M : Become(M, F)[s] = svc[s]
  BY <1>5, <1>7, Becomes
<1>9. QED
  BY <1>1, <1>2, <1>3, <1>4, <1>5, <1>6, <1>8

LEMMA RetargetedDoes ==
    ASSUME svc \in Services, NEW N \in SUBSET Names, NEW t \in Targets
    PROVE  /\ Retargeted(N, t) \in Services
           /\ \A s \in Names \ N : Retargeted(N, t)[s] = svc[s]
           /\ \A s \in N : Is(Retargeted(N, t)[s], svc[s].reg, t, t, svc[s].mark, svc[s].twice)
<1> DEFINE f == [s \in N |-> [svc[s] EXCEPT !.target = t, !.kept = t]]
<1>1. t # "none" /\ t \in Contents
  BY ControlAssumption DEF Contents
<1>2. ASSUME NEW s \in N
      PROVE  Entry(f[s]) /\ Is(f[s], svc[s].reg, t, t, svc[s].mark, svc[s].twice)
  <2>1. Entry(svc[s])
    BY Entries
  <2>2. QED
    BY <1>1, <2>1 DEF Entry, Under, Is
<1>3. Retargeted(N, t) = Become(N, f)
  BY DEF Retargeted
<1> HIDE DEF f
<1>4. PICK F : F = f
  OBVIOUS
<1>5. \A s \in N : Entry(F[s])
  BY <1>2, <1>4
<1>6. /\ Become(N, F) \in Services
      /\ \A s \in N : Become(N, F)[s] = F[s]
      /\ \A s \in Names \ N : Become(N, F)[s] = svc[s]
  BY <1>5, Becomes
<1>7. QED
  BY <1>2, <1>3, <1>4, <1>6

LEMMA HalfDoes ==
    ASSUME svc \in Services, NEW N \in SUBSET Names, NEW t \in Targets
    PROVE  /\ HalfRetargeted(N, t) \in Services
           /\ \A s \in Names \ N : HalfRetargeted(N, t)[s] = svc[s]
           /\ \A s \in N : HalfRetargeted(N, t)[s].reg = svc[s].reg
<1> DEFINE f == [s \in N |-> [svc[s] EXCEPT !.target = t]]
<1>1. t \in Contents
  BY DEF Contents
<1>2. ASSUME NEW s \in N PROVE Entry(f[s]) /\ f[s].reg = svc[s].reg
  <2>1. Entry(svc[s])
    BY Entries
  <2>2. QED
    BY <1>1, <2>1 DEF Entry, Under
<1>3. CASE "udp" \in Registered
  BY <1>3 DEF HalfRetargeted
<1>4. CASE "udp" \notin Registered
  <2>1. HalfRetargeted(N, t) = Become(N \cap Registered, f)
    BY <1>4 DEF HalfRetargeted
  <2> HIDE DEF f
  <2>2. PICK F : F = f
    OBVIOUS
  <2>3. PICK M : M = N \cap Registered
    OBVIOUS
  <2>4. M \in SUBSET Names /\ M \subseteq N
    BY <2>3
  <2>5. \A s \in M : Entry(F[s])
    BY <1>2, <2>2, <2>4
  <2>6. /\ Become(M, F) \in Services
        /\ \A s \in M : Become(M, F)[s] = F[s]
        /\ \A s \in Names \ M : Become(M, F)[s] = svc[s]
    BY <2>4, <2>5, Becomes
  <2>7. QED
    BY <1>2, <2>1, <2>2, <2>3, <2>4, <2>6
<1>5. QED
  BY <1>3, <1>4

LEMMA Done ==
    ASSUME svc \in Services, NEW c \in Cmds, NEW N \in SUBSET Names, NEW t,
           c \in Writing => t \in Targets, NEW d, d = Execute(c, N, t)
    PROVE  /\ d.svc \in Services
           /\ d.answer \in {"ok", "already_exists", "not_found"}
           /\ \A s \in Names \ N : d.svc[s] = svc[s]
           /\ c = "add" => /\ d.answer = "ok" <=> N \cap Registered = {}
                           /\ d.answer = "ok" => d.svc = Created(N, t)
                           /\ d.answer # "ok" => d.answer = "already_exists" /\ d.svc = svc
           /\ c # "add" => /\ d.answer = "ok" <=> N \subseteq Registered
                           /\ d.answer # "ok" => d.answer = "not_found"
                           /\ d.answer # "ok" /\ c # "forwarder" => d.svc = svc
                           /\ d.answer # "ok" /\ c = "forwarder" => d.svc = HalfRetargeted(N, t)
           /\ d.answer = "ok" =>
                 /\ c = "update" => d.svc = Updated(N, t)
                 /\ c = "delete" => d.svc = Deleted(N)
                 /\ c = "pause" => d.svc = PausedAll(N)
                 /\ c = "resume" => d.svc = Resumed(N)
                 /\ c = "forwarder" => d.svc = Retargeted(N, t)
<1>1. CASE c = "add"
  <2>1. CASE N \cap Registered = {}
    <3>1. d.answer = "ok" /\ d.svc = Created(N, t)
      BY <1>1, <2>1 DEF Execute, Result
    <3>2. QED
      BY <1>1, <2>1, <3>1, CreatedDoes DEF Writing
  <2>2. CASE N \cap Registered # {}
    BY <1>1, <2>2 DEF Execute, Result
  <2>3. QED
    BY <2>1, <2>2
<1>2. CASE c # "add" /\ ~ (N \subseteq Registered)
  <2>1. d.answer = "not_found" /\ d.svc = IF c = "forwarder" THEN HalfRetargeted(N, t) ELSE svc
    BY <1>2 DEF Execute, Result
  <2>2. QED
    BY <1>2, <2>1, HalfDoes DEF Writing
<1>3. CASE c # "add" /\ N \subseteq Registered
  <2>1. CASE c = "update"
    <3>1. d.answer = "ok" /\ d.svc = Updated(N, t)
      BY <1>3, <2>1 DEF Execute, Result
    <3>2. QED
      BY <1>3, <2>1, <3>1, UpdatedDoes DEF Writing
  <2>2. CASE c = "delete"
    <3>1. d.answer = "ok" /\ d.svc = Deleted(N)
      BY <1>3, <2>2 DEF Execute, Result
    <3>2. QED
      BY <1>3, <2>2, <3>1, DeletedDoes
  <2>3. CASE c = "pause"
    <3>1. d.answer = "ok" /\ d.svc = PausedAll(N)
      BY <1>3, <2>3 DEF Execute, Result
    <3>2. QED
      BY <1>3, <2>3, <3>1, PausedDoes
  <2>4. CASE c = "resume"
    <3>1. d.answer = "ok" /\ d.svc = Resumed(N)
      BY <1>3, <2>4 DEF Execute, Result
    <3>2. QED
      BY <1>3, <2>4, <3>1, ResumedDoes
  <2>5. CASE c = "forwarder"
    <3>1. d.answer = "ok" /\ d.svc = Retargeted(N, t)
      BY <1>3, <2>5 DEF Execute, Result
    <3>2. QED
      BY <1>3, <2>5, <3>1, RetargetedDoes DEF Writing
  <2>6. QED
    BY <1>3, <2>1, <2>2, <2>3, <2>4, <2>5 DEF Cmds
<1>4. QED
  BY <1>1, <1>2, <1>3

LEMMA LostOK ==
    ASSUME svc \in Services, NEW s \in Names
    PROVE  ~ svc[s].twice \/ svc[s].kept # "none" => Entry(Lost(s))
<1>1. Entry(svc[s]) /\ "none" \in Contents
  BY Entries DEF Contents
<1>2. QED
  BY <1>1 DEF Lost, Entry, Under

LEMMA HalfUpdatedOK ==
    ASSUME svc \in Services, NEW N \in SUBSET Names, N \subseteq Registered,
           NEW t \in Targets, NEW D
    PROVE  /\ HalfUpdated(N, t, D) \in Services
           /\ \A s \in Names \ N : HalfUpdated(N, t, D)[s] = svc[s]
<1> DEFINE f == [s \in N |-> IF s \in D THEN [svc[s] EXCEPT !.reg = "open", !.target = t]
                             ELSE Lost(s)]
<1>1. ASSUME NEW s \in N PROVE Entry(f[s])
  <2>1. Entry(svc[s]) /\ svc[s].kept # "none" /\ t \in Contents
    BY Entries DEF Registered, Entry, Contents
  <2>2. Entry(Lost(s))
    BY <2>1, LostOK
  <2>3. QED
    BY <2>1, <2>2 DEF Entry, Under
<1>2. HalfUpdated(N, t, D) = Become(N, f)
  BY DEF HalfUpdated
<1> HIDE DEF f
<1>3. PICK F : F = f
  OBVIOUS
<1>4. \A s \in N : Entry(F[s])
  BY <1>1, <1>3
<1>5. Become(N, F) \in Services /\ \A s \in Names \ N : Become(N, F)[s] = svc[s]
  BY <1>4, Becomes
<1>6. QED
  BY <1>2, <1>3, <1>5

LEMMA HalfResumedOK ==
    ASSUME svc \in Services, NEW N \in SUBSET Names, N \subseteq Registered,
           NEW D \in SUBSET N, NEW g \in N
    PROVE  /\ HalfResumed(N, D, g) \in Services
           /\ \A s \in Names \ N : HalfResumed(N, D, g)[s] = svc[s]
<1> DEFINE f == [s \in N |->
        IF s = g THEN Lost(s)
        ELSE [svc[s] EXCEPT !.reg = "closed", !.target = svc[s].kept]]
<1>1. ASSUME NEW s \in N PROVE Entry(f[s])
  <2>1. Entry(svc[s]) /\ svc[s].kept # "none"
    BY Entries DEF Registered, Entry
  <2>2. Entry(Lost(s))
    BY <2>1, LostOK
  <2>3. QED
    BY <2>1, <2>2 DEF Entry, Under
<1>2. HalfResumed(N, D, g) = Become(D \cup {g}, f)
  BY DEF HalfResumed
<1> HIDE DEF f
<1>3. PICK F : F = f
  OBVIOUS
<1>4. PICK M : M = D \cup {g}
  OBVIOUS
<1>5. M \in SUBSET Names /\ M \subseteq N
  BY <1>4
<1>6. \A s \in M : Entry(F[s])
  BY <1>1, <1>3, <1>5
<1>7. Become(M, F) \in Services /\ \A s \in Names \ M : Become(M, F)[s] = svc[s]
  BY <1>5, <1>6, Becomes
<1>8. QED
  BY <1>2, <1>3, <1>4, <1>5, <1>7

LEMMA DamagedOK ==
    ASSUME svc \in Services, NEW c \in Cmds, NEW N \in SUBSET Names, NEW t,
           c \in Writing => t \in Targets, Damaged(c, N, t)
    PROVE  svc' \in Services
<1>1. CASE c = "add"
  BY <1>1 DEF Damaged
<1>2. CASE c = "update"
  <2>1. N \subseteq Registered /\ t \in Targets
    BY <1>2 DEF Damaged, Writing
  <2>2. PICK D : svc' = HalfUpdated(N, t, D)
    BY <1>2 DEF Damaged
  <2>3. QED
    BY <2>1, <2>2, HalfUpdatedOK
<1>3. CASE c = "resume"
  <2>1. N \subseteq Registered /\ Marked(N) \subseteq N
    BY <1>3 DEF Damaged, Marked
  <2>2. \E D \in SUBSET Marked(N), f \in Marked(N) : svc' = HalfResumed(N, D, f)
    BY <1>3 DEF Damaged
  <2>3. PICK D \in SUBSET N, f \in N : svc' = HalfResumed(N, D, f)
    BY <2>1, <2>2
  <2>4. QED
    BY <2>1, <2>3, HalfResumedOK
<1>4. QED
  BY <1>1, <1>2, <1>3 DEF Damaged

-----------------------------------------------------------------------------
(* What goroutines become.                                                 *)

Moved(g, p) == [g EXCEPT !.plan = p]
Fell(g, p)  == [g EXCEPT !.plan = p, !.failed = TRUE]
Overrun(g)  == [g EXCEPT !.clean = FALSE]
Detour(x, p) == Instead(x) \o Tail(p)

\* All but the plan and how it went.
Same(g, h) == h.op = g.op /\ h.snap = g.snap /\ h.new = g.new /\ h.clean = g.clean

LEMMA Wider == ASSUME NEW S, NEW T, S \subseteq T, NEW q \in Seq(S) PROVE q \in Seq(T)
<1>1. Len(q) \in Nat /\ q \in [1..Len(q) -> S]
  OBVIOUS
<1>2. q \in [1..Len(q) -> T]
  BY <1>1
<1>3. QED
  BY <1>1, <1>2

LEMMA StepsIn == \A t : StepsOf(t) \subseteq [cmd : Cmds, names : Parts, mode : Modes]
BY DEF StepsOf

LEMMA Idle ==
    ASSUME NEW j \in Runners, NEW g, JobOK(j, g)
    PROVE  /\ g.op = "idle" <=> g = NoJob
           /\ g.plan # <<>> => g # NoJob
           /\ g.plan \in Seq(StepsOf(g.new))
BY DEF JobOK, NoJob

LEMMA Moves ==
    ASSUME NEW j \in Runners, NEW g, JobOK(j, g), g # NoJob,
           NEW p \in Seq(StepsOf(g.new)), NEW h, h = Moved(g, p)
    PROVE  JobOK(j, h) /\ h # NoJob /\ Same(g, h) /\ h.plan = p /\ h.failed = g.failed
<1>1. p \in Seq([cmd : Cmds, names : Parts, mode : Modes])
  BY StepsIn, Wider
<1>2. /\ h \in Goroutine
      /\ h.op = g.op /\ h.snap = g.snap /\ h.new = g.new /\ h.clean = g.clean
      /\ h.plan = p /\ h.failed = g.failed
  BY <1>1 DEF JobOK, Goroutine, Moved
<1>3. h.op # "idle"
  BY <1>2, Idle
<1>4. QED
  BY <1>2, <1>3 DEF JobOK, NoJob, Same

LEMMA Fails ==
    ASSUME NEW j \in Runners, NEW g, JobOK(j, g), g # NoJob,
           NEW p \in Seq(StepsOf(g.new)), NEW h, h = Fell(g, p)
    PROVE  JobOK(j, h) /\ h # NoJob /\ Same(g, h) /\ h.plan = p /\ h.failed
<1>1. p \in Seq([cmd : Cmds, names : Parts, mode : Modes])
  BY StepsIn, Wider
<1>2. /\ h \in Goroutine
      /\ h.op = g.op /\ h.snap = g.snap /\ h.new = g.new /\ h.clean = g.clean
      /\ h.plan = p /\ h.failed
  BY <1>1 DEF JobOK, Goroutine, Fell
<1>3. h.op # "idle"
  BY <1>2, Idle
<1>4. QED
  BY <1>2, <1>3 DEF JobOK, NoJob, Same

LEMMA Overlaps ==
    ASSUME NEW j \in Runners, NEW g, JobOK(j, g), g # NoJob, NEW h, h = Overrun(g)
    PROVE  /\ JobOK(j, h) /\ h # NoJob /\ ~ h.clean
           /\ h.op = g.op /\ h.snap = g.snap /\ h.new = g.new /\ h.plan = g.plan
<1>1. /\ h \in Goroutine /\ ~ h.clean
      /\ h.op = g.op /\ h.snap = g.snap /\ h.new = g.new /\ h.plan = g.plan
  BY DEF JobOK, Goroutine, Overrun
<1>2. h.op # "idle"
  BY <1>1, Idle
<1>3. QED
  BY <1>1, <1>2 DEF JobOK, NoJob

LEMMA InsteadOK ==
    ASSUME NEW t, NEW x \in StepsOf(t), NEW a, FallsBack(x, a)
    PROVE  Instead(x) \in Seq(StepsOf(t))
<1>1. x.names \in Parts /\ (x.cmd \in Writing => t \in Targets)
  BY DEF StepsOf
<1>2. CASE x.mode = "sync"
  <2>1. t \in Targets
    BY <1>1, <1>2 DEF FallsBack, Writing
  <2>2. <<Step("add", x.names, "sync")>> \in Seq(StepsOf(t))
    BY <1>1, <2>1, StepOK DEF Cmds, Modes, Writing
  <2>3. QED
    BY <1>2, <2>2 DEF Instead
<1>3. CASE x.mode = "gentle"
  <2>1. t \in Targets
    BY <1>1, <1>3 DEF FallsBack, Writing
  <2>2. <<Step("forwarder", x.names, "gentle")>> \in Seq(StepsOf(t))
    BY <1>1, <2>1, StepOK DEF Cmds, Modes, Writing
  <2>3. QED
    BY <1>3, <2>2 DEF Instead
<1>4. CASE x.mode = "hot"
  <2>1. t \in Targets
    BY <1>4 DEF StepsOf
  <2>2. SyncPlan \in Seq(StepsOf(t))
    BY <2>1, Orders, StepsOK DEF Cmds, Modes, Writing, SyncPlan
  <2>3. QED
    BY <1>4, <2>2 DEF Instead
<1>5. QED
  BY <1>2, <1>3, <1>4 DEF FallsBack

LEMMA CompensationOK ==
    ASSUME NEW t, NEW x
    PROVE  Compensation(x) \in Seq(StepsOf(t))
<1>1. <<>> \in Seq(StepsOf(t))
  OBVIOUS
<1>2. CASE x.mode # "create" \/ ~ Tunnel
  BY <1>1, <1>2 DEF Compensation
<1>3. CASE x.mode = "create" /\ Tunnel
  <2>1. Chain \in Parts /\ Remote \in Parts
    BY <1>3, Places DEF Parts, Chain, Remote
  <2>2. /\ <<Step("delete", Chain, "best")>> \in Seq(StepsOf(t))
        /\ <<Step("delete", Remote, "best")>> \in Seq(StepsOf(t))
    BY <2>1, StepOK DEF Cmds, Modes, Writing
  <2>3. QED
    BY <1>1, <1>3, <2>2, Joined DEF Compensation
<1>4. QED
  BY <1>2, <1>3

\* The three ways on.
LEMMA Advances ==
    ASSUME NEW j \in Runners, NEW g, JobOK(j, g), g = job[j], g.plan # <<>>,
           NEW x, x = Head(g.plan), NEW a, NEW h, h = Advance(j, x, a)
    PROVE  /\ g # NoJob /\ x \in StepsOf(g.new) /\ Tail(g.plan) \in Seq(StepsOf(g.new))
           /\ JobOK(j, h) /\ h # NoJob /\ Same(g, h)
           /\ Accepts(x, a) => h.plan = Tail(g.plan) /\ h.failed = g.failed
           /\ ~ Accepts(x, a) /\ FallsBack(x, a) =>
                 h.plan = Detour(x, g.plan) /\ h.failed = g.failed
           /\ ~ Accepts(x, a) /\ ~ FallsBack(x, a) => h.failed
<1>1. g # NoJob /\ g.plan \in Seq(StepsOf(g.new))
  BY Idle
<1>2. x \in StepsOf(g.new) /\ Tail(g.plan) \in Seq(StepsOf(g.new))
  BY <1>1, HeadTailProperties
<1>3. CASE Accepts(x, a)
  <2>1. h = Moved(g, Tail(g.plan))
    BY <1>3 DEF Advance, Moved
  <2>2. QED
    BY <1>1, <1>2, <1>3, <2>1, Moves
<1>4. CASE ~ Accepts(x, a) /\ FallsBack(x, a)
  <2>1. h = Moved(g, Detour(x, g.plan))
    BY <1>4 DEF Advance, Moved, Detour
  <2>2. Detour(x, g.plan) \in Seq(StepsOf(g.new))
    BY <1>2, <1>4, InsteadOK, Joined DEF Detour
  <2>3. QED
    BY <1>1, <1>2, <1>4, <2>1, <2>2, Moves
<1>5. CASE ~ Accepts(x, a) /\ ~ FallsBack(x, a)
  <2>1. h = Fell(g, Compensation(x))
    BY <1>5 DEF Advance, Fell
  <2>2. QED
    BY <1>1, <1>2, <1>5, <2>1, CompensationOK, Fails
<1>6. QED
  BY <1>3, <1>4, <1>5

\* What does not change.
LEMMA Runners0 == Runners' = Runners /\ Names' = Names /\ Nodes' = Nodes
BY DEF Runners, Names, Nodes, Main, Remote, Chain

LEMMA IdleOK == \A j : JobOK(j, NoJob)
<1>1. Unborn \in Rows /\ RowOK(Unborn)
  BY DEF Unborn, Rows, RowOK, Contents
<1>2. <<>> \in Seq([cmd : Cmds, names : Parts, mode : Modes]) /\ \A t : <<>> \in Seq(StepsOf(t))
  OBVIOUS
<1>3. NoJob \in Goroutine
  BY <1>1, <1>2 DEF NoJob, Goroutine, Contents
<1>4. NoJob.op = "idle" /\ NoJob.plan = <<>>
  BY DEF NoJob
<1>5. "idle" \notin AllOps \cup RecOps \cup Edits \cup {"create"}
  BY DEF AllOps, RecOps, Edits
<1>6. QED
  BY <1>2, <1>3, <1>4, <1>5 DEF JobOK

LEMMA Working ==
    ASSUME Types, NEW j \in Runners
    PROVE  /\ JobOK(j, job[j])
           /\ job[j].op # "idle" <=> j \in Busy
           /\ job[j].plan # <<>> => j \in Busy
<1>1. JobOK(j, job[j])
  BY DEF Types
<1>2. QED
  BY <1>1, Idle DEF Busy

\* Goroutines, when one of them has changed, and when all under way are overlapped.
LEMMA Changed ==
    ASSUME Types, NEW j \in Runners, NEW h, JobOK(j, h), job' = [job EXCEPT ![j] = h]
    PROVE  /\ job' = [i \in Runners |-> job'[i]]
           /\ \A i \in Runners : JobOK(i, job'[i])
           /\ job'[j] = h
           /\ \A i \in Runners : i # j => job'[i] = job[i]
BY DEF Types

LEMMA Overlapping ==
    ASSUME Types
    PROVE  /\ Overlapped = [i \in Runners |-> Overlapped[i]]
           /\ \A i \in Runners : JobOK(i, Overlapped[i])
           /\ \A i \in Busy : Overlapped[i] = Overrun(job[i])
           /\ \A i \in Runners \ Busy : Overlapped[i] = NoJob
<1>1. /\ Overlapped = [i \in Runners |-> Overlapped[i]]
      /\ \A i \in Busy : Overlapped[i] = Overrun(job[i])
      /\ \A i \in Runners \ Busy : Overlapped[i] = NoJob
  BY DEF Overlapped, Overrun, Busy
<1>2. ASSUME NEW i \in Runners PROVE JobOK(i, Overlapped[i])
  <2>1. CASE i \in Busy
    <3>1. job[i] # NoJob /\ JobOK(i, job[i]) /\ Overlapped[i] = Overrun(job[i])
      BY <1>1, <2>1, Working DEF Busy
    <3>2. QED
      BY <3>1, Overlaps
  <2>2. CASE i \notin Busy
    BY <1>1, <2>2, IdleOK
  <2>3. QED
    BY <2>1, <2>2
<1>3. QED
  BY <1>1, <1>2

\* A command that was answered: what it did, and what its sender does next.
Reply(j, g, x, d, h) ==
    /\ g = job[j] /\ g.plan # <<>> /\ x = Head(g.plan)
    /\ HostOf(x.names) \in up
    /\ d = Execute(x.cmd, x.names, g.new)
    /\ h = Advance(j, x, d.answer)
    /\ svc' = d.svc
    /\ job' = [job EXCEPT ![j] = h]
    /\ UNCHANGED <<row, up, online, late, due, faults, disturbed>>

LEMMA Replies ==
    ASSUME NEW j \in Runners, job[j].plan # <<>>,
           LET x == Head(job[j].plan) IN
              HostOf(x.names) \in online \cap up /\ Answered(j, x),
           UNCHANGED <<row, up, online, due>>
    PROVE  \E g, x, d, h : Reply(j, g, x, d, h)
BY DEF Answered, Reply

\* One that was not answered as it should: its sender is no longer undisturbed.
LEMMA Stumbles ==
    ASSUME Types, NEW j \in Runners, job[j].plan # <<>>, NEW a,
           Stumble(j, Head(job[j].plan), a)
    PROVE  /\ job' = [i \in Runners |-> job'[i]]
           /\ \A i \in Runners : JobOK(i, job'[i])
           /\ job[j] # NoJob /\ job'[j] # NoJob /\ ~ job'[j].clean
           /\ \A i \in Runners : i # j => job'[i] = job[i]
           /\ disturbed'
<1>1. PICK g : g = job[j]
  OBVIOUS
<1>2. PICK x : x = Head(g.plan)
  OBVIOUS
<1>3. PICK h : h = Advance(j, x, a)
  OBVIOUS
<1>4. JobOK(j, g) /\ g.plan # <<>>
  BY <1>1, Working
<1>5. g # NoJob /\ JobOK(j, h) /\ h # NoJob
  BY <1>1, <1>2, <1>3, <1>4, Advances
<1>6. PICK o : o = Overrun(h)
  OBVIOUS
<1>7. JobOK(j, o) /\ o # NoJob /\ ~ o.clean
  BY <1>5, <1>6, Overlaps
<1>8. job' = [job EXCEPT ![j] = o] /\ disturbed'
  BY <1>1, <1>2, <1>3, <1>6 DEF Stumble, Overrun
<1>9. QED
  BY <1>1, <1>5, <1>7, <1>8, Changed

-----------------------------------------------------------------------------
(* Types: commands, nodes.                                                 *)

LEMMA TypesNext ==
    ASSUME RowOK(row'), svc' \in Services,
           up' \in SUBSET Nodes, online' \in SUBSET Nodes, due' \in SUBSET Nodes,
           late' \in [Nodes -> Seq(LateOK)],
           job' = [j \in Runners |-> job'[j]], \A j \in Runners : JobOK(j, job'[j]),
           faults' \in 0..MaxFaults, disturbed' \in BOOLEAN
    PROVE  Types'
BY Runners0 DEF Types

LEMMA JobsStay ==
    ASSUME Types, UNCHANGED job
    PROVE  job' = [j \in Runners |-> job'[j]] /\ \A j \in Runners : JobOK(j, job'[j])
BY DEF Types

LEMMA FaultOK == ASSUME Types, Fault \/ UNCHANGED faults PROVE faults' \in 0..MaxFaults
BY ControlAssumption DEF Types, Fault

LEMMA LateOut ==
    ASSUME Types, NEW n \in Nodes, late[n] # <<>>
    PROVE  /\ Head(late[n]) \in LateOK
           /\ [late EXCEPT ![n] = Tail(@)] \in [Nodes -> Seq(LateOK)]
           /\ [late EXCEPT ![n] = <<Head(@)>>] \in [Nodes -> Seq(LateOK)]
<1>1. late \in [Nodes -> Seq(LateOK)]
  BY DEF Types
<1>2. PICK q \in Seq(LateOK) : q = late[n]
  BY <1>1
<1>3. Head(q) \in LateOK /\ Tail(q) \in Seq(LateOK) /\ <<Head(q)>> \in Seq(LateOK)
  BY <1>2, HeadTailProperties
<1>4. QED
  BY <1>1, <1>2, <1>3

LEMMA LateIn ==
    ASSUME Types, NEW n \in Nodes, NEW x \in LateOK
    PROVE  /\ [late EXCEPT ![n] = Append(@, x)] \in [Nodes -> Seq(LateOK)]
           /\ [late EXCEPT ![n] = <<>>] \in [Nodes -> Seq(LateOK)]
<1>1. late \in [Nodes -> Seq(LateOK)]
  BY DEF Types
<1>2. PICK q \in Seq(LateOK) : q = late[n]
  BY <1>1
<1>3. Append(q, x) \in Seq(LateOK) /\ <<>> \in Seq(LateOK)
  BY <1>2
<1>4. QED
  BY <1>1, <1>2, <1>3

\* What a reply does.
LEMMA ReplyDoes ==
    ASSUME Types, NEW j \in Runners, NEW g, NEW x, NEW d, NEW h, Reply(j, g, x, d, h)
    PROVE  /\ JobOK(j, g) /\ g # NoJob /\ g.plan \in Seq(StepsOf(g.new)) /\ g.plan # <<>>
           /\ x = Head(g.plan) /\ x \in StepsOf(g.new)
           /\ x.cmd \in Cmds /\ x.names \in Parts /\ (x.cmd \in Writing => g.new \in Targets)
           /\ d = Execute(x.cmd, x.names, g.new) /\ svc' = d.svc /\ svc' \in Services
           /\ JobOK(j, h) /\ h # NoJob /\ Same(g, h)
           /\ job'[j] = h
           /\ job' = [i \in Runners |-> job'[i]]
           /\ \A i \in Runners : JobOK(i, job'[i])
           /\ \A i \in Runners : i # j => job'[i] = job[i]
<1>1. /\ g = job[j] /\ g.plan # <<>> /\ x = Head(g.plan)
      /\ d = Execute(x.cmd, x.names, g.new)
      /\ h = Advance(j, x, d.answer)
      /\ svc' = d.svc /\ job' = [job EXCEPT ![j] = h]
  BY DEF Reply
<1>2. JobOK(j, g)
  BY <1>1, Working
<1>3. PICK a : a = d.answer
  OBVIOUS
<1>4. g # NoJob /\ x \in StepsOf(g.new) /\ JobOK(j, h) /\ h # NoJob /\ Same(g, h)
  BY <1>1, <1>2, <1>3, Advances
<1>5. x.cmd \in Cmds /\ x.names \in Parts /\ (x.cmd \in Writing => g.new \in Targets)
  BY <1>4 DEF StepsOf
<1>6. svc \in Services /\ x.names \in SUBSET Names
  BY <1>5 DEF Types, Parts
<1>7. d.svc \in Services
  <2>1. PICK c, N, t : c = x.cmd /\ N = x.names /\ t = g.new
    OBVIOUS
  <2>2. /\ c \in Cmds /\ N \in SUBSET Names /\ (c \in Writing => t \in Targets)
        /\ d = Execute(c, N, t)
    BY <1>1, <1>5, <1>6, <2>1
  <2>3. QED
    BY <1>6, <2>2, Done
<1>8. QED
  BY <1>1, <1>2, <1>4, <1>5, <1>7, Changed, Idle

LEMMA AnsweredTypes ==
    ASSUME Types, NEW j \in Runners, NEW g, NEW x, NEW d, NEW h, Reply(j, g, x, d, h)
    PROVE  Types'
<1>1. UNCHANGED <<row, up, online, late, due, faults, disturbed>>
  BY DEF Reply
<1>2. svc' \in Services /\ job' = [i \in Runners |-> job'[i]] /\ \A i \in Runners : JobOK(i, job'[i])
  BY ReplyDoes
<1>3. QED
  BY <1>1, <1>2, TypesNext DEF Types

LEMMA StumbledTypes ==
    ASSUME Types, NEW j \in Runners, job[j].plan # <<>>, NEW a,
           Stumble(j, Head(job[j].plan), a), UNCHANGED <<row, up, online, due>>,
           svc' \in Services, late' \in [Nodes -> Seq(LateOK)], Fault \/ UNCHANGED faults
    PROVE  Types'
<1>1. job' = [i \in Runners |-> job'[i]] /\ \A i \in Runners : JobOK(i, job'[i])
  BY Stumbles
<1>2. disturbed'
  BY Stumbles
<1>3. faults' \in 0..MaxFaults
  BY FaultOK
<1>4. disturbed' \in BOOLEAN
  BY DEF Stumble
<1>5. QED
  BY <1>1, <1>3, <1>4, TypesNext DEF Types

\* What is sent next.
LEMMA NextStep ==
    ASSUME Types, NEW j \in Runners, job[j].plan # <<>>, NEW x, x = Head(job[j].plan)
    PROVE  /\ x.cmd \in Cmds /\ x.names \in Parts
           /\ (x.cmd \in Writing => job[j].new \in Targets)
           /\ [cmd |-> x.cmd, names |-> x.names, target |-> job[j].new] \in LateOK
           /\ HostOf(x.names) \in Nodes
<1>1. JobOK(j, job[j]) /\ job[j].plan \in Seq(StepsOf(job[j].new))
  BY Working, Idle
<1>2. x \in StepsOf(job[j].new)
  BY <1>1, HeadTailProperties
<1>3. job[j].new \in Contents
  BY <1>1 DEF JobOK, Goroutine
<1>4. QED
  BY <1>2, <1>3, Places DEF StepsOf, LateOK

LEMMA TimesOutTypes ==
    ASSUME Types, NEW j \in Runners, job[j].plan # <<>>, NEW x, x = Head(job[j].plan),
           TimesOut(j, x), UNCHANGED <<row, up, online, due>>
    PROVE  Types'
<1>1. /\ x.cmd \in Cmds /\ x.names \in SUBSET Names
      /\ (x.cmd \in Writing => job[j].new \in Targets)
      /\ HostOf(x.names) \in Nodes
  BY NextStep DEF Parts
<1>2. svc \in Services /\ late \in [Nodes -> Seq(LateOK)]
  BY DEF Types
<1>3. PICK d : d = Execute(x.cmd, x.names, job[j].new)
  OBVIOUS
<1>4. PICK c, N, t : c = x.cmd /\ N = x.names /\ t = job[j].new
  OBVIOUS
<1>5. d.svc \in Services
  <2>1. /\ c \in Cmds /\ N \in SUBSET Names /\ (c \in Writing => t \in Targets)
        /\ d = Execute(c, N, t)
    BY <1>1, <1>3, <1>4
  <2>2. QED
    BY <1>2, <2>1, Done
<1>6. svc' \in Services
  BY <1>2, <1>3, <1>5 DEF TimesOut
<1>7. PICK y : y = [cmd |-> x.cmd, names |-> x.names, target |-> job[j].new]
  OBVIOUS
<1>8. y \in LateOK
  BY <1>7, NextStep
<1>9. [late EXCEPT ![HostOf(x.names)] = Append(@, y)] \in [Nodes -> Seq(LateOK)]
  BY <1>1, <1>8, LateIn
<1>10. late' \in [Nodes -> Seq(LateOK)]
  BY <1>2, <1>7, <1>9 DEF TimesOut
<1>11. Fault /\ Stumble(j, Head(job[j].plan), "timeout")
  BY DEF TimesOut
<1>12. PICK a : a = "timeout"
  OBVIOUS
<1>13. Stumble(j, Head(job[j].plan), a)
  BY <1>11, <1>12
<1>14. QED
  BY <1>6, <1>10, <1>11, <1>13, StumbledTypes

\* How a command ends: answered as it should be, or not.
Failing(j) ==
    /\ job[j].plan # <<>>
    /\ \E a : Stumble(j, Head(job[j].plan), a)
    /\ UNCHANGED <<row, up, online, due>>

LEMMA Sends ==
    ASSUME Types, NEW j \in Runners, Command(j)
    PROVE  \/ \E g, x, d, h : Reply(j, g, x, d, h)
           \/ Failing(j) /\ Types'
<1>1. PICK x : x = Head(job[j].plan)
  OBVIOUS
<1>2. job[j].plan # <<>> /\ UNCHANGED <<row, up, online, due>>
  BY DEF Command
<1>3. CASE HostOf(x.names) \in online \cap up /\ Answered(j, x)
  BY <1>1, <1>2, <1>3, Replies
<1>4. CASE NodeFails(j, x)
  <2>1. Fault /\ Damaged(x.cmd, x.names, job[j].new) /\ Stumble(j, x, "failed") /\ UNCHANGED late
    BY <1>4 DEF NodeFails
  <2>2. PICK a : a = "failed"
    OBVIOUS
  <2>3. Stumble(j, Head(job[j].plan), a)
    BY <1>1, <2>1, <2>2
  <2>4. PICK t : t = job[j].new
    OBVIOUS
  <2>5. svc \in Services /\ x.cmd \in Cmds /\ x.names \in SUBSET Names
        /\ (x.cmd \in Writing => t \in Targets)
    BY <1>1, <1>2, <2>4, NextStep DEF Types, Parts
  <2>6. svc' \in Services
    BY <2>1, <2>4, <2>5, DamagedOK
  <2>7. late' \in [Nodes -> Seq(LateOK)]
    BY <2>1 DEF Types
  <2>8. QED
    BY <1>2, <2>1, <2>3, <2>6, <2>7, StumbledTypes DEF Failing
<1>5. CASE TimesOut(j, x)
  <2>1. Types'
    BY <1>1, <1>2, <1>5, TimesOutTypes
  <2>2. QED
    BY <1>1, <1>2, <1>5, <2>1 DEF Failing, TimesOut
<1>6. CASE \E a : Unreachable(j, x, a)
  <2>1. PICK a : Unreachable(j, x, a)
    BY <1>6
  <2>2. Stumble(j, Head(job[j].plan), a) /\ UNCHANGED <<svc, late, faults>>
    BY <1>1, <2>1 DEF Unreachable
  <2>3. svc' \in Services /\ late' \in [Nodes -> Seq(LateOK)]
    BY <2>2 DEF Types
  <2>4. QED
    BY <1>2, <2>2, <2>3, StumbledTypes DEF Failing
<1>7. QED
  BY <1>1, <1>3, <1>4, <1>5, <1>6 DEF Command

LEMMA ExecuteLateTypes == ASSUME Types, NEW n \in Nodes, ExecuteLate(n) PROVE Types'
<1>1. PICK x : x = Head(late[n])
  OBVIOUS
<1>2. x \in LateOK /\ [late EXCEPT ![n] = Tail(@)] \in [Nodes -> Seq(LateOK)]
  BY <1>1, LateOut DEF ExecuteLate
<1>3. PICK d : d = Execute(x.cmd, x.names, x.target)
  OBVIOUS
<1>4. svc' = d.svc /\ late' = [late EXCEPT ![n] = Tail(@)] /\ job' = Overlapped /\ disturbed'
      /\ UNCHANGED <<row, up, online, due, faults>>
  BY <1>1, <1>3 DEF ExecuteLate
<1>5. PICK c, N, t : c = x.cmd /\ N = x.names /\ t = x.target
  OBVIOUS
<1>6. /\ c \in Cmds /\ N \in SUBSET Names /\ (c \in Writing => t \in Targets)
      /\ d = Execute(c, N, t) /\ svc \in Services
  BY <1>2, <1>3, <1>5 DEF LateOK, Parts, Types
<1>7. d.svc \in Services
  BY <1>6, Done
<1>8. disturbed' \in BOOLEAN
  BY DEF ExecuteLate
<1>9. job' = [j \in Runners |-> job'[j]] /\ \A j \in Runners : JobOK(j, job'[j])
  BY <1>4, Overlapping
<1>10. QED
  BY <1>2, <1>4, <1>7, <1>8, <1>9, TypesNext DEF Types

LEMMA CrashDoes ==
    ASSUME Types, NEW n \in Nodes
    PROVE  Become(On(n), [s \in Names |-> Lost(s)]) \in Services
<1> DEFINE f == [s \in Names |-> Lost(s)]
<1>1. ASSUME NEW s \in Names PROVE Entry(f[s])
  <2>1. Entry(svc[s]) /\ svc \in Services
    BY Entries DEF Types
  <2>2. ~ svc[s].twice \/ svc[s].kept # "none"
    BY <2>1 DEF Entry
  <2>3. QED
    BY <2>1, <2>2, LostOK
<1> HIDE DEF f
<1>2. PICK F : F = f
  OBVIOUS
<1>3. On(n) \in SUBSET Names /\ svc \in Services
  BY DEF On, Types
<1>4. PICK M : M = On(n)
  OBVIOUS
<1>5. M \in SUBSET Names /\ \A s \in M : Entry(F[s])
  BY <1>1, <1>2, <1>3, <1>4
<1>6. Become(M, F) \in Services
  BY <1>3, <1>5, Becomes
<1>7. QED
  BY <1>2, <1>4, <1>6 DEF f

LEMMA NodeCrashTypes == ASSUME Types, NEW n \in Nodes, NodeCrash(n) PROVE Types'
<1>1. svc' \in Services
  BY CrashDoes DEF NodeCrash
<1>2. <<>> \in Seq(LateOK)
  OBVIOUS
<1>3. late' \in [Nodes -> Seq(LateOK)]
  BY <1>2 DEF NodeCrash, Types
<1>4. job' = [j \in Runners |-> job'[j]] /\ \A j \in Runners : JobOK(j, job'[j])
  BY Overlapping DEF NodeCrash
<1>5. disturbed' \in BOOLEAN /\ up' \in SUBSET Nodes /\ UNCHANGED <<row, online, due>>
  BY DEF NodeCrash, Types
<1>6. faults' \in 0..MaxFaults
  BY FaultOK DEF NodeCrash
<1>7. QED
  BY <1>1, <1>3, <1>4, <1>5, <1>6, TypesNext DEF Types

\* A node that starts serves what its configuration has.
LEMMA BootDoes ==
    ASSUME Types, NEW n \in Nodes, NEW v,
           v = Become(Configured(n), [s \in Names |->
                               [svc[s] EXCEPT !.reg = "open", !.target = svc[s].kept]])
    PROVE  /\ v \in Services
           /\ \A s \in Names : IF Host(s) = n /\ svc[s].kept # "none"
                THEN Is(v[s], "open", svc[s].kept, svc[s].kept, svc[s].mark, svc[s].twice)
                ELSE v[s] = svc[s]
<1> DEFINE f == [s \in Names |-> [svc[s] EXCEPT !.reg = "open", !.target = svc[s].kept]]
<1>1. ASSUME NEW s \in Configured(n)
      PROVE  /\ Entry(f[s])
             /\ Is(f[s], "open", svc[s].kept, svc[s].kept, svc[s].mark, svc[s].twice)
  <2>1. s \in Names /\ Entry(svc[s]) /\ svc[s].kept # "none"
    BY Entries DEF Types, Configured, On
  <2>2. QED
    BY <2>1 DEF Entry, Under, Is
<1>2. PICK M : M = Configured(n)
  OBVIOUS
<1>3. M \in SUBSET Names /\ \A s \in Names : s \in M <=> Host(s) = n /\ svc[s].kept # "none"
  BY <1>2 DEF Configured, On
<1>4. v = Become(M, f)
  BY <1>2
<1> HIDE DEF f
<1>5. PICK F : F = f
  OBVIOUS
<1>6. \A s \in M : Entry(F[s])
  BY <1>1, <1>2, <1>5
<1>7. svc \in Services
  BY DEF Types
<1>8. /\ Become(M, F) \in Services
      /\ \A s \in M : Become(M, F)[s] = F[s]
      /\ \A s \in Names \ M : Become(M, F)[s] = svc[s]
  BY <1>3, <1>6, <1>7, Becomes
<1>9. QED
  BY <1>1, <1>2, <1>3, <1>4, <1>5, <1>8

LEMMA NodeBootTypes == ASSUME Types, NEW n \in Nodes, NodeBoot(n) PROVE Types'
<1>1. PICK v : v = Become(Configured(n), [s \in Names |->
                               [svc[s] EXCEPT !.reg = "open", !.target = svc[s].kept]])
  OBVIOUS
<1>2. svc' \in Services
  BY <1>1, BootDoes DEF NodeBoot
<1>3. job' = [j \in Runners |-> job'[j]] /\ \A j \in Runners : JobOK(j, job'[j])
  BY JobsStay DEF NodeBoot
<1>4. up' \in SUBSET Nodes /\ UNCHANGED <<row, online, late, due, faults, disturbed>>
  BY DEF NodeBoot, Types
<1>5. QED
  BY <1>2, <1>3, <1>4, TypesNext DEF Types

LEMMA DisconnectTypes == ASSUME Types, NEW n \in Nodes, Disconnect(n) PROVE Types'
<1>1. <<>> \in Seq(LateOK)
  OBVIOUS
<1>2. [late EXCEPT ![n] = <<>>] \in [Nodes -> Seq(LateOK)]
  BY <1>1 DEF Types
<1>3. late' \in [Nodes -> Seq(LateOK)]
  <2>1. CASE late' = [late EXCEPT ![n] = <<>>]
    BY <1>2, <2>1
  <2>2. CASE late[n] # <<>> /\ late' = [late EXCEPT ![n] = <<Head(@)>>]
    BY <2>2, LateOut
  <2>3. QED
    BY <2>1, <2>2 DEF Disconnect
<1>4. job' = [j \in Runners |-> job'[j]] /\ \A j \in Runners : JobOK(j, job'[j])
  BY JobsStay DEF Disconnect
<1>5. online' \in SUBSET Nodes /\ UNCHANGED <<row, svc, up, due, disturbed>>
  BY DEF Disconnect, Types
<1>6. faults' \in 0..MaxFaults
  BY FaultOK DEF Disconnect
<1>7. QED
  BY <1>3, <1>4, <1>5, <1>6, TypesNext DEF Types

LEMMA ConnectTypes == ASSUME Types, NEW n \in Nodes, Connect(n) PROVE Types'
<1>1. job' = [j \in Runners |-> job'[j]] /\ \A j \in Runners : JobOK(j, job'[j])
  BY JobsStay DEF Connect
<1>2. /\ online' \in SUBSET Nodes /\ due' \in SUBSET Nodes
      /\ UNCHANGED <<row, svc, up, late, faults, disturbed>>
  BY DEF Connect, Types
<1>3. QED
  BY <1>1, <1>2, TypesNext DEF Types

-----------------------------------------------------------------------------
(* Types: goroutines begin.                                                *)

LEMMA JobOf ==
    ASSUME NEW j, NEW g, g.op \in AllOps \cup RecOps, g.snap \in Rows, g.new \in Contents,
           g.plan \in Seq(StepsOf(g.new)), g.failed \in BOOLEAN, g.clean \in BOOLEAN,
           g = [op |-> g.op, snap |-> g.snap, new |-> g.new, plan |-> g.plan,
                failed |-> g.failed, clean |-> g.clean],
           g.op \in AllOps => j \in Jobs, g.op \in RecOps => j \in Nodes,
           g.op \in Edits \cup {"create"} => g.new \in Targets
    PROVE  JobOK(j, g) /\ g # NoJob
<1>1. g.plan \in Seq([cmd : Cmds, names : Parts, mode : Modes])
  BY StepsIn, Wider
<1>2. g \in Goroutine
  BY <1>1 DEF Goroutine
<1>3. g.op # "idle"
  BY DEF AllOps, RecOps
<1>4. QED
  BY <1>2, <1>3 DEF JobOK, NoJob

LEMMA Beginning ==
    ASSUME Types, NEW j \in Runners, NEW op \in AllOps \cup RecOps, NEW t \in Contents,
           NEW p \in Seq(StepsOf(t)), Begin(j, op, t, p),
           op \in AllOps => j \in Jobs, op \in RecOps => j \in Nodes,
           op \in Edits \cup {"create"} => t \in Targets
    PROVE  /\ job[j] = NoJob
           /\ job' = [i \in Runners |-> job'[i]]
           /\ \A i \in Runners : JobOK(i, job'[i])
           /\ job'[j] = [op |-> op, snap |-> row, new |-> t, plan |-> p,
                         failed |-> FALSE, clean |-> Busy = {}]
           /\ job'[j] # NoJob
           /\ \A i \in Busy : job'[i] = Overrun(job[i])
           /\ \A i \in Runners \ Busy : i # j => job'[i] = NoJob
<1>1. PICK g : g = [op |-> op, snap |-> row, new |-> t, plan |-> p,
                    failed |-> FALSE, clean |-> Busy = {}]
  OBVIOUS
<1>2. /\ g.op = op /\ g.snap = row /\ g.new = t /\ g.plan = p
      /\ g.failed = FALSE /\ g.clean = (Busy = {})
      /\ g = [op |-> g.op, snap |-> g.snap, new |-> g.new, plan |-> g.plan,
              failed |-> g.failed, clean |-> g.clean]
  BY <1>1
<1>3. row \in Rows /\ g.failed \in BOOLEAN /\ g.clean \in BOOLEAN
  BY <1>2 DEF Types, RowOK
<1>4. JobOK(j, g) /\ g # NoJob
  BY <1>2, <1>3, JobOf
<1>5. job[j] = NoJob /\ job' = [Overlapped EXCEPT ![j] = g]
  BY <1>1 DEF Begin
<1>6. job'[j] = g /\ \A i \in Runners : i # j => job'[i] = Overlapped[i]
  BY <1>5, Overlapping
<1>7. job' = [i \in Runners |-> job'[i]]
  BY <1>5, Overlapping
<1>8. \A i \in Busy : i \in Runners /\ i # j
  BY <1>5 DEF Busy
<1>9. QED
  BY <1>1, <1>4, <1>5, <1>6, <1>7, <1>8, Overlapping

LEMMA RowHolds == Types => (Exists => row.target \in Targets) /\ row.target \in Contents
BY DEF Types, RowOK, Rows, Exists

LEMMA StartJobTypes ==
    ASSUME Types, NEW j \in Jobs, NEW op \in Ops, NEW t \in Targets, StartJob(j, op, t)
    PROVE  Types'
<1>1. op \in AllOps /\ j \in Runners /\ t \in Contents /\ op \notin RecOps
  BY ControlAssumption DEF Runners, Contents, AllOps, RecOps
<1>2. PICK p : p = PlanOf(op)
  OBVIOUS
<1>3. p \in Seq(StepsOf(t))
  BY <1>1, <1>2, PlansOK
<1>4. Begin(j, op, t, p)
  BY <1>2 DEF StartJob
<1>5. job' = [i \in Runners |-> job'[i]] /\ \A i \in Runners : JobOK(i, job'[i])
  BY <1>1, <1>3, <1>4, Beginning
<1>6. RowOK([status |-> "active", target |-> t])
  BY <1>1 DEF RowOK, Rows
<1>7. RowOK(row') /\ disturbed' \in BOOLEAN /\ UNCHANGED <<svc, up, online, late, due, faults>>
  BY <1>6 DEF StartJob, Types
<1>8. QED
  BY <1>5, <1>7, TypesNext DEF Types

LEMMA FoundOK ==
    ASSUME NEW s \in {"tcp", "udp", "tls", "chain"}, NEW n, NEW t
    PROVE  Found(s, n) \in Seq(StepsOf(t))
<1>1. CASE s \in Configured(n)
  <2>1. PartOf(s) \in Parts
    <3>1. s \in Names
      BY <1>1 DEF Configured, On
    <3>2. Main \subseteq Names /\ Main # {}
      BY Places
    <3>3. QED
      BY <3>1, <3>2 DEF PartOf, Parts
  <2>2. <<Step("delete", PartOf(s), "best")>> \in Seq(StepsOf(t))
    BY <2>1, StepOK DEF Cmds, Modes, Writing
  <2>3. QED
    BY <1>1, <2>2 DEF Found
<1>2. CASE s \notin Configured(n)
  <2>1. <<>> \in Seq(StepsOf(t))
    OBVIOUS
  <2>2. QED
    BY <1>2, <2>1 DEF Found
<1>3. QED
  BY <1>1, <1>2

LEMMA ReportPlanOK == ASSUME NEW n, NEW t PROVE ReportPlan(n) \in Seq(StepsOf(t))
<1>1. PICK a, b, c, d : /\ a = Found("tcp", n) /\ b = Found("udp", n)
                        /\ c = Found("tls", n) /\ d = Found("chain", n)
  OBVIOUS
<1>2. /\ a \in Seq(StepsOf(t)) /\ b \in Seq(StepsOf(t))
      /\ c \in Seq(StepsOf(t)) /\ d \in Seq(StepsOf(t))
  BY <1>1, FoundOK
<1>3. ReportPlan(n) = a \o b \o c \o d
  BY <1>1 DEF ReportPlan
<1>4. a \o b \o c \o d \in Seq(StepsOf(t))
  BY <1>2
<1>5. QED
  BY <1>3, <1>4

LEMMA StartReportTypes ==
    ASSUME Types, NEW j \in Jobs, NEW n \in Nodes, StartReport(j, n)
    PROVE  Types'
<1>1. PICK p : p = ReportPlan(n)
  OBVIOUS
<1>2. PICK t, o : t = "none" /\ o = "report"
  OBVIOUS
<1>3. j \in Runners /\ t \in Contents /\ o \in AllOps
      /\ o \notin RecOps /\ o \notin Edits \cup {"create"}
  BY <1>2 DEF Runners, Contents, AllOps, RecOps, Edits
<1>4. p \in Seq(StepsOf(t)) /\ Begin(j, o, t, p)
  BY <1>1, <1>2, ReportPlanOK DEF StartReport
<1>5. job' = [i \in Runners |-> job'[i]] /\ \A i \in Runners : JobOK(i, job'[i])
  BY <1>3, <1>4, Beginning
<1>6. disturbed' \in BOOLEAN /\ UNCHANGED <<row, svc, up, online, late, due, faults>>
  BY DEF StartReport, Types
<1>7. QED
  BY <1>5, <1>6, TypesNext DEF Types

\* What a reconcile is to send.
GentlePlan == IF Exists THEN Steps("add", BuildOrder, "gentle") ELSE <<>>

LEMMA ReconcilePlanOK == Types => GentlePlan \in Seq(StepsOf(row.target))
<1> SUFFICES ASSUME Types PROVE GentlePlan \in Seq(StepsOf(row.target))
  OBVIOUS
<1>1. CASE Exists
  <2>1. PICK t : t = row.target
    OBVIOUS
  <2>2. t \in Targets
    BY <1>1, <2>1, RowHolds
  <2>3. Steps("add", BuildOrder, "gentle") \in Seq(StepsOf(t))
    BY <2>2, Orders, StepsOK DEF Cmds, Modes, Writing
  <2>4. QED
    BY <1>1, <2>1, <2>3 DEF GentlePlan
<1>2. CASE ~ Exists
  BY <1>2 DEF GentlePlan
<1>3. QED
  BY <1>1, <1>2

LEMMA StartReconcileDoes ==
    ASSUME Types, NEW n \in Nodes, StartReconcile(n)
    PROVE  /\ job[n] = NoJob
           /\ job' = [i \in Runners |-> job'[i]]
           /\ \A i \in Runners : JobOK(i, job'[i])
           /\ job'[n] = [op |-> "reconcile", snap |-> row, new |-> row.target,
                         plan |-> GentlePlan, failed |-> FALSE, clean |-> Busy = {}]
           /\ job'[n] # NoJob
           /\ \A i \in Busy : job'[i] = Overrun(job[i])
           /\ \A i \in Runners \ Busy : i # n => job'[i] = NoJob
<1>1. PICK p : p = GentlePlan
  OBVIOUS
<1>2. PICK t, o : t = row.target /\ o = "reconcile"
  OBVIOUS
<1>3. /\ n \in Runners /\ o \in RecOps /\ o \in AllOps \cup RecOps
      /\ o \notin AllOps /\ o \notin Edits \cup {"create"}
  BY <1>2 DEF Runners, AllOps, RecOps, Edits
<1>4. t \in Contents
  BY <1>2, RowHolds
<1>5. p \in Seq(StepsOf(t)) /\ Begin(n, o, t, p)
  BY <1>1, <1>2, ReconcilePlanOK DEF StartReconcile, GentlePlan
<1>6. QED
  BY <1>1, <1>2, <1>3, <1>4, <1>5, Beginning

LEMMA StartReconcileTypes == ASSUME Types, NEW n \in Nodes, StartReconcile(n) PROVE Types'
<1>1. job' = [i \in Runners |-> job'[i]] /\ \A i \in Runners : JobOK(i, job'[i])
  BY StartReconcileDoes
<1>2. /\ disturbed' \in BOOLEAN /\ due' \in SUBSET Nodes
      /\ UNCHANGED <<row, svc, up, online, late, faults>>
  BY DEF StartReconcile, Types
<1>3. QED
  BY <1>1, <1>2, TypesNext DEF Types

-----------------------------------------------------------------------------
(* Types: goroutines end.                                                  *)

LEMMA SetRowOK ==
    ASSUME Types, NEW a \in {"active", "paused", "error"}, NEW t,
           Exists => t \in Targets, SetRow(a, t)
    PROVE  RowOK(row')
<1>1. Exists => RowOK([status |-> a, target |-> t])
  BY DEF RowOK, Rows, Contents
<1>2. QED
  BY <1>1 DEF SetRow, Types

LEMMA RowAfterOK ==
    ASSUME Types, NEW j \in Runners, JobOK(j, job[j]), RowAfter(job[j].op, job[j])
    PROVE  RowOK(row')
<1> DEFINE g == job[j]
           op == job[j].op
<1>1. Exists => row.target \in Targets
  BY RowHolds
<1>2. op \in Edits => g.new \in Targets
  BY DEF JobOK
<1>3. RowOK(Gone) /\ RowOK(row)
  BY DEF RowOK, Rows, Gone, Contents, Types
<1>4. PICK e, a, p : e = "error" /\ a = "active" /\ p = "paused"
  OBVIOUS
<1>5. e \in {"active", "paused", "error"} /\ a \in {"active", "paused", "error"}
      /\ p \in {"active", "paused", "error"}
  BY <1>4
<1>6. PICK t, u : t = row.target /\ u = g.new
  OBVIOUS
<1>7. CASE SetRow("error", row.target) \/ SetRow("active", row.target)
           \/ SetRow("paused", row.target)
  <2>1. SetRow(e, t) \/ SetRow(a, t) \/ SetRow(p, t)
    BY <1>4, <1>6, <1>7
  <2>2. Exists => t \in Targets
    BY <1>1, <1>6
  <2>3. QED
    BY <1>5, <2>1, <2>2, SetRowOK
<1>8. CASE op \in Edits /\ SetRow("active", g.new)
  <2>1. SetRow(a, u) /\ u \in Targets
    BY <1>2, <1>4, <1>6, <1>8
  <2>2. QED
    BY <1>5, <2>1, SetRowOK
<1>9. CASE row' = Gone \/ UNCHANGED row
  BY <1>3, <1>9
<1>10. QED
  BY <1>7, <1>8, <1>9 DEF RowAfter

LEMMA FinishJobDoes ==
    ASSUME Types, NEW j \in Jobs, FinishJob(j)
    PROVE  /\ RowOK(row')
           /\ job' = [i \in Runners |-> job'[i]]
           /\ \A i \in Runners : JobOK(i, job'[i])
           /\ job'[j] = NoJob
           /\ \A i \in Runners : i # j => job'[i] = job[i]
           /\ job[j] # NoJob /\ JobOK(j, job[j])
<1>1. j \in Runners
  BY DEF Runners
<1>2. JobOK(j, job[j]) /\ RowAfter(job[j].op, job[j])
  BY <1>1, Working DEF FinishJob
<1>3. RowOK(row')
  BY <1>1, <1>2, RowAfterOK
<1>4. job[j] # NoJob
  BY DEF FinishJob, NoJob, AllOps
<1>5. JobOK(j, NoJob) /\ job' = [job EXCEPT ![j] = NoJob]
  BY IdleOK DEF FinishJob
<1>6. PICK h : h = NoJob
  OBVIOUS
<1>7. JobOK(j, h) /\ job' = [job EXCEPT ![j] = h]
  BY <1>5, <1>6
<1>8. QED
  BY <1>1, <1>2, <1>3, <1>4, <1>6, <1>7, Changed

LEMMA FinishJobTypes == ASSUME Types, NEW j \in Jobs, FinishJob(j) PROVE Types'
<1>1. RowOK(row') /\ job' = [i \in Runners |-> job'[i]] /\ \A i \in Runners : JobOK(i, job'[i])
  BY FinishJobDoes
<1>2. disturbed' \in BOOLEAN /\ UNCHANGED <<svc, up, online, late, due, faults>>
  BY DEF FinishJob, Types
<1>3. QED
  BY <1>1, <1>2, TypesNext DEF Types

\* A reconcile's next part.
Turned(g, op, p) == [g EXCEPT !.op = op, !.plan = p]

LEMMA Turns ==
    ASSUME NEW n \in Nodes, NEW g, JobOK(n, g), NEW op \in RecOps,
           NEW p \in Seq(StepsOf(g.new)), NEW h, h = Turned(g, op, p)
    PROVE  /\ JobOK(n, h) /\ h # NoJob
           /\ h.op = op /\ h.plan = p /\ h.snap = g.snap /\ h.new = g.new
           /\ h.failed = g.failed /\ h.clean = g.clean
<1>1. p \in Seq([cmd : Cmds, names : Parts, mode : Modes])
  BY StepsIn, Wider
<1>2. /\ h \in Goroutine
      /\ h.op = op /\ h.plan = p /\ h.snap = g.snap /\ h.new = g.new
      /\ h.failed = g.failed /\ h.clean = g.clean
  BY <1>1 DEF JobOK, Goroutine, Turned
<1>3. op # "idle" /\ op \notin AllOps /\ op \notin Edits \cup {"create"}
  BY DEF RecOps, AllOps, Edits
<1>4. QED
  BY <1>2, <1>3 DEF JobOK, NoJob

LEMMA TurnMap ==
    ASSUME Types, NEW n \in Nodes, NEW op \in RecOps, NEW p \in Seq(StepsOf(job[n].new)),
           job' = Onward(n, op, p)
    PROVE  /\ job' = [i \in Runners |-> job'[i]]
           /\ \A i \in Runners : JobOK(i, job'[i])
           /\ job'[n] # NoJob
           /\ job'[n].op = op /\ job'[n].plan = p
           /\ job'[n].snap = job[n].snap /\ job'[n].new = job[n].new
           /\ job'[n].failed = job[n].failed /\ job'[n].clean = job[n].clean
           /\ \A i \in Runners : i # n => job'[i] = job[i]
<1>1. n \in Runners /\ JobOK(n, job[n])
  BY Working DEF Runners
<1>2. PICK g : g = job[n]
  OBVIOUS
<1>3. PICK h : h = Turned(g, op, p)
  OBVIOUS
<1>4. /\ JobOK(n, h) /\ h # NoJob
      /\ h.op = op /\ h.plan = p /\ h.snap = g.snap /\ h.new = g.new
      /\ h.failed = g.failed /\ h.clean = g.clean
  BY <1>1, <1>2, <1>3, Turns
<1>5. job' = [job EXCEPT ![n] = h]
  BY <1>1, <1>2, <1>3 DEF Onward, Turned, Types
<1>6. QED
  BY <1>1, <1>2, <1>4, <1>5, Changed

LEMMA NodeParts ==
    ASSUME NEW n \in Nodes
    PROVE  /\ On(n) \ Chain \in Parts /\ On(n) \ Chain \subseteq Names \ Chain
           /\ HostOf(On(n) \ Chain) = n
           /\ \A s \in On(n) \ Chain : Host(s) = n
<1>1. CASE n = "in"
  <2>1. "tcp" \in Names /\ Host("tcp") = "in" /\ "tcp" \notin Remote /\ "tcp" \notin Chain
    BY Places DEF Main, Remote, Chain, Host
  <2>2. "tcp" \in On(n) \ Chain
    BY <1>1, <2>1 DEF On
  <2>3. QED
    BY <1>1, <2>1, <2>2 DEF On, HostOf, Parts
<1>2. CASE n # "in"
  <2>1. Tunnel /\ n = "out"
    BY <1>2 DEF Nodes
  <2>2. "tls" \in Names /\ Host("tls") = "out" /\ "tls" \notin Chain
    BY <2>1, Places DEF Remote, Chain, Host
  <2>3. On(n) \ Chain = Remote /\ "tls" \in Remote
    BY <2>1, Places DEF On, Host, Remote, Chain, Main
  <2>4. QED
    BY <2>1, <2>2, <2>3, Places DEF HostOf, Parts, Host, Chain, Remote
<1>3. QED
  BY <1>1, <1>2

\* The second part of a reconcile, and the third.
Repause(n, g) == IF g.snap.status = "paused"
                 THEN <<Step("pause", On(n) \ Chain, "best")>> ELSE <<>>

LEMMA RepauseOK ==
    ASSUME NEW n \in Nodes, NEW g PROVE Repause(n, g) \in Seq(StepsOf(g.new))
<1>1. <<Step("pause", On(n) \ Chain, "best")>> \in Seq(StepsOf(g.new))
  <2>1. PICK N, t : N = On(n) \ Chain /\ t = g.new
    OBVIOUS
  <2>2. N \in Parts
    BY <2>1, NodeParts
  <2>3. <<Step("pause", N, "best")>> \in Seq(StepsOf(t))
    BY <2>2, StepOK DEF Cmds, Modes, Writing
  <2>4. QED
    BY <2>1, <2>3
<1>2. <<>> \in Seq(StepsOf(g.new))
  OBVIOUS
<1>3. QED
  BY <1>1, <1>2 DEF Repause

LEMMA FinishSyncDoes ==
    ASSUME Types, NEW n \in Nodes, FinishSync(n)
    PROVE  /\ RowOK(row')
           /\ job' = [i \in Runners |-> job'[i]]
           /\ \A i \in Runners : JobOK(i, job'[i])
           /\ job'[n] # NoJob
           /\ job'[n].op = "repause" /\ job'[n].plan = Repause(n, job[n])
           /\ job'[n].snap = job[n].snap /\ job'[n].new = job[n].new
           /\ job'[n].failed = job[n].failed /\ job'[n].clean = job[n].clean
           /\ \A i \in Runners : i # n => job'[i] = job[i]
<1>1. PICK g : g = job[n]
  OBVIOUS
<1>2. PICK p, o : p = Repause(n, g) /\ o = "repause"
  OBVIOUS
<1>3. p \in Seq(StepsOf(job[n].new)) /\ o \in RecOps /\ job' = Onward(n, o, p)
  BY <1>1, <1>2, RepauseOK DEF FinishSync, Repause, RecOps
<1>4. Exists => row.target \in Targets
  BY RowHolds
<1>5. PICK a, t : a = "active" /\ t = row.target
  OBVIOUS
<1>6. SetRow(a, t) \/ UNCHANGED row
  BY <1>5 DEF FinishSync
<1>7. a \in {"active", "paused", "error"} /\ (Exists => t \in Targets)
  BY <1>4, <1>5
<1>8. RowOK(row')
  BY <1>6, <1>7, SetRowOK DEF Types
<1>9. QED
  BY <1>1, <1>2, <1>3, <1>8, TurnMap

LEMMA FinishSyncTypes == ASSUME Types, NEW n \in Nodes, FinishSync(n) PROVE Types'
<1>1. RowOK(row') /\ job' = [i \in Runners |-> job'[i]] /\ \A i \in Runners : JobOK(i, job'[i])
  BY FinishSyncDoes
<1>2. UNCHANGED <<svc, up, online, late, due, faults, disturbed>>
  BY DEF FinishSync
<1>3. QED
  BY <1>1, <1>2, TypesNext DEF Types

LEMMA FinishRepauseDoes ==
    ASSUME Types, NEW n \in Nodes, FinishRepause(n)
    PROVE  /\ job' = [i \in Runners |-> job'[i]]
           /\ \A i \in Runners : JobOK(i, job'[i])
           /\ job'[n] # NoJob
           /\ job'[n].op = "orphans" /\ (row # Gone => job'[n].plan = <<>>)
           /\ job'[n].snap = job[n].snap /\ job'[n].new = job[n].new
           /\ job'[n].failed = job[n].failed /\ job'[n].clean = job[n].clean
           /\ \A i \in Runners : i # n => job'[i] = job[i]
           /\ Orphans(n) = {} => job'[n].plan = <<>>
<1>1. PICK o, e : o = "orphans" /\ e = <<>>
  OBVIOUS
<1>2. e \in Seq(StepsOf(job[n].new)) /\ o \in RecOps
  BY <1>1 DEF RecOps
<1>3. CASE job' = Onward(n, "orphans", <<>>)
  <2>1. job' = Onward(n, o, e)
    BY <1>1, <1>3
  <2>2. QED
    BY <1>1, <1>2, <2>1, TurnMap
<1>4. CASE /\ row = Gone /\ Orphans(n) # {}
           /\ job' = Onward(n, "orphans", <<Step("delete", Orphans(n), "best")>>)
  <2>1. PICK N, t : N = Orphans(n) /\ t = job[n].new
    OBVIOUS
  <2>2. N \in Parts
    BY <1>4, <2>1 DEF Orphans, Registered, Parts
  <2>3. PICK p : p = <<Step("delete", N, "best")>>
    OBVIOUS
  <2>4. p \in Seq(StepsOf(t))
    BY <2>2, <2>3, StepOK DEF Cmds, Modes, Writing
  <2>5. p \in Seq(StepsOf(job[n].new)) /\ job' = Onward(n, o, p)
    BY <1>1, <1>4, <2>1, <2>3, <2>4
  <2>6. QED
    BY <1>1, <1>2, <1>4, <2>5, TurnMap
<1>5. QED
  BY <1>3, <1>4 DEF FinishRepause

LEMMA FinishRepauseTypes == ASSUME Types, NEW n \in Nodes, FinishRepause(n) PROVE Types'
<1>1. job' = [i \in Runners |-> job'[i]] /\ \A i \in Runners : JobOK(i, job'[i])
  BY FinishRepauseDoes
<1>2. UNCHANGED <<row, svc, up, online, late, due, disturbed>>
  BY DEF FinishRepause
<1>3. faults' \in 0..MaxFaults
  BY FaultOK DEF FinishRepause
<1>4. QED
  BY <1>1, <1>2, <1>3, TypesNext DEF Types

LEMMA FinishReconcileDoes ==
    ASSUME Types, NEW n \in Nodes, FinishReconcile(n)
    PROVE  /\ job' = [i \in Runners |-> job'[i]]
           /\ \A i \in Runners : JobOK(i, job'[i])
           /\ job'[n] = NoJob
           /\ job[n] # NoJob /\ JobOK(n, job[n])
           /\ \A i \in Runners : i # n => job'[i] = job[i]
<1>1. n \in Runners /\ JobOK(n, job[n])
  BY Working DEF Runners
<1>2. PICK h : h = NoJob
  OBVIOUS
<1>3. JobOK(n, h) /\ job' = [job EXCEPT ![n] = h]
  BY <1>2, IdleOK DEF FinishReconcile
<1>4. job[n] # NoJob
  BY DEF FinishReconcile, NoJob
<1>5. QED
  BY <1>1, <1>2, <1>3, <1>4, Changed

LEMMA FinishReconcileTypes == ASSUME Types, NEW n \in Nodes, FinishReconcile(n) PROVE Types'
<1>1. job' = [i \in Runners |-> job'[i]] /\ \A i \in Runners : JobOK(i, job'[i])
  BY FinishReconcileDoes
<1>2. UNCHANGED <<row, svc, up, online, late, due, faults, disturbed>>
  BY DEF FinishReconcile
<1>3. QED
  BY <1>1, <1>2, TypesNext DEF Types

LEMMA InitTypes == Init => Types
<1> SUFFICES ASSUME Init PROVE Types
  OBVIOUS
<1>1. RowOK(row)
  BY DEF Init, Unborn, RowOK, Rows, Contents
<1>2. svc \in Services
  BY Entries DEF Init, Services, Entry
<1>3. late \in [Nodes -> Seq(LateOK)]
  <2>1. <<>> \in Seq(LateOK)
    OBVIOUS
  <2>2. QED
    BY <2>1 DEF Init
<1>4. job = [j \in Runners |-> job[j]] /\ \A j \in Runners : JobOK(j, job[j])
  <2>1. job = [j \in Runners |-> NoJob] /\ \A j \in Runners : job[j] = NoJob
    BY DEF Init
  <2>2. \A j \in Runners : JobOK(j, job[j])
    BY <2>1, IdleOK
  <2>3. PICK g : g = NoJob
    OBVIOUS
  <2>4. job = [j \in Runners |-> g]
    BY <2>1, <2>3
  <2>5. job = [j \in Runners |-> job[j]]
    BY <2>4
  <2>6. QED
    BY <2>2, <2>5
<1>5. up \in SUBSET Nodes /\ online \in SUBSET Nodes /\ due \in SUBSET Nodes
  BY DEF Init
<1>6. faults \in 0..MaxFaults /\ disturbed \in BOOLEAN
  <2>1. MaxFaults \in Nat
    BY ControlAssumption
  <2>2. 0 \in 0..MaxFaults
    BY <2>1
  <2>3. faults = 0 /\ disturbed = FALSE
    BY DEF Init
  <2>4. QED
    BY <2>2, <2>3
<1>7. QED
  BY <1>1, <1>2, <1>3, <1>4, <1>5, <1>6 DEF Types

LEMMA NextTypes == Types /\ [Next]_vars => Types'
<1> SUFFICES ASSUME Types, [Next]_vars PROVE Types'
  OBVIOUS
<1>1. ASSUME NEW j \in Jobs, NEW op \in Ops, NEW t \in Targets, StartJob(j, op, t) PROVE Types'
  BY <1>1, StartJobTypes
<1>2. ASSUME NEW j \in Jobs, FinishJob(j) PROVE Types'
  BY <1>2, FinishJobTypes
<1>3. ASSUME NEW j \in Runners, Command(j) PROVE Types'
  BY <1>3, Sends, AnsweredTypes
<1>4. ASSUME NEW n \in Nodes, Reporting(n) \/ ExecuteLate(n) PROVE Types'
  BY <1>4, StartReportTypes, ExecuteLateTypes DEF Reporting
<1>5. ASSUME NEW n \in Nodes, StartReconcile(n) \/ Reconciling(n) PROVE Types'
  BY <1>5, StartReconcileTypes, FinishSyncTypes, FinishRepauseTypes, FinishReconcileTypes
  DEF Reconciling
<1>6. ASSUME NEW n \in Nodes, NodeCrash(n) \/ NodeBoot(n) PROVE Types'
  BY <1>6, NodeCrashTypes, NodeBootTypes
<1>7. ASSUME NEW n \in Nodes, Disconnect(n) \/ Connect(n) PROVE Types'
  BY <1>7, DisconnectTypes, ConnectTypes
<1>8. CASE UNCHANGED vars
  <2>1. UNCHANGED <<row, svc, up, online, late, due, job, faults, disturbed>>
    BY <1>8 DEF vars
  <2>2. job' = [i \in Runners |-> job'[i]] /\ \A i \in Runners : JobOK(i, job'[i])
    BY <2>1, JobsStay
  <2>3. QED
    BY <2>1, <2>2, TypesNext DEF Types
<1>9. QED
  BY <1>1, <1>2, <1>3, <1>4, <1>5, <1>6, <1>7, <1>8 DEF Next

LEMMA Sorted == Types => TypeOK
<1> SUFFICES ASSUME Types PROVE TypeOK
  OBVIOUS
<1>1. /\ row.status \in {"unborn", "active", "paused", "error", "gone"}
      /\ row.target \in Contents
  BY DEF Types, RowOK, Rows
<1>2. ASSUME NEW s \in Names
      PROVE  /\ svc[s].reg \in {"absent", "open", "closed"}
             /\ svc[s].target \in Contents
             /\ svc[s].kept \in Contents
             /\ svc[s].mark \in BOOLEAN /\ svc[s].twice \in BOOLEAN
             /\ svc[s].reg # "absent" \/ svc[s].twice => svc[s].kept # "none"
  <2>1. Entry(svc[s])
    BY Entries DEF Types
  <2>2. QED
    BY <2>1 DEF Entry, Under
<1>3. ASSUME NEW n \in Nodes, NEW i \in DOMAIN late[n]
      PROVE  [cmd |-> late[n][i].cmd, names |-> late[n][i].names] \in Commands
  <2>1. late[n] \in Seq(LateOK)
    BY DEF Types
  <2>2. late[n][i] \in LateOK
    BY <2>1
  <2>3. QED
    BY <2>2 DEF LateOK, Commands, Cmds, Parts
<1>4. QED
  BY <1>1, <1>2, <1>3 DEF Types, TypeOK

-----------------------------------------------------------------------------
(* Who was overlapped, and who is to blame.                                *)

Alone == CleanAlone /\ Blamed

LEMMA AloneNext ==
    ASSUME \A i \in Runners : job'[i] # NoJob /\ job'[i].clean =>
                                 \A k \in Runners : job'[k] # NoJob => k = i,
           \A i \in Runners : job'[i] # NoJob /\ ~ job'[i].clean => disturbed'
    PROVE  Alone'
<1>1. NoJob' = NoJob
  BY DEF NoJob, Unborn
<1>2. ASSUME NEW i \in Runners, job'[i] # NoJob, job'[i].clean PROVE Busy' = {i}
  BY <1>1, <1>2, Runners0 DEF Busy
<1>3. QED
  BY <1>1, <1>2, Runners0 DEF Alone, CleanAlone, Blamed

LEMMA AloneSays ==
    ASSUME Alone, NEW i \in Runners, job[i] # NoJob
    PROVE  /\ job[i].clean => \A k \in Runners : job[k] # NoJob => k = i
           /\ ~ job[i].clean => disturbed
BY DEF Alone, CleanAlone, Blamed, Busy

\* One goes on, and nothing else happens.
LEMMA AloneGoes ==
    ASSUME Alone, NEW j \in Runners, job[j] # NoJob, job'[j] # NoJob,
           job'[j].clean = job[j].clean, disturbed => disturbed',
           \A i \in Runners : i # j => job'[i] = job[i]
    PROVE  /\ Alone'
           /\ \A i \in Runners : job'[i] # NoJob /\ job'[i].clean => i = j
<1>1. ASSUME NEW i \in Runners, job'[i] # NoJob, job'[i].clean
      PROVE  i = j /\ \A k \in Runners : job'[k] # NoJob => k = i
  <2>1. job[i] # NoJob /\ job[i].clean
    BY <1>1
  <2>2. \A k \in Runners : job[k] # NoJob => k = i
    BY <2>1, AloneSays
  <2>3. QED
    BY <2>2
<1>2. ASSUME NEW i \in Runners, job'[i] # NoJob, ~ job'[i].clean PROVE disturbed'
  <2>1. job[i] # NoJob /\ ~ job[i].clean
    BY <1>2
  <2>2. QED
    BY <2>1, AloneSays
<1>3. QED
  BY <1>1, <1>2, AloneNext

\* One ends.
LEMMA AloneEnds ==
    ASSUME Alone, NEW j \in Runners, job[j] # NoJob, job'[j] = NoJob,
           disturbed => disturbed' \/ job[j].clean,
           \A i \in Runners : i # j => job'[i] = job[i]
    PROVE  /\ Alone'
           /\ \A i \in Runners : job'[i] # NoJob => ~ job'[i].clean
           /\ Busy' = {} => Busy = {j}
<1>1. ASSUME NEW i \in Runners, job'[i] # NoJob PROVE ~ job'[i].clean /\ ~ job[j].clean
  <2>1. i # j /\ job[i] = job'[i] /\ job[i] # NoJob
    BY <1>1
  <2>2. ~ job[i].clean
    BY <2>1, AloneSays
  <2>3. ~ job[j].clean
    BY <2>1, AloneSays
  <2>4. QED
    BY <2>1, <2>2, <2>3
<1>2. ASSUME NEW i \in Runners, job'[i] # NoJob, ~ job'[i].clean PROVE disturbed'
  <2>1. i # j /\ job[i] = job'[i] /\ job[i] # NoJob /\ ~ job[i].clean
    BY <1>2
  <2>2. disturbed
    BY <2>1, AloneSays
  <2>3. QED
    BY <1>1, <1>2, <2>2
<1>3. Alone'
  BY <1>1, <1>2, AloneNext
<1>4. ASSUME Busy' = {} PROVE Busy = {j}
  <2>1. NoJob' = NoJob
    BY DEF NoJob, Unborn
  <2>2. \A i \in Runners : job'[i] = NoJob
    BY <1>4, <2>1, Runners0 DEF Busy
  <2>3. QED
    BY <2>2 DEF Busy
<1>5. QED
  BY <1>1, <1>3, <1>4

\* A command fails.
LEMMA AloneFails ==
    ASSUME Alone, NEW j \in Runners, job[j] # NoJob, job'[j] # NoJob, ~ job'[j].clean, disturbed',
           \A i \in Runners : i # j => job'[i] = job[i]
    PROVE  Alone' /\ \A i \in Runners : job'[i] # NoJob => ~ job'[i].clean
<1>1. ASSUME NEW i \in Runners, job'[i] # NoJob, job'[i].clean PROVE FALSE
  <2>1. i # j /\ job[i] = job'[i] /\ job[i] # NoJob /\ job[i].clean
    BY <1>1
  <2>2. QED
    BY <2>1, AloneSays
<1>2. QED
  BY <1>1, AloneNext

\* Everything under way is overlapped.
LEMMA AloneOverlapped ==
    ASSUME Types, job' = Overlapped, disturbed'
    PROVE  Alone' /\ \A i \in Runners : job'[i] # NoJob => ~ job'[i].clean
<1>1. ASSUME NEW i \in Runners, job'[i] # NoJob PROVE ~ job'[i].clean
  <2>1. i \in Busy
    BY <1>1, Overlapping
  <2>2. PICK h : h = Overrun(job[i])
    OBVIOUS
  <2>3. ~ h.clean
    BY <2>1, <2>2, Working, Overlaps DEF Busy
  <2>4. QED
    BY <2>1, <2>2, <2>3, Overlapping
<1>2. QED
  BY <1>1, AloneNext

\* One begins.
LEMMA AloneBegins ==
    ASSUME Types, NEW j \in Runners, job'[j] # NoJob, job'[j].clean = (Busy = {}),
           \A i \in Busy : job'[i] = Overrun(job[i]),
           \A i \in Runners \ Busy : i # j => job'[i] = NoJob,
           job[j] = NoJob, Busy # {} => disturbed'
    PROVE  /\ Alone' /\ Busy' # {}
           /\ \A i \in Runners : job'[i] # NoJob /\ job'[i].clean => i = j /\ Busy = {}
<1>1. ASSUME NEW i \in Busy PROVE ~ job'[i].clean
  <2>1. PICK h : h = Overrun(job[i])
    OBVIOUS
  <2>2. ~ h.clean
    BY <2>1, Working, Overlaps DEF Busy
  <2>3. QED
    BY <2>1, <2>2
<1>2. ASSUME NEW i \in Runners, job'[i] # NoJob, job'[i].clean PROVE i = j /\ Busy = {}
  <2>1. i \notin Busy
    BY <1>1, <1>2
  <2>2. i = j
    BY <1>2, <2>1
  <2>3. QED
    BY <1>2, <2>2
<1>3. ASSUME NEW i \in Runners, job'[i] # NoJob, job'[i].clean, NEW k \in Runners, job'[k] # NoJob
      PROVE  k = i
  <2>1. i = j /\ Busy = {}
    BY <1>2, <1>3
  <2>2. QED
    BY <1>3, <2>1
<1>4. ASSUME NEW i \in Runners, job'[i] # NoJob, ~ job'[i].clean PROVE disturbed'
  <2>1. Busy # {}
    BY <1>4
  <2>2. QED
    BY <2>1
<1>5. Alone'
  BY <1>3, <1>4, AloneNext
<1>6. NoJob' = NoJob
  BY DEF NoJob, Unborn
<1>7. QED
  BY <1>2, <1>5, <1>6, Runners0 DEF Busy

-----------------------------------------------------------------------------
(* What a reply tells about a step of a plan.                              *)

LEMMA Parameters ==
    /\ Targets' = Targets /\ Forwarding' = Forwarding /\ Chain' = Chain /\ Main' = Main
    /\ Remote' = Remote /\ Tunnel' = Tunnel /\ Nothing' = Nothing
    /\ BuildOrder' = BuildOrder /\ RemoveOrder' = RemoveOrder /\ SwitchOrder' = SwitchOrder
    /\ SyncPlan' = SyncPlan
BY DEF Forwarding, Chain, Main, Remote, Nothing, BuildOrder, RemoveOrder, SwitchOrder, SyncPlan,
       Steps, Step

Keeps(g, h, p) == h.plan = p /\ h.failed = g.failed

LEMMA StepFields ==
    ASSUME NEW c, NEW N, NEW m
    PROVE  Step(c, N, m).cmd = c /\ Step(c, N, m).names = N /\ Step(c, N, m).mode = m
BY DEF Step

LEMMA Heard ==
    ASSUME Types, NEW j \in Runners, NEW g, NEW x, NEW d, NEW h, Reply(j, g, x, d, h),
           NEW c, NEW N, NEW m, x = Step(c, N, m)
    PROVE  /\ c \in Cmds /\ N \in SUBSET Names /\ N # {} /\ HostOf(N) \in up /\ N \in Parts
           /\ (c \in Writing => g.new \in Targets)
           /\ svc \in Services
           /\ d = Execute(c, N, g.new) /\ svc' = d.svc
           /\ \A s \in Names \ N : svc'[s] = svc[s]
<1>1. x.cmd = c /\ x.names = N
  BY StepFields
<1>2. /\ x.cmd \in Cmds /\ x.names \in Parts /\ (x.cmd \in Writing => g.new \in Targets)
      /\ d = Execute(x.cmd, x.names, g.new) /\ svc' = d.svc
  BY ReplyDoes
<1>3. HostOf(x.names) \in up
  BY DEF Reply
<1>4. svc \in Services
  BY DEF Types
<1>5. /\ c \in Cmds /\ N \in SUBSET Names /\ N # {} /\ HostOf(N) \in up /\ N \in Parts
      /\ (c \in Writing => g.new \in Targets) /\ d = Execute(c, N, g.new)
  BY <1>1, <1>2, <1>3 DEF Parts
<1>6. PICK t : t = g.new
  OBVIOUS
<1>7. \A s \in Names \ N : d.svc[s] = svc[s]
  BY <1>4, <1>5, <1>6, Done
<1>8. QED
  BY <1>2, <1>4, <1>5, <1>7

\* What each command does when it is answered, with its answer.
LEMMA SentAdd ==
    ASSUME Types, NEW j \in Runners, NEW g, NEW x, NEW d, NEW h, Reply(j, g, x, d, h),
           NEW N, NEW m, x = Step("add", N, m)
    PROVE  /\ N \cap Registered = {} =>
                 /\ d.answer = "ok"
                 /\ \A s \in N : /\ svc'[s].reg = "open" /\ svc'[s].target = g.new
                                 /\ svc'[s].kept = g.new \/ svc'[s].twice
                                 /\ svc[s].kept = "none" => svc'[s].kept = g.new
           /\ N \cap Registered # {} => d.answer = "already_exists" /\ svc' = svc
<1>1. PICK c : c = "add"
  OBVIOUS
<1>2. x = Step(c, N, m)
  BY <1>1
<1>3. PICK t : t = g.new
  OBVIOUS
<1>4. /\ c \in Cmds /\ N \in SUBSET Names /\ t \in Targets /\ svc \in Services
      /\ d = Execute(c, N, t) /\ svc' = d.svc
  BY <1>1, <1>2, <1>3, Heard DEF Writing
<1>5. /\ d.answer = "ok" <=> N \cap Registered = {}
      /\ d.answer = "ok" => d.svc = Created(N, t)
      /\ d.answer # "ok" => d.answer = "already_exists" /\ d.svc = svc
  BY <1>1, <1>4, Done
<1>6. \A s \in N : IF svc[s].kept = "none" THEN Is(Created(N, t)[s], "open", t, t, FALSE, FALSE)
                   ELSE Is(Created(N, t)[s], "open", t, svc[s].kept, svc[s].mark, TRUE)
  BY <1>4, CreatedDoes
<1>7. QED
  BY <1>3, <1>4, <1>5, <1>6 DEF Is

LEMMA SentUpdate ==
    ASSUME Types, NEW j \in Runners, NEW g, NEW x, NEW d, NEW h, Reply(j, g, x, d, h),
           NEW N, NEW m, x = Step("update", N, m)
    PROVE  /\ N \subseteq Registered =>
                 /\ d.answer = "ok"
                 /\ \A s \in N : svc'[s].reg = "open" /\ svc'[s].target = g.new
                                 /\ svc'[s].kept = g.new
           /\ ~ (N \subseteq Registered) => d.answer = "not_found" /\ svc' = svc
<1>1. PICK c : c = "update"
  OBVIOUS
<1>2. x = Step(c, N, m)
  BY <1>1
<1>3. PICK t : t = g.new
  OBVIOUS
<1>4. /\ c \in Cmds /\ N \in SUBSET Names /\ t \in Targets /\ svc \in Services
      /\ d = Execute(c, N, t) /\ svc' = d.svc
  BY <1>1, <1>2, <1>3, Heard DEF Writing
<1>5. /\ d.answer = "ok" <=> N \subseteq Registered
      /\ d.answer # "ok" => d.answer = "not_found" /\ d.svc = svc
      /\ d.answer = "ok" => d.svc = Updated(N, t)
  BY <1>1, <1>4, Done
<1>6. \A s \in N : Is(Updated(N, t)[s], "open", t, t, FALSE, svc[s].twice)
  BY <1>4, UpdatedDoes
<1>7. QED
  BY <1>3, <1>4, <1>5, <1>6 DEF Is

LEMMA SentDelete ==
    ASSUME Types, NEW j \in Runners, NEW g, NEW x, NEW d, NEW h, Reply(j, g, x, d, h),
           NEW N, NEW m, x = Step("delete", N, m)
    PROVE  N \subseteq Registered => d.answer = "ok" /\ \A s \in N : svc'[s] = Nothing
<1>1. PICK c : c = "delete"
  OBVIOUS
<1>2. x = Step(c, N, m)
  BY <1>1
<1>3. PICK t : t = g.new
  OBVIOUS
<1>4. /\ c \in Cmds /\ c \notin Writing /\ N \in SUBSET Names /\ svc \in Services
      /\ d = Execute(c, N, t) /\ svc' = d.svc
  BY <1>1, <1>2, <1>3, Heard DEF Writing
<1>5. /\ d.answer = "ok" <=> N \subseteq Registered
      /\ d.answer = "ok" => d.svc = Deleted(N)
  BY <1>1, <1>4, Done
<1>6. \A s \in N : Deleted(N)[s] = Nothing
  BY <1>4, DeletedDoes
<1>7. QED
  BY <1>4, <1>5, <1>6

LEMMA SentPause ==
    ASSUME Types, NEW j \in Runners, NEW g, NEW x, NEW d, NEW h, Reply(j, g, x, d, h),
           NEW N, NEW m, x = Step("pause", N, m)
    PROVE  /\ N \subseteq Registered =>
                 /\ d.answer = "ok"
                 /\ \A s \in N : svc'[s].reg = "closed" /\ svc'[s].mark
                                 /\ svc'[s].target = svc[s].target /\ svc'[s].kept = svc[s].kept
           /\ ~ (N \subseteq Registered) => svc' = svc
<1>1. PICK c : c = "pause"
  OBVIOUS
<1>2. x = Step(c, N, m)
  BY <1>1
<1>3. PICK t : t = g.new
  OBVIOUS
<1>4. /\ c \in Cmds /\ c \notin Writing /\ N \in SUBSET Names /\ svc \in Services
      /\ d = Execute(c, N, t) /\ svc' = d.svc
  BY <1>1, <1>2, <1>3, Heard DEF Writing
<1>5. /\ d.answer = "ok" <=> N \subseteq Registered
      /\ d.answer # "ok" => d.svc = svc
      /\ d.answer = "ok" => d.svc = PausedAll(N)
  BY <1>1, <1>4, Done
<1>6. N \subseteq Registered =>
         \A s \in N : Is(PausedAll(N)[s], "closed", svc[s].target, svc[s].kept, TRUE, svc[s].twice)
  BY <1>4, PausedDoes
<1>7. QED
  BY <1>4, <1>5, <1>6 DEF Is

LEMMA SentResume ==
    ASSUME Types, NEW j \in Runners, NEW g, NEW x, NEW d, NEW h, Reply(j, g, x, d, h),
           NEW N, NEW m, x = Step("resume", N, m)
    PROVE  N \subseteq Registered =>
                 /\ d.answer = "ok"
                 /\ \A s \in N : IF svc[s].mark
                       THEN svc'[s].reg = "open" /\ svc'[s].target = svc[s].kept
                            /\ svc'[s].kept = svc[s].kept
                       ELSE svc'[s] = svc[s]
<1>1. PICK c : c = "resume"
  OBVIOUS
<1>2. x = Step(c, N, m)
  BY <1>1
<1>3. PICK t : t = g.new
  OBVIOUS
<1>4. /\ c \in Cmds /\ c \notin Writing /\ N \in SUBSET Names /\ svc \in Services
      /\ d = Execute(c, N, t) /\ svc' = d.svc
  BY <1>1, <1>2, <1>3, Heard DEF Writing
<1>5. /\ d.answer = "ok" <=> N \subseteq Registered
      /\ d.answer = "ok" => d.svc = Resumed(N)
  BY <1>1, <1>4, Done
<1>6. N \subseteq Registered =>
         \A s \in N : IF svc[s].mark THEN Is(Resumed(N)[s], "open", svc[s].kept, svc[s].kept,
                                             FALSE, svc[s].twice)
                      ELSE Resumed(N)[s] = svc[s]
  BY <1>4, ResumedDoes
<1>7. QED
  BY <1>4, <1>5, <1>6 DEF Is

LEMMA SentForwarder ==
    ASSUME Types, NEW j \in Runners, NEW g, NEW x, NEW d, NEW h, Reply(j, g, x, d, h),
           NEW N, NEW m, x = Step("forwarder", N, m)
    PROVE  /\ N \subseteq Registered =>
                 /\ d.answer = "ok"
                 /\ \A s \in N : svc'[s].reg = svc[s].reg /\ svc'[s].mark = svc[s].mark
                                 /\ svc'[s].target = g.new /\ svc'[s].kept = g.new
           /\ ~ (N \subseteq Registered) => d.answer = "not_found"
<1>1. PICK c : c = "forwarder"
  OBVIOUS
<1>2. x = Step(c, N, m)
  BY <1>1
<1>3. PICK t : t = g.new
  OBVIOUS
<1>4. /\ c \in Cmds /\ N \in SUBSET Names /\ t \in Targets /\ svc \in Services
      /\ d = Execute(c, N, t) /\ svc' = d.svc
  BY <1>1, <1>2, <1>3, Heard DEF Writing
<1>5. /\ d.answer = "ok" <=> N \subseteq Registered
      /\ d.answer # "ok" => d.answer = "not_found"
      /\ d.answer = "ok" => d.svc = Retargeted(N, t)
  BY <1>1, <1>4, Done
<1>6. \A s \in N : Is(Retargeted(N, t)[s], svc[s].reg, t, t, svc[s].mark, svc[s].twice)
  BY <1>4, RetargetedDoes
<1>7. QED
  BY <1>3, <1>4, <1>5, <1>6 DEF Is

\* What the sender does with an answer.
LEMMA Onwards ==
    ASSUME Types, NEW j \in Runners, NEW g, NEW x, NEW d, NEW h, Reply(j, g, x, d, h)
    PROVE  /\ Same(g, h) /\ (g.failed => h.failed)
           /\ Accepts(x, d.answer) => Keeps(g, h, Tail(g.plan))
           /\ ~ Accepts(x, d.answer) /\ FallsBack(x, d.answer) => Keeps(g, h, Detour(x, g.plan))
           /\ ~ Accepts(x, d.answer) /\ ~ FallsBack(x, d.answer) => h.failed
<1>1. g = job[j] /\ g.plan # <<>> /\ x = Head(g.plan) /\ JobOK(j, g)
  BY ReplyDoes DEF Reply
<1>2. PICK a : a = d.answer
  OBVIOUS
<1>3. h = Advance(j, x, a)
  BY <1>2 DEF Reply
<1>4. /\ Same(g, h)
      /\ Accepts(x, a) => h.plan = Tail(g.plan) /\ h.failed = g.failed
      /\ ~ Accepts(x, a) /\ FallsBack(x, a) => h.plan = Detour(x, g.plan) /\ h.failed = g.failed
      /\ ~ Accepts(x, a) /\ ~ FallsBack(x, a) => h.failed
  BY <1>1, <1>3, Advances
<1>5. QED
  BY <1>2, <1>4 DEF Keeps

LEMMA GoesOn ==
    ASSUME Types, NEW j \in Runners, NEW g, NEW x, NEW d, NEW h, Reply(j, g, x, d, h),
           NEW c, NEW N, NEW m, x = Step(c, N, m), d.answer = "ok" \/ m = "best"
    PROVE  Keeps(g, h, Tail(g.plan)) /\ Same(g, h)
<1>1. Accepts(x, d.answer)
  BY StepFields DEF Accepts
<1>2. QED
  BY <1>1, Onwards

LEMMA SyncGoes ==
    ASSUME Types, NEW j \in Runners, NEW g, NEW x, NEW d, NEW h, Reply(j, g, x, d, h), NEW N
    PROVE  /\ x = Step("update", N, "sync") /\ d.answer = "not_found" =>
                 Keeps(g, h, <<Step("add", N, "sync")>> \o Tail(g.plan))
           /\ x = Step("add", N, "sync") /\ d.answer = "already_exists" => h.failed
<1>1. ASSUME x = Step("update", N, "sync"), d.answer = "not_found"
      PROVE  Keeps(g, h, <<Step("add", N, "sync")>> \o Tail(g.plan))
  <2>1. x.cmd = "update" /\ x.names = N /\ x.mode = "sync"
    BY <1>1, StepFields
  <2>2. ~ Accepts(x, d.answer) /\ FallsBack(x, d.answer)
    BY <1>1, <2>1 DEF Accepts, FallsBack
  <2>3. Detour(x, g.plan) = <<Step("add", N, "sync")>> \o Tail(g.plan)
    BY <2>1 DEF Detour, Instead
  <2>4. QED
    BY <2>2, <2>3, Onwards
<1>2. ASSUME x = Step("add", N, "sync"), d.answer = "already_exists" PROVE h.failed
  <2>1. x.cmd = "add" /\ x.names = N /\ x.mode = "sync"
    BY <1>2, StepFields
  <2>2. ~ Accepts(x, d.answer) /\ ~ FallsBack(x, d.answer)
    BY <1>2, <2>1 DEF Accepts, FallsBack
  <2>3. QED
    BY <2>2, Onwards
<1>3. QED
  BY <1>1, <1>2

LEMMA GentleGoes ==
    ASSUME Types, NEW j \in Runners, NEW g, NEW x, NEW d, NEW h, Reply(j, g, x, d, h), NEW N
    PROVE  /\ x = Step("add", N, "gentle") /\ d.answer = "already_exists" =>
                 IF N = Forwarding
                 THEN Keeps(g, h, <<Step("forwarder", Forwarding, "gentle")>> \o Tail(g.plan))
                 ELSE Keeps(g, h, Tail(g.plan))
           /\ x = Step("forwarder", N, "gentle") /\ d.answer = "not_found" => h.failed
<1>1. ASSUME x = Step("add", N, "gentle"), d.answer = "already_exists"
      PROVE  IF N = Forwarding
             THEN Keeps(g, h, <<Step("forwarder", Forwarding, "gentle")>> \o Tail(g.plan))
             ELSE Keeps(g, h, Tail(g.plan))
  <2>1. x.cmd = "add" /\ x.names = N /\ x.mode = "gentle"
    BY <1>1, StepFields
  <2>2. CASE N = Forwarding
    <3>1. ~ Accepts(x, d.answer) /\ FallsBack(x, d.answer)
      BY <1>1, <2>1, <2>2 DEF Accepts, FallsBack
    <3>2. Detour(x, g.plan) = <<Step("forwarder", Forwarding, "gentle")>> \o Tail(g.plan)
      BY <2>1, <2>2 DEF Detour, Instead
    <3>3. QED
      BY <2>2, <3>1, <3>2, Onwards
  <2>3. CASE N # Forwarding
    <3>1. Accepts(x, d.answer)
      BY <1>1, <2>1, <2>3 DEF Accepts
    <3>2. QED
      BY <2>3, <3>1, Onwards
  <2>4. QED
    BY <2>2, <2>3
<1>2. ASSUME x = Step("forwarder", N, "gentle"), d.answer = "not_found" PROVE h.failed
  <2>1. x.cmd = "forwarder" /\ x.names = N /\ x.mode = "gentle"
    BY <1>2, StepFields
  <2>2. ~ Accepts(x, d.answer) /\ ~ FallsBack(x, d.answer)
    BY <1>2, <2>1 DEF Accepts, FallsBack
  <2>3. QED
    BY <2>2, Onwards
<1>3. QED
  BY <1>1, <1>2

-----------------------------------------------------------------------------
(* Where a plan is.                                                        *)

LEMMA StepsSeq ==
    ASSUME NEW O, OrderOK(O), NEW c \in Cmds, NEW m \in Modes
    PROVE  /\ Steps(c, O, m) \in Seq([cmd : Cmds, names : Parts, mode : Modes])
           /\ Len(Steps(c, O, m)) = Len(O)
           /\ \A i \in 1..Len(O) : Steps(c, O, m)[i] = Step(c, O[i], m)
<1>1. Len(O) \in Nat /\ DOMAIN O = 1..Len(O) /\ \A i \in 1..Len(O) : O[i] \in Parts
  BY DEF OrderOK
<1>2. \A N \in Parts : Step(c, N, m) \in [cmd : Cmds, names : Parts, mode : Modes]
  BY DEF Step
<1>3. Steps(c, O, m) \in [1..Len(O) -> [cmd : Cmds, names : Parts, mode : Modes]]
  BY <1>1, <1>2 DEF Steps
<1>4. \A i \in 1..Len(O) : Steps(c, O, m)[i] = Step(c, O[i], m)
  BY <1>1 DEF Steps
<1>5. PICK S, Q : S = [cmd : Cmds, names : Parts, mode : Modes] /\ Q = Steps(c, O, m)
  OBVIOUS
<1>6. Q \in [1..Len(O) -> S]
  BY <1>3, <1>5
<1>7. Q \in Seq(S) /\ Len(Q) = Len(O)
  BY <1>1, <1>6
<1>8. QED
  BY <1>4, <1>5, <1>7

LEMMA AtStep ==
    ASSUME NEW O, OrderOK(O), NEW c \in Cmds, NEW m \in Modes, NEW k \in 0..Len(O),
           NEW p, p = Rest(Steps(c, O, m), k), p # <<>>
    PROVE  /\ k < Len(O) /\ k + 1 \in 1..Len(O) /\ k + 1 \in 0..Len(O)
           /\ Head(p) = Step(c, O[k + 1], m)
           /\ Tail(p) = Rest(Steps(c, O, m), k + 1)
           /\ Past(O, k + 1) = Past(O, k) \cup O[k + 1]
           /\ O[k + 1] \cap Past(O, k) = {}
           /\ O[k + 1] \in Parts
           /\ \A s \in O[k + 1] : Host(s) = HostOf(O[k + 1])
<1>1. PICK Q : Q = Steps(c, O, m)
  OBVIOUS
<1>2. /\ Q \in Seq([cmd : Cmds, names : Parts, mode : Modes])
      /\ Len(Q) = Len(O) /\ \A i \in 1..Len(O) : Q[i] = Step(c, O[i], m)
  BY <1>1, StepsSeq
<1>3. Rest(Q, Len(Q)) = <<>> /\ p = Rest(Q, k)
  BY <1>1, <1>2, RestOf
<1>4. k < Len(O)
  <2>1. k # Len(O) /\ Len(O) \in Nat
    BY <1>2, <1>3
  <2>2. QED
    BY <2>1
<1>5. k + 1 \in 1..Len(O) /\ k + 1 \in 0..Len(O) /\ Head(p) = Q[k + 1] /\ Tail(p) = Rest(Q, k + 1)
  BY <1>2, <1>3, <1>4, RestOf
<1>6. /\ Past(O, k + 1) = Past(O, k) \cup O[k + 1]
      /\ O[k + 1] \cap Past(O, k) = {} /\ O[k + 1] \in Parts
  BY <1>4, PastGrows
<1>7. \A s \in O[k + 1] : Host(s) = HostOf(O[k + 1])
  BY <1>5 DEF OrderOK
<1>8. QED
  BY <1>1, <1>2, <1>4, <1>5, <1>6, <1>7

LEMMA AtEnd ==
    ASSUME NEW O, OrderOK(O), NEW c \in Cmds, NEW m \in Modes
    PROVE  /\ Rest(Steps(c, O, m), 0) = Steps(c, O, m)
           /\ Rest(Steps(c, O, m), Len(O)) = <<>>
           /\ \A k \in 0..Len(O) : Rest(Steps(c, O, m), k) = <<>> => k = Len(O)
           /\ \A k \in 0..Len(O) :
                 Rest(Steps(c, O, m), k) \in Seq([cmd : Cmds, names : Parts, mode : Modes])
           /\ 0 \in 0..Len(O) /\ Len(O) \in 0..Len(O)
           /\ Past(O, 0) = {}
<1>1. PICK Q : Q = Steps(c, O, m)
  OBVIOUS
<1>2. Q \in Seq([cmd : Cmds, names : Parts, mode : Modes]) /\ Len(Q) = Len(O)
  BY <1>1, StepsSeq
<1>3. Len(O) \in Nat
  BY DEF OrderOK
<1>4. 0 \in 0..Len(O) /\ Len(O) \in 0..Len(O)
  BY <1>3
<1>5. /\ Rest(Q, 0) = Q /\ Rest(Q, Len(Q)) = <<>>
      /\ \A k \in 0..Len(Q) : Rest(Q, k) \in Seq([cmd : Cmds, names : Parts, mode : Modes])
      /\ \A k \in 0..Len(Q) : Rest(Q, k) = <<>> => k = Len(Q)
  BY <1>2, RestOf
<1>6. Past(O, 0) = {}
  BY PastGrows
<1>7. QED
  BY <1>1, <1>2, <1>4, <1>5, <1>6

\* A settled forward, as its row says.
LEMMA SettledSays ==
    ASSUME Types, Settled
    PROVE  /\ row.status \in {"unborn", "gone", "active", "paused"}
           /\ Exists => \A s \in Names : svc[s].reg # "absent"
<1>1. row.status \in {"unborn", "gone", "active", "paused"}
  BY DEF Types, RowOK, Rows, Settled
<1>2. ASSUME Exists, NEW s \in Names PROVE svc[s].reg # "absent"
  BY <1>1, <1>2 DEF Exists, Settled, AllServe, AllRest, Serving, Resting
<1>3. QED
  BY <1>1, <1>2

-----------------------------------------------------------------------------
(* What goroutines know, after a reply.                                    *)

LEMMA Orders0 ==
    ASSUME NEW k
    PROVE  /\ Past(BuildOrder, k)' = Past(BuildOrder, k)
           /\ Past(RemoveOrder, k)' = Past(RemoveOrder, k)
           /\ Past(SwitchOrder, k)' = Past(SwitchOrder, k)
           /\ Len(BuildOrder)' = Len(BuildOrder)
           /\ Len(RemoveOrder)' = Len(RemoveOrder)
           /\ Len(SwitchOrder)' = Len(SwitchOrder)
BY DEF Past, BuildOrder, RemoveOrder, SwitchOrder, Main, Remote, Chain

LEMMA Plans0 ==
    ASSUME NEW k, NEW m
    PROVE  /\ Rest(Adds(m), k)' = Rest(Adds(m), k)
           /\ Rest(Deletes(m), k)' = Rest(Deletes(m), k)
           /\ Adds(m)' = Adds(m)
           /\ Rest(SyncPlan, k)' = Rest(SyncPlan, k)
           /\ Rest(Steps("pause", SwitchOrder, m), k)' = Rest(Steps("pause", SwitchOrder, m), k)
           /\ Rest(Steps("resume", SwitchOrder, m), k)' = Rest(Steps("resume", SwitchOrder, m), k)
BY DEF Adds, Deletes, SyncPlan, Steps, Step, Rest, BuildOrder, RemoveOrder, SwitchOrder,
       Main, Remote, Chain

LEMMA Primed ==
    ASSUME NEW s, NEW t
    PROVE  /\ Serving(s, t)' <=> /\ svc'[s].reg = "open"
                                 /\ s \in Forwarding => svc'[s].target = t /\ svc'[s].kept = t
           /\ Resting(s, t)' <=> /\ svc'[s].reg = "closed" /\ svc'[s].mark
                                 /\ s \in Forwarding => svc'[s].target = t /\ svc'[s].kept = t
           /\ svc'[s] = svc[s] /\ Serving(s, t) => Serving(s, t)'
           /\ svc'[s] = svc[s] /\ Resting(s, t) => Resting(s, t)'
<1>1. /\ Serving(s, t)' <=> /\ svc'[s].reg = "open"
                            /\ s \in Forwarding => svc'[s].target = t /\ svc'[s].kept = t
      /\ Resting(s, t)' <=> /\ svc'[s].reg = "closed" /\ svc'[s].mark
                            /\ s \in Forwarding => svc'[s].target = t /\ svc'[s].kept = t
  BY Parameters DEF Serving, Resting, Told
<1>2. QED
  BY <1>1 DEF Serving, Resting, Told

LEMMA BuildHears ==
    ASSUME Types, NEW j \in Runners, NEW g, NEW x, NEW d, NEW h, Reply(j, g, x, d, h),
           NEW k \in 0..Len(BuildOrder), g.plan = Rest(Adds("create"), k), Built(g.new, k)
    PROVE  /\ Same(g, h) /\ h.failed = g.failed
           /\ k + 1 \in 0..Len(BuildOrder) /\ h.plan = Rest(Adds("create"), k + 1)
           /\ Built(g.new, k + 1)'
<1>1. PICK c, m, p : c = "add" /\ m = "create" /\ p = g.plan
  OBVIOUS
<1>2. c \in Cmds /\ m \in Modes /\ OrderOK(BuildOrder)
  BY <1>1, Orders DEF Cmds, Modes
<1>3. p = Rest(Steps(c, BuildOrder, m), k) /\ p # <<>>
  BY <1>1, ReplyDoes DEF Adds
<1>4. PICK N : N = BuildOrder[k + 1]
  OBVIOUS
<1>5. /\ k + 1 \in 0..Len(BuildOrder)
      /\ Head(p) = Step(c, N, m) /\ Tail(p) = Rest(Steps(c, BuildOrder, m), k + 1)
      /\ Past(BuildOrder, k + 1) = Past(BuildOrder, k) \cup N
      /\ N \cap Past(BuildOrder, k) = {} /\ N \subseteq Names
  BY <1>2, <1>3, <1>4, AtStep DEF Parts
<1>6. x = Step(c, N, m) /\ x = Step("add", N, m)
  BY <1>1, <1>5, ReplyDoes
<1>7. \A s \in N : svc[s] = Nothing
  BY <1>5 DEF Built
<1>8. N \cap Registered = {} /\ \A s \in N : svc[s].kept = "none"
  BY <1>7 DEF Registered, Nothing
<1>9. d.answer = "ok" /\ \A s \in N : svc'[s].reg = "open" /\ svc'[s].target = g.new
                                      /\ svc'[s].kept = g.new
  BY <1>6, <1>8, SentAdd
<1>10. Keeps(g, h, Tail(g.plan)) /\ Same(g, h)
  BY <1>6, <1>9, GoesOn
<1>11. \A s \in Names \ N : svc'[s] = svc[s]
  BY <1>6, Heard
<1>12. ASSUME NEW s \in Names
       PROVE  IF s \in Past(BuildOrder, k + 1) THEN Serving(s, g.new)' ELSE svc'[s] = Nothing
  <2>1. CASE s \in N
    BY <1>5, <1>9, <2>1, Primed
  <2>2. CASE s \notin N
    <3>1. svc'[s] = svc[s] /\ (s \in Past(BuildOrder, k + 1) <=> s \in Past(BuildOrder, k))
      BY <1>5, <1>11, <2>2
    <3>2. IF s \in Past(BuildOrder, k) THEN Serving(s, g.new) ELSE svc[s] = Nothing
      BY DEF Built
    <3>3. QED
      BY <3>1, <3>2, Primed
  <2>3. QED
    BY <2>1, <2>2
<1>13. Built(g.new, k + 1)'
  BY <1>12, Runners0, Parameters, Orders0 DEF Built
<1>14. QED
  BY <1>1, <1>5, <1>10, <1>13 DEF Keeps, Adds

LEMMA CreateHears ==
    ASSUME Types, NEW j \in Runners, NEW g, NEW x, NEW d, NEW h, Reply(j, g, x, d, h),
           Creating(g)
    PROVE  Same(g, h) /\ h.failed = g.failed /\ Creating(h)'
<1>1. PICK k \in 0..Len(BuildOrder) : g.plan = Rest(Adds("create"), k) /\ Built(g.new, k)
  BY DEF Creating
<1>2. /\ Same(g, h) /\ h.failed = g.failed
      /\ k + 1 \in 0..Len(BuildOrder) /\ h.plan = Rest(Adds("create"), k + 1)
      /\ Built(g.new, k + 1)'
  BY <1>1, BuildHears
<1>3. h.new = g.new /\ UNCHANGED row
  BY <1>2 DEF Same, Reply
<1>4. PICK i : i = k + 1
  OBVIOUS
<1>5. i \in 0..Len(BuildOrder) /\ h.plan = Rest(Adds("create"), i) /\ Built(h.new, i)'
  BY <1>2, <1>3, <1>4
<1>6. Rest(Adds("create"), i)' = Rest(Adds("create"), i)
  BY Plans0
<1>7. row' = [status |-> "active", target |-> h.new]
  BY <1>3 DEF Creating
<1>8. Creating(h)'
  BY <1>5, <1>6, <1>7, Orders0 DEF Creating
<1>9. QED
  BY <1>2, <1>8

LEMMA RetargetHears ==
    ASSUME Types, NEW j \in Runners, NEW g, NEW x, NEW d, NEW h, Reply(j, g, x, d, h),
           Retargeting(g)
    PROVE  Same(g, h) /\ h.failed = g.failed /\ Retargeting(h)'
<1>1. g.plan # <<>> /\ x = Head(g.plan)
  BY ReplyDoes
<1>2. /\ row.status = "active" /\ g.plan = <<Step("forwarder", Forwarding, "hot")>>
      /\ AllServe(row.target)
  BY <1>1 DEF Retargeting
<1>3. PICK y : y = Step("forwarder", Forwarding, "hot")
  OBVIOUS
<1>4. x = y /\ Tail(g.plan) = <<>>
  BY <1>1, <1>2, <1>3
<1>5. PICK c, m : c = "forwarder" /\ m = "hot"
  OBVIOUS
<1>6. x = Step(c, Forwarding, m) /\ x = Step("forwarder", Forwarding, m)
  BY <1>3, <1>4, <1>5
<1>7. Forwarding \subseteq Names /\ Forwarding \subseteq Registered
  BY <1>2, Places DEF AllServe, Serving, Registered
<1>8. /\ d.answer = "ok"
      /\ \A s \in Forwarding : svc'[s].reg = svc[s].reg
                               /\ svc'[s].target = g.new /\ svc'[s].kept = g.new
  BY <1>6, <1>7, SentForwarder
<1>9. Keeps(g, h, Tail(g.plan)) /\ Same(g, h)
  BY <1>6, <1>8, GoesOn
<1>10. \A s \in Names \ Forwarding : svc'[s] = svc[s]
  BY <1>6, Heard
<1>11. \A s \in Names : svc'[s].reg = "open"
  BY <1>2, <1>8, <1>10 DEF AllServe, Serving
<1>12. \A s \in Names : Serving(s, g.new)'
  BY <1>8, <1>11, Primed
<1>13. AllServe(g.new)'
  BY <1>12, Runners0 DEF AllServe
<1>14. h.plan = <<>> /\ h.failed = g.failed /\ h.new = g.new /\ UNCHANGED row
  BY <1>4, <1>9 DEF Keeps, Same, Reply
<1>15. QED
  BY <1>2, <1>9, <1>13, <1>14 DEF Retargeting

LEMMA RespeedHears ==
    ASSUME Types, NEW j \in Runners, NEW g, NEW x, NEW d, NEW h, Reply(j, g, x, d, h),
           Respeeding(g)
    PROVE  Same(g, h) /\ h.failed = g.failed /\ Respeeding(h)'
<1>1. g.plan # <<>> /\ x = Head(g.plan)
  BY ReplyDoes
<1>2. /\ row.status = "active" /\ g.new = row.target /\ AllServe(g.new)
      /\ g.plan = <<Step("update", Main, "best")>>
  BY <1>1 DEF Respeeding
<1>3. PICK y : y = Step("update", Main, "best")
  OBVIOUS
<1>4. x = y /\ Tail(g.plan) = <<>>
  BY <1>1, <1>2, <1>3
<1>5. PICK c, m : c = "update" /\ m = "best"
  OBVIOUS
<1>6. x = Step(c, Main, m) /\ x = Step("update", Main, m)
  BY <1>3, <1>4, <1>5
<1>7. Main \subseteq Names /\ Main \subseteq Registered
  BY <1>2, Places DEF AllServe, Serving, Registered
<1>8. /\ d.answer = "ok"
      /\ \A s \in Main : svc'[s].reg = "open" /\ svc'[s].target = g.new /\ svc'[s].kept = g.new
  BY <1>6, <1>7, SentUpdate
<1>9. Keeps(g, h, Tail(g.plan)) /\ Same(g, h)
  BY <1>6, <1>8, GoesOn
<1>10. \A s \in Names \ Main : svc'[s] = svc[s]
  BY <1>6, Heard
<1>11. ASSUME NEW s \in Names PROVE Serving(s, g.new)'
  <2>1. CASE s \in Main
    BY <1>8, <2>1, Primed
  <2>2. CASE s \notin Main
    BY <1>2, <1>10, <2>2, Primed DEF AllServe
  <2>3. QED
    BY <2>1, <2>2
<1>12. AllServe(g.new)'
  BY <1>11, Runners0 DEF AllServe
<1>13. h.plan = <<>> /\ h.failed = g.failed /\ h.new = g.new /\ UNCHANGED row
  BY <1>4, <1>9 DEF Keeps, Same, Reply
<1>14. QED
  BY <1>2, <1>9, <1>12, <1>13 DEF Respeeding

LEMMA EmptyingHears ==
    ASSUME Types, NEW j \in Runners, NEW g, NEW x, NEW d, NEW h, Reply(j, g, x, d, h),
           NEW k \in 0..Len(RemoveOrder), k < Len(RemoveOrder), Emptied(k),
           NEW m, x = Step("delete", RemoveOrder[k + 1], m)
    PROVE  /\ Keeps(g, h, Tail(g.plan)) /\ Same(g, h)
           /\ Emptied(k + 1)'
<1>1. PICK c : c = "delete"
  OBVIOUS
<1>2. PICK N : N = RemoveOrder[k + 1]
  OBVIOUS
<1>3. x = Step(c, N, m) /\ x = Step("delete", N, m)
  BY <1>1, <1>2
<1>4. OrderOK(RemoveOrder)
  BY Orders
<1>5. /\ Past(RemoveOrder, k + 1) = Past(RemoveOrder, k) \cup N
      /\ N \cap Past(RemoveOrder, k) = {} /\ N \subseteq Names
  BY <1>2, <1>4, PastGrows DEF Parts
<1>6. N \subseteq Registered
  BY <1>5 DEF Emptied, Registered
<1>7. d.answer = "ok" /\ \A s \in N : svc'[s] = Nothing
  BY <1>3, <1>6, SentDelete
<1>8. Keeps(g, h, Tail(g.plan)) /\ Same(g, h)
  BY <1>3, <1>7, GoesOn
<1>9. \A s \in Names \ N : svc'[s] = svc[s]
  BY <1>3, Heard
<1>10. ASSUME NEW s \in Names
       PROVE  IF s \in Past(RemoveOrder, k + 1) THEN svc'[s] = Nothing ELSE svc'[s].reg # "absent"
  <2>1. CASE s \in N
    BY <1>5, <1>7, <2>1
  <2>2. CASE s \notin N
    BY <1>5, <1>9, <2>2 DEF Emptied
  <2>3. QED
    BY <2>1, <2>2
<1>11. Emptied(k + 1)'
  BY <1>10, Runners0, Parameters, Orders0 DEF Emptied
<1>12. QED
  BY <1>8, <1>11

LEMMA RemoveHears ==
    ASSUME Types, NEW j \in Runners, NEW g, NEW x, NEW d, NEW h, Reply(j, g, x, d, h),
           Removing(g)
    PROVE  Same(g, h) /\ h.failed = g.failed /\ Removing(h)'
<1>1. PICK m \in {"delete", "best"} : m = IF g.op = "delete" THEN "delete" ELSE "best"
  OBVIOUS
<1>2. PICK k \in 0..Len(RemoveOrder) : g.plan = Rest(Deletes(m), k) /\ Emptied(k)
  BY <1>1 DEF Removing
<1>3. PICK c, p : c = "delete" /\ p = g.plan
  OBVIOUS
<1>4. c \in Cmds /\ m \in Modes /\ OrderOK(RemoveOrder)
  BY <1>3, Orders DEF Cmds, Modes
<1>5. p = Rest(Steps(c, RemoveOrder, m), k) /\ p # <<>>
  BY <1>2, <1>3, ReplyDoes DEF Deletes
<1>6. /\ k < Len(RemoveOrder) /\ k + 1 \in 0..Len(RemoveOrder)
      /\ Head(p) = Step(c, RemoveOrder[k + 1], m)
      /\ Tail(p) = Rest(Steps(c, RemoveOrder, m), k + 1)
  BY <1>4, <1>5, AtStep
<1>7. x = Step("delete", RemoveOrder[k + 1], m)
  BY <1>3, <1>6, ReplyDoes
<1>8. Keeps(g, h, Tail(g.plan)) /\ Same(g, h) /\ Emptied(k + 1)'
  BY <1>2, <1>6, <1>7, EmptyingHears
<1>9. PICK i : i = k + 1
  OBVIOUS
<1>10. i \in 0..Len(RemoveOrder) /\ h.plan = Rest(Deletes(m), i) /\ Emptied(i)' /\ h.op = g.op
  BY <1>3, <1>6, <1>8, <1>9 DEF Keeps, Same, Deletes
<1>11. Exists'
  BY DEF Removing, Exists, Reply
<1>12. m = IF h.op = "delete" THEN "delete" ELSE "best"
  BY <1>1, <1>10
<1>13. Rest(Deletes(IF h.op = "delete" THEN "delete" ELSE "best"), i)' = Rest(Deletes(m), i)
  BY <1>12, Plans0
<1>14. Removing(h)'
  BY <1>10, <1>11, <1>13, Orders0 DEF Removing
<1>15. QED
  BY <1>8, <1>14 DEF Keeps

LEMMA RelistenHears ==
    ASSUME Types, NEW j \in Runners, NEW g, NEW x, NEW d, NEW h, Reply(j, g, x, d, h),
           Relistening(g)
    PROVE  Same(g, h) /\ h.failed = g.failed /\ Relistening(h)'
<1>1. Exists'
  BY DEF Relistening, Exists, Reply
<1>2. PICK A : A = Adds("create")
  OBVIOUS
<1>3. PICK m, c, a : m = "best" /\ c = "delete" /\ a = "add"
  OBVIOUS
<1>4. /\ c \in Cmds /\ a \in Cmds /\ m \in Modes /\ "create" \in Modes
      /\ OrderOK(RemoveOrder) /\ OrderOK(BuildOrder)
  BY <1>3, Orders DEF Cmds, Modes
<1>5. PICK S : S = [cmd : Cmds, names : Parts, mode : Modes]
  OBVIOUS
<1>6. A \in Seq(S) /\ Rest(A, 0) = A /\ 0 \in 0..Len(BuildOrder)
  <2>1. PICK b : b = "create"
    OBVIOUS
  <2>2. b \in Modes /\ A = Steps(a, BuildOrder, b)
    BY <1>2, <1>3, <1>4, <2>1 DEF Adds
  <2>3. Steps(a, BuildOrder, b) \in Seq(S)
    BY <1>4, <1>5, <2>2, StepsSeq
  <2>4. Rest(Steps(a, BuildOrder, b), 0) = Steps(a, BuildOrder, b) /\ 0 \in 0..Len(BuildOrder)
    BY <1>4, <2>2, AtEnd
  <2>5. QED
    BY <2>2, <2>3, <2>4
<1>7. ASSUME NEW k \in 0..Len(RemoveOrder), g.plan = Rest(Deletes("best"), k) \o A, Emptied(k),
             k < Len(RemoveOrder)
      PROVE  Same(g, h) /\ h.failed = g.failed /\ Relistening(h)'
  <2>1. PICK p : p = Rest(Steps(c, RemoveOrder, m), k)
    OBVIOUS
  <2>2. g.plan = p \o A
    BY <1>3, <1>7, <2>1 DEF Deletes
  <2>3. p \in Seq(S)
    BY <1>4, <1>5, <2>1, AtEnd
  <2>4. p # <<>>
    BY <1>4, <1>7, <2>1, AtEnd
  <2>5. /\ k + 1 \in 0..Len(RemoveOrder)
        /\ Head(p) = Step(c, RemoveOrder[k + 1], m)
        /\ Tail(p) = Rest(Steps(c, RemoveOrder, m), k + 1)
    BY <1>4, <2>1, <2>4, AtStep
  <2>6. Head(g.plan) = Head(p) /\ Tail(g.plan) = Tail(p) \o A
    BY <1>6, <2>2, <2>3, <2>4, Joined
  <2>7. x = Step("delete", RemoveOrder[k + 1], m)
    BY <1>3, <2>5, <2>6, ReplyDoes
  <2>8. Keeps(g, h, Tail(g.plan)) /\ Same(g, h) /\ Emptied(k + 1)'
    BY <1>7, <2>7, EmptyingHears
  <2>9. PICK i : i = k + 1
    OBVIOUS
  <2>10. /\ i \in 0..Len(RemoveOrder) /\ Emptied(i)'
         /\ h.plan = Rest(Deletes("best"), i) \o Adds("create")
    BY <1>2, <1>3, <2>5, <2>6, <2>8, <2>9 DEF Keeps, Deletes
  <2>11. /\ Rest(Deletes("best"), i)' = Rest(Deletes("best"), i)
         /\ Adds("create")' = Adds("create")
    BY Plans0
  <2>12. Relistening(h)'
    BY <1>1, <2>10, <2>11, Orders0 DEF Relistening
  <2>13. QED
    BY <2>8, <2>12 DEF Keeps
<1>8. ASSUME NEW k \in 0..Len(BuildOrder), g.plan = Rest(Adds("create"), k), Built(g.new, k)
      PROVE  Same(g, h) /\ h.failed = g.failed /\ Relistening(h)'
  <2>1. /\ Same(g, h) /\ h.failed = g.failed
        /\ k + 1 \in 0..Len(BuildOrder) /\ h.plan = Rest(Adds("create"), k + 1)
        /\ Built(g.new, k + 1)'
    BY <1>8, BuildHears
  <2>2. PICK i : i = k + 1
    OBVIOUS
  <2>3. i \in 0..Len(BuildOrder) /\ h.plan = Rest(Adds("create"), i) /\ Built(h.new, i)'
    BY <2>1, <2>2 DEF Same
  <2>4. Rest(Adds("create"), i)' = Rest(Adds("create"), i)
    BY Plans0
  <2>5. Relistening(h)'
    BY <1>1, <2>3, <2>4, Orders0 DEF Relistening
  <2>6. QED
    BY <2>1, <2>5
<1>9. ASSUME Emptied(Len(RemoveOrder)) PROVE Built(g.new, 0)
  <2>1. Past(RemoveOrder, Len(RemoveOrder)) = Names /\ Past(BuildOrder, 0) = {}
    BY <1>4, Orders, PastGrows
  <2>2. QED
    BY <1>9, <2>1 DEF Emptied, Built
<1>10. ASSUME NEW k \in 0..Len(RemoveOrder), g.plan = Rest(Deletes("best"), k) \o A, Emptied(k),
              ~ (k < Len(RemoveOrder))
       PROVE  Same(g, h) /\ h.failed = g.failed /\ Relistening(h)'
  <2>1. k = Len(RemoveOrder)
    <3>1. Len(RemoveOrder) \in Nat
      BY Orders
    <3>2. QED
      BY <1>10, <3>1
  <2>2. Rest(Steps(c, RemoveOrder, m), Len(RemoveOrder)) = <<>>
    BY <1>4, AtEnd
  <2>3. Rest(Deletes("best"), k) = <<>>
    BY <1>3, <2>1, <2>2 DEF Deletes
  <2>4. g.plan = Rest(Adds("create"), 0)
    BY <1>2, <1>6, <1>10, <2>3, Joined
  <2>5. Built(g.new, 0)
    BY <1>9, <1>10, <2>1
  <2>6. PICK i : i = 0
    OBVIOUS
  <2>7. i \in 0..Len(BuildOrder) /\ g.plan = Rest(Adds("create"), i) /\ Built(g.new, i)
    BY <1>6, <2>4, <2>5, <2>6
  <2>8. QED
    BY <1>8, <2>7
<1>11. CASE \E k \in 0..Len(RemoveOrder) :
               g.plan = Rest(Deletes("best"), k) \o Adds("create") /\ Emptied(k)
  BY <1>2, <1>7, <1>10, <1>11
<1>12. CASE \E k \in 0..Len(BuildOrder) : g.plan = Rest(Adds("create"), k) /\ Built(g.new, k)
  BY <1>8, <1>12
<1>13. QED
  BY <1>11, <1>12 DEF Relistening

LEMMA SwitchNames ==
    ASSUME NEW k \in 0..Len(SwitchOrder), NEW s \in Past(SwitchOrder, k)
    PROVE  s \in Names
<1>1. PICK i \in 1..k : s \in SwitchOrder[i]
  BY DEF Past
<1>2. SwitchOrder \in Seq(Parts)
  BY Orders DEF OrderOK
<1>3. i \in 1..Len(SwitchOrder)
  <2>1. Len(SwitchOrder) \in Nat
    BY <1>2
  <2>2. QED
    BY <2>1
<1>4. SwitchOrder[i] \in Parts
  BY <1>2, <1>3
<1>5. QED
  BY <1>1, <1>4 DEF Parts

LEMMA SwitchHears ==
    ASSUME Types, NEW j \in Runners, NEW g, NEW x, NEW d, NEW h, Reply(j, g, x, d, h),
           Switching(g)
    PROVE  Same(g, h) /\ h.failed = g.failed /\ Switching(h)'
<1>1. /\ row.status \in {"active", "paused"} /\ UNCHANGED row
      /\ \A s \in Names : Either(s, row.target)
  BY DEF Switching, Reply
<1>2. Names \subseteq Registered
  BY <1>1 DEF Either, Serving, Resting, Registered
<1>3. OrderOK(SwitchOrder) /\ Past(SwitchOrder, Len(SwitchOrder)) = Names \ Chain
  BY Orders
<1>4. \A k \in 0..Len(SwitchOrder) : k < Len(SwitchOrder) =>
         SwitchOrder[k + 1] \cap Chain = {}
  <2>1. SwitchOrder = <<Main, Remote>> \/ SwitchOrder = <<Main>>
    BY DEF SwitchOrder
  <2>2. Main \cap Chain = {} /\ Remote \cap Chain = {}
    BY DEF Main, Remote, Chain
  <2>3. \A k \in Nat : k < 2 => k + 1 = 1 \/ k + 1 = 2
    OBVIOUS
  <2>4. \A k \in Nat : k < 1 => k + 1 = 1
    OBVIOUS
  <2>5. CASE SwitchOrder = <<Main, Remote>>
    <3>1. Len(SwitchOrder) = 2 /\ SwitchOrder[1] = Main /\ SwitchOrder[2] = Remote
      BY <2>5
    <3>2. QED
      BY <2>2, <2>3, <3>1
  <2>6. CASE SwitchOrder = <<Main>>
    <3>1. Len(SwitchOrder) = 1 /\ SwitchOrder[1] = Main
      BY <2>6
    <3>2. QED
      BY <2>2, <2>4, <3>1
  <2>7. QED
    BY <2>1, <2>5, <2>6
<1>5. CASE g.op = "resume"
  <2>1. PICK k \in 0..Len(SwitchOrder) :
           /\ g.plan = Rest(Steps("resume", SwitchOrder, "must"), k)
           /\ \A s \in Past(SwitchOrder, k) : Serving(s, row.target)
    BY <1>5 DEF Switching
  <2>2. PICK c, m, p : c = "resume" /\ m = "must" /\ p = g.plan
    OBVIOUS
  <2>3. c \in Cmds /\ m \in Modes
    BY <2>2 DEF Cmds, Modes
  <2>4. p = Rest(Steps(c, SwitchOrder, m), k) /\ p # <<>>
    BY <2>1, <2>2, ReplyDoes
  <2>5. PICK N : N = SwitchOrder[k + 1]
    OBVIOUS
  <2>6. /\ k < Len(SwitchOrder) /\ k + 1 \in 0..Len(SwitchOrder)
        /\ Head(p) = Step(c, N, m) /\ Tail(p) = Rest(Steps(c, SwitchOrder, m), k + 1)
        /\ Past(SwitchOrder, k + 1) = Past(SwitchOrder, k) \cup N
        /\ N \cap Past(SwitchOrder, k) = {} /\ N \subseteq Names
    BY <1>3, <2>3, <2>4, <2>5, AtStep DEF Parts
  <2>7. x = Step(c, N, m) /\ x = Step("resume", N, m)
    BY <2>2, <2>6, ReplyDoes
  <2>8. N \cap Chain = {} /\ N \subseteq Registered
    BY <1>2, <1>4, <2>5, <2>6
  <2>9. d.answer = "ok" /\ \A s \in N : IF svc[s].mark
                       THEN svc'[s].reg = "open" /\ svc'[s].target = svc[s].kept
                            /\ svc'[s].kept = svc[s].kept
                       ELSE svc'[s] = svc[s]
    BY <2>7, <2>8, SentResume
  <2>10. Keeps(g, h, Tail(g.plan)) /\ Same(g, h)
    BY <2>7, <2>9, GoesOn
  <2>11. \A s \in Names \ N : svc'[s] = svc[s]
    BY <2>7, Heard
  <2>12. ASSUME NEW s \in N PROVE Serving(s, row.target)'
    <3>1. s \in Names /\ s \notin Chain
      BY <2>6, <2>8, <2>12
    <3>2. Serving(s, row.target) \/ Resting(s, row.target)
      BY <1>1, <3>1 DEF Either
    <3>3. Told(s, row.target) /\ (svc[s].reg = "open" \/ svc[s].mark)
      BY <3>2 DEF Serving, Resting
    <3>4. PICK t : t = row.target
      OBVIOUS
    <3>5. s \in Forwarding => svc[s].target = t /\ svc[s].kept = t
      BY <3>3, <3>4 DEF Told
    <3>6. /\ svc'[s].reg = "open"
          /\ s \in Forwarding => svc'[s].target = t /\ svc'[s].kept = t
      BY <2>9, <2>12, <3>3, <3>5
    <3>7. Serving(s, t)'
      BY <3>6, Primed
    <3>8. QED
      BY <1>1, <3>4, <3>7
  <2>13. PICK t : t = row.target
    OBVIOUS
  <2>14. row'.target = t /\ \A s \in N : Serving(s, t)'
    BY <1>1, <2>12, <2>13
  <2>15. \A s \in Past(SwitchOrder, k + 1) : Serving(s, t)'
    <3>1. ASSUME NEW s \in Past(SwitchOrder, k), s \notin N PROVE Serving(s, t)'
      <4>1. Serving(s, t)
        BY <2>1, <2>13, <3>1
      <4>2. s \in Names
        BY <2>1, <3>1, SwitchNames
      <4>3. svc'[s] = svc[s]
        BY <2>11, <3>1, <4>2
      <4>4. QED
        BY <4>1, <4>3, Primed
    <3>2. QED
      BY <2>6, <2>14, <3>1
  <2>16. \A s \in Names : Either(s, t)'
    <3>1. ASSUME NEW s \in Names PROVE Either(s, t)'
      <4>1. CASE s \in N
        BY <2>14, <4>1, Parameters DEF Either
      <4>2. CASE s \notin N
        <5>1. svc'[s] = svc[s] /\ Either(s, t)
          BY <1>1, <2>11, <2>13, <4>2
        <5>2. QED
          BY <5>1, Primed, Parameters DEF Either
      <4>3. QED
        BY <4>1, <4>2
    <3>2. QED
      BY <3>1
  <2>17. PICK i : i = k + 1
    OBVIOUS
  <2>18. /\ i \in 0..Len(SwitchOrder)
         /\ h.plan = Rest(Steps("resume", SwitchOrder, "must"), i) /\ h.op = "resume"
         /\ \A s \in Past(SwitchOrder, i) : Serving(s, t)'
    BY <1>5, <2>2, <2>6, <2>10, <2>15, <2>17 DEF Keeps, Same
  <2>19. Rest(Steps("resume", SwitchOrder, "must"), i)'
           = Rest(Steps("resume", SwitchOrder, "must"), i)
    BY Plans0
  <2>20. \A s \in Names : Either(s, row.target)'
    BY <1>1, <2>13, <2>16
  <2>21. \A s \in Past(SwitchOrder, i) : Serving(s, row.target)'
    BY <1>1, <2>13, <2>18
  <2>22. Switching(h)'
    BY <1>1, <2>18, <2>19, <2>20, <2>21, Orders0, Runners0 DEF Switching
  <2>23. QED
    BY <2>10, <2>22 DEF Keeps
<1>6. CASE g.op # "resume"
  <2>1. PICK m \in {"must", "best"} : m = IF g.op = "pause" THEN "must" ELSE "best"
    OBVIOUS
  <2>2. PICK k \in 0..Len(SwitchOrder) :
           /\ g.plan = Rest(Steps("pause", SwitchOrder, m), k)
           /\ \A s \in Past(SwitchOrder, k) : Resting(s, row.target)
    BY <1>6, <2>1 DEF Switching
  <2>3. PICK c, p : c = "pause" /\ p = g.plan
    OBVIOUS
  <2>4. c \in Cmds /\ m \in Modes
    BY <2>1, <2>3 DEF Cmds, Modes
  <2>5. p = Rest(Steps(c, SwitchOrder, m), k) /\ p # <<>>
    BY <2>2, <2>3, ReplyDoes
  <2>6. PICK N : N = SwitchOrder[k + 1]
    OBVIOUS
  <2>7. /\ k < Len(SwitchOrder) /\ k + 1 \in 0..Len(SwitchOrder)
        /\ Head(p) = Step(c, N, m) /\ Tail(p) = Rest(Steps(c, SwitchOrder, m), k + 1)
        /\ Past(SwitchOrder, k + 1) = Past(SwitchOrder, k) \cup N
        /\ N \cap Past(SwitchOrder, k) = {} /\ N \subseteq Names
    BY <1>3, <2>4, <2>5, <2>6, AtStep DEF Parts
  <2>8. x = Step(c, N, m) /\ x = Step("pause", N, m)
    BY <2>3, <2>7, ReplyDoes
  <2>9. N \cap Chain = {} /\ N \subseteq Registered
    BY <1>2, <1>4, <2>6, <2>7
  <2>10. /\ d.answer = "ok"
         /\ \A s \in N : svc'[s].reg = "closed" /\ svc'[s].mark
                         /\ svc'[s].target = svc[s].target /\ svc'[s].kept = svc[s].kept
    BY <2>8, <2>9, SentPause
  <2>11. Keeps(g, h, Tail(g.plan)) /\ Same(g, h)
    BY <2>8, <2>10, GoesOn
  <2>12. \A s \in Names \ N : svc'[s] = svc[s]
    BY <2>8, Heard
  <2>13. PICK t : t = row.target
    OBVIOUS
  <2>14. ASSUME NEW s \in N PROVE Resting(s, t)'
    <3>1. s \in Names /\ s \notin Chain
      BY <2>7, <2>9, <2>14
    <3>2. Serving(s, t) \/ Resting(s, t)
      BY <1>1, <2>13, <3>1 DEF Either
    <3>3. s \in Forwarding => svc[s].target = t /\ svc[s].kept = t
      BY <3>2 DEF Serving, Resting, Told
    <3>4. /\ svc'[s].reg = "closed" /\ svc'[s].mark
          /\ s \in Forwarding => svc'[s].target = t /\ svc'[s].kept = t
      BY <2>10, <2>14, <3>3
    <3>5. QED
      BY <3>4, Primed
  <2>15. \A s \in Past(SwitchOrder, k + 1) : Resting(s, t)'
    <3>1. ASSUME NEW s \in Past(SwitchOrder, k), s \notin N PROVE Resting(s, t)'
      <4>1. Resting(s, t)
        BY <2>2, <2>13, <3>1
      <4>2. s \in Names
        BY <2>2, <3>1, SwitchNames
      <4>3. svc'[s] = svc[s]
        BY <2>12, <3>1, <4>2
      <4>4. QED
        BY <4>1, <4>3, Primed
    <3>2. QED
      BY <2>7, <2>14, <3>1
  <2>16. \A s \in Names : Either(s, t)'
    <3>1. ASSUME NEW s \in Names PROVE Either(s, t)'
      <4>1. CASE s \in N
        <5>1. s \notin Chain
          BY <2>9, <4>1
        <5>2. QED
          BY <2>14, <4>1, <5>1, Parameters DEF Either
      <4>2. CASE s \notin N
        <5>1. svc'[s] = svc[s] /\ Either(s, t)
          BY <1>1, <2>12, <2>13, <4>2
        <5>2. QED
          BY <5>1, Primed, Parameters DEF Either
      <4>3. QED
        BY <4>1, <4>2
    <3>2. QED
      BY <3>1
  <2>17. PICK i : i = k + 1
    OBVIOUS
  <2>18. /\ i \in 0..Len(SwitchOrder) /\ h.op = g.op
         /\ h.plan = Rest(Steps("pause", SwitchOrder, m), i)
         /\ \A s \in Past(SwitchOrder, i) : Resting(s, t)'
    BY <2>3, <2>7, <2>11, <2>15, <2>17 DEF Keeps, Same
  <2>19. m = IF h.op = "pause" THEN "must" ELSE "best"
    BY <2>1, <2>18
  <2>20. Rest(Steps("pause", SwitchOrder, IF h.op = "pause" THEN "must" ELSE "best"), i)'
           = Rest(Steps("pause", SwitchOrder, m), i)
    BY <2>19, Plans0
  <2>21. \A s \in Names : Either(s, row.target)'
    BY <1>1, <2>13, <2>16
  <2>22. \A s \in Past(SwitchOrder, i) : Resting(s, row.target)'
    BY <1>1, <2>13, <2>18
  <2>23. Switching(h)'
    BY <1>1, <1>6, <2>18, <2>20, <2>21, <2>22, Orders0, Runners0 DEF Switching
  <2>24. QED
    BY <2>11, <2>23 DEF Keeps
<1>7. QED
  BY <1>5, <1>6

\* Names that serve, or are paused, still do.
LEMMA SettledKeeps ==
    ASSUME UNCHANGED row, Settled, Exists, NEW t, t = row.target,
           \A s \in Names : Serving(s, t) => Serving(s, t)',
           \A s \in Names : Resting(s, t) => Resting(s, t)'
    PROVE  Settled' /\ Exists'
<1>1. Exists' /\ row'.target = t
  BY DEF Exists
<1>2. AllServe(t) => AllServe(t)'
  BY Runners0 DEF AllServe
<1>3. AllRest(t) => AllRest(t)'
  BY Runners0, Parameters DEF AllRest
<1>4. /\ row'.status # "error"
      /\ row'.status = "active" => AllServe(t)'
      /\ row'.status = "paused" => AllRest(t)'
  BY <1>2, <1>3 DEF Settled
<1>5. AllServe(row.target)' <=> AllServe(t)'
  BY <1>1 DEF AllServe, Serving, Told
<1>6. AllRest(row.target)' <=> AllRest(t)'
  BY <1>1 DEF AllRest, Serving, Resting, Told
<1>7. QED
  BY <1>1, <1>4, <1>5, <1>6 DEF Settled

LEMMA SettledStays ==
    ASSUME Settled, UNCHANGED <<row, svc>>
    PROVE  Settled'
BY Runners0, Parameters DEF Settled, Exists, AllServe, AllRest, Serving, Resting, Told

\* Where a reconcile is.
LEMMA GentleStep ==
    ASSUME Types, NEW j \in Runners, NEW g, NEW x, NEW d, NEW h, Reply(j, g, x, d, h),
           g.op = "reconcile", ~ g.failed, Exists, Restoring(j, g)
    PROVE  \E k \in 0..Len(BuildOrder) :
              /\ k < Len(BuildOrder) /\ k + 1 \in 0..Len(BuildOrder) /\ k + 1 \in 1..Len(BuildOrder)
              /\ \A i \in 1..k : Mended(BuildOrder[i], g.new)
              /\ Tail(g.plan) = Rest(Adds("gentle"), k + 1)
              /\ BuildOrder[k + 1] \in Parts
              /\ \/ x = Step("add", BuildOrder[k + 1], "gentle")
                 \/ /\ x = Step("forwarder", Forwarding, "gentle")
                    /\ BuildOrder[k + 1] = Forwarding
<1>1. PICK k \in 0..Len(BuildOrder) :
           /\ \A i \in 1..k : Mended(BuildOrder[i], g.new)
           /\ \/ g.plan = Rest(Adds("gentle"), k)
              \/ /\ k < Len(BuildOrder) /\ BuildOrder[k + 1] = Forwarding
                 /\ g.plan = <<Step("forwarder", Forwarding, "gentle")>> \o Rest(Adds("gentle"), k + 1)
  BY DEF Restoring
<1>2. PICK c, m : c = "add" /\ m = "gentle"
  OBVIOUS
<1>3. c \in Cmds /\ m \in Modes /\ OrderOK(BuildOrder)
  BY <1>2, Orders DEF Cmds, Modes
<1>4. g.plan # <<>> /\ x = Head(g.plan)
  BY ReplyDoes
<1>5. CASE g.plan = Rest(Adds("gentle"), k)
  <2>1. PICK p : p = g.plan
    OBVIOUS
  <2>2. p = Rest(Steps(c, BuildOrder, m), k) /\ p # <<>>
    BY <1>2, <1>4, <1>5, <2>1 DEF Adds
  <2>3. /\ k < Len(BuildOrder) /\ k + 1 \in 0..Len(BuildOrder) /\ k + 1 \in 1..Len(BuildOrder)
        /\ Head(p) = Step(c, BuildOrder[k + 1], m)
        /\ Tail(p) = Rest(Steps(c, BuildOrder, m), k + 1)
        /\ BuildOrder[k + 1] \in Parts
    BY <1>3, <2>2, AtStep
  <2>4. x = Step("add", BuildOrder[k + 1], "gentle") /\ Tail(g.plan) = Rest(Adds("gentle"), k + 1)
    BY <1>2, <1>4, <2>1, <2>3 DEF Adds
  <2>5. QED
    BY <1>1, <2>3, <2>4
<1>6. CASE /\ k < Len(BuildOrder) /\ BuildOrder[k + 1] = Forwarding
           /\ g.plan = <<Step("forwarder", Forwarding, "gentle")>> \o Rest(Adds("gentle"), k + 1)
  <2>1. k + 1 \in 0..Len(BuildOrder) /\ k + 1 \in 1..Len(BuildOrder) /\ BuildOrder[k + 1] \in Parts
    BY <1>3, <1>6, PastGrows
  <2>2. PICK S : S = [cmd : Cmds, names : Parts, mode : Modes]
    OBVIOUS
  <2>3. PICK y : y = Step("forwarder", Forwarding, "gentle")
    OBVIOUS
  <2>4. y \in S
    BY <1>6, <2>1, <2>2, <2>3 DEF Step, Cmds, Modes
  <2>5. PICK q : q = Rest(Adds("gentle"), k + 1)
    OBVIOUS
  <2>6. q \in Seq(S)
    BY <1>2, <1>3, <2>1, <2>2, <2>5, AtEnd DEF Adds
  <2>7. Head(<<y>> \o q) = y /\ Tail(<<y>> \o q) = q
    BY <2>4, <2>6, InFront
  <2>8. x = y /\ Tail(g.plan) = q
    BY <1>4, <1>6, <2>3, <2>5, <2>7
  <2>9. QED
    BY <1>1, <1>6, <2>1, <2>3, <2>5, <2>8
<1>7. QED
  BY <1>1, <1>5, <1>6

\* A reconcile changes nothing of a forward that is as its row says.
LEMMA SettledHears ==
    ASSUME Types, NEW j \in Runners, NEW g, NEW x, NEW d, NEW h, Reply(j, g, x, d, h),
           g.op \in RecOps, ~ g.failed, Settled, ~ Exists => g.plan = <<>>, Restoring(j, g)
    PROVE  Settled' /\ Exists' /\ ~ h.failed /\ Same(g, h)
<1>1. g.plan # <<>> /\ x = Head(g.plan) /\ UNCHANGED row
  BY ReplyDoes DEF Reply
<1>2. Exists
  BY <1>1
<1>3. \A s \in Names : s \in Registered
  BY <1>2, SettledSays DEF Registered
<1>4. PICK t : t = row.target
  OBVIOUS
<1>5. CASE g.op = "reconcile"
  <2>1. PICK k \in 0..Len(BuildOrder) :
              /\ BuildOrder[k + 1] \in Parts
              /\ \/ x = Step("add", BuildOrder[k + 1], "gentle")
                 \/ /\ x = Step("forwarder", Forwarding, "gentle")
                    /\ BuildOrder[k + 1] = Forwarding
    BY <1>2, <1>5, GentleStep
  <2>2. CASE x = Step("add", BuildOrder[k + 1], "gentle")
    <3>1. PICK N, m : N = BuildOrder[k + 1] /\ m = "gentle"
      OBVIOUS
    <3>2. x = Step("add", N, m) /\ x = Step("add", N, "gentle") /\ N \in Parts
      BY <2>1, <2>2, <3>1
    <3>3. N \cap Registered # {}
      BY <1>3, <3>2 DEF Parts
    <3>4. d.answer = "already_exists" /\ svc' = svc
      BY <3>2, <3>3, SentAdd
    <3>5. IF N = Forwarding
          THEN Keeps(g, h, <<Step("forwarder", Forwarding, "gentle")>> \o Tail(g.plan))
          ELSE Keeps(g, h, Tail(g.plan))
      BY <3>2, <3>4, GentleGoes
    <3>6. ~ h.failed
      BY <3>5 DEF Keeps
    <3>7. Settled' /\ Exists'
      BY <1>1, <1>2, <3>4, SettledStays DEF Exists
    <3>8. QED
      BY <3>6, <3>7, Onwards
  <2>3. CASE x = Step("forwarder", Forwarding, "gentle")
    <3>1. PICK m, c : m = "gentle" /\ c = "forwarder"
      OBVIOUS
    <3>2. x = Step("forwarder", Forwarding, m) /\ x = Step(c, Forwarding, m)
      BY <2>3, <3>1
    <3>3. Forwarding \subseteq Registered
      BY <1>3, Places
    <3>4. /\ d.answer = "ok"
          /\ \A s \in Forwarding : svc'[s].reg = svc[s].reg /\ svc'[s].mark = svc[s].mark
                                   /\ svc'[s].target = g.new /\ svc'[s].kept = g.new
      BY <3>2, <3>3, SentForwarder
    <3>5. Keeps(g, h, Tail(g.plan)) /\ Same(g, h)
      BY <3>2, <3>4, GoesOn
    <3>6. \A s \in Names \ Forwarding : svc'[s] = svc[s]
      BY <3>2, Heard
    <3>7. g.new = t
      BY <1>4, <1>5 DEF Restoring
    <3>8. ASSUME NEW s \in Names PROVE Serving(s, t) => Serving(s, t)'
      BY <3>4, <3>6, <3>7, Primed DEF Serving
    <3>9. ASSUME NEW s \in Names PROVE Resting(s, t) => Resting(s, t)'
      BY <3>4, <3>6, <3>7, Primed DEF Resting
    <3>10. Settled' /\ Exists'
      BY <1>1, <1>2, <1>4, <3>8, <3>9, SettledKeeps
    <3>11. QED
      BY <3>5, <3>10 DEF Keeps
  <2>4. QED
    BY <2>1, <2>2, <2>3
<1>6. CASE g.op = "repause"
  <2>1. row.status = "paused" /\ g.plan = <<Step("pause", On(j) \ Chain, "best")>>
    BY <1>1, <1>2, <1>6 DEF Restoring
  <2>2. j \in Nodes
    <3>1. JobOK(j, g)
      BY ReplyDoes
    <3>2. QED
      BY <1>6, <3>1 DEF JobOK, RecOps
  <2>3. PICK N, m, c : N = On(j) \ Chain /\ m = "best" /\ c = "pause"
    OBVIOUS
  <2>4. N \subseteq Names \ Chain
    BY <2>2, <2>3, NodeParts
  <2>5. PICK y : y = Step("pause", N, m)
    OBVIOUS
  <2>6. x = y
    BY <1>1, <2>1, <2>3, <2>5
  <2>7. x = Step("pause", N, m) /\ x = Step(c, N, m)
    BY <2>3, <2>5, <2>6
  <2>8. N \subseteq Registered
    BY <1>3, <2>4
  <2>9. /\ d.answer = "ok"
        /\ \A s \in N : svc'[s].reg = "closed" /\ svc'[s].mark
                        /\ svc'[s].target = svc[s].target /\ svc'[s].kept = svc[s].kept
    BY <2>7, <2>8, SentPause
  <2>10. Keeps(g, h, Tail(g.plan)) /\ Same(g, h)
    BY <2>7, <2>9, GoesOn
  <2>11. \A s \in Names \ N : svc'[s] = svc[s]
    BY <2>7, Heard
  <2>12. AllRest(t) /\ row'.status = "paused" /\ row'.target = t
    BY <1>1, <1>4, <2>1 DEF Settled
  <2>13. ASSUME NEW s \in Names PROVE IF s \in Chain THEN Serving(s, t)' ELSE Resting(s, t)'
    <3>1. IF s \in Chain THEN Serving(s, t) ELSE Resting(s, t)
      BY <2>12 DEF AllRest
    <3>2. CASE s \in N
      <4>1. s \notin Chain /\ Resting(s, t)
        BY <2>4, <3>1, <3>2
      <4>2. s \in Forwarding => svc[s].target = t /\ svc[s].kept = t
        BY <4>1 DEF Resting, Told
      <4>3. Resting(s, t)'
        BY <2>9, <3>2, <4>2, Primed
      <4>4. QED
        BY <4>1, <4>3
    <3>3. CASE s \notin N
      <4>1. svc'[s] = svc[s]
        BY <2>11, <3>3
      <4>2. QED
        BY <3>1, <4>1, Primed
    <3>4. QED
      BY <3>2, <3>3
  <2>14. AllRest(t)'
    BY <2>13, Runners0, Parameters DEF AllRest
  <2>15. AllRest(row.target)'
    BY <2>12, <2>14 DEF AllRest, Serving, Resting, Told
  <2>16. Settled' /\ Exists'
    BY <2>12, <2>15 DEF Settled, Exists
  <2>17. QED
    BY <2>10, <2>16 DEF Keeps
<1>7. CASE g.op = "orphans"
  BY <1>1, <1>2, <1>7 DEF Restoring
<1>8. QED
  BY <1>5, <1>6, <1>7 DEF RecOps

LEMMA PastNames ==
    ASSUME NEW O, OrderOK(O), NEW k \in 0..Len(O), NEW s \in Past(O, k)
    PROVE  s \in Names
<1>1. PICK i \in 1..k : s \in O[i]
  BY DEF Past
<1>2. Len(O) \in Nat
  BY DEF OrderOK
<1>3. i \in 1..Len(O)
  BY <1>2
<1>4. QED
  BY <1>1, <1>3 DEF OrderOK, Parts

\* A rebuild that has done one more part.
RenewedIn(up1, svc1, s, t) ==
    /\ Host(s) \in up1
    /\ svc1[s].reg = "open"
    /\ s \in Forwarding => svc1[s].target = t /\ (svc1[s].kept = t \/ svc1[s].twice)

LEMMA RenewedSays ==
    ASSUME NEW s, NEW t
    PROVE  /\ Renewed(s, t) <=> RenewedIn(up, svc, s, t)
           /\ Renewed(s, t)' <=> RenewedIn(up', svc', s, t)
BY Parameters DEF Renewed, RenewedIn, Host

LEMMA RebuildMoves ==
    ASSUME Types, NEW j \in Runners, NEW g, NEW x, NEW d, NEW h, Reply(j, g, x, d, h),
           g.op = "rebuild", Exists,
           NEW k \in 0..Len(BuildOrder), k < Len(BuildOrder), NEW N, N = BuildOrder[k + 1],
           \A s \in Past(BuildOrder, k) : Renewed(s, g.new),
           Keeps(g, h, Rest(SyncPlan, k + 1)), Same(g, h),
           HostOf(N) \in up, \A s \in Names \ N : svc'[s] = svc[s],
           \A s \in N : /\ svc'[s].reg = "open" /\ svc'[s].target = g.new
                        /\ svc'[s].kept = g.new \/ svc'[s].twice
                        /\ ~ disturbed => svc'[s].kept = g.new,
           ~ disturbed => \A s \in Names : IF s \in Past(BuildOrder, k) THEN Serving(s, g.new)
                                           ELSE svc[s].reg # "absent"
    PROVE  Rebuilding(h)'
<1>1. OrderOK(BuildOrder)
  BY Orders
<1>2. PICK i : i = k + 1
  OBVIOUS
<1>3. /\ i \in 0..Len(BuildOrder) /\ i \in 1..Len(BuildOrder)
      /\ Past(BuildOrder, i) = Past(BuildOrder, k) \cup N
      /\ N \cap Past(BuildOrder, k) = {}
  BY <1>1, <1>2, PastGrows
<1>4. \A s \in N : Host(s) \in up
  BY <1>1, <1>2, <1>3 DEF OrderOK
<1>5. UNCHANGED <<row, up, disturbed>> /\ h.new = g.new
  BY DEF Reply, Same
<1>6. ASSUME NEW s \in Past(BuildOrder, i) PROVE Renewed(s, g.new)'
  <2>1. CASE s \in N
    BY <1>4, <1>5, <2>1, RenewedSays DEF RenewedIn
  <2>2. CASE s \notin N
    <3>1. s \in Past(BuildOrder, k)
      BY <1>3, <2>2
    <3>2. s \in Names
      BY <1>1, <3>1, PastNames
    <3>3. svc'[s] = svc[s]
      BY <2>2, <3>2
    <3>4. QED
      BY <1>5, <3>1, <3>3, RenewedSays DEF RenewedIn
  <2>3. QED
    BY <2>1, <2>2
<1>7. ASSUME ~ disturbed, NEW s \in Names
      PROVE  IF s \in Past(BuildOrder, i) THEN Serving(s, g.new)' ELSE svc'[s].reg # "absent"
  <2>1. CASE s \in N
    BY <1>3, <1>7, <2>1, Primed
  <2>2. CASE s \notin N
    BY <1>3, <1>7, <2>2, Primed
  <2>3. QED
    BY <2>1, <2>2
<1>8. h.plan = Rest(SyncPlan, i) /\ Rest(SyncPlan, i)' = Rest(SyncPlan, i)
  BY <1>2, Plans0 DEF Keeps
<1>9. Exists'
  BY <1>5 DEF Exists
<1>10. \A s \in Past(BuildOrder, i) : Renewed(s, h.new)'
  BY <1>5, <1>6
<1>11. ~ disturbed' =>
          \A s \in Names : IF s \in Past(BuildOrder, i) THEN Serving(s, h.new)'
                           ELSE svc'[s].reg # "absent"
  BY <1>5, <1>7
<1>12. QED
  BY <1>3, <1>8, <1>9, <1>10, <1>11, Orders0, Runners0 DEF Rebuilding

LEMMA RebuildHears ==
    ASSUME Types, NEW j \in Runners, NEW g, NEW x, NEW d, NEW h, Reply(j, g, x, d, h),
           g.op = "rebuild", ~ g.failed, Rebuilding(g)
    PROVE  Rebuilding(h)' /\ Same(g, h) /\ (~ disturbed => ~ h.failed)
<1>1. PICK k \in 0..Len(BuildOrder) :
              /\ \A s \in Past(BuildOrder, k) : Renewed(s, g.new)
              /\ \/ g.plan = Rest(SyncPlan, k)
                 \/ /\ k < Len(BuildOrder) /\ disturbed
                    /\ g.plan = <<Step("add", BuildOrder[k + 1], "sync")>> \o Rest(SyncPlan, k + 1)
              /\ ~ disturbed =>
                    \A s \in Names : IF s \in Past(BuildOrder, k) THEN Serving(s, g.new)
                                     ELSE svc[s].reg # "absent"
  BY DEF Rebuilding
<1>2. Exists /\ Same(g, h) /\ g.plan # <<>> /\ x = Head(g.plan)
  BY ReplyDoes DEF Rebuilding
<1>3. PICK c, m : c = "update" /\ m = "sync"
  OBVIOUS
<1>4. c \in Cmds /\ m \in Modes /\ OrderOK(BuildOrder)
  BY <1>3, Orders DEF Cmds, Modes
<1>5. PICK N : N = BuildOrder[k + 1]
  OBVIOUS
<1>6. CASE g.plan = Rest(SyncPlan, k)
  <2>1. PICK p : p = g.plan
    OBVIOUS
  <2>2. p = Rest(Steps(c, BuildOrder, m), k) /\ p # <<>>
    BY <1>2, <1>3, <1>6, <2>1 DEF SyncPlan
  <2>3. /\ k < Len(BuildOrder)
        /\ Head(p) = Step(c, N, m) /\ Tail(p) = Rest(Steps(c, BuildOrder, m), k + 1)
        /\ N \in Parts
    BY <1>4, <1>5, <2>2, AtStep
  <2>4. x = Step(c, N, m) /\ x = Step("update", N, m) /\ x = Step("update", N, "sync")
    BY <1>2, <1>3, <2>1, <2>3
  <2>5. Tail(g.plan) = Rest(SyncPlan, k + 1)
    BY <1>3, <2>1, <2>3 DEF SyncPlan
  <2>6. HostOf(N) \in up /\ \A s \in Names \ N : svc'[s] = svc[s]
    BY <2>4, Heard
  <2>7. CASE N \subseteq Registered
    <3>1. /\ d.answer = "ok"
          /\ \A s \in N : svc'[s].reg = "open" /\ svc'[s].target = g.new /\ svc'[s].kept = g.new
      BY <2>4, <2>7, SentUpdate
    <3>2. Keeps(g, h, Rest(SyncPlan, k + 1))
      BY <2>4, <2>5, <3>1, GoesOn
    <3>3. Rebuilding(h)'
      BY <1>1, <1>2, <1>5, <2>3, <2>6, <3>1, <3>2, RebuildMoves
    <3>4. QED
      BY <1>2, <3>2, <3>3 DEF Keeps
  <2>8. CASE ~ (N \subseteq Registered)
    <3>1. d.answer = "not_found" /\ svc' = svc
      BY <2>4, <2>8, SentUpdate
    <3>2. Keeps(g, h, <<Step("add", N, "sync")>> \o Rest(SyncPlan, k + 1))
      BY <2>4, <2>5, <3>1, SyncGoes
    <3>3. disturbed
      <4>1. PICK s \in N : s \notin Registered
        BY <2>8
      <4>2. s \in Names /\ svc[s].reg = "absent"
        BY <2>3, <4>1 DEF Registered, Parts
      <4>3. QED
        BY <1>1, <4>2 DEF Serving
    <3>4. UNCHANGED <<row, up, disturbed>> /\ h.new = g.new /\ Exists'
      BY <1>2 DEF Reply, Same, Exists
    <3>5. ASSUME NEW s \in Past(BuildOrder, k) PROVE Renewed(s, h.new)'
      BY <1>1, <3>1, <3>4, RenewedSays DEF RenewedIn
    <3>6. PICK q, b : q = Rest(SyncPlan, k + 1) /\ b = Step("add", N, "sync")
      OBVIOUS
    <3>7. h.plan = <<b>> \o q
      BY <3>2, <3>6 DEF Keeps
    <3>8. /\ Rest(SyncPlan, k + 1)' = q /\ Step("add", BuildOrder[k + 1], "sync")' = b
          /\ Len(BuildOrder)' = Len(BuildOrder) /\ Past(BuildOrder, k)' = Past(BuildOrder, k)
      <4>1. Rest(SyncPlan, k + 1)' = Rest(SyncPlan, k + 1)
        BY Plans0
      <4>2. Step("add", BuildOrder[k + 1], "sync")' = Step("add", BuildOrder[k + 1], "sync")
        BY Parameters DEF Step
      <4>3. QED
        BY <1>5, <3>6, <4>1, <4>2, Orders0
    <3>9. disturbed'
      BY <3>3, <3>4
    <3>10. Rebuilding(h)'
      BY <2>3, <3>4, <3>5, <3>7, <3>8, <3>9 DEF Rebuilding
    <3>11. QED
      BY <1>2, <3>3, <3>10
  <2>9. QED
    BY <2>7, <2>8
<1>7. CASE /\ k < Len(BuildOrder) /\ disturbed
           /\ g.plan = <<Step("add", BuildOrder[k + 1], "sync")>> \o Rest(SyncPlan, k + 1)
  <2>1. k + 1 \in 0..Len(BuildOrder) /\ N \in Parts
    BY <1>4, <1>5, <1>7, PastGrows
  <2>2. PICK S : S = [cmd : Cmds, names : Parts, mode : Modes]
    OBVIOUS
  <2>3. PICK y : y = Step("add", N, "sync")
    OBVIOUS
  <2>4. y \in S
    BY <2>1, <2>2, <2>3 DEF Step, Cmds, Modes
  <2>5. PICK q : q = Rest(SyncPlan, k + 1)
    OBVIOUS
  <2>6. q \in Seq(S)
    BY <1>3, <1>4, <2>1, <2>2, <2>5, AtEnd DEF SyncPlan
  <2>7. Head(<<y>> \o q) = y /\ Tail(<<y>> \o q) = q
    BY <2>4, <2>6, InFront
  <2>8. x = y /\ Tail(g.plan) = q
    BY <1>2, <1>5, <1>7, <2>3, <2>5, <2>7
  <2>9. PICK a : a = "add"
    OBVIOUS
  <2>10. x = Step("add", N, "sync") /\ x = Step("add", N, m) /\ x = Step(a, N, m)
    BY <1>3, <2>3, <2>8, <2>9
  <2>11. HostOf(N) \in up /\ \A s \in Names \ N : svc'[s] = svc[s]
    BY <2>10, Heard
  <2>12. CASE N \cap Registered = {}
    <3>1. /\ d.answer = "ok"
          /\ \A s \in N : /\ svc'[s].reg = "open" /\ svc'[s].target = g.new
                          /\ svc'[s].kept = g.new \/ svc'[s].twice
      BY <2>10, <2>12, SentAdd
    <3>2. Keeps(g, h, Rest(SyncPlan, k + 1))
      BY <2>5, <2>8, <2>10, <3>1, GoesOn
    <3>3. Rebuilding(h)'
      BY <1>1, <1>2, <1>5, <1>7, <2>11, <3>1, <3>2, RebuildMoves
    <3>4. QED
      BY <1>2, <1>7, <3>3
  <2>13. CASE N \cap Registered # {}
    <3>1. d.answer = "already_exists"
      BY <2>10, <2>13, SentAdd
    <3>2. h.failed
      BY <2>10, <3>1, SyncGoes
    <3>3. Rebuilding(h)'
      BY <3>2 DEF Rebuilding
    <3>4. QED
      BY <1>2, <1>7, <3>3
  <2>14. QED
    BY <2>12, <2>13
<1>8. QED
  BY <1>1, <1>6, <1>7

\* What a reconcile has made of a part.
MendedIn(up1, svc1, N, t) ==
    /\ HostOf(N) \in up1
    /\ IF N = Forwarding THEN \A s \in N : svc1[s].reg # "absent" /\ svc1[s].target = t
       ELSE \E s \in N : s \in Names /\ svc1[s].reg # "absent"

LEMMA MendedSays ==
    ASSUME NEW N, NEW t
    PROVE  /\ Mended(N, t) <=> MendedIn(up, svc, N, t)
           /\ Mended(N, t)' <=> MendedIn(up', svc', N, t)
<1>1. Mended(N, t) <=> MendedIn(up, svc, N, t)
  BY DEF Mended, MendedIn, Registered
<1>2. HostOf(N)' = HostOf(N)
  BY Parameters DEF HostOf
<1>3. Registered' = {s \in Names : svc'[s].reg # "absent"}
  BY Runners0 DEF Registered
<1>4. Mended(N, t)' <=> MendedIn(up', svc', N, t)
  BY <1>2, <1>3, Parameters DEF Mended, MendedIn
<1>5. QED
  BY <1>1, <1>4

\* It lasts while names stay registered and go on forwarding to the same.
LEMMA MendedStays ==
    ASSUME NEW N \in SUBSET Names, NEW t, Mended(N, t), HostOf(N) \in up',
           \A s \in N : /\ svc[s].reg # "absent" => svc'[s].reg # "absent"
                        /\ s \in Forwarding => svc'[s].target = svc[s].target
    PROVE  Mended(N, t)'
BY MendedSays DEF MendedIn

LEMMA MendedRegistered ==
    ASSUME NEW t, AllMended(t)
    PROVE  /\ Mended(Forwarding, t) /\ Forwarding \subseteq Registered
           /\ Names \ Main \subseteq Registered
           /\ HalfPair \/ Main \subseteq Registered
           /\ \A n \in Nodes : ~ HalfPair => On(n) \ Chain \subseteq Registered
<1>1. \E i \in 1..Len(BuildOrder) : BuildOrder[i] = Forwarding
  BY Orders
<1>2. Mended(Forwarding, t)
  BY <1>1 DEF AllMended
<1>3. Forwarding \subseteq Registered
  BY <1>2, Places DEF Mended, Registered
<1>4. CASE Tunnel
  <2>1. BuildOrder = <<Chain, Remote, Main>> /\ Len(BuildOrder) = 3 /\ Forwarding = Remote
    BY <1>4, Orders, Places
  <2>2. 1 \in 1..3 /\ 3 \in 1..3 /\ BuildOrder[1] = Chain /\ BuildOrder[3] = Main
    BY <2>1
  <2>3. Mended(Chain, t) /\ Mended(Main, t)
    BY <2>1, <2>2 DEF AllMended
  <2>4. Chain # Forwarding /\ Main # Forwarding
    BY <2>1 DEF Chain, Remote, Main
  <2>5. Chain \cap Registered # {} /\ Main \cap Registered # {}
    BY <2>3, <2>4 DEF Mended
  <2>6. Chain \subseteq Registered /\ Names = Main \cup Remote \cup Chain
    BY <1>4, <2>5, Places DEF Chain
  <2>7. HalfPair \/ Main \subseteq Registered
    BY <1>4, <2>5 DEF HalfPair
  <2>8. Names \ Main \subseteq Registered
    BY <1>3, <2>1, <2>6
  <2>9. \A n \in Nodes : On(n) \subseteq Names
    BY Places
  <2>10. QED
    BY <1>2, <1>3, <2>7, <2>8, <2>9
<1>5. CASE ~ Tunnel
  <2>1. Names = Main /\ Forwarding = Main /\ \A n \in Nodes : On(n) \subseteq Names
    BY <1>5, Places
  <2>2. QED
    BY <1>2, <1>3, <2>1
<1>6. QED
  BY <1>4, <1>5

\* A reconcile that has done one more part, or the same ones still.
LEMMA RestoreMoves ==
    ASSUME Types, NEW j \in Runners, NEW g, NEW x, NEW d, NEW h, Reply(j, g, x, d, h),
           g.op = "reconcile", Restoring(j, g), Same(g, h),
           NEW k \in 0..Len(BuildOrder), NEW N, N = BuildOrder[k + 1], k < Len(BuildOrder),
           \A i \in 1..k : Mended(BuildOrder[i], g.new),
           \A s \in Names \ N : svc'[s] = svc[s]
    PROVE  /\ Mended(N, g.new)' /\ h.plan = Rest(Adds("gentle"), k + 1) => Restoring(j, h)'
           /\ N = Forwarding /\ h.plan = <<Step("forwarder", Forwarding, "gentle")>>
                                           \o Rest(Adds("gentle"), k + 1) => Restoring(j, h)'
<1>1. OrderOK(BuildOrder) /\ Len(BuildOrder) \in Nat
  BY Orders DEF OrderOK
<1>2. UNCHANGED <<row, up>> /\ h.new = g.new /\ h.op = "reconcile" /\ h.snap = g.snap
  BY DEF Reply, Same
<1>3. h.snap = row' /\ h.new = row'.target
  BY <1>2 DEF Restoring
<1>4. ASSUME NEW i \in 1..k PROVE Mended(BuildOrder[i], g.new)'
  <2>1. i \in 1..Len(BuildOrder) /\ k + 1 \in 1..Len(BuildOrder) /\ i # k + 1
    BY <1>1
  <2>2. PICK M : M = BuildOrder[i]
    OBVIOUS
  <2>3. M \cap N = {} /\ M \subseteq Names
    BY <1>1, <2>1, <2>2 DEF OrderOK, Parts
  <2>4. Mended(M, g.new) /\ HostOf(M) \in up'
    BY <1>2, <2>2 DEF Mended
  <2>5. \A s \in M : svc'[s] = svc[s]
    BY <2>3
  <2>6. Mended(M, g.new)'
    BY <2>3, <2>4, <2>5, MendedStays
  <2>7. BuildOrder[i]' = M
    BY <2>2, Parameters
  <2>8. QED
    BY <2>2, <2>6
<1>5. Len(BuildOrder)' = Len(BuildOrder) /\ BuildOrder' = BuildOrder
  BY Orders0, Parameters
<1>6. ASSUME Mended(N, g.new)', h.plan = Rest(Adds("gentle"), k + 1) PROVE Restoring(j, h)'
  <2>1. PICK i : i = k + 1
    OBVIOUS
  <2>2. i \in 0..Len(BuildOrder) /\ \A l \in 1..i : l \in 1..k \/ l = i
    BY <1>1, <2>1
  <2>3. \A l \in 1..i : Mended(BuildOrder[l], h.new)'
    <3>1. ASSUME NEW l \in 1..i PROVE Mended(BuildOrder[l], h.new)'
      <4>1. CASE l \in 1..k
        BY <1>2, <1>4, <4>1
      <4>2. CASE l = i
        <5>1. BuildOrder[l] = N
          BY <2>1, <4>2
        <5>2. QED
          BY <1>2, <1>6, <5>1, MendedSays
      <4>3. QED
        BY <2>2, <4>1, <4>2
    <3>2. QED
      BY <3>1
  <2>4. h.plan = Rest(Adds("gentle"), i) /\ Rest(Adds("gentle"), i)' = Rest(Adds("gentle"), i)
    BY <1>6, <2>1, Plans0
  <2>5. QED
    BY <1>2, <1>3, <1>5, <2>2, <2>3, <2>4 DEF Restoring
<1>7. ASSUME N = Forwarding,
             h.plan = <<Step("forwarder", Forwarding, "gentle")>> \o Rest(Adds("gentle"), k + 1)
      PROVE  Restoring(j, h)'
  <2>1. PICK q, b : q = Rest(Adds("gentle"), k + 1) /\ b = Step("forwarder", Forwarding, "gentle")
    OBVIOUS
  <2>2. h.plan = <<b>> \o q
    BY <1>7, <2>1
  <2>3. Rest(Adds("gentle"), k + 1)' = q /\ Step("forwarder", Forwarding, "gentle")' = b
    <3>1. Rest(Adds("gentle"), k + 1)' = Rest(Adds("gentle"), k + 1)
      BY Plans0
    <3>2. Step("forwarder", Forwarding, "gentle")' = Step("forwarder", Forwarding, "gentle")
      BY Parameters DEF Step
    <3>3. QED
      BY <2>1, <3>1, <3>2
  <2>4. (BuildOrder[k + 1] = Forwarding)'
    BY <1>5, <1>7, Parameters
  <2>5. \A i \in 1..k : Mended(BuildOrder[i], h.new)'
    BY <1>2, <1>4
  <2>6. QED
    BY <1>2, <1>3, <1>5, <2>2, <2>3, <2>4, <2>5 DEF Restoring
<1>8. QED
  BY <1>6, <1>7

LEMMA RestoreHears ==
    ASSUME Types, NEW j \in Runners, NEW g, NEW x, NEW d, NEW h, Reply(j, g, x, d, h),
           Restoring(j, g)
    PROVE  Restoring(j, h)'
<1>1. /\ Same(g, h) /\ (g.failed => h.failed) /\ UNCHANGED <<row, up>>
      /\ g.plan # <<>> /\ x = Head(g.plan) /\ (Exists' <=> Exists)
  <2>1. UNCHANGED <<row, up>> /\ g.plan # <<>> /\ x = Head(g.plan)
    BY DEF Reply
  <2>2. Exists' <=> Exists
    BY <2>1 DEF Exists
  <2>3. Same(g, h) /\ (g.failed => h.failed)
    BY Onwards
  <2>4. QED
    BY <2>1, <2>2, <2>3
<1>2. h.op = g.op /\ h.snap = g.snap /\ h.new = g.new
  BY <1>1 DEF Same
<1>3. h.op = "reconcile" => h.snap = row' /\ h.new = row'.target
  BY <1>1, <1>2 DEF Restoring
<1>4. CASE h.failed \/ ~ Exists
  BY <1>1, <1>3, <1>4 DEF Restoring
<1>5. CASE ~ h.failed /\ Exists /\ g.op = "reconcile"
  <2>1. PICK k \in 0..Len(BuildOrder) :
              /\ k < Len(BuildOrder)
              /\ \A i \in 1..k : Mended(BuildOrder[i], g.new)
              /\ Tail(g.plan) = Rest(Adds("gentle"), k + 1)
              /\ BuildOrder[k + 1] \in Parts
              /\ \/ x = Step("add", BuildOrder[k + 1], "gentle")
                 \/ /\ x = Step("forwarder", Forwarding, "gentle")
                    /\ BuildOrder[k + 1] = Forwarding
    BY <1>1, <1>5, GentleStep
  <2>2. PICK N, m : N = BuildOrder[k + 1] /\ m = "gentle"
    OBVIOUS
  <2>3. CASE x = Step("add", BuildOrder[k + 1], "gentle")
    <3>1. PICK c : c = "add"
      OBVIOUS
    <3>2. x = Step("add", N, m) /\ x = Step(c, N, m) /\ x = Step("add", N, "gentle")
      BY <2>2, <2>3, <3>1
    <3>3. /\ HostOf(N) \in up /\ N # {} /\ N \subseteq Names
          /\ \A s \in Names \ N : svc'[s] = svc[s]
      BY <3>2, Heard
    <3>4. CASE N \cap Registered = {}
      <4>1. /\ d.answer = "ok"
            /\ \A s \in N : svc'[s].reg = "open" /\ svc'[s].target = g.new
        BY <3>2, <3>4, SentAdd
      <4>2. Keeps(g, h, Tail(g.plan))
        BY <3>2, <4>1, GoesOn
      <4>3. Mended(N, g.new)'
        BY <1>1, <3>3, <4>1, MendedSays DEF MendedIn
      <4>4. h.plan = Rest(Adds("gentle"), k + 1)
        BY <2>1, <4>2 DEF Keeps
      <4>5. QED
        BY <1>1, <1>5, <2>1, <2>2, <3>3, <4>3, <4>4, RestoreMoves
    <3>5. CASE N \cap Registered # {}
      <4>1. d.answer = "already_exists" /\ svc' = svc
        BY <3>2, <3>5, SentAdd
      <4>2. IF N = Forwarding
            THEN Keeps(g, h, <<Step("forwarder", Forwarding, "gentle")>> \o Tail(g.plan))
            ELSE Keeps(g, h, Tail(g.plan))
        BY <3>2, <4>1, GentleGoes
      <4>3. CASE N = Forwarding
        <5>1. h.plan = <<Step("forwarder", Forwarding, "gentle")>> \o Rest(Adds("gentle"), k + 1)
          BY <2>1, <4>2, <4>3 DEF Keeps
        <5>2. QED
          BY <1>1, <1>5, <2>1, <2>2, <3>3, <4>3, <5>1, RestoreMoves
      <4>4. CASE N # Forwarding
        <5>1. h.plan = Rest(Adds("gentle"), k + 1)
          BY <2>1, <4>2, <4>4 DEF Keeps
        <5>2. Mended(N, g.new)'
          BY <1>1, <3>3, <3>5, <4>1, <4>4, MendedSays DEF MendedIn, Registered
        <5>3. QED
          BY <1>1, <1>5, <2>1, <2>2, <3>3, <5>1, <5>2, RestoreMoves
      <4>5. QED
        BY <4>3, <4>4
    <3>6. QED
      BY <3>4, <3>5
  <2>4. CASE x = Step("forwarder", Forwarding, "gentle") /\ BuildOrder[k + 1] = Forwarding
    <3>1. PICK c : c = "forwarder"
      OBVIOUS
    <3>2. N = Forwarding
      BY <2>2, <2>4
    <3>3. x = Step("forwarder", N, m) /\ x = Step(c, N, m) /\ x = Step("forwarder", N, "gentle")
      BY <2>2, <2>4, <3>1, <3>2
    <3>4. /\ HostOf(N) \in up /\ N \subseteq Names /\ \A s \in Names \ N : svc'[s] = svc[s]
      BY <3>3, Heard
    <3>5. CASE N \subseteq Registered
      <4>1. /\ d.answer = "ok"
            /\ \A s \in N : svc'[s].reg = svc[s].reg /\ svc'[s].target = g.new
        BY <3>3, <3>5, SentForwarder
      <4>2. Keeps(g, h, Tail(g.plan))
        BY <3>3, <4>1, GoesOn
      <4>3. Mended(N, g.new)'
        BY <1>1, <3>2, <3>4, <3>5, <4>1, MendedSays DEF MendedIn, Registered
      <4>4. h.plan = Rest(Adds("gentle"), k + 1)
        BY <2>1, <4>2 DEF Keeps
      <4>5. QED
        BY <1>1, <1>5, <2>1, <2>2, <3>4, <4>3, <4>4, RestoreMoves
    <3>6. CASE ~ (N \subseteq Registered)
      <4>1. d.answer = "not_found"
        BY <3>3, <3>6, SentForwarder
      <4>2. h.failed
        BY <3>3, <4>1, GentleGoes
      <4>3. QED
        BY <1>5, <4>2
    <3>7. QED
      BY <3>5, <3>6
  <2>5. QED
    BY <2>1, <2>3, <2>4
<1>6. CASE ~ h.failed /\ Exists /\ g.op = "repause"
  <2>1. /\ row.status # "error" /\ AllMended(row.target) /\ row.status = "paused"
        /\ g.plan = <<Step("pause", On(j) \ Chain, "best")>>
    BY <1>1, <1>6 DEF Restoring
  <2>2. j \in Nodes
    <3>1. JobOK(j, g)
      BY ReplyDoes
    <3>2. QED
      BY <1>6, <3>1 DEF JobOK, RecOps
  <2>3. PICK N, m, c : N = On(j) \ Chain /\ m = "best" /\ c = "pause"
    OBVIOUS
  <2>4. N \subseteq Names
    BY <2>2, <2>3, NodeParts
  <2>5. PICK y : y = Step("pause", N, m)
    OBVIOUS
  <2>6. x = y /\ Tail(g.plan) = <<>>
    BY <1>1, <2>1, <2>3, <2>5
  <2>7. x = Step("pause", N, m) /\ x = Step(c, N, m)
    BY <2>3, <2>5, <2>6
  <2>8. h.plan = <<>>
    <3>1. Keeps(g, h, Tail(g.plan))
      BY <2>3, <2>7, GoesOn
    <3>2. QED
      BY <2>6, <3>1 DEF Keeps
  <2>9. \A s \in Names \ N : svc'[s] = svc[s]
    BY <2>7, Heard
  <2>10. \A s \in Names : /\ svc[s].reg # "absent" => svc'[s].reg # "absent"
                          /\ svc'[s].target = svc[s].target
    <3>1. CASE N \subseteq Registered
      <4>1. \A s \in N : svc'[s].reg = "closed" /\ svc'[s].target = svc[s].target
        BY <2>7, <3>1, SentPause
      <4>2. QED
        BY <2>9, <4>1
    <3>2. CASE ~ (N \subseteq Registered)
      <4>1. svc' = svc
        BY <2>7, <3>2, SentPause
      <4>2. QED
        BY <4>1
    <3>3. QED
      BY <3>1, <3>2
  <2>11. PICK t : t = row.target
    OBVIOUS
  <2>12. ASSUME NEW i \in 1..Len(BuildOrder) PROVE Mended(BuildOrder[i], t)'
    <3>1. PICK M : M = BuildOrder[i]
      OBVIOUS
    <3>2. M \in SUBSET Names
      BY <3>1, Orders DEF OrderOK, Parts
    <3>3. Mended(M, t) /\ HostOf(M) \in up'
      BY <1>1, <2>1, <2>11, <3>1 DEF AllMended, Mended
    <3>4. Mended(M, t)'
      BY <2>10, <3>2, <3>3, MendedStays
    <3>5. BuildOrder[i]' = M
      BY <3>1, Parameters
    <3>6. QED
      BY <3>1, <3>4
  <2>13. AllMended(row.target)'
    BY <1>1, <2>11, <2>12, Orders0 DEF AllMended
  <2>14. CASE N \subseteq Registered
    <3>1. \A s \in N : svc'[s].reg = "closed"
      BY <2>7, <2>14, SentPause
    <3>2. (On(j) \ Chain)' = N
      BY <2>3, Parameters, Runners0 DEF On, Host
    <3>3. Paused(j)'
      BY <3>1, <3>2 DEF Paused, Rests
    <3>4. QED
      BY <1>1, <1>2, <1>6, <2>1, <2>8, <2>13, <3>3 DEF Restoring
  <2>15. CASE ~ (N \subseteq Registered)
    <3>1. svc' = svc
      BY <2>7, <2>15, SentPause
    <3>2. HalfPair
      BY <2>1, <2>2, <2>3, <2>11, <2>15, MendedRegistered
    <3>3. HalfPair'
      BY <3>1, <3>2, Parameters, Runners0 DEF HalfPair, Registered
    <3>4. Paused(j)'
      BY <3>3 DEF Paused
    <3>5. QED
      BY <1>1, <1>2, <1>6, <2>1, <2>8, <2>13, <3>4 DEF Restoring
  <2>16. QED
    BY <2>14, <2>15
<1>7. CASE ~ h.failed /\ Exists /\ g.op = "orphans"
  BY <1>1, <1>7 DEF Restoring
<1>8. CASE g.op \notin {"reconcile", "repause", "orphans"}
  BY <1>2, <1>8 DEF Restoring
<1>9. QED
  BY <1>4, <1>5, <1>6, <1>7, <1>8

LEMMA SteadyHears ==
    ASSUME Types, NEW j \in Runners, NEW g, NEW x, NEW d, NEW h, Reply(j, g, x, d, h),
           ~ disturbed, Steady(g), Rebuilding(g), Restoring(j, g)
    PROVE  Steady(h)'
<1>1. g.plan # <<>> /\ ~ g.failed /\ g.op # "report" /\ JobOK(j, g) /\ g # NoJob
  BY ReplyDoes DEF Steady
<1>2. g.op \in AllOps \cup RecOps
  BY <1>1 DEF JobOK, Goroutine
<1>3. CASE g.op = "create"
  <2>1. Same(g, h) /\ h.failed = g.failed /\ Creating(h)'
    BY <1>3, CreateHears DEF Steady
  <2>2. QED
    BY <1>1, <1>3, <2>1 DEF Steady, Same, RecOps
<1>4. CASE g.op = "rename"
  BY <1>1, <1>4 DEF Steady, Renaming
<1>5. CASE g.op = "hot"
  <2>1. Same(g, h) /\ h.failed = g.failed /\ Retargeting(h)'
    BY <1>5, RetargetHears DEF Steady
  <2>2. QED
    BY <1>1, <1>5, <2>1 DEF Steady, Same, RecOps
<1>6. CASE g.op = "relisten"
  <2>1. Same(g, h) /\ h.failed = g.failed /\ Relistening(h)'
    BY <1>6, RelistenHears DEF Steady
  <2>2. QED
    BY <1>1, <1>6, <2>1 DEF Steady, Same, RecOps
<1>7. CASE g.op = "respeed"
  <2>1. Same(g, h) /\ h.failed = g.failed /\ Respeeding(h)'
    BY <1>7, RespeedHears DEF Steady
  <2>2. QED
    BY <1>1, <1>7, <2>1 DEF Steady, Same, RecOps
<1>8. CASE g.op \in {"delete", "force"}
  <2>1. Same(g, h) /\ h.failed = g.failed /\ Removing(h)'
    BY <1>8, RemoveHears DEF Steady
  <2>2. QED
    BY <1>1, <1>8, <2>1 DEF Steady, Same, RecOps
<1>9. CASE g.op \in {"pause", "resume", "limit"}
  <2>1. Switching(g)
    BY <1>9 DEF Steady
  <2>2. Same(g, h) /\ h.failed = g.failed /\ Switching(h)'
    BY <1>9, <2>1, SwitchHears
  <2>3. QED
    BY <1>1, <1>9, <2>2 DEF Steady, Same, RecOps
<1>10. CASE g.op = "rebuild"
  <2>1. Same(g, h) /\ ~ h.failed
    BY <1>1, <1>10, RebuildHears
  <2>2. QED
    BY <1>10, <2>1 DEF Steady, Same, RecOps
<1>11. CASE g.op \in RecOps
  <2>1. Settled' /\ Exists' /\ ~ h.failed /\ Same(g, h)
    BY <1>1, <1>11, SettledHears DEF Steady
  <2>2. QED
    BY <1>11, <2>1 DEF Steady, Same, RecOps
<1>12. QED
  BY <1>1, <1>2, <1>3, <1>4, <1>5, <1>6, <1>7, <1>8, <1>9, <1>10, <1>11 DEF AllOps

\* What a goroutine knows, it knows after its next answer.
LEMMA Hears ==
    ASSUME Types, NEW j \in Runners, NEW g, NEW x, NEW d, NEW h, Reply(j, g, x, d, h), Knows(j, g)
    PROVE  Knows(j, h)'
<1>1. UNCHANGED disturbed /\ (g.failed => h.failed) /\ h.op = g.op
  <2>1. UNCHANGED disturbed
    BY DEF Reply
  <2>2. Same(g, h) /\ (g.failed => h.failed)
    BY Onwards
  <2>3. QED
    BY <2>1, <2>2 DEF Same
<1>2. Rebuilding(g) /\ Restoring(j, g) /\ (~ disturbed => Steady(g))
  BY DEF Knows
<1>3. Rebuilding(h)'
  <2>1. CASE g.op = "rebuild" /\ ~ g.failed
    BY <1>2, <2>1, RebuildHears
  <2>2. CASE g.op # "rebuild" \/ g.failed
    BY <1>1, <2>2 DEF Rebuilding
  <2>3. QED
    BY <2>1, <2>2
<1>4. Restoring(j, h)'
  BY <1>2, RestoreHears
<1>5. ~ disturbed' => Steady(h)'
  BY <1>1, <1>2, SteadyHears
<1>6. QED
  BY <1>3, <1>4, <1>5 DEF Knows

-----------------------------------------------------------------------------
(* The invariant: commands, failures and nodes.                            *)

LEMMA Reached ==
    ASSUME Types', Alone', ~ disturbed' => up' = Nodes,
           \A i \in Runners : \A g : g = job'[i] /\ g # NoJob /\ g.clean => Knows(i, g)',
           ~ disturbed' /\ (\A i \in Runners : job'[i] = NoJob) => Settled'
    PROVE  IInv'
<1>1. NoJob' = NoJob
  BY DEF NoJob, Unborn
<1>2. AllUp'
  BY Runners0 DEF AllUp
<1>3. Understood'
  BY <1>1, Runners0 DEF Understood
<1>4. AtRest'
  BY <1>1, Runners0 DEF AtRest, Busy
<1>5. QED
  BY <1>2, <1>3, <1>4 DEF IInv, Alone

\* Nobody is left who was not overlapped.
LEMMA ReachedDisturbed ==
    ASSUME Types', Alone', disturbed', \A i \in Runners : job'[i] # NoJob => ~ job'[i].clean
    PROVE  IInv'
<1>1. \A i \in Runners : \A g : g = job'[i] /\ g # NoJob /\ g.clean => Knows(i, g)'
  OBVIOUS
<1>2. QED
  BY <1>1, Reached

LEMMA Known ==
    ASSUME IInv
    PROVE  /\ Types /\ Alone /\ (~ disturbed => up = Nodes)
           /\ \A i \in Runners : \A g : g = job[i] /\ g # NoJob /\ g.clean => Knows(i, g)
           /\ ~ disturbed /\ Busy = {} => Settled
BY DEF IInv, Alone, AllUp, Understood, AtRest

LEMMA ReplyKeeps ==
    ASSUME IInv, NEW j \in Runners, NEW g, NEW x, NEW d, NEW h, Reply(j, g, x, d, h)
    PROVE  IInv'
<1>1. Types /\ Alone /\ (~ disturbed => up = Nodes)
  BY Known
<1>2. Types'
  BY <1>1, AnsweredTypes
<1>3. /\ g = job[j] /\ g # NoJob /\ job'[j] = h /\ h # NoJob /\ Same(g, h)
      /\ \A i \in Runners : i # j => job'[i] = job[i]
  <2>1. g = job[j]
    BY DEF Reply
  <2>2. QED
    BY <1>1, <2>1, ReplyDoes
<1>4. UNCHANGED <<up, disturbed>>
  BY DEF Reply
<1>5. h.clean = g.clean
  BY <1>3 DEF Same
<1>6. Alone' /\ \A i \in Runners : job'[i] # NoJob /\ job'[i].clean => i = j
  BY <1>1, <1>3, <1>4, <1>5, AloneGoes
<1>7. ASSUME NEW i \in Runners, NEW f, f = job'[i], f # NoJob, f.clean PROVE Knows(i, f)'
  <2>1. i = j /\ f = h /\ g.clean
    BY <1>3, <1>5, <1>6, <1>7
  <2>2. Knows(j, g)
    BY <1>3, <2>1, Known
  <2>3. Knows(j, h)'
    BY <1>1, <2>2, Hears
  <2>4. QED
    BY <2>1, <2>3
<1>8. QED
  BY <1>1, <1>2, <1>3, <1>4, <1>6, <1>7, Reached

LEMMA FailingKeeps ==
    ASSUME IInv, NEW j \in Runners, Failing(j), Types'
    PROVE  IInv'
<1>1. Types /\ Alone
  BY Known
<1>2. PICK a : Stumble(j, Head(job[j].plan), a)
  BY DEF Failing
<1>3. job[j].plan # <<>>
  BY DEF Failing
<1>4. /\ job[j] # NoJob /\ job'[j] # NoJob /\ ~ job'[j].clean
      /\ \A i \in Runners : i # j => job'[i] = job[i]
      /\ disturbed'
  BY <1>1, <1>2, <1>3, Stumbles
<1>5. Alone' /\ \A i \in Runners : job'[i] # NoJob => ~ job'[i].clean
  BY <1>1, <1>4, AloneFails
<1>6. QED
  BY <1>4, <1>5, ReachedDisturbed

LEMMA OverlappedKeeps ==
    ASSUME IInv, Types', job' = Overlapped, disturbed'
    PROVE  IInv'
<1>1. Types
  BY Known
<1>2. Alone' /\ \A i \in Runners : job'[i] # NoJob => ~ job'[i].clean
  BY <1>1, AloneOverlapped
<1>3. QED
  BY <1>2, ReachedDisturbed

\* What a goroutine knows is about the row, the services and the nodes that are up.
LEMMA SteadyStays ==
    ASSUME UNCHANGED <<row, svc>>, NEW g, Steady(g)
    PROVE  Steady(g)'
<1>1. Settled => Settled'
  BY SettledStays
<1>2. Creating(g) => Creating(g)'
  BY DEF Creating, Built, Serving, Told
<1>3. Renaming(g) => Renaming(g)'
  BY DEF Renaming, AllServe, Serving, Told
<1>4. Retargeting(g) => Retargeting(g)'
  BY DEF Retargeting, AllServe, Serving, Told
<1>5. Relistening(g) => Relistening(g)'
  BY DEF Relistening, Emptied, Built, Serving, Told, Exists
<1>6. Respeeding(g) => Respeeding(g)'
  BY DEF Respeeding, AllServe, Serving, Told
<1>7. Removing(g) => Removing(g)'
  BY DEF Removing, Emptied, Exists
<1>8. Switching(g) => Switching(g)'
  BY DEF Switching, Either, Serving, Resting, Told
<1>9. Exists => Exists'
  BY DEF Exists
<1>10. QED
  BY <1>1, <1>2, <1>3, <1>4, <1>5, <1>6, <1>7, <1>8, <1>9 DEF Steady

LEMMA KnowsStays ==
    ASSUME UNCHANGED <<row, svc, up, disturbed>>, NEW j, NEW g, Knows(j, g)
    PROVE  Knows(j, g)'
<1>1. Rebuilding(g)'
  BY DEF Knows, Rebuilding, Renewed, Serving, Told, Exists
<1>2. Restoring(j, g)'
  BY DEF Knows, Restoring, AllMended, Mended, Paused, HalfPair, Registered, Rests, Exists
<1>3. ~ disturbed' => Steady(g)'
  BY SteadyStays DEF Knows
<1>4. QED
  BY <1>1, <1>2, <1>3 DEF Knows

LEMMA StillKeeps ==
    ASSUME IInv, Types', UNCHANGED <<row, svc, up, job, disturbed>>
    PROVE  IInv'
<1>1. Alone /\ (~ disturbed => up = Nodes) /\ (~ disturbed /\ Busy = {} => Settled)
  BY Known
<1>2. Alone'
  BY <1>1 DEF Alone, CleanAlone, Blamed, Busy
<1>3. ASSUME NEW i \in Runners, NEW g, g = job'[i], g # NoJob, g.clean PROVE Knows(i, g)'
  <2>1. Knows(i, g)
    BY <1>3, Known
  <2>2. QED
    BY <2>1, KnowsStays
<1>4. ASSUME ~ disturbed', \A i \in Runners : job'[i] = NoJob PROVE Settled'
  <2>1. Settled
    BY <1>1, <1>4 DEF Busy
  <2>2. QED
    BY <2>1, SettledStays
<1>5. QED
  BY <1>1, <1>2, <1>3, <1>4, Reached

\* A part that is mended is on a node that is up, and some part is on each.
LEMMA MendedUp ==
    ASSUME Types, NEW t, AllMended(t)
    PROVE  up = Nodes
<1>1. ASSUME NEW n \in Nodes PROVE n \in up
  <2>1. PICK i \in 1..Len(BuildOrder) : HostOf(BuildOrder[i]) = n
    BY Orders
  <2>2. QED
    BY <2>1 DEF AllMended, Mended
<1>2. QED
  BY <1>1 DEF Types

LEMMA RenewedUp ==
    ASSUME Types, NEW t, \A s \in Names : Renewed(s, t)
    PROVE  up = Nodes
<1>1. ASSUME NEW n \in Nodes PROVE n \in up
  <2>1. On(n) \ Chain \in Parts /\ \A s \in On(n) \ Chain : Host(s) = n
    BY NodeParts
  <2>2. PICK s \in On(n) \ Chain : s \in Names
    BY <2>1 DEF Parts
  <2>3. QED
    BY <2>1, <2>2 DEF Renewed
<1>2. QED
  BY <1>1 DEF Types

\* Who was right about a node that is up is right still when another starts.
LEMMA BootKnows ==
    ASSUME Types, NEW n \in Nodes, NodeBoot(n), disturbed, NEW j, NEW g, Knows(j, g)
    PROVE  Knows(j, g)'
<1>1. n \notin up /\ up' = up \cup {n} /\ UNCHANGED <<row, disturbed>>
  BY DEF NodeBoot
<1>2. Exists' <=> Exists
  BY <1>1 DEF Exists
<1>3. ASSUME NEW s \in Names, Host(s) \in up PROVE svc'[s] = svc[s]
  <2>1. PICK v : v = Become(Configured(n), [s1 \in Names |->
                               [svc[s1] EXCEPT !.reg = "open", !.target = svc[s1].kept]])
    OBVIOUS
  <2>2. svc' = v
    BY <2>1 DEF NodeBoot
  <2>3. Host(s) # n
    BY <1>1, <1>3
  <2>4. QED
    BY <2>1, <2>2, <2>3, BootDoes
<1>4. OrderOK(BuildOrder) /\ Len(BuildOrder) \in Nat
  BY Orders DEF OrderOK
<1>5. Rebuilding(g)'
  <2>1. CASE g.op = "rebuild" /\ ~ g.failed
    <3>1. PICK k \in 0..Len(BuildOrder) :
              /\ \A s \in Past(BuildOrder, k) : Renewed(s, g.new)
              /\ \/ g.plan = Rest(SyncPlan, k)
                 \/ /\ k < Len(BuildOrder) /\ disturbed
                    /\ g.plan = <<Step("add", BuildOrder[k + 1], "sync")>> \o Rest(SyncPlan, k + 1)
      BY <2>1 DEF Knows, Rebuilding
    <3>2. ASSUME NEW s \in Past(BuildOrder, k) PROVE Renewed(s, g.new)'
      <4>1. s \in Names
        BY <1>4, PastNames
      <4>2. Renewed(s, g.new) /\ Host(s) \in up
        BY <3>1 DEF Renewed
      <4>3. svc'[s] = svc[s]
        BY <1>3, <4>1, <4>2
      <4>4. QED
        BY <1>1, <4>2, <4>3, RenewedSays DEF RenewedIn
    <3>3. PICK q, y : q = Rest(SyncPlan, k + 1) /\ y = Step("add", BuildOrder[k + 1], "sync")
      OBVIOUS
    <3>4. Rest(SyncPlan, k + 1)' = q /\ Step("add", BuildOrder[k + 1], "sync")' = y
      <4>1. Rest(SyncPlan, k + 1)' = Rest(SyncPlan, k + 1)
        BY Plans0
      <4>2. Step("add", BuildOrder[k + 1], "sync")' = Step("add", BuildOrder[k + 1], "sync")
        BY Parameters DEF Step
      <4>3. QED
        BY <3>3, <4>1, <4>2
    <3>5. Rest(SyncPlan, k)' = Rest(SyncPlan, k)
      BY Plans0
    <3>6. /\ Len(BuildOrder)' = Len(BuildOrder) /\ Past(BuildOrder, k)' = Past(BuildOrder, k)
      BY Orders0
    <3>7. Exists' /\ disturbed'
      BY <1>1, <1>2, <2>1 DEF Knows, Rebuilding
    <3>8. \/ g.plan = Rest(SyncPlan, k)'
          \/ k < Len(BuildOrder) /\ g.plan = <<Step("add", BuildOrder[k + 1], "sync")>>'
                                             \o Rest(SyncPlan, k + 1)'
      <4>1. \/ g.plan = Rest(SyncPlan, k)
            \/ k < Len(BuildOrder) /\ g.plan = <<y>> \o q
        BY <3>1, <3>3
      <4>2. QED
        BY <3>4, <3>5, <4>1
    <3>9. QED
      BY <3>2, <3>6, <3>7, <3>8 DEF Rebuilding
  <2>2. CASE g.op # "rebuild" \/ g.failed
    BY <2>2 DEF Rebuilding
  <2>3. QED
    BY <2>1, <2>2
<1>6. Restoring(j, g)'
  <2>1. Restoring(j, g)
    BY DEF Knows
  <2>2. CASE g.op = "reconcile" /\ ~ g.failed /\ Exists
    <3>1. PICK k \in 0..Len(BuildOrder) :
           /\ \A i \in 1..k : Mended(BuildOrder[i], g.new)
           /\ \/ g.plan = Rest(Adds("gentle"), k)
              \/ /\ k < Len(BuildOrder) /\ BuildOrder[k + 1] = Forwarding
                 /\ g.plan = <<Step("forwarder", Forwarding, "gentle")>> \o Rest(Adds("gentle"), k + 1)
      BY <2>1, <2>2 DEF Restoring
    <3>2. ASSUME NEW i \in 1..k PROVE Mended(BuildOrder[i], g.new)'
      <4>1. i \in 1..Len(BuildOrder)
        BY <1>4
      <4>2. PICK N : N = BuildOrder[i]
        OBVIOUS
      <4>3. N \in SUBSET Names /\ \A s \in N : Host(s) = HostOf(N)
        BY <1>4, <4>1, <4>2 DEF OrderOK, Parts
      <4>4. Mended(N, g.new) /\ HostOf(N) \in up
        BY <3>1, <4>2 DEF Mended
      <4>5. HostOf(N) \in up' /\ \A s \in N : svc'[s] = svc[s]
        BY <1>1, <1>3, <4>3, <4>4
      <4>6. Mended(N, g.new)'
        BY <4>3, <4>4, <4>5, MendedStays
      <4>7. BuildOrder[i]' = N
        BY <4>2, Parameters
      <4>8. QED
        BY <4>2, <4>6
    <3>3. PICK q, y : q = Rest(Adds("gentle"), k + 1) /\ y = Step("forwarder", Forwarding, "gentle")
      OBVIOUS
    <3>4. Rest(Adds("gentle"), k + 1)' = q /\ Step("forwarder", Forwarding, "gentle")' = y
      <4>1. Rest(Adds("gentle"), k + 1)' = Rest(Adds("gentle"), k + 1)
        BY Plans0
      <4>2. Step("forwarder", Forwarding, "gentle")' = Step("forwarder", Forwarding, "gentle")
        BY Parameters DEF Step
      <4>3. QED
        BY <3>3, <4>1, <4>2
    <3>5. Rest(Adds("gentle"), k)' = Rest(Adds("gentle"), k)
      BY Plans0
    <3>6. Len(BuildOrder)' = Len(BuildOrder) /\ (BuildOrder[k + 1] = Forwarding)'
                                                  = (BuildOrder[k + 1] = Forwarding)
      BY Orders0, Parameters
    <3>7. \/ g.plan = Rest(Adds("gentle"), k)
          \/ k < Len(BuildOrder) /\ BuildOrder[k + 1] = Forwarding /\ g.plan = <<y>> \o q
      BY <3>1, <3>3
    <3>8. g.snap = row' /\ g.new = row'.target
      BY <1>1, <2>1, <2>2 DEF Restoring
    <3>9. QED
      BY <2>2, <3>2, <3>4, <3>5, <3>6, <3>7, <3>8 DEF Restoring
  <2>3. CASE g.op \in {"repause", "orphans"} /\ ~ g.failed /\ Exists
    <3>1. AllMended(row.target)
      BY <2>1, <2>3 DEF Restoring
    <3>2. PICK t : t = row.target
      OBVIOUS
    <3>3. up = Nodes
      BY <3>1, <3>2, MendedUp
    <3>4. QED
      BY <1>1, <3>3
  <2>4. CASE g.failed \/ ~ Exists \/ g.op \notin RecOps
    BY <1>1, <1>2, <2>1, <2>4 DEF Restoring, RecOps
  <2>5. QED
    BY <2>2, <2>3, <2>4 DEF RecOps
<1>7. QED
  BY <1>1, <1>5, <1>6 DEF Knows

LEMMA BootKeeps ==
    ASSUME IInv, NEW n \in Nodes, NodeBoot(n), Types'
    PROVE  IInv'
<1>1. Types /\ Alone /\ (~ disturbed => up = Nodes)
  BY Known
<1>2. n \notin up /\ UNCHANGED <<job, disturbed>>
  BY DEF NodeBoot
<1>3. disturbed
  BY <1>1, <1>2
<1>4. Alone'
  BY <1>1, <1>2 DEF Alone, CleanAlone, Blamed, Busy
<1>5. ASSUME NEW i \in Runners, NEW g, g = job'[i], g # NoJob, g.clean PROVE Knows(i, g)'
  <2>1. Knows(i, g)
    BY <1>2, <1>5, Known
  <2>2. QED
    BY <1>1, <1>3, <2>1, BootKnows
<1>6. QED
  BY <1>2, <1>3, <1>4, <1>5, Reached

-----------------------------------------------------------------------------
(* The invariant: goroutines begin.                                        *)

LEMMA StartsSteady ==
    ASSUME Types, NEW op \in AllOps, op \notin {"create", "report"}, NEW t, Begins(op, t),
           ~ Disturbs(op), Settled,
           NEW h, h.op = op, h.new = t, h.plan = PlanOf(op), ~ h.failed
    PROVE  Steady(h)
<1>1. Exists
  BY DEF Begins, AllOps
<1>2. \A s \in Names : svc[s].reg # "absent"
  BY <1>1, SettledSays
<1>3. row.status \in {"active", "paused"}
  BY <1>1 DEF Settled, Exists
<1>4. \A s \in Names : Either(s, row.target)
  BY <1>3 DEF Settled, Either, AllServe, AllRest
<1>5. op \notin RecOps
  BY DEF AllOps, RecOps
<1>6. CASE op = "rename"
  <2>1. h.plan = <<>> /\ t = row.target /\ row.status = "active" /\ AllServe(row.target)
    BY <1>3, <1>6 DEF Begins, PlanOf, Disturbs, Settled
  <2>2. Renaming(h)
    BY <2>1 DEF Renaming
  <2>3. QED
    BY <1>6, <2>2 DEF Steady, RecOps
<1>7. CASE op = "hot"
  <2>1. /\ h.plan = <<Step("forwarder", Forwarding, "hot")>>
        /\ row.status = "active" /\ AllServe(row.target)
    BY <1>3, <1>7 DEF PlanOf, Disturbs, Settled
  <2>2. Retargeting(h)
    BY <2>1 DEF Retargeting
  <2>3. QED
    BY <1>7, <2>2 DEF Steady, RecOps
<1>8. CASE op = "rebuild"
  BY <1>8 DEF Steady, RecOps
<1>9. CASE op \in {"relisten", "delete", "force"}
  <2>1. PICK c, m : c = "delete" /\ m = IF op = "delete" THEN "delete" ELSE "best"
    OBVIOUS
  <2>2. c \in Cmds /\ m \in Modes /\ OrderOK(RemoveOrder)
    BY <2>1, Orders DEF Cmds, Modes
  <2>3. /\ Rest(Steps(c, RemoveOrder, m), 0) = Steps(c, RemoveOrder, m)
        /\ 0 \in 0..Len(RemoveOrder) /\ Past(RemoveOrder, 0) = {}
    BY <2>2, AtEnd
  <2>4. Rest(Deletes(m), 0) = Deletes(m)
    BY <2>1, <2>3 DEF Deletes
  <2>5. Emptied(0)
    BY <1>2, <2>3 DEF Emptied
  <2>6. CASE op = "relisten"
    <3>1. h.plan = Deletes("best") \o Adds("create")
      BY <2>6 DEF PlanOf, Deletes, Adds
    <3>2. h.plan = Rest(Deletes("best"), 0) \o Adds("create")
      BY <2>1, <2>4, <2>6, <3>1
    <3>3. Relistening(h)
      BY <1>1, <2>3, <2>5, <3>2 DEF Relistening
    <3>4. QED
      BY <2>6, <3>3 DEF Steady, RecOps
  <2>7. CASE op = "delete"
    <3>1. Nodes \subseteq online
      BY <2>7 DEF Disturbs
    <3>2. h.plan = Deletes("delete") /\ m = "delete"
      BY <2>1, <2>7, <3>1 DEF PlanOf, Deletes
    <3>3. Removing(h)
      BY <1>1, <2>3, <2>4, <2>5, <2>7, <3>2 DEF Removing
    <3>4. QED
      BY <2>7, <3>3 DEF Steady, RecOps
  <2>8. CASE op = "force"
    <3>1. h.plan = Deletes("best") /\ m = "best"
      BY <2>1, <2>8 DEF PlanOf, Deletes
    <3>2. Removing(h)
      BY <1>1, <2>3, <2>4, <2>5, <2>8, <3>1 DEF Removing
    <3>3. QED
      BY <2>8, <3>2 DEF Steady, RecOps
  <2>9. QED
    BY <1>9, <2>6, <2>7, <2>8
<1>10. CASE op = "respeed"
  <2>1. /\ h.plan = <<Step("update", Main, "best")>> /\ t = row.target
        /\ row.status = "active" /\ AllServe(row.target)
    BY <1>3, <1>10 DEF Begins, PlanOf, Disturbs, Settled
  <2>2. Respeeding(h)
    BY <2>1 DEF Respeeding
  <2>3. QED
    BY <1>10, <2>2 DEF Steady, RecOps
<1>11. CASE op \in {"pause", "resume", "limit"}
  <2>1. PICK c, m : /\ c = IF op = "resume" THEN "resume" ELSE "pause"
                    /\ m = IF op = "limit" THEN "best" ELSE "must"
    OBVIOUS
  <2>2. c \in Cmds /\ m \in Modes /\ OrderOK(SwitchOrder)
    BY <2>1, Orders DEF Cmds, Modes
  <2>3. /\ Rest(Steps(c, SwitchOrder, m), 0) = Steps(c, SwitchOrder, m)
        /\ 0 \in 0..Len(SwitchOrder) /\ Past(SwitchOrder, 0) = {}
    BY <2>2, AtEnd
  <2>4. h.plan = Steps(c, SwitchOrder, m)
    BY <1>11, <2>1 DEF PlanOf
  <2>5. Switching(h)
    <3>1. CASE op = "resume"
      <4>1. c = "resume" /\ m = "must"
        BY <2>1, <3>1
      <4>2. h.plan = Rest(Steps("resume", SwitchOrder, "must"), 0)
        BY <2>3, <2>4, <4>1
      <4>3. QED
        BY <1>3, <1>4, <2>3, <3>1, <4>2 DEF Switching
    <3>2. CASE op # "resume"
      <4>1. c = "pause" /\ m = IF h.op = "pause" THEN "must" ELSE "best"
        BY <1>11, <2>1, <3>2
      <4>2. h.plan = Rest(Steps("pause", SwitchOrder, IF h.op = "pause" THEN "must" ELSE "best"), 0)
        BY <2>3, <2>4, <4>1
      <4>3. QED
        BY <1>3, <1>4, <2>3, <3>2, <4>2 DEF Switching
    <3>3. QED
      BY <3>1, <3>2
  <2>6. QED
    BY <1>11, <2>5 DEF Steady, RecOps
<1>12. QED
  BY <1>6, <1>7, <1>8, <1>9, <1>10, <1>11 DEF AllOps

LEMMA StartsBuilding ==
    ASSUME NEW m \in Modes
    PROVE  /\ 0 \in 0..Len(BuildOrder) /\ Past(BuildOrder, 0) = {}
           /\ Rest(Adds(m), 0) = Adds(m) /\ Rest(SyncPlan, 0) = SyncPlan
<1>1. PICK a, u, n : a = "add" /\ u = "update" /\ n = "sync"
  OBVIOUS
<1>2. a \in Cmds /\ u \in Cmds /\ n \in Modes /\ OrderOK(BuildOrder)
  BY <1>1, Orders DEF Cmds, Modes
<1>3. /\ 0 \in 0..Len(BuildOrder) /\ Past(BuildOrder, 0) = {}
      /\ Rest(Steps(a, BuildOrder, m), 0) = Steps(a, BuildOrder, m)
  BY <1>2, AtEnd
<1>4. Rest(Steps(u, BuildOrder, n), 0) = Steps(u, BuildOrder, n)
  BY <1>2, AtEnd
<1>5. QED
  BY <1>1, <1>3, <1>4 DEF Adds, SyncPlan

LEMMA StartJobKeeps ==
    ASSUME IInv, NEW j \in Jobs, NEW op \in Ops, NEW t \in Targets, StartJob(j, op, t), Types'
    PROVE  IInv'
<1>1. Types /\ Alone /\ (~ disturbed => up = Nodes) /\ (~ disturbed /\ Busy = {} => Settled)
  BY Known
<1>2. op \in AllOps /\ j \in Runners /\ t \in Contents /\ op \notin RecOps
  BY ControlAssumption DEF Runners, Contents, AllOps, RecOps
<1>3. PICK p : p = PlanOf(op)
  OBVIOUS
<1>4. p \in Seq(StepsOf(t))
  BY <1>2, <1>3, PlansOK
<1>5. Begin(j, op, t, p)
  BY <1>3 DEF StartJob
<1>6. /\ job[j] = NoJob /\ job'[j] # NoJob
      /\ job'[j] = [op |-> op, snap |-> row, new |-> t, plan |-> p,
                    failed |-> FALSE, clean |-> Busy = {}]
      /\ \A i \in Busy : job'[i] = Overrun(job[i])
      /\ \A i \in Runners \ Busy : i # j => job'[i] = NoJob
  BY <1>1, <1>2, <1>4, <1>5, Beginning
<1>7. /\ Begins(op, t) /\ disturbed' = (disturbed \/ Busy # {} \/ Disturbs(op))
      /\ row' = IF op = "create" THEN [status |-> "active", target |-> t] ELSE row
      /\ UNCHANGED <<svc, up>>
  BY DEF StartJob
<1>8. job'[j].clean = (Busy = {}) /\ (Busy # {} => disturbed')
  <2>1. PICK b : b = (Busy = {})
    OBVIOUS
  <2>2. job'[j] = [op |-> op, snap |-> row, new |-> t, plan |-> p, failed |-> FALSE, clean |-> b]
    BY <1>6, <2>1
  <2>3. job'[j].clean = b
    BY <2>2
  <2>4. Busy # {} => disturbed'
    BY <1>7
  <2>5. QED
    BY <2>1, <2>3, <2>4
<1>9. /\ Alone' /\ Busy' # {}
      /\ \A i \in Runners : job'[i] # NoJob /\ job'[i].clean => i = j /\ Busy = {}
  BY <1>1, <1>2, <1>6, <1>8, AloneBegins
<1>10. ~ disturbed' => ~ disturbed /\ Busy = {} /\ ~ Disturbs(op) /\ Settled
  BY <1>1, <1>7
<1>11. ASSUME NEW h, h = job'[j] PROVE Knows(j, h)'
  <2>1. h.op = op /\ h.new = t /\ h.plan = PlanOf(op) /\ ~ h.failed
    BY <1>3, <1>6, <1>11
  <2>2. Restoring(j, h)'
    BY <1>2, <2>1 DEF Restoring, RecOps
  <2>3. Rebuilding(h)'
    <3>1. CASE op = "rebuild"
      <4>1. Exists' /\ UNCHANGED row
        BY <1>7, <3>1 DEF Begins, Exists
      <4>2. PICK m \in Modes : m = "sync"
        BY DEF Modes
      <4>3. 0 \in 0..Len(BuildOrder) /\ Past(BuildOrder, 0) = {} /\ Rest(SyncPlan, 0) = SyncPlan
        BY <4>2, StartsBuilding
      <4>4. h.plan = Rest(SyncPlan, 0)
        BY <2>1, <3>1, <4>3 DEF PlanOf
      <4>5. ~ disturbed' => \A s \in Names : svc'[s].reg # "absent"
        <5>1. Exists
          BY <1>7, <3>1 DEF Begins
        <5>2. QED
          BY <1>1, <1>7, <1>10, <5>1, SettledSays
      <4>6. PICK k : k = 0
        OBVIOUS
      <4>7. /\ k \in 0..Len(BuildOrder) /\ Past(BuildOrder, k) = {} /\ h.plan = Rest(SyncPlan, k)
        BY <4>3, <4>4, <4>6
      <4>8. /\ Past(BuildOrder, k)' = Past(BuildOrder, k) /\ Len(BuildOrder)' = Len(BuildOrder)
            /\ Rest(SyncPlan, k)' = Rest(SyncPlan, k)
        BY Orders0, Plans0
      <4>9. QED
        BY <4>1, <4>5, <4>7, <4>8, Runners0 DEF Rebuilding
    <3>2. CASE op # "rebuild"
      BY <2>1, <3>2 DEF Rebuilding
    <3>3. QED
      BY <3>1, <3>2
  <2>4. ASSUME ~ disturbed' PROVE Steady(h)'
    <3>1. CASE op = "create"
      <4>1. PICK m \in Modes : m = "create"
        BY DEF Modes
      <4>2. 0 \in 0..Len(BuildOrder) /\ Past(BuildOrder, 0) = {} /\ Rest(Adds(m), 0) = Adds(m)
        BY StartsBuilding
      <4>3. h.plan = Adds("create")
        BY <2>1, <3>1 DEF PlanOf, Adds
      <4>4. row = Unborn
        BY <1>7, <3>1 DEF Begins
      <4>5. \A s \in Names : svc'[s] = Nothing
        BY <1>7, <1>10, <2>4, <4>4 DEF Settled, Exists, Unborn
      <4>6. PICK k : k = 0
        OBVIOUS
      <4>7. /\ k \in 0..Len(BuildOrder) /\ Past(BuildOrder, k) = {}
            /\ h.plan = Rest(Adds("create"), k)
        BY <4>1, <4>2, <4>3, <4>6
      <4>8. /\ Past(BuildOrder, k)' = Past(BuildOrder, k) /\ Len(BuildOrder)' = Len(BuildOrder)
            /\ Rest(Adds("create"), k)' = Rest(Adds("create"), k)
        BY Orders0, Plans0
      <4>9. Built(h.new, k)'
        BY <4>5, <4>7, <4>8, Runners0, Parameters DEF Built
      <4>10. row' = [status |-> "active", target |-> h.new]
        BY <1>7, <2>1, <3>1
      <4>11. Creating(h)'
        BY <4>7, <4>8, <4>9, <4>10 DEF Creating
      <4>12. QED
        BY <2>1, <3>1, <4>11 DEF Steady, RecOps
    <3>2. CASE op # "create"
      <4>1. op \notin {"create", "report"}
        BY <1>7, <3>2 DEF Begins
      <4>2. ~ Disturbs(op) /\ Settled /\ Begins(op, t) /\ UNCHANGED <<row, svc>>
        BY <1>7, <1>10, <2>4, <3>2
      <4>3. Steady(h)
        BY <1>1, <1>2, <2>1, <4>1, <4>2, StartsSteady
      <4>4. QED
        BY <4>2, <4>3, SteadyStays
    <3>3. QED
      BY <3>1, <3>2
  <2>5. QED
    BY <2>2, <2>3, <2>4 DEF Knows
<1>12. ASSUME NEW i \in Runners, NEW g, g = job'[i], g # NoJob, g.clean PROVE Knows(i, g)'
  <2>1. i = j
    BY <1>9, <1>12
  <2>2. QED
    BY <1>11, <1>12, <2>1
<1>13. ~ disturbed' => up' = Nodes
  BY <1>1, <1>7
<1>14. ~ (\A i \in Runners : job'[i] = NoJob)
  BY <1>2, <1>6
<1>15. QED
  BY <1>9, <1>12, <1>13, <1>14, Reached

LEMMA StartReportKeeps ==
    ASSUME IInv, NEW j \in Jobs, NEW n \in Nodes, StartReport(j, n), Types'
    PROVE  IInv'
<1>1. Types /\ Alone /\ (~ disturbed => up = Nodes) /\ (~ disturbed /\ Busy = {} => Settled)
  BY Known
<1>2. PICK p : p = ReportPlan(n)
  OBVIOUS
<1>3. PICK t, o : t = "none" /\ o = "report"
  OBVIOUS
<1>4. j \in Runners /\ t \in Contents /\ o \in AllOps
      /\ o \notin RecOps /\ o \notin Edits \cup {"create"}
  BY <1>3 DEF Runners, Contents, AllOps, RecOps, Edits
<1>5. p \in Seq(StepsOf(t)) /\ Begin(j, o, t, p)
  BY <1>2, <1>3, ReportPlanOK DEF StartReport
<1>6. /\ job[j] = NoJob /\ job'[j] # NoJob
      /\ job'[j] = [op |-> o, snap |-> row, new |-> t, plan |-> p,
                    failed |-> FALSE, clean |-> Busy = {}]
      /\ \A i \in Busy : job'[i] = Overrun(job[i])
      /\ \A i \in Runners \ Busy : i # j => job'[i] = NoJob
  BY <1>1, <1>4, <1>5, Beginning
<1>7. row = Gone /\ Configured(n) # {} /\ disturbed' = (disturbed \/ Busy # {})
  BY DEF StartReport
<1>8. disturbed'
  <2>1. ASSUME Settled PROVE FALSE
    <3>1. \A s \in Names : svc[s] = Nothing
      BY <1>7, <2>1 DEF Settled, Exists, Gone
    <3>2. QED
      BY <1>7, <3>1 DEF Configured, On, Nothing
  <2>2. QED
    BY <1>1, <1>7, <2>1
<1>9. job'[j].clean = (Busy = {})
  <2>1. PICK b : b = (Busy = {})
    OBVIOUS
  <2>2. job'[j] = [op |-> o, snap |-> row, new |-> t, plan |-> p, failed |-> FALSE, clean |-> b]
    BY <1>6, <2>1
  <2>3. job'[j].clean = b
    BY <2>2
  <2>4. QED
    BY <2>1, <2>3
<1>10. /\ Alone' /\ Busy' # {}
       /\ \A i \in Runners : job'[i] # NoJob /\ job'[i].clean => i = j /\ Busy = {}
  BY <1>1, <1>4, <1>6, <1>8, <1>9, AloneBegins
<1>11. ASSUME NEW i \in Runners, NEW g, g = job'[i], g # NoJob, g.clean PROVE Knows(i, g)'
  <2>1. i = j
    BY <1>10, <1>11
  <2>2. g.op = "report"
    BY <1>3, <1>6, <1>11, <2>1
  <2>3. QED
    BY <1>8, <2>2 DEF Knows, Rebuilding, Restoring
<1>12. QED
  BY <1>8, <1>10, <1>11, Reached

LEMMA StartReconcileKeeps ==
    ASSUME IInv, NEW n \in Nodes, StartReconcile(n), Types'
    PROVE  IInv'
<1>1. Types /\ Alone /\ (~ disturbed => up = Nodes) /\ (~ disturbed /\ Busy = {} => Settled)
  BY Known
<1>2. n \in Runners
  BY DEF Runners
<1>3. /\ job[n] = NoJob /\ job'[n] # NoJob
      /\ job'[n] = [op |-> "reconcile", snap |-> row, new |-> row.target,
                    plan |-> GentlePlan, failed |-> FALSE, clean |-> Busy = {}]
      /\ \A i \in Busy : job'[i] = Overrun(job[i])
      /\ \A i \in Runners \ Busy : i # n => job'[i] = NoJob
  BY <1>1, StartReconcileDoes
<1>4. disturbed' = (disturbed \/ Busy # {}) /\ UNCHANGED <<row, svc, up>>
  BY DEF StartReconcile
<1>5. job'[n].clean = (Busy = {}) /\ (Busy # {} => disturbed')
  <2>1. PICK b : b = (Busy = {})
    OBVIOUS
  <2>2. job'[n] = [op |-> "reconcile", snap |-> row, new |-> row.target,
                   plan |-> GentlePlan, failed |-> FALSE, clean |-> b]
    BY <1>3, <2>1
  <2>3. job'[n].clean = b
    BY <2>2
  <2>4. Busy # {} => disturbed'
    BY <1>4
  <2>5. QED
    BY <2>1, <2>3, <2>4
<1>6. /\ Alone' /\ Busy' # {}
      /\ \A i \in Runners : job'[i] # NoJob /\ job'[i].clean => i = n /\ Busy = {}
  BY <1>1, <1>2, <1>3, <1>5, AloneBegins
<1>7. ASSUME NEW h, h = job'[n], h.clean PROVE Knows(n, h)'
  <2>1. /\ h.op = "reconcile" /\ h.snap = row /\ h.new = row.target /\ h.plan = GentlePlan
        /\ ~ h.failed /\ Exists' = Exists
    BY <1>3, <1>4, <1>7 DEF Exists
  <2>2. Rebuilding(h)'
    BY <2>1 DEF Rebuilding
  <2>3. ~ disturbed' => Steady(h)'
    <3>1. ASSUME ~ disturbed' PROVE Settled'
      <4>1. Settled
        BY <1>1, <1>4, <3>1
      <4>2. QED
        BY <1>4, <4>1, SettledStays
    <3>2. ~ Exists' => h.plan = <<>>
      BY <2>1 DEF GentlePlan
    <3>3. QED
      BY <2>1, <3>1, <3>2 DEF Steady, RecOps
  <2>4. Restoring(n, h)'
    <3>1. PICK m \in Modes : m = "gentle"
      BY DEF Modes
    <3>2. 0 \in 0..Len(BuildOrder) /\ Rest(Adds(m), 0) = Adds(m)
      BY StartsBuilding
    <3>3. PICK k : k = 0
      OBVIOUS
    <3>4. k \in 0..Len(BuildOrder) /\ \A i \in 1..k : FALSE
      BY <3>2, <3>3
    <3>5. Exists => h.plan = Rest(Adds("gentle"), k)
      BY <2>1, <3>1, <3>2, <3>3 DEF GentlePlan, Adds
    <3>6. Len(BuildOrder)' = Len(BuildOrder) /\ Rest(Adds("gentle"), k)' = Rest(Adds("gentle"), k)
      BY Orders0, Plans0
    <3>7. h.snap = row' /\ h.new = row'.target
      BY <1>4, <2>1
    <3>8. QED
      BY <2>1, <3>4, <3>5, <3>6, <3>7 DEF Restoring
  <2>5. QED
    BY <2>2, <2>3, <2>4 DEF Knows
<1>8. ASSUME NEW i \in Runners, NEW g, g = job'[i], g # NoJob, g.clean PROVE Knows(i, g)'
  <2>1. i = n
    BY <1>6, <1>8
  <2>2. QED
    BY <1>7, <1>8, <2>1
<1>9. ~ disturbed' => up' = Nodes
  BY <1>1, <1>4
<1>10. ~ (\A i \in Runners : job'[i] = NoJob)
  BY <1>2, <1>3
<1>11. QED
  BY <1>6, <1>8, <1>9, <1>10, Reached

-----------------------------------------------------------------------------
(* The invariant: the parts of a reconcile.                                *)

\* When a reconcile has sent its last command.
LEMMA RestoredSays ==
    ASSUME NEW j, NEW g, Restoring(j, g), g.plan = <<>>, ~ g.failed, Exists
    PROVE  /\ g.op = "reconcile" => AllMended(row.target)
           /\ g.op = "repause" => row.status # "error" /\ AllMended(row.target) /\ Paused(j)
<1>1. ASSUME g.op = "reconcile" PROVE AllMended(row.target)
  <2>1. PICK k \in 0..Len(BuildOrder) :
           /\ \A i \in 1..k : Mended(BuildOrder[i], g.new)
           /\ \/ g.plan = Rest(Adds("gentle"), k)
              \/ /\ k < Len(BuildOrder)
                 /\ g.plan = <<Step("forwarder", Forwarding, "gentle")>> \o Rest(Adds("gentle"), k + 1)
    BY <1>1 DEF Restoring
  <2>2. PICK c, m : c = "add" /\ m = "gentle"
    OBVIOUS
  <2>3. c \in Cmds /\ m \in Modes /\ OrderOK(BuildOrder)
    BY <2>2, Orders DEF Cmds, Modes
  <2>4. PICK S, y, q : /\ S = [cmd : Cmds, names : Parts, mode : Modes]
                       /\ y = Step("forwarder", Forwarding, "gentle")
                       /\ q = Rest(Adds("gentle"), k + 1)
    OBVIOUS
  <2>5. ASSUME k < Len(BuildOrder) PROVE <<y>> \o q # <<>>
    <3>1. y \in S
      BY <2>4, Places DEF Step, Cmds, Modes, Parts
    <3>2. k + 1 \in 0..Len(BuildOrder)
      BY <2>3, <2>5, PastGrows
    <3>3. q \in Seq(S)
      BY <2>2, <2>3, <2>4, <3>2, AtEnd DEF Adds
    <3>4. QED
      BY <3>1, <3>3, InFront
  <2>6. Rest(Adds("gentle"), k) = <<>>
    BY <2>1, <2>4, <2>5
  <2>7. Rest(Steps(c, BuildOrder, m), k) = <<>>
    BY <2>2, <2>6 DEF Adds
  <2>8. k = Len(BuildOrder)
    BY <2>3, <2>7, AtEnd
  <2>9. g.new = row.target
    BY <1>1 DEF Restoring
  <2>10. QED
    BY <2>1, <2>8, <2>9 DEF AllMended
<1>2. ASSUME g.op = "repause"
      PROVE  row.status # "error" /\ AllMended(row.target) /\ Paused(j)
  BY <1>2 DEF Restoring
<1>3. QED
  BY <1>1, <1>2

LEMMA FinishSyncKeeps ==
    ASSUME IInv, NEW n \in Nodes, FinishSync(n), Types'
    PROVE  IInv'
<1>1. Types /\ Alone /\ (~ disturbed => up = Nodes)
  BY Known
<1>2. n \in Runners
  BY DEF Runners
<1>3. PICK g, h : g = job[n] /\ h = job'[n]
  OBVIOUS
<1>4. /\ h # NoJob /\ h.op = "repause" /\ h.plan = Repause(n, g)
      /\ h.snap = g.snap /\ h.new = g.new /\ h.failed = g.failed /\ h.clean = g.clean
      /\ \A i \in Runners : i # n => job'[i] = job[i]
  BY <1>1, <1>3, FinishSyncDoes
<1>5. /\ g.op = "reconcile" /\ g.plan = <<>>
      /\ IF g.snap.status = "error" /\ ~ g.failed THEN SetRow("active", row.target)
         ELSE UNCHANGED row
      /\ UNCHANGED <<svc, up, disturbed>>
  BY <1>3 DEF FinishSync
<1>6. g # NoJob
  BY <1>5 DEF NoJob
<1>7. job[n] # NoJob /\ job'[n] # NoJob /\ job'[n].clean = job[n].clean
  BY <1>3, <1>4, <1>6
<1>8. Alone' /\ \A i \in Runners : job'[i] # NoJob /\ job'[i].clean => i = n
  BY <1>1, <1>2, <1>4, <1>5, <1>7, AloneGoes
<1>9. ASSUME g.clean PROVE Knows(n, h)'
  <2>1. Knows(n, g)
    BY <1>2, <1>3, <1>6, <1>9, Known
  <2>2. g.snap = row /\ g.new = row.target
    BY <1>5, <2>1 DEF Knows, Restoring
  <2>3. row'.target = row.target /\ (Exists' <=> Exists)
    BY <1>5, <2>2 DEF SetRow, Exists
  <2>4. Rebuilding(h)'
    BY <1>4 DEF Rebuilding
  <2>5. ASSUME ~ disturbed' PROVE Steady(h)'
    <3>1. ~ g.failed /\ Settled
      BY <1>5, <2>1, <2>5 DEF Knows, Steady, RecOps
    <3>2. UNCHANGED <<row, svc>>
      BY <1>5, <2>2, <3>1 DEF Settled
    <3>3. Settled'
      BY <3>1, <3>2, SettledStays
    <3>4. ~ Exists' => h.plan = <<>>
      BY <1>4, <2>2, <2>3 DEF Repause, Exists
    <3>5. QED
      BY <1>4, <3>1, <3>3, <3>4 DEF Steady, RecOps
  <2>6. ASSUME ~ h.failed, Exists' PROVE /\ row'.status # "error"
                                         /\ AllMended(row.target)'
                                         /\ \/ /\ row'.status = "paused"
                                               /\ h.plan = <<Step("pause", On(n) \ Chain, "best")>>
                                            \/ h.plan = <<>> /\ Paused(n)'
    <3>1. Exists /\ ~ g.failed /\ Restoring(n, g)
      BY <1>4, <2>1, <2>3, <2>6 DEF Knows
    <3>2. AllMended(row.target)
      BY <1>5, <3>1, RestoredSays
    <3>3. AllMended(row.target)'
      BY <1>5, <2>3, <3>2 DEF AllMended, Mended, Registered
    <3>4. row'.status # "error"
      BY <1>5, <2>2, <3>1 DEF SetRow
    <3>5. CASE row.status = "paused"
      <4>1. row' = row /\ h.plan = <<Step("pause", On(n) \ Chain, "best")>>
        BY <1>4, <1>5, <2>2, <3>5 DEF Repause
      <4>2. QED
        BY <3>3, <3>4, <3>5, <4>1
    <3>6. CASE row.status # "paused"
      <4>1. h.plan = <<>> /\ row'.status # "paused"
        BY <1>4, <1>5, <2>2, <3>6 DEF Repause, SetRow
      <4>2. QED
        BY <3>3, <3>4, <4>1 DEF Paused
    <3>7. QED
      BY <3>5, <3>6
  <2>7. <<Step("pause", On(n) \ Chain, "best")>>' = <<Step("pause", On(n) \ Chain, "best")>>
    BY Parameters, Runners0 DEF Step, On, Host
  <2>8. Restoring(n, h)'
    BY <1>4, <2>6, <2>7 DEF Restoring
  <2>9. QED
    BY <2>4, <2>5, <2>8 DEF Knows
<1>10. ASSUME NEW i \in Runners, NEW f, f = job'[i], f # NoJob, f.clean PROVE Knows(i, f)'
  <2>1. i = n
    BY <1>8, <1>10
  <2>2. f = h /\ g.clean
    BY <1>3, <1>4, <1>10, <2>1
  <2>3. QED
    BY <1>9, <2>1, <2>2
<1>11. QED
  BY <1>1, <1>2, <1>5, <1>7, <1>8, <1>10, Reached

LEMMA FinishRepauseKeeps ==
    ASSUME IInv, NEW n \in Nodes, FinishRepause(n), Types'
    PROVE  IInv'
<1>1. Types /\ Alone /\ (~ disturbed => up = Nodes)
  BY Known
<1>2. n \in Runners
  BY DEF Runners
<1>3. PICK g, h : g = job[n] /\ h = job'[n]
  OBVIOUS
<1>4. /\ h # NoJob /\ h.op = "orphans" /\ (row # Gone => h.plan = <<>>)
      /\ h.failed = g.failed /\ h.clean = g.clean
      /\ \A i \in Runners : i # n => job'[i] = job[i]
      /\ Orphans(n) = {} => h.plan = <<>>
  BY <1>1, <1>3, FinishRepauseDoes
<1>5. g.op = "repause" /\ g.plan = <<>> /\ UNCHANGED <<row, svc, up, disturbed>>
  BY <1>3 DEF FinishRepause
<1>6. g # NoJob
  BY <1>5 DEF NoJob
<1>7. job[n] # NoJob /\ job'[n] # NoJob /\ job'[n].clean = job[n].clean
  BY <1>3, <1>4, <1>6
<1>8. Alone' /\ \A i \in Runners : job'[i] # NoJob /\ job'[i].clean => i = n
  BY <1>1, <1>2, <1>4, <1>5, <1>7, AloneGoes
<1>9. ASSUME g.clean PROVE Knows(n, h)'
  <2>1. Knows(n, g)
    BY <1>2, <1>3, <1>6, <1>9, Known
  <2>2. Rebuilding(h)
    BY <1>4 DEF Rebuilding
  <2>3. ASSUME ~ disturbed PROVE Steady(h)
    <3>1. ~ g.failed /\ Settled
      BY <1>5, <2>1, <2>3 DEF Knows, Steady, RecOps
    <3>2. ASSUME ~ Exists PROVE h.plan = <<>>
      <4>1. Orphans(n) = {}
        BY <3>1, <3>2 DEF Settled, Orphans, Registered, Nothing
      <4>2. QED
        BY <1>4, <4>1
    <3>3. QED
      BY <1>4, <3>1, <3>2 DEF Steady, RecOps
  <2>4. Restoring(n, h)
    <3>1. ASSUME ~ h.failed, Exists
          PROVE  row.status # "error" /\ AllMended(row.target) /\ h.plan = <<>> /\ Paused(n)
      <4>1. row # Gone /\ ~ g.failed /\ Restoring(n, g)
        BY <1>4, <2>1, <3>1 DEF Exists, Gone, Knows
      <4>2. QED
        BY <1>4, <1>5, <3>1, <4>1, RestoredSays
    <3>2. QED
      BY <1>4, <3>1 DEF Restoring
  <2>5. Knows(n, h)
    BY <2>2, <2>3, <2>4 DEF Knows
  <2>6. QED
    BY <1>5, <2>5, KnowsStays
<1>10. ASSUME NEW i \in Runners, NEW f, f = job'[i], f # NoJob, f.clean PROVE Knows(i, f)'
  <2>1. i = n
    BY <1>8, <1>10
  <2>2. f = h /\ g.clean
    BY <1>3, <1>4, <1>10, <2>1
  <2>3. QED
    BY <1>9, <2>1, <2>2
<1>11. QED
  BY <1>1, <1>2, <1>5, <1>7, <1>8, <1>10, Reached

LEMMA FinishReconcileKeeps ==
    ASSUME IInv, NEW n \in Nodes, FinishReconcile(n), Types'
    PROVE  IInv'
<1>1. Types /\ Alone /\ (~ disturbed => up = Nodes)
  BY Known
<1>2. n \in Runners
  BY DEF Runners
<1>3. job'[n] = NoJob /\ job[n] # NoJob /\ \A i \in Runners : i # n => job'[i] = job[i]
  BY <1>1, FinishReconcileDoes
<1>4. job[n].op = "orphans" /\ UNCHANGED <<row, svc, up, disturbed>>
  BY DEF FinishReconcile
<1>5. /\ Alone' /\ \A i \in Runners : job'[i] # NoJob => ~ job'[i].clean
      /\ Busy' = {} => Busy = {n}
  BY <1>1, <1>2, <1>3, <1>4, AloneEnds
<1>6. ASSUME ~ disturbed' PROVE Settled'
  <2>1. PICK g : g = job[n]
    OBVIOUS
  <2>2. g.clean
    BY <1>1, <1>2, <1>3, <1>4, <1>6, <2>1, AloneSays
  <2>3. Knows(n, g)
    BY <1>2, <1>3, <2>1, <2>2, Known
  <2>4. Settled
    BY <1>4, <1>6, <2>1, <2>3 DEF Knows, Steady, RecOps
  <2>5. QED
    BY <1>4, <2>4, SettledStays
<1>7. \A i \in Runners : \A f : f = job'[i] /\ f # NoJob /\ f.clean => Knows(i, f)'
  BY <1>5
<1>8. QED
  BY <1>1, <1>4, <1>5, <1>6, <1>7, Reached

-----------------------------------------------------------------------------
(* The invariant: goroutines end.                                          *)

LEMMA SettledNext ==
    ASSUME NEW t
    PROVE  /\ row'.status = "active" /\ row'.target = t /\ (\A s \in Names : Serving(s, t)')
                 => Settled'
           /\ row'.status = "paused" /\ row'.target = t
                 /\ (\A s \in Names : IF s \in Chain THEN Serving(s, t)' ELSE Resting(s, t)')
                 => Settled'
           /\ row' = Gone /\ (\A s \in Names : svc'[s] = Nothing) => Settled'
<1>1. ASSUME row'.status = "active", row'.target = t, \A s \in Names : Serving(s, t)'
      PROVE  Settled'
  <2>1. AllServe(t)'
    BY <1>1, Runners0 DEF AllServe
  <2>2. AllServe(row.target)'
    BY <1>1, <2>1 DEF AllServe, Serving, Told
  <2>3. QED
    BY <1>1, <2>2 DEF Settled, Exists
<1>2. ASSUME row'.status = "paused", row'.target = t,
             \A s \in Names : IF s \in Chain THEN Serving(s, t)' ELSE Resting(s, t)'
      PROVE  Settled'
  <2>1. AllRest(t)'
    BY <1>2, Runners0, Parameters DEF AllRest
  <2>2. AllRest(row.target)'
    BY <1>2, <2>1 DEF AllRest, Serving, Resting, Told
  <2>3. QED
    BY <1>2, <2>2 DEF Settled, Exists
<1>3. ASSUME row' = Gone, \A s \in Names : svc'[s] = Nothing PROVE Settled'
  BY <1>3, Runners0, Parameters DEF Settled, Exists, Gone
<1>4. QED
  BY <1>1, <1>2, <1>3

\* What is done when a plan has nothing left.
LEMMA AllBuilt ==
    ASSUME NEW k \in 0..Len(BuildOrder), Rest(Adds("create"), k) = <<>>, NEW t, Built(t, k)
    PROVE  \A s \in Names : Serving(s, t)
<1>1. PICK c, m : c = "add" /\ m = "create"
  OBVIOUS
<1>2. /\ c \in Cmds /\ m \in Modes /\ OrderOK(BuildOrder)
      /\ Past(BuildOrder, Len(BuildOrder)) = Names
  BY <1>1, Orders DEF Cmds, Modes
<1>3. Rest(Steps(c, BuildOrder, m), k) = <<>>
  BY <1>1 DEF Adds
<1>4. k = Len(BuildOrder)
  BY <1>2, <1>3, AtEnd
<1>5. QED
  BY <1>2, <1>4 DEF Built

LEMMA AllRenewed ==
    ASSUME NEW g, g.op = "rebuild", ~ g.failed, g.plan = <<>>, Rebuilding(g)
    PROVE  /\ Exists /\ \A s \in Names : Renewed(s, g.new)
           /\ ~ disturbed => \A s \in Names : Serving(s, g.new)
<1>1. PICK k \in 0..Len(BuildOrder) :
              /\ \A s \in Past(BuildOrder, k) : Renewed(s, g.new)
              /\ \/ g.plan = Rest(SyncPlan, k)
                 \/ /\ k < Len(BuildOrder)
                    /\ g.plan = <<Step("add", BuildOrder[k + 1], "sync")>> \o Rest(SyncPlan, k + 1)
              /\ ~ disturbed =>
                    \A s \in Names : IF s \in Past(BuildOrder, k) THEN Serving(s, g.new)
                                     ELSE svc[s].reg # "absent"
  BY DEF Rebuilding
<1>2. PICK c, m : c = "update" /\ m = "sync"
  OBVIOUS
<1>3. /\ c \in Cmds /\ m \in Modes /\ OrderOK(BuildOrder)
      /\ Past(BuildOrder, Len(BuildOrder)) = Names
  BY <1>2, Orders DEF Cmds, Modes
<1>4. PICK S, y, q : /\ S = [cmd : Cmds, names : Parts, mode : Modes]
                     /\ y = Step("add", BuildOrder[k + 1], "sync")
                     /\ q = Rest(SyncPlan, k + 1)
  OBVIOUS
<1>5. ASSUME k < Len(BuildOrder) PROVE <<y>> \o q # <<>>
  <2>1. k + 1 \in 0..Len(BuildOrder) /\ BuildOrder[k + 1] \in Parts
    BY <1>3, <1>5, PastGrows
  <2>2. y \in S
    BY <1>4, <2>1 DEF Step, Cmds, Modes
  <2>3. q \in Seq(S)
    BY <1>2, <1>3, <1>4, <2>1, AtEnd DEF SyncPlan
  <2>4. QED
    BY <2>2, <2>3, InFront
<1>6. Rest(SyncPlan, k) = <<>>
  BY <1>1, <1>4, <1>5
<1>7. Rest(Steps(c, BuildOrder, m), k) = <<>>
  BY <1>2, <1>6 DEF SyncPlan
<1>8. k = Len(BuildOrder)
  BY <1>3, <1>7, AtEnd
<1>9. Exists
  BY DEF Rebuilding
<1>10. QED
  BY <1>1, <1>3, <1>8, <1>9

LEMMA AllEmptied ==
    ASSUME NEW m \in Modes, NEW k \in 0..Len(RemoveOrder), Rest(Deletes(m), k) = <<>>, Emptied(k)
    PROVE  \A s \in Names : svc[s] = Nothing
<1>1. PICK c : c = "delete"
  OBVIOUS
<1>2. c \in Cmds /\ OrderOK(RemoveOrder) /\ Past(RemoveOrder, Len(RemoveOrder)) = Names
  BY <1>1, Orders DEF Cmds
<1>3. Rest(Steps(c, RemoveOrder, m), k) = <<>>
  BY <1>1 DEF Deletes
<1>4. k = Len(RemoveOrder)
  BY <1>2, <1>3, AtEnd
<1>5. QED
  BY <1>2, <1>4 DEF Emptied

\* The row, as the operation leaves it.
LEMMA RowEnds ==
    ASSUME NEW g, RowAfter(g.op, g), ~ g.failed, Exists
    PROVE  /\ g.op \in Edits => row'.status = "active" /\ row'.target = g.new
           /\ g.op \in {"create", "respeed"} => UNCHANGED row
           /\ g.op \in {"delete", "force"} => row' = Gone
           /\ g.op \in {"pause", "limit"} => row'.status = "paused" /\ row'.target = row.target
           /\ g.op = "resume" => row'.status = "active" /\ row'.target = row.target
<1>1. ASSUME g.op \in Edits PROVE row'.status = "active" /\ row'.target = g.new
  BY <1>1 DEF RowAfter, Edits, SetRow
<1>2. ASSUME g.op \in {"create", "respeed"} PROVE UNCHANGED row
  BY <1>2 DEF RowAfter, Edits
<1>3. ASSUME g.op \in {"delete", "force"} PROVE row' = Gone
  BY <1>3 DEF RowAfter, Edits
<1>4. ASSUME g.op \in {"pause", "limit"}
      PROVE  row'.status = "paused" /\ row'.target = row.target
  BY <1>4 DEF RowAfter, Edits, SetRow
<1>5. ASSUME g.op = "resume" PROVE row'.status = "active" /\ row'.target = row.target
  BY <1>5 DEF RowAfter, Edits, SetRow
<1>6. QED
  BY <1>1, <1>2, <1>3, <1>4, <1>5

LEMMA SteadyEnds ==
    ASSUME Types, ~ disturbed, NEW g, g.op \in AllOps, g.plan = <<>>, Steady(g), Rebuilding(g),
           RowAfter(g.op, g), UNCHANGED svc
    PROVE  Settled'
<1>1. ~ g.failed /\ g.op # "report"
  BY DEF Steady
<1>2. \A s \in Names : \A t : /\ Serving(s, t) => Serving(s, t)'
                              /\ Resting(s, t) => Resting(s, t)'
  BY Primed
<1>3. CASE g.op = "create"
  <2>1. Creating(g)
    BY <1>3 DEF Steady
  <2>2. PICK k \in 0..Len(BuildOrder) : g.plan = Rest(Adds("create"), k) /\ Built(g.new, k)
    BY <2>1 DEF Creating
  <2>3. PICK t : t = g.new
    OBVIOUS
  <2>4. \A s \in Names : Serving(s, t)
    BY <2>2, <2>3, AllBuilt
  <2>5. row.status = "active" /\ row.target = t
    BY <2>1, <2>3 DEF Creating
  <2>6. UNCHANGED row
    BY <1>1, <1>3, <2>5, RowEnds DEF Exists
  <2>7. \A s \in Names : Serving(s, t)'
    BY <1>2, <2>4
  <2>8. QED
    BY <2>5, <2>6, <2>7, SettledNext
<1>4. CASE g.op \in Edits
  <2>1. Exists /\ \A s \in Names : Serving(s, g.new)
    <3>1. CASE g.op = "rename"
      BY <3>1 DEF Steady, Renaming, AllServe, Exists
    <3>2. CASE g.op = "hot"
      <4>1. g.plan # <<Step("forwarder", Forwarding, "hot")>>
        OBVIOUS
      <4>2. QED
        BY <3>2, <4>1 DEF Steady, Retargeting, AllServe, Exists
    <3>3. CASE g.op = "rebuild"
      BY <1>1, <3>3, AllRenewed
    <3>4. CASE g.op = "relisten"
      <4>1. Relistening(g)
        BY <3>4 DEF Steady
      <4>2. ASSUME NEW k \in 0..Len(RemoveOrder),
                   g.plan = Rest(Deletes("best"), k) \o Adds("create")
            PROVE  FALSE
        <5>1. PICK c, m, a, n : c = "delete" /\ m = "best" /\ a = "add" /\ n = "create"
          OBVIOUS
        <5>2. /\ c \in Cmds /\ m \in Modes /\ a \in Cmds /\ n \in Modes
              /\ OrderOK(RemoveOrder) /\ OrderOK(BuildOrder) /\ Len(BuildOrder) # 0
          BY <5>1, Orders DEF Cmds, Modes
        <5>3. PICK p, q : p = Rest(Deletes("best"), k) /\ q = Adds("create")
          OBVIOUS
        <5>4. PICK S : S = [cmd : Cmds, names : Parts, mode : Modes]
          OBVIOUS
        <5>5. p \in Seq(S)
          BY <5>1, <5>2, <5>3, <5>4, AtEnd DEF Deletes
        <5>6. q \in Seq(S) /\ Len(q) = Len(BuildOrder)
          BY <5>1, <5>2, <5>3, <5>4, StepsSeq DEF Adds
        <5>7. q # <<>>
          BY <5>2, <5>6
        <5>8. p \o q # <<>>
          BY <5>5, <5>6, <5>7, Joined
        <5>9. QED
          BY <4>2, <5>3, <5>8
      <4>3. PICK k \in 0..Len(BuildOrder) : g.plan = Rest(Adds("create"), k) /\ Built(g.new, k)
        BY <4>1, <4>2 DEF Relistening
      <4>4. PICK t : t = g.new
        OBVIOUS
      <4>5. \A s \in Names : Serving(s, t)
        BY <4>3, <4>4, AllBuilt
      <4>6. QED
        BY <4>1, <4>4, <4>5 DEF Relistening
    <3>5. QED
      BY <1>4, <3>1, <3>2, <3>3, <3>4 DEF Edits
  <2>2. PICK t : t = g.new
    OBVIOUS
  <2>3. row'.status = "active" /\ row'.target = t
    BY <1>1, <1>4, <2>1, <2>2, RowEnds
  <2>4. \A s \in Names : Serving(s, t)'
    BY <1>2, <2>1, <2>2
  <2>5. QED
    BY <2>3, <2>4, SettledNext
<1>5. CASE g.op = "respeed"
  <2>1. row.status = "active" /\ \A s \in Names : Serving(s, row.target)
    BY <1>5 DEF Steady, Respeeding, AllServe
  <2>2. UNCHANGED row
    BY <1>1, <1>5, <2>1, RowEnds DEF Exists
  <2>3. PICK t : t = row.target
    OBVIOUS
  <2>4. row'.status = "active" /\ row'.target = t /\ \A s \in Names : Serving(s, t)'
    BY <1>2, <2>1, <2>2, <2>3
  <2>5. QED
    BY <2>4, SettledNext
<1>6. CASE g.op \in {"delete", "force"}
  <2>1. PICK m \in Modes : m = IF g.op = "delete" THEN "delete" ELSE "best"
    BY DEF Modes
  <2>2. PICK k \in 0..Len(RemoveOrder) : g.plan = Rest(Deletes(m), k) /\ Emptied(k)
    BY <1>6, <2>1 DEF Steady, Removing
  <2>3. \A s \in Names : svc[s] = Nothing
    BY <2>2, AllEmptied
  <2>4. Exists
    BY <1>6 DEF Steady, Removing
  <2>5. row' = Gone
    BY <1>1, <1>6, <2>4, RowEnds
  <2>6. \A s \in Names : svc'[s] = Nothing
    BY <2>3
  <2>7. QED
    BY <2>5, <2>6, SettledNext
<1>7. CASE g.op \in {"pause", "resume", "limit"}
  <2>1. Switching(g) /\ Exists
    BY <1>7 DEF Steady, Switching, Exists
  <2>2. OrderOK(SwitchOrder) /\ Past(SwitchOrder, Len(SwitchOrder)) = Names \ Chain
    BY Orders
  <2>3. PICK t : t = row.target
    OBVIOUS
  <2>4. \A s \in Names : Either(s, t)
    BY <2>1, <2>3 DEF Switching
  <2>5. CASE g.op = "resume"
    <3>1. PICK k \in 0..Len(SwitchOrder) :
             /\ g.plan = Rest(Steps("resume", SwitchOrder, "must"), k)
             /\ \A s \in Past(SwitchOrder, k) : Serving(s, row.target)
      BY <2>1, <2>5 DEF Switching
    <3>2. PICK c, m : c = "resume" /\ m = "must"
      OBVIOUS
    <3>3. c \in Cmds /\ m \in Modes /\ Rest(Steps(c, SwitchOrder, m), k) = <<>>
      BY <3>1, <3>2 DEF Cmds, Modes
    <3>4. k = Len(SwitchOrder)
      BY <2>2, <3>3, AtEnd
    <3>5. \A s \in Names : Serving(s, t)
      BY <2>2, <2>3, <2>4, <3>1, <3>4 DEF Either
    <3>6. row'.status = "active" /\ row'.target = t
      BY <1>1, <2>1, <2>3, <2>5, RowEnds
    <3>7. \A s \in Names : Serving(s, t)'
      BY <1>2, <3>5
    <3>8. QED
      BY <3>6, <3>7, SettledNext
  <2>6. CASE g.op \in {"pause", "limit"}
    <3>1. PICK m \in Modes : m = IF g.op = "pause" THEN "must" ELSE "best"
      BY DEF Modes
    <3>2. PICK k \in 0..Len(SwitchOrder) :
             /\ g.plan = Rest(Steps("pause", SwitchOrder, m), k)
             /\ \A s \in Past(SwitchOrder, k) : Resting(s, row.target)
      BY <2>1, <2>6, <3>1 DEF Switching
    <3>3. PICK c : c = "pause"
      OBVIOUS
    <3>4. c \in Cmds /\ Rest(Steps(c, SwitchOrder, m), k) = <<>>
      BY <3>2, <3>3 DEF Cmds
    <3>5. k = Len(SwitchOrder)
      BY <2>2, <3>4, AtEnd
    <3>6. \A s \in Names : IF s \in Chain THEN Serving(s, t) ELSE Resting(s, t)
      BY <2>2, <2>3, <2>4, <3>2, <3>5 DEF Either
    <3>7. row'.status = "paused" /\ row'.target = t
      BY <1>1, <2>1, <2>3, <2>6, RowEnds
    <3>8. \A s \in Names : IF s \in Chain THEN Serving(s, t)' ELSE Resting(s, t)'
      BY <1>2, <3>6
    <3>9. QED
      BY <3>7, <3>8, SettledNext
  <2>7. QED
    BY <1>7, <2>5, <2>6
<1>8. QED
  BY <1>1, <1>3, <1>4, <1>5, <1>6, <1>7 DEF AllOps, Edits

LEMMA FinishJobKeeps ==
    ASSUME IInv, NEW j \in Jobs, FinishJob(j), Types'
    PROVE  IInv'
<1>1. Types /\ Alone /\ (~ disturbed => up = Nodes)
  BY Known
<1>2. j \in Runners
  BY DEF Runners
<1>3. job'[j] = NoJob /\ job[j] # NoJob /\ \A i \in Runners : i # j => job'[i] = job[i]
  BY <1>1, FinishJobDoes
<1>4. PICK g : g = job[j]
  OBVIOUS
<1>5. /\ g.op \in AllOps /\ g.plan = <<>> /\ RowAfter(g.op, g)
      /\ disturbed' = (disturbed /\ ~ Repairs(g.op, g))
      /\ UNCHANGED <<svc, up>>
  BY <1>4 DEF FinishJob
<1>6. disturbed /\ ~ disturbed' => Repairs(g.op, g)
  BY <1>5
<1>7. disturbed => disturbed' \/ job[j].clean
  BY <1>4, <1>6 DEF Repairs
<1>8. /\ Alone' /\ \A i \in Runners : job'[i] # NoJob => ~ job'[i].clean
      /\ Busy' = {} => Busy = {j}
  BY <1>1, <1>2, <1>3, <1>7, AloneEnds
<1>9. ASSUME ~ disturbed' PROVE Settled' /\ up' = Nodes
  <2>1. g.clean
    BY <1>1, <1>2, <1>3, <1>4, <1>7, <1>9, AloneSays
  <2>2. Knows(j, g)
    BY <1>2, <1>3, <1>4, <2>1, Known
  <2>3. CASE disturbed
    <3>1. g.op = "rebuild" /\ ~ g.failed /\ \A s \in Names : ~ svc[s].twice
      BY <1>6, <1>9, <2>3 DEF Repairs
    <3>2. Exists /\ \A s \in Names : Renewed(s, g.new)
      BY <1>5, <2>2, <3>1, AllRenewed DEF Knows
    <3>3. PICK t : t = g.new
      OBVIOUS
    <3>4. \A s \in Names : Renewed(s, t)
      BY <3>2, <3>3
    <3>5. up' = Nodes
      BY <1>1, <1>5, <3>4, RenewedUp
    <3>6. row'.status = "active" /\ row'.target = t
      BY <1>5, <3>1, <3>2, <3>3, RowEnds DEF Edits
    <3>7. ASSUME NEW s \in Names PROVE Serving(s, t)'
      <4>1. svc[s].reg = "open" /\ (s \in Forwarding => svc[s].target = t /\ svc[s].kept = t)
        BY <3>1, <3>4 DEF Renewed
      <4>2. QED
        BY <1>5, <4>1, Primed
    <3>8. Settled'
      BY <3>6, <3>7, SettledNext
    <3>9. QED
      BY <3>5, <3>8
  <2>4. CASE ~ disturbed
    <3>1. Steady(g) /\ Rebuilding(g)
      BY <2>2, <2>4 DEF Knows
    <3>2. Settled'
      BY <1>1, <1>5, <2>4, <3>1, SteadyEnds
    <3>3. QED
      BY <1>1, <1>5, <2>4, <3>2
  <2>5. QED
    BY <2>3, <2>4
<1>10. \A i \in Runners : \A f : f = job'[i] /\ f # NoJob /\ f.clean => Knows(i, f)'
  BY <1>8
<1>11. QED
  BY <1>8, <1>9, <1>10, Reached

-----------------------------------------------------------------------------
(* The invariant: every step, and what follows.                            *)

LEMMA InitReached == Init => IInv
<1> SUFFICES ASSUME Init PROVE IInv
  OBVIOUS
<1>1. Types
  BY InitTypes
<1>2. \A j \in Runners : job[j] = NoJob
  BY DEF Init
<1>3. CleanAlone /\ Blamed /\ Understood
  BY <1>2 DEF CleanAlone, Blamed, Understood
<1>4. AllUp
  BY DEF Init, AllUp
<1>5. AtRest
  <2>1. row = Unborn /\ \A s \in Names : svc[s] = Nothing
    BY DEF Init
  <2>2. QED
    BY <2>1 DEF AtRest, Settled, Exists, Unborn
<1>6. QED
  BY <1>1, <1>3, <1>4, <1>5 DEF IInv

LEMMA NextReached == IInv /\ [Next]_vars => IInv'
<1> SUFFICES ASSUME IInv, [Next]_vars PROVE IInv'
  OBVIOUS
<1>1. Types'
  BY Known, NextTypes
<1>2. ASSUME NEW j \in Jobs, NEW op \in Ops, NEW t \in Targets, StartJob(j, op, t) PROVE IInv'
  BY <1>1, <1>2, StartJobKeeps
<1>3. ASSUME NEW j \in Jobs, FinishJob(j) PROVE IInv'
  BY <1>1, <1>3, FinishJobKeeps
<1>4. ASSUME NEW j \in Runners, Command(j) PROVE IInv'
  <2>1. Types
    BY Known
  <2>2. \/ \E g, x, d, h : Reply(j, g, x, d, h)
        \/ Failing(j)
    BY <1>4, <2>1, Sends
  <2>3. QED
    BY <1>1, <2>2, ReplyKeeps, FailingKeeps
<1>5. ASSUME NEW n \in Nodes, Reporting(n) PROVE IInv'
  BY <1>1, <1>5, StartReportKeeps DEF Reporting
<1>6. ASSUME NEW n \in Nodes, ExecuteLate(n) \/ NodeCrash(n) PROVE IInv'
  <2>1. job' = Overlapped /\ disturbed'
    BY <1>6 DEF ExecuteLate, NodeCrash
  <2>2. QED
    BY <1>1, <2>1, OverlappedKeeps
<1>7. ASSUME NEW n \in Nodes, StartReconcile(n) PROVE IInv'
  BY <1>1, <1>7, StartReconcileKeeps
<1>8. ASSUME NEW n \in Nodes, Reconciling(n) PROVE IInv'
  BY <1>1, <1>8, FinishSyncKeeps, FinishRepauseKeeps, FinishReconcileKeeps DEF Reconciling
<1>9. ASSUME NEW n \in Nodes, NodeBoot(n) PROVE IInv'
  BY <1>1, <1>9, BootKeeps
<1>10. ASSUME NEW n \in Nodes, Disconnect(n) \/ Connect(n) PROVE IInv'
  <2>1. UNCHANGED <<row, svc, up, job, disturbed>>
    BY <1>10 DEF Disconnect, Connect
  <2>2. QED
    BY <1>1, <2>1, StillKeeps
<1>11. CASE UNCHANGED vars
  <2>1. UNCHANGED <<row, svc, up, job, disturbed>>
    BY <1>11 DEF vars
  <2>2. QED
    BY <1>1, <2>1, StillKeeps
<1>12. QED
  BY <1>2, <1>3, <1>4, <1>5, <1>6, <1>7, <1>8, <1>9, <1>10, <1>11 DEF Next

\* A settled forward is as its row says.
LEMMA SettledAgrees == Types /\ Settled => Agree
<1> SUFFICES ASSUME Types, Settled PROVE Agree
  OBVIOUS
<1>1. row.status \in {"unborn", "gone", "active", "paused"} /\ Forwarding \subseteq Names
  BY SettledSays, Places
<1>2. CASE row.status = "active"
  BY <1>1, <1>2 DEF Settled, Agree, AllServe, Serving, Told, Runs, Forwards
<1>3. CASE row.status = "paused"
  <2>1. AllRest(row.target)
    BY <1>3 DEF Settled
  <2>2. \A s \in Names : IF s \in Chain THEN svc[s].reg = "open" ELSE svc[s].reg = "closed"
    BY <2>1 DEF AllRest, Serving, Resting
  <2>3. Names \subseteq Registered
    BY <2>2 DEF Registered
  <2>4. Rests((Main \cup Remote) \cap Names)
    <3>1. \A s \in Main \cup Remote : s \notin Chain
      BY DEF Main, Remote, Chain
    <3>2. QED
      BY <2>2, <3>1 DEF Rests
  <2>5. Forwards(row.target)
    BY <1>1, <2>1 DEF AllRest, Serving, Resting, Told, Forwards
  <2>6. QED
    BY <1>3, <2>3, <2>4, <2>5 DEF Agree
<1>4. CASE row.status \in {"unborn", "gone"}
  <2>1. \A s \in Names : svc[s] = Nothing
    BY <1>4 DEF Settled, Exists
  <2>2. Registered = {}
    BY <2>1 DEF Registered, Nothing
  <2>3. QED
    BY <1>4, <2>2 DEF Agree
<1>5. QED
  BY <1>1, <1>2, <1>3, <1>4

LEMMA ReachedAgrees == IInv => UndisturbedAgree
BY SettledAgrees DEF IInv, AtRest, UndisturbedAgree

LEMMA ReachedRestores == IInv => ReconcileRestores
<1> SUFFICES ASSUME IInv, NEW n \in Nodes, Reconciled(n), Exists
             PROVE  /\ HalfPair \/ Main \subseteq Registered
                    /\ Names \ Main \subseteq Registered
                    /\ Forwards(row.target)
                    /\ row.status # "error"
                    /\ row.status = "paused" /\ ~ HalfPair => Rests(On(n) \ Chain)
  BY DEF ReconcileRestores
<1>1. PICK g : g = job[n]
  OBVIOUS
<1>2. g.op = "orphans" /\ g.clean /\ ~ g.failed
  BY <1>1 DEF Reconciled
<1>3. g # NoJob /\ n \in Runners
  BY <1>2 DEF NoJob, Runners
<1>4. Knows(n, g)
  BY <1>1, <1>2, <1>3, Known
<1>5. row.status # "error" /\ AllMended(row.target) /\ Paused(n)
  BY <1>2, <1>4 DEF Knows, Restoring
<1>6. PICK t : t = row.target
  OBVIOUS
<1>7. /\ Mended(Forwarding, t) /\ Names \ Main \subseteq Registered
      /\ HalfPair \/ Main \subseteq Registered
  BY <1>5, <1>6, MendedRegistered
<1>8. Forwards(row.target)
  BY <1>6, <1>7 DEF Mended, Forwards
<1>9. QED
  BY <1>5, <1>7, <1>8 DEF Paused

-----------------------------------------------------------------------------
(* The theorems.                                                           *)

\* Every variable has its type, whatever commands, goroutines and nodes do.
THEOREM TypeCorrect == Safe => []TypeOK
<1>1. Safe => []Types
  BY InitTypes, NextTypes, PTL DEF Safe
<1>2. QED
  BY <1>1, Sorted, PTL

\* Requests that do not overlap, on nodes that answer, leave services and row in agreement;
\* a rebuild that succeeds undisturbed makes them agree again, whatever came before
\* (forward.go:1129-1166).
THEOREM RowsAgree == Safe => []UndisturbedAgree
<1>1. Safe => []IInv
  BY InitReached, NextReached, PTL DEF Safe
<1>2. QED
  BY <1>1, ReachedAgrees, PTL

\* A reconcile that met no failure and was not overlapped has brought back every service and
\* chain of the forward, a tunnel's half pair alone excepted, with its content, and paused
\* what is paused (reconcile.go:155-196, 204-255).
THEOREM ReconcileGives == Safe => []ReconcileRestores
<1>1. Safe => []IInv
  BY InitReached, NextReached, PTL DEF Safe
<1>2. QED
  BY <1>1, ReachedRestores, PTL
=============================================================================

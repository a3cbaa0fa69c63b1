-------------------------- MODULE PortAllocProofs --------------------------
(***************************************************************************)
(* Proofs about PortAlloc: types, that only requests that overlap give a   *)
(* port twice, and that relay ports are on the hops of the route.          *)
(***************************************************************************)
EXTENDS PortAlloc, TLAPS

LEMMA PortNat == Port \subseteq Nat \ {0}
BY PortAssumption DEF Port

LEMMA NoJobType == NoJob \in Request /\ Directed(NoJob)
BY DEF NoJob, Request, NoPort, Directed

LEMMA OverType == ASSUME NEW t \in Tunnels 
    PROVE  Over(t) \in Request /\ Over(t).entry \in Nodes
<1>1. InNode[t] \in Nodes
  BY PortAssumption
<1>. QED
  BY <1>1, NoJobType DEF Over, Request, NoJob

LEMMA AlongType ==
    ASSUME TypeOK, NEW r \in Routes, hops[r] # <<>>
    PROVE  Along(r) \in Request /\ Along(r).entry \in Nodes
<1>1. hops[r] \in Seq(Nodes)
  BY DEF TypeOK
<1>2. Head(hops[r]) \in Nodes /\ Tail(hops[r]) \in Seq(Nodes)
  BY <1>1
<1>. QED
  BY <1>2 DEF Along, NoJob, Request, NoPort

LEMMA FreeType == ASSUME NEW n \in Nodes, NEW f PROVE Free(n, f) \subseteq Port
BY PortAssumption DEF Free, Port

\* A step that only begins or ends a request.
LEMMA JobType ==
    ASSUME TypeOK, NEW j \in Jobs, NEW new \in Request, Directed(new),
           job' = [job EXCEPT ![j] = new], UNCHANGED <<row, relays, hops, raced>>
    PROVE  TypeOK'
BY DEF TypeOK, Directed

LEMMA BeginsType ==
    ASSUME TypeOK, NEW j \in Jobs, NEW ask \in Asks,
           \/ BeginCreate(j, ask)
           \/ \E f \in Forwards : BeginUpdate(j, f, ask) \/ BeginReroute(j, f, ask)
    PROVE  TypeOK'
<1>a. ask \in Nat
  BY PortAssumption
<1>r. \A f \in Forwards : row[f] \in Row
  BY DEF TypeOK
<1>1. CASE BeginCreate(j, ask)
  <2>1. CASE \E t \in Tunnels : Begin(j, [Over(t) EXCEPT !.op = "create", !.ask = ask])
    <3>1. PICK t \in Tunnels : Begin(j, [Over(t) EXCEPT !.op = "create", !.ask = ask])
      BY <2>1
    <3>2. /\ [Over(t) EXCEPT !.op = "create", !.ask = ask] \in Request
          /\ Directed([Over(t) EXCEPT !.op = "create", !.ask = ask])
      BY <1>a, OverType DEF Request, Directed, Over, NoJob
    <3>. QED  BY <3>1, <3>2, JobType DEF Begin
  <2>2. CASE \E r \in Routes : /\ hops[r] # <<>>
                               /\ Begin(j, [Along(r) EXCEPT !.op = "create", !.ask = ask])
    <3>1. PICK r \in Routes : /\ hops[r] # <<>>
                              /\ Begin(j, [Along(r) EXCEPT !.op = "create", !.ask = ask])
      BY <2>2
    <3>2. /\ [Along(r) EXCEPT !.op = "create", !.ask = ask] \in Request
          /\ Directed([Along(r) EXCEPT !.op = "create", !.ask = ask])
      BY <1>a, <3>1, AlongType DEF Request, Directed, Along, NoJob
    <3>. QED  BY <3>1, <3>2, JobType DEF Begin
  <2>. QED  BY <1>1, <2>1, <2>2 DEF BeginCreate
<1>2. ASSUME NEW f \in Forwards, BeginUpdate(j, f, ask) PROVE TypeOK'
  <2>1. PICK t \in Tunnels :
         IF t # row[f].tunnel \/ ask \notin {NoPort, row[f].in}
         THEN Begin(j, [Over(t) EXCEPT !.op = "update", !.fwd = f, !.ask = ask])
         ELSE Begin(j, [Over(t) EXCEPT !.op = "keep", !.fwd = f,
                                       !.in = row[f].in, !.out = row[f].out])
    BY <1>2 DEF BeginUpdate
  <2>2. /\ [Over(t) EXCEPT !.op = "update", !.fwd = f, !.ask = ask] \in Request
        /\ Directed([Over(t) EXCEPT !.op = "update", !.fwd = f, !.ask = ask])
    BY <1>a, OverType DEF Request, Directed, Over, NoJob
  <2>3. /\ [Over(t) EXCEPT !.op = "keep", !.fwd = f,
                        !.in = row[f].in, !.out = row[f].out] \in Request
        /\ Directed([Over(t) EXCEPT !.op = "keep", !.fwd = f,
                        !.in = row[f].in, !.out = row[f].out])
    BY <1>r, OverType DEF Request, Row, Directed, Over, NoJob
  <2>. QED  BY <2>1, <2>2, <2>3, JobType DEF Begin
<1>3. ASSUME NEW f \in Forwards, BeginReroute(j, f, ask) PROVE TypeOK'
  <2>. DEFINE want == IF ask = NoPort THEN row[f].in ELSE ask
  <2>0. want \in Nat
    BY <1>a, <1>r DEF Row
  <2>. HIDE DEF want
  <2>1. PICK r \in Routes : /\ hops[r] # <<>>
          /\ Begin(j, [Along(r) EXCEPT !.op = "update", !.fwd = f, !.ask = want])
    BY <1>3 DEF BeginReroute, want
  <2>2. /\ [Along(r) EXCEPT !.op = "update", !.fwd = f, !.ask = want] \in Request
        /\ Directed([Along(r) EXCEPT !.op = "update", !.fwd = f, !.ask = want])
    BY <2>0, <2>1, AlongType DEF Request, Directed, Along, NoJob
  <2>. QED  BY <2>1, <2>2, JobType DEF Begin
<1>. QED
  BY <1>1, <1>2, <1>3

LEMMA ChoicesType ==
    ASSUME TypeOK, NEW j \in Jobs, ChooseEntry(j) \/ ChooseOut(j) \/ ChooseRelay(j)
    PROVE  TypeOK'
<1>j. job[j] \in Request
  BY DEF TypeOK
<1>e. CASE job' = [job EXCEPT ![j] = NoJob] /\ UNCHANGED <<row, relays, hops, raced>>
  BY <1>e, NoJobType, JobType
<1>1. CASE ChooseEntry(j)
  <2>1. CASE End(j)
    BY <1>1, <1>e, <2>1 DEF ChooseEntry, End
  <2>2. CASE ~ End(j)
    <3>0. job[j].entry \in Nodes
      BY <1>1 DEF ChooseEntry, TypeOK, Directed
    <3>a. PICK p \in Free(job[j].entry, job[j].fwd) :
                 job' = [job EXCEPT ![j].in = p, ![j].ask = NoPort]
      BY <1>1, <2>2 DEF ChooseEntry, Lowest
    <3>1. p \in Nat
      BY <3>0, <3>a, FreeType, PortNat
    <3>. QED
      BY <1>1, <1>j, <3>a, <3>1 DEF ChooseEntry, TypeOK, Request, NoPort, Directed
  <2>. QED  BY <2>1, <2>2
<1>2. CASE ChooseOut(j)
  <2>1. CASE End(j)
    BY <1>2, <1>e, <2>1 DEF ChooseOut, End
  <2>2. CASE ~ End(j)
    <3>0. OutNode[job[j].tunnel] \in Nodes
      BY <1>2, <1>j, PortAssumption DEF ChooseOut, Request
    <3>a. PICK p \in Lowest(Free(OutNode[job[j].tunnel], job[j].fwd)) :
                 job' = [job EXCEPT ![j].out = p]
      BY <1>2, <2>2 DEF ChooseOut
    <3>1. p \in Nat
      BY <3>0, <3>a, FreeType, PortNat DEF Lowest
    <3>. QED
      BY <1>2, <1>j, <3>a, <3>1 DEF ChooseOut, TypeOK, Request, Directed
  <2>. QED  BY <2>1, <2>2
<1>3. CASE ChooseRelay(j)
  <2>1. CASE End(j)
    BY <1>3, <1>e, <2>1 DEF ChooseRelay, End
  <2>2. CASE ~ End(j)
    <3>. DEFINE n == Head(job[j].rest)
    <3>a. job[j].rest \in Seq(Nodes) /\ job[j].rest # <<>>
      BY <1>3, <1>j DEF ChooseRelay, Request
    <3>0. n \in Nodes /\ Tail(job[j].rest) \in Seq(Nodes)
      BY <3>a
    <3>1. PICK p \in Lowest(Free(n, job[j].fwd)) :
                  job' = [job EXCEPT ![j].out = p, ![j].rest = Tail(job[j].rest),
                                     ![j].relays = job[j].relays \cup {<<n, p>>}]
      BY <1>3, <2>2 DEF ChooseRelay
    <3>2. p \in Nat /\ p \in Port
      BY <3>0, <3>1, PortAssumption, FreeType DEF Lowest, Free, Port
    <3>3. <<n, p>> \in Pairs
      BY <3>0, <3>2 DEF Pairs
    <3>. DEFINE t == Tail(job[j].rest)
                s == job[j].relays \cup {<<n, p>>}
                new == [job[j] EXCEPT !.out = p, !.rest = t, !.relays = s]
    <3>4. job' = [job EXCEPT ![j] = new] /\ UNCHANGED <<row, relays, hops, raced>>
      BY <1>3, <3>1 DEF ChooseRelay
    <3>5. s \in SUBSET Pairs
      BY <1>j, <3>3 DEF Request
    <3>. HIDE DEF n, s, t
    <3>6. new \in Request
      <4>1. t \in Seq(Nodes)
        BY <3>0 DEF t
      <4>. QED
        BY <1>j, <3>2, <3>5, <4>1 DEF Request
    <3>7. /\ new.op = job[j].op /\ new.fwd = job[j].fwd
          /\ new.entry = job[j].entry /\ new.route = job[j].route
      BY <1>j DEF Request
    <3>. HIDE DEF new
    <3>8. Directed(new)
      <4>1. Directed(job[j])
        BY DEF TypeOK
      <4>. QED
        BY <3>7, <4>1 DEF Directed
    <3>. QED
      BY <3>4, <3>6, <3>8, JobType
  <2>. QED  BY <2>1, <2>2
<1>. QED
  BY <1>1, <1>2, <1>3

\* What saving does to the requests.
LEMMA SavedType ==
    ASSUME TypeOK, NEW j \in Jobs, Saved(j)
    PROVE  job' \in [Jobs -> Request] /\ \A i \in Jobs : Directed(job'[i])
<1>1. ASSUME NEW i \in Jobs
      PROVE  /\ [job[i] EXCEPT !.clean = FALSE] \in Request
             /\ Directed([job[i] EXCEPT !.clean = FALSE])
  <2>1. job[i] \in Request /\ Directed(job[i])
    BY DEF TypeOK
  <2>2. [job[i] EXCEPT !.clean = FALSE] \in Request
    BY <2>1 DEF Request
  <2>3. Directed([job[i] EXCEPT !.clean = FALSE])
    BY <2>1 DEF Request, Directed
  <2>. QED
    BY <2>2, <2>3
<1>2. ASSUME NEW i \in Jobs
      PROVE  job'[i] \in {NoJob, job[i], [job[i] EXCEPT !.clean = FALSE]}
  BY DEF Saved
<1>3. ASSUME NEW i \in Jobs
      PROVE  job'[i] \in Request /\ Directed(job'[i])
  <2>1. job[i] \in Request /\ Directed(job[i])
    BY DEF TypeOK
  <2>. QED
    BY <1>1, <1>2, <2>1, NoJobType
<1>4. job' = [i \in Jobs |-> job'[i]]
  BY DEF Saved
<1>. QED
  BY <1>3, <1>4

LEMMA RacingType ==
    ASSUME TypeOK, NEW j \in Jobs, NEW f \in Forwards, Racing(j, f)
    PROVE  raced' \subseteq Forwards
BY DEF TypeOK, Racing

LEMMA SavesType ==
    ASSUME TypeOK, NEW j \in Jobs, SaveCreate(j) \/ SaveUpdate(j) \/ SaveReroute(j)
    PROVE  TypeOK'
<1>j. job[j] \in Request
  BY DEF TypeOK
<1>1. CASE SaveCreate(j)
  <2>1. PICK f \in Forwards :
         /\ row[f] = Unborn
         /\ \E o \in (IF job[j].route = none THEN {"user", "admin"} ELSE {"admin"}) :
              row' = [row EXCEPT ![f] = [status |-> "saved", tunnel |-> job[j].tunnel,
                                         route |-> job[j].route, in |-> job[j].in,
                                         out |-> job[j].out, owner |-> o]]
         /\ relays' = [relays EXCEPT ![f] = job[j].relays]
         /\ Racing(j, f)
    BY <1>1 DEF SaveCreate
  <2>2. PICK o \in {"user", "admin"} :
              row' = [row EXCEPT ![f] = [status |-> "saved", tunnel |-> job[j].tunnel,
                                         route |-> job[j].route, in |-> job[j].in,
                                         out |-> job[j].out, owner |-> o]]
    BY <2>1
  <2>3. [status |-> "saved", tunnel |-> job[j].tunnel, route |-> job[j].route,
         in |-> job[j].in, out |-> job[j].out, owner |-> o] \in Row
    BY <1>j DEF Row, Request
  <2>4. row' \in [Forwards -> Row]
    BY <2>2, <2>3 DEF TypeOK
  <2>5. relays' \in [Forwards -> SUBSET Pairs]
    BY <1>j, <2>1 DEF TypeOK, Request
  <2>. QED
    BY <1>1, <2>1, <2>4, <2>5, SavedType, RacingType DEF SaveCreate, TypeOK
<1>2. CASE SaveUpdate(j)
  <2>1. job[j].fwd \in Forwards
    BY <1>2 DEF SaveUpdate, TypeOK, Directed
  <2>2. [row[job[j].fwd] EXCEPT !.tunnel = job[j].tunnel,
                                !.in = job[j].in, !.out = job[j].out] \in Row
    <3>1. row[job[j].fwd] \in Row
      BY <2>1 DEF TypeOK
    <3>2. /\ job[j].tunnel \in Tunnels \cup {none} /\ job[j].route \in Routes \cup {none}
          /\ job[j].in \in Nat /\ job[j].out \in Nat
      BY <1>j DEF Request
    <3>. QED  BY <3>1, <3>2 DEF Row
  <2>3. row' \in [Forwards -> Row]
    BY <1>2, <2>1, <2>2 DEF SaveUpdate, TypeOK
  <2>. QED
    BY <1>2, <2>1, <2>3, SavedType, RacingType DEF SaveUpdate, TypeOK, Directed
<1>3. CASE SaveReroute(j)
  <2>1. job[j].fwd \in Forwards
    BY <1>3 DEF SaveReroute, TypeOK, Directed
  <2>2. [row[job[j].fwd] EXCEPT !.tunnel = none, !.route = job[j].route,
                                !.in = job[j].in, !.out = job[j].out] \in Row
    <3>1. row[job[j].fwd] \in Row
      BY <2>1 DEF TypeOK
    <3>2. /\ job[j].tunnel \in Tunnels \cup {none} /\ job[j].route \in Routes \cup {none}
          /\ job[j].in \in Nat /\ job[j].out \in Nat
      BY <1>j DEF Request
    <3>. QED  BY <3>1, <3>2 DEF Row
  <2>3. row' \in [Forwards -> Row]
    BY <1>3, <2>1, <2>2 DEF SaveReroute, TypeOK
  <2>4. relays' \in [Forwards -> SUBSET Pairs]
    BY <1>3, <1>j, <2>1 DEF SaveReroute, TypeOK, Request
  <2>. QED
    BY <1>3, <2>1, <2>3, <2>4, SavedType, RacingType DEF SaveReroute, TypeOK, Directed
<1>. QED
  BY <1>1, <1>2, <1>3

LEMMA DropType ==
    ASSUME TypeOK, NEW f \in Forwards, NEW rest \in SUBSET Pairs, Drop(f, rest),
           UNCHANGED job \/ \E j \in Jobs : End(j)
    PROVE  TypeOK'
<1>1. Gone \in Row
  BY DEF Gone, Unborn, Row, NoPort
<1>2. job' \in [Jobs -> Request] /\ \A i \in Jobs : Directed(job'[i])
  BY NoJobType DEF TypeOK, End, Directed
<1>. QED
  BY <1>1, <1>2 DEF Drop, TypeOK, Directed

LEMMA OthersType ==
    ASSUME TypeOK, NEW j \in Jobs,
           \/ Abandon(j) \/ Delete(j) \/ ReplaceRoute(j)
           \/ \E f \in Forwards : BeginDelete(j, f) \/ ForceDelete(j, f) \/ DeleteWithUser(j, f)
           \/ \E r \in Routes : \E path \in Paths \cup {<<>>} : BeginRoute(j, r, path)
    PROVE  TypeOK'
<1>j. job[j] \in Request
  BY DEF TypeOK
<1>f. \A f \in Forwards : row[f] \in Row /\ relays[f] \in SUBSET Pairs
  BY DEF TypeOK
<1>1. CASE Abandon(j)
  BY <1>1, NoJobType, JobType DEF Abandon, End
<1>2. ASSUME NEW f \in Forwards, BeginDelete(j, f) PROVE TypeOK'
  <2>1. /\ [NoJob EXCEPT !.op = "delete", !.fwd = f, !.route = row[f].route] \in Request
        /\ Directed([NoJob EXCEPT !.op = "delete", !.fwd = f, !.route = row[f].route])
    BY <1>f, NoJobType DEF Request, Row, NoJob, Directed
  <2>. QED  BY <1>2, <2>1, JobType DEF BeginDelete, Begin
<1>3. CASE Delete(j)
  <2>1. job[j].fwd \in Forwards
    BY <1>3 DEF Delete, TypeOK, Directed
  <2>2. (IF job[j].route = none THEN relays[job[j].fwd] ELSE {}) \in SUBSET Pairs
    BY <2>1 DEF TypeOK
  <2>. QED  BY <1>3, <2>1, <2>2, DropType DEF Delete
<1>4. ASSUME NEW f \in Forwards, ForceDelete(j, f) PROVE TypeOK'
  BY <1>4, DropType DEF ForceDelete
<1>5. ASSUME NEW f \in Forwards, DeleteWithUser(j, f) PROVE TypeOK'
  BY <1>5, <1>f, DropType DEF DeleteWithUser
<1>6. ASSUME NEW r \in Routes, NEW path \in Paths \cup {<<>>}, BeginRoute(j, r, path)
      PROVE  TypeOK'
  <2>a. <<>> \in Seq(Nodes)
    OBVIOUS
  <2>b. Paths \subseteq Seq(Nodes)
    BY PortAssumption
  <2>0. path \in Seq(Nodes)
    BY <2>a, <2>b, Zenon
  <2>1. /\ [NoJob EXCEPT !.op = "route", !.route = r, !.rest = path] \in Request
        /\ Directed([NoJob EXCEPT !.op = "route", !.route = r, !.rest = path])
    BY <2>0, NoJobType DEF Request, NoJob, Directed
  <2>. QED  BY <1>6, <2>1, JobType DEF BeginRoute, Begin
<1>7. CASE ReplaceRoute(j)
  BY <1>7, <1>j, SavedType DEF ReplaceRoute, TypeOK, Request, Directed
<1>. QED
  BY <1>1, <1>2, <1>3, <1>4, <1>5, <1>6, <1>7

\* The model's state has its types.
THEOREM Types == Spec => []TypeOK
<1>1. Init => TypeOK
  BY NoJobType, PortAssumption DEF Init, TypeOK, Unborn, Row, NoPort
<1>2. TypeOK /\ [Next]_vars => TypeOK'
  <2>1. ASSUME TypeOK, Next PROVE TypeOK'
    BY <2>1, BeginsType, ChoicesType, SavesType, OthersType DEF Next
  <2>2. ASSUME TypeOK, UNCHANGED vars PROVE TypeOK'
    BY <2>2 DEF vars, TypeOK, Directed
  <2>. QED  BY <2>1, <2>2
<1>. QED
  BY <1>1, <1>2, PTL DEF Spec

-----------------------------------------------------------------------------
(* Ports are distinct.  A request that nobody has overtaken holds ports no    *)
(* other forward has, and knows the row and the route it works on.            *)

Holds(j, n, p) ==
    \/ job[j].entry = n /\ job[j].in = p
    \/ job[j].tunnel # none /\ OutNode[job[j].tunnel] = n /\ job[j].out = p
    \/ <<n, p>> \in job[j].relays

Active(j) == job[j].op \in {"create", "update", "keep"}
Clean(j) == Active(j) /\ job[j].clean

\* What a request that nobody has overtaken has chosen is free.
Apart(j) ==
    Clean(j) /\ job[j].op # "keep" =>
        \A g \in Forwards \ {job[j].fwd} : \A n \in Nodes : \A p \in Port :
            ~ (Holds(j, n, p) /\ Takes(g, n, p))

\* Its entry is that of the tunnel or of the route.
Placed(j) ==
    /\ Active(j) =>
        /\ job[j].tunnel # none => /\ job[j].entry = InNode[job[j].tunnel]
                                  /\ job[j].route = none /\ job[j].relays = {}
                                  /\ job[j].rest = <<>>
        /\ job[j].route # none => job[j].tunnel = none /\ job[j].op # "keep"
        /\ job[j].tunnel # none \/ job[j].route # none
    /\ Clean(j) /\ job[j].route # none => /\ hops[job[j].route] # <<>>
                                        /\ job[j].entry = Head(hops[job[j].route])

\* The row is as it was read.
Current(j) ==
    /\ Clean(j) /\ job[j].route = none /\ job[j].op # "create" /\ Exists(job[j].fwd) =>
        /\ row[job[j].fwd].route = none
        /\ job[j].op = "keep" =>
             /\ row[job[j].fwd].tunnel = job[j].tunnel
             /\ row[job[j].fwd].in = job[j].in
             /\ row[job[j].fwd].out = job[j].out
    /\ job[j].op = "create" => job[j].fwd = none
    /\ job[j].op \in {"update", "keep", "delete"} => row[job[j].fwd] # Unborn

\* Rows that are not saved have no tunnel and no route, and rows without a route
\* no relay ports, those that are gone apart.
Bare(f) ==
    /\ ~ Exists(f) => row[f] \in {Unborn, Gone}
    /\ row[f] # Gone /\ row[f].route = none => relays[f] = {}

Inv ==
    /\ TypeOK
    /\ PortsDistinct
    /\ \A j \in Jobs : Apart(j) /\ Placed(j) /\ Current(j)
    /\ \A f \in Forwards : Bare(f)

LEMMA TakesSame ==
    ASSUME NEW f \in Forwards, NEW n \in Nodes, NEW p \in Port,
           row'[f] = row[f], relays'[f] = relays[f], hops' = hops
    PROVE  Takes(f, n, p)' <=> Takes(f, n, p)
BY DEF Takes

\* A step that changes one request and no row.
LEMMA JobStep ==
    ASSUME Inv, TypeOK', NEW j \in Jobs, NEW new, job' = [job EXCEPT ![j] = new],
           UNCHANGED <<row, relays, hops, raced>>,
           Apart(j)', Placed(j)', Current(j)'
    PROVE  Inv'
<1>1. ASSUME NEW i \in Jobs, i # j PROVE job'[i] = job[i]
  BY <1>1 DEF Inv, TypeOK
<1>2. ASSUME NEW i \in Jobs PROVE Apart(i)' /\ Placed(i)' /\ Current(i)'
  <2>1. CASE i = j
    BY <2>1
  <2>2. CASE i # j
    <3>1. Apart(i) /\ Placed(i) /\ Current(i) /\ job'[i] = job[i]
      BY <1>1, <2>2 DEF Inv
    <3>2. Apart(i)'
      <4>1. Clean(i)' <=> Clean(i)
        BY <3>1 DEF Clean, Active
      <4>2. \A n \in Nodes, p \in Port : Holds(i, n, p)' <=> Holds(i, n, p)
        BY <3>1 DEF Holds
      <4>3. \A g \in Forwards, n \in Nodes, p \in Port : Takes(g, n, p)' <=> Takes(g, n, p)
        BY TakesSame
      <4>. QED
        BY <3>1, <4>1, <4>2, <4>3 DEF Apart
    <3>. QED
      BY <3>1, <3>2 DEF Placed, Current, Clean, Active, Exists
  <2>. QED  BY <2>1, <2>2
<1>3. PortsDistinct'
  BY TakesSame DEF Inv, PortsDistinct
<1>4. \A f \in Forwards : Bare(f)'
  BY DEF Inv, Bare, Exists
<1>. QED
  BY <1>2, <1>3, <1>4 DEF Inv

LEMMA BornExists == ASSUME NEW f, Exists(f) PROVE row[f] # Unborn /\ row[f] # Gone
BY DEF Exists, Unborn, Gone

LEMMA EndStep ==
    ASSUME Inv, TypeOK', NEW j \in Jobs, End(j), UNCHANGED <<row, relays, hops, raced>>
    PROVE  Inv'
<1>1. job'[j] = NoJob
  BY DEF End, Inv, TypeOK
<1>2. Apart(j)' /\ Placed(j)' /\ Current(j)'
  BY <1>1 DEF Apart, Placed, Current, Clean, Active, NoJob
<1>. QED
  BY <1>2, JobStep DEF End

LEMMA BeginSteps ==
    ASSUME Inv, TypeOK', NEW j \in Jobs, NEW ask \in Asks,
           \/ BeginCreate(j, ask)
           \/ \E f \in Forwards : BeginUpdate(j, f, ask) \/ BeginReroute(j, f, ask)
    PROVE  Inv'
<1>n. none \notin Forwards /\ none \notin Tunnels /\ none \notin Routes
  BY PortAssumption
<1>o. NoPort \notin Port
  BY PortNat DEF NoPort
<1>s. ASSUME NEW new, Begin(j, new) PROVE job'[j] = new
  BY <1>s DEF Begin, Inv, TypeOK
<1>1. CASE \E t \in Tunnels : Begin(j, [Over(t) EXCEPT !.op = "create", !.ask = ask])
  <2>1. PICK t \in Tunnels : Begin(j, [Over(t) EXCEPT !.op = "create", !.ask = ask])
    BY <1>1
  <2>2. job'[j] = [Over(t) EXCEPT !.op = "create", !.ask = ask]
    BY <1>s, <2>1
  <2>3. Apart(j)' /\ Placed(j)' /\ Current(j)'
    BY <1>n, <1>o, <2>2 DEF Over, NoJob, Apart, Placed, Current, Clean, Active, Active, Holds
  <2>. QED  BY <2>1, <2>3, JobStep DEF Begin
<1>2. CASE \E r \in Routes : /\ hops[r] # <<>>
                             /\ Begin(j, [Along(r) EXCEPT !.op = "create", !.ask = ask])
  <2>1. PICK r \in Routes : /\ hops[r] # <<>>
                            /\ Begin(j, [Along(r) EXCEPT !.op = "create", !.ask = ask])
    BY <1>2
  <2>2. job'[j] = [Along(r) EXCEPT !.op = "create", !.ask = ask] /\ hops' = hops
    BY <1>s, <2>1 DEF Begin
  <2>3. Apart(j)' /\ Placed(j)' /\ Current(j)'
    BY <1>n, <1>o, <2>1, <2>2 DEF Along, NoJob, Apart, Placed, Current, Clean, Active, Active, Holds
  <2>. QED  BY <2>1, <2>3, JobStep DEF Begin
<1>3. ASSUME NEW f \in Forwards, BeginUpdate(j, f, ask) PROVE Inv'
  <2>a. row[f].route = none /\ Exists(f)
    BY <1>3 DEF BeginUpdate
  <2>0. row[f] # Unborn /\ row[f].route = none /\ Exists(f)
    BY <2>a, BornExists
  <2>1. PICK t \in Tunnels :
         IF t # row[f].tunnel \/ ask \notin {NoPort, row[f].in}
         THEN Begin(j, [Over(t) EXCEPT !.op = "update", !.fwd = f, !.ask = ask])
         ELSE Begin(j, [Over(t) EXCEPT !.op = "keep", !.fwd = f,
                                       !.in = row[f].in, !.out = row[f].out])
    BY <1>3 DEF BeginUpdate
  <2>2. CASE Begin(j, [Over(t) EXCEPT !.op = "update", !.fwd = f, !.ask = ask])
    <3>2. job'[j] = [Over(t) EXCEPT !.op = "update", !.fwd = f, !.ask = ask] /\ row' = row
      BY <1>s, <2>2 DEF Begin
    <3>3. Apart(j)' /\ Placed(j)' /\ Current(j)'
      BY <1>n, <1>o, <2>0, <3>2 DEF Over, NoJob, Apart, Placed, Current, Clean, Active, Active, Holds, Exists
    <3>. QED  BY <2>2, <3>3, JobStep DEF Begin
  <2>3. CASE /\ t = row[f].tunnel
             /\ Begin(j, [Over(t) EXCEPT !.op = "keep", !.fwd = f,
                                       !.in = row[f].in, !.out = row[f].out])
    <3>2. /\ job'[j] = [Over(t) EXCEPT !.op = "keep", !.fwd = f,
                                       !.in = row[f].in, !.out = row[f].out]
          /\ row' = row
      BY <1>s, <2>3 DEF Begin
    <3>3. Apart(j)' /\ Placed(j)' /\ Current(j)'
      BY <1>n, <2>0, <2>3, <3>2 DEF Over, NoJob, Apart, Placed, Current, Clean, Active, Active, Holds, Exists
    <3>. QED  BY <2>3, <3>3, JobStep DEF Begin
  <2>. QED  BY <2>1, <2>2, <2>3
<1>4. ASSUME NEW f \in Forwards, BeginReroute(j, f, ask) PROVE Inv'
  <2>. DEFINE want == IF ask = NoPort THEN row[f].in ELSE ask
  <2>. HIDE DEF want
  <2>0. row[f] # Unborn
    BY <1>4, BornExists DEF BeginReroute
  <2>1. PICK r \in Routes : /\ hops[r] # <<>>
          /\ Begin(j, [Along(r) EXCEPT !.op = "update", !.fwd = f, !.ask = want])
    BY <1>4 DEF BeginReroute, want
  <2>2. /\ job'[j] = [Along(r) EXCEPT !.op = "update", !.fwd = f, !.ask = want]
        /\ hops' = hops /\ row' = row
    BY <1>s, <2>1 DEF Begin
  <2>3. Apart(j)' /\ Placed(j)' /\ Current(j)'
    BY <1>n, <1>o, <2>0, <2>1, <2>2 DEF Along, NoJob, Apart, Placed, Current, Clean, Active, Active, Holds
  <2>. QED  BY <2>1, <2>3, JobStep DEF Begin
<1>. QED
  BY <1>1, <1>2, <1>3, <1>4 DEF BeginCreate

LEMMA ChooseSteps ==
    ASSUME Inv, TypeOK', NEW j \in Jobs, ChooseEntry(j) \/ ChooseOut(j) \/ ChooseRelay(j)
    PROVE  Inv'
<1>o. NoPort \notin Port
  BY PortNat DEF NoPort
<1>i. TypeOK /\ Apart(j) /\ Placed(j) /\ Current(j)
  BY DEF Inv
<1>j. job[j] \in Request
  BY <1>i DEF TypeOK
<1>f. ASSUME NEW n \in Nodes, NEW f, NEW p \in Free(n, f), NEW g \in Forwards \ {f}
      PROVE  p \in Port /\ ~ Takes(g, n, p)
  BY <1>f, FreeType DEF Free
<1>u. UNCHANGED <<row, relays, hops, raced>>
  BY DEF ChooseEntry, ChooseOut, ChooseRelay
<1>1. CASE ChooseEntry(j)
  <2>1. CASE End(j)
    BY <1>u, <2>1, EndStep
  <2>2. CASE ~ End(j)
    <3>0. job[j].entry \in Nodes
      BY <1>1, <1>i DEF ChooseEntry, TypeOK, Directed
    <3>1. PICK p \in Free(job[j].entry, job[j].fwd) :
                 job' = [job EXCEPT ![j].in = p, ![j].ask = NoPort]
      BY <1>1, <2>2 DEF ChooseEntry, Lowest
    <3>2. job' = [job EXCEPT ![j] = [job[j] EXCEPT !.in = p, !.ask = NoPort]]
      BY <3>1
    <3>3. job'[j] = [job[j] EXCEPT !.in = p, !.ask = NoPort]
      BY <1>i, <3>2 DEF TypeOK
    <3>4. /\ job'[j].op = job[j].op /\ job'[j].clean = job[j].clean
          /\ job'[j].fwd = job[j].fwd /\ job'[j].tunnel = job[j].tunnel
          /\ job'[j].route = job[j].route /\ job'[j].entry = job[j].entry
          /\ job'[j].out = job[j].out /\ job'[j].relays = job[j].relays
          /\ job'[j].in = p /\ job[j].op # "keep" /\ job'[j].rest = job[j].rest
      BY <1>1, <1>j, <3>3 DEF Request, ChooseEntry
    <3>5. Apart(j)'
      <4>1. SUFFICES ASSUME Clean(j)', NEW g \in Forwards \ {job'[j].fwd},
                            NEW m \in Nodes, NEW q \in Port,
                            Holds(j, m, q)', Takes(g, m, q)'
                     PROVE  FALSE
        BY DEF Apart
      <4>2. Takes(g, m, q) /\ g \in Forwards \ {job[j].fwd}
        BY <1>u, <3>4, <4>1, TakesSame
      <4>3. Clean(j) /\ job[j].op # "keep"
        BY <3>4, <4>1 DEF Clean, Active
      <4>4. ~ Holds(j, m, q)
        BY <1>i, <4>2, <4>3 DEF Apart
      <4>5. m = job[j].entry /\ q = p
        BY <3>4, <4>1, <4>3, <4>4 DEF Holds
      <4>6. ~ Takes(g, job[j].entry, p)
        BY <1>f, <3>0, <3>1, <4>2
      <4>. QED  BY <4>2, <4>5, <4>6
    <3>6. Placed(j)' /\ Current(j)'
      BY <1>i, <1>u, <3>4 DEF Placed, Current, Clean, Active, Exists
    <3>. QED  BY <1>u, <3>2, <3>5, <3>6, JobStep
  <2>. QED  BY <2>1, <2>2
<1>2. CASE ChooseOut(j)
  <2>1. CASE End(j)
    BY <1>u, <2>1, EndStep
  <2>2. CASE ~ End(j)
    <3>0. OutNode[job[j].tunnel] \in Nodes
      BY <1>2, <1>j, PortAssumption DEF ChooseOut, Request
    <3>1. PICK p \in Free(OutNode[job[j].tunnel], job[j].fwd) :
                 job' = [job EXCEPT ![j].out = p]
      BY <1>2, <2>2 DEF ChooseOut, Lowest
    <3>2. job' = [job EXCEPT ![j] = [job[j] EXCEPT !.out = p]]
      BY <3>1
    <3>3. job'[j] = [job[j] EXCEPT !.out = p]
      BY <1>i, <3>2 DEF TypeOK
    <3>4. /\ job'[j].op = job[j].op /\ job'[j].clean = job[j].clean
          /\ job'[j].fwd = job[j].fwd /\ job'[j].tunnel = job[j].tunnel
          /\ job'[j].route = job[j].route /\ job'[j].entry = job[j].entry
          /\ job'[j].in = job[j].in /\ job'[j].relays = job[j].relays
          /\ job'[j].out = p /\ job[j].op # "keep" /\ job'[j].rest = job[j].rest
      BY <1>2, <1>j, <3>3 DEF Request, ChooseOut
    <3>5. Apart(j)'
      <4>1. SUFFICES ASSUME Clean(j)', NEW g \in Forwards \ {job'[j].fwd},
                            NEW m \in Nodes, NEW q \in Port,
                            Holds(j, m, q)', Takes(g, m, q)'
                     PROVE  FALSE
        BY DEF Apart
      <4>2. Takes(g, m, q) /\ g \in Forwards \ {job[j].fwd}
        BY <1>u, <3>4, <4>1, TakesSame
      <4>3. Clean(j) /\ job[j].op # "keep"
        BY <3>4, <4>1 DEF Clean, Active
      <4>4. ~ Holds(j, m, q)
        BY <1>i, <4>2, <4>3 DEF Apart
      <4>5. m = OutNode[job[j].tunnel] /\ q = p
        BY <3>4, <4>1, <4>3, <4>4 DEF Holds
      <4>6. ~ Takes(g, OutNode[job[j].tunnel], p)
        BY <1>f, <3>0, <3>1, <4>2
      <4>. QED  BY <4>2, <4>5, <4>6
    <3>6. Placed(j)' /\ Current(j)'
      BY <1>i, <1>u, <3>4 DEF Placed, Current, Clean, Active, Exists
    <3>. QED  BY <1>u, <3>2, <3>5, <3>6, JobStep
  <2>. QED  BY <2>1, <2>2
<1>3. CASE ChooseRelay(j)
  <2>1. CASE End(j)
    BY <1>u, <2>1, EndStep
  <2>2. CASE ~ End(j)
    <3>. DEFINE n == Head(job[j].rest)
                more == Tail(job[j].rest)
    <3>a. job[j].rest \in Seq(Nodes) /\ job[j].rest # <<>>
      BY <1>3, <1>j DEF ChooseRelay, Request
    <3>0. n \in Nodes
      BY <3>a
    <3>1. PICK p \in Free(n, job[j].fwd) :
                  job' = [job EXCEPT ![j].out = p, ![j].rest = more,
                                     ![j].relays = job[j].relays \cup {<<n, p>>}]
      BY <1>3, <2>2 DEF ChooseRelay, Lowest
    <3>. HIDE DEF n, more
    <3>2. job' = [job EXCEPT ![j] = [job[j] EXCEPT !.out = p, !.rest = more,
                                        !.relays = job[j].relays \cup {<<n, p>>}]]
      BY <3>1
    <3>3. job'[j] = [job[j] EXCEPT !.out = p, !.rest = more,
                                   !.relays = job[j].relays \cup {<<n, p>>}]
      BY <1>i, <3>2 DEF TypeOK
    <3>4. /\ job'[j].op = job[j].op /\ job'[j].clean = job[j].clean
          /\ job'[j].fwd = job[j].fwd /\ job'[j].tunnel = job[j].tunnel
          /\ job'[j].route = job[j].route /\ job'[j].entry = job[j].entry
          /\ job'[j].in = job[j].in /\ job'[j].relays = job[j].relays \cup {<<n, p>>}
          /\ job[j].op \in {"create", "update"}
      BY <1>3, <1>j, <3>3 DEF Request, ChooseRelay
    <3>t. job[j].tunnel = none
      BY <1>i, <3>4, <3>a DEF Placed, Active
    <3>5. Apart(j)'
      <4>1. SUFFICES ASSUME Clean(j)', NEW g \in Forwards \ {job'[j].fwd},
                            NEW m \in Nodes, NEW q \in Port,
                            Holds(j, m, q)', Takes(g, m, q)'
                     PROVE  FALSE
        BY DEF Apart
      <4>2. Takes(g, m, q) /\ g \in Forwards \ {job[j].fwd}
        BY <1>u, <3>4, <4>1, TakesSame
      <4>3. Clean(j) /\ job[j].op # "keep"
        BY <3>4, <4>1 DEF Clean, Active
      <4>4. ~ Holds(j, m, q)
        BY <1>i, <4>2, <4>3 DEF Apart
      <4>5. m = n /\ q = p
        BY <3>4, <4>1, <4>3, <4>4, <3>t DEF Holds, Clean, Active
      <4>6. ~ Takes(g, n, p)
        BY <1>f, <3>0, <3>1, <4>2
      <4>. QED  BY <4>2, <4>5, <4>6
    <3>6. Placed(j)' /\ Current(j)'
      BY <1>i, <1>u, <3>4, <3>t DEF Placed, Current, Clean, Active, Exists
    <3>. QED  BY <1>u, <3>2, <3>5, <3>6, JobStep
  <2>. QED  BY <2>1, <2>2
<1>. QED
  BY <1>1, <1>2, <1>3

\* A request saves the ports of one forward; the other requests have been overtaken.
LEMMA SaveStep ==
    ASSUME Inv, TypeOK', NEW j \in Jobs, NEW f \in Forwards, Saved(j), Racing(j, f),
           hops' = hops, Bare(f)', row'[f] # Unborn,
           \A g \in Forwards \ {f} : row'[g] = row[g] /\ relays'[g] = relays[g],
           \/ ~ job[j].clean
           \/ /\ raced' = raced
              /\ \A n \in Nodes : \A p \in Port : Takes(f, n, p)' => Takes(f, n, p)
           \/ \A n \in Nodes : \A p \in Port : Takes(f, n, p)' =>
                \A g \in Forwards \ {f} : ~ Takes(g, n, p)
    PROVE  Inv'
<1>t. TypeOK /\ PortsDistinct
  BY DEF Inv
<1>r. \A g \in Forwards \ {f} : g \in raced => g \in raced'
  BY DEF Racing
<1>1. ASSUME NEW i \in Jobs PROVE Apart(i)' /\ Placed(i)' /\ Current(i)'
  <2>0. /\ ~ Clean(i)'
        /\ \/ job'[i] = NoJob
           \/ /\ job'[i].op = job[i].op /\ job'[i].fwd = job[i].fwd
              /\ job'[i].tunnel = job[i].tunnel /\ job'[i].route = job[i].route
              /\ job'[i].entry = job[i].entry /\ job'[i].relays = job[i].relays
              /\ job'[i].rest = job[i].rest
    <3>1. CASE i = j \/ Idle(i)
      BY <3>1, <1>t DEF Saved, Clean, Active, NoJob, Idle
    <3>2. CASE i # j /\ ~ Idle(i)
      <4>1. job'[i] = [job[i] EXCEPT !.clean = FALSE] /\ job[i] \in Request
        BY <3>2, <1>t DEF Saved, TypeOK
      <4>. QED  BY <4>1 DEF Request, Clean, Active
    <3>. QED  BY <3>1, <3>2
  <2>1. CASE job'[i] = NoJob
    BY <2>0, <2>1 DEF Apart, Placed, Current, NoJob, Clean, Active
  <2>2. CASE job'[i] # NoJob
    <3>1. Current(i) /\ Placed(i)
      BY DEF Inv
    <3>2. job[i].op \in {"update", "keep", "delete"} => job[i].fwd \in Forwards
      BY <1>t DEF TypeOK, Directed
    <3>. QED
      BY <2>0, <2>2, <3>1, <3>2 DEF Apart, Placed, Current, Active
  <2>. QED  BY <2>0, <2>1, <2>2
<1>2. ASSUME NEW g \in Forwards PROVE Bare(g)'
  BY DEF Inv, Bare, Exists
<1>3. PortsDistinct'
  <2>1. SUFFICES ASSUME NEW g \in Forwards, NEW h \in Forwards, NEW n \in Nodes,
                        NEW p \in Port, g # h, Takes(g, n, p)', Takes(h, n, p)',
                        g \notin raced', h \notin raced'
                 PROVE  FALSE
    BY DEF PortsDistinct
  <2>2. CASE g # f /\ h # f
    <3>1. Takes(g, n, p) /\ Takes(h, n, p)
      BY <2>1, <2>2, TakesSame
    <3>2. g \notin raced /\ h \notin raced
      BY <1>r, <2>1, <2>2
    <3>. QED  BY <1>t, <2>1, <3>1, <3>2 DEF PortsDistinct
  <2>3. ASSUME NEW k \in Forwards, k # f, Takes(k, n, p)', k \notin raced',
               Takes(f, n, p)', f \notin raced'
        PROVE  FALSE
    <3>1. Takes(k, n, p) /\ k \notin raced
      BY <1>r, <2>3, TakesSame
    <3>2. job[j].clean
      BY <2>3 DEF Racing
    <3>3. CASE Takes(f, n, p) /\ raced' = raced
      BY <1>t, <2>3, <3>1, <3>3 DEF PortsDistinct
    <3>4. CASE ~ (Takes(f, n, p) /\ raced' = raced)
      BY <2>3, <3>1, <3>2, <3>4
    <3>. QED  BY <3>3, <3>4
  <2>. QED  BY <2>1, <2>2, <2>3
<1>. QED
  BY <1>1, <1>2, <1>3 DEF Inv

LEMMA SaveCreateStep ==
    ASSUME Inv, TypeOK', NEW j \in Jobs, SaveCreate(j)
    PROVE  Inv'
<1>i. TypeOK /\ Apart(j) /\ Placed(j) /\ Current(j) /\ none \notin Forwards
  BY PortAssumption DEF Inv
<1>1. PICK f \in Forwards :
         /\ row[f] = Unborn
         /\ \E o \in (IF job[j].route = none THEN {"user", "admin"} ELSE {"admin"}) :
              row' = [row EXCEPT ![f] = [status |-> "saved", tunnel |-> job[j].tunnel,
                                         route |-> job[j].route, in |-> job[j].in,
                                         out |-> job[j].out, owner |-> o]]
         /\ relays' = [relays EXCEPT ![f] = job[j].relays]
         /\ Racing(j, f)
  BY DEF SaveCreate
<1>2. /\ row'[f].status = "saved" /\ row'[f].tunnel = job[j].tunnel
      /\ row'[f].route = job[j].route /\ row'[f].in = job[j].in /\ row'[f].out = job[j].out
      /\ relays'[f] = job[j].relays
      /\ \A g \in Forwards \ {f} : row'[g] = row[g] /\ relays'[g] = relays[g]
  BY <1>1, <1>i DEF TypeOK
<1>3. hops' = hops /\ Saved(j) /\ job[j].op = "create" /\ job[j].fwd = none
  BY <1>i DEF SaveCreate, Current
<1>4. row'[f] # Unborn /\ row'[f] # Gone
  BY <1>2 DEF Unborn, Gone
<1>5. CASE job[j].clean
  <2>1. Bare(f)'
    BY <1>2, <1>3, <1>5, <1>i DEF Bare, Exists, Placed, Clean, Active
  <2>2. ASSUME NEW n \in Nodes, NEW p \in Port, Takes(f, n, p)'
        PROVE  Holds(j, n, p)
    BY <1>2, <1>3, <1>5, <1>i, <2>2 DEF Takes, Holds, Placed, Clean, Active
  <2>3. ASSUME NEW n \in Nodes, NEW p \in Port, Takes(f, n, p)',
               NEW g \in Forwards \ {f}
        PROVE  ~ Takes(g, n, p)
    BY <1>3, <1>5, <1>i, <2>2, <2>3 DEF Apart, Clean, Active
  <2>. QED
    BY <1>1, <1>2, <1>3, <1>4, <2>1, <2>3, SaveStep
<1>6. CASE ~ job[j].clean
  <2>1. Bare(f)'
    BY <1>2, <1>3, <1>4, <1>i DEF Bare, Exists, Placed, Active
  <2>. QED
    BY <1>1, <1>2, <1>3, <1>4, <1>6, <2>1, SaveStep
<1>. QED
  BY <1>5, <1>6

LEMMA SaveUpdateStep ==
    ASSUME Inv, TypeOK', NEW j \in Jobs, SaveUpdate(j)
    PROVE  Inv'
<1>i. TypeOK /\ Apart(j) /\ Placed(j) /\ Current(j)
  BY DEF Inv
<1>0. PICK f \in Forwards : f = job[j].fwd
  BY <1>i DEF SaveUpdate, TypeOK, Directed
<1>1. /\ f \in Forwards /\ Bare(f) /\ row[f] # Unborn
      /\ job[j].op \in {"update", "keep"} /\ job[j].route = none /\ Active(j)
      /\ hops' = hops /\ relays' = relays /\ Saved(j) /\ Racing(j, f)
  BY <1>0, <1>i DEF SaveUpdate, TypeOK, Directed, Current, Active, Inv
<1>2. CASE ~ Exists(f)
  <2>1. row' = row
    BY <1>0, <1>2 DEF SaveUpdate
  <2>2. Bare(f)' /\ row'[f] # Unborn
    BY <1>1, <2>1 DEF Bare, Exists
  <2>3. CASE job[j].clean
    <3>1. raced' = raced
      BY <1>1, <1>2, <2>3 DEF Racing
    <3>2. ASSUME NEW n \in Nodes, NEW p \in Port, Takes(f, n, p)' PROVE Takes(f, n, p)
      BY <1>1, <2>1, <3>2, TakesSame
    <3>. QED  BY <1>1, <2>1, <2>2, <3>1, <3>2, SaveStep
  <2>4. CASE ~ job[j].clean
    BY <1>1, <2>1, <2>2, <2>4, SaveStep
  <2>. QED  BY <2>3, <2>4
<1>3. CASE Exists(f)
  <2>1. row' = [row EXCEPT ![f] = [row[f] EXCEPT !.tunnel = job[j].tunnel,
                                       !.in = job[j].in, !.out = job[j].out]]
    BY <1>0, <1>3 DEF SaveUpdate
  <2>t. row[f] \in Row
    BY <1>1, <1>i DEF TypeOK
  <2>2. /\ row'[f] = [row[f] EXCEPT !.tunnel = job[j].tunnel,
                                     !.in = job[j].in, !.out = job[j].out]
        /\ \A g \in Forwards \ {f} : row'[g] = row[g] /\ relays'[g] = relays[g]
    BY <1>1, <1>i, <2>1 DEF TypeOK
  <2>3. /\ row'[f].status = "saved" /\ row'[f].tunnel = job[j].tunnel
        /\ row'[f].route = row[f].route /\ row'[f].in = job[j].in
        /\ row'[f].out = job[j].out /\ relays'[f] = relays[f]
    BY <1>1, <1>3, <2>2, <2>t DEF Row, Exists
  <2>4. row'[f] # Unborn /\ row'[f] # Gone /\ row[f] # Gone
    BY <1>3, <2>3 DEF Unborn, Gone, Exists
  <2>5. Bare(f)'
    BY <1>1, <2>3, <2>4 DEF Bare, Exists
  <2>6. CASE ~ job[j].clean
    BY <1>1, <2>2, <2>4, <2>5, <2>6, SaveStep
  <2>7. CASE job[j].clean /\ job[j].op = "keep"
    <3>1. row[f].tunnel = job[j].tunnel /\ row[f].in = job[j].in /\ row[f].out = job[j].out
      BY <1>0, <1>1, <1>3, <1>i, <2>7 DEF Current, Clean
    <3>2. raced' = raced
      BY <1>1, <2>7 DEF Racing
    <3>3. ASSUME NEW n \in Nodes, NEW p \in Port, Takes(f, n, p)' PROVE Takes(f, n, p)
      BY <1>1, <2>3, <3>1, <3>3 DEF Takes
    <3>. QED  BY <1>1, <2>2, <2>4, <2>5, <3>2, <3>3, SaveStep
  <2>8. CASE job[j].clean /\ job[j].op = "update"
    <3>1. row'[f].route = none /\ relays'[f] = {}
      BY <1>0, <1>1, <1>3, <1>i, <2>3, <2>4, <2>8 DEF Current, Clean, Bare
    <3>2. ASSUME NEW n \in Nodes, NEW p \in Port, Takes(f, n, p)'
          PROVE  Holds(j, n, p)
      BY <1>1, <1>i, <2>3, <2>8, <3>1, <3>2 DEF Takes, Holds, Placed
    <3>3. ASSUME NEW n \in Nodes, NEW p \in Port, Takes(f, n, p)',
                 NEW g \in Forwards \ {f}
          PROVE  ~ Takes(g, n, p)
      BY <1>0, <1>1, <1>i, <2>8, <3>2, <3>3 DEF Apart, Clean
    <3>. QED  BY <1>1, <2>2, <2>4, <2>5, <3>3, SaveStep
  <2>. QED  BY <1>1, <2>6, <2>7, <2>8
<1>. QED
  BY <1>2, <1>3

LEMMA SaveRerouteStep ==
    ASSUME Inv, TypeOK', NEW j \in Jobs, SaveReroute(j)
    PROVE  Inv'
<1>i. TypeOK /\ Apart(j) /\ Placed(j) /\ Current(j)
  BY DEF Inv
<1>0. PICK f \in Forwards : f = job[j].fwd
  BY <1>i DEF SaveReroute, TypeOK, Directed
<1>1. /\ f \in Forwards /\ Bare(f) /\ row[f] # Unborn /\ row[f] \in Row
      /\ job[j].op = "update" /\ job[j].route # none /\ Active(j)
      /\ hops' = hops /\ Saved(j) /\ Racing(j, f)
      /\ relays' = [relays EXCEPT ![f] = job[j].relays]
  BY <1>0, <1>i DEF SaveReroute, TypeOK, Directed, Current, Active, Inv
<1>2. row' = IF Exists(f)
              THEN [row EXCEPT ![f] = [row[f] EXCEPT !.tunnel = none,
                       !.route = job[j].route, !.in = job[j].in, !.out = job[j].out]]
              ELSE row
  BY <1>0 DEF SaveReroute
<1>3. job[j].tunnel = none
  BY <1>1, <1>i DEF Placed
<1>4. /\ \A g \in Forwards \ {f} : row'[g] = row[g] /\ relays'[g] = relays[g]
      /\ relays'[f] = job[j].relays
  BY <1>1, <1>2, <1>i DEF TypeOK
<1>5. \/ /\ row'[f].status = "saved" /\ row'[f].tunnel = none
         /\ row'[f].route = job[j].route /\ row'[f].in = job[j].in
      \/ row'[f] = Gone
  <2>1. CASE Exists(f)
    <3>1. row'[f] = [row[f] EXCEPT !.tunnel = none,
                       !.route = job[j].route, !.in = job[j].in, !.out = job[j].out]
      BY <1>1, <1>2, <1>i, <2>1 DEF TypeOK
    <3>. QED  BY <1>1, <2>1, <3>1 DEF Row, Exists
  <2>2. CASE ~ Exists(f)
    BY <1>1, <1>2, <2>2 DEF Bare
  <2>. QED  BY <2>1, <2>2
<1>6. row'[f] # Unborn
  BY <1>5 DEF Unborn, Gone
<1>7. Bare(f)'
  <2>1. CASE row'[f] = Gone
    BY <2>1 DEF Bare, Exists
  <2>2. CASE row'[f] # Gone
    BY <1>1, <1>5, <2>2 DEF Bare, Exists
  <2>. QED  BY <2>1, <2>2
<1>8. CASE job[j].clean
  <2>1. Gone.tunnel = none /\ Gone.route = none
    BY DEF Gone, Unborn
  <2>2. ASSUME NEW n \in Nodes, NEW p \in Port, Takes(f, n, p)'
        PROVE  Holds(j, n, p)
    BY <1>1, <1>3, <1>4, <1>5, <1>8, <1>i, <2>1, <2>2 DEF Takes, Holds, Placed, Clean
  <2>3. ASSUME NEW n \in Nodes, NEW p \in Port, Takes(f, n, p)',
               NEW g \in Forwards \ {f}
        PROVE  ~ Takes(g, n, p)
    BY <1>0, <1>1, <1>8, <1>i, <2>2, <2>3 DEF Apart, Clean
  <2>. QED
    BY <1>1, <1>4, <1>6, <1>7, <2>3, SaveStep
<1>9. CASE ~ job[j].clean
  BY <1>1, <1>4, <1>6, <1>7, <1>9, SaveStep
<1>. QED
  BY <1>8, <1>9

\* A forward is gone; what is left of its ports is no more than there was.
LEMMA DropStep ==
    ASSUME Inv, TypeOK', NEW f \in Forwards, NEW rest \in SUBSET relays[f], Drop(f, rest),
           UNCHANGED job \/ \E j \in Jobs : End(j)
    PROVE  Inv'
<1>i. TypeOK /\ PortsDistinct
  BY DEF Inv
<1>1. /\ row'[f] = Gone /\ relays'[f] = rest /\ hops' = hops /\ raced' = raced
      /\ \A g \in Forwards \ {f} : row'[g] = row[g] /\ relays'[g] = relays[g]
  BY <1>i DEF Drop, TypeOK
<1>2. ASSUME NEW g \in Forwards, NEW n \in Nodes, NEW p \in Port, Takes(g, n, p)'
      PROVE  Takes(g, n, p)
  <2>1. CASE g = f
    BY <1>1, <1>2, <2>1 DEF Takes, Gone, Unborn
  <2>2. CASE g # f
    BY <1>1, <1>2, <2>2, TakesSame
  <2>. QED  BY <2>1, <2>2
<1>3. PortsDistinct'
  BY <1>1, <1>2, <1>i DEF PortsDistinct
<1>4. ASSUME NEW i \in Jobs PROVE Apart(i)' /\ Placed(i)' /\ Current(i)'
  <2>1. CASE job'[i] = NoJob
    BY <2>1 DEF Apart, Placed, Current, NoJob, Clean, Active
  <2>2. CASE job'[i] = job[i]
    <3>1. Apart(i) /\ Placed(i) /\ Current(i)
      BY DEF Inv
    <3>2. Apart(i)'
      BY <1>2, <2>2, <3>1 DEF Apart, Clean, Active, Holds
    <3>3. Placed(i)'
      BY <1>1, <2>2, <3>1 DEF Placed, Clean, Active
    <3>4. Gone # Unborn /\ Gone.status # "saved"
      BY DEF Gone, Unborn
    <3>5. job[i].op \in {"update", "keep", "delete"} => job[i].fwd \in Forwards
      BY <1>i DEF TypeOK, Directed
    <3>6. Current(i)'
      <4>1. CASE job[i].fwd = f
        BY <1>1, <2>2, <3>1, <3>4, <4>1 DEF Current, Clean, Active, Exists
      <4>2. CASE job[i].fwd # f
        BY <1>1, <2>2, <3>1, <3>5, <4>2 DEF Current, Clean, Active, Exists
      <4>. QED  BY <4>1, <4>2
    <3>. QED  BY <3>2, <3>3, <3>6
  <2>3. job'[i] = NoJob \/ job'[i] = job[i]
    BY <1>i DEF End, TypeOK
  <2>. QED  BY <2>1, <2>2, <2>3
<1>5. ASSUME NEW g \in Forwards PROVE Bare(g)'
  <2>1. Gone.status # "saved"
    BY DEF Gone
  <2>. QED  BY <1>1, <2>1 DEF Inv, Bare, Exists
<1>. QED
  BY <1>3, <1>4, <1>5 DEF Inv

LEMMA ReplaceStep ==
    ASSUME Inv, TypeOK', NEW j \in Jobs, ReplaceRoute(j)
    PROVE  Inv'
<1>i. TypeOK /\ PortsDistinct
  BY DEF Inv
<1>1. /\ hops' = [hops EXCEPT ![job[j].route] = job[j].rest]
      /\ raced' = raced \cup {f \in Forwards : row[f].route = job[j].route}
      /\ Saved(j) /\ row' = row /\ relays' = relays
  BY DEF ReplaceRoute
<1>2. ASSUME NEW f \in Forwards, f \notin raced', NEW n \in Nodes, NEW p \in Port,
             Takes(f, n, p)'
      PROVE  Takes(f, n, p)
  <2>1. row[f].route # job[j].route /\ row[f].route \in Routes \cup {none}
    BY <1>1, <1>2, <1>i DEF TypeOK, Row
  <2>2. row[f].route # none => hops'[row[f].route] = hops[row[f].route]
    BY <1>1, <1>i, <2>1 DEF TypeOK
  <2>. QED  BY <1>1, <1>2, <2>2 DEF Takes
<1>3. PortsDistinct'
  BY <1>1, <1>2, <1>i DEF PortsDistinct
<1>4. ASSUME NEW i \in Jobs PROVE Apart(i)' /\ Placed(i)' /\ Current(i)'
  <2>1. CASE job'[i] = NoJob
    BY <2>1 DEF Apart, Placed, Current, NoJob, Clean, Active
  <2>2. CASE job'[i] # NoJob
    <3>1. job'[i] = [job[i] EXCEPT !.clean = FALSE] /\ job[i] \in Request
      BY <1>1, <1>i, <2>2 DEF Saved, TypeOK, Idle
    <3>2. /\ ~ Clean(i)' /\ job'[i].op = job[i].op /\ job'[i].fwd = job[i].fwd
          /\ job'[i].tunnel = job[i].tunnel /\ job'[i].route = job[i].route
          /\ job'[i].entry = job[i].entry /\ job'[i].relays = job[i].relays
          /\ job'[i].rest = job[i].rest
      BY <3>1 DEF Request, Clean
    <3>3. Placed(i) /\ Current(i)
      BY DEF Inv
    <3>. QED  BY <1>1, <3>2, <3>3 DEF Apart, Placed, Current, Active
  <2>. QED  BY <2>1, <2>2
<1>5. ASSUME NEW g \in Forwards PROVE Bare(g)'
  BY <1>1 DEF Inv, Bare, Exists
<1>. QED
  BY <1>3, <1>4, <1>5 DEF Inv

LEMMA OtherSteps ==
    ASSUME Inv, TypeOK', NEW j \in Jobs,
           \/ Abandon(j) \/ Delete(j)
           \/ \E f \in Forwards : BeginDelete(j, f) \/ ForceDelete(j, f) \/ DeleteWithUser(j, f)
           \/ \E r \in Routes : \E path \in Paths \cup {<<>>} : BeginRoute(j, r, path)
    PROVE  Inv'
<1>i. TypeOK
  BY DEF Inv
<1>s. ASSUME NEW new, Begin(j, new) PROVE job'[j] = new
  BY <1>s, <1>i DEF Begin, TypeOK
<1>1. CASE Abandon(j)
  BY <1>1, EndStep DEF Abandon
<1>2. ASSUME NEW f \in Forwards, BeginDelete(j, f) PROVE Inv'
  <2>. DEFINE new == [NoJob EXCEPT !.op = "delete", !.fwd = f, !.route = row[f].route]
  <2>1. Begin(j, new) /\ row[f] # Unborn
    BY <1>2, BornExists DEF BeginDelete
  <2>2. new.op = "delete" /\ new.fwd = f
    BY DEF NoJob
  <2>. HIDE DEF new
  <2>3. Apart(j)' /\ Placed(j)' /\ Current(j)'
    BY <1>s, <2>1, <2>2 DEF Apart, Placed, Current, Clean, Active, Begin
  <2>. QED  BY <2>1, <2>3, JobStep DEF Begin
<1>3. CASE Delete(j)
  <2>1. job[j].fwd \in Forwards
    BY <1>3, <1>i DEF Delete, TypeOK, Directed
  <2>2. PICK f \in Forwards : f = job[j].fwd
    BY <2>1
  <2>3. PICK rest \in SUBSET relays[f] : Drop(f, rest)
    BY <1>3, <2>2 DEF Delete
  <2>. QED  BY <1>3, <2>3, DropStep DEF Delete
<1>4. ASSUME NEW f \in Forwards, ForceDelete(j, f) PROVE Inv'
  BY <1>4, DropStep DEF ForceDelete
<1>5. ASSUME NEW f \in Forwards, DeleteWithUser(j, f) PROVE Inv'
  BY <1>5, DropStep DEF DeleteWithUser
<1>6. ASSUME NEW r \in Routes, NEW path \in Paths \cup {<<>>}, BeginRoute(j, r, path)
      PROVE  Inv'
  <2>. DEFINE new == [NoJob EXCEPT !.op = "route", !.route = r, !.rest = path]
  <2>1. Begin(j, new)
    BY <1>6 DEF BeginRoute
  <2>2. new.op = "route"
    BY DEF NoJob
  <2>. HIDE DEF new
  <2>3. Apart(j)' /\ Placed(j)' /\ Current(j)'
    BY <1>s, <2>1, <2>2 DEF Apart, Placed, Current, Clean, Active
  <2>. QED  BY <2>1, <2>3, JobStep DEF Begin
<1>. QED
  BY <1>1, <1>2, <1>3, <1>4, <1>5, <1>6

LEMMA Inductive == Inv /\ [Next]_vars => Inv'
<1>t. Inv /\ [Next]_vars => TypeOK'
  <2>1. ASSUME TypeOK, Next PROVE TypeOK'
    BY <2>1, BeginsType, ChoicesType, SavesType, OthersType DEF Next
  <2>2. ASSUME TypeOK, UNCHANGED vars PROVE TypeOK'
    BY <2>2 DEF vars, TypeOK, Directed
  <2>. QED  BY <2>1, <2>2 DEF Inv
<1>1. ASSUME Inv, Next PROVE Inv'
  <2>1. TypeOK'
    BY <1>1, <1>t
  <2>. QED
    BY <1>1, <2>1, BeginSteps, ChooseSteps, SaveCreateStep, SaveUpdateStep, SaveRerouteStep,
       ReplaceStep, OtherSteps DEF Next
<1>2. ASSUME Inv, UNCHANGED vars PROVE Inv'
  <2>1. TypeOK'
    BY <1>2, <1>t
  <2>2. ASSUME NEW f \in Forwards, NEW n \in Nodes, NEW p \in Port
        PROVE  Takes(f, n, p)' <=> Takes(f, n, p)
    BY <1>2, TakesSame DEF vars
  <2>3. PortsDistinct'
    BY <1>2, <2>2 DEF vars, Inv, PortsDistinct
  <2>4. ASSUME NEW i \in Jobs PROVE Apart(i)' /\ Placed(i)' /\ Current(i)'
    <3>1. Apart(i)'
      BY <1>2, <2>2 DEF vars, Inv, Apart, Clean, Active, Holds
    <3>. QED
      BY <1>2, <3>1 DEF vars, Inv, Placed, Current, Clean, Active, Exists
  <2>5. \A f \in Forwards : Bare(f)'
    BY <1>2 DEF vars, Inv, Bare, Exists
  <2>. QED  BY <2>1, <2>3, <2>4, <2>5 DEF Inv
<1>. QED
  BY <1>1, <1>2

LEMMA Initially == Init => Inv
<1>. SUFFICES ASSUME Init PROVE Inv
  OBVIOUS
<1>1. TypeOK
  BY NoJobType, PortAssumption DEF Init, TypeOK, Unborn, Row, NoPort
<1>2. ASSUME NEW f \in Forwards, NEW n \in Nodes, NEW p \in Port PROVE ~ Takes(f, n, p)
  BY DEF Init, Unborn, Takes
<1>3. PortsDistinct
  BY <1>2 DEF PortsDistinct
<1>4. ASSUME NEW j \in Jobs PROVE Apart(j) /\ Placed(j) /\ Current(j)
  BY DEF Init, NoJob, Apart, Placed, Current, Clean, Active
<1>5. ASSUME NEW f \in Forwards PROVE Bare(f)
  BY DEF Init, Unborn, Bare, Exists
<1>. QED
  BY <1>1, <1>3, <1>4, <1>5 DEF Inv

\* Only a request that another one overtakes, between its look at the ports and the
\* save of its forward, gives a port twice: for any tunnels, routes, port ranges and
\* number of requests.
THEOREM Distinct == Spec => []PortsDistinct
<1>1. Inv => PortsDistinct
  BY DEF Inv
<1>. QED
  BY <1>1, Initially, Inductive, PTL DEF Spec

-----------------------------------------------------------------------------
(* Relay ports follow routes.  A request that nobody has overtaken walks the  *)
(* route it has read: behind it the hops that have a port, before it the rest.*)

\* R has one port on each hop of s after the first up to the k-th, and no other.
Serves(R, s, k) ==
    /\ \A x \in R : \E i \in 2..k : x[1] = s[i]
    /\ \A i \in 2..k : \E x \in R : x[1] = s[i]
    /\ \A x, y \in R : x[1] = y[1] => x = y

\* Request q has done the first k hops of s.
AtHop(q, s, k) ==
    /\ Len(q.rest) = Len(s) - k
    /\ \A i \in 1..Len(q.rest) : q.rest[i] = s[k + i]
    /\ Serves(q.relays, s, k)

OnWay(j) ==
    /\ job[j].op = "route" => job[j].rest \in Paths \cup {<<>>}
    /\ Clean(j) /\ job[j].route # none =>
         \E k \in 1..Len(hops[job[j].route]) : AtHop(job[j], hops[job[j].route], k)

Follows(f) ==
    Exists(f) /\ f \notin raced =>
        /\ row[f].route = none => relays[f] = {}
        /\ row[f].route # none =>
             /\ hops[row[f].route] # <<>>
             /\ Serves(relays[f], hops[row[f].route], Len(hops[row[f].route]))

Ways == \A r \in Routes : hops[r] \in Paths \cup {<<>>}

WInv ==
    /\ Inv /\ Ways
    /\ \A j \in Jobs : OnWay(j)
    /\ \A f \in Forwards : Follows(f)

LEMMA ServesFirst == ASSUME NEW s PROVE Serves({}, s, 1)
<1>1. 2..1 = {}
  OBVIOUS
<1>. QED
  BY <1>1 DEF Serves

LEMMA ServesMore ==
    ASSUME NEW s \in Paths, NEW k \in 1..Len(s), k + 1 <= Len(s), NEW R, NEW p,
           Serves(R, s, k)
    PROVE  Serves(R \cup {<<s[k + 1], p>>}, s, k + 1)
<1>. DEFINE e == <<s[k + 1], p>>
            Q == R \cup {e}
<1>1. Len(s) \in Nat /\ k \in Nat /\ \A i, m \in 1..Len(s) : s[i] = s[m] => i = m
  BY PortAssumption
<1>2. e[1] = s[k + 1]
  OBVIOUS
<1>. HIDE DEF e
<1>3. ASSUME NEW x \in Q PROVE \E i \in 2..(k + 1) : x[1] = s[i]
  <2>1. CASE x \in R
    <3>1. PICK i \in 2..k : x[1] = s[i]
      BY <2>1 DEF Serves
    <3>. QED  BY <1>1, <3>1
  <2>2. CASE x = e
    BY <1>1, <1>2, <2>2
  <2>. QED  BY <1>3, <2>1, <2>2
<1>4. ASSUME NEW i \in 2..(k + 1) PROVE \E x \in Q : x[1] = s[i]
  <2>1. CASE i = k + 1
    BY <1>2, <2>1
  <2>2. CASE i # k + 1
    <3>1. i \in 2..k
      BY <1>1, <1>4, <2>2
    <3>. QED  BY <3>1 DEF Serves
  <2>. QED  BY <2>1, <2>2
<1>5. ASSUME NEW x \in R PROVE x[1] # s[k + 1]
  <2>1. PICK i \in 2..k : x[1] = s[i]
    BY <1>5 DEF Serves
  <2>2. i \in 1..Len(s) /\ k + 1 \in 1..Len(s) /\ i # k + 1
    BY <1>1, <2>1
  <2>. QED  BY <1>1, <2>1, <2>2
<1>6. ASSUME NEW x \in Q, NEW y \in Q, x[1] = y[1] PROVE x = y
  <2>1. CASE x \in R /\ y \in R
    BY <1>6, <2>1 DEF Serves
  <2>2. CASE ~ (x \in R /\ y \in R)
    BY <1>2, <1>5, <1>6, <2>2
  <2>. QED  BY <2>1, <2>2
<1>7. Serves(Q, s, k + 1)
  BY <1>3, <1>4, <1>6 DEF Serves
<1>. QED
  BY <1>7 DEF e

\* What the property says of a route, in terms of the route's own indices.
LEMMA ServesTail ==
    ASSUME NEW s \in Paths, NEW R, Serves(R, s, Len(s))
    PROVE  {x[1] : x \in R} = {Tail(s)[i] : i \in 1..Len(Tail(s))}
<1>1. s \in Seq(Nodes) /\ Len(s) \in Nat /\ Len(s) >= 2 /\ s # <<>>
  BY PortAssumption
<1>2. /\ Len(Tail(s)) = Len(s) - 1
      /\ \A i \in 1..(Len(s) - 1) : Tail(s)[i] = s[i + 1]
  BY <1>1
<1>3. ASSUME NEW x \in R PROVE \E i \in 1..(Len(s) - 1) : x[1] = Tail(s)[i]
  <2>1. PICK i \in 2..Len(s) : x[1] = s[i]
    BY <1>3 DEF Serves
  <2>2. i - 1 \in 1..(Len(s) - 1) /\ (i - 1) + 1 = i
    BY <1>1, <2>1
  <2>. QED  BY <1>2, <2>1, <2>2
<1>4. ASSUME NEW i \in 1..(Len(s) - 1) PROVE \E x \in R : x[1] = Tail(s)[i]
  <2>1. i + 1 \in 2..Len(s)
    BY <1>1, <1>4
  <2>2. PICK x \in R : x[1] = s[i + 1]
    BY <2>1 DEF Serves
  <2>. QED  BY <1>2, <2>2
<1>5. ASSUME NEW n PROVE n \in {x[1] : x \in R} <=> n \in {Tail(s)[i] : i \in 1..Len(Tail(s))}
  BY <1>2, <1>3, <1>4
<1>. QED
  BY <1>5

LEMMA OffWay ==
    ASSUME NEW j \in Jobs, job'[j].op # "route",
           job'[j].route = none \/ ~ Clean(j)'
    PROVE  OnWay(j)'
BY DEF OnWay

LEMMA StartsAlong ==
    ASSUME WInv, NEW j \in Jobs, NEW r \in Routes, hops[r] # <<>>, hops' = hops,
           job'[j].op # "route", job'[j].route = r,
           job'[j].rest = Tail(hops[r]), job'[j].relays = {}
    PROVE  OnWay(j)'
<1>1. hops[r] \in Paths
  BY DEF WInv, Ways
<1>2. PICK s \in Paths : s = hops[r]
  BY <1>1
<1>3. s \in Seq(Nodes) /\ Len(s) \in Nat /\ Len(s) >= 2 /\ s # <<>>
  BY PortAssumption
<1>4. /\ Len(Tail(s)) = Len(s) - 1
      /\ \A i \in 1..(Len(s) - 1) : Tail(s)[i] = s[i + 1]
  BY <1>3
<1>5. PICK q : q = job'[j]
  OBVIOUS
<1>6. q.rest = Tail(s) /\ q.relays = {}
  BY <1>2, <1>5
<1>7. AtHop(q, s, 1)
  <2>1. Len(q.rest) = Len(s) - 1
    BY <1>4, <1>6
  <2>2. \A i \in 1..Len(q.rest) : q.rest[i] = s[1 + i]
    BY <1>3, <1>4, <1>6
  <2>. QED  BY <1>6, <2>1, <2>2, ServesFirst DEF AtHop
<1>8. 1 \in 1..Len(s)
  BY <1>3
<1>9. \E k \in 1..Len(hops'[job'[j].route]) : AtHop(job'[j], hops'[job'[j].route], k)
  BY <1>2, <1>5, <1>7, <1>8
<1>. QED
  BY <1>9 DEF OnWay

\* A step that changes one request and no row.
LEMMA WayJob ==
    ASSUME WInv, Inv', NEW j \in Jobs, \A i \in Jobs \ {j} : job'[i] = job[i],
           UNCHANGED <<row, relays, hops, raced>>, OnWay(j)'
    PROVE  WInv'
<1>1. ASSUME NEW i \in Jobs PROVE OnWay(i)'
  <2>1. CASE i = j
    BY <2>1
  <2>2. CASE i # j
    <3>1. OnWay(i) /\ job'[i] = job[i] /\ hops' = hops
      BY <2>2 DEF WInv
    <3>. QED  BY <3>1 DEF OnWay, Clean, Active
  <2>. QED  BY <2>1, <2>2
<1>2. ASSUME NEW f \in Forwards PROVE Follows(f)'
  <2>1. Follows(f)
    BY DEF WInv
  <2>. QED  BY <2>1 DEF Follows, Exists
<1>3. Ways'
  BY DEF WInv, Ways
<1>. QED
  BY <1>1, <1>2, <1>3 DEF WInv

LEMMA WayEnds ==
    ASSUME WInv, Inv', NEW j \in Jobs, End(j), UNCHANGED <<row, relays, hops, raced>>
    PROVE  WInv'
<1>1. job'[j] = NoJob /\ \A i \in Jobs \ {j} : job'[i] = job[i]
  BY DEF End, WInv, Inv, TypeOK
<1>2. OnWay(j)'
  BY <1>1, OffWay DEF NoJob
<1>. QED
  BY <1>1, <1>2, WayJob

LEMMA BeginWays ==
    ASSUME WInv, Inv', NEW j \in Jobs, NEW ask \in Asks,
           \/ BeginCreate(j, ask)
           \/ \E f \in Forwards : BeginUpdate(j, f, ask) \/ BeginReroute(j, f, ask)
    PROVE  WInv'
<1>s. ASSUME NEW new, Begin(j, new)
      PROVE  /\ job'[j] = new /\ \A i \in Jobs \ {j} : job'[i] = job[i]
             /\ UNCHANGED <<row, relays, hops, raced>>
  BY <1>s DEF Begin, WInv, Inv, TypeOK
<1>t. ASSUME NEW new, Begin(j, new), new.op # "route", new.route = none PROVE WInv'
  <2>1. OnWay(j)'
    BY <1>s, <1>t, OffWay
  <2>. QED  BY <1>s, <1>t, <2>1, WayJob
<1>r. ASSUME NEW new, Begin(j, new), NEW r \in Routes, hops[r] # <<>>, new.op # "route",
             new.route = r, new.rest = Tail(hops[r]), new.relays = {}
      PROVE  WInv'
  <2>1. job'[j] = new /\ hops' = hops
    BY <1>s, <1>r
  <2>2. OnWay(j)'
    BY <1>r, <2>1, StartsAlong
  <2>. QED  BY <1>s, <1>r, <2>2, WayJob
<1>1. CASE \E t \in Tunnels : Begin(j, [Over(t) EXCEPT !.op = "create", !.ask = ask])
  <2>1. PICK t \in Tunnels : Begin(j, [Over(t) EXCEPT !.op = "create", !.ask = ask])
    BY <1>1
  <2>2. PICK new : new = [Over(t) EXCEPT !.op = "create", !.ask = ask]
    OBVIOUS
  <2>3. new.op # "route" /\ new.route = none
    BY <2>2 DEF Over, NoJob
  <2>. QED  BY <1>t, <2>1, <2>2, <2>3
<1>2. CASE \E r \in Routes : /\ hops[r] # <<>>
                             /\ Begin(j, [Along(r) EXCEPT !.op = "create", !.ask = ask])
  <2>1. PICK r \in Routes : /\ hops[r] # <<>>
                            /\ Begin(j, [Along(r) EXCEPT !.op = "create", !.ask = ask])
    BY <1>2
  <2>2. PICK new : new = [Along(r) EXCEPT !.op = "create", !.ask = ask]
    OBVIOUS
  <2>3. /\ new.op # "route" /\ new.route = r /\ new.rest = Tail(hops[r])
        /\ new.relays = {}
    BY <2>2 DEF Along, NoJob
  <2>. QED  BY <1>r, <2>1, <2>2, <2>3
<1>3. ASSUME NEW f \in Forwards, BeginUpdate(j, f, ask) PROVE WInv'
  <2>1. PICK t \in Tunnels :
         IF t # row[f].tunnel \/ ask \notin {NoPort, row[f].in}
         THEN Begin(j, [Over(t) EXCEPT !.op = "update", !.fwd = f, !.ask = ask])
         ELSE Begin(j, [Over(t) EXCEPT !.op = "keep", !.fwd = f,
                                       !.in = row[f].in, !.out = row[f].out])
    BY <1>3 DEF BeginUpdate
  <2>2. PICK new : /\ \/ new = [Over(t) EXCEPT !.op = "update", !.fwd = f, !.ask = ask]
                      \/ new = [Over(t) EXCEPT !.op = "keep", !.fwd = f,
                                       !.in = row[f].in, !.out = row[f].out]
                   /\ Begin(j, new)
    BY <2>1
  <2>3. new.op # "route" /\ new.route = none
    BY <2>2 DEF Over, NoJob
  <2>. QED  BY <1>t, <2>2, <2>3
<1>4. ASSUME NEW f \in Forwards, BeginReroute(j, f, ask) PROVE WInv'
  <2>. DEFINE want == IF ask = NoPort THEN row[f].in ELSE ask
  <2>. HIDE DEF want
  <2>1. PICK r \in Routes : /\ hops[r] # <<>>
          /\ Begin(j, [Along(r) EXCEPT !.op = "update", !.fwd = f, !.ask = want])
    BY <1>4 DEF BeginReroute, want
  <2>2. PICK new : new = [Along(r) EXCEPT !.op = "update", !.fwd = f, !.ask = want]
    OBVIOUS
  <2>3. /\ new.op # "route" /\ new.route = r /\ new.rest = Tail(hops[r])
        /\ new.relays = {}
    BY <2>2 DEF Along, NoJob
  <2>. QED  BY <1>r, <2>1, <2>2, <2>3
<1>. QED
  BY <1>1, <1>2, <1>3, <1>4 DEF BeginCreate

LEMMA ChooseWays ==
    ASSUME WInv, Inv', NEW j \in Jobs, ChooseEntry(j) \/ ChooseOut(j) \/ ChooseRelay(j)
    PROVE  WInv'
<1>i. TypeOK /\ job[j] \in Request /\ OnWay(j) /\ Placed(j)
  BY DEF WInv, Inv, TypeOK
<1>u. UNCHANGED <<row, relays, hops, raced>>
  BY DEF ChooseEntry, ChooseOut, ChooseRelay
<1>e. CASE End(j)
  BY <1>e, <1>u, WayEnds
<1>1. ASSUME ~ End(j), ChooseEntry(j) \/ ChooseOut(j) PROVE WInv'
  <2>1. PICK new : /\ job' = [job EXCEPT ![j] = new]
                   /\ new.op = job[j].op /\ new.clean = job[j].clean
                   /\ new.route = job[j].route /\ new.rest = job[j].rest
                   /\ new.relays = job[j].relays
    <3>1. CASE ChooseEntry(j)
      <4>1. PICK p : job' = [job EXCEPT ![j].in = p, ![j].ask = NoPort]
        BY <1>1, <3>1 DEF ChooseEntry
      <4>2. PICK new : new = [job[j] EXCEPT !.in = p, !.ask = NoPort]
        OBVIOUS
      <4>3. job' = [job EXCEPT ![j] = new]
        BY <4>1, <4>2
      <4>4. /\ new.op = job[j].op /\ new.clean = job[j].clean
            /\ new.route = job[j].route /\ new.rest = job[j].rest
            /\ new.relays = job[j].relays
        BY <1>i, <4>2 DEF Request
      <4>. QED  BY <4>3, <4>4
    <3>2. CASE ChooseOut(j)
      <4>1. PICK p : job' = [job EXCEPT ![j].out = p]
        BY <1>1, <3>2 DEF ChooseOut
      <4>2. PICK new : new = [job[j] EXCEPT !.out = p]
        OBVIOUS
      <4>3. job' = [job EXCEPT ![j] = new]
        BY <4>1, <4>2
      <4>4. /\ new.op = job[j].op /\ new.clean = job[j].clean
            /\ new.route = job[j].route /\ new.rest = job[j].rest
            /\ new.relays = job[j].relays
        BY <1>i, <4>2 DEF Request
      <4>. QED  BY <4>3, <4>4
    <3>. QED  BY <1>1, <3>1, <3>2
  <2>2. job'[j] = new /\ \A i \in Jobs \ {j} : job'[i] = job[i]
    BY <1>i, <2>1 DEF TypeOK
  <2>3. OnWay(j)'
    <3>1. \A s, k : AtHop(job[j], s, k) => AtHop(new, s, k)
      BY <2>1 DEF AtHop
    <3>2. /\ job'[j].op = job[j].op /\ job'[j].route = job[j].route
          /\ job'[j].rest = job[j].rest
          /\ Clean(j)' => Clean(j)
      BY <2>1, <2>2 DEF Clean, Active
    <3>. QED  BY <1>i, <1>u, <2>2, <3>1, <3>2 DEF OnWay
  <2>. QED  BY <1>u, <2>2, <2>3, WayJob
<1>2. ASSUME ~ End(j), ChooseRelay(j) PROVE WInv'
  <2>. DEFINE n == Head(job[j].rest)
              more == Tail(job[j].rest)
  <2>1. PICK p : job' = [job EXCEPT ![j].out = p, ![j].rest = more,
                                    ![j].relays = job[j].relays \cup {<<n, p>>}]
    BY <1>2 DEF ChooseRelay
  <2>a. /\ job[j].rest \in Seq(Nodes) /\ job[j].rest # <<>>
        /\ job[j].op \in {"create", "update"}
    BY <1>2, <1>i DEF ChooseRelay, Request
  <2>b. /\ n = job[j].rest[1] /\ Len(job[j].rest) >= 1 /\ Len(job[j].rest) \in Nat
        /\ more \in Seq(Nodes) /\ Len(more) = Len(job[j].rest) - 1
        /\ \A i \in 1..Len(more) : more[i] = job[j].rest[i + 1]
    BY <2>a
  <2>. HIDE DEF n, more
  <2>2. PICK new : new = [job[j] EXCEPT !.out = p, !.rest = more,
                                    !.relays = job[j].relays \cup {<<n, p>>}]
    OBVIOUS
  <2>3. /\ new.op = job[j].op /\ new.clean = job[j].clean /\ new.route = job[j].route
        /\ new.rest = more /\ new.relays = job[j].relays \cup {<<n, p>>}
    BY <1>i, <2>2 DEF Request
  <2>4. job' = [job EXCEPT ![j] = new]
    BY <2>1, <2>2
  <2>5. job'[j] = new /\ \A i \in Jobs \ {j} : job'[i] = job[i]
    BY <1>i, <2>4 DEF TypeOK
  <2>6. OnWay(j)'
    <3>1. CASE ~ Clean(j) \/ job[j].route = none
      BY <2>3, <2>5, <2>a, <3>1, OffWay DEF Clean, Active
    <3>2. CASE Clean(j) /\ job[j].route # none
      <4>1. job[j].route \in Routes
        BY <1>i, <3>2 DEF Request
      <4>2. hops[job[j].route] \in Paths
        BY <1>i, <3>2, <4>1 DEF WInv, Ways, Placed
      <4>3. PICK s \in Paths : s = hops[job[j].route]
        BY <4>2
      <4>4. PICK k \in 1..Len(s) : AtHop(job[j], s, k)
        BY <1>i, <3>2, <4>3 DEF OnWay
      <4>5. Len(s) \in Nat
        BY PortAssumption
      <4>6. Len(job[j].rest) = Len(s) - k /\ k \in Nat
        BY <4>4, <4>5 DEF AtHop
      <4>7. k + 1 <= Len(s) /\ 1 \in 1..Len(job[j].rest)
        BY <2>b, <4>5, <4>6
      <4>8. n = s[k + 1]
        BY <2>b, <4>4, <4>7 DEF AtHop
      <4>9. Serves(job[j].relays, s, k)
        BY <4>4 DEF AtHop
      <4>r. PICK R : R = job[j].relays
        OBVIOUS
      <4>s. Serves(R \cup {<<s[k + 1], p>>}, s, k + 1)
        BY <4>7, <4>9, <4>r, ServesMore
      <4>10. Serves(new.relays, s, k + 1)
        BY <2>3, <4>8, <4>r, <4>s
      <4>11. Len(new.rest) = Len(s) - (k + 1)
        BY <2>3, <2>b, <4>5, <4>6
      <4>12. ASSUME NEW i \in 1..Len(new.rest) PROVE new.rest[i] = s[(k + 1) + i]
        <5>1. /\ i + 1 \in 1..Len(job[j].rest) /\ i \in Nat
              /\ new.rest[i] = job[j].rest[i + 1]
          BY <2>3, <2>b, <4>12
        <5>2. job[j].rest[i + 1] = s[k + (i + 1)]
          BY <4>4, <5>1 DEF AtHop
        <5>3. k + (i + 1) = (k + 1) + i
          BY <4>6, <5>1
        <5>. QED  BY <5>1, <5>2, <5>3
      <4>13. AtHop(new, s, k + 1) /\ k + 1 \in 1..Len(s)
        BY <4>5, <4>6, <4>7, <4>10, <4>11, <4>12 DEF AtHop
      <4>14. hops'[job'[j].route] = s
        BY <1>u, <2>3, <2>5, <4>3
      <4>15. \E m \in 1..Len(hops'[job'[j].route]) : AtHop(job'[j], hops'[job'[j].route], m)
        BY <2>5, <4>13, <4>14
      <4>. QED  BY <2>3, <2>5, <2>a, <4>15 DEF OnWay
    <3>. QED  BY <3>1, <3>2
  <2>. QED  BY <1>u, <2>5, <2>6, WayJob
<1>. QED
  BY <1>e, <1>1, <1>2

\* A request saves the row and the relay ports of one forward.
LEMMA WaySaved ==
    ASSUME WInv, Inv', NEW j \in Jobs, NEW f \in Forwards, Saved(j), Racing(j, f),
           hops' = hops, \A g \in Forwards \ {f} : row'[g] = row[g] /\ relays'[g] = relays[g],
           Follows(f)'
    PROVE  WInv'
<1>1. ASSUME NEW i \in Jobs PROVE OnWay(i)'
  <2>1. CASE job'[i] = NoJob
    BY <2>1, OffWay DEF NoJob
  <2>2. CASE job'[i] # NoJob
    <3>1. job'[i] = [job[i] EXCEPT !.clean = FALSE] /\ job[i] \in Request
      BY <2>2 DEF Saved, Idle, WInv, Inv, TypeOK
    <3>2. ~ Clean(i)' /\ job'[i].op = job[i].op /\ job'[i].rest = job[i].rest
      BY <3>1 DEF Request, Clean
    <3>. QED  BY <3>2 DEF WInv, OnWay
  <2>. QED  BY <2>1, <2>2
<1>2. ASSUME NEW g \in Forwards PROVE Follows(g)'
  <2>1. CASE g = f
    BY <2>1
  <2>2. CASE g # f
    <3>1. g \in raced => g \in raced'
      BY <2>2 DEF Racing
    <3>2. Follows(g) /\ row'[g] = row[g] /\ relays'[g] = relays[g]
      BY <2>2 DEF WInv
    <3>. QED  BY <3>1, <3>2 DEF Follows, Exists
  <2>. QED  BY <2>1, <2>2
<1>3. Ways'
  BY DEF WInv, Ways
<1>. QED
  BY <1>1, <1>2, <1>3 DEF WInv

\* A request that has chosen all its ports has been along the whole route.
LEMMA Arrived ==
    ASSUME WInv, NEW j \in Jobs, Clean(j), Chosen(j), job[j].route # none
    PROVE  /\ hops[job[j].route] # <<>>
           /\ Serves(job[j].relays, hops[job[j].route], Len(hops[job[j].route]))
<1>i. job[j] \in Request /\ OnWay(j) /\ Placed(j)
  BY DEF WInv, Inv, TypeOK
<1>1. hops[job[j].route] \in Paths /\ hops[job[j].route] # <<>>
  BY <1>i DEF WInv, Ways, Placed, Request
<1>2. PICK s \in Paths : s = hops[job[j].route]
  BY <1>1
<1>3. PICK k \in 1..Len(s) : AtHop(job[j], s, k)
  BY <1>2, <1>i DEF OnWay
<1>4. Len(s) \in Nat /\ k \in Nat /\ Len(job[j].rest) = 0
  BY PortAssumption DEF Chosen
<1>5. k = Len(s) /\ Serves(job[j].relays, s, k)
  BY <1>3, <1>4 DEF AtHop
<1>. QED
  BY <1>1, <1>2, <1>5

LEMMA SaveCreateWay ==
    ASSUME WInv, Inv', NEW j \in Jobs, SaveCreate(j)
    PROVE  WInv'
<1>i. TypeOK /\ Placed(j) /\ Inv
  BY DEF WInv, Inv
<1>1. PICK f \in Forwards :
         /\ row[f] = Unborn
         /\ \E o \in (IF job[j].route = none THEN {"user", "admin"} ELSE {"admin"}) :
              row' = [row EXCEPT ![f] = [status |-> "saved", tunnel |-> job[j].tunnel,
                                         route |-> job[j].route, in |-> job[j].in,
                                         out |-> job[j].out, owner |-> o]]
         /\ relays' = [relays EXCEPT ![f] = job[j].relays]
         /\ Racing(j, f)
  BY DEF SaveCreate
<1>2. /\ row'[f].route = job[j].route /\ relays'[f] = job[j].relays
      /\ \A g \in Forwards \ {f} : row'[g] = row[g] /\ relays'[g] = relays[g]
  BY <1>1, <1>i DEF TypeOK
<1>3. hops' = hops /\ Saved(j) /\ Active(j) /\ Chosen(j)
  BY DEF SaveCreate, Active
<1>4. Follows(f)'
  <2>1. CASE ~ job[j].clean
    BY <1>1, <2>1 DEF Racing, Follows
  <2>2. CASE job[j].clean /\ job[j].route # none
    <3>1. /\ hops[job[j].route] # <<>>
          /\ Serves(job[j].relays, hops[job[j].route], Len(hops[job[j].route]))
      BY <1>3, <2>2, Arrived DEF Clean
    <3>. QED  BY <1>2, <1>3, <2>2, <3>1 DEF Follows
  <2>3. CASE job[j].route = none
    BY <1>2, <1>3, <1>i, <2>3 DEF Follows, Placed
  <2>. QED  BY <2>1, <2>2, <2>3
<1>. QED
  BY <1>1, <1>2, <1>3, <1>4, WaySaved

LEMMA SaveUpdateWay ==
    ASSUME WInv, Inv', NEW j \in Jobs, SaveUpdate(j)
    PROVE  WInv'
<1>i. TypeOK /\ Placed(j) /\ Current(j)
  BY DEF WInv, Inv
<1>0. PICK f \in Forwards : f = job[j].fwd
  BY <1>i DEF SaveUpdate, TypeOK, Directed
<1>1. /\ job[j].op \in {"update", "keep"} /\ job[j].route = none /\ Active(j)
      /\ hops' = hops /\ relays' = relays /\ Saved(j) /\ Racing(j, f)
      /\ Follows(f) /\ Bare(f)
  BY <1>0 DEF SaveUpdate, Active, WInv, Inv
<1>2. CASE ~ Exists(f)
  <2>1. row' = row
    BY <1>0, <1>2 DEF SaveUpdate
  <2>2. Follows(f)'
    BY <1>2, <2>1 DEF Follows, Exists
  <2>. QED  BY <1>1, <2>1, <2>2, WaySaved
<1>3. CASE Exists(f)
  <2>1. row' = [row EXCEPT ![f] = [row[f] EXCEPT !.tunnel = job[j].tunnel,
                                       !.in = job[j].in, !.out = job[j].out]]
    BY <1>0, <1>3 DEF SaveUpdate
  <2>t. row[f] \in Row
    BY <1>i DEF TypeOK
  <2>2. /\ row'[f] = [row[f] EXCEPT !.tunnel = job[j].tunnel,
                                     !.in = job[j].in, !.out = job[j].out]
        /\ \A g \in Forwards \ {f} : row'[g] = row[g] /\ relays'[g] = relays[g]
    BY <1>1, <1>i, <2>1 DEF TypeOK
  <2>3. row'[f].route = row[f].route /\ relays'[f] = relays[f]
    BY <1>1, <2>2, <2>t DEF Row
  <2>4. Follows(f)'
    <3>1. CASE ~ job[j].clean
      BY <1>1, <3>1 DEF Racing, Follows
    <3>2. CASE job[j].clean
      <4>0. row[f] # Gone
        BY <1>3, BornExists
      <4>1. row[f].route = none /\ row[f] # Gone
        BY <1>0, <1>1, <1>3, <1>i, <3>2, <4>0 DEF Current, Clean
      <4>2. relays[f] = {}
        BY <1>1, <4>1 DEF Bare
      <4>. QED  BY <2>3, <4>1, <4>2 DEF Follows
    <3>. QED  BY <3>1, <3>2
  <2>. QED  BY <1>1, <2>2, <2>4, WaySaved
<1>. QED
  BY <1>2, <1>3

LEMMA SaveRerouteWay ==
    ASSUME WInv, Inv', NEW j \in Jobs, SaveReroute(j)
    PROVE  WInv'
<1>i. TypeOK /\ Placed(j) /\ Current(j)
  BY DEF WInv, Inv
<1>0. PICK f \in Forwards : f = job[j].fwd
  BY <1>i DEF SaveReroute, TypeOK, Directed
<1>1. /\ job[j].route # none /\ Active(j) /\ Chosen(j)
      /\ hops' = hops /\ Saved(j) /\ Racing(j, f) /\ row[f] \in Row
      /\ relays' = [relays EXCEPT ![f] = job[j].relays]
  BY <1>0, <1>i DEF SaveReroute, Active, TypeOK
<1>2. row' = IF Exists(f)
              THEN [row EXCEPT ![f] = [row[f] EXCEPT !.tunnel = none,
                       !.route = job[j].route, !.in = job[j].in, !.out = job[j].out]]
              ELSE row
  BY <1>0 DEF SaveReroute
<1>4. /\ \A g \in Forwards \ {f} : row'[g] = row[g] /\ relays'[g] = relays[g]
      /\ relays'[f] = job[j].relays
  BY <1>1, <1>2, <1>i DEF TypeOK
<1>5. Follows(f)'
  <2>1. CASE ~ Exists(f)
    BY <1>2, <2>1 DEF Follows, Exists
  <2>2. CASE ~ job[j].clean
    BY <1>1, <2>2 DEF Racing, Follows
  <2>3. CASE Exists(f) /\ job[j].clean
    <3>1. row'[f] = [row[f] EXCEPT !.tunnel = none,
                       !.route = job[j].route, !.in = job[j].in, !.out = job[j].out]
      BY <1>2, <1>i, <2>3 DEF TypeOK
    <3>2. row'[f].route = job[j].route
      BY <1>1, <3>1 DEF Row
    <3>3. /\ hops[job[j].route] # <<>>
          /\ Serves(job[j].relays, hops[job[j].route], Len(hops[job[j].route]))
      BY <1>1, <2>3, Arrived DEF Clean
    <3>. QED  BY <1>1, <1>4, <3>2, <3>3 DEF Follows
  <2>. QED  BY <2>1, <2>2, <2>3
<1>. QED
  BY <1>1, <1>4, <1>5, WaySaved

LEMMA DropWay ==
    ASSUME WInv, Inv', NEW f \in Forwards, NEW rest, Drop(f, rest),
           UNCHANGED job \/ \E j \in Jobs : End(j)
    PROVE  WInv'
<1>i. TypeOK
  BY DEF WInv, Inv
<1>1. /\ row'[f] = Gone /\ hops' = hops /\ raced' = raced
      /\ \A g \in Forwards \ {f} : row'[g] = row[g] /\ relays'[g] = relays[g]
  BY <1>i DEF Drop, TypeOK
<1>2. ASSUME NEW i \in Jobs PROVE OnWay(i)'
  <2>1. CASE job'[i] = NoJob
    BY <2>1, OffWay DEF NoJob
  <2>2. CASE job'[i] = job[i]
    BY <1>1, <2>2 DEF WInv, OnWay, Clean, Active
  <2>3. job'[i] = NoJob \/ job'[i] = job[i]
    BY <1>i DEF End, TypeOK
  <2>. QED  BY <2>1, <2>2, <2>3
<1>3. ASSUME NEW g \in Forwards PROVE Follows(g)'
  <2>0. Gone.status # "saved"
    BY DEF Gone
  <2>1. CASE g = f
    BY <1>1, <2>0, <2>1 DEF Follows, Exists
  <2>2. CASE g # f
    BY <1>1, <2>2 DEF WInv, Follows, Exists
  <2>. QED  BY <2>1, <2>2
<1>4. Ways'
  BY <1>1 DEF WInv, Ways
<1>. QED
  BY <1>2, <1>3, <1>4 DEF WInv

LEMMA ReplaceWay ==
    ASSUME WInv, Inv', NEW j \in Jobs, ReplaceRoute(j)
    PROVE  WInv'
<1>i. TypeOK /\ OnWay(j) /\ Ways
  BY DEF WInv, Inv
<1>1. /\ hops' = [hops EXCEPT ![job[j].route] = job[j].rest]
      /\ raced' = raced \cup {f \in Forwards : row[f].route = job[j].route}
      /\ Saved(j) /\ row' = row /\ relays' = relays
      /\ job[j].rest \in Paths \cup {<<>>}
  BY <1>i DEF ReplaceRoute, OnWay
<1>2. ASSUME NEW r \in Routes
      PROVE  hops'[r] = IF r = job[j].route THEN job[j].rest ELSE hops[r]
  BY <1>1, <1>i DEF TypeOK
<1>3. Ways'
  BY <1>1, <1>2, <1>i DEF Ways
<1>4. ASSUME NEW f \in Forwards PROVE Follows(f)'
  <2>1. CASE row[f].route = job[j].route
    BY <1>1, <2>1 DEF Follows
  <2>2. CASE row[f].route # job[j].route
    <3>1. row[f].route \in Routes \cup {none}
      BY <1>i DEF TypeOK, Row
    <3>2. row[f].route # none => hops'[row[f].route] = hops[row[f].route]
      BY <1>2, <2>2, <3>1
    <3>3. Follows(f) /\ (f \notin raced' => f \notin raced)
      BY <1>1 DEF WInv
    <3>. QED  BY <1>1, <3>2, <3>3 DEF Follows, Exists
  <2>. QED  BY <2>1, <2>2
<1>5. ASSUME NEW i \in Jobs PROVE OnWay(i)'
  <2>1. CASE job'[i] = NoJob
    BY <2>1, OffWay DEF NoJob
  <2>2. CASE job'[i] # NoJob
    <3>1. job'[i] = [job[i] EXCEPT !.clean = FALSE] /\ job[i] \in Request
      BY <1>1, <1>i, <2>2 DEF Saved, Idle, TypeOK
    <3>2. ~ Clean(i)' /\ job'[i].op = job[i].op /\ job'[i].rest = job[i].rest
      BY <3>1 DEF Request, Clean
    <3>. QED  BY <3>2 DEF WInv, OnWay
  <2>. QED  BY <2>1, <2>2
<1>. QED
  BY <1>3, <1>4, <1>5 DEF WInv

LEMMA OtherWays ==
    ASSUME WInv, Inv', NEW j \in Jobs,
           \/ Abandon(j) \/ Delete(j)
           \/ \E f \in Forwards : BeginDelete(j, f) \/ ForceDelete(j, f) \/ DeleteWithUser(j, f)
           \/ \E r \in Routes : \E path \in Paths \cup {<<>>} : BeginRoute(j, r, path)
    PROVE  WInv'
<1>i. TypeOK
  BY DEF WInv, Inv
<1>s. ASSUME NEW new, Begin(j, new), OnWay(j)' PROVE WInv'
  <2>1. \A i \in Jobs \ {j} : job'[i] = job[i]
    BY <1>i, <1>s DEF Begin, TypeOK
  <2>. QED  BY <1>s, <2>1, WayJob DEF Begin
<1>r. ASSUME NEW new, Begin(j, new) PROVE job'[j] = new
  BY <1>r, <1>i DEF Begin, TypeOK
<1>1. CASE Abandon(j)
  BY <1>1, WayEnds DEF Abandon
<1>2. ASSUME NEW f \in Forwards, BeginDelete(j, f) PROVE WInv'
  <2>1. PICK new : new = [NoJob EXCEPT !.op = "delete", !.fwd = f, !.route = row[f].route]
    OBVIOUS
  <2>2. Begin(j, new) /\ new.op = "delete"
    BY <1>2, <2>1 DEF BeginDelete, NoJob
  <2>3. OnWay(j)'
    BY <1>r, <2>2, OffWay DEF Clean, Active
  <2>. QED  BY <1>s, <2>2, <2>3
<1>3. CASE Delete(j)
  <2>1. PICK f \in Forwards : f = job[j].fwd
    BY <1>3, <1>i DEF Delete, TypeOK, Directed
  <2>2. PICK rest : Drop(f, rest)
    BY <1>3, <2>1 DEF Delete
  <2>. QED  BY <1>3, <2>2, DropWay DEF Delete
<1>4. ASSUME NEW f \in Forwards, ForceDelete(j, f) PROVE WInv'
  BY <1>4, DropWay DEF ForceDelete
<1>5. ASSUME NEW f \in Forwards, DeleteWithUser(j, f) PROVE WInv'
  BY <1>5, DropWay DEF DeleteWithUser
<1>6. ASSUME NEW r \in Routes, NEW path \in Paths \cup {<<>>}, BeginRoute(j, r, path)
      PROVE  WInv'
  <2>1. PICK new : new = [NoJob EXCEPT !.op = "route", !.route = r, !.rest = path]
    OBVIOUS
  <2>2. Begin(j, new) /\ new.op = "route" /\ new.rest = path
    BY <1>6, <2>1 DEF BeginRoute, NoJob
  <2>3. OnWay(j)'
    BY <1>r, <2>2 DEF OnWay, Clean, Active
  <2>. QED  BY <1>s, <2>2, <2>3
<1>. QED
  BY <1>1, <1>2, <1>3, <1>4, <1>5, <1>6

LEMMA WaysKept == WInv /\ [Next]_vars => WInv'
<1>1. ASSUME WInv, Next PROVE WInv'
  <2>1. Inv'
    BY <1>1, Inductive DEF WInv
  <2>. QED
    BY <1>1, <2>1, BeginWays, ChooseWays, SaveCreateWay, SaveUpdateWay, SaveRerouteWay,
       ReplaceWay, OtherWays DEF Next
<1>2. ASSUME WInv, UNCHANGED vars PROVE WInv'
  <2>1. Inv' /\ row' = row /\ relays' = relays /\ hops' = hops /\ job' = job /\ raced' = raced
    BY <1>2, Inductive DEF WInv, vars
  <2>2. Ways'
    BY <1>2, <2>1 DEF WInv, Ways
  <2>3. ASSUME NEW j \in Jobs PROVE OnWay(j)'
    BY <1>2, <2>1 DEF WInv, OnWay, Clean, Active
  <2>4. ASSUME NEW f \in Forwards PROVE Follows(f)'
    BY <1>2, <2>1 DEF WInv, Follows, Exists
  <2>. QED  BY <2>1, <2>2, <2>3, <2>4 DEF WInv
<1>. QED
  BY <1>1, <1>2

LEMMA WaysInitially == Init => WInv
<1>. SUFFICES ASSUME Init PROVE WInv
  OBVIOUS
<1>1. Inv
  BY Initially
<1>2. Ways
  BY DEF Init, Ways
<1>3. ASSUME NEW j \in Jobs PROVE OnWay(j)
  BY DEF Init, NoJob, OnWay, Clean, Active
<1>4. ASSUME NEW f \in Forwards PROVE Follows(f)
  BY DEF Init, Unborn, Follows, Exists
<1>. QED
  BY <1>1, <1>2, <1>3, <1>4 DEF WInv

\* The rows of relay ports are on the hops of the forward's route after the entry, one
\* each, unless something was saved while the ports were chosen or the route was
\* replaced: for routes of any length, any number of forwards and of requests.
THEOREM RelaysFollow == Spec => []RelaysFollowRoute
<1>1. ASSUME WInv PROVE RelaysFollowRoute
  <2>. DEFINE Path(f) == IF row[f].route = none THEN <<>> ELSE Tail(hops[row[f].route])
  <2>1. ASSUME NEW f \in Forwards, Exists(f), f \notin raced
        PROVE  /\ {x[1] : x \in relays[f]} = {Path(f)[i] : i \in 1..Len(Path(f))}
               /\ \A x, y \in relays[f] : x[1] = y[1] => x = y
    <3>0. PICK path : path = Path(f)
      OBVIOUS
    <3>1. Follows(f) /\ row[f] \in Row
      BY <1>1 DEF WInv, Inv, TypeOK
    <3>2. CASE row[f].route = none
      <4>1. relays[f] = {} /\ path = <<>>
        BY <2>1, <3>0, <3>1, <3>2 DEF Follows
      <4>2. Len(path) = 0 /\ 1..0 = {}
        BY <4>1
      <4>3. {x[1] : x \in relays[f]} = {path[i] : i \in 1..Len(path)}
        BY <4>1, <4>2
      <4>. QED  BY <3>0, <4>1, <4>3
    <3>3. CASE row[f].route # none
      <4>1. hops[row[f].route] \in Paths
        BY <1>1, <2>1, <3>1, <3>3 DEF Follows, WInv, Ways, Row
      <4>2. PICK s \in Paths : s = hops[row[f].route]
        BY <4>1
      <4>3. Serves(relays[f], s, Len(s)) /\ path = Tail(s)
        BY <2>1, <3>0, <3>1, <3>3, <4>2 DEF Follows
      <4>4. {x[1] : x \in relays[f]} = {path[i] : i \in 1..Len(path)}
        BY <4>3, ServesTail
      <4>5. \A x, y \in relays[f] : x[1] = y[1] => x = y
        BY <4>3 DEF Serves
      <4>. QED  BY <3>0, <4>4, <4>5
    <3>. QED  BY <3>2, <3>3
  <2>. QED  BY <2>1 DEF RelaysFollowRoute
<1>. QED
  BY <1>1, WaysInitially, WaysKept, PTL DEF Spec

=============================================================================

---------------------------- MODULE XrayNodeProofs ----------------------------
(***************************************************************************)
(* XrayNode for every set of inbounds and users and any number of          *)
(* processes and faults: never two processes of Xray, what Xray serves is  *)
(* in its file, and a command that fails leaves what there was, as long as *)
(* the end of a process is noticed before the next one is started.         *)
(***************************************************************************)
EXTENDS XrayNode, TLAPS

States == {"unused", "up", "doomed", "exited", "gone"}

ProcOK ==
    /\ proc = [p \in Procs |-> proc[p]]
    /\ \A p \in Procs : /\ proc[p] = [state |-> proc[p].state, in |-> proc[p].in]
                        /\ proc[p].state \in States

\* As long as an end has not been noticed, nothing else runs: what is noticed late
\* cannot be taken for the end of another process.
NoticedAlone == Unnoticed # {} => Alive = {}

IInv == ProcOK /\ OneProcess /\ NoticedAlone

LEMMA Initially == Init => IInv
BY DEF Init, IInv, ProcOK, OneProcess, NoticedAlone, States, Alive, Unnoticed

\* Steps that change what processes serve, and none that lives or has ended.
LEMMA SameStates ==
    ASSUME IInv, UNCHANGED <<cmd, running>>, ProcOK',
           \A p \in Procs : proc'[p].state = proc[p].state
    PROVE  IInv'
BY DEF IInv, OneProcess, NoticedAlone, Alive, Unnoticed

LEMMA Unchanged ==
    ASSUME IInv, UNCHANGED <<proc, cmd, running>>
    PROVE  IInv'
BY DEF IInv, ProcOK, OneProcess, NoticedAlone, Alive, Unnoticed

LEMMA Served ==
    ASSUME ProcOK, NEW p \in Procs, NEW x, proc' = [proc EXCEPT ![p].in = x]
    PROVE  ProcOK' /\ \A q \in Procs : proc'[q].state = proc[q].state
<1>1. proc'[p] = [state |-> proc[p].state, in |-> x]
  BY DEF ProcOK
<1>2. \A q \in Procs : q # p => proc'[q] = proc[q]
  BY DEF ProcOK
<1>3. proc' = [q \in Procs |-> proc'[q]]
  BY DEF ProcOK
<1>4. QED
  BY <1>1, <1>2, <1>3 DEF ProcOK

LEMMA ServeKeeps ==
    ASSUME IInv, NEW t, NEW x, Serve(t, x), UNCHANGED <<cmd, running>>
    PROVE  IInv'
<1>1. PICK p \in Up : proc' = [proc EXCEPT ![p].in[t] = x]
  BY DEF Serve
<1>2. p \in Procs
  BY DEF Up
<1>3. proc' = [proc EXCEPT ![p].in = [proc[p].in EXCEPT ![t] = x]]
  BY <1>1, <1>2 DEF IInv, ProcOK
<1>4. QED
  BY <1>2, <1>3, Served, SameStates DEF IInv

LEMMA EndedKeeps ==
    ASSUME IInv, NEW p \in Procs, p \in Alive, Ended(p), cmd' = cmd
    PROVE  IInv'
<1>1. proc'[p] = [state |-> "exited", in |-> Bare] /\ \A q \in Procs : q # p => proc'[q] = proc[q]
  BY DEF Ended, IInv, ProcOK
<1>2. proc' = [q \in Procs |-> proc'[q]]
  BY DEF Ended, IInv, ProcOK
<1>3. ProcOK'
  BY <1>1, <1>2 DEF IInv, ProcOK, States
<1>4. Alive' = {}
  BY <1>1 DEF IInv, OneProcess, Alive
<1>5. QED
  BY <1>3, <1>4 DEF IInv, OneProcess, NoticedAlone

\* A process is started only when none lives, and none has ended unnoticed.
LEMMA SpawnKeeps ==
    ASSUME Prompt, IInv, ~ running, NEW p \in Procs, NEW s \in {"up", "doomed"}, Spawn(p, s)
    PROVE  IInv'
<1>1. proc'[p] = [state |-> s, in |-> file.in] /\ \A q \in Procs : q # p => proc'[q] = proc[q]
  BY DEF Spawn, IInv, ProcOK
<1>2. proc' = [q \in Procs |-> proc'[q]]
  BY DEF Spawn, IInv, ProcOK
<1>3. ProcOK'
  BY <1>1, <1>2 DEF IInv, ProcOK, States
<1>4. Alive = {} /\ Unnoticed = {}
  BY DEF Spawn, IInv, OneProcess
<1>5. Alive' = {p} /\ Unnoticed' = {}
  BY <1>1, <1>4 DEF Alive, Unnoticed
<1>6. QED
  BY <1>3, <1>5 DEF Spawn, IInv, OneProcess, NoticedAlone

LEMMA StartKeeps ==
    ASSUME Prompt, IInv, NEW g, Start(g)
    PROVE  IInv'
<1>1. CASE UNCHANGED <<proc, cmd, running>>
  BY <1>1, Unchanged
<1>2. CASE ~ running /\ \E p \in Procs, s \in {"up", "doomed"} : Spawn(p, s)
  BY <1>2, SpawnKeeps
<1>3. CASE ~ running /\ cmd' = 0 /\ UNCHANGED <<proc, running>>
  BY <1>3 DEF IInv, ProcOK, OneProcess, NoticedAlone, Alive, Unnoticed
<1>4. QED
  BY <1>1, <1>2, <1>3 DEF Start

LEMMA StopKeeps ==
    ASSUME IInv, NEW g, Stop(g)
    PROVE  IInv'
<1>1. CASE running /\ cmd \in Alive
  <2>1. cmd \in Procs /\ Ended(cmd) /\ cmd' = cmd
    BY <1>1 DEF Stop, Alive
  <2>2. QED
    BY <1>1, <2>1, EndedKeeps
<1>2. CASE ~ (running /\ cmd \in Alive)
  <2>1. proc' = proc /\ cmd' = cmd /\ running' = FALSE
    BY <1>2 DEF Stop
  <2>2. Alive = {}
    BY <1>2 DEF IInv, OneProcess
  <2>3. QED
    BY <2>1, <2>2 DEF IInv, ProcOK, OneProcess, NoticedAlone, Alive, Unnoticed
<1>3. QED
  BY <1>1, <1>2

LEMMA NoticeKeeps ==
    ASSUME IInv, NEW p \in Procs, Notice(p)
    PROVE  IInv'
<1>1. proc'[p] = [state |-> "gone", in |-> proc[p].in] /\ \A q \in Procs : q # p => proc'[q] = proc[q]
  BY DEF Notice, IInv, ProcOK
<1>2. proc' = [q \in Procs |-> proc'[q]]
  BY DEF Notice, IInv, ProcOK
<1>3. ProcOK'
  BY <1>1, <1>2 DEF IInv, ProcOK, States
<1>4. Alive = {}
  BY DEF Notice, IInv, NoticedAlone, Unnoticed
<1>5. Alive' = {}
  BY <1>1, <1>4 DEF Alive
<1>6. QED
  BY <1>3, <1>5 DEF IInv, OneProcess, NoticedAlone

LEMMA ChangeKeeps ==
    ASSUME IInv, NEW g, Change(g)
    PROVE  IInv'
<1>1. CASE Prepare(g) \/ Edit(g) \/ Revert(g)
  BY <1>1, Unchanged DEF Prepare, Edit, Revert
<1>2. CASE AddInbound(g)
  BY <1>2, Unchanged, ServeKeeps DEF AddInbound
<1>3. CASE RemoveInbound(g)
  BY <1>3, Unchanged, ServeKeeps DEF RemoveInbound
<1>4. ASSUME NEW step, ChangeUser(g, step) PROVE IInv'
  <2>1. CASE UNCHANGED proc
    BY <1>4, <2>1, Unchanged DEF ChangeUser
  <2>2. CASE ~ UNCHANGED proc
    <3> DEFINE t == job[g].tag
               u == job[g].user
               n == IF step = "adu" THEN 1 ELSE 0
    <3>1. PICK p \in Up : proc' = [proc EXCEPT ![p].in[t].n[u] = n]
      BY <1>4, <2>2 DEF ChangeUser
    <3> HIDE DEF t, u, n
    <3>2. p \in Procs
      BY DEF Up
    <3>3. proc' = [proc EXCEPT ![p].in = [proc[p].in EXCEPT ![t].n[u] = n]]
      BY <3>1, <3>2 DEF IInv, ProcOK
    <3>4. QED
      BY <1>4, <3>2, <3>3, Served, SameStates DEF IInv, ChangeUser
  <2>3. QED
    BY <2>1, <2>2
<1>5. CASE Drop(g)
  BY <1>5, Unchanged, ServeKeeps DEF Drop
<1>6. CASE ReAdd(g)
  BY <1>6, Unchanged, ServeKeeps DEF ReAdd
<1>7. QED
  BY <1>1, <1>2, <1>3, <1>4, <1>5, <1>6 DEF Change

LEMMA Preserved == ASSUME Prompt PROVE IInv /\ [Next]_vars => IInv'
<1> SUFFICES ASSUME IInv, [Next]_vars PROVE IInv'
  OBVIOUS
<1>1. CASE Command \/ Switch
  BY <1>1, Unchanged DEF Command, Switch, Begin
<1>2. ASSUME NEW g \in Goroutines, Manage(g) PROVE IInv'
  <2>1. CASE Start(g)
    BY <2>1, StartKeeps
  <2>2. CASE Stop(g)
    BY <2>2, StopKeeps
  <2>3. CASE Settle(g) \/ Look(g) \/ Verify(g) \/ Write(g) \/ Launch(g) \/ Back(g)
    BY <2>3, Unchanged DEF Settle, Look, Verify, Write, Launch, Back
  <2>4. CASE \E step \in {"download", "backup", "replace"} : Copy(g, step)
    BY <2>4, Unchanged DEF Copy
  <2>5. QED
    BY <1>2, <2>1, <2>2, <2>3, <2>4 DEF Manage
<1>3. ASSUME NEW g \in Goroutines, Change(g) \/ Finish(g) PROVE IInv'
  BY <1>3, ChangeKeeps, Unchanged DEF Finish
<1>4. ASSUME NEW p \in Procs, Exit(p) \/ Crash(p) PROVE IInv'
  <2>1. p \in Alive /\ Ended(p) /\ cmd' = cmd
    BY <1>4 DEF Exit, Crash, Alive
  <2>2. QED
    BY <2>1, EndedKeeps
<1>5. ASSUME NEW p \in Procs, Notice(p) PROVE IInv'
  BY <1>5, NoticeKeeps
<1>6. CASE UNCHANGED vars
  BY <1>6, Unchanged DEF vars
<1>7. QED
  BY <1>1, <1>2, <1>3, <1>4, <1>5, <1>6 DEF Next

\* Commands, a change of version and ends of processes together never start a process
\* beside another, and none lives that the manager does not know, as long as ends are
\* noticed before the next start (manager.go:49-134, 201-316).
THEOREM Alone == ASSUME Prompt PROVE Spec => []OneProcess
<1>1. IInv => OneProcess
  BY DEF IInv
<1>2. IInv /\ [Next]_vars => IInv'
  BY Preserved
<1>3. QED
  BY Initially, <1>1, <1>2, PTL DEF Spec
-----------------------------------------------------------------------------
(* Types.                                                                   *)

PlainOps   == {"start", "stop", "restart", "switch"}
InboundOps == {"addInbound", "removeInbound"}
UserOps    == {"addUser", "removeUser"}
ChangeOps  == InboundOps \cup UserOps

Plain    == {"start", "stop", "settle", "download", "backup", "replace"}
Applying == Plain \cup {"write", "launch", "back", "verify"}
ByTag    == Applying \cup {"prepare", "edit", "look", "rmi", "adi"}
ByUser   == {"edit", "look", "adu", "rmu", "drop", "readd", "revert"}

\* The steps a goroutine may have to take.
StepsOf(op) == CASE op \in PlainOps   -> Plain
                 [] op = "apply"      -> Applying
                 [] op \in InboundOps -> ByTag
                 [] op \in UserOps    -> ByUser
                 [] OTHER             -> {}

Fields == DOMAIN NoJob
Shape(j) == j = [x \in Fields |-> j[x]]

SoundContents == {x \in Contents : Sound(x)}

JobOK(j) ==
    /\ Shape(j)
    /\ j.op \in {"idle", "apply"} \cup PlainOps \cup ChangeOps
    /\ j.op = "idle" => j = NoJob
    /\ j.op \in ChangeOps => j.tag \in Tags
    /\ j.op \in UserOps => j.user \in Users
    /\ j.new \in [Tags -> SoundContents] /\ j.old \in [Tags -> Contents]
    /\ j.plan \in Seq(StepsOf(j.op))
    /\ j.had \in BOOLEAN /\ j.removed \in BOOLEAN /\ j.err \in BOOLEAN
    /\ j.clean \in BOOLEAN /\ j.fit \in BOOLEAN
    /\ j.at \in Nat

JobsOK ==
    /\ job = [g \in Goroutines |-> job[g]]
    /\ \A g \in Goroutines : JobOK(job[g])

Types == TypeOK /\ JobsOK

\* What does not change while a goroutine goes on, and what changes only with an error.
Kept(j, k) ==
    /\ k.op = j.op /\ k.tag = j.tag /\ k.user = j.user /\ k.new = j.new
    /\ k.at = j.at /\ k.clean = j.clean


LEMMA Rows ==
    /\ Bare \in [Tags -> SoundContents] /\ SoundContents \subseteq Contents
    /\ NoInbound \in SoundContents
    /\ \A us \in SUBSET Users : Inbound(us) \in SoundContents
<1>1. NoInbound \in SoundContents
  BY DEF NoInbound, SoundContents, Contents, Sound
<1>2. ASSUME NEW us \in SUBSET Users PROVE Inbound(us) \in SoundContents
  BY DEF Inbound, SoundContents, Contents, Sound
<1>3. QED
  BY <1>1, <1>2 DEF Bare, SoundContents

LEMMA NoJobIs ==
    /\ NoJob.op = "idle" /\ NoJob.tag = "" /\ NoJob.user = "" /\ NoJob.new = Bare
    /\ NoJob.plan = <<>> /\ NoJob.had = FALSE /\ NoJob.old = Bare /\ NoJob.removed = FALSE
    /\ NoJob.err = FALSE /\ NoJob.at = 0 /\ NoJob.clean = TRUE /\ NoJob.fit = FALSE
    /\ Shape(NoJob)
BY DEF NoJob, Shape, Fields

LEMMA NoJobOK == JobOK(NoJob)
<1>1. <<>> \in Seq(StepsOf("idle"))
  OBVIOUS
<1>2. Bare \in [Tags -> SoundContents] /\ Bare \in [Tags -> Contents]
  BY Rows
<1>3. NoJob.op \notin ChangeOps /\ NoJob.op \notin UserOps
  BY NoJobIs DEF ChangeOps, InboundOps, UserOps
<1>4. NoJob.new \in [Tags -> SoundContents] /\ NoJob.old \in [Tags -> Contents]
  BY <1>2, NoJobIs
<1>5. NoJob.plan \in Seq(StepsOf(NoJob.op))
  BY <1>1, NoJobIs
<1>6. /\ NoJob.had \in BOOLEAN /\ NoJob.removed \in BOOLEAN /\ NoJob.err \in BOOLEAN
      /\ NoJob.clean \in BOOLEAN /\ NoJob.fit \in BOOLEAN
  BY NoJobIs
<1>7. NoJob.at = 0 /\ NoJob.op = "idle"
  BY NoJobIs
<1>8. Shape(NoJob)
  BY NoJobIs
<1>9. QED
  BY <1>3, <1>4, <1>5, <1>6, <1>7, <1>8 DEF JobOK

LEMMA BusyByOp == ASSUME NEW j, JobOK(j) PROVE j = NoJob <=> j.op = "idle"
BY NoJobIs DEF JobOK

LEMMA StepsAre ==
    /\ \A op \in PlainOps : StepsOf(op) = Plain
    /\ StepsOf("apply") = Applying
    /\ \A op \in InboundOps : StepsOf(op) = ByTag
    /\ \A op \in UserOps : StepsOf(op) = ByUser
<1>1. \A op \in InboundOps : op \notin PlainOps /\ op # "apply"
  BY DEF InboundOps, PlainOps
<1>2. \A op \in UserOps : op \notin PlainOps /\ op # "apply" /\ op \notin InboundOps
  BY DEF UserOps, InboundOps, PlainOps
<1>3. "apply" \notin PlainOps
  BY DEF PlainOps
<1>4. QED
  BY <1>1, <1>2, <1>3 DEF StepsOf

LEMMA PlanOfOK ==
    ASSUME NEW op, op \in {"apply"} \cup PlainOps \cup ChangeOps
    PROVE  PlanOf(op) \in Seq(StepsOf(op))
<1>1. CASE op \in PlainOps
  <2>1. /\ PlanOf("start") = <<"start">> /\ PlanOf("stop") = <<"stop">>
        /\ PlanOf("restart") = <<"stop", "settle", "start">>
        /\ PlanOf("switch") = <<"download", "stop", "settle", "backup", "replace", "start">>
    BY DEF PlanOf
  <2>2. {<<"start">>, <<"stop">>, <<"stop", "settle", "start">>,
         <<"download", "stop", "settle", "backup", "replace", "start">>} \subseteq Seq(Plain)
    BY DEF Plain
  <2>3. QED
    BY <1>1, <2>1, <2>2, StepsAre DEF PlainOps
<1>2. CASE op = "apply"
  <2>1. PlanOf("apply") = <<"write", "launch">>
    BY DEF PlanOf
  <2>2. <<"write", "launch">> \in Seq(Applying)
    BY DEF Applying
  <2>3. QED
    BY <1>2, <2>1, <2>2, StepsAre
<1>3. CASE op \in InboundOps
  <2>1. /\ PlanOf("addInbound") = <<"prepare">>
        /\ PlanOf("removeInbound") = <<"look", "rmi", "edit">>
    BY DEF PlanOf
  <2>2. {<<"prepare">>, <<"look", "rmi", "edit">>} \subseteq Seq(ByTag)
    BY DEF ByTag
  <2>3. QED
    BY <1>3, <2>1, <2>2, StepsAre DEF InboundOps
<1>4. CASE op \in UserOps
  <2>1. /\ PlanOf("addUser") = <<"look", "edit", "adu">>
        /\ PlanOf("removeUser") = <<"look", "edit", "rmu">>
    BY DEF PlanOf
  <2>2. {<<"look", "edit", "adu">>, <<"look", "edit", "rmu">>} \subseteq Seq(ByUser)
    BY DEF ByUser
  <2>3. QED
    BY <1>4, <2>1, <2>2, StepsAre DEF UserOps
<1>5. QED
  BY <1>1, <1>2, <1>3, <1>4 DEF ChangeOps

LEMMA OpKnown ==
    ASSUME NEW j, JobOK(j), j.op # "idle"
    PROVE  j.op \in {"apply"} \cup PlainOps \cup ChangeOps
BY DEF JobOK

\* A goroutine with another plan, ...
Planned(j, p) == [j EXCEPT !.plan = p]

IsWithPlan(j, p, k) ==
    /\ Shape(k) /\ Kept(j, k) /\ k.plan = p
    /\ k.old = j.old /\ k.had = j.had /\ k.removed = j.removed
    /\ k.err = j.err /\ k.fit = j.fit

LEMMA WithPlan ==
    ASSUME NEW j, JobOK(j), NEW p
    PROVE  IsWithPlan(j, p, Planned(j, p))
<1> SUFFICES ASSUME NEW k, k = Planned(j, p) PROVE IsWithPlan(j, p, k)
  OBVIOUS
<1>1. QED
  BY DEF JobOK, Shape, Fields, NoJob, Kept, IsWithPlan, Planned

\* ... after an error, ...
Erring(j, p, f) == [j EXCEPT !.err = TRUE, !.plan = p, !.fit = f]

IsWithError(j, p, f, k) ==
    /\ Shape(k) /\ Kept(j, k) /\ k.plan = p
    /\ k.old = j.old /\ k.had = j.had /\ k.removed = j.removed
    /\ k.err = TRUE /\ k.fit = f

LEMMA WithError ==
    ASSUME NEW j, JobOK(j), NEW p, NEW f
    PROVE  IsWithError(j, p, f, Erring(j, p, f))
<1> SUFFICES ASSUME NEW k, k = Erring(j, p, f) PROVE IsWithError(j, p, f, k)
  OBVIOUS
<1>1. QED
  BY DEF JobOK, Shape, Fields, NoJob, Kept, IsWithError, Erring

\* ... that keeps what the file was, ...
Keeping(j, p, h, o) == [j EXCEPT !.plan = p, !.had = h, !.old = o]

IsWithOld(j, p, h, o, k) ==
    /\ Shape(k) /\ Kept(j, k) /\ k.plan = p
    /\ k.old = o /\ k.had = h /\ k.removed = j.removed
    /\ k.err = j.err /\ k.fit = j.fit

LEMMA WithOld ==
    ASSUME NEW j, JobOK(j), NEW p, NEW h, NEW o
    PROVE  IsWithOld(j, p, h, o, Keeping(j, p, h, o))
<1> SUFFICES ASSUME NEW k, k = Keeping(j, p, h, o) PROVE IsWithOld(j, p, h, o, k)
  OBVIOUS
<1>1. QED
  BY DEF JobOK, Shape, Fields, NoJob, Kept, IsWithOld, Keeping

\* ... or that a user was in it.
Noting(j, p, r) == [j EXCEPT !.plan = p, !.removed = r]

IsWithRemoved(j, p, r, k) ==
    /\ Shape(k) /\ Kept(j, k) /\ k.plan = p
    /\ k.old = j.old /\ k.had = j.had /\ k.removed = r
    /\ k.err = j.err /\ k.fit = j.fit

LEMMA WithRemoved ==
    ASSUME NEW j, JobOK(j), NEW p, NEW r
    PROVE  IsWithRemoved(j, p, r, Noting(j, p, r))
<1> SUFFICES ASSUME NEW k, k = Noting(j, p, r) PROVE IsWithRemoved(j, p, r, k)
  OBVIOUS
<1>1. QED
  BY DEF JobOK, Shape, Fields, NoJob, Kept, IsWithRemoved, Noting

\* A goroutine that goes on keeps its type if what has changed has its own.
LEMMA StillOK ==
    ASSUME NEW j, JobOK(j), j.op # "idle", NEW k, Shape(k), Kept(j, k),
           k.plan \in Seq(StepsOf(j.op)), k.old \in [Tags -> Contents],
           k.had \in BOOLEAN, k.removed \in BOOLEAN, k.err \in BOOLEAN, k.fit \in BOOLEAN
    PROVE  JobOK(k)
<1>1. /\ k.op \in {"idle", "apply"} \cup PlainOps \cup ChangeOps
      /\ (k.op = "idle" => k = NoJob) /\ (k.op \in ChangeOps => k.tag \in Tags)
      /\ (k.op \in UserOps => k.user \in Users) /\ k.new \in [Tags -> SoundContents]
      /\ k.at \in Nat
  BY DEF JobOK, Kept
<1>2. k.clean \in BOOLEAN /\ k.plan \in Seq(StepsOf(k.op))
  BY DEF JobOK, Kept
<1>3. QED
  BY <1>1, <1>2 DEF JobOK

LEMMA OneMoves ==
    ASSUME JobsOK, NEW g \in Goroutines, NEW k, JobOK(k), job' = [job EXCEPT ![g] = k]
    PROVE  JobsOK' /\ job'[g] = k /\ \A h \in Goroutines : h # g => job'[h] = job[h]
BY DEF JobsOK
Alike(j, k) ==
    Kept(j, k) /\ k.old = j.old /\ k.had = j.had /\ k.removed = j.removed

\* What a step of goroutine g is for the goroutines.
Moved(g) == JobsOK' /\ \A h \in Goroutines : h # g => job'[h] = job[h]

LEMMA TailIn == ASSUME NEW S, NEW p \in Seq(S), p # <<>> PROVE Tail(p) \in Seq(S)
OBVIOUS

LEMMA HasPlan ==
    ASSUME JobsOK, NEW g \in Goroutines, job[g].plan # <<>>
    PROVE  /\ JobOK(job[g]) /\ job[g] # NoJob /\ job[g].op # "idle"
           /\ job[g].plan \in Seq(StepsOf(job[g].op))
           /\ Tail(job[g].plan) \in Seq(StepsOf(job[g].op))
           /\ Head(job[g].plan) \in StepsOf(job[g].op)
<1>1. JobOK(job[g]) /\ job[g] # NoJob
  BY NoJobIs DEF JobsOK
<1>2. job[g].op # "idle"
  BY <1>1, BusyByOp
<1>3. job[g].plan \in Seq(StepsOf(job[g].op))
  BY <1>1 DEF JobOK
<1>4. Head(job[g].plan) \in StepsOf(job[g].op)
  BY <1>3
<1>5. QED
  BY <1>1, <1>2, <1>3, <1>4, TailIn

LEMMA TurnIs ==
    ASSUME JobsOK, NEW g \in Goroutines, job[g].plan # <<>>,
           NEW p \in Seq(StepsOf(job[g].op)), Turn(g, p)
    PROVE  /\ Moved(g) /\ Alike(job[g], job'[g]) /\ job'[g].plan = p
           /\ job'[g].err = job[g].err /\ job'[g].fit = job[g].fit
<1>1. JobOK(job[g]) /\ job[g].op # "idle"
  BY HasPlan
<1>2. PICK k : k = Planned(job[g], p) /\ job' = [job EXCEPT ![g] = k]
  BY DEF Turn, Planned
<1>3. /\ Shape(k) /\ Kept(job[g], k) /\ k.plan = p
      /\ k.old = job[g].old /\ k.had = job[g].had /\ k.removed = job[g].removed
      /\ k.err = job[g].err /\ k.fit = job[g].fit
  BY <1>1, <1>2, WithPlan DEF IsWithPlan
<1>4. JobOK(k)
  BY <1>1, <1>3, StillOK DEF JobOK
<1>5. Moved(g) /\ job'[g] = k
  BY <1>2, <1>4, OneMoves DEF Moved
<1>6. QED
  BY <1>3, <1>5 DEF Alike

LEMMA NextIs ==
    ASSUME JobsOK, NEW g \in Goroutines, job[g].plan # <<>>, Next1(g)
    PROVE  /\ Moved(g) /\ Alike(job[g], job'[g]) /\ job'[g].plan = Tail(job[g].plan)
           /\ job'[g].err = job[g].err /\ job'[g].fit = job[g].fit
BY HasPlan, TurnIs DEF Next1

\* What a goroutine does after its first error, and what a reload does after its first.
LEMMA RemedyIn ==
    ASSUME NEW g, job[g].op \in {"apply"} \cup PlainOps \cup ChangeOps, NEW step
    PROVE  Remedy(g, step) \in Seq(StepsOf(job[g].op))
<1>1. CASE job[g].op = "apply"
  <2>1. <<"back", "start">> \in Seq(Applying) /\ <<>> \in Seq(Applying)
    BY DEF Applying, Plain
  <2>2. Remedy(g, step) \in {<<"back", "start">>, <<>>}
    BY <1>1 DEF Remedy
  <2>3. QED
    BY <1>1, <2>1, <2>2, StepsAre
<1>2. CASE job[g].op = "switch"
  <2>1. <<"start">> \in Seq(Plain) /\ <<>> \in Seq(Plain)
    BY DEF Plain
  <2>2. Remedy(g, step) \in {<<"start">>, <<>>}
    BY <1>2 DEF Remedy
  <2>3. "switch" \in PlainOps
    BY DEF PlainOps
  <2>4. QED
    BY <1>2, <2>1, <2>2, <2>3, StepsAre
<1>3. CASE job[g].op \notin {"apply", "switch"}
  <2>1. Remedy(g, step) = <<>>
    BY <1>3 DEF Remedy
  <2>2. QED
    BY <2>1
<1>4. QED
  BY <1>1, <1>2, <1>3

LEMMA FailsIs ==
    ASSUME JobsOK, NEW g \in Goroutines, job[g].plan # <<>>, NEW step, Fails(g, step)
    PROVE  /\ Moved(g) /\ Alike(job[g], job'[g]) /\ job'[g].err = TRUE
           /\ job[g].err => job'[g].plan = <<>>
           /\ ~ job[g].err => job'[g].plan = Remedy(g, step)
           /\ job'[g].fit => job[g].fit /\ step # "backup"
<1>1. JobOK(job[g]) /\ job[g].op # "idle"
  BY HasPlan
<1>2. PICK p : p = IF job[g].err THEN <<>> ELSE Remedy(g, step)
  OBVIOUS
<1>3. p \in Seq(StepsOf(job[g].op))
  <2>1. Remedy(g, step) \in Seq(StepsOf(job[g].op))
    BY <1>1, OpKnown, RemedyIn
  <2>2. p = <<>> \/ p = Remedy(g, step)
    BY <1>2
  <2>3. <<>> \in Seq(StepsOf(job[g].op))
    OBVIOUS
  <2>4. QED
    BY <2>1, <2>2, <2>3, Zenon
<1>4. PICK f \in BOOLEAN : f = (job[g].fit /\ step # "backup")
  OBVIOUS
<1>5. PICK k : k = Erring(job[g], p, f) /\ job' = [job EXCEPT ![g] = k]
  BY <1>2, <1>4 DEF Fails, Erring
<1>6. /\ Shape(k) /\ Kept(job[g], k) /\ k.plan = p
      /\ k.old = job[g].old /\ k.had = job[g].had /\ k.removed = job[g].removed
      /\ k.err = TRUE /\ k.fit = f
  <2>1. IsWithError(job[g], p, f, k)
    BY <1>1, <1>5, WithError
  <2>2. QED
    BY <2>1 DEF IsWithError
<1>7. JobOK(k)
  BY <1>1, <1>3, <1>4, <1>6, StillOK DEF JobOK
<1>8. Moved(g) /\ job'[g] = k
  BY <1>5, <1>7, OneMoves DEF Moved
<1>9. Alike(job[g], job'[g]) /\ job'[g].err = TRUE /\ job'[g].plan = p
  BY <1>6, <1>8 DEF Alike
<1>10. job'[g].fit => job[g].fit /\ step # "backup"
  BY <1>4, <1>6, <1>8
<1>11. (job[g].err => p = <<>>) /\ (~ job[g].err => p = Remedy(g, step))
  BY <1>2
<1>12. QED
  BY <1>8, <1>9, <1>10, <1>11
LEMMA ReloadFailsIs ==
    ASSUME JobsOK, disturbed \in BOOLEAN, NEW g \in Goroutines, job[g].plan # <<>>, job[g].op \in UserOps,
           ReloadFails(g)
    PROVE  /\ Moved(g) /\ Alike(job[g], job'[g])
           /\ job'[g].err = TRUE /\ job'[g].fit = job[g].fit
           /\ \/ job'[g].plan = <<>> /\ disturbed' = TRUE
                 /\ (job[g].err \/ (job[g].op = "removeUser" /\ ~ job[g].removed))
              \/ job'[g].plan = <<"revert", "drop", "readd">> /\ ~ job[g].err
                 /\ (job[g].op = "removeUser" => job[g].removed)
<1>1. JobOK(job[g]) /\ job[g].op # "idle"
  BY HasPlan
<1>2. PICK p : p = IF ~ job[g].err /\ (job[g].op = "removeUser" => job[g].removed)
                   THEN <<"revert", "drop", "readd">> ELSE <<>>
  OBVIOUS
<1>3. p \in Seq(StepsOf(job[g].op))
  <2>1. <<"revert", "drop", "readd">> \in Seq(ByUser) /\ <<>> \in Seq(ByUser)
    BY DEF ByUser
  <2>2. StepsOf(job[g].op) = ByUser
    BY StepsAre
  <2>3. p = <<"revert", "drop", "readd">> \/ p = <<>>
    BY <1>2, Zenon
  <2>4. QED
    BY <2>1, <2>2, <2>3, Zenon
<1>4. PICK f : f = job[g].fit
  OBVIOUS
<1>5. PICK k : k = Erring(job[g], p, f) /\ job' = [job EXCEPT ![g] = k]
  <2>1. PICK k : k = [job[g] EXCEPT !.err = TRUE, !.plan = p] /\ job' = [job EXCEPT ![g] = k]
    BY <1>2 DEF ReloadFails
  <2>2. k = [job[g] EXCEPT !.err = TRUE, !.plan = p, !.fit = f]
    BY <1>1, <1>4, <2>1 DEF JobOK, Shape, Fields, NoJob
  <2>3. QED
    BY <2>1, <2>2 DEF Erring
<1>6. /\ Shape(k) /\ Kept(job[g], k) /\ k.plan = p
      /\ k.old = job[g].old /\ k.had = job[g].had /\ k.removed = job[g].removed
      /\ k.err = TRUE /\ k.fit = f
  <2>1. IsWithError(job[g], p, f, k)
    BY <1>1, <1>5, WithError
  <2>2. QED
    BY <2>1 DEF IsWithError
<1>7. JobOK(k)
  BY <1>1, <1>3, <1>4, <1>6, StillOK DEF JobOK
<1>8. Moved(g) /\ job'[g] = k
  BY <1>5, <1>7, OneMoves DEF Moved
<1>9. Alike(job[g], job'[g]) /\ job'[g].err = TRUE /\ job'[g].plan = p
      /\ job'[g].fit = job[g].fit
  BY <1>4, <1>6, <1>8 DEF Alike
<1>10. \/ p = <<>> /\ disturbed' = TRUE
          /\ (job[g].err \/ (job[g].op = "removeUser" /\ ~ job[g].removed))
       \/ p = <<"revert", "drop", "readd">> /\ ~ job[g].err
          /\ (job[g].op = "removeUser" => job[g].removed)
  <2>1. disturbed' = (disturbed \/ job[g].err \/ (job[g].op = "removeUser" /\ ~ job[g].removed))
    BY DEF ReloadFails
  <2>2. CASE ~ job[g].err /\ (job[g].op = "removeUser" => job[g].removed)
    BY <1>2, <2>2
  <2>3. CASE ~ (~ job[g].err /\ (job[g].op = "removeUser" => job[g].removed))
    BY <1>2, <2>1, <2>3
  <2>4. QED
    BY <2>2, <2>3
<1>11. QED
  BY <1>8, <1>9, <1>10

LEMMA WriteIs ==
    ASSUME Types, NEW g \in Goroutines, Write(g)
    PROVE  /\ Moved(g) /\ Kept(job[g], job'[g]) /\ job'[g].plan = Tail(job[g].plan)
           /\ job'[g].had = file.there /\ job'[g].old = file.in
           /\ job'[g].removed = job[g].removed
           /\ job'[g].err = job[g].err /\ job'[g].fit = job[g].fit
<1>1. JobsOK /\ job[g].plan # <<>>
  BY DEF Types, Write, At
<1>2. JobOK(job[g]) /\ job[g].op # "idle"
  BY <1>1, HasPlan
<1>3. PICK p, h, o : /\ p = Tail(job[g].plan) /\ h = file.there /\ o = file.in
                     /\ p \in Seq(StepsOf(job[g].op)) /\ h \in BOOLEAN
                     /\ o \in [Tags -> Contents]
  BY <1>1, HasPlan DEF Types, TypeOK
<1>4. PICK k : k = Keeping(job[g], p, h, o) /\ job' = [job EXCEPT ![g] = k]
  BY <1>3 DEF Write, Keeping
<1>5. /\ Shape(k) /\ Kept(job[g], k) /\ k.plan = p
      /\ k.old = o /\ k.had = h /\ k.removed = job[g].removed
      /\ k.err = job[g].err /\ k.fit = job[g].fit
  <2>1. IsWithOld(job[g], p, h, o, k)
    BY <1>2, <1>4, WithOld
  <2>2. QED
    BY <2>1 DEF IsWithOld
<1>6. JobOK(k)
  BY <1>2, <1>3, <1>5, StillOK DEF JobOK
<1>7. Moved(g) /\ job'[g] = k
  BY <1>1, <1>4, <1>6, OneMoves DEF Moved
<1>8. QED
  BY <1>3, <1>5, <1>7

LEMMA EditIs ==
    ASSUME Types, NEW g \in Goroutines, Edit(g)
    PROVE  /\ Moved(g) /\ Kept(job[g], job'[g]) /\ job'[g].plan = Tail(job[g].plan)
           /\ job'[g].had = job[g].had /\ job'[g].old = job[g].old
           /\ job'[g].removed <=> (job[g].op = "removeUser"
                                   /\ file.in[job[g].tag].n[job[g].user] > 0)
           /\ job'[g].err = job[g].err /\ job'[g].fit = job[g].fit
<1>1. JobsOK /\ job[g].plan # <<>>
  BY DEF Types, Edit, At
<1>2. JobOK(job[g]) /\ job[g].op # "idle"
  BY <1>1, HasPlan
<1>3. PICK p : p = Tail(job[g].plan) /\ p \in Seq(StepsOf(job[g].op))
  BY <1>1, HasPlan
<1>4. PICK r \in BOOLEAN : r = (job[g].op = "removeUser"
                                /\ file.in[job[g].tag].n[job[g].user] > 0)
  OBVIOUS
<1>5. PICK k : k = Noting(job[g], p, r) /\ job' = [job EXCEPT ![g] = k]
  BY <1>3, <1>4 DEF Edit, Noting
<1>6. /\ Shape(k) /\ Kept(job[g], k) /\ k.plan = p
      /\ k.old = job[g].old /\ k.had = job[g].had /\ k.removed = r
      /\ k.err = job[g].err /\ k.fit = job[g].fit
  <2>1. IsWithRemoved(job[g], p, r, k)
    BY <1>2, <1>5, WithRemoved
  <2>2. QED
    BY <2>1 DEF IsWithRemoved
<1>7. JobOK(k)
  BY <1>2, <1>3, <1>6, StillOK DEF JobOK
<1>8. Moved(g) /\ job'[g] = k
  BY <1>1, <1>5, <1>7, OneMoves DEF Moved
<1>9. job'[g].removed <=> (job[g].op = "removeUser"
                           /\ file.in[job[g].tag].n[job[g].user] > 0)
  BY <1>4, <1>6, <1>8
<1>10. QED
  BY <1>3, <1>6, <1>8, <1>9

LEMMA FinishIs ==
    ASSUME JobsOK, NEW g \in Goroutines, Finish(g)
    PROVE  Moved(g) /\ job'[g] = NoJob /\ job[g] # NoJob /\ job[g].plan = <<>>
BY NoJobOK, OneMoves DEF Moved, Finish
\* A goroutine that something else meets.
Met(j, k) ==
    /\ k.op = j.op /\ k.tag = j.tag /\ k.user = j.user /\ k.new = j.new /\ k.at = j.at
    /\ k.old = j.old /\ k.had = j.had /\ k.removed = j.removed /\ k.err = j.err
    /\ k.fit = j.fit /\ k.plan = j.plan
    /\ (k = NoJob <=> j = NoJob) /\ (k.clean => k = NoJob)

LEMMA MetIs ==
    ASSUME NEW j, JobOK(j)
    PROVE  /\ JobOK([j EXCEPT !.clean = @ /\ j = NoJob])
           /\ Met(j, [j EXCEPT !.clean = @ /\ j = NoJob])
<1>1. CASE j = NoJob
  <2>1. [j EXCEPT !.clean = @ /\ j = NoJob] = j
    <3>1. PICK c : c = (j.clean /\ j = NoJob)
      OBVIOUS
    <3>2. c = j.clean
      BY <1>1, <3>1, NoJobIs
    <3>3. [j EXCEPT !.clean = c] = j
      BY <3>2 DEF JobOK, Shape, Fields, NoJob
    <3>4. QED
      BY <3>1, <3>3
  <2>2. QED
    BY <1>1, <2>1 DEF Met
<1>2. CASE j # NoJob
  <2>1. PICK k : k = [j EXCEPT !.clean = FALSE] /\ k = [j EXCEPT !.clean = @ /\ j = NoJob]
    BY <1>2
  <2>2. /\ Shape(k) /\ k.clean = FALSE
        /\ k.op = j.op /\ k.tag = j.tag /\ k.user = j.user /\ k.new = j.new /\ k.at = j.at
        /\ k.old = j.old /\ k.had = j.had /\ k.removed = j.removed /\ k.err = j.err
        /\ k.fit = j.fit /\ k.plan = j.plan
    BY <2>1 DEF JobOK, Shape, Fields, NoJob
  <2>3. j.op # "idle"
    BY <1>2, BusyByOp
  <2>4. JobOK(k)
    BY <2>2, <2>3 DEF JobOK
  <2>5. k # NoJob
    BY <2>2, <2>3, NoJobIs
  <2>6. Met(j, k)
    BY <1>2, <2>2, <2>5 DEF Met
  <2>7. QED
    BY <2>1, <2>4, <2>6
<1>3. QED
  BY <1>1, <1>2

LEMMA CrashIs ==
    ASSUME JobsOK, NEW p \in Procs, Crash(p)
    PROVE  JobsOK' /\ \A g \in Goroutines : Met(job[g], job'[g])
<1>1. \A g \in Goroutines : job'[g] = [job[g] EXCEPT !.clean = @ /\ job[g] = NoJob]
  BY DEF Crash
<1>2. job' = [g \in Goroutines |-> job'[g]]
  BY DEF Crash
<1>3. ASSUME NEW g \in Goroutines PROVE JobOK(job'[g]) /\ Met(job[g], job'[g])
  <2>1. JobOK(job[g])
    BY DEF JobsOK
  <2>2. QED
    BY <1>1, <2>1, MetIs
<1>4. QED
  BY <1>2, <1>3 DEF JobsOK

\* What a goroutine begins with.
Started(j, op, t, u, new) ==
    /\ j.op = op /\ j.tag = t /\ j.user = u /\ j.new = new /\ j.plan = PlanOf(op)
    /\ j.old = file.in /\ j.at = faults /\ j.had = FALSE /\ j.removed = FALSE
    /\ j.err = FALSE

LEMMA BeginIs ==
    ASSUME Types, NEW g \in Goroutines, NEW op, NEW t, NEW u,
           op \in {"apply"} \cup PlainOps \cup ChangeOps,
           op \in ChangeOps => t \in Tags, op \in UserOps => u \in Users,
           NEW new \in [Tags -> SoundContents], Begin(g, op, t, u, new)
    PROVE  /\ JobsOK' /\ job[g] = NoJob /\ Started(job'[g], op, t, u, new)
           /\ job'[g].clean <=> ~ Others(g)
           /\ job'[g].fit <=> Fits(op, t, u)
           /\ \A h \in Goroutines : h # g => Met(job[h], job'[h])
<1>1. PICK c \in BOOLEAN, f \in BOOLEAN : c = (~ Others(g)) /\ f = Fits(op, t, u)
  <2>1. (~ Others(g)) \in BOOLEAN
    OBVIOUS
  <2>2. Fits(op, t, u) \in BOOLEAN
    BY DEF Fits
  <2>3. QED
    BY <2>1, <2>2
<1>2. PICK k, q, o, a : /\ q = PlanOf(op) /\ o = file.in /\ a = faults
                        /\ k = [NoJob EXCEPT !.op = op, !.tag = t, !.user = u, !.new = new,
                                  !.plan = q, !.old = o, !.at = a, !.clean = c, !.fit = f]
                        /\ job'[g] = k
  BY <1>1 DEF Begin
<1>3. /\ Shape(k) /\ Started(k, op, t, u, new) /\ k.clean = c /\ k.fit = f
  <2>1. /\ k.op = op /\ k.tag = t /\ k.user = u /\ k.new = new /\ k.plan = q
        /\ k.old = o /\ k.at = a /\ k.clean = c /\ k.fit = f
    BY <1>2 DEF NoJob
  <2>2. Shape(k) /\ k.had = FALSE /\ k.removed = FALSE /\ k.err = FALSE
    BY <1>2 DEF NoJob, Shape, Fields
  <2>3. QED
    BY <1>2, <2>1, <2>2 DEF Started
<1>4. JobOK(k)
  <2>1. op # "idle"
    BY DEF PlainOps, ChangeOps, InboundOps, UserOps
  <2>2. PlanOf(op) \in Seq(StepsOf(op))
    BY PlanOfOK
  <2>3. file.in \in [Tags -> Contents] /\ faults \in Nat
    BY XrayAssumption DEF Types, TypeOK
  <2>4. QED
    BY <1>1, <1>3, <2>1, <2>2, <2>3 DEF JobOK, Started
<1>5. ASSUME NEW h \in Goroutines, h # g PROVE JobOK(job'[h]) /\ Met(job[h], job'[h])
  <2>1. job'[h] = [job[h] EXCEPT !.clean = @ /\ job[h] = NoJob]
    BY <1>5 DEF Begin
  <2>2. JobOK(job[h])
    BY DEF Types, JobsOK
  <2>3. QED
    BY <2>1, <2>2, MetIs
<1>6. job' = [h \in Goroutines |-> job'[h]]
  BY DEF Begin
<1>7. JobsOK'
  BY <1>2, <1>4, <1>5, <1>6 DEF JobsOK
<1>8. job'[g].clean <=> ~ Others(g)
  BY <1>1, <1>2, <1>3
<1>9. job'[g].fit <=> Fits(op, t, u)
  BY <1>1, <1>2, <1>3
<1>10. QED
  BY <1>2, <1>3, <1>5, <1>7, <1>8, <1>9 DEF Begin
-----------------------------------------------------------------------------
(* Every step keeps the types.                                              *)

LEMMA EntriesOK ==
    ASSUME NEW x \in Contents, NEW u \in Users, NEW n \in Nat
    PROVE  Entries(x, u, n) \in Contents
BY DEF Entries, Contents

Counted(x, u, n) == [x EXCEPT !.n[u] = n]

LEMMA CountOK ==
    ASSUME NEW x \in Contents, NEW u \in Users, NEW n \in 0..2
    PROVE  Counted(x, u, n) \in Contents
BY DEF Contents, Counted

\* What a request for a user makes of an inbound that is there.
LEMMA UserAdded ==
    ASSUME NEW j, j.user \in Users, NEW x \in Contents, x.there = TRUE,
           j.op = "addUser", ~ (x.n[j.user] > 0)
    PROVE  Edited(j, x) = Counted(x, j.user, 1)
<1>1. PICK u \in Users : u = j.user
  OBVIOUS
<1>2. x.n[u] + 1 = 1
  BY <1>1 DEF Contents
<1>3. Edited(j, x) = Entries(x, u, 1)
  BY <1>1, <1>2 DEF Edited
<1>4. QED
  BY <1>1, <1>3 DEF Entries, Counted

LEMMA UserRemoved ==
    ASSUME NEW j, NEW x \in Contents, x.there = TRUE, j.op = "removeUser"
    PROVE  Edited(j, x) = Counted(x, j.user, 0)
<1>1. Edited(j, x) = Entries(x, j.user, 0)
  BY DEF Edited
<1>2. QED
  BY <1>1 DEF Entries, Counted

LEMMA EditedOK ==
    ASSUME NEW j, JobOK(j), j.op \in ChangeOps, NEW x \in Contents
    PROVE  Edited(j, x) \in Contents
<1>1. CASE j.op = "addInbound"
  <2>1. Edited(j, x) = j.new[j.tag]
    BY <1>1 DEF Edited
  <2>2. QED
    BY <2>1, Rows DEF JobOK
<1>2. CASE j.op = "removeInbound"
  <2>1. Edited(j, x) = NoInbound
    BY <1>2 DEF Edited
  <2>2. QED
    BY <2>1, Rows
<1>3. CASE j.op \in UserOps
  <2>1. j.user \in Users
    BY <1>3 DEF JobOK
  <2>2. x.n[j.user] + 1 \in Nat
    BY <2>1 DEF Contents
  <2>3. Edited(j, x) = Entries(x, j.user, x.n[j.user] + 1) \/ Edited(j, x) = Entries(x, j.user, 0)
    BY <1>3 DEF Edited, UserOps
  <2>4. QED
    BY <2>1, <2>2, <2>3, EntriesOK
<1>4. QED
  BY <1>1, <1>2, <1>3 DEF ChangeOps, InboundOps

\* Steps of requests for inbounds and users only, and of those for users.
LEMMA ChangeStep ==
    ASSUME JobsOK, NEW g \in Goroutines, NEW step, At(g, step),
           step \in {"prepare", "edit", "look", "rmi", "adi", "adu", "rmu", "drop", "readd",
                     "revert"}
    PROVE  /\ JobOK(job[g]) /\ job[g].plan # <<>> /\ Head(job[g].plan) = step
           /\ job[g].op \in ChangeOps /\ job[g].tag \in Tags
           /\ step \in {"adu", "rmu", "drop", "readd", "revert"} =>
                job[g].op \in UserOps /\ job[g].user \in Users
<1>1. job[g].plan # <<>> /\ Head(job[g].plan) = step /\ step \in StepsOf(job[g].op)
  BY HasPlan DEF At
<1>2. step \notin Applying /\ step \notin Plain
  BY DEF Applying, Plain
<1>3. JobOK(job[g]) /\ job[g].op \in {"apply"} \cup PlainOps \cup ChangeOps
  BY <1>1, HasPlan, OpKnown
<1>4. job[g].op \in ChangeOps
  BY <1>1, <1>2, <1>3, StepsAre
<1>5. ASSUME step \in {"adu", "rmu", "drop", "readd", "revert"}
      PROVE  job[g].op \in UserOps
  <2>1. step \notin ByTag
    BY <1>5 DEF ByTag, Applying, Plain
  <2>2. QED
    BY <1>1, <1>4, <2>1, StepsAre DEF ChangeOps
<1>6. QED
  BY <1>1, <1>3, <1>4, <1>5 DEF JobOK

ProcTyped == proc \in [Procs -> [state : {"unused", "up", "doomed", "exited", "gone"},
                                 in : [Tags -> Contents]]]

LEMMA ServeTyped ==
    ASSUME ProcTyped, NEW t \in Tags, NEW x \in Contents, Serve(t, x)
    PROVE  ProcTyped'
<1>1. PICK p \in Up : proc' = [proc EXCEPT ![p].in[t] = x]
  BY DEF Serve
<1>2. p \in Procs
  BY DEF Up
<1>3. QED
  BY <1>1, <1>2 DEF ProcTyped

LEMMA EndedTyped ==
    ASSUME ProcTyped, NEW p \in Procs, Ended(p)
    PROVE  ProcTyped'
<1>1. Bare \in [Tags -> Contents]
  BY Rows
<1>2. QED
  BY <1>1 DEF ProcTyped, Ended
FileTyped == file \in [there : BOOLEAN, in : [Tags -> Contents]]

LEMMA TypesAre ==
    TypeOK <=> /\ FileTyped /\ ProcTyped
               /\ cmd \in {0} \cup Procs /\ running \in BOOLEAN
               /\ faults \in 0..MaxFaults /\ disturbed \in BOOLEAN
BY DEF TypeOK, FileTyped, ProcTyped

LEMMA TypesNext ==
    ASSUME FileTyped', ProcTyped', cmd' \in {0} \cup Procs, running' \in BOOLEAN,
           faults' \in 0..MaxFaults, disturbed' \in BOOLEAN
    PROVE  TypeOK'
BY DEF TypeOK, FileTyped, ProcTyped

LEMMA FileStays == ASSUME FileTyped, file' = file PROVE FileTyped'
BY DEF FileTyped

LEMMA ProcStays == ASSUME ProcTyped, proc' = proc PROVE ProcTyped'
BY DEF ProcTyped

LEMMA FileParts ==
    ASSUME FileTyped
    PROVE  /\ file.there \in BOOLEAN /\ file.in \in [Tags -> Contents]
           /\ file = [there |-> file.there, in |-> file.in]
BY DEF FileTyped

\* The file with other inbounds, and with a mark that it is there.
LEMMA FileWith ==
    ASSUME FileTyped, NEW x \in [Tags -> Contents], NEW b \in BOOLEAN
    PROVE  /\ file' = [file EXCEPT !.in = x] =>
                FileTyped' /\ file'.in = x /\ file'.there = file.there
           /\ file' = [file EXCEPT !.there = b] =>
                FileTyped' /\ file'.in = file.in /\ file'.there = b
           /\ file' = [there |-> b, in |-> x] =>
                FileTyped' /\ file'.in = x /\ file'.there = b
BY DEF FileTyped

LEMMA PutTyped ==
    ASSUME NEW f \in [Tags -> Contents], NEW t \in Tags, NEW x \in Contents
    PROVE  [f EXCEPT ![t] = x] \in [Tags -> Contents]
OBVIOUS

\* One inbound of the file is replaced.
LEMMA FilePut ==
    ASSUME FileTyped, NEW t \in Tags, NEW x \in Contents,
           file' = [file EXCEPT !.in[t] = x]
    PROVE  FileTyped' /\ file'.in = [file.in EXCEPT ![t] = x] /\ file'.there = file.there
BY DEF FileTyped

LEMMA FaultTyped ==
    ASSUME faults \in 0..MaxFaults, Fault
    PROVE  faults' \in 0..MaxFaults
BY XrayAssumption DEF Fault

LEMMA SpawnTyped ==
    ASSUME TypeOK, NEW p \in Procs, NEW s \in {"up", "doomed"}, Spawn(p, s)
    PROVE  /\ FileTyped' /\ ProcTyped' /\ cmd' \in {0} \cup Procs /\ running' \in BOOLEAN
           /\ file'.in = file.in /\ file'.there = TRUE
<1>1. FileTyped /\ ProcTyped /\ file.in \in [Tags -> Contents]
  BY TypesAre, FileParts
<1>2. FileTyped' /\ file'.in = file.in /\ file'.there = TRUE
  BY <1>1, FileWith DEF Spawn
<1>3. ProcTyped'
  BY <1>1 DEF Spawn, ProcTyped
<1>4. QED
  BY <1>2, <1>3 DEF Spawn
LEMMA StartTypes ==
    ASSUME Types, NEW g \in Goroutines, Start(g)
    PROVE  TypeOK' /\ Moved(g)
<1> USE TypesAre, TypesNext
<1>1. JobsOK /\ job[g].plan # <<>> /\ TypeOK
  BY DEF Types, Start, At
<1>2. CASE Fails(g, "start") /\ UNCHANGED <<file, proc, cmd, running, faults, disturbed>>
  BY <1>1, <1>2, FailsIs, FileStays, ProcStays
<1>3. CASE /\ \E p \in Procs : \/ /\ Spawn(p, IF Refused THEN "doomed" ELSE "up")
                                  /\ UNCHANGED faults
                               \/ file.in # Bare /\ Spawn(p, "doomed") /\ Fault
           /\ Next1(g)
           /\ disturbed' = (disturbed /\ (Others(g) \/ Alive # {}))
  <2>1. Moved(g)
    BY <1>1, <1>3, NextIs
  <2>2. faults' \in 0..MaxFaults
    BY <1>1, <1>3, FaultTyped
  <2>3. PICK p \in Procs, s \in {"up", "doomed"} : Spawn(p, s)
    BY <1>3
  <2>4. FileTyped' /\ ProcTyped' /\ cmd' \in {0} \cup Procs /\ running' \in BOOLEAN
    BY <1>1, <2>3, SpawnTyped
  <2>5. disturbed' \in BOOLEAN
    BY <1>3
  <2>6. QED
    BY <2>1, <2>2, <2>4, <2>5
<1>4. CASE /\ Fault /\ Fails(g, "start") /\ cmd' = 0
           /\ file' = [file EXCEPT !.there = TRUE] /\ UNCHANGED <<proc, running, disturbed>>
  <2>1. Moved(g)
    BY <1>1, <1>4, FailsIs
  <2>2. FileTyped'
    BY <1>1, <1>4, FileWith, FileParts
  <2>3. faults' \in 0..MaxFaults
    BY <1>1, <1>4, FaultTyped
  <2>4. QED
    BY <1>1, <1>4, <2>1, <2>2, <2>3, ProcStays
<1>5. QED
  BY <1>2, <1>3, <1>4 DEF Start

LEMMA StopTypes ==
    ASSUME Types, NEW g \in Goroutines, Stop(g)
    PROVE  TypeOK' /\ Moved(g)
<1>1. JobsOK /\ job[g].plan # <<>> /\ TypeOK
  BY DEF Types, Stop, At
<1>2. Moved(g)
  BY <1>1, NextIs DEF Stop
<1>3. ProcTyped'
  <2>1. CASE running /\ cmd \in Alive
    BY <1>1, <2>1, EndedTyped, TypesAre DEF Stop, Alive
  <2>2. CASE ~ (running /\ cmd \in Alive)
    BY <1>1, <2>2, TypesAre, ProcStays DEF Stop
  <2>3. QED
    BY <2>1, <2>2
<1>4. QED
  BY <1>1, <1>2, <1>3, TypesAre, TypesNext, FileStays DEF Stop

LEMMA CopyTypes ==
    ASSUME Types, NEW g \in Goroutines, NEW step, Copy(g, step)
    PROVE  TypeOK' /\ Moved(g)
<1>1. JobsOK /\ job[g].plan # <<>> /\ TypeOK
  BY DEF Types, Copy, At
<1>2. Moved(g)
  BY <1>1, NextIs, FailsIs DEF Copy
<1>3. faults' \in 0..MaxFaults
  BY <1>1, FaultTyped, TypesAre DEF Copy
<1>4. QED
  BY <1>1, <1>2, <1>3, TypesAre, TypesNext, FileStays, ProcStays DEF Copy

\* Settle, Look, Verify and Launch change nothing but what is to be done.
LEMMA LookTypes ==
    ASSUME Types, NEW g \in Goroutines, Settle(g) \/ Look(g) \/ Verify(g) \/ Launch(g)
    PROVE  TypeOK' /\ Moved(g)
<1>1. JobsOK /\ job[g].plan # <<>> /\ TypeOK
  BY DEF Types, Settle, Look, Verify, Launch, At
<1>2. UNCHANGED <<file, proc, cmd, running, faults, disturbed>>
  BY DEF Settle, Look, Verify, Launch
<1>3. TypeOK'
  BY <1>1, <1>2 DEF TypeOK
<1>4. CASE Settle(g) \/ Look(g) \/ Verify(g)
  <2>1. Next1(g) \/ Fails(g, "look") \/ Fails(g, "verify")
    BY <1>4 DEF Settle, Look, Verify
  <2>2. QED
    BY <1>1, <1>3, <2>1, NextIs, FailsIs
<1>5. CASE Launch(g)
  <2>1. PICK p : /\ p = IF running THEN <<"stop", "settle", "start", "settle", "verify">>
                                   ELSE <<"start", "settle", "verify">>
                 /\ Turn(g, p)
    BY <1>5 DEF Launch
  <2>2. p \in Seq(StepsOf(job[g].op))
    <3>1. "launch" \in StepsOf(job[g].op) /\ "launch" \notin ByUser /\ "launch" \notin Plain
      BY <1>1, <1>5, HasPlan DEF Launch, At, ByUser, Plain
    <3>2. job[g].op \in {"apply"} \cup PlainOps \cup ChangeOps
      BY <1>1, HasPlan, OpKnown
    <3>3. StepsOf(job[g].op) \in {Applying, ByTag}
      BY <3>1, <3>2, StepsAre DEF ChangeOps
    <3>4. {<<"stop", "settle", "start", "settle", "verify">>, <<"start", "settle", "verify">>}
            \subseteq Seq(Applying) \cap Seq(ByTag)
      BY DEF Applying, Plain, ByTag
    <3>5. p \in {<<"stop", "settle", "start", "settle", "verify">>,
                 <<"start", "settle", "verify">>}
      BY <2>1, Zenon
    <3>6. QED
      BY <3>3, <3>4, <3>5, Zenon
  <2>3. QED
    BY <1>1, <1>3, <2>1, <2>2, TurnIs
<1>6. QED
  BY <1>4, <1>5

LEMMA WriteTypes ==
    ASSUME Types, NEW g \in Goroutines, Write(g) \/ Back(g)
    PROVE  TypeOK' /\ Moved(g)
<1>1. JobsOK /\ job[g].plan # <<>> /\ TypeOK
  BY DEF Types, Write, Back, At
<1>2. job[g].new \in [Tags -> Contents] /\ job[g].old \in [Tags -> Contents]
  BY <1>1, HasPlan, Rows DEF JobOK
<1>3. Moved(g)
  BY <1>1, WriteIs, NextIs DEF Back
<1>4. FileTyped'
  BY <1>1, <1>2, FileWith, TypesAre DEF Write, Back
<1>5. QED
  BY <1>1, <1>3, <1>4, TypesAre, TypesNext, ProcStays DEF Write, Back
LEMMA EditTypes ==
    ASSUME Types, NEW g \in Goroutines, Prepare(g) \/ Edit(g) \/ Revert(g)
    PROVE  TypeOK' /\ Moved(g)
<1>1. JobsOK /\ TypeOK
  BY DEF Types
<1>2. /\ JobOK(job[g]) /\ job[g].plan # <<>> /\ job[g].op \in ChangeOps
      /\ job[g].tag \in Tags /\ file.in[job[g].tag] \in Contents
  <2>1. At(g, "prepare") \/ At(g, "edit") \/ At(g, "revert")
    BY DEF Prepare, Edit, Revert
  <2>2. QED
    BY <1>1, <2>1, ChangeStep, FileParts, TypesAre
<1>3. CASE Prepare(g)
  <2>1. FileTyped'
    <3>1. PICK b \in BOOLEAN : b = (file.there \/ ~ running)
      OBVIOUS
    <3>2. file' = [file EXCEPT !.there = b]
      BY <1>3, <3>1 DEF Prepare
    <3>3. file.in \in [Tags -> Contents]
      BY <1>1, FileParts, TypesAre
    <3>4. QED
      BY <1>1, <3>2, <3>3, FileWith, TypesAre
  <2>2. Moved(g)
    <3>1. PICK p : p = (IF running THEN <<"adi", "edit">>
                                   ELSE <<"edit", "start", "settle", "verify">>)
                   /\ Turn(g, p)
      BY <1>3 DEF Prepare
    <3>2. StepsOf(job[g].op) = ByTag
      <4>1. At(g, "prepare")
        BY <1>3 DEF Prepare
      <4>2. "prepare" \in StepsOf(job[g].op) /\ "prepare" \notin ByUser
        BY <1>1, <4>1, HasPlan DEF At, ByUser
      <4>3. QED
        BY <1>2, <4>2, StepsAre DEF ChangeOps
    <3>3. <<"adi", "edit">> \in Seq(ByTag)
          /\ <<"edit", "start", "settle", "verify">> \in Seq(ByTag)
      BY DEF ByTag, Applying, Plain
    <3>4. p = <<"adi", "edit">> \/ p = <<"edit", "start", "settle", "verify">>
      BY <3>1, Zenon
    <3>5. p \in Seq(StepsOf(job[g].op))
      BY <3>2, <3>3, <3>4, Zenon
    <3>6. QED
      BY <1>1, <1>2, <3>1, <3>5, TurnIs
  <2>3. QED
    BY <1>1, <1>3, <2>1, <2>2, TypesAre, TypesNext, ProcStays DEF Prepare
<1>4. CASE Edit(g)
  <2>1. Moved(g)
    BY <1>4, EditIs
  <2>2. Edited(job[g], file.in[job[g].tag]) \in Contents
    BY <1>2, EditedOK
  <2>3. FileTyped'
    <3>1. \/ file' = file
          \/ file' = [file EXCEPT !.in[job[g].tag] = Edited(job[g], file.in[job[g].tag])]
      BY <1>4 DEF Edit
    <3>2. QED
      BY <1>1, <1>2, <2>2, <3>1, FileStays, FilePut, TypesAre
  <2>4. QED
    BY <1>1, <1>4, <2>1, <2>3, TypesAre, TypesNext, ProcStays DEF Edit
<1>5. CASE Revert(g)
  <2>1. Moved(g)
    BY <1>1, <1>2, <1>5, NextIs DEF Revert
  <2>2. PICK n \in Nat :
          file' = [file EXCEPT !.in[job[g].tag] = Entries(file.in[job[g].tag], job[g].user, n)]
    <3>1. file.in[job[g].tag].n[job[g].user] + 1 \in Nat
      <4>1. PICK u \in Users, x \in Contents : u = job[g].user /\ x = file.in[job[g].tag]
        BY <1>1, <1>2, <1>5, ChangeStep DEF Revert
      <4>2. x.n[u] + 1 \in Nat
        BY DEF Contents
      <4>3. QED
        BY <4>1, <4>2
    <3>2. PICK n : n = IF job[g].op = "addUser" THEN 0
                       ELSE file.in[job[g].tag].n[job[g].user] + 1
      OBVIOUS
    <3>3. n \in Nat
      BY <3>1, <3>2
    <3>4. QED
      BY <1>5, <3>2, <3>3 DEF Revert
  <2>3. Entries(file.in[job[g].tag], job[g].user, n) \in Contents
    BY <1>1, <1>2, <1>5, ChangeStep, EntriesOK DEF Revert
  <2>4. FileTyped'
    BY <1>1, <1>2, <2>2, <2>3, FilePut, TypesAre
  <2>5. QED
    BY <1>1, <1>5, <2>1, <2>4, TypesAre, TypesNext, ProcStays DEF Revert
<1>6. QED
  BY <1>3, <1>4, <1>5

\* What a step in the process makes of an inbound.
LEMMA ServeTypes ==
    ASSUME Types, NEW g \in Goroutines, AddInbound(g) \/ RemoveInbound(g) \/ Drop(g) \/ ReAdd(g)
    PROVE  TypeOK' /\ Moved(g)
<1>1. JobsOK /\ TypeOK /\ ProcTyped /\ faults \in 0..MaxFaults /\ disturbed \in BOOLEAN
  BY TypesAre DEF Types
<1>2. /\ JobOK(job[g]) /\ job[g].plan # <<>> /\ job[g].op \in ChangeOps
      /\ job[g].tag \in Tags /\ file.in[job[g].tag] \in Contents
      /\ job[g].new[job[g].tag] \in Contents /\ NoInbound \in Contents
  <2>1. At(g, "adi") \/ At(g, "rmi") \/ At(g, "drop") \/ At(g, "readd")
    BY DEF AddInbound, RemoveInbound, Drop, ReAdd
  <2>2. JobOK(job[g]) /\ job[g].plan # <<>> /\ job[g].op \in ChangeOps /\ job[g].tag \in Tags
    BY <1>1, <2>1, ChangeStep
  <2>3. QED
    BY <1>1, <2>2, FileParts, TypesAre, Rows DEF JobOK
<1>3. FileTyped' /\ cmd' \in {0} \cup Procs /\ running' \in BOOLEAN
  BY <1>1, TypesAre, FileStays DEF AddInbound, RemoveInbound, Drop, ReAdd
<1>4. CASE AddInbound(g)
  <2>1. Moved(g)
    BY <1>1, <1>2, <1>4, NextIs, FailsIs DEF AddInbound
  <2>2. ProcTyped'
    BY <1>1, <1>2, <1>4, ServeTyped, ProcStays DEF AddInbound
  <2>3. faults' \in 0..MaxFaults
    BY <1>1, <1>4, FaultTyped DEF AddInbound
  <2>4. QED
    BY <1>1, <1>3, <1>4, <2>1, <2>2, <2>3, TypesAre, TypesNext DEF AddInbound
<1>5. CASE RemoveInbound(g)
  <2>1. Moved(g)
    BY <1>1, <1>2, <1>5, NextIs, FailsIs DEF RemoveInbound
  <2>2. ProcTyped'
    BY <1>1, <1>2, <1>5, ServeTyped, ProcStays DEF RemoveInbound
  <2>3. QED
    BY <1>1, <1>3, <1>5, <2>1, <2>2, TypesAre, TypesNext DEF RemoveInbound
<1>6. CASE Drop(g) \/ ReAdd(g)
  <2>1. job[g].op \in UserOps
    BY <1>1, <1>6, ChangeStep DEF Drop, ReAdd
  <2>2. Moved(g)
    BY <1>1, <1>2, <1>6, <2>1, NextIs, ReloadFailsIs DEF Drop, ReAdd
  <2>3. ProcTyped'
    BY <1>1, <1>2, <1>6, ServeTyped, ProcStays DEF Drop, ReAdd
  <2>4. faults' \in 0..MaxFaults
    BY <1>1, <1>6, FaultTyped DEF Drop, ReAdd
  <2>5. disturbed' \in BOOLEAN
    BY <1>1, <1>6, TypesAre DEF Drop, ReAdd, ReloadFails
  <2>6. QED
    BY <1>3, <2>2, <2>3, <2>4, <2>5, TypesNext
<1>7. QED
  BY <1>4, <1>5, <1>6

LEMMA UserTypes ==
    ASSUME Types, NEW g \in Goroutines, NEW step \in {"adu", "rmu"}, ChangeUser(g, step)
    PROVE  TypeOK' /\ Moved(g)
<1>1. JobsOK /\ TypeOK /\ ProcTyped
  BY TypesAre DEF Types
<1>2. /\ job[g].plan # <<>> /\ job[g].op \in UserOps
      /\ job[g].tag \in Tags /\ job[g].user \in Users
  BY <1>1, ChangeStep DEF ChangeUser
<1>3. Moved(g)
  <2>1. <<"drop", "readd">> \in Seq(ByUser)
    BY DEF ByUser
  <2>2. <<"drop", "readd">> \in Seq(StepsOf(job[g].op))
    BY <1>2, <2>1, StepsAre
  <2>3. QED
    BY <1>1, <1>2, <2>2, NextIs, TurnIs DEF ChangeUser
<1>4. ProcTyped'
  <2>1. CASE proc' = proc
    BY <1>1, <2>1, ProcStays
  <2>2. CASE proc' # proc
    <3>1. PICK p \in Up, n \in {0, 1} : proc' = [proc EXCEPT ![p].in[job[g].tag].n[job[g].user] = n]
      BY <2>2 DEF ChangeUser
    <3>2. p \in Procs
      BY DEF Up
    <3>3. proc[p].in \in [Tags -> Contents] /\ proc[p].in[job[g].tag] \in Contents
      BY <1>1, <1>2, <3>2 DEF ProcTyped
    <3>4. PICK y \in Contents, u \in Users : y = proc[p].in[job[g].tag] /\ u = job[g].user
      BY <1>2, <3>3
    <3>5. PICK x \in Contents : x = [proc[p].in[job[g].tag] EXCEPT !.n[job[g].user] = n]
      <4>1. n \in 0..2
        OBVIOUS
      <4>2. Counted(y, u, n) \in Contents
        BY <4>1, CountOK
      <4>3. QED
        BY <3>4, <4>2 DEF Counted
    <3>6. proc' = [proc EXCEPT ![p].in[job[g].tag] = x]
      BY <3>1, <3>5
    <3>7. QED
      BY <1>1, <1>2, <3>2, <3>6 DEF ProcTyped
  <2>3. QED
    BY <2>1, <2>2
<1>5. QED
  BY <1>1, <1>3, <1>4, TypesAre, TypesNext, FileStays DEF ChangeUser
LEMMA CommandIs ==
    ASSUME Command \/ Switch
    PROVE  \E g \in Goroutines, op \in {"apply"} \cup PlainOps \cup ChangeOps,
              new \in [Tags -> SoundContents],
              t \in Tags \cup {""}, u \in Users \cup {""} :
             /\ op \in ChangeOps => t \in Tags
             /\ op \in UserOps => u \in Users
             /\ Begin(g, op, t, u, new)
<1> DEFINE Some == \E g \in Goroutines, op \in {"apply"} \cup PlainOps \cup ChangeOps,
                      new \in [Tags -> SoundContents],
                      t \in Tags \cup {""}, u \in Users \cup {""} :
                     /\ op \in ChangeOps => t \in Tags
                     /\ op \in UserOps => u \in Users
                     /\ Begin(g, op, t, u, new)
<1> USE DEF PlainOps, ChangeOps, InboundOps, UserOps
<1>1. Bare \in [Tags -> SoundContents] /\ NoInbound \in SoundContents
      /\ Fresh \subseteq SoundContents
  BY Rows DEF Fresh
<1>2. "command" \in Goroutines /\ "switch" \in Goroutines
  BY DEF Goroutines
<1>3. ASSUME NEW op \in {"start", "stop", "restart"}, Begin("command", op, "", "", Bare)
      PROVE  Some
  BY <1>1, <1>2, <1>3
<1>4. ASSUME NEW all \in [Tags -> Fresh \cup {NoInbound}], Begin("command", "apply", "", "", all)
      PROVE  Some
  <2>1. all \in [Tags -> SoundContents]
    BY <1>1
  <2>2. QED
    BY <1>2, <1>4, <2>1
<1>5. ASSUME NEW t \in Tags, NEW x \in Fresh,
             Begin("command", "addInbound", t, "", [Bare EXCEPT ![t] = x])
      PROVE  Some
  <2>1. [Bare EXCEPT ![t] = x] \in [Tags -> SoundContents]
    BY <1>1
  <2>2. QED
    BY <1>2, <1>5, <2>1
<1>6. ASSUME NEW t \in Tags, Begin("command", "removeInbound", t, "", Bare) PROVE Some
  BY <1>1, <1>2, <1>6
<1>7. ASSUME NEW t \in Tags, NEW u \in Users, NEW op \in {"addUser", "removeUser"},
             Begin("command", op, t, u, Bare)
      PROVE  Some
  BY <1>1, <1>2, <1>7
<1>8. ASSUME Switch PROVE Some
  BY <1>1, <1>2, <1>8 DEF Switch
<1> HIDE DEF Some
<1>9. Some
  BY <1>3, <1>4, <1>5, <1>6, <1>7, <1>8 DEF Command
<1>10. QED
  BY <1>9 DEF Some

LEMMA TypesInit == Init => Types
<1> SUFFICES ASSUME Init PROVE Types
  OBVIOUS
<1>1. Bare \in [Tags -> Contents]
  BY Rows
<1>2. TypeOK
  <2>1. FileTyped
    BY <1>1 DEF Init, FileTyped
  <2>2. ProcTyped
    BY <1>1 DEF Init, ProcTyped
  <2>3. cmd \in {0} \cup Procs /\ running \in BOOLEAN /\ disturbed \in BOOLEAN
    BY DEF Init
  <2>4. faults \in 0..MaxFaults
    BY XrayAssumption DEF Init
  <2>5. QED
    BY <2>1, <2>2, <2>3, <2>4, TypesAre
<1>3. job = [g \in Goroutines |-> job[g]] /\ \A g \in Goroutines : job[g] = NoJob
  BY DEF Init
<1>4. QED
  BY <1>2, <1>3, NoJobOK DEF Types, JobsOK

LEMMA TypesKept == Types /\ [Next]_vars => Types'
<1> SUFFICES ASSUME Types, [Next]_vars PROVE Types'
  OBVIOUS
<1>1. TypeOK /\ JobsOK /\ FileTyped /\ ProcTyped
  BY TypesAre DEF Types
<1>2. CASE Command \/ Switch
  <2>1. PICK g \in Goroutines, op \in {"apply"} \cup PlainOps \cup ChangeOps,
             new \in [Tags -> SoundContents],
             t \in Tags \cup {""}, u \in Users \cup {""} :
               /\ op \in ChangeOps => t \in Tags
               /\ op \in UserOps => u \in Users
               /\ Begin(g, op, t, u, new)
    BY <1>2, CommandIs
  <2>2. JobsOK'
    BY <2>1, BeginIs
  <2>3. disturbed' \in BOOLEAN
    BY <1>1, <2>1, TypesAre DEF Begin
  <2>4. QED
    BY <1>1, <2>1, <2>2, <2>3, TypesAre, TypesNext, FileStays, ProcStays DEF Begin, Types
<1>3. ASSUME NEW g \in Goroutines, Manage(g) PROVE Types'
  BY <1>3, StartTypes, StopTypes, CopyTypes, LookTypes, WriteTypes DEF Manage, Moved, Types
<1>4. ASSUME NEW g \in Goroutines, Change(g) PROVE Types'
  BY <1>4, EditTypes, ServeTypes, UserTypes DEF Change, Moved, Types
<1>5. ASSUME NEW g \in Goroutines, Finish(g) PROVE Types'
  BY <1>1, <1>5, FinishIs, TypesAre, TypesNext, FileStays, ProcStays
     DEF Finish, Moved, Types
<1>6. ASSUME NEW p \in Procs, Exit(p) PROVE Types'
  <2>1. JobsOK'
    BY <1>1, <1>6 DEF Exit, JobsOK
  <2>2. QED
    BY <1>1, <1>6, <2>1, EndedTyped, TypesAre, TypesNext, FileStays DEF Exit, Types
<1>7. ASSUME NEW p \in Procs, Crash(p) PROVE Types'
  BY <1>1, <1>7, CrashIs, EndedTyped, FaultTyped, TypesAre, TypesNext, FileStays
     DEF Crash, Types
<1>8. ASSUME NEW p \in Procs, Notice(p) PROVE Types'
  <2>1. JobsOK'
    BY <1>1, <1>8 DEF Notice, JobsOK
  <2>2. ProcTyped'
    BY <1>1, <1>8 DEF Notice, ProcTyped
  <2>3. QED
    BY <1>1, <1>8, <2>1, <2>2, TypesAre, TypesNext, FileStays DEF Notice, Types
<1>9. CASE UNCHANGED vars
  BY <1>1, <1>9 DEF vars, Types, TypeOK, JobsOK
<1>10. QED
  BY <1>2, <1>3, <1>4, <1>5, <1>6, <1>7, <1>8, <1>9 DEF Next

\* The variables of XrayNode have their types, for any inbounds, users, processes and faults
\* (manager.go:49-134, 489-530, 587-849).
THEOREM TypeCorrect == Spec => []TypeOK
<1>1. Types => TypeOK
  BY DEF Types
<1>2. QED
  BY <1>1, TypesInit, TypesKept, PTL DEF Spec
-----------------------------------------------------------------------------
(* What a goroutine that nobody disturbs knows of the file and the process. *)

\* A process that is up has found a file.
Written == Up # {} => file.there

Base == Types /\ IInv /\ Written

\* What is left of a command, by its steps.
DoEdit == <<"edit">>
DoAdiEdit == <<"adi", "edit">>
DoRmiEdit == <<"rmi", "edit">>
DoLookRmiEdit == <<"look", "rmi", "edit">>
DoLaunch == <<"launch">>
DoWriteLaunch == <<"write", "launch">>
DoPrepare == <<"prepare">>
DoReadd == <<"readd">>
DoDropReadd == <<"drop", "readd">>
DoRevertDropReadd == <<"revert", "drop", "readd">>
DoStart == <<"start">>
DoBackStart == <<"back", "start">>
DoVerify == <<"verify">>
DoSettleVerify == <<"settle", "verify">>
DoStartSettleVerify == <<"start", "settle", "verify">>
DoEditStartSettleVerify == <<"edit", "start", "settle", "verify">>
DoSettleStartSettleVerify == <<"settle", "start", "settle", "verify">>
DoStopSettleStartSettleVerify == <<"stop", "settle", "start", "settle", "verify">>

\* A request for a user serves it with step s in the end.
StepOf(op) == IF op = "addUser" THEN "adu" ELSE "rmu"
DoLookEdit(s) == <<"look", "edit", s>>
DoEditThen(s) == <<"edit", s>>
DoOnly(s) == <<s>>

Restarting == {DoStopSettleStartSettleVerify, DoSettleStartSettleVerify,
               DoStartSettleVerify, DoSettleVerify, DoVerify}
Reloading == {DoDropReadd, DoReadd, DoRevertDropReadd}

Shaped(j) ==
    /\ j.op = "apply" => j.plan \in Restarting \cup
         {DoWriteLaunch, DoLaunch, DoBackStart, DoStart, <<>>}
    /\ j.op = "addInbound" => j.plan \in
         {DoPrepare, DoAdiEdit, DoEdit, DoEditStartSettleVerify, DoStartSettleVerify,
          DoSettleVerify, DoVerify, <<>>}
    /\ j.op = "removeInbound" => j.plan \in {DoLookRmiEdit, DoRmiEdit, DoEdit, <<>>}
    /\ j.op \in UserOps => j.plan \in Reloading \cup
         {DoLookEdit(StepOf(j.op)), DoEditThen(StepOf(j.op)), DoOnly(StepOf(j.op)), <<>>}

\* With these still to do the process serves what is in the file, ...
Agrees == \A p \in Up : proc[p].in = file.in
Agreeing(j) ==
    \/ j.op \in PlainOps
    \/ j.op = "apply" /\ j.plan \in {DoWriteLaunch, DoSettleVerify, DoVerify, <<>>}
    \/ j.op = "addInbound"
         /\ j.plan \in {DoPrepare, DoAdiEdit, DoSettleVerify, DoVerify, <<>>}
    \/ j.op = "removeInbound" /\ j.plan \in {DoLookRmiEdit, DoRmiEdit, <<>>}
    \/ j.op \in UserOps
         /\ j.plan \in {DoLookEdit(StepOf(j.op)), DoEditThen(StepOf(j.op)), <<>>}

\* ... or nothing runs, ...
Halted(j) ==
    \/ j.op = "apply" /\ j.plan \in {DoSettleStartSettleVerify, DoStartSettleVerify,
                                     DoBackStart, DoStart}
    \/ j.op = "addInbound" /\ j.plan \in {DoEditStartSettleVerify, DoStartSettleVerify}

\* ... or the inbound is ahead of the file, or behind it, or may be anything.
Put(f, t, x) == [f EXCEPT ![t] = x]
Ahead(t, x) == \A p \in Up : proc[p].in = Put(file.in, t, x)
Behind(j) == \A p \in Up : file.in = Put(proc[p].in, j.tag, Edited(j, proc[p].in[j.tag]))
Apart(t) == \A p \in Up : \A s \in Tags \ {t} : proc[p].in[s] = file.in[s]

Facts(j) ==
    /\ Agreeing(j) => Agrees
    /\ Halted(j) => ~ running
    /\ j.op = "addInbound" /\ j.plan = DoEdit => Ahead(j.tag, j.new[j.tag])
    /\ j.op = "removeInbound" /\ j.plan = DoEdit => Ahead(j.tag, NoInbound)
    /\ j.op \in UserOps /\ j.plan = DoOnly(StepOf(j.op)) => Behind(j)
    /\ j.op \in UserOps /\ j.plan \in Reloading => Apart(j.tag)

AloneUndisturbed ==
    ~ disturbed => \A g, h \in Goroutines : job[g] # NoJob /\ job[h] # NoJob => g = h

PInv == /\ Base /\ AloneUndisturbed /\ Persisted
        /\ \A g \in Goroutines : Shaped(job[g])
        /\ ~ disturbed => \A g \in Goroutines : Facts(job[g])

\* Plan p has step s first and q after it.
Is(p, s, q) == p # <<>> /\ Head(p) = s /\ Tail(p) = q

LEMMA Tail1 == \A a : Is(<<a>>, a, <<>>)
BY DEF Is

LEMMA Tail2 == \A a, b : Is(<<a, b>>, a, <<b>>)
BY DEF Is

LEMMA Tail3 == \A a, b, c : Is(<<a, b, c>>, a, <<b, c>>)
BY DEF Is

LEMMA Tail4 == \A a, b, c, d : Is(<<a, b, c, d>>, a, <<b, c, d>>)
BY DEF Is

LEMMA Tail5 == \A a, b, c, d, e : Is(<<a, b, c, d, e>>, a, <<b, c, d, e>>)
BY DEF Is

LEMMA Tail6 == \A a, b, c, d, e, f : Is(<<a, b, c, d, e, f>>, a, <<b, c, d, e, f>>)
BY DEF Is

LEMMA ApplyPlans ==
    /\ Is(DoLaunch, "launch", <<>>)
    /\ Is(DoStart, "start", <<>>)
    /\ Is(DoVerify, "verify", <<>>)
    /\ Is(DoBackStart, "back", DoStart)
    /\ Is(DoSettleVerify, "settle", DoVerify)
    /\ Is(DoWriteLaunch, "write", DoLaunch)
    /\ Is(DoStartSettleVerify, "start", DoSettleVerify)
    /\ Is(DoSettleStartSettleVerify, "settle", DoStartSettleVerify)
    /\ Is(DoStopSettleStartSettleVerify, "stop", DoSettleStartSettleVerify)
BY Tail1, Tail2, Tail3, Tail4, Tail5 DEF DoLaunch, DoStart, DoVerify, DoBackStart,
     DoSettleVerify, DoWriteLaunch, DoStartSettleVerify, DoSettleStartSettleVerify,
     DoStopSettleStartSettleVerify

LEMMA InboundPlans ==
    /\ Is(DoEdit, "edit", <<>>)
    /\ Is(DoPrepare, "prepare", <<>>)
    /\ Is(DoVerify, "verify", <<>>)
    /\ Is(DoAdiEdit, "adi", DoEdit)
    /\ Is(DoRmiEdit, "rmi", DoEdit)
    /\ Is(DoSettleVerify, "settle", DoVerify)
    /\ Is(DoLookRmiEdit, "look", DoRmiEdit)
    /\ Is(DoStartSettleVerify, "start", DoSettleVerify)
    /\ Is(DoEditStartSettleVerify, "edit", DoStartSettleVerify)
BY Tail1, Tail2, Tail3, Tail4 DEF DoEdit, DoPrepare, DoVerify, DoAdiEdit, DoRmiEdit,
     DoSettleVerify, DoLookRmiEdit, DoStartSettleVerify, DoEditStartSettleVerify

LEMMA UserPlans ==
    /\ \A s : Is(DoLookEdit(s), "look", DoEditThen(s))
    /\ \A s : Is(DoEditThen(s), "edit", DoOnly(s))
    /\ \A s : Is(DoOnly(s), s, <<>>)
    /\ Is(DoReadd, "readd", <<>>)
    /\ Is(DoDropReadd, "drop", DoReadd)
    /\ Is(DoRevertDropReadd, "revert", DoDropReadd)
<1>1. \A s : Is(DoLookEdit(s), "look", DoEditThen(s))
  BY Tail3 DEF DoLookEdit, DoEditThen
<1>2. \A s : Is(DoEditThen(s), "edit", DoOnly(s)) /\ Is(DoOnly(s), s, <<>>)
  BY Tail2, Tail1 DEF DoEditThen, DoOnly
<1>3. /\ Is(DoReadd, "readd", <<>>) /\ Is(DoDropReadd, "drop", DoReadd)
      /\ Is(DoRevertDropReadd, "revert", DoDropReadd)
  BY Tail1, Tail2, Tail3 DEF DoReadd, DoDropReadd, DoRevertDropReadd
<1>4. QED
  BY <1>1, <1>2, <1>3
-----------------------------------------------------------------------------
(* What a plan asks to be known after a step.                               *)

LEMMA PlainThen ==
    ASSUME NEW g \in Goroutines, job'[g].op \in PlainOps, ~ disturbed' => Agrees'
    PROVE  Shaped(job[g])' /\ (~ disturbed' => Facts(job[g])')
BY DEF Shaped, Facts, Agreeing, Halted, PlainOps, UserOps

LEMMA ApplyThen ==
    ASSUME NEW g \in Goroutines, job'[g].op = "apply",
           \/ job'[g].plan \in {DoLaunch, DoStopSettleStartSettleVerify}
           \/ /\ job'[g].plan \in {DoSettleStartSettleVerify, DoStartSettleVerify,
                                   DoBackStart, DoStart}
              /\ ~ disturbed' => ~ running'
           \/ job'[g].plan \in {DoSettleVerify, DoVerify, <<>>} /\ (~ disturbed' => Agrees')
    PROVE  Shaped(job[g])' /\ (~ disturbed' => Facts(job[g])')
BY ApplyPlans DEF Is, Shaped, Facts, Agreeing, Halted, PlainOps, UserOps, Restarting

LEMMA AddInboundThen ==
    ASSUME NEW g \in Goroutines, job'[g].op = "addInbound",
           \/ /\ job'[g].plan \in {DoAdiEdit, DoSettleVerify, DoVerify, <<>>}
              /\ ~ disturbed' => Agrees'
           \/ /\ job'[g].plan \in {DoEditStartSettleVerify, DoStartSettleVerify}
              /\ ~ disturbed' => ~ running'
           \/ /\ job'[g].plan = DoEdit
              /\ ~ disturbed' => Ahead(job[g].tag, job[g].new[job[g].tag])'
    PROVE  Shaped(job[g])' /\ (~ disturbed' => Facts(job[g])')
BY InboundPlans DEF Is, Shaped, Facts, Agreeing, Halted, PlainOps, UserOps

LEMMA RemoveInboundThen ==
    ASSUME NEW g \in Goroutines, job'[g].op = "removeInbound",
           \/ job'[g].plan \in {DoRmiEdit, <<>>} /\ (~ disturbed' => Agrees')
           \/ job'[g].plan = DoEdit /\ (~ disturbed' => Ahead(job[g].tag, NoInbound)')
    PROVE  Shaped(job[g])' /\ (~ disturbed' => Facts(job[g])')
BY InboundPlans DEF Is, Shaped, Facts, Agreeing, Halted, PlainOps, UserOps

LEMMA StepIs == \A op : StepOf(op) \in {"adu", "rmu"}
BY DEF StepOf

LEMMA UserThen ==
    ASSUME NEW g \in Goroutines, job'[g].op \in UserOps,
           \/ /\ job'[g].plan \in {DoEditThen(StepOf(job'[g].op)), <<>>}
              /\ ~ disturbed' => Agrees'
           \/ /\ job'[g].plan = DoOnly(StepOf(job'[g].op))
              /\ ~ disturbed' => Behind(job[g])'
           \/ job'[g].plan \in Reloading /\ (~ disturbed' => Apart(job[g].tag)')
    PROVE  Shaped(job[g])' /\ (~ disturbed' => Facts(job[g])')
<1>1. Shaped(job[g])'
  BY DEF Shaped, UserOps
<1>2. job'[g].op \notin PlainOps /\ job'[g].op \notin {"apply", "addInbound", "removeInbound"}
  BY DEF UserOps, PlainOps
<1> DEFINE s == StepOf(job'[g].op)
<1>3. s \in {"adu", "rmu"}
  BY StepIs
<1>4. ~ disturbed' => Facts(job[g])'
  BY <1>2, <1>3, UserPlans DEF Is, Facts, Agreeing, Halted, Reloading
<1>5. QED
  BY <1>1, <1>4
-----------------------------------------------------------------------------
(* One step and what is known.                                              *)

LEMMA IdleKnows ==
    ASSUME NEW g \in Goroutines, job'[g] = NoJob
    PROVE  Shaped(job[g])' /\ Facts(job[g])'
BY NoJobIs DEF Shaped, Facts, Agreeing, Halted, PlainOps, UserOps

LEMMA KeptBusy ==
    ASSUME JobsOK, NEW g \in Goroutines, job[g] # NoJob, Moved(g), Kept(job[g], job'[g])
    PROVE  job'[g] # NoJob /\ job'[g].op = job[g].op /\ job'[g].tag = job[g].tag
           /\ job'[g].user = job[g].user /\ job'[g].new = job[g].new
<1>1. job[g].op # "idle"
  BY BusyByOp DEF JobsOK
<1>2. QED
  BY <1>1, NoJobIs DEF Kept

LEMMA NobodyElse ==
    ASSUME AloneUndisturbed, NEW g \in Goroutines, job[g] # NoJob, ~ disturbed
    PROVE  ~ Others(g)
BY DEF AloneUndisturbed, Others

LEMMA GoesOn ==
    ASSUME PInv, NEW g \in Goroutines, job[g] # NoJob, Moved(g), Kept(job[g], job'[g]),
           Base', disturbed /\ Others(g) => disturbed',
           Shaped(job[g])', ~ disturbed' => Facts(job[g])'
    PROVE  PInv'
<1>1. JobsOK /\ AloneUndisturbed /\ \A h \in Goroutines : Shaped(job[h])
  BY DEF PInv, Base, Types
<1>2. job'[g] # NoJob
  BY <1>1, KeptBusy
<1>3. \A h \in Goroutines : h # g => job'[h] = job[h]
  BY DEF Moved
<1>4. ~ disturbed' => ~ Others(g)
  BY <1>1, NobodyElse
<1>5. ~ disturbed' => \A h \in Goroutines : h # g => job'[h] = NoJob
  BY <1>3, <1>4 DEF Others
<1>6. AloneUndisturbed'
  BY <1>5 DEF AloneUndisturbed
<1>7. Persisted'
  BY <1>2 DEF Persisted
<1>8. \A h \in Goroutines : Shaped(job[h])'
  BY <1>1, <1>3 DEF Shaped
<1>9. ~ disturbed' => \A h \in Goroutines : Facts(job[h])'
  BY <1>5, IdleKnows
<1>10. QED
  BY <1>6, <1>7, <1>8, <1>9 DEF PInv

\* What lives is what the manager runs.
LEMMA OneUp ==
    ASSUME Base
    PROVE  /\ Up \subseteq Alive /\ Up \subseteq Procs
           /\ ~ running => Alive = {} /\ Up = {}
           /\ \A p, q \in Up : p = q
BY DEF Base, IInv, OneProcess, Up, Alive

\* What a busy goroutine that nobody disturbs can use.
LEMMA Usable ==
    ASSUME PInv, NEW g \in Goroutines
    PROVE  /\ Base /\ Types /\ JobsOK /\ IInv /\ Shaped(job[g]) /\ JobOK(job[g])
           /\ ~ disturbed => Facts(job[g])
           /\ disturbed \in BOOLEAN /\ running \in BOOLEAN
BY TypesAre DEF PInv, Base, Types, JobsOK

\* The process as it was, or less of it.
Fewer ==
    /\ \A p \in Up' : p \in Up /\ proc'[p].in = proc[p].in
    /\ file' = file
    /\ running' => running

LEMMA FewerAgrees == ASSUME Fewer, Agrees PROVE Agrees'
BY DEF Fewer, Agrees

LEMMA SameFewer == ASSUME UNCHANGED <<file, proc, running>> PROVE Fewer
BY DEF Fewer, Up

LEMMA WrittenKept == ASSUME Written, Up' = Up, file'.there = file.there \/ file'.there = TRUE
                     PROVE  Written'
BY DEF Written
LEMMA UpAfterServe ==
    ASSUME Base, NEW t, NEW x, Serve(t, x)
    PROVE  Up' = Up
<1>1. PICK p \in Up : proc' = [proc EXCEPT ![p].in[t] = x]
  BY DEF Serve
<1>2. proc' = [proc EXCEPT ![p].in = [proc[p].in EXCEPT ![t] = x]] /\ p \in Procs
  BY <1>1 DEF Base, IInv, ProcOK, Up
<1>3. \A q \in Procs : proc'[q].state = proc[q].state
  BY <1>2, Served DEF Base, IInv
<1>4. QED
  BY <1>3 DEF Up

LEMMA UpAfterUser ==
    ASSUME Base, NEW t, NEW u, NEW p \in Up, NEW n, proc' = [proc EXCEPT ![p].in[t].n[u] = n]
    PROVE  Up' = Up
<1>1. proc' = [proc EXCEPT ![p].in = [proc[p].in EXCEPT ![t].n[u] = n]] /\ p \in Procs
  BY DEF Base, IInv, ProcOK, Up
<1>2. \A q \in Procs : proc'[q].state = proc[q].state
  BY <1>1, Served DEF Base, IInv
<1>3. QED
  BY <1>2 DEF Up

LEMMA UpAfterEnd ==
    ASSUME Base, NEW p \in Procs, Ended(p) \/ (proc[p].state = "exited"
                                               /\ proc' = [proc EXCEPT ![p].state = "gone"])
    PROVE  Up' = Up \ {p} /\ \A q \in Up' : proc'[q] = proc[q]
<1>1. proc'[p].state \in {"exited", "gone"} /\ \A q \in Procs : q # p => proc'[q] = proc[q]
  BY DEF Ended, Base, IInv, ProcOK
<1>2. QED
  BY <1>1 DEF Up

LEMMA WrittenNext ==
    ASSUME Base, Next
    PROVE  Written'
<1>1. Written /\ FileTyped
  BY TypesAre DEF Base, Types
<1>2. ASSUME UNCHANGED <<file, proc>> PROVE Written'
  BY <1>1, <1>2 DEF Written, Up
<1>3. CASE Command \/ Switch
  BY <1>2, <1>3 DEF Command, Switch, Begin
<1>4. ASSUME NEW g \in Goroutines, Start(g) PROVE Written'
  <2>1. CASE \E p \in Procs, s \in {"up", "doomed"} : Spawn(p, s)
    BY <1>1, <2>1, SpawnTyped, TypesAre DEF Written, Base, Types
  <2>2. CASE proc' = proc /\ file' = [file EXCEPT !.there = TRUE]
    BY <1>1, <2>2, FileWith, FileParts DEF Written
  <2>3. CASE UNCHANGED <<file, proc>>
    BY <1>2, <2>3
  <2>4. QED
    BY <1>4, <2>1, <2>2, <2>3 DEF Start
<1>5. ASSUME NEW g \in Goroutines, Stop(g) PROVE Written'
  <2>1. CASE running /\ cmd \in Alive
    BY <1>1, <1>5, <2>1, UpAfterEnd DEF Stop, Alive, Written
  <2>2. CASE ~ (running /\ cmd \in Alive)
    BY <1>2, <1>5, <2>2 DEF Stop
  <2>3. QED
    BY <2>1, <2>2
<1>6. ASSUME NEW g \in Goroutines, NEW step,
             Settle(g) \/ Look(g) \/ Verify(g) \/ Launch(g) \/ Copy(g, step) \/ Finish(g)
      PROVE  Written'
  BY <1>2, <1>6 DEF Settle, Look, Verify, Launch, Copy, Finish
<1>7. ASSUME NEW g \in Goroutines, Write(g) \/ Back(g) \/ Prepare(g) \/ Edit(g) \/ Revert(g)
      PROVE  Written'
  <2>1. Up' = Up
    BY <1>7 DEF Write, Back, Prepare, Edit, Revert, Up
  <2>2. CASE Write(g)
    BY <2>2 DEF Write, Written
  <2>3. CASE Prepare(g)
    <3>1. file'.there <=> file.there \/ ~ running
      BY <1>1, <2>3 DEF Prepare, FileTyped
    <3>2. QED
      BY <1>1, <2>1, <3>1 DEF Written
  <2>4. CASE Back(g) \/ Edit(g) \/ Revert(g)
    <3>1. \/ file' = file \/ \E x : file' = [file EXCEPT !.in = x]
          \/ \E t, x : file' = [file EXCEPT !.in[t] = x]
      BY <2>4 DEF Back, Edit, Revert
    <3>2. file'.there = file.there
      BY <1>1, <3>1 DEF FileTyped
    <3>3. QED
      BY <1>1, <2>1, <3>2 DEF Written
  <2>5. QED
    BY <1>7, <2>2, <2>3, <2>4
<1>8. ASSUME NEW g \in Goroutines, AddInbound(g) \/ RemoveInbound(g) \/ Drop(g) \/ ReAdd(g)
      PROVE  Written'
  <2>1. file' = file
    BY <1>8 DEF AddInbound, RemoveInbound, Drop, ReAdd
  <2>2. UNCHANGED proc \/ \E t, x : Serve(t, x)
    BY <1>8 DEF AddInbound, RemoveInbound, Drop, ReAdd
  <2>3. QED
    BY <1>1, <1>2, <2>1, <2>2, UpAfterServe DEF Written
<1>9. ASSUME NEW g \in Goroutines, NEW step, ChangeUser(g, step) PROVE Written'
  <2>1. file' = file
    BY <1>9 DEF ChangeUser
  <2>2. CASE UNCHANGED proc
    BY <1>2, <2>1, <2>2
  <2>3. CASE ~ UNCHANGED proc
    <3>1. PICK p \in Up, n \in {0, 1} : proc' = [proc EXCEPT ![p].in[job[g].tag].n[job[g].user] = n]
      BY <1>9, <2>3 DEF ChangeUser
    <3>2. Up' = Up
      BY <3>1, UpAfterUser
    <3>3. QED
      BY <1>1, <2>1, <3>2 DEF Written
  <2>4. QED
    BY <2>2, <2>3
<1>10. ASSUME NEW p \in Procs, Exit(p) \/ Crash(p) \/ Notice(p) PROVE Written'
  BY <1>1, <1>10, UpAfterEnd DEF Exit, Crash, Notice, Written
<1>11. QED
  BY <1>3, <1>4, <1>5, <1>6, <1>7, <1>8, <1>9, <1>10 DEF Next, Manage, Change

LEMMA BaseKept == ASSUME Prompt PROVE Base /\ [Next]_vars => Base'
<1> SUFFICES ASSUME Base, [Next]_vars PROVE Base'
  OBVIOUS
<1>1. Types' /\ IInv'
  BY TypesKept, Preserved DEF Base
<1>2. CASE UNCHANGED vars
  BY <1>1, <1>2 DEF Base, vars, Written, Up
<1>3. CASE Next
  BY <1>1, <1>3, WrittenNext DEF Base
<1>4. QED
  BY <1>2, <1>3

LEMMA BaseInit == Init => Base
<1> SUFFICES ASSUME Init PROVE Base
  OBVIOUS
<1>1. Types /\ IInv
  BY TypesInit, Initially
<1>2. Written
  BY DEF Init, Written, Up
<1>3. QED
  BY <1>1, <1>2 DEF Base
\* What is left after an error.
LEMMA FailsPlan ==
    ASSUME JobsOK, NEW g \in Goroutines, job[g].plan # <<>>, NEW step, Fails(g, step)
    PROVE  /\ job[g].op = "apply" => job'[g].plan \in {DoBackStart, <<>>}
           /\ job[g].op \in ChangeOps => job'[g].plan = <<>>
<1>1. job'[g].plan = <<>> \/ job'[g].plan = Remedy(g, step)
  BY FailsIs
<1>2. job[g].op = "apply" => Remedy(g, step) \in {DoBackStart, <<>>}
  BY DEF Remedy, DoBackStart
<1>3. job[g].op \in ChangeOps => Remedy(g, step) = <<>>
  BY DEF Remedy, ChangeOps, InboundOps, UserOps
<1>4. QED
  BY <1>1, <1>2, <1>3

LEMMA OpCases ==
    ASSUME JobsOK, NEW g \in Goroutines, job[g].plan # <<>>
    PROVE  /\ \/ job[g].op \in PlainOps \/ job[g].op = "apply" \/ job[g].op = "addInbound"
              \/ job[g].op = "removeInbound" \/ job[g].op \in UserOps
           /\ job[g] # NoJob /\ JobOK(job[g])
BY HasPlan, OpKnown DEF ChangeOps, InboundOps

\* Where a goroutine stands that has a certain step first.
LEMMA ApplyAt ==
    ASSUME NEW g \in Goroutines, NEW s, At(g, s), Shaped(job[g]), job[g].op = "apply"
    PROVE  \/ s = "write" /\ Is(job[g].plan, s, DoLaunch) /\ job[g].plan = DoWriteLaunch
           \/ s = "launch" /\ job[g].plan = DoLaunch
           \/ s = "stop" /\ Is(job[g].plan, s, DoSettleStartSettleVerify)
                /\ job[g].plan = DoStopSettleStartSettleVerify
           \/ s = "settle" /\ Is(job[g].plan, s, DoStartSettleVerify)
                /\ job[g].plan = DoSettleStartSettleVerify
           \/ s = "start" /\ Is(job[g].plan, s, DoSettleVerify)
                /\ job[g].plan = DoStartSettleVerify
           \/ s = "settle" /\ Is(job[g].plan, s, DoVerify) /\ job[g].plan = DoSettleVerify
           \/ s = "verify" /\ Is(job[g].plan, s, <<>>) /\ job[g].plan = DoVerify
           \/ s = "back" /\ Is(job[g].plan, s, DoStart) /\ job[g].plan = DoBackStart
           \/ s = "start" /\ Is(job[g].plan, s, <<>>) /\ job[g].plan = DoStart
<1>1. job[g].plan # <<>> /\ Head(job[g].plan) = s
  BY DEF At
<1>2. job[g].plan \in Restarting \cup {DoWriteLaunch, DoLaunch, DoBackStart, DoStart}
  BY <1>1 DEF Shaped
<1>3. CASE job[g].plan \in {DoWriteLaunch, DoLaunch, DoBackStart, DoStart}
  BY <1>1, <1>3, ApplyPlans DEF Is
<1>4. CASE job[g].plan \in {DoStopSettleStartSettleVerify, DoSettleStartSettleVerify}
  BY <1>1, <1>4, ApplyPlans DEF Is
<1>5. CASE job[g].plan \in {DoStartSettleVerify, DoSettleVerify, DoVerify}
  BY <1>1, <1>5, ApplyPlans DEF Is
<1>6. QED
  BY <1>2, <1>3, <1>4, <1>5 DEF Restarting

LEMMA AddInboundAt ==
    ASSUME NEW g \in Goroutines, NEW s, At(g, s), Shaped(job[g]), job[g].op = "addInbound"
    PROVE  \/ s = "prepare" /\ job[g].plan = DoPrepare
           \/ s = "adi" /\ Is(job[g].plan, s, DoEdit) /\ job[g].plan = DoAdiEdit
           \/ s = "edit" /\ Is(job[g].plan, s, <<>>) /\ job[g].plan = DoEdit
           \/ s = "edit" /\ Is(job[g].plan, s, DoStartSettleVerify)
                /\ job[g].plan = DoEditStartSettleVerify
           \/ s = "start" /\ Is(job[g].plan, s, DoSettleVerify)
                /\ job[g].plan = DoStartSettleVerify
           \/ s = "settle" /\ Is(job[g].plan, s, DoVerify) /\ job[g].plan = DoSettleVerify
           \/ s = "verify" /\ Is(job[g].plan, s, <<>>) /\ job[g].plan = DoVerify
BY InboundPlans DEF At, Shaped, Is

LEMMA RemoveInboundAt ==
    ASSUME NEW g \in Goroutines, NEW s, At(g, s), Shaped(job[g]), job[g].op = "removeInbound"
    PROVE  \/ s = "look" /\ Is(job[g].plan, s, DoRmiEdit) /\ job[g].plan = DoLookRmiEdit
           \/ s = "rmi" /\ Is(job[g].plan, s, DoEdit) /\ job[g].plan = DoRmiEdit
           \/ s = "edit" /\ Is(job[g].plan, s, <<>>) /\ job[g].plan = DoEdit
BY InboundPlans DEF At, Shaped, Is

LEMMA UserAt ==
    ASSUME NEW g \in Goroutines, NEW s, At(g, s), Shaped(job[g]), job[g].op \in UserOps
    PROVE  \/ s = "look" /\ Is(job[g].plan, s, DoEditThen(StepOf(job[g].op)))
                /\ job[g].plan = DoLookEdit(StepOf(job[g].op))
           \/ s = "edit" /\ Is(job[g].plan, s, DoOnly(StepOf(job[g].op)))
                /\ job[g].plan = DoEditThen(StepOf(job[g].op))
           \/ s = StepOf(job[g].op) /\ Is(job[g].plan, s, <<>>)
                /\ job[g].plan = DoOnly(StepOf(job[g].op))
           \/ s = "drop" /\ Is(job[g].plan, s, DoReadd) /\ job[g].plan = DoDropReadd
           \/ s = "readd" /\ Is(job[g].plan, s, <<>>) /\ job[g].plan = DoReadd
           \/ s = "revert" /\ Is(job[g].plan, s, DoDropReadd)
                /\ job[g].plan = DoRevertDropReadd
BY UserPlans DEF At, Shaped, Reloading, Is

LEMMA StartAt ==
    ASSUME JobsOK, NEW g \in Goroutines, At(g, "start"), Shaped(job[g])
    PROVE  \/ job[g].op \in PlainOps
           \/ job[g].op = "apply" /\ job[g].plan = DoStartSettleVerify
                /\ Tail(job[g].plan) = DoSettleVerify
           \/ job[g].op = "apply" /\ job[g].plan = DoStart /\ Tail(job[g].plan) = <<>>
           \/ job[g].op = "addInbound" /\ job[g].plan = DoStartSettleVerify
                /\ Tail(job[g].plan) = DoSettleVerify
<1>1. job[g].plan # <<>> /\ Head(job[g].plan) = "start"
  BY DEF At
<1>2. CASE job[g].op = "apply"
  BY <1>2, ApplyAt DEF Is
<1>3. CASE job[g].op = "addInbound"
  BY <1>3, AddInboundAt DEF Is
<1>4. CASE job[g].op = "removeInbound"
  <2>1. ~ \E q : Is(job[g].plan, "start", q)
    BY <1>4, RemoveInboundAt
  <2>2. QED
    BY <1>1, <2>1 DEF Is
<1>5. CASE job[g].op \in UserOps
  <2>1. StepOf(job[g].op) # "start"
    BY StepIs
  <2>2. QED
    BY <1>5, <2>1, UserAt
<1>6. QED
  BY <1>1, <1>2, <1>3, <1>4, <1>5, OpCases

LEMMA StartKnows ==
    ASSUME PInv, Base', NEW g \in Goroutines, Start(g)
    PROVE  PInv'
<1>1. At(g, "start") /\ job[g].plan # <<>>
  BY DEF Start, At
<1>2. /\ Base /\ JobsOK /\ IInv /\ Shaped(job[g]) /\ disturbed \in BOOLEAN
      /\ job[g] # NoJob /\ (~ disturbed => Facts(job[g]))
  BY <1>1, Usable, HasPlan
<1>3. CASE running /\ Fails(g, "start") /\ UNCHANGED <<file, proc, cmd, running, faults, disturbed>>
  <2>1. Moved(g) /\ Kept(job[g], job'[g])
    BY <1>1, <1>2, <1>3, FailsIs DEF Alike
  <2>2. job'[g].op = job[g].op
    BY <2>1 DEF Kept
  <2>3. Agrees => Agrees'
    BY <1>3, SameFewer, FewerAgrees
  <2>4. Shaped(job[g])' /\ (~ disturbed' => Facts(job[g])')
    <3>1. CASE job[g].op \in PlainOps
      BY <1>2, <1>3, <2>2, <2>3, <3>1, PlainThen DEF Facts, Agreeing
    <3>2. CASE job[g].op = "apply"
      <4>1. job'[g].plan \in {DoBackStart, <<>>}
        BY <1>1, <1>2, <1>3, <3>2, FailsPlan
      <4>2. Halted(job[g])
        BY <1>1, <1>2, <3>2, StartAt DEF Halted, PlainOps
      <4>3. disturbed'
        BY <1>2, <1>3, <4>2 DEF Facts
      <4>4. QED
        BY <2>2, <3>2, <4>1, <4>3, ApplyThen
    <3>3. CASE job[g].op = "addInbound"
      <4>1. job'[g].plan = <<>>
        BY <1>1, <1>2, <1>3, <3>3, FailsPlan DEF ChangeOps, InboundOps
      <4>2. Halted(job[g])
        BY <1>1, <1>2, <3>3, StartAt DEF Halted, PlainOps
      <4>3. disturbed'
        BY <1>2, <1>3, <4>2 DEF Facts
      <4>4. QED
        BY <2>2, <3>3, <4>1, <4>3, AddInboundThen
    <3>4. QED
      BY <1>1, <1>2, <3>1, <3>2, <3>3, StartAt
  <2>5. QED
    BY <1>2, <1>3, <2>1, <2>4, GoesOn
<1>4. CASE /\ ~ running /\ Next1(g)
           /\ \E p \in Procs, s \in {"up", "doomed"} : Spawn(p, s)
           /\ disturbed' = (disturbed /\ (Others(g) \/ Alive # {}))
  <2>1. /\ Moved(g) /\ Kept(job[g], job'[g]) /\ job'[g].op = job[g].op
        /\ job'[g].plan = Tail(job[g].plan)
    BY <1>1, <1>2, <1>4, NextIs DEF Alike, Kept
  <2>2. Agrees'
    <3>1. PICK p \in Procs, s \in {"up", "doomed"} : Spawn(p, s)
      BY <1>4
    <3>2. proc'[p].in = file.in /\ \A q \in Procs : q # p => proc'[q] = proc[q]
      BY <3>1 DEF Spawn, IInv, ProcOK, Base
    <3>3. file'.in = file.in
      BY <1>2, <3>1, SpawnTyped DEF Base, Types
    <3>4. Up = {}
      BY <1>2, <1>4, OneUp
    <3>5. QED
      BY <3>2, <3>3, <3>4 DEF Agrees, Up
  <2>3. Shaped(job[g])' /\ (~ disturbed' => Facts(job[g])')
    BY <1>1, <1>2, <2>1, <2>2, StartAt, PlainThen, ApplyThen, AddInboundThen
  <2>4. QED
    BY <1>2, <1>4, <2>1, <2>3, GoesOn
<1>5. CASE /\ ~ running /\ Fails(g, "start") /\ UNCHANGED <<proc, running, disturbed>>
  <2>1. Moved(g) /\ Kept(job[g], job'[g])
    BY <1>1, <1>2, <1>5, FailsIs DEF Alike
  <2>2. job'[g].op = job[g].op
    BY <2>1 DEF Kept
  <2>3. Agrees' /\ ~ running'
    <3>1. Up = {}
      BY <1>2, <1>5, OneUp
    <3>2. Up' = {}
      BY <1>5, <3>1 DEF Up
    <3>3. QED
      BY <1>5, <3>2 DEF Agrees
  <2>4. Shaped(job[g])' /\ (~ disturbed' => Facts(job[g])')
    BY <1>1, <1>2, <1>5, <2>2, <2>3, FailsPlan, StartAt, PlainThen, ApplyThen, AddInboundThen
       DEF ChangeOps, InboundOps
  <2>5. QED
    BY <1>2, <1>5, <2>1, <2>4, GoesOn
<1>6. QED
  BY <1>3, <1>4, <1>5 DEF Start

LEMMA StopKnows ==
    ASSUME PInv, Base', NEW g \in Goroutines, Stop(g)
    PROVE  PInv'
<1>1. At(g, "stop") /\ job[g].plan # <<>>
  BY DEF Stop, At
<1>2. /\ Base /\ JobsOK /\ IInv /\ Shaped(job[g]) /\ disturbed \in BOOLEAN
      /\ job[g] # NoJob /\ (~ disturbed => Facts(job[g]))
  BY <1>1, Usable, HasPlan
<1>3. /\ Moved(g) /\ Kept(job[g], job'[g]) /\ job'[g].op = job[g].op
      /\ job'[g].plan = Tail(job[g].plan)
  BY <1>1, <1>2, NextIs DEF Alike, Kept, Stop
<1>4. Fewer
  <2>1. CASE running /\ cmd \in Alive
    BY <1>2, <2>1, UpAfterEnd DEF Stop, Alive, Fewer
  <2>2. CASE ~ (running /\ cmd \in Alive)
    BY <2>2 DEF Stop, Fewer, Up
  <2>3. QED
    BY <2>1, <2>2
<1>5. Shaped(job[g])' /\ (~ disturbed' => Facts(job[g])')
  <2>1. CASE job[g].op \in PlainOps
    BY <1>2, <1>3, <1>4, <2>1, FewerAgrees, PlainThen DEF Facts, Agreeing, Stop
  <2>2. CASE job[g].op = "apply"
    <3>1. job'[g].plan = DoSettleStartSettleVerify /\ ~ running'
      BY <1>1, <1>2, <1>3, <2>2, ApplyAt DEF Stop, Is
    <3>2. QED
      BY <1>3, <2>2, <3>1, ApplyThen
  <2>3. CASE job[g].op = "addInbound"
    BY <1>1, <1>2, <2>3, AddInboundAt
  <2>4. CASE job[g].op = "removeInbound"
    BY <1>1, <1>2, <2>4, RemoveInboundAt
  <2>5. CASE job[g].op \in UserOps
    BY <1>1, <1>2, <2>5, UserAt, StepIs
  <2>6. QED
    BY <1>1, <1>2, <2>1, <2>2, <2>3, <2>4, <2>5, OpCases
<1>6. QED
  BY <1>2, <1>3, <1>5, GoesOn DEF Stop

\* Settle, Look and Verify, Launch and Copy leave the file and the process alone.
LEMMA LookKnows ==
    ASSUME PInv, Base', NEW g \in Goroutines,
           Settle(g) \/ Look(g) \/ Verify(g) \/ Launch(g)
             \/ \E step \in {"download", "backup", "replace"} : Copy(g, step)
    PROVE  PInv'
<1>1. job[g].plan # <<>> /\ UNCHANGED <<file, proc, cmd, running, disturbed>>
  BY DEF Settle, Look, Verify, Launch, Copy, At
<1>2. /\ Base /\ JobsOK /\ IInv /\ Shaped(job[g]) /\ disturbed \in BOOLEAN
      /\ job[g] # NoJob /\ (~ disturbed => Facts(job[g])) /\ Types
  BY <1>1, Usable, HasPlan
<1>3. Agrees => Agrees'
  BY <1>1, SameFewer, FewerAgrees
<1>4. ASSUME Next1(g) PROVE /\ Moved(g) /\ Kept(job[g], job'[g]) /\ job'[g].op = job[g].op
                            /\ job'[g].plan = Tail(job[g].plan)
  BY <1>1, <1>2, <1>4, NextIs DEF Alike, Kept
<1>5. ASSUME NEW step, Fails(g, step)
      PROVE  Moved(g) /\ Kept(job[g], job'[g]) /\ job'[g].op = job[g].op
  BY <1>1, <1>2, <1>5, FailsIs DEF Alike, Kept
<1>6. ASSUME Moved(g), Kept(job[g], job'[g]), Shaped(job[g])', ~ disturbed' => Facts(job[g])'
      PROVE  PInv'
  BY <1>1, <1>2, <1>6, GoesOn
<1>7. CASE Settle(g)
  <2>1. At(g, "settle") /\ Next1(g)
    BY <1>7 DEF Settle
  <2>2. CASE job[g].op \in PlainOps
    BY <1>1, <1>2, <1>3, <1>4, <1>6, <2>1, <2>2, PlainThen DEF Facts, Agreeing
  <2>3. CASE job[g].op = "apply"
    <3>1. \/ job'[g].plan = DoStartSettleVerify /\ Halted(job[g])
          \/ job'[g].plan = DoVerify /\ Agreeing(job[g])
      <4>1. \/ Is(job[g].plan, "settle", DoStartSettleVerify)
               /\ job[g].plan = DoSettleStartSettleVerify
            \/ Is(job[g].plan, "settle", DoVerify) /\ job[g].plan = DoSettleVerify
        BY <1>2, <2>1, <2>3, ApplyAt
      <4>2. job'[g].plan = Tail(job[g].plan)
        BY <1>4, <2>1
      <4>3. QED
        BY <2>3, <4>1, <4>2 DEF Is, Halted, Agreeing
    <3>2. QED
      BY <1>1, <1>2, <1>3, <1>4, <1>6, <2>1, <2>3, <3>1, ApplyThen DEF Facts
  <2>4. CASE job[g].op = "addInbound"
    <3>1. job'[g].plan = DoVerify /\ Agreeing(job[g])
      BY <1>2, <1>4, <2>1, <2>4, AddInboundAt DEF Is, Agreeing
    <3>2. QED
      BY <1>1, <1>2, <1>3, <1>4, <1>6, <2>1, <2>4, <3>1, AddInboundThen DEF Facts
  <2>5. CASE job[g].op = "removeInbound"
    BY <1>2, <2>1, <2>5, RemoveInboundAt
  <2>6. CASE job[g].op \in UserOps
    BY <1>2, <2>1, <2>6, UserAt, StepIs
  <2>7. QED
    BY <1>1, <1>2, <2>2, <2>3, <2>4, <2>5, <2>6, OpCases
<1>8. CASE Look(g)
  <2>1. At(g, "look") /\ (Next1(g) \/ Fails(g, "look"))
    BY <1>8 DEF Look
  <2>2. job[g].op \in ChangeOps
    BY <1>2, <2>1, ChangeStep
  <2>3. Fails(g, "look") => job'[g].plan = <<>>
    BY <1>1, <1>2, <2>2, FailsPlan
  <2>4. CASE job[g].op = "addInbound"
    BY <1>2, <2>1, <2>4, AddInboundAt
  <2>5. CASE job[g].op = "removeInbound"
    <3>1. job'[g].plan \in {DoRmiEdit, <<>>} /\ Agreeing(job[g])
      <4>1. Is(job[g].plan, "look", DoRmiEdit) /\ job[g].plan = DoLookRmiEdit
        BY <1>2, <2>1, <2>5, RemoveInboundAt
      <4>2. job'[g].plan = Tail(job[g].plan) \/ job'[g].plan = <<>>
        BY <1>4, <2>1, <2>3
      <4>3. QED
        BY <2>5, <4>1, <4>2 DEF Is, Agreeing
    <3>2. QED
      BY <1>1, <1>2, <1>3, <1>4, <1>5, <1>6, <2>1, <2>5, <3>1, RemoveInboundThen DEF Facts
  <2>6. CASE job[g].op \in UserOps
    <3>1. job'[g].plan \in {DoEditThen(StepOf(job[g].op)), <<>>} /\ Agreeing(job[g])
      BY <1>2, <1>4, <2>1, <2>3, <2>6, UserAt, StepIs DEF Is, Agreeing
    <3>2. QED
      BY <1>1, <1>2, <1>3, <1>4, <1>5, <1>6, <2>1, <2>6, <3>1, UserThen DEF Facts
  <2>7. QED
    BY <2>2, <2>4, <2>5, <2>6 DEF ChangeOps, InboundOps
<1>9. CASE Verify(g)
  <2>1. At(g, "verify") /\ (Next1(g) \/ (~ running /\ Fails(g, "verify")))
    BY <1>9 DEF Verify
  <2>2. CASE job[g].op = "apply"
    <3>1. Agreeing(job[g]) /\ (Next1(g) => job'[g].plan = <<>>)
      BY <1>2, <1>4, <2>1, <2>2, ApplyAt DEF Is, Agreeing
    <3>2. CASE Next1(g)
      BY <1>1, <1>2, <1>3, <1>4, <1>6, <2>2, <3>1, <3>2, ApplyThen DEF Facts
    <3>3. CASE ~ running /\ Fails(g, "verify")
      <4>1. job'[g].plan \in {DoBackStart, <<>>}
        BY <1>1, <1>2, <2>2, <3>3, FailsPlan
      <4>2. QED
        BY <1>1, <1>2, <1>3, <1>5, <1>6, <2>2, <3>1, <3>3, <4>1, ApplyThen DEF Facts
    <3>4. QED
      BY <2>1, <3>2, <3>3
  <2>3. CASE job[g].op = "addInbound"
    <3>1. Agreeing(job[g]) /\ job'[g].plan = <<>>
      BY <1>1, <1>2, <1>4, <2>1, <2>3, AddInboundAt, FailsPlan
         DEF Is, Agreeing, ChangeOps, InboundOps
    <3>2. QED
      BY <1>1, <1>2, <1>3, <1>4, <1>5, <1>6, <2>1, <2>3, <3>1, AddInboundThen DEF Facts
  <2>4. CASE job[g].op = "removeInbound"
    BY <1>2, <2>1, <2>4, RemoveInboundAt
  <2>5. CASE job[g].op \in UserOps
    BY <1>2, <2>1, <2>5, UserAt, StepIs
  <2>6. CASE job[g].op \in PlainOps
    <3>1. "verify" \in Plain
      BY <1>1, <1>2, <2>1, <2>6, HasPlan, StepsAre DEF At
    <3>2. QED
      BY <3>1 DEF Plain
  <2>7. QED
    BY <1>1, <1>2, <2>2, <2>3, <2>4, <2>5, <2>6, OpCases
<1>10. CASE Launch(g)
  <2>1. At(g, "launch")
    BY <1>10 DEF Launch
  <2>2. job[g].op = "apply"
    <3>1. job[g].op \notin PlainOps
      BY <1>1, <1>2, <2>1, HasPlan, StepsAre DEF At, Plain
    <3>2. QED
      BY <1>1, <1>2, <2>1, <3>1, OpCases, AddInboundAt, RemoveInboundAt, UserAt, StepIs
  <2>3. PICK p : /\ Turn(g, p) /\ p \in {DoStopSettleStartSettleVerify, DoStartSettleVerify}
                 /\ ~ running \/ p = DoStopSettleStartSettleVerify
    BY <1>10 DEF Launch, DoStopSettleStartSettleVerify, DoStartSettleVerify
  <2>4. p \in Seq(StepsOf(job[g].op))
    <3>1. DoStopSettleStartSettleVerify \in Seq(Applying) /\ DoStartSettleVerify \in Seq(Applying)
      BY DEF DoStopSettleStartSettleVerify, DoStartSettleVerify, Applying, Plain
    <3>2. QED
      BY <2>2, <2>3, <3>1, StepsAre
  <2>5. Moved(g) /\ Kept(job[g], job'[g]) /\ job'[g].op = "apply" /\ job'[g].plan = p
    BY <1>1, <1>2, <2>2, <2>3, <2>4, TurnIs DEF Alike, Kept
  <2>6. QED
    BY <1>1, <1>6, <2>3, <2>5, ApplyThen
<1>11. ASSUME NEW step \in {"download", "backup", "replace"}, Copy(g, step) PROVE PInv'
  <2>1. At(g, step) /\ (Next1(g) \/ Fails(g, step))
    BY <1>11 DEF Copy
  <2>2. job[g].op \in PlainOps
    BY <1>1, <1>2, <2>1, OpCases, ApplyAt, AddInboundAt, RemoveInboundAt, UserAt, StepIs
  <2>3. QED
    BY <1>1, <1>2, <1>3, <1>4, <1>5, <1>6, <2>1, <2>2, PlainThen DEF Facts, Agreeing
<1>12. QED
  BY <1>7, <1>8, <1>9, <1>10, <1>11
LEMMA ApplyOnly ==
    ASSUME JobsOK, NEW g \in Goroutines, Shaped(job[g]),
           At(g, "write") \/ At(g, "launch") \/ At(g, "back")
    PROVE  job[g].op = "apply" /\ job[g].plan # <<>>
<1>1. job[g].plan # <<>>
  BY DEF At
<1>2. job[g].op \notin PlainOps
  BY <1>1, HasPlan, StepsAre DEF At, Plain
<1>3. QED
  BY <1>1, <1>2, OpCases, AddInboundAt, RemoveInboundAt, UserAt, StepIs

LEMMA WriteKnows ==
    ASSUME PInv, Base', NEW g \in Goroutines, Write(g) \/ Back(g)
    PROVE  PInv'
<1>1. At(g, "write") \/ At(g, "back")
  BY DEF Write, Back
<1>2. /\ Base /\ Types /\ JobsOK /\ Shaped(job[g]) /\ disturbed \in BOOLEAN
      /\ (~ disturbed => Facts(job[g]))
  BY Usable
<1>3. job[g].op = "apply" /\ job[g].plan # <<>> /\ job[g] # NoJob
  BY <1>1, <1>2, ApplyOnly, HasPlan
<1>4. CASE Write(g)
  <2>1. Moved(g) /\ Kept(job[g], job'[g]) /\ job'[g].plan = Tail(job[g].plan)
    BY <1>2, <1>4, WriteIs
  <2>2. job'[g].op = "apply" /\ job'[g].plan = DoLaunch
    <3>1. Is(job[g].plan, "write", DoLaunch)
      BY <1>2, <1>3, <1>4, ApplyAt DEF Write
    <3>2. QED
      BY <1>3, <2>1, <3>1 DEF Is, Kept
  <2>3. Shaped(job[g])' /\ (~ disturbed' => Facts(job[g])')
    BY <2>2, ApplyThen
  <2>4. QED
    BY <1>2, <1>3, <1>4, <2>1, <2>3, GoesOn DEF Write
<1>5. CASE Back(g)
  <2>1. Moved(g) /\ Kept(job[g], job'[g]) /\ job'[g].plan = Tail(job[g].plan)
    BY <1>2, <1>3, <1>5, NextIs DEF Back, Alike
  <2>2. job'[g].op = "apply" /\ job'[g].plan = DoStart /\ Halted(job[g])
    BY <1>2, <1>3, <1>5, <2>1, ApplyAt DEF Back, Is, Kept, Halted
  <2>3. Shaped(job[g])' /\ (~ disturbed' => Facts(job[g])')
    BY <1>2, <1>5, <2>2, ApplyThen DEF Facts, Back
  <2>4. QED
    BY <1>2, <1>3, <1>5, <2>1, <2>3, GoesOn DEF Back
<1>6. QED
  BY <1>4, <1>5

LEMMA PrepareKnows ==
    ASSUME PInv, Base', NEW g \in Goroutines, Prepare(g)
    PROVE  PInv'
<1>1. At(g, "prepare")
  BY DEF Prepare
<1>2. /\ Base /\ Types /\ JobsOK /\ Shaped(job[g]) /\ disturbed \in BOOLEAN
      /\ (~ disturbed => Facts(job[g])) /\ FileTyped
  BY Usable, TypesAre DEF Types
<1>3. job[g].plan # <<>> /\ job[g] # NoJob /\ job[g].op \in ChangeOps
  BY <1>1, <1>2, ChangeStep, HasPlan
<1>4. job[g].op = "addInbound" /\ job[g].plan = DoPrepare
  BY <1>1, <1>2, <1>3, AddInboundAt, RemoveInboundAt, UserAt, StepIs DEF ChangeOps, InboundOps
<1>5. PICK p : /\ Turn(g, p) /\ p \in {DoAdiEdit, DoEditStartSettleVerify}
               /\ running \/ p = DoEditStartSettleVerify
               /\ ~ running \/ p = DoAdiEdit
  BY DEF Prepare, DoAdiEdit, DoEditStartSettleVerify
<1>6. p \in Seq(StepsOf(job[g].op))
  <2>1. DoAdiEdit \in Seq(ByTag) /\ DoEditStartSettleVerify \in Seq(ByTag)
    BY DEF DoAdiEdit, DoEditStartSettleVerify, ByTag, Applying, Plain
  <2>2. job[g].op \in InboundOps
    BY <1>4 DEF InboundOps
  <2>3. QED
    BY <1>5, <2>1, <2>2, StepsAre
<1>7. Moved(g) /\ Kept(job[g], job'[g]) /\ job'[g].op = "addInbound" /\ job'[g].plan = p
  BY <1>2, <1>3, <1>4, <1>5, <1>6, TurnIs DEF Alike, Kept
<1>8. Agrees => Agrees'
  <2>1. file'.in = file.in
    BY <1>2 DEF Prepare, FileTyped
  <2>2. QED
    BY <2>1 DEF Prepare, Agrees, Up
<1>9. Agreeing(job[g])
  BY <1>4 DEF Agreeing
<1>10. Shaped(job[g])' /\ (~ disturbed' => Facts(job[g])')
  BY <1>2, <1>5, <1>7, <1>8, <1>9, AddInboundThen DEF Facts, Prepare
<1>11. QED
  BY <1>2, <1>3, <1>7, <1>10, GoesOn DEF Prepare

LEMMA EditKnows ==
    ASSUME PInv, Base', NEW g \in Goroutines, Edit(g)
    PROVE  PInv'
<1>1. At(g, "edit")
  BY DEF Edit
<1>2. /\ Base /\ Types /\ JobsOK /\ Shaped(job[g]) /\ disturbed \in BOOLEAN
      /\ (~ disturbed => Facts(job[g])) /\ FileTyped
  BY Usable, TypesAre DEF Types
<1>3. job[g].plan # <<>> /\ job[g] # NoJob /\ job[g].op \in ChangeOps
  BY <1>1, <1>2, ChangeStep, HasPlan
<1> DEFINE t == job[g].tag
           Q == Edited(job[g], file.in[t])
<1>4. Moved(g) /\ Kept(job[g], job'[g]) /\ job'[g].plan = Tail(job[g].plan)
  BY <1>2, EditIs
<1>5. /\ job'[g].op = job[g].op /\ job'[g].tag = t /\ job'[g].user = job[g].user
      /\ job'[g].new = job[g].new
  BY <1>4 DEF Kept
<1>6. Up' = Up /\ proc' = proc /\ running' = running /\ disturbed' = disturbed
  BY DEF Edit, Up
<1>7. Up = {} \/ file'.in = Put(file.in, t, Q)
  <2>1. CASE file.there
    <3>1. file' = [file EXCEPT !.in[t] = Q]
      BY <2>1 DEF Edit
    <3>2. QED
      BY <1>2, <3>1 DEF FileTyped, Put
  <2>2. CASE ~ file.there
    BY <1>2, <2>2 DEF Base, Written
  <2>3. QED
    BY <2>1, <2>2
<1>8. CASE job[g].op = "addInbound"
  <2>1. Q = job[g].new[t]
    BY <1>8 DEF Edited
  <2>2. CASE job[g].plan = DoEdit
    <3>1. job'[g].plan = <<>>
      BY <1>4, <2>2, InboundPlans DEF Is
    <3>2. Ahead(t, job[g].new[t]) => Agrees'
      BY <1>6, <1>7, <2>1 DEF Ahead, Agrees
    <3>3. QED
      BY <1>2, <1>3, <1>4, <1>5, <1>6, <1>8, <2>2, <3>1, <3>2, AddInboundThen, GoesOn DEF Facts
  <2>3. CASE job[g].plan = DoEditStartSettleVerify
    <3>1. job'[g].plan = DoStartSettleVerify /\ Halted(job[g])
      BY <1>4, <1>8, <2>3, InboundPlans DEF Is, Halted
    <3>2. QED
      BY <1>2, <1>3, <1>4, <1>5, <1>6, <1>8, <3>1, AddInboundThen, GoesOn DEF Facts
  <2>4. QED
    BY <1>1, <1>2, <1>8, <2>2, <2>3, AddInboundAt
<1>9. CASE job[g].op = "removeInbound"
  <2>1. Q = NoInbound
    BY <1>9 DEF Edited
  <2>2. job[g].plan = DoEdit /\ job'[g].plan = <<>>
    BY <1>1, <1>2, <1>4, <1>9, RemoveInboundAt DEF Is
  <2>3. Ahead(t, NoInbound) => Agrees'
    BY <1>6, <1>7, <2>1 DEF Ahead, Agrees
  <2>4. QED
    BY <1>2, <1>3, <1>4, <1>5, <1>6, <1>9, <2>2, <2>3, RemoveInboundThen, GoesOn DEF Facts
<1>10. CASE job[g].op \in UserOps
  <2>1. job[g].plan = DoEditThen(StepOf(job[g].op)) /\ job'[g].plan = DoOnly(StepOf(job[g].op))
    BY <1>1, <1>2, <1>4, <1>10, UserAt, StepIs DEF Is
  <2>2. Agreeing(job[g])
    BY <1>10, <2>1 DEF Agreeing
  <2>3. \A x : Edited(job'[g], x) = Edited(job[g], x)
    BY <1>5, <1>10 DEF Edited, UserOps
  <2>4. Agrees => Behind(job[g])'
    BY <1>5, <1>6, <1>7, <2>3 DEF Agrees, Behind
  <2>5. QED
    BY <1>2, <1>3, <1>4, <1>5, <1>6, <1>10, <2>1, <2>2, <2>4, UserThen, GoesOn DEF Facts
<1>11. QED
  BY <1>3, <1>8, <1>9, <1>10 DEF ChangeOps, InboundOps

LEMMA RevertKnows ==
    ASSUME PInv, Base', NEW g \in Goroutines, Revert(g)
    PROVE  PInv'
<1>1. At(g, "revert")
  BY DEF Revert
<1>2. /\ Base /\ Types /\ JobsOK /\ Shaped(job[g]) /\ disturbed \in BOOLEAN
      /\ (~ disturbed => Facts(job[g])) /\ FileTyped
  BY Usable, TypesAre DEF Types
<1>3. job[g].plan # <<>> /\ job[g] # NoJob /\ job[g].op \in UserOps
  BY <1>1, <1>2, ChangeStep, HasPlan
<1>4. /\ Moved(g) /\ Kept(job[g], job'[g]) /\ job'[g].plan = Tail(job[g].plan)
  BY <1>2, <1>3, NextIs DEF Revert, Alike
<1>5. job[g].plan = DoRevertDropReadd /\ job'[g].plan = DoDropReadd
  BY <1>1, <1>2, <1>3, <1>4, UserAt, StepIs DEF Is
<1>6. Apart(job[g].tag) => Apart(job[g].tag)'
  <2>1. PICK y : file' = [file EXCEPT !.in[job[g].tag] = y]
    BY DEF Revert
  <2>2. \A s \in Tags \ {job[g].tag} : file'.in[s] = file.in[s]
    BY <1>2, <2>1 DEF FileTyped
  <2>3. job'[g].tag = job[g].tag /\ Up' = Up /\ proc' = proc
    BY <1>4 DEF Revert, Up, Kept
  <2>4. QED
    BY <2>2, <2>3 DEF Apart
<1>7. job[g].plan \in Reloading /\ job'[g].plan \in Reloading
  BY <1>5 DEF Reloading
<1>8. QED
  BY <1>2, <1>3, <1>4, <1>6, <1>7, UserThen, GoesOn DEF Facts, Revert, Kept
\* The process that is up serves an inbound.
LEMMA ServesIt ==
    ASSUME Base, NEW t, NEW x, Serve(t, x)
    PROVE  /\ Up' = Up /\ Up # {}
           /\ \A p \in Up : proc'[p].in = Put(proc[p].in, t, x)
<1>1. PICK p \in Up : proc' = [proc EXCEPT ![p].in[t] = x]
  BY DEF Serve
<1>2. proc'[p].in = Put(proc[p].in, t, x)
  BY <1>1 DEF Base, IInv, ProcOK, Up, Put
<1>3. \A q \in Up : q = p
  BY OneUp
<1>4. Up' = Up
  BY UpAfterServe
<1>5. QED
  BY <1>1, <1>2, <1>3, <1>4

LEMMA AddKnows ==
    ASSUME PInv, Base', NEW g \in Goroutines, AddInbound(g) \/ RemoveInbound(g)
    PROVE  PInv'
<1>1. At(g, "adi") \/ At(g, "rmi")
  BY DEF AddInbound, RemoveInbound
<1>2. /\ Base /\ Types /\ JobsOK /\ Shaped(job[g]) /\ disturbed \in BOOLEAN
      /\ (~ disturbed => Facts(job[g]))
  BY Usable
<1>3. job[g].plan # <<>> /\ job[g] # NoJob /\ job[g].op \in ChangeOps
  BY <1>1, <1>2, ChangeStep, HasPlan
<1>4. UNCHANGED <<file, cmd, running, disturbed>>
  BY DEF AddInbound, RemoveInbound
<1>5. job[g].op \notin UserOps
  BY <1>1, <1>2, UserAt, StepIs
<1>6. ASSUME NEW step, Fails(g, step), UNCHANGED proc, Agreeing(job[g]) PROVE PInv'
  <2>1. Moved(g) /\ Kept(job[g], job'[g]) /\ job'[g].plan = <<>> /\ job'[g].op = job[g].op
    BY <1>2, <1>3, <1>6, FailsIs, FailsPlan DEF Alike, Kept
  <2>2. Agrees => Agrees'
    BY <1>4, <1>6, SameFewer, FewerAgrees
  <2>3. Shaped(job[g])' /\ (~ disturbed' => Facts(job[g])')
    BY <1>2, <1>3, <1>4, <1>5, <1>6, <2>1, <2>2, AddInboundThen, RemoveInboundThen
       DEF Facts, ChangeOps, InboundOps
  <2>4. QED
    BY <1>2, <1>3, <1>4, <2>1, <2>3, GoesOn
<1>7. CASE AddInbound(g)
  <2>1. job[g].op = "addInbound"
    BY <1>2, <1>3, <1>5, <1>7, RemoveInboundAt DEF AddInbound, ChangeOps, InboundOps
  <2>2. Is(job[g].plan, "adi", DoEdit) /\ Agreeing(job[g])
    BY <1>2, <1>7, <2>1, AddInboundAt DEF AddInbound, Agreeing
  <2>3. CASE Serve(job[g].tag, job[g].new[job[g].tag]) /\ Next1(g)
    <3>1. Moved(g) /\ Kept(job[g], job'[g]) /\ job'[g].plan = DoEdit
      BY <1>2, <1>3, <2>2, <2>3, NextIs DEF Alike, Is
    <3>2. /\ job'[g].op = "addInbound" /\ job'[g].tag = job[g].tag
          /\ job'[g].new = job[g].new
      BY <2>1, <3>1 DEF Kept
    <3>3. Agrees => Ahead(job[g].tag, job[g].new[job[g].tag])'
      BY <1>2, <1>4, <2>3, <3>2, ServesIt DEF Agrees, Ahead
    <3>4. QED
      BY <1>2, <1>3, <1>4, <2>2, <3>1, <3>2, <3>3, AddInboundThen, GoesOn DEF Facts
  <2>4. CASE Fails(g, "adi") /\ UNCHANGED proc
    BY <1>6, <2>2, <2>4
  <2>5. QED
    BY <1>7, <2>3, <2>4 DEF AddInbound
<1>8. CASE RemoveInbound(g)
  <2>1. job[g].op = "removeInbound"
    BY <1>2, <1>3, <1>5, <1>8, AddInboundAt DEF RemoveInbound, ChangeOps, InboundOps
  <2>2. Is(job[g].plan, "rmi", DoEdit) /\ Agreeing(job[g])
    BY <1>2, <1>8, <2>1, RemoveInboundAt DEF RemoveInbound, Agreeing
  <2>3. CASE Serve(job[g].tag, NoInbound) /\ Next1(g)
    <3>1. Moved(g) /\ Kept(job[g], job'[g]) /\ job'[g].plan = DoEdit
      BY <1>2, <1>3, <2>2, <2>3, NextIs DEF Alike, Is
    <3>2. job'[g].op = "removeInbound" /\ job'[g].tag = job[g].tag
      BY <2>1, <3>1 DEF Kept
    <3>3. Agrees => Ahead(job[g].tag, NoInbound)'
      BY <1>2, <1>4, <2>3, <3>2, ServesIt DEF Agrees, Ahead
    <3>4. QED
      BY <1>2, <1>3, <1>4, <2>2, <3>1, <3>2, <3>3, RemoveInboundThen, GoesOn DEF Facts
  <2>4. CASE Fails(g, "rmi") /\ UNCHANGED proc
    BY <1>6, <2>2, <2>4
  <2>5. QED
    BY <1>8, <2>3, <2>4 DEF RemoveInbound
<1>9. QED
  BY <1>7, <1>8

LEMMA ServedIn ==
    ASSUME ProcOK, NEW p \in Procs, NEW x, proc' = [proc EXCEPT ![p].in = x]
    PROVE  proc'[p].in = x
<1>1. proc'[p] = [state |-> proc[p].state, in |-> x]
  BY DEF ProcOK
<1>2. QED
  BY <1>1

\* What the file has and what the process gets when a user is added or removed.
LEMMA UserServed ==
    ASSUME Base, NEW g \in Goroutines, JobOK(job[g]), job[g].op \in UserOps,
           NEW step, step = StepOf(job[g].op), Serves(job[g].tag),
           Serving(job[g].tag, job[g].user) = (step = "rmu"),
           \E p \in Up : proc' = [proc EXCEPT ![p].in[job[g].tag].n[job[g].user] =
                                    IF step = "adu" THEN 1 ELSE 0]
    PROVE  /\ Up' = Up
           /\ \A p \in Up : proc'[p].in
                = Put(proc[p].in, job[g].tag, Edited(job[g], proc[p].in[job[g].tag]))
<1> DEFINE t == job[g].tag
           u == job[g].user
<1>1. PICK n : n = IF step = "adu" THEN 1 ELSE 0
  OBVIOUS
<1>2. PICK p \in Up : proc' = [proc EXCEPT ![p].in[t].n[u] = n]
  BY <1>1
<1>3. p \in Procs /\ t \in Tags /\ u \in Users
  BY DEF Up, JobOK, ChangeOps
<1>4. PICK x : x = proc[p].in[t]
  OBVIOUS
<1>5. x \in Contents
  <2>1. ProcTyped
    BY TypesAre DEF Base, Types
  <2>2. proc[p].in \in [Tags -> Contents]
    BY <1>3, <2>1 DEF ProcTyped
  <2>3. QED
    BY <1>3, <1>4, <2>2
<1>6. x.there = TRUE
  BY <1>2, <1>4, <1>5, OneUp DEF Serves, Contents
<1>7. Edited(job[g], x) = [x EXCEPT !.n[u] = n]
  <2>1. PICK j : j = job[g]
    OBVIOUS
  <2>2. j.user = u /\ j.user \in Users /\ j.op \in UserOps
    BY <1>3, <2>1
  <2>3. CASE j.op = "addUser"
    <3>1. step = "adu" /\ n = 1
      BY <1>1, <2>1, <2>3 DEF StepOf
    <3>2. ~ (x.n[j.user] > 0)
      BY <1>2, <1>4, <1>6, <2>1, <3>1 DEF Serving
    <3>3. Edited(j, x) = Counted(x, j.user, 1)
      BY <1>5, <1>6, <2>2, <2>3, <3>2, UserAdded
    <3>4. QED
      BY <2>1, <3>1, <3>3 DEF Counted
  <2>4. CASE j.op = "removeUser"
    <3>1. n = 0
      BY <1>1, <2>1, <2>4 DEF StepOf
    <3>2. Edited(j, x) = Counted(x, j.user, 0)
      BY <1>5, <1>6, <2>4, UserRemoved
    <3>3. QED
      BY <2>1, <3>1, <3>2 DEF Counted
  <2>5. QED
    BY <2>2, <2>3, <2>4 DEF UserOps
<1>8. proc'[p].in = [proc[p].in EXCEPT ![t] = [x EXCEPT !.n[u] = n]]
  <2> HIDE DEF t, u
  <2>1. proc' = [proc EXCEPT ![p].in = [proc[p].in EXCEPT ![t].n[u] = n]]
    BY <1>2, <1>3 DEF Base, IInv, ProcOK
  <2>2. PICK f : f = [proc[p].in EXCEPT ![t].n[u] = n]
    OBVIOUS
  <2>3. f = [proc[p].in EXCEPT ![t] = [x EXCEPT !.n[u] = n]]
    BY <1>4, <2>2
  <2>4. proc'[p].in = f
    <3>1. proc' = [proc EXCEPT ![p].in = f]
      BY <2>1, <2>2
    <3>2. QED
      BY <1>3, <3>1, ServedIn DEF Base, IInv
  <2>5. QED
    BY <2>3, <2>4
<1>9. proc'[p].in = Put(proc[p].in, t, Edited(job[g], proc[p].in[t]))
  BY <1>4, <1>7, <1>8 DEF Put
<1>10. \A q \in Up : q = p
  BY <1>2, OneUp
<1>11. Up' = Up
  BY <1>2, UpAfterUser
<1>12. QED
  BY <1>9, <1>10, <1>11

\* Apart from the one inbound: what was behind is, what stays so, and what is served again.
LEMMA BehindApart ==
    ASSUME Base, NEW g \in Goroutines, Behind(job[g])
    PROVE  Apart(job[g].tag)
<1> SUFFICES ASSUME NEW p \in Up, NEW s \in Tags \ {job[g].tag}
             PROVE  proc[p].in[s] = file.in[s]
  BY DEF Apart
<1>1. proc[p].in \in [Tags -> Contents]
  BY TypesAre DEF Base, Types, ProcTyped, Up
<1>2. PICK x : file.in = Put(proc[p].in, job[g].tag, x)
  BY DEF Behind
<1>3. QED
  BY <1>1, <1>2 DEF Put

LEMMA ApartKept ==
    ASSUME Base, NEW t, Apart(t), file' = file, proc' = proc \/ \E x : Serve(t, x)
    PROVE  Apart(t)'
<1>1. CASE proc' = proc
  BY <1>1 DEF Apart, Up
<1>2. ASSUME NEW x, Serve(t, x) PROVE Apart(t)'
  <2>1. Up' = Up /\ \A p \in Up : proc'[p].in = Put(proc[p].in, t, x)
    BY <1>2, ServesIt
  <2>2. \A p \in Up : proc[p].in \in [Tags -> Contents]
    BY TypesAre DEF Base, Types, ProcTyped, Up
  <2>3. ASSUME NEW p \in Up, NEW s \in Tags \ {t} PROVE proc'[p].in[s] = file.in[s]
    <3>1. proc'[p].in = Put(proc[p].in, t, x)
      BY <2>1
    <3>2. Put(proc[p].in, t, x)[s] = proc[p].in[s]
      BY <2>2 DEF Put
    <3>3. QED
      BY <3>1, <3>2 DEF Apart
  <2>4. QED
    BY <2>1, <2>3 DEF Apart
<1>3. QED
  BY <1>1, <1>2

LEMMA ApartServed ==
    ASSUME Base, NEW t \in Tags, Apart(t), file' = file, Serve(t, file.in[t])
    PROVE  Agrees'
<1>1. Up' = Up /\ \A p \in Up : proc'[p].in = Put(proc[p].in, t, file.in[t])
  BY ServesIt
<1>2. ASSUME NEW p \in Up PROVE Put(proc[p].in, t, file.in[t]) = file.in
  <2>1. proc[p].in \in [Tags -> Contents] /\ file.in \in [Tags -> Contents]
    BY TypesAre, FileParts DEF Base, Types, ProcTyped, Up
  <2>2. \A s \in Tags \ {t} : proc[p].in[s] = file.in[s]
    BY DEF Apart
  <2>3. QED
    BY <2>1, <2>2 DEF Put
<1>3. QED
  BY <1>1, <1>2 DEF Agrees

LEMMA UserKnows ==
    ASSUME PInv, Base', NEW g \in Goroutines, NEW step \in {"adu", "rmu"}, ChangeUser(g, step)
    PROVE  PInv'
<1>1. At(g, step) /\ UNCHANGED <<file, cmd, running, disturbed>>
  BY DEF ChangeUser
<1>2. /\ Base /\ Types /\ JobsOK /\ Shaped(job[g]) /\ disturbed \in BOOLEAN
      /\ (~ disturbed => Facts(job[g])) /\ JobOK(job[g])
  BY Usable
<1>3. job[g].plan # <<>> /\ job[g] # NoJob /\ job[g].op \in UserOps
  BY <1>1, <1>2, ChangeStep, HasPlan
<1>4. step = StepOf(job[g].op) /\ Is(job[g].plan, step, <<>>) /\ job[g].plan = DoOnly(StepOf(job[g].op))
  BY <1>1, <1>2, <1>3, UserAt
<1>5. ~ disturbed => Behind(job[g])
  BY <1>2, <1>3, <1>4 DEF Facts
<1>6. CASE UNCHANGED proc /\ Turn(g, <<"drop", "readd">>)
  <2>1. <<"drop", "readd">> \in Seq(StepsOf(job[g].op))
    <3>1. <<"drop", "readd">> \in Seq(ByUser)
      BY DEF ByUser
    <3>2. QED
      BY <1>3, <3>1, StepsAre
  <2>2. Moved(g) /\ Kept(job[g], job'[g]) /\ job'[g].plan = <<"drop", "readd">>
    BY <1>2, <1>3, <1>6, <2>1, TurnIs DEF Alike
  <2>3. job'[g].plan \in Reloading /\ job'[g].op = job[g].op /\ job'[g].tag = job[g].tag
    BY <2>2 DEF Reloading, DoDropReadd, Kept
  <2>4. Apart(job[g].tag) => Apart(job[g].tag)'
    BY <1>1, <1>6, <2>3 DEF Apart, Up
  <2>5. ~ disturbed' => Apart(job[g].tag)'
    BY <1>1, <1>2, <1>5, <2>4, BehindApart
  <2>6. Shaped(job[g])' /\ (~ disturbed' => Facts(job[g])')
    BY <1>3, <2>3, <2>5, UserThen
  <2>7. QED
    BY <1>1, <1>2, <1>3, <2>2, <2>6, GoesOn
<1>7. CASE /\ Serves(job[g].tag) /\ Next1(g)
           /\ Serving(job[g].tag, job[g].user) = (step = "rmu")
           /\ \E p \in Up : proc' = [proc EXCEPT ![p].in[job[g].tag].n[job[g].user] =
                                      IF step = "adu" THEN 1 ELSE 0]
  <2>1. Moved(g) /\ Kept(job[g], job'[g]) /\ job'[g].plan = Tail(job[g].plan)
    BY <1>2, <1>3, <1>7, NextIs DEF Alike
  <2>2. job'[g].plan = <<>> /\ job'[g].op = job[g].op
    BY <1>4, <2>1 DEF Is, Kept
  <2>3. /\ Up' = Up
        /\ \A p \in Up : proc'[p].in
             = Put(proc[p].in, job[g].tag, Edited(job[g], proc[p].in[job[g].tag]))
    BY <1>2, <1>3, <1>4, <1>7, UserServed
  <2>4. Behind(job[g]) => Agrees'
    BY <1>1, <2>3 DEF Behind, Agrees
  <2>5. Shaped(job[g])' /\ (~ disturbed' => Facts(job[g])')
    BY <1>1, <1>3, <1>5, <2>2, <2>4, UserThen
  <2>6. QED
    BY <1>1, <1>2, <1>3, <2>1, <2>5, GoesOn
<1>8. QED
  BY <1>6, <1>7 DEF ChangeUser

\* The change is taken back, or nothing more is known.
LEMMA ReloadKnows ==
    ASSUME PInv, Base', NEW g \in Goroutines, job[g].plan \in Reloading, job[g].plan # <<>>,
           job[g].op \in UserOps, ReloadFails(g), UNCHANGED <<file, proc>>
    PROVE  PInv'
<1>1. /\ Base /\ Types /\ JobsOK /\ disturbed \in BOOLEAN /\ (~ disturbed => Facts(job[g]))
      /\ job[g] # NoJob
  BY Usable, HasPlan
<1>2. disturbed => disturbed'
  BY <1>1 DEF ReloadFails
<1>3. /\ Moved(g) /\ Kept(job[g], job'[g])
      /\ \/ job'[g].plan = <<>> /\ disturbed' = TRUE
         \/ job'[g].plan = <<"revert", "drop", "readd">>
  BY <1>1, ReloadFailsIs DEF Alike
<1>4. job'[g].op = job[g].op /\ job'[g].tag = job[g].tag
  BY <1>3 DEF Kept
<1>5. Apart(job[g].tag) => Apart(job[g].tag)'
  BY <1>4 DEF Apart, Up
<1>6. ~ disturbed' => Apart(job[g].tag)'
  BY <1>1, <1>2, <1>5 DEF Facts
<1>7. (job'[g].plan = <<>> /\ disturbed' = TRUE) \/ job'[g].plan \in Reloading
  BY <1>3 DEF Reloading, DoRevertDropReadd
<1>8. Shaped(job[g])' /\ (~ disturbed' => Facts(job[g])')
  BY <1>4, <1>6, <1>7, UserThen
<1>9. QED
  BY <1>1, <1>2, <1>3, <1>8, GoesOn

LEMMA DropKnows ==
    ASSUME PInv, Base', NEW g \in Goroutines, Drop(g) \/ ReAdd(g)
    PROVE  PInv'
<1>1. (At(g, "drop") \/ At(g, "readd")) /\ UNCHANGED <<file, cmd, running>>
  BY DEF Drop, ReAdd
<1>2. /\ Base /\ Types /\ JobsOK /\ Shaped(job[g]) /\ disturbed \in BOOLEAN
      /\ (~ disturbed => Facts(job[g]))
  BY Usable
<1>3. job[g].plan # <<>> /\ job[g] # NoJob /\ job[g].op \in UserOps /\ job[g].tag \in Tags
  BY <1>1, <1>2, ChangeStep, HasPlan
<1>4. \/ At(g, "drop") /\ Is(job[g].plan, "drop", DoReadd) /\ job[g].plan \in Reloading
      \/ At(g, "readd") /\ Is(job[g].plan, "readd", <<>>) /\ job[g].plan \in Reloading
  BY <1>1, <1>2, <1>3, UserAt, StepIs DEF Reloading
<1>5. ~ disturbed => Apart(job[g].tag)
  BY <1>2, <1>3, <1>4 DEF Facts
<1>6. CASE UNCHANGED proc /\ ReloadFails(g)
  BY <1>1, <1>3, <1>4, <1>6, ReloadKnows
<1>7. ASSUME Next1(g)
      PROVE  /\ Moved(g) /\ Kept(job[g], job'[g]) /\ job'[g].plan = Tail(job[g].plan)
             /\ job'[g].op = job[g].op /\ job'[g].tag = job[g].tag
  BY <1>2, <1>3, <1>7, NextIs DEF Alike, Kept
<1>8. CASE Drop(g) /\ Next1(g) /\ UNCHANGED disturbed
           /\ (UNCHANGED proc \/ Serve(job[g].tag, NoInbound))
  <2>1. At(g, "drop") /\ Is(job[g].plan, "drop", DoReadd)
    BY <1>4, <1>8 DEF Drop, At
  <2>2. /\ Moved(g) /\ Kept(job[g], job'[g]) /\ job'[g].plan = DoReadd
        /\ job'[g].op = job[g].op /\ job'[g].tag = job[g].tag
    BY <1>7, <1>8, <2>1 DEF Is
  <2>3. ~ disturbed' => Apart(job[g].tag)'
    <3>1. PICK t : t = job[g].tag
      OBVIOUS
    <3>2. proc' = proc \/ \E x : Serve(t, x)
      BY <1>8, <3>1
    <3>3. ~ disturbed => Apart(t)
      BY <1>5, <3>1
    <3>4. ~ disturbed' => Apart(t)'
      BY <1>1, <1>2, <1>8, <3>2, <3>3, ApartKept
    <3>5. QED
      BY <2>2, <3>1, <3>4
  <2>4. QED
    BY <1>2, <1>3, <1>8, <2>2, <2>3, UserThen, GoesOn DEF Reloading
<1>9. CASE ReAdd(g) /\ Next1(g) /\ UNCHANGED disturbed /\ Serve(job[g].tag, file.in[job[g].tag])
  <2>1. At(g, "readd") /\ Is(job[g].plan, "readd", <<>>)
    BY <1>4, <1>9 DEF ReAdd, At
  <2>2. /\ Moved(g) /\ Kept(job[g], job'[g]) /\ job'[g].plan = <<>>
        /\ job'[g].op = job[g].op
    BY <1>7, <1>9, <2>1 DEF Is
  <2>3. ~ disturbed' => Agrees'
    BY <1>1, <1>2, <1>3, <1>5, <1>9, ApartServed
  <2>4. QED
    BY <1>2, <1>3, <1>9, <2>2, <2>3, UserThen, GoesOn
<1>10. QED
  BY <1>6, <1>8, <1>9 DEF Drop, ReAdd

\* A goroutine that does nothing itself.
Still(j, k) ==
    /\ k.op = j.op /\ k.tag = j.tag /\ k.user = j.user /\ k.new = j.new /\ k.plan = j.plan
    /\ k = NoJob <=> j = NoJob

LEMMA StillShaped ==
    ASSUME NEW g \in Goroutines, Shaped(job[g]), Still(job[g], job'[g])
    PROVE  Shaped(job[g])'
BY DEF Shaped, Still

\* It knows what it knew if the process ends, or another takes no notice.
LEMMA StillKnows ==
    ASSUME NEW g \in Goroutines, Fewer, Still(job[g], job'[g]), Facts(job[g])
    PROVE  Facts(job[g])'
<1>1. Agreeing(job[g])' => Agrees'
  <2>1. Agreeing(job[g])' => Agreeing(job[g])
    BY DEF Agreeing, Still
  <2>2. QED
    BY <2>1, FewerAgrees DEF Facts
<1>2. Halted(job[g])' => ~ running'
  <2>1. Halted(job[g])' => Halted(job[g])
    BY DEF Halted, Still
  <2>2. QED
    BY <2>1 DEF Facts, Fewer
<1>3. \A t, x : Ahead(t, x) => \A p \in Up' : proc'[p].in = Put(file'.in, t, x)
  BY DEF Ahead, Fewer
<1>4. job'[g].op = "addInbound" /\ job'[g].plan = DoEdit =>
        Ahead(job[g].tag, job[g].new[job[g].tag])'
  <2>1. job'[g].op = "addInbound" /\ job'[g].plan = DoEdit =>
          Ahead(job[g].tag, job[g].new[job[g].tag])
    BY DEF Facts, Still
  <2>2. job'[g].tag = job[g].tag /\ job'[g].new = job[g].new
    BY DEF Still
  <2>3. QED
    BY <1>3, <2>1, <2>2 DEF Ahead
<1>5. job'[g].op = "removeInbound" /\ job'[g].plan = DoEdit => Ahead(job[g].tag, NoInbound)'
  <2>1. job'[g].op = "removeInbound" /\ job'[g].plan = DoEdit => Ahead(job[g].tag, NoInbound)
    BY DEF Facts, Still
  <2>2. job'[g].tag = job[g].tag
    BY DEF Still
  <2>3. QED
    BY <1>3, <2>1, <2>2 DEF Ahead
<1>6. job'[g].op \in UserOps /\ job'[g].plan = DoOnly(StepOf(job'[g].op)) => Behind(job[g])'
  <2>1. job'[g].op \in UserOps /\ job'[g].plan = DoOnly(StepOf(job'[g].op)) => Behind(job[g])
    BY DEF Facts, Still
  <2>2. job'[g].op \in UserOps => \A x : Edited(job'[g], x) = Edited(job[g], x)
    BY DEF Edited, Still, UserOps
  <2>3. job'[g].tag = job[g].tag
    BY DEF Still
  <2>4. QED
    BY <2>1, <2>2, <2>3 DEF Behind, Fewer
<1>7. job'[g].op \in UserOps /\ job'[g].plan \in Reloading => Apart(job[g].tag)'
  <2>1. job'[g].op \in UserOps /\ job'[g].plan \in Reloading => Apart(job[g].tag)
    BY DEF Facts, Still
  <2>2. job'[g].tag = job[g].tag
    BY DEF Still
  <2>3. QED
    BY <2>1, <2>2 DEF Apart, Fewer
<1>8. QED
  BY <1>1, <1>2, <1>4, <1>5, <1>6, <1>7 DEF Facts

LEMMA EndKnows ==
    ASSUME PInv, Base', Fewer, disturbed' = disturbed,
           \A g \in Goroutines : Still(job[g], job'[g])
    PROVE  PInv'
<1>1. \A g \in Goroutines : Shaped(job[g])'
  BY StillShaped DEF PInv
<1>2. \A g \in Goroutines : job'[g] = NoJob <=> job[g] = NoJob
  BY DEF Still
<1>3. AloneUndisturbed'
  BY <1>2 DEF PInv, AloneUndisturbed
<1>4. Persisted'
  <2>1. (\A g \in Goroutines : job'[g] = NoJob) /\ ~ disturbed' => Agrees
    BY <1>2 DEF PInv, Persisted, Agrees
  <2>2. QED
    BY <2>1, FewerAgrees DEF Persisted, Agrees
<1>5. ~ disturbed' => \A g \in Goroutines : Facts(job[g])'
  BY StillKnows DEF PInv
<1>6. QED
  BY <1>1, <1>3, <1>4, <1>5 DEF PInv

\* What a command is known to begin with.
LEMMA BeginThen ==
    ASSUME NEW g \in Goroutines, job'[g].op \in {"apply"} \cup PlainOps \cup ChangeOps,
           job'[g].plan = PlanOf(job'[g].op), ~ disturbed' => Agrees'
    PROVE  Shaped(job[g])' /\ (~ disturbed' => Facts(job[g])')
<1>1. CASE job'[g].op \in PlainOps
  BY <1>1, PlainThen
<1>2. CASE job'[g].op = "apply"
  <2>1. job'[g].plan = DoWriteLaunch
    BY <1>2 DEF PlanOf, DoWriteLaunch
  <2>2. QED
    BY <1>2, <2>1, ApplyPlans DEF Is, Shaped, Facts, Agreeing, Halted, PlainOps, UserOps
<1>3. CASE job'[g].op = "addInbound"
  <2>1. job'[g].plan = DoPrepare
    BY <1>3 DEF PlanOf, DoPrepare
  <2>2. QED
    BY <1>3, <2>1, InboundPlans DEF Is, Shaped, Facts, Agreeing, Halted, PlainOps, UserOps
<1>4. CASE job'[g].op = "removeInbound"
  <2>1. job'[g].plan = DoLookRmiEdit
    BY <1>4 DEF PlanOf, DoLookRmiEdit
  <2>2. QED
    BY <1>4, <2>1, InboundPlans DEF Is, Shaped, Facts, Agreeing, Halted, PlainOps, UserOps
<1>5. CASE job'[g].op \in UserOps
  <2>1. job'[g].plan = DoLookEdit(StepOf(job'[g].op))
    BY <1>5 DEF PlanOf, DoLookEdit, StepOf, UserOps
  <2>2. PICK s : s = StepOf(job'[g].op) /\ s \in {"adu", "rmu"}
    BY StepIs
  <2>3. Shaped(job[g])'
    BY <1>5, <2>1 DEF Shaped, UserOps
  <2>4. job'[g].plan # DoOnly(s) /\ job'[g].plan \notin Reloading
    BY <2>1, <2>2, UserPlans DEF Is, Reloading
  <2>5. ~ disturbed' => Facts(job[g])'
    BY <1>5, <2>2, <2>4 DEF Facts, Halted, UserOps
  <2>6. QED
    BY <2>3, <2>5
<1>6. QED
  BY <1>1, <1>2, <1>3, <1>4, <1>5 DEF ChangeOps, InboundOps

LEMMA BeginKnows ==
    ASSUME PInv, Base', Command \/ Switch
    PROVE  PInv'
<1>1. PICK g \in Goroutines, op \in {"apply"} \cup PlainOps \cup ChangeOps,
           new \in [Tags -> SoundContents],
           t \in Tags \cup {""}, u \in Users \cup {""} :
        /\ op \in ChangeOps => t \in Tags
        /\ op \in UserOps => u \in Users
        /\ Begin(g, op, t, u, new)
  BY CommandIs
<1>2. /\ job[g] = NoJob /\ Started(job'[g], op, t, u, new)
      /\ \A h \in Goroutines : h # g => Met(job[h], job'[h])
  BY <1>1, BeginIs, Usable DEF PInv, Base
<1>3. UNCHANGED <<file, proc, running>> /\ disturbed' = (disturbed \/ Others(g))
  BY <1>1 DEF Begin
<1>4. \A h \in Goroutines : h # g => Still(job[h], job'[h])
  BY <1>2 DEF Met, Still
<1>5. ~ disturbed' => \A h \in Goroutines : job[h] = NoJob /\ (h # g => job'[h] = NoJob)
  BY <1>2, <1>3, <1>4 DEF Others, Still
<1>6. ~ disturbed' => Agrees'
  <2>1. ~ disturbed' => Agrees
    BY <1>3, <1>5 DEF PInv, Persisted, Agrees
  <2>2. QED
    BY <1>3, <2>1, SameFewer, FewerAgrees
<1>7. Shaped(job[g])' /\ (~ disturbed' => Facts(job[g])')
  <2>1. job'[g].op = op /\ job'[g].plan = PlanOf(op)
    BY <1>2 DEF Started
  <2>2. QED
    BY <1>6, <2>1, BeginThen
<1>8. \A h \in Goroutines : Shaped(job[h])'
  <2>1. \A h \in Goroutines : h # g => Shaped(job[h])'
    BY <1>4, StillShaped DEF PInv
  <2>2. QED
    BY <1>7, <2>1
<1>9. ~ disturbed' => \A h \in Goroutines : Facts(job[h])'
  <2>1. ~ disturbed' => \A h \in Goroutines : h # g => Facts(job[h])'
    BY <1>5, IdleKnows
  <2>2. QED
    BY <1>7, <2>1
<1>10. AloneUndisturbed'
  BY <1>5 DEF AloneUndisturbed
<1>11. Persisted'
  BY <1>6 DEF Persisted, Agrees
<1>12. QED
  BY <1>8, <1>9, <1>10, <1>11 DEF PInv

LEMMA FinishKnows ==
    ASSUME PInv, Base', NEW g \in Goroutines, Finish(g)
    PROVE  PInv'
<1>1. /\ JobsOK /\ Shaped(job[g]) /\ JobOK(job[g]) /\ (~ disturbed => Facts(job[g]))
  BY Usable
<1>2. Moved(g) /\ job'[g] = NoJob /\ job[g] # NoJob /\ job[g].plan = <<>>
  BY <1>1, FinishIs
<1>3. UNCHANGED <<file, proc, running, disturbed>>
  BY DEF Finish
<1>4. \A h \in Goroutines : h # g => job'[h] = job[h]
  BY <1>2 DEF Moved
<1>5. job[g].op \in {"apply"} \cup PlainOps \cup ChangeOps
  BY <1>1, <1>2, BusyByOp, OpKnown
<1>6. Agreeing(job[g])
  BY <1>2, <1>5 DEF Agreeing, ChangeOps, InboundOps
<1>7. ~ disturbed' => Agrees'
  BY <1>1, <1>3, <1>6, SameFewer, FewerAgrees DEF Facts
<1>8. ~ disturbed' => \A h \in Goroutines : job'[h] = NoJob
  BY <1>2, <1>3, <1>4 DEF PInv, AloneUndisturbed
<1>9. \A h \in Goroutines : Shaped(job[h])'
  <2>1. \A h \in Goroutines : h # g => Shaped(job[h])'
    BY <1>4 DEF PInv, Shaped
  <2>2. QED
    BY <1>2, <2>1, IdleKnows
<1>10. ~ disturbed' => \A h \in Goroutines : Facts(job[h])'
  BY <1>8, IdleKnows
<1>11. AloneUndisturbed' /\ Persisted'
  BY <1>7, <1>8 DEF AloneUndisturbed, Persisted, Agrees
<1>12. QED
  BY <1>9, <1>10, <1>11 DEF PInv

LEMMA KnowsInit == Init => PInv
<1> SUFFICES ASSUME Init PROVE PInv
  OBVIOUS
<1>1. \A g \in Goroutines : job[g] = NoJob
  BY DEF Init
<1>2. \A p \in Procs : proc[p].state = "unused"
  BY DEF Init
<1>3. Up = {}
  BY <1>2 DEF Up
<1>4. \A g \in Goroutines : Shaped(job[g]) /\ Facts(job[g])
  BY <1>1, NoJobIs DEF Shaped, Facts, Agreeing, Halted, PlainOps, UserOps
<1>5. QED
  BY <1>1, <1>3, <1>4, BaseInit DEF PInv, AloneUndisturbed, Persisted

LEMMA KnowsKept == ASSUME Prompt PROVE PInv /\ [Next]_vars => PInv'
<1> SUFFICES ASSUME PInv, [Next]_vars PROVE PInv'
  OBVIOUS
<1>1. Base /\ Base'
  BY BaseKept DEF PInv
<1>2. CASE Command \/ Switch
  BY <1>1, <1>2, BeginKnows
<1>3. ASSUME NEW g \in Goroutines, Manage(g) PROVE PInv'
  BY <1>1, <1>3, StartKnows, StopKnows, LookKnows, WriteKnows DEF Manage
<1>4. ASSUME NEW g \in Goroutines, Change(g) PROVE PInv'
  BY <1>1, <1>4, PrepareKnows, EditKnows, RevertKnows, AddKnows, UserKnows, DropKnows DEF Change
<1>5. ASSUME NEW g \in Goroutines, Finish(g) PROVE PInv'
  BY <1>1, <1>5, FinishKnows
<1>6. ASSUME NEW p \in Procs, Exit(p) \/ Crash(p) \/ Notice(p) PROVE PInv'
  <2>1. Fewer
    <3>1. \A q \in Up' : q \in Up /\ proc'[q] = proc[q]
      BY <1>1, <1>6, UpAfterEnd DEF Exit, Crash, Notice
    <3>2. file' = file /\ (running' => running)
      BY <1>6 DEF Exit, Crash, Notice
    <3>3. QED
      BY <3>1, <3>2 DEF Fewer
  <2>2. \A g \in Goroutines : Still(job[g], job'[g])
    <3>1. CASE job' = job
      BY <3>1 DEF Still
    <3>2. CASE Crash(p)
      BY <1>1, <3>2, CrashIs DEF Base, Types, Met, Still
    <3>3. QED
      BY <1>6, <3>1, <3>2 DEF Exit, Notice
  <2>3. disturbed' = disturbed
    BY <1>6 DEF Exit, Crash, Notice
  <2>4. QED
    BY <1>1, <2>1, <2>2, <2>3, EndKnows
<1>7. CASE UNCHANGED vars
  <2>1. \A g \in Goroutines : Still(job[g], job'[g])
    BY <1>7 DEF vars, Still
  <2>2. Fewer /\ disturbed' = disturbed
    BY <1>7, SameFewer DEF vars
  <2>3. QED
    BY <1>1, <2>1, <2>2, EndKnows
<1>8. QED
  BY <1>2, <1>3, <1>4, <1>5, <1>6, <1>7 DEF Next

\* When nothing is under way, and since the last start no two commands have overlapped and
\* no reload has failed for good, what Xray serves is what it is started with the next
\* time (manager.go:627, "Update config file for persistence").
THEOREM FileFollows == ASSUME Prompt PROVE Spec => []Persisted
<1>1. PInv => Persisted
  BY DEF PInv
<1>2. PInv /\ [Next]_vars => PInv'
  BY KnowsKept
<1>3. QED
  BY KnowsInit, <1>1, <1>2, PTL DEF Spec
-----------------------------------------------------------------------------
(* What a failure leaves of a job that nothing has overlapped.              *)

DoReplaceStart == <<"replace", "start">>
DoBackupReplaceStart == <<"backup", "replace", "start">>
DoSettleBackupReplaceStart == <<"settle", "backup", "replace", "start">>
DoStopSettleBackupReplaceStart == <<"stop", "settle", "backup", "replace", "start">>
DoSwitch == <<"download", "stop", "settle", "backup", "replace", "start">>
DoStop == <<"stop">>

\* Nobody is served a user twice.
UpSound == \A p \in Up, t \in Tags : Sound(proc[p].in[t])

\* Faults since the job began: one or more, two or more.
Hit(j) == faults >= j.at + 1
HitTwice(j) == faults >= j.at + 2

Runs(x) == \E p \in Up : proc[p].in = x
AsWas(j) == file.in = j.old /\ Runs(j.old)
Ends(j) == j.plan = <<>> /\ (j.err /\ ~ HitTwice(j) => AsWas(j))

\* What a job has still to do and what there is, so that one fault at most leaves file and
\* process as they were: a change of the version, ...
MendsSwitch(j) ==
    \/ j.plan \in {DoSwitch, DoStopSettleBackupReplaceStart} /\ AsWas(j) /\ ~ j.err
    \/ /\ j.plan \in {DoSettleBackupReplaceStart, DoBackupReplaceStart, DoReplaceStart}
       /\ file.in = j.old /\ ~ running /\ ~ j.err
    \/ j.plan = DoStart /\ file.in = j.old /\ ~ running /\ (j.err => Hit(j))
    \/ Ends(j)

\* ... a configuration, ...
MendsApply(j) ==
    \/ j.plan = DoWriteLaunch /\ AsWas(j) /\ ~ j.err
    \/ j.plan = DoLaunch /\ j.had /\ ~ j.err /\ file.in = j.new /\ Up # {}
    \/ j.plan = DoStopSettleStartSettleVerify /\ j.had /\ ~ j.err /\ file.in = j.new
    \/ /\ j.plan \in {DoSettleStartSettleVerify, DoStartSettleVerify}
       /\ j.had /\ ~ j.err /\ file.in = j.new /\ ~ running
    \/ /\ j.plan \in {DoSettleVerify, DoVerify}
       /\ j.had /\ ~ j.err /\ (Up = {} => Hit(j))
    \/ j.plan = DoBackStart /\ j.err /\ Hit(j) /\ ~ running
    \/ j.plan = DoStart /\ j.err /\ Hit(j) /\ file.in = j.old /\ ~ running
    \/ Ends(j)

\* ... an inbound, ...
MendsInbound(j, plans) ==
    \/ j.plan \in plans /\ AsWas(j) /\ ~ j.err
    \/ j.plan = DoEdit /\ ~ j.err
    \/ Ends(j)

\* ... and a user: the inbound as it was, changed, and taken out.
Changed(j) == Put(j.old, j.tag, Edited(j, j.old[j.tag]))
Without(j) == Put(j.old, j.tag, NoInbound)
There(j) == j.old[j.tag].there
Noted(j) == j.op = "removeUser" => j.removed
Out(j) == IF There(j) THEN Hit(j) /\ Runs(Without(j)) ELSE Runs(j.old)

MendsUser(j) ==
    \/ /\ j.plan \in {DoLookEdit(StepOf(j.op)), DoEditThen(StepOf(j.op))}
       /\ AsWas(j) /\ ~ j.err
    \/ /\ j.plan \in {DoOnly(StepOf(j.op)), DoDropReadd}
       /\ ~ j.err /\ Noted(j) /\ file.in = Changed(j) /\ Runs(j.old)
    \/ /\ j.plan = DoReadd /\ There(j)
       /\ ~ j.err /\ Noted(j) /\ file.in = Changed(j) /\ Runs(Without(j))
    \/ j.plan = DoRevertDropReadd /\ j.err /\ file.in = Changed(j) /\ Out(j)
    \/ j.plan = DoDropReadd /\ j.err /\ file.in = j.old /\ Out(j)
    \/ /\ j.plan = DoReadd /\ There(j)
       /\ j.err /\ Hit(j) /\ file.in = j.old /\ Runs(Without(j))
    \/ Ends(j)

Mends(j) ==
    /\ j.at <= faults
    /\ \A t \in Tags : Sound(j.old[t])
    /\ j.op = "stop" => j.plan \in {DoStop, <<>>} /\ ~ j.err
    /\ j.op = "switch" => MendsSwitch(j)
    /\ j.op = "apply" => MendsApply(j)
    /\ j.op = "addInbound" => MendsInbound(j, {DoPrepare, DoAdiEdit})
    /\ j.op = "removeInbound" => MendsInbound(j, {DoLookRmiEdit, DoRmiEdit})
    /\ j.op = "addUser" => MendsUser(j) /\ j.old[j.tag].n[j.user] = 0
    /\ j.op = "removeUser" => MendsUser(j) /\ j.old[j.tag].n[j.user] = 1

CleanAlone == \A g \in Goroutines : job[g] # NoJob /\ job[g].clean => ~ Others(g)

FInv == /\ PInv /\ UpSound /\ CleanAlone
        /\ \A g \in Goroutines : job[g].clean /\ job[g].fit => Mends(job[g])

\* The first step of the plan says which action a goroutine can take.
LEMMA ByHead ==
    ASSUME NEW g \in Goroutines, NEW s, At(g, s), Manage(g) \/ Change(g)
    PROVE  /\ s = "start" => Start(g)
           /\ s = "stop" => Stop(g)
           /\ s = "settle" => Settle(g)
           /\ s = "look" => Look(g)
           /\ s = "verify" => Verify(g)
           /\ s = "write" => Write(g)
           /\ s = "launch" => Launch(g)
           /\ s = "back" => Back(g)
           /\ s \in {"download", "backup", "replace"} => Copy(g, s)
           /\ s = "prepare" => Prepare(g)
           /\ s = "edit" => Edit(g)
           /\ s = "revert" => Revert(g)
           /\ s = "adi" => AddInbound(g)
           /\ s = "rmi" => RemoveInbound(g)
           /\ s \in {"adu", "rmu"} => ChangeUser(g, s)
           /\ s = "drop" => Drop(g)
           /\ s = "readd" => ReAdd(g)
<1>1. \A x : At(g, x) => x = s
  BY DEF At
<1>2. /\ Start(g) => s = "start"
      /\ Stop(g) => s = "stop"
      /\ Settle(g) => s = "settle"
      /\ Look(g) => s = "look"
      /\ Verify(g) => s = "verify"
  BY <1>1 DEF Start, Stop, Settle, Look, Verify
<1>3. /\ Write(g) => s = "write"
      /\ Launch(g) => s = "launch"
      /\ Back(g) => s = "back"
      /\ \A x \in {"download", "backup", "replace"} : Copy(g, x) => s = x
  BY <1>1 DEF Write, Launch, Back, Copy
<1>4. /\ Prepare(g) => s = "prepare"
      /\ Edit(g) => s = "edit"
      /\ Revert(g) => s = "revert"
      /\ AddInbound(g) => s = "adi"
      /\ RemoveInbound(g) => s = "rmi"
  BY <1>1 DEF Prepare, Edit, Revert, AddInbound, RemoveInbound
<1>5. /\ \A x \in {"adu", "rmu"} : ChangeUser(g, x) => s = x
      /\ Drop(g) => s = "drop"
      /\ ReAdd(g) => s = "readd"
  BY <1>1 DEF ChangeUser, Drop, ReAdd
<1>6. CASE Manage(g)
  <2>1. CASE Start(g) \/ Stop(g) \/ Settle(g) \/ Look(g) \/ Verify(g)
    BY <1>2, <2>1
  <2>2. CASE Write(g) \/ Launch(g) \/ Back(g)
                \/ \E x \in {"download", "backup", "replace"} : Copy(g, x)
    BY <1>3, <2>2
  <2>3. QED
    BY <1>6, <2>1, <2>2 DEF Manage
<1>7. CASE Change(g)
  <2>1. CASE Prepare(g) \/ Edit(g) \/ Revert(g) \/ AddInbound(g) \/ RemoveInbound(g)
    BY <1>4, <2>1
  <2>2. CASE Drop(g) \/ ReAdd(g) \/ \E x \in {"adu", "rmu"} : ChangeUser(g, x)
    BY <1>5, <2>2
  <2>3. QED
    BY <1>7, <2>1, <2>2 DEF Change
<1>8. QED
  BY <1>6, <1>7

LEMMA HitNext ==
    ASSUME faults \in Nat, NEW g \in Goroutines, job[g].at \in Nat, job'[g].at = job[g].at,
           job[g].at <= faults
    PROVE  /\ UNCHANGED faults => /\ job'[g].at <= faults'
                                  /\ Hit(job[g])' <=> Hit(job[g])
                                  /\ HitTwice(job[g])' <=> HitTwice(job[g])
           /\ Fault => /\ job'[g].at <= faults'
                       /\ Hit(job[g])'
                       /\ Hit(job[g]) => HitTwice(job[g])'
BY DEF Hit, HitTwice, Fault

\* A step that goes well, and one that does not.
Went(g, p) ==
    /\ Moved(g) /\ Alike(job[g], job'[g]) /\ job'[g].plan = p
    /\ job'[g].err = job[g].err /\ job'[g].fit = job[g].fit

Failed(g, p) ==
    /\ Moved(g) /\ Alike(job[g], job'[g]) /\ job'[g].plan = p /\ job'[g].err = TRUE

LEMMA WentIs ==
    ASSUME JobsOK, NEW g \in Goroutines, job[g].plan # <<>>
    PROVE  /\ Next1(g) => Went(g, Tail(job[g].plan))
           /\ \A s : Fails(g, s) => Failed(g, IF job[g].err THEN <<>> ELSE Remedy(g, s))
<1>1. Next1(g) => Went(g, Tail(job[g].plan))
  BY NextIs DEF Went
<1>2. ASSUME NEW s, Fails(g, s)
      PROVE  Failed(g, IF job[g].err THEN <<>> ELSE Remedy(g, s))
  <2>1. /\ Moved(g) /\ Alike(job[g], job'[g]) /\ job'[g].err = TRUE
        /\ job[g].err => job'[g].plan = <<>>
        /\ ~ job[g].err => job'[g].plan = Remedy(g, s)
    BY <1>2, FailsIs
  <2>2. QED
    BY <2>1 DEF Failed
<1>3. QED
  BY <1>1, <1>2

\* What is served, and what was before.
LEMMA RunsSame ==
    ASSUME Up' = Up, \A p \in Up : proc'[p].in = proc[p].in, NEW x
    PROVE  Runs(x)' <=> Runs(x)
BY DEF Runs

LEMMA RunsAlone ==
    ASSUME Base, NEW x, Runs(x)
    PROVE  Up # {} /\ running /\ file.there /\ \A p \in Up : proc[p].in = x
BY OneUp DEF Runs, Base, Written

LEMMA RunsServed ==
    ASSUME Base, NEW t, NEW x, Serve(t, x), NEW y, Runs(y)
    PROVE  Runs(Put(y, t, x))'
BY ServesIt, RunsAlone DEF Runs

LEMMA NextNumbers ==
    ASSUME Types, NEW g \in Goroutines, job[g].plan # <<>>
    PROVE  /\ faults \in Nat /\ job[g].at \in Nat /\ JobsOK /\ FileTyped /\ ProcTyped
           /\ JobOK(job[g]) /\ job[g] # NoJob
<1>1. faults \in 0..MaxFaults /\ MaxFaults \in Nat
  BY XrayAssumption, TypesAre DEF Types
<1>2. JobsOK /\ FileTyped /\ ProcTyped
  BY TypesAre DEF Types
<1>3. JobOK(job[g]) /\ job[g] # NoJob
  BY <1>2, HasPlan
<1>4. job[g].at \in Nat
  BY <1>3 DEF JobOK
<1>5. QED
  BY <1>1, <1>2, <1>3, <1>4

\* A start where nothing runs: the process serves what is in the file, or a fault came.
LEMMA StartDoes ==
    ASSUME Base, NEW g \in Goroutines, Start(g), ~ running, \A t \in Tags : Sound(file.in[t])
    PROVE  /\ file'.in = file.in
           /\ \/ Next1(g) /\ UNCHANGED faults /\ Runs(file.in)'
              \/ Next1(g) /\ Fault
              \/ Fails(g, "start") /\ Fault /\ UNCHANGED running
<1>1. FileTyped /\ TypeOK
  BY TypesAre DEF Base, Types
<1>2. CASE \E p \in Procs : Spawn(p, IF Refused THEN "doomed" ELSE "up") /\ UNCHANGED faults
                            /\ Next1(g)
  <2>1. PICK p \in Procs : Spawn(p, IF Refused THEN "doomed" ELSE "up")
    BY <1>2
  <2>2. ~ Refused
    BY OneUp DEF Refused
  <2>3. Spawn(p, "up")
    BY <2>1, <2>2
  <2>4. file'.in = file.in
    BY <1>1, <2>3, SpawnTyped
  <2>5. proc'[p] = [state |-> "up", in |-> file.in]
    BY <2>3 DEF Spawn, Base, IInv, ProcOK
  <2>6. Runs(file.in)'
    BY <2>4, <2>5 DEF Runs, Up
  <2>7. QED
    BY <1>2, <2>4, <2>6
<1>3. CASE \E p \in Procs : Spawn(p, "doomed") /\ Fault /\ Next1(g)
  BY <1>1, <1>3, SpawnTyped
<1>4. CASE Fault /\ Fails(g, "start") /\ UNCHANGED running
           /\ file' = [file EXCEPT !.there = TRUE]
  BY <1>1, <1>4, FileWith, FileParts
<1>5. QED
  BY <1>2, <1>3, <1>4 DEF Start

\* The last start of a change of the version, or of a configuration that is taken back.
LEMMA LastStart ==
    ASSUME Base, NEW g \in Goroutines, Start(g), job[g].plan = DoStart,
           job[g].at <= faults, \A t \in Tags : Sound(job[g].old[t]),
           file.in = job[g].old, ~ running, job[g].err => Hit(job[g]),
           job[g].op = "switch" \/ job[g].err
    PROVE  \/ Ends(job[g])'
           \/ /\ job[g].op = "switch" /\ job'[g].plan = DoStart
              /\ file'.in = job'[g].old /\ ~ running' /\ Hit(job[g])'
<1>1. job[g].plan # <<>> /\ Tail(job[g].plan) = <<>>
  BY ApplyPlans DEF Is
<1>2. /\ JobsOK /\ faults \in Nat /\ job[g].at \in Nat
  BY <1>1, NextNumbers DEF Base
<1>3. file'.in = file.in
  BY StartDoes
<1>4. CASE Next1(g) /\ (Runs(file.in)' \/ Fault)
  <2>1. Went(g, <<>>)
    BY <1>1, <1>2, <1>4, WentIs
  <2>2. /\ job'[g].plan = <<>> /\ job'[g].err = job[g].err /\ job'[g].old = job[g].old
        /\ job'[g].at = job[g].at
    BY <2>1 DEF Went, Alike, Kept
  <2>3. CASE Runs(file.in)'
    BY <1>3, <2>2, <2>3 DEF Ends, AsWas
  <2>4. CASE Fault
    <3>1. job[g].err => HitTwice(job[g])'
      BY <1>2, <2>2, <2>4, HitNext
    <3>2. QED
      BY <2>2, <3>1 DEF Ends
  <2>5. QED
    BY <1>4, <2>3, <2>4
<1>5. CASE Fails(g, "start") /\ Fault /\ UNCHANGED running
  <2>1. Failed(g, IF job[g].err THEN <<>> ELSE Remedy(g, "start"))
    BY <1>1, <1>2, <1>5, WentIs
  <2>2. /\ job'[g].err = TRUE /\ job'[g].old = job[g].old /\ job'[g].at = job[g].at
        /\ job[g].err => job'[g].plan = <<>>
        /\ ~ job[g].err => job'[g].plan = Remedy(g, "start")
    BY <2>1 DEF Failed, Alike, Kept
  <2>3. Hit(job[g])' /\ (Hit(job[g]) => HitTwice(job[g])')
    BY <1>2, <1>5, <2>2, HitNext
  <2>4. CASE job[g].err
    BY <2>2, <2>3, <2>4 DEF Ends
  <2>5. CASE ~ job[g].err
    <3>1. Remedy(g, "start") = DoStart
      BY <2>5 DEF Remedy, DoStart
    <3>2. QED
      BY <1>3, <1>5, <2>2, <2>3, <2>5, <3>1
  <2>6. QED
    BY <2>4, <2>5
<1>6. QED
  BY <1>4, <1>5, StartDoes

LEMMA AsWasKept ==
    ASSUME NEW g \in Goroutines, UNCHANGED proc, file'.in = file.in,
           job'[g].old = job[g].old, AsWas(job[g])
    PROVE  AsWas(job[g])'
BY DEF AsWas, Runs, Up

LEMMA SwitchPlans ==
    /\ Is(DoStart, "start", <<>>)
    /\ Is(DoReplaceStart, "replace", DoStart)
    /\ Is(DoBackupReplaceStart, "backup", DoReplaceStart)
    /\ Is(DoSettleBackupReplaceStart, "settle", DoBackupReplaceStart)
    /\ Is(DoStopSettleBackupReplaceStart, "stop", DoSettleBackupReplaceStart)
    /\ Is(DoSwitch, "download", DoStopSettleBackupReplaceStart)
BY Tail1, Tail2, Tail3, Tail4, Tail5, Tail6 DEF DoStart, DoReplaceStart, DoBackupReplaceStart,
     DoSettleBackupReplaceStart, DoStopSettleBackupReplaceStart, DoSwitch

\* A fault that a change of the version cannot mend is one that the binary could not be
\* saved, and then the job does not fit.
LEMMA CopyMends ==
    ASSUME Base, NEW g \in Goroutines, job[g].op = "switch", job[g].plan # <<>>,
           NEW step, Copy(g, step), job[g].at <= faults, ~ job[g].err,
           \/ step = "download" /\ AsWas(job[g])
                /\ Tail(job[g].plan) = DoStopSettleBackupReplaceStart
           \/ step = "backup" /\ file.in = job[g].old /\ ~ running
                /\ Tail(job[g].plan) = DoReplaceStart
           \/ step = "replace" /\ file.in = job[g].old /\ ~ running
                /\ Tail(job[g].plan) = DoStart
    PROVE  job'[g].fit => MendsSwitch(job[g])'
<1>1. /\ JobsOK /\ faults \in Nat /\ job[g].at \in Nat
  BY NextNumbers DEF Base
<1>2. UNCHANGED <<file, proc, running>>
  BY DEF Copy
<1>3. CASE Next1(g)
  <2>1. Went(g, Tail(job[g].plan))
    BY <1>1, <1>3, WentIs
  <2>2. /\ job'[g].plan = Tail(job[g].plan) /\ job'[g].old = job[g].old
        /\ job'[g].err = job[g].err
    BY <2>1 DEF Went, Alike
  <2>3. AsWas(job[g]) => AsWas(job[g])'
    BY <1>2, <2>2, AsWasKept
  <2>4. QED
    BY <1>2, <2>2, <2>3 DEF MendsSwitch
<1>4. CASE Fails(g, step)
  <2>1. Failed(g, Remedy(g, step))
    BY <1>1, <1>4, WentIs
  <2>2. /\ job'[g].plan = Remedy(g, step) /\ job'[g].old = job[g].old
        /\ job'[g].err = TRUE /\ job'[g].at = job[g].at
    BY <2>1 DEF Failed, Alike, Kept
  <2>3. CASE step = "download"
    <3>1. Remedy(g, step) = <<>>
      BY <2>3 DEF Remedy
    <3>2. AsWas(job[g])'
      BY <1>2, <2>2, <2>3, AsWasKept
    <3>3. QED
      BY <2>2, <3>1, <3>2 DEF MendsSwitch, Ends
  <2>4. CASE step = "backup"
    BY <1>1, <1>4, <2>4, FailsIs
  <2>5. CASE step = "replace"
    <3>1. Remedy(g, step) = DoStart
      BY <2>5 DEF Remedy, DoStart
    <3>2. Alive = {}
      BY <2>5, OneUp
    <3>3. Fault \/ Next1(g)
      BY <3>2 DEF Copy
    <3>4. CASE Fault
      <4>1. Hit(job[g])'
        BY <1>1, <2>2, <3>4, HitNext
      <4>2. QED
        BY <1>2, <2>2, <2>5, <3>1, <4>1 DEF MendsSwitch
    <3>5. QED
      BY <1>3, <3>3, <3>4
  <2>6. QED
    BY <2>3, <2>4, <2>5
<1>5. QED
  BY <1>3, <1>4 DEF Copy

LEMMA SwitchMends ==
    ASSUME Base, NEW g \in Goroutines, job[g].op = "switch", Mends(job[g]), job[g].plan # <<>>,
           Manage(g) \/ Change(g)
    PROVE  job'[g].fit => MendsSwitch(job[g])'
<1>1. /\ JobsOK /\ faults \in Nat /\ job[g].at \in Nat /\ job[g].at <= faults
      /\ MendsSwitch(job[g]) /\ \A t \in Tags : Sound(job[g].old[t])
  BY NextNumbers DEF Base, Mends
<1>2. ASSUME NEW s, NEW p, Is(job[g].plan, s, p)
      PROVE  /\ At(g, s) /\ Tail(job[g].plan) = p
             /\ Next1(g) => /\ job'[g].plan = p /\ job'[g].old = job[g].old
                            /\ job'[g].err = job[g].err
  <2>1. At(g, s) /\ Tail(job[g].plan) = p
    BY <1>2 DEF At, Is
  <2>2. Next1(g) => Went(g, p)
    BY <1>1, <2>1, WentIs
  <2>3. QED
    BY <2>1, <2>2 DEF Went, Alike
<1>3. CASE job[g].plan = DoSwitch
  <2>1. At(g, "download") /\ Tail(job[g].plan) = DoStopSettleBackupReplaceStart
    BY <1>2, <1>3, SwitchPlans
  <2>2. Copy(g, "download")
    BY <2>1, ByHead
  <2>3. AsWas(job[g]) /\ ~ job[g].err
    BY <1>1, <1>3, SwitchPlans DEF MendsSwitch, Ends, Is
  <2>4. QED
    BY <1>1, <2>1, <2>2, <2>3, CopyMends
<1>4. CASE job[g].plan = DoStopSettleBackupReplaceStart
  <2>1. At(g, "stop") /\ (Next1(g) => /\ job'[g].plan = DoSettleBackupReplaceStart
                                      /\ job'[g].old = job[g].old /\ job'[g].err = job[g].err)
    BY <1>2, <1>4, SwitchPlans
  <2>2. Stop(g)
    BY <2>1, ByHead
  <2>3. AsWas(job[g]) /\ ~ job[g].err
    BY <1>1, <1>4, SwitchPlans DEF MendsSwitch, Ends, Is
  <2>4. QED
    BY <2>1, <2>2, <2>3 DEF Stop, MendsSwitch, AsWas
<1>5. CASE job[g].plan \in {DoSettleBackupReplaceStart, DoBackupReplaceStart, DoReplaceStart}
  <2>1. file.in = job[g].old /\ ~ running /\ ~ job[g].err
    BY <1>1, <1>5, SwitchPlans DEF MendsSwitch, Ends, Is
  <2>2. CASE job[g].plan = DoSettleBackupReplaceStart
    <3>1. At(g, "settle") /\ (Next1(g) => /\ job'[g].plan = DoBackupReplaceStart
                                          /\ job'[g].old = job[g].old
                                          /\ job'[g].err = job[g].err)
      BY <1>2, <2>2, SwitchPlans
    <3>2. Settle(g)
      BY <3>1, ByHead
    <3>3. QED
      BY <2>1, <3>1, <3>2 DEF Settle, MendsSwitch
  <2>3. CASE job[g].plan = DoBackupReplaceStart
    <3>1. At(g, "backup") /\ Tail(job[g].plan) = DoReplaceStart
      BY <1>2, <2>3, SwitchPlans
    <3>2. Copy(g, "backup")
      BY <3>1, ByHead
    <3>3. QED
      BY <1>1, <2>1, <3>1, <3>2, CopyMends
  <2>4. CASE job[g].plan = DoReplaceStart
    <3>1. At(g, "replace") /\ Tail(job[g].plan) = DoStart
      BY <1>2, <2>4, SwitchPlans
    <3>2. Copy(g, "replace")
      BY <3>1, ByHead
    <3>3. QED
      BY <1>1, <2>1, <3>1, <3>2, CopyMends
  <2>5. QED
    BY <1>5, <2>2, <2>3, <2>4
<1>6. CASE job[g].plan = DoStart
  <2>1. At(g, "start")
    BY <1>2, <1>6, SwitchPlans
  <2>2. Start(g)
    BY <2>1, ByHead
  <2>3. file.in = job[g].old /\ ~ running /\ (job[g].err => Hit(job[g]))
    BY <1>1, <1>6, SwitchPlans DEF MendsSwitch, Ends, Is
  <2>4. \/ Ends(job[g])'
        \/ /\ job'[g].plan = DoStart /\ file'.in = job'[g].old /\ ~ running' /\ Hit(job[g])'
    BY <1>1, <1>6, <2>2, <2>3, LastStart
  <2>5. QED
    BY <2>4 DEF MendsSwitch
<1>7. QED
  BY <1>1, <1>3, <1>4, <1>5, <1>6 DEF MendsSwitch, Ends

\* The start of a configuration: it is served, or a fault is known.
LEMMA ApplyStart ==
    ASSUME Base, NEW g \in Goroutines, Start(g), job[g].op = "apply",
           job[g].plan = DoStartSettleVerify, job[g].at <= faults,
           job[g].had, ~ job[g].err, file.in = job[g].new, ~ running
    PROVE  MendsApply(job[g])'
<1>1. /\ job[g].plan # <<>> /\ Tail(job[g].plan) = DoSettleVerify
  BY ApplyPlans DEF Is
<1>2. /\ JobsOK /\ JobOK(job[g]) /\ faults \in Nat /\ job[g].at \in Nat
  BY <1>1, NextNumbers DEF Base
<1>3. \A t \in Tags : Sound(file.in[t])
  <2>1. file.in \in [Tags -> SoundContents]
    BY <1>2 DEF JobOK
  <2>2. QED
    BY <2>1 DEF SoundContents
<1>4. CASE Next1(g) /\ ((UNCHANGED faults /\ Runs(file.in)') \/ Fault)
  <2>1. Went(g, DoSettleVerify)
    BY <1>1, <1>2, <1>4, WentIs
  <2>2. /\ job'[g].plan = DoSettleVerify /\ job'[g].had = job[g].had
        /\ job'[g].err = job[g].err /\ job'[g].at = job[g].at
    BY <2>1 DEF Went, Alike, Kept
  <2>3. Up' = {} => Hit(job[g])'
    BY <1>2, <1>4, <2>2, HitNext DEF Runs
  <2>4. QED
    BY <2>2, <2>3 DEF MendsApply
<1>5. CASE Fails(g, "start") /\ Fault /\ UNCHANGED running
  <2>1. Failed(g, Remedy(g, "start"))
    BY <1>1, <1>2, <1>5, WentIs
  <2>2. Remedy(g, "start") = DoBackStart
    BY DEF Remedy, DoBackStart
  <2>3. job'[g].plan = DoBackStart /\ job'[g].err = TRUE /\ job'[g].at = job[g].at
    BY <2>1, <2>2 DEF Failed, Alike, Kept
  <2>4. Hit(job[g])'
    BY <1>2, <1>5, <2>3, HitNext
  <2>5. QED
    BY <1>5, <2>3, <2>4 DEF MendsApply
<1>6. QED
  BY <1>3, <1>4, <1>5, StartDoes

LEMMA ApplyMends ==
    ASSUME Base, NEW g \in Goroutines, job[g].op = "apply", Mends(job[g]), job[g].plan # <<>>,
           Manage(g) \/ Change(g)
    PROVE  MendsApply(job[g])' /\ \A t \in Tags : Sound(job'[g].old[t])
<1>1. /\ JobsOK /\ JobOK(job[g]) /\ faults \in Nat /\ job[g].at \in Nat /\ job[g].at <= faults
      /\ MendsApply(job[g]) /\ \A t \in Tags : Sound(job[g].old[t])
  BY NextNumbers DEF Base, Mends
<1>2. ASSUME NEW s, NEW p, Is(job[g].plan, s, p)
      PROVE  /\ At(g, s) /\ Tail(job[g].plan) = p
             /\ Next1(g) => /\ job'[g].plan = p /\ job'[g].old = job[g].old
                            /\ job'[g].had = job[g].had /\ job'[g].new = job[g].new
                            /\ job'[g].err = job[g].err /\ job'[g].at = job[g].at
  <2>1. At(g, s) /\ Tail(job[g].plan) = p
    BY <1>2 DEF At, Is
  <2>2. Next1(g) => Went(g, p)
    BY <1>1, <2>1, WentIs
  <2>3. QED
    BY <2>1, <2>2 DEF Went, Alike, Kept
<1>3. CASE job[g].plan = DoWriteLaunch
  <2>1. At(g, "write") /\ Tail(job[g].plan) = DoLaunch
    BY <1>2, <1>3, ApplyPlans
  <2>2. Write(g)
    BY <2>1, ByHead
  <2>3. AsWas(job[g]) /\ ~ job[g].err
    BY <1>1, <1>3, ApplyPlans DEF MendsApply, Ends, Is
  <2>4. Up # {} /\ file.there
    BY <2>3, RunsAlone DEF AsWas
  <2>5. /\ job'[g].plan = DoLaunch /\ job'[g].had = file.there /\ job'[g].old = file.in
        /\ job'[g].err = job[g].err /\ job'[g].new = job[g].new
    BY <2>1, <2>2, WriteIs DEF Base, Kept
  <2>6. Up' = Up /\ file'.in = job[g].new
    BY <2>2 DEF Write, Up
  <2>7. \A t \in Tags : Sound(job'[g].old[t])
    BY <1>1, <2>3, <2>5 DEF AsWas
  <2>8. QED
    BY <2>3, <2>4, <2>5, <2>6, <2>7 DEF MendsApply
<1>4. CASE job[g].plan # DoWriteLaunch
  <2>1. \/ Went(g, job'[g].plan)
        \/ Failed(g, job'[g].plan)
    <3>1. CASE job[g].plan = DoLaunch
      <4>1. PICK p : /\ p \in Seq(StepsOf(job[g].op)) /\ Turn(g, p)
        <5>1. Launch(g)
          BY <3>1, ByHead, ApplyPlans DEF Is, At
        <5>2. /\ <<"stop", "settle", "start", "settle", "verify">> \in Seq(Applying)
              /\ <<"start", "settle", "verify">> \in Seq(Applying)
          BY DEF Applying, Plain
        <5>3. StepsOf(job[g].op) = Applying
          BY StepsAre
        <5>4. QED
          BY <5>1, <5>2, <5>3 DEF Launch
      <4>2. QED
        BY <1>1, <4>1, TurnIs DEF Went
    <3>2. CASE job[g].plan # DoLaunch
      <4>1. PICK s : At(g, s)
        BY DEF At
      <4>2. Next1(g) \/ \E x : Fails(g, x)
        <5>1. s \in {"stop", "settle", "start", "verify", "back"}
          BY <1>1, <1>4, <3>2, <4>1, ApplyPlans DEF MendsApply, Ends, Is, At
        <5>2. Stop(g) \/ Settle(g) \/ Start(g) \/ Verify(g) \/ Back(g)
          BY <4>1, <5>1, ByHead
        <5>3. QED
          BY <5>2 DEF Stop, Settle, Start, Verify, Back
      <4>3. QED
        BY <1>1, <4>2, WentIs DEF Went, Failed
    <3>3. QED
      BY <3>1, <3>2
  <2>2. job'[g].old = job[g].old
    BY <2>1 DEF Went, Failed, Alike
  <2>3. QED
    <3>1. CASE job[g].plan = DoLaunch
      <4>1. At(g, "launch")
        BY <1>2, <3>1, ApplyPlans
      <4>2. Launch(g)
        BY <4>1, ByHead
      <4>3. job[g].had /\ ~ job[g].err /\ file.in = job[g].new /\ Up # {}
        BY <1>1, <3>1, ApplyPlans DEF MendsApply, Ends, Is
      <4>4. running
        BY <4>3, OneUp
      <4>5. Turn(g, DoStopSettleStartSettleVerify) /\ UNCHANGED file
        BY <4>2, <4>4 DEF Launch, DoStopSettleStartSettleVerify
      <4>6. DoStopSettleStartSettleVerify \in Seq(StepsOf(job[g].op))
        BY StepsAre DEF DoStopSettleStartSettleVerify, Applying, Plain
      <4>7. /\ job'[g].plan = DoStopSettleStartSettleVerify /\ job'[g].had = job[g].had
            /\ job'[g].err = job[g].err /\ job'[g].new = job[g].new
        BY <1>1, <4>5, <4>6, TurnIs DEF Alike, Kept
      <4>8. QED
        BY <1>1, <2>2, <4>3, <4>5, <4>7 DEF MendsApply
    <3>2. CASE job[g].plan = DoStopSettleStartSettleVerify
      <4>1. At(g, "stop") /\ (Next1(g) => /\ job'[g].plan = DoSettleStartSettleVerify
                                          /\ job'[g].had = job[g].had
                                          /\ job'[g].new = job[g].new
                                          /\ job'[g].err = job[g].err)
        BY <1>2, <3>2, ApplyPlans
      <4>2. Stop(g)
        BY <4>1, ByHead
      <4>3. job[g].had /\ ~ job[g].err /\ file.in = job[g].new
        BY <1>1, <3>2, ApplyPlans DEF MendsApply, Ends, Is
      <4>4. QED
        BY <1>1, <2>2, <4>1, <4>2, <4>3 DEF Stop, MendsApply
    <3>3. CASE job[g].plan = DoSettleStartSettleVerify
      <4>1. At(g, "settle") /\ (Next1(g) => /\ job'[g].plan = DoStartSettleVerify
                                            /\ job'[g].had = job[g].had
                                            /\ job'[g].new = job[g].new
                                            /\ job'[g].err = job[g].err)
        BY <1>2, <3>3, ApplyPlans
      <4>2. Settle(g)
        BY <4>1, ByHead
      <4>3. job[g].had /\ ~ job[g].err /\ file.in = job[g].new /\ ~ running
        BY <1>1, <3>3, ApplyPlans DEF MendsApply, Ends, Is
      <4>4. QED
        BY <1>1, <2>2, <4>1, <4>2, <4>3 DEF Settle, MendsApply
    <3>4. CASE job[g].plan = DoStartSettleVerify
      <4>1. Start(g)
        BY <1>2, <3>4, ApplyPlans, ByHead
      <4>2. job[g].had /\ ~ job[g].err /\ file.in = job[g].new /\ ~ running
        BY <1>1, <3>4, ApplyPlans DEF MendsApply, Ends, Is
      <4>3. QED
        BY <1>1, <2>2, <3>4, <4>1, <4>2, ApplyStart
    <3>5. CASE job[g].plan = DoSettleVerify
      <4>1. At(g, "settle") /\ (Next1(g) => /\ job'[g].plan = DoVerify
                                            /\ job'[g].had = job[g].had
                                            /\ job'[g].at = job[g].at
                                            /\ job'[g].err = job[g].err)
        BY <1>2, <3>5, ApplyPlans
      <4>2. Settle(g)
        BY <4>1, ByHead
      <4>3. job[g].had /\ ~ job[g].err /\ (Up = {} => Hit(job[g]))
        BY <1>1, <3>5, ApplyPlans DEF MendsApply, Ends, Is
      <4>4. Up' = Up /\ (Hit(job[g])' <=> Hit(job[g])) /\ Next1(g)
        BY <1>1, <4>1, <4>2, HitNext DEF Settle, Up
      <4>5. QED
        BY <1>1, <2>2, <4>1, <4>3, <4>4 DEF MendsApply
    <3>6. CASE job[g].plan = DoVerify
      <4>1. At(g, "verify") /\ (Next1(g) => job'[g].plan = <<>> /\ job'[g].err = job[g].err)
        BY <1>2, <3>6, ApplyPlans
      <4>2. Verify(g)
        BY <4>1, ByHead
      <4>3. job[g].had /\ ~ job[g].err /\ (Up = {} => Hit(job[g]))
        BY <1>1, <3>6, ApplyPlans DEF MendsApply, Ends, Is
      <4>4. CASE running
        BY <1>1, <2>2, <4>1, <4>2, <4>3, <4>4 DEF Verify, MendsApply, Ends
      <4>5. CASE ~ running
        <5>1. Fails(g, "verify") /\ UNCHANGED <<running, faults>>
          BY <4>2, <4>5 DEF Verify
        <5>2. Failed(g, Remedy(g, "verify")) /\ Remedy(g, "verify") = DoBackStart
          BY <1>1, <4>3, <5>1, WentIs DEF Remedy, DoBackStart
        <5>3. job'[g].plan = DoBackStart /\ job'[g].err = TRUE /\ job'[g].at = job[g].at
          BY <5>2 DEF Failed, Alike, Kept
        <5>4. Hit(job[g])'
          BY <1>1, <4>3, <4>5, <5>1, <5>3, OneUp, HitNext
        <5>5. QED
          BY <1>1, <2>2, <4>5, <5>1, <5>3, <5>4 DEF MendsApply
      <4>6. QED
        BY <4>4, <4>5
    <3>7. CASE job[g].plan = DoBackStart
      <4>1. At(g, "back") /\ (Next1(g) => /\ job'[g].plan = DoStart /\ job'[g].err = job[g].err
                                          /\ job'[g].at = job[g].at)
        BY <1>2, <3>7, ApplyPlans
      <4>2. Back(g)
        BY <4>1, ByHead
      <4>3. job[g].err /\ Hit(job[g]) /\ ~ running
        BY <1>1, <3>7, ApplyPlans DEF MendsApply, Ends, Is
      <4>4. file'.in = job[g].old
        BY <1>1, <4>2, NextNumbers, FileWith DEF Back, JobOK, Base
      <4>5. Hit(job[g])' /\ ~ running' /\ Next1(g)
        BY <1>1, <4>1, <4>2, <4>3, HitNext DEF Back
      <4>6. QED
        BY <1>1, <2>2, <4>1, <4>3, <4>4, <4>5 DEF MendsApply
    <3>8. CASE job[g].plan = DoStart
      <4>1. Start(g)
        BY <1>2, <3>8, ApplyPlans, ByHead
      <4>2. job[g].err /\ Hit(job[g]) /\ file.in = job[g].old /\ ~ running
        BY <1>1, <3>8, ApplyPlans DEF MendsApply, Ends, Is
      <4>3. Ends(job[g])'
        BY <1>1, <3>8, <4>1, <4>2, LastStart
      <4>4. QED
        BY <1>1, <2>2, <4>3 DEF MendsApply
    <3>9. QED
      BY <1>1, <1>4, <3>1, <3>2, <3>3, <3>4, <3>5, <3>6, <3>7, <3>8 DEF MendsApply, Ends
<1>5. QED
  BY <1>3, <1>4

LEMMA FailsMends ==
    ASSUME Base, NEW g \in Goroutines, job[g].op \in ChangeOps, job[g].plan # <<>>, NEW s,
           Fails(g, s), UNCHANGED <<file, proc>>, AsWas(job[g])
    PROVE  Ends(job[g])'
<1>1. JobsOK
  BY NextNumbers DEF Base
<1>2. job'[g].plan = <<>>
  BY <1>1, FailsPlan
<1>3. job'[g].old = job[g].old
  BY <1>1, FailsIs DEF Alike
<1>4. QED
  BY <1>2, <1>3, AsWasKept DEF Ends

LEMMA AddInboundMends ==
    ASSUME Base, NEW g \in Goroutines, job[g].op = "addInbound", Mends(job[g]),
           job[g].plan # <<>>, Manage(g) \/ Change(g)
    PROVE  MendsInbound(job[g], {DoPrepare, DoAdiEdit})'
<1>1. /\ JobsOK /\ JobOK(job[g]) /\ FileTyped /\ job[g].op \in ChangeOps
      /\ MendsInbound(job[g], {DoPrepare, DoAdiEdit})
  BY NextNumbers DEF Base, Mends, ChangeOps, InboundOps
<1>2. CASE job[g].plan = DoPrepare
  <2>1. Prepare(g)
    BY <1>2, InboundPlans, ByHead DEF Is, At
  <2>2. AsWas(job[g]) /\ ~ job[g].err
    BY <1>1, <1>2, InboundPlans DEF MendsInbound, Ends, Is
  <2>3. running
    BY <2>2, RunsAlone DEF AsWas
  <2>4. Turn(g, DoAdiEdit) /\ UNCHANGED proc
    BY <2>1, <2>3 DEF Prepare, DoAdiEdit
  <2>5. file'.in = file.in
    BY <1>1, <2>1 DEF Prepare, FileTyped
  <2>6. DoAdiEdit \in Seq(StepsOf(job[g].op))
    BY <1>1, StepsAre DEF DoAdiEdit, ByTag, InboundOps
  <2>7. job'[g].plan = DoAdiEdit /\ job'[g].old = job[g].old /\ job'[g].err = job[g].err
    BY <1>1, <2>4, <2>6, TurnIs DEF Alike
  <2>8. QED
    BY <2>2, <2>4, <2>5, <2>7, AsWasKept DEF MendsInbound
<1>3. CASE job[g].plan = DoAdiEdit
  <2>1. AddInbound(g) /\ Tail(job[g].plan) = DoEdit
    BY <1>3, InboundPlans, ByHead DEF Is, At
  <2>2. AsWas(job[g]) /\ ~ job[g].err
    BY <1>1, <1>3, InboundPlans DEF MendsInbound, Ends, Is
  <2>3. CASE Next1(g)
    <3>1. Went(g, DoEdit)
      BY <1>1, <2>1, <2>3, WentIs
    <3>2. QED
      BY <2>2, <3>1 DEF Went, MendsInbound
  <2>4. CASE Fails(g, "adi") /\ UNCHANGED proc
    <3>1. UNCHANGED file
      BY <2>1 DEF AddInbound
    <3>2. Ends(job[g])'
      BY <1>1, <2>2, <2>4, <3>1, FailsMends
    <3>3. QED
      BY <3>2 DEF MendsInbound
  <2>5. QED
    BY <2>1, <2>3, <2>4 DEF AddInbound
<1>4. CASE job[g].plan = DoEdit
  <2>1. Edit(g) /\ Tail(job[g].plan) = <<>>
    BY <1>4, InboundPlans, ByHead DEF Is, At
  <2>2. job'[g].plan = <<>> /\ job'[g].err = job[g].err
    BY <2>1, EditIs DEF Base
  <2>3. ~ job[g].err
    BY <1>1, <1>4, InboundPlans DEF MendsInbound, Ends, Is
  <2>4. QED
    BY <2>2, <2>3 DEF MendsInbound, Ends
<1>5. QED
  BY <1>1, <1>2, <1>3, <1>4 DEF MendsInbound, Ends

LEMMA RemoveInboundMends ==
    ASSUME Base, NEW g \in Goroutines, job[g].op = "removeInbound", Mends(job[g]),
           job[g].plan # <<>>, Manage(g) \/ Change(g)
    PROVE  MendsInbound(job[g], {DoLookRmiEdit, DoRmiEdit})'
<1>1. /\ JobsOK /\ JobOK(job[g]) /\ FileTyped /\ job[g].op \in ChangeOps
      /\ MendsInbound(job[g], {DoLookRmiEdit, DoRmiEdit})
  BY NextNumbers DEF Base, Mends, ChangeOps, InboundOps
<1>2. CASE job[g].plan = DoLookRmiEdit
  <2>1. Look(g) /\ Tail(job[g].plan) = DoRmiEdit
    BY <1>2, InboundPlans, ByHead DEF Is, At
  <2>2. AsWas(job[g]) /\ ~ job[g].err
    BY <1>1, <1>2, InboundPlans DEF MendsInbound, Ends, Is
  <2>3. CASE Next1(g)
    <3>1. Went(g, DoRmiEdit)
      BY <1>1, <2>1, <2>3, WentIs
    <3>2. job'[g].plan = DoRmiEdit /\ job'[g].old = job[g].old /\ job'[g].err = job[g].err
      BY <3>1 DEF Went, Alike
    <3>3. AsWas(job[g])'
      BY <2>1, <2>2, <3>2, AsWasKept DEF Look
    <3>4. QED
      BY <2>2, <3>2, <3>3 DEF MendsInbound
  <2>4. CASE Fails(g, "look")
    <3>1. Ends(job[g])'
      BY <1>1, <2>1, <2>2, <2>4, FailsMends DEF Look
    <3>2. QED
      BY <3>1 DEF MendsInbound
  <2>5. QED
    BY <2>1, <2>3, <2>4 DEF Look
<1>3. CASE job[g].plan = DoRmiEdit
  <2>1. RemoveInbound(g) /\ Tail(job[g].plan) = DoEdit
    BY <1>3, InboundPlans, ByHead DEF Is, At
  <2>2. AsWas(job[g]) /\ ~ job[g].err
    BY <1>1, <1>3, InboundPlans DEF MendsInbound, Ends, Is
  <2>3. CASE Next1(g)
    <3>1. Went(g, DoEdit)
      BY <1>1, <2>1, <2>3, WentIs
    <3>2. QED
      BY <2>2, <3>1 DEF Went, MendsInbound
  <2>4. CASE Fails(g, "rmi") /\ UNCHANGED proc
    <3>1. UNCHANGED file
      BY <2>1 DEF RemoveInbound
    <3>2. Ends(job[g])'
      BY <1>1, <2>2, <2>4, <3>1, FailsMends
    <3>3. QED
      BY <3>2 DEF MendsInbound
  <2>5. QED
    BY <2>1, <2>3, <2>4 DEF RemoveInbound
<1>4. CASE job[g].plan = DoEdit
  <2>1. Edit(g) /\ Tail(job[g].plan) = <<>>
    BY <1>4, InboundPlans, ByHead DEF Is, At
  <2>2. job'[g].plan = <<>> /\ job'[g].err = job[g].err
    BY <2>1, EditIs DEF Base
  <2>3. ~ job[g].err
    BY <1>1, <1>4, InboundPlans DEF MendsInbound, Ends, Is
  <2>4. QED
    BY <2>2, <2>3 DEF MendsInbound, Ends
<1>5. QED
  BY <1>1, <1>2, <1>3, <1>4 DEF MendsInbound, Ends

\* An entry that is set and set again.
LEMMA CountedBack ==
    ASSUME NEW x \in Contents, NEW u \in Users, NEW b \in 0..2, NEW a, x.n[u] = a
    PROVE  /\ Counted(Counted(x, u, b), u, a) = x
           /\ Counted(x, u, b).n[u] = b /\ Counted(x, u, b).there = x.there
           /\ b <= 1 /\ Sound(x) => Sound(Counted(x, u, b))
<1>1. PICK m : m = [x.n EXCEPT ![u] = b] /\ m \in [Users -> 0..2]
  BY DEF Contents
<1>2. Counted(x, u, b) = [there |-> x.there, n |-> m]
  BY <1>1 DEF Counted, Contents
<1>3. Counted([there |-> x.there, n |-> m], u, a) = [there |-> x.there, n |-> [m EXCEPT ![u] = a]]
  BY DEF Counted
<1>4. [m EXCEPT ![u] = a] = x.n
  BY <1>1 DEF Contents
<1>5. x = [there |-> x.there, n |-> x.n]
  BY DEF Contents
<1>6. m[u] = b
  BY <1>1 DEF Contents
<1>7. b <= 1 /\ Sound(x) => Sound([there |-> x.there, n |-> m])
  BY <1>1 DEF Sound, Contents
<1>8. QED
  BY <1>2, <1>3, <1>4, <1>5, <1>6, <1>7

\* What a request for a user makes of the old inbound, and how that is taken back.
LEMMA ChangedIs ==
    ASSUME NEW j, JobOK(j), j.op \in UserOps, Sound(j.old[j.tag]),
           j.op = "addUser" => j.old[j.tag].n[j.user] = 0,
           j.op = "removeUser" => j.old[j.tag].n[j.user] = 1
    PROVE  /\ Changed(j) \in [Tags -> Contents]
           /\ Changed(j)[j.tag].there = There(j) /\ Sound(Changed(j)[j.tag])
           /\ Without(j)[j.tag] = NoInbound /\ Put(Without(j), j.tag, j.old[j.tag]) = j.old
           /\ j.op = "addUser" =>
                Put(Changed(j), j.tag, Entries(Changed(j)[j.tag], j.user, 0)) = j.old
           /\ j.op = "removeUser" =>
                Put(Changed(j), j.tag, Entries(Changed(j)[j.tag], j.user,
                                               Changed(j)[j.tag].n[j.user] + 1)) = j.old
<1>1. PICK o \in [Tags -> Contents], t \in Tags, u \in Users :
        o = j.old /\ t = j.tag /\ u = j.user
  BY DEF JobOK, ChangeOps
<1>2. PICK x \in Contents : x = o[t]
  OBVIOUS
<1>3. PICK y : y = Edited(j, x)
  OBVIOUS
<1>4. Sound(x) /\ (j.op = "addUser" => x.n[u] = 0) /\ (j.op = "removeUser" => x.n[u] = 1)
  BY <1>1, <1>2
<1>5. /\ y \in Contents /\ y.there = x.there /\ Sound(y)
      /\ j.op = "addUser" => Entries(y, u, 0) = x
      /\ j.op = "removeUser" => Entries(y, u, y.n[u] + 1) = x
  <2>1. CASE x.there = FALSE
    <3>1. y = x
      BY <1>1, <1>3, <2>1 DEF Edited, Entries, UserOps
    <3>2. \A n : Entries(y, u, n) = x
      BY <2>1, <3>1 DEF Entries
    <3>3. QED
      BY <1>4, <3>1, <3>2
  <2>2. CASE x.there = TRUE /\ j.op = "addUser"
    <3>1. y = Counted(x, u, 1)
      <4>1. ~ (x.n[u] > 0)
        BY <1>4, <2>2
      <4>2. QED
        BY <1>1, <1>3, <2>2, <4>1, UserAdded
    <3>2. y \in Contents
      BY <3>1, CountOK
    <3>3. Counted(y, u, 0) = x /\ y.there = x.there /\ Sound(y)
      BY <1>4, <2>2, <3>1, CountedBack
    <3>4. Entries(y, u, 0) = Counted(y, u, 0)
      BY <2>2, <3>3 DEF Entries, Counted
    <3>5. QED
      BY <2>2, <3>2, <3>3, <3>4
  <2>3. CASE x.there = TRUE /\ j.op = "removeUser"
    <3>1. y = Counted(x, u, 0)
      BY <1>1, <1>3, <2>3, UserRemoved
    <3>2. y \in Contents
      BY <3>1, CountOK
    <3>3. Counted(y, u, 1) = x /\ y.there = x.there /\ Sound(y) /\ y.n[u] = 0
      BY <1>4, <2>3, <3>1, CountedBack
    <3>4. y.n[u] + 1 = 1
      BY <3>3
    <3>5. Entries(y, u, 1) = Counted(y, u, 1)
      BY <2>3, <3>3 DEF Entries, Counted
    <3>6. QED
      BY <2>3, <3>2, <3>3, <3>4, <3>5
  <2>4. x.there \in BOOLEAN
    BY DEF Contents
  <2>5. QED
    BY <2>1, <2>2, <2>3, <2>4 DEF UserOps
<1>6. PICK c : c = Put(o, t, y) /\ c = Changed(j)
  BY <1>1, <1>2, <1>3 DEF Changed
<1>7. c \in [Tags -> Contents] /\ c[t] = y
  BY <1>5, <1>6 DEF Put
<1>8. Put(c, t, x) = o
  BY <1>2, <1>6 DEF Put
<1>9. PICK w : w = Put(o, t, NoInbound) /\ w = Without(j)
  BY <1>1 DEF Without
<1>10. w[t] = NoInbound /\ Put(w, t, o[t]) = o
  BY <1>9 DEF Put
<1>11. /\ Changed(j) \in [Tags -> Contents]
       /\ Changed(j)[j.tag].there = There(j) /\ Sound(Changed(j)[j.tag])
  BY <1>1, <1>2, <1>5, <1>6, <1>7 DEF There
<1>12. Without(j)[j.tag] = NoInbound /\ Put(Without(j), j.tag, j.old[j.tag]) = j.old
  BY <1>1, <1>9, <1>10
<1>13. j.op = "addUser" =>
         Put(Changed(j), j.tag, Entries(Changed(j)[j.tag], j.user, 0)) = j.old
  BY <1>1, <1>5, <1>6, <1>7, <1>8
<1>14. j.op = "removeUser" =>
         Put(Changed(j), j.tag, Entries(Changed(j)[j.tag], j.user,
                                        Changed(j)[j.tag].n[j.user] + 1)) = j.old
  BY <1>1, <1>5, <1>6, <1>7, <1>8
<1>15. QED
  BY <1>11, <1>12, <1>13, <1>14

LEMMA SameUser ==
    ASSUME NEW g \in Goroutines, job[g].op \in UserOps, Kept(job[g], job'[g]),
           job'[g].old = job[g].old
    PROVE  /\ job'[g].op = job[g].op /\ job'[g].tag = job[g].tag /\ job'[g].at = job[g].at
           /\ Changed(job[g])' = Changed(job[g]) /\ Without(job[g])' = Without(job[g])
           /\ There(job[g])' = There(job[g])
<1>1. /\ job'[g].op = job[g].op /\ job'[g].tag = job[g].tag /\ job'[g].user = job[g].user
      /\ job'[g].at = job[g].at
  BY DEF Kept
<1>2. \A x : Edited(job'[g], x) = Edited(job[g], x)
  BY <1>1 DEF Edited, UserOps
<1>3. Changed(job[g])' = Changed(job[g])
  BY <1>1, <1>2 DEF Changed
<1>4. QED
  BY <1>1, <1>3 DEF Without, There

\* What is known of a request for a user that has something to do.
LEMMA UserHas ==
    ASSUME Base, NEW g \in Goroutines, job[g].op \in UserOps, Mends(job[g]),
           job[g].plan # <<>>
    PROVE  /\ JobsOK /\ JobOK(job[g]) /\ FileTyped /\ faults \in Nat /\ job[g].at \in Nat
           /\ job[g].at <= faults /\ MendsUser(job[g]) /\ job[g].op \in ChangeOps
           /\ job[g].tag \in Tags /\ job[g].old \in [Tags -> Contents]
           /\ Sound(job[g].old[job[g].tag])
           /\ job[g].op = "addUser" => job[g].old[job[g].tag].n[job[g].user] = 0
           /\ job[g].op = "removeUser" => job[g].old[job[g].tag].n[job[g].user] = 1
<1>1. /\ JobsOK /\ JobOK(job[g]) /\ FileTyped /\ faults \in Nat /\ job[g].at \in Nat
  BY NextNumbers DEF Base
<1>2. job[g].op \in ChangeOps /\ job[g].tag \in Tags /\ job[g].old \in [Tags -> Contents]
  BY <1>1 DEF JobOK, ChangeOps
<1>3. /\ job[g].at <= faults /\ \A t \in Tags : Sound(job[g].old[t])
      /\ job[g].op = "addUser" =>
           MendsUser(job[g]) /\ job[g].old[job[g].tag].n[job[g].user] = 0
      /\ job[g].op = "removeUser" =>
           MendsUser(job[g]) /\ job[g].old[job[g].tag].n[job[g].user] = 1
  BY DEF Mends
<1>4. QED
  BY <1>1, <1>2, <1>3 DEF UserOps

LEMMA UserLooks ==
    ASSUME Base, NEW g \in Goroutines, job[g].op \in UserOps, Mends(job[g]),
           job[g].plan = DoLookEdit(StepOf(job[g].op)), Manage(g) \/ Change(g)
    PROVE  MendsUser(job[g])'
<1>1. Is(job[g].plan, "look", DoEditThen(StepOf(job[g].op)))
  BY UserPlans
<1>2. job[g].plan # <<>> /\ Tail(job[g].plan) = DoEditThen(StepOf(job[g].op)) /\ Look(g)
  BY <1>1, ByHead DEF Is, At
<1>3. JobsOK /\ MendsUser(job[g]) /\ job[g].op \in ChangeOps
  BY <1>2, UserHas
<1>4. AsWas(job[g]) /\ ~ job[g].err
  BY <1>1, <1>3, UserPlans, StepIs DEF MendsUser, Ends, Is
<1>5. CASE Next1(g)
  <2>1. /\ job'[g].plan = DoEditThen(StepOf(job[g].op)) /\ job'[g].old = job[g].old
        /\ job'[g].err = job[g].err /\ job'[g].op = job[g].op
    BY <1>2, <1>3, <1>5, WentIs DEF Went, Alike, Kept
  <2>2. AsWas(job[g])'
    BY <1>2, <1>4, <2>1, AsWasKept DEF Look
  <2>3. QED
    BY <1>4, <2>1, <2>2 DEF MendsUser
<1>6. CASE Fails(g, "look")
  <2>1. Ends(job[g])'
    BY <1>2, <1>3, <1>4, <1>6, FailsMends DEF Look
  <2>2. QED
    BY <2>1 DEF MendsUser
<1>7. QED
  BY <1>2, <1>5, <1>6 DEF Look

LEMMA UserEdits ==
    ASSUME Base, NEW g \in Goroutines, job[g].op \in UserOps, Mends(job[g]),
           job[g].plan = DoEditThen(StepOf(job[g].op)), Manage(g) \/ Change(g)
    PROVE  MendsUser(job[g])'
<1>1. Is(job[g].plan, "edit", DoOnly(StepOf(job[g].op)))
  BY UserPlans
<1>2. job[g].plan # <<>> /\ Tail(job[g].plan) = DoOnly(StepOf(job[g].op)) /\ Edit(g)
  BY <1>1, ByHead DEF Is, At
<1>3. /\ JobsOK /\ JobOK(job[g]) /\ FileTyped /\ MendsUser(job[g]) /\ job[g].op \in ChangeOps
      /\ job[g].tag \in Tags
      /\ job[g].op = "removeUser" => job[g].old[job[g].tag].n[job[g].user] = 1
  BY <1>2, UserHas
<1>4. AsWas(job[g]) /\ ~ job[g].err
  BY <1>1, <1>3, UserPlans, StepIs DEF MendsUser, Ends, Is
<1>5. file.there /\ file.in = job[g].old /\ Runs(job[g].old)
  BY <1>4, RunsAlone DEF AsWas
<1>6. /\ Kept(job[g], job'[g]) /\ job'[g].plan = DoOnly(StepOf(job[g].op))
      /\ job'[g].old = job[g].old /\ job'[g].err = job[g].err
      /\ job'[g].removed <=> (job[g].op = "removeUser"
                              /\ file.in[job[g].tag].n[job[g].user] > 0)
  BY <1>2, EditIs DEF Base
<1>7. /\ job'[g].op = job[g].op /\ Changed(job[g])' = Changed(job[g])
  BY <1>6, SameUser
<1>8. file'.in = Changed(job[g])
  <2>1. PICK x \in Contents : x = file.in[job[g].tag]
    BY <1>3, FileParts
  <2>2. PICK y \in Contents : y = Edited(job[g], x)
    BY <1>3, EditedOK
  <2>3. file' = [file EXCEPT !.in[job[g].tag] = y]
    BY <1>2, <1>5, <2>1, <2>2 DEF Edit
  <2>4. file'.in = [file.in EXCEPT ![job[g].tag] = y]
    BY <1>3, <2>3, FilePut
  <2>5. QED
    BY <1>5, <2>1, <2>2, <2>4 DEF Changed, Put
<1>9. Runs(job[g].old)'
  <2>1. UNCHANGED proc
    BY <1>2 DEF Edit
  <2>2. QED
    BY <1>5, <1>6, <2>1 DEF Runs, Up
<1>10. Noted(job[g])'
  <2>1. job[g].op = "removeUser" => file.in[job[g].tag].n[job[g].user] > 0
    BY <1>3, <1>5
  <2>2. QED
    BY <1>6, <1>7, <2>1 DEF Noted
<1>11. QED
  BY <1>4, <1>6, <1>7, <1>8, <1>9, <1>10 DEF MendsUser

LEMMA UserServes ==
    ASSUME Base, NEW g \in Goroutines, job[g].op \in UserOps, Mends(job[g]),
           job[g].plan = DoOnly(StepOf(job[g].op)), Manage(g) \/ Change(g)
    PROVE  MendsUser(job[g])'
<1>1. Is(job[g].plan, StepOf(job[g].op), <<>>)
  BY UserPlans
<1>2. job[g].plan # <<>> /\ Tail(job[g].plan) = <<>> /\ ChangeUser(g, StepOf(job[g].op))
  BY <1>1, StepIs, ByHead DEF Is, At
<1>3. JobsOK /\ MendsUser(job[g])
  BY <1>2, UserHas
<1>4. ~ job[g].err /\ Noted(job[g]) /\ file.in = Changed(job[g]) /\ Runs(job[g].old)
  <2>1. job[g].plan # DoLookEdit(StepOf(job[g].op)) /\ job[g].plan # DoEditThen(StepOf(job[g].op))
    BY <1>1, UserPlans, StepIs DEF Is
  <2>2. job[g].plan # DoReadd /\ job[g].plan # DoRevertDropReadd /\ job[g].plan # DoDropReadd
    BY <1>1, UserPlans, StepIs DEF Is
  <2>3. QED
    BY <1>2, <1>3, <2>1, <2>2 DEF MendsUser, Ends
<1>5. CASE Next1(g)
  <2>1. job'[g].plan = <<>> /\ job'[g].err = job[g].err
    BY <1>2, <1>3, <1>5, WentIs DEF Went
  <2>2. QED
    BY <1>4, <2>1 DEF MendsUser, Ends
<1>6. CASE Turn(g, <<"drop", "readd">>) /\ UNCHANGED proc
  <2>1. <<"drop", "readd">> \in Seq(StepsOf(job[g].op))
    <3>1. <<"drop", "readd">> \in Seq(ByUser)
      BY DEF ByUser
    <3>2. QED
      BY <3>1, StepsAre
  <2>2. /\ Kept(job[g], job'[g]) /\ job'[g].plan = <<"drop", "readd">>
        /\ job'[g].old = job[g].old /\ job'[g].err = job[g].err
        /\ job'[g].removed = job[g].removed
    BY <1>2, <1>3, <1>6, <2>1, TurnIs DEF Alike
  <2>3. job'[g].op = job[g].op /\ Changed(job[g])' = Changed(job[g])
    BY <2>2, SameUser
  <2>4. UNCHANGED file
    BY <1>2 DEF ChangeUser
  <2>5. Runs(job[g].old)' /\ Noted(job[g])' /\ job'[g].plan = DoDropReadd
    BY <1>4, <1>6, <2>2, <2>3 DEF Runs, Up, Noted, DoDropReadd
  <2>6. QED
    BY <1>4, <2>2, <2>3, <2>4, <2>5 DEF MendsUser
<1>7. QED
  BY <1>2, <1>5, <1>6 DEF ChangeUser

\* A reload that fails once, and one that fails again.
LEMMA UserFails ==
    ASSUME Base, NEW g \in Goroutines, job[g].op \in UserOps, Mends(job[g]),
           job[g].plan # <<>>, ReloadFails(g)
    PROVE  /\ job'[g].old = job[g].old /\ job'[g].err = TRUE /\ job'[g].at = job[g].at
           /\ Changed(job[g])' = Changed(job[g]) /\ Without(job[g])' = Without(job[g])
           /\ There(job[g])' = There(job[g])
           /\ ~ job[g].err /\ Noted(job[g]) => job'[g].plan = DoRevertDropReadd
           /\ job[g].err => job'[g].plan = <<>>
<1>1. JobsOK /\ disturbed \in BOOLEAN
  BY UserHas, TypesAre DEF Base, Types
<1>2. /\ Kept(job[g], job'[g]) /\ job'[g].old = job[g].old /\ job'[g].err = TRUE
      /\ \/ job'[g].plan = <<>> /\ (job[g].err \/ ~ Noted(job[g]))
         \/ job'[g].plan = DoRevertDropReadd /\ ~ job[g].err
  BY <1>1, ReloadFailsIs DEF Alike, Noted, DoRevertDropReadd
<1>3. QED
  BY <1>2, SameUser

LEMMA UserGoes ==
    ASSUME Base, NEW g \in Goroutines, job[g].op \in UserOps, Mends(job[g]),
           job[g].plan # <<>>, Next1(g)
    PROVE  /\ job'[g].old = job[g].old /\ job'[g].at = job[g].at
           /\ job'[g].err = job[g].err /\ job'[g].plan = Tail(job[g].plan)
           /\ Changed(job[g])' = Changed(job[g]) /\ Without(job[g])' = Without(job[g])
           /\ There(job[g])' = There(job[g]) /\ (Noted(job[g])' <=> Noted(job[g]))
<1>1. JobsOK
  BY UserHas
<1>2. /\ Kept(job[g], job'[g]) /\ job'[g].old = job[g].old /\ job'[g].err = job[g].err
      /\ job'[g].plan = Tail(job[g].plan) /\ job'[g].removed = job[g].removed
  BY <1>1, WentIs DEF Went, Alike
<1>3. QED
  BY <1>2, SameUser DEF Noted

LEMMA UserChanged ==
    ASSUME Base, NEW g \in Goroutines, job[g].op \in UserOps, Mends(job[g]),
           job[g].plan # <<>>
    PROVE  /\ There(job[g]) \in BOOLEAN
           /\ Changed(job[g]) \in [Tags -> Contents]
           /\ Changed(job[g])[job[g].tag].there = There(job[g])
           /\ Sound(Changed(job[g])[job[g].tag])
           /\ Without(job[g])[job[g].tag] = NoInbound
           /\ Put(Without(job[g]), job[g].tag, job[g].old[job[g].tag]) = job[g].old
<1>1. PICK o \in [Tags -> Contents], t \in Tags : o = job[g].old /\ t = job[g].tag
  BY UserHas
<1>2. o[t].there \in BOOLEAN
  BY DEF Contents
<1>3. There(job[g]) \in BOOLEAN
  BY <1>1, <1>2 DEF There
<1>4. QED
  BY <1>3, UserHas, ChangedIs

\* The inbound is served or not.
LEMMA RunsServes ==
    ASSUME Base, NEW x, Runs(x), NEW t
    PROVE  Serves(t) <=> x[t].there
BY RunsAlone DEF Serves, Runs

LEMMA UserDrops ==
    ASSUME Base, NEW g \in Goroutines, job[g].op \in UserOps, Mends(job[g]),
           job[g].plan = DoDropReadd, Manage(g) \/ Change(g)
    PROVE  MendsUser(job[g])'
<1> DEFINE t == job[g].tag
<1>1. job[g].plan # <<>> /\ Tail(job[g].plan) = DoReadd /\ Drop(g)
  BY UserPlans, ByHead DEF Is, At
<1>2. MendsUser(job[g])
  BY <1>1, UserHas
<1>3. \/ ~ job[g].err /\ Noted(job[g]) /\ file.in = Changed(job[g]) /\ Runs(job[g].old)
      \/ job[g].err /\ file.in = job[g].old /\ Out(job[g])
  <2>1. /\ job[g].plan # DoLookEdit(StepOf(job[g].op)) /\ job[g].plan # DoEditThen(StepOf(job[g].op))
        /\ job[g].plan # DoReadd /\ job[g].plan # DoRevertDropReadd
    BY UserPlans, StepIs DEF Is
  <2>2. QED
    BY <1>1, <1>2, <2>1 DEF MendsUser, Ends
<1>4. file.in[t].there = There(job[g]) /\ There(job[g]) \in BOOLEAN
  BY <1>1, <1>3, UserChanged DEF There
<1>5. UNCHANGED <<file, faults>>
  BY <1>1 DEF Drop
<1>6. CASE There(job[g])
  <2>1. Next1(g) /\ IF Serves(t) THEN Serve(t, NoInbound) ELSE UNCHANGED proc
    BY <1>1, <1>4, <1>6 DEF Drop
  <2>2. /\ job'[g].old = job[g].old /\ job'[g].at = job[g].at /\ job'[g].err = job[g].err
        /\ job'[g].plan = DoReadd /\ Changed(job[g])' = Changed(job[g])
        /\ Without(job[g])' = Without(job[g]) /\ There(job[g])'
        /\ (Noted(job[g])' <=> Noted(job[g]))
    BY <1>1, <1>6, <2>1, UserGoes
  <2>3. CASE ~ job[g].err
    <3>1. Serve(t, NoInbound)
      <4>1. job[g].old[t].there
        BY <1>6 DEF There
      <4>2. Serves(t)
        BY <1>3, <2>3, <4>1, RunsServes
      <4>3. QED
        BY <2>1, <4>2
    <3>2. Runs(Without(job[g]))'
      <4>1. PICK o, s : o = job[g].old /\ s = job[g].tag
        OBVIOUS
      <4>2. Serve(s, NoInbound) /\ Runs(o)
        BY <1>3, <2>3, <3>1, <4>1
      <4>3. Runs(Put(o, s, NoInbound))'
        BY <4>2, RunsServed
      <4>4. Put(o, s, NoInbound) = Without(job[g])'
        BY <2>2, <4>1 DEF Without
      <4>5. QED
        BY <4>3, <4>4
    <3>3. QED
      BY <1>3, <1>5, <2>2, <2>3, <3>2 DEF MendsUser
  <2>4. CASE job[g].err
    <3>1. Hit(job[g]) /\ Runs(Without(job[g])) /\ file.in = job[g].old
      BY <1>3, <1>6, <2>4 DEF Out
    <3>2. ~ Serves(t)
      <4>1. Without(job[g])[t] = NoInbound
        BY <1>1, UserChanged
      <4>2. QED
        BY <3>1, <4>1, RunsServes DEF NoInbound
    <3>3. UNCHANGED proc
      BY <2>1, <3>2
    <3>4. Runs(Without(job[g]))' /\ Hit(job[g])'
      BY <1>5, <2>2, <3>1, <3>3 DEF Runs, Up, Hit
    <3>5. QED
      BY <1>5, <2>2, <2>4, <3>1, <3>4 DEF MendsUser
  <2>5. QED
    BY <2>3, <2>4
<1>7. CASE ~ There(job[g])
  <2>1. ReloadFails(g) /\ UNCHANGED proc
    BY <1>1, <1>4, <1>7 DEF Drop
  <2>2. /\ job'[g].old = job[g].old /\ job'[g].err = TRUE
        /\ Changed(job[g])' = Changed(job[g]) /\ ~ There(job[g])'
        /\ ~ job[g].err /\ Noted(job[g]) => job'[g].plan = DoRevertDropReadd
        /\ job[g].err => job'[g].plan = <<>>
    BY <1>1, <1>7, <2>1, UserFails
  <2>3. Runs(job[g].old) => Runs(job[g].old)'
    BY <2>1, <2>2 DEF Runs, Up
  <2>4. CASE ~ job[g].err
    <3>1. Out(job[g])'
      BY <1>3, <2>2, <2>3, <2>4 DEF Out
    <3>2. QED
      BY <1>3, <1>5, <2>2, <2>4, <3>1 DEF MendsUser
  <2>5. CASE job[g].err
    <3>1. AsWas(job[g])'
      BY <1>3, <1>5, <1>7, <2>2, <2>3, <2>5 DEF Out, AsWas
    <3>2. QED
      BY <2>2, <2>5, <3>1 DEF MendsUser, Ends
  <2>6. QED
    BY <2>4, <2>5
<1>8. QED
  BY <1>6, <1>7

LEMMA UserReadds ==
    ASSUME Base, NEW g \in Goroutines, job[g].op \in UserOps, Mends(job[g]),
           job[g].plan = DoReadd, Manage(g) \/ Change(g)
    PROVE  MendsUser(job[g])'
<1> DEFINE t == job[g].tag
<1>1. job[g].plan # <<>> /\ Tail(job[g].plan) = <<>> /\ ReAdd(g)
  BY UserPlans, ByHead DEF Is, At
<1>2. /\ MendsUser(job[g]) /\ faults \in Nat /\ job[g].at \in Nat /\ job[g].at <= faults
      /\ Sound(job[g].old[t])
  BY <1>1, UserHas
<1>3. /\ There(job[g]) /\ Runs(Without(job[g]))
      /\ \/ ~ job[g].err /\ Noted(job[g]) /\ file.in = Changed(job[g])
         \/ job[g].err /\ Hit(job[g]) /\ file.in = job[g].old
  <2>1. /\ job[g].plan # DoLookEdit(StepOf(job[g].op)) /\ job[g].plan # DoEditThen(StepOf(job[g].op))
        /\ job[g].plan # DoRevertDropReadd /\ job[g].plan # DoDropReadd
    BY UserPlans, StepIs DEF Is
  <2>2. job[g].plan # DoOnly(StepOf(job[g].op))
    BY UserPlans, StepIs DEF Is
  <2>3. QED
    BY <1>1, <1>2, <2>1, <2>2 DEF MendsUser, Ends
<1>4. Up # {} /\ ~ Serves(t) /\ Sound(file.in[t])
  <2>1. Without(job[g])[t] = NoInbound /\ Sound(Changed(job[g])[t])
    BY <1>1, UserChanged
  <2>2. Up # {} /\ ~ Serves(t)
    BY <1>3, <2>1, RunsAlone, RunsServes DEF NoInbound
  <2>3. QED
    BY <1>2, <1>3, <2>1, <2>2
<1>5. UNCHANGED file
  BY <1>1 DEF ReAdd
<1>6. CASE Next1(g) /\ Serve(t, file.in[t])
  <2>1. job'[g].old = job[g].old /\ job'[g].err = job[g].err /\ job'[g].plan = <<>>
    BY <1>1, <1>6, UserGoes
  <2>2. CASE ~ job[g].err
    BY <2>1, <2>2 DEF MendsUser, Ends
  <2>3. CASE job[g].err
    <3>1. PICK o, s, w : o = job[g].old /\ s = job[g].tag /\ w = Without(job[g])
      OBVIOUS
    <3>2. PICK x : x = o[s]
      OBVIOUS
    <3>3. Serve(s, x) /\ Runs(w)
      BY <1>3, <1>6, <2>3, <3>1, <3>2
    <3>4. Runs(Put(w, s, x))'
      BY <3>3, RunsServed
    <3>5. Put(w, s, x) = o
      BY <1>1, <3>1, <3>2, UserChanged
    <3>6. AsWas(job[g])'
      BY <1>3, <1>5, <2>1, <2>3, <3>1, <3>4, <3>5 DEF AsWas
    <3>7. QED
      BY <2>1, <3>6 DEF MendsUser, Ends
  <2>4. QED
    BY <2>2, <2>3
<1>7. CASE Fault /\ ReloadFails(g) /\ UNCHANGED proc
  <2>1. /\ job'[g].old = job[g].old /\ job'[g].err = TRUE /\ job'[g].at = job[g].at
        /\ Changed(job[g])' = Changed(job[g]) /\ Without(job[g])' = Without(job[g])
        /\ There(job[g])' = There(job[g])
        /\ ~ job[g].err /\ Noted(job[g]) => job'[g].plan = DoRevertDropReadd
        /\ job[g].err => job'[g].plan = <<>>
    BY <1>1, <1>7, UserFails
  <2>2. Hit(job[g])' /\ (Hit(job[g]) => HitTwice(job[g])')
    BY <1>2, <1>7, <2>1, HitNext
  <2>3. CASE ~ job[g].err
    <3>1. Runs(Without(job[g]))'
      BY <1>3, <1>7, <2>1 DEF Runs, Up
    <3>2. Out(job[g])'
      BY <1>3, <2>1, <2>2, <3>1 DEF Out
    <3>3. QED
      BY <1>3, <1>5, <2>1, <2>3, <3>2 DEF MendsUser
  <2>4. CASE job[g].err
    BY <1>3, <2>1, <2>2, <2>4 DEF MendsUser, Ends
  <2>5. QED
    BY <2>3, <2>4
<1>8. QED
  BY <1>1, <1>4, <1>6, <1>7 DEF ReAdd

LEMMA UserReverts ==
    ASSUME Base, NEW g \in Goroutines, job[g].op \in UserOps, Mends(job[g]),
           job[g].plan = DoRevertDropReadd, Manage(g) \/ Change(g)
    PROVE  MendsUser(job[g])'
<1>1. job[g].plan # <<>> /\ Tail(job[g].plan) = DoDropReadd /\ Revert(g)
  BY UserPlans, ByHead DEF Is, At
<1>2. /\ MendsUser(job[g]) /\ FileTyped /\ JobOK(job[g]) /\ Sound(job[g].old[job[g].tag])
      /\ job[g].op = "addUser" => job[g].old[job[g].tag].n[job[g].user] = 0
      /\ job[g].op = "removeUser" => job[g].old[job[g].tag].n[job[g].user] = 1
  BY <1>1, UserHas
<1>3. job[g].err /\ file.in = Changed(job[g]) /\ Out(job[g])
  <2>1. /\ job[g].plan # DoLookEdit(StepOf(job[g].op)) /\ job[g].plan # DoEditThen(StepOf(job[g].op))
        /\ job[g].plan # DoReadd /\ job[g].plan # DoDropReadd
    BY UserPlans, StepIs DEF Is
  <2>2. job[g].plan # DoOnly(StepOf(job[g].op))
    BY UserPlans, StepIs DEF Is
  <2>3. QED
    BY <1>1, <1>2, <2>1, <2>2 DEF MendsUser, Ends
<1>4. PICK t \in Tags, u \in Users : t = job[g].tag /\ u = job[g].user
  BY <1>2 DEF JobOK, ChangeOps
<1>5. PICK x \in Contents : x = file.in[t]
  BY <1>2, FileParts
<1>6. PICK n \in Nat : n = IF job[g].op = "addUser" THEN 0 ELSE x.n[u] + 1
  <2>1. x.n[u] + 1 \in Nat /\ 0 \in Nat
    BY DEF Contents
  <2>2. QED
    BY <2>1
<1>7. PICK y \in Contents : y = Entries(x, u, n)
  BY EntriesOK
<1>8. file' = [file EXCEPT !.in[t] = y]
  BY <1>1, <1>4, <1>5, <1>6, <1>7 DEF Revert
<1>9. file'.in = Put(file.in, t, y)
  BY <1>2, <1>8, FilePut DEF Put
<1>10. Put(file.in, t, y) = job[g].old
  <2> DEFINE c == Changed(job[g])
  <2>1. /\ job[g].op = "addUser" =>
             Put(c, job[g].tag, Entries(c[job[g].tag], job[g].user, 0)) = job[g].old
        /\ job[g].op = "removeUser" =>
             Put(c, job[g].tag, Entries(c[job[g].tag], job[g].user,
                                        c[job[g].tag].n[job[g].user] + 1)) = job[g].old
    BY <1>2, ChangedIs
  <2>2. c = file.in /\ c[job[g].tag] = x
    BY <1>3, <1>4, <1>5
  <2> HIDE DEF c
  <2>3. job[g].op = "addUser" => Entries(x, u, 0) = y
    BY <1>6, <1>7
  <2>4. job[g].op = "removeUser" => Entries(x, u, x.n[u] + 1) = y
    <3>1. job[g].op = "removeUser" => n = x.n[u] + 1
      BY <1>6
    <3>2. QED
      BY <1>7, <3>1
  <2>5. job[g].op = "addUser" => Put(file.in, t, y) = job[g].old
    BY <1>4, <2>1, <2>2, <2>3
  <2>6. job[g].op = "removeUser" => Put(file.in, t, y) = job[g].old
    BY <1>4, <2>1, <2>2, <2>4
  <2>7. QED
    BY <2>5, <2>6 DEF UserOps
<1>11. /\ job'[g].old = job[g].old /\ job'[g].at = job[g].at /\ job'[g].err = job[g].err
       /\ job'[g].plan = DoDropReadd
       /\ Without(job[g])' = Without(job[g]) /\ There(job[g])' = There(job[g])
  BY <1>1, UserGoes DEF Revert
<1>12. UNCHANGED <<proc, faults>>
  BY <1>1 DEF Revert
<1>13. /\ Hit(job[g])' <=> Hit(job[g])
       /\ Runs(Without(job[g]))' <=> Runs(Without(job[g]))
       /\ Runs(job[g].old)' <=> Runs(job[g].old)
  BY <1>11, <1>12 DEF Hit, Runs, Up
<1>14. Out(job[g])'
  BY <1>3, <1>11, <1>13 DEF Out
<1>15. QED
  BY <1>3, <1>9, <1>10, <1>11, <1>14 DEF MendsUser

LEMMA UserMends ==
    ASSUME Base, NEW g \in Goroutines, job[g].op \in UserOps, Mends(job[g]),
           job[g].plan # <<>>, Manage(g) \/ Change(g)
    PROVE  MendsUser(job[g])'
<1>1. MendsUser(job[g])
  BY UserHas
<1>2. job[g].plan \in {DoLookEdit(StepOf(job[g].op)), DoEditThen(StepOf(job[g].op)),
                       DoOnly(StepOf(job[g].op)), DoDropReadd, DoReadd, DoRevertDropReadd}
  BY <1>1 DEF MendsUser, Ends
<1>3. QED
  BY <1>2, UserLooks, UserEdits, UserServes, UserDrops, UserReadds, UserReverts
-----------------------------------------------------------------------------
(* A step of a goroutine that nothing has overlapped, and of the others.    *)

\* What every step of a goroutine that goes on leaves as it is.
LEMMA StepGoes ==
    ASSUME PInv, NEW g \in Goroutines, Manage(g) \/ Change(g)
    PROVE  /\ job[g].plan # <<>> /\ Moved(g) /\ Kept(job[g], job'[g])
           /\ job'[g].fit => job[g].fit
           /\ job[g].op # "apply" => job'[g].old = job[g].old
           /\ UNCHANGED faults \/ Fault
<1>1. /\ Base /\ Types /\ JobsOK /\ Shaped(job[g]) /\ JobOK(job[g]) /\ disturbed \in BOOLEAN
  BY Usable
<1>2. PICK s : At(g, s)
  BY DEF Manage, Change, Start, Stop, Settle, Look, Verify, Write, Launch, Back, Copy,
         Prepare, Edit, Revert, AddInbound, RemoveInbound, ChangeUser, Drop, ReAdd
<1>3. job[g].plan # <<>>
  BY <1>2 DEF At
<1> DEFINE Fine == /\ Moved(g) /\ Kept(job[g], job'[g])
                   /\ job'[g].fit => job[g].fit
                   /\ job[g].op # "apply" => job'[g].old = job[g].old
<1>4. ASSUME Next1(g) \/ \E x : Fails(g, x) PROVE Fine
  <2>1. CASE Next1(g)
    BY <1>1, <1>3, <2>1, NextIs DEF Alike
  <2>2. ASSUME NEW x, Fails(g, x) PROVE Fine
    BY <1>1, <1>3, <2>2, FailsIs DEF Alike
  <2>3. QED
    BY <1>4, <2>1, <2>2
<1>5. ASSUME NEW p \in Seq(StepsOf(job[g].op)), Turn(g, p) PROVE Fine
  BY <1>1, <1>3, <1>5, TurnIs DEF Alike
<1>6. CASE Start(g) \/ Stop(g) \/ Settle(g) \/ Look(g) \/ Verify(g) \/ Back(g) \/ Revert(g)
           \/ AddInbound(g) \/ RemoveInbound(g)
           \/ \E x \in {"download", "backup", "replace"} : Copy(g, x)
  <2>1. Next1(g) \/ \E x : Fails(g, x)
    BY <1>6 DEF Start, Stop, Settle, Look, Verify, Back, Revert, AddInbound, RemoveInbound, Copy
  <2>2. UNCHANGED faults \/ Fault
    BY <1>6 DEF Start, Stop, Settle, Look, Verify, Back, Revert, AddInbound, RemoveInbound, Copy
  <2>3. QED
    BY <1>3, <1>4, <2>1, <2>2
<1>7. CASE Write(g)
  <2>1. job[g].op = "apply"
    BY <1>1, <1>3, <1>7, ApplyOnly DEF Write
  <2>2. QED
    BY <1>1, <1>3, <1>7, <2>1, WriteIs DEF Write
<1>8. CASE Launch(g)
  <2>1. job[g].op = "apply"
    BY <1>1, <1>3, <1>8, ApplyOnly DEF Launch
  <2>2. /\ <<"stop", "settle", "start", "settle", "verify">> \in Seq(Applying)
        /\ <<"start", "settle", "verify">> \in Seq(Applying)
    BY DEF Applying, Plain
  <2>3. StepsOf(job[g].op) = Applying
    BY <2>1, StepsAre
  <2>4. Fine
    BY <1>5, <1>8, <2>2, <2>3 DEF Launch
  <2>5. QED
    BY <1>3, <1>8, <2>4 DEF Launch
<1>9. CASE Prepare(g)
  <2>1. job[g].op \in ChangeOps
    BY <1>1, <1>9, ChangeStep DEF Prepare
  <2>2. job[g].op \in InboundOps
    <3>1. "prepare" \in StepsOf(job[g].op)
      BY <1>1, <1>3, <1>9, HasPlan DEF Prepare, At
    <3>2. "prepare" \notin ByUser
      BY DEF ByUser
    <3>3. QED
      BY <2>1, <3>1, <3>2, StepsAre DEF ChangeOps
  <2>3. /\ <<"adi", "edit">> \in Seq(ByTag)
        /\ <<"edit", "start", "settle", "verify">> \in Seq(ByTag)
    BY DEF ByTag, Applying, Plain
  <2>4. StepsOf(job[g].op) = ByTag
    BY <2>2, StepsAre
  <2>5. Fine
    BY <1>5, <1>9, <2>3, <2>4 DEF Prepare
  <2>6. QED
    BY <1>3, <1>9, <2>5 DEF Prepare
<1>10. CASE Edit(g)
  BY <1>1, <1>3, <1>10, EditIs DEF Edit
<1>11. ASSUME NEW step \in {"adu", "rmu"}, ChangeUser(g, step)
       PROVE  Fine /\ UNCHANGED faults
  <2>1. job[g].op \in UserOps
    BY <1>1, <1>11, ChangeStep DEF ChangeUser
  <2>2. <<"drop", "readd">> \in Seq(ByUser)
    BY DEF ByUser
  <2>3. StepsOf(job[g].op) = ByUser
    BY <2>1, StepsAre
  <2>4. Fine
    BY <1>4, <1>5, <1>11, <2>2, <2>3 DEF ChangeUser
  <2>5. QED
    BY <1>11, <2>4 DEF ChangeUser
<1>12. CASE Drop(g) \/ ReAdd(g)
  <2>1. job[g].op \in UserOps
    BY <1>1, <1>12, ChangeStep DEF Drop, ReAdd
  <2>2. Next1(g) \/ ReloadFails(g)
    BY <1>12 DEF Drop, ReAdd
  <2>3. ReloadFails(g) => Fine
    BY <1>1, <1>3, <2>1, ReloadFailsIs DEF Alike
  <2>4. Fine
    BY <1>4, <2>2, <2>3
  <2>5. UNCHANGED faults \/ Fault
    BY <1>12 DEF Drop, ReAdd
  <2>6. QED
    BY <1>3, <2>4, <2>5
<1>13. QED
  <2>1. CASE Manage(g)
    BY <2>1, <1>6, <1>7, <1>8 DEF Manage
  <2>2. CASE Change(g)
    BY <2>2, <1>3, <1>6, <1>9, <1>10, <1>11, <1>12 DEF Change
  <2>3. QED
    BY <2>1, <2>2

\* A request to stop only stops.
LEMMA StopMends ==
    ASSUME Base, NEW g \in Goroutines, job[g].op = "stop", Mends(job[g]), job[g].plan # <<>>,
           Manage(g) \/ Change(g)
    PROVE  job'[g].plan = <<>> /\ ~ job'[g].err
<1>1. JobsOK /\ job[g].plan = DoStop /\ ~ job[g].err
  BY NextNumbers DEF Base, Mends
<1>2. Is(DoStop, "stop", <<>>)
  BY Tail1 DEF DoStop
<1>3. Stop(g) /\ Tail(job[g].plan) = <<>>
  BY <1>1, <1>2, ByHead DEF Is, At
<1>4. QED
  BY <1>1, <1>3, NextIs DEF Stop

LEMMA StepMends ==
    ASSUME PInv, NEW g \in Goroutines, Mends(job[g]), Manage(g) \/ Change(g), job'[g].fit
    PROVE  Mends(job[g])'
<1>1. /\ Base /\ job[g].plan # <<>> /\ JobOK(job[g]) /\ faults \in Nat /\ job[g].at \in Nat
      /\ job[g].at <= faults /\ \A t \in Tags : Sound(job[g].old[t])
  BY StepGoes, NextNumbers DEF PInv, Base, Mends
<1>2. /\ job'[g].op = job[g].op /\ job'[g].tag = job[g].tag /\ job'[g].user = job[g].user
      /\ job'[g].at = job[g].at /\ (job[g].op # "apply" => job'[g].old = job[g].old)
      /\ UNCHANGED faults \/ Fault
  BY StepGoes DEF Kept
<1>3. job'[g].at <= faults'
  BY <1>1, <1>2, HitNext
<1>4. \A t \in Tags : Sound(job'[g].old[t])
  <2>1. CASE job[g].op = "apply"
    BY <1>1, <2>1, ApplyMends
  <2>2. CASE job[g].op # "apply"
    BY <1>1, <1>2, <2>2
  <2>3. QED
    BY <2>1, <2>2
<1>5. job'[g].op = "stop" => job'[g].plan \in {DoStop, <<>>} /\ ~ job'[g].err
  BY <1>1, <1>2, StopMends
<1>6. job'[g].op = "switch" => MendsSwitch(job[g])'
  BY <1>1, <1>2, SwitchMends
<1>7. job'[g].op = "apply" => MendsApply(job[g])'
  BY <1>1, <1>2, ApplyMends
<1>8. job'[g].op = "addInbound" => MendsInbound(job[g], {DoPrepare, DoAdiEdit})'
  BY <1>1, <1>2, AddInboundMends
<1>9. job'[g].op = "removeInbound" => MendsInbound(job[g], {DoLookRmiEdit, DoRmiEdit})'
  BY <1>1, <1>2, RemoveInboundMends
<1>10. job'[g].op = "addUser" =>
         MendsUser(job[g])' /\ job'[g].old[job'[g].tag].n[job'[g].user] = 0
  <2>1. job[g].op = "addUser" => job[g].old[job[g].tag].n[job[g].user] = 0
    BY DEF Mends
  <2>2. QED
    BY <1>1, <1>2, <2>1, UserMends DEF UserOps
<1>11. job'[g].op = "removeUser" =>
         MendsUser(job[g])' /\ job'[g].old[job'[g].tag].n[job'[g].user] = 1
  <2>1. job[g].op = "removeUser" => job[g].old[job[g].tag].n[job[g].user] = 1
    BY DEF Mends
  <2>2. QED
    BY <1>1, <1>2, <2>1, UserMends DEF UserOps
<1>12. QED
  BY <1>3, <1>4, <1>5, <1>6, <1>7, <1>8, <1>9, <1>10, <1>11 DEF Mends

\* Nobody is served twice: Xray refuses the file, and nothing else adds a second entry.
LEMMA SameSound ==
    ASSUME UpSound, \A p \in Up' : p \in Up /\ proc'[p].in = proc[p].in
    PROVE  UpSound'
BY DEF UpSound

LEMMA ServeSound ==
    ASSUME Base, UpSound, NEW t \in Tags, NEW x, Serve(t, x), Sound(x)
    PROVE  UpSound'
<1>1. Up' = Up /\ \A p \in Up : proc'[p].in = Put(proc[p].in, t, x)
  BY ServesIt
<1>2. \A p \in Up : proc[p].in \in [Tags -> Contents]
  BY TypesAre DEF Base, Types, ProcTyped, Up
<1>3. ASSUME NEW p \in Up, NEW s \in Tags PROVE Sound(proc'[p].in[s])
  <2>1. PICK f \in [Tags -> Contents] : f = proc[p].in
    BY <1>2
  <2>2. Put(f, t, x)[s] = IF s = t THEN x ELSE f[s]
    BY DEF Put
  <2>3. proc'[p].in[s] = IF s = t THEN x ELSE proc[p].in[s]
    BY <1>1, <2>1, <2>2
  <2>4. QED
    BY <2>3 DEF UpSound
<1>4. QED
  BY <1>1, <1>3 DEF UpSound

LEMMA UserSound ==
    ASSUME Base, UpSound, NEW t \in Tags, NEW u \in Users, NEW p \in Up, NEW n \in {0, 1},
           proc' = [proc EXCEPT ![p].in[t].n[u] = n]
    PROVE  UpSound'
<1>2. p \in Procs /\ ProcTyped
  BY TypesAre DEF Base, Types, Up
<1>3. PICK f \in [Tags -> Contents] : f = proc[p].in
  BY <1>2 DEF ProcTyped
<1>4. PICK x \in Contents : x = f[t]
  OBVIOUS
<1>5. Sound(Counted(x, u, n))
  <2>1. Sound(x)
    BY <1>3, <1>4 DEF UpSound
  <2>2. n \in 0..2 /\ n <= 1
    OBVIOUS
  <2>3. QED
    BY <2>1, <2>2, CountedBack
<1>6. PICK y : y = Put(f, t, Counted(x, u, n))
  OBVIOUS
<1>7. proc' = [proc EXCEPT ![p].in = y]
  <2>1. proc' = [proc EXCEPT ![p].in = [proc[p].in EXCEPT ![t].n[u] = n]]
    BY <1>2 DEF Base, IInv, ProcOK
  <2>2. [f EXCEPT ![t].n[u] = n] = y
    BY <1>4, <1>6 DEF Put, Counted
  <2>3. QED
    BY <1>3, <2>1, <2>2
<1>8. proc'[p].in = y
  BY <1>2, <1>7, ServedIn DEF Base, IInv
<1>9. Up' = Up /\ \A q \in Up : q = p
  BY UpAfterUser, OneUp
<1>10. \A s \in Tags : y[s] = IF s = t THEN Counted(x, u, n) ELSE f[s]
  BY <1>6 DEF Put
<1>11. \A s \in Tags : Sound(y[s])
  BY <1>3, <1>5, <1>10 DEF UpSound
<1>12. QED
  BY <1>8, <1>9, <1>11 DEF UpSound

LEMMA SpawnSound ==
    ASSUME Base, UpSound, ~ running, NEW p \in Procs, NEW s, Spawn(p, s),
           s = "up" => ~ Refused
    PROVE  UpSound'
<1>1. proc'[p] = [state |-> s, in |-> file.in] /\ \A q \in Procs : q # p => proc'[q] = proc[q]
  BY DEF Spawn, Base, IInv, ProcOK
<1>2. Up = {}
  BY OneUp
<1>3. \A q \in Up' : q = p /\ s = "up"
  BY <1>1, <1>2 DEF Up
<1>4. QED
  BY <1>1, <1>3 DEF UpSound, Refused

LEMMA UpSoundKept ==
    ASSUME Base, UpSound, [Next]_vars
    PROVE  UpSound'
<1>1. ASSUME UNCHANGED proc PROVE UpSound'
  BY <1>1, SameSound DEF Up
<1>2. CASE Command \/ Switch
  BY <1>1, <1>2 DEF Command, Switch, Begin
<1>3. ASSUME NEW g \in Goroutines, Start(g) PROVE UpSound'
  <2>1. CASE UNCHANGED proc
    BY <1>1, <2>1
  <2>2. CASE ~ running /\ \E p \in Procs, s \in {"up", "doomed"} :
                            Spawn(p, s) /\ (s = "up" => ~ Refused)
    BY <2>2, SpawnSound
  <2>3. QED
    BY <1>3, <2>1, <2>2 DEF Start
<1>4. ASSUME NEW p \in Procs, Ended(p) PROVE UpSound'
  <2>1. Up' = Up \ {p} /\ \A q \in Up' : proc'[q] = proc[q]
    BY <1>4, UpAfterEnd
  <2>2. QED
    BY <2>1, SameSound
<1>5. ASSUME NEW g \in Goroutines, Stop(g) PROVE UpSound'
  BY <1>1, <1>4, <1>5 DEF Stop, Alive
<1>6. ASSUME NEW g \in Goroutines, Manage(g) PROVE UpSound'
  BY <1>1, <1>3, <1>5, <1>6 DEF Manage, Settle, Look, Verify, Write, Launch, Back, Copy
<1>7. ASSUME NEW g \in Goroutines, AddInbound(g) PROVE UpSound'
  <2>1. JobOK(job[g]) /\ job[g].tag \in Tags
    BY <1>7, ChangeStep DEF AddInbound, Base, Types
  <2>2. Sound(job[g].new[job[g].tag])
    BY <2>1 DEF JobOK, SoundContents
  <2>3. UNCHANGED proc \/ Serve(job[g].tag, job[g].new[job[g].tag])
    BY <1>7 DEF AddInbound
  <2>4. QED
    BY <1>1, <2>1, <2>2, <2>3, ServeSound
<1>8. Sound(NoInbound)
  BY Rows DEF SoundContents
<1>9. ASSUME NEW g \in Goroutines, RemoveInbound(g) \/ Drop(g) \/ ReAdd(g) PROVE UpSound'
  <2>1. job[g].tag \in Tags
    BY <1>9, ChangeStep DEF RemoveInbound, Drop, ReAdd, Base, Types
  <2>2. \/ UNCHANGED proc \/ Serve(job[g].tag, NoInbound)
        \/ Serve(job[g].tag, file.in[job[g].tag]) /\ Sound(file.in[job[g].tag])
    BY <1>9 DEF RemoveInbound, Drop, ReAdd
  <2>3. QED
    BY <1>1, <1>8, <2>1, <2>2, ServeSound
<1>10. ASSUME NEW g \in Goroutines, NEW step \in {"adu", "rmu"}, ChangeUser(g, step)
       PROVE  UpSound'
  <2>1. job[g].tag \in Tags /\ job[g].user \in Users
    BY <1>10, ChangeStep DEF ChangeUser, Base, Types
  <2>2. CASE ~ UNCHANGED proc
    <3>1. PICK n \in {0, 1} : n = IF step = "adu" THEN 1 ELSE 0
      OBVIOUS
    <3>2. PICK p \in Up : proc' = [proc EXCEPT ![p].in[job[g].tag].n[job[g].user] = n]
      BY <1>10, <2>2, <3>1 DEF ChangeUser
    <3>3. PICK t \in Tags, u \in Users : t = job[g].tag /\ u = job[g].user
      BY <2>1
    <3>4. proc' = [proc EXCEPT ![p].in[t].n[u] = n]
      BY <3>2, <3>3
    <3>5. QED
      BY <3>4, UserSound
  <2>3. QED
    BY <1>1, <2>2
<1>11. ASSUME NEW g \in Goroutines, Change(g) \/ Finish(g) PROVE UpSound'
  BY <1>1, <1>7, <1>9, <1>10, <1>11 DEF Change, Prepare, Edit, Revert, Finish
<1>12. ASSUME NEW p \in Procs, Exit(p) \/ Crash(p) PROVE UpSound'
  BY <1>4, <1>12 DEF Exit, Crash
<1>13. ASSUME NEW p \in Procs, Notice(p) PROVE UpSound'
  <2>1. Up' = Up \ {p} /\ \A q \in Up' : proc'[q] = proc[q]
    BY <1>13, UpAfterEnd DEF Notice
  <2>2. QED
    BY <2>1, SameSound
<1>14. CASE UNCHANGED vars
  BY <1>1, <1>14 DEF vars
<1>15. QED
  BY <1>2, <1>6, <1>11, <1>12, <1>13, <1>14 DEF Next

LEMMA IdleFits == NoJob.fit = FALSE
BY NoJobIs

\* A goroutine goes on: the others that nothing has overlapped do nothing.
LEMMA FGoesOn ==
    ASSUME FInv, PInv', UpSound', NEW g \in Goroutines, Manage(g) \/ Change(g)
    PROVE  FInv'
<1>1. /\ Base /\ JobsOK /\ job[g].plan # <<>> /\ job[g] # NoJob
  BY StepGoes, NextNumbers DEF FInv, PInv, Base
<1>2. /\ Moved(g) /\ Kept(job[g], job'[g]) /\ (job'[g].fit => job[g].fit)
  BY StepGoes DEF FInv
<1>3. /\ job'[g] # NoJob /\ (job'[g].clean <=> job[g].clean)
      /\ \A h \in Goroutines : h # g => job'[h] = job[h]
  BY <1>1, <1>2, KeptBusy DEF Moved, Kept
<1>4. \A h \in Goroutines : job'[h] # NoJob <=> job[h] # NoJob
  BY <1>1, <1>3
<1>5. CleanAlone'
  <2>1. \A h \in Goroutines : Others(h)' => Others(h)
    BY <1>4 DEF Others
  <2>2. \A h \in Goroutines : job'[h].clean => job[h].clean
    BY <1>3
  <2>3. QED
    BY <1>4, <2>1, <2>2 DEF FInv, CleanAlone
<1>6. job'[g].clean /\ job'[g].fit => Mends(job[g])'
  BY <1>2, <1>3, StepMends DEF FInv
<1>7. ASSUME NEW h \in Goroutines, h # g PROVE ~ (job'[h].clean /\ job'[h].fit)
  <2>1. job[h] # NoJob => Others(h) /\ ~ job[h].clean
    BY <1>1, <1>7 DEF FInv, CleanAlone, Others
  <2>2. QED
    BY <1>3, <1>7, <2>1, IdleFits
<1>8. QED
  BY <1>5, <1>6, <1>7 DEF FInv

\* What a job begins with.
LEMMA BeginMends ==
    ASSUME FInv, NEW g \in Goroutines, NEW op, NEW t, NEW u,
           op \in {"apply"} \cup PlainOps \cup ChangeOps, Fits(op, t, u),
           Started(job'[g], op, t, u, job'[g].new), UNCHANGED <<file, proc, running, faults>>
    PROVE  Mends(job[g])'
<1>1. /\ job'[g].op = op /\ job'[g].plan = PlanOf(op) /\ job'[g].old = file.in
      /\ job'[g].err = FALSE /\ job'[g].at = faults /\ job'[g].tag = t /\ job'[g].user = u
  BY DEF Started
<1>2. faults \in Nat
  BY XrayAssumption, TypesAre DEF FInv, PInv, Base, Types
<1>3. Runs(file.in)
  BY DEF Fits, Runs
<1>4. AsWas(job[g])'
  BY <1>1, <1>3 DEF AsWas, Runs, Up
<1>5. \A s \in Tags : Sound(file.in[s])
  BY <1>3 DEF Runs, FInv, UpSound
<1>6. op = "stop" => PlanOf(op) = DoStop
  BY DEF PlanOf, DoStop
<1>7. op = "switch" => MendsSwitch(job[g])'
  <2>1. op = "switch" => PlanOf(op) = DoSwitch
    BY DEF PlanOf, DoSwitch
  <2>2. QED
    BY <1>1, <1>4, <2>1 DEF MendsSwitch
<1>8. op = "apply" => MendsApply(job[g])'
  <2>1. op = "apply" => PlanOf(op) = DoWriteLaunch
    BY DEF PlanOf, DoWriteLaunch
  <2>2. QED
    BY <1>1, <1>4, <2>1 DEF MendsApply
<1>9. op = "addInbound" => MendsInbound(job[g], {DoPrepare, DoAdiEdit})'
  <2>1. op = "addInbound" => PlanOf(op) = DoPrepare
    BY DEF PlanOf, DoPrepare
  <2>2. QED
    BY <1>1, <1>4, <2>1 DEF MendsInbound
<1>10. op = "removeInbound" => MendsInbound(job[g], {DoLookRmiEdit, DoRmiEdit})'
  <2>1. op = "removeInbound" => PlanOf(op) = DoLookRmiEdit
    BY DEF PlanOf, DoLookRmiEdit
  <2>2. QED
    BY <1>1, <1>4, <2>1 DEF MendsInbound
<1>11. op \in UserOps => MendsUser(job[g])'
  <2>1. op \in UserOps => PlanOf(op) = DoLookEdit(StepOf(op))
    BY DEF PlanOf, DoLookEdit, StepOf, UserOps
  <2>2. QED
    BY <1>1, <1>4, <2>1 DEF MendsUser
<1>12. /\ op = "addUser" => file.in[t].n[u] = 0
       /\ op = "removeUser" => file.in[t].n[u] = 1
  BY DEF Fits
<1>13. job'[g].at <= faults'
  BY <1>1, <1>2
<1>14. \A s \in Tags : Sound(job'[g].old[s])
  BY <1>1, <1>5
<1>15. /\ job'[g].op = "addUser" =>
            MendsUser(job[g])' /\ job'[g].old[job'[g].tag].n[job'[g].user] = 0
       /\ job'[g].op = "removeUser" =>
            MendsUser(job[g])' /\ job'[g].old[job'[g].tag].n[job'[g].user] = 1
  BY <1>1, <1>11, <1>12 DEF UserOps
<1>16. QED
  BY <1>1, <1>6, <1>7, <1>8, <1>9, <1>10, <1>13, <1>14, <1>15 DEF Mends

LEMMA FBegins ==
    ASSUME FInv, PInv', UpSound', Command \/ Switch
    PROVE  FInv'
<1>1. PICK g \in Goroutines, op \in {"apply"} \cup PlainOps \cup ChangeOps,
           new \in [Tags -> SoundContents],
           t \in Tags \cup {""}, u \in Users \cup {""} :
        /\ op \in ChangeOps => t \in Tags
        /\ op \in UserOps => u \in Users
        /\ Begin(g, op, t, u, new)
  BY CommandIs
<1>2. Types
  BY DEF FInv, PInv, Base
<1>3. /\ job[g] = NoJob /\ Started(job'[g], op, t, u, new)
      /\ \A h \in Goroutines : h # g => Met(job[h], job'[h])
  BY <1>1, <1>2, BeginIs
<1>4. job'[g].clean <=> ~ Others(g)
  BY <1>1, <1>2, BeginIs
<1>5. job'[g].fit <=> Fits(op, t, u)
  BY <1>1, <1>2, BeginIs
<1>6. ASSUME NEW h \in Goroutines, h # g
      PROVE  /\ job'[h] = NoJob <=> job[h] = NoJob
             /\ job'[h].clean => job'[h] = NoJob
  BY <1>3, <1>6 DEF Met
<1>7. CleanAlone'
  <2>1. job'[g].clean => ~ Others(g)'
    BY <1>4, <1>6 DEF Others
  <2>2. \A h \in Goroutines : h # g => (job'[h] # NoJob => ~ job'[h].clean)
    BY <1>6
  <2>3. QED
    BY <2>1, <2>2 DEF CleanAlone
<1>8. job'[g].fit => Mends(job[g])'
  <2>1. UNCHANGED <<file, proc, running, faults>>
    BY <1>1 DEF Begin
  <2>2. Started(job'[g], op, t, u, job'[g].new)
    BY <1>3 DEF Started
  <2>3. QED
    BY <1>1, <1>5, <2>1, <2>2, BeginMends
<1>9. \A h \in Goroutines : h # g => ~ (job'[h].clean /\ job'[h].fit)
  BY <1>6, IdleFits
<1>10. QED
  BY <1>7, <1>8, <1>9 DEF FInv

LEMMA FFinishes ==
    ASSUME FInv, PInv', UpSound', NEW g \in Goroutines, Finish(g)
    PROVE  FInv'
<1>1. Moved(g) /\ job'[g] = NoJob /\ job[g] # NoJob
  BY FinishIs DEF FInv, PInv, Base, Types
<1>2. \A h \in Goroutines : h # g => job'[h] = job[h]
  BY <1>1 DEF Moved
<1>3. \A h \in Goroutines : h # g => (job[h] # NoJob => ~ job[h].clean)
  BY <1>1 DEF FInv, CleanAlone, Others
<1>4. CleanAlone'
  BY <1>1, <1>2, <1>3 DEF CleanAlone
<1>5. \A h \in Goroutines : ~ (job'[h].clean /\ job'[h].fit)
  BY <1>1, <1>2, <1>3, IdleFits
<1>6. QED
  BY <1>4, <1>5 DEF FInv

\* What the end of another process, and its notice, leave.
LEMMA SameMends ==
    ASSUME NEW g \in Goroutines, UNCHANGED <<file, job, faults>>, Up' = Up,
           running' => running, \A p \in Up : proc'[p].in = proc[p].in, Mends(job[g])
    PROVE  Mends(job[g])'
<1>1. PICK j : j = job[g] /\ j = job'[g]
  OBVIOUS
<1>2. \A x : Runs(x) <=> Runs(x)'
  BY RunsSame
<1>3. (AsWas(j) <=> AsWas(j)') /\ (Hit(j) <=> Hit(j)') /\ (HitTwice(j) <=> HitTwice(j)')
  BY <1>2 DEF AsWas, Hit, HitTwice
<1>4. Ends(j) => Ends(j)'
  BY <1>3 DEF Ends
<1>5. Out(j) => Out(j)'
  BY <1>2, <1>3 DEF Out
<1>6. MendsSwitch(j) => MendsSwitch(j)'
  BY <1>3, <1>4 DEF MendsSwitch
<1>7. MendsApply(j) => MendsApply(j)'
  BY <1>3, <1>4 DEF MendsApply
<1>8. \A plans : MendsInbound(j, plans) => MendsInbound(j, plans)'
  BY <1>3, <1>4 DEF MendsInbound
<1>9. MendsUser(j) => MendsUser(j)'
  BY <1>2, <1>3, <1>4, <1>5 DEF MendsUser
<1>10. Mends(j) => Mends(j)'
  BY <1>6, <1>7, <1>8, <1>9 DEF Mends
<1>11. Mends(j)
  BY <1>1
<1>12. Mends(j)'
  BY <1>10, <1>11
<1>13. Mends(j)' <=> Mends(job[g])'
  BY <1>1
<1>14. QED
  BY <1>12, <1>13

LEMMA FEnds ==
    ASSUME FInv, PInv', UpSound', UNCHANGED <<file, job, faults>>, Up' = Up,
           running' => running, \A p \in Up : proc'[p].in = proc[p].in
    PROVE  FInv'
<1>1. CleanAlone'
  BY DEF FInv, CleanAlone, Others
<1>2. \A g \in Goroutines : job'[g].clean /\ job'[g].fit => Mends(job[g])'
  BY SameMends DEF FInv
<1>3. QED
  BY <1>1, <1>2 DEF FInv

LEMMA FInvKept == ASSUME Prompt PROVE FInv /\ [Next]_vars => FInv'
<1> SUFFICES ASSUME FInv, [Next]_vars PROVE FInv'
  OBVIOUS
<1>1. Base /\ JobsOK /\ PInv' /\ UpSound'
  BY KnowsKept, UpSoundKept DEF FInv, PInv, Base, Types
<1>2. CASE Command \/ Switch
  BY <1>1, <1>2, FBegins
<1>3. ASSUME NEW g \in Goroutines, Manage(g) \/ Change(g) PROVE FInv'
  BY <1>1, <1>3, FGoesOn
<1>4. ASSUME NEW g \in Goroutines, Finish(g) PROVE FInv'
  BY <1>1, <1>4, FFinishes
<1>5. ASSUME NEW p \in Procs, Exit(p) \/ Notice(p) PROVE FInv'
  <2>1. Up' = Up \ {p} /\ \A q \in Up' : proc'[q] = proc[q]
    BY <1>1, <1>5, UpAfterEnd DEF Exit, Notice
  <2>2. p \notin Up
    BY <1>5 DEF Exit, Notice, Up
  <2>3. UNCHANGED <<file, job, faults>> /\ (running' => running)
    BY <1>5 DEF Exit, Notice
  <2>4. Up' = Up /\ \A q \in Up : proc'[q].in = proc[q].in
    BY <2>1, <2>2
  <2>5. QED
    BY <1>1, <2>3, <2>4, FEnds
<1>6. ASSUME NEW p \in Procs, Crash(p) PROVE FInv'
  <2>1. \A g \in Goroutines : job'[g].clean => job'[g] = NoJob
    BY <1>1, <1>6, CrashIs DEF Met
  <2>2. CleanAlone'
    BY <2>1 DEF CleanAlone
  <2>3. QED
    BY <1>1, <2>1, <2>2, IdleFits DEF FInv
<1>7. CASE UNCHANGED vars
  BY <1>1, <1>7, FEnds DEF vars, Up
<1>8. QED
  BY <1>2, <1>3, <1>4, <1>5, <1>6, <1>7 DEF Next

LEMMA FInvInit == Init => FInv
<1> SUFFICES ASSUME Init PROVE FInv
  OBVIOUS
<1>1. \A g \in Goroutines : job[g] = NoJob
  BY DEF Init
<1>2. CleanAlone
  BY <1>1 DEF CleanAlone
<1>3. UpSound
  BY DEF Init, UpSound, Up
<1>4. \A g \in Goroutines : ~ job[g].fit
  BY <1>1, IdleFits
<1>5. QED
  BY <1>2, <1>3, <1>4, KnowsInit DEF FInv

\* With nothing left to do only the last alternative holds.
LEMMA MendsEnd ==
    ASSUME NEW j, Mends(j), j.plan = <<>>, j.op \in {"apply"} \cup PlainOps \cup ChangeOps,
           j.op \notin {"start", "restart"}, j.err
    PROVE  Ends(j)
<1>1. j.op # "stop"
  BY DEF Mends
<1>2. j.op = "switch" => Ends(j)
  BY SwitchPlans DEF Mends, MendsSwitch, Is
<1>3. j.op = "apply" => Ends(j)
  BY ApplyPlans DEF Mends, MendsApply, Is
<1>4. j.op \in InboundOps => Ends(j)
  BY InboundPlans DEF Mends, MendsInbound, Is, InboundOps
<1>5. j.op \in UserOps => Ends(j)
  BY UserPlans DEF Mends, MendsUser, Is, UserOps
<1>6. QED
  BY <1>1, <1>2, <1>3, <1>4, <1>5 DEF PlainOps, ChangeOps

LEMMA FailureFollows == FInv => FailureKeeps
<1> SUFFICES ASSUME FInv, NEW g \in Goroutines, job[g].err, job[g].plan = <<>>,
                    job[g].clean, job[g].fit, faults - job[g].at <= 1,
                    job[g].op \notin {"start", "restart"}
             PROVE  file.in = job[g].old /\ \E p \in Up : proc[p].in = job[g].old
  BY DEF FailureKeeps
<1>1. JobOK(job[g]) /\ faults \in 0..MaxFaults
  BY TypesAre DEF FInv, PInv, Base, Types, JobsOK
<1>2. job[g] # NoJob
  BY IdleFits
<1>3. job[g].op \in {"apply"} \cup PlainOps \cup ChangeOps
  BY <1>1, <1>2, BusyByOp, OpKnown
<1>4. Ends(job[g])
  BY <1>3, MendsEnd DEF FInv
<1>5. ~ HitTwice(job[g])
  BY <1>1, XrayAssumption DEF HitTwice, JobOK
<1>6. QED
  BY <1>4, <1>5 DEF Ends, AsWas, Runs

\* A command, or a change of the version, that fails although one thing at most went wrong
\* leaves file and process as they were, whatever the process before it did, if nothing
\* overlapped it and the old binary could be saved (manager.go:489-530, 681-849).
THEOREM FailureHarmless == ASSUME Prompt PROVE Spec => []FailureKeeps
<1>1. FInv => FailureKeeps
  BY FailureFollows
<1>2. FInv /\ [Next]_vars => FInv'
  BY FInvKept
<1>3. QED
  BY FInvInit, <1>1, <1>2, PTL DEF Spec
=============================================================================

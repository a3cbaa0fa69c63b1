------------------------------ MODULE XrayNode ------------------------------
(***************************************************************************)
(* Xray on a node (go-node/x/xray/manager.go): the process the manager     *)
(* starts and stops, the configuration file it is started with, and the    *)
(* inbounds and users that are changed in the running process and, before  *)
(* or after, in the file.                                                  *)
(*                                                                         *)
(* One goroutine executes the panel's commands one after another, another  *)
(* switches the version, and every process has a goroutine that waits for  *)
(* its end.  The lock covers one start, stop, question whether Xray runs   *)
(* or change of the file each; a command is several of these.              *)
(***************************************************************************)
EXTENDS Naturals, Sequences

CONSTANTS
    Tags,       \* inbounds
    Users,      \* their users, by email
    MaxProcs,   \* bound: processes ever started
    MaxFaults,  \* bound: refusals, failed starts and copies, crashes
    Prompt      \* the end of a process is noticed before the next start

ASSUME XrayAssumption ==
    MaxProcs \in Nat /\ MaxFaults \in Nat /\ Prompt \in BOOLEAN

Procs == 1..MaxProcs

VARIABLES
    file,       \* the configuration file: is it there, and its inbounds
    proc,       \* processes: their state, and the inbounds they serve
    cmd,        \* m.cmd: the process the manager knows, 0 for none
    running,    \* m.running
    job,        \* the goroutines "command" and "switch"
    faults,
    disturbed   \* auxiliary: file and process may differ, and why is known

vars == <<file, proc, cmd, running, job, faults, disturbed>>

\* An inbound has no, one or more (2) entries for a user; Xray refuses more than one.
NoInbound == [there |-> FALSE, n |-> [u \in Users |-> 0]]
Inbound(us) == [there |-> TRUE, n |-> [u \in Users |-> IF u \in us THEN 1 ELSE 0]]
Fresh == {Inbound(us) : us \in SUBSET Users}
Bare == [t \in Tags |-> NoInbound]
Sound(x) == \A u \in Users : x.n[u] <= 1

Alive == {p \in Procs : proc[p].state \in {"up", "doomed"}}
Unnoticed == {p \in Procs : proc[p].state = "exited"}
Up == {p \in Procs : proc[p].state = "up"}

Goroutines == {"command", "switch"}
NoJob == [op |-> "idle", tag |-> "", user |-> "", new |-> Bare, plan |-> <<>>,
          had |-> FALSE, old |-> Bare, removed |-> FALSE, err |-> FALSE,
          at |-> 0, clean |-> TRUE, fit |-> FALSE]
Others(g) == \E h \in Goroutines \ {g} : job[h] # NoJob

Fault == faults < MaxFaults /\ faults' = faults + 1

-----------------------------------------------------------------------------
(* What a goroutine has still to do, one lock or call of Xray's API each.  *)

At(g, step) == job[g].plan # <<>> /\ Head(job[g].plan) = step

Turn(g, plan) == job' = [job EXCEPT ![g].plan = plan]
Next1(g) == Turn(g, Tail(job[g].plan))

\* After the first error: ApplyConfig writes the old configuration again if there was
\* one, SwitchVersion starts what is there.
Remedy(g, step) ==
    CASE job[g].op = "apply" /\ job[g].had -> <<"back", "start">>
      [] job[g].op = "switch" /\ step \in {"replace", "start"} -> <<"start">>
      [] OTHER -> <<>>

Fails(g, step) ==
    job' = [job EXCEPT ![g].err = TRUE,
              ![g].plan = IF job[g].err THEN <<>> ELSE Remedy(g, step),
              ![g].fit = @ /\ step # "backup"]

\* SwitchVersion and ApplyConfig; HotAddInbound and the others are as they come.
PlanOf(op) ==
    CASE op = "start"         -> <<"start">>
      [] op = "stop"          -> <<"stop">>
      [] op = "restart"       -> <<"stop", "settle", "start">>
      [] op = "switch"        -> <<"download", "stop", "settle", "backup", "replace",
                                   "start">>
      [] op = "apply"         -> <<"write", "launch">>
      [] op = "addInbound"    -> <<"prepare">>
      [] op = "removeInbound" -> <<"look", "rmi", "edit">>
      [] op = "addUser"       -> <<"look", "edit", "adu">>
      [] op = "removeUser"    -> <<"look", "edit", "rmu">>

\* All that runs is in the file, and the job changes something.
Fits(op, t, u) ==
    /\ running /\ file.there
    /\ \E p \in Up : proc[p].in = file.in
    /\ op = "addUser" => file.in[t].n[u] = 0
    /\ op = "removeUser" => file.in[t].n[u] = 1

Begin(g, op, t, u, new) ==
    /\ job[g] = NoJob
    /\ job' = [h \in Goroutines |->
                 IF h # g THEN [job[h] EXCEPT !.clean = @ /\ job[h] = NoJob]
                 ELSE [NoJob EXCEPT !.op = op, !.tag = t, !.user = u, !.new = new,
                         !.plan = PlanOf(op), !.old = file.in, !.at = faults,
                         !.clean = ~ Others(g), !.fit = Fits(op, t, u)]]
    /\ disturbed' = (disturbed \/ Others(g))
    /\ UNCHANGED <<file, proc, cmd, running, faults>>

\* routeCommand
Command ==
    \/ \E op \in {"start", "stop", "restart"} : Begin("command", op, "", "", Bare)
    \/ \E all \in [Tags -> Fresh \cup {NoInbound}] : Begin("command", "apply", "", "", all)
    \/ \E t \in Tags, x \in Fresh :
          Begin("command", "addInbound", t, "", [Bare EXCEPT ![t] = x])
    \/ \E t \in Tags : Begin("command", "removeInbound", t, "", Bare)
    \/ \E t \in Tags, u \in Users, op \in {"addUser", "removeUser"} :
          Begin("command", op, t, u, Bare)

\* handleXraySwitchVersion, which answers at once.
Switch == Begin("switch", "switch", "", "", Bare)

Finish(g) ==
    /\ job[g] # NoJob
    /\ job[g].plan = <<>>
    /\ job' = [job EXCEPT ![g] = NoJob]
    /\ UNCHANGED <<file, proc, cmd, running, faults, disturbed>>

-----------------------------------------------------------------------------
(* The process.                                                            *)

\* A second process finds the ports taken.
Refused == Up # {} \/ \E t \in Tags : ~ Sound(file.in[t])

\* ensureBaseConfig, exec: the process reads the file and is up, or will end.
Spawn(p, state) ==
    /\ proc[p].state = "unused"
    /\ \A q \in Procs : q < p => proc[q].state # "unused"
    /\ Prompt => Unnoticed = {}
    /\ proc' = [proc EXCEPT ![p] = [state |-> state, in |-> file.in]]
    /\ cmd' = p
    /\ running' = TRUE
    /\ file' = [file EXCEPT !.there = TRUE]

Start(g) ==
    /\ At(g, "start")
    /\ \/ /\ running
          /\ Fails(g, "start")
          /\ UNCHANGED <<file, proc, cmd, running, faults, disturbed>>
       \/ /\ ~ running
          /\ \E p \in Procs :
                \/ Spawn(p, IF Refused THEN "doomed" ELSE "up") /\ UNCHANGED faults
                \/ file.in # Bare /\ Spawn(p, "doomed") /\ Fault
          /\ Next1(g)
          /\ disturbed' = (disturbed /\ (Others(g) \/ Alive # {}))
       \/ /\ ~ running
          /\ Fault
          /\ Fails(g, "start")
          /\ cmd' = 0
          /\ file' = [file EXCEPT !.there = TRUE]
          /\ UNCHANGED <<proc, running, disturbed>>

Ended(p) == proc' = [proc EXCEPT ![p] = [state |-> "exited", in |-> Bare]]

\* Variant, not part of Next: a signal, and no look at what comes of it.
StopUnwaited(g) ==
    /\ At(g, "stop")
    /\ running' = FALSE
    /\ Next1(g)
    /\ UNCHANGED <<file, proc, cmd, faults, disturbed>>

\* SIGTERM, and SIGKILL after five seconds.
Stop(g) ==
    /\ At(g, "stop")
    /\ IF running /\ cmd \in Alive THEN Ended(cmd) ELSE UNCHANGED proc
    /\ running' = FALSE
    /\ Next1(g)
    /\ UNCHANGED <<file, cmd, faults, disturbed>>

\* Sleeps are long enough for a process that cannot run to end, and to be noticed.
Settle(g) ==
    /\ At(g, "settle")
    /\ Unnoticed = {} /\ \A p \in Alive : proc[p].state = "up"
    /\ Next1(g)
    /\ UNCHANGED <<file, proc, cmd, running, faults, disturbed>>

Exit(p) ==
    /\ proc[p].state = "doomed"
    /\ Ended(p)
    /\ UNCHANGED <<file, cmd, running, job, faults, disturbed>>

Crash(p) ==
    /\ proc[p].state = "up"
    /\ Fault
    /\ Ended(p)
    /\ job' = [g \in Goroutines |-> [job[g] EXCEPT !.clean = @ /\ job[g] = NoJob]]
    /\ UNCHANGED <<file, cmd, running, disturbed>>

\* The goroutine of Start that waits for its process.
Notice(p) ==
    /\ proc[p].state = "exited"
    /\ proc' = [proc EXCEPT ![p].state = "gone"]
    /\ running' = FALSE
    /\ UNCHANGED <<file, cmd, job, faults, disturbed>>

\* IsRunning
Look(g) ==
    /\ At(g, "look")
    /\ IF running THEN Next1(g) ELSE Fails(g, "look")
    /\ UNCHANGED <<file, proc, cmd, running, faults, disturbed>>

Verify(g) ==
    /\ At(g, "verify")
    /\ IF running THEN Next1(g) ELSE Fails(g, "verify")
    /\ UNCHANGED <<file, proc, cmd, running, faults, disturbed>>

-----------------------------------------------------------------------------
(* ApplyConfig and SwitchVersion.                                          *)

Write(g) ==
    /\ At(g, "write")
    /\ file' = [there |-> TRUE, in |-> job[g].new]
    /\ job' = [job EXCEPT ![g].plan = Tail(@), ![g].had = file.there, ![g].old = file.in]
    /\ UNCHANGED <<proc, cmd, running, faults, disturbed>>

Launch(g) ==
    /\ At(g, "launch")
    /\ Turn(g, IF running THEN <<"stop", "settle", "start", "settle", "verify">>
                          ELSE <<"start", "settle", "verify">>)
    /\ UNCHANGED <<file, proc, cmd, running, faults, disturbed>>

Back(g) ==
    /\ At(g, "back")
    /\ file' = [file EXCEPT !.in = job[g].old]
    /\ Next1(g)
    /\ UNCHANGED <<proc, cmd, running, faults, disturbed>>

\* Download and backup; a binary that is executed cannot be replaced.
Copy(g, step) ==
    /\ At(g, step)
    /\ \/ (step = "replace" => Alive = {}) /\ Next1(g) /\ UNCHANGED faults
       \/ step = "replace" /\ Alive # {} /\ Fails(g, step) /\ UNCHANGED faults
       \/ Fault /\ Fails(g, step)
    /\ UNCHANGED <<file, proc, cmd, running, disturbed>>

-----------------------------------------------------------------------------
(* Inbounds and users, in the file and in the process that answers.        *)

\* HotAddInbound: in the running process first; or start one, the file first.
Prepare(g) ==
    /\ At(g, "prepare")
    /\ Turn(g, IF running THEN <<"adi", "edit">>
                          ELSE <<"edit", "start", "settle", "verify">>)
    /\ file' = [file EXCEPT !.there = @ \/ ~ running]
    /\ UNCHANGED <<proc, cmd, running, faults, disturbed>>

Entries(x, u, n) == IF x.there THEN [x EXCEPT !.n[u] = IF n > 2 THEN 2 ELSE n] ELSE x

\* Variant, not part of Next: one entry less, whether the user has one or not.
EditedByOne(j, x) ==
    CASE j.op = "addInbound"    -> j.new[j.tag]
      [] j.op = "removeInbound" -> NoInbound
      [] j.op = "addUser"       -> Entries(x, j.user, x.n[j.user] + 1)
      [] j.op = "removeUser"    -> Entries(x, j.user, x.n[j.user] - 1)

Edited(j, x) ==
    CASE j.op = "addInbound"    -> j.new[j.tag]
      [] j.op = "removeInbound" -> NoInbound
      [] j.op = "addUser"       -> Entries(x, j.user, x.n[j.user] + 1)
      [] j.op = "removeUser"    -> Entries(x, j.user, 0)

\* Variant, not part of Next: what is removed stays in the file.
EditAdded(g) ==
    LET j == job[g]  x == file.in[j.tag] IN
    /\ At(g, "edit")
    /\ file' = IF file.there /\ j.op # "removeInbound"
               THEN [file EXCEPT !.in[j.tag] = Edited(j, x)] ELSE file
    /\ job' = [job EXCEPT ![g].plan = Tail(@),
                 ![g].removed = j.op = "removeUser" /\ x.n[j.user] > 0]
    /\ UNCHANGED <<proc, cmd, running, faults, disturbed>>

\* updateConfigFile
Edit(g) ==
    LET j == job[g]  x == file.in[j.tag] IN
    /\ At(g, "edit")
    /\ file' = IF file.there THEN [file EXCEPT !.in[j.tag] = Edited(j, x)] ELSE file
    /\ job' = [job EXCEPT ![g].plan = Tail(@),
                 ![g].removed = j.op = "removeUser" /\ x.n[j.user] > 0]
    /\ UNCHANGED <<proc, cmd, running, faults, disturbed>>

\* ... when the inbound could not be reloaded: every entry of the user is taken out, or
\* one is put back.
Revert(g) ==
    LET j == job[g]  x == file.in[j.tag] IN
    /\ At(g, "revert")
    /\ file' = [file EXCEPT !.in[j.tag] =
                  Entries(x, j.user, IF j.op = "addUser" THEN 0 ELSE x.n[j.user] + 1)]
    /\ Next1(g)
    /\ UNCHANGED <<proc, cmd, running, faults, disturbed>>

Serve(t, x) == \E p \in Up : proc' = [proc EXCEPT ![p].in[t] = x]
Serves(t) == \E p \in Up : proc[p].in[t].there
Serving(t, u) == \E p \in Up : proc[p].in[t].there /\ proc[p].in[t].n[u] > 0

AddInbound(g) ==
    LET j == job[g] IN
    /\ At(g, "adi")
    /\ \/ /\ Up # {} /\ ~ Serves(j.tag)
          /\ Serve(j.tag, j.new[j.tag])
          /\ Next1(g)
          /\ UNCHANGED faults
       \/ /\ Up = {} \/ Serves(j.tag)
          /\ Fails(g, "adi")
          /\ UNCHANGED <<proc, faults>>
       \/ Fault /\ Fails(g, "adi") /\ UNCHANGED proc
    /\ UNCHANGED <<file, cmd, running, disturbed>>

RemoveInbound(g) ==
    LET j == job[g] IN
    /\ At(g, "rmi")
    /\ IF Serves(j.tag) THEN Serve(j.tag, NoInbound) /\ Next1(g)
                        ELSE Fails(g, "rmi") /\ UNCHANGED proc
    /\ UNCHANGED <<file, cmd, running, faults, disturbed>>

\* A version of Xray that does not know the command reloads the inbound.
ChangeUser(g, step) ==
    LET j == job[g] IN
    /\ At(g, step)
    /\ \/ /\ Serves(j.tag)
          /\ Serving(j.tag, j.user) = (step = "rmu")
          /\ \E p \in Up : proc' = [proc EXCEPT ![p].in[j.tag].n[j.user] =
                                      IF step = "adu" THEN 1 ELSE 0]
          /\ Next1(g)
       \/ Turn(g, <<"drop", "readd">>) /\ UNCHANGED proc
    /\ UNCHANGED <<file, cmd, running, faults, disturbed>>

\* Variant, not part of Next: the file is put right, Xray is not.
ReloadFailsOnce(g) ==
    LET j == job[g] IN
    /\ job' = [job EXCEPT ![g].err = TRUE,
                 ![g].plan = IF ~ j.err /\ (j.op = "removeUser" => j.removed)
                             THEN <<"revert">> ELSE <<>>]
    /\ disturbed' = (disturbed \/ j.err \/ (j.op = "removeUser" /\ ~ j.removed))

\* The change is taken back and the inbound loaded again, but not where a user was to
\* be removed whom the file does not have.
ReloadFails(g) ==
    LET j == job[g] IN
    /\ job' = [job EXCEPT ![g].err = TRUE,
                 ![g].plan = IF ~ j.err /\ (j.op = "removeUser" => j.removed)
                             THEN <<"revert", "drop", "readd">> ELSE <<>>]
    /\ disturbed' = (disturbed \/ j.err \/ (j.op = "removeUser" /\ ~ j.removed))

\* reloadInbound takes the inbound out of Xray, if it is in the file, ...
Drop(g) ==
    LET t == job[g].tag IN
    /\ At(g, "drop")
    /\ IF file.in[t].there
       THEN /\ IF Serves(t) THEN Serve(t, NoInbound) ELSE UNCHANGED proc
            /\ Next1(g)
            /\ UNCHANGED disturbed
       ELSE ReloadFails(g) /\ UNCHANGED proc
    /\ UNCHANGED <<file, cmd, running, faults>>

\* ... and adds what the file has.
ReAdd(g) ==
    LET t == job[g].tag IN
    /\ At(g, "readd")
    /\ \/ /\ Up # {} /\ ~ Serves(t) /\ Sound(file.in[t])
          /\ Serve(t, file.in[t])
          /\ Next1(g)
          /\ UNCHANGED <<faults, disturbed>>
       \/ /\ Up = {} \/ Serves(t) \/ ~ Sound(file.in[t])
          /\ ReloadFails(g)
          /\ UNCHANGED <<proc, faults>>
       \/ Fault /\ ReloadFails(g) /\ UNCHANGED proc
    /\ UNCHANGED <<file, cmd, running>>

-----------------------------------------------------------------------------
Init ==
    /\ file = [there |-> FALSE, in |-> Bare]
    /\ proc = [p \in Procs |-> [state |-> "unused", in |-> Bare]]
    /\ cmd = 0
    /\ running = FALSE
    /\ job = [g \in Goroutines |-> NoJob]
    /\ faults = 0
    /\ disturbed = FALSE

Manage(g) ==
    \/ Start(g) \/ Stop(g) \/ Settle(g) \/ Look(g) \/ Verify(g)
    \/ Write(g) \/ Launch(g) \/ Back(g)
    \/ \E step \in {"download", "backup", "replace"} : Copy(g, step)

Change(g) ==
    \/ Prepare(g) \/ Edit(g) \/ Revert(g)
    \/ AddInbound(g) \/ RemoveInbound(g)
    \/ \E step \in {"adu", "rmu"} : ChangeUser(g, step)
    \/ Drop(g) \/ ReAdd(g)

Next ==
    \/ Command \/ Switch
    \/ \E g \in Goroutines : Manage(g) \/ Change(g) \/ Finish(g)
    \/ \E p \in Procs : Exit(p) \/ Crash(p) \/ Notice(p)

Spec == Init /\ [][Next]_vars

-----------------------------------------------------------------------------
(* Properties.                                                             *)

Contents == [there : BOOLEAN, n : [Users -> 0..2]]

\* Every variable has its type.
TypeOK ==
    /\ file \in [there : BOOLEAN, in : [Tags -> Contents]]
    /\ proc \in [Procs -> [state : {"unused", "up", "doomed", "exited", "gone"},
                           in : [Tags -> Contents]]]
    /\ cmd \in {0} \cup Procs
    /\ running \in BOOLEAN
    /\ faults \in 0..MaxFaults
    /\ disturbed \in BOOLEAN

\* Commands, a change of version and ends of processes together never start a process
\* beside another one, and none lives that Stop would not find (manager.go:49-134, 201-316).
OneProcess == \A p \in Alive : running /\ cmd = p

\* When nothing is under way, what Xray serves is what it is started with the next time
\* (manager.go:627, "Update config file for persistence").
Persisted ==
    (\A g \in Goroutines : job[g] = NoJob) /\ ~ disturbed =>
        \A p \in Up : proc[p].in = file.in

\* A command, or a change of the version, that fails although one thing at most went
\* wrong leaves file and process as they were: not so if the old binary could not be
\* saved (manager.go:489-530, 681-849).
FailureKeeps ==
    \A g \in Goroutines :
        LET j == job[g] IN
        j.err /\ j.plan = <<>> /\ j.clean /\ j.fit /\ faults - j.at <= 1
            /\ j.op \notin {"start", "restart"}
        => file.in = j.old /\ \E p \in Up : proc[p].in = j.old
=============================================================================

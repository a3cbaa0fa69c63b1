--------------------------- MODULE FlowAccounting ---------------------------
(***************************************************************************)
(* The traffic of one user: counted by the services of a node, reported    *)
(* over HTTP, added up on the panel, compared with the limits              *)
(* (go-node/x/service, go-node/x/observer/stats, go-backend/service/flow.go *)
(* and user.go, go-backend/task/reset_flow.go).                            *)
(*                                                                         *)
(* A meter is one life of a service: from its start until it is closed and *)
(* its last connection has ended.  A forward that is paused and resumed    *)
(* has a new meter while the old one drains.  In and out traffic are       *)
(* treated alike and are one number here.                                  *)
(***************************************************************************)
EXTENDS Naturals, FiniteSets

CONSTANTS
    Forwards,       \* the forwards of the user
    Tunnels,        \* the tunnels the user has a permission (user_tunnel) for
    TunnelOf,       \* forward -> its tunnel; none for one over a route
    Meters,
    FirstMeter,     \* forward -> the meter that runs at first, none when its node is down
    Factor,         \* traffic ratio times flow type of a tunnel
    UserLimit,      \* 0 for none, like the next
    TunnelLimit,    \* tunnel -> limit
    Jobs,           \* goroutines of the panel
    Ops,            \* what they do besides uploads: a subset of AllOps
    MaxBytes,       \* bound on the traffic
    MaxCrashes,     \* bound on restarts of the panel
    none

AllOps == {"resume", "reset", "delete"}

ASSUME FlowAssumption ==
    /\ TunnelOf \in [Forwards -> Tunnels \cup {none}]
    /\ FirstMeter \in [Forwards -> Meters \cup {none}]
    /\ \A f, g \in Forwards : FirstMeter[f] = FirstMeter[g] => f = g \/ FirstMeter[f] = none
    /\ Factor \in Nat \ {0}
    /\ UserLimit \in Nat
    /\ TunnelLimit \in [Tunnels -> Nat]
    /\ Ops \subseteq AllOps
    /\ MaxBytes \in Nat /\ MaxCrashes \in Nat
    /\ none \notin Forwards \cup Tunnels \cup Meters \cup Jobs
    /\ "user" \notin Tunnels

\* A user has finitely many forwards, the panel finitely many goroutines.
ASSUME FlowFinite == IsFiniteSet(Forwards) /\ IsFiniteSet(Jobs)

VARIABLES
    meter,      \* what the node keeps of a service, and its reporting goroutine
    job,        \* goroutines of the panel
    total,      \* forward -> in_flow + out_flow of its row
    used,       \* the same of the user ("user") and of its permissions
    status,     \* forward -> "active", "paused", or "gone" without a row
    crashes,
    carried,    \* auxiliary: meter -> bytes that passed
    counted,    \* auxiliary: meter -> bytes added to a forward's row
    wiped,      \* auxiliary: like used, what resets have thrown away
    retried,    \* auxiliary: meters with a report that got no answer
    leaky,      \* auxiliary: meters with bytes overwritten or dismissed
    excused     \* auxiliary: forwards made active beyond a limit, or while
                \* the panel had forgotten uploads

panel == <<job, total, used, status, crashes>>
aux == <<carried, counted, wiped, retried, leaky, excused>>
vars == <<meter, panel, aux>>

Accounts == {"user"} \cup Tunnels

\* The sum of f over S, as the number of the units that f counts there.
SumOver(S, f) == Cardinality(UNION {{x} \X (1..f[x]) : x \in S})

NoMeter == [of |-> none, life |-> "none", bytes |-> 0,
            updated |-> FALSE, at |-> "wait", amount |-> 0, rest |-> 0, by |-> none]
Started(f) == [NoMeter EXCEPT !.of = f, !.life = "open"]

NoJob == [kind |-> "idle", stage |-> "idle", meter |-> none, fwd |-> none,
          amount |-> 0, todo |-> {}, cut |-> none]
Idle(j) == job[j] = NoJob

-----------------------------------------------------------------------------
(* The node: Stats and observeStats.                                       *)

Put(m, new) == meter' = [meter EXCEPT ![m] = new]

\* A connection adds to the counter and sets the mark.
Carry(m) ==
    /\ meter[m].life \in {"open", "draining"}
    /\ SumOver(Meters, carried) < MaxBytes
    /\ Put(m, [meter[m] EXCEPT !.bytes = @ + 1, !.updated = TRUE])
    /\ carried' = [carried EXCEPT ![m] = @ + 1]
    /\ UNCHANGED <<panel, counted, wiped, retried, leaky, excused>>

\* The ticker fires: without the mark nothing happens.
Tick(m) ==
    /\ meter[m].life \in {"open", "draining"} /\ meter[m].at = "wait" /\ meter[m].updated
    /\ Put(m, [meter[m] EXCEPT !.updated = FALSE, !.at = "look"])
    /\ UNCHANGED <<panel, aux>>

\* The counter is read and, unless it is 0, posted.  The request reaches a goroutine
\* of the panel or is lost.
Post(m) ==
    /\ meter[m].at = "look"
    /\ LET posted == [meter[m] EXCEPT !.at = "posted", !.amount = meter[m].bytes] IN
       \/ /\ meter[m].bytes = 0
          /\ Put(m, [meter[m] EXCEPT !.at = "wait"])
          /\ UNCHANGED job
       \/ /\ meter[m].bytes > 0
          /\ Put(m, posted)
          /\ UNCHANGED job
       \/ /\ meter[m].bytes > 0
          /\ \E j \in Jobs :
                /\ Idle(j)
                /\ Put(m, [posted EXCEPT !.by = j])
                /\ job' = [job EXCEPT ![j] =
                        [NoJob EXCEPT !.kind = "upload", !.stage = "arrived",
                             !.meter = m, !.fwd = meter[m].of, !.amount = meter[m].bytes]]
    /\ UNCHANGED <<total, used, status, crashes, aux>>

\* No answer within five seconds, an error, or the service has ended: what was
\* posted stays in the counter, but the mark has been taken off.
GiveUp(m) ==
    /\ meter[m].at = "posted"
    /\ Put(m, [meter[m] EXCEPT !.at = "wait", !.amount = 0, !.by = none])
    /\ retried' = retried \cup {m}
    /\ UNCHANGED <<panel, carried, counted, wiped, leaky, excused>>

\* Variants, not part of Next: the operands change places; nothing is subtracted.
SubtractSwapped(m) ==
    /\ meter[m].at = "answered"
    /\ Put(m, [meter[m] EXCEPT !.at = "store", !.rest = meter[m].amount - meter[m].bytes])
    /\ UNCHANGED <<panel, aux>>

SubtractNothing(m) ==
    /\ meter[m].at = "answered"
    /\ Put(m, [meter[m] EXCEPT !.at = "store", !.rest = meter[m].bytes])
    /\ UNCHANGED <<panel, aux>>

\* After an "ok" the counter is read again, and what was reported subtracted.
Subtract(m) ==
    /\ meter[m].at = "answered"
    /\ Put(m, [meter[m] EXCEPT !.at = "store", !.rest = meter[m].bytes - meter[m].amount])
    /\ UNCHANGED <<panel, aux>>

Stored(m, bytes) ==
    [meter[m] EXCEPT !.at = "wait", !.bytes = bytes, !.amount = 0, !.rest = 0]
StoreLeaks(m) == meter[m].bytes > meter[m].rest + meter[m].amount

\* Variants, not part of Next: the counter is set to 0; the mark goes with it.
StoreZero(m) ==
    /\ meter[m].at = "store"
    /\ Put(m, Stored(m, 0))
    /\ leaky' = IF StoreLeaks(m) THEN leaky \cup {m} ELSE leaky
    /\ UNCHANGED <<panel, carried, counted, wiped, retried, excused>>

StoreAndUnmark(m) ==
    /\ meter[m].at = "store"
    /\ Put(m, [Stored(m, meter[m].rest) EXCEPT !.updated = FALSE])
    /\ leaky' = IF StoreLeaks(m) THEN leaky \cup {m} ELSE leaky
    /\ UNCHANGED <<panel, carried, counted, wiped, retried, excused>>

\* The difference is stored, over bytes that were added since the second look.
Store(m) ==
    /\ meter[m].at = "store"
    /\ Put(m, Stored(m, meter[m].rest))
    /\ leaky' = IF StoreLeaks(m) THEN leaky \cup {m} ELSE leaky
    /\ UNCHANGED <<panel, carried, counted, wiped, retried, excused>>

\* The last connection of a closed service ends, and with it the reports.
Drained(m) ==
    /\ meter[m].life = "draining"
    /\ Put(m, [meter[m] EXCEPT !.life = "ended"])
    /\ UNCHANGED <<panel, aux>>
-----------------------------------------------------------------------------
(* The panel: an upload.                                                   *)

Move(j, new) == job' = [job EXCEPT ![j] = new]
Do(j, kind, stage) == job[j].kind = kind /\ job[j].stage = stage /\ job[j].todo = {}
                      /\ job[j].cut = none
Stage(j, stage) == Move(j, [job[j] EXCEPT !.stage = stage])
Bill(j) == IF TunnelOf[job[j].fwd] = none THEN job[j].amount ELSE Factor * job[j].amount

\* The row of the forward is looked up.  Without one the answer is "ok" all the same.
Lookup(j) ==
    /\ Do(j, "upload", "arrived")
    /\ IF status[job[j].fwd] = "gone"
       THEN Stage(j, "answer") /\ leaky' = leaky \cup {job[j].meter}
       ELSE Stage(j, "forward") /\ UNCHANGED leaky
    /\ UNCHANGED <<meter, total, used, status, crashes, carried, counted, wiped,
                   retried, excused>>

\* The update finds no row when the forward is deleted meanwhile.
AddToForward(j) ==
    /\ Do(j, "upload", "forward")
    /\ Stage(j, "user")
    /\ IF status[job[j].fwd] = "gone"
       THEN leaky' = leaky \cup {job[j].meter} /\ UNCHANGED <<total, counted>>
       ELSE /\ total' = [total EXCEPT ![job[j].fwd] = @ + Bill(j)]
            /\ counted' = [counted EXCEPT ![job[j].meter] = @ + job[j].amount]
            /\ UNCHANGED leaky
    /\ UNCHANGED <<meter, used, status, crashes, carried, wiped, retried, excused>>

Over(a) ==
    IF a = "user" THEN UserLimit # 0 /\ UserLimit < used["user"]
                  ELSE TunnelLimit[a] # 0 /\ TunnelLimit[a] <= used[a]

\* What a user or a permission is paused for: not the forwards over routes.
Active(a) == {f \in Forwards : /\ status[f] = "active" /\ TunnelOf[f] # none
                               /\ a \in {"user", TunnelOf[f]}}

\* Variants, not part of Next: what drains from a paused forward is not charged; after
\* the permission the user is not checked.
AddWhenActive(j) ==
    /\ Do(j, "upload", "user")
    /\ used' = IF status[job[j].fwd] = "active"
               THEN [used EXCEPT !["user"] = @ + Bill(j)] ELSE used
    /\ IF TunnelOf[job[j].fwd] = none
       THEN Stage(j, "answer") /\ excused' = excused \cup Active("user")
       ELSE Stage(j, "permission") /\ UNCHANGED excused
    /\ UNCHANGED <<meter, total, status, crashes, carried, counted, wiped,
                   retried, leaky>>

AddAndCheckTunnel(j) ==
    /\ Do(j, "upload", "permission")
    /\ used' = [used EXCEPT ![TunnelOf[job[j].fwd]] = @ + Bill(j)]
    /\ Stage(j, "checkTunnel")
    /\ UNCHANGED <<meter, total, status, crashes, aux>>

\* Only forwards over a tunnel the user has a permission for are checked; the user is
\* charged for all.
AddToUser(j) ==
    /\ Do(j, "upload", "user")
    /\ used' = [used EXCEPT !["user"] = @ + Bill(j)]
    /\ IF TunnelOf[job[j].fwd] = none
       THEN Stage(j, "answer") /\ excused' = excused \cup Active("user")
       ELSE Stage(j, "permission") /\ UNCHANGED excused
    /\ UNCHANGED <<meter, total, status, crashes, carried, counted, wiped,
                   retried, leaky>>

AddToTunnel(j) ==
    /\ Do(j, "upload", "permission")
    /\ used' = [used EXCEPT ![TunnelOf[job[j].fwd]] = @ + Bill(j)]
    /\ Stage(j, "checkUser")
    /\ UNCHANGED <<meter, total, status, crashes, aux>>

\* One look at the row decides; the forwards are looked up then.
Check(j, a, next) ==
    LET found == IF Over(a) THEN Active(a) ELSE {}
    IN  /\ Move(j, [job[j] EXCEPT !.stage = next, !.todo = found])
        /\ excused' = excused \ found
        /\ UNCHANGED <<meter, total, used, status, crashes, carried, counted,
                       wiped, retried, leaky>>

CheckUser(j)   == Do(j, "upload", "checkUser") /\ Check(j, "user", "checkTunnel")
CheckTunnel(j) == Do(j, "upload", "checkTunnel") /\ Check(j, TunnelOf[job[j].fwd], "answer")

\* The answer finds the node waiting, or is lost.
Answer(j) ==
    /\ Do(j, "upload", "answer")
    /\ Move(j, NoJob)
    /\ LET m == job[j].meter IN
       IF meter[m].by # j THEN UNCHANGED meter
       ELSE \/ Put(m, [meter[m] EXCEPT !.at = "answered", !.by = none])
            \/ Put(m, [meter[m] EXCEPT !.by = none])
    /\ UNCHANGED <<total, used, status, crashes, aux>>

-----------------------------------------------------------------------------
(* The panel: commands to the node, and what else changes these rows.      *)

\* The listeners of the forward's services are closed; connections go on.
Closed(f) == [m \in Meters |-> IF meter[m].of = f /\ meter[m].life = "open"
                               THEN [meter[m] EXCEPT !.life = "draining"] ELSE meter[m]]

\* Forwards are paused one by one; whether the node did it does not matter.
PauseService(j) ==
    /\ job[j].cut = none
    /\ \E f \in job[j].todo :
          /\ Move(j, [job[j] EXCEPT !.todo = @ \ {f}, !.cut = f])
          /\ \/ meter' = Closed(f)
             \/ UNCHANGED meter
    /\ UNCHANGED <<total, used, status, crashes, aux>>

PauseRow(j) ==
    /\ job[j].cut # none
    /\ Move(j, [job[j] EXCEPT !.cut = none])
    /\ status' = [status EXCEPT ![job[j].cut] = IF @ = "gone" THEN @ ELSE "paused"]
    /\ UNCHANGED <<meter, total, used, crashes, aux>>

\* By the nightly task or by hand.
ResetFlow(a) ==
    /\ "reset" \in Ops /\ used[a] > 0
    /\ used' = [used EXCEPT ![a] = 0]
    /\ wiped' = [wiped EXCEPT ![a] = @ + used[a]]
    /\ UNCHANGED <<meter, job, total, status, crashes, carried, counted, retried,
                   leaky, excused>>

\* The user's own request is refused at the limit; an administrator's is not, and no
\* limit holds for a route.
MayResume(f) ==
    /\ TunnelOf[f] # none
    /\ UserLimit = 0 \/ used["user"] < UserLimit
    /\ TunnelLimit[TunnelOf[f]] = 0 \/ used[TunnelOf[f]] < TunnelLimit[TunnelOf[f]]

BeginResume(j, f, admin) ==
    /\ "resume" \in Ops /\ Idle(j) /\ status[f] # "gone"
    /\ admin \/ MayResume(f)
    /\ Move(j, [NoJob EXCEPT !.kind = "resume", !.stage = "service", !.fwd = f])
    /\ UNCHANGED <<meter, total, used, status, crashes, aux>>

\* A closed service gets a new meter, one that runs stays; the command can fail.
ResumeService(j) ==
    /\ Do(j, "resume", "service")
    /\ LET f == job[j].fwd
           runs == \E m \in Meters : meter[m].of = f /\ meter[m].life = "open"
       IN \/ Move(j, NoJob) /\ UNCHANGED meter
          \/ runs /\ Stage(j, "row") /\ UNCHANGED meter
          \/ /\ ~ runs /\ Stage(j, "row")
             /\ \E m \in Meters : meter[m] = NoMeter /\ Put(m, Started(f))
    /\ UNCHANGED <<total, used, status, crashes, aux>>

ResumeRow(j) ==
    /\ Do(j, "resume", "row")
    /\ status' = [status EXCEPT ![job[j].fwd] = IF @ = "gone" THEN @ ELSE "active"]
    /\ excused' = excused \cup {job[j].fwd}
    /\ Move(j, NoJob)
    /\ UNCHANGED <<meter, total, used, crashes, carried, counted, wiped, retried,
                   leaky>>

\* The services go first; without them the row goes, or the request ends in an error.
BeginDelete(j, f) ==
    /\ "delete" \in Ops /\ Idle(j) /\ status[f] # "gone"
    /\ Move(j, [NoJob EXCEPT !.kind = "delete", !.stage = "service", !.fwd = f])
    /\ UNCHANGED <<meter, total, used, status, crashes, aux>>

DeleteService(j) ==
    /\ Do(j, "delete", "service")
    /\ \/ meter' = Closed(job[j].fwd) /\ Stage(j, "row")
       \/ UNCHANGED meter /\ Move(j, NoJob)
    /\ UNCHANGED <<total, used, status, crashes, aux>>

DeleteRow(j) ==
    /\ Do(j, "delete", "row")
    /\ status' = [status EXCEPT ![job[j].fwd] = "gone"]
    /\ Move(j, NoJob)
    /\ UNCHANGED <<meter, total, used, crashes, aux>>

\* The panel restarts: what its goroutines had still to do is not done.
Crash ==
    /\ crashes < MaxCrashes
    /\ crashes' = crashes + 1
    /\ job' = [j \in Jobs |-> NoJob]
    /\ meter' = [m \in Meters |-> [meter[m] EXCEPT !.by = none]]
    /\ excused' = Forwards
    /\ UNCHANGED <<total, used, status, carried, counted, wiped, retried, leaky>>

-----------------------------------------------------------------------------
Init ==
    /\ meter = [m \in Meters |->
                  IF \E f \in Forwards : FirstMeter[f] = m
                  THEN Started(CHOOSE f \in Forwards : FirstMeter[f] = m) ELSE NoMeter]
    /\ job = [j \in Jobs |-> NoJob]
    /\ total = [f \in Forwards |-> 0]
    /\ used = [a \in Accounts |-> 0]
    /\ status = [f \in Forwards |-> "active"]
    /\ crashes = 0
    /\ carried = [m \in Meters |-> 0] /\ counted = [m \in Meters |-> 0]
    /\ wiped = [a \in Accounts |-> 0]
    /\ retried = {} /\ leaky = {} /\ excused = {}

Report(m) == Tick(m) \/ Post(m) \/ GiveUp(m) \/ Subtract(m) \/ Store(m)

Upload(j) == \/ Lookup(j) \/ AddToForward(j) \/ AddToUser(j) \/ AddToTunnel(j)
             \/ CheckUser(j) \/ CheckTunnel(j) \/ Answer(j)

Work(j) == \/ PauseService(j) \/ PauseRow(j)
           \/ ResumeService(j) \/ ResumeRow(j) \/ DeleteService(j) \/ DeleteRow(j)

Request(j) == \/ \E f \in Forwards, admin \in BOOLEAN : BeginResume(j, f, admin)
              \/ \E f \in Forwards : BeginDelete(j, f)

Next == \/ \E m \in Meters : Carry(m) \/ Report(m) \/ Drained(m)
        \/ \E j \in Jobs : Upload(j) \/ Work(j) \/ Request(j)
        \/ \E a \in Accounts : ResetFlow(a)
        \/ Crash

Spec == /\ Init /\ [][Next]_vars
        /\ \A m \in Meters : WF_vars(Report(m))
        /\ \A j \in Jobs : WF_vars(Upload(j) \/ Work(j))

-----------------------------------------------------------------------------
(* Properties.                                                             *)

MeterRecord ==
    [of : Forwards \cup {none}, life : {"none", "open", "draining", "ended"},
     bytes : Nat, updated : BOOLEAN,
     at : {"wait", "look", "posted", "answered", "store"},
     amount : Nat, rest : Nat, by : Jobs \cup {none}]

JobRecord ==
    [kind : {"idle", "upload", "resume", "delete"},
     stage : {"idle", "arrived", "forward", "user", "permission", "checkUser",
              "checkTunnel", "answer", "service", "row"},
     meter : Meters \cup {none}, fwd : Forwards \cup {none}, amount : Nat,
     todo : SUBSET Forwards, cut : Forwards \cup {none}]

\* The variables have their types, and an upload knows its meter and its forward.
TypeOK ==
    /\ meter \in [Meters -> MeterRecord]
    /\ job \in [Jobs -> JobRecord]
    /\ \A j \in Jobs : job[j].kind = "upload" =>
          job[j].meter # none /\ job[j].fwd = meter[job[j].meter].of /\ job[j].fwd # none
    /\ total \in [Forwards -> Nat]
    /\ used \in [Accounts -> Nat]
    /\ status \in [Forwards -> {"active", "paused", "gone"}]
    /\ crashes \in Nat
    /\ carried \in [Meters -> Nat] /\ counted \in [Meters -> Nat]
    /\ wiped \in [Accounts -> Nat]
    /\ retried \subseteq Meters /\ leaky \subseteq Meters /\ excused \subseteq Forwards

\* A byte that passed is in the counter of its service or in the row of its forward,
\* whatever requests, answers and panels are lost: only a byte that comes between the
\* second look at the counter and its reset disappears, and what is reported of a
\* forward that has been deleted.
NothingLost ==
    \A m \in Meters \ leaky :
        carried[m] + (IF meter[m].at \in {"answered", "store"} THEN meter[m].amount ELSE 0)
            <= counted[m] + meter[m].bytes

\* No byte is added to a row twice unless a report got no answer.
NothingTwice ==
    \A m \in Meters \ retried :
        counted[m] + meter[m].bytes <= carried[m] + meter[m].amount

Due(a) == SumOver({j \in Jobs : /\ job[j].kind = "upload"
                                /\ job[j].stage \in {"user", "permission"}
                                /\ job[j].stage = "user" \/ a # "user"
                                /\ a \in {"user", TunnelOf[job[j].fwd]}},
                  [j \in Jobs |-> Bill(j)])

\* Whatever uploads and resets overlap: what shows on the forwards has been charged to
\* the user and to the permission, since the last reset or before, or is about to be.
\* A panel that restarts may have charged the forward only.
ChargesFollow ==
    crashes = 0 => \A a \in Accounts :
        SumOver({f \in Forwards : a \in {"user", TunnelOf[f]}}, total)
            <= used[a] + wiped[a] + Due(a)

\* The upload is going to compare the account with its limit, or to pause the forward.
Minds(j, a, f) ==
    /\ job[j].kind = "upload"
    /\ \/ a = "user" /\ job[j].stage \in {"permission", "checkUser"}
       \/ a = TunnelOf[job[j].fwd] /\ job[j].stage \in {"checkUser", "checkTunnel"}
       \/ f \in job[j].todo \cup {job[j].cut}

\* Whoever exceeds a limit has active forwards only while an upload is in progress that
\* minds.  Forwards made active, uploads of forwards over routes and restarts of the
\* panel are noticed by a later upload only.
LimitNoticed ==
    \A a \in Accounts : Over(a) =>
        \A f \in Active(a) \ excused : \E j \in Jobs : Minds(j, a, f)

\* What a running service has counted is reported in the end, unless a report has
\* failed: then it waits for more traffic.
Reported ==
    \A m \in Meters :
        meter[m].bytes > 0 /\ meter[m].at = "wait"
            ~> \/ meter[m].at = "posted" \/ meter[m].life = "ended" \/ m \in retried
=============================================================================

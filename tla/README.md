# flux-panel-plus: TLA+ specifications

flux-panel-plus is a panel (`go-backend/`) that controls forwarding nodes
(`go-node/`, built on GOST). The panel keeps rows in a database and sends
commands over one websocket per node; the nodes keep live services, their own
configuration, and `runtime.json` to start from. Nothing makes a change of the
database and a change of a node one step, so most of what can go wrong is the
two disagreeing. These modules specify that, are checked with TLC, and most of what
they say is proved with TLAPS.

## Inventory

| Part | State | Operations | Interaction | What is hard |
|---|---|---|---|---|
| Node service manager (`go-node/x/socket/service.go`, `config.go`, `x/registry`, `x/config/loader`, `program.go`) | registry of live services, their listeners, `config.Global()`, `runtime.json` | Add, Update, Delete, Pause, Resume, UpdateForwarder on batches; save; crash; start | commands arrive one at a time from the receiving goroutine, which answers after saving | a batch that fails half-way, addresses taken by others, a crash between executing and saving |
| Session (`go-backend/pkg/ws.go`, callbacks in `main.go`, `go-node/x/socket/websocket_reporter.go`) | `nodeSessions`, `pendingRequests`, node row's status; the node's connection | connect, replace, read, remove; `SendMsg` with a timeout | one handler and one reader per connection, one goroutine per request | goroutines of two connections interleave, answers are late or go to another connection |
| Forwards (`service/forward.go`, `flow.go`, `user_tunnel.go`, `task/reset_flow.go`) | forward rows: status, target, ports | create, edit (four paths), delete, force delete, pause, resume, limits, new speed | commands to one node or two, one by one; then the row is written | no lock on a forward; every command can fail or be late |
| Reconcile and reports (`service/reconcile.go`, `config_check.go`) | a lock per node | on connect: restore and clean; on a node's report: clean | reads rows, sends the same commands | runs beside requests, works on rows read earlier |
| Groups, failover, DDNS (`service/failover.go`, `group.go`, `ddns.go`, `task/failover.go`) | group row (active member, last switch), member rows, domain rows; the provider's records | task every 30 s, requests | whole rows are read and saved | debounce, lost updates, a failing provider |
| Port allocation (`service/forward.go` 904-1021, 1613-1674, `route.go`, `user.go`) | `in_port`, `out_port`, `forward_route_port` rows | allocate on create and edit, free on delete | database only | check and save are apart |
| Flow accounting (`service/flow.go`, `user.go`, `task/reset_flow.go`, `go-node/x/service`, `x/observer/stats`) | counters on forwards, users, user tunnels; the node's counters and marks | report, upload, limit check, resume, reset by hand and every night | HTTP uploads from nodes; pauses forwards | answers lost, traffic during a report, uploads beside resets and resumes |
| Route forwards (`service/forward.go` 1250-1710, `route.go`, `reconcile.go` 257-400) | route, hops, relay ports; a service and a chain per hop | deploy hop by hop, take back, switch, reconcile | several nodes | compensation, nodes that leave half-way |
| Chains, limiters (`go-node/x/socket/chain.go`, `limiter.go`, `service/speed_limit.go`) | registry and configuration | add, update, delete | as services | as services, without listeners |
| Xray on the panel (`service/xray_inbound.go`, `xray_client.go`, `xray_scheduler.go`, `flow.go` 97-158, `reconcile.go` 400-642) | inbounds, clients with traffic and limits | CRUD, enable, disable, reset, hourly check, traffic, reconcile | commands; traffic over HTTP | rows put back when a command fails; reports beside requests |
| Xray on the node (`go-node/x/xray/manager.go`) | the process, its configuration file, `cmd`, `running` | start, stop, restart, apply, switch version, hot changes | gRPC or the command line of Xray | file and process change apart; a goroutine per process; a version switch beside commands |
| Certificates, ACME | certificate rows | issue, renew, deploy | certificate authority | external |
| Audit (`service/audit.go`, `go-node/x/service/audit_reporter.go`, `xui-audit-shipper`) | queue, rows | report, clean | HTTP | lossy by design |
| Telegram bot, dashboard, monitor, statistics, HTTP layer, updates, web front end, installation | own rows or none | read, dispatch | call the above | - |

What makes each part correct: the registry and the configuration agree unless
a failure is known (manager); a caller can trust an answer and "node offline",
and the status column follows the session (session); row and services agree
when nothing failed, and a reconcile or a rebuild makes them agree again
(forwards, routes, Xray); the active member becomes a healthy one, at most once
per minute, and the records follow (failover); two forwards share a port only if
requests overlapped (allocation); no byte is lost or counted twice but where an
answer is lost, and who exceeds a limit is noticed (accounting); a path is whole
before its entry serves (routes); Xray runs once, and a command that fails leaves
it as it was (Xray on the node).

## Modules

| Module | Models | Code |
|---|---|---|
| `GostNode` | service manager of one node | `service.go`, `config.go`, `loader.go`, `program.go` |
| `GostNodeProofs` | theorems about `GostNode` | |
| `NodeRequest` | abstract: what `SendMsg` promises | `ws.go` 354-387 |
| `NodeSession` | sessions of one node and the requests over them; implements `NodeRequest` | `ws.go`, `main.go` 127-156, `websocket_reporter.go` |
| `NodeSessionProofs` | theorems about `NodeRequest` and `NodeSession`, and that this implements that; a theorem about `Failover`, which acts on what sessions end | |
| `ForwardControl` | one forward: row, services on one or two nodes, all goroutines that change either | `forward.go`, `reconcile.go`, `config_check.go`, ... |
| `ForwardControlProofs` | theorems about `ForwardControl` | |
| `Failover` | one group, its domains and their records | `failover.go`, `group.go`, `ddns.go` |
| `PortAlloc` | rows of ports and the requests that choose and save them | `forward.go`, `route.go`, `user.go` |
| `PortAllocProofs` | theorems about `PortAlloc` | |
| `FlowAccounting` | one user's traffic from the node's counters to the limits | `service.go`, `stats.go`, `traffic_reporter.go`, `flow.go`, `user.go` |
| `FlowAccountingProofs` | theorems about `FlowAccounting` | |
| `RouteControl` | one route forward: row, a service and a chain per hop, all goroutines that change them | `forward.go`, `reconcile.go`, `config_check.go` |
| `RouteControlProofs` | theorems about `RouteControl` | |
| `XrayNode` | Xray's process and file on a node | `manager.go` |
| `XrayNodeProofs` | theorems about `XrayNode` | |
| `XrayControl` | rows of inbounds and clients, and what the node has of them | `xray_inbound.go`, `xray_client.go`, `xray_scheduler.go`, `flow.go`, `reconcile.go` |
| `XrayControlProofs` | theorems about `XrayControl` | |
| `MCGostNode`, `MCForwardControl`, `MCFailover`, `MCPortAlloc`, `MCFlowAccounting`, `MCXrayControl` | symmetry sets and functions the configurations need | |

`GostNode`, `NodeRequest` and `XrayNode` are the nodes; the modules of the panel
contain them in condensed form. A step of the panel that sends a command has the
outcomes of `NodeRequest` as alternatives.

`ForwardControl` contains the node of `GostNode` in condensed form (a name is
absent, open or closed; the configuration's first entry, mark, and whether there
are more) and the outcomes of `NodeRequest` (answered; offline; timed out with the
command executed, lost, or still to be executed).

Operators commented as "Variant, not part of Next" are plausible mistakes; each
property is checked to notice one of them.

### GostNode

`registry` and `listening` are the `ServiceRegistry` and the services in it whose
listener is open; `leaked` are listeners `createServices` opened and forgot when a
later service of the batch failed to parse (until the collector closes them);
`config[s]` is the list of entries of one name in `c.Services`, of which every
loop with `break` finds the first; `disk` is `runtime.json`, `Truncated` between
`os.Create` and the write. `phase` is the receiving goroutine: a command is
executed in one step (nothing else of the process writes this state), then
saved, then answered. `drift` collects the names a half-failed command touched.
A command that fails stops at any service of the batch, after any subset of the
others (Go's slices are in the panel's order; all orders are allowed).
The paused mark of an entry of `c.Services`, which the panel never sends, is a
Boolean; all other fields of a service are its address and its target.

### NodeSession

A connection goes through `HandleConnection` (`upgraded`, old one closed, session
stored, `OnNodeOnline`) and `readNodeMessages` (`reading`, failed, compared,
removed, `OnNodeOffline`); every one of these is a step, because they are
separate calls on `sync.Map` and the database. A request loads the session, is
registered in `pendingRequests`, is written, and waits. The write to a broken
connection is lost. The node executes the commands of a connection in order;
the goroutine of an earlier connection may still be busy. The result channel
has room for one answer and is never read after the timeout.

### ForwardControl

A goroutine is a record: the operation, the row it read, the content it leads to,
the commands still to send (`plan`), whether one failed. `PlanOf` translates each
function's sequence of commands; `Accepts`, `FallsBack` and `Compensation` what it
does with the answers; `RowAfter` what it writes in the end. `mode` tells the
functions apart that treat answers differently: `createGostServices`,
`syncGostServices`, `gentleSyncGostServices`, `deleteGostServicesWithIP`, a hot
update, commands that must succeed, and commands whose answer is ignored.
`disturbed` is set when the code itself gives no guarantee: a command failed or
was late, two goroutines overlapped, or one of the operations in `Disturbs` ran.
`UndisturbedAgree` then says nothing until a complete rebuild has succeeded.
Reported configurations and orphan cleaning are modelled for the one forward.

### Failover

Time is the age of the last switch, capped at `Debounce`. Every worker that applies
records first tells the provider, then saves the row it read. Members are the
nodes of `order`, by priority.

### PortAlloc

A row has the forward's ports and its tunnel or route; `relays` are its rows of
`forward_route_port`. A request chooses node by node (`ChooseEntry`, `ChooseOut`,
`ChooseRelay`: each a read of all rows and the lowest free port of the node's range,
or the port asked for) and saves in a later step, as the code does; nothing is
locked between. `UpdateForward` keeps the ports or chooses new ones, and
`updateRouteForward` replaces the relay rows. `UpdateRoute` counts forwards, then
replaces the hops. `raced` collects the forwards that were saved by a request
during which another one was saved: about these the code promises nothing.

### FlowAccounting

A meter is one life of a service. `observeStats` is `Tick` (the mark is taken),
`Post`, `GiveUp` or an answer, and then the second look at the counter and the
reset, `Subtract` and `Store`, between which traffic goes on. A job of the panel is
one `processFlowData` with its seven database steps, or a resume or delete with its
two. `counted`, `carried`, `wiped` are ghosts to compare with; `leaky`, `retried` and
`excused` name the three places where the code itself gives up: bytes between
the second look and the reset, a report repeated after a lost answer, and a forward
made active while its owner is over the limit. A report contains a raw number of bytes;
the panel multiplies by `Factor` (flow type times ratio) for forwards over tunnels.

### RouteControl

The nodes are numbered along the route. Every goroutine has the commands it
has still to send, as in `ForwardControl`: `Build` deploys from the terminal to the
entry and carries with every step what to take back, `Cleanup` goes the other way,
`Switch` pauses or resumes all, `Gentle` is what a reconcile does on one node. A
node reconciles in a goroutine of its own; reports come with requests.
`disturbed` means the same as in `ForwardControl`. What a node does with commands that
arrive late, and with batches that fail half-way, is left to `GostNode` and
`ForwardControl`.

### XrayNode

Two goroutines work: the one that executes commands and the one of a version
switch. A plan consists of what runs under the manager's lock (`Start`, `Stop`, `IsRunning`,
`updateConfigFile`) and the calls of Xray's API, which are outside of it. `Notice` is
the goroutine that waits for a process. An inbound has, per user, no entry, one, or
more than one; Xray refuses the last, refuses a user it has, and refuses to
remove an inbound it does not have; a second Xray on the same ports ends.
`Prompt` says that the end of a process is noticed before the next `Start`: the
code sleeps half a second or two for this, without checking.

### XrayControl

The node has `runs` and, per inbound, the content and the users it serves, which
are those of the file as long as nothing fails (`XrayNode`). A request writes the
row, sends its plan, and puts the row back when a command fails (`Remedy`). Uploads
of traffic (`Traffic`), the limit of the user (`Expel`), the hourly `Check` and the
requests run as separate goroutines. `written` says whether `updated_time` has been
written since the last reset cycle ended, which is all the scheduler looks at.
A reconcile goes through the inbounds in any order (`Orders`: neither the rows of a query nor
the tags a node reports are sorted); it has failed when the node does not tell its tags.
A reconcile that finds another one at work is skipped in the code; here, and in
`ForwardControl`, it may wait, or never start: what it may do if it starts late is more
than the code does, and its start is not fair. `RouteControl` has the skip.

## Runs

| Run | Bounds | Shows |
|---|---|---|
| `GostNodeCore` | a tcp and udp pair, 2 addresses, 1 target, 1 entry per name | `TypeOK`, `RegisteredHasConfig`, `UnpausedRuns`, `OnlyFailuresDesync`, `AnsweredIsDurable`, `FailedBatchHarmless` |
| `NodeSessionOnline` | 3 connections, 1 request | `TypeOK`, `StatusFollowsSession`, `PendingHasCaller`, `DeadSessionGoes`, `ImplementsRequest` |
| `ForwardControlPort` | port forward, 2 requests at once, 1 fault | `TypeOK`, `UndisturbedAgree` |
| `ForwardControlTunnel` | tunnel forward, every operation, 1 request beside the reconciles, 1 fault | `UndisturbedAgree`, `ReconcileRestores`, `OrphansGo` |
| `FailoverGroup` | 2 nodes, 2 lists of members, 1 domain, 3 changes, debounce 2 | `Debounced`, `Settles`, `RecordsFollow` |
| `PortAllocRows` | 2 requests at once, 2 forwards, 2 nodes, a route, a tunnel on one node and one on two | `TypeOK`, `PortsDistinct`, `RelaysFollowRoute` |
| `FlowBytes` | 1 forward, 2 services of it, 2 bytes, 1 restart of the panel | `TypeOK`, `NothingLost`, `NothingTwice`, `Reported` |
| `FlowLimits` | 3 forwards, one of them over a route, 2 permissions, limits of 1 or 2 bytes, 2 goroutines | `ChargesFollow`, `LimitNoticed` |
| `RoutePath` | 3 nodes, the last of them newly connected, 2 contents, 1 request beside the 3 reconciles, 1 fault | `TypeOK`, `UndisturbedAgree`, `EntryLast`, `ReconcileRestores` |
| `XrayProcess` | 1 inbound, 1 user, 4 processes, 2 faults | `TypeOK`, `OneProcess`, `Persisted`, `FailureKeeps` |
| `XrayPanel` | 2 inbounds, 1 client, 2 contents of the first inbound, every operation, 1 fault | `TypeOK`, `UndisturbedAgree`, `LimitNoticed`, `ReconcileRestores` |

Why the bounds suffice: two services compete for two addresses, so every order
of closing, failing and re-creating occurs; three connections are an old, a
current and a next one; a second request on a forward is what a first can overlap
with; one fault puts the failure at every place of every plan, and its
consequences are followed without a bound on what comes after. Requests to a node
share nothing but the queues and `pendingRequests`, so that one request is enough
where connections are three. Ports are chosen per node, and a conflict is between
two rows. Three hops are an entry, a relay and a terminal, the three kinds of services and
chains there are. A node that has just connected (`Arrived`) has its reconcile still before
it, so that one fault, a second connection, meets a reconcile under way. One byte before and one during a report are what
the counter has to keep apart; a second service of a forward drains while the
first report of the next is made. In `XrayProcess` a first fault makes a command fail
and a second its remedy. A client has one inbound; the second inbound is there for what
concerns the process as a whole (the last enabled one stops it, reconciles, orphans).

`CHECK_DEADLOCK FALSE` stands where the system may really stop: connections,
requests, processes and traffic are finitely many, and a forward or inbound that is
gone stays gone. Elsewhere a state without a successor would be reported.

`ForwardControl` has two specifications: `Safe`, without fairness, for the run that
checks invariants only, and `Spec` for the one with `OrphansGo`.

One run ends in a violation, and compares the code with its comment:

| Run | Statement | What happens |
|---|---|---|
| `XrayReset` | "resets traffic for clients whose reset cycle has elapsed" (`xray_scheduler.go` 39) | any write of the client's row after the end of its cycle, such as an edit, counts as the reset, which then waits for the next cycle |

### Behaviour that surprises

The models contain the following, and the properties make room for it.

- *Service manager.* A node that starts again serves services that were paused, since
  `program.Start` does not look at the mark. An update that fails and an add leave
  two entries of one service in the configuration, with which the node does not start
  again.
- *Sessions.* `readNodeMessages` compares the session and deletes it in two steps, so it
  may delete that of its successor.
- *Forwards.* A reconcile decides from the row it read: a forward paused meanwhile is
  served again. A tunnel's pair of services of which an update has left only one is not
  completed by a reconcile (`HalfPair`), since "already exists" is accepted, and an error
  row turns active over it; this takes two faults, which is one more than the run's bound.
  It leaves closed services of an active forward closed, because the
  update it sends finds them registered. Renaming a paused forward makes its row
  active (`rename` is one of `Disturbs`). Deleting sends nothing to a node without a
  session, which may well be serving.
- *Failover.* An error of the DNS provider is dropped after the group has switched, and
  the record keeps the dead member. `ResolveDdnsDomain` publishes the healthy member of
  the highest priority, which is not always the active one. A domain row saved from
  an old read undoes a later save.
- *Ports.* A user's forward that an administrator moved to a route leaves its relay ports
  taken when the user is deleted. Moving a forward from a tunnel to a route sends nothing
  about its old services. Ports of Xray inbounds are not looked at.
- *Traffic.* Forwards over routes are charged to the user but never checked or paused.
  A pause command that fails leaves the row paused and the service open. The user's
  limit lets its last byte pass, the permission's does not, and resuming is refused
  by a third comparison. A service that was closed goes on counting for its
  connections. What is left after a failed report waits for new traffic. The panel answers
  "ok" to an unknown node secret, which the node takes for a success.
- *Routes.* The reconcile of one node turns a forward from error to active although
  other hops have nothing; it adds forwards over disabled routes too, and keeps services
  that exist, whatever they contain.
- *Xray on the node.* If `Start` follows `Stop` before the waiting goroutine has run,
  that goroutine marks the new process as stopped (`Prompt = FALSE`). If the old binary
  cannot be saved, a version switch leaves Xray stopped; one that succeeds
  starts an Xray that was stopped, and does not verify it. An inbound added to a
  stopped Xray stays in the file although the start fails over it, and so does every later
  start. Adding a user that is there removes it. Removing a user that is not there leaves the
  inbound out when the reload fails. The first `ApplyConfig` is not taken back.
- *Xray on the panel.* `CreateXrayInbound` looks for a Chinese message where the node answers in
  English, and marks the row as an error. `ExpTime` and `LimitIp` are stored and enforced
  nowhere. A disabled inbound cannot be deleted while its node is online, nor can its
  clients. The last inbound, deleted while the node is away, stays in
  the file and is served again when another one starts Xray. A reset enables clients
  that were disabled by hand or for the user's limit. Saving a whole client row
  (`xray_client.go` 281) overwrites what was counted meanwhile, and resurrects a deleted one.
  The node's traffic reporter resets Xray's counters as it reads them: an upload that fails is lost.

## Fairness

Weak fairness is assumed for goroutines the Go scheduler runs and timers that
fire: the panel's handlers, readers and waiting callers, the commands of a plan, the
failover task's loop, the ticker and the report of every service, and the steps of
an upload that has arrived. Nodes are restarted by their service manager or container
and reconnect (`run` of the reporter loops), so starting and connecting are fair;
crashing, traffic, requests of people and changes of the network are not. Reports are
strongly fair in `ForwardControl`: `StartConfigReporter` reports every ten minutes, and a
report has a goroutine of its own that other requests only keep waiting in the model,
where goroutines are few. `PortAlloc`, `RouteControl`, `XrayNode` and `XrayControl` state safety
only, and no fairness.

## Proofs

All theorems hold for any value of the constants that satisfies the module's
assumption.

`GostNodeProofs` proves every property of `GostNodeCore`, for any finite or infinite
`Names`, `Addrs` and `Targets`:

| Theorem | Property |
|---|---|
| `TypeCorrect` | `TypeOK` |
| `LiveIsConfigured` | `RegisteredHasConfig` |
| `NotPausedRuns` | `UnpausedRuns` |
| `DesyncNeedsFailure` | `OnlyFailuresDesync` |
| `SavedSurvives` | `AnsweredIsDurable` |
| `FailuresHarmless` | `FailedBatchHarmless` |

The inductive invariant `IInv` is `TypeOK` and, for every name, `NameOK`: a registered
name has an entry in the configuration; a registered name that is not marked
paused listens; a name outside `drift` agrees with its first entry while the process
is up. None of these is inductive alone: whether an update keeps a name in
agreement depends on its having an entry to change, whether a pause that is rolled
back can harm depends on there being one for every live service. The proof goes
name by name: `NameFrame` disposes of the names a command does not touch, the
lemmas `FirstIsEntry` and `SetFirstFacts` say what happens to sequences of entries,
and one lemma per action does the rest. `AnsweredIsDurable` relates `disk` and `config`
only and has a small invariant of its own, which uses `TypeOK`. `FailedBatchHarmless` is an
action property: by `IInv`, a pause that closes some services and then fails needs a
live service without configuration; every pause that does fail is refused before it
closes anything.

`NodeSessionProofs` proves first, of the abstract `NodeRequest` and for any set of requests,
`AtMostOnce` (no request is executed twice) and `OutcomeIsConclusive` (an answer means
executed, "node offline" never); the rest of the module carries them to the sessions.

It then proves, for any connections and requests, `Types` (`TypeOK`),
`StatusRight` (`StatusFollowsSession`), `NoLeak` (`PendingHasCaller`), `Implements` (every step
of `NodeSession` is one of `NodeRequest!Safe` or a stutter) and from it `Conclusions`. The
invariant says that a command waits at one place of one queue at most and was not
executed yet, that a response is of a request that was executed, that a
registered request has a caller, and that, unless a goroutine overtook another, a row
that is online without a session has a reader that is about to write it. The first
of these is what at most one execution rests on: connections replace each other
while commands wait on the old ones. `ImplementsRequest` in the run
adds the liveness of `NodeRequest`, which is beyond the prover.

`PortAllocProofs` proves `Types` (`TypeOK`), `Distinct` (`PortsDistinct`) and `RelaysFollow`
(`RelaysFollowRoute`), for any number of nodes, forwards and requests. `PortsDistinct`
speaks of saved rows; the inductive invariant adds what a request under way has already chosen: as long as nothing was saved
since it began, each of its choices is a port that no other forward has on that node
and that it has not chosen itself. Saving then either keeps rows apart or marks the
forward as raced. `RelaysFollow` adds where on its way a request is: the
first hops of the route have a port each, the others are what is left to do (`AtHop`). That
a hop has one port only rests on a route having each node once, which
`validateRouteNodes` sees to (`PortAssumption`).

`FlowAccountingProofs` proves `Types` (`TypeOK`), `Kept` (`NothingLost`), `Once`
(`NothingTwice`) and `Limit` (`LimitNoticed`). The invariant `Base` ties a report to the
upload it caused: a goroutine that has not yet added its bytes belongs to the
meter that is waiting for it, with the same amount. On it rests `Bytes`, one statement per
meter about what is carried, counted, in the counter and on the way, by the stage of the
report. `Limit` goes by stages of an upload: whoever lifts an account over its limit still
has the comparison before it, and the comparison hands every active forward to the
pauses. `Charged` (`ChargesFollow`) is about sums: `SumOver` counts units, so that the
theorems on finite sets apply, and one forward or goroutine can be taken out of its sum. An
upload owes with its first write and pays with the later ones (`DueGrows`, `DueShrinks`), by
the same bill each time; the assumption `FlowFinite` says that there are finitely many
forwards and goroutines.

The last section of `NodeSessionProofs` proves `DebounceKept` (`Debounced`) of `Failover`, for any
length of the debounce but zero: the age on the group's row, and the
one the task has read, are the time since the last switch as long as no request has
saved an old row.

`ForwardControlProofs` proves every invariant of its two runs, for port and tunnel forwards,
any contents and goroutines, and any number of faults: `TypeCorrect` (`TypeOK`),
`RowsAgree` (`UndisturbedAgree`) and `ReconcileGives` (`ReconcileRestores`). The two safety
properties speak of moments when the last command has been sent; the invariant `IInv` says
what holds before. `CleanAlone`: a goroutine that nothing has overlapped is the only one.
`Blamed`: whoever was overlapped, or met a failure, has disturbed the forward; `AllUp`: so has
a node that is down. `Understood`: what a goroutine that nothing has overlapped knows
(`Knows`), by its operation and by how many commands of its plan are behind it (`Rest`, `Past`). On a
forward that nothing has disturbed each operation knows every name it has dealt with and
every name it has not (`Steady`: `Creating`, `Retargeting`, `Relistening`, `Removing`, `Switching`, ...).
Two know something even of a disturbed forward: a rebuild, that the parts it has done serve the
new content from nodes that are up, with an older entry in the configuration at worst
(`Rebuilding`), which is why a complete one may declare the forward undisturbed; and a
reconcile, which parts are registered and forward to the row's content (`Restoring`). `AtRest`: with
nobody under way an undisturbed forward is as its row says (`Settled`), which is stronger
than `Agree`: it includes the node's configuration, from which a resume opens services, and
without which resuming and restarting would not keep `Agree`. One lemma per command says what its answer
tells the sender (`SentAdd`, `SentUpdate`, ...), one per operation that it goes on knowing
(`CreateHears`, `SwitchHears`, `RebuildHears`, `RestoreHears`, ...), and one per action that
`IInv` is kept.

`RouteControlProofs` proves all that the run checks, for any hops, jobs and faults: `TypeCorrect`
(`TypeOK`), `RowsAgree` (`UndisturbedAgree`), `EntryComesLast` (`EntryLast`) and `ReconcileGives`
(`ReconcileRestores`). What the four rest on is `Known`: for each goroutine that nothing
has overlapped, what it knows of services and chains of every hop, by its operation
and by what is left of its plan (`Doing`), and for a reconcile what it has mended so far, hop
by hop (`Mending`). `CleanAlone` says that such a goroutine is the only one, so that
nobody but itself can falsify what it knows; when it ends without a failure, nothing is
left of the plan, and what it knows is that rows and nodes agree. Plans are handled under
names (`Is(plan, head, tail)`), one lemma per operation and step.

`XrayNodeProofs` proves all that the run checks, from the assumption `Prompt` (what is noticed
late is noticed before the next start): `TypeCorrect` (`TypeOK`), `Alone` (`OneProcess`), `FileFollows`
(`Persisted`) and `FailureHarmless` (`FailureKeeps`). For `Alone` the invariant adds that as long as an
end has not been noticed, no process lives: what is noticed late cannot be taken for
the end of another. For `FileFollows`, `PInv` says how file and request stand to each other by what
is left of the plan: they agree, the command has stopped, the file is ahead, behind, or
nothing is known of it. For `FailureHarmless`, `FInv` adds that nobody is served twice
(`UpSound`: adding a user again would fail) and, by plan, what file and process are and
how many faults there have been since the command began (`Mends`): with one fault at most, what
the command does to undo itself succeeds, and things are as they were.

`XrayControlProofs` proves all that `XrayPanel` checks, for any inbounds, clients, goroutines, limit
and faults: `TypeCorrect` (`TypeOK`), `LimitSeen` (`LimitNoticed`), `RowsAgree` (`UndisturbedAgree`)
and `ReconcileGives` (`ReconcileRestores`). For `LimitSeen` (`IInv`): a client that is switched on
beyond its limit, and was not let go on, has a goroutine that will see to it: an upload
that has the comparison before it, or an operation that something overlapped and whose end
excuses the client. The invariant adds that a goroutine nothing has overlapped is the only
one, so that what it read of a client is still so: an update that fails and puts the old
row back brings no client beyond its limit that was not excused before, a reset switches on
a client that has used nothing. Which operations may write a client at all is in the type
of their plans.

`RowsAgree` rests on what a goroutine that nothing has overlapped knows (`Knows`): by its
operation and by what is left of its plan, what Xray has of the inbound or client it works
on (`Creating`, `Updating`, `Removing`, ...), and that the inbounds it does not work on are as
they should be, unless they were disturbed before (`Spared`). A command that fails and whose
remedy puts the row back keeps this; a timeout, after which nobody knows what the node did,
disturbs the inbound. One that was overlapped says nothing of any inbound (`Blamed`), so that
the two together (`SettledInv`) are inductive. A reconcile works on all inbounds at once: what
it has still to add is a sequence of any length in any order (`Adding`), and an inbound outside of
it is what its row wants; then it has still to remove what no row has (`Cleaning`).
`ReconcileGives` is what remains of these when the sequences have run out and no command
has failed.

Every invariant a run checks is thus also a theorem. Only model-checked are the liveness
properties (`Reported`, `DeadSessionGoes`, `OrphansGo`, `Settles`, `RecordsFollow`): liveness under fairness is
beyond the prover, and so are `ENABLED`, what a recursive definition computes for every
input (induction over data) and modules with `RECURSIVE` operators; no module here has any of
the last.

## Not modelled

Most of the repository's lines are not the system's own logic: the node contains the
GOST library (listeners, dialers, handlers, connectors, protocol sniffing, parsers), which the
modelled code enters through parsing a service, `Serve` and `Close` only; the panel has a web
front end, an HTTP layer and a Telegram bot, all of which end in the operations
modelled here. Certificates, updates and installation are sequences of calls to
programs and services outside; the audit collects records that nothing acts on;
dashboards, monitors and statistics read. A model of these would restate the calls.

Of the modelled parts: the reload on SIGHUP and the web API of `x/api`, which the panel
never uses; administrators' sessions; multi-address listening (it multiplies the
pair of services); limiters; permissions and quotas (they refuse requests before these
have an effect); expiry and disabling of users and permissions; fractional traffic ratios;
the removal of a deleted user's Xray clients; a change of a client's limit; certificates of
inbounds; subscriptions. Creating, renaming and deleting rows that have no service
(tunnels, nodes, groups, domains, providers) are single statements after checks of
references.

------------------------------- MODULE Failover -------------------------------
(***************************************************************************)
(* A node group: its active member, the task that replaces it when the     *)
(* node goes offline (go-backend/service/failover.go), the DNS records     *)
(* that follow it (ddns.go), and the requests of administrators that read  *)
(* and save whole rows meanwhile (group.go, ddns.go).                      *)
(*                                                                         *)
(* Time passes in steps of Tick; what matters of a switch is how long ago  *)
(* it was, so the row's last_switch_time is kept as an age, up to the      *)
(* Debounce from which on it no longer matters.                            *)
(***************************************************************************)
EXTENDS Naturals, Sequences, SequencesExt

CONSTANTS
    Nodes,      \* nodes that can be members
    Domains,    \* DNS records bound to the group
    None,       \* no node
    Orders,     \* lists of members, by priority, that administrators save
    Debounce,   \* failoverDebounceMs
    MaxChanges  \* bound: nodes coming and going, requests, DNS failures

ASSUME FailoverAssumption ==
    /\ None \notin Nodes
    /\ Orders \subseteq Seq(Nodes)
    /\ Debounce \in Nat \ {0}
    /\ MaxChanges \in Nat

VARIABLES
    online,     \* nodes with a session
    order,      \* group_member rows by priority
    group,      \* the group's row: active member, age of the switch, switch back
    dom,        \* domain rows: auto_resolve, current_member_id
    dns,        \* what the provider answers (external)
    task,       \* the failover task
    editor,     \* UpdateGroup: the row as it was read
    resolver,   \* ResolveDdnsDomain
    webmaster,  \* UpdateDdnsDomain: the row as it was read
    changes,    \* what MaxChanges bounds
    age,        \* auxiliary: time since the task last switched
    stale,      \* auxiliary: a request has saved an old group row
    disturbed   \* auxiliary: DNS failed, or a request touched records or members

failoverVars == <<online, order, group, dom, dns, task, editor, resolver, webmaster,
          changes, age, stale, disturbed>>

Change == changes < MaxChanges /\ changes' = changes + 1

\* A goroutine applying records: applyDdnsRecord for the domains in todo.
NoWork == [at |-> "idle", group |-> None, target |-> None, todo |-> <<>>]
NoRow  == [at |-> "idle"]

-----------------------------------------------------------------------------
(* Health.                                                                 *)

Members == ToSet(order)
Healthy == Members \cap online

\* firstHealthy.
Best == order[CHOOSE i \in DOMAIN order :
                 order[i] \in online /\ \A j \in 1..(i - 1) : order[j] \notin online]

ComeAndGo(n) ==
    /\ Change
    /\ online' = IF n \in online THEN online \ {n} ELSE online \cup {n}
    /\ UNCHANGED <<order, group, dom, dns, task, editor, resolver, webmaster,
                   age, stale, disturbed>>

Older(a) == IF a < Debounce THEN a + 1 ELSE a

\* Old rows read by others age as well: they hold the time of the switch.
Tick ==
    /\ group.age < Debounce \/ age < Debounce
    /\ group' = [group EXCEPT !.age = Older(@)]
    /\ task' = IF task.at = "read" THEN [task EXCEPT !.group.age = Older(@)] ELSE task
    /\ editor' = IF editor.at = "read" THEN [editor EXCEPT !.row.age = Older(@)]
                 ELSE editor
    /\ age' = Older(age)
    /\ UNCHANGED <<online, order, dom, dns, resolver, webmaster, changes, stale,
                   disturbed>>

-----------------------------------------------------------------------------
(* The failover task.                                                      *)

\* EvaluateFailover reads all groups; this one's turn comes later.
ReadGroups ==
    /\ task.at = "idle"
    /\ task' = [NoWork EXCEPT !.at = "read", !.group = group]
    /\ UNCHANGED <<online, order, group, dom, dns, editor, resolver, webmaster,
                   changes, age, stale, disturbed>>

\* evaluateGroupFailover: is there anything to switch to, with g as read?
Stays(g) ==
    \/ Healthy = {}
    \/ ~ g.back /\ g.active \in Healthy
    \/ Healthy # {} /\ Best = g.active

\* Variant, not part of FailoverNext: every look at the group restarts the debounce.
EvaluateRestarting ==
    /\ task.at = "read"
    /\ task' = NoWork
    /\ Stays(task.group) \/ task.group.age < Debounce
    /\ group' = IF Stays(task.group) THEN group ELSE [group EXCEPT !.age = 0]
    /\ UNCHANGED <<online, order, dom, dns, editor, resolver, webmaster, changes,
                   age, stale, disturbed>>

EvaluateNoSwitch ==
    /\ task.at = "read"
    /\ Stays(task.group) \/ task.group.age < Debounce
    /\ task' = NoWork
    /\ UNCHANGED <<online, order, group, dom, dns, editor, resolver, webmaster,
                   changes, age, stale, disturbed>>

\* Domains of the group with auto_resolve, as applyGroupSwitch reads them.
AutoDomains == SetToSeq({d \in Domains : dom[d].auto})
RowsOf(ds) == [i \in DOMAIN ds |-> [domain |-> ds[i], row |-> dom[ds[i]]]]

\* Variant, not part of FailoverNext: a failing member is replaced at once.
SwitchAtOnce ==
    /\ task.at = "read"
    /\ ~ Stays(task.group)
    /\ group' = [group EXCEPT !.active = Best, !.age = 0]
    /\ age' = 0
    /\ task' = [NoWork EXCEPT !.at = "records", !.target = Best,
                              !.todo = RowsOf(AutoDomains)]
    /\ UNCHANGED <<online, order, dom, dns, editor, resolver, webmaster, changes,
                   stale, disturbed>>

\* applyGroupSwitch writes the two columns, then applies the records.
Switch ==
    /\ task.at = "read"
    /\ ~ Stays(task.group)
    /\ task.group.age = Debounce
    /\ group' = [group EXCEPT !.active = Best, !.age = 0]
    /\ age' = 0
    /\ task' = [NoWork EXCEPT !.at = "records", !.target = Best,
                              !.todo = RowsOf(AutoDomains)]
    /\ UNCHANGED <<online, order, dom, dns, editor, resolver, webmaster, changes,
                   stale, disturbed>>

\* applyDdnsRecord for the next domain of worker w: the provider is told ...
SetRecord(w) ==
    /\ w.at = "records"
    /\ w.todo # <<>>
    /\ dns' = [dns EXCEPT ![Head(w.todo).domain] = w.target]

\* ... and the row is saved whole, as it was read.
SaveRecord(w) ==
    /\ w.at = "told"
    /\ dom' = [dom EXCEPT ![Head(w.todo).domain] =
                 [Head(w.todo).row EXCEPT !.member = w.target]]

Told(w)  == [w EXCEPT !.at = "told"]
Next1(w) == IF Len(w.todo) = 1 THEN NoWork
            ELSE [w EXCEPT !.at = "records", !.todo = Tail(@)]

\* Variant, not part of FailoverNext: a domain that has a record keeps it.
TaskSetsFirstRecord ==
    /\ SetRecord(task)
    /\ dns[Head(task.todo).domain] = None
    /\ task' = Told(task)
    /\ UNCHANGED <<online, order, group, dom, editor, resolver, webmaster, changes,
                   age, stale, disturbed>>

TaskSetsRecord ==
    /\ SetRecord(task)
    /\ task' = Told(task)
    /\ UNCHANGED <<online, order, group, dom, editor, resolver, webmaster, changes,
                   age, stale, disturbed>>

TaskSavesRecord ==
    /\ SaveRecord(task)
    /\ task' = Next1(task)
    /\ UNCHANGED <<online, order, group, dns, editor, resolver, webmaster, changes,
                   age, stale, disturbed>>

\* An error of the provider is logged; nothing tries again.
TaskRecordFails ==
    /\ task.at = "records"
    /\ task.todo # <<>>
    /\ Change
    /\ task' = Next1(task)
    /\ disturbed' = TRUE
    /\ UNCHANGED <<online, order, group, dom, dns, editor, resolver, webmaster,
                   age, stale>>

TaskHasNoRecords ==
    /\ task.at = "records"
    /\ task.todo = <<>>
    /\ task' = NoWork
    /\ UNCHANGED <<online, order, group, dom, dns, editor, resolver, webmaster,
                   changes, age, stale, disturbed>>

-----------------------------------------------------------------------------
(* Requests.                                                               *)

\* UpdateGroup reads the row, changes it and saves every column of it,
\* with new members or without.
ReadGroup ==
    /\ editor.at = "idle"
    /\ Change
    /\ editor' = [at |-> "read", row |-> group]
    /\ UNCHANGED <<online, order, group, dom, dns, task, resolver, webmaster, age,
                   stale, disturbed>>

SaveGroup(o, back) ==
    /\ editor.at = "read"
    /\ group' = [editor.row EXCEPT !.back = back]
    /\ order' = o
    /\ stale' = (stale \/ editor.row.active # group.active \/ editor.row.age # group.age)
    /\ disturbed' = (disturbed \/ o # order \/ stale')
    /\ editor' = NoRow
    /\ UNCHANGED <<online, dom, dns, task, resolver, webmaster, changes, age>>

\* ResolveDdnsDomain: the record of one domain, for activeGroupMember.
PickMember(d) ==
    /\ resolver.at = "idle"
    /\ Healthy # {}
    /\ Change
    /\ resolver' = [NoWork EXCEPT !.at = "records", !.target = Best,
                                  !.todo = RowsOf(<<d>>)]
    /\ disturbed' = TRUE
    /\ UNCHANGED <<online, order, group, dom, dns, task, editor, webmaster, age,
                   stale>>

ResolverSetsRecord ==
    /\ SetRecord(resolver)
    /\ resolver' = Told(resolver)
    /\ UNCHANGED <<online, order, group, dom, task, editor, webmaster, changes, age,
                   stale, disturbed>>

ResolverFails ==
    /\ resolver.at = "records"
    /\ resolver' = NoWork
    /\ UNCHANGED <<online, order, group, dom, dns, task, editor, webmaster, changes,
                   age, stale, disturbed>>

ResolverSavesRecord ==
    /\ SaveRecord(resolver)
    /\ resolver' = NoWork
    /\ UNCHANGED <<online, order, group, dns, task, editor, webmaster, changes, age,
                   stale, disturbed>>

\* UpdateDdnsDomain reads a row and saves all of it.
ReadDomain(d) ==
    /\ webmaster.at = "idle"
    /\ Change
    /\ webmaster' = [at |-> "read", domain |-> d, row |-> dom[d]]
    /\ UNCHANGED <<online, order, group, dom, dns, task, editor, resolver, age,
                   stale, disturbed>>

SaveDomain(auto) ==
    /\ webmaster.at = "read"
    /\ dom' = [dom EXCEPT ![webmaster.domain] = [webmaster.row EXCEPT !.auto = auto]]
    /\ disturbed' = (disturbed \/ auto # dom[webmaster.domain].auto
                     \/ webmaster.row # dom[webmaster.domain] \/ task.at # "idle")
    /\ webmaster' = NoRow
    /\ UNCHANGED <<online, order, group, dns, task, editor, resolver, changes, age,
                   stale>>

-----------------------------------------------------------------------------
FailoverInit ==
    /\ online \in SUBSET Nodes
    /\ order \in Orders
    /\ group \in [active: {None}, age: {Debounce}, back: BOOLEAN]
    /\ dom = [d \in Domains |-> [auto |-> TRUE, member |-> None]]
    /\ dns = [d \in Domains |-> None]
    /\ task = NoWork
    /\ editor = NoRow
    /\ resolver = NoWork
    /\ webmaster = NoRow
    /\ changes = 0
    /\ age = Debounce
    /\ stale = FALSE
    /\ disturbed = FALSE

Task ==
    \/ ReadGroups \/ EvaluateNoSwitch \/ Switch
    \/ TaskSetsRecord \/ TaskSavesRecord \/ TaskRecordFails \/ TaskHasNoRecords

Resolver == ResolverSetsRecord \/ ResolverFails \/ ResolverSavesRecord

EditGroup == \E o \in Orders \cup {order}, back \in BOOLEAN : SaveGroup(o, back)

EditDomain == \E auto \in BOOLEAN : SaveDomain(auto)

FailoverNext ==
    \/ \E n \in Nodes : ComeAndGo(n)
    \/ Tick
    \/ Task
    \/ ReadGroup \/ EditGroup
    \/ \E d \in Domains : PickMember(d) \/ ReadDomain(d)
    \/ Resolver
    \/ EditDomain

\* Time passes, the task loops every 30 seconds, requests come to an end.
FailoverFairness ==
    /\ WF_failoverVars(Tick) /\ WF_failoverVars(Task)
    /\ WF_failoverVars(Resolver) /\ WF_failoverVars(EditGroup) /\ WF_failoverVars(EditDomain)

FailoverSpec == FailoverInit /\ [][FailoverNext]_failoverVars /\ FailoverFairness

-----------------------------------------------------------------------------
(* Properties.                                                             *)

\* The task does not switch twice within the debounce, however nodes flap, as
\* long as no request has saved a group row it had read before a switch
\* (failover.go:65-68).
Debounced ==
    [][Switch => age = Debounce \/ stale]_failoverVars

\* Once nodes and administrators keep still, the active member is a healthy
\* one, and the best if the group switches back, unless none is healthy:
\* neither the debounce nor an old row puts that off for ever (failover.go:42-72).
Settles ==
    <>[](Healthy # {} => /\ group.active \in Healthy
                         /\ group.back => group.active = Best)

\* And then the records, at the provider and in the rows, are those of the
\* active member, unless the provider failed or a request touched records or
\* members (failover.go:90-92, ddns.go:206-228).
RecordsFollow ==
    <>[](Healthy # {} /\ ~ disturbed =>
           \A d \in Domains : dns[d] = group.active /\ dom[d].member = group.active)
=============================================================================

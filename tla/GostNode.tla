------------------------------ MODULE GostNode ------------------------------
(***************************************************************************)
(* The service manager of a node (go-node/x/socket): the commands the      *)
(* panel sends about forwarding services, the registry of live services,   *)
(* the configuration kept beside it, and runtime.json, from which the      *)
(* process starts again after a crash.                                     *)
(*                                                                         *)
(* A command is a batch of services (a forward is a tcp and a udp          *)
(* service).  Commands of a node are executed one at a time by the         *)
(* receiving goroutine: execute, save runtime.json, answer.                *)
(***************************************************************************)
EXTENDS Naturals, Sequences, FiniteSets

CONSTANTS
    Names,      \* service names
    Addrs,      \* listening addresses (network, ip, port)
    Targets,    \* forwarder contents (remote addresses and strategy)
    Absent,     \* a name nothing is registered under
    Truncated,  \* runtime.json between os.Create and the write
    MaxEntries  \* bound: entries one name may get in the configuration

SvcSpecs   == [addr: Addrs, target: Targets]
Entry      == [spec: SvcSpecs, paused: BOOLEAN]
ConfigFile == [Names -> Seq(Entry)]
Ops        == {"none", "create", "update", "delete", "pause", "resume",
               "forwarder"}

ASSUME NodeAssumption ==
    /\ MaxEntries \in Nat \ {0}
    /\ Absent \notin SvcSpecs
    /\ Truncated \notin ConfigFile

VARIABLES
    registry,   \* ServiceRegistry: what is registered under a name
    listening,  \* names whose registered service has its listener open
    leaked,     \* addresses held by parsed services nobody refers to
    foreign,    \* addresses held by other processes of the host
    config,     \* config.Global().Services, per name in list order
    disk,       \* runtime.json
    phase,      \* progress of the receiving goroutine
    cmd,        \* the last command, its outcome, whether it was saved
    drift       \* auxiliary: names a command that failed half-way touched

vars == <<registry, listening, leaked, foreign, config, disk, phase, cmd, drift>>

Phases == {"down", "idle", "executed", "truncated", "saved", "unsaved"}

NoCmd == [op |-> "none", names |-> {}, ok |-> TRUE, saved |-> TRUE]

-----------------------------------------------------------------------------
(* Helpers.                                                                *)

Registered == {s \in Names : registry[s] # Absent}

\* The first entry of a name is the one every loop over c.Services finds.
Configured(s) == config[s] # <<>>
First(s)      == config[s][1]
Paused(s)     == Configured(s) /\ First(s).paused

\* Addresses the process itself has bound; N are names about to be closed.
BoundWithout(N) == {registry[s].addr : s \in listening \ N} \cup leaked

\* ParseService opens the listener: it works only on an address nobody holds.
\* The services parsed before in the same batch hold theirs.
Bindable(b, D, N) ==
    /\ \A s \in D : b[s].addr \notin BoundWithout(N) \cup foreign
    /\ \A s, t \in D : b[s].addr = b[t].addr => s = t

\* The loops with "break": the first entry of each name in N is replaced.
SetFirst(N, e) ==
    [s \in Names |-> IF s \in N /\ Configured(s)
                     THEN [config[s] EXCEPT ![1] = e[s]] ELSE config[s]]

MarkPaused(N, p) ==
    SetFirst(N, [s \in N |-> [spec |-> First(s).spec, paused |-> p]])

Executes(op, N, ok) ==
    /\ phase = "idle"
    /\ phase' = "executed"
    /\ cmd' = [op |-> op, names |-> N, ok |-> ok, saved |-> FALSE]
    /\ UNCHANGED <<foreign, disk>>

Batches == {b \in UNION {[N -> SvcSpecs] : N \in SUBSET Names} : DOMAIN b # {}}

-----------------------------------------------------------------------------
(* Commands about services.                                                *)

\* createServices: everything is parsed first, then registered and served.
CreateServices(b) ==
    LET N == DOMAIN b IN
    /\ Executes("create", N, TRUE)
    /\ N \cap Registered = {}
    /\ Bindable(b, N, {})
    /\ \A s \in N : Len(config[s]) < MaxEntries
    /\ registry' = [s \in Names |-> IF s \in N THEN b[s] ELSE registry[s]]
    /\ listening' = listening \cup N
    /\ config' = [s \in Names |->
                    IF s \in N
                    THEN Append(config[s], [spec |-> b[s], paused |-> FALSE])
                    ELSE config[s]]
    /\ UNCHANGED <<leaked, drift>>

\* createServices returns from the first phase: the services parsed before
\* the failing one (D) keep their listeners and are forgotten.
CreateServicesFails(b) ==
    \E f \in DOMAIN b : \E D \in SUBSET (DOMAIN b \ {f}) :
        /\ Executes("create", DOMAIN b, FALSE)
        /\ D \cap Registered = {}
        /\ Bindable(b, D, {})
        /\ leaked' = leaked \cup {b[s].addr : s \in D}
        /\ UNCHANGED <<registry, listening, config, drift>>

\* Variant, not part of Next: the configuration is not told of the update.
UpdateServicesUnconfigured(b) ==
    LET N == DOMAIN b IN
    /\ Executes("update", N, TRUE)
    /\ N \subseteq Registered
    /\ Bindable(b, N, N)
    /\ registry' = [s \in Names |-> IF s \in N THEN b[s] ELSE registry[s]]
    /\ listening' = listening \cup N
    /\ UNCHANGED <<leaked, config, drift>>

\* updateServices: all must be registered; all are closed, then re-created.
UpdateServices(b) ==
    LET N == DOMAIN b IN
    /\ Executes("update", N, TRUE)
    /\ N \subseteq Registered
    /\ Bindable(b, N, N)
    /\ registry' = [s \in Names |-> IF s \in N THEN b[s] ELSE registry[s]]
    /\ listening' = listening \cup N
    /\ config' = SetFirst(N, [s \in N |-> [spec |-> b[s], paused |-> FALSE]])
    /\ drift' = {s \in drift : ~ (s \in N /\ Len(config[s]) = 1)}
    /\ UNCHANGED leaked

\* A service of the batch is not registered: nothing has been touched.
UpdateServicesNotFound(b) ==
    /\ Executes("update", DOMAIN b, FALSE)
    /\ ~ (DOMAIN b \subseteq Registered)
    /\ UNCHANGED <<registry, listening, leaked, config, drift>>

\* Variant, not part of Next: the configuration is emptied before re-creating.
UpdateServicesFailsLossy(b) ==
    LET N == DOMAIN b IN
    \E f \in N : \E D \in SUBSET (N \ {f}) :
        /\ Executes("update", N, FALSE)
        /\ N \subseteq Registered
        /\ Bindable(b, D, N)
        /\ registry' = [s \in Names |-> IF s \in D THEN b[s]
                                        ELSE IF s \in N THEN Absent
                                        ELSE registry[s]]
        /\ listening' = (listening \ N) \cup D
        /\ config' = [s \in Names |-> IF s \in N THEN <<>> ELSE config[s]]
        /\ drift' = drift \cup N
        /\ UNCHANGED leaked

\* Re-creating fails at f after the services of D: the others of the batch
\* are closed and unregistered, the configuration still has the old entries.
UpdateServicesFails(b) ==
    LET N == DOMAIN b IN
    \E f \in N : \E D \in SUBSET (N \ {f}) :
        /\ Executes("update", N, FALSE)
        /\ N \subseteq Registered
        /\ Bindable(b, D, N)
        /\ registry' = [s \in Names |-> IF s \in D THEN b[s]
                                        ELSE IF s \in N THEN Absent
                                        ELSE registry[s]]
        /\ listening' = (listening \ N) \cup D
        /\ drift' = drift \cup N
        /\ UNCHANGED <<leaked, config>>

\* Variant, not part of Next: services are unregistered but never closed.
DeleteServicesUnclosed(N) ==
    /\ Executes("delete", N, TRUE)
    /\ N \subseteq Registered
    /\ registry' = [s \in Names |-> IF s \in N THEN Absent ELSE registry[s]]
    /\ config' = [s \in Names |-> IF s \in N THEN <<>> ELSE config[s]]
    /\ drift' = drift \ N
    /\ UNCHANGED <<listening, leaked>>

\* deleteServices: all or nothing; the configuration loses every entry.
DeleteServices(N) ==
    /\ Executes("delete", N, TRUE)
    /\ N \subseteq Registered
    /\ registry' = [s \in Names |-> IF s \in N THEN Absent ELSE registry[s]]
    /\ listening' = listening \ N
    /\ config' = [s \in Names |-> IF s \in N THEN <<>> ELSE config[s]]
    /\ drift' = drift \ N
    /\ UNCHANGED leaked

\* Variant, not part of Next: services are deleted while they are looked up.
DeleteServicesPartial(N) ==
    \E D \in SUBSET (N \cap Registered) :
        /\ Executes("delete", N, FALSE)
        /\ ~ (N \subseteq Registered)
        /\ registry' = [s \in Names |-> IF s \in D THEN Absent ELSE registry[s]]
        /\ listening' = listening \ D
        /\ UNCHANGED <<leaked, config, drift>>

DeleteServicesNotFound(N) ==
    /\ Executes("delete", N, FALSE)
    /\ ~ (N \subseteq Registered)
    /\ UNCHANGED <<registry, listening, leaked, config, drift>>

\* Variant, not part of Next: the services are closed but not marked.
PauseServicesUnmarked(N) ==
    /\ Executes("pause", N, TRUE)
    /\ N \subseteq Registered
    /\ \A s \in N : Configured(s)
    /\ listening' = listening \ N
    /\ UNCHANGED <<registry, config, leaked, drift>>

\* pauseServices: listeners are closed, the first entries are marked; the
\* services stay registered.
PauseServices(N) ==
    /\ Executes("pause", N, TRUE)
    /\ N \subseteq Registered
    /\ \A s \in N : Configured(s)
    /\ listening' = listening \ N
    /\ config' = MarkPaused(N, TRUE)
    /\ UNCHANGED <<registry, leaked, drift>>

\* A service that is not registered, or (closing those of D first) one without
\* configuration.  rollbackPausedServices then parses the services of D again,
\* but they are still registered: Register refuses, the new ones are closed.
PauseServicesFails(N) ==
    \E D \in SUBSET N :
        /\ Executes("pause", N, FALSE)
        /\ IF N \subseteq Registered
           THEN /\ \E f \in N \ D : ~ Configured(f)
                /\ \A s \in D : Configured(s)
           ELSE D = {}
        /\ listening' = listening \ D
        /\ UNCHANGED <<registry, leaked, config, drift>>

\* resumeServices: only the services marked as paused are re-created, from
\* their first entries; the mark is removed.
ToResume(N)  == {s \in N : Paused(s)}
FirstSpecs(N) == [s \in N |-> First(s).spec]

ResumeServices(N) ==
    LET R == ToResume(N) IN
    /\ Executes("resume", N, TRUE)
    /\ N \subseteq Registered
    /\ \A s \in N : Configured(s)
    /\ Bindable(FirstSpecs(R), R, R)
    /\ registry' = [s \in Names |-> IF s \in R THEN First(s).spec
                                    ELSE registry[s]]
    /\ listening' = listening \cup R
    /\ config' = MarkPaused(R, FALSE)
    /\ UNCHANGED <<leaked, drift>>

ResumeServicesNotFound(N) ==
    /\ Executes("resume", N, FALSE)
    /\ \E s \in N : ~ (s \in Registered /\ Configured(s))
    /\ UNCHANGED <<registry, listening, leaked, config, drift>>

\* Re-creating fails at f after the services of D: D are closed again and
\* marked, f is unregistered, the rest has not been reached.
ResumeServicesFails(N) ==
    LET R == ToResume(N) IN
    \E f \in R : \E D \in SUBSET (R \ {f}) :
        /\ Executes("resume", N, FALSE)
        /\ N \subseteq Registered
        /\ \A s \in N : Configured(s)
        /\ Bindable(FirstSpecs(D), D, D)
        /\ registry' = [s \in Names |-> IF s = f THEN Absent
                                        ELSE IF s \in D THEN First(s).spec
                                        ELSE registry[s]]
        /\ listening' = listening \ (D \cup {f})
        /\ config' = MarkPaused(D, TRUE)
        /\ drift' = drift \cup {f}
        /\ UNCHANGED leaked

\* updateForwarder: the hop of the live service is exchanged service by
\* service; the configuration is written when all have been.
Retarget(N, b) ==
    [s \in Names |-> IF s \in N THEN [registry[s] EXCEPT !.target = b[s].target]
                     ELSE registry[s]]

\* Variant, not part of Next: only the live services are told.
UpdateForwarderVolatile(b) ==
    LET N == DOMAIN b IN
    /\ Executes("forwarder", N, TRUE)
    /\ N \subseteq Registered
    /\ registry' = Retarget(N, b)
    /\ UNCHANGED <<listening, leaked, config, drift>>

UpdateForwarder(b) ==
    LET N == DOMAIN b IN
    /\ Executes("forwarder", N, TRUE)
    /\ N \subseteq Registered
    /\ registry' = Retarget(N, b)
    /\ config' = SetFirst(N, [s \in N |->
                    [First(s) EXCEPT !.spec.target = b[s].target]])
    /\ UNCHANGED <<listening, leaked, drift>>

UpdateForwarderFails(b) ==
    \E f \in DOMAIN b : \E D \in SUBSET (DOMAIN b \ {f}) :
        /\ Executes("forwarder", DOMAIN b, FALSE)
        /\ D \subseteq Registered
        /\ registry' = Retarget(D, b)
        /\ drift' = drift \cup D
        /\ UNCHANGED <<listening, leaked, config>>

-----------------------------------------------------------------------------
(* After every command, successful or not: saveConfig, then the answer.    *)

\* Variant, not part of Next: nothing is saved after a command that failed.
SaveCreateOnSuccess ==
    /\ phase = "executed"
    /\ IF cmd.ok THEN disk' = Truncated /\ phase' = "truncated" /\ UNCHANGED cmd
       ELSE UNCHANGED disk /\ phase' = "saved" /\ cmd' = [cmd EXCEPT !.saved = TRUE]
    /\ UNCHANGED <<registry, listening, leaked, foreign, config, drift>>

SaveCreate ==
    /\ phase = "executed"
    /\ \/ disk' = Truncated /\ phase' = "truncated"
       \/ UNCHANGED disk /\ phase' = "unsaved"      \* os.Create failed
    /\ UNCHANGED <<registry, listening, leaked, foreign, config, cmd, drift>>

SaveWrite ==
    /\ phase = "truncated"
    /\ \/ /\ disk' = config
          /\ phase' = "saved"
          /\ cmd' = [cmd EXCEPT !.saved = TRUE]
       \/ UNCHANGED <<disk, cmd>> /\ phase' = "unsaved"   \* the write failed
    /\ UNCHANGED <<registry, listening, leaked, foreign, config, drift>>

SendResponse ==
    /\ phase \in {"saved", "unsaved"}
    /\ phase' = "idle"
    /\ UNCHANGED <<registry, listening, leaked, foreign, config, disk, cmd, drift>>

-----------------------------------------------------------------------------
(* The process and its host.                                               *)

Crash ==
    /\ phase # "down"
    /\ phase' = "down"
    /\ registry' = [s \in Names |-> Absent]
    /\ listening' = {}
    /\ leaked' = {}
    /\ config' = [s \in Names |-> <<>>]
    /\ cmd' = NoCmd
    /\ drift' = {}
    /\ UNCHANGED <<foreign, disk>>

\* parser.Parse, loader.Load and run: every entry of runtime.json is parsed,
\* registered and served, paused or not.  An unreadable file, two entries of
\* one name or an address that cannot be bound ends the process.
DiskSpecs == [s \in {t \in Names : disk[t] # <<>>} |-> disk[s][1].spec]

Boot ==
    /\ phase = "down"
    /\ disk # Truncated
    /\ \A s \in Names : Len(disk[s]) <= 1
    /\ Bindable(DiskSpecs, DOMAIN DiskSpecs, {})
    /\ phase' = "idle"
    /\ registry' = [s \in Names |-> IF s \in DOMAIN DiskSpecs
                                    THEN DiskSpecs[s] ELSE Absent]
    /\ listening' = DOMAIN DiskSpecs
    /\ config' = disk
    /\ UNCHANGED <<leaked, foreign, disk, cmd, drift>>

\* Unreferenced listeners are closed when the garbage collector runs.
CollectLeaked ==
    /\ leaked # {}
    /\ leaked' = {}
    /\ UNCHANGED <<registry, listening, foreign, config, disk, phase, cmd, drift>>

\* Another process of the host binds or releases an address.
ForeignBind(a) ==
    /\ a \notin BoundWithout({}) \cup foreign
    /\ foreign' = foreign \cup {a}
    /\ UNCHANGED <<registry, listening, leaked, config, disk, phase, cmd, drift>>

ForeignRelease(a) ==
    /\ a \in foreign
    /\ foreign' = foreign \ {a}
    /\ UNCHANGED <<registry, listening, leaked, config, disk, phase, cmd, drift>>

-----------------------------------------------------------------------------
Init ==
    /\ registry = [s \in Names |-> Absent]
    /\ listening = {}
    /\ leaked = {}
    /\ foreign = {}
    /\ config = [s \in Names |-> <<>>]
    /\ disk = [s \in Names |-> <<>>]
    /\ phase = "idle"
    /\ cmd = NoCmd
    /\ drift = {}

BatchCommand ==
    \E b \in Batches :
        \/ CreateServices(b)
        \/ CreateServicesFails(b)
        \/ UpdateServices(b)
        \/ UpdateServicesNotFound(b)
        \/ UpdateServicesFails(b)
        \/ UpdateForwarder(b)
        \/ UpdateForwarderFails(b)

NamesCommand ==
    \E N \in SUBSET Names \ {{}} :
        \/ DeleteServices(N)
        \/ DeleteServicesNotFound(N)
        \/ PauseServices(N)
        \/ PauseServicesFails(N)
        \/ ResumeServices(N)
        \/ ResumeServicesNotFound(N)
        \/ ResumeServicesFails(N)

Answering == SaveCreate \/ SaveWrite \/ SendResponse

Host ==
    \/ Crash
    \/ Boot
    \/ CollectLeaked
    \/ \E a \in Addrs : ForeignBind(a) \/ ForeignRelease(a)

Next == BatchCommand \/ NamesCommand \/ Answering \/ Host

Spec == Init /\ [][Next]_vars

-----------------------------------------------------------------------------
(* Properties.                                                             *)

Answers == [op: Ops, names: SUBSET Names, ok: BOOLEAN, saved: BOOLEAN]

\* Every variable has its type; only registered services listen.
TypeOK ==
    /\ registry \in [Names -> SvcSpecs \cup {Absent}]
    /\ listening \in SUBSET Registered
    /\ leaked \in SUBSET Addrs
    /\ foreign \in SUBSET Addrs
    /\ config \in ConfigFile
    /\ disk \in ConfigFile \cup {Truncated}
    /\ phase \in Phases
    /\ cmd \in Answers
    /\ drift \in SUBSET Names

\* Whatever commands fail half-way, a live service never loses its entry in
\* the configuration: pauseServices and resumeServices (service.go:285, 361)
\* never meet "configuration not found", and a restart brings every live
\* service back.
RegisteredHasConfig == \A s \in Registered : Configured(s)

\* getServiceStatus (config_service.go:710-725) and resumeServices
\* (service.go:380) read "not marked paused" as "running": a registered
\* service without the mark has its listener open.
UnpausedRuns == \A s \in Registered : ~ Paused(s) => s \in listening

\* Only a command that fails half-way separates the registry from the
\* configuration; deleting the service, or restarting, joins them again.
InSync(s) ==
    /\ Len(config[s]) <= 1
    /\ Configured(s) => s \in Registered
    /\ s \in Registered => registry[s] = First(s).spec

OnlyFailuresDesync == \A s \in Names \ drift : phase # "down" => InSync(s)

\* Once runtime.json was written for a command (saveConfig runs before the
\* answer), a crash cannot take the command back, nor any before it.
AnsweredIsDurable ==
    phase \in {"saved", "idle"} /\ cmd.saved => disk = config

\* Creating, deleting and pausing a batch are all-or-nothing: an answer with
\* an error means that no service changed.  (Update, resume and forwarder
\* batches are not.)
FailedBatchHarmless ==
    [][phase = "idle" /\ phase' = "executed" /\ ~ cmd'.ok
        /\ cmd'.op \in {"create", "delete", "pause"}
       => UNCHANGED <<registry, listening, config>>]_vars
=============================================================================

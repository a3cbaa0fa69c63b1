--------------------------- MODULE GostNodeProofs ---------------------------
(***************************************************************************)
(* Proofs about the service manager of a node, for any sets of names,      *)
(* addresses and targets.                                                  *)
(***************************************************************************)
EXTENDS GostNode, SequenceTheorems, TLAPS

(***************************************************************************)
(* Facts about the configuration.                                          *)
(***************************************************************************)

\* A name with an entry has a first one, of the type of entries.
LEMMA FirstIsEntry ==
    ASSUME config \in ConfigFile, NEW s \in Names
    PROVE  /\ Configured(s) <=> Len(config[s]) \in Nat \ {0}
           /\ Configured(s) => First(s) \in Entry
           /\ Len(config[s]) \in Nat
<1>1. config[s] \in Seq(Entry)
  BY DEF ConfigFile
<1>2. Len(config[s]) \in Nat
  BY <1>1, LenProperties
<1>3. Configured(s) <=> Len(config[s]) # 0
  BY <1>1, EmptySeq DEF Configured
<1>4. Configured(s) => First(s) \in Entry
  BY <1>1, <1>2, <1>3, ElementOfSeq DEF First
<1>. QED
  BY <1>2, <1>3, <1>4

\* SetFirst exchanges first entries and nothing else: it neither adds nor
\* removes an entry (the loops with "break" of socket/service.go).
LEMMA SetFirstFacts ==
    ASSUME config \in ConfigFile, NEW N, NEW e,
           \A s \in N : Configured(s) => e[s] \in Entry
    PROVE  /\ SetFirst(N, e) \in ConfigFile
           /\ \A s \in Names :
                /\ Len(SetFirst(N, e)[s]) = Len(config[s])
                /\ SetFirst(N, e)[s] = <<>> <=> ~ Configured(s)
                /\ s \in N /\ Configured(s) => SetFirst(N, e)[s][1] = e[s]
                /\ s \notin N => SetFirst(N, e)[s] = config[s]
<1>. SUFFICES ASSUME NEW s \in Names
     PROVE  /\ SetFirst(N, e)[s] \in Seq(Entry)
            /\ Len(SetFirst(N, e)[s]) = Len(config[s])
            /\ SetFirst(N, e)[s] = <<>> <=> ~ Configured(s)
            /\ s \in N /\ Configured(s) => SetFirst(N, e)[s][1] = e[s]
            /\ s \notin N => SetFirst(N, e)[s] = config[s]
  BY DEF SetFirst, ConfigFile
<1>1. config[s] \in Seq(Entry)
  BY DEF ConfigFile
<1>2. CASE s \in N /\ Configured(s)
  <2>1. SetFirst(N, e)[s] = [config[s] EXCEPT ![1] = e[s]]
    BY <1>2 DEF SetFirst
  <2>2. e[s] \in Entry /\ 1 \in 1..Len(config[s])
    BY <1>2, FirstIsEntry
  <2>3. /\ SetFirst(N, e)[s] \in Seq(Entry)
        /\ Len(SetFirst(N, e)[s]) = Len(config[s])
        /\ SetFirst(N, e)[s][1] = e[s]
    BY <1>1, <2>1, <2>2, ExceptSeq
  <2>4. SetFirst(N, e)[s] # <<>>
    BY <2>2, <2>3, EmptySeq
  <2>. QED
    BY <1>2, <2>3, <2>4
<1>3. CASE ~ (s \in N /\ Configured(s))
  BY <1>1, <1>3 DEF SetFirst, Configured
<1>. QED
  BY <1>2, <1>3

(***************************************************************************)
(* The inductive invariant: the three safety invariants, name by name.     *)
(***************************************************************************)

NameOK(s) ==
    /\ s \in Registered => Configured(s)
    /\ s \in Registered /\ ~ Paused(s) => s \in listening
    /\ s \notin drift /\ phase # "down" => InSync(s)

IInv == TypeOK /\ \A s \in Names : NameOK(s)

\* The inductive invariant implies the invariants the runs check.
LEMMA IInvImplies ==
    IInv => TypeOK /\ RegisteredHasConfig /\ UnpausedRuns /\ OnlyFailuresDesync
BY DEF IInv, NameOK, RegisteredHasConfig, UnpausedRuns, OnlyFailuresDesync,
       Registered

\* A step that leaves alone what concerns s, and does not take s out of drift,
\* keeps s as it was.
LEMMA NameFrame ==
    ASSUME IInv, NEW s \in Names, phase # "down",
           registry'[s] = registry[s], config'[s] = config[s],
           s \in listening => s \in listening',
           s \in drift => s \in drift'
    PROVE  NameOK(s)'
BY DEF IInv, NameOK, Registered, Configured, First, Paused, InSync

\* Every command starts from "idle" and leaves the answer to be saved.
LEMMA ExecutesFacts ==
    ASSUME TypeOK, NEW op \in Ops, NEW N \in SUBSET Names, NEW ok \in BOOLEAN,
           Executes(op, N, ok)
    PROVE  /\ phase = "idle" /\ phase' = "executed"
           /\ cmd' \in Answers
           /\ foreign' \in SUBSET Addrs
           /\ disk' \in ConfigFile \cup {Truncated}
           /\ phase' \in Phases
BY DEF TypeOK, Executes, Answers, Phases

LEMMA BatchFacts ==
    ASSUME NEW b \in Batches
    PROVE  /\ DOMAIN b \in SUBSET Names
           /\ \A s \in DOMAIN b : b[s] \in SvcSpecs
BY DEF Batches

LEMMA CreateStep ==
    ASSUME IInv, NEW b \in Batches, CreateServices(b)
    PROVE  IInv'
<1>. DEFINE N == DOMAIN b
<1>1. Executes("create", N, TRUE) /\ TypeOK
  BY DEF CreateServices, IInv
<1>2. /\ N \in SUBSET Names
      /\ \A s \in N : b[s] \in SvcSpecs
  BY BatchFacts
<1>3. \A s \in N : [spec |-> b[s], paused |-> FALSE] \in Entry
  BY <1>2 DEF Entry
<1>4. ASSUME NEW s \in N
      PROVE  /\ config'[s] = Append(config[s], [spec |-> b[s], paused |-> FALSE])
             /\ config'[s] \in Seq(Entry)
             /\ config'[s] # <<>>
             /\ Len(config'[s]) = Len(config[s]) + 1
             /\ ~ Configured(s) =>
                    /\ Len(config'[s]) <= 1
                    /\ config'[s][1] = [spec |-> b[s], paused |-> FALSE]
  <2>1. config'[s] = Append(config[s], [spec |-> b[s], paused |-> FALSE])
    BY <1>2 DEF CreateServices
  <2>2. config[s] \in Seq(Entry)
    BY <1>1, <1>2 DEF TypeOK, ConfigFile
  <2>. QED
    BY <1>3, <2>1, <2>2 DEF Configured
<1>5. TypeOK'
  <2>1. registry' \in [Names -> SvcSpecs \cup {Absent}] /\ listening' \in SUBSET Registered'
    BY <1>1, <1>2, NodeAssumption DEF CreateServices, TypeOK, Registered
  <2>2. config' \in ConfigFile
    BY <1>1, <1>4 DEF CreateServices, TypeOK, ConfigFile
  <2>3. leaked' \in SUBSET Addrs /\ drift' \in SUBSET Names
    BY <1>1 DEF CreateServices, TypeOK
  <2>. QED
    BY <1>1, <1>2, <2>1, <2>2, <2>3, ExecutesFacts DEF TypeOK, Ops
<1>6. ASSUME NEW s \in Names PROVE NameOK(s)'
  <2>0. phase = "idle" /\ drift' = drift
    BY DEF CreateServices, Executes
  <2>1. CASE s \in N
    <3>1. registry[s] = Absent /\ registry'[s] = b[s] /\ s \in listening'
      BY <2>1 DEF CreateServices, Registered
    <3>2. s \notin drift => ~ Configured(s)
      BY <3>1, <2>0 DEF IInv, NameOK, InSync, Registered
    <3>. DEFINE e == [spec |-> b[s], paused |-> FALSE]
    <3>3. /\ config'[s] # <<>>
          /\ ~ Configured(s) => Len(config'[s]) <= 1 /\ config'[s][1] = e
      BY <1>4, <2>1
    <3>5. e.spec = b[s]
      OBVIOUS
    <3>4. registry'[s] # Absent
      BY <1>2, <2>1, <3>1, NodeAssumption
    <3>6. s \in Registered'
      BY <3>4 DEF Registered
    <3>7. Configured(s)'
      BY <3>3 DEF Configured
    <3>8. s \notin drift' => InSync(s)'
      <4>1. s \notin drift' => Len(config'[s]) <= 1 /\ config'[s][1] = e
        BY <2>0, <3>2, <3>3
      <4>2. s \notin drift' => registry'[s] = config'[s][1].spec
        BY <3>1, <3>5, <4>1, Zenon
      <4>. QED
        BY <3>6, <4>1, <4>2 DEF InSync, First
    <3>. QED
      BY <3>1, <3>6, <3>7, <3>8 DEF NameOK
  <2>2. CASE s \notin N
    BY <2>0, <2>2, NameFrame DEF CreateServices
  <2>. QED
    BY <2>1, <2>2
<1>. QED
  BY <1>5, <1>6 DEF IInv

\* A command that refuses its batch, or has no effect on services.
LEMMA NothingStep ==
    ASSUME IInv, phase # "down",
           UNCHANGED <<registry, listening, config>>,
           leaked' \in SUBSET Addrs, foreign' \in SUBSET Addrs,
           disk' \in ConfigFile \cup {Truncated},
           phase' \in Phases, cmd' \in Answers,
           drift' = drift
    PROVE  IInv'
<1>1. TypeOK'
  BY DEF IInv, TypeOK, Registered
<1>2. ASSUME NEW s \in Names PROVE NameOK(s)'
  BY NameFrame
<1>. QED
  BY <1>1, <1>2 DEF IInv

\* The loops with "break", as a step.
LEMMA SetFirstStep ==
    ASSUME TypeOK, NEW N, NEW e,
           \A s \in N : Configured(s) => e[s] \in Entry,
           config' = SetFirst(N, e)
    PROVE  /\ config' \in ConfigFile
           /\ \A s \in Names :
                /\ Len(config'[s]) = Len(config[s])
                /\ Configured(s)' <=> Configured(s)
                /\ s \in N /\ Configured(s) => First(s)' = e[s]
                /\ s \notin N => config'[s] = config[s]
BY SetFirstFacts DEF TypeOK, Configured, First

LEMMA EntryFields ==
    ASSUME NEW x, NEW p, x \in SvcSpecs, p \in BOOLEAN
    PROVE  /\ [spec |-> x, paused |-> p] \in Entry
           /\ [spec |-> x, paused |-> p].spec = x
           /\ [spec |-> x, paused |-> p].paused = p
BY DEF Entry

LEMMA UpdateStep ==
    ASSUME IInv, NEW b \in Batches, UpdateServices(b)
    PROVE  IInv'
<1>. DEFINE N == DOMAIN b
            e == [s \in N |-> [spec |-> b[s], paused |-> FALSE]]
<1>1. Executes("update", N, TRUE) /\ TypeOK
  BY DEF UpdateServices, IInv
<1>2. /\ N \in SUBSET Names
      /\ \A s \in N : b[s] \in SvcSpecs
  BY BatchFacts
<1>3. \A s \in N : /\ e[s] \in Entry
                   /\ e[s].spec = b[s]
                   /\ e[s].paused = FALSE
  BY <1>2, EntryFields
<1>4. config' = SetFirst(N, e)
  BY DEF UpdateServices
<1>. HIDE DEF e
<1>5. /\ config' \in ConfigFile
      /\ \A s \in Names :
           /\ Len(config'[s]) = Len(config[s])
           /\ Configured(s)' <=> Configured(s)
           /\ s \in N /\ Configured(s) => First(s)' = e[s]
           /\ s \notin N => config'[s] = config[s]
  BY <1>1, <1>3, <1>4, SetFirstStep
<1>6. TypeOK'
  <2>1. registry' \in [Names -> SvcSpecs \cup {Absent}] /\ listening' \in SUBSET Registered'
    BY <1>1, <1>2, NodeAssumption DEF UpdateServices, TypeOK, Registered
  <2>2. leaked' \in SUBSET Addrs /\ drift' \in SUBSET Names
    BY <1>1 DEF UpdateServices, TypeOK
  <2>. QED
    BY <1>1, <1>2, <1>5, <2>1, <2>2, ExecutesFacts DEF TypeOK, Ops
<1>7. ASSUME NEW s \in Names PROVE NameOK(s)'
  <2>0. phase = "idle" /\ NameOK(s)
    BY DEF UpdateServices, Executes, IInv
  <2>1. CASE s \in N
    <3>1. registry'[s] = b[s] /\ s \in listening' /\ s \in Registered
      BY <2>1 DEF UpdateServices
    <3>2. s \in Registered' /\ Configured(s)'
      BY <1>2, <1>5, <2>0, <2>1, <3>1, NodeAssumption DEF Registered, NameOK
    <3>3. registry'[s] = First(s)'.spec
      BY <1>3, <1>5, <2>0, <2>1, <3>1 DEF NameOK
    <3>4. s \notin drift' => Len(config'[s]) <= 1
      <4>1. s \notin drift' => s \notin drift \/ Len(config[s]) = 1
        BY DEF UpdateServices
      <4>2. s \notin drift => Len(config[s]) <= 1
        BY <2>0 DEF NameOK, InSync
      <4>3. Len(config[s]) \in Nat
        BY <1>1, FirstIsEntry DEF TypeOK
      <4>4. Len(config[s]) = 1 => Len(config[s]) <= 1
        BY <4>3
      <4>5. Len(config'[s]) = Len(config[s])
        BY <1>5
      <4>. QED
        BY <4>1, <4>2, <4>4, <4>5, Zenon
    <3>. QED
      BY <3>1, <3>2, <3>3, <3>4 DEF NameOK, InSync
  <2>2. CASE s \notin N
    <3>1. s \in drift => s \in drift'
      BY <2>2 DEF UpdateServices
    <3>. QED
      BY <1>5, <2>0, <2>2, <3>1, NameFrame DEF UpdateServices
  <2>. QED
    BY <2>1, <2>2
<1>. QED
  BY <1>6, <1>7 DEF IInv

LEMMA UpdateFailsStep ==
    ASSUME IInv, NEW b \in Batches, UpdateServicesFails(b)
    PROVE  IInv'
<1>. DEFINE N == DOMAIN b
<1>0. PICK D \in SUBSET N :
        /\ Executes("update", N, FALSE)
        /\ N \subseteq Registered
        /\ registry' = [s \in Names |-> IF s \in D THEN b[s]
                                        ELSE IF s \in N THEN Absent
                                        ELSE registry[s]]
        /\ listening' = (listening \ N) \cup D
        /\ drift' = drift \cup N
        /\ leaked' = leaked /\ config' = config
  BY DEF UpdateServicesFails
<1>2. /\ N \in SUBSET Names
      /\ \A s \in N : b[s] \in SvcSpecs
  BY BatchFacts
<1>3. TypeOK /\ TypeOK'
  <2>1. TypeOK
    BY DEF IInv
  <2>2. registry' \in [Names -> SvcSpecs \cup {Absent}] /\ listening' \in SUBSET Registered'
    BY <1>0, <1>2, <2>1, NodeAssumption DEF TypeOK, Registered
  <2>. QED
    BY <1>0, <1>2, <2>1, <2>2, ExecutesFacts DEF TypeOK, Ops
<1>4. ASSUME NEW s \in Names PROVE NameOK(s)'
  <2>0. phase = "idle" /\ NameOK(s)
    BY <1>0 DEF Executes, IInv
  <2>1. CASE s \in N
    <3>1. s \in Registered /\ s \in drift'
      BY <1>0, <2>1
    <3>2. s \in Registered' => s \in D
      BY <1>0, <2>1 DEF Registered
    <3>. QED
      BY <1>0, <2>0, <3>1, <3>2 DEF NameOK, Configured
  <2>2. CASE s \notin N
    BY <1>0, <2>0, <2>2, NameFrame
  <2>. QED
    BY <2>1, <2>2
<1>. QED
  BY <1>3, <1>4 DEF IInv

LEMMA DeleteStep ==
    ASSUME IInv, NEW N \in SUBSET Names, DeleteServices(N)
    PROVE  IInv'
<1>1. Executes("delete", N, TRUE) /\ TypeOK
  BY DEF DeleteServices, IInv
<1>2. TypeOK'
  <2>1. registry' \in [Names -> SvcSpecs \cup {Absent}] /\ listening' \in SUBSET Registered'
    BY <1>1 DEF DeleteServices, TypeOK, Registered
  <2>2. config' \in ConfigFile
    BY <1>1 DEF DeleteServices, TypeOK, ConfigFile
  <2>3. leaked' \in SUBSET Addrs /\ drift' \in SUBSET Names
    BY <1>1 DEF DeleteServices, TypeOK
  <2>. QED
    BY <1>1, <2>1, <2>2, <2>3, ExecutesFacts DEF TypeOK, Ops
<1>3. ASSUME NEW s \in Names PROVE NameOK(s)'
  <2>0. phase = "idle"
    BY <1>1 DEF Executes
  <2>1. CASE s \in N
    <3>1. registry'[s] = Absent /\ config'[s] = <<>>
      BY <2>1 DEF DeleteServices
    <3>2. Len(config'[s]) <= 1
      BY <3>1
    <3>. QED
      BY <3>1, <3>2 DEF NameOK, InSync, Registered, Configured
  <2>2. CASE s \notin N
    BY <2>0, <2>2, NameFrame DEF DeleteServices
  <2>. QED
    BY <2>1, <2>2
<1>. QED
  BY <1>2, <1>3 DEF IInv

\* MarkPaused, as a step: only the mark of first entries in N changes.
LEMMA MarkStep ==
    ASSUME TypeOK, NEW N \in SUBSET Names, NEW p \in BOOLEAN,
           config' = MarkPaused(N, p)
    PROVE  /\ config' \in ConfigFile
           /\ \A s \in Names :
                /\ Len(config'[s]) = Len(config[s])
                /\ Configured(s)' <=> Configured(s)
                /\ s \in N /\ Configured(s) => /\ First(s)'.spec = First(s).spec
                                              /\ First(s)'.paused = p
                /\ s \notin N => config'[s] = config[s]
<1>. DEFINE e == [s \in N |-> [spec |-> First(s).spec, paused |-> p]]
<1>1. \A s \in N : Configured(s) => /\ e[s] \in Entry
                                    /\ e[s].spec = First(s).spec
                                    /\ e[s].paused = p
  <2>. SUFFICES ASSUME NEW s \in N, Configured(s)
       PROVE  /\ e[s] \in Entry
              /\ e[s].spec = First(s).spec
              /\ e[s].paused = p
    OBVIOUS
  <2>1. First(s).spec \in SvcSpecs
    BY FirstIsEntry DEF TypeOK, Entry
  <2>. QED
    BY <2>1, EntryFields
<1>2. config' = SetFirst(N, e)
  BY DEF MarkPaused
<1>. HIDE DEF e
<1>3. /\ config' \in ConfigFile
      /\ \A s \in Names :
           /\ Len(config'[s]) = Len(config[s])
           /\ Configured(s)' <=> Configured(s)
           /\ s \in N /\ Configured(s) => First(s)' = e[s]
           /\ s \notin N => config'[s] = config[s]
  BY <1>1, <1>2, SetFirstStep
<1>. QED
  BY <1>1, <1>3

\* A step that changes nothing of s but the mark of its first entry, and closes
\* it if that mark is set.
LEMMA MarkFrame ==
    ASSUME IInv, NEW s \in Names, NEW p \in BOOLEAN, phase = "idle",
           registry'[s] = registry[s],
           Len(config'[s]) = Len(config[s]),
           Configured(s)' <=> Configured(s),
           Configured(s) => /\ First(s)'.spec = First(s).spec
                            /\ First(s)'.paused = p,
           ~ p /\ s \in Registered => s \in listening',
           s \in drift => s \in drift'
    PROVE  NameOK(s)'
<1>1. NameOK(s)
  BY DEF IInv
<1>2. s \in Registered' <=> s \in Registered
  BY DEF Registered
<1>3. s \in Registered /\ Configured(s) => (Paused(s)' <=> p)
  BY DEF Paused
<1>4. s \notin drift' => InSync(s)'
  <2>1. s \notin drift' => InSync(s)
    BY <1>1 DEF NameOK
  <2>2. InSync(s) => InSync(s)'
    BY <1>1, <1>2 DEF InSync, NameOK
  <2>. QED
    BY <2>1, <2>2
<1>. QED
  BY <1>1, <1>2, <1>3, <1>4 DEF NameOK

LEMMA PauseStep ==
    ASSUME IInv, NEW N \in SUBSET Names, PauseServices(N)
    PROVE  IInv'
<1>1. Executes("pause", N, TRUE) /\ TypeOK
  BY DEF PauseServices, IInv
<1>2. /\ config' \in ConfigFile
      /\ \A s \in Names :
           /\ Len(config'[s]) = Len(config[s])
           /\ Configured(s)' <=> Configured(s)
           /\ s \in N /\ Configured(s) => /\ First(s)'.spec = First(s).spec
                                         /\ First(s)'.paused = TRUE
           /\ s \notin N => config'[s] = config[s]
  BY <1>1, MarkStep DEF PauseServices
<1>3. TypeOK'
  <2>1. registry' \in [Names -> SvcSpecs \cup {Absent}] /\ listening' \in SUBSET Registered'
    BY <1>1 DEF PauseServices, TypeOK, Registered
  <2>2. leaked' \in SUBSET Addrs /\ drift' \in SUBSET Names
    BY <1>1 DEF PauseServices, TypeOK
  <2>. QED
    BY <1>1, <1>2, <2>1, <2>2, ExecutesFacts DEF TypeOK, Ops
<1>4. ASSUME NEW s \in Names PROVE NameOK(s)'
  <2>0. phase = "idle"
    BY <1>1 DEF Executes
  <2>1. CASE s \in N
    BY <1>2, <2>0, <2>1, MarkFrame DEF PauseServices
  <2>2. CASE s \notin N
    BY <1>2, <2>0, <2>2, NameFrame DEF PauseServices
  <2>. QED
    BY <2>1, <2>2
<1>. QED
  BY <1>3, <1>4 DEF IInv

\* With the invariant, a pause that fails has met an unregistered service
\* before closing anything: the broken rollback is never entered.
LEMMA PauseFailsHarmless ==
    ASSUME IInv, NEW N \in SUBSET Names, PauseServicesFails(N)
    PROVE  UNCHANGED <<registry, listening, config, leaked, drift>>
<1>1. PICK D \in SUBSET N :
        /\ IF N \subseteq Registered
           THEN /\ \E f \in N \ D : ~ Configured(f)
                /\ \A s \in D : Configured(s)
           ELSE D = {}
        /\ listening' = listening \ D
        /\ UNCHANGED <<registry, leaked, config, drift>>
  BY DEF PauseServicesFails
<1>2. \A s \in N : s \in Registered => Configured(s)
  BY DEF IInv, NameOK
<1>3. D = {}
  BY <1>1, <1>2
<1>. QED
  BY <1>1, <1>3

LEMMA ResumeStep ==
    ASSUME IInv, NEW N \in SUBSET Names, ResumeServices(N)
    PROVE  IInv'
<1>. DEFINE R == ToResume(N)
<1>1. Executes("resume", N, TRUE) /\ TypeOK
  BY DEF ResumeServices, IInv
<1>2. /\ R \in SUBSET Names
      /\ \A s \in R : Configured(s) /\ First(s).spec \in SvcSpecs
  BY <1>1, FirstIsEntry DEF ToResume, Paused, TypeOK, Entry
<1>3. /\ config' \in ConfigFile
      /\ \A s \in Names :
           /\ Len(config'[s]) = Len(config[s])
           /\ Configured(s)' <=> Configured(s)
           /\ s \in R /\ Configured(s) => /\ First(s)'.spec = First(s).spec
                                         /\ First(s)'.paused = FALSE
           /\ s \notin R => config'[s] = config[s]
  BY <1>1, <1>2, MarkStep DEF ResumeServices
<1>4. TypeOK'
  <2>1. registry' \in [Names -> SvcSpecs \cup {Absent}] /\ listening' \in SUBSET Registered'
    BY <1>1, <1>2, NodeAssumption DEF ResumeServices, TypeOK, Registered
  <2>2. leaked' \in SUBSET Addrs /\ drift' \in SUBSET Names
    BY <1>1 DEF ResumeServices, TypeOK
  <2>. QED
    BY <1>1, <1>3, <2>1, <2>2, ExecutesFacts DEF TypeOK, Ops
<1>5. ASSUME NEW s \in Names PROVE NameOK(s)'
  <2>0. phase = "idle" /\ drift' = drift /\ NameOK(s)
    BY DEF ResumeServices, Executes, IInv
  <2>1. CASE s \in R
    <3>1. registry'[s] = First(s).spec /\ s \in listening' /\ s \in Registered
      BY <2>1 DEF ResumeServices, ToResume
    <3>2. s \in Registered' /\ Configured(s)' /\ First(s)'.spec = First(s).spec
      BY <1>2, <1>3, <2>1, <3>1, NodeAssumption DEF Registered
    <3>3. s \notin drift' => Len(config'[s]) <= 1
      <4>1. s \notin drift' => Len(config[s]) <= 1
        BY <2>0 DEF NameOK, InSync
      <4>2. Len(config'[s]) = Len(config[s])
        BY <1>3
      <4>. QED
        BY <4>1, <4>2, Zenon
    <3>. QED
      BY <3>1, <3>2, <3>3 DEF NameOK, InSync
  <2>2. CASE s \notin R
    BY <1>3, <2>0, <2>2, NameFrame DEF ResumeServices
  <2>. QED
    BY <2>1, <2>2
<1>. QED
  BY <1>4, <1>5 DEF IInv

LEMMA ResumeFailsStep ==
    ASSUME IInv, NEW N \in SUBSET Names, ResumeServicesFails(N)
    PROVE  IInv'
<1>. DEFINE R == ToResume(N)
<1>1. PICK f \in R : \E D \in SUBSET (R \ {f}) :
        /\ Executes("resume", N, FALSE)
        /\ N \subseteq Registered
        /\ \A s \in N : Configured(s)
        /\ registry' = [s \in Names |-> IF s = f THEN Absent
                                        ELSE IF s \in D THEN First(s).spec
                                        ELSE registry[s]]
        /\ listening' = listening \ (D \cup {f})
        /\ config' = MarkPaused(D, TRUE)
        /\ drift' = drift \cup {f}
        /\ leaked' = leaked
  BY DEF ResumeServicesFails
<1>2. PICK D \in SUBSET (R \ {f}) :
        /\ Executes("resume", N, FALSE)
        /\ N \subseteq Registered
        /\ \A s \in N : Configured(s)
        /\ registry' = [s \in Names |-> IF s = f THEN Absent
                                        ELSE IF s \in D THEN First(s).spec
                                        ELSE registry[s]]
        /\ listening' = listening \ (D \cup {f})
        /\ config' = MarkPaused(D, TRUE)
        /\ drift' = drift \cup {f}
        /\ leaked' = leaked
  BY <1>1
<1>3. TypeOK
  BY DEF IInv
<1>4. /\ D \in SUBSET Names /\ f \in Names
      /\ \A s \in D : Configured(s) /\ First(s).spec \in SvcSpecs
  BY <1>3, FirstIsEntry DEF ToResume, Paused, TypeOK, Entry
<1>5. /\ config' \in ConfigFile
      /\ \A s \in Names :
           /\ Len(config'[s]) = Len(config[s])
           /\ Configured(s)' <=> Configured(s)
           /\ s \in D /\ Configured(s) => /\ First(s)'.spec = First(s).spec
                                         /\ First(s)'.paused = TRUE
           /\ s \notin D => config'[s] = config[s]
  BY <1>2, <1>3, <1>4, MarkStep
<1>6. TypeOK'
  <2>1. registry' \in [Names -> SvcSpecs \cup {Absent}] /\ listening' \in SUBSET Registered'
    BY <1>2, <1>3, <1>4, NodeAssumption DEF TypeOK, Registered
  <2>2. leaked' \in SUBSET Addrs /\ drift' \in SUBSET Names
    BY <1>2, <1>3, <1>4 DEF TypeOK
  <2>. QED
    BY <1>2, <1>3, <1>5, <2>1, <2>2, ExecutesFacts DEF TypeOK, Ops
<1>7. ASSUME NEW s \in Names PROVE NameOK(s)'
  <2>0. phase = "idle" /\ NameOK(s)
    BY <1>2 DEF Executes, IInv
  <2>1. CASE s = f
    BY <1>2, <2>1 DEF NameOK, Registered
  <2>2. CASE s # f /\ s \in D
    <3>1. registry'[s] = First(s).spec
      BY <1>2, <2>2
    <3>2. /\ s \in Registered' /\ Configured(s)' /\ Paused(s)'
          /\ First(s)'.spec = First(s).spec
      BY <1>4, <1>5, <2>2, <3>1, NodeAssumption DEF Registered, Paused
    <3>3. s \notin drift' => Len(config'[s]) <= 1
      <4>1. s \notin drift' => Len(config[s]) <= 1
        BY <1>2, <2>0 DEF NameOK, InSync
      <4>2. Len(config'[s]) = Len(config[s])
        BY <1>5
      <4>. QED
        BY <4>1, <4>2, Zenon
    <3>. QED
      BY <3>1, <3>2, <3>3 DEF NameOK, InSync
  <2>3. CASE s # f /\ s \notin D
    BY <1>2, <1>5, <2>0, <2>3, NameFrame
  <2>. QED
    BY <2>1, <2>2, <2>3
<1>. QED
  BY <1>6, <1>7 DEF IInv

\* Exchanging the forwarder of a spec gives a spec.
LEMMA RetargetFields ==
    ASSUME NEW x \in SvcSpecs, NEW y \in SvcSpecs
    PROVE  /\ [x EXCEPT !.target = y.target] \in SvcSpecs
           /\ [x EXCEPT !.target = y.target] # Absent
BY NodeAssumption DEF SvcSpecs

\* Retarget keeps the registry typed and the same names registered.
LEMMA RetargetFacts ==
    ASSUME TypeOK, NEW N \in SUBSET Registered, NEW b,
           \A s \in N : b[s] \in SvcSpecs
    PROVE  /\ Retarget(N, b) \in [Names -> SvcSpecs \cup {Absent}]
           /\ \A s \in Names : Retarget(N, b)[s] # Absent <=> registry[s] # Absent
<1>1. ASSUME NEW s \in N
      PROVE  /\ [registry[s] EXCEPT !.target = b[s].target] \in SvcSpecs
             /\ [registry[s] EXCEPT !.target = b[s].target] # Absent
  <2>1. registry[s] \in SvcSpecs /\ b[s] \in SvcSpecs
    BY DEF TypeOK, Registered
  <2>. QED
    BY <2>1, RetargetFields
<1>. QED
  BY <1>1 DEF Retarget, TypeOK, Registered

LEMMA ForwarderStep ==
    ASSUME IInv, NEW b \in Batches, UpdateForwarder(b)
    PROVE  IInv'
<1>. DEFINE N == DOMAIN b
            e == [s \in N |-> [First(s) EXCEPT !.spec.target = b[s].target]]
<1>1. Executes("forwarder", N, TRUE) /\ TypeOK /\ N \in SUBSET Registered
  BY DEF UpdateForwarder, IInv
<1>2. /\ N \in SUBSET Names
      /\ \A s \in N : b[s] \in SvcSpecs
  BY BatchFacts
<1>3. \A s \in N : Configured(s) =>
         /\ e[s] \in Entry
         /\ e[s].spec = [First(s).spec EXCEPT !.target = b[s].target]
         /\ e[s].paused = First(s).paused
  <2>. SUFFICES ASSUME NEW s \in N, Configured(s)
       PROVE  /\ e[s] \in Entry
              /\ e[s].spec = [First(s).spec EXCEPT !.target = b[s].target]
              /\ e[s].paused = First(s).paused
    OBVIOUS
  <2>1. First(s) \in Entry
    BY <1>1, <1>2, FirstIsEntry DEF TypeOK
  <2>2. [First(s).spec EXCEPT !.target = b[s].target] \in SvcSpecs
    BY <1>2, <2>1, RetargetFields DEF Entry
  <2>3. e[s] = [First(s) EXCEPT !.spec.target = b[s].target]
    OBVIOUS
  <2>. QED
    BY <2>1, <2>2, <2>3 DEF Entry
<1>4. config' = SetFirst(N, e)
  BY DEF UpdateForwarder
<1>. HIDE DEF e
<1>5. /\ config' \in ConfigFile
      /\ \A s \in Names :
           /\ Len(config'[s]) = Len(config[s])
           /\ Configured(s)' <=> Configured(s)
           /\ s \in N /\ Configured(s) => First(s)' = e[s]
           /\ s \notin N => config'[s] = config[s]
  BY <1>1, <1>3, <1>4, SetFirstStep
<1>6. /\ registry' \in [Names -> SvcSpecs \cup {Absent}]
      /\ \A s \in Names : s \in Registered' <=> s \in Registered
  BY <1>1, <1>2, RetargetFacts DEF UpdateForwarder, Registered
<1>7. TypeOK'
  BY <1>1, <1>2, <1>5, <1>6, ExecutesFacts DEF UpdateForwarder, TypeOK, Ops, Registered
<1>8. ASSUME NEW s \in Names PROVE NameOK(s)'
  <2>0. phase = "idle" /\ NameOK(s) /\ listening' = listening /\ drift' = drift
    BY DEF UpdateForwarder, Executes, IInv
  <2>1. CASE s \in N
    <3>1. s \in Registered /\ Configured(s)
      BY <1>1, <2>0, <2>1 DEF NameOK
    <3>2. First(s)' = e[s]
      BY <1>5, <2>1, <3>1
    <3>3. Paused(s)' <=> Paused(s)
      BY <1>3, <1>5, <2>1, <3>1, <3>2 DEF Paused
    <3>4. s \notin drift => registry'[s] = First(s)'.spec
      <4>1. registry'[s] = [registry[s] EXCEPT !.target = b[s].target]
        BY <2>1 DEF UpdateForwarder, Retarget
      <4>2. s \notin drift => registry[s] = First(s).spec
        BY <2>0, <3>1 DEF NameOK, InSync
      <4>3. First(s)'.spec = [First(s).spec EXCEPT !.target = b[s].target]
        BY <1>3, <2>1, <3>1, <3>2
      <4>. QED
        BY <4>1, <4>2, <4>3
    <3>5. s \notin drift => Len(config'[s]) <= 1
      <4>1. s \notin drift => Len(config[s]) <= 1
        BY <2>0 DEF NameOK, InSync
      <4>2. Len(config'[s]) = Len(config[s])
        BY <1>5
      <4>. QED
        BY <4>1, <4>2, Zenon
    <3>. QED
      BY <1>5, <1>6, <2>0, <3>1, <3>3, <3>4, <3>5 DEF NameOK, InSync
  <2>2. CASE s \notin N
    <3>1. registry'[s] = registry[s]
      BY <2>2 DEF UpdateForwarder, Retarget
    <3>. QED
      BY <1>5, <2>0, <2>2, <3>1, NameFrame
  <2>. QED
    BY <2>1, <2>2
<1>. QED
  BY <1>7, <1>8 DEF IInv

LEMMA ForwarderFailsStep ==
    ASSUME IInv, NEW b \in Batches, UpdateForwarderFails(b)
    PROVE  IInv'
<1>1. PICK D \in SUBSET DOMAIN b :
        /\ Executes("forwarder", DOMAIN b, FALSE)
        /\ D \subseteq Registered
        /\ registry' = Retarget(D, b)
        /\ drift' = drift \cup D
        /\ UNCHANGED <<listening, leaked, config>>
  BY DEF UpdateForwarderFails
<1>2. /\ DOMAIN b \in SUBSET Names
      /\ \A s \in D : b[s] \in SvcSpecs
      /\ TypeOK
  BY BatchFacts DEF IInv
<1>3. /\ registry' \in [Names -> SvcSpecs \cup {Absent}]
      /\ \A s \in Names : s \in Registered' <=> s \in Registered
  BY <1>1, <1>2, RetargetFacts DEF Registered
<1>4. TypeOK'
  BY <1>1, <1>2, <1>3, ExecutesFacts DEF TypeOK, Ops, Registered
<1>5. ASSUME NEW s \in Names PROVE NameOK(s)'
  <2>0. phase = "idle" /\ NameOK(s)
    BY <1>1 DEF Executes, IInv
  <2>1. CASE s \in D
    BY <1>1, <1>3, <2>0, <2>1 DEF NameOK, Configured, Paused, First
  <2>2. CASE s \notin D
    <3>1. registry'[s] = registry[s]
      BY <1>1, <2>2 DEF Retarget
    <3>. QED
      BY <1>1, <2>0, <2>2, <3>1, NameFrame
  <2>. QED
    BY <2>1, <2>2
<1>. QED
  BY <1>4, <1>5 DEF IInv

LEMMA BatchStep ==
    ASSUME IInv, BatchCommand
    PROVE  IInv'
<1>1. PICK b \in Batches :
        \/ CreateServices(b)
        \/ CreateServicesFails(b)
        \/ UpdateServices(b)
        \/ UpdateServicesNotFound(b)
        \/ UpdateServicesFails(b)
        \/ UpdateForwarder(b)
        \/ UpdateForwarderFails(b)
  BY DEF BatchCommand
<1>2. DOMAIN b \in SUBSET Names /\ (\A s \in DOMAIN b : b[s] \in SvcSpecs) /\ TypeOK
  BY BatchFacts DEF IInv
<1>3. CASE CreateServices(b)
  BY <1>3, CreateStep
<1>4. CASE CreateServicesFails(b)
  <2>1. PICK D \in SUBSET DOMAIN b :
          /\ Executes("create", DOMAIN b, FALSE)
          /\ leaked' = leaked \cup {b[s].addr : s \in D}
          /\ UNCHANGED <<registry, listening, config, drift>>
    BY <1>4 DEF CreateServicesFails
  <2>2. leaked' \in SUBSET Addrs
    BY <1>2, <2>1 DEF TypeOK, SvcSpecs
  <2>. QED
    BY <1>2, <2>1, <2>2, ExecutesFacts, NothingStep DEF Ops
<1>5. CASE UpdateServices(b)
  BY <1>5, UpdateStep
<1>6. CASE UpdateServicesNotFound(b)
  <2>1. leaked' \in SUBSET Addrs
    BY <1>2, <1>6 DEF UpdateServicesNotFound, TypeOK
  <2>2. Executes("update", DOMAIN b, FALSE)
    BY <1>6 DEF UpdateServicesNotFound
  <2>. QED
    BY <1>2, <1>6, <2>1, <2>2, ExecutesFacts, NothingStep
       DEF Ops, UpdateServicesNotFound
<1>7. CASE UpdateServicesFails(b)
  BY <1>7, UpdateFailsStep
<1>8. CASE UpdateForwarder(b)
  BY <1>8, ForwarderStep
<1>9. CASE UpdateForwarderFails(b)
  BY <1>9, ForwarderFailsStep
<1>. QED
  BY <1>1, <1>3, <1>4, <1>5, <1>6, <1>7, <1>8, <1>9

LEMMA NamesStep ==
    ASSUME IInv, NamesCommand
    PROVE  IInv'
<1>1. PICK N \in SUBSET Names :
        \/ DeleteServices(N)
        \/ DeleteServicesNotFound(N)
        \/ PauseServices(N)
        \/ PauseServicesFails(N)
        \/ ResumeServices(N)
        \/ ResumeServicesNotFound(N)
        \/ ResumeServicesFails(N)
  BY DEF NamesCommand
<1>2. TypeOK
  BY DEF IInv
<1>3. ASSUME NEW op \in Ops, Executes(op, N, FALSE),
             UNCHANGED <<registry, listening, leaked, config, drift>>
      PROVE  IInv'
  <2>1. leaked' \in SUBSET Addrs
    BY <1>2, <1>3 DEF TypeOK
  <2>. QED
    BY <1>2, <1>3, <2>1, ExecutesFacts, NothingStep
<1>4. CASE DeleteServices(N)
  BY <1>4, DeleteStep
<1>5. CASE DeleteServicesNotFound(N)
  BY <1>3, <1>5 DEF DeleteServicesNotFound, Ops
<1>6. CASE PauseServices(N)
  BY <1>6, PauseStep
<1>7. CASE PauseServicesFails(N)
  <2>1. Executes("pause", N, FALSE)
    BY <1>7 DEF PauseServicesFails
  <2>. QED
    BY <1>3, <1>7, <2>1, PauseFailsHarmless DEF Ops
<1>8. CASE ResumeServices(N)
  BY <1>8, ResumeStep
<1>9. CASE ResumeServicesNotFound(N)
  BY <1>3, <1>9 DEF ResumeServicesNotFound, Ops
<1>10. CASE ResumeServicesFails(N)
  BY <1>10, ResumeFailsStep
<1>. QED
  BY <1>1, <1>4, <1>5, <1>6, <1>7, <1>8, <1>9, <1>10

LEMMA AnsweringStep ==
    ASSUME IInv, Answering
    PROVE  IInv'
<1>1. TypeOK /\ phase # "down"
  BY DEF IInv, Answering, SaveCreate, SaveWrite, SendResponse
<1>2. UNCHANGED <<registry, listening, leaked, foreign, config, drift>>
  BY DEF Answering, SaveCreate, SaveWrite, SendResponse
<1>3. /\ disk' \in ConfigFile \cup {Truncated}
      /\ phase' \in Phases
      /\ cmd' \in Answers
  BY <1>1 DEF TypeOK, Phases, Answers, Answering, SaveCreate, SaveWrite,
              SendResponse
<1>. QED
  BY <1>1, <1>2, <1>3, NothingStep DEF TypeOK

LEMMA CrashStep ==
    ASSUME IInv, Crash
    PROVE  IInv'
<1>1. /\ \A s \in Names : config'[s] = <<>> /\ registry'[s] = Absent
      /\ phase' = "down"
  BY DEF Crash
<1>2. TypeOK'
  <2>1. config' \in ConfigFile
    BY DEF Crash, ConfigFile
  <2>2. cmd' \in Answers
    BY DEF Crash, NoCmd, Answers, Ops
  <2>. QED
    BY <2>1, <2>2 DEF IInv, Crash, TypeOK, Registered, Phases
<1>. QED
  BY <1>1, <1>2 DEF IInv, NameOK, Registered, Configured

LEMMA BootStep ==
    ASSUME IInv, Boot
    PROVE  IInv'
<1>1. TypeOK /\ disk \in ConfigFile
  BY DEF IInv, TypeOK, Boot
<1>2. /\ config' = disk
      /\ \A s \in Names : registry'[s] = IF disk[s] # <<>> THEN disk[s][1].spec
                                         ELSE Absent
      /\ listening' = {s \in Names : disk[s] # <<>>}
      /\ phase' = "idle"
      /\ UNCHANGED <<leaked, foreign, disk, cmd, drift>>
      /\ registry' \in [Names -> {registry'[s] : s \in Names}]
  BY DEF Boot, DiskSpecs
<1>3. ASSUME NEW s \in Names, disk[s] # <<>>
      PROVE  disk[s][1].spec \in SvcSpecs /\ disk[s][1].spec # Absent
  <2>1. disk[s] \in Seq(Entry)
    BY <1>1 DEF ConfigFile
  <2>2. 1 \in 1..Len(disk[s])
    BY <1>3, <2>1, EmptySeq, LenProperties
  <2>3. disk[s][1] \in Entry
    BY <2>1, <2>2, ElementOfSeq
  <2>. QED
    BY <2>3, NodeAssumption DEF Entry
<1>4. \A s \in Names : /\ registry'[s] \in SvcSpecs \cup {Absent}
                       /\ registry'[s] # Absent <=> disk[s] # <<>>
  BY <1>2, <1>3
<1>5. TypeOK'
  BY <1>1, <1>2, <1>4 DEF TypeOK, Registered, Phases
<1>6. ASSUME NEW s \in Names PROVE NameOK(s)'
  <2>1. s \in Registered' <=> Configured(s)'
    BY <1>2, <1>4 DEF Registered, Configured
  <2>2. s \in Registered' => s \in listening' /\ registry'[s] = First(s)'.spec
    BY <1>2, <1>4 DEF Registered, First
  <2>3. Len(config'[s]) <= 1
    BY <1>2 DEF Boot
  <2>. QED
    BY <2>1, <2>2, <2>3 DEF NameOK, InSync
<1>. QED
  BY <1>5, <1>6 DEF IInv

LEMMA HostStep ==
    ASSUME IInv, Host
    PROVE  IInv'
<1>1. CASE Crash
  BY <1>1, CrashStep
<1>2. CASE Boot
  BY <1>2, BootStep
<1>3. CASE CollectLeaked \/ \E a \in Addrs : ForeignBind(a) \/ ForeignRelease(a)
  <2>1. /\ UNCHANGED <<registry, listening, config, disk, phase, cmd, drift>>
        /\ leaked' \in SUBSET Addrs /\ foreign' \in SUBSET Addrs
    BY <1>3 DEF IInv, TypeOK, CollectLeaked, ForeignBind, ForeignRelease
  <2>. QED
    BY <2>1 DEF IInv, TypeOK, NameOK, InSync, Registered, Configured, First, Paused
<1>. QED
  BY <1>1, <1>2, <1>3 DEF Host

LEMMA IInvInit == Init => IInv
<1>. SUFFICES ASSUME Init PROVE IInv
  OBVIOUS
<1>1. TypeOK
  BY DEF Init, TypeOK, ConfigFile, Registered, Phases, NoCmd, Answers, Ops
<1>2. ASSUME NEW s \in Names PROVE NameOK(s)
  <2>1. config[s] = <<>> /\ registry[s] = Absent
    BY DEF Init
  <2>2. Len(config[s]) <= 1
    BY <2>1
  <2>. QED
    BY <2>1, <2>2 DEF NameOK, InSync, Registered, Configured
<1>. QED
  BY <1>1, <1>2 DEF IInv

LEMMA IInvStep == IInv /\ [Next]_vars => IInv'
<1>. SUFFICES ASSUME IInv, [Next]_vars PROVE IInv'
  OBVIOUS
<1>1. CASE UNCHANGED vars
  BY <1>1 DEF vars, IInv, TypeOK, NameOK, InSync, Registered, Configured, First, Paused
<1>. QED
  BY <1>1, BatchStep, NamesStep, AnsweringStep, HostStep DEF Next

(***************************************************************************)
(* The theorems.                                                           *)
(***************************************************************************)

\* The inductive invariant holds in every reachable state of the manager.
THEOREM Inductive == Spec => []IInv
BY IInvInit, IInvStep, PTL DEF Spec

\* Type correctness.
THEOREM TypeCorrect == Spec => []TypeOK
BY Inductive, IInvImplies, PTL

\* A live service never loses its entry in the configuration.
THEOREM LiveIsConfigured == Spec => []RegisteredHasConfig
BY Inductive, IInvImplies, PTL

\* A registered service that is not marked as paused has its listener open.
THEOREM NotPausedRuns == Spec => []UnpausedRuns
BY Inductive, IInvImplies, PTL

\* Only commands that fail half-way separate registry and configuration.
THEOREM DesyncNeedsFailure == Spec => []OnlyFailuresDesync
BY Inductive, IInvImplies, PTL

\* What AnsweredIsDurable needs to be inductive: until runtime.json has been
\* written for a command the command does not count as saved.
Durable ==
    /\ phase \in {"executed", "truncated", "unsaved"} => ~ cmd.saved
    /\ AnsweredIsDurable

\* Every command leaves "idle" with an answer that is not saved.
LEMMA ExecutesAnswer ==
    ASSUME NEW op, NEW N, NEW ok, Executes(op, N, ok)
    PROVE  /\ phase' = "executed" /\ ~ cmd'.saved
           /\ cmd'.op = op /\ cmd'.ok = ok
BY DEF Executes

LEMMA CommandsExecute ==
    ASSUME BatchCommand \/ NamesCommand
    PROVE  phase' = "executed" /\ ~ cmd'.saved
<1>1. CASE BatchCommand
  <2>1. PICK b \in Batches : \E op \in Ops, ok \in BOOLEAN :
          Executes(op, DOMAIN b, ok)
    BY <1>1 DEF BatchCommand, CreateServices, CreateServicesFails,
       UpdateServices, UpdateServicesNotFound, UpdateServicesFails,
       UpdateForwarder, UpdateForwarderFails, Ops
  <2>. QED
    BY <2>1, ExecutesAnswer
<1>2. CASE NamesCommand
  <2>1. PICK N \in SUBSET Names : \E op \in Ops, ok \in BOOLEAN :
          Executes(op, N, ok)
    BY <1>2 DEF NamesCommand, DeleteServices, DeleteServicesNotFound,
       PauseServices, PauseServicesFails, ResumeServices,
       ResumeServicesNotFound, ResumeServicesFails, Ops
  <2>. QED
    BY <2>1, ExecutesAnswer
<1>. QED
  BY <1>1, <1>2

\* A command whose answer said it was saved survives every crash.
THEOREM SavedSurvives == Spec => []AnsweredIsDurable
<1>1. Init => Durable
  BY DEF Init, Durable, AnsweredIsDurable, NoCmd
<1>2. IInv /\ Durable /\ [Next]_vars => Durable'
  <2>. SUFFICES ASSUME IInv, Durable, [Next]_vars PROVE Durable'
    OBVIOUS
  <2>1. CASE UNCHANGED vars
    BY <2>1 DEF vars, Durable, AnsweredIsDurable
  <2>2. CASE BatchCommand \/ NamesCommand
    BY <2>2, CommandsExecute DEF Durable, AnsweredIsDurable
  <2>3. CASE Answering
    BY <2>3 DEF Answering, SaveCreate, SaveWrite, SendResponse, Durable,
                AnsweredIsDurable
  <2>4. CASE Host
    BY <2>4 DEF Host, Crash, Boot, CollectLeaked, ForeignBind, ForeignRelease,
                Durable, AnsweredIsDurable
  <2>. QED
    BY <2>1, <2>2, <2>3, <2>4 DEF Next
<1>3. Durable => AnsweredIsDurable
  BY DEF Durable
<1>. QED
  BY <1>1, <1>2, <1>3, Inductive, PTL DEF Spec

\* An answer with an error to create, delete or pause means that no service
\* changed: the half-done pause, with its rollback that cannot work, is
\* unreachable because live services are always configured.
THEOREM FailuresHarmless == Spec => FailedBatchHarmless
<1>. DEFINE A == phase = "idle" /\ phase' = "executed" /\ ~ cmd'.ok
                   /\ cmd'.op \in {"create", "delete", "pause"}
                 => UNCHANGED <<registry, listening, config>>
<1>1. IInv /\ [Next]_vars => [A]_vars
  <2>. SUFFICES ASSUME IInv, Next, phase = "idle", phase' = "executed",
                       ~ cmd'.ok, cmd'.op \in {"create", "delete", "pause"}
                PROVE  UNCHANGED <<registry, listening, config>>
    OBVIOUS
  <2>1. CASE BatchCommand
    BY <2>1 DEF BatchCommand, Executes, CreateServices,
       CreateServicesFails, UpdateServices, UpdateServicesNotFound,
       UpdateServicesFails, UpdateForwarder, UpdateForwarderFails
  <2>2. CASE NamesCommand
    <3>1. PICK N \in SUBSET Names :
            \/ DeleteServices(N)
            \/ DeleteServicesNotFound(N)
            \/ PauseServices(N)
            \/ PauseServicesFails(N)
            \/ ResumeServices(N)
            \/ ResumeServicesNotFound(N)
            \/ ResumeServicesFails(N)
      BY <2>2 DEF NamesCommand
    <3>2. CASE PauseServicesFails(N)
      BY <3>2, PauseFailsHarmless
    <3>3. CASE DeleteServicesNotFound(N)
      BY <3>3 DEF DeleteServicesNotFound
    <3>4. CASE DeleteServices(N) \/ PauseServices(N) \/ ResumeServices(N)
      <4>1. cmd'.ok
        BY <3>4, ExecutesAnswer DEF DeleteServices, PauseServices, ResumeServices
      <4>. QED
        BY <4>1
    <3>5. CASE ResumeServicesNotFound(N) \/ ResumeServicesFails(N)
      <4>1. cmd'.op = "resume"
        BY <3>5, ExecutesAnswer DEF ResumeServicesNotFound, ResumeServicesFails
      <4>. QED
        BY <4>1
    <3>. QED
      BY <3>1, <3>2, <3>3, <3>4, <3>5
  <2>3. CASE Answering
    BY <2>3 DEF Answering, SaveCreate, SaveWrite, SendResponse
  <2>4. CASE Host
    <3>1. phase' # "executed" \/ phase' = phase
      BY <2>4 DEF Host, Crash, Boot, CollectLeaked, ForeignBind, ForeignRelease
    <3>. QED
      BY <3>1
  <2>. QED
    BY <2>1, <2>2, <2>3, <2>4 DEF Next
<1>. QED
  BY <1>1, Inductive, PTL DEF Spec, FailedBatchHarmless
=============================================================================

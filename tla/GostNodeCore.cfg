SPECIFICATION Spec
CONSTANTS
    tcp = tcp
    udp = udp
    a1 = a1
    a2 = a2
    t1 = t1
    Names = {tcp, udp}
    Addrs = {a1, a2}
    Targets = {t1}
    Absent = Absent
    Truncated = Truncated
    MaxEntries = 1
SYMMETRY Permuted
INVARIANTS
    TypeOK
    RegisteredHasConfig
    UnpausedRuns
    OnlyFailuresDesync
    AnsweredIsDurable
PROPERTIES
    FailedBatchHarmless

------------------------ MODULE FlowAccountingProofs ------------------------
(***************************************************************************)
(* Proofs about FlowAccounting: types, what becomes of the bytes, who      *)
(* notices a limit, and that the charges follow.                           *)
(***************************************************************************)
EXTENDS FlowAccounting, FiniteSetTheorems, TLAPS

\* What a meter has reported never exceeds its counter, and the goroutine that holds
\* the request knows the amount.
MeterOK ==
    \A m \in Meters :
        /\ meter[m].life # "none" \/ meter[m].at # "wait" => meter[m].of # none
        /\ meter[m].at \in {"wait", "look"} => meter[m].amount = 0
        /\ meter[m].at \in {"posted", "answered"} => meter[m].amount <= meter[m].bytes
        /\ meter[m].at = "store" => meter[m].amount + meter[m].rest <= meter[m].bytes
        /\ meter[m].by # none => meter[m].at = "posted"

Matched ==
    \A m \in Meters : meter[m].by # none =>
        /\ job[meter[m].by].kind = "upload"
        /\ job[meter[m].by].meter = m
        /\ job[meter[m].by].amount = meter[m].amount

JobOK == \A j \in Jobs : job[j].kind # "idle" => job[j].fwd # none

Early(j) == job[j].stage \in {"arrived", "forward"}

\* The row has the amount before the answer is given.
AddedFirst ==
    \A m \in Meters \ leaky : meter[m].by # none /\ ~ Early(meter[m].by) =>
        carried[m] + meter[m].amount <= counted[m] + meter[m].bytes

\* Without a report that failed there is one upload of a meter, and it adds once.
AddsOnce ==
    \A j \in Jobs : job[j].kind = "upload" /\ job[j].meter \notin retried =>
        /\ meter[job[j].meter].by = j
        /\ Early(j) => counted[job[j].meter] + meter[job[j].meter].bytes
                          <= carried[job[j].meter]

Base == TypeOK /\ MeterOK /\ JobOK /\ Matched
Bytes == NothingLost /\ AddedFirst /\ NothingTwice /\ AddsOnce

-----------------------------------------------------------------------------
(* Types.                                                                  *)

LEMMA NoneApart ==
    /\ none \notin Forwards /\ none \notin Tunnels
    /\ none \notin Meters /\ none \notin Jobs
BY FlowAssumption

LEMMA RecordTypes == NoMeter \in MeterRecord /\ NoJob \in JobRecord
BY DEF NoMeter, NoJob, MeterRecord, JobRecord

LEMMA BillType ==
    ASSUME TypeOK, NEW j \in Jobs, job[j].kind = "upload" PROVE Bill(j) \in Nat
<1>1. job[j] \in JobRecord
  BY DEF TypeOK
<1>2. job[j].amount \in Nat /\ Factor \in Nat
  BY <1>1, FlowAssumption DEF JobRecord
<1>. QED
  BY <1>2 DEF Bill

LEMMA InitBase == Init => Base
<1>. SUFFICES ASSUME Init PROVE Base
  OBVIOUS
<1>1. \A m \in Meters : \/ meter[m] = NoMeter
                        \/ \E f \in Forwards : meter[m] = Started(f)
  <2>1. ASSUME NEW m \in Meters, \E f \in Forwards : FirstMeter[f] = m
        PROVE  \E f \in Forwards : meter[m] = Started(f)
    BY <2>1 DEF Init
  <2>. QED
    BY <2>1 DEF Init
<1>2. \A f \in Forwards : Started(f) \in MeterRecord
  BY RecordTypes DEF Started, MeterRecord
<1>3. TypeOK
  <2>1. meter \in [Meters -> MeterRecord]
    BY <1>1, <1>2, RecordTypes DEF Init
  <2>2. job \in [Jobs -> JobRecord] /\ \A j \in Jobs : job[j].kind # "upload"
    BY RecordTypes DEF Init, NoJob
  <2>. QED
    BY <2>1, <2>2 DEF Init, TypeOK
<1>4. MeterOK
  <2>1. \A f \in Forwards : /\ Started(f).of # none /\ Started(f).at = "wait"
                            /\ Started(f).amount = 0 /\ Started(f).by = none
    BY NoneApart DEF Started, NoMeter
  <2>2. /\ NoMeter.life = "none" /\ NoMeter.at = "wait"
        /\ NoMeter.amount = 0 /\ NoMeter.by = none
    BY DEF NoMeter
  <2>. QED
    BY <1>1, <2>1, <2>2 DEF MeterOK
<1>5. JobOK /\ Matched
  BY <1>1 DEF Init, JobOK, Matched, Started, NoMeter, NoJob
<1>. QED
  BY <1>3, <1>4, <1>5 DEF Base

\* A step of a meter that keeps its forward, with or without its uploads.
LEMMA MeterStep ==
    ASSUME Base, NEW m \in Meters, NEW new \in MeterRecord, Put(m, new),
           new.of = meter[m].of,
           new.life # "none" \/ new.at # "wait" => new.of # none,
           new.at \in {"wait", "look"} => new.amount = 0,
           new.at \in {"posted", "answered"} => new.amount <= new.bytes,
           new.at = "store" => new.amount + new.rest <= new.bytes,
           new.by = none \/ (new.at = "posted" /\ new.by = meter[m].by
                               /\ new.amount = meter[m].amount),
           UNCHANGED <<job, total, used, status, crashes>>,
           carried' \in [Meters -> Nat], UNCHANGED <<counted, wiped, excused>>,
           retried' \subseteq Meters, leaky' \subseteq Meters
    PROVE  Base'
<1>1. meter' \in [Meters -> MeterRecord] /\ \A n \in Meters : meter'[n].of = meter[n].of
  BY DEF Base, TypeOK, Put
<1>2. TypeOK'
  <2>1. \A j \in Jobs : job[j].kind = "upload" =>
           /\ job[j].meter \in Meters
           /\ job[j].fwd = meter'[job[j].meter].of
    BY <1>1 DEF Base, TypeOK, JobRecord
  <2>. QED
    BY <1>1, <2>1 DEF Base, TypeOK
<1>3. MeterOK'
  BY DEF Base, TypeOK, MeterOK, Put
<1>4. Matched'
  BY DEF Base, TypeOK, Matched, Put
<1>. QED
  BY <1>2, <1>3, <1>4 DEF Base, JobOK

LEMMA NodeBase ==
    ASSUME Base, NEW m \in Meters,
           Carry(m) \/ Tick(m) \/ GiveUp(m) \/ Subtract(m) \/ Store(m) \/ Drained(m)
    PROVE  Base'
<1>a. meter[m] \in MeterRecord
  BY DEF Base, TypeOK
<1>b. /\ meter[m].life # "none" \/ meter[m].at # "wait" => meter[m].of # none
      /\ meter[m].at \in {"wait", "look"} => meter[m].amount = 0
      /\ meter[m].at \in {"posted", "answered"} => meter[m].amount <= meter[m].bytes
      /\ meter[m].at = "store" => meter[m].amount + meter[m].rest <= meter[m].bytes
      /\ meter[m].by # none => meter[m].at = "posted"
  BY DEF Base, MeterOK
<1>c. /\ meter[m].bytes \in Nat /\ meter[m].amount \in Nat /\ meter[m].rest \in Nat
  BY <1>a DEF MeterRecord
<1>1. CASE Carry(m)
  <2>. DEFINE new == [meter[m] EXCEPT !.bytes = @ + 1, !.updated = TRUE]
  <2>3. meter[m].bytes + 1 \in Nat
    BY <1>c
  <2>1. new \in MeterRecord
    BY <1>a, <2>3 DEF MeterRecord
  <2>4. new.bytes = meter[m].bytes + 1 /\ new.amount = meter[m].amount
        /\ new.rest = meter[m].rest /\ new.by = meter[m].by /\ new.of = meter[m].of
        /\ new.at = meter[m].at
    BY <1>a DEF MeterRecord
  <2>5. new.of # none
    BY <1>1, <1>b, <2>4 DEF Carry
  <2>2. carried' \in [Meters -> Nat]
    BY <1>1 DEF Carry, Base, TypeOK
  <2>. QED
    <3>. HIDE DEF new
    <3>1. Put(m, new) /\ UNCHANGED <<job, total, used, status, crashes>>
          /\ UNCHANGED <<counted, wiped, retried, leaky, excused>>
      BY <1>1 DEF Carry, panel, new
    <3>2. /\ new.at \in {"posted", "answered"} => new.amount <= new.bytes
          /\ new.at = "store" => new.amount + new.rest <= new.bytes
      BY <1>b, <1>c, <2>4
    <3>3. retried' \subseteq Meters /\ leaky' \subseteq Meters
      BY <3>1 DEF Base, TypeOK
    <3>. QED
      BY <1>b, <2>1, <2>2, <2>4, <2>5, <3>1, <3>2, <3>3, MeterStep
<1>2. CASE Tick(m)
  <2>. DEFINE new == [meter[m] EXCEPT !.updated = FALSE, !.at = "look"]
  <2>1. new \in MeterRecord
    BY <1>a DEF MeterRecord
  <2>. QED
    BY <1>2, <1>a, <1>b, <1>c, <2>1, MeterStep
    DEF Tick, panel, aux, Base, TypeOK, MeterRecord
<1>3. CASE GiveUp(m)
  <2>. DEFINE new == [meter[m] EXCEPT !.at = "wait", !.amount = 0, !.by = none]
  <2>1. new \in MeterRecord
    BY <1>a DEF MeterRecord
  <2>. QED
    BY <1>3, <1>a, <1>b, <1>c, <2>1, MeterStep
    DEF GiveUp, panel, Base, TypeOK, MeterRecord
<1>4. CASE Subtract(m)
  <2>. DEFINE new == [meter[m] EXCEPT !.at = "store",
                                      !.rest = meter[m].bytes - meter[m].amount]
  <2>1. meter[m].bytes - meter[m].amount \in Nat
    BY <1>4, <1>b, <1>c DEF Subtract
  <2>2. new \in MeterRecord
    BY <1>a, <2>1 DEF MeterRecord
  <2>3. new.amount + new.rest <= new.bytes
    BY <1>a, <1>c DEF MeterRecord
  <2>. QED
    BY <1>4, <1>a, <1>b, <1>c, <2>2, <2>3, MeterStep
    DEF Subtract, panel, aux, Base, TypeOK, MeterRecord
<1>5. CASE Store(m)
  <2>1. Stored(m, meter[m].rest) \in MeterRecord
    BY <1>a, <1>c DEF Stored, MeterRecord
  <2>2. leaky' \subseteq Meters
    BY <1>5 DEF Store, Base, TypeOK
  <2>. QED
    BY <1>5, <1>a, <1>b, <1>c, <2>1, <2>2, MeterStep
    DEF Store, Stored, panel, Base, TypeOK, MeterRecord
<1>6. CASE Drained(m)
  <2>. DEFINE new == [meter[m] EXCEPT !.life = "ended"]
  <2>1. new \in MeterRecord
    BY <1>a DEF MeterRecord
  <2>. QED
    BY <1>6, <1>a, <1>b, <1>c, <2>1, MeterStep
    DEF Drained, panel, aux, Base, TypeOK, MeterRecord
<1>. QED
  BY <1>1, <1>2, <1>3, <1>4, <1>5, <1>6

\* The rows and the auxiliary variables have their types after a step.
RowTypes ==
    /\ total \in [Forwards -> Nat]
    /\ used \in [Accounts -> Nat]
    /\ status \in [Forwards -> {"active", "paused", "gone"}]
    /\ crashes \in Nat
    /\ carried \in [Meters -> Nat] /\ counted \in [Meters -> Nat]
    /\ wiped \in [Accounts -> Nat]
    /\ retried \subseteq Meters /\ leaky \subseteq Meters /\ excused \subseteq Forwards

LEMMA RowsTyped == Base => RowTypes
BY DEF Base, TypeOK, RowTypes

\* A meter that starts, closes or stays as it is.
Alike(m) ==
    /\ meter'[m].at = meter[m].at
    /\ meter'[m].by = meter[m].by
    /\ meter'[m].bytes = meter[m].bytes
    /\ meter'[m].amount = meter[m].amount
    /\ meter'[m].rest = meter[m].rest
    /\ meter'[m].life # "none" => meter'[m].of # none
    /\ meter[m].of # none => meter'[m].of = meter[m].of

LEMMA SameAlike ==
    ASSUME Base, UNCHANGED meter
    PROVE  meter' \in [Meters -> MeterRecord] /\ \A m \in Meters : Alike(m)
BY DEF Base, TypeOK, MeterOK, Alike

LEMMA ClosedAlike ==
    ASSUME Base, NEW f, meter' = Closed(f)
    PROVE  meter' \in [Meters -> MeterRecord] /\ \A m \in Meters : Alike(m)
<1>. SUFFICES ASSUME NEW m \in Meters PROVE meter'[m] \in MeterRecord /\ Alike(m)
  BY DEF Closed
<1>1. meter[m] \in MeterRecord
  BY DEF Base, TypeOK
<1>2. meter[m].life # "none" => meter[m].of # none
  BY DEF Base, MeterOK
<1>3. CASE meter[m].of = f /\ meter[m].life = "open"
  <2>1. meter'[m] = [meter[m] EXCEPT !.life = "draining"]
    BY <1>3 DEF Closed
  <2>. QED
    BY <1>1, <1>2, <1>3, <2>1 DEF Alike, MeterRecord
<1>4. CASE ~ (meter[m].of = f /\ meter[m].life = "open")
  <2>1. meter'[m] = meter[m]
    BY <1>4 DEF Closed
  <2>. QED
    BY <1>1, <1>2, <2>1 DEF Alike
<1>. QED
  BY <1>3, <1>4

LEMMA StartedAlike ==
    ASSUME Base, NEW n \in Meters, meter[n] = NoMeter, NEW f \in Forwards,
           Put(n, Started(f))
    PROVE  meter' \in [Meters -> MeterRecord] /\ \A m \in Meters : Alike(m)
<1>1. Started(f) \in MeterRecord /\ Started(f).of = f
  BY RecordTypes DEF Started, NoMeter, MeterRecord
<1>2. meter' \in [Meters -> MeterRecord]
  BY <1>1 DEF Put, Base, TypeOK
<1>3. ASSUME NEW m \in Meters, m # n PROVE Alike(m)
  <2>1. meter'[m] = meter[m]
    BY <1>3 DEF Put, Base, TypeOK
  <2>. QED
    BY <2>1 DEF Alike, Base, MeterOK
<1>4. Alike(n)
  <2>1. meter'[n] = Started(f)
    BY DEF Put, Base, TypeOK
  <2>. QED
    BY <2>1, <1>1, NoneApart DEF Alike, Started, NoMeter
<1>. QED
  BY <1>2, <1>3, <1>4

LEMMA AlikeBase ==
    ASSUME Base, meter' \in [Meters -> MeterRecord], \A m \in Meters : Alike(m)
    PROVE  /\ MeterOK'
           /\ \A j \in Jobs : job[j].kind = "upload" =>
                 job[j].fwd = meter'[job[j].meter].of
<1>1. MeterOK'
  BY DEF Base, MeterOK, Alike
<1>2. ASSUME NEW j \in Jobs, job[j].kind = "upload"
      PROVE  job[j].fwd = meter'[job[j].meter].of
  <2>1. job[j].meter \in Meters /\ job[j].fwd = meter[job[j].meter].of /\ job[j].fwd # none
    BY <1>2 DEF Base, TypeOK, JobRecord
  <2>. QED
    BY <2>1 DEF Alike
<1>. QED
  BY <1>1, <1>2

\* A step of a goroutine, of an upload that goes on or of something else.
LEMMA JobStep ==
    ASSUME Base, NEW j \in Jobs, NEW new \in JobRecord, Move(j, new),
           meter' \in [Meters -> MeterRecord], \A m \in Meters : Alike(m),
           \/ job[j].kind # "upload" /\ new.kind # "upload"
           \/ /\ job[j].kind = "upload" /\ new.kind = "upload"
              /\ new.meter = job[j].meter /\ new.fwd = job[j].fwd
              /\ new.amount = job[j].amount,
           new.kind # "idle" => new.fwd # none,
           RowTypes'
    PROVE  Base'
<1>1. job' \in [Jobs -> JobRecord] /\ job'[j] = new
      /\ \A k \in Jobs : k # j => job'[k] = job[k]
  BY DEF Move, Base, TypeOK
<1>2. JobOK'
  BY <1>1 DEF Base, JobOK
<1>3. Matched'
  BY <1>1 DEF Base, TypeOK, Matched, Alike, MeterRecord
<1>4. \A k \in Jobs : job'[k].kind = "upload" =>
         /\ job'[k].meter # none /\ job'[k].fwd = meter'[job'[k].meter].of
         /\ job'[k].fwd # none
  BY <1>1, AlikeBase DEF Base, TypeOK
<1>5. TypeOK'
  BY <1>1, <1>4 DEF TypeOK, RowTypes
<1>. QED
  BY <1>2, <1>3, <1>5, AlikeBase DEF Base

LEMMA JobTyped ==
    ASSUME Base, NEW j \in Jobs
    PROVE  /\ job[j] \in JobRecord
           /\ job[j].kind # "idle" => job[j].fwd \in Forwards
           /\ job[j].kind = "upload" => job[j].meter \in Meters /\ Bill(j) \in Nat
<1>1. job[j] \in JobRecord /\ (job[j].kind # "idle" => job[j].fwd # none)
  BY DEF Base, TypeOK, JobOK
<1>. QED
  BY <1>1, BillType DEF Base, TypeOK, JobRecord

\* Only the stage, and what is to be paused, of a goroutine changes.
LEMMA OnwardStep ==
    ASSUME Base, NEW j \in Jobs, job[j].kind # "idle",
           NEW stage \in {"forward", "user", "permission", "checkUser",
                          "checkTunnel", "answer", "row"},
           NEW todo \in SUBSET Forwards,
           Move(j, [job[j] EXCEPT !.stage = stage, !.todo = todo]),
           UNCHANGED meter, RowTypes'
    PROVE  Base'
<1>. DEFINE new == [job[j] EXCEPT !.stage = stage, !.todo = todo]
<1>1. new \in JobRecord /\ new.kind = job[j].kind /\ new.meter = job[j].meter
      /\ new.fwd = job[j].fwd /\ new.amount = job[j].amount
  BY JobTyped DEF JobRecord
<1>2. new.fwd # none
  BY <1>1 DEF Base, JobOK
<1>. HIDE DEF new
<1>3. Move(j, new)
  BY DEF new
<1>4. meter' \in [Meters -> MeterRecord] /\ \A m \in Meters : Alike(m)
  BY SameAlike
<1>. QED
  BY <1>1, <1>2, <1>3, <1>4, JobStep

LEMMA StageStep ==
    ASSUME Base, NEW j \in Jobs, job[j].kind # "idle",
           NEW stage \in {"forward", "user", "permission", "checkUser",
                          "checkTunnel", "answer", "row"},
           Stage(j, stage), UNCHANGED meter, RowTypes'
    PROVE  Base'
<1>1. [job[j] EXCEPT !.stage = stage] = [job[j] EXCEPT !.stage = stage, !.todo = job[j].todo]
      /\ job[j].todo \in SUBSET Forwards
  BY JobTyped DEF JobRecord
<1>2. Move(j, [job[j] EXCEPT !.stage = stage, !.todo = job[j].todo])
  BY <1>1 DEF Stage
<1>. QED
  BY <1>1, <1>2, OnwardStep

\* A goroutine that is not an upload ends.
LEMMA EndStep ==
    ASSUME Base, NEW j \in Jobs, job[j].kind # "upload", Move(j, NoJob),
           meter' \in [Meters -> MeterRecord], \A m \in Meters : Alike(m),
           RowTypes'
    PROVE  Base'
BY RecordTypes, JobStep DEF NoJob

LEMMA AccountTypes == "user" \in Accounts /\ Tunnels \subseteq Accounts
BY DEF Accounts

LEMMA ActiveType == ASSUME NEW a PROVE Active(a) \in SUBSET Forwards
BY DEF Active

LEMMA UploadBase ==
    ASSUME Base, NEW j \in Jobs,
           \/ Lookup(j) \/ AddToForward(j) \/ AddToUser(j) \/ AddToTunnel(j)
           \/ CheckUser(j) \/ CheckTunnel(j)
    PROVE  Base'
<1>a. RowTypes
  BY RowsTyped
<1>b. job[j].kind = "upload" /\ UNCHANGED meter
  BY DEF Lookup, AddToForward, AddToUser, AddToTunnel, CheckUser, CheckTunnel, Check, Do
<1>c. /\ job[j].amount \in Nat /\ Bill(j) \in Nat
      /\ job[j].meter \in Meters /\ job[j].fwd \in Forwards
  BY <1>b, JobTyped DEF JobRecord
<1>1. CASE Lookup(j)
  <2>1. RowTypes'
    BY <1>1, <1>a, <1>c DEF Lookup, RowTypes
  <2>2. Stage(j, "answer") \/ Stage(j, "forward")
    BY <1>1 DEF Lookup
  <2>. QED
    BY <1>b, <2>1, <2>2, StageStep
<1>2. CASE AddToForward(j)
  <2>1. total' \in [Forwards -> Nat]
    BY <1>2, <1>a, <1>c DEF AddToForward, RowTypes
  <2>2. counted' \in [Meters -> Nat]
    BY <1>2, <1>a, <1>c DEF AddToForward, RowTypes
  <2>3. RowTypes'
    BY <1>2, <1>a, <1>c, <2>1, <2>2 DEF AddToForward, RowTypes
  <2>. QED
    BY <1>2, <1>b, <2>3, StageStep DEF AddToForward
<1>3. CASE AddToUser(j)
  <2>1. used' \in [Accounts -> Nat]
    BY <1>3, <1>a, <1>c, AccountTypes DEF AddToUser, RowTypes
  <2>2. RowTypes'
    BY <1>3, <1>a, <2>1, ActiveType DEF AddToUser, RowTypes
  <2>3. Stage(j, "answer") \/ Stage(j, "permission")
    BY <1>3 DEF AddToUser
  <2>. QED
    BY <1>b, <2>2, <2>3, StageStep
<1>4. CASE AddToTunnel(j)
  <2>0. PICK b, a : b \in Nat /\ b = Bill(j) /\ a = TunnelOf[job[j].fwd]
    BY <1>c
  <2>1. used' \in [Accounts -> Nat]
    <3>1. used' = [used EXCEPT ![a] = @ + b]
      BY <1>4, <2>0 DEF AddToTunnel
    <3>2. used \in [Accounts -> Nat]
      BY <1>a DEF RowTypes
    <3>3. CASE a \in Accounts
      BY <2>0, <3>1, <3>2, <3>3
    <3>4. CASE a \notin Accounts
      <4>1. used' = used
        BY <3>1, <3>2, <3>4
      <4>. QED
        BY <3>2, <4>1
    <3>. QED
      BY <3>3, <3>4
  <2>2. RowTypes'
    BY <1>4, <1>a, <2>1 DEF AddToTunnel, RowTypes, aux
  <2>. QED
    BY <1>4, <1>b, <2>2, StageStep DEF AddToTunnel
<1>5. ASSUME NEW a, NEW next \in {"checkTunnel", "answer"}, Check(j, a, next)
      PROVE  Base'
  <2>. DEFINE found == IF Over(a) THEN Active(a) ELSE {}
  <2>1. found \in SUBSET Forwards
    BY ActiveType
  <2>2. /\ Move(j, [job[j] EXCEPT !.stage = next, !.todo = found])
        /\ excused' = excused \ found
        /\ UNCHANGED <<meter, total, used, status, crashes, carried, counted,
                       wiped, retried, leaky>>
    BY <1>5 DEF Check
  <2>. HIDE DEF found
  <2>3. RowTypes'
    BY <1>a, <2>2 DEF RowTypes
  <2>. QED
    BY <1>b, <2>1, <2>2, <2>3, OnwardStep
<1>6. CASE CheckUser(j)
  BY <1>5, <1>6 DEF CheckUser
<1>7. CASE CheckTunnel(j)
  <2>1. Check(j, TunnelOf[job[j].fwd], "answer")
    BY <1>7 DEF CheckTunnel
  <2>. QED
    BY <1>5, <2>1
<1>. QED
  BY <1>1, <1>2, <1>3, <1>4, <1>6, <1>7

\* The meter that waits for the answer is the one the goroutine reports of.
LEMMA AnswerBase == ASSUME Base, NEW j \in Jobs, Answer(j) PROVE Base'
<1>a. PICK m \in Meters : m = job[j].meter
  BY JobTyped DEF Answer, Do
<1>b. job' = [job EXCEPT ![j] = NoJob] /\ UNCHANGED <<total, used, status, crashes, aux>>
  BY DEF Answer, Move
<1>c. meter[m] \in MeterRecord
  BY DEF Base, TypeOK
<1>d. \A n \in Meters : meter[n].by = j => n = m
  <2>1. ASSUME NEW n \in Meters, meter[n].by = j PROVE n = m
    <3>1. j # none
      BY NoneApart
    <3>. QED
      BY <2>1, <3>1, <1>a DEF Base, Matched
  <2>. QED
    BY <2>1
<1>1. \/ UNCHANGED meter /\ meter[m].by # j
      \/ /\ meter[m].by = j
         /\ \E at \in {"answered", "posted"} :
               meter' = [meter EXCEPT ![m] = [meter[m] EXCEPT !.at = at, !.by = none]]
  <2>1. ASSUME meter[m].by = j
        PROVE  \E at \in {"answered", "posted"} :
                  meter' = [meter EXCEPT ![m] = [meter[m] EXCEPT !.at = at, !.by = none]]
    <3>1. meter[m].at = "posted"
      BY <2>1, NoneApart DEF Base, MeterOK
    <3>2. CASE Put(m, [meter[m] EXCEPT !.at = "answered", !.by = none])
      BY <3>2 DEF Put
    <3>3. CASE Put(m, [meter[m] EXCEPT !.by = none])
      <4>1. [meter[m] EXCEPT !.by = none] = [meter[m] EXCEPT !.at = "posted", !.by = none]
        BY <3>1, <1>c DEF MeterRecord
      <4>. QED
        BY <3>3, <4>1 DEF Put
    <3>. QED
      BY <2>1, <1>a, <3>2, <3>3 DEF Answer
  <2>. QED
    BY <2>1, <1>a DEF Answer
<1>2. job' \in [Jobs -> JobRecord] /\ job'[j].kind = "idle"
      /\ \A k \in Jobs : k # j => job'[k] = job[k]
  BY <1>b, RecordTypes DEF Base, TypeOK, NoJob
<1>n. \/ UNCHANGED meter /\ meter[m].by # j
      \/ /\ meter[m].by = j /\ meter'[m] \in MeterRecord
         /\ meter'[m].of = meter[m].of /\ meter'[m].bytes = meter[m].bytes
         /\ meter'[m].amount = meter[m].amount
         /\ meter'[m].at \in {"answered", "posted"} /\ meter'[m].by = none
         /\ meter' \in [Meters -> MeterRecord]
         /\ \A n \in Meters : n # m => meter'[n] = meter[n]
  <2>1. ASSUME NEW at \in {"answered", "posted"}
        PROVE  LET new == [meter[m] EXCEPT !.at = at, !.by = none]
               IN  /\ new \in MeterRecord /\ new.of = meter[m].of
                   /\ new.bytes = meter[m].bytes /\ new.amount = meter[m].amount
                   /\ new.at = at /\ new.by = none
    BY <1>c DEF MeterRecord
  <2>2. ASSUME NEW new \in MeterRecord, meter' = [meter EXCEPT ![m] = new]
        PROVE  /\ meter'[m] = new /\ meter' \in [Meters -> MeterRecord]
               /\ \A n \in Meters : n # m => meter'[n] = meter[n]
    BY <2>2 DEF Base, TypeOK
  <2>. QED
    BY <1>1, <2>1, <2>2
<1>3. meter' \in [Meters -> MeterRecord]
      /\ \A n \in Meters : meter'[n].of = meter[n].of
  BY <1>n DEF Base, TypeOK
<1>4. TypeOK'
  <2>1. \A k \in Jobs : job'[k].kind = "upload" =>
           /\ job'[k].meter # none /\ job'[k].fwd = meter'[job'[k].meter].of
           /\ job'[k].fwd # none
    BY <1>2, <1>3 DEF Base, TypeOK, JobRecord
  <2>. QED
    BY <1>2, <1>3, <1>b, <2>1 DEF Base, TypeOK, aux
<1>5. MeterOK'
  <2>1. meter[m].by = j => meter[m].at = "posted"
    BY NoneApart DEF Base, MeterOK
  <2>2. UNCHANGED meter \/ meter[m].at = "posted"
    BY <1>n, <2>1
  <2>3. CASE UNCHANGED meter
    BY <2>3 DEF Base, MeterOK
  <2>4. CASE meter[m].at = "posted"
    <3>1. ASSUME NEW n \in Meters, n # m PROVE meter'[n] = meter[n]
      BY <3>1, <1>n
    <3>2. UNCHANGED meter \/ meter[m].of # none
      BY <2>4 DEF Base, MeterOK
    <3>a. meter[m].amount <= meter[m].bytes
      BY <2>4 DEF Base, MeterOK
    <3>3. \/ UNCHANGED meter
          \/ /\ meter'[m].of # none /\ meter'[m].at \in {"answered", "posted"}
             /\ meter'[m].amount <= meter'[m].bytes /\ meter'[m].by = none
      BY <3>2, <3>a, <1>n
    <3>. QED
      BY <2>3, <3>1, <3>3 DEF Base, MeterOK
  <2>. QED
    BY <2>2, <2>3, <2>4
<1>6. Matched'
  <2>1. ASSUME NEW n \in Meters, meter'[n].by # none
        PROVE  meter[n].by = meter'[n].by /\ meter[n].amount = meter'[n].amount
               /\ meter[n].by # j
    BY <2>1, <1>n, <1>d
  <2>. QED
    BY <2>1, <1>2 DEF Base, TypeOK, Matched, MeterRecord
<1>7. JobOK'
  BY <1>2 DEF Base, JobOK
<1>. QED
  BY <1>4, <1>5, <1>6, <1>7 DEF Base

\* A report that reaches a goroutine.
LEMMA PostedBase ==
    ASSUME Base, NEW m \in Meters, meter[m].at = "look", NEW j \in Jobs, Idle(j),
           Put(m, [meter[m] EXCEPT !.at = "posted", !.amount = meter[m].bytes, !.by = j]),
           Move(j, [NoJob EXCEPT !.kind = "upload", !.stage = "arrived", !.meter = m,
                        !.fwd = meter[m].of, !.amount = meter[m].bytes]),
           UNCHANGED <<total, used, status, crashes, aux>>
    PROVE  Base'
<1>. DEFINE new == [meter[m] EXCEPT !.at = "posted", !.amount = meter[m].bytes, !.by = j]
            work == [NoJob EXCEPT !.kind = "upload", !.stage = "arrived", !.meter = m,
                         !.fwd = meter[m].of, !.amount = meter[m].bytes]
<1>a. meter[m] \in MeterRecord /\ meter[m].of # none /\ meter[m].bytes \in Nat
      /\ meter[m].of \in Forwards
  BY DEF Base, TypeOK, MeterOK, MeterRecord
<1>b. new \in MeterRecord /\ new.of = meter[m].of /\ new.by = j
      /\ new.at = "posted" /\ new.amount = new.bytes /\ new.bytes \in Nat
      /\ new.amount = meter[m].bytes
  BY <1>a DEF MeterRecord
<1>c. work \in JobRecord /\ work.kind = "upload" /\ work.meter = m
      /\ work.fwd = meter[m].of /\ work.amount = meter[m].bytes
  BY <1>a, RecordTypes DEF NoJob, JobRecord
<1>. HIDE DEF new, work
<1>1. meter' \in [Meters -> MeterRecord] /\ meter'[m] = new
      /\ \A n \in Meters : n # m => meter'[n] = meter[n]
  BY <1>b DEF Put, Base, TypeOK, new
<1>2. job' \in [Jobs -> JobRecord] /\ job'[j] = work
      /\ \A k \in Jobs : k # j => job'[k] = job[k]
  BY <1>c DEF Move, Base, TypeOK, work
<1>3. TypeOK'
  <2>1. \A n \in Meters : meter'[n].of = meter[n].of
    BY <1>1, <1>b
  <2>2. \A k \in Jobs : job'[k].kind = "upload" =>
           /\ job'[k].meter # none /\ job'[k].fwd = meter'[job'[k].meter].of
           /\ job'[k].fwd # none
    BY <1>a, <1>2, <1>c, <2>1, NoneApart DEF Base, TypeOK, JobRecord
  <2>. QED
    BY <1>1, <1>2, <2>2 DEF Base, TypeOK, aux
<1>4. MeterOK'
  <2>1. ASSUME NEW n \in Meters, n # m PROVE meter'[n] = meter[n]
    BY <2>1, <1>1
  <2>2. meter'[m].of # none /\ meter'[m].at = "posted"
        /\ meter'[m].amount <= meter'[m].bytes
    BY <1>1, <1>a, <1>b
  <2>. QED
    BY <2>1, <2>2 DEF Base, MeterOK
<1>5. Matched'
  <2>1. \A n \in Meters : meter[n].by # j
    BY NoneApart DEF Base, Matched, Idle, NoJob
  <2>2. ASSUME NEW n \in Meters, n # m, meter[n].by # none PROVE meter[n].by \in Jobs \ {j}
    BY <2>1, <2>2 DEF Base, TypeOK, MeterRecord
  <2>. QED
    BY <1>1, <1>2, <1>b, <1>c, <2>2 DEF Base, Matched
<1>6. JobOK'
  BY <1>a, <1>2, <1>c DEF Base, JobOK
<1>. QED
  BY <1>3, <1>4, <1>5, <1>6 DEF Base

LEMMA PostBase == ASSUME Base, NEW m \in Meters, Post(m) PROVE Base'
<1>a. meter[m] \in MeterRecord /\ meter[m].by = none /\ meter[m].of # none
      /\ meter[m].bytes \in Nat /\ meter[m].at = "look" /\ meter[m].amount = 0
  BY DEF Base, TypeOK, MeterOK, MeterRecord, Post
<1>b. UNCHANGED <<total, used, status, crashes, aux>>
  BY DEF Post
<1>c. /\ carried' \in [Meters -> Nat] /\ UNCHANGED <<counted, wiped, excused>>
      /\ retried' \subseteq Meters /\ leaky' \subseteq Meters
  BY <1>b DEF aux, Base, TypeOK
<1>1. CASE Put(m, [meter[m] EXCEPT !.at = "wait"]) /\ UNCHANGED job
  <2>. DEFINE new == [meter[m] EXCEPT !.at = "wait"]
  <2>1. new \in MeterRecord /\ new.of = meter[m].of /\ new.at = "wait"
        /\ new.amount = 0 /\ new.by = none
    BY <1>a DEF MeterRecord
  <2>. HIDE DEF new
  <2>2. Put(m, new) /\ UNCHANGED <<job, total, used, status, crashes>>
    BY <1>1, <1>b DEF new
  <2>. QED
    BY <1>a, <1>c, <2>1, <2>2, MeterStep
<1>2. CASE /\ Put(m, [meter[m] EXCEPT !.at = "posted", !.amount = meter[m].bytes])
           /\ UNCHANGED job
  <2>. DEFINE new == [meter[m] EXCEPT !.at = "posted", !.amount = meter[m].bytes]
  <2>1. new \in MeterRecord /\ new.of = meter[m].of /\ new.at = "posted"
        /\ new.amount = new.bytes /\ new.bytes \in Nat /\ new.by = none
    BY <1>a DEF MeterRecord
  <2>. HIDE DEF new
  <2>2. Put(m, new) /\ UNCHANGED <<job, total, used, status, crashes>>
    BY <1>2, <1>b DEF new
  <2>. QED
    BY <1>a, <1>c, <2>1, <2>2, MeterStep
<1>3. CASE \E j \in Jobs :
              /\ Idle(j)
              /\ Put(m, [meter[m] EXCEPT !.at = "posted", !.amount = meter[m].bytes,
                                         !.by = j])
              /\ Move(j, [NoJob EXCEPT !.kind = "upload", !.stage = "arrived", !.meter = m,
                              !.fwd = meter[m].of, !.amount = meter[m].bytes])
  BY <1>a, <1>b, <1>3, PostedBase
<1>4. ASSUME NEW j
      PROVE  [[meter[m] EXCEPT !.at = "posted", !.amount = meter[m].bytes] EXCEPT !.by = j]
           = [meter[m] EXCEPT !.at = "posted", !.amount = meter[m].bytes, !.by = j]
  BY <1>a DEF MeterRecord
<1>5. ASSUME NEW j \in Jobs
      PROVE  [job EXCEPT ![j] = [NoJob EXCEPT !.kind = "upload", !.stage = "arrived",
                                    !.meter = m, !.fwd = meter[m].of,
                                    !.amount = meter[m].bytes]] = job' =>
             Move(j, [NoJob EXCEPT !.kind = "upload", !.stage = "arrived", !.meter = m,
                          !.fwd = meter[m].of, !.amount = meter[m].bytes])
  BY DEF Move
<1>. QED
  BY <1>1, <1>2, <1>3, <1>4, <1>5 DEF Post

LEMMA WorkBase == ASSUME Base, NEW j \in Jobs, Work(j) PROVE Base'
<1>a. RowTypes
  BY RowsTyped
<1>b. job[j] \in JobRecord /\ (job[j].kind # "idle" => job[j].fwd \in Forwards)
  BY JobTyped
<1>1. CASE PauseService(j)
  <2>1. PICK f \in job[j].todo :
           /\ Move(j, [job[j] EXCEPT !.todo = @ \ {f}, !.cut = f])
           /\ meter' = Closed(f) \/ UNCHANGED meter
    BY <1>1 DEF PauseService
  <2>. DEFINE new == [job[j] EXCEPT !.todo = @ \ {f}, !.cut = f]
  <2>2. f \in Forwards /\ job[j].todo \ {f} \in SUBSET Forwards
    BY <1>b DEF JobRecord
  <2>3. new \in JobRecord /\ new.kind = job[j].kind /\ new.meter = job[j].meter
        /\ new.fwd = job[j].fwd /\ new.amount = job[j].amount
    BY <1>b, <2>2 DEF JobRecord
  <2>. HIDE DEF new
  <2>4. Move(j, new)
    BY <2>1 DEF new
  <2>5. RowTypes'
    BY <1>a, <1>1 DEF PauseService, aux, RowTypes
  <2>6. meter' \in [Meters -> MeterRecord] /\ \A m \in Meters : Alike(m)
    BY <2>1, SameAlike, ClosedAlike
  <2>. QED
    BY <1>b, <2>3, <2>4, <2>5, <2>6, NoneApart, JobStep
<1>2. CASE PauseRow(j)
  <2>. DEFINE new == [job[j] EXCEPT !.cut = none]
  <2>1. new \in JobRecord /\ new.kind = job[j].kind /\ new.meter = job[j].meter
        /\ new.fwd = job[j].fwd /\ new.amount = job[j].amount
    BY <1>b DEF JobRecord
  <2>. HIDE DEF new
  <2>2. Move(j, new)
    BY <1>2 DEF PauseRow, new
  <2>3. RowTypes'
    BY <1>a, <1>2 DEF PauseRow, aux, RowTypes
  <2>4. meter' \in [Meters -> MeterRecord] /\ \A m \in Meters : Alike(m)
    BY <1>2, SameAlike DEF PauseRow
  <2>. QED
    BY <1>b, <2>1, <2>2, <2>3, <2>4, NoneApart, JobStep
<1>3. CASE ResumeService(j)
  <2>1. job[j].kind = "resume" /\ RowTypes'
    BY <1>a, <1>3 DEF ResumeService, Do, aux, RowTypes
  <2>2. PICK f \in Forwards : f = job[j].fwd
    BY <1>b, <2>1
  <2>3. CASE Move(j, NoJob) /\ UNCHANGED meter
    BY <2>1, <2>3, SameAlike, EndStep
  <2>4. CASE Stage(j, "row") /\ UNCHANGED meter
    BY <2>1, <2>4, StageStep
  <2>5. CASE Stage(j, "row") /\ \E m \in Meters : meter[m] = NoMeter /\ Put(m, Started(f))
    <3>. DEFINE new == [job[j] EXCEPT !.stage = "row"]
    <3>1. new \in JobRecord /\ new.kind = "resume" /\ new.fwd = f
      BY <1>b, <2>1, <2>2 DEF JobRecord
    <3>. HIDE DEF new
    <3>2. Move(j, new)
      BY <2>5 DEF Stage, new
    <3>3. meter' \in [Meters -> MeterRecord] /\ \A m \in Meters : Alike(m)
      BY <2>5, StartedAlike
    <3>. QED
      BY <2>1, <3>1, <3>2, <3>3, NoneApart, JobStep
  <2>. QED
    BY <1>3, <2>2, <2>3, <2>4, <2>5 DEF ResumeService
<1>4. CASE ResumeRow(j)
  <2>1. job[j].kind = "resume" /\ Move(j, NoJob) /\ UNCHANGED meter
    BY <1>4 DEF ResumeRow, Do
  <2>2. RowTypes'
    BY <1>a, <1>b, <1>4, <2>1 DEF ResumeRow, RowTypes
  <2>. QED
    BY <2>1, <2>2, SameAlike, EndStep
<1>5. CASE DeleteService(j)
  <2>1. job[j].kind = "delete" /\ RowTypes'
    BY <1>a, <1>5 DEF DeleteService, Do, aux, RowTypes
  <2>2. CASE Move(j, NoJob) /\ UNCHANGED meter
    BY <2>1, <2>2, SameAlike, EndStep
  <2>3. CASE meter' = Closed(job[j].fwd) /\ Stage(j, "row")
    <3>. DEFINE new == [job[j] EXCEPT !.stage = "row"]
    <3>1. new \in JobRecord /\ new.kind = "delete" /\ new.fwd = job[j].fwd
      BY <1>b, <2>1 DEF JobRecord
    <3>. HIDE DEF new
    <3>2. Move(j, new)
      BY <2>3 DEF Stage, new
    <3>3. PICK f : f = job[j].fwd
      OBVIOUS
    <3>4. meter' = Closed(f)
      BY <2>3, <3>3
    <3>5. meter' \in [Meters -> MeterRecord] /\ \A m \in Meters : Alike(m)
      BY <3>4, ClosedAlike
    <3>. QED
      BY <1>b, <2>1, <3>1, <3>2, <3>5, NoneApart, JobStep
  <2>. QED
    BY <1>5, <2>2, <2>3 DEF DeleteService
<1>6. CASE DeleteRow(j)
  <2>1. job[j].kind = "delete" /\ Move(j, NoJob) /\ UNCHANGED meter
    BY <1>6 DEF DeleteRow, Do
  <2>2. RowTypes'
    BY <1>a, <1>6 DEF DeleteRow, aux, RowTypes
  <2>. QED
    BY <2>1, <2>2, SameAlike, EndStep
<1>. QED
  BY <1>1, <1>2, <1>3, <1>4, <1>5, <1>6 DEF Work

LEMMA RequestBase == ASSUME Base, NEW j \in Jobs, Request(j) PROVE Base'
<1>a. PICK f \in Forwards, kind \in {"resume", "delete"} :
         /\ Idle(j)
         /\ Move(j, [NoJob EXCEPT !.kind = kind, !.stage = "service", !.fwd = f])
         /\ UNCHANGED <<meter, total, used, status, crashes, aux>>
  BY DEF Request, BeginResume, BeginDelete
<1>. DEFINE new == [NoJob EXCEPT !.kind = kind, !.stage = "service", !.fwd = f]
<1>1. new \in JobRecord /\ new.kind = kind /\ new.fwd = f
  BY RecordTypes DEF NoJob, JobRecord
<1>. HIDE DEF new
<1>2. Move(j, new)
  BY <1>a DEF new
<1>3. RowTypes'
  BY <1>a, RowsTyped DEF aux, RowTypes
<1>4. meter' \in [Meters -> MeterRecord] /\ \A m \in Meters : Alike(m)
  BY <1>a, SameAlike
<1>5. job[j].kind # "upload" /\ new.kind # "upload"
  BY <1>a, <1>1 DEF Idle, NoJob
<1>. QED
  BY <1>1, <1>2, <1>3, <1>4, <1>5, NoneApart, JobStep

LEMMA ResetBase == ASSUME Base, NEW a \in Accounts, ResetFlow(a) PROVE Base'
<1>1. used' \in [Accounts -> Nat] /\ wiped' \in [Accounts -> Nat]
  BY DEF ResetFlow, Base, TypeOK
<1>2. TypeOK'
  BY <1>1 DEF ResetFlow, Base, TypeOK
<1>. QED
  BY <1>2 DEF ResetFlow, Base, MeterOK, JobOK, Matched

LEMMA CrashBase == ASSUME Base, Crash PROVE Base'
<1>1. job' \in [Jobs -> JobRecord] /\ \A j \in Jobs : job'[j].kind = "idle"
  BY RecordTypes DEF Crash, NoJob
<1>2. ASSUME NEW m \in Meters
      PROVE  /\ meter'[m] \in MeterRecord /\ meter'[m].by = none
             /\ meter'[m].life = meter[m].life /\ meter'[m].at = meter[m].at
             /\ meter'[m].of = meter[m].of /\ meter'[m].amount = meter[m].amount
             /\ meter'[m].bytes = meter[m].bytes /\ meter'[m].rest = meter[m].rest
  <2>1. meter[m] \in MeterRecord
    BY DEF Base, TypeOK
  <2>2. meter'[m] = [meter[m] EXCEPT !.by = none]
    BY DEF Crash
  <2>. QED
    BY <2>1, <2>2 DEF MeterRecord
<1>3. MeterOK'
  BY <1>2 DEF Base, MeterOK
<1>4. meter' \in [Meters -> MeterRecord]
  BY <1>2 DEF Crash
<1>5. TypeOK'
  BY <1>1, <1>4 DEF Crash, Base, TypeOK
<1>. QED
  BY <1>1, <1>2, <1>3, <1>5 DEF Base, JobOK, Matched

LEMMA NextBase == Base /\ [Next]_vars => Base'
<1>. SUFFICES ASSUME Base, [Next]_vars PROVE Base'
  OBVIOUS
<1>1. ASSUME NEW m \in Meters, Carry(m) \/ Report(m) \/ Drained(m) PROVE Base'
  BY <1>1, NodeBase, PostBase DEF Report
<1>2. ASSUME NEW j \in Jobs, Upload(j) \/ Work(j) \/ Request(j) PROVE Base'
  BY <1>2, UploadBase, AnswerBase, WorkBase, RequestBase DEF Upload
<1>3. CASE UNCHANGED vars
  BY <1>3 DEF vars, panel, aux, Base, TypeOK, MeterOK, JobOK, Matched
<1>. QED
  BY <1>1, <1>2, <1>3, ResetBase, CrashBase DEF Next

\* Types of a panel and a node that lose requests and answers, and restart.
THEOREM Types == Spec => []TypeOK
<1>1. Base => TypeOK
  BY DEF Base
<1>. QED
  BY <1>1, InitBase, NextBase, PTL DEF Spec

-----------------------------------------------------------------------------
(* The bytes.                                                              *)

Unsettled(c) == IF c.at \in {"answered", "store"} THEN c.amount ELSE 0

\* What Bytes says of one meter, c its record.
BytesOf(m, c) ==
    /\ m \notin leaky => carried[m] + Unsettled(c) <= counted[m] + c.bytes
    /\ m \notin leaky /\ c.by # none /\ ~ Early(c.by) =>
          carried[m] + c.amount <= counted[m] + c.bytes
    /\ m \notin retried => counted[m] + c.bytes <= carried[m] + c.amount
    /\ \A j \in Jobs : job[j].kind = "upload" /\ job[j].meter = m /\ m \notin retried =>
          c.by = j /\ (Early(j) => counted[m] + c.bytes <= carried[m])

LEMMA BytesEach == TypeOK => (Bytes <=> \A m \in Meters : BytesOf(m, meter[m]))
<1>. SUFFICES ASSUME TypeOK PROVE Bytes <=> \A m \in Meters : BytesOf(m, meter[m])
  OBVIOUS
<1>1. \A j \in Jobs : job[j].kind = "upload" => job[j].meter \in Meters
  BY DEF TypeOK, JobRecord
<1>. QED
  BY <1>1 DEF Bytes, BytesOf, NothingLost, AddedFirst, NothingTwice, AddsOnce, Unsettled

\* Nothing that BytesOf speaks of has changed, but for uploads that go on.
LEMMA BytesKept ==
    ASSUME Base, Base', NEW m \in Meters, BytesOf(m, meter[m]),
           meter'[m].at = meter[m].at, meter'[m].by = meter[m].by,
           meter'[m].bytes = meter[m].bytes, meter'[m].amount = meter[m].amount,
           carried'[m] = carried[m], counted'[m] = counted[m],
           leaky \subseteq leaky', retried \subseteq retried',
           \A j \in Jobs : job'[j].kind = "upload" /\ job'[j].meter = m =>
               /\ job[j].kind = "upload" /\ job[j].meter = m
               /\ Early(j)' => Early(j)
               /\ Early(j) => Early(j)' \/ m \in leaky'
    PROVE  BytesOf(m, meter[m])'
<1>1. (m \notin leaky' => m \notin leaky) /\ (m \notin retried' => m \notin retried)
  OBVIOUS
<1>2. Unsettled(meter[m])' = Unsettled(meter[m])
  BY DEF Unsettled
<1>3. ASSUME meter[m].by # none, m \notin leaky', ~ Early(meter[m].by)'
      PROVE  ~ Early(meter[m].by)
  <2>1. meter[m].by \in Jobs
    BY <1>3 DEF Base, TypeOK, MeterRecord
  <2>2. PICK j \in Jobs : j = meter[m].by
    BY <2>1
  <2>3. j = meter'[m].by /\ j # none
    BY <2>2, <1>3
  <2>4. job'[j].kind = "upload" /\ job'[j].meter = m
    BY <2>3 DEF Base, Matched
  <2>5. ~ Early(j)'
    BY <2>2, <2>3, <1>3 DEF Early
  <2>. QED
    BY <2>2, <2>4, <2>5, <1>3
<1>4. (meter[m].by # none <=> meter'[m].by # none)
      /\ (Early(meter[m].by)' <=> job'[meter'[m].by].stage \in {"arrived", "forward"})
  BY DEF Early
<1>5. m \notin leaky' => carried'[m] + Unsettled(meter[m])' <= counted'[m] + meter'[m].bytes
  BY <1>1, <1>2 DEF BytesOf
<1>6. m \notin leaky' /\ meter'[m].by # none /\ ~ Early(meter[m].by)' =>
         carried'[m] + meter'[m].amount <= counted'[m] + meter'[m].bytes
  BY <1>1, <1>3, <1>4 DEF BytesOf
<1>7. m \notin retried' => counted'[m] + meter'[m].bytes <= carried'[m] + meter'[m].amount
  BY <1>1 DEF BytesOf
<1>8. ASSUME NEW j \in Jobs, job'[j].kind = "upload", job'[j].meter = m, m \notin retried'
      PROVE  /\ meter'[m].by = j
             /\ Early(j)' => counted'[m] + meter'[m].bytes <= carried'[m]
  BY <1>8, <1>1 DEF BytesOf
<1>. QED
  BY <1>5, <1>6, <1>7, <1>8 DEF BytesOf

LEMMA OthersKept ==
    ASSUME Base, Base', \A n \in Meters : BytesOf(n, meter[n]),
           NEW m \in Meters, NEW new, Put(m, new), UNCHANGED <<job, counted>>,
           \A n \in Meters : n # m => carried'[n] = carried[n],
           leaky \subseteq leaky', retried \subseteq retried',
           BytesOf(m, meter[m])'
    PROVE  \A n \in Meters : BytesOf(n, meter[n])'
<1>. SUFFICES ASSUME NEW n \in Meters, n # m PROVE BytesOf(n, meter[n])'
  OBVIOUS
<1>1. meter'[n] = meter[n]
  BY DEF Put, Base, TypeOK
<1>2. \A j \in Jobs : Early(j)' <=> Early(j)
  BY DEF Early
<1>. QED
  BY <1>1, <1>2, BytesKept

LEMMA NodeBytes ==
    ASSUME Base, Base', \A n \in Meters : BytesOf(n, meter[n]), NEW m \in Meters,
           Carry(m) \/ Tick(m) \/ GiveUp(m) \/ Subtract(m) \/ Store(m) \/ Drained(m)
    PROVE  \A n \in Meters : BytesOf(n, meter[n])'
<1>. DEFINE c == meter[m]
<1>a. c \in MeterRecord /\ carried[m] \in Nat /\ counted[m] \in Nat
  BY DEF Base, TypeOK
<1>b. c.bytes \in Nat /\ c.amount \in Nat /\ c.rest \in Nat
  BY <1>a DEF MeterRecord
<1>c. UNCHANGED <<job, counted>>
  BY DEF Carry, Tick, GiveUp, Subtract, Store, Drained, panel, aux
<1>d. \A j \in Jobs : Early(j)' <=> Early(j)
  BY <1>c DEF Early
<1>e. /\ m \notin leaky => carried[m] + Unsettled(c) <= counted[m] + c.bytes
      /\ m \notin leaky /\ c.by # none /\ ~ Early(c.by) =>
            carried[m] + c.amount <= counted[m] + c.bytes
      /\ m \notin retried => counted[m] + c.bytes <= carried[m] + c.amount
      /\ \A j \in Jobs : job[j].kind = "upload" /\ job[j].meter = m /\ m \notin retried =>
            c.by = j /\ (Early(j) => counted[m] + c.bytes <= carried[m])
  BY DEF BytesOf
<1>f. /\ c.at \in {"wait", "look"} => c.amount = 0
      /\ c.at = "store" => c.amount + c.rest <= c.bytes
      /\ c.by # none => c.at = "posted"
  BY DEF Base, MeterOK
<1>g. ASSUME c.at # "posted", m \notin retried
      PROVE  \A j \in Jobs : ~ (job[j].kind = "upload" /\ job[j].meter = m)
  BY <1>e, <1>f, <1>g, NoneApart
<1>1. CASE Carry(m)
  <2>1. Put(m, [c EXCEPT !.bytes = @ + 1, !.updated = TRUE]) /\ carried'[m] = carried[m] + 1
        /\ (\A n \in Meters : n # m => carried'[n] = carried[n])
        /\ UNCHANGED <<leaky, retried>>
    BY <1>1 DEF Carry, Base, TypeOK
  <2>2. meter'[m].bytes = c.bytes + 1 /\ meter'[m].at = c.at /\ meter'[m].by = c.by
        /\ meter'[m].amount = c.amount
    BY <2>1, <1>a DEF Put, Base, TypeOK, MeterRecord
  <2>3. Unsettled(meter[m])' = Unsettled(c) /\ Unsettled(c) \in Nat
    BY <2>2, <1>b DEF Unsettled
  <2>4. Early(meter[m].by)' <=> Early(c.by)
    BY <2>2, <1>c DEF Early
  <2>5. BytesOf(m, meter[m])'
    BY <1>a, <1>b, <1>c, <1>d, <1>e, <2>1, <2>2, <2>3, <2>4 DEF BytesOf
  <2>. QED
    BY <1>c, <2>1, <2>5, OthersKept
<1>h. ASSUME NEW new, Put(m, new) PROVE meter'[m] = new
  BY <1>h DEF Put, Base, TypeOK
<1>2. CASE Tick(m)
  <2>1. Put(m, [c EXCEPT !.updated = FALSE, !.at = "look"]) /\ UNCHANGED aux /\ c.at = "wait"
    BY <1>2 DEF Tick
  <2>2. meter'[m].bytes = c.bytes /\ meter'[m].at = "look" /\ meter'[m].by = c.by
        /\ meter'[m].amount = c.amount
    BY <2>1, <1>a, <1>h DEF MeterRecord
  <2>3. Unsettled(meter[m])' = Unsettled(c)
    BY <2>1, <2>2 DEF Unsettled
  <2>4. BytesOf(m, meter[m])'
    BY <1>c, <1>d, <1>e, <1>f, <1>g, <2>1, <2>2, <2>3 DEF BytesOf, aux
  <2>. QED
    BY <1>c, <2>1, <2>4, OthersKept DEF aux
<1>3. CASE GiveUp(m)
  <2>1. Put(m, [c EXCEPT !.at = "wait", !.amount = 0, !.by = none]) /\ c.at = "posted"
        /\ UNCHANGED <<carried, leaky>> /\ retried' = retried \cup {m}
    BY <1>3 DEF GiveUp
  <2>2. meter'[m].bytes = c.bytes /\ meter'[m].at = "wait" /\ meter'[m].by = none
        /\ meter'[m].amount = 0
    BY <2>1, <1>a, <1>h DEF MeterRecord
  <2>3. Unsettled(meter[m])' = 0 /\ Unsettled(c) = 0
    BY <2>1, <2>2 DEF Unsettled
  <2>4. BytesOf(m, meter[m])'
    BY <1>c, <1>e, <2>1, <2>2, <2>3 DEF BytesOf
  <2>. QED
    BY <1>c, <2>1, <2>4, OthersKept
<1>4. CASE Subtract(m)
  <2>1. Put(m, [c EXCEPT !.at = "store", !.rest = c.bytes - c.amount]) /\ c.at = "answered"
        /\ UNCHANGED aux
    BY <1>4 DEF Subtract
  <2>2. meter'[m].bytes = c.bytes /\ meter'[m].at = "store" /\ meter'[m].by = c.by
        /\ meter'[m].amount = c.amount
    BY <2>1, <1>a, <1>h DEF MeterRecord
  <2>3. Unsettled(meter[m])' = Unsettled(c)
    BY <2>1, <2>2 DEF Unsettled
  <2>4. BytesOf(m, meter[m])'
    BY <1>c, <1>d, <1>e, <1>f, <1>g, <2>1, <2>2, <2>3 DEF BytesOf, aux
  <2>. QED
    BY <1>c, <2>1, <2>4, OthersKept DEF aux
<1>5. CASE Store(m)
  <2>1. Put(m, [c EXCEPT !.at = "wait", !.bytes = c.rest, !.amount = 0, !.rest = 0])
        /\ c.at = "store" /\ UNCHANGED <<carried, retried>>
        /\ leaky \subseteq leaky'
        /\ (m \notin leaky' => m \notin leaky /\ c.bytes <= c.rest + c.amount)
    BY <1>5, <1>b DEF Store, Stored, StoreLeaks
  <2>2. meter'[m].bytes = c.rest /\ meter'[m].at = "wait" /\ meter'[m].by = c.by
        /\ meter'[m].amount = 0 /\ c.by = none
    BY <2>1, <1>a, <1>f, <1>h DEF MeterRecord
  <2>3. Unsettled(meter[m])' = 0 /\ Unsettled(c) = c.amount
    BY <2>1, <2>2 DEF Unsettled
  <2>4. m \notin leaky' => carried[m] + 0 <= counted[m] + c.rest
    BY <1>a, <1>b, <1>e, <2>1, <2>3
  <2>5. m \notin retried => counted[m] + c.rest <= carried[m] + 0
    BY <1>a, <1>b, <1>e, <1>f, <2>1
  <2>6. BytesOf(m, meter[m])'
    BY <1>c, <1>g, <2>1, <2>2, <2>3, <2>4, <2>5 DEF BytesOf
  <2>. QED
    BY <1>c, <2>1, <2>6, OthersKept
<1>6. CASE Drained(m)
  <2>1. Put(m, [c EXCEPT !.life = "ended"]) /\ UNCHANGED aux
    BY <1>6 DEF Drained
  <2>2. meter'[m].bytes = c.bytes /\ meter'[m].at = c.at /\ meter'[m].by = c.by
        /\ meter'[m].amount = c.amount
    BY <2>1, <1>a, <1>h DEF MeterRecord
  <2>3. BytesOf(m, meter[m])'
    BY <1>c, <1>d, <2>1, <2>2, BytesKept DEF aux
  <2>. QED
    BY <1>c, <2>1, <2>3, OthersKept DEF aux
<1>. QED
  BY <1>1, <1>2, <1>3, <1>4, <1>5, <1>6

LEMMA PostBytes ==
    ASSUME Base, Base', \A n \in Meters : BytesOf(n, meter[n]), NEW m \in Meters, Post(m)
    PROVE  \A n \in Meters : BytesOf(n, meter[n])'
<1>. DEFINE c == meter[m]
<1>a. c \in MeterRecord /\ carried[m] \in Nat /\ counted[m] \in Nat
  BY DEF Base, TypeOK
<1>b. c.bytes \in Nat /\ c.amount = 0 /\ c.at = "look" /\ c.by = none
  BY <1>a DEF Base, MeterOK, MeterRecord, Post
<1>c. UNCHANGED aux
  BY DEF Post
<1>d. /\ m \notin leaky => carried[m] <= counted[m] + c.bytes
      /\ m \notin retried => counted[m] + c.bytes <= carried[m]
      /\ \A j \in Jobs : job[j].kind = "upload" /\ job[j].meter = m => m \in retried
  BY <1>a, <1>b, NoneApart DEF BytesOf, Unsettled
<1>e. ASSUME NEW new, Put(m, new)
      PROVE  meter'[m] = new /\ \A n \in Meters : n # m => meter'[n] = meter[n]
  BY <1>e DEF Put, Base, TypeOK
<1>1. CASE UNCHANGED job
  <2>1. \E at \in {"wait", "posted"}, amount \in {0, c.bytes} :
           Put(m, [c EXCEPT !.at = at, !.amount = amount])
    <3>1. [c EXCEPT !.at = "wait"] = [c EXCEPT !.at = "wait", !.amount = 0]
      BY <1>a, <1>b DEF MeterRecord
    <3>2. CASE Put(m, [c EXCEPT !.at = "wait"])
      BY <3>1, <3>2
    <3>3. CASE Put(m, [c EXCEPT !.at = "posted", !.amount = c.bytes])
      BY <3>3
    <3>4. ASSUME NEW j \in Jobs, Idle(j),
                 job' = [job EXCEPT ![j] =
                        [NoJob EXCEPT !.kind = "upload", !.stage = "arrived",
                             !.meter = m, !.fwd = c.of, !.amount = c.bytes]]
          PROVE  FALSE
      <4>1. job'[j].kind = "upload" /\ job[j].kind = "idle"
        BY <3>4 DEF Idle, NoJob, Base, TypeOK
      <4>. QED
        BY <4>1, <1>1
    <3>. QED
      BY <3>2, <3>3, <3>4 DEF Post
  <2>2. PICK at \in {"wait", "posted"}, amount \in {0, c.bytes} :
           Put(m, [c EXCEPT !.at = at, !.amount = amount])
    BY <2>1
  <2>3. meter'[m].bytes = c.bytes /\ meter'[m].at = at /\ meter'[m].by = none
        /\ meter'[m].amount = amount
    <3>1. meter'[m] = [c EXCEPT !.at = at, !.amount = amount]
      BY <2>2, <1>e
    <3>. QED
      BY <3>1, <1>a, <1>b DEF MeterRecord
  <2>4. Unsettled(meter[m])' = 0 /\ amount \in Nat
    BY <2>3, <1>b DEF Unsettled
  <2>5. BytesOf(m, meter[m])'
    BY <1>1, <1>a, <1>b, <1>c, <1>d, <2>3, <2>4 DEF BytesOf, aux
  <2>. QED
    BY <1>1, <1>c, <2>2, <2>5, OthersKept DEF aux
<1>2. ASSUME NEW j \in Jobs, Idle(j),
             Put(m, [[c EXCEPT !.at = "posted", !.amount = c.bytes] EXCEPT !.by = j]),
             job' = [job EXCEPT ![j] =
                        [NoJob EXCEPT !.kind = "upload", !.stage = "arrived",
                             !.meter = m, !.fwd = c.of, !.amount = c.bytes]]
      PROVE  \A n \in Meters : BytesOf(n, meter[n])'
  <2>1. meter'[m].bytes = c.bytes /\ meter'[m].at = "posted" /\ meter'[m].by = j
        /\ meter'[m].amount = c.bytes
        /\ \A n \in Meters : n # m => meter'[n] = meter[n]
    <3>1. meter'[m] = [[c EXCEPT !.at = "posted", !.amount = c.bytes] EXCEPT !.by = j]
          /\ \A n \in Meters : n # m => meter'[n] = meter[n]
      BY <1>2, <1>e
    <3>. QED
      BY <3>1, <1>a DEF MeterRecord
  <2>2. job'[j].kind = "upload" /\ job'[j].meter = m /\ job'[j].stage = "arrived"
        /\ \A k \in Jobs : k # j => job'[k] = job[k]
    BY <1>2 DEF Base, TypeOK, NoJob
  <2>3. Early(j)' /\ (\A k \in Jobs : k # j => (Early(k)' <=> Early(k)))
    BY <2>2 DEF Early
  <2>4. Early(meter[m].by)' /\ Unsettled(meter[m])' = 0
    BY <2>1, <2>3 DEF Early, Unsettled
  <2>5. BytesOf(m, meter[m])'
    BY <1>a, <1>b, <1>c, <1>d, <2>1, <2>2, <2>4 DEF BytesOf, aux
  <2>6. ASSUME NEW n \in Meters, n # m PROVE BytesOf(n, meter[n])'
    BY <1>c, <2>1, <2>2, <2>3, <2>6, BytesKept DEF aux
  <2>. QED
    BY <2>5, <2>6
<1>. QED
  BY <1>1, <1>2 DEF Post

\* Work on anything but reports, and the parts of an upload that do not touch the row of
\* the forward.
LEMMA QuietBytes ==
    ASSUME Base, Base', \A n \in Meters : BytesOf(n, meter[n]), NEW j \in Jobs,
           NEW new, Move(j, new), \A m \in Meters : Alike(m),
           UNCHANGED <<carried, counted, retried, leaky>>,
           new.kind = "upload" =>
               /\ job[j].kind = "upload" /\ new.meter = job[j].meter
               /\ new.stage \in {"arrived", "forward"} <=> Early(j)
    PROVE  \A n \in Meters : BytesOf(n, meter[n])'
<1>. SUFFICES ASSUME NEW n \in Meters PROVE BytesOf(n, meter[n])'
  OBVIOUS
<1>1. job'[j] = new /\ \A k \in Jobs : k # j => job'[k] = job[k]
  BY DEF Move, Base, TypeOK
<1>2. \A k \in Jobs : job'[k].kind = "upload" /\ job'[k].meter = n =>
         job[k].kind = "upload" /\ job[k].meter = n /\ (Early(k)' <=> Early(k))
  BY <1>1 DEF Early
<1>3. /\ meter'[n].at = meter[n].at /\ meter'[n].by = meter[n].by
      /\ meter'[n].bytes = meter[n].bytes /\ meter'[n].amount = meter[n].amount
  BY DEF Alike
<1>. QED
  BY <1>2, <1>3, BytesKept

LEMMA UploadBytes ==
    ASSUME Base, Base', \A n \in Meters : BytesOf(n, meter[n]), NEW j \in Jobs,
           \/ Lookup(j) \/ AddToUser(j) \/ AddToTunnel(j) \/ CheckUser(j) \/ CheckTunnel(j)
    PROVE  \A n \in Meters : BytesOf(n, meter[n])'
<1>a. job[j] \in JobRecord /\ UNCHANGED <<meter, carried, counted, retried>>
      /\ job[j].kind = "upload"
  BY JobTyped
  DEF Lookup, AddToUser, AddToTunnel, CheckUser, CheckTunnel, Check, Do, aux
<1>b. \A m \in Meters : Alike(m)
  BY <1>a, SameAlike
<1>1. CASE Lookup(j)
  <2>1. PICK stage \in {"answer", "forward"} :
           /\ Stage(j, stage) /\ Early(j)
           /\ leaky \subseteq leaky'
           /\ stage = "answer" => job[j].meter \in leaky'
    BY <1>1 DEF Lookup, Do, Early
  <2>2. job'[j] = [job[j] EXCEPT !.stage = stage] /\ \A k \in Jobs : k # j => job'[k] = job[k]
    BY <2>1 DEF Stage, Move, Base, TypeOK
  <2>3. job'[j].meter = job[j].meter /\ job'[j].stage = stage
    BY <1>a, <2>2 DEF JobRecord
  <2>. SUFFICES ASSUME NEW n \in Meters PROVE BytesOf(n, meter[n])'
    OBVIOUS
  <2>4. \A k \in Jobs : job'[k].kind = "upload" /\ job'[k].meter = n =>
           /\ job[k].kind = "upload" /\ job[k].meter = n
           /\ Early(k)' => Early(k)
           /\ Early(k) => Early(k)' \/ n \in leaky'
    <3>1. ASSUME NEW k \in Jobs, k # j PROVE job'[k] = job[k] /\ (Early(k)' <=> Early(k))
      BY <3>1, <2>2 DEF Early
    <3>2. stage = "answer" \/ Early(j)'
      BY <2>3 DEF Early
    <3>. QED
      BY <1>a, <2>1, <2>3, <3>1, <3>2
  <2>. QED
    BY <1>a, <2>1, <2>4, BytesKept
<1>2. CASE AddToUser(j) \/ AddToTunnel(j) \/ CheckUser(j) \/ CheckTunnel(j)
  <2>1. PICK stage \in {"answer", "permission", "checkUser", "checkTunnel"},
             todo \in {job[j].todo, Active("user"), Active(TunnelOf[job[j].fwd]), {}} :
           Move(j, [job[j] EXCEPT !.stage = stage, !.todo = todo])
    <3>1. ASSUME NEW stage, Stage(j, stage)
          PROVE  Move(j, [job[j] EXCEPT !.stage = stage, !.todo = job[j].todo])
      <4>1. [job[j] EXCEPT !.stage = stage]
             = [job[j] EXCEPT !.stage = stage, !.todo = job[j].todo]
        BY <1>a DEF JobRecord
      <4>. QED
        BY <3>1, <4>1 DEF Stage
    <3>2. CASE AddToUser(j)
      BY <3>1, <3>2 DEF AddToUser
    <3>3. CASE AddToTunnel(j)
      BY <3>1, <3>3 DEF AddToTunnel
    <3>4. CASE CheckUser(j)
      BY <3>4 DEF CheckUser, Check
    <3>5. CASE CheckTunnel(j)
      BY <3>5 DEF CheckTunnel, Check
    <3>. QED
      BY <1>2, <3>2, <3>3, <3>4, <3>5
  <2>. DEFINE new == [job[j] EXCEPT !.stage = stage, !.todo = todo]
  <2>2. new.meter = job[j].meter /\ new.stage = stage /\ ~ Early(j)
    BY <1>a, <1>2
    DEF JobRecord, Early, AddToUser, AddToTunnel, CheckUser, CheckTunnel, Do
  <2>3. UNCHANGED leaky
    BY <1>2 DEF AddToUser, AddToTunnel, CheckUser, CheckTunnel, Check, aux
  <2>. HIDE DEF new
  <2>4. Move(j, new)
    BY <2>1 DEF new
  <2>. QED
    BY <1>a, <1>b, <2>2, <2>3, <2>4, QuietBytes
<1>. QED
  BY <1>1, <1>2

LEMMA AddBytes ==
    ASSUME Base, Base', \A n \in Meters : BytesOf(n, meter[n]), NEW j \in Jobs,
           AddToForward(j)
    PROVE  \A n \in Meters : BytesOf(n, meter[n])'
<1>a. job[j] \in JobRecord /\ job[j].kind = "upload" /\ job[j].meter \in Meters
      /\ job[j].stage = "forward" /\ Early(j)
  BY JobTyped DEF AddToForward, Do, Early
<1>b. UNCHANGED <<meter, carried, retried>>
  BY DEF AddToForward
<1>c. PICK m \in Meters : m = job[j].meter
  BY <1>a
<1>1. job'[j] = [job[j] EXCEPT !.stage = "user"] /\ \A k \in Jobs : k # j => job'[k] = job[k]
  BY DEF AddToForward, Stage, Move, Base, TypeOK
<1>2. job'[j].meter = m /\ job'[j].kind = "upload" /\ ~ Early(j)'
      /\ job'[j].amount = job[j].amount
  BY <1>a, <1>c, <1>1 DEF JobRecord, Early
<1>3. \A k \in Jobs : k # j => (Early(k)' <=> Early(k))
  BY <1>1 DEF Early
<1>4. leaky \subseteq leaky' /\ \A n \in Meters : n # m => counted'[n] = counted[n]
  BY <1>c DEF AddToForward, Base, TypeOK
<1>5. ASSUME NEW n \in Meters, n # m PROVE BytesOf(n, meter[n])'
  BY <1>a, <1>b, <1>c, <1>1, <1>2, <1>3, <1>4, <1>5, BytesKept
<1>6. CASE m \in leaky' /\ UNCHANGED counted
  <2>1. \A k \in Jobs : job'[k].kind = "upload" /\ job'[k].meter = m =>
           /\ job[k].kind = "upload" /\ job[k].meter = m
           /\ Early(k)' => Early(k)
           /\ Early(k) => Early(k)' \/ m \in leaky'
    BY <1>a, <1>c, <1>1, <1>2, <1>3, <1>6
  <2>2. BytesOf(m, meter[m])'
    BY <1>b, <1>4, <1>6, <2>1, BytesKept
  <2>. QED
    BY <1>5, <2>2
<1>7. CASE UNCHANGED leaky /\ counted' = [counted EXCEPT ![m] = @ + job[j].amount]
  <2>. DEFINE c == meter[m]
  <2>1. c \in MeterRecord /\ carried[m] \in Nat /\ counted[m] \in Nat
        /\ counted'[m] = counted[m] + job[j].amount /\ job[j].amount \in Nat
    BY <1>a, <1>7 DEF Base, TypeOK, JobRecord
  <2>2. c.bytes \in Nat /\ c.amount \in Nat
    BY <2>1 DEF MeterRecord
  <2>3. c.by = j => c.at = "posted" /\ c.amount = job[j].amount
    BY NoneApart DEF Base, MeterOK, Matched
  <2>4. Unsettled(meter[m])' = Unsettled(c)
    BY <1>b DEF Unsettled
  <2>5. Early(meter[m].by)' <=> job'[meter[m].by].stage \in {"arrived", "forward"}
    BY <1>b DEF Early
  <2>6. m \notin leaky => carried[m] + Unsettled(c) <= counted'[m] + c.bytes
    <3>1. Unsettled(c) \in Nat
      BY <2>2 DEF Unsettled
    <3>. QED
      BY <2>1, <2>2, <3>1 DEF BytesOf
  <2>7. ASSUME m \notin leaky, c.by # none, ~ Early(meter[m].by)'
        PROVE  carried[m] + c.amount <= counted'[m] + c.bytes
    <3>1. CASE c.by = j
      <4>1. carried[m] <= counted[m] + c.bytes
        <5>1. Unsettled(c) = 0
          BY <2>3, <3>1 DEF Unsettled
        <5>. QED
          BY <2>7, <5>1, <2>1 DEF BytesOf
      <4>. QED
        BY <2>1, <2>2, <2>3, <3>1, <4>1
    <3>2. CASE c.by # j
      <4>1. c.by \in Jobs
        BY <2>1, <2>7 DEF MeterRecord
      <4>2. ~ Early(c.by)
        BY <1>1, <2>5, <2>7, <3>2, <4>1 DEF Early
      <4>3. carried[m] + c.amount <= counted[m] + c.bytes
        BY <2>7, <4>2 DEF BytesOf
      <4>. QED
        BY <2>1, <2>2, <4>3
    <3>. QED
      BY <3>1, <3>2
  <2>8. ASSUME m \notin retried
        PROVE  /\ counted'[m] + c.bytes <= carried[m] + c.amount
               /\ c.by = j
    <3>1. c.by = j /\ counted[m] + c.bytes <= carried[m]
      BY <1>a, <1>c, <2>8 DEF BytesOf
    <3>. QED
      BY <2>1, <2>2, <2>3, <3>1
  <2>9. ASSUME NEW k \in Jobs, job'[k].kind = "upload", job'[k].meter = m, m \notin retried
        PROVE  c.by = k /\ ~ Early(k)'
    <3>1. job[k].kind = "upload" /\ job[k].meter = m
      BY <1>a, <1>c, <1>1, <2>9
    <3>2. c.by = k
      BY <2>9, <3>1 DEF BytesOf
    <3>. QED
      BY <1>2, <2>8, <2>9, <3>2
  <2>10. BytesOf(m, meter[m])'
    BY <1>b, <1>7, <2>4, <2>6, <2>7, <2>8, <2>9 DEF BytesOf
  <2>. QED
    BY <1>5, <2>10
<1>. QED
  BY <1>c, <1>6, <1>7 DEF AddToForward

LEMMA AnswerBytes ==
    ASSUME Base, Base', \A n \in Meters : BytesOf(n, meter[n]), NEW j \in Jobs, Answer(j)
    PROVE  \A n \in Meters : BytesOf(n, meter[n])'
<1>a. PICK m \in Meters : m = job[j].meter
  BY JobTyped DEF Answer, Do
<1>b. UNCHANGED aux /\ job[j].kind = "upload" /\ ~ Early(j)
  BY DEF Answer, Do, Early
<1>c. meter[m] \in MeterRecord
  BY DEF Base, TypeOK
<1>1. job'[j].kind = "idle" /\ \A k \in Jobs : k # j => job'[k] = job[k]
  BY DEF Answer, Move, NoJob, Base, TypeOK
<1>2. \A n \in Meters : \A k \in Jobs : job'[k].kind = "upload" /\ job'[k].meter = n =>
         /\ k # j /\ job[k].kind = "upload" /\ job[k].meter = n
         /\ Early(k)' <=> Early(k)
  BY <1>1 DEF Early
<1>3. ASSUME NEW n \in Meters, meter'[n] = meter[n] PROVE BytesOf(n, meter[n])'
  BY <1>2, <1>3, <1>b, BytesKept DEF aux
<1>4. CASE UNCHANGED meter
  BY <1>3, <1>4
<1>5. CASE /\ meter[m].by = j
           /\ \/ Put(m, [meter[m] EXCEPT !.at = "answered", !.by = none])
              \/ Put(m, [meter[m] EXCEPT !.by = none])
  <2>1. \A n \in Meters : n # m => meter'[n] = meter[n]
    BY <1>5 DEF Put, Base, TypeOK
  <2>2. /\ meter'[m].by = none /\ meter'[m].bytes = meter[m].bytes
        /\ meter'[m].amount = meter[m].amount
    <3>1. \/ meter'[m] = [meter[m] EXCEPT !.at = "answered", !.by = none]
          \/ meter'[m] = [meter[m] EXCEPT !.by = none]
      BY <1>5 DEF Put, Base, TypeOK
    <3>. QED
      BY <3>1, <1>c DEF MeterRecord
  <2>3. carried[m] \in Nat /\ counted[m] \in Nat
        /\ meter[m].bytes \in Nat /\ meter[m].amount \in Nat
    BY <1>c DEF MeterRecord, Base, TypeOK
  <2>4. m \notin leaky => carried[m] + meter[m].amount <= counted[m] + meter[m].bytes
    BY <1>b, <1>5, NoneApart DEF BytesOf
  <2>5. Unsettled(meter[m])' \in {0, meter[m].amount}
    BY <2>2 DEF Unsettled
  <2>6. m \notin leaky => carried[m] + Unsettled(meter[m])' <= counted[m] + meter[m].bytes
    BY <2>3, <2>4, <2>5
  <2>7. m \notin retried => counted[m] + meter[m].bytes <= carried[m] + meter[m].amount
    BY DEF BytesOf
  <2>8. \A k \in Jobs : job'[k].kind = "upload" /\ job'[k].meter = m => m \in retried
    BY <1>2, <1>5 DEF BytesOf
  <2>9. BytesOf(m, meter[m])'
    BY <1>b, <2>2, <2>6, <2>7, <2>8 DEF BytesOf, aux
  <2>. QED
    BY <1>3, <2>1, <2>9
<1>. QED
  BY <1>a, <1>4, <1>5 DEF Answer

LEMMA WorkBytes ==
    ASSUME Base, Base', \A n \in Meters : BytesOf(n, meter[n]), NEW j \in Jobs,
           Work(j) \/ Request(j)
    PROVE  \A n \in Meters : BytesOf(n, meter[n])'
<1>a. job[j] \in JobRecord /\ (job[j].kind # "idle" => job[j].fwd \in Forwards)
  BY JobTyped
<1>1. \A m \in Meters : Alike(m)
  <2>1. CASE UNCHANGED meter
    BY <2>1, SameAlike
  <2>2. CASE \E f : meter' = Closed(f)
    BY <2>2, ClosedAlike
  <2>3. CASE \E m \in Meters, f \in Forwards : meter[m] = NoMeter /\ Put(m, Started(f))
    BY <2>3, StartedAlike
  <2>4. CASE ResumeService(j)
    <3>1. PICK f \in Forwards : f = job[j].fwd
      BY <1>a, <2>4 DEF ResumeService, Do
    <3>. QED
      BY <2>1, <2>3, <2>4, <3>1 DEF ResumeService
  <2>5. CASE DeleteService(j)
    <3>1. PICK f : f = job[j].fwd
      OBVIOUS
    <3>. QED
      BY <2>1, <2>2, <2>5, <3>1 DEF DeleteService
  <2>. QED
    BY <2>1, <2>2, <2>4, <2>5
    DEF Work, PauseService, PauseRow, ResumeRow, DeleteRow, Request, BeginResume, BeginDelete
<1>2. UNCHANGED <<carried, counted, retried, leaky>>
  BY DEF Work, PauseService, PauseRow, ResumeService, ResumeRow, DeleteService, DeleteRow,
         Request, BeginResume, BeginDelete, aux
<1>3. \E new : /\ Move(j, new)
               /\ new.kind = "upload" =>
                     /\ job[j].kind = "upload" /\ new.meter = job[j].meter
                     /\ new.stage = job[j].stage
  <2>1. CASE Move(j, NoJob)
    BY <2>1 DEF NoJob
  <2>2. ASSUME NEW todo, NEW cut, Move(j, [job[j] EXCEPT !.todo = todo, !.cut = cut])
        PROVE  \E new : /\ Move(j, new) /\ new.kind = job[j].kind
                        /\ new.meter = job[j].meter /\ new.stage = job[j].stage
    <3>. DEFINE new == [job[j] EXCEPT !.todo = todo, !.cut = cut]
    <3>1. new.kind = job[j].kind /\ new.meter = job[j].meter /\ new.stage = job[j].stage
      BY <1>a DEF JobRecord
    <3>. HIDE DEF new
    <3>2. Move(j, new)
      BY <2>2 DEF new
    <3>. QED
      BY <3>1, <3>2
  <2>3. CASE PauseService(j)
    <3>1. PICK f \in job[j].todo : Move(j, [job[j] EXCEPT !.todo = @ \ {f}, !.cut = f])
      BY <2>3 DEF PauseService
    <3>2. PICK todo : todo = job[j].todo \ {f}
      OBVIOUS
    <3>3. [job[j] EXCEPT !.todo = @ \ {f}, !.cut = f]
           = [job[j] EXCEPT !.todo = todo, !.cut = f]
      BY <1>a, <3>2 DEF JobRecord
    <3>4. Move(j, [job[j] EXCEPT !.todo = todo, !.cut = f])
      BY <3>1, <3>3
    <3>. QED
      BY <2>2, <3>4
  <2>4. CASE PauseRow(j)
    <3>1. [job[j] EXCEPT !.cut = none] = [job[j] EXCEPT !.todo = job[j].todo, !.cut = none]
      BY <1>a DEF JobRecord
    <3>2. PICK todo : todo = job[j].todo
      OBVIOUS
    <3>3. Move(j, [job[j] EXCEPT !.todo = todo, !.cut = none])
      BY <2>4, <3>1, <3>2 DEF PauseRow
    <3>. QED
      BY <2>2, <3>3
  <2>5. CASE Stage(j, "row") /\ job[j].kind # "upload"
    <3>1. [job[j] EXCEPT !.stage = "row"].kind = job[j].kind
      BY <1>a DEF JobRecord
    <3>. QED
      BY <2>5, <3>1 DEF Stage
  <2>6. CASE Request(j)
    <3>1. PICK f \in Forwards, kind \in {"resume", "delete"} :
             Move(j, [NoJob EXCEPT !.kind = kind, !.stage = "service", !.fwd = f])
      <4>1. CASE \E f \in Forwards, admin \in BOOLEAN : BeginResume(j, f, admin)
        BY <4>1 DEF BeginResume
      <4>2. CASE \E f \in Forwards : BeginDelete(j, f)
        BY <4>2 DEF BeginDelete
      <4>. QED
        BY <2>6, <4>1, <4>2 DEF Request
    <3>2. [NoJob EXCEPT !.kind = kind, !.stage = "service", !.fwd = f].kind # "upload"
      BY DEF NoJob
    <3>. QED
      BY <3>1, <3>2
  <2>. QED
    BY <2>1, <2>3, <2>4, <2>5, <2>6
    DEF Work, ResumeService, ResumeRow, DeleteService, DeleteRow, Do
<1>. QED
  BY <1>1, <1>2, <1>3, QuietBytes DEF Early

LEMMA CrashBytes ==
    ASSUME Base, \A n \in Meters : BytesOf(n, meter[n]), Crash
    PROVE  \A n \in Meters : BytesOf(n, meter[n])'
<1>1. \A j \in Jobs : job'[j].kind = "idle"
  BY DEF Crash, NoJob
<1>2. UNCHANGED <<carried, counted, leaky, retried>>
  BY DEF Crash
<1>. SUFFICES ASSUME NEW n \in Meters PROVE BytesOf(n, meter[n])'
  OBVIOUS
<1>3. /\ meter'[n].by = none /\ meter'[n].at = meter[n].at
      /\ meter'[n].amount = meter[n].amount /\ meter'[n].bytes = meter[n].bytes
  <2>1. meter[n] \in MeterRecord /\ meter'[n] = [meter[n] EXCEPT !.by = none]
    BY DEF Base, TypeOK, Crash
  <2>. QED
    BY <2>1 DEF MeterRecord
<1>4. Unsettled(meter[n])' = Unsettled(meter[n])
  BY <1>3 DEF Unsettled
<1>. QED
  BY <1>1, <1>2, <1>3, <1>4 DEF BytesOf

LEMMA NextBytes == Base /\ Bytes /\ [Next]_vars => Base' /\ Bytes'
<1>. SUFFICES ASSUME Base, Bytes, [Next]_vars PROVE Base' /\ Bytes'
  OBVIOUS
<1>a. Base' /\ \A n \in Meters : BytesOf(n, meter[n])
  BY NextBase, BytesEach DEF Base
<1>1. ASSUME NEW m \in Meters, Carry(m) \/ Report(m) \/ Drained(m)
      PROVE  \A n \in Meters : BytesOf(n, meter[n])'
  BY <1>a, <1>1, NodeBytes, PostBytes DEF Report
<1>2. ASSUME NEW j \in Jobs, Upload(j) \/ Work(j) \/ Request(j)
      PROVE  \A n \in Meters : BytesOf(n, meter[n])'
  BY <1>a, <1>2, UploadBytes, AddBytes, AnswerBytes, WorkBytes DEF Upload
<1>5. CASE \A n \in Meters : BytesOf(n, meter[n])'
  <2>1. \A j \in Jobs : job'[j].kind = "upload" => job'[j].meter \in Meters
    BY <1>a DEF Base, TypeOK, JobRecord
  <2>2. NothingLost' /\ AddedFirst' /\ NothingTwice' /\ AddsOnce'
    BY <1>5, <2>1
    DEF BytesOf, NothingLost, AddedFirst, NothingTwice, AddsOnce, Unsettled
  <2>. QED
    BY <1>a, <2>2 DEF Bytes
<1>3. ASSUME (\E a \in Accounts : ResetFlow(a)) \/ UNCHANGED vars
      PROVE  \A n \in Meters : BytesOf(n, meter[n])'
  <2>1. UNCHANGED <<meter, job, carried, counted, leaky, retried>>
    BY <1>3 DEF ResetFlow, vars, panel, aux
  <2>2. \A j \in Jobs : Early(j)' <=> Early(j)
    BY <2>1 DEF Early
  <2>. QED
    BY <1>a, <2>1, <2>2, BytesKept
<1>4. ASSUME Crash PROVE \A n \in Meters : BytesOf(n, meter[n])'
  BY <1>a, <1>4, CrashBytes
<1>6. \A n \in Meters : BytesOf(n, meter[n])'
  BY <1>1, <1>2, <1>3, <1>4 DEF Next
<1>. QED
  BY <1>5, <1>6

LEMMA InitBytes == Init => Bytes
<1>. SUFFICES ASSUME Init PROVE Bytes
  OBVIOUS
<1>1. \A j \in Jobs : job[j].kind = "idle"
  BY DEF Init, NoJob
<1>2. \A m \in Meters : /\ meter[m].at = "wait" /\ meter[m].by = none
                        /\ meter[m].bytes = 0 /\ meter[m].amount = 0
                        /\ carried[m] = 0 /\ counted[m] = 0
  BY DEF Init, NoMeter, Started
<1>. QED
  BY <1>1, <1>2 DEF Bytes, NothingLost, AddedFirst, NothingTwice, AddsOnce

\* Whatever is lost between node and panel, a byte that passed is in a counter or in a
\* row, but for the two ways named at NothingLost.
THEOREM Kept == Spec => []NothingLost
<1>1. Bytes => NothingLost
  BY DEF Bytes
<1>. QED
  BY <1>1, InitBase, NextBase, InitBytes, NextBytes, PTL DEF Spec

\* A byte is added twice only after a report without an answer.
THEOREM Once == Spec => []NothingTwice
<1>1. Bytes => NothingTwice
  BY DEF Bytes
<1>. QED
  BY <1>1, InitBase, NextBase, InitBytes, NextBytes, PTL DEF Spec

-----------------------------------------------------------------------------
(* Limits.                                                                 *)

\* No charge: nobody stops to mind whose forward stays active.
LEMMA Unnoticed ==
    ASSUME LimitNoticed, UNCHANGED used,
           \A f \in Forwards : status'[f] = "active" =>
               f \in excused' \/ (status[f] = "active" /\ f \notin excused),
           \A j \in Jobs, a \in Accounts, f \in Forwards :
               Minds(j, a, f) => Minds(j, a, f)' \/ status'[f] # "active"
    PROVE  LimitNoticed'
<1>. SUFFICES ASSUME NEW a \in Accounts, Over(a)', NEW f \in Forwards,
                     f \in Active(a)', f \notin excused'
              PROVE  \E j \in Jobs : Minds(j, a, f)'
  BY DEF LimitNoticed, Active
<1>1. Over(a)
  BY DEF Over
<1>2. status'[f] = "active" /\ f \in Active(a) /\ f \notin excused
  BY DEF Active
<1>3. PICK j \in Jobs : Minds(j, a, f)
  BY <1>1, <1>2 DEF LimitNoticed
<1>. QED
  BY <1>2, <1>3

\* One goroutine moves on.
LEMMA OneMinds ==
    ASSUME TypeOK, NEW j \in Jobs, NEW new, Move(j, new)
    PROVE  /\ job'[j] = new
           /\ \A k \in Jobs, a \in Accounts, f \in Forwards :
                 k # j => (Minds(k, a, f)' <=> Minds(k, a, f))
<1>1. job'[j] = new /\ \A k \in Jobs : k # j => job'[k] = job[k]
  BY DEF Move, TypeOK
<1>. QED
  BY <1>1 DEF Minds

LEMMA Heedless ==
    ASSUME NEW j \in Jobs, NEW a \in Accounts, NEW f \in Forwards, Minds(j, a, f)
    PROVE  /\ job[j].kind = "upload"
           /\ job[j].stage \notin {"permission", "checkUser", "checkTunnel"} =>
                 job[j].todo # {} \/ job[j].cut # none
BY NoneApart DEF Minds

LEMMA ChargeNoticed ==
    ASSUME TypeOK, LimitNoticed, NEW j \in Jobs, AddToUser(j) \/ AddToTunnel(j)
    PROVE  LimitNoticed'
<1>. SUFFICES ASSUME NEW a \in Accounts, Over(a)', NEW f \in Forwards,
                     f \in Active(a)', f \notin excused'
              PROVE  \E k \in Jobs : Minds(k, a, f)'
  BY DEF LimitNoticed, Active
<1>a. job[j] \in JobRecord /\ UNCHANGED status /\ excused \subseteq excused'
      /\ job[j].kind = "upload"
  BY DEF AddToUser, AddToTunnel, TypeOK, aux, Do
<1>b. f \in Active(a) /\ f \notin excused
  BY <1>a DEF Active
<1>t. "user" \notin Tunnels
  BY FlowAssumption
<1>1. CASE AddToUser(j)
  <2>1. CASE a = "user"
    <3>1. f \in Active("user")
      BY <1>b, <2>1
    <3>2. Stage(j, "permission")
      BY <1>1, <3>1 DEF AddToUser
    <3>3. job'[j] = [job[j] EXCEPT !.stage = "permission"]
      BY <3>2, OneMinds DEF Stage
    <3>4. job'[j].kind = "upload" /\ job'[j].stage = "permission"
      BY <1>a, <3>3 DEF JobRecord
    <3>. QED
      BY <2>1, <3>4 DEF Minds
  <2>2. CASE a # "user"
    <3>1. used'[a] = used[a]
      BY <1>1, <2>2 DEF AddToUser, TypeOK
    <3>2. Over(a)
      BY <2>2, <3>1 DEF Over
    <3>3. PICK k \in Jobs : Minds(k, a, f)
      BY <1>b, <3>2 DEF LimitNoticed
    <3>4. k # j
      BY <1>1, <3>3, Heedless DEF AddToUser, Do
    <3>5. \E new : Move(j, new)
      BY <1>1 DEF AddToUser, Stage
    <3>. QED
      BY <3>3, <3>4, <3>5, OneMinds
  <2>. QED
    BY <2>1, <2>2
<1>2. CASE AddToTunnel(j)
  <2>1. Move(j, [job[j] EXCEPT !.stage = "checkUser"])
    BY <1>2 DEF AddToTunnel, Stage
  <2>2. job'[j].kind = "upload" /\ job'[j].stage = "checkUser" /\ job'[j].fwd = job[j].fwd
    BY <1>a, <2>1, OneMinds DEF JobRecord
  <2>3. CASE a \in {"user", TunnelOf[job[j].fwd]}
    BY <2>2, <2>3 DEF Minds
  <2>4. CASE a \notin {"user", TunnelOf[job[j].fwd]}
    <3>1. used'[a] = used[a]
      BY <1>2, <2>4 DEF AddToTunnel, TypeOK
    <3>2. Over(a)
      BY <2>4, <3>1 DEF Over
    <3>3. PICK k \in Jobs : Minds(k, a, f)
      BY <1>b, <3>2 DEF LimitNoticed
    <3>4. k # j
      BY <1>2, <2>4, <3>3, NoneApart DEF Minds, AddToTunnel, Do
    <3>. QED
      BY <3>3, <3>4, <2>1, OneMinds
  <2>. QED
    BY <2>3, <2>4
<1>. QED
  BY <1>1, <1>2

LEMMA CheckNoticed ==
    ASSUME TypeOK, LimitNoticed, NEW j \in Jobs, CheckUser(j) \/ CheckTunnel(j)
    PROVE  LimitNoticed'
<1>. SUFFICES ASSUME NEW a \in Accounts, Over(a)', NEW f \in Forwards,
                     f \in Active(a)', f \notin excused'
              PROVE  \E k \in Jobs : Minds(k, a, f)'
  BY DEF LimitNoticed, Active
<1>a. job[j] \in JobRecord /\ UNCHANGED <<status, used>> /\ job[j].kind = "upload"
      /\ job[j].todo = {} /\ job[j].cut = none
  BY DEF CheckUser, CheckTunnel, Check, TypeOK, Do
<1>b. f \in Active(a) /\ Over(a)
  BY <1>a DEF Active, Over
<1>1. PICK b, next :
         /\ Check(j, b, next)
         /\ \/ b = "user" /\ next = "checkTunnel" /\ job[j].stage = "checkUser"
            \/ b = TunnelOf[job[j].fwd] /\ next = "answer" /\ job[j].stage = "checkTunnel"
  <2>1. CASE CheckUser(j)
    BY <2>1 DEF CheckUser, Do
  <2>2. CASE CheckTunnel(j)
    BY <2>2 DEF CheckTunnel, Do
  <2>. QED
    BY <2>1, <2>2
<1>. DEFINE found == IF Over(b) THEN Active(b) ELSE {}
<1>2. Move(j, [job[j] EXCEPT !.stage = next, !.todo = found])
      /\ excused' = excused \ found
  BY <1>1 DEF Check
<1>. HIDE DEF found
<1>3. job'[j].kind = "upload" /\ job'[j].stage = next /\ job'[j].todo = found
      /\ job'[j].fwd = job[j].fwd
  <2>1. job'[j] = [job[j] EXCEPT !.stage = next, !.todo = found]
    BY <1>2, OneMinds
  <2>. QED
    BY <1>a, <2>1 DEF JobRecord
<1>4. CASE f \in found
  BY <1>3, <1>4 DEF Minds
<1>5. CASE f \notin found
  <2>1. a # b
    BY <1>b, <1>5 DEF found
  <2>2. f \notin excused
    BY <1>2, <1>5
  <2>3. PICK k \in Jobs : Minds(k, a, f)
    BY <1>b, <2>2 DEF LimitNoticed
  <2>4. CASE k # j
    BY <2>3, <2>4, <1>2, OneMinds
  <2>5. CASE k = j
    <3>1. a = TunnelOf[job[j].fwd] /\ next = "checkTunnel"
      BY <1>a, <1>1, <2>1, <2>3, <2>5, NoneApart DEF Minds
    <3>. QED
      BY <1>3, <3>1 DEF Minds
  <2>. QED
    BY <2>4, <2>5
<1>. QED
  BY <1>4, <1>5

LEMMA ResetNoticed ==
    ASSUME TypeOK, LimitNoticed, NEW b \in Accounts, ResetFlow(b) PROVE LimitNoticed'
<1>. SUFFICES ASSUME NEW a \in Accounts, Over(a)', NEW f \in Forwards,
                     f \in Active(a)', f \notin excused'
              PROVE  \E k \in Jobs : Minds(k, a, f)'
  BY DEF LimitNoticed, Active
<1>1. UNCHANGED <<status, job, excused>> /\ used' = [used EXCEPT ![b] = 0]
  BY DEF ResetFlow
<1>2. a # b
  <2>1. ASSUME a = b PROVE FALSE
    <3>1. used'[a] = 0
      BY <1>1, <2>1 DEF TypeOK
    <3>2. UserLimit \in Nat /\ (a # "user" => TunnelLimit[a] \in Nat)
      BY FlowAssumption DEF Accounts
    <3>. QED
      BY <3>1, <3>2 DEF Over
  <2>. QED
    BY <2>1
<1>3. Over(a) /\ f \in Active(a) /\ f \notin excused
  BY <1>1, <1>2 DEF Over, Active, TypeOK
<1>4. PICK k \in Jobs : Minds(k, a, f)
  BY <1>3 DEF LimitNoticed
<1>5. Minds(k, a, f)'
  BY <1>1, <1>4 DEF Minds
<1>. QED
  BY <1>5

LEMMA NodeNoticed ==
    ASSUME TypeOK, LimitNoticed, NEW m \in Meters, Carry(m) \/ Report(m) \/ Drained(m)
    PROVE  LimitNoticed'
<1>1. UNCHANGED <<used, status, excused>>
  BY DEF Carry, Report, Tick, Post, GiveUp, Subtract, Store, Drained, panel, aux
<1>2. UNCHANGED job \/ \E j, new : j \in Jobs /\ Idle(j) /\ Move(j, new)
  BY DEF Carry, Report, Tick, Post, GiveUp, Subtract, Store, Drained, panel, aux, Move
<1>3. \A j \in Jobs, a \in Accounts, f \in Forwards : Minds(j, a, f) => Minds(j, a, f)'
  <2>1. CASE UNCHANGED job
    BY <2>1 DEF Minds
  <2>2. CASE \E j, new : j \in Jobs /\ Idle(j) /\ Move(j, new)
    <3>1. PICK i, new : i \in Jobs /\ Idle(i) /\ Move(i, new)
      BY <2>2
    <3>2. \A a \in Accounts, f \in Forwards : ~ Minds(i, a, f)
      BY <3>1 DEF Idle, NoJob, Minds
    <3>. QED
      BY <3>1, <3>2, OneMinds
  <2>. QED
    BY <1>2, <2>1, <2>2
<1>4. \A f \in Forwards : status'[f] = "active" =>
         f \in excused' \/ (status[f] = "active" /\ f \notin excused)
  BY <1>1
<1>. QED
  BY <1>1, <1>3, <1>4, Unnoticed

LEMMA JobNoticed ==
    ASSUME TypeOK, LimitNoticed, NEW j \in Jobs,
           \/ Lookup(j) \/ AddToForward(j) \/ Answer(j) \/ Work(j) \/ Request(j)
    PROVE  LimitNoticed'
<1>a. job[j] \in JobRecord
  BY DEF TypeOK
<1>1. UNCHANGED used
  BY DEF Lookup, AddToForward, Answer, Work, Request, PauseService, PauseRow,
         ResumeService, ResumeRow, DeleteService, DeleteRow, BeginResume, BeginDelete
<1>2. \A f \in Forwards : status'[f] = "active" =>
         f \in excused' \/ (status[f] = "active" /\ f \notin excused)
  <2>1. CASE UNCHANGED <<status, excused>>
    BY <2>1
  <2>2. CASE PauseRow(j)
    BY <2>2 DEF PauseRow, aux, TypeOK
  <2>3. CASE ResumeRow(j)
    BY <2>3 DEF ResumeRow, TypeOK
  <2>4. CASE DeleteRow(j)
    BY <2>4 DEF DeleteRow, aux, TypeOK
  <2>. QED
    BY <2>1, <2>2, <2>3, <2>4
    DEF Lookup, AddToForward, Answer, Work, Request, PauseService,
        ResumeService, DeleteService, BeginResume, BeginDelete, aux
<1>3. ASSUME NEW a \in Accounts, NEW f \in Forwards, Minds(j, a, f)
      PROVE  Minds(j, a, f)' \/ status'[f] # "active"
  <2>1. PauseService(j) \/ PauseRow(j)
    <3>1. /\ job[j].kind = "upload"
          /\ job[j].stage \notin {"permission", "checkUser", "checkTunnel"} =>
                job[j].todo # {} \/ job[j].cut # none
      BY <1>3, Heedless
    <3>2. ~ Lookup(j) /\ ~ AddToForward(j) /\ ~ Answer(j)
      BY <3>1 DEF Lookup, AddToForward, Answer, Do
    <3>3. ~ Request(j)
      <4>1. ~ Idle(j)
        BY <3>1 DEF Idle, NoJob
      <4>. QED
        BY <4>1 DEF Request, BeginResume, BeginDelete
    <3>4. ~ ResumeService(j) /\ ~ ResumeRow(j) /\ ~ DeleteService(j) /\ ~ DeleteRow(j)
      BY <3>1 DEF ResumeService, ResumeRow, DeleteService, DeleteRow, Do
    <3>. QED
      BY <3>2, <3>3, <3>4 DEF Work
  <2>2. CASE PauseService(j)
    <3>1. PICK g \in job[j].todo : Move(j, [job[j] EXCEPT !.todo = @ \ {g}, !.cut = g])
      BY <2>2 DEF PauseService
    <3>2. job'[j] = [job[j] EXCEPT !.todo = @ \ {g}, !.cut = g]
      BY <3>1, OneMinds
    <3>3. /\ job'[j].kind = job[j].kind /\ job'[j].stage = job[j].stage
          /\ job'[j].fwd = job[j].fwd
          /\ job'[j].todo = job[j].todo \ {g} /\ job'[j].cut = g
      BY <1>a, <3>2 DEF JobRecord
    <3>4. job[j].cut = none
      BY <2>2 DEF PauseService
    <3>. QED
      BY <1>3, <3>3, <3>4, NoneApart DEF Minds
  <2>3. CASE PauseRow(j)
    <3>1. job'[j] = [job[j] EXCEPT !.cut = none]
      BY <2>3, OneMinds DEF PauseRow
    <3>2. /\ job'[j].kind = job[j].kind /\ job'[j].stage = job[j].stage
          /\ job'[j].fwd = job[j].fwd /\ job'[j].todo = job[j].todo
      BY <1>a, <3>1 DEF JobRecord
    <3>3. f = job[j].cut => status'[f] # "active"
      BY <2>3 DEF PauseRow, TypeOK
    <3>. QED
      BY <1>3, <3>2, <3>3 DEF Minds
  <2>. QED
    BY <2>1, <2>2, <2>3
<1>4. \E new : Move(j, new)
  BY DEF Lookup, AddToForward, Answer, Work, Request, PauseService, PauseRow,
         ResumeService, ResumeRow, DeleteService, DeleteRow, BeginResume, BeginDelete,
         Stage
<1>5. \A k \in Jobs, a \in Accounts, f \in Forwards :
         Minds(k, a, f) => Minds(k, a, f)' \/ status'[f] # "active"
  BY <1>3, <1>4, OneMinds
<1>. QED
  BY <1>1, <1>2, <1>5, Unnoticed

LEMMA NextNoticed == TypeOK /\ LimitNoticed /\ [Next]_vars => LimitNoticed'
<1>. SUFFICES ASSUME TypeOK, LimitNoticed, [Next]_vars PROVE LimitNoticed'
  OBVIOUS
<1>1. ASSUME NEW m \in Meters, Carry(m) \/ Report(m) \/ Drained(m) PROVE LimitNoticed'
  BY <1>1, NodeNoticed
<1>2. ASSUME NEW j \in Jobs, Upload(j) \/ Work(j) \/ Request(j) PROVE LimitNoticed'
  BY <1>2, ChargeNoticed, CheckNoticed, JobNoticed DEF Upload
<1>3. CASE Crash
  BY <1>3 DEF Crash, LimitNoticed, Active
<1>4. CASE UNCHANGED vars
  BY <1>4 DEF vars, panel, aux, LimitNoticed, Over, Active, Minds
<1>. QED
  BY <1>1, <1>2, <1>3, <1>4, ResetNoticed DEF Next

\* For any number of forwards, uploads, resets and resumes at the same time, an account
\* beyond its limit has active forwards only while an upload is going to notice.
THEOREM Limit == Spec => []LimitNoticed
<1>1. Init => LimitNoticed
  <2>. SUFFICES ASSUME Init, NEW a \in Accounts PROVE ~ Over(a)
    BY DEF LimitNoticed
  <2>1. used[a] = 0
    BY DEF Init
  <2>2. UserLimit \in Nat /\ (a # "user" => TunnelLimit[a] \in Nat)
    BY FlowAssumption DEF Accounts
  <2>. QED
    BY <2>1, <2>2 DEF Over
<1>. QED
  BY <1>1, Types, NextNoticed, PTL DEF Spec

-----------------------------------------------------------------------------
(* Charges follow the traffic.  Sums first: an element may be taken out.     *)

Units(f, x) == {x} \X (1..f[x])

LEMMA UnitsCount ==
    ASSUME NEW f, NEW x, f[x] \in Nat
    PROVE  IsFiniteSet(Units(f, x)) /\ Cardinality(Units(f, x)) = f[x]
<1>1. IsFiniteSet({x}) /\ Cardinality({x}) = 1
  BY FS_Singleton
<1>2. PICK n \in Nat : n = f[x]
  OBVIOUS
<1>3. IsFiniteSet(1..n) /\ Cardinality(1..n) = IF 1 > n THEN 0 ELSE n - 1 + 1
  BY FS_Interval
<1>4. Cardinality(1..n) = n
  BY <1>3
<1>5. IsFiniteSet({x} \X (1..n)) /\ Cardinality({x} \X (1..n)) = 1 * n
  BY <1>1, <1>3, <1>4, FS_Product
<1>. QED
  BY <1>2, <1>5 DEF Units

LEMMA UnitsFinite ==
    ASSUME NEW S, IsFiniteSet(S), NEW f, \A x \in S : f[x] \in Nat
    PROVE  IsFiniteSet(UNION {Units(f, x) : x \in S})
<1>. DEFINE T == {Units(f, x) : x \in S}
            g == [x \in S |-> Units(f, x)]
<1>1. g \in Surjection(S, T)
  BY DEF Surjection
<1>2. IsFiniteSet(T)
  BY <1>1, FS_Surjection
<1>3. \A u \in T : IsFiniteSet(u)
  BY UnitsCount
<1>. QED
  BY <1>2, <1>3, FS_UNION

LEMMA SumUnits ==
    ASSUME NEW S, NEW f PROVE SumOver(S, f) = Cardinality(UNION {Units(f, x) : x \in S})
BY DEF SumOver, Units

LEMMA SumType ==
    ASSUME NEW S, IsFiniteSet(S), NEW f, \A x \in S : f[x] \in Nat
    PROVE  SumOver(S, f) \in Nat
BY UnitsFinite, SumUnits, FS_CardinalityType

LEMMA SumWithout ==
    ASSUME NEW S, IsFiniteSet(S), NEW f, \A x \in S : f[x] \in Nat, NEW x \in S
    PROVE  SumOver(S, f) = SumOver(S \ {x}, f) + f[x]
<1>. DEFINE A == UNION {Units(f, y) : y \in S \ {x}}
<1>1. IsFiniteSet(S \ {x})
  BY FS_RemoveElement
<1>2. IsFiniteSet(A)
  BY <1>1, UnitsFinite
<1>3. IsFiniteSet(Units(f, x)) /\ Cardinality(Units(f, x)) = f[x]
  BY UnitsCount
<1>4. UNION {Units(f, y) : y \in S} = A \cup Units(f, x)
  OBVIOUS
<1>5. A \cap Units(f, x) = {}
  BY DEF Units
<1>6. Cardinality(A \cap Units(f, x)) = 0
  BY <1>5, FS_EmptySet
<1>7. Cardinality(A \cup Units(f, x))
        = Cardinality(A) + Cardinality(Units(f, x)) - Cardinality(A \cap Units(f, x))
  BY <1>2, <1>3, FS_Union
<1>8. Cardinality(A) \in Nat
  BY <1>2, FS_CardinalityType
<1>9. SumOver(S, f) = Cardinality(A \cup Units(f, x)) /\ SumOver(S \ {x}, f) = Cardinality(A)
  BY <1>4, SumUnits
<1>. HIDE DEF A
<1>. QED
  BY <1>3, <1>6, <1>7, <1>8, <1>9

LEMMA SumSame ==
    ASSUME NEW S, NEW f, NEW g, \A x \in S : f[x] = g[x]
    PROVE  SumOver(S, f) = SumOver(S, g)
<1>1. \A x \in S : Units(f, x) = Units(g, x)
  BY DEF Units
<1>2. UNION {Units(f, x) : x \in S} = UNION {Units(g, x) : x \in S}
  BY <1>1
<1>. QED
  BY <1>2, SumUnits

\* A goroutine that has added to the forward's row has still to charge the account.
Owes(j, a) ==
    /\ job[j].kind = "upload"
    /\ job[j].stage \in {"user", "permission"}
    /\ job[j].stage = "user" \/ a # "user"
    /\ a \in {"user", TunnelOf[job[j].fwd]}

Owing(a) == {j \in Jobs : Owes(j, a)}
Bills == [j \in Jobs |-> Bill(j)]
Feeding(a) == {f \in Forwards : a \in {"user", TunnelOf[f]}}

LEMMA DueIs == ASSUME NEW a PROVE Due(a) = SumOver(Owing(a), Bills)
BY DEF Due, Owing, Owes, Bills

LEMMA OwingFinite ==
    ASSUME TypeOK, NEW a
    PROVE  IsFiniteSet(Owing(a)) /\ \A j \in Owing(a) : Bills[j] \in Nat
<1>1. IsFiniteSet(Owing(a))
  BY FlowFinite, FS_Subset DEF Owing
<1>. QED
  BY <1>1, BillType DEF Owing, Owes, Bills

LEMMA DueType == ASSUME TypeOK, NEW a PROVE Due(a) \in Nat
BY OwingFinite, DueIs, SumType

LEMMA FeedingFinite ==
    ASSUME TypeOK, NEW a
    PROVE  IsFiniteSet(Feeding(a)) /\ \A f \in Feeding(a) : total[f] \in Nat
<1>1. IsFiniteSet(Feeding(a))
  BY FlowFinite, FS_Subset DEF Feeding
<1>. QED
  BY <1>1 DEF Feeding, TypeOK

\* Nobody begins to owe, nobody has paid.
LEMMA DueKept ==
    ASSUME NEW a,
           \A j \in Jobs : Owes(j, a)' <=> Owes(j, a),
           \A j \in Jobs : Owes(j, a) => Bill(j)' = Bill(j)
    PROVE  Due(a)' = Due(a)
<1>1. PICK S, b : S = Owing(a) /\ b = Bills
  OBVIOUS
<1>2. PICK c : c = Bills'
  OBVIOUS
<1>3. Owing(a)' = S
  BY <1>1 DEF Owing
<1>4. \A j \in S : b[j] = c[j]
  BY <1>1, <1>2 DEF Owing, Bills
<1>5. SumOver(S, b) = SumOver(S, c)
  BY <1>4, SumSame
<1>6. Due(a) = SumOver(S, b)
  BY <1>1, DueIs
<1>7. Due(a)' = SumOver(S, c)
  BY <1>2, <1>3 DEF Due, Owing, Owes, Bills
<1>. QED
  BY <1>5, <1>6, <1>7

LEMMA BillTypeNext ==
    ASSUME TypeOK', NEW j \in Jobs, job'[j].kind = "upload" PROVE Bill(j)' \in Nat
<1>1. job'[j] \in JobRecord
  BY DEF TypeOK
<1>2. job'[j].amount \in Nat /\ Factor \in Nat
  BY <1>1, FlowAssumption DEF JobRecord
<1>. QED
  BY <1>2 DEF Bill

LEMMA DueTypeNext == ASSUME TypeOK', NEW a PROVE Due(a)' \in Nat
<1>1. PICK T, c : T = Owing(a)' /\ c = Bills'
  OBVIOUS
<1>2. IsFiniteSet(T)
  BY <1>1, FlowFinite, FS_Subset DEF Owing
<1>3. \A k \in T : c[k] \in Nat
  BY <1>1, BillTypeNext DEF Owing, Owes, Bills
<1>4. SumOver(T, c) \in Nat
  BY <1>2, <1>3, SumType
<1>. QED
  BY <1>1, <1>4 DEF Due, Owing, Owes, Bills

\* One goroutine begins to owe.
LEMMA DueGrows ==
    ASSUME TypeOK', NEW a, NEW j \in Jobs, ~ Owes(j, a), Owes(j, a)',
           \A k \in Jobs \ {j} : job'[k] = job[k]
    PROVE  Due(a)' = Due(a) + Bill(j)'
<1>1. PICK S, b : S = Owing(a) /\ b = Bills
  OBVIOUS
<1>2. PICK T, c : T = Owing(a)' /\ c = Bills'
  OBVIOUS
<1>3. IsFiniteSet(T) /\ (\A k \in T : c[k] \in Nat) /\ j \in T
  <2>1. IsFiniteSet(T)
    BY <1>2, FlowFinite, FS_Subset DEF Owing
  <2>2. \A k \in T : c[k] \in Nat
    BY <1>2, BillTypeNext DEF Owing, Owes, Bills
  <2>. QED  BY <1>2, <2>1, <2>2 DEF Owing
<1>4. ASSUME NEW k \in Jobs \ {j} PROVE (Owes(k, a)' <=> Owes(k, a)) /\ Bill(k)' = Bill(k)
  BY <1>4 DEF Owes, Bill
<1>5. T \ {j} = S /\ \A k \in S : b[k] = c[k]
  BY <1>1, <1>2, <1>4 DEF Owing, Bills
<1>6. SumOver(T, c) = SumOver(T \ {j}, c) + c[j]
  BY <1>3, SumWithout
<1>7. SumOver(S, b) = SumOver(S, c)
  BY <1>5, SumSame
<1>8. c[j] = Bill(j)'
  BY <1>2 DEF Bills
<1>9. Due(a) = SumOver(S, b)
  BY <1>1, DueIs
<1>10. Due(a)' = SumOver(T, c)
  BY <1>2 DEF Due, Owing, Owes, Bills
<1>. QED
  BY <1>5, <1>6, <1>7, <1>8, <1>9, <1>10

\* One goroutine pays.
LEMMA DueShrinks ==
    ASSUME TypeOK, NEW a, NEW j \in Jobs, Owes(j, a), ~ Owes(j, a)',
           \A k \in Jobs \ {j} : job'[k] = job[k]
    PROVE  Due(a) = Due(a)' + Bill(j)
<1>1. PICK S, b : S = Owing(a) /\ b = Bills
  OBVIOUS
<1>2. PICK T, c : T = Owing(a)' /\ c = Bills'
  OBVIOUS
<1>3. IsFiniteSet(S) /\ (\A k \in S : b[k] \in Nat) /\ j \in S
  BY <1>1, OwingFinite DEF Owing
<1>4. ASSUME NEW k \in Jobs \ {j} PROVE (Owes(k, a)' <=> Owes(k, a)) /\ Bill(k)' = Bill(k)
  BY <1>4 DEF Owes, Bill
<1>5. S \ {j} = T /\ \A k \in T : b[k] = c[k]
  BY <1>1, <1>2, <1>4 DEF Owing, Bills
<1>6. SumOver(S, b) = SumOver(S \ {j}, b) + b[j]
  BY <1>3, SumWithout
<1>7. SumOver(T, b) = SumOver(T, c)
  BY <1>5, SumSame
<1>8. b[j] = Bill(j)
  BY <1>1 DEF Bills
<1>9. Due(a) = SumOver(S, b)
  BY <1>1, DueIs
<1>10. Due(a)' = SumOver(T, c)
  BY <1>2 DEF Due, Owing, Owes, Bills
<1>. QED
  BY <1>5, <1>6, <1>7, <1>8, <1>9, <1>10

\* What a byte adds to the row of a forward shows in the accounts the forward feeds.
LEMMA TotalGrows ==
    ASSUME TypeOK, NEW f \in Forwards, NEW bill \in Nat,
           total' = [total EXCEPT ![f] = total[f] + bill], NEW a
    PROVE  SumOver(Feeding(a), total')
              = SumOver(Feeding(a), total) + (IF f \in Feeding(a) THEN bill ELSE 0)
<1>1. PICK S, b : S = Feeding(a) /\ b = total
  OBVIOUS
<1>2. PICK c : c = total'
  OBVIOUS
<1>3. IsFiniteSet(S) /\ (\A g \in S : b[g] \in Nat)
  BY <1>1, FeedingFinite
<1>4. (\A g \in S \ {f} : b[g] = c[g]) /\ c[f] = b[f] + bill /\ b[f] \in Nat
  BY <1>1, <1>2 DEF Feeding, TypeOK
<1>5. SumOver(S \ {f}, b) = SumOver(S \ {f}, c)
  BY <1>4, SumSame
<1>6. CASE f \in S
  <2>0. \A g \in S : c[g] \in Nat
    BY <1>3, <1>4
  <2>1. SumOver(S, b) = SumOver(S \ {f}, b) + b[f]
    BY <1>3, <1>6, SumWithout
  <2>2. SumOver(S, c) = SumOver(S \ {f}, c) + c[f]
    BY <1>3, <1>6, <2>0, SumWithout
  <2>3. IsFiniteSet(S \ {f})
    BY <1>3, FS_RemoveElement
  <2>4. SumOver(S \ {f}, b) \in Nat
    BY <1>3, <2>3, SumType
  <2>. QED  BY <1>1, <1>2, <1>4, <1>5, <1>6, <2>1, <2>2, <2>4
<1>7. CASE f \notin S
  <2>1. S \ {f} = S
    BY <1>7
  <2>2. SumOver(S, b) \in Nat
    BY <1>3, SumType
  <2>3. SumOver(S, c) = SumOver(S, b)
    BY <1>5, <2>1
  <2>4. SumOver(S, c) = SumOver(S, b) + (IF f \in S THEN bill ELSE 0)
    BY <1>7, <2>2, <2>3
  <2>. QED  BY <1>1, <1>2, <2>4
<1>. QED
  BY <1>6, <1>7

Charges(a) == SumOver(Feeding(a), total) <= used[a] + wiped[a] + Due(a)

\* Before it has added to the forward's row, and once it has charged every account.
Square(r) == r.kind # "upload" \/ r.stage \notin {"user", "permission"}

LEMMA SquareOwesNot ==
    ASSUME NEW j \in Jobs, NEW a
    PROVE  /\ Square(job[j]) => ~ Owes(j, a)
           /\ Square(job'[j]) => ~ Owes(j, a)'
BY DEF Square, Owes

\* A step that charges nobody.
LEMMA QuietCharges ==
    ASSUME Base, NEW a, Charges(a), UNCHANGED <<total, used, wiped>>,
           \A j \in Jobs : \/ Square(job[j]) /\ Square(job'[j])
                           \/ /\ job'[j].kind = job[j].kind /\ job'[j].stage = job[j].stage
                              /\ job'[j].fwd = job[j].fwd
                              /\ job'[j].amount = job[j].amount
    PROVE  Charges(a)'
<1>1. ASSUME NEW j \in Jobs
      PROVE  (Owes(j, a)' <=> Owes(j, a)) /\ (Owes(j, a) => Bill(j)' = Bill(j))
  <2>1. CASE Square(job[j]) /\ Square(job'[j])
    BY <2>1, SquareOwesNot
  <2>2. CASE ~ (Square(job[j]) /\ Square(job'[j]))
    BY <2>2 DEF Owes, Bill
  <2>. QED  BY <2>1, <2>2
<1>2. Due(a)' = Due(a)
  BY <1>1, DueKept
<1>. QED
  BY <1>2 DEF Charges, Feeding

\* One goroutine moves on, and neither before nor after it owes.
LEMMA SquareStep ==
    ASSUME Base, NEW a, Charges(a), UNCHANGED <<total, used, wiped>>, NEW j \in Jobs,
           Square(job[j]), NEW new, Square(new), Move(j, new)
    PROVE  Charges(a)'
<1>1. job'[j] = new /\ \A k \in Jobs \ {j} : job'[k] = job[k]
  BY DEF Move, Base, TypeOK
<1>. QED
  BY <1>1, QuietCharges

LEMMA NodeCharges ==
    ASSUME Base, NEW a, Charges(a), NEW m \in Meters, Carry(m) \/ Report(m) \/ Drained(m)
    PROVE  Charges(a)'
<1>1. UNCHANGED <<total, used, wiped>>
  BY DEF Carry, Report, Drained, Tick, Post, GiveUp, Subtract, Store, panel, aux
<1>2. CASE job' = job
  BY <1>1, <1>2, QuietCharges
<1>3. CASE job' # job
  <2>0. Post(m)
    BY <1>3 DEF Carry, Report, Drained, Tick, GiveUp, Subtract, Store, panel, aux
  <2>a. PICK j \in Jobs :
          /\ Idle(j)
          /\ job' = [job EXCEPT ![j] =
                  [NoJob EXCEPT !.kind = "upload", !.stage = "arrived",
                       !.meter = m, !.fwd = meter[m].of, !.amount = meter[m].bytes]]
    BY <1>3, <2>0 DEF Post
  <2>b. PICK one : one = [NoJob EXCEPT !.kind = "upload", !.stage = "arrived",
                       !.meter = m, !.fwd = meter[m].of, !.amount = meter[m].bytes]
    OBVIOUS
  <2>c. one.stage = "arrived"
    BY <2>b DEF NoJob
  <2>1. \E new : /\ Idle(j) /\ Move(j, new)
                 /\ new.stage = "arrived"
    BY <2>a, <2>b, <2>c DEF Move
  <2>2. PICK new : Idle(j) /\ Move(j, new) /\ new.stage = "arrived"
    BY <2>1
  <2>3. Square(job[j]) /\ Square(new)
    BY <2>2 DEF Square, Idle, NoJob
  <2>. QED  BY <1>1, <2>2, <2>3, SquareStep
<1>. QED
  BY <1>2, <1>3

LEMMA WorkCharges ==
    ASSUME Base, NEW a, Charges(a), NEW j \in Jobs,
           Lookup(j) \/ CheckUser(j) \/ CheckTunnel(j) \/ Answer(j) \/ Work(j) \/ Request(j)
    PROVE  Charges(a)'
<1>a. job[j] \in JobRecord
  BY DEF Base, TypeOK
<1>1. UNCHANGED <<total, used, wiped>>
  BY DEF Lookup, CheckUser, CheckTunnel, Check, Answer, Work, Request, PauseService,
         PauseRow, ResumeService, ResumeRow, DeleteService, DeleteRow, BeginResume,
         BeginDelete, aux
<1>2. CASE PauseService(j) \/ PauseRow(j)
  <2>1. PICK todo, cut : Move(j, [job[j] EXCEPT !.todo = todo, !.cut = cut])
    <3>1. CASE PauseService(j)
      BY <3>1 DEF PauseService
    <3>2. CASE PauseRow(j)
      <4>1. [job[j] EXCEPT !.cut = none] = [job[j] EXCEPT !.todo = job[j].todo, !.cut = none]
        BY <1>a DEF JobRecord
      <4>. QED  BY <3>2, <4>1 DEF PauseRow
    <3>. QED  BY <1>2, <3>1, <3>2
  <2>2. PICK new : new = [job[j] EXCEPT !.todo = todo, !.cut = cut]
    OBVIOUS
  <2>3. /\ new.kind = job[j].kind /\ new.stage = job[j].stage
        /\ new.fwd = job[j].fwd /\ new.amount = job[j].amount
    BY <1>a, <2>2 DEF JobRecord
  <2>4. job'[j] = new /\ \A k \in Jobs \ {j} : job'[k] = job[k]
    BY <2>1, <2>2 DEF Move, Base, TypeOK
  <2>. QED  BY <1>1, <2>3, <2>4, QuietCharges
<1>3. ASSUME ~ PauseService(j), ~ PauseRow(j)
      PROVE  \E new : Square(job[j]) /\ Square(new) /\ Move(j, new)
  <2>1. CASE Lookup(j)
    <3>1. PICK stage \in {"answer", "forward"} : Stage(j, stage)
      BY <2>1 DEF Lookup
    <3>2. PICK new : new = [job[j] EXCEPT !.stage = stage]
      OBVIOUS
    <3>3. new.stage = stage
      BY <1>a, <3>2 DEF JobRecord
    <3>. QED  BY <2>1, <3>1, <3>2, <3>3 DEF Stage, Lookup, Do, Square
  <2>2. CASE CheckUser(j) \/ CheckTunnel(j)
    <3>1. PICK stage \in {"checkTunnel", "answer"}, todo \in SUBSET Forwards :
             Move(j, [job[j] EXCEPT !.stage = stage, !.todo = todo])
      BY <2>2, ActiveType DEF CheckUser, CheckTunnel, Check
    <3>2. PICK new : new = [job[j] EXCEPT !.stage = stage, !.todo = todo]
      OBVIOUS
    <3>3. new.stage = stage
      BY <1>a, <3>2 DEF JobRecord
    <3>. QED  BY <2>2, <3>1, <3>2, <3>3 DEF CheckUser, CheckTunnel, Do, Square
  <2>3. CASE Answer(j)
    BY <2>3 DEF Answer, Do, Square, NoJob
  <2>4. CASE Work(j)
    <3>1. job[j].kind # "upload"
      BY <1>3, <2>4 DEF Work, ResumeService, ResumeRow, DeleteService, DeleteRow, Do
    <3>2. PICK new : Move(j, new) /\ (new = NoJob \/ new = [job[j] EXCEPT !.stage = "row"])
      BY <1>3, <2>4 DEF Work, ResumeService, ResumeRow, DeleteService, DeleteRow, Stage
    <3>3. new.kind # "upload"
      BY <1>a, <3>1, <3>2 DEF JobRecord, NoJob
    <3>. QED  BY <3>1, <3>2, <3>3 DEF Square
  <2>5. CASE Request(j)
    <3>0. PICK f, kind : /\ Idle(j)
                         /\ Move(j, [NoJob EXCEPT !.kind = kind, !.stage = "service", !.fwd = f])
      BY <2>5 DEF Request, BeginResume, BeginDelete
    <3>a. [NoJob EXCEPT !.kind = kind, !.stage = "service", !.fwd = f].stage = "service"
      BY DEF NoJob
    <3>1. PICK new : Idle(j) /\ Move(j, new) /\ new.stage = "service"
      BY <3>0, <3>a
    <3>. QED  BY <3>1 DEF Square, Idle, NoJob
  <2>. QED  BY <2>1, <2>2, <2>3, <2>4, <2>5
<1>4. CASE ~ PauseService(j) /\ ~ PauseRow(j)
  <2>1. PICK new : Square(job[j]) /\ Square(new) /\ Move(j, new)
    BY <1>3, <1>4
  <2>. QED  BY <1>1, <2>1, SquareStep
<1>. QED
  BY <1>2, <1>4

LEMMA AddCharges ==
    ASSUME Base, Base', NEW a \in Accounts, Charges(a), NEW j \in Jobs, AddToForward(j)
    PROVE  Charges(a)'
<1>a. /\ job[j] \in JobRecord /\ job[j].kind = "upload" /\ job[j].stage = "forward"
      /\ job[j].fwd \in Forwards /\ Bill(j) \in Nat
  BY JobTyped DEF AddToForward, Do
<1>b. PICK new : new = [job[j] EXCEPT !.stage = "user"]
  OBVIOUS
<1>1. job'[j] = new /\ (\A k \in Jobs \ {j} : job'[k] = job[k]) /\ UNCHANGED <<used, wiped>>
  BY <1>b DEF AddToForward, Stage, Move, Base, TypeOK
<1>2. /\ job'[j].kind = "upload" /\ job'[j].stage = "user" /\ job'[j].fwd = job[j].fwd
      /\ job'[j].amount = job[j].amount
  BY <1>a, <1>b, <1>1 DEF JobRecord
<1>3. Bill(j)' = Bill(j) /\ ~ Owes(j, a) /\ (Owes(j, a)' <=> job[j].fwd \in Feeding(a))
  BY <1>a, <1>2 DEF Bill, Owes, Feeding
<1>4. Due(a) \in Nat /\ used[a] \in Nat /\ wiped[a] \in Nat
  BY DueType DEF Base, TypeOK
<1>5. Due(a)' = Due(a) + (IF job[j].fwd \in Feeding(a) THEN Bill(j) ELSE 0)
  <2>1. CASE Owes(j, a)'
    BY <1>1, <1>3, <2>1, DueGrows DEF Base
  <2>2. CASE ~ Owes(j, a)'
    <3>1. \A k \in Jobs : (Owes(k, a)' <=> Owes(k, a)) /\ (Owes(k, a) => Bill(k)' = Bill(k))
      BY <1>1, <1>3, <2>2 DEF Owes, Bill
    <3>2. Due(a)' = Due(a)
      BY <3>1, DueKept
    <3>. QED  BY <1>3, <1>4, <2>2, <3>2
  <2>. QED  BY <2>1, <2>2
<1>6. Feeding(a)' = Feeding(a)
  BY DEF Feeding
<1>7. SumOver(Feeding(a), total) \in Nat
  BY FeedingFinite, SumType DEF Base
<1>8. CASE total' = total
  BY <1>1, <1>4, <1>5, <1>6, <1>7, <1>8, <1>a DEF Charges
<1>9. CASE total' = [total EXCEPT ![job[j].fwd] = @ + Bill(j)]
  <2>1. PICK f \in Forwards : f = job[j].fwd
    BY <1>a
  <2>2. PICK bill \in Nat : bill = Bill(j)
    BY <1>a
  <2>3. total' = [total EXCEPT ![f] = total[f] + bill]
    BY <1>9, <2>1, <2>2
  <2>4. SumOver(Feeding(a), total')
           = SumOver(Feeding(a), total) + (IF f \in Feeding(a) THEN bill ELSE 0)
    BY <2>3, TotalGrows DEF Base
  <2>. QED
    BY <1>1, <1>4, <1>5, <1>6, <1>7, <2>1, <2>2, <2>4 DEF Charges
<1>. QED
  BY <1>8, <1>9 DEF AddToForward

\* The user, or the permission, is charged what the goroutine owes.
LEMMA PayCharges ==
    ASSUME Base, Base', NEW a \in Accounts, Charges(a), NEW j \in Jobs,
           AddToUser(j) \/ AddToTunnel(j)
    PROVE  Charges(a)'
<1>a. job[j] \in JobRecord /\ job[j].kind = "upload" /\ Bill(j) \in Nat
  BY JobTyped DEF AddToUser, AddToTunnel, Do
<1>b. PICK stage \in {"answer", "permission", "checkUser"} :
         /\ Stage(j, stage)
         /\ AddToUser(j) => stage = IF TunnelOf[job[j].fwd] = none THEN "answer"
                                    ELSE "permission"
         /\ AddToTunnel(j) => stage = "checkUser"
  <2>1. AddToUser(j) => ~ AddToTunnel(j)
    BY DEF AddToUser, AddToTunnel, Do
  <2>. QED  BY <2>1 DEF AddToUser, AddToTunnel
<1>c. PICK new : new = [job[j] EXCEPT !.stage = stage]
  OBVIOUS
<1>1. job'[j] = new /\ (\A k \in Jobs \ {j} : job'[k] = job[k]) /\ UNCHANGED <<total, wiped>>
  BY <1>b, <1>c DEF AddToUser, AddToTunnel, Stage, Move, Base, TypeOK, aux
<1>2. /\ job'[j].kind = "upload" /\ job'[j].stage = stage /\ job'[j].fwd = job[j].fwd
      /\ job'[j].amount = job[j].amount
  BY <1>a, <1>c, <1>1 DEF JobRecord
<1>3. Bill(j)' = Bill(j)
  BY <1>2 DEF Bill
<1>4. Due(a) \in Nat /\ Due(a)' \in Nat /\ used[a] \in Nat /\ wiped[a] \in Nat
  <2>1. Due(a)' \in Nat
    BY DueTypeNext DEF Base
  <2>. QED  BY <2>1, DueType DEF Base, TypeOK
<1>5. Owes(j, a)' => Owes(j, a)
  BY <1>2, <1>a, <1>b DEF Owes, AddToUser, AddToTunnel, Do
<1>6. used'[a] = used[a] + Bill(j) \/ (used'[a] = used[a] /\ (Owes(j, a) => Owes(j, a)'))
  <2>1. CASE AddToUser(j)
    <3>1. CASE a = "user"
      BY <1>a, <2>1, <3>1 DEF AddToUser, Base, TypeOK
    <3>2. CASE a # "user"
      <4>1. used'[a] = used[a]
        BY <2>1, <3>2 DEF AddToUser, Base, TypeOK
      <4>2. a \in Tunnels /\ a # none
        BY <3>2, NoneApart DEF Accounts
      <4>. QED  BY <1>2, <1>b, <2>1, <3>2, <4>1, <4>2 DEF Owes
    <3>. QED  BY <3>1, <3>2
  <2>2. CASE AddToTunnel(j)
    <3>1. CASE a = TunnelOf[job[j].fwd]
      BY <1>a, <2>2, <3>1 DEF AddToTunnel, Base, TypeOK
    <3>2. CASE a # TunnelOf[job[j].fwd]
      <4>1. used'[a] = used[a]
        BY <2>2, <3>2 DEF AddToTunnel, Base, TypeOK
      <4>2. ~ Owes(j, a)
        BY <2>2, <3>2 DEF Owes, AddToTunnel, Do
      <4>. QED  BY <4>1, <4>2
    <3>. QED  BY <3>1, <3>2
  <2>. QED  BY <2>1, <2>2
<1>7. Due(a) = Due(a)' \/ (Owes(j, a) /\ ~ Owes(j, a)' /\ Due(a) = Due(a)' + Bill(j))
  <2>1. CASE Owes(j, a) /\ ~ Owes(j, a)'
    BY <1>1, <2>1, DueShrinks DEF Base
  <2>2. CASE Owes(j, a) <=> Owes(j, a)'
    <3>1. \A k \in Jobs : (Owes(k, a)' <=> Owes(k, a)) /\ (Owes(k, a) => Bill(k)' = Bill(k))
      BY <1>1, <1>3, <2>2 DEF Owes, Bill
    <3>. QED  BY <3>1, DueKept
  <2>. QED  BY <1>5, <2>1, <2>2
<1>8. Feeding(a)' = Feeding(a) /\ SumOver(Feeding(a), total) \in Nat
  BY FeedingFinite, SumType DEF Base, Feeding
<1>9. SumOver(Feeding(a), total) <= used'[a] + wiped[a] + Due(a)'
  BY <1>4, <1>6, <1>7, <1>8, <1>a DEF Charges
<1>. QED
  BY <1>1, <1>8, <1>9 DEF Charges

LEMMA ResetCharges ==
    ASSUME Base, NEW a \in Accounts, Charges(a), NEW b \in Accounts, ResetFlow(b)
    PROVE  Charges(a)'
<1>1. job' = job /\ total' = total
  BY DEF ResetFlow
<1>2. used[a] \in Nat /\ wiped[a] \in Nat /\ used'[a] + wiped'[a] = used[a] + wiped[a]
      /\ used'[a] \in Nat /\ wiped'[a] \in Nat
  BY DEF ResetFlow, Base, TypeOK
<1>3. Due(a)' = Due(a)
  <2>1. \A k \in Jobs : (Owes(k, a)' <=> Owes(k, a)) /\ (Owes(k, a) => Bill(k)' = Bill(k))
    BY <1>1 DEF Owes, Bill
  <2>. QED  BY <2>1, DueKept
<1>4. Due(a) \in Nat /\ SumOver(Feeding(a), total) \in Nat /\ Feeding(a)' = Feeding(a)
  BY DueType, FeedingFinite, SumType DEF Base, Feeding
<1>. QED
  BY <1>1, <1>2, <1>3, <1>4 DEF Charges

LEMMA NextCharges == Base /\ ChargesFollow /\ [Next]_vars => ChargesFollow'
<1>. SUFFICES ASSUME Base, ChargesFollow, [Next]_vars, crashes' = 0, NEW a \in Accounts
              PROVE  Charges(a)'
  BY DEF ChargesFollow, Charges, Feeding
<1>b. Base'
  BY NextBase
<1>1. crashes = 0 /\ ~ Crash
  <2>1. crashes \in Nat
    BY DEF Base, TypeOK
  <2>2. crashes' = crashes \/ crashes' = crashes + 1
    BY DEF Next, Carry, Report, Drained, Tick, Post, GiveUp, Subtract, Store, Upload,
           Lookup, AddToForward, AddToUser, AddToTunnel, CheckUser, CheckTunnel, Check,
           Answer, Work, PauseService, PauseRow, ResumeService, ResumeRow, DeleteService,
           DeleteRow, Request, BeginResume, BeginDelete, ResetFlow, Crash, vars, panel
  <2>. QED  BY <2>1, <2>2 DEF Crash
<1>2. Charges(a)
  BY <1>1 DEF ChargesFollow, Charges, Feeding
<1>3. CASE UNCHANGED vars
  <2>1. UNCHANGED <<total, used, wiped, job>>
    BY <1>3 DEF vars, panel, aux
  <2>. QED  BY <1>2, <2>1, QuietCharges
<1>4. CASE Next
  BY <1>1, <1>2, <1>4, <1>b, NodeCharges, WorkCharges, AddCharges, PayCharges, ResetCharges
  DEF Next, Upload
<1>. QED
  BY <1>3, <1>4

\* For any forwards, permissions, goroutines, limits and resets: what the rows of forwards
\* show has been charged, or is about to be, unless the panel has restarted.
THEOREM Charged == Spec => []ChargesFollow
<1>1. Init => ChargesFollow
  <2>. SUFFICES ASSUME Init, NEW a \in Accounts PROVE Charges(a)
    BY DEF ChargesFollow, Charges, Feeding
  <2>1. Base
    BY InitBase
  <2>2. PICK S : S = Feeding(a)
    OBVIOUS
  <2>3. \A f \in S : total[f] = 0
    BY <2>2 DEF Init, Feeding
  <2>4. UNION {Units(total, f) : f \in S} = {}
    <3>1. \A f \in S : Units(total, f) = {}
      BY <2>3 DEF Units
    <3>. QED  BY <3>1
  <2>5. SumOver(S, total) = 0
    BY <2>4, SumUnits, FS_EmptySet
  <2>6. Due(a) \in Nat /\ used[a] = 0 /\ wiped[a] = 0
    BY <2>1, DueType DEF Base, Init
  <2>. QED  BY <2>2, <2>5, <2>6 DEF Charges
<1>2. Base /\ ChargesFollow /\ [Next]_vars => (Base /\ ChargesFollow)'
  BY NextBase, NextCharges
<1>. QED
  BY <1>1, <1>2, InitBase, PTL DEF Spec

=============================================================================

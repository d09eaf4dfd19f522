-------------------------- MODULE SpeedJob_proofs --------------------------
(***************************************************************************)
(* What a speed job keeps, for every request: any number of targets,       *)
(* models, runs and warm-ups, any concurrency, both modes.                 *)
(***************************************************************************)
EXTENDS SpeedJob, TLAPS

AtWork == {"detecting", "discovering", "sequential", "parallel"}

Reports == [unit : Units(target), outcome : Outcomes \cup {"stopped", "discarded", "raised"}]

UnitsOf(rows) == {rows[i].unit : i \in DOMAIN rows}

Distinct(rows) == \A i, j \in DOMAIN rows : rows[i].unit = rows[j].unit => i = j

(***************************************************************************)
(* Where the job is and what clients are told of it.                       *)
(***************************************************************************)
Stages ==
  /\ pc = "new" => status = "queued" /\ ~stopRequested /\ target = 1 /\ results = << >>
  /\ pc \in AtWork => status = IF stopRequested THEN "stopping" ELSE "running"
  /\ pc \in {"draining", "saving", "done"} => status \in Terminal
  /\ pc = "sequential" => mode = "sequential"
  /\ pc = "parallel" => mode = "parallel"
  /\ pc # "parallel" => arrived = << >>
  /\ pc \in {"new", "detecting", "discovering"} => todo = {} /\ inflight = {}

(***************************************************************************)
(* A unit is in one place: waiting, at the endpoint, answered, or in the   *)
(* record; and what has been answered says truly what became of it.        *)
(***************************************************************************)
InOnePlace ==
  /\ todo \cap inflight = {}
  /\ UnitsOf(arrived) \cap (todo \cup inflight) = {}
  /\ UnitsOf(results) \cap (todo \cup inflight) = {}
  /\ UnitsOf(results) \cap UnitsOf(arrived) = {}
  /\ Distinct(arrived)
  /\ Distinct(results)

AnswersAreTrue ==
  \A a \in Range(arrived) :
    /\ a.outcome \in Outcomes => ~IsWarmup(a.unit)
    /\ a.outcome = "discarded" => IsWarmup(a.unit)
    /\ a.outcome = "stopped" => stopRequested

(***************************************************************************)
(* The job goes through the targets in turn and loses no measured run on   *)
(* the way; only a stop makes run_parallel drop workers without a call.    *)
(***************************************************************************)
InTurn ==
  /\ \A u \in UnitsOf(results) : u[1] <= target
  /\ pc \in {"detecting", "discovering"} => \A u \in UnitsOf(results) : u[1] < target

EarlierTargetsWhole ==
  pc \in AtWork => \A u \in Measured : u[1] < target => u \in UnitsOf(results)

NothingLost ==
  (pc = "sequential" \/ (pc = "parallel" /\ ~stopRequested)) =>
    \A u \in Measured :
      u[1] = target => u \in todo \cup inflight \cup UnitsOf(arrived) \cup UnitsOf(results)

CompletedIsWhole == status = "completed" => Measured \subseteq UnitsOf(results)

(***************************************************************************)
(* run_sequential: one call at a time, and what waits comes after it.      *)
(***************************************************************************)
OneCallAtATime ==
  pc = "sequential" =>
    \E u \in Units(target) : inflight = {u} /\ \A v \in todo : ModelMajor(u, v)

Planned ==
  /\ TypeOK
  /\ Stages
  /\ InOnePlace
  /\ AnswersAreTrue
  /\ InTurn
  /\ EarlierTargetsWhole
  /\ NothingLost
  /\ CompletedIsWhole
  /\ QuietWhenSettled
  /\ OneCallAtATime

-----------------------------------------------------------------------------
(***************************************************************************)
(* Units, and lists of rows.                                               *)
(***************************************************************************)
(* The parts of a unit. *)
LEMMA UnitParts ==
  ASSUME NEW t \in Targets, NEW u \in Units(t)
  PROVE  u[1] = t /\ u[2] \in Int /\ u[3] \in Int
<1>1. NModels[t] \in Nat /\ WarmupRuns \in Nat /\ RepeatCount \in Nat
  BY RequestAssumption
<1> QED
  BY <1>1 DEF Units

(* The measured units are those of the targets that are no warm-ups. *)
LEMMA MeasuredUnits ==
  /\ \A u \in Measured : u[1] \in Targets /\ u \in Units(u[1]) /\ ~IsWarmup(u)
  /\ \A t \in Targets : \A u \in Units(t) : ~IsWarmup(u) => u \in Measured
<1>1. ASSUME NEW u \in Measured
      PROVE  u[1] \in Targets /\ u \in Units(u[1]) /\ ~IsWarmup(u)
  <2>1. ~IsWarmup(u) /\ \E t \in Targets : u \in Units(t)
    BY DEF Measured, AllUnits
  <2>2. PICK t \in Targets : u \in Units(t)
    BY <2>1
  <2>3. u[1] = t
    BY <2>2, UnitParts
  <2> QED
    BY <2>1, <2>2, <2>3
<1>2. ASSUME NEW t \in Targets, NEW u \in Units(t), ~IsWarmup(u)
      PROVE  u \in Measured
  BY <1>2 DEF Measured, AllUnits
<1> QED
  BY <1>1, <1>2

(* The empty list. *)
LEMMA NoRows ==
  /\ UnitsOf(<< >>) = {} /\ Range(<< >>) = {} /\ Distinct(<< >>)
  /\ \A S : << >> \in Seq(S)
BY DEF UnitsOf, Range, Distinct

(* Rows are rows of measured units. *)
LEMMA RowUnits ==
  ASSUME NEW rows \in Seq(Rows)
  PROVE  UnitsOf(rows) \subseteq Measured
<1>1. \A i \in DOMAIN rows : rows[i] \in Rows
  OBVIOUS
<1>2. \A r \in Rows : r.unit \in Measured
  BY DEF Rows
<1> QED
  BY <1>1, <1>2 DEF UnitsOf

(* A row more at the end of a list. *)
LEMMA RowAdded ==
  ASSUME NEW S, NEW rows \in Seq(S), NEW r \in S
  PROVE  /\ Append(rows, r) \in Seq(S)
         /\ Range(Append(rows, r)) = Range(rows) \cup {r}
         /\ UnitsOf(Append(rows, r)) = UnitsOf(rows) \cup {r.unit}
         /\ Distinct(rows) /\ r.unit \notin UnitsOf(rows) => Distinct(Append(rows, r))
<1> DEFINE more == Append(rows, r)
<1>1. /\ more \in Seq(S)
      /\ Len(rows) \in Nat
      /\ DOMAIN rows = 1..Len(rows)
      /\ DOMAIN more = 1..(Len(rows) + 1)
      /\ \A i \in 1..Len(rows) : more[i] = rows[i]
      /\ more[Len(rows) + 1] = r
  OBVIOUS
<1> HIDE DEF more
<1>2. DOMAIN more = DOMAIN rows \cup {Len(rows) + 1} /\ Len(rows) + 1 \notin DOMAIN rows
  BY <1>1
<1>3. Range(more) = Range(rows) \cup {r}
  BY <1>1, <1>2 DEF Range
<1>4. UnitsOf(more) = UnitsOf(rows) \cup {r.unit}
  BY <1>1, <1>2 DEF UnitsOf
<1>5. ASSUME Distinct(rows), r.unit \notin UnitsOf(rows)
      PROVE  Distinct(more)
  BY <1>1, <1>2, <1>5 DEF Distinct, UnitsOf
<1> QED
  BY <1>1, <1>3, <1>4, <1>5 DEF more

(* The first row of a list taken away. *)
LEMMA RowTaken ==
  ASSUME NEW S, NEW rows \in Seq(S), rows # << >>
  PROVE  /\ Head(rows) \in S
         /\ Tail(rows) \in Seq(S)
         /\ Head(rows) \in Range(rows)
         /\ Range(Tail(rows)) \subseteq Range(rows)
         /\ UnitsOf(rows) = UnitsOf(Tail(rows)) \cup {Head(rows).unit}
         /\ Distinct(rows) => Distinct(Tail(rows)) /\ Head(rows).unit \notin UnitsOf(Tail(rows))
<1> DEFINE rest == Tail(rows)
           first == Head(rows)
<1>1. /\ first \in S
      /\ rest \in Seq(S)
      /\ Len(rows) \in Nat \ {0}
      /\ DOMAIN rows = 1..Len(rows)
      /\ DOMAIN rest = 1..(Len(rows) - 1)
      /\ \A i \in 1..(Len(rows) - 1) : rest[i] = rows[i + 1]
      /\ first = rows[1]
  OBVIOUS
<1> HIDE DEF rest, first
<1>2. /\ 1 \in DOMAIN rows
      /\ \A i \in DOMAIN rest : i + 1 \in DOMAIN rows /\ i + 1 # 1 /\ rest[i] = rows[i + 1]
      /\ \A i \in DOMAIN rows : i # 1 => i - 1 \in DOMAIN rest /\ rest[i - 1] = rows[i]
  BY <1>1
<1>3. first \in Range(rows) /\ Range(rest) \subseteq Range(rows)
  BY <1>1, <1>2 DEF Range
<1>4. UnitsOf(rows) = UnitsOf(rest) \cup {first.unit}
  <2>1. \A x \in UnitsOf(rows) : x \in UnitsOf(rest) \cup {first.unit}
    BY <1>1, <1>2 DEF UnitsOf
  <2>2. ASSUME NEW i \in DOMAIN rest
        PROVE  rest[i].unit \in UnitsOf(rows)
    <3>1. i + 1 \in DOMAIN rows /\ rest[i].unit = rows[i + 1].unit
      BY <1>2
    <3> QED
      BY <3>1 DEF UnitsOf
  <2>3. first.unit \in UnitsOf(rows)
    BY <1>1, <1>2 DEF UnitsOf
  <2>4. \A x \in UnitsOf(rest) : x \in UnitsOf(rows)
    BY <2>2 DEF UnitsOf
  <2> QED
    BY <2>1, <2>3, <2>4
<1>5. ASSUME Distinct(rows)
      PROVE  Distinct(rest) /\ first.unit \notin UnitsOf(rest)
  <2>1. ASSUME NEW i \in DOMAIN rest, NEW j \in DOMAIN rest, rest[i].unit = rest[j].unit
        PROVE  i = j
    <3>1. i \in Int /\ j \in Int
      BY <1>1
    <3>2. rows[i + 1].unit = rows[j + 1].unit /\ i + 1 \in DOMAIN rows /\ j + 1 \in DOMAIN rows
      BY <1>2, <2>1
    <3>3. i + 1 = j + 1
      BY <1>5, <3>2 DEF Distinct
    <3> QED
      BY <3>1, <3>3
  <2>2. ASSUME NEW i \in DOMAIN rest
        PROVE  rest[i].unit # first.unit
    <3>1. rest[i] = rows[i + 1] /\ i + 1 \in DOMAIN rows /\ i + 1 # 1
      BY <1>2
    <3> QED
      BY <1>1, <1>2, <1>5, <3>1 DEF Distinct
  <2> QED
    BY <2>1, <2>2 DEF Distinct, UnitsOf
<1> QED
  BY <1>1, <1>3, <1>4, <1>5 DEF rest, first

-----------------------------------------------------------------------------
(***************************************************************************)
(* The steps the loops are made of.                                        *)
(***************************************************************************)
LEMMA PlannedInit == Init => Planned
<1> SUFFICES ASSUME Init
             PROVE  Planned
  OBVIOUS
<1>1. TypeOK
  <2>1. mode \in {"sequential", "parallel"} /\ target \in Targets
    BY RequestAssumption DEF Init, Targets
  <2> QED
    BY <2>1, NoRows DEF Init, TypeOK
<1>2. Stages /\ OneCallAtATime /\ QuietWhenSettled /\ CompletedIsWhole
  BY DEF Init, Stages, OneCallAtATime, QuietWhenSettled, CompletedIsWhole, AtWork
<1>3. InOnePlace /\ AnswersAreTrue /\ InTurn
  BY NoRows DEF Init, InOnePlace, AnswersAreTrue, InTurn
<1>4. EarlierTargetsWhole /\ NothingLost
  BY DEF Init, EarlierTargetsWhole, NothingLost, AtWork
<1> QED
  BY <1>1, <1>2, <1>3, <1>4 DEF Planned

(* Leaving a target with its rows complete, or because of a stop. *)
LEMMA LeavingTarget ==
  ASSUME Planned, pc \in AtWork,
         NEW rows \in Seq(Rows), Distinct(rows),
         \A u \in UnitsOf(rows) : u[1] <= target,
         \A u \in Measured : u[1] < target => u \in UnitsOf(rows),
         ~stopRequested => \A u \in Measured : u[1] = target => u \in UnitsOf(rows),
         LeaveTarget(rows), results' = rows, UNCHANGED <<mode, stopRequested>>,
         todo' = {}, inflight' = {}, arrived' = << >>, pendingSaves' \in Nat
  PROVE  Planned'
<1>1. TypeOK /\ Stages /\ target \in Nat /\ NTargets \in Nat /\ target <= NTargets
  BY RequestAssumption DEF Planned, TypeOK, Targets
<1>2. status = IF stopRequested THEN "stopping" ELSE "running"
  BY <1>1 DEF Stages
<1>3. InOnePlace' /\ AnswersAreTrue'
  BY NoRows DEF InOnePlace, AnswersAreTrue
<1>4. (OneCallAtATime /\ NothingLost)' /\ QuietWhenSettled'
  <2>1. pc' \in {"detecting", "draining"}
    BY DEF LeaveTarget, Settle, Raise
  <2> QED
    BY <2>1 DEF OneCallAtATime, NothingLost, QuietWhenSettled
<1>5. \A u \in Measured : u[1] \in Nat /\ u[1] <= NTargets
  BY MeasuredUnits, RequestAssumption DEF Targets
<1>6. \A u \in UnitsOf(rows) : u \in Measured
  BY RowUnits
<1>7. CASE stopRequested \/ target = NTargets
  <2>1. UNCHANGED target /\ pc' = "draining"
    BY <1>7 DEF LeaveTarget, Settle, Raise
  <2>2. \/ status' = "failed" /\ errors' = TRUE
        \/ status' = Verdict /\ UNCHANGED errors
    BY <1>7 DEF LeaveTarget, Settle, Raise
  <2>3. Verdict \in {"completed", "stopped"} /\ (Verdict = "completed" => ~stopRequested)
    BY <1>2 DEF Verdict
  <2>4. TypeOK'
    <3>1. status' \in {"completed", "stopped", "failed"} /\ errors' \in BOOLEAN
      BY <1>1, <2>2, <2>3 DEF TypeOK
    <3> QED
      BY <1>1, <2>1, <3>1, NoRows DEF TypeOK, Terminal
  <2>5. Stages'
    BY <2>1, <2>2, <2>3 DEF Stages, Terminal, AtWork
  <2>6. InTurn' /\ EarlierTargetsWhole'
    BY <2>1 DEF InTurn, EarlierTargetsWhole, AtWork
  <2>7. CompletedIsWhole'
    <3> SUFFICES ASSUME status' = "completed", NEW u \in Measured
                 PROVE  u \in UnitsOf(rows)
      BY DEF CompletedIsWhole
    <3>1. ~stopRequested /\ target = NTargets
      BY <1>7, <2>2, <2>3
    <3>2. u[1] < target \/ u[1] = target
      BY <1>1, <1>5, <3>1
    <3> QED
      BY <3>1, <3>2
  <2> QED
    BY <1>3, <1>4, <2>4, <2>5, <2>6, <2>7 DEF Planned
<1>8. CASE ~stopRequested /\ target # NTargets
  <2>1. target' = target + 1 /\ pc' = "detecting" /\ UNCHANGED <<status, errors>>
    BY <1>8 DEF LeaveTarget
  <2>2. target' \in Targets
    BY <1>1, <1>8, <2>1 DEF Targets
  <2>3. TypeOK'
    BY <1>1, <2>1, <2>2 DEF TypeOK
  <2>4. Stages'
    BY <1>2, <2>1 DEF Stages, AtWork
  <2>5. InTurn'
    BY <1>1, <1>5, <1>6, <2>1 DEF InTurn
  <2>6. EarlierTargetsWhole'
    BY <1>1, <1>5, <1>8, <2>1 DEF EarlierTargetsWhole
  <2>7. CompletedIsWhole'
    BY <1>2, <2>1 DEF CompletedIsWhole
  <2> QED
    BY <1>3, <1>4, <2>3, <2>4, <2>5, <2>6, <2>7 DEF Planned
<1> QED
  BY <1>7, <1>8

(* run_sequential up to its next call. *)
LEMMA SequentialGoesOn ==
  ASSUME Planned, pc \in {"discovering", "sequential"}, mode = "sequential",
         NEW rest \in SUBSET Units(target),
         NEW rows \in Seq(Rows), Distinct(rows),
         UnitsOf(rows) \cap rest = {},
         \A u \in UnitsOf(rows) : u[1] <= target,
         \A u \in Measured : u[1] < target => u \in UnitsOf(rows),
         \A u \in Measured : u[1] = target => u \in rest \cup UnitsOf(rows),
         SeqContinue(rest, rows), results' = rows,
         UNCHANGED <<mode, stopRequested, arrived>>, pendingSaves' \in Nat
  PROVE  Planned'
<1>1. TypeOK /\ Stages /\ arrived = << >>
  BY DEF Planned, Stages
<1>2. CASE stopRequested \/ rest = {}
  <2>1. todo' = {} /\ inflight' = {} /\ LeaveTarget(rows)
    BY <1>2 DEF SeqContinue
  <2>2. ~stopRequested => \A u \in Measured : u[1] = target => u \in UnitsOf(rows)
    BY <1>2
  <2> QED
    BY <1>1, <2>1, <2>2, LeavingTarget DEF AtWork
<1>3. CASE ~stopRequested /\ rest # {}
  <2>1. PICK u \in rest : /\ IsFirst(u, rest)
                          /\ todo' = rest \ {u} /\ inflight' = {u}
                          /\ pc' = "sequential" /\ UNCHANGED <<status, target, errors>>
    BY <1>3 DEF SeqContinue
  <2>2. \A v \in rest \ {u} : ModelMajor(u, v)
    BY <2>1 DEF IsFirst, Before
  <2>3. TypeOK'
    BY <1>1, <2>1 DEF TypeOK
  <2>4. Stages' /\ CompletedIsWhole' /\ QuietWhenSettled'
    BY <1>1, <1>3, <2>1 DEF Stages, CompletedIsWhole, QuietWhenSettled, AtWork
  <2>5. InOnePlace' /\ AnswersAreTrue'
    BY <1>1, <2>1, NoRows DEF InOnePlace, AnswersAreTrue
  <2>6. InTurn' /\ EarlierTargetsWhole'
    BY <2>1 DEF InTurn, EarlierTargetsWhole
  <2>7. NothingLost'
    BY <2>1 DEF NothingLost
  <2>8. OneCallAtATime'
    BY <2>1, <2>2 DEF OneCallAtATime
  <2> QED
    BY <2>3, <2>4, <2>5, <2>6, <2>7, <2>8 DEF Planned
<1> QED
  BY <1>2, <1>3

(* The loop over as_completed has taken the first answer. *)
LEMMA ParallelGoesOn ==
  ASSUME Planned, pc = "parallel", arrived # << >>,
         NEW rows \in Seq(Rows), Distinct(rows),
         UnitsOf(rows) \cap (todo \cup inflight) = {},
         UnitsOf(rows) \cap UnitsOf(Tail(arrived)) = {},
         \A u \in UnitsOf(rows) : u[1] <= target,
         \A u \in Measured : u[1] < target => u \in UnitsOf(rows),
         ~stopRequested => \A u \in Measured :
           u[1] = target => u \in todo \cup inflight \cup UnitsOf(Tail(arrived)) \cup UnitsOf(rows),
         ParContinue(rows), results' = rows, UNCHANGED <<mode, stopRequested>>,
         pendingSaves' \in Nat
  PROVE  Planned'
<1>1. TypeOK /\ Stages /\ InOnePlace /\ AnswersAreTrue
  BY DEF Planned
<1>2. arrived \in Seq(Reports)
  BY <1>1 DEF TypeOK, Reports
<1>3. /\ Tail(arrived) \in Seq(Reports)
      /\ Range(Tail(arrived)) \subseteq Range(arrived)
      /\ UnitsOf(Tail(arrived)) \subseteq UnitsOf(arrived)
      /\ Distinct(Tail(arrived))
  BY <1>1, <1>2, RowTaken DEF InOnePlace
<1>4. arrived' = Tail(arrived) /\ UNCHANGED <<todo, inflight>>
  BY DEF ParContinue
<1>5. CASE todo \cup inflight = {} /\ Tail(arrived) = << >>
  <2>1. LeaveTarget(rows) /\ todo' = {} /\ inflight' = {} /\ arrived' = << >>
    BY <1>4, <1>5 DEF ParContinue
  <2>2. ~stopRequested => \A u \in Measured : u[1] = target => u \in UnitsOf(rows)
    BY <1>5, NoRows
  <2> QED
    BY <2>1, <2>2, LeavingTarget DEF AtWork
<1>6. CASE ~(todo \cup inflight = {} /\ Tail(arrived) = << >>)
  <2>1. UNCHANGED <<status, pc, target, errors>>
    BY <1>6 DEF ParContinue
  <2>2. TypeOK'
    BY <1>1, <1>3, <1>4, <2>1 DEF TypeOK, Reports
  <2>3. Stages' /\ CompletedIsWhole' /\ QuietWhenSettled'
    BY <1>1, <2>1 DEF Stages, CompletedIsWhole, QuietWhenSettled, AtWork
  <2>4. InOnePlace'
    BY <1>1, <1>3, <1>4 DEF InOnePlace
  <2>5. AnswersAreTrue'
    BY <1>1, <1>3, <1>4 DEF AnswersAreTrue
  <2>6. InTurn' /\ EarlierTargetsWhole'
    BY <2>1 DEF InTurn, EarlierTargetsWhole
  <2>7. NothingLost' /\ OneCallAtATime'
    BY <1>4, <2>1 DEF NothingLost, OneCallAtATime
  <2> QED
    BY <2>2, <2>3, <2>4, <2>5, <2>6, <2>7 DEF Planned
<1> QED
  BY <1>5, <1>6

-----------------------------------------------------------------------------
(***************************************************************************)
(* The steps of the job.                                                   *)
(***************************************************************************)
(* What depends on the units alone stays as it is while they stay. *)
LEMMA UnitsStay ==
  ASSUME InOnePlace, AnswersAreTrue, stopRequested => stopRequested',
         UNCHANGED <<todo, inflight, arrived, results>>
  PROVE  InOnePlace' /\ AnswersAreTrue'
<1>1. InOnePlace'
  BY DEF InOnePlace
<1>2. AnswersAreTrue'
  BY DEF AnswersAreTrue
<1> QED
  BY <1>1, <1>2

(* Before its loop is entered, no unit of a target has a row. *)
LEMMA TargetUntouched ==
  ASSUME TypeOK, InTurn, pc \in {"detecting", "discovering"}
  PROVE  UnitsOf(results) \cap Units(target) = {}
<1>1. \A u \in UnitsOf(results) : u[1] < target
  BY DEF InTurn
<1>2. \A u \in Units(target) : u[1] = target
  BY UnitParts DEF TypeOK
<1>3. target \in Nat
  BY RequestAssumption DEF Targets, TypeOK
<1> QED
  BY <1>1, <1>2, <1>3

LEMMA PlannedRunner ==
  ASSUME Planned,
         \/ Start \/ ProviderDetected \/ TargetUnusable \/ EnterParallel
         \/ SaveEnds \/ Drained \/ FinalSave \/ RequestStop
  PROVE  Planned'
<1>1. /\ TypeOK /\ Stages /\ InOnePlace /\ AnswersAreTrue /\ InTurn /\ EarlierTargetsWhole
      /\ NothingLost /\ CompletedIsWhole /\ QuietWhenSettled /\ OneCallAtATime
  BY DEF Planned
<1>2. CASE Start
  <2>1. TypeOK' /\ Stages'
    BY <1>1, <1>2 DEF TypeOK, Stages, Start, AtWork
  <2>2. InOnePlace' /\ AnswersAreTrue'
    BY <1>1, <1>2, UnitsStay DEF Start
  <2>3. InTurn' /\ EarlierTargetsWhole'
    <3>1. UnitsOf(results) = {} /\ target = 1
      BY <1>1, <1>2, NoRows DEF Start, Stages
    <3>2. \A u \in Measured : ~(u[1] < 1)
      BY MeasuredUnits DEF Targets
    <3> QED
      BY <1>2, <3>1, <3>2 DEF Start, InTurn, EarlierTargetsWhole
  <2>4. NothingLost' /\ CompletedIsWhole' /\ QuietWhenSettled' /\ OneCallAtATime'
    BY <1>2 DEF Start, NothingLost, CompletedIsWhole, QuietWhenSettled, OneCallAtATime
  <2> QED
    BY <2>1, <2>2, <2>3, <2>4 DEF Planned
<1>3. CASE ProviderDetected
  <2>1. TypeOK' /\ Stages'
    BY <1>1, <1>3 DEF TypeOK, Stages, ProviderDetected, AtWork
  <2>2. InOnePlace' /\ AnswersAreTrue'
    BY <1>1, <1>3, UnitsStay DEF ProviderDetected
  <2>3. InTurn' /\ EarlierTargetsWhole'
    BY <1>1, <1>3 DEF ProviderDetected, InTurn, EarlierTargetsWhole, AtWork
  <2>4. NothingLost' /\ CompletedIsWhole' /\ QuietWhenSettled' /\ OneCallAtATime'
    BY <1>1, <1>3 DEF ProviderDetected, NothingLost, CompletedIsWhole, QuietWhenSettled, OneCallAtATime
  <2> QED
    BY <2>1, <2>2, <2>3, <2>4 DEF Planned
<1>4. CASE TargetUnusable
  <2>1. TypeOK' /\ Stages'
    BY <1>1, <1>4 DEF TypeOK, Stages, TargetUnusable, Raise, AtWork, Terminal
  <2>2. InOnePlace' /\ AnswersAreTrue'
    BY <1>1, <1>4, UnitsStay DEF TargetUnusable, Raise
  <2>3. InTurn' /\ EarlierTargetsWhole'
    BY <1>1, <1>4 DEF TargetUnusable, Raise, InTurn, EarlierTargetsWhole, AtWork
  <2>4. NothingLost' /\ CompletedIsWhole' /\ QuietWhenSettled' /\ OneCallAtATime'
    BY <1>4 DEF TargetUnusable, Raise, NothingLost, CompletedIsWhole, QuietWhenSettled, OneCallAtATime
  <2> QED
    BY <2>1, <2>2, <2>3, <2>4 DEF Planned
<1>5. CASE EnterParallel
  <2>1. todo' = Units(target) /\ UNCHANGED <<status, stopRequested, inflight, arrived, results, target, mode>>
        /\ pc = "discovering" /\ pc' = "parallel" /\ mode = "parallel"
    BY <1>5 DEF EnterParallel
  <2>2. target \in Targets /\ inflight = {} /\ arrived = << >>
    BY <1>1, <2>1 DEF Stages, TypeOK
  <2>3. TypeOK' /\ Stages'
    BY <1>1, <1>5 DEF TypeOK, Stages, EnterParallel, AtWork
  <2>4. UnitsOf(results) \cap Units(target) = {}
    BY <1>1, <2>1, TargetUntouched
  <2>5. InOnePlace'
    BY <1>1, <2>1, <2>2, <2>4, NoRows DEF InOnePlace
  <2>6. AnswersAreTrue'
    BY <1>1, <2>1 DEF AnswersAreTrue
  <2>7. InTurn' /\ EarlierTargetsWhole' /\ OneCallAtATime'
    BY <1>1, <2>1 DEF InTurn, EarlierTargetsWhole, OneCallAtATime, AtWork
  <2>8. NothingLost'
    BY <2>1, MeasuredUnits DEF NothingLost
  <2>9. CompletedIsWhole' /\ QuietWhenSettled'
    BY <1>1, <2>1 DEF CompletedIsWhole, QuietWhenSettled, Stages, AtWork
  <2> QED
    BY <2>3, <2>5, <2>6, <2>7, <2>8, <2>9 DEF Planned
<1>6. CASE SaveEnds
  <2>1. TypeOK' /\ Stages'
    <3>1. pendingSaves' \in Nat
      BY <1>1, <1>6 DEF SaveEnds, TypeOK
    <3> QED
      BY <1>1, <1>6, <3>1 DEF TypeOK, Stages, SaveEnds, AtWork
  <2>2. InOnePlace' /\ AnswersAreTrue'
    BY <1>1, <1>6, UnitsStay DEF SaveEnds
  <2>3. InTurn' /\ EarlierTargetsWhole'
    BY <1>1, <1>6 DEF SaveEnds, InTurn, EarlierTargetsWhole, AtWork
  <2>4. NothingLost' /\ CompletedIsWhole' /\ QuietWhenSettled' /\ OneCallAtATime'
    BY <1>1, <1>6 DEF SaveEnds, NothingLost, CompletedIsWhole, QuietWhenSettled, OneCallAtATime
  <2> QED
    BY <2>1, <2>2, <2>3, <2>4 DEF Planned
<1>7. CASE Drained \/ FinalSave
  <2>1. /\ pc \in {"draining", "saving"} /\ pc' \in {"saving", "done"}
        /\ UNCHANGED <<mode, status, stopRequested, target, todo, inflight, arrived, results,
                       errors, pendingSaves>>
    BY <1>7 DEF Drained, FinalSave
  <2>2. TypeOK' /\ Stages'
    BY <1>1, <2>1 DEF TypeOK, Stages, AtWork
  <2>3. InOnePlace' /\ AnswersAreTrue'
    BY <1>1, <2>1, UnitsStay
  <2>4. InTurn' /\ EarlierTargetsWhole'
    BY <1>1, <2>1 DEF InTurn, EarlierTargetsWhole, AtWork
  <2>5. NothingLost' /\ CompletedIsWhole' /\ QuietWhenSettled' /\ OneCallAtATime'
    BY <1>1, <2>1 DEF NothingLost, CompletedIsWhole, QuietWhenSettled, OneCallAtATime
  <2> QED
    BY <2>2, <2>3, <2>4, <2>5 DEF Planned
<1>8. CASE RequestStop
  <2>1. /\ stopRequested' = TRUE /\ status # "queued"
        /\ status' = IF status = "running" THEN "stopping" ELSE status
        /\ UNCHANGED <<mode, pc, target, todo, inflight, arrived, results, errors, pendingSaves>>
    BY <1>8 DEF RequestStop
  <2>2. TypeOK'
    BY <1>1, <2>1 DEF TypeOK
  <2>3. Stages'
    BY <1>1, <2>1 DEF Stages, AtWork, Terminal
  <2>4. InOnePlace' /\ AnswersAreTrue'
    BY <1>1, <2>1, UnitsStay
  <2>5. InTurn' /\ EarlierTargetsWhole'
    BY <1>1, <2>1 DEF InTurn, EarlierTargetsWhole, AtWork
  <2>6. NothingLost' /\ CompletedIsWhole' /\ QuietWhenSettled' /\ OneCallAtATime'
    BY <1>1, <2>1 DEF NothingLost, CompletedIsWhole, QuietWhenSettled, OneCallAtATime
  <2> QED
    BY <2>2, <2>3, <2>4, <2>5, <2>6 DEF Planned
<1> QED
  BY <1>2, <1>3, <1>4, <1>5, <1>6, <1>7, <1>8

LEMMA PlannedSequential ==
  ASSUME Planned,
         EnterSequential \/ \E u \in inflight : \E o \in Answers(u) : SeqReturn(u, o)
  PROVE  Planned'
<1>1. /\ TypeOK /\ Stages /\ InOnePlace /\ AnswersAreTrue /\ InTurn /\ EarlierTargetsWhole
      /\ NothingLost /\ CompletedIsWhole /\ QuietWhenSettled /\ OneCallAtATime
  BY DEF Planned
<1>2. /\ results \in Seq(Rows) /\ target \in Targets /\ pendingSaves \in Nat
      /\ todo \subseteq Units(target) /\ inflight \subseteq Units(target)
  BY <1>1 DEF TypeOK
<1>3. target \in Nat /\ \A u \in Units(target) : u[1] = target
  BY <1>2, UnitParts, RequestAssumption DEF Targets
<1>4. CASE EnterSequential
  <2>1. /\ pc = "discovering" /\ mode = "sequential" /\ SeqContinue(Units(target), results)
        /\ UNCHANGED <<mode, stopRequested, arrived, results, pendingSaves>>
    BY <1>4 DEF EnterSequential
  <2>2. UnitsOf(results) \cap Units(target) = {}
    BY <1>1, <2>1, TargetUntouched
  <2>3. \A u \in Measured : u[1] = target => u \in Units(target) \cup UnitsOf(results)
    BY MeasuredUnits
  <2>4. /\ Distinct(results)
        /\ \A u \in UnitsOf(results) : u[1] <= target
        /\ \A u \in Measured : u[1] < target => u \in UnitsOf(results)
    BY <1>1, <2>1 DEF InOnePlace, InTurn, EarlierTargetsWhole, AtWork
  <2> QED
    BY <1>2, <2>1, <2>2, <2>3, <2>4, SequentialGoesOn
<1>5. ASSUME NEW u \in inflight, NEW o \in Answers(u), SeqReturn(u, o)
      PROVE  Planned'
  <2>1. pc = "sequential" /\ mode = "sequential" /\ UNCHANGED <<mode, stopRequested, arrived>>
    BY <1>1, <1>5 DEF SeqReturn, Stages
  <2>2. inflight = {u} /\ u \in Units(target) /\ u[1] = target /\ arrived = << >>
    BY <1>1, <1>2, <1>3, <2>1 DEF OneCallAtATime, Stages
  <2>3. /\ Distinct(results)
        /\ UnitsOf(results) \cap todo = {}
        /\ u \notin todo /\ u \notin UnitsOf(results)
        /\ \A v \in UnitsOf(results) : v[1] <= target
        /\ \A v \in Measured : v[1] < target => v \in UnitsOf(results)
        /\ \A v \in Measured : v[1] = target => v \in todo \cup {u} \cup UnitsOf(results)
    BY <1>1, <2>1, <2>2, NoRows DEF InOnePlace, InTurn, EarlierTargetsWhole, NothingLost, AtWork
  <2>4. CASE o = "raised"
    <3>1. /\ status' = "failed" /\ errors' = TRUE /\ pc' = "draining" /\ todo' = {} /\ inflight' = {}
          /\ UNCHANGED <<mode, target, stopRequested, arrived, results, pendingSaves>>
      BY <1>5, <2>1, <2>4 DEF SeqReturn, Raise
    <3>2. TypeOK' /\ Stages'
      BY <1>1, <2>2, <3>1 DEF TypeOK, Stages, AtWork, Terminal
    <3>3. InOnePlace' /\ AnswersAreTrue'
      BY <1>1, <2>2, <3>1, NoRows DEF InOnePlace, AnswersAreTrue
    <3>4. InTurn' /\ EarlierTargetsWhole' /\ NothingLost'
      BY <1>1, <3>1 DEF InTurn, EarlierTargetsWhole, NothingLost, AtWork
    <3>5. CompletedIsWhole' /\ QuietWhenSettled' /\ OneCallAtATime'
      BY <3>1 DEF CompletedIsWhole, QuietWhenSettled, OneCallAtATime
    <3> QED
      BY <3>2, <3>3, <3>4, <3>5 DEF Planned
  <2>5. CASE o = "discarded"
    <3>1. SeqContinue(todo, results) /\ UNCHANGED <<results, pendingSaves>>
      BY <1>5, <2>5 DEF SeqReturn
    <3>2. IsWarmup(u)
      BY <1>5, <2>5 DEF Answers, Outcomes
    <3>3. \A v \in Measured : v[1] = target => v \in todo \cup UnitsOf(results)
      BY <2>3, <3>2, MeasuredUnits
    <3> QED
      BY <1>2, <2>1, <2>3, <3>1, <3>3, SequentialGoesOn
  <2>6. CASE o \notin {"raised", "discarded"}
    <3> DEFINE rows == Append(results, Row(u, o))
    <3>1. SeqContinue(todo, rows) /\ results' = rows /\ pendingSaves' = pendingSaves + 1
      BY <1>5, <2>6 DEF SeqReturn, Append1
    <3>2. o \in Outcomes /\ ~IsWarmup(u)
      BY <1>5, <2>6 DEF Answers
    <3>3. u \in Measured
      BY <1>2, <2>2, <3>2, MeasuredUnits
    <3>4. Row(u, o) \in Rows /\ Row(u, o).unit = u
      BY <3>2, <3>3 DEF Row, Rows
    <3>5. rows \in Seq(Rows) /\ UnitsOf(rows) = UnitsOf(results) \cup {u} /\ Distinct(rows)
      BY <1>2, <2>3, <3>4, RowAdded
    <3> HIDE DEF rows
    <3>6. /\ UnitsOf(rows) \cap todo = {}
          /\ \A v \in UnitsOf(rows) : v[1] <= target
          /\ \A v \in Measured : v[1] < target => v \in UnitsOf(rows)
          /\ \A v \in Measured : v[1] = target => v \in todo \cup UnitsOf(rows)
      BY <1>3, <2>2, <2>3, <3>5
    <3>7. pendingSaves' \in Nat
      BY <1>2, <3>1
    <3> QED
      BY <1>2, <2>1, <3>1, <3>5, <3>6, <3>7, SequentialGoesOn
  <2> QED
    BY <2>4, <2>5, <2>6
<1> QED
  BY <1>4, <1>5

(* What the answer of a worker does to the list of answers. *)
LEMMA Delivered ==
  ASSUME TypeOK, AnswersAreTrue, Distinct(arrived), pc # "parallel" => arrived = << >>,
         NEW u \in Units(target), u \notin UnitsOf(arrived),
         NEW o \in {"stopped", "discarded", "raised"} \cup Outcomes,
         o \in Outcomes => ~IsWarmup(u),
         o = "discarded" => IsWarmup(u),
         o = "stopped" => stopRequested,
         Deliver(u, o), UNCHANGED stopRequested
  PROVE  /\ arrived' \in Seq(Reports)
         /\ Distinct(arrived')
         /\ AnswersAreTrue'
         /\ UnitsOf(arrived') \subseteq UnitsOf(arrived) \cup {u}
         /\ UnitsOf(arrived) \subseteq UnitsOf(arrived')
         /\ pc = "parallel" => u \in UnitsOf(arrived')
         /\ pc # "parallel" => arrived' = << >>
<1>1. arrived \in Seq(Reports)
  BY DEF TypeOK, Reports
<1>2. CASE pc = "parallel"
  <2> DEFINE a == Row(u, o)
  <2>1. a \in Reports /\ a.unit = u /\ a.outcome = o
    BY DEF Row, Reports
  <2>2. arrived' = Append(arrived, a)
    BY <1>2 DEF Deliver
  <2> HIDE DEF a
  <2>3. /\ arrived' \in Seq(Reports)
        /\ Range(arrived') = Range(arrived) \cup {a}
        /\ UnitsOf(arrived') = UnitsOf(arrived) \cup {u}
        /\ Distinct(arrived')
    BY <1>1, <2>1, <2>2, RowAdded
  <2>4. AnswersAreTrue'
    BY <2>1, <2>3 DEF AnswersAreTrue
  <2> QED
    BY <1>2, <2>3, <2>4
<1>3. CASE pc # "parallel"
  <2>1. arrived' = arrived
    BY <1>3 DEF Deliver
  <2> QED
    BY <1>1, <1>3, <2>1 DEF AnswersAreTrue
<1> QED
  BY <1>2, <1>3

LEMMA PlannedWorkers ==
  ASSUME Planned,
         \/ \E u \in todo : WorkerEnters(u)
         \/ \E u \in inflight : \E o \in Answers(u) : WorkerReturns(u, o)
  PROVE  Planned'
<1>1. /\ TypeOK /\ Stages /\ InOnePlace /\ AnswersAreTrue /\ InTurn /\ EarlierTargetsWhole
      /\ NothingLost /\ CompletedIsWhole /\ QuietWhenSettled /\ OneCallAtATime
  BY DEF Planned
<1>2. /\ todo \subseteq Units(target) /\ inflight \subseteq Units(target) /\ arrived \in Seq(Reports)
  BY <1>1 DEF TypeOK, Reports
<1>3. ASSUME NEW u \in todo, WorkerEnters(u), ~stopRequested
      PROVE  Planned'
  <2>1. /\ mode = "parallel" /\ todo' = todo \ {u} /\ inflight' = inflight \cup {u}
        /\ UNCHANGED <<mode, status, stopRequested, pc, target, arrived, results, errors,
                       pendingSaves>>
    BY <1>3 DEF WorkerEnters
  <2>2. pc \notin {"new", "detecting", "discovering", "sequential"} /\ status \notin {"completed", "stopped"}
    BY <1>1, <1>3, <2>1 DEF Stages, QuietWhenSettled
  <2>3. TypeOK' /\ Stages'
    BY <1>1, <1>2, <2>1, <2>2 DEF TypeOK, Stages, AtWork
  <2>4. InOnePlace' /\ AnswersAreTrue'
    BY <1>1, <2>1 DEF InOnePlace, AnswersAreTrue
  <2>5. InTurn' /\ EarlierTargetsWhole' /\ NothingLost'
    BY <1>1, <2>1 DEF InTurn, EarlierTargetsWhole, NothingLost
  <2>6. CompletedIsWhole' /\ QuietWhenSettled' /\ OneCallAtATime'
    BY <2>1, <2>2 DEF CompletedIsWhole, QuietWhenSettled, OneCallAtATime
  <2> QED
    BY <2>3, <2>4, <2>5, <2>6 DEF Planned
<1>4. ASSUME NEW u \in todo \cup inflight,
             NEW o \in {"stopped", "discarded", "raised"} \cup Outcomes,
             o \in Outcomes => ~IsWarmup(u), o = "discarded" => IsWarmup(u),
             o = "stopped" => stopRequested,
             mode = "parallel", todo' = todo \ {u}, inflight' = inflight \ {u}, Deliver(u, o),
             UNCHANGED <<mode, status, stopRequested, pc, target, results, errors, pendingSaves>>
      PROVE  Planned'
  <2>1. /\ u \in Units(target) /\ u \notin UnitsOf(arrived) /\ u \notin UnitsOf(results)
        /\ Distinct(arrived) /\ (pc # "parallel" => arrived = << >>)
    BY <1>1, <1>2 DEF InOnePlace, Stages
  <2>2. /\ arrived' \in Seq(Reports)
        /\ Distinct(arrived')
        /\ AnswersAreTrue'
        /\ UnitsOf(arrived') \subseteq UnitsOf(arrived) \cup {u}
        /\ UnitsOf(arrived) \subseteq UnitsOf(arrived')
        /\ pc = "parallel" => u \in UnitsOf(arrived')
        /\ pc # "parallel" => arrived' = << >>
    BY <1>1, <1>4, <2>1, Delivered
  <2>3. pc \notin {"new", "detecting", "discovering", "sequential"} /\ status \notin {"completed", "stopped"}
    BY <1>1, <1>4 DEF Stages, QuietWhenSettled
  <2>4. TypeOK'
    BY <1>1, <1>2, <1>4, <2>2 DEF TypeOK, Reports
  <2>5. Stages'
    BY <1>1, <1>4, <2>2, <2>3 DEF Stages, AtWork
  <2>6. InOnePlace'
    BY <1>1, <1>4, <2>1, <2>2 DEF InOnePlace
  <2>7. InTurn' /\ EarlierTargetsWhole'
    BY <1>1, <1>4 DEF InTurn, EarlierTargetsWhole
  <2>8. NothingLost'
    BY <1>1, <1>4, <2>2, <2>3 DEF NothingLost
  <2>9. CompletedIsWhole' /\ QuietWhenSettled' /\ OneCallAtATime'
    BY <1>4, <2>3 DEF CompletedIsWhole, QuietWhenSettled, OneCallAtATime
  <2> QED
    BY <2>2, <2>4, <2>5, <2>6, <2>7, <2>8, <2>9 DEF Planned
<1>5. ASSUME NEW u \in todo, WorkerEnters(u), stopRequested
      PROVE  Planned'
  <2>1. /\ mode = "parallel" /\ todo' = todo \ {u} /\ inflight' = inflight /\ Deliver(u, "stopped")
        /\ UNCHANGED <<mode, status, stopRequested, pc, target, results, errors, pendingSaves>>
    BY <1>5 DEF WorkerEnters
  <2>2. inflight' = inflight \ {u}
    BY <1>1, <2>1 DEF InOnePlace
  <2>3. "stopped" \notin Outcomes
    BY DEF Outcomes
  <2> QED
    BY <1>4, <1>5, <2>1, <2>2, <2>3
<1>6. ASSUME NEW u \in inflight, NEW o \in Answers(u), WorkerReturns(u, o)
      PROVE  Planned'
  <2>1. /\ mode = "parallel" /\ todo' = todo /\ inflight' = inflight \ {u} /\ Deliver(u, o)
        /\ UNCHANGED <<mode, status, stopRequested, pc, target, results, errors, pendingSaves>>
    BY <1>6 DEF WorkerReturns
  <2>2. todo' = todo \ {u}
    BY <1>1, <2>1 DEF InOnePlace
  <2>3. /\ o \in {"stopped", "discarded", "raised"} \cup Outcomes
        /\ o \in Outcomes => ~IsWarmup(u)
        /\ o = "discarded" => IsWarmup(u)
        /\ o = "stopped" => stopRequested
    BY <1>6 DEF Answers, Outcomes
  <2> QED
    BY <1>4, <2>1, <2>2, <2>3
<1> QED
  BY <1>3, <1>5, <1>6

LEMMA PlannedTakes ==
  ASSUME Planned, TakeDropped \/ TakeRaised \/ TakeRow
  PROVE  Planned'
<1>1. /\ TypeOK /\ Stages /\ InOnePlace /\ AnswersAreTrue /\ InTurn /\ EarlierTargetsWhole
      /\ NothingLost /\ CompletedIsWhole /\ QuietWhenSettled /\ OneCallAtATime
  BY DEF Planned
<1> DEFINE a == Head(arrived)
<1>2. /\ pc = "parallel" /\ arrived # << >> /\ UNCHANGED <<mode, stopRequested>>
      /\ arrived \in Seq(Reports) /\ results \in Seq(Rows) /\ target \in Targets /\ pendingSaves \in Nat
  BY <1>1 DEF TypeOK, Reports, TakeDropped, TakeRaised, TakeRow
<1>3. /\ a \in Reports
      /\ a \in Range(arrived)
      /\ UnitsOf(arrived) = UnitsOf(Tail(arrived)) \cup {a.unit}
      /\ a.unit \notin UnitsOf(Tail(arrived))
  BY <1>1, <1>2, RowTaken DEF InOnePlace
<1> HIDE DEF a
<1>4. /\ a.unit \in Units(target)
      /\ a.outcome \in Outcomes => ~IsWarmup(a.unit)
      /\ a.outcome = "discarded" => IsWarmup(a.unit)
      /\ a.outcome = "stopped" => stopRequested
  BY <1>1, <1>3 DEF AnswersAreTrue, Reports
<1>5. /\ Distinct(results)
      /\ UnitsOf(results) \cap (todo \cup inflight) = {}
      /\ UnitsOf(results) \cap UnitsOf(Tail(arrived)) = {}
      /\ a.unit \notin UnitsOf(results)
      /\ a.unit \notin todo \cup inflight
      /\ \A u \in UnitsOf(results) : u[1] <= target
      /\ \A u \in Measured : u[1] < target => u \in UnitsOf(results)
      /\ ~stopRequested => \A u \in Measured :
           u[1] = target =>
             u \in todo \cup inflight \cup UnitsOf(Tail(arrived)) \cup {a.unit} \cup UnitsOf(results)
  BY <1>1, <1>2, <1>3 DEF InOnePlace, InTurn, EarlierTargetsWhole, NothingLost, AtWork
<1>6. CASE TakeDropped
  <2>1. /\ a.outcome \in {"stopped", "discarded"} /\ ParContinue(results)
        /\ UNCHANGED <<results, pendingSaves>>
    BY <1>6 DEF TakeDropped, a
  <2>2. ~stopRequested => \A u \in Measured :
          u[1] = target => u \in todo \cup inflight \cup UnitsOf(Tail(arrived)) \cup UnitsOf(results)
    BY <1>4, <1>5, <2>1, MeasuredUnits
  <2> QED
    BY <1>2, <1>5, <2>1, <2>2, ParallelGoesOn
<1>7. CASE TakeRaised
  <2>1. /\ status' = "failed" /\ errors' = TRUE /\ pc' = "draining" /\ arrived' = << >>
        /\ UNCHANGED <<mode, target, stopRequested, todo, inflight, results, pendingSaves>>
    BY <1>7 DEF TakeRaised, Raise
  <2>2. TypeOK' /\ Stages'
    BY <1>1, <2>1, NoRows DEF TypeOK, Stages, AtWork, Terminal
  <2>3. InOnePlace' /\ AnswersAreTrue'
    BY <1>1, <2>1, NoRows DEF InOnePlace, AnswersAreTrue
  <2>4. InTurn' /\ EarlierTargetsWhole' /\ NothingLost'
    BY <1>1, <2>1 DEF InTurn, EarlierTargetsWhole, NothingLost, AtWork
  <2>5. CompletedIsWhole' /\ QuietWhenSettled' /\ OneCallAtATime'
    BY <2>1 DEF CompletedIsWhole, QuietWhenSettled, OneCallAtATime
  <2> QED
    BY <2>2, <2>3, <2>4, <2>5 DEF Planned
<1>8. CASE TakeRow
  <2> DEFINE rows == Append(results, a)
  <2>1. a.outcome \in Outcomes /\ results' = rows /\ pendingSaves' = pendingSaves + 1
    BY <1>8 DEF TakeRow, Append1, a
  <2>2. \/ /\ stopRequested /\ todo' = {} /\ inflight' = {} /\ arrived' = << >> /\ LeaveTarget(rows)
        \/ ~stopRequested /\ ParContinue(rows)
    BY <1>8 DEF TakeRow, a
  <2>3. a.unit \in Measured
    BY <1>2, <1>4, <2>1, MeasuredUnits
  <2>4. a \in Rows
    BY <1>3, <2>1, <2>3 DEF Rows, Reports
  <2>5. rows \in Seq(Rows) /\ UnitsOf(rows) = UnitsOf(results) \cup {a.unit} /\ Distinct(rows)
    BY <1>2, <1>5, <2>4, RowAdded
  <2> HIDE DEF rows
  <2>6. a.unit[1] = target /\ target \in Nat
    BY <1>2, <1>4, UnitParts, RequestAssumption DEF Targets
  <2>7. /\ UnitsOf(rows) \cap (todo \cup inflight) = {}
        /\ UnitsOf(rows) \cap UnitsOf(Tail(arrived)) = {}
        /\ \A u \in UnitsOf(rows) : u[1] <= target
        /\ \A u \in Measured : u[1] < target => u \in UnitsOf(rows)
        /\ ~stopRequested => \A u \in Measured :
             u[1] = target => u \in todo \cup inflight \cup UnitsOf(Tail(arrived)) \cup UnitsOf(rows)
    BY <1>3, <1>5, <2>5, <2>6
  <2>8. pendingSaves' \in Nat
    BY <1>2, <2>1
  <2>9. CASE stopRequested
    <3>1. /\ todo' = {} /\ inflight' = {} /\ arrived' = << >> /\ LeaveTarget(rows)
      BY <2>2, <2>9
    <3> QED
      BY <1>2, <2>1, <2>5, <2>7, <2>8, <2>9, <3>1, LeavingTarget DEF AtWork
  <2>10. CASE ~stopRequested
    <3>1. ParContinue(rows)
      BY <2>2, <2>10
    <3> QED
      BY <1>2, <2>1, <2>5, <2>7, <2>8, <3>1, ParallelGoesOn
  <2> QED
    BY <2>9, <2>10
<1> QED
  BY <1>6, <1>7, <1>8

LEMMA PlannedKept == Planned /\ [Next]_vars => Planned'
<1> SUFFICES ASSUME Planned, [Next]_vars
             PROVE  Planned'
  OBVIOUS
<1>1. CASE UNCHANGED vars
  BY <1>1 DEF vars, Planned, TypeOK, Stages, InOnePlace, AnswersAreTrue, InTurn, EarlierTargetsWhole,
              NothingLost, CompletedIsWhole, QuietWhenSettled, OneCallAtATime
<1>2. CASE Next
  BY <1>2, PlannedRunner, PlannedSequential, PlannedWorkers, PlannedTakes DEF Next, JobStep
<1> QED
  BY <1>1, <1>2

(* How the record grows: not at all, or by a row of the current target. *)
RowComes ==
  \E r \in Rows : r.unit \in Units(target) /\ results' = Append(results, r)

LEMMA RecordGrows ==
  ASSUME Planned, [Next]_vars
  PROVE  results' = results \/ (pc \in AtWork /\ RowComes)
<1>1. CASE UNCHANGED results
  BY <1>1
<1>2. ASSUME NEW u \in inflight, NEW o \in Answers(u), SeqReturn(u, o), results' # results
      PROVE  pc \in AtWork /\ RowComes
  <2>1. results' = Append(results, Row(u, o)) /\ o \notin {"raised", "discarded"} /\ pc = "sequential"
    BY <1>2 DEF SeqReturn, Append1
  <2>2. o \in Outcomes /\ ~IsWarmup(u)
    BY <2>1 DEF Answers
  <2>3. target \in Targets /\ u \in Units(target)
    BY DEF Planned, TypeOK
  <2>4. Row(u, o) \in Rows /\ Row(u, o).unit = u
    BY <2>2, <2>3, MeasuredUnits DEF Row, Rows
  <2> QED
    BY <2>1, <2>3, <2>4 DEF RowComes, AtWork
<1>3. CASE TakeRow
  <2> DEFINE a == Head(arrived)
  <2>1. a.outcome \in Outcomes /\ results' = Append(results, a) /\ arrived # << >> /\ pc = "parallel"
    BY <1>3 DEF TakeRow, Append1
  <2>2. target \in Targets /\ arrived \in Seq(Reports) /\ AnswersAreTrue
    BY DEF Planned, TypeOK, Reports
  <2>3. a \in Reports /\ a \in Range(arrived)
    BY <2>1, <2>2, RowTaken
  <2> HIDE DEF a
  <2>4. a.unit \in Units(target) /\ ~IsWarmup(a.unit)
    BY <2>1, <2>2, <2>3 DEF Reports, AnswersAreTrue
  <2>5. a \in Rows
    BY <2>1, <2>2, <2>3, <2>4, MeasuredUnits DEF Reports, Rows
  <2> QED
    BY <2>1, <2>4, <2>5 DEF RowComes, AtWork
<1>4. CASE UNCHANGED vars
  BY <1>1, <1>4 DEF vars
<1>5. CASE Next /\ ~TakeRow /\ ~\E u \in inflight : \E o \in Answers(u) : SeqReturn(u, o)
  <2>1. UNCHANGED results
    BY <1>5 DEF Next, JobStep, Start, ProviderDetected, TargetUnusable, EnterSequential, EnterParallel,
                WorkerEnters, WorkerReturns, TakeDropped, TakeRaised, SaveEnds, Drained, FinalSave,
                RequestStop
  <2> QED
    BY <1>1, <2>1
<1> QED
  BY <1>1, <1>2, <1>3, <1>4, <1>5

-----------------------------------------------------------------------------
(***************************************************************************)
(* The order of the sequential mode.                                       *)
(***************************************************************************)
LEMMA PrefixKept == Planned /\ SequentialPrefix /\ [Next]_vars => SequentialPrefix'
<1> SUFFICES ASSUME Planned, SequentialPrefix, [Next]_vars, mode' = "sequential"
             PROVE  SequentialPrefix'
  BY DEF SequentialPrefix
<1>1. mode = "sequential"
  BY DEF Next, JobStep, Start, ProviderDetected, TargetUnusable, EnterSequential, SeqReturn, EnterParallel,
         WorkerEnters, WorkerReturns, TakeDropped, TakeRaised, TakeRow, SaveEnds, Drained, FinalSave,
         RequestStop, vars
<1>2. CASE results' = results
  BY <1>1, <1>2 DEF SequentialPrefix
<1>3. ASSUME NEW u \in inflight, NEW o \in Answers(u), SeqReturn(u, o), results' # results
      PROVE  SequentialPrefix'
  <2>1. results' = Append(results, Row(u, o)) /\ pc = "sequential" /\ results \in Seq(Rows)
    BY <1>3 DEF SeqReturn, Append1, Planned, TypeOK
  <2>2. /\ target \in Targets /\ u \in Units(target) /\ inflight = {u} /\ arrived = << >>
        /\ \A v \in todo : ModelMajor(u, v)
    BY <2>1 DEF Planned, TypeOK, OneCallAtATime, Stages
  <2>3. u[1] = target /\ u[2] \in Int /\ u[3] \in Int
    BY <2>2, UnitParts
  <2>4. ASSUME NEW v \in Measured, v[1] < u[1] \/ (v[1] = u[1] /\ ModelMajor(v, u))
        PROVE  v \in UnitsOf(results)
    <3>1. CASE v[1] < u[1]
      BY <2>1, <2>3, <3>1 DEF Planned, EarlierTargetsWhole, AtWork
    <3>2. CASE v[1] = u[1] /\ ModelMajor(v, u)
      <4>1. v \in todo \cup {u} \cup UnitsOf(results)
        BY <2>1, <2>2, <2>3, <3>2, NoRows DEF Planned, NothingLost
      <4>2. v[2] \in Int /\ v[3] \in Int
        BY MeasuredUnits, UnitParts
      <4>3. v # u /\ v \notin todo
        BY <2>2, <2>3, <3>2, <4>2 DEF ModelMajor
      <4> QED
        BY <4>1, <4>3
    <3> QED
      BY <2>4, <3>1, <3>2
  <2>5. /\ Len(results) \in Nat
        /\ DOMAIN results = 1..Len(results)
        /\ DOMAIN results' = 1..(Len(results) + 1)
        /\ \A i \in 1..Len(results) : results'[i] = results[i]
        /\ results'[Len(results) + 1].unit = u
    BY <2>1 DEF Row
  <2>6. ASSUME NEW i \in DOMAIN results', NEW v \in Measured,
               \/ v[1] < results'[i].unit[1]
               \/ v[1] = results'[i].unit[1] /\ ModelMajor(v, results'[i].unit)
        PROVE  \E j \in 1..(i - 1) : results'[j].unit = v
    <3>1. CASE i \in 1..Len(results)
      <4>1. \E j \in 1..(i - 1) : results[j].unit = v
        BY <1>1, <2>5, <2>6, <3>1 DEF SequentialPrefix
      <4> QED
        BY <2>5, <3>1, <4>1
    <3>2. CASE i = Len(results) + 1
      <4>1. v \in UnitsOf(results)
        BY <2>4, <2>5, <2>6, <3>2
      <4> QED
        BY <2>5, <3>2, <4>1 DEF UnitsOf
    <3> QED
      BY <2>5, <3>1, <3>2
  <2> QED
    BY <2>6 DEF SequentialPrefix
<1>4. CASE TakeRow
  BY <1>1, <1>4 DEF TakeRow, Planned, Stages
<1>5. CASE UNCHANGED vars
  BY <1>2, <1>5 DEF vars
<1>6. CASE Next /\ ~TakeRow /\ ~\E u \in inflight : \E o \in Answers(u) : SeqReturn(u, o)
  <2>1. UNCHANGED results
    BY <1>6 DEF Next, JobStep, Start, ProviderDetected, TargetUnusable, EnterSequential, EnterParallel,
                WorkerEnters, WorkerReturns, TakeDropped, TakeRaised, SaveEnds, Drained, FinalSave,
                RequestStop
  <2> QED
    BY <1>2, <2>1
<1> QED
  BY <1>2, <1>3, <1>4, <1>5, <1>6

(***************************************************************************)
(* Everything above holds in every state a job can reach.                  *)
(***************************************************************************)
LEMMA AlwaysPlanned == Spec => [](Planned /\ SequentialPrefix)
<1>1. Init => Planned /\ SequentialPrefix
  BY PlannedInit DEF Init, SequentialPrefix
<1>2. Planned /\ SequentialPrefix /\ [Next]_vars => Planned' /\ SequentialPrefix'
  BY PlannedKept, PrefixKept
<1> QED
  BY <1>1, <1>2, PTL DEF Spec

(***************************************************************************)
(* The variables of a job always have their types: run_job never leaves    *)
(* the targets of the request, and the lists hold what belongs there.      *)
(***************************************************************************)
THEOREM TypeCorrect == Spec => []TypeOK
<1>1. Planned => TypeOK
  BY DEF Planned
<1> QED
  BY <1>1, AlwaysPlanned, PTL

(***************************************************************************)
(* For every request the rows are those of the plan: no measured run gets  *)
(* two rows from run_parallel or run_sequential, and in sequential mode a  *)
(* row is preceded by the rows of every run planned before it.             *)
(***************************************************************************)
THEOREM RowsFollowThePlan == Spec => []RowsAreThePlans
<1>1. Planned /\ SequentialPrefix => RowsAreThePlans
  BY DEF Planned, InOnePlace, Distinct, RowsAreThePlans, OneRowPerRun
<1> QED
  BY <1>1, AlwaysPlanned, PTL

(***************************************************************************)
(* A job that says "completed" or "stopped" has no call at an endpoint and *)
(* no worker waiting at the semaphore of run_parallel.                     *)
(***************************************************************************)
THEOREM SettledIsQuiet == Spec => []QuietWhenSettled
<1>1. Planned => QuietWhenSettled
  BY DEF Planned
<1> QED
  BY <1>1, AlwaysPlanned, PTL

(***************************************************************************)
(* A job run_job calls "completed" has a row for every measured run of the *)
(* request.                                                                *)
(***************************************************************************)
THEOREM CompletedJobsAreWhole == Spec => []CompletedIsWhole
<1>1. Planned => CompletedIsWhole
  BY DEF Planned
<1> QED
  BY <1>1, AlwaysPlanned, PTL

-----------------------------------------------------------------------------
(***************************************************************************)
(* What clients see of a step.                                             *)
(***************************************************************************)
(* How a target is left. *)
LEMMA StatusWhenLeft ==
  ASSUME NEW rows, LeaveTarget(rows)
  PROVE  /\ stopRequested => status' \in {Verdict, "failed"}
         /\ status' \in {status, Verdict, "failed"}
BY DEF LeaveTarget, Settle, Raise

(* Nothing but the job itself, while it works, moves it on. *)
StatusMoves ==
  \/ UNCHANGED <<status, stopRequested>>
  \/ status = "queued" /\ status' = "running" /\ UNCHANGED <<stopRequested, results>>
  \/ RequestStop
  \/ /\ pc \in AtWork
     /\ status' \in {Verdict, "failed"}
     /\ UNCHANGED stopRequested

LEMMA StatusSteps ==
  ASSUME Planned, [Next]_vars
  PROVE  StatusMoves
<1>1. CASE UNCHANGED vars \/ ProviderDetected \/ SaveEnds \/ Drained \/ FinalSave \/ EnterParallel
  BY <1>1 DEF vars, ProviderDetected, SaveEnds, Drained, FinalSave, EnterParallel, StatusMoves
<1>2. CASE Start
  BY <1>2 DEF Start, Planned, Stages, StatusMoves
<1>3. CASE TargetUnusable \/ TakeRaised
  BY <1>3 DEF TargetUnusable, TakeRaised, Raise, AtWork, StatusMoves
<1>4. CASE EnterSequential
  <2>1. SeqContinue(Units(target), results) /\ pc \in AtWork /\ UNCHANGED stopRequested
    BY <1>4 DEF EnterSequential, AtWork
  <2>2. status' \in {status, Verdict, "failed"}
    BY <2>1, StatusWhenLeft DEF SeqContinue
  <2> QED
    BY <2>1, <2>2 DEF StatusMoves
<1>5. ASSUME NEW u \in inflight, NEW o \in Answers(u), SeqReturn(u, o)
      PROVE  StatusMoves
  <2>1. pc \in AtWork /\ UNCHANGED stopRequested
    BY <1>5 DEF SeqReturn, AtWork
  <2>2. status' = "failed" \/ \E rows : SeqContinue(todo, rows)
    BY <1>5 DEF SeqReturn, Raise
  <2>3. status' \in {status, Verdict, "failed"}
    BY <2>2, StatusWhenLeft DEF SeqContinue
  <2> QED
    BY <2>1, <2>3 DEF StatusMoves
<1>6. ASSUME NEW u, WorkerEnters(u) \/ \E o \in Answers(u) : WorkerReturns(u, o)
      PROVE  StatusMoves
  BY <1>6 DEF WorkerEnters, WorkerReturns, StatusMoves
<1>7. CASE TakeDropped \/ TakeRow
  <2>1. pc \in AtWork /\ UNCHANGED stopRequested
    BY <1>7 DEF TakeDropped, TakeRow, AtWork
  <2>2. \E rows : ParContinue(rows) \/ LeaveTarget(rows)
    BY <1>7 DEF TakeDropped, TakeRow
  <2>3. status' \in {status, Verdict, "failed"}
    BY <2>2, StatusWhenLeft DEF ParContinue
  <2> QED
    BY <2>1, <2>3 DEF StatusMoves
<1>8. CASE RequestStop
  BY <1>8 DEF StatusMoves
<1> QED
  BY <1>1, <1>2, <1>3, <1>4, <1>5, <1>6, <1>7, <1>8 DEF Next, JobStep

(* The record of the units, as clients see it, grows by units of the
   request that were not in it. *)
LEMMA RecordExtends ==
  ASSUME Planned, Planned', [Next]_vars
  PROVE  Lifecycle!Extends([i \in DOMAIN results |-> results[i].unit],
                           [i \in DOMAIN results' |-> results'[i].unit])
<1> DEFINE old == [i \in DOMAIN results |-> results[i].unit]
           new == [i \in DOMAIN results' |-> results'[i].unit]
<1>1. results \in Seq(Rows) /\ results' \in Seq(Rows) /\ Distinct(results')
  BY DEF Planned, TypeOK, InOnePlace
<1>2. /\ Len(results) \in Nat /\ Len(results) <= Len(results')
      /\ DOMAIN results = 1..Len(results) /\ DOMAIN results' = 1..Len(results')
      /\ \A i \in DOMAIN results : i \in DOMAIN results' /\ results'[i] = results[i]
  <2>1. CASE results' = results
    BY <1>1, <2>1
  <2>2. ASSUME NEW r \in Rows, results' = Append(results, r)
        PROVE  /\ Len(results') = Len(results) + 1
               /\ \A i \in 1..Len(results) : results'[i] = results[i]
    BY <1>1, <2>2
  <2> QED
    BY <1>1, <2>1, <2>2, RecordGrows DEF RowComes
<1>3. Len(old) = Len(results) /\ Len(new) = Len(results')
  BY <1>1, <1>2
<1>4. Len(old) <= Len(new) /\ \A i \in DOMAIN old : new[i] = old[i]
  BY <1>2, <1>3
<1>5. \A i, j \in DOMAIN new : new[i] = new[j] => i = j
  BY <1>1 DEF Distinct
<1>6. \A i \in DOMAIN new : new[i] \in Measured
  BY <1>1, RowUnits DEF UnitsOf
<1> QED
  BY <1>4, <1>5, <1>6 DEF Lifecycle!Extends, Lifecycle!IsInjective, Lifecycle!Range, IsInjective, Range

LEMMA LifecycleStep ==
  ASSUME Planned, Planned', [Next]_vars
  PROVE  [Lifecycle!Next]_(Lifecycle!vars)
<1> DEFINE old == [i \in DOMAIN results |-> results[i].unit]
           new == [i \in DOMAIN results' |-> results'[i].unit]
<1>1. Lifecycle!Extends(old, new)
  BY RecordExtends
<1>2. Stages /\ Stages'
  BY DEF Planned
<1>3. pc \in AtWork => status = IF stopRequested THEN "stopping" ELSE "running"
  BY <1>2 DEF Stages
<1>4. CASE UNCHANGED <<status, stopRequested>>
  <2>1. CASE results' = results
    <3>1. new = old
      BY <2>1
    <3> QED
      BY <1>4, <3>1 DEF Lifecycle!vars
  <2>2. CASE pc \in AtWork
    BY <1>1, <1>3, <1>4, <2>2 DEF Lifecycle!Next, Lifecycle!Record
  <2> QED
    BY <2>1, <2>2, RecordGrows
<1>5. CASE status = "queued" /\ status' = "running" /\ UNCHANGED <<stopRequested, results>>
  <2>1. new = old
    BY <1>5
  <2> QED
    BY <1>5, <2>1 DEF Lifecycle!Next, Lifecycle!Start
<1>6. CASE RequestStop
  <2>1. new = old
    BY <1>6 DEF RequestStop
  <2> QED
    BY <1>6, <2>1 DEF RequestStop, Lifecycle!Next, Lifecycle!RequestStop
<1>7. CASE pc \in AtWork /\ status' \in {Verdict, "failed"} /\ UNCHANGED stopRequested
  <2>1. \/ status = "running" /\ status' = "completed"
        \/ status = "stopping" /\ status' = "stopped"
        \/ status \in {"running", "stopping"} /\ status' = "failed"
    BY <1>3, <1>7 DEF Verdict
  <2>2. status' = "completed" => Lifecycle!Range(new) = Measured
    <3>1. SUFFICES ASSUME status' = "completed"
                   PROVE  Lifecycle!Range(new) = Measured
      OBVIOUS
    <3>2. Measured \subseteq UnitsOf(results') /\ UnitsOf(results') \subseteq Measured
      BY <3>1, RowUnits DEF Planned, CompletedIsWhole, TypeOK
    <3>3. Lifecycle!Range(new) = UnitsOf(results')
      BY DEF Lifecycle!Range, UnitsOf
    <3> QED
      BY <3>2, <3>3
  <2> QED
    BY <1>1, <1>7, <2>1, <2>2 DEF Lifecycle!Next, Lifecycle!Finish
<1> QED
  BY <1>4, <1>5, <1>6, <1>7, StatusSteps DEF StatusMoves

(***************************************************************************)
(* A speed job is a JobLifecycle for every request: clients see a row for  *)
(* a measured run at most once and only while the job is live, a stop      *)
(* turns a running job to "stopping", a stopping one ends as "stopped" or  *)
(* "failed", and "completed" only with every row there.                    *)
(***************************************************************************)
THEOREM ImplementsLifecycle == Spec => LifecycleSpec
<1>1. Init => Lifecycle!Init
  BY DEF Init, Lifecycle!Init
<1>2. Planned /\ Planned' /\ [Next]_vars => [Lifecycle!Next]_(Lifecycle!vars)
  BY LifecycleStep
<1>3. Spec => []Planned
  BY AlwaysPlanned, PTL
<1> QED
  BY <1>1, <1>2, <1>3, PTL DEF Spec, LifecycleSpec, Lifecycle!Spec

(***************************************************************************)
(* Once benchmark_stop has set the flag no further benchmark call is       *)
(* issued, and a row that still comes in settles the job.                  *)
(***************************************************************************)
THEOREM StopHonoured == Spec => StopIsHonoured
<1>1. ASSUME Next, stopRequested
      PROVE  inflight' \subseteq inflight
  <2>1. \A rest, rows : SeqContinue(rest, rows) => inflight' = {}
    BY <1>1 DEF SeqContinue
  <2>2. CASE EnterSequential \/ \E u \in inflight : \E o \in Answers(u) : SeqReturn(u, o)
    BY <2>1, <2>2 DEF EnterSequential, SeqReturn
  <2>3. CASE ~EnterSequential /\ ~\E u \in inflight : \E o \in Answers(u) : SeqReturn(u, o)
    BY <1>1, <2>3 DEF Next, JobStep, Start, ProviderDetected, TargetUnusable, EnterParallel,
         WorkerEnters, WorkerReturns, ParContinue, TakeDropped, TakeRaised, TakeRow, SaveEnds, Drained,
         FinalSave, RequestStop
  <2> QED
    BY <2>2, <2>3
<1>2. ASSUME Planned, Next, stopRequested, results' # results
      PROVE  status' \in Terminal
  <2>1. \A rows : LeaveTarget(rows) => status' \in Terminal
    BY <1>2 DEF LeaveTarget, Settle, Raise, Verdict, Terminal
  <2>2. CASE \E u \in inflight : \E o \in Answers(u) : SeqReturn(u, o)
    BY <1>2, <2>1, <2>2 DEF SeqReturn, SeqContinue
  <2>3. CASE TakeRow
    BY <1>2, <2>1, <2>3 DEF TakeRow
  <2>4. CASE ~TakeRow /\ ~\E u \in inflight : \E o \in Answers(u) : SeqReturn(u, o)
    BY <1>2, <2>4 DEF Next, JobStep, Start, ProviderDetected, TargetUnusable, EnterSequential,
         EnterParallel, WorkerEnters, WorkerReturns, TakeDropped, TakeRaised, SaveEnds, Drained,
         FinalSave, RequestStop
  <2> QED
    BY <2>2, <2>3, <2>4
<1>3. [Next]_vars => [stopRequested => inflight' \subseteq inflight]_vars
  BY <1>1
<1>4. Planned /\ [Next]_vars
        => [stopRequested /\ results' # results => status' \in Terminal]_vars
  BY <1>2
<1>5. Spec => []Planned
  BY AlwaysPlanned, PTL
<1> QED
  BY <1>3, <1>4, <1>5, PTL DEF Spec, StopIsHonoured, NoCallAfterStop, StopEndsRecording

(***************************************************************************)
(* What a client has seen of a job stays true: a row is never taken back   *)
(* or changed, a settled job keeps its status and its rows whatever is     *)
(* requested of it, and a job that has taken a stop never turns out        *)
(* completed.                                                              *)
(***************************************************************************)
SeenIsFinal ==
  /\ Len(results) <= Len(results')
  /\ \A i \in 1..Len(results) : results'[i] = results[i]
  /\ status \in Terminal => UNCHANGED <<status, results>>
  /\ stopRequested => stopRequested' /\ (status' = "completed" => status = "completed")

THEOREM SeenStaysTrue == Spec => [][SeenIsFinal]_vars
<1>1. ASSUME Planned, [Next]_vars
      PROVE  SeenIsFinal
  <2>1. StatusMoves /\ (results' = results \/ (pc \in AtWork /\ RowComes))
    BY <1>1, RecordGrows, StatusSteps
  <2>2. pc \in AtWork => status = IF stopRequested THEN "stopping" ELSE "running"
    BY <1>1 DEF Planned, Stages
  <2>3. results \in Seq(Rows)
    BY <1>1 DEF Planned, TypeOK
  <2>4. Len(results) <= Len(results') /\ \A i \in 1..Len(results) : results'[i] = results[i]
    <3>1. CASE results' = results
      BY <2>3, <3>1
    <3>2. ASSUME NEW r \in Rows, results' = Append(results, r)
          PROVE  /\ Len(results) <= Len(results')
                 /\ \A i \in 1..Len(results) : results'[i] = results[i]
      BY <2>3, <3>2
    <3> QED
      BY <2>1, <3>1, <3>2 DEF RowComes
  <2>5. status \in Terminal => UNCHANGED <<status, results>>
    BY <2>1, <2>2 DEF StatusMoves, RequestStop, Terminal
  <2>6. stopRequested => stopRequested' /\ (status' = "completed" => status = "completed")
    BY <2>1, <2>2 DEF StatusMoves, RequestStop, Verdict
  <2> QED
    BY <2>4, <2>5, <2>6 DEF SeenIsFinal
<1>2. Planned /\ [Next]_vars => [SeenIsFinal]_vars
  BY <1>1
<1> QED
  BY <1>2, AlwaysPlanned, PTL DEF Spec
=============================================================================

--------------------------- MODULE SqlJob_proofs ---------------------------
(***************************************************************************)
(* What a SQL job keeps, for every request: any list of models, with or    *)
(* without repetitions, any questions, one thinking variant or both.       *)
(***************************************************************************)
EXTENDS SqlJob, WellFoundedInduction, TLAPS

AtWork == {"detecting", "discovering", "asking"}

RowType == [unit : Units, outcome : CallFailures \cup {"scored", "aborted", "skipped"}]

(* The breaker of unit n's model is open because of one of the first m rows. *)
OpenBy(rows, m, n) ==
  \E i \in 1..m :
    /\ SameModel(i, n)
    /\ \/ rows[i].outcome = "unavailable"
       \/ /\ rows[i].outcome \in CallFailures
          /\ i > 1 /\ SameModel(i - 1, n)
          /\ rows[i - 1].outcome \in CallFailures

(***************************************************************************)
(* Where the job is and what clients are told of it.                       *)
(***************************************************************************)
Stages ==
  /\ pc = "new" => status = "queued" /\ ~stopRequested
  /\ pc \in {"new", "detecting", "discovering"} => results = << >>
  /\ pc \in AtWork => status = IF stopRequested THEN "stopping" ELSE "running"
  /\ pc \in {"draining", "saving", "done"} => status \in Terminal

(***************************************************************************)
(* consecutive_call_failures is what it is called: 1 exactly when the last *)
(* row is a failed call to the model asked now.                            *)
(***************************************************************************)
CounterIsTrue ==
  pc = "asking" =>
    callFailures = IF unit > 1 /\ SameModel(unit - 1, unit) /\ Failed(unit - 1) THEN 1 ELSE 0

CompletedIsWhole == status = "completed" => Len(results) = Total

Planned ==
  /\ TypeOK
  /\ Stages
  /\ RowsFollowPlan
  /\ SkippedIffUnavailable
  /\ AskedIsNext
  /\ CounterIsTrue
  /\ CompletedIsWhole

-----------------------------------------------------------------------------
(***************************************************************************)
(* Numbers.                                                                *)
(***************************************************************************)
(* A set of numbers has a least one. *)
LEMMA LeastNumber ==
  ASSUME NEW T \in SUBSET Nat, T # {}
  PROVE  \E x \in T : \A y \in T : x <= y
<1> DEFINE Less == {pair \in Nat \X Nat : pair[1] < pair[2]}
<1>1. IsWellFoundedOn(Less, Nat)
  BY NatLessThanWellFounded, Zenon DEF OpToRel
<1>2. PICK x \in T : \A y \in T : ~(<<y, x>> \in Less)
  <2> HIDE DEF Less
  <2> QED
    BY <1>1, WFMin
<1>3. \A y \in T : ~(y < x)
  BY <1>2
<1> QED
  BY <1>3

(* Products keep the order. *)
LEMMA ProductOrder ==
  ASSUME NEW a \in Int, NEW b \in Int, NEW p \in Nat, a <= b
  PROVE  a * p <= b * p
<1>1. (b - a) * p >= 0
  <2>1. b - a \in Nat
    OBVIOUS
  <2>2. \A x, y \in Nat : x * y \in Nat
    OBVIOUS
  <2>3. (b - a) * p \in Nat
    BY <2>1, <2>2
  <2> QED
    BY <2>3
<1>2. b * p = a * p + (b - a) * p
  OBVIOUS
<1> QED
  BY <1>1, <1>2

(* What division does. *)
LEMMA Division ==
  ASSUME NEW x \in Nat, NEW p \in Nat \ {0}
  PROVE  /\ x \div p \in Nat
         /\ (x \div p) * p <= x
         /\ x < (x \div p + 1) * p
<1>1. x \div p \in Nat
  OBVIOUS
<1>2. (x \div p) * p <= x
  OBVIOUS
<1>3. x < (x \div p + 1) * p
  OBVIOUS
<1> QED
  BY <1>1, <1>2, <1>3

-----------------------------------------------------------------------------
(***************************************************************************)
(* The plan.                                                               *)
(***************************************************************************)
LEMMA PlanSize ==
  /\ PerModel \in Nat /\ Total \in Nat
  /\ Total >= 1 => PerModel >= 1
<1>1. Variants \in Nat /\ Len(Questions) \in Nat /\ Len(Models) \in Nat
  BY RequestAssumption
<1>2. \A x, y \in Nat : x * y \in Nat
  OBVIOUS
<1>3. PerModel \in Nat /\ Total \in Nat
  BY <1>1, <1>2 DEF PerModel, Total
<1>4. PerModel = 0 => Total = 0
  BY <1>1, <1>3 DEF Total
<1> QED
  BY <1>3, <1>4

(* The units of one entry of the model list follow each other. *)
LEMMA Positions ==
  ASSUME NEW m \in Units, NEW n \in Units, m <= n
  PROVE  /\ Position(m) \in Nat /\ Position(m) <= Position(n)
         /\ n <= LastOfModel(m) <=> SameModel(m, n)
<1> DEFINE p == PerModel
           x == m - 1
           y == n - 1
           qx == x \div p
           qy == y \div p
<1>1. p \in Nat \ {0} /\ x \in Nat /\ y \in Nat /\ x <= y
  BY PlanSize DEF Units
<1> HIDE DEF p, x, y
<1>2. /\ qx \in Nat /\ qx * p <= x /\ x < (qx + 1) * p
      /\ qy \in Nat /\ qy * p <= y /\ y < (qy + 1) * p
  BY <1>1, Division
<1> HIDE DEF qx, qy
<1>3. qx <= qy
  <2>1. qx >= qy + 1 => (qy + 1) * p <= qx * p
    BY <1>1, <1>2, ProductOrder
  <2>2. (qy + 1) * p \in Int /\ qx * p \in Int
    BY <1>1, <1>2
  <2> QED
    BY <1>1, <1>2, <2>1, <2>2
<1>4. y < (qx + 1) * p <=> qx = qy
  <2>1. qy >= qx + 1 => (qx + 1) * p <= qy * p
    BY <1>1, <1>2, ProductOrder
  <2>2. (qx + 1) * p \in Int /\ qy * p \in Int
    BY <1>1, <1>2
  <2> QED
    BY <1>1, <1>2, <1>3, <2>1, <2>2
<1>5. Position(m) = qx + 1 /\ Position(n) = qy + 1 /\ LastOfModel(m) = (qx + 1) * p
  BY DEF Position, LastOfModel, qx, qy, x, y, p
<1>6. n <= LastOfModel(m) <=> y < (qx + 1) * p
  <2>1. (qx + 1) * p \in Int /\ n \in Int /\ y = n - 1
    BY <1>1, <1>2 DEF Units, y
  <2> QED
    BY <1>5, <2>1
<1> QED
  BY <1>2, <1>3, <1>4, <1>5, <1>6 DEF SameModel

(* The next question is found: it is the first that has to be asked. *)
LEMMA NextFound ==
  ASSUME NEW n \in 1..(Total + 1), NEW models, NEW skipTo
  PROVE  LET k == NextAsked(n, models, skipTo) IN
         /\ k \in n..(Total + 1)
         /\ k \in Units => ~Skipped(k, models, skipTo) /\ Question(k) # "broken"
<1> DEFINE Settled(i) == Skipped(i, models, skipTo) \/ Question(i) = "broken"
           T == {k \in n..(Total + 1) : k \in Units => ~Settled(k)}
<1>1. Total \in Nat /\ n \in Nat
  BY PlanSize
<1>2. T \subseteq Nat /\ Total + 1 \in T
  BY <1>1 DEF Units
<1>3. PICK k \in T : \A j \in T : k <= j
  <2> HIDE DEF T
  <2> QED
    BY <1>2, LeastNumber
<1>4. \A i \in n..(k - 1) : Settled(i)
  <2> SUFFICES ASSUME NEW i \in n..(k - 1), ~Settled(i)
               PROVE  FALSE
    OBVIOUS
  <2>1. i \in n..(Total + 1) /\ i < k
    BY <1>1, <1>3
  <2>2. i \in T
    BY <2>1
  <2> QED
    BY <1>1, <1>3, <2>1, <2>2
<1>5. \E j \in n..(Total + 1) :
        /\ j \in Units => ~Skipped(j, models, skipTo) /\ Question(j) # "broken"
        /\ \A i \in n..(j - 1) : Skipped(i, models, skipTo) \/ Question(i) = "broken"
  BY <1>3, <1>4
<1> QED
  BY <1>5 DEF NextAsked

(* The rows made on the way to it. *)
Made(i, models, skipTo) ==
  Row(i, IF Skipped(i, models, skipTo) THEN "skipped" ELSE "scored")

LEMMA MadeRows ==
  ASSUME NEW i, NEW models, NEW skipTo
  PROVE  /\ Made(i, models, skipTo).unit = i
         /\ Made(i, models, skipTo).outcome \in {"skipped", "scored"}
         /\ Made(i, models, skipTo).outcome = "skipped" <=> Skipped(i, models, skipTo)
BY DEF Made, Row

WithChain(rows, n, k, models, skipTo) == rows \o ChainRows(n, k, models, skipTo)

LEMMA ChainAdded ==
  ASSUME NEW n \in 1..(Total + 1), NEW k \in n..(Total + 1), NEW models, NEW skipTo,
         NEW rows \in Seq(RowType), Len(rows) = n - 1
  PROVE  LET all == WithChain(rows, n, k, models, skipTo) IN
         /\ all \in Seq(RowType) /\ Len(all) = k - 1
         /\ \A i \in 1..(n - 1) : all[i] = rows[i]
         /\ \A i \in n..(k - 1) : all[i] = Made(i, models, skipTo)
<1> DEFINE chain == ChainRows(n, k, models, skipTo)
           made(i) == Made(i, models, skipTo)
<1>1. Total \in Nat /\ n \in Nat /\ k \in Nat /\ n <= k /\ k <= Total + 1 /\ 1 <= n
  BY PlanSize
<1>2. \A i \in n..(k - 1) : made(i) \in RowType
  BY <1>1 DEF Made, Row, RowType, Units
<1>3. chain = [i \in 1..(k - n) |-> made(n + i - 1)]
  BY DEF ChainRows, Made
<1> HIDE DEF chain, made
<1>4. \A i \in 1..(k - n) : n + i - 1 \in n..(k - 1)
  BY <1>1
<1>5. chain \in [1..(k - n) -> RowType]
  BY <1>2, <1>3, <1>4
<1>6. k - n \in Nat
  BY <1>1
<1>7. chain \in Seq(RowType) /\ Len(chain) = k - n
  BY <1>5, <1>6
<1> DEFINE all == rows \o chain
<1>8. all \in Seq(RowType) /\ Len(all) = k - 1 /\ \A i \in 1..(n - 1) : all[i] = rows[i]
  BY <1>1, <1>7
<1>9. ASSUME NEW i \in n..(k - 1)
      PROVE  all[i] = made(i)
  <2>1. i - (n - 1) \in 1..(k - n) /\ n + (i - (n - 1)) - 1 = i
    BY <1>1
  <2>2. all[i] = chain[i - (n - 1)]
    BY <1>1, <1>7, <2>1
  <2> QED
    BY <1>3, <2>1, <2>2
<1> QED
  BY <1>8, <1>9 DEF WithChain, all, chain, made

-----------------------------------------------------------------------------
(***************************************************************************)
(* The rows so far keep to the plan, and what they and `skipTo` say of the *)
(* breaker agrees, before the loops go on from unit n.                     *)
(***************************************************************************)
SoFar(n, rows, models, failures, skipTo) ==
  /\ rows \in Seq(RowType) /\ Len(rows) = n - 1 /\ Len(results) <= Len(rows)
  /\ \A i \in 1..(n - 1) : rows[i].unit = i
  /\ \A i \in 1..(n - 1) :
       rows[i].outcome = "skipped" <=> Model(i) \notin models \/ OpenBy(rows, i - 1, i)
  /\ \A j \in Units : j >= n => (j <= skipTo <=> OpenBy(rows, n - 1, j))
  /\ n \in Units /\ n > 1 /\ ~(n <= skipTo) /\ SameModel(n - 1, n)
       => failures = IF rows[n - 1].outcome \in CallFailures THEN 1 ELSE 0

(* Rows made on the way open no breaker. *)
LEMMA ChainIsQuiet ==
  ASSUME NEW n \in 1..(Total + 1), NEW k \in n..(Total + 1), NEW models, NEW skipTo,
         NEW rows, NEW all,
         \A i \in 1..(n - 1) : all[i] = rows[i],
         \A i \in n..(k - 1) : all[i] = Made(i, models, skipTo)
  PROVE  /\ \A i \in 1..(n - 1) : OpenBy(all, i - 1, i) <=> OpenBy(rows, i - 1, i)
         /\ \A j \in n..k : OpenBy(all, j - 1, j) <=> OpenBy(rows, n - 1, j)
<1>1. Total \in Nat /\ n \in Nat /\ k \in Nat /\ n <= k
  BY PlanSize
<1>2. \A i \in n..(k - 1) :
        all[i].outcome # "unavailable" /\ all[i].outcome \notin CallFailures
  <2>1. ASSUME NEW i \in n..(k - 1)
        PROVE  all[i].outcome \in {"skipped", "scored"}
    BY MadeRows
  <2> QED
    BY <2>1 DEF CallFailures
<1>3. ASSUME NEW i \in 1..(n - 1)
      PROVE  OpenBy(all, i - 1, i) <=> OpenBy(rows, i - 1, i)
  BY <1>1 DEF OpenBy
<1>4. ASSUME NEW j \in n..k
      PROVE  OpenBy(all, j - 1, j) <=> OpenBy(rows, n - 1, j)
  <2>1. ASSUME OpenBy(all, j - 1, j)
        PROVE  OpenBy(rows, n - 1, j)
    <3>1. PICK i \in 1..(j - 1) :
            /\ SameModel(i, j)
            /\ \/ all[i].outcome = "unavailable"
               \/ /\ all[i].outcome \in CallFailures
                  /\ i > 1 /\ SameModel(i - 1, j)
                  /\ all[i - 1].outcome \in CallFailures
      BY <2>1 DEF OpenBy
    <3>2. i \in 1..(n - 1)
      BY <1>1, <1>2, <3>1
    <3>3. all[i] = rows[i] /\ (i > 1 => all[i - 1] = rows[i - 1])
      BY <1>1, <3>2
    <3> QED
      BY <3>1, <3>2, <3>3 DEF OpenBy
  <2>2. ASSUME OpenBy(rows, n - 1, j)
        PROVE  OpenBy(all, j - 1, j)
    <3>1. PICK i \in 1..(n - 1) :
            /\ SameModel(i, j)
            /\ \/ rows[i].outcome = "unavailable"
               \/ /\ rows[i].outcome \in CallFailures
                  /\ i > 1 /\ SameModel(i - 1, j)
                  /\ rows[i - 1].outcome \in CallFailures
      BY <2>2 DEF OpenBy
    <3>2. i \in 1..(j - 1)
      BY <1>1
    <3>3. all[i] = rows[i] /\ (i > 1 => all[i - 1] = rows[i - 1])
      BY <1>1
    <3> QED
      BY <3>1, <3>2, <3>3 DEF OpenBy
  <2> QED
    BY <2>1, <2>2
<1> QED
  BY <1>3, <1>4

(* What the invariant says, in terms of OpenBy. *)
LEMMA Breakers ==
  \A n \in Nat : BreakerOpen(n) <=> OpenBy(results, n - 1, n)
BY DEF BreakerOpen, OpenBy, Failed

(* The loops up to the next question. *)
LEMMA Continuing ==
  ASSUME Planned, pc \in {"discovering", "asking"},
         NEW models \in SUBSET {Models[m] : m \in DOMAIN Models},
         NEW n \in 1..(Total + 1), NEW rows, NEW failures, NEW skipTo,
         SoFar(n, rows, models, failures, skipTo),
         Continue(n, rows, models, failures, skipTo),
         listed' = models, UNCHANGED <<sqlMode, stopRequested>>
  PROVE  Planned'
<1>1. /\ TypeOK /\ Stages /\ pc \in AtWork
      /\ status = IF stopRequested THEN "stopping" ELSE "running"
  BY DEF Planned, Stages, AtWork
<1>2. /\ rows \in Seq(RowType) /\ Len(rows) = n - 1 /\ Len(results) <= Len(rows)
      /\ \A i \in 1..(n - 1) : rows[i].unit = i
      /\ \A i \in 1..(n - 1) :
           rows[i].outcome = "skipped" <=> Model(i) \notin models \/ OpenBy(rows, i - 1, i)
      /\ \A j \in Units : j >= n => (j <= skipTo <=> OpenBy(rows, n - 1, j))
      /\ n \in Units /\ n > 1 /\ ~(n <= skipTo) /\ SameModel(n - 1, n)
           => failures = IF rows[n - 1].outcome \in CallFailures THEN 1 ELSE 0
  BY DEF SoFar
<1>3. Total \in Nat /\ n \in Nat /\ n >= 1
  BY PlanSize
<1>4. results \in Seq(RowType) /\ Len(results) \in Nat /\ pendingSaves \in Nat
  BY <1>1 DEF TypeOK, RowType
<1>5. CASE stopRequested
  <2>1. /\ status' = "stopped" /\ pc' = "draining" /\ results' = rows
        /\ pendingSaves' = pendingSaves + Len(rows) - Len(results)
        /\ UNCHANGED <<unit, callFailures, errors>>
    BY <1>1, <1>5 DEF Continue, Settle
  <2>2. DOMAIN rows = 1..(n - 1)
    BY <1>2
  <2>3. pendingSaves' \in Nat
    BY <1>2, <1>3, <1>4, <2>1
  <2>4. TypeOK'
    BY <1>1, <1>2, <2>1, <2>3 DEF TypeOK, RowType, Terminal
  <2>5. Stages' /\ CounterIsTrue' /\ CompletedIsWhole' /\ AskedIsNext'
    BY <2>1 DEF Stages, CounterIsTrue, CompletedIsWhole, AskedIsNext, AtWork, Terminal
  <2>6. RowsFollowPlan'
    BY <1>2, <2>1, <2>2 DEF RowsFollowPlan
  <2>7. SkippedIffUnavailable'
    BY <1>2, <2>1, <2>2 DEF SkippedIffUnavailable, BreakerOpen, OpenBy, Failed
  <2> QED
    BY <2>4, <2>5, <2>6, <2>7 DEF Planned
<1>6. CASE ~stopRequested
  <2> DEFINE k == NextAsked(n, models, skipTo)
             all == WithChain(rows, n, k, models, skipTo)
             fresh == k > n \/ n = 1 \/ ~SameModel(n - 1, n)
  <2>1. /\ results' = all
        /\ pendingSaves' = pendingSaves + Len(all) - Len(results)
        /\ IF k = Total + 1
           THEN Settle /\ UNCHANGED <<unit, callFailures>>
           ELSE IF Question(k) = "unknown"
           THEN Raise /\ UNCHANGED <<unit, callFailures>>
           ELSE /\ pc' = "asking"
                /\ unit' = k
                /\ callFailures' = IF fresh THEN 0 ELSE failures
                /\ UNCHANGED <<status, errors>>
    BY <1>6 DEF Continue, WithChain
  <2>2. /\ k \in n..(Total + 1)
        /\ k \in Units => ~Skipped(k, models, skipTo)
    BY NextFound
  <2> HIDE DEF k
  <2>3. /\ all \in Seq(RowType) /\ Len(all) = k - 1
        /\ \A i \in 1..(n - 1) : all[i] = rows[i]
        /\ \A i \in n..(k - 1) : all[i] = Made(i, models, skipTo)
    <3>1. rows \in Seq(RowType) /\ Len(rows) = n - 1 /\ k \in n..(Total + 1)
      BY <1>2, <2>2
    <3> QED
      BY <1>3, <3>1, ChainAdded
  <2> HIDE DEF all
  <2>4. /\ \A i \in 1..(n - 1) : OpenBy(all, i - 1, i) <=> OpenBy(rows, i - 1, i)
        /\ \A j \in n..k : OpenBy(all, j - 1, j) <=> OpenBy(rows, n - 1, j)
    BY <2>2, <2>3, ChainIsQuiet
  <2>5. k \in Nat /\ n <= k /\ k <= Total + 1 /\ DOMAIN all = 1..(k - 1) /\ pendingSaves' \in Nat
    BY <1>2, <1>3, <1>4, <2>1, <2>2, <2>3
  <2>6. RowsFollowPlan'
    <3>1. \A i \in n..(k - 1) : all[i].unit = i
      BY <2>3, MadeRows
    <3>2. \A i \in 1..(k - 1) : i \in 1..(n - 1) \/ i \in n..(k - 1)
      BY <1>3, <2>5
    <3> QED
      BY <1>2, <2>1, <2>3, <2>5, <3>1, <3>2 DEF RowsFollowPlan
  <2>7. \A i \in 1..(k - 1) :
          all[i].outcome = "skipped" <=> Model(i) \notin models \/ OpenBy(all, i - 1, i)
    <3>1. ASSUME NEW i \in 1..(n - 1)
          PROVE  all[i].outcome = "skipped" <=> Model(i) \notin models \/ OpenBy(all, i - 1, i)
      BY <1>2, <2>3, <2>4
    <3>2. ASSUME NEW i \in n..(k - 1)
          PROVE  all[i].outcome = "skipped" <=> Model(i) \notin models \/ OpenBy(all, i - 1, i)
      <4>1. i \in Units /\ i \in n..k /\ i >= n
        BY <1>3, <2>5 DEF Units
      <4>2. all[i].outcome = "skipped" <=> Skipped(i, models, skipTo)
        BY <2>3, MadeRows
      <4>3. i <= skipTo <=> OpenBy(all, i - 1, i)
        BY <1>2, <2>4, <4>1
      <4> QED
        BY <4>2, <4>3 DEF Skipped
    <3>3. \A i \in 1..(k - 1) : i \in 1..(n - 1) \/ i \in n..(k - 1)
      BY <1>3, <2>5
    <3> QED
      BY <3>1, <3>2, <3>3
  <2>8. SkippedIffUnavailable'
    BY <2>1, <2>5, <2>7 DEF SkippedIffUnavailable, BreakerOpen, OpenBy, Failed
  <2>9. CASE k = Total + 1
    <3>1. /\ status' = "completed" /\ pc' = "draining"
          /\ UNCHANGED <<unit, callFailures, errors>>
      BY <1>1, <1>6, <2>1, <2>9 DEF Settle
    <3>2. TypeOK'
      BY <1>1, <2>1, <2>3, <2>5, <3>1 DEF TypeOK, RowType, Terminal
    <3>3. Stages' /\ CounterIsTrue' /\ AskedIsNext'
      BY <3>1 DEF Stages, CounterIsTrue, AskedIsNext, AtWork, Terminal
    <3>4. CompletedIsWhole'
      BY <1>3, <2>1, <2>3, <2>9 DEF CompletedIsWhole
    <3> QED
      BY <2>6, <2>8, <3>2, <3>3, <3>4 DEF Planned
  <2>10. CASE k # Total + 1 /\ Question(k) = "unknown"
    <3>1. /\ status' = "failed" /\ pc' = "draining" /\ errors' = TRUE
          /\ UNCHANGED <<unit, callFailures>>
      BY <2>1, <2>10 DEF Raise
    <3>2. TypeOK'
      BY <1>1, <2>1, <2>3, <2>5, <3>1 DEF TypeOK, RowType, Terminal
    <3>3. Stages' /\ CounterIsTrue' /\ AskedIsNext' /\ CompletedIsWhole'
      BY <3>1 DEF Stages, CounterIsTrue, AskedIsNext, AtWork, Terminal, CompletedIsWhole
    <3> QED
      BY <2>6, <2>8, <3>2, <3>3 DEF Planned
  <2>11. CASE k # Total + 1 /\ Question(k) # "unknown"
    <3>1. /\ pc' = "asking" /\ unit' = k
          /\ callFailures' = IF fresh THEN 0 ELSE failures
          /\ UNCHANGED <<status, errors>>
      BY <2>1, <2>11
    <3>2. k \in Units /\ k >= 1 /\ k \in n..k /\ k >= n
      BY <1>3, <2>5, <2>11 DEF Units
    <3>3. Model(k) \in models /\ ~(k <= skipTo) /\ ~OpenBy(all, k - 1, k)
      BY <1>2, <2>2, <2>4, <3>2 DEF Skipped
    <3>4. callFailures' = IF k > 1 /\ SameModel(k - 1, k) /\ all[k - 1].outcome \in CallFailures
                          THEN 1 ELSE 0
      <4>1. CASE k > n
        <5>1. k - 1 \in n..(k - 1)
          BY <1>3, <2>5, <4>1
        <5>2. all[k - 1].outcome \in {"skipped", "scored"}
          BY <2>3, <5>1, MadeRows
        <5> QED
          BY <3>1, <4>1, <5>2 DEF CallFailures
      <4>2. CASE k = n /\ (n = 1 \/ ~SameModel(n - 1, n))
        <5>1. callFailures' = 0
          BY <3>1, <4>2
        <5>2. ~(k > 1 /\ SameModel(k - 1, k))
          BY <1>3, <4>2
        <5> QED
          BY <5>1, <5>2
      <4>3. CASE k = n /\ n # 1 /\ SameModel(n - 1, n)
        <5>1. n > 1 /\ n - 1 \in 1..(n - 1) /\ callFailures' = failures
          BY <1>3, <3>1, <4>3
        <5>2. failures = IF rows[n - 1].outcome \in CallFailures THEN 1 ELSE 0
          BY <1>2, <3>2, <3>3, <4>3, <5>1
        <5>3. all[k - 1] = rows[n - 1] /\ k > 1 /\ SameModel(k - 1, k)
          BY <2>3, <4>3, <5>1
        <5> QED
          BY <5>1, <5>2, <5>3
      <4> QED
        BY <1>3, <2>5, <4>1, <4>2, <4>3
    <3>5. callFailures' \in {0, 1} /\ k \in 0..Total
      BY <1>3, <3>2, <3>4 DEF Units
    <3>6. TypeOK'
      BY <1>1, <2>1, <2>3, <2>5, <3>1, <3>5 DEF TypeOK, RowType
    <3>7. Stages'
      BY <1>1, <3>1 DEF Stages, AtWork
    <3>8. CounterIsTrue'
      BY <2>1, <3>1, <3>4 DEF CounterIsTrue, Failed
    <3>9. AskedIsNext'
      BY <1>3, <2>1, <2>3, <2>5, <3>1, <3>3 DEF AskedIsNext, BreakerOpen, OpenBy, Failed
    <3>10. CompletedIsWhole'
      BY <1>1, <3>1 DEF CompletedIsWhole
    <3> QED
      BY <2>6, <2>8, <3>6, <3>7, <3>8, <3>9, <3>10 DEF Planned
  <2> QED
    BY <2>9, <2>10, <2>11
<1> QED
  BY <1>5, <1>6

-----------------------------------------------------------------------------
(***************************************************************************)
(* The steps of the job.                                                   *)
(***************************************************************************)
LEMMA PlannedInit == Init => Planned
<1> SUFFICES ASSUME Init
             PROVE  Planned
  OBVIOUS
<1>1. TypeOK
  <2>1. sqlMode \in {"tool-calling", "grammar"} /\ unit \in 0..Total
    BY RequestAssumption, PlanSize DEF Init
  <2>2. \A S : << >> \in Seq(S)
    OBVIOUS
  <2> QED
    BY <2>1, <2>2 DEF Init, TypeOK
<1> QED
  BY <1>1 DEF Init, Planned, Stages, RowsFollowPlan, SkippedIffUnavailable, AskedIsNext,
              CounterIsTrue, CompletedIsWhole, AtWork

LEMMA PlannedDiscovered ==
  ASSUME Planned, NEW S \in SUBSET {Models[m] : m \in DOMAIN Models}, ModelsDiscovered(S)
  PROVE  Planned'
<1>1. /\ pc = "discovering" /\ listed' = S /\ Continue(1, << >>, S, 0, 0)
      /\ UNCHANGED <<sqlMode, stopRequested>>
  BY DEF ModelsDiscovered
<1>2. results = << >>
  BY <1>1 DEF Planned, Stages
<1>3. Total \in Nat /\ 1 \in 1..(Total + 1)
  BY PlanSize
<1>4. SoFar(1, << >>, S, 0, 0)
  <2>1. \A j \in Units : ~(j <= 0) /\ ~OpenBy(<< >>, 1 - 1, j)
    BY <1>3 DEF Units, OpenBy
  <2> QED
    BY <1>2, <2>1 DEF SoFar
<1> QED
  BY <1>1, <1>3, <1>4, Continuing

LEMMA PlannedAnswered ==
  ASSUME Planned, NEW o \in Answers \ {"raised"}, Answered(o)
  PROVE  Planned'
<1> DEFINE failures == IF o \in CallFailures THEN callFailures + 1 ELSE 0
           open == o = "unavailable" \/ failures >= 2
           skipTo == IF open THEN LastOfModel(unit) ELSE 0
           rows == Append(results, Row(unit, o))
           n == unit + 1
<1>1. /\ pc = "asking" /\ Continue(n, rows, listed, failures, skipTo)
      /\ UNCHANGED <<sqlMode, stopRequested, listed>>
  BY DEF Answered
<1>2. /\ results \in Seq(RowType) /\ unit \in 0..Total /\ callFailures \in {0, 1}
      /\ listed \in SUBSET {Models[m] : m \in DOMAIN Models}
  BY DEF Planned, TypeOK, RowType
<1>3. /\ unit = Len(results) + 1 /\ Model(unit) \in listed /\ ~OpenBy(results, unit - 1, unit)
      /\ callFailures = IF unit > 1 /\ SameModel(unit - 1, unit)
                             /\ results[unit - 1].outcome \in CallFailures
                        THEN 1 ELSE 0
  BY <1>1 DEF Planned, AskedIsNext, CounterIsTrue, BreakerOpen, OpenBy, Failed
<1>4. Total \in Nat /\ unit \in Units /\ unit \in Nat /\ unit >= 1 /\ n \in 1..(Total + 1)
  BY <1>2, <1>3, PlanSize DEF Units
<1>5. o \in CallFailures \cup {"scored", "aborted"}
  BY DEF Answers
<1>6. Row(unit, o) \in RowType /\ Row(unit, o).unit = unit /\ Row(unit, o).outcome = o
  BY <1>4, <1>5 DEF Row, RowType
<1>7. /\ rows \in Seq(RowType) /\ Len(rows) = n - 1 /\ Len(results) <= Len(rows)
      /\ \A i \in 1..(unit - 1) : rows[i] = results[i]
      /\ rows[unit].unit = unit /\ rows[unit].outcome = o
  <2> DEFINE r == Row(unit, o)
  <2>1. r \in RowType /\ r.unit = unit /\ r.outcome = o
    BY <1>6
  <2> HIDE DEF r
  <2>2. rows = Append(results, r)
    BY DEF r
  <2> QED
    BY <1>2, <1>3, <1>4, <2>1, <2>2
<1> HIDE DEF rows
<1>8. \A i \in 1..(unit - 1) : results[i].unit = i
  BY <1>2, <1>3 DEF Planned, RowsFollowPlan
<1>9. \A i \in 1..(unit - 1) :
        results[i].outcome = "skipped" <=> Model(i) \notin listed \/ OpenBy(results, i - 1, i)
  BY <1>2, <1>3 DEF Planned, SkippedIffUnavailable, BreakerOpen, OpenBy, Failed
<1>10. \A i \in 1..unit : OpenBy(rows, i - 1, i) <=> OpenBy(results, i - 1, i)
  <2> SUFFICES ASSUME NEW i \in 1..unit
               PROVE  OpenBy(rows, i - 1, i) <=> OpenBy(results, i - 1, i)
    OBVIOUS
  <2>1. \A j \in 1..(i - 1) : rows[j] = results[j] /\ (j > 1 => rows[j - 1] = results[j - 1])
    BY <1>4, <1>7
  <2> QED
    BY <2>1 DEF OpenBy
<1>11. open <=> \/ rows[unit].outcome = "unavailable"
                \/ /\ rows[unit].outcome \in CallFailures
                   /\ unit > 1 /\ SameModel(unit - 1, unit)
                   /\ rows[unit - 1].outcome \in CallFailures
  <2>1. failures >= 2 <=> o \in CallFailures /\ callFailures = 1
    BY <1>2
  <2>2. unit > 1 => rows[unit - 1] = results[unit - 1]
    BY <1>4, <1>7
  <2> QED
    BY <1>3, <1>7, <2>1, <2>2
<1>12. ~open => failures = IF rows[unit].outcome \in CallFailures THEN 1 ELSE 0
  BY <1>2, <1>7
<1> HIDE DEF failures, open
<1>13. ASSUME NEW j \in Units, j >= n
       PROVE  j <= skipTo <=> OpenBy(rows, n - 1, j)
  <2>1. j \in Nat /\ unit <= j /\ (j <= LastOfModel(unit) <=> SameModel(unit, j))
    BY <1>4, <1>13, Positions DEF Units
  <2>2. j <= skipTo <=> open /\ SameModel(unit, j)
    BY <1>4, <2>1
  <2>3. ASSUME open, SameModel(unit, j)
        PROVE  OpenBy(rows, n - 1, j)
    <3>1. unit \in 1..(n - 1)
      BY <1>4
    <3>2. SameModel(unit - 1, unit) => SameModel(unit - 1, j)
      BY <2>3 DEF SameModel
    <3> QED
      BY <1>11, <2>3, <3>1, <3>2 DEF OpenBy
  <2>4. ASSUME OpenBy(rows, n - 1, j)
        PROVE  open /\ SameModel(unit, j)
    <3>1. PICK i \in 1..(n - 1) :
            /\ SameModel(i, j)
            /\ \/ rows[i].outcome = "unavailable"
               \/ /\ rows[i].outcome \in CallFailures
                  /\ i > 1 /\ SameModel(i - 1, j)
                  /\ rows[i - 1].outcome \in CallFailures
      BY <2>4 DEF OpenBy
    <3>2. i \in Units /\ i \in 1..unit /\ i <= unit /\ i <= j
      BY <1>4, <2>1, <3>1 DEF Units
    <3>3. SameModel(unit, j)
      <4>1. Position(i) <= Position(unit) /\ Position(unit) <= Position(j)
        BY <1>4, <2>1, <3>2, Positions
      <4>2. Position(i) = Position(j) /\ Position(i) \in Nat /\ Position(unit) \in Nat
        BY <1>4, <2>1, <3>1, <3>2, Positions DEF SameModel
      <4> QED
        BY <4>1, <4>2 DEF SameModel
    <3>4. SameModel(i, unit) /\ (SameModel(i - 1, j) => SameModel(i - 1, unit))
      BY <3>1, <3>3 DEF SameModel
    <3>5. i = unit
      <4> SUFFICES ASSUME i \in 1..(unit - 1)
                   PROVE  FALSE
        BY <1>4, <3>2
      <4>1. rows[i] = results[i] /\ (i > 1 => rows[i - 1] = results[i - 1])
        BY <1>4, <1>7
      <4>2. OpenBy(results, unit - 1, unit)
        BY <3>1, <3>4, <4>1 DEF OpenBy
      <4> QED
        BY <1>3, <4>2
    <3> QED
      BY <1>11, <3>1, <3>3, <3>4, <3>5
  <2> QED
    BY <2>2, <2>3, <2>4
<1>14. SoFar(n, rows, listed, failures, skipTo)
  <2>1. \A i \in 1..(n - 1) : i \in 1..(unit - 1) \/ i = unit
    BY <1>4
  <2>2. \A i \in 1..(n - 1) : rows[i].unit = i
    BY <1>7, <1>8, <2>1
  <2>3. ASSUME NEW i \in 1..(n - 1)
        PROVE  rows[i].outcome = "skipped" <=> Model(i) \notin listed \/ OpenBy(rows, i - 1, i)
    <3>1. CASE i \in 1..(unit - 1)
      <4>1. rows[i] = results[i] /\ i \in 1..unit
        BY <1>4, <1>7, <3>1
      <4> QED
        BY <1>9, <1>10, <3>1, <4>1
    <3>2. CASE i = unit
      <4>1. rows[i].outcome # "skipped"
        BY <1>5, <1>7, <3>2 DEF CallFailures
      <4>2. ~OpenBy(rows, i - 1, i)
        BY <1>3, <1>4, <1>10, <3>2
      <4> QED
        BY <1>3, <3>2, <4>1, <4>2
    <3> QED
      BY <2>1, <3>1, <3>2
  <2>4. n \in Units /\ n > 1 /\ ~(n <= skipTo) /\ SameModel(n - 1, n)
          => failures = IF rows[n - 1].outcome \in CallFailures THEN 1 ELSE 0
    <3> SUFFICES ASSUME n \in Units, ~(n <= skipTo), SameModel(n - 1, n)
                 PROVE  failures = IF rows[n - 1].outcome \in CallFailures THEN 1 ELSE 0
      OBVIOUS
    <3>1. n - 1 = unit /\ unit <= n
      BY <1>4
    <3>2. n <= LastOfModel(unit)
      BY <1>4, <3>1, Positions
    <3>3. ~open
      BY <3>2
    <3> QED
      BY <1>12, <3>1, <3>3
  <2> QED
    BY <1>7, <1>13, <2>2, <2>3, <2>4 DEF SoFar
<1> QED
  BY <1>1, <1>2, <1>4, <1>14, Continuing

(* What depends on the rows and the unit asked stays while they stay. *)
LEMMA PlanStays ==
  ASSUME RowsFollowPlan, SkippedIffUnavailable, AskedIsNext, CounterIsTrue,
         UNCHANGED <<results, listed, unit, callFailures>>, pc' = "asking" => pc = "asking"
  PROVE  RowsFollowPlan' /\ SkippedIffUnavailable' /\ AskedIsNext' /\ CounterIsTrue'
<1>1. RowsFollowPlan'
  BY DEF RowsFollowPlan
<1>2. SkippedIffUnavailable'
  BY DEF SkippedIffUnavailable, BreakerOpen, Failed
<1>3. AskedIsNext'
  BY DEF AskedIsNext, BreakerOpen, Failed
<1>4. CounterIsTrue'
  BY DEF CounterIsTrue, Failed
<1> QED
  BY <1>1, <1>2, <1>3, <1>4

LEMMA PlannedRunner ==
  ASSUME Planned,
         \/ Start \/ ProviderDetected \/ TargetUnusable \/ QuestionRaises
         \/ SaveEnds \/ Drained \/ FinalSave \/ RequestStop \/ UNCHANGED vars
  PROVE  Planned'
<1>1. TypeOK /\ Stages /\ CompletedIsWhole
  BY DEF Planned
<1>2. UNCHANGED <<results, listed, unit, callFailures>> /\ (pc' = "asking" => pc = "asking")
  BY DEF Start, ProviderDetected, TargetUnusable, Raise, QuestionRaises, SaveEnds, Drained, FinalSave,
         RequestStop, vars
<1>3. RowsFollowPlan' /\ SkippedIffUnavailable' /\ AskedIsNext' /\ CounterIsTrue'
  BY <1>2, PlanStays DEF Planned
<1>4. TypeOK'
  <2>1. pendingSaves' \in Nat
    BY <1>1 DEF TypeOK, Start, ProviderDetected, TargetUnusable, Raise, QuestionRaises, SaveEnds,
                Drained, FinalSave, RequestStop, vars
  <2>2. /\ sqlMode' = sqlMode /\ stopRequested' \in {stopRequested, TRUE}
        /\ errors' \in {errors, TRUE}
        /\ status' \in {status, "running", "stopping", "failed"}
        /\ pc' \in {pc, "detecting", "discovering", "draining", "saving", "done"}
    BY DEF Start, ProviderDetected, TargetUnusable, Raise, QuestionRaises, SaveEnds, Drained, FinalSave,
           RequestStop, vars
  <2> QED
    BY <1>1, <1>2, <2>1, <2>2 DEF TypeOK, Terminal
<1>5. Stages'
  BY <1>1, <1>2 DEF TypeOK, Stages, Start, ProviderDetected, TargetUnusable, Raise, QuestionRaises,
       SaveEnds, Drained, FinalSave, RequestStop, vars, AtWork, Terminal
<1>6. CompletedIsWhole'
  BY <1>1, <1>2 DEF CompletedIsWhole, Start, ProviderDetected, TargetUnusable, Raise, QuestionRaises,
       SaveEnds, Drained, FinalSave, RequestStop, vars
<1> QED
  BY <1>3, <1>4, <1>5, <1>6 DEF Planned

LEMMA PlannedKept == Planned /\ [Next]_vars => Planned'
<1> SUFFICES ASSUME Planned, [Next]_vars
             PROVE  Planned'
  OBVIOUS
<1>1. CASE \E S \in SUBSET {Models[m] : m \in DOMAIN Models} : ModelsDiscovered(S)
  BY <1>1, PlannedDiscovered
<1>2. CASE \E o \in Answers \ {"raised"} : Answered(o)
  BY <1>2, PlannedAnswered
<1>3. CASE \/ Start \/ ProviderDetected \/ TargetUnusable \/ QuestionRaises
           \/ SaveEnds \/ Drained \/ FinalSave \/ RequestStop \/ UNCHANGED vars
  BY <1>3, PlannedRunner
<1> QED
  BY <1>1, <1>2, <1>3 DEF Next, JobStep

LEMMA AlwaysPlanned == Spec => []Planned
BY PlannedInit, PlannedKept, PTL DEF Spec

(***************************************************************************)
(* The variables of a SQL job always have their types; the counter of the  *)
(* breaker never gets beyond 1 while a question is asked.                  *)
(***************************************************************************)
THEOREM TypeCorrect == Spec => []TypeOK
<1>1. Planned => TypeOK
  BY DEF Planned
<1> QED
  BY <1>1, AlwaysPlanned, PTL

(***************************************************************************)
(* Whatever the calls answer and whenever the stop comes, the rows of      *)
(* run_sql_job are those of the first units of the plan, a unit is skipped *)
(* exactly when its model is not listed or the breaker of its entry is     *)
(* open, and the question asked is the next, of a model still in use.      *)
(***************************************************************************)
THEOREM RowsFollowThePlan == Spec => []RowsAreThePlans
<1>1. Planned => RowsAreThePlans
  BY DEF Planned, RowsAreThePlans
<1> QED
  BY <1>1, AlwaysPlanned, PTL

(***************************************************************************)
(* A SQL job run_job calls "completed" has a row for every question, model *)
(* and thinking variant of the request.                                    *)
(***************************************************************************)
THEOREM CompletedJobsAreWhole == Spec => []CompletedIsWhole
<1>1. Planned => CompletedIsWhole
  BY DEF Planned
<1> QED
  BY <1>1, AlwaysPlanned, PTL

-----------------------------------------------------------------------------
(***************************************************************************)
(* What clients see of a step.                                             *)
(***************************************************************************)
Verdict == IF stopRequested /\ status = "stopping" THEN "stopped" ELSE "completed"

StatusMoves ==
  \/ UNCHANGED <<status, stopRequested>>
  \/ status = "queued" /\ status' = "running" /\ UNCHANGED <<stopRequested, results>>
  \/ RequestStop
  \/ /\ pc \in AtWork
     /\ status' \in {Verdict, "failed"}
     /\ UNCHANGED stopRequested

LEMMA StatusSteps ==
  ASSUME Planned, [Next]_vars
  PROVE  StatusMoves
<1>1. CASE UNCHANGED vars \/ ProviderDetected \/ SaveEnds \/ Drained \/ FinalSave
  BY <1>1 DEF vars, ProviderDetected, SaveEnds, Drained, FinalSave, StatusMoves
<1>2. CASE Start
  BY <1>2 DEF Start, Planned, Stages, StatusMoves
<1>3. CASE TargetUnusable \/ QuestionRaises
  BY <1>3 DEF TargetUnusable, QuestionRaises, Raise, AtWork, StatusMoves
<1>4. CASE \/ \E S \in SUBSET {Models[m] : m \in DOMAIN Models} : ModelsDiscovered(S)
           \/ \E o \in Answers \ {"raised"} : Answered(o)
  <2>1. pc \in AtWork /\ UNCHANGED stopRequested
    BY <1>4 DEF ModelsDiscovered, Answered, AtWork
  <2>2. \E n, rows, models, failures, skipTo : Continue(n, rows, models, failures, skipTo)
    BY <1>4 DEF ModelsDiscovered, Answered
  <2>3. status' \in {status, Verdict, "failed"}
    BY <2>2 DEF Continue, Settle, Raise, Verdict
  <2> QED
    BY <2>1, <2>3 DEF StatusMoves
<1>5. CASE RequestStop
  BY <1>5 DEF StatusMoves
<1> QED
  BY <1>1, <1>2, <1>3, <1>4, <1>5 DEF Next, JobStep

(* The record only grows, and only while the job is at work. *)
RowsStay ==
  /\ Len(results) <= Len(results')
  /\ \A i \in 1..Len(results) : results'[i] = results[i]

LEMMA RecordGrows ==
  ASSUME Planned, [Next]_vars
  PROVE  /\ RowsStay
         /\ results' = results \/ pc \in AtWork
<1>1. results \in Seq(RowType) /\ Len(results) \in Nat
  BY DEF Planned, TypeOK, RowType
<1>2. CASE results' = results
  BY <1>1, <1>2 DEF RowsStay
<1>3. ASSUME NEW S, ModelsDiscovered(S)
      PROVE  RowsStay /\ pc \in AtWork
  <2>1. pc = "discovering" /\ Continue(1, << >>, S, 0, 0)
    BY <1>3 DEF ModelsDiscovered
  <2>2. Len(results) = 0
    BY <2>1 DEF Planned, Stages
  <2>3. << >> \in Seq(RowType) /\ Len(<< >>) = 0 /\ 1 \in 1..(Total + 1) /\ Total \in Nat
    BY PlanSize
  <2> DEFINE k == NextAsked(1, S, 0)
  <2>4. results' = << >> \/ results' = WithChain(<< >>, 1, k, S, 0)
    BY <2>1 DEF Continue, Settle, WithChain
  <2>5. k \in 1..(Total + 1)
    BY <2>3, NextFound
  <2> HIDE DEF k
  <2>6. Len(WithChain(<< >>, 1, k, S, 0)) = k - 1
    <3> DEFINE rows == << >>
               n == 1
    <3>1. rows \in Seq(RowType) /\ Len(rows) = n - 1 /\ n \in 1..(Total + 1) /\ k \in n..(Total + 1)
      BY <2>3, <2>5
    <3> HIDE DEF rows, n
    <3>2. Len(WithChain(rows, n, k, S, 0)) = k - 1
      <4>1. n \in Nat
        BY DEF n
      <4> QED
        BY <2>3, <3>1, <4>1, ChainAdded
    <3> QED
      BY <3>2 DEF rows, n
  <2> QED
    BY <2>1, <2>2, <2>3, <2>4, <2>5, <2>6 DEF AtWork, RowsStay
<1>4. ASSUME NEW o \in Answers \ {"raised"}, Answered(o)
      PROVE  RowsStay /\ pc \in AtWork
  <2> DEFINE rows == Append(results, Row(unit, o))
             n == unit + 1
  <2>1. pc = "asking" /\ \E failures, skipTo : Continue(n, rows, listed, failures, skipTo)
    BY <1>4 DEF Answered
  <2>2. PICK failures, skipTo : Continue(n, rows, listed, failures, skipTo)
    BY <2>1
  <2>3. /\ unit = Len(results) + 1 /\ unit \in 0..Total /\ Total \in Nat
        /\ o \in CallFailures \cup {"scored", "aborted"}
    BY <2>1, PlanSize DEF Planned, AskedIsNext, TypeOK, Answers
  <2>4. n \in 1..(Total + 1) /\ Row(unit, o) \in RowType
    BY <1>1, <2>3 DEF Row, RowType, Units
  <2>5. /\ rows \in Seq(RowType) /\ Len(rows) = n - 1
        /\ \A i \in 1..Len(results) : rows[i] = results[i]
    <3> HIDE DEF n
    <3>1. /\ Len(rows) = Len(results) + 1 /\ rows \in Seq(RowType)
          /\ \A i \in 1..Len(results) : rows[i] = results[i]
      BY <1>1, <2>4
    <3> QED
      BY <1>1, <2>3, <3>1 DEF n
  <2> HIDE DEF rows
  <2> DEFINE k == NextAsked(n, listed, skipTo)
  <2>6. results' = rows \/ results' = WithChain(rows, n, k, listed, skipTo)
    BY <2>2 DEF Continue, Settle, WithChain
  <2>7. k \in n..(Total + 1)
    BY <2>3, <2>4, NextFound
  <2> HIDE DEF k
  <2>8. /\ Len(WithChain(rows, n, k, listed, skipTo)) = k - 1
        /\ \A i \in 1..(n - 1) : WithChain(rows, n, k, listed, skipTo)[i] = rows[i]
    <3> HIDE DEF n
    <3> DEFINE all == WithChain(rows, n, k, listed, skipTo)
    <3>1. /\ all \in Seq(RowType) /\ Len(all) = k - 1
          /\ \A i \in 1..(n - 1) : all[i] = rows[i]
      BY <2>3, <2>4, <2>5, <2>7, ChainAdded
    <3> QED
      BY <3>1
  <2>9. Len(results) <= Len(results') /\ 1..Len(results) \subseteq 1..(n - 1)
    BY <1>1, <2>3, <2>5, <2>6, <2>7, <2>8
  <2>10. \A i \in 1..Len(results) : results'[i] = results[i]
    <3> HIDE DEF n
    <3> QED
      BY <2>5, <2>6, <2>8, <2>9
  <2> QED
    BY <2>1, <2>9, <2>10 DEF AtWork, RowsStay
<1>5. CASE /\ [Next]_vars
           /\ ~\E S \in SUBSET {Models[m] : m \in DOMAIN Models} : ModelsDiscovered(S)
           /\ ~\E o \in Answers \ {"raised"} : Answered(o)
  <2>1. results' = results
    BY <1>5 DEF Next, JobStep, Start, ProviderDetected, TargetUnusable, QuestionRaises, SaveEnds,
                Drained, FinalSave, RequestStop, vars
  <2> QED
    BY <1>2, <2>1
<1> QED
  BY <1>3, <1>4, <1>5

LEMMA RecordExtends ==
  ASSUME Planned, Planned', [Next]_vars
  PROVE  /\ Lifecycle!Extends([i \in DOMAIN results |-> results[i].unit],
                              [i \in DOMAIN results' |-> results'[i].unit])
         /\ Lifecycle!Range([i \in DOMAIN results' |-> results'[i].unit]) = 1..Len(results')
<1> DEFINE old == [i \in DOMAIN results |-> results[i].unit]
           new == [i \in DOMAIN results' |-> results'[i].unit]
<1>1. /\ results \in Seq(RowType) /\ results' \in Seq(RowType)
      /\ \A i \in DOMAIN results : results[i].unit = i
      /\ \A i \in DOMAIN results' : results'[i].unit = i
  BY DEF Planned, TypeOK, RowType, RowsFollowPlan
<1>2. /\ Len(results) \in Nat /\ Len(results') \in Nat /\ Len(results) <= Len(results')
      /\ DOMAIN results = 1..Len(results) /\ DOMAIN results' = 1..Len(results')
  BY <1>1, RecordGrows DEF RowsStay
<1>3. old = [i \in 1..Len(results) |-> i] /\ new = [i \in 1..Len(results') |-> i]
  BY <1>1, <1>2
<1> HIDE DEF old, new
<1>4. Len(old) = Len(results) /\ Len(new) = Len(results')
  BY <1>2, <1>3
<1>5. Len(old) <= Len(new) /\ \A i \in DOMAIN old : new[i] = old[i]
  BY <1>2, <1>3, <1>4
<1>6. \A i, j \in DOMAIN new : new[i] = new[j] => i = j
  BY <1>3
<1>7. Lifecycle!Range(new) = 1..Len(results')
  BY <1>3 DEF Lifecycle!Range
<1>8. \A i \in DOMAIN results' : i \in Units
  <2>1. \A i \in DOMAIN results' : results'[i] \in RowType
    BY <1>1
  <2> QED
    BY <1>1, <2>1 DEF RowType
<1>9. 1..Len(results') \subseteq Units
  BY <1>2, <1>8
<1>10. Lifecycle!Extends(old, new)
  BY <1>5, <1>6, <1>7, <1>9 DEF Lifecycle!Extends, Lifecycle!IsInjective
<1> QED
  BY <1>7, <1>10 DEF old, new

LEMMA LifecycleStep ==
  ASSUME Planned, Planned', [Next]_vars
  PROVE  [Lifecycle!Next]_(Lifecycle!vars)
<1> DEFINE old == [i \in DOMAIN results |-> results[i].unit]
           new == [i \in DOMAIN results' |-> results'[i].unit]
<1>1. Lifecycle!Extends(old, new) /\ Lifecycle!Range(new) = 1..Len(results')
  BY RecordExtends
<1>2. pc \in AtWork => status = IF stopRequested THEN "stopping" ELSE "running"
  BY DEF Planned, Stages
<1>3. CASE UNCHANGED <<status, stopRequested>>
  <2>1. CASE results' = results
    <3>1. new = old
      BY <2>1
    <3> QED
      BY <1>3, <3>1 DEF Lifecycle!vars
  <2>2. CASE pc \in AtWork
    BY <1>1, <1>2, <1>3, <2>2 DEF Lifecycle!Next, Lifecycle!Record
  <2> QED
    BY <2>1, <2>2, RecordGrows
<1>4. CASE status = "queued" /\ status' = "running" /\ UNCHANGED <<stopRequested, results>>
  <2>1. new = old
    BY <1>4
  <2> QED
    BY <1>4, <2>1 DEF Lifecycle!Next, Lifecycle!Start
<1>5. CASE RequestStop
  <2>1. new = old
    BY <1>5 DEF RequestStop
  <2> QED
    BY <1>5, <2>1 DEF RequestStop, Lifecycle!Next, Lifecycle!RequestStop
<1>6. CASE pc \in AtWork /\ status' \in {Verdict, "failed"} /\ UNCHANGED stopRequested
  <2>1. \/ status = "running" /\ status' = "completed"
        \/ status = "stopping" /\ status' = "stopped"
        \/ status \in {"running", "stopping"} /\ status' = "failed"
    BY <1>2, <1>6 DEF Verdict
  <2>2. status' = "completed" => Lifecycle!Range(new) = Units
    BY <1>1 DEF Planned, CompletedIsWhole, Units
  <2> QED
    BY <1>1, <1>6, <2>1, <2>2 DEF Lifecycle!Next, Lifecycle!Finish
<1> QED
  BY <1>3, <1>4, <1>5, <1>6, StatusSteps DEF StatusMoves

(***************************************************************************)
(* A SQL job is a JobLifecycle for every request: clients see a row for a  *)
(* question at most once and only while the job is live, also when skipped *)
(* rows come in a bunch, and "completed" only with every row there.        *)
(***************************************************************************)
THEOREM ImplementsLifecycle == Spec => LifecycleSpec
<1>1. Init => Lifecycle!Init
  BY DEF Init, Lifecycle!Init
<1>2. Planned /\ Planned' /\ [Next]_vars => [Lifecycle!Next]_(Lifecycle!vars)
  BY LifecycleStep
<1> QED
  BY <1>1, <1>2, AlwaysPlanned, PTL DEF Spec, LifecycleSpec, Lifecycle!Spec

(***************************************************************************)
(* Once benchmark_stop has set the flag, at most the question under way    *)
(* gets its row, and the job settles in that step: no chain of skipped     *)
(* rows follows a stop.                                                    *)
(***************************************************************************)
THEOREM StopIsTheEnd == Spec => StopEndsRecording
<1>1. ASSUME Planned, Next, stopRequested, results' # results
      PROVE  Len(results') = Len(results) + 1 /\ status' \in Terminal
  <2>1. ASSUME NEW o \in Answers \ {"raised"}, Answered(o)
        PROVE  Len(results') = Len(results) + 1 /\ status' \in Terminal
    <3>1. results' = Append(results, Row(unit, o)) /\ status' \in Terminal
      BY <1>1, <2>1 DEF Answered, Continue, Settle, Terminal
    <3>2. results \in Seq(RowType)
      BY <1>1 DEF Planned, TypeOK, RowType
    <3> QED
      BY <3>1, <3>2
  <2>2. ASSUME NEW S, ModelsDiscovered(S)
        PROVE  FALSE
    BY <1>1, <2>2 DEF ModelsDiscovered, Continue, Planned, Stages
  <2> QED
    BY <1>1, <2>1, <2>2 DEF Next, JobStep, Start, ProviderDetected, TargetUnusable, QuestionRaises,
         SaveEnds, Drained, FinalSave, RequestStop
<1>2. Planned /\ [Next]_vars
        => [stopRequested /\ results' # results =>
              Len(results') = Len(results) + 1 /\ status' \in Terminal]_vars
  BY <1>1
<1> QED
  BY <1>2, AlwaysPlanned, PTL DEF Spec, StopEndsRecording

(***************************************************************************)
(* What a client has seen of a job stays true: a row is never taken back   *)
(* or changed, a settled job keeps its status and its rows whatever is     *)
(* requested of it, and a job that has taken a stop never turns out        *)
(* completed.                                                              *)
(***************************************************************************)
SeenIsFinal ==
  /\ Len(results) <= Len(results')
  /\ \A i \in 1..Len(results) : results'[i] = results[i]
  /\ status \in Terminal => UNCHANGED <<status, results>>
  /\ stopRequested => stopRequested' /\ (status' = "completed" => status = "completed")

THEOREM SeenStaysTrue == Spec => [][SeenIsFinal]_vars
<1>1. ASSUME Planned, [Next]_vars
      PROVE  SeenIsFinal
  <2>1. RowsStay /\ StatusMoves /\ (results' = results \/ pc \in AtWork)
    BY <1>1, RecordGrows, StatusSteps
  <2>2. pc \in AtWork => status = IF stopRequested THEN "stopping" ELSE "running"
    BY <1>1 DEF Planned, Stages
  <2>3. status \in Terminal => UNCHANGED <<status, results>>
    BY <2>1, <2>2 DEF StatusMoves, RequestStop, Terminal
  <2>4. stopRequested => stopRequested' /\ (status' = "completed" => status = "completed")
    BY <2>1, <2>2 DEF StatusMoves, RequestStop, Verdict
  <2> QED
    BY <2>1, <2>3, <2>4 DEF SeenIsFinal, RowsStay
<1>2. Planned /\ [Next]_vars => [SeenIsFinal]_vars
  BY <1>1
<1> QED
  BY <1>2, AlwaysPlanned, PTL DEF Spec
=============================================================================

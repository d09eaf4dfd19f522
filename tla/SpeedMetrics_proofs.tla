------------------------ MODULE SpeedMetrics_proofs ------------------------
(***************************************************************************)
(* What the rows of a speed benchmark and their aggregates say, and whose  *)
(* aggregates are shown and saved, for every plan of calls, every number   *)
(* of calls at a time and whatever the endpoints report.                   *)
(***************************************************************************)
EXTENDS SpeedMetrics, FiniteSetTheorems, SequenceTheorems, WellFoundedInduction, TLAPS

-----------------------------------------------------------------------------
(***************************************************************************)
(* Rows.                                                                   *)
(***************************************************************************)
Metrics == [total : Measure, ttft : Measure, prefill : Measure, decode : Measure,
            tokens : Measure]

(* What RowsAreMeasured says of one row, at time n. *)
Measured(r, n) ==
  /\ r.ttft # None => r.total # None /\ r.ttft <= r.total
  /\ r.decode # None =>
       /\ r.tokens # None
       /\ r.decode = Rate(r.tokens, r.total - (IF r.ttft = None THEN 0 ELSE r.ttft))
  /\ ~r.success => /\ r.total # None
                   /\ {r.ttft, r.prefill, r.decode, r.tokens} = {None}
  /\ Provider[r.target] = "openai-compatible" =>
       /\ r.total \in 0..n - r.stamp
       /\ r.decode # None => r.ttft # None

LEMMA Quotient ==
  ASSUME NEW a \in Nat, NEW b \in Nat \ {0}
  PROVE  a \div b \in Nat
OBVIOUS

LEMMA RateIsNatural ==
  ASSUME NEW tokens \in Nat, NEW time \in Nat
  PROVE  Rate(tokens, time) \in Nat
<1> DEFINE d == Higher(time, 1)
<1>1. d \in Nat \ {0}
  BY DEF Higher
<1> DEFINE n == 100 * Second * tokens
<1>2. n \in Nat
  BY DEF Second
<1> HIDE DEF d, n
<1>3. 2 * n + d \in Nat /\ 2 * d \in Nat \ {0}
  BY <1>1, <1>2
<1>4. (2 * n + d) \div (2 * d) \in Nat
  BY <1>3, Quotient
<1> QED
  BY <1>4 DEF Rate, Rounded, d, n

LEMMA Planned ==
  /\ Len(Plan) \in Nat /\ DOMAIN Plan = 1..Len(Plan)
  /\ \A c \in DOMAIN Plan :
       /\ Plan[c].target \in Targets
       /\ Plan[c].model \in Nat
       /\ Plan[c].index \in 1..RepeatCount
<1> DEFINE C == [target : Targets, model : Nat, index : 1..RepeatCount]
<1>1. Plan \in Seq(C)
  BY PlanAssumption
<1>2. \A x \in C : x.target \in Targets /\ x.model \in Nat /\ x.index \in 1..RepeatCount
  OBVIOUS
<1> HIDE DEF C
<1>3. Len(Plan) \in Nat /\ DOMAIN Plan = 1..Len(Plan)
  BY <1>1, LenProperties
<1>4. \A c \in DOMAIN Plan : Plan[c] \in C
  BY <1>1, <1>3, ElementOfSeq
<1> QED
  BY <1>2, <1>3, <1>4

LEMMA RowTyped ==
  ASSUME NEW c \in DOMAIN Plan, calls[c].start \in Nat, NEW success \in BOOLEAN,
         NEW m \in Metrics
  PROVE  /\ Row(c, success, m) \in RowType
         /\ Row(c, success, m).target = Plan[c].target
         /\ Row(c, success, m).stamp = calls[c].start
         /\ Row(c, success, m).success = success
         /\ Row(c, success, m).total = m.total
         /\ Row(c, success, m).ttft = m.ttft
         /\ Row(c, success, m).prefill = m.prefill
         /\ Row(c, success, m).decode = m.decode
         /\ Row(c, success, m).tokens = m.tokens
<1>1. Plan[c].target \in Targets /\ Plan[c].model \in Nat /\ Plan[c].index \in 1..RepeatCount
  BY Planned
<1> DEFINE stamp == calls[c].start
<1> DEFINE r == [model |-> Plan[c].model, target |-> Plan[c].target, index |-> Plan[c].index,
                 stamp |-> stamp, success |-> success,
                 total |-> m.total, ttft |-> m.ttft, prefill |-> m.prefill,
                 decode |-> m.decode, tokens |-> m.tokens]
<1>2. Row(c, success, m) = r
  BY DEF Row
<1>3. m.total \in Measure /\ m.ttft \in Measure /\ m.prefill \in Measure
      /\ m.decode \in Measure /\ m.tokens \in Measure
  BY DEF Metrics
<1>4. stamp \in Nat
  OBVIOUS
<1> HIDE DEF stamp
<1>5. r \in RowType
  BY <1>1, <1>3, <1>4 DEF RowType
<1>6. /\ r.target = Plan[c].target /\ r.stamp = stamp /\ r.success = success
      /\ r.total = m.total /\ r.ttft = m.ttft /\ r.prefill = m.prefill
      /\ r.decode = m.decode /\ r.tokens = m.tokens
  OBVIOUS
<1> HIDE DEF r
<1> QED
  BY <1>2, <1>5, <1>6 DEF stamp

LEMMA NothingMeasured ==
  /\ NoMetrics \in Metrics
  /\ NoMetrics = [total |-> None, ttft |-> None, prefill |-> None, decode |-> None, tokens |-> None]
BY DEF NoMetrics, Metrics, Measure

(* A call at an endpoint that streams, or any call that fails. *)
UnderWay == [pc : {"waiting", "streaming"}, start : Nat, first : Measure, text : Measure,
             tokens : Measure]

Timely(x, n) ==
  /\ x.start <= n
  /\ x.pc = "waiting" => x.first = None
  /\ x.pc = "streaming" => x.first \in x.start..n

LEMMA StreamedFits ==
  ASSUME NEW c \in DOMAIN Plan, now \in Nat, calls[c] \in UnderWay, Timely(calls[c], now),
         At(c, "openai-compatible")
  PROVE  StreamedRow(c) \in RowType /\ Measured(StreamedRow(c), now)
<1> DEFINE x == calls[c]
<1> DEFINE ttft == IF x.first = None THEN None ELSE x.first - x.start
<1> DEFINE total == now - x.start
<1> DEFINE rate == IF None \in {ttft, x.tokens} THEN None ELSE Rate(x.tokens, now - x.first)
<1>1. x.start \in Nat /\ x.first \in Measure /\ x.tokens \in Measure /\ None \notin Nat
  BY PlanAssumption DEF UnderWay
<1>2. x.first # None => x.first \in Nat /\ x.start <= x.first /\ x.first <= now
  BY <1>1 DEF UnderWay, Timely
<1>3. total \in Nat /\ total # None
  BY <1>1 DEF Timely
<1>4. /\ ttft \in Measure
      /\ ttft # None => /\ ttft = x.first - x.start /\ ttft <= total
                        /\ x.first # None /\ now - x.first \in Nat /\ now - x.first = total - ttft
  BY <1>1, <1>2 DEF Measure
<1>5. /\ rate \in Measure
      /\ rate # None => ttft # None /\ x.tokens # None /\ rate = Rate(x.tokens, total - ttft)
  <2>1. CASE None \in {ttft, x.tokens}
    BY <2>1 DEF Measure
  <2>2. CASE None \notin {ttft, x.tokens}
    <3>1. x.tokens \in Nat /\ now - x.first \in Nat
      BY <1>1, <1>4, <2>2 DEF Measure
    <3>2. rate = Rate(x.tokens, now - x.first) /\ rate \in Nat
      BY <2>2, <3>1, RateIsNatural
    <3> QED
      BY <1>4, <2>2, <3>2 DEF Measure
  <2> QED
    BY <2>1, <2>2
<1> DEFINE m == [total |-> total, ttft |-> ttft, prefill |-> None, decode |-> rate,
                 tokens |-> x.tokens]
<1>6. StreamedRow(c) = Row(c, TRUE, m)
  BY DEF StreamedRow
<1> HIDE DEF total, ttft, rate
<1>7. m \in Metrics
  BY <1>1, <1>3, <1>4, <1>5 DEF Metrics, Measure
<1>8. m.total = total /\ m.ttft = ttft /\ m.decode = rate /\ m.tokens = x.tokens
  OBVIOUS
<1> HIDE DEF m
<1> DEFINE r == Row(c, TRUE, m)
<1>9. /\ r \in RowType /\ r.target = Plan[c].target /\ r.stamp = x.start /\ r.success = TRUE
      /\ r.total = total /\ r.ttft = ttft /\ r.decode = rate /\ r.tokens = x.tokens
  BY <1>1, <1>7, <1>8, RowTyped
<1>10. total <= now - x.start
  BY <1>1 DEF total
<1> HIDE DEF r
<1>11. Measured(r, now)
  BY <1>1, <1>3, <1>4, <1>5, <1>9, <1>10 DEF Measured
<1> QED
  BY <1>6, <1>9, <1>11 DEF r

LEMMA FailedFits ==
  ASSUME NEW c \in DOMAIN Plan, now \in Nat, calls[c] \in UnderWay, Timely(calls[c], now)
  PROVE  FailedRow(c) \in RowType /\ Measured(FailedRow(c), now)
<1> DEFINE total == now - calls[c].start
<1>1. calls[c].start \in Nat /\ total \in Nat /\ None \notin Nat
  BY PlanAssumption DEF UnderWay, Timely
<1> DEFINE m == [total |-> total, ttft |-> None, prefill |-> None, decode |-> None, tokens |-> None]
<1>2. FailedRow(c) = Row(c, FALSE, m)
  <2>1. [NoMetrics EXCEPT !.total = total] = m
    BY NothingMeasured
  <2> QED
    BY <2>1 DEF FailedRow
<1>3. m \in Metrics
  BY <1>1 DEF Metrics, Measure
<1>4. m.total = total /\ m.ttft = None /\ m.prefill = None /\ m.decode = None /\ m.tokens = None
  OBVIOUS
<1> HIDE DEF m
<1> DEFINE r == Row(c, FALSE, m)
<1>5. /\ r \in RowType /\ r.target = Plan[c].target /\ r.stamp = calls[c].start /\ r.success = FALSE
      /\ r.total = total /\ r.ttft = None /\ r.prefill = None /\ r.decode = None /\ r.tokens = None
  BY <1>1, <1>3, <1>4, RowTyped
<1> HIDE DEF r
<1>6. Measured(r, now)
  BY <1>1, <1>5 DEF Measured
<1> QED
  BY <1>2, <1>5, <1>6 DEF r

LEMMA OllamaFits ==
  ASSUME NEW c \in DOMAIN Plan, now \in Nat, calls[c] \in UnderWay, At(c, "ollama"),
         NEW prompt \in Measure, NEW tokens \in Measure,
         NEW promptTime \in Measure, NEW evalTime \in Measure
  PROVE  /\ OllamaRow(c, prompt, tokens, promptTime, evalTime) \in RowType
         /\ Measured(OllamaRow(c, prompt, tokens, promptTime, evalTime), now)
<1> DEFINE p == IF Reported(promptTime) THEN promptTime ELSE 0
<1> DEFINE e == IF Reported(evalTime) THEN evalTime ELSE 0
<1> DEFINE total == IF Reported(promptTime) \/ Reported(evalTime) THEN p + e ELSE None
<1> DEFINE ttft == IF Reported(promptTime) THEN promptTime ELSE None
<1> DEFINE prefill == IF Reported(prompt) /\ Reported(promptTime)
                      THEN Rate(prompt, promptTime) ELSE None
<1> DEFINE decode == IF tokens # None /\ Reported(evalTime) THEN Rate(tokens, evalTime) ELSE None
<1>1. None \notin Nat
  BY PlanAssumption
<1>2. \A v \in Measure : Reported(v) => v \in Nat
  BY DEF Measure, Reported
<1>3. calls[c].start \in Nat
  BY DEF UnderWay
<1>4. p \in Nat /\ e \in Nat
  BY <1>2
<1>5. total \in Measure /\ ttft \in Measure
  BY <1>2, <1>4 DEF Measure
<1>6. ttft # None => total # None /\ ttft <= total
  BY <1>1, <1>2, <1>4
<1>7. prefill \in Measure
  BY <1>2, RateIsNatural DEF Measure
<1>8. /\ decode \in Measure
      /\ decode # None =>
           tokens # None /\ decode = Rate(tokens, total - (IF ttft = None THEN 0 ELSE ttft))
  <2>1. CASE ~(tokens # None /\ Reported(evalTime))
    BY <2>1 DEF Measure
  <2>2. CASE tokens # None /\ Reported(evalTime)
    <3>1. tokens \in Nat /\ evalTime \in Nat
      BY <1>2, <2>2 DEF Measure
    <3>2. decode = Rate(tokens, evalTime) /\ decode \in Nat
      BY <2>2, <3>1, RateIsNatural
    <3>3. total - (IF ttft = None THEN 0 ELSE ttft) = evalTime
      <4>1. CASE Reported(promptTime)
        BY <1>1, <1>2, <2>2, <3>1, <4>1
      <4>2. CASE ~Reported(promptTime)
        BY <2>2, <3>1, <4>2
      <4> QED
        BY <4>1, <4>2
    <3> QED
      BY <2>2, <3>2, <3>3 DEF Measure
  <2> QED
    BY <2>1, <2>2
<1> DEFINE m == [total |-> total, ttft |-> ttft, prefill |-> prefill, decode |-> decode,
                 tokens |-> tokens]
<1>9. OllamaRow(c, prompt, tokens, promptTime, evalTime) = Row(c, TRUE, m)
  BY DEF OllamaRow
<1> HIDE DEF total, ttft, prefill, decode
<1>10. m \in Metrics
  BY <1>5, <1>7, <1>8 DEF Metrics
<1>11. m.total = total /\ m.ttft = ttft /\ m.decode = decode /\ m.tokens = tokens
  OBVIOUS
<1> HIDE DEF m
<1> DEFINE r == Row(c, TRUE, m)
<1>12. /\ r \in RowType /\ r.target = Plan[c].target /\ r.success = TRUE
       /\ r.total = total /\ r.ttft = ttft /\ r.decode = decode /\ r.tokens = tokens
  BY <1>3, <1>10, <1>11, RowTyped
<1> HIDE DEF r
<1>13. Provider[r.target] = "ollama"
  BY <1>12 DEF At
<1>14. Measured(r, now)
  BY <1>6, <1>8, <1>12, <1>13 DEF Measured
<1> QED
  BY <1>9, <1>12, <1>14 DEF r

(* What was measured stays measured. *)
LEMMA StaysMeasured ==
  ASSUME NEW r \in RowType, NEW n \in Nat, NEW m \in Nat, n <= m, Measured(r, n)
  PROVE  Measured(r, m)
<1>1. r.stamp \in Nat
  BY DEF RowType
<1>2. \A k \in 0..n - r.stamp : k \in 0..m - r.stamp
  BY <1>1
<1> QED
  BY <1>2 DEF Measured

-----------------------------------------------------------------------------
(***************************************************************************)
(* Calls.  In calls cs at time n, what an answered call took is measured,  *)
(* a call under way is timed, and who is under way belongs together.       *)
(***************************************************************************)
CallRecord == UnderWay \cup [pc : {"answered"}, row : RowType] \cup [pc : {"recorded"}]

Kept(x, n) ==
  /\ x.pc \in {"waiting", "streaming"} => Timely(x, n)
  /\ x.pc = "answered" => Measured(x.row, n)

Asked(cs) == {c \in DOMAIN cs : cs[c].pc \in {"waiting", "streaming"}}
Pending(cs) == {c \in DOMAIN cs : cs[c].pc # "recorded"}
Recorded(cs) == {c \in DOMAIN cs : cs[c].pc = "recorded"}

Made(cs, n) ==
  /\ cs \in Seq(CallRecord)
  /\ \A c \in DOMAIN cs : Kept(cs[c], n)
  /\ Len(cs) <= Len(Plan)
  /\ \A c, d \in Pending(cs) : Plan[c].target = Plan[d].target
  /\ Cardinality(Asked(cs)) <= Concurrency

LEMMA CallFacts ==
  ASSUME NEW cs, NEW n, Made(cs, n)
  PROVE  /\ Len(cs) \in Nat /\ DOMAIN cs = 1..Len(cs) /\ DOMAIN cs \subseteq DOMAIN Plan
         /\ \A c \in DOMAIN cs : cs[c] \in CallRecord
         /\ \A c \in Asked(cs) : c \in DOMAIN Plan /\ cs[c] \in UnderWay /\ Timely(cs[c], n)
         /\ IsFiniteSet(Asked(cs)) /\ Cardinality(Asked(cs)) \in Nat
         /\ IsFiniteSet(Recorded(cs))
<1>1. Len(cs) \in Nat /\ DOMAIN cs = 1..Len(cs)
  BY LenProperties DEF Made
<1>2. \A c \in DOMAIN cs : cs[c] \in CallRecord
  BY <1>1, ElementOfSeq DEF Made
<1>3. DOMAIN cs \subseteq DOMAIN Plan
  BY <1>1, Planned DEF Made
<1>4. \A c \in Asked(cs) : cs[c] \in UnderWay /\ Timely(cs[c], n)
  BY <1>2 DEF Asked, CallRecord, Made, Kept
<1>5. IsFiniteSet(DOMAIN cs)
  BY <1>1, FS_Interval
<1>6. Asked(cs) \in SUBSET DOMAIN cs /\ Recorded(cs) \in SUBSET DOMAIN cs
  BY DEF Asked, Recorded
<1>7. IsFiniteSet(Asked(cs)) /\ IsFiniteSet(Recorded(cs))
  BY <1>5, <1>6, FS_Subset
<1> QED
  BY <1>1, <1>2, <1>3, <1>4, <1>6, <1>7, FS_CardinalityType

(* A call moves on. *)
LEMMA CallMoves ==
  ASSUME NEW cs, NEW n, Made(cs, n), NEW c \in DOMAIN cs, NEW x \in CallRecord, Kept(x, n),
         cs[c].pc # "recorded", x.pc \in {"waiting", "streaming"} => c \in Asked(cs)
  PROVE  /\ Made([cs EXCEPT ![c] = x], n)
         /\ Len([cs EXCEPT ![c] = x]) = Len(cs)
         /\ x.pc # "recorded" => Recorded([cs EXCEPT ![c] = x]) = Recorded(cs)
         /\ x.pc = "recorded" => /\ Recorded([cs EXCEPT ![c] = x]) = Recorded(cs) \cup {c}
                                 /\ c \notin Recorded(cs)
<1> DEFINE ds == [cs EXCEPT ![c] = x]
<1>0. Len(cs) \in Nat /\ DOMAIN cs = 1..Len(cs)
      /\ IsFiniteSet(Asked(cs)) /\ Cardinality(Asked(cs)) \in Nat
  BY CallFacts
<1>1. ds \in Seq(CallRecord) /\ Len(ds) = Len(cs)
  BY <1>0, ExceptSeq DEF Made
<1>2. DOMAIN ds = DOMAIN cs /\ ds[c] = x /\ \A d \in DOMAIN cs : d # c => ds[d] = cs[d]
  OBVIOUS
<1> HIDE DEF ds
<1>3. \A d \in DOMAIN ds : Kept(ds[d], n)
  BY <1>2 DEF Made
<1>4. Pending(ds) \subseteq Pending(cs)
  BY <1>2 DEF Pending
<1>5. Asked(ds) \in SUBSET Asked(cs)
  BY <1>2 DEF Asked
<1>6. Cardinality(Asked(ds)) <= Cardinality(Asked(cs))
  BY <1>0, <1>5, FS_Subset
<1>7. Cardinality(Asked(ds)) \in Nat
  BY <1>0, <1>5, FS_Subset, FS_CardinalityType
<1>8. Cardinality(Asked(ds)) <= Concurrency
  BY <1>0, <1>6, <1>7, PlanAssumption DEF Made
<1>9. Made(ds, n)
  BY <1>1, <1>3, <1>4, <1>8 DEF Made
<1>10. x.pc # "recorded" => Recorded(ds) = Recorded(cs)
  BY <1>2 DEF Recorded
<1>11. x.pc = "recorded" => Recorded(ds) = Recorded(cs) \cup {c} /\ c \notin Recorded(cs)
  BY <1>2 DEF Recorded
<1> QED
  BY <1>1, <1>9, <1>10, <1>11 DEF ds

(* One more call begins. *)
LEMMA CallBegins ==
  ASSUME Made(calls, now), now \in Nat, Begin
  PROVE  /\ Made(calls', now)
         /\ Len(calls') = Len(calls) + 1
         /\ Recorded(calls') = Recorded(calls)
<1> DEFINE k == Len(calls) + 1
<1>0. /\ Len(calls) \in Nat /\ DOMAIN calls = 1..Len(calls)
      /\ IsFiniteSet(Asked(calls)) /\ Cardinality(Asked(calls)) \in Nat
  BY CallFacts
<1>1. NewCall \in UnderWay /\ Timely(NewCall, now) /\ NewCall.pc = "waiting"
  BY DEF NewCall, UnderWay, Timely, Measure
<1>2. NewCall \in CallRecord /\ Kept(NewCall, now)
  BY <1>1 DEF CallRecord, Kept
<1>3. /\ calls' \in Seq(CallRecord) /\ Len(calls') = k
      /\ calls'[k] = NewCall /\ \A d \in 1..Len(calls) : calls'[d] = calls[d]
  BY <1>2, AppendProperties DEF Begin, Made
<1>4. DOMAIN calls' = 1..k
  BY <1>3, LenProperties
<1>5. \A d \in DOMAIN calls' : d = k \/ d \in DOMAIN calls
  BY <1>0, <1>4
<1>6. \A d \in DOMAIN calls' : Kept(calls'[d], now)
  BY <1>0, <1>2, <1>3, <1>5 DEF Made
<1>7. k <= Len(Plan)
  BY DEF Begin
<1>8. Pending(calls') = Pending(calls) \cup {k}
  BY <1>0, <1>1, <1>3, <1>4 DEF Pending
<1>9. \A d \in Pending(calls) : Plan[d].target = Plan[k].target
  BY DEF Begin, Pending, Unrecorded
<1>10. \A c, d \in Pending(calls') : Plan[c].target = Plan[d].target
  BY <1>8, <1>9
<1>11. Asked(calls') = Asked(calls) \cup {k} /\ k \notin Asked(calls)
  BY <1>0, <1>1, <1>3, <1>4 DEF Asked
<1>12. Cardinality(Asked(calls')) = Cardinality(Asked(calls)) + 1
  BY <1>0, <1>11, FS_AddElement
<1>13. Cardinality(Asked(calls)) < Concurrency
  BY DEF Begin, Asked, Unanswered
<1>14. Cardinality(Asked(calls')) <= Concurrency
  BY <1>0, <1>12, <1>13, PlanAssumption
<1>15. Recorded(calls') = Recorded(calls)
  BY <1>0, <1>1, <1>3, <1>4 DEF Recorded
<1> QED
  BY <1>3, <1>6, <1>7, <1>10, <1>14, <1>15 DEF Made

(* The chunks of a stream. *)
LEMMA CallStreams ==
  ASSUME Made(calls, now), now \in Nat, NEW c \in Unanswered,
         \/ \E hasText \in BOOLEAN : Delta(c, hasText)
         \/ \E tokens \in Counts : Usage(c, tokens)
  PROVE  /\ Made(calls', now)
         /\ Len(calls') = Len(calls)
         /\ Recorded(calls') = Recorded(calls)
<1>0. c \in Asked(calls) /\ c \in DOMAIN calls /\ calls[c] \in UnderWay /\ Timely(calls[c], now)
      /\ calls[c].pc # "recorded"
  BY CallFacts DEF Asked, Unanswered
<1>1. calls[c].start \in 0..now /\ calls[c].first \in Measure /\ calls[c].text \in Measure
  BY <1>0 DEF UnderWay, Timely
<1>2. \E x \in UnderWay : Timely(x, now) /\ calls' = [calls EXCEPT ![c] = x]
  <2>1. CASE \E hasText \in BOOLEAN : Delta(c, hasText)
    <3>1. PICK hasText \in BOOLEAN : Delta(c, hasText)
      BY <2>1
    <3> DEFINE first == IF calls[c].first = None THEN now ELSE calls[c].first
    <3> DEFINE text == IF calls[c].text = None /\ hasText THEN now ELSE calls[c].text
    <3> DEFINE x == [calls[c] EXCEPT !.pc = "streaming", !.first = first, !.text = text]
    <3>2. calls' = [calls EXCEPT ![c] = x]
      BY <1>0, <3>1 DEF Delta, UnderWay
    <3>3. first \in calls[c].start..now /\ first \in Measure /\ text \in Measure
      BY <1>0, <1>1 DEF UnderWay, Timely, Measure
    <3> HIDE DEF first, text
    <3>4. x \in UnderWay /\ x.start = calls[c].start /\ x.first = first /\ x.pc = "streaming"
      BY <1>0, <3>3 DEF UnderWay
    <3>5. Timely(x, now)
      BY <1>1, <3>3, <3>4 DEF Timely
    <3> QED
      BY <3>2, <3>4, <3>5
  <2>2. CASE \E tokens \in Counts : Usage(c, tokens)
    <3>1. PICK tokens \in Counts : Usage(c, tokens)
      BY <2>2
    <3> DEFINE x == [calls[c] EXCEPT !.tokens = tokens]
    <3>2. calls' = [calls EXCEPT ![c] = x]
      BY <3>1 DEF Usage
    <3>3. tokens \in Measure
      BY PlanAssumption DEF Measure
    <3>4. x \in UnderWay /\ x.start = calls[c].start /\ x.first = calls[c].first /\ x.pc = calls[c].pc
      BY <1>0, <3>3 DEF UnderWay
    <3>5. Timely(x, now)
      BY <1>0, <3>4 DEF Timely
    <3> QED
      BY <3>2, <3>4, <3>5
  <2> QED
    BY <2>1, <2>2
<1>3. PICK x \in UnderWay : Timely(x, now) /\ calls' = [calls EXCEPT ![c] = x]
  BY <1>2
<1>4. x \in CallRecord /\ Kept(x, now) /\ x.pc # "recorded"
  BY <1>3 DEF CallRecord, Kept, UnderWay
<1>5. /\ Made([calls EXCEPT ![c] = x], now)
      /\ Len([calls EXCEPT ![c] = x]) = Len(calls)
      /\ Recorded([calls EXCEPT ![c] = x]) = Recorded(calls)
  BY <1>0, <1>4, CallMoves
<1> QED
  BY <1>3, <1>5

(* The end of a call, of either kind. *)
LEMMA CallEnds ==
  ASSUME Made(calls, now), now \in Nat, NEW c \in Unanswered,
         \/ StreamEnds(c)
         \/ \E prompt, tokens \in Counts \cup {None}, pt, et \in Durations \cup {None} :
              OllamaAnswers(c, prompt, tokens, pt, et)
         \/ CallFails(c)
  PROVE  /\ Made(calls', now)
         /\ Len(calls') = Len(calls)
         /\ Recorded(calls') = Recorded(calls)
<1>0. /\ c \in Asked(calls) /\ c \in DOMAIN calls /\ c \in DOMAIN Plan /\ calls[c] \in UnderWay
      /\ Timely(calls[c], now) /\ calls[c].pc # "recorded"
  BY CallFacts DEF Asked, Unanswered
<1>1. \E row \in RowType : Measured(row, now) /\ Answered(c, row)
  <2>1. CASE StreamEnds(c)
    BY <1>0, <2>1, StreamedFits DEF StreamEnds
  <2>2. CASE CallFails(c)
    BY <1>0, <2>2, FailedFits DEF CallFails
  <2>3. CASE \E prompt, tokens \in Counts \cup {None}, pt, et \in Durations \cup {None} :
               OllamaAnswers(c, prompt, tokens, pt, et)
    <3>1. PICK prompt \in Counts \cup {None}, tokens \in Counts \cup {None},
               pt \in Durations \cup {None}, et \in Durations \cup {None} :
                 OllamaAnswers(c, prompt, tokens, pt, et)
      BY <2>3
    <3>2. prompt \in Measure /\ tokens \in Measure /\ pt \in Measure /\ et \in Measure
      BY PlanAssumption DEF Measure
    <3>3. At(c, "ollama") /\ Answered(c, OllamaRow(c, prompt, tokens, pt, et))
      BY <3>1 DEF OllamaAnswers
    <3> QED
      BY <1>0, <3>2, <3>3, OllamaFits
  <2> QED
    BY <2>1, <2>2, <2>3
<1>2. PICK row \in RowType : Measured(row, now) /\ Answered(c, row)
  BY <1>1
<1> DEFINE x == [pc |-> "answered", row |-> row]
<1>3. calls' = [calls EXCEPT ![c] = x]
  BY <1>2 DEF Answered
<1>4. x \in CallRecord /\ Kept(x, now) /\ x.pc = "answered"
  BY <1>2 DEF CallRecord, Kept
<1> HIDE DEF x
<1>5. /\ Made([calls EXCEPT ![c] = x], now)
      /\ Len([calls EXCEPT ![c] = x]) = Len(calls)
      /\ Recorded([calls EXCEPT ![c] = x]) = Recorded(calls)
  BY <1>0, <1>4, CallMoves
<1> QED
  BY <1>3, <1>5

(* Time goes on. *)
LEMMA CallsWait ==
  ASSUME NEW cs, NEW n \in Nat, NEW m \in Nat, n <= m, Made(cs, n)
  PROVE  Made(cs, m)
<1>1. ASSUME NEW c \in DOMAIN cs
      PROVE  Kept(cs[c], m)
  <2>1. cs[c] \in CallRecord /\ Kept(cs[c], n)
    BY <1>1, CallFacts DEF Made
  <2>2. CASE cs[c].pc \in {"waiting", "streaming"}
    <3>1. cs[c] \in UnderWay /\ Timely(cs[c], n)
      BY <1>1, <2>2, CallFacts DEF Asked
    <3>2. Timely(cs[c], m)
      BY <3>1 DEF UnderWay, Timely
    <3> QED
      BY <2>2, <3>2 DEF Kept
  <2>3. CASE cs[c].pc = "answered"
    <3>1. cs[c].row \in RowType
      BY <2>1, <2>3 DEF CallRecord, UnderWay
    <3> QED
      BY <2>1, <2>3, <3>1, StaysMeasured DEF Kept
  <2> QED
    BY <2>2, <2>3 DEF Kept
<1> QED
  BY <1>1 DEF Made

-----------------------------------------------------------------------------
(***************************************************************************)
(* The state.  A job is completed when every call of the plan is recorded; *)
(* so no row follows, and what is captured from then on is final.          *)
(***************************************************************************)
RowsKept ==
  /\ results \in Seq(RowType)
  /\ \A i \in DOMAIN results : Measured(results[i], now)
  /\ Cardinality(Recorded(calls)) = Len(results)
  /\ completed \in BOOLEAN
  /\ completed => Len(results) = Len(Plan)

PhaseFits ==
  /\ phase.call \in 0..Len(calls)
  /\ phase.name # "result_recorded" => phase.call \notin Recorded(calls)

SavesFit ==
  /\ pendingSaves \in 0..Len(results)
  /\ saving # None => results # <<>>
  /\ disk # None => disk.rows \in 1..Len(results)

(* Aggregates that are kept are those of the first rows. *)
Cached == cache # None =>
  /\ cache.n \in 0..Len(results)
  /\ cache.aggregates = Aggregates(SubSeq(results, 1, cache.n))

Captured(x, n) ==
  \E k \in 0..n :
    /\ x.aggregates = Aggregates(SubSeq(results, 1, k))
    /\ x.completed => completed /\ k = Len(results)

SavesAgree ==
  /\ saving # None => Captured(saving, Len(results))
  /\ disk # None => Captured(disk, disk.rows)

Orderly ==
  /\ now \in Nat
  /\ Made(calls, now)
  /\ RowsKept
  /\ PhaseFits
  /\ SavesFit
  /\ Cached
  /\ SavesAgree

LEMMA PrefixStays ==
  ASSUME NEW S, NEW s \in Seq(S), NEW x \in S, NEW k \in 0..Len(s)
  PROVE  SubSeq(Append(s, x), 1, k) = SubSeq(s, 1, k)
<1>0. Len(s) \in Nat
  BY LenProperties
<1>1. CASE k = 0
  <2>1. SubSeq(Append(s, x), 1, 0) = << >> /\ SubSeq(s, 1, 0) = << >>
    BY SubSeqEmpty
  <2> QED
    BY <1>1, <2>1
<1>2. CASE k # 0
  <2>1. Append(s, x) = s \o <<x>>
    BY AppendIsConcat
  <2>2. <<x>> \in Seq(S) /\ k \in 1..Len(s) /\ 1 \in 1..Len(s)
    BY <1>0, <1>2
  <2>3. SubSeq(s \o <<x>>, 1, k) = SubSeq(s, 1, k)
    BY <2>2, SubSeqOfConcat1
  <2> QED
    BY <2>1, <2>3
<1> QED
  BY <1>1, <1>2

(* Whoever asks gets the aggregates of the rows there are. *)
LEMMA FreshAggregates ==
  ASSUME RowsKept, Cached
  PROVE  AggregatedSpeed = Aggregates(results)
<1>1. SubSeq(results, 1, Len(results)) = results
  BY SubSeqFull DEF RowsKept
<1>2. CASE Hit
  BY <1>1, <1>2 DEF Hit, Cached, AggregatedSpeed
<1>3. CASE ~Hit
  BY <1>3 DEF AggregatedSpeed
<1> QED
  BY <1>2, <1>3

LEMMA AskingKeeps ==
  ASSUME RowsKept, Cached, AskAggregates, UNCHANGED results
  PROVE  Cached'
<1>1. SubSeq(results, 1, Len(results)) = results /\ Len(results) \in Nat
  BY SubSeqFull, LenProperties DEF RowsKept
<1>2. CASE Hit
  BY <1>2 DEF AskAggregates, Cached
<1>3. CASE ~Hit
  <2>1. cache'.n = Len(results) /\ cache'.aggregates = Aggregates(results)
    BY <1>3 DEF AskAggregates
  <2>2. cache'.n \in 0..Len(results)
    BY <1>1, <2>1
  <2>3. SubSeq(results, 1, cache'.n) = results
    BY <1>1, <2>1
  <2> QED
    BY <2>1, <2>2, <2>3 DEF Cached
<1> QED
  BY <1>2, <1>3

(* Steps that leave the rows alone. *)
LEMMA SameRows ==
  ASSUME Orderly, now' \in Nat, now <= now', UNCHANGED <<results, completed>>,
         Recorded(calls') = Recorded(calls)
  PROVE  RowsKept'
<1>1. \A i \in DOMAIN results : results[i] \in RowType
  BY LenProperties, ElementOfSeq DEF Orderly, RowsKept
<1>2. \A i \in DOMAIN results : Measured(results[i], now')
  BY <1>1, StaysMeasured DEF Orderly, RowsKept
<1> QED
  BY <1>2 DEF Orderly, RowsKept

LEMMA SameSaves ==
  ASSUME Orderly, UNCHANGED <<results, pendingSaves, saving, disk, cache>>,
         completed' = completed \/ completed'
  PROVE  SavesFit' /\ Cached' /\ SavesAgree'
<1>1. SavesFit'
  BY DEF Orderly, SavesFit
<1>2. Cached'
  BY DEF Orderly, Cached
<1>3. SavesAgree'
  BY DEF Orderly, SavesAgree, Captured
<1> QED
  BY <1>1, <1>2, <1>3

LEMMA RecordNext ==
  ASSUME Orderly, NEW c, Record(c)
  PROVE  Orderly'
<1>0. /\ Len(calls) \in Nat /\ DOMAIN calls = 1..Len(calls) /\ c \in DOMAIN calls
      /\ calls[c] \in CallRecord /\ calls[c].pc = "answered"
      /\ IsFiniteSet(Recorded(calls)) /\ Kept(calls[c], now)
  BY CallFacts DEF Orderly, Record, Made
<1>1. Len(results) \in Nat /\ DOMAIN results = 1..Len(results)
  BY LenProperties DEF Orderly, RowsKept
<1> DEFINE x == [pc |-> "recorded"]
<1> DEFINE row == calls[c].row
<1>2. x \in CallRecord /\ Kept(x, now) /\ x.pc = "recorded"
  BY DEF CallRecord, Kept
<1>3. row \in RowType /\ Measured(row, now)
  BY <1>0 DEF CallRecord, UnderWay, Kept
<1>4. calls' = [calls EXCEPT ![c] = x] /\ results' = Append(results, row)
      /\ pendingSaves' = pendingSaves + 1 /\ phase' = [name |-> "result_recorded", call |-> c]
      /\ UNCHANGED <<now, completed, cache, saving, disk>>
  BY DEF Record, SetPhase
<1> HIDE DEF x, row
<1>5. /\ Made([calls EXCEPT ![c] = x], now)
      /\ Len([calls EXCEPT ![c] = x]) = Len(calls)
      /\ Recorded([calls EXCEPT ![c] = x]) = Recorded(calls) \cup {c}
      /\ c \notin Recorded(calls)
  <2>1. Made(calls, now) /\ calls[c].pc # "recorded" /\ x.pc \notin {"waiting", "streaming"}
    BY <1>0, <1>2 DEF Orderly
  <2>2. c \in DOMAIN calls /\ x \in CallRecord /\ Kept(x, now) /\ x.pc = "recorded"
    BY <1>0, <1>2
  <2>3. /\ Made([calls EXCEPT ![c] = x], now)
        /\ Len([calls EXCEPT ![c] = x]) = Len(calls)
    BY <2>1, <2>2, CallMoves
  <2>4. Recorded([calls EXCEPT ![c] = x]) = Recorded(calls) \cup {c}
    BY <2>1, <2>2, CallMoves
  <2>5. c \notin Recorded(calls)
    BY <2>1 DEF Recorded
  <2> QED
    BY <2>3, <2>4, <2>5
<1>6. Made(calls', now') /\ Len(calls') = Len(calls) /\ Recorded(calls') = Recorded(calls) \cup {c}
  BY <1>4, <1>5
<1>7. /\ results' \in Seq(RowType) /\ Len(results') = Len(results) + 1
      /\ results'[Len(results) + 1] = row
      /\ \A i \in 1..Len(results) : results'[i] = results[i]
  BY <1>3, <1>4, AppendProperties DEF Orderly, RowsKept
<1>8. Cardinality(Recorded(calls')) = Len(results')
  BY <1>0, <1>5, <1>6, <1>7, FS_AddElement DEF Orderly, RowsKept
(* A row only follows as long as the job is not completed. *)
<1>9. ~completed
  <2>1. SUFFICES ASSUME completed
                 PROVE  FALSE
    OBVIOUS
  <2>2. Len(results) = Len(Plan) /\ Len(calls) <= Len(Plan)
    BY <2>1 DEF Orderly, RowsKept, Made
  <2>3. IsFiniteSet(DOMAIN calls) /\ Cardinality(DOMAIN calls) = Len(calls)
    BY <1>0, FS_Interval
  <2>4. Recorded(calls) \in SUBSET DOMAIN calls
    BY DEF Recorded
  <2>5. Cardinality(Recorded(calls)) <= Len(calls)
    BY <2>3, <2>4, FS_Subset
  <2>6. Cardinality(Recorded(calls)) = Len(results)
    BY DEF Orderly, RowsKept
  <2>7. Cardinality(Recorded(calls)) = Cardinality(DOMAIN calls)
    BY <1>0, <1>1, <2>2, <2>3, <2>5, <2>6, Planned
  <2>8. Recorded(calls) = DOMAIN calls
    BY <2>3, <2>4, <2>7, FS_Subset
  <2> QED
    BY <1>0, <1>5, <2>8
<1>10. RowsKept'
  <2>1. DOMAIN results' = 1..(Len(results) + 1)
    BY <1>7, LenProperties
  <2>2. \A i \in DOMAIN results' : Measured(results'[i], now')
    BY <1>1, <1>3, <1>4, <1>7, <2>1 DEF Orderly, RowsKept
  <2> QED
    BY <1>4, <1>7, <1>8, <1>9, <2>2 DEF Orderly, RowsKept
<1>11. PhaseFits'
  BY <1>0, <1>4, <1>6 DEF PhaseFits
<1>12. SavesFit'
  <2>1. pendingSaves' \in 0..Len(results') /\ results' # <<>>
    BY <1>1, <1>4, <1>7 DEF Orderly, SavesFit
  <2>2. disk # None => disk.rows \in 1..Len(results')
    BY <1>1, <1>7 DEF Orderly, SavesFit
  <2> QED
    BY <1>4, <2>1, <2>2 DEF SavesFit
<1>13. \A k \in 0..Len(results) : k \in 0..Len(results') /\ SubSeq(results', 1, k) = SubSeq(results, 1, k)
  BY <1>1, <1>3, <1>4, <1>7, PrefixStays DEF Orderly, RowsKept
<1>14. Cached'
  BY <1>4, <1>13 DEF Orderly, Cached
<1>15. SavesAgree'
  <2>1. saving # None => \E k \in 0..Len(results') :
          /\ saving.aggregates = Aggregates(SubSeq(results', 1, k))
          /\ ~saving.completed
    BY <1>9, <1>13 DEF Orderly, SavesAgree, Captured
  <2>2. disk # None => \E k \in 0..disk.rows :
          /\ disk.aggregates = Aggregates(SubSeq(results', 1, k))
          /\ ~disk.completed
    <3>1. \A k \in 0..disk.rows : disk.rows \in 1..Len(results) => k \in 0..Len(results)
      BY <1>1
    <3> QED
      BY <1>9, <1>13, <3>1 DEF Orderly, SavesFit, SavesAgree, Captured
  <2> QED
    BY <1>4, <2>1, <2>2 DEF SavesAgree, Captured
<1> QED
  BY <1>4, <1>6, <1>10, <1>11, <1>12, <1>14, <1>15 DEF Orderly

(* The phase is about the call that takes a step, or stays. *)
LEMMA PhaseMoves ==
  ASSUME PhaseFits, Made(calls, now), Made(calls', now), Len(calls) <= Len(calls'),
         Recorded(calls') = Recorded(calls),
         \/ UNCHANGED phase
         \/ \E c \in DOMAIN calls' \ Recorded(calls') : \E name : SetPhase(name, c)
  PROVE  PhaseFits'
<1>0. Len(calls) \in Nat /\ Len(calls') \in Nat /\ DOMAIN calls' = 1..Len(calls')
  BY CallFacts
<1>1. CASE UNCHANGED phase
  BY <1>0, <1>1 DEF PhaseFits
<1>2. CASE \E c \in DOMAIN calls' \ Recorded(calls') : \E name : SetPhase(name, c)
  BY <1>0, <1>2 DEF PhaseFits, SetPhase
<1> QED
  BY <1>1, <1>2

(* A call under way, at its beginning, in its stream or at its end. *)
LEMMA CallNext ==
  ASSUME Orderly, Begin \/ StreamStep
  PROVE  Orderly'
<1>0. now \in Nat /\ Made(calls, now) /\ Len(calls) \in Nat /\ DOMAIN calls = 1..Len(calls)
  BY CallFacts DEF Orderly
<1>1. CASE Begin
  <2>1. /\ Made(calls', now) /\ Len(calls') = Len(calls) + 1
        /\ Recorded(calls') = Recorded(calls)
    BY <1>0, <1>1, CallBegins
  <2>2. UNCHANGED <<now, results, completed, cache, pendingSaves, saving, disk>>
    BY <1>1 DEF Begin
  <2>3. Len(calls) + 1 \in DOMAIN calls' /\ Len(calls) + 1 \notin Recorded(calls')
    <3>1. DOMAIN calls' = 1..Len(calls')
      BY <2>1, CallFacts
    <3> QED
      BY <1>0, <2>1, <3>1 DEF Recorded
  <2>4. \E name : SetPhase(name, Len(calls) + 1)
    BY <1>1 DEF Begin
  <2>5. PhaseFits'
    <3>1. PhaseFits /\ Len(calls) <= Len(calls')
      BY <1>0, <2>1 DEF Orderly
    <3>2. \E c \in DOMAIN calls' \ Recorded(calls') : \E name : SetPhase(name, c)
      BY <2>3, <2>4
    <3> QED
      BY <1>0, <2>1, <3>1, <3>2, PhaseMoves
  <2>6. RowsKept' /\ SavesFit' /\ Cached' /\ SavesAgree'
    BY <1>0, <2>1, <2>2, SameRows, SameSaves
  <2> QED
    BY <1>0, <2>1, <2>2, <2>5, <2>6 DEF Orderly
<1>2. CASE StreamStep
  <2>1. PICK c \in Unanswered :
          \/ \E hasText \in BOOLEAN : Delta(c, hasText)
          \/ \E tokens \in Counts : Usage(c, tokens)
          \/ StreamEnds(c)
          \/ \E prompt, tokens \in Counts \cup {None}, pt, et \in Durations \cup {None} :
               OllamaAnswers(c, prompt, tokens, pt, et)
          \/ CallFails(c)
    BY <1>2 DEF StreamStep
  <2>2. /\ Made(calls', now) /\ Len(calls') = Len(calls)
        /\ Recorded(calls') = Recorded(calls)
    BY <1>0, <2>1, CallStreams, CallEnds
  <2>3. UNCHANGED <<now, results, completed, cache, pendingSaves, saving, disk>>
    BY <2>1 DEF Delta, Usage, StreamEnds, OllamaAnswers, CallFails
  <2>4. c \in DOMAIN calls' /\ c \notin Recorded(calls')
    <3>1. DOMAIN calls' = 1..Len(calls')
      BY <2>2, CallFacts
    <3> QED
      BY <1>0, <2>2, <3>1 DEF Recorded, Unanswered
  <2>5. UNCHANGED phase \/ \E name : SetPhase(name, c)
    BY <2>1 DEF Delta, Usage, StreamEnds, OllamaAnswers, CallFails
  <2>6. PhaseFits'
    <3>1. PhaseFits /\ Len(calls) <= Len(calls')
      BY <1>0, <2>2 DEF Orderly
    <3>2. \/ UNCHANGED phase
          \/ \E d \in DOMAIN calls' \ Recorded(calls') : \E name : SetPhase(name, d)
      BY <2>4, <2>5
    <3> QED
      BY <1>0, <2>2, <3>1, <3>2, PhaseMoves
  <2>7. RowsKept' /\ SavesFit' /\ Cached' /\ SavesAgree'
    BY <1>0, <2>2, <2>3, SameRows, SameSaves
  <2> QED
    BY <1>0, <2>2, <2>3, <2>6, <2>7 DEF Orderly
<1> QED
  BY <1>1, <1>2

(* Aggregates and status are captured together, the rows when they are written. *)
LEMMA SaveNext ==
  ASSUME Orderly, SaveStep
  PROVE  Orderly'
<1>0. /\ Len(results) \in Nat /\ results \in Seq(RowType) /\ now \in Nat
      /\ UNCHANGED <<now, calls, results, completed, phase>>
  BY LenProperties DEF Orderly, RowsKept, SaveStep, SaveBegins, SaveWrites, FinalSave, Capture
<1>1. RowsKept' /\ PhaseFits' /\ Made(calls', now')
  BY <1>0, SameRows DEF Orderly, PhaseFits
<1>2. CASE SaveBegins \/ FinalSave
  <2>1. Capture /\ pendingSaves' \in 0..Len(results) /\ results # <<>>
    <3>1. CASE SaveBegins
      <4>1. Len(results) # 0
        BY <1>0, <3>1 DEF SaveBegins, Orderly, SavesFit
      <4> QED
        BY <1>0, <3>1, <4>1 DEF SaveBegins, Orderly, SavesFit
    <3>2. CASE FinalSave
      BY <1>0, <3>2 DEF FinalSave, Orderly, SavesFit
    <3> QED
      BY <1>2, <3>1, <3>2
  <2>2. saving' = [completed |-> completed, aggregates |-> Aggregates(results)]
        /\ disk' = disk /\ AskAggregates
    BY <2>1, FreshAggregates DEF Capture, Orderly
  <2>3. SavesFit'
    BY <1>0, <2>1, <2>2 DEF SavesFit, Orderly
  <2>4. Cached'
    BY <1>0, <2>2, AskingKeeps DEF Orderly
  <2>5. saving'.aggregates = Aggregates(SubSeq(results, 1, Len(results)))
        /\ saving'.completed = completed
    BY <1>0, <2>2, SubSeqFull
  <2>6. Len(results) \in 0..Len(results)
    BY <1>0
  <2>7. SavesAgree'
    BY <1>0, <2>2, <2>5, <2>6 DEF SavesAgree, Captured, Orderly
  <2> QED
    BY <1>0, <1>1, <2>3, <2>4, <2>7 DEF Orderly
<1>3. CASE SaveWrites
  <2>1. /\ saving # None /\ saving' = None
        /\ disk'.completed = saving.completed /\ disk'.aggregates = saving.aggregates
        /\ disk'.rows = Len(results)
        /\ UNCHANGED <<cache, pendingSaves>>
    BY <1>3 DEF SaveWrites
  <2>2. Len(results) # 0
    BY <1>0, <2>1, EmptySeq DEF Orderly, SavesFit
  <2>3. SavesFit'
    BY <1>0, <2>1, <2>2 DEF Orderly, SavesFit
  <2>4. Cached'
    BY <1>0, <2>1 DEF Orderly, Cached
  <2>5. SavesAgree'
    BY <1>0, <2>1 DEF Orderly, SavesAgree, Captured
  <2> QED
    BY <1>0, <1>1, <2>3, <2>4, <2>5 DEF Orderly
<1> QED
  BY <1>2, <1>3 DEF SaveStep

LEMMA OrderlyNext ==
  ASSUME Orderly, [Next]_vars
  PROVE  Orderly'
<1>1. CASE Begin \/ StreamStep
  BY <1>1, CallNext
<1>2. CASE \E c \in DOMAIN calls : Record(c)
  BY <1>2, RecordNext
<1>3. CASE Complete
  <2>1. UNCHANGED <<now, calls, results, phase, cache, pendingSaves, saving, disk>>
        /\ completed' = TRUE /\ Len(results) = Len(Plan)
    BY <1>3 DEF Complete
  <2>2. RowsKept' /\ PhaseFits'
    BY <2>1 DEF Orderly, RowsKept, PhaseFits
  <2>3. SavesFit' /\ Cached' /\ SavesAgree'
    BY <2>1, SameSaves
  <2> QED
    BY <2>1, <2>2, <2>3 DEF Orderly
<1>4. CASE Poll
  <2>1. UNCHANGED <<now, calls, results, completed, phase, pendingSaves, saving, disk>>
        /\ AskAggregates
    BY <1>4 DEF Poll
  <2>2. Cached'
    BY <2>1, AskingKeeps DEF Orderly
  <2>3. RowsKept' /\ PhaseFits' /\ SavesFit' /\ SavesAgree'
    BY <2>1 DEF Orderly, RowsKept, PhaseFits, SavesFit, SavesAgree, Captured
  <2> QED
    BY <2>1, <2>2, <2>3 DEF Orderly
<1>5. CASE SaveStep
  BY <1>5, SaveNext
<1>6. CASE Tick
  <2>1. UNCHANGED <<calls, results, completed, phase, cache, pendingSaves, saving, disk>>
        /\ now' = now + Second
    BY <1>6 DEF Tick
  <2>2. now \in Nat /\ now' \in Nat /\ now <= now'
    BY <2>1 DEF Orderly, Second
  <2>3. RowsKept'
    BY <2>1, <2>2, SameRows
  <2>4. Made(calls', now')
    BY <2>1, <2>2, CallsWait DEF Orderly
  <2>5. PhaseFits' /\ SavesFit' /\ Cached' /\ SavesAgree'
    BY <2>1, SameSaves DEF Orderly, PhaseFits
  <2> QED
    BY <2>2, <2>3, <2>4, <2>5 DEF Orderly
<1>7. CASE UNCHANGED vars
  <2>1. UNCHANGED <<now, calls, results, completed, phase, cache, pendingSaves, saving, disk>>
    BY <1>7 DEF vars
  <2>2. RowsKept' /\ PhaseFits' /\ SavesFit' /\ Cached' /\ SavesAgree'
    BY <2>1, SameSaves DEF Orderly, RowsKept, PhaseFits
  <2> QED
    BY <2>1, <2>2 DEF Orderly
<1> QED
  BY <1>1, <1>2, <1>3, <1>4, <1>5, <1>6, <1>7 DEF Next

LEMMA OrderlyInit == Init => Orderly
<1> SUFFICES ASSUME Init
             PROVE  Orderly
  OBVIOUS
<1>1. \A S : << >> \in Seq(S) /\ Len(<< >>) = 0
  OBVIOUS
<1>2. /\ calls = << >> /\ results = << >> /\ now = 0 /\ completed = FALSE /\ pendingSaves = 0
      /\ cache = None /\ saving = None /\ disk = None /\ phase.call = 0
  BY DEF Init, NoPhase
<1>3. Asked(calls) = {} /\ Recorded(calls) = {} /\ Pending(calls) = {}
  BY <1>2 DEF Asked, Recorded, Pending
<1>4. Cardinality({}) = 0
  BY FS_EmptySet
<1>5. Made(calls, now)
  <2>1. Len(calls) <= Len(Plan)
    BY <1>1, <1>2, Planned
  <2>2. Cardinality(Asked(calls)) <= Concurrency
    BY <1>3, <1>4, PlanAssumption
  <2> QED
    BY <1>1, <1>2, <1>3, <2>1, <2>2 DEF Made
<1>6. RowsKept
  <2>1. results \in Seq(RowType) /\ Len(results) = 0
    BY <1>1, <1>2
  <2>2. Cardinality(Recorded(calls)) = Len(results)
    BY <1>3, <1>4, <2>1
  <2>3. \A i \in DOMAIN results : Measured(results[i], now)
    BY <1>2
  <2>4. completed = FALSE
    BY <1>2
  <2> QED
    BY <2>1, <2>2, <2>3, <2>4 DEF RowsKept
<1>7. PhaseFits /\ SavesFit /\ Cached /\ SavesAgree
  BY <1>1, <1>2, <1>3 DEF PhaseFits, SavesFit, Cached, SavesAgree
<1> QED
  BY <1>2, <1>5, <1>6, <1>7 DEF Orderly

LEMMA OrderlyAlways == Spec => []Orderly
BY OrderlyInit, OrderlyNext, PTL DEF Spec

-----------------------------------------------------------------------------
(***************************************************************************)
(* Whose row is whose.  A call that is answered holds a row of its own     *)
(* name, and recording it moves one call and one row to the record: for    *)
(* every set of names there are as many rows as recorded calls of them.    *)
(***************************************************************************)
CallType == [target : Targets, model : Nat, index : 1..RepeatCount]

NamedRight(cs) ==
  \A c \in DOMAIN cs : cs[c].pc = "answered" => Named(cs[c].row) = Plan[c]

RowsNamed(rows, S) == {k \in DOMAIN rows : Named(rows[k]) \in S}
CallsNamed(cs, S) == {c \in Recorded(cs) : Plan[c] \in S}

Attributed ==
  /\ NamedRight(calls)
  /\ \A S \in SUBSET CallType :
       Cardinality(RowsNamed(results, S)) = Cardinality(CallsNamed(calls, S))

LEMMA RowIsNamed ==
  ASSUME NEW c \in DOMAIN Plan, NEW success, NEW m
  PROVE  Named(Row(c, success, m)) = Plan[c]
<1>1. Plan[c] \in CallType
  BY Planned, PlanAssumption, ElementOfSeq DEF CallType
<1>2. Plan[c] = [target |-> Plan[c].target, model |-> Plan[c].model, index |-> Plan[c].index]
  BY <1>1 DEF CallType
<1>3. /\ Row(c, success, m).target = Plan[c].target
      /\ Row(c, success, m).model = Plan[c].model
      /\ Row(c, success, m).index = Plan[c].index
  BY DEF Row
<1> QED
  BY <1>2, <1>3 DEF Named

(* Calls that begin, stream or end hold no row of another name. *)
LEMMA CallsKeepNames ==
  ASSUME Made(calls, now), now \in Nat, NamedRight(calls), Begin \/ StreamStep
  PROVE  NamedRight(calls') /\ Recorded(calls') = Recorded(calls)
<1>0. /\ Len(calls) \in Nat /\ DOMAIN calls = 1..Len(calls) /\ DOMAIN calls \subseteq DOMAIN Plan
      /\ calls \in Seq(CallRecord)
  BY CallFacts DEF Made
<1>1. CASE Begin
  <2>1. Recorded(calls') = Recorded(calls)
    BY <1>0, <1>1, CallBegins
  <2>2. NewCall \in CallRecord /\ NewCall.pc = "waiting"
    BY DEF NewCall, CallRecord, UnderWay, Measure
  <2>3. /\ DOMAIN calls' = 1..(Len(calls) + 1) /\ calls'[Len(calls) + 1] = NewCall
        /\ \A d \in 1..Len(calls) : calls'[d] = calls[d]
    BY <1>0, <1>1, <2>2, AppendProperties, LenProperties DEF Begin
  <2>4. \A d \in DOMAIN calls' : d \in DOMAIN calls \/ d = Len(calls) + 1
    BY <1>0, <2>3
  <2> QED
    BY <1>0, <2>1, <2>2, <2>3, <2>4 DEF NamedRight
<1>2. CASE StreamStep
  <2>1. PICK c \in Unanswered :
          \/ \E hasText \in BOOLEAN : Delta(c, hasText)
          \/ \E tokens \in Counts : Usage(c, tokens)
          \/ StreamEnds(c)
          \/ \E prompt, tokens \in Counts \cup {None}, pt, et \in Durations \cup {None} :
               OllamaAnswers(c, prompt, tokens, pt, et)
          \/ CallFails(c)
    BY <1>2 DEF StreamStep
  <2>2. Recorded(calls') = Recorded(calls)
    BY <1>0, <2>1, CallStreams, CallEnds
  <2>3. c \in DOMAIN calls /\ c \in DOMAIN Plan /\ calls[c] \in UnderWay
    BY <1>0, CallFacts DEF Asked, Unanswered
  <2>4. \E x : calls' = [calls EXCEPT ![c] = x] /\ (x.pc = "answered" => Named(x.row) = Plan[c])
    <3>1. CASE \E hasText \in BOOLEAN : Delta(c, hasText)
      <4>1. PICK hasText \in BOOLEAN : Delta(c, hasText)
        BY <3>1
      <4> DEFINE x == [calls[c] EXCEPT
                         !.pc = "streaming",
                         !.first = IF calls[c].first = None THEN now ELSE calls[c].first,
                         !.text = IF calls[c].text = None /\ hasText THEN now ELSE calls[c].text]
      <4>2. calls' = [calls EXCEPT ![c] = x]
        BY <2>3, <4>1 DEF Delta, UnderWay
      <4>3. x.pc = "streaming"
        BY <2>3 DEF UnderWay
      <4> QED
        BY <4>2, <4>3
    <3>2. CASE \E tokens \in Counts : Usage(c, tokens)
      <4>1. PICK tokens \in Counts : Usage(c, tokens)
        BY <3>2
      <4> DEFINE x == [calls[c] EXCEPT !.tokens = tokens]
      <4>2. calls' = [calls EXCEPT ![c] = x]
        BY <4>1 DEF Usage
      <4>3. x.pc # "answered"
        BY <2>3 DEF UnderWay
      <4> QED
        BY <4>2, <4>3
    <3>3. ASSUME NEW success, NEW m, Answered(c, Row(c, success, m))
          PROVE  \E x : calls' = [calls EXCEPT ![c] = x] /\ (x.pc = "answered" => Named(x.row) = Plan[c])
      <4> DEFINE row == Row(c, success, m)
      <4>1. Named(row) = Plan[c]
        BY <2>3, RowIsNamed
      <4> HIDE DEF row
      <4> DEFINE x == [pc |-> "answered", row |-> row]
      <4>2. calls' = [calls EXCEPT ![c] = x]
        BY <3>3 DEF Answered, row
      <4>3. x.row = row
        OBVIOUS
      <4> HIDE DEF x
      <4> QED
        BY <4>1, <4>2, <4>3
    <3>4. CASE \/ StreamEnds(c)
               \/ \E prompt, tokens \in Counts \cup {None}, pt, et \in Durations \cup {None} :
                    OllamaAnswers(c, prompt, tokens, pt, et)
               \/ CallFails(c)
      <4>1. \E success, m : Answered(c, Row(c, success, m))
        BY <3>4 DEF StreamEnds, OllamaAnswers, CallFails, StreamedRow, OllamaRow, FailedRow
      <4> QED
        BY <3>3, <4>1
    <3> QED
      BY <2>1, <3>1, <3>2, <3>4
  <2>5. PICK x : calls' = [calls EXCEPT ![c] = x] /\ (x.pc = "answered" => Named(x.row) = Plan[c])
    BY <2>4
  <2>6. DOMAIN calls' = DOMAIN calls /\ calls'[c] = x /\ \A d \in DOMAIN calls : d # c => calls'[d] = calls[d]
    BY <2>3, <2>5
  <2> QED
    BY <2>2, <2>5, <2>6 DEF NamedRight
<1> QED
  BY <1>1, <1>2

(* The row of a recorded call joins the rows as the call joins the recorded. *)
LEMMA RecordKeepsNames ==
  ASSUME Orderly, Attributed, NEW c \in DOMAIN calls, Record(c)
  PROVE  Attributed'
<1>0. /\ Len(calls) \in Nat /\ DOMAIN calls = 1..Len(calls) /\ c \in DOMAIN Plan
      /\ calls[c].pc = "answered" /\ IsFiniteSet(Recorded(calls)) /\ NamedRight(calls)
  BY CallFacts DEF Orderly, Record, Attributed
<1>1. results \in Seq(RowType) /\ Len(results) \in Nat /\ DOMAIN results = 1..Len(results)
  BY LenProperties DEF Orderly, RowsKept
<1> DEFINE row == calls[c].row
           n == Len(results) + 1
<1>2. row \in RowType
  <2>1. calls[c] \in CallRecord
    BY CallFacts DEF Orderly
  <2> QED
    BY <1>0, <2>1 DEF CallRecord, UnderWay
<1>3. Named(row) = Plan[c] /\ results' = Append(results, row)
      /\ calls' = [calls EXCEPT ![c] = [pc |-> "recorded"]]
  BY <1>0 DEF Record, NamedRight
<1> HIDE DEF row
<1>4. /\ DOMAIN results' = 1..n /\ results'[n] = row
      /\ \A k \in 1..Len(results) : results'[k] = results[k]
  BY <1>1, <1>2, <1>3, AppendProperties, LenProperties
<1>5. /\ DOMAIN calls' = DOMAIN calls /\ calls'[c].pc = "recorded"
      /\ \A d \in DOMAIN calls : d # c => calls'[d] = calls[d]
  BY <1>3
<1>6. NamedRight(calls')
  BY <1>0, <1>5 DEF NamedRight
<1>7. Recorded(calls') = Recorded(calls) \cup {c} /\ c \notin Recorded(calls)
  BY <1>0, <1>5 DEF Recorded
<1>8. ASSUME NEW S \in SUBSET CallType
      PROVE  Cardinality(RowsNamed(results', S)) = Cardinality(CallsNamed(calls', S))
  <2>1. Cardinality(RowsNamed(results, S)) = Cardinality(CallsNamed(calls, S))
    BY DEF Attributed
  <2>2. IsFiniteSet(RowsNamed(results, S)) /\ IsFiniteSet(CallsNamed(calls, S))
    <3>1. RowsNamed(results, S) \in SUBSET (1..Len(results))
      BY <1>1 DEF RowsNamed
    <3>2. CallsNamed(calls, S) \in SUBSET Recorded(calls)
      BY DEF CallsNamed
    <3>3. IsFiniteSet(1..Len(results))
      BY <1>1, FS_Interval
    <3> QED
      BY <1>0, <3>1, <3>2, <3>3, FS_Subset
  <2>3. CASE Plan[c] \in S
    <3>1. RowsNamed(results', S) = RowsNamed(results, S) \cup {n} /\ n \notin RowsNamed(results, S)
      <4>1. n \notin 1..Len(results) /\ 1..n = 1..Len(results) \cup {n}
        BY <1>1
      <4> QED
        BY <1>1, <1>3, <1>4, <2>3, <4>1 DEF RowsNamed
    <3>2. CallsNamed(calls', S) = CallsNamed(calls, S) \cup {c} /\ c \notin CallsNamed(calls, S)
      BY <1>7, <2>3 DEF CallsNamed
    <3>3. Cardinality(RowsNamed(results', S)) = Cardinality(RowsNamed(results, S)) + 1
      BY <2>2, <3>1, FS_AddElement
    <3>4. Cardinality(CallsNamed(calls', S)) = Cardinality(CallsNamed(calls, S)) + 1
      BY <2>2, <3>2, FS_AddElement
    <3> QED
      BY <2>1, <3>3, <3>4
  <2>4. CASE Plan[c] \notin S
    <3>1. RowsNamed(results', S) = RowsNamed(results, S)
      <4>1. n \notin 1..Len(results) /\ 1..n = 1..Len(results) \cup {n}
        BY <1>1
      <4> QED
        BY <1>1, <1>3, <1>4, <2>4, <4>1 DEF RowsNamed
    <3>2. CallsNamed(calls', S) = CallsNamed(calls, S)
      BY <1>7, <2>4 DEF CallsNamed
    <3> QED
      BY <2>1, <3>1, <3>2
  <2> QED
    BY <2>3, <2>4
<1> QED
  BY <1>6, <1>8 DEF Attributed

LEMMA AttributedAlways == Spec => []Attributed
<1>1. Init => Attributed
  <2> SUFFICES ASSUME Init
               PROVE  Attributed
    OBVIOUS
  <2>1. DOMAIN calls = {} /\ DOMAIN results = {}
    BY DEF Init
  <2>2. \A S \in SUBSET CallType : RowsNamed(results, S) = {} /\ CallsNamed(calls, S) = {}
    BY <2>1 DEF RowsNamed, CallsNamed, Recorded
  <2> QED
    BY <2>1, <2>2 DEF Attributed, NamedRight
<1>2. Orderly /\ Attributed /\ [Next]_vars => Attributed'
  <2> SUFFICES ASSUME Orderly, Attributed, [Next]_vars
               PROVE  Attributed'
    OBVIOUS
  <2>1. CASE Begin \/ StreamStep
    <3>1. UNCHANGED results
      BY <2>1 DEF Begin, StreamStep, Delta, Usage, StreamEnds, OllamaAnswers, CallFails
    <3>2. NamedRight(calls') /\ Recorded(calls') = Recorded(calls)
      BY <2>1, CallsKeepNames DEF Orderly, Attributed
    <3> QED
      BY <3>1, <3>2 DEF Attributed, CallsNamed
  <2>2. CASE \E c \in DOMAIN calls : Record(c)
    BY <2>2, RecordKeepsNames
  <2>3. CASE UNCHANGED <<calls, results>>
    BY <2>3 DEF Attributed
  <2>4. Complete \/ Poll \/ SaveStep \/ Tick \/ UNCHANGED vars => UNCHANGED <<calls, results>>
    BY DEF Complete, Poll, SaveStep, SaveBegins, SaveWrites, FinalSave, Capture, Tick, vars
  <2> QED
    BY <2>1, <2>2, <2>3, <2>4 DEF Next
<1> QED
  BY <1>1, <1>2, OrderlyAlways, PTL DEF Spec

-----------------------------------------------------------------------------
(***************************************************************************)
(* What the aggregates of a list of rows say.  Sorting and summing are     *)
(* matters of induction: over the size of a set.                           *)
(***************************************************************************)
(* Induction, of a set of numbers in place of a predicate. *)
LEMMA AllNumbers ==
  ASSUME NEW T \in SUBSET Nat, 0 \in T, \A n \in T : n + 1 \in T
  PROVE  T = Nat
<1> SUFFICES ASSUME Nat \ T # {}
             PROVE  FALSE
  OBVIOUS
<1> DEFINE Less == {pair \in Nat \X Nat : pair[1] < pair[2]}
<1>1. IsWellFoundedOn(Less, Nat)
  BY NatLessThanWellFounded, Zenon DEF OpToRel
<1>2. PICK x \in Nat \ T : \A y \in Nat \ T : ~(<<y, x>> \in Less)
  <2> HIDE DEF Less
  <2> QED
    BY <1>1, WFMin
<1>3. x # 0 /\ x - 1 \in Nat /\ x - 1 < x /\ x = (x - 1) + 1
  BY <1>2
<1>4. x - 1 \in T
  BY <1>2, <1>3
<1> QED
  BY <1>2, <1>3, <1>4

(***************************************************************************)
(* Sorting.  An order is a set of pairs.                                   *)
(***************************************************************************)
Orders(R, S) ==
  /\ \A x, y \in S : x # y => <<x, y>> \in R \/ <<y, x>> \in R
  /\ \A x, y, z \in S : <<x, y>> \in R /\ <<y, z>> \in R => <<x, z>> \in R
  /\ \A x \in S : <<x, x>> \notin R

IsLast(x, S, R) == x \in S /\ \A y \in S \ {x} : <<y, x>> \in R

LEMMA SomeLast ==
  ASSUME NEW S, IsFiniteSet(S), S # {}, NEW R, Orders(R, S)
  PROVE  \E x \in S : IsLast(x, S, R)
<1> DEFINE T == {n \in Nat : \A U \in SUBSET S :
                   Cardinality(U) = n + 1 => \E x \in U : IsLast(x, U, R)}
<1>1. 0 \in T
  <2> SUFFICES ASSUME NEW U \in SUBSET S, Cardinality(U) = 1
               PROVE  \E x \in U : IsLast(x, U, R)
    OBVIOUS
  <2>1. PICK x : U = {x}
    BY FS_Subset, FS_Singleton
  <2> QED
    BY <2>1 DEF IsLast
<1>2. ASSUME NEW n \in T
      PROVE  n + 1 \in T
  <2> SUFFICES ASSUME NEW U \in SUBSET S, Cardinality(U) = (n + 1) + 1
               PROVE  \E x \in U : IsLast(x, U, R)
    BY <1>2
  <2>1. IsFiniteSet(U) /\ U # {}
    BY FS_Subset, FS_EmptySet, <1>2
  <2>2. PICK z \in U : TRUE
    BY <2>1
  <2>3. Cardinality(U \ {z}) = n + 1
    <3>1. Cardinality(U \ {z}) = Cardinality(U) - 1
      BY <2>1, <2>2, FS_RemoveElement
    <3>2. n \in Nat
      BY <1>2
    <3> HIDE DEF T
    <3> QED
      BY <3>1, <3>2
  <2>4. PICK x \in U \ {z} : IsLast(x, U \ {z}, R)
    BY <2>3, <1>2
  <2>5. CASE <<z, x>> \in R
    BY <2>4, <2>5 DEF IsLast
  <2>6. CASE <<x, z>> \in R
    <3>1. \A y \in U \ {z} : <<y, z>> \in R
      BY <2>2, <2>4, <2>6 DEF IsLast, Orders
    <3> QED
      BY <2>2, <3>1 DEF IsLast
  <2> QED
    BY <2>2, <2>4, <2>5, <2>6 DEF Orders
<1>3. T = Nat
  <2> HIDE DEF T
  <2>1. T \in SUBSET Nat
    BY DEF T
  <2> QED
    BY <1>1, <1>2, <2>1, AllNumbers
<1>4. Cardinality(S) - 1 \in Nat /\ Cardinality(S) = (Cardinality(S) - 1) + 1
  BY FS_CardinalityType, FS_EmptySet
<1> HIDE DEF T
<1>5. Cardinality(S) - 1 \in T
  BY <1>3, <1>4
<1> QED
  BY <1>4, <1>5 DEF T

InOrder(s, S, R) ==
  /\ s \in [1..Cardinality(S) -> S]
  /\ \A i, j \in 1..Cardinality(S) : i < j => <<s[i], s[j]>> \in R

LEMMA SomeOrder ==
  ASSUME NEW S, IsFiniteSet(S), NEW R, Orders(R, S)
  PROVE  \E s : InOrder(s, S, R)
<1> DEFINE T == {n \in Nat : \A U \in SUBSET S :
                   Cardinality(U) = n => \E s : InOrder(s, U, R)}
<1>1. 0 \in T
  <2> SUFFICES ASSUME NEW U \in SUBSET S, Cardinality(U) = 0
               PROVE  \E s : InOrder(s, U, R)
    OBVIOUS
  <2>1. InOrder([i \in 1..0 |-> i], U, R)
    BY DEF InOrder
  <2> QED
    BY <2>1
<1>2. ASSUME NEW n \in T
      PROVE  n + 1 \in T
  <2> SUFFICES ASSUME NEW U \in SUBSET S, Cardinality(U) = n + 1
               PROVE  \E s : InOrder(s, U, R)
    BY <1>2
  <2>1. IsFiniteSet(U) /\ U # {}
    BY FS_Subset, FS_EmptySet, <1>2
  <2>2. Orders(R, U)
    BY DEF Orders
  <2>3. PICK x \in U : IsLast(x, U, R)
    BY <2>1, <2>2, SomeLast
  <2>4. Cardinality(U \ {x}) = n
    BY <2>1, <2>3, FS_RemoveElement, <1>2
  <2>5. PICK s : InOrder(s, U \ {x}, R)
    BY <2>4, <1>2
  <2> DEFINE t == [i \in 1..(n + 1) |-> IF i = n + 1 THEN x ELSE s[i]]
  <2>6. s \in [1..n -> U \ {x}] /\ \A i, j \in 1..n : i < j => <<s[i], s[j]>> \in R
    BY <2>4, <2>5 DEF InOrder
  <2>7. t \in [1..(n + 1) -> U]
    BY <2>6, <1>2
  <2>8. ASSUME NEW i \in 1..(n + 1), NEW j \in 1..(n + 1), i < j
        PROVE  <<t[i], t[j]>> \in R
    <3>1. i \in 1..n /\ t[i] = s[i] /\ s[i] \in U \ {x}
      BY <2>6, <2>8, <1>2
    <3>2. CASE j = n + 1
      BY <3>1, <3>2, <2>3 DEF IsLast
    <3>3. CASE j # n + 1
      <4>1. j \in 1..n /\ t[j] = s[j]
        BY <3>3, <1>2
      <4> QED
        BY <4>1, <3>1, <2>6, <2>8
    <3> QED
      BY <3>2, <3>3
  <2> HIDE DEF t
  <2> QED
    BY <2>7, <2>8 DEF InOrder
<1>3. T = Nat
  <2> HIDE DEF T
  <2>1. T \in SUBSET Nat
    BY DEF T
  <2> QED
    BY <1>1, <1>2, <2>1, AllNumbers
<1>4. Cardinality(S) \in T
  <2> HIDE DEF T
  <2> QED
    BY <1>3, FS_CardinalityType
<1> QED
  BY <1>4

(* A sorted sequence has every element once. *)
LEMMA OrderIsWhole ==
  ASSUME NEW S, IsFiniteSet(S), NEW R, Orders(R, S), NEW s, InOrder(s, S, R)
  PROVE  /\ s \in Seq(S) /\ Len(s) = Cardinality(S)
         /\ {s[i] : i \in 1..Cardinality(S)} = S
         /\ \A i, j \in 1..Cardinality(S) : s[i] = s[j] => i = j
<1>0. Cardinality(S) \in Nat
  BY FS_CardinalityType
<1>1. s \in Seq(S) /\ Len(s) = Cardinality(S)
  BY <1>0 DEF InOrder
<1>2. \A i, j \in 1..Cardinality(S) : s[i] = s[j] => i = j
  <2> SUFFICES ASSUME NEW i \in 1..Cardinality(S), NEW j \in 1..Cardinality(S),
                      s[i] = s[j], i < j
               PROVE  FALSE
    BY <1>0
  <2> QED
    BY DEF InOrder, Orders
<1>3. s \in Injection(1..Cardinality(S), S)
  BY <1>2 DEF Injection, InOrder, IsInjective
<1>4. Cardinality(1..Cardinality(S)) = Cardinality(S)
  BY <1>0, FS_Interval
<1>5. s \in Surjection(1..Cardinality(S), S)
  BY <1>3, <1>4, FS_Injection
<1>6. {s[i] : i \in 1..Cardinality(S)} = S
  BY <1>5 DEF Surjection
<1> QED
  BY <1>1, <1>2, <1>6

(* The two orders of the code: numbers, and runs by index and position. *)
LEMMA NumbersSorted ==
  ASSUME NEW S \in SUBSET Nat, IsFiniteSet(S)
  PROVE  /\ ByName(S) \in Seq(S) /\ Len(ByName(S)) = Cardinality(S)
         /\ {ByName(S)[i] : i \in 1..Cardinality(S)} = S
         /\ \A i, j \in 1..Cardinality(S) : ByName(S)[i] = ByName(S)[j] => i = j
<1> DEFINE R == {p \in Nat \X Nat : p[1] < p[2]}
<1>1. Orders(R, S)
  BY DEF Orders
<1>2. \A s \in [1..Cardinality(S) -> S] :
        InOrder(s, S, R) <=> \A i, j \in DOMAIN s : i < j => s[i] < s[j]
  <2> SUFFICES ASSUME NEW s \in [1..Cardinality(S) -> S]
               PROVE  InOrder(s, S, R) <=> \A i, j \in DOMAIN s : i < j => s[i] < s[j]
    OBVIOUS
  <2>1. DOMAIN s = 1..Cardinality(S) /\ \A i \in DOMAIN s : s[i] \in Nat
    OBVIOUS
  <2> QED
    BY <2>1 DEF InOrder
<1> HIDE DEF R
<1>3. PICK s : InOrder(s, S, R)
  BY <1>1, SomeOrder
<1>4. s \in [1..Cardinality(S) -> S] /\ \A i, j \in DOMAIN s : i < j => s[i] < s[j]
  BY <1>2, <1>3 DEF InOrder
<1>5. /\ ByName(S) \in [1..Cardinality(S) -> S]
      /\ \A i, j \in DOMAIN ByName(S) : i < j => ByName(S)[i] < ByName(S)[j]
  BY <1>4 DEF ByName, Sorted
<1>6. InOrder(ByName(S), S, R)
  BY <1>2, <1>5
<1> QED
  BY <1>1, <1>6, OrderIsWhole

LEMMA RowFacts ==
  ASSUME NEW rows \in Seq(RowType)
  PROVE  /\ DOMAIN rows = 1..Len(rows) /\ Len(rows) \in Nat
         /\ IsFiniteSet(DOMAIN rows)
         /\ \A K \in SUBSET DOMAIN rows : IsFiniteSet(K) /\ Cardinality(K) \in Nat
         /\ \A k \in DOMAIN rows :
              /\ k \in Nat
              /\ rows[k] \in RowType
              /\ rows[k].index \in Nat
<1>1. DOMAIN rows = 1..Len(rows) /\ Len(rows) \in Nat
  OBVIOUS
<1>2. IsFiniteSet(DOMAIN rows)
  BY <1>1, FS_Interval
<1>3. \A K \in SUBSET DOMAIN rows : IsFiniteSet(K) /\ Cardinality(K) \in Nat
  BY <1>2, FS_Subset, FS_CardinalityType
<1>4. ASSUME NEW k \in DOMAIN rows
      PROVE  k \in Nat /\ rows[k] \in RowType /\ rows[k].index \in Nat
  <2>1. k \in Nat /\ rows[k] \in RowType
    BY <1>1
  <2>2. rows[k].index \in 1..RepeatCount
    BY <2>1 DEF RowType
  <2> QED
    BY <2>1, <2>2, PlanAssumption
<1> QED
  BY <1>1, <1>2, <1>3, <1>4

LEMMA RunsSorted ==
  ASSUME NEW rows \in Seq(RowType), NEW K \in SUBSET DOMAIN rows
  PROVE  LET s == InRunOrder(rows, K) IN
         /\ s \in Seq(K) /\ Len(s) = Cardinality(K)
         /\ {s[i] : i \in 1..Cardinality(K)} = K
         /\ \A i, j \in 1..Cardinality(K) : s[i] = s[j] => i = j
         /\ \A i, j \in 1..Cardinality(K) : i < j => rows[s[i]].index <= rows[s[j]].index
<1> DEFINE Less(k, l) == \/ rows[k].index < rows[l].index
                         \/ rows[k].index = rows[l].index /\ k < l
           R == {p \in K \X K : Less(p[1], p[2])}
<1>0. \A k \in K : k \in Nat /\ rows[k].index \in Nat
  BY RowFacts
<1>1. Orders(R, K)
  BY <1>0 DEF Orders
<1>2. \A s \in [1..Cardinality(K) -> K] :
        InOrder(s, K, R) <=> \A i, j \in DOMAIN s : i < j => Less(s[i], s[j])
  <2> SUFFICES ASSUME NEW s \in [1..Cardinality(K) -> K]
               PROVE  InOrder(s, K, R) <=> \A i, j \in DOMAIN s : i < j => Less(s[i], s[j])
    OBVIOUS
  <2>1. DOMAIN s = 1..Cardinality(K) /\ \A i \in DOMAIN s : s[i] \in K
    OBVIOUS
  <2>2. \A i, j \in DOMAIN s : <<s[i], s[j]>> \in R <=> Less(s[i], s[j])
    BY <2>1
  <2> HIDE DEF R, Less
  <2> QED
    BY <2>1, <2>2 DEF InOrder
<1>3. IsFiniteSet(K)
  BY RowFacts
<1> HIDE DEF R
<1>4. PICK s : InOrder(s, K, R)
  BY <1>1, <1>3, SomeOrder
<1> DEFINE t == InRunOrder(rows, K)
<1>5. /\ t \in [1..Cardinality(K) -> K]
      /\ \A i, j \in DOMAIN t : i < j => Less(t[i], t[j])
  <2>1. \E u \in [1..Cardinality(K) -> K] : \A i, j \in DOMAIN u : i < j => Less(u[i], u[j])
    BY <1>2, <1>4 DEF InOrder
  <2> QED
    BY <2>1 DEF InRunOrder, Sorted
<1> HIDE DEF t
<1>6. InOrder(t, K, R)
  BY <1>2, <1>5
<1>7. \A i, j \in 1..Cardinality(K) : i < j => rows[t[i]].index <= rows[t[j]].index
  BY <1>0, <1>5
<1>8. /\ t \in Seq(K) /\ Len(t) = Cardinality(K)
      /\ {t[i] : i \in 1..Cardinality(K)} = K
      /\ \A i, j \in 1..Cardinality(K) : t[i] = t[j] => i = j
  BY <1>1, <1>3, <1>6, OrderIsWhole
<1> QED
  BY <1>7, <1>8 DEF t

(***************************************************************************)
(* Sums and means.                                                         *)
(***************************************************************************)
LEMMA SumBounded ==
  ASSUME NEW rows, NEW g, NEW S, IsFiniteSet(S), NEW lo \in Nat, NEW hi \in Nat,
         \A k \in S : rows[k][g] \in lo..hi
  PROVE  /\ Total(rows, S, g) \in Nat
         /\ Cardinality(S) * lo <= Total(rows, S, g)
         /\ Total(rows, S, g) <= Cardinality(S) * hi
<1> DEFINE Pick(U) == CHOOSE x \in U : TRUE
           Value(U) == rows[Pick(U)][g]
           Less(U) == U \ {Pick(U)}
           Obeys(f, U) == f[U] = IF U = {} THEN 0 ELSE Value(U) + f[Less(U)]
           T == {n \in Nat : \E f \in [SUBSET S -> Nat] :
                   \A U \in SUBSET S : Cardinality(U) <= n => Obeys(f, U)}
<1>1. ASSUME NEW U \in SUBSET S
      PROVE  /\ IsFiniteSet(U) /\ Cardinality(U) \in Nat
             /\ Cardinality(U) <= Cardinality(S) /\ Cardinality(S) \in Nat
             /\ Cardinality(U) = 0 <=> U = {}
             /\ U # {} => /\ Value(U) \in lo..hi /\ Less(U) \in SUBSET S
                          /\ Cardinality(Less(U)) = Cardinality(U) - 1
  <2>1. IsFiniteSet(U) /\ Cardinality(U) <= Cardinality(S)
    BY FS_Subset
  <2>2. Cardinality(U) \in Nat /\ Cardinality(S) \in Nat
    BY <2>1, FS_CardinalityType
  <2>3. Cardinality(U) = 0 <=> U = {}
    BY <2>1, FS_EmptySet
  <2>4. ASSUME U # {}
        PROVE  Pick(U) \in U
    BY <2>4
  <2>5. ASSUME U # {}
        PROVE  Cardinality(Less(U)) = Cardinality(U) - 1
    BY <2>1, <2>4, <2>5, FS_RemoveElement
  <2> QED
    BY <2>1, <2>2, <2>3, <2>4, <2>5
<1> HIDE DEF Pick, Value, Less
<1>2. 0 \in T
  <2>1. \A U \in SUBSET S : Cardinality(U) <= 0 => Obeys([V \in SUBSET S |-> 0], U)
    BY <1>1
  <2> QED
    BY <2>1
<1>3. ASSUME NEW n \in T
      PROVE  n + 1 \in T
  <2>1. PICK f \in [SUBSET S -> Nat] :
          \A U \in SUBSET S : Cardinality(U) <= n => Obeys(f, U)
    BY <1>3
  <2> DEFINE h == [U \in SUBSET S |->
                     IF Cardinality(U) = n + 1 THEN Value(U) + f[Less(U)] ELSE f[U]]
  <2>2. h \in [SUBSET S -> Nat]
    <3> SUFFICES ASSUME NEW U \in SUBSET S
                 PROVE  h[U] \in Nat
      OBVIOUS
    <3>1. CASE Cardinality(U) = n + 1
      <4>1. U # {} /\ n \in Nat
        BY <1>1, <1>3, <3>1
      <4> QED
        BY <3>1, <1>1, <4>1
    <3>2. CASE Cardinality(U) # n + 1
      BY <3>2
    <3> QED
      BY <3>1, <3>2
  <2>3. ASSUME NEW U \in SUBSET S, Cardinality(U) <= n + 1
        PROVE  Obeys(h, U)
    <3>0. n \in Nat /\ Cardinality(U) \in Nat
      BY <1>1, <1>3
    <3>1. CASE U = {}
      BY <3>0, <3>1, <2>1, <1>1
    <3>2. CASE U # {}
      <4>1. /\ Less(U) \in SUBSET S
            /\ Cardinality(Less(U)) # n + 1
        BY <3>0, <3>2, <1>1, <2>3
      <4>2. h[Less(U)] = f[Less(U)]
        BY <4>1
      <4>3. CASE Cardinality(U) = n + 1
        BY <4>2, <4>3, <3>2
      <4>4. CASE Cardinality(U) # n + 1
        BY <4>2, <4>4, <3>0, <3>2, <2>1, <2>3
      <4> QED
        BY <4>3, <4>4
    <3> QED
      BY <3>1, <3>2
  <2> HIDE DEF h, Obeys
  <2> QED
    BY <2>2, <2>3, <1>3
<1>4. T = Nat
  <2> HIDE DEF T
  <2>1. T \in SUBSET Nat
    BY DEF T
  <2> QED
    BY <1>2, <1>3, <2>1, AllNumbers
<1>5. PICK f \in [SUBSET S -> Nat] : \A U \in SUBSET S : Obeys(f, U)
  <2>1. Cardinality(S) \in T
    BY <1>1, <1>4
  <2> QED
    BY <2>1, <1>1
<1> DEFINE iter[U \in SUBSET S] ==
             IF U = {} THEN 0 ELSE rows[CHOOSE x \in U : TRUE][g] + iter[U \ {CHOOSE x \in U : TRUE}]
<1>6. Total(rows, S, g) = iter[S]
  BY DEF Total, MapThenSumSet, MapThenFoldSet
<1>7. iter = [U \in SUBSET S |-> IF U = {} THEN 0 ELSE Value(U) + iter[Less(U)]]
  <2>1. f = [U \in SUBSET S |->
               IF U = {} THEN 0
               ELSE rows[CHOOSE x \in U : TRUE][g] + f[U \ {CHOOSE x \in U : TRUE}]]
    BY <1>5 DEF Value, Less, Pick
  <2> QED
    BY <2>1, Zenon DEF Value, Less, Pick
<1> HIDE DEF iter
<1> DEFINE B == {n \in Nat : \A U \in SUBSET S : Cardinality(U) = n =>
                   iter[U] \in Nat /\ n * lo <= iter[U] /\ iter[U] <= n * hi}
<1>8. 0 \in B
  BY <1>1, <1>7
<1>9. ASSUME NEW n \in B
      PROVE  n + 1 \in B
  <2> SUFFICES ASSUME NEW U \in SUBSET S, Cardinality(U) = n + 1
               PROVE  /\ iter[U] \in Nat
                      /\ (n + 1) * lo <= iter[U] /\ iter[U] <= (n + 1) * hi
    BY <1>9
  <2>1. U # {} /\ n \in Nat
    BY <1>1, <1>9
  <2>2. /\ Value(U) \in lo..hi /\ Less(U) \in SUBSET S
        /\ Cardinality(Less(U)) = n
    BY <1>1, <2>1
  <2>3. iter[Less(U)] \in Nat /\ n * lo <= iter[Less(U)] /\ iter[Less(U)] <= n * hi
    BY <2>2, <1>9
  <2>4. iter[U] = Value(U) + iter[Less(U)]
    BY <1>7, <2>1
  <2>5. (n + 1) * lo = n * lo + lo /\ (n + 1) * hi = n * hi + hi
        /\ n * lo \in Nat /\ n * hi \in Nat
    BY <2>1
  <2> QED
    BY <2>2, <2>3, <2>4, <2>5
<1>10. B = Nat
  <2> HIDE DEF B
  <2>1. B \in SUBSET Nat
    BY DEF B
  <2> QED
    BY <1>8, <1>9, <2>1, AllNumbers
<1>11. Cardinality(S) \in B
  BY <1>1, <1>10
<1> QED
  BY <1>6, <1>11

LEMMA Division ==
  ASSUME NEW a \in Nat, NEW b \in Nat \ {0}
  PROVE  a \div b \in Nat /\ b * (a \div b) <= a /\ a < b * (a \div b) + b
OBVIOUS

LEMMA MeanBetween ==
  ASSUME NEW d \in Nat \ {0}, NEW n \in Nat, NEW lo \in Nat, NEW hi \in Nat,
         d * lo <= n, n <= d * hi
  PROVE  Rounded(n, d) \in lo..hi
<1> DEFINE q == (2 * n + d) \div (2 * d)
<1>1. q \in Nat /\ 2 * d * q <= 2 * n + d /\ 2 * n + d < 2 * d * q + 2 * d
  <2>1. 2 * n + d \in Nat /\ 2 * d \in Nat \ {0}
    OBVIOUS
  <2> QED
    BY <2>1, Division
<1> HIDE DEF q
<1>2. q <= hi
  <2> SUFFICES ASSUME q > hi
               PROVE  FALSE
    BY <1>1
  <2>1. d * (hi + 1) <= d * q
    BY <1>1
  <2>2. d * (hi + 1) = d * hi + d /\ 2 * d * q = 2 * (d * q) /\ d * hi \in Nat /\ d * q \in Nat
    BY <1>1
  <2> QED
    BY <1>1, <2>1, <2>2
<1>3. lo <= q
  <2> SUFFICES ASSUME lo > q
               PROVE  FALSE
    BY <1>1
  <2>1. d * (q + 1) <= d * lo
    BY <1>1
  <2>2. d * (q + 1) = d * q + d /\ 2 * d * q = 2 * (d * q) /\ d * q \in Nat /\ d * lo \in Nat
    BY <1>1
  <2> QED
    BY <1>1, <2>1, <2>2
<1> QED
  BY <1>1, <1>2, <1>3 DEF Rounded, q

LEMMA Extremes ==
  ASSUME NEW V \in SUBSET Nat, IsFiniteSet(V), V # {}
  PROVE  /\ Min(V) \in V /\ Max(V) \in V
         /\ \A v \in V : Min(V) <= v /\ v <= Max(V)
<1> DEFINE Up == {p \in Nat \X Nat : p[1] < p[2]}
           Down == {p \in Nat \X Nat : p[1] > p[2]}
<1>1. Orders(Up, V) /\ Orders(Down, V)
  BY DEF Orders
<1>2. PICK hi \in V : IsLast(hi, V, Up)
  <2> HIDE DEF Up
  <2> QED
    BY <1>1, SomeLast
<1>3. PICK lo \in V : IsLast(lo, V, Down)
  <2> HIDE DEF Down
  <2> QED
    BY <1>1, SomeLast
<1>4. ASSUME NEW v \in V
      PROVE  hi >= v /\ lo =< v
  <2>1. v = hi \/ <<v, hi>> \in Up
    BY <1>2 DEF IsLast
  <2>2. v = lo \/ <<v, lo>> \in Down
    BY <1>3 DEF IsLast
  <2> QED
    BY <2>1, <2>2
<1>5. Max(V) \in V /\ \A v \in V : Max(V) >= v
  BY <1>4 DEF Max
<1>6. Min(V) \in V /\ \A v \in V : Min(V) =< v
  BY <1>4 DEF Min
<1> QED
  BY <1>5, <1>6

LEMMA StatisticsFit ==
  ASSUME NEW rows \in Seq(RowType), NEW K \in SUBSET DOMAIN rows,
         NEW f \in {"decode", "ttft"}
  PROVE  Spread(Statistics(rows, K, f), {rows[k][f] : k \in K} \ {None})
<1> DEFINE known == {k \in K : rows[k][f] # None}
           values == {rows[k][f] : k \in known}
<1>1. values = {rows[k][f] : k \in K} \ {None}
  OBVIOUS
<1>2. \A k \in known : rows[k][f] \in Nat
  <2> SUFFICES ASSUME NEW k \in known
               PROVE  rows[k][f] \in Nat
    OBVIOUS
  <2>1. rows[k] \in RowType
    BY RowFacts
  <2> QED
    BY <2>1 DEF RowType, Measure
<1>3. IsFiniteSet(known) /\ Cardinality(known) \in Nat /\ (Cardinality(known) = 0 <=> known = {})
  <2>1. known \in SUBSET DOMAIN rows
    OBVIOUS
  <2> HIDE DEF known
  <2> QED
    BY <2>1, RowFacts, FS_EmptySet
<1>4. CASE known = {}
  <2>1. Statistics(rows, K, f) = [avg |-> None, min |-> None, max |-> None]
    BY <1>4 DEF Statistics
  <2>2. values = {}
    BY <1>4
  <2> QED
    BY <1>1, <2>1, <2>2 DEF Spread
<1>5. CASE known # {}
  <2> DEFINE sum == Total(rows, known, f)
  <2>1. Statistics(rows, K, f)
          = [avg |-> Rounded(sum, Cardinality(known)), min |-> Min(values), max |-> Max(values)]
    BY <1>5 DEF Statistics
  <2>2. values \in SUBSET Nat /\ values # {} /\ IsFiniteSet(values)
    <3>1. values \in SUBSET Nat /\ values # {}
      BY <1>2, <1>5
    <3>2. [k \in known |-> rows[k][f]] \in Surjection(known, values)
      BY DEF Surjection
    <3> QED
      BY <1>3, <3>1, <3>2, FS_Surjection
  <2> HIDE DEF values
  <2>3. /\ Min(values) \in values /\ Max(values) \in values
        /\ \A v \in values : Min(values) <= v /\ v <= Max(values)
    BY <2>2, Extremes
  <2>4. Min(values) \in Nat /\ Max(values) \in Nat
    BY <2>2, <2>3
  <2>5. \A k \in known : rows[k][f] \in Min(values)..Max(values)
    BY <1>2, <2>3, <2>4 DEF values
  <2> HIDE DEF known
  <2>6. /\ sum \in Nat
        /\ Cardinality(known) * Min(values) <= sum /\ sum <= Cardinality(known) * Max(values)
    BY <1>3, <2>4, <2>5, SumBounded
  <2> HIDE DEF sum
  <2>7. Rounded(sum, Cardinality(known)) \in Min(values)..Max(values)
    BY <1>3, <1>5, <2>4, <2>6, MeanBetween
  <2>8. Spread(Statistics(rows, K, f), values)
    BY <2>1, <2>2, <2>3, <2>4, <2>7 DEF Spread
  <2> QED
    BY <1>1, <2>8
<1> QED
  BY <1>4, <1>5

(***************************************************************************)
(* The aggregates.                                                         *)
(***************************************************************************)
SpeaksFor(a, rows) ==
  LET mine == {r \in ToSet(rows) : r.model = a.model}
      good == {r \in mine : r.success}
      known(f) == {r[f] : r \in good} \ {None}
  IN /\ ToSet(a.runs) = good
     /\ Len(a.runs) + a.failures
          = Cardinality({k \in DOMAIN rows : rows[k].model = a.model})
     /\ \A k, l \in DOMAIN a.runs : k < l => a.runs[k].index <= a.runs[l].index
     /\ (\E r \in ToSet(rows) : r.success) => a.runCount = Len(a.runs) + a.failures
     /\ a.label \in {r.target : r \in mine}
     /\ Spread(a.decode, known("decode"))
     /\ Spread(a.ttft, known("ttft"))

LEMMA AggregateSpeaks ==
  ASSUME NEW rows \in Seq(RowType), NEW m \in {r.model : r \in ToSet(rows)}
  PROVE  SpeaksFor(Aggregate(rows, m), rows)
<1> DEFINE a == Aggregate(rows, m)
           mine == {r \in ToSet(rows) : r.model = m}
           good == RowsOf(rows, m, TRUE)
           failed == RowsOf(rows, m, FALSE)
           s == InRunOrder(rows, good)
           runs == [i \in DOMAIN s |-> rows[s[i]]]
<1>0. \A k \in DOMAIN rows : rows[k].success \in BOOLEAN
  BY RowFacts DEF RowType
<1>1. good \in SUBSET DOMAIN rows /\ failed \in SUBSET DOMAIN rows
  BY DEF RowsOf
<1>2. /\ s \in Seq(good) /\ Len(s) = Cardinality(good)
      /\ {s[i] : i \in 1..Cardinality(good)} = good
      /\ \A i, j \in 1..Cardinality(good) : i < j => rows[s[i]].index <= rows[s[j]].index
  BY <1>1, RunsSorted
<1>3. /\ a.model = m /\ a.runs = runs /\ a.failures = Cardinality(failed)
      /\ (\E r \in ToSet(rows) : r.success) => a.runCount = Cardinality(good) + Cardinality(failed)
      /\ a.label = rows[IF good = {} THEN Min(failed) ELSE s[1]].target
      /\ a.decode = Statistics(rows, good, "decode")
      /\ a.ttft = Statistics(rows, good, "ttft")
  BY DEF Aggregate
<1>4. /\ Cardinality(good) \in Nat /\ Cardinality(failed) \in Nat
      /\ IsFiniteSet(good) /\ IsFiniteSet(failed)
  BY <1>1, RowFacts
<1>5. {rows[k] : k \in good} = {r \in mine : r.success}
  BY DEF RowsOf, ToSet
<1>6. good \cup failed = {k \in DOMAIN rows : rows[k].model = m} /\ good \cap failed = {}
  BY <1>0 DEF RowsOf
<1>8. good = {} => Min(failed) \in failed
  <2>1. good = {} => failed # {}
    BY <1>6 DEF ToSet
  <2>2. failed \in SUBSET Nat
    BY <1>1, RowFacts
  <2> QED
    BY <1>4, <2>1, <2>2, Extremes
<1> HIDE DEF a, good, failed, s
<1>7. Cardinality({k \in DOMAIN rows : rows[k].model = m}) = Cardinality(good) + Cardinality(failed)
  <2>1. Cardinality(good \cup failed) = Cardinality(good) + Cardinality(failed) - Cardinality(good \cap failed)
    BY <1>4, FS_Union
  <2>2. Cardinality(good \cap failed) = 0
    BY <1>6, FS_EmptySet
  <2>3. Cardinality(good \cup failed) = Cardinality(good) + Cardinality(failed)
    BY <1>4, <2>1, <2>2
  <2> QED
    BY <1>6, <2>3
<1>9. DOMAIN runs = 1..Cardinality(good) /\ Len(runs) = Cardinality(good)
      /\ \A i \in 1..Cardinality(good) : s[i] \in good
  BY <1>2, <1>4
<1>10. ToSet(runs) = {rows[k] : k \in good}
  BY <1>2, <1>9 DEF ToSet
<1>11. a.label \in {r.target : r \in mine}
  <2>1. \A k \in good \cup failed : rows[k] \in mine
    BY <1>6 DEF ToSet
  <2>2. good # {} => s[1] \in good
    BY <1>4, <1>9, FS_EmptySet
  <2> QED
    BY <1>3, <1>8, <2>1, <2>2
<1>12. ASSUME NEW f \in {"decode", "ttft"}
       PROVE  Spread(Statistics(rows, good, f), {r[f] : r \in {x \in mine : x.success}} \ {None})
  <2>1. {rows[k][f] : k \in good} = {r[f] : r \in {x \in mine : x.success}}
    BY <1>5
  <2>2. Spread(Statistics(rows, good, f), {rows[k][f] : k \in good} \ {None})
    BY <1>1, StatisticsFit
  <2> QED
    BY <2>1, <2>2
<1>13. \A k, l \in DOMAIN runs : k < l => runs[k].index <= runs[l].index
  BY <1>2, <1>9
<1> HIDE DEF runs
<1>14. /\ Spread(a.decode, {r["decode"] : r \in {x \in mine : x.success}} \ {None})
       /\ Spread(a.ttft, {r["ttft"] : r \in {x \in mine : x.success}} \ {None})
  BY <1>3, <1>12
<1>15. /\ ToSet(a.runs) = {x \in mine : x.success}
       /\ Len(a.runs) + a.failures
            = Cardinality({k \in DOMAIN rows : rows[k].model = m})
       /\ (\E r \in ToSet(rows) : r.success) => a.runCount = Len(a.runs) + a.failures
  BY <1>3, <1>5, <1>7, <1>9, <1>10
<1>16. SpeaksFor(a, rows)
  BY <1>3, <1>11, <1>13, <1>14, <1>15 DEF SpeaksFor
<1> QED
  BY <1>16 DEF a

LEMMA AggregatesSpeak ==
  ASSUME NEW rows \in Seq(RowType)
  PROVE  SpeakFor(Aggregates(rows), rows)
<1> DEFINE good == {r.model : r \in {x \in ToSet(rows) : x.success}}
           seen == {r.model : r \in ToSet(rows)}
           s == ByName(good)
           t == ByName(seen \ good)
           models == s \o t
           A == Aggregates(rows)
<1>1. seen \in SUBSET Nat /\ IsFiniteSet(seen)
  <2>1. [k \in DOMAIN rows |-> rows[k].model] \in Surjection(DOMAIN rows, seen)
    BY DEF Surjection, ToSet
  <2>2. \A k \in DOMAIN rows : rows[k].model \in Nat
    BY RowFacts DEF RowType
  <2> QED
    BY <2>1, <2>2, RowFacts, FS_Surjection DEF ToSet
<1>2. good \in SUBSET seen
  OBVIOUS
<1>3. A = [i \in DOMAIN models |-> Aggregate(rows, models[i])]
  BY DEF Aggregates
<1> HIDE DEF good, seen, A
<1>4. /\ s \in Seq(good) /\ Len(s) = Cardinality(good) /\ Cardinality(good) \in Nat
      /\ {s[i] : i \in 1..Len(s)} = good
      /\ \A i, j \in 1..Len(s) : s[i] = s[j] => i = j
  <2>1. good \in SUBSET Nat /\ IsFiniteSet(good)
    BY <1>1, <1>2, FS_Subset
  <2> QED
    BY <2>1, NumbersSorted, FS_CardinalityType
<1>5. /\ t \in Seq(seen \ good) /\ Len(t) = Cardinality(seen \ good)
      /\ Cardinality(seen \ good) \in Nat
      /\ {t[i] : i \in 1..Len(t)} = seen \ good
      /\ \A i, j \in 1..Len(t) : t[i] = t[j] => i = j
  <2>1. seen \ good \in SUBSET Nat /\ IsFiniteSet(seen \ good)
    BY <1>1, FS_Subset
  <2> QED
    BY <2>1, NumbersSorted, FS_CardinalityType
<1> HIDE DEF s, t
<1>6. /\ models \in Seq(seen) /\ Len(models) = Len(s) + Len(t)
      /\ \A i \in 1..Len(s) : models[i] = s[i]
      /\ \A i \in (Len(s) + 1)..(Len(s) + Len(t)) : models[i] = t[i - Len(s)]
      /\ DOMAIN models = 1..(Len(s) + Len(t))
  <2>1. s \in Seq(seen) /\ t \in Seq(seen)
    BY <1>2, <1>4, <1>5
  <2> QED
    BY <2>1
<1> HIDE DEF models
<1>7. {models[i] : i \in DOMAIN models} = seen
  <2>1. ASSUME NEW m \in good
        PROVE  \E i \in DOMAIN models : models[i] = m
    <3>1. PICK i \in 1..Len(s) : s[i] = m
      BY <1>4
    <3>2. i \in 1..(Len(s) + Len(t))
      BY <1>4, <1>5
    <3> QED
      BY <1>6, <3>1, <3>2
  <2>2. ASSUME NEW m \in seen \ good
        PROVE  \E i \in DOMAIN models : models[i] = m
    <3>1. PICK i \in 1..Len(t) : t[i] = m
      BY <1>5
    <3> DEFINE k == Len(s) + i
    <3>2. k \in (Len(s) + 1)..(Len(s) + Len(t)) /\ k \in 1..(Len(s) + Len(t)) /\ k - Len(s) = i
      BY <1>4, <1>5
    <3> HIDE DEF k
    <3> QED
      BY <1>6, <3>1, <3>2
  <2> QED
    BY <1>6, <2>1, <2>2
<1>8. ASSUME NEW i \in DOMAIN models, NEW j \in DOMAIN models, models[i] = models[j]
      PROVE  i = j
  <2>1. ASSUME NEW k \in DOMAIN models
        PROVE  \/ k \in 1..Len(s) /\ models[k] = s[k] /\ s[k] \in good
               \/ /\ k - Len(s) \in 1..Len(t) /\ models[k] = t[k - Len(s)]
                  /\ t[k - Len(s)] \in seen \ good
    <3>0. k \in 1..(Len(s) + Len(t))
      BY <1>6
    <3>1. CASE k <= Len(s)
      <4>1. k \in 1..Len(s)
        BY <1>4, <1>5, <3>0, <3>1
      <4> QED
        BY <1>4, <1>6, <4>1
    <3>2. CASE ~(k <= Len(s))
      <4>1. k \in (Len(s) + 1)..(Len(s) + Len(t)) /\ k - Len(s) \in 1..Len(t)
        BY <1>4, <1>5, <3>0, <3>2
      <4> QED
        BY <1>5, <1>6, <4>1
    <3> QED
      BY <3>1, <3>2
  <2>2. CASE models[i] \in good
    <3>1. i \in 1..Len(s) /\ j \in 1..Len(s) /\ s[i] = s[j]
      BY <1>8, <2>1, <2>2
    <3> QED
      BY <1>4, <3>1
  <2>3. CASE models[i] \notin good
    <3>1. i - Len(s) \in 1..Len(t) /\ j - Len(s) \in 1..Len(t) /\ t[i - Len(s)] = t[j - Len(s)]
      BY <1>8, <2>1, <2>3
    <3>2. i - Len(s) = j - Len(s)
      BY <1>5, <3>1
    <3> QED
      BY <1>4, <1>5, <1>6, <3>2
  <2> QED
    BY <2>2, <2>3
<1>9. ASSUME NEW i \in DOMAIN A
      PROVE  A[i].model = models[i] /\ SpeaksFor(A[i], rows)
  <2>1. i \in DOMAIN models /\ A[i] = Aggregate(rows, models[i]) /\ models[i] \in seen
    BY <1>3, <1>6, <1>9
  <2>2. SpeaksFor(Aggregate(rows, models[i]), rows)
    BY <2>1, AggregateSpeaks DEF seen
  <2> QED
    BY <2>1, <2>2 DEF Aggregate
<1>10. DOMAIN A = DOMAIN models
  BY <1>3
<1>11. {A[i].model : i \in DOMAIN A} = {r.model : r \in ToSet(rows)}
  BY <1>7, <1>9, <1>10 DEF seen
<1>12. \A i, j \in DOMAIN A : A[i].model = A[j].model => i = j
  BY <1>8, <1>9, <1>10
<1> QED
  BY <1>9, <1>11, <1>12 DEF SpeakFor, SpeaksFor, A

-----------------------------------------------------------------------------
(***************************************************************************)
(* Calls are those of the plan, one target at a time and no more of them   *)
(* at once than the concurrency allows; rows are whole rows of the plan.   *)
(***************************************************************************)
THEOREM TypeCorrect == Spec => []TypeOK
<1>1. Orderly => TypeOK
  <2> SUFFICES ASSUME Orderly
               PROVE  TypeOK
    OBVIOUS
  <2>1. Made(calls, now)
    BY DEF Orderly
  <2>2. ASSUME NEW c \in DOMAIN calls
        PROVE  \/ /\ calls[c].pc \in {"waiting", "streaming"}
                  /\ calls[c].start \in 0..now
                  /\ IF calls[c].pc = "waiting" THEN calls[c].first = None
                     ELSE calls[c].first \in calls[c].start..now
               \/ calls[c].pc = "answered" /\ calls[c].row \in RowType
               \/ calls[c].pc = "recorded"
    <3>1. CASE c \in Asked(calls)
      <4>1. calls[c] \in UnderWay /\ Timely(calls[c], now)
        BY <2>1, <3>1, CallFacts
      <4> QED
        BY <4>1 DEF UnderWay, Timely, Orderly
    <3>2. CASE c \notin Asked(calls)
      <4>1. calls[c] \in CallRecord
        BY <2>1, <2>2, CallFacts
      <4> QED
        BY <2>2, <3>2, <4>1 DEF CallRecord, UnderWay, Asked
    <3> QED
      BY <3>1, <3>2
  <2>3. Unrecorded = Pending(calls) /\ Unanswered = Asked(calls)
    BY DEF Unrecorded, Pending, Unanswered, Asked
  <2>4. \A i \in DOMAIN results : results[i] \in RowType
    BY LenProperties, ElementOfSeq DEF Orderly, RowsKept
  <2>5. Len(calls) <= Len(Plan) /\ (\A c, d \in Unrecorded : Plan[c].target = Plan[d].target)
        /\ Cardinality(Unanswered) <= Concurrency
    BY <2>1, <2>3 DEF Made
  <2> QED
    BY <2>2, <2>4, <2>5 DEF TypeOK, Orderly, RowsKept, PhaseFits, SavesFit
<1> QED
  BY <1>1, OrderlyAlways, PTL

(***************************************************************************)
(* The numbers of a row fit together, whatever a stream leaves out or an   *)
(* endpoint reports.                                                       *)
(***************************************************************************)
THEOREM RowsMeasured == Spec => []RowsAreMeasured
<1>1. Orderly => RowsAreMeasured
  BY DEF Orderly, RowsKept, RowsAreMeasured, Measured
<1> QED
  BY <1>1, OrderlyAlways, PTL

(***************************************************************************)
(* The cache of the aggregates is never seen: a poll shows those of all    *)
(* rows there are, a record on disk those of its first rows, and of all    *)
(* rows once it says that the job is completed.  The phase beside them is  *)
(* not about a call whose row is there, unless it says that.               *)
(***************************************************************************)
AggregatesAreFresh ==
  /\ AggregatedSpeed = Aggregates(results)
  /\ phase.name # "result_recorded" => phase.call \notin DOMAIN calls \ Unrecorded
  /\ disk # None =>
       \E n \in 0..disk.rows :
         /\ disk.aggregates = Aggregates(SubSeq(results, 1, n))
         /\ disk.completed => n = Len(results)

THEOREM NothingStaleIsShown == Spec => []AggregatesAreFresh
<1>1. Orderly => AggregatesAreFresh
  <2> SUFFICES ASSUME Orderly
               PROVE  AggregatesAreFresh
    OBVIOUS
  <2>1. AggregatedSpeed = Aggregates(results)
    BY FreshAggregates DEF Orderly
  <2>2. DOMAIN calls \ Unrecorded = Recorded(calls)
    BY DEF Unrecorded, Recorded
  <2> QED
    BY <2>1, <2>2 DEF AggregatesAreFresh, Orderly, PhaseFits, SavesAgree, Captured
<1> QED
  BY <1>1, OrderlyAlways, PTL

(***************************************************************************)
(* What a poll shows speaks for the rows there are: every model once, its  *)
(* runs sorted, failures counted, extremes and means those of the runs; a  *)
(* record speaks for its first rows, a completed one for all of them.  For *)
(* every number of rows, models and runs.                                  *)
(***************************************************************************)
THEOREM AggregatesCurrent == Spec => []AggregatesAreCurrent
<1>1. Orderly /\ AggregatesAreFresh => AggregatesAreCurrent
  <2> SUFFICES ASSUME Orderly, AggregatesAreFresh
               PROVE  AggregatesAreCurrent
    OBVIOUS
  <2>1. results \in Seq(RowType) /\ Len(results) \in Nat
    BY DEF Orderly, RowsKept
  <2>2. SpeakFor(AggregatedSpeed, results)
    BY <2>1, AggregatesSpeak DEF AggregatesAreFresh
  <2>3. ASSUME disk # None
        PROVE  \E n \in 0..disk.rows :
                 /\ SpeakFor(disk.aggregates, SubSeq(results, 1, n))
                 /\ disk.completed => n = Len(results)
    <3>1. PICK n \in 0..disk.rows :
                 /\ disk.aggregates = Aggregates(SubSeq(results, 1, n))
                 /\ disk.completed => n = Len(results)
      BY <2>3 DEF AggregatesAreFresh
    <3>2. disk.rows \in 1..Len(results)
      BY <2>3 DEF Orderly, SavesFit
    <3>3. SubSeq(results, 1, n) \in Seq(RowType)
      <4>1. CASE n = 0
        BY <4>1, <2>1, SubSeqEmpty, EmptySeq
      <4>2. CASE n # 0
        <5>1. 1 \in 1..Len(results) /\ n \in 1..Len(results)
          BY <2>1, <3>2, <4>2
        <5> QED
          BY <2>1, <5>1, SubSeqProperties
      <4> QED
        BY <4>1, <4>2
    <3>4. SpeakFor(Aggregates(SubSeq(results, 1, n)), SubSeq(results, 1, n))
      BY <3>3, AggregatesSpeak
    <3>5. SpeakFor(disk.aggregates, SubSeq(results, 1, n))
      BY <3>1, <3>4
    <3>6. disk.completed => n = Len(results)
      BY <3>1
    <3> QED
      BY <3>5, <3>6
  <2>4. phase.name # "result_recorded" => phase.call \notin DOMAIN calls \ Unrecorded
    BY DEF AggregatesAreFresh
  <2> HIDE DEF SpeakFor
  <2> QED
    BY <2>2, <2>3, <2>4 DEF AggregatesAreCurrent
<1> QED
  BY <1>1, OrderlyAlways, NothingStaleIsShown, PTL

(***************************************************************************)
(* Whatever the order of the answers and however many calls share a model: *)
(* each call of the plan has its rows, and the aggregates of a completed   *)
(* job, in a poll or on disk, account for all calls of all its models.     *)
(***************************************************************************)
LEMMA WholeWhenCompleted ==
  ASSUME Orderly, Attributed, completed
  PROVE  WholePlan(Aggregates(results))
<1> DEFINE A == Aggregates(results)
           rowsOf(m) == {k \in DOMAIN results : results[k].model = m}
           callsOf(m) == {d \in DOMAIN Plan : Plan[d].model = m}
<1>1. results \in Seq(RowType) /\ Len(results) \in Nat /\ DOMAIN results = 1..Len(results)
  BY LenProperties DEF Orderly, RowsKept
<1>2. \A k \in DOMAIN results : results[k] \in RowType
  BY <1>1, ElementOfSeq
<1>3. Recorded(calls) = DOMAIN Plan
  <2>1. IsFiniteSet(DOMAIN Plan) /\ Cardinality(DOMAIN Plan) = Len(Plan)
    BY Planned, FS_Interval
  <2>2. Recorded(calls) \in SUBSET DOMAIN Plan
    BY CallFacts DEF Orderly, Recorded
  <2>3. Cardinality(Recorded(calls)) = Len(Plan)
    BY DEF Orderly, RowsKept
  <2> QED
    BY <2>1, <2>2, <2>3, FS_Subset
<1>4. \A d \in DOMAIN Plan : Plan[d] \in CallType
  BY Planned, PlanAssumption, ElementOfSeq DEF CallType
<1>5. ASSUME NEW m \in Nat
      PROVE  /\ Cardinality(rowsOf(m)) = Cardinality(callsOf(m))
             /\ rowsOf(m) = {} <=> callsOf(m) = {}
  <2> DEFINE S == {x \in CallType : x.model = m}
  <2>1. RowsNamed(results, S) = rowsOf(m)
    <3>1. ASSUME NEW r \in RowType
          PROVE  Named(r) \in S <=> r.model = m
      <4>1. Named(r) \in CallType /\ Named(r).model = r.model
        BY DEF Named, RowType, CallType
      <4> QED
        BY <4>1
    <3> HIDE DEF S
    <3> QED
      BY <1>2, <3>1 DEF RowsNamed
  <2>2. CallsNamed(calls, S) = callsOf(m)
    BY <1>3, <1>4 DEF CallsNamed
  <2>3. S \in SUBSET CallType
    OBVIOUS
  <2> HIDE DEF S
  <2>4. Cardinality(rowsOf(m)) = Cardinality(callsOf(m))
    BY <2>1, <2>2, <2>3 DEF Attributed
  <2>5. IsFiniteSet(rowsOf(m)) /\ IsFiniteSet(callsOf(m))
    <3>1. rowsOf(m) \in SUBSET (1..Len(results)) /\ callsOf(m) \in SUBSET (1..Len(Plan))
      BY <1>1, Planned
    <3>2. IsFiniteSet(1..Len(results)) /\ IsFiniteSet(1..Len(Plan))
      BY <1>1, Planned, FS_Interval
    <3> HIDE DEF rowsOf, callsOf
    <3> QED
      BY <3>1, <3>2, FS_Subset
  <2> HIDE DEF rowsOf, callsOf
  <2> QED
    BY <2>4, <2>5, FS_EmptySet
<1>6. SpeakFor(A, results)
  BY <1>1, AggregatesSpeak
<1> HIDE DEF A
<1>7. {A[i].model : i \in DOMAIN A} = {r.model : r \in ToSet(results)}
  BY <1>6 DEF SpeakFor
<1>8. \A i \in DOMAIN A : Len(A[i].runs) + A[i].failures = Cardinality(rowsOf(A[i].model))
  BY <1>6 DEF SpeakFor
<1>9. \A r \in ToSet(results) : r.model \in Nat /\ rowsOf(r.model) # {}
  BY <1>2 DEF ToSet, RowType
<1>10. ASSUME NEW i \in DOMAIN A
       PROVE  \E c \in DOMAIN Plan :
                <<A[i].model, Len(A[i].runs) + A[i].failures>>
                  = <<Plan[c].model, Cardinality(callsOf(Plan[c].model))>>
  <2>1. PICK r \in ToSet(results) : r.model = A[i].model
    BY <1>7
  <2>2. A[i].model \in Nat /\ rowsOf(A[i].model) # {}
    BY <1>9, <2>1
  <2>3. PICK c \in DOMAIN Plan : Plan[c].model = A[i].model
    BY <1>5, <2>2
  <2>4. Len(A[i].runs) + A[i].failures = Cardinality(callsOf(A[i].model))
    BY <1>5, <1>8, <2>2
  <2> QED
    BY <2>3, <2>4
<1>11. ASSUME NEW c \in DOMAIN Plan
       PROVE  \E i \in DOMAIN A :
                <<Plan[c].model, Cardinality(callsOf(Plan[c].model))>>
                  = <<A[i].model, Len(A[i].runs) + A[i].failures>>
  <2>1. Plan[c].model \in Nat /\ callsOf(Plan[c].model) # {}
    BY <1>4 DEF CallType
  <2>2. rowsOf(Plan[c].model) # {}
    BY <1>5, <2>1
  <2>3. Plan[c].model \in {r.model : r \in ToSet(results)}
    BY <2>2 DEF ToSet
  <2>4. PICK i \in DOMAIN A : A[i].model = Plan[c].model
    BY <1>7, <2>3
  <2>5. Cardinality(rowsOf(Plan[c].model)) = Cardinality(callsOf(Plan[c].model))
    BY <1>5, <2>1
  <2>6. Len(A[i].runs) + A[i].failures = Cardinality(rowsOf(A[i].model))
    BY <1>8
  <2> HIDE DEF rowsOf, callsOf
  <2> QED
    BY <2>4, <2>5, <2>6
<1> DEFINE shown(i) == <<A[i].model, Len(A[i].runs) + A[i].failures>>
           asked(c) == <<Plan[c].model, Cardinality(callsOf(Plan[c].model))>>
<1>12. {shown(i) : i \in DOMAIN A} = {asked(c) : c \in DOMAIN Plan}
  <2>1. \A i \in DOMAIN A : \E c \in DOMAIN Plan : shown(i) = asked(c)
    BY <1>10
  <2>2. \A c \in DOMAIN Plan : \E i \in DOMAIN A : asked(c) = shown(i)
    BY <1>11
  <2> HIDE DEF shown, asked
  <2> QED
    BY <2>1, <2>2
<1>13. {<<a.model, Len(a.runs) + a.failures>> : a \in ToSet(A)} = {shown(i) : i \in DOMAIN A}
  BY DEF ToSet
<1> HIDE DEF shown
<1> QED
  BY <1>12, <1>13 DEF WholePlan, A

THEOREM EveryCallShown == Spec => []EveryCallIsShown
<1>1. Orderly /\ Attributed /\ AggregatesAreFresh => EveryCallIsShown
  <2> SUFFICES ASSUME Orderly, Attributed, AggregatesAreFresh
               PROVE  EveryCallIsShown
    OBVIOUS
  <2>1. ASSUME NEW c \in DOMAIN Plan
        PROVE  Cardinality({k \in DOMAIN results : Named(results[k]) = Plan[c]})
                 = Cardinality({d \in DOMAIN calls \ Unrecorded : Plan[d] = Plan[c]})
    <3>1. Plan[c] \in CallType
      BY Planned, PlanAssumption, ElementOfSeq DEF CallType
    <3>2. RowsNamed(results, {Plan[c]}) = {k \in DOMAIN results : Named(results[k]) = Plan[c]}
      BY DEF RowsNamed
    <3>3. CallsNamed(calls, {Plan[c]}) = {d \in DOMAIN calls \ Unrecorded : Plan[d] = Plan[c]}
      BY DEF CallsNamed, Recorded, Unrecorded
    <3> QED
      BY <3>1, <3>2, <3>3 DEF Attributed
  <2>2. completed => WholePlan(AggregatedSpeed)
    BY WholeWhenCompleted DEF AggregatesAreFresh
  <2>3. ASSUME disk # None, disk.completed
        PROVE  WholePlan(disk.aggregates)
    <3>1. completed /\ disk.aggregates = Aggregates(SubSeq(results, 1, Len(results)))
      BY <2>3 DEF Orderly, SavesAgree, Captured
    <3>2. SubSeq(results, 1, Len(results)) = results
      BY SubSeqFull DEF Orderly, RowsKept
    <3> QED
      BY <3>1, <3>2, WholeWhenCompleted
  <2> QED
    BY <2>1, <2>2, <2>3 DEF EveryCallIsShown
<1> QED
  BY <1>1, OrderlyAlways, AttributedAlways, NothingStaleIsShown, PTL
-----------------------------------------------------------------------------
(***************************************************************************)
(* The plan of a request.  A list of lists, laid end to end.               *)
(***************************************************************************)
(* FlattenSeq's recursive function exists: its first n values are a list of
   lists, n by n. *)
LEMMA FlattenUnfolds ==
  ASSUME NEW S, NEW seqs \in Seq(Seq(S)), seqs # << >>
  PROVE  \E f \in [1..Len(seqs) -> Seq(S)] :
           /\ FlattenSeq(seqs) = f[Len(seqs)]
           /\ f[1] = seqs[1]
           /\ \A i \in 2..Len(seqs) : f[i] = f[i - 1] \o seqs[i]
<1> DEFINE L == Len(seqs)
           Obeys(f, i) == f[i] = IF i = 1 THEN seqs[i] ELSE f[i - 1] \o seqs[i]
           T == {n \in Nat : \E f \in [1..L -> Seq(S)] : \A i \in 1..L : i <= n => Obeys(f, i)}
<1>1. L \in Nat \ {0} /\ \A i \in 1..L : seqs[i] \in Seq(S)
  BY EmptySeq
<1>2. 0 \in T
  <2>1. [i \in 1..L |-> seqs[1]] \in [1..L -> Seq(S)]
    BY <1>1
  <2>2. \A i \in 1..L : ~(i <= 0)
    OBVIOUS
  <2> HIDE DEF L, Obeys
  <2> QED
    BY <2>1, <2>2
<1>3. ASSUME NEW n \in T
      PROVE  n + 1 \in T
  <2>1. PICK f \in [1..L -> Seq(S)] : \A i \in 1..L : i <= n => Obeys(f, i)
    BY <1>3
  <2> DEFINE h == [i \in 1..L |->
                     IF i # n + 1 THEN f[i] ELSE IF i = 1 THEN seqs[i] ELSE f[i - 1] \o seqs[i]]
  <2>2. h \in [1..L -> Seq(S)]
    <3> SUFFICES ASSUME NEW i \in 1..L
                 PROVE  h[i] \in Seq(S)
      OBVIOUS
    <3>1. CASE i # n + 1
      BY <3>1
    <3>2. CASE i = n + 1 /\ i = 1
      BY <1>1, <3>2
    <3>3. CASE i = n + 1 /\ i # 1
      <4>1. i - 1 \in 1..L
        BY <1>1, <3>3
      <4>2. f[i - 1] \in Seq(S) /\ seqs[i] \in Seq(S)
        BY <1>1, <4>1
      <4>3. f[i - 1] \o seqs[i] \in Seq(S)
        BY <4>2
      <4> HIDE DEF L
      <4> QED
        BY <3>3, <4>3
    <3> QED
      BY <3>1, <3>2, <3>3
  <2>3. ASSUME NEW i \in 1..L, i <= n + 1
        PROVE  Obeys(h, i)
    <3>1. n \in Nat /\ (i # 1 => i - 1 \in 1..L /\ i - 1 # n + 1)
      BY <1>1, <1>3, <2>3
    <3>2. i # 1 => h[i - 1] = f[i - 1]
      BY <3>1
    <3>3. CASE i = n + 1
      BY <3>2, <3>3
    <3>4. CASE i # n + 1
      <4>1. i <= n /\ h[i] = f[i]
        BY <2>3, <3>1, <3>4
      <4> QED
        BY <2>1, <3>2, <4>1
    <3> QED
      BY <3>3, <3>4
  <2>4. n + 1 \in Nat
    BY <1>3
  <2> HIDE DEF h, Obeys
  <2> QED
    BY <2>2, <2>3, <2>4
<1>4. T = Nat
  <2> HIDE DEF T
  <2>1. T \in SUBSET Nat
    BY DEF T
  <2> QED
    BY <1>2, <1>3, <2>1, AllNumbers
<1>5. PICK f \in [1..L -> Seq(S)] : \A i \in 1..L : Obeys(f, i)
  <2>1. L \in T
    BY <1>1, <1>4
  <2>2. \A i \in 1..L : i <= L
    OBVIOUS
  <2> HIDE DEF L, Obeys
  <2> QED
    BY <2>1, <2>2
<1> DEFINE flatten[i \in 1..Len(seqs)] == IF i = 1 THEN seqs[i] ELSE flatten[i - 1] \o seqs[i]
<1>6. FlattenSeq(seqs) = flatten[L]
  <2>1. Len(seqs) # 0
    BY <1>1
  <2> QED
    BY <2>1 DEF FlattenSeq
<1>7. flatten = [i \in 1..L |-> IF i = 1 THEN seqs[i] ELSE flatten[i - 1] \o seqs[i]]
  <2>1. f = [i \in 1..L |-> IF i = 1 THEN seqs[i] ELSE f[i - 1] \o seqs[i]]
    BY <1>5
  <2> QED
    BY <2>1, Zenon
<1> HIDE DEF flatten
<1>8. /\ flatten[1] = seqs[1]
      /\ \A i \in 2..L : flatten[i] = flatten[i - 1] \o seqs[i]
  <2>1. 1 \in 1..L /\ \A i \in 2..L : i \in 1..L /\ i # 1
    BY <1>1
  <2> HIDE DEF L
  <2> QED
    BY <1>7, <2>1
<1> DEFINE C == {n \in Nat : n + 1 \in 1..L => flatten[n + 1] \in Seq(S)}
<1>9. 0 \in C
  BY <1>1, <1>8
<1>10. ASSUME NEW n \in C
       PROVE  n + 1 \in C
  <2>1. n \in Nat
    BY <1>10
  <2> SUFFICES ASSUME (n + 1) + 1 \in 1..L
               PROVE  flatten[(n + 1) + 1] \in Seq(S)
    BY <2>1
  <2> DEFINE i == (n + 1) + 1
  <2>2. i \in 2..L /\ i \in 1..L /\ i - 1 = n + 1 /\ n + 1 \in 1..L
    BY <1>1, <2>1
  <2>3. flatten[n + 1] \in Seq(S) /\ seqs[i] \in Seq(S)
    BY <1>1, <1>10, <2>2
  <2> HIDE DEF i
  <2>4. flatten[i] = flatten[n + 1] \o seqs[i]
    BY <1>8, <2>2
  <2>5. flatten[i] \in Seq(S)
    BY <2>3, <2>4
  <2> QED
    BY <2>5 DEF i
<1>11. C = Nat
  <2> HIDE DEF C
  <2>1. C \in SUBSET Nat
    BY DEF C
  <2> QED
    BY <1>9, <1>10, <2>1, AllNumbers
<1>12. ASSUME NEW i \in 1..L
       PROVE  flatten[i] \in Seq(S)
  <2>1. PICK n \in C : n + 1 = i
    <3>1. i - 1 \in Nat /\ (i - 1) + 1 = i
      BY <1>1
    <3> HIDE DEF C
    <3> QED
      BY <1>11, <3>1
  <2> QED
    BY <2>1
<1>13. flatten \in [1..L -> Seq(S)]
  BY <1>7, <1>12
<1> QED
  BY <1>6, <1>8, <1>13

LEMMA Joined ==
  ASSUME NEW S, NEW s \in Seq(S), NEW t \in Seq(S)
  PROVE  /\ Len(s) \in Nat /\ Len(t) \in Nat /\ Len(s \o t) = Len(s) + Len(t)
         /\ \A c \in 1..Len(s) : c \in 1..Len(s \o t) /\ (s \o t)[c] = s[c]
         /\ \A e \in 1..Len(t) : Len(s) + e \in 1..Len(s \o t) /\ (s \o t)[Len(s) + e] = t[e]
         /\ \A c \in 1..Len(s \o t) : c \in 1..Len(s) \/ \E e \in 1..Len(t) : c = Len(s) + e
<1>1. Len(s) \in Nat /\ Len(t) \in Nat /\ Len(s \o t) = Len(s) + Len(t)
  OBVIOUS
<1>2. \A c \in 1..Len(s) : c \in 1..Len(s \o t) /\ (s \o t)[c] = s[c]
  OBVIOUS
<1>3. ASSUME NEW e \in 1..Len(t)
      PROVE  Len(s) + e \in 1..Len(s \o t) /\ (s \o t)[Len(s) + e] = t[e]
  <2>1. Len(s) + e \in (Len(s) + 1)..(Len(s) + Len(t)) /\ (Len(s) + e) - Len(s) = e
    BY <1>1
  <2> QED
    BY <1>1, <2>1
<1>4. ASSUME NEW c \in 1..Len(s \o t), c \notin 1..Len(s)
      PROVE  \E e \in 1..Len(t) : c = Len(s) + e
  <2>1. c - Len(s) \in 1..Len(t) /\ c = Len(s) + (c - Len(s))
    BY <1>1, <1>4
  <2> QED
    BY <2>1
<1> QED
  BY <1>1, <1>2, <1>3, <1>4

(* A relation that holds from each entry to the later ones holds in the list
   laid end to end; nothing is lost there and nothing added. *)
LEMMA Flattened ==
  ASSUME NEW S, NEW seqs \in Seq(Seq(S)), NEW R,
         \A k \in 1..Len(seqs) : \A i, j \in 1..Len(seqs[k]) :
           i < j => <<seqs[k][i], seqs[k][j]>> \in R,
         \A k, l \in 1..Len(seqs) : k < l =>
           \A i \in 1..Len(seqs[k]), j \in 1..Len(seqs[l]) : <<seqs[k][i], seqs[l][j]>> \in R
  PROVE  LET all == FlattenSeq(seqs) IN
         /\ all \in Seq(S)
         /\ \A k \in 1..Len(seqs) : \A i \in 1..Len(seqs[k]) :
              \E c \in 1..Len(all) : all[c] = seqs[k][i]
         /\ \A c \in 1..Len(all) :
              \E k \in 1..Len(seqs) : \E i \in 1..Len(seqs[k]) : all[c] = seqs[k][i]
         /\ \A c, d \in 1..Len(all) : c < d => <<all[c], all[d]>> \in R
<1>1. CASE seqs = << >>
  <2>1. FlattenSeq(seqs) = << >>
    BY <1>1 DEF FlattenSeq
  <2>2. << >> \in Seq(S) /\ 1..Len(<< >>) = {} /\ 1..Len(seqs) = {}
    BY <1>1, EmptySeq
  <2> QED
    BY <2>1, <2>2
<1>2. CASE seqs # << >>
  <2> DEFINE L == Len(seqs)
  <2>1. PICK f \in [1..L -> Seq(S)] :
          /\ FlattenSeq(seqs) = f[L]
          /\ f[1] = seqs[1]
          /\ \A i \in 2..L : f[i] = f[i - 1] \o seqs[i]
    BY <1>2, FlattenUnfolds
  <2>2. L \in Nat \ {0} /\ \A i \in 1..L : seqs[i] \in Seq(S)
    BY <1>2, EmptySeq
  <2> DEFINE Whole(n) == \A k \in 1..n : \A i \in 1..Len(seqs[k]) :
                           \E c \in 1..Len(f[n]) : f[n][c] = seqs[k][i]
             Only(n) == \A c \in 1..Len(f[n]) :
                          \E k \in 1..n : \E i \in 1..Len(seqs[k]) : f[n][c] = seqs[k][i]
             Related(n) == \A c, d \in 1..Len(f[n]) : c < d => <<f[n][c], f[n][d]>> \in R
             T == {n \in Nat : n + 1 \in 1..L => Whole(n + 1) /\ Only(n + 1) /\ Related(n + 1)}
  <2>3. 0 \in T
    <3>1. 1 \in 1..L
      BY <2>2
    <3>2. \A k \in 1..1 : k = 1
      OBVIOUS
    <3> HIDE DEF L
    <3>3. Whole(1)
      BY <2>1, <3>2
    <3>4. Only(1)
      BY <2>1
    <3>5. Related(1)
      BY <2>1, <3>1 DEF L
    <3> HIDE DEF Whole, Only, Related
    <3> QED
      BY <3>3, <3>4, <3>5
  <2>4. ASSUME NEW n \in T
        PROVE  n + 1 \in T
    <3> DEFINE m == n + 1
    <3>1. n \in Nat /\ m \in Nat
      BY <2>4
    <3> SUFFICES ASSUME m + 1 \in 1..L
                 PROVE  Whole(m + 1) /\ Only(m + 1) /\ Related(m + 1)
      BY <3>1
    <3>2. /\ m \in 1..L /\ m + 1 \in 2..L /\ (m + 1) - 1 = m
          /\ Whole(m) /\ Only(m) /\ Related(m)
      <4>1. m \in 1..L /\ m + 1 \in 2..L /\ (m + 1) - 1 = m
        BY <2>2, <3>1
      <4> HIDE DEF L, Whole, Only, Related
      <4> QED
        BY <2>4, <4>1
    <3> HIDE DEF m, L, T
    <3> DEFINE s == f[m]
               t == seqs[m + 1]
    <3>3. f[m + 1] = s \o t /\ s \in Seq(S) /\ t \in Seq(S)
      BY <2>1, <2>2, <3>2
    <3>4. /\ \A c \in 1..Len(s) : c \in 1..Len(s \o t) /\ (s \o t)[c] = s[c]
          /\ \A e \in 1..Len(t) : Len(s) + e \in 1..Len(s \o t) /\ (s \o t)[Len(s) + e] = t[e]
          /\ \A c \in 1..Len(s \o t) : c \in 1..Len(s) \/ \E e \in 1..Len(t) : c = Len(s) + e
          /\ Len(s) \in Nat /\ Len(t) \in Nat
      <4> HIDE DEF s, t
      <4> QED
        BY <3>3, Joined
    <3>5. /\ 1..m \subseteq 1..(m + 1) /\ m + 1 \in 1..(m + 1)
          /\ \A k \in 1..(m + 1) : k \in 1..m \/ k = m + 1
          /\ \A k \in 1..m : k \in 1..L /\ k < m + 1
      BY <3>1, <3>2 DEF L
    <3>6. Whole(m + 1)
      <4> SUFFICES ASSUME NEW k \in 1..(m + 1), NEW i \in 1..Len(seqs[k])
                   PROVE  \E c \in 1..Len(f[m + 1]) : f[m + 1][c] = seqs[k][i]
        OBVIOUS
      <4>1. CASE k \in 1..m
        <5>1. PICK c \in 1..Len(s) : s[c] = seqs[k][i]
          BY <3>2, <4>1
        <5>2. c \in 1..Len(f[m + 1]) /\ f[m + 1][c] = s[c]
          BY <3>3, <3>4
        <5> QED
          BY <5>1, <5>2
      <4>2. CASE k = m + 1
        <5>1. Len(s) + i \in 1..Len(f[m + 1]) /\ f[m + 1][Len(s) + i] = t[i]
          BY <3>3, <3>4, <4>2
        <5> QED
          BY <4>2, <5>1
      <4> QED
        BY <3>5, <4>1, <4>2
    <3>7. Only(m + 1)
      <4> SUFFICES ASSUME NEW c \in 1..Len(s \o t)
                   PROVE  \E k \in 1..(m + 1) : \E i \in 1..Len(seqs[k]) : (s \o t)[c] = seqs[k][i]
        BY <3>3
      <4>1. CASE c \in 1..Len(s)
        <5>1. PICK k \in 1..m : \E i \in 1..Len(seqs[k]) : s[c] = seqs[k][i]
          BY <3>2, <4>1
        <5> QED
          BY <3>4, <3>5, <4>1, <5>1
      <4>2. CASE \E e \in 1..Len(t) : c = Len(s) + e
        BY <3>4, <3>5, <4>2
      <4> QED
        BY <3>4, <4>1, <4>2
    <3>8. Related(m + 1)
      <4> SUFFICES ASSUME NEW c \in 1..Len(s \o t), NEW d \in 1..Len(s \o t), c < d
                   PROVE  <<(s \o t)[c], (s \o t)[d]>> \in R
        BY <3>3
      <4>1. CASE c \in 1..Len(s) /\ d \in 1..Len(s)
        BY <3>2, <3>4, <4>1
      <4>2. ASSUME NEW e \in 1..Len(t), c \in 1..Len(s), d = Len(s) + e
            PROVE  <<(s \o t)[c], (s \o t)[d]>> \in R
        <5>1. PICK k \in 1..m : \E i \in 1..Len(seqs[k]) : s[c] = seqs[k][i]
          BY <3>2, <4>2
        <5>2. PICK i \in 1..Len(seqs[k]) : s[c] = seqs[k][i]
          BY <5>1
        <5>3. (s \o t)[c] = seqs[k][i] /\ (s \o t)[d] = seqs[m + 1][e]
          BY <3>4, <4>2, <5>2
        <5>4. k \in 1..L /\ m + 1 \in 1..L /\ k < m + 1
          BY <3>5
        <5>5. <<seqs[k][i], seqs[m + 1][e]>> \in R
          BY <5>2, <5>4, <4>2 DEF L
        <5> QED
          BY <5>3, <5>5
      <4>3. ASSUME NEW e \in 1..Len(t), NEW g \in 1..Len(t), c = Len(s) + e, d = Len(s) + g
            PROVE  <<(s \o t)[c], (s \o t)[d]>> \in R
        <5>1. e < g
          BY <3>4, <4>3
        <5>2. (s \o t)[c] = t[e] /\ (s \o t)[d] = t[g]
          BY <3>4, <4>3
        <5>3. <<seqs[m + 1][e], seqs[m + 1][g]>> \in R
          BY <5>1 DEF L
        <5> QED
          BY <5>2, <5>3
      <4>4. ASSUME NEW e \in 1..Len(t), c = Len(s) + e, d \in 1..Len(s)
            PROVE  FALSE
        BY <3>4, <4>4
      <4> QED
        BY <3>4, <4>1, <4>2, <4>3, <4>4
    <3> QED
      BY <3>6, <3>7, <3>8
  <2>5. T = Nat
    <3> HIDE DEF T
    <3>1. T \in SUBSET Nat
      BY DEF T
    <3> QED
      BY <2>3, <2>4, <3>1, AllNumbers
  <2>6. Whole(L) /\ Only(L) /\ Related(L)
    <3>1. PICK n \in T : n + 1 = L
      <4>1. L - 1 \in Nat /\ (L - 1) + 1 = L
        BY <2>2
      <4> HIDE DEF T
      <4> QED
        BY <2>5, <4>1
    <3>2. L \in 1..L
      BY <2>2
    <3> HIDE DEF L, Whole, Only, Related
    <3> QED
      BY <3>1, <3>2
  <2>7. f[L] \in Seq(S)
    BY <2>2
  <2> QED
    BY <2>1, <2>6, <2>7
<1> QED
  BY <1>1, <1>2

LEMMA ListOf ==
  ASSUME NEW S, NEW n \in Nat, NEW s \in [1..n -> S]
  PROVE  s \in Seq(S) /\ Len(s) = n
OBVIOUS

CallOf(t, m, r) == [target |-> t, model |-> m, index |-> r]

NoneTwice(models) ==
  \A t \in Targets : \A i, j \in 1..Len(models[t]) : models[t][i] = models[t][j] => i = j

(* Target after target; without repetitions in the request, the runs of a
   model in order, and no call twice. *)
CallsInOrder(models) ==
  {p \in CallType \X CallType :
     /\ p[1].target <= p[2].target
     /\ NoneTwice(models) => \/ p[1].target # p[2].target
                             \/ p[1].model # p[2].model
                             \/ p[1].index < p[2].index}

LEMMA CallsOfTarget ==
  ASSUME NEW models \in Seq(Seq(Nat)), Len(models) = Len(Provider), NEW t \in Targets
  PROVE  LET at == CallsAt(models, t) IN
         /\ at \in Seq(CallType)
         /\ \A i \in 1..Len(models[t]), r \in 1..RepeatCount :
              \E c \in 1..Len(at) : at[c] = CallOf(t, models[t][i], r)
         /\ \A c \in 1..Len(at) : \E i \in 1..Len(models[t]), r \in 1..RepeatCount :
              at[c] = CallOf(t, models[t][i], r)
         /\ \A c, d \in 1..Len(at) : c < d => <<at[c], at[d]>> \in CallsInOrder(models)
<1> DEFINE m == models[t]
           runs(i) == [r \in 1..RepeatCount |-> CallOf(t, m[i], r)]
           seqs == [i \in 1..Len(m) |-> runs(i)]
           R == CallsInOrder(models)
<1>1. /\ RepeatCount \in Nat /\ Targets \in SUBSET Nat /\ t \in Nat
      /\ m \in Seq(Nat) /\ Len(m) \in Nat /\ DOMAIN m = 1..Len(m)
  <2>1. Provider \in Seq({"openai-compatible", "ollama"}) /\ RepeatCount \in Nat
    BY PlanAssumption
  <2>2. Targets = 1..Len(Provider) /\ Len(Provider) \in Nat
    BY <2>1 DEF Targets
  <2>3. m \in Seq(Nat)
    BY <2>2
  <2> QED
    BY <2>1, <2>2, <2>3
<1>2. CallsAt(models, t) = FlattenSeq(seqs)
  BY <1>1 DEF CallsAt, CallOf
<1> HIDE DEF m
<1>3. ASSUME NEW i \in 1..Len(m)
      PROVE  /\ runs(i) \in Seq(CallType) /\ Len(runs(i)) = RepeatCount
             /\ \A r \in 1..RepeatCount : runs(i)[r] = CallOf(t, m[i], r)
  <2>1. m[i] \in Nat
    BY <1>1
  <2>2. \A r \in 1..RepeatCount : CallOf(t, m[i], r) \in CallType
    BY <2>1 DEF CallOf, CallType
  <2>3. runs(i) \in [1..RepeatCount -> CallType]
    BY <2>2
  <2> QED
    BY <1>1, <2>3
<1>4. seqs \in Seq(Seq(CallType)) /\ Len(seqs) = Len(m) /\ \A i \in 1..Len(m) : seqs[i] = runs(i)
  <2>1. \A i \in 1..Len(m) : runs(i) \in Seq(CallType)
    BY <1>3
  <2> HIDE DEF runs
  <2>2. seqs \in [1..Len(m) -> Seq(CallType)] /\ \A i \in 1..Len(m) : seqs[i] = runs(i)
    BY <2>1
  <2> HIDE DEF seqs
  <2>3. seqs \in Seq(Seq(CallType)) /\ Len(seqs) = Len(m)
    BY <1>1, <2>2, ListOf
  <2> QED
    BY <2>2, <2>3
<1>5. ASSUME NEW k \in 1..Len(m), NEW l \in 1..Len(m),
             NEW i \in 1..RepeatCount, NEW j \in 1..RepeatCount,
             k < l \/ (k = l /\ i < j)
      PROVE  <<CallOf(t, m[k], i), CallOf(t, m[l], j)>> \in R
  <2>1. CallOf(t, m[k], i) \in CallType /\ CallOf(t, m[l], j) \in CallType
    BY <1>1 DEF CallOf, CallType
  <2>2. NoneTwice(models) /\ ~(k = l /\ i < j) => m[k] # m[l]
    BY <1>1, <1>5 DEF NoneTwice, m
  <2>3. t <= t
    BY <1>1
  <2> QED
    BY <1>5, <2>1, <2>2, <2>3 DEF CallsInOrder, CallOf
<1> HIDE DEF seqs, runs, R
<1>6. /\ \A k \in 1..Len(seqs) : \A i, j \in 1..Len(seqs[k]) :
           i < j => <<seqs[k][i], seqs[k][j]>> \in R
      /\ \A k, l \in 1..Len(seqs) : k < l =>
           \A i \in 1..Len(seqs[k]), j \in 1..Len(seqs[l]) : <<seqs[k][i], seqs[l][j]>> \in R
  <2>1. ASSUME NEW k \in 1..Len(m), NEW l \in 1..Len(m),
               NEW i \in 1..Len(seqs[k]), NEW j \in 1..Len(seqs[l]),
               k < l \/ (k = l /\ i < j)
        PROVE  <<seqs[k][i], seqs[l][j]>> \in R
    <3>1. i \in 1..RepeatCount /\ j \in 1..RepeatCount
      BY <1>3, <1>4, <2>1
    <3>2. seqs[k][i] = CallOf(t, m[k], i) /\ seqs[l][j] = CallOf(t, m[l], j)
      BY <1>3, <1>4, <3>1
    <3>3. <<CallOf(t, m[k], i), CallOf(t, m[l], j)>> \in R
      BY <1>5, <2>1, <3>1
    <3> QED
      BY <3>2, <3>3
  <2> QED
    BY <1>4, <2>1
<1> DEFINE at == FlattenSeq(seqs)
<1>7. /\ at \in Seq(CallType)
      /\ \A k \in 1..Len(seqs) : \A i \in 1..Len(seqs[k]) : \E c \in 1..Len(at) : at[c] = seqs[k][i]
      /\ \A c \in 1..Len(at) : \E k \in 1..Len(seqs) : \E i \in 1..Len(seqs[k]) : at[c] = seqs[k][i]
      /\ \A c, d \in 1..Len(at) : c < d => <<at[c], at[d]>> \in R
  BY <1>4, <1>6, Flattened
<1> HIDE DEF at
<1>8. /\ \A i \in 1..Len(m), r \in 1..RepeatCount : \E c \in 1..Len(at) : at[c] = CallOf(t, m[i], r)
      /\ \A c \in 1..Len(at) : \E i \in 1..Len(m), r \in 1..RepeatCount : at[c] = CallOf(t, m[i], r)
  <2>1. \A k \in 1..Len(m) : /\ Len(seqs[k]) = RepeatCount
                              /\ \A r \in 1..RepeatCount : seqs[k][r] = CallOf(t, m[k], r)
    BY <1>3, <1>4
  <2>2. ASSUME NEW i \in 1..Len(m), NEW r \in 1..RepeatCount
        PROVE  \E c \in 1..Len(at) : at[c] = CallOf(t, m[i], r)
    <3>1. PICK c \in 1..Len(at) : at[c] = seqs[i][r]
      BY <1>4, <1>7, <2>1
    <3> QED
      BY <2>1, <3>1
  <2>3. ASSUME NEW c \in 1..Len(at)
        PROVE  \E i \in 1..Len(m), r \in 1..RepeatCount : at[c] = CallOf(t, m[i], r)
    <3>1. PICK k \in 1..Len(m) : \E i \in 1..Len(seqs[k]) : at[c] = seqs[k][i]
      BY <1>4, <1>7
    <3>2. PICK i \in 1..RepeatCount : at[c] = seqs[k][i]
      BY <2>1, <3>1
    <3> QED
      BY <2>1, <3>2
  <2> QED
    BY <2>2, <2>3
<1>9. CallsAt(models, t) = at
  BY <1>2 DEF at
<1> QED
  BY <1>7, <1>8, <1>9 DEF m, R

(***************************************************************************)
(* The plan that run_sequential and run_parallel make of a request: every  *)
(* run of every requested model of every target is in it, nothing else is, *)
(* targets come one after the other, and where no target names a model     *)
(* twice no call is made twice and the runs of a model come in order.  So  *)
(* PlanAssumption holds of every such plan.                                *)
(***************************************************************************)
THEOREM PlanIsTheRequest ==
  ASSUME NEW models \in Seq(Seq(Nat)), Len(models) = Len(Provider)
  PROVE  LET plan == PlanOf(models) IN
         /\ plan \in Seq(CallType)
         /\ \A t \in Targets : \A i \in 1..Len(models[t]), r \in 1..RepeatCount :
              \E c \in 1..Len(plan) : plan[c] = CallOf(t, models[t][i], r)
         /\ \A c \in 1..Len(plan) : \E t \in Targets :
              \E i \in 1..Len(models[t]), r \in 1..RepeatCount : plan[c] = CallOf(t, models[t][i], r)
         /\ \A c, d \in 1..Len(plan) : c < d => plan[c].target <= plan[d].target
         /\ NoneTwice(models) =>
              \A c, d \in 1..Len(plan) :
                /\ plan[c] = plan[d] => c = d
                /\ c < d /\ plan[c].target = plan[d].target /\ plan[c].model = plan[d].model
                     => plan[c].index < plan[d].index
<1> DEFINE seqs == [t \in 1..Len(models) |-> CallsAt(models, t)]
           plan == FlattenSeq(seqs)
           R == CallsInOrder(models)
<1>1. /\ Targets = 1..Len(models) /\ Len(models) \in Nat /\ DOMAIN models = 1..Len(models)
      /\ RepeatCount \in Nat
  BY PlanAssumption DEF Targets
<1>2. PlanOf(models) = plan
  BY <1>1 DEF PlanOf
<1>3. seqs \in Seq(Seq(CallType)) /\ Len(seqs) = Len(models)
      /\ \A t \in 1..Len(models) : seqs[t] = CallsAt(models, t)
  <2>1. \A t \in 1..Len(models) : CallsAt(models, t) \in Seq(CallType)
    BY <1>1, CallsOfTarget
  <2>2. /\ seqs \in [1..Len(models) -> Seq(CallType)]
        /\ \A t \in 1..Len(models) : seqs[t] = CallsAt(models, t)
    BY <2>1
  <2> HIDE DEF seqs
  <2>3. seqs \in Seq(Seq(CallType)) /\ Len(seqs) = Len(models)
    BY <1>1, <2>2, ListOf
  <2> QED
    BY <2>2, <2>3
<1> HIDE DEF seqs
<1>4. ASSUME NEW k \in 1..Len(seqs)
      PROVE  /\ k \in Targets
             /\ \A i \in 1..Len(models[k]), r \in 1..RepeatCount :
                  \E c \in 1..Len(seqs[k]) : seqs[k][c] = CallOf(k, models[k][i], r)
             /\ \A c \in 1..Len(seqs[k]) : \E i \in 1..Len(models[k]), r \in 1..RepeatCount :
                  seqs[k][c] = CallOf(k, models[k][i], r)
             /\ \A i, j \in 1..Len(seqs[k]) : i < j => <<seqs[k][i], seqs[k][j]>> \in R
  <2>1. k \in Targets /\ seqs[k] = CallsAt(models, k)
    BY <1>1, <1>3
  <2> DEFINE at == CallsAt(models, k)
  <2>2. /\ \A i \in 1..Len(models[k]), r \in 1..RepeatCount :
             \E c \in 1..Len(at) : at[c] = CallOf(k, models[k][i], r)
        /\ \A c \in 1..Len(at) : \E i \in 1..Len(models[k]), r \in 1..RepeatCount :
             at[c] = CallOf(k, models[k][i], r)
        /\ \A c, d \in 1..Len(at) : c < d => <<at[c], at[d]>> \in R
    BY <2>1, CallsOfTarget
  <2> HIDE DEF at, R
  <2>3. seqs[k] = at
    BY <2>1 DEF at
  <2> QED
    BY <2>1, <2>2, <2>3
<1>5. ASSUME NEW k \in 1..Len(seqs), NEW l \in 1..Len(seqs), k < l,
             NEW i \in 1..Len(seqs[k]), NEW j \in 1..Len(seqs[l])
      PROVE  <<seqs[k][i], seqs[l][j]>> \in R
  <2>1. seqs[k][i] \in CallType /\ seqs[l][j] \in CallType
    BY <1>3
  <2>2. seqs[k][i].target = k /\ seqs[l][j].target = l
    <3>1. \A t, x, r : CallOf(t, x, r).target = t
      BY DEF CallOf
    <3>2. PICK x, r : seqs[k][i] = CallOf(k, x, r)
      <4>1. \A c \in 1..Len(seqs[k]) : \E h \in 1..Len(models[k]), q \in 1..RepeatCount :
              seqs[k][c] = CallOf(k, models[k][h], q)
        BY <1>4
      <4> QED
        BY <4>1
    <3>3. PICK y, q : seqs[l][j] = CallOf(l, y, q)
      <4>1. \A c \in 1..Len(seqs[l]) : \E h \in 1..Len(models[l]), q \in 1..RepeatCount :
              seqs[l][c] = CallOf(l, models[l][h], q)
        BY <1>4
      <4> QED
        BY <4>1
    <3>4. seqs[k][i].target = k
      BY <3>1, <3>2
    <3>5. seqs[l][j].target = l
      BY <3>1, <3>3
    <3> QED
      BY <3>4, <3>5
  <2>3. k <= l /\ k # l
    BY <1>3, <1>1, <1>5
  <2> QED
    BY <2>1, <2>2, <2>3 DEF CallsInOrder
<1> HIDE DEF R
<1>6. /\ plan \in Seq(CallType)
      /\ \A k \in 1..Len(seqs) : \A i \in 1..Len(seqs[k]) : \E c \in 1..Len(plan) : plan[c] = seqs[k][i]
      /\ \A c \in 1..Len(plan) : \E k \in 1..Len(seqs) : \E i \in 1..Len(seqs[k]) : plan[c] = seqs[k][i]
      /\ \A c, d \in 1..Len(plan) : c < d => <<plan[c], plan[d]>> \in R
  BY <1>3, <1>4, <1>5, Flattened
<1> HIDE DEF plan
<1>7. ASSUME NEW t \in Targets, NEW i \in 1..Len(models[t]), NEW r \in 1..RepeatCount
      PROVE  \E c \in 1..Len(plan) : plan[c] = CallOf(t, models[t][i], r)
  <2>1. t \in 1..Len(seqs)
    BY <1>1, <1>3
  <2>2. PICK c \in 1..Len(seqs[t]) : seqs[t][c] = CallOf(t, models[t][i], r)
    BY <1>4, <2>1
  <2> QED
    BY <1>6, <2>1, <2>2
<1>8. ASSUME NEW c \in 1..Len(plan)
      PROVE  \E t \in Targets : \E i \in 1..Len(models[t]), r \in 1..RepeatCount :
               plan[c] = CallOf(t, models[t][i], r)
  <2>1. PICK k \in 1..Len(seqs) : \E i \in 1..Len(seqs[k]) : plan[c] = seqs[k][i]
    BY <1>6
  <2>2. PICK i \in 1..Len(seqs[k]) : plan[c] = seqs[k][i]
    BY <2>1
  <2>3. PICK m \in 1..Len(models[k]) : \E r \in 1..RepeatCount :
                                         seqs[k][i] = CallOf(k, models[k][m], r)
    BY <1>4
  <2> QED
    BY <1>4, <2>2, <2>3
<1>9. ASSUME NEW c \in 1..Len(plan), NEW d \in 1..Len(plan), c < d
      PROVE  /\ plan[c].target <= plan[d].target
             /\ NoneTwice(models) /\ plan[c].target = plan[d].target /\ plan[c].model = plan[d].model
                  => plan[c].index < plan[d].index
  BY <1>6, <1>9 DEF R, CallsInOrder
<1>10. ASSUME NoneTwice(models), NEW c \in 1..Len(plan), NEW d \in 1..Len(plan), plan[c] = plan[d]
       PROVE  c = d
  <2>1. plan[c].index \in Nat /\ Len(plan) \in Nat
    <3>1. plan[c] \in CallType /\ Len(plan) \in Nat
      BY <1>6
    <3> QED
      BY <1>1, <3>1 DEF CallType
  <2>2. ~(c < d)
    BY <1>9, <1>10, <2>1
  <2>3. ~(d < c)
    BY <1>9, <1>10, <2>1
  <2> QED
    BY <2>1, <2>2, <2>3
<1> QED
  BY <1>2, <1>6, <1>7, <1>8, <1>9, <1>10
=============================================================================

-------------------------- MODULE ToolLoop_proofs --------------------------
(***************************************************************************)
(* What holds of every conversation of run_question_tool_calling, for all  *)
(* queries, verdicts, replies, limits and budgets.                         *)
(***************************************************************************)
EXTENDS ToolLoop, SequenceTheorems, TLAPS

Loops ==
  [calls : 0..MaxToolCalls, retries : 0..(MaxRetries + 1), silent : 0..MaxSilent,
   nudges : 0..MaxToolCalls, lastSql : Sqls \cup {NoSql}, executed : SUBSET Sqls,
   deadline : NoDeadline..Budget, warmTime : Nat, coldStart : BOOLEAN,
   matched : SUBSET (Sqls \cup {NoSql})]

(* Each reminder has used up the calls in which the model could stay silent. *)
Spaced(l) == l.nudges * (MaxSilent + 1) + l.silent <= l.calls

(***************************************************************************)
(* Locals l while the conversation goes on, the model being warm or not:   *)
(* a query that matched is in executed_sql, since a text that matches ends *)
(* the conversation, and what a cold question has spent and what is left   *)
(* make up the budget.                                                     *)
(***************************************************************************)
ClockRight(l, w) ==
  Budget > 0 /\ l.coldStart =>
    IF w THEN l.deadline >= 0 /\ l.warmTime + l.deadline = Budget ELSE l.warmTime = 0

Ongoing(l, w) ==
  /\ l \in Loops
  /\ l.retries <= MaxRetries
  /\ Spaced(l)
  /\ l.matched \subseteq l.executed
  /\ ClockRight(l, w)

(* Locals l with which the conversation may end. *)
Ended(l) ==
  /\ l \in Loops
  /\ Spaced(l)
  /\ Budget > 0 /\ l.coldStart => l.warmTime <= Budget

Steered ==
  /\ TypeOK
  /\ Ended(loop)
  /\ phase \in {"calling", "handling"} => Ongoing(loop, warmed)
  /\ phase = "calling" => loop.calls < MaxToolCalls
  /\ phase = "handling" => warmed /\ rest # << >>
  /\ SuccessIsEarned

-----------------------------------------------------------------------------
LEMMA Limits ==
  /\ NoSql \notin Sqls /\ "match" \notin Verdicts[NoSql]
  /\ Verdicts \in [Sqls \cup {NoSql} -> SUBSET {"match", "mismatch", "error"}]
  /\ NQuestions \in Nat \ {0} /\ MaxToolCalls \in Nat \ {0}
  /\ MaxTicks \in Nat \ {0} /\ MaxReply \in Nat \ {0}
  /\ MaxRetries \in Nat /\ MaxSilent \in Nat /\ Budget \in Nat
BY LoopAssumption

(* The arithmetic of the reminders. *)
LEMMA OneMoreReminder ==
  ASSUME NEW n \in Nat, NEW m \in Nat
  PROVE  /\ n * (m + 1) \in Nat
         /\ (n + 1) * (m + 1) = n * (m + 1) + m + 1
         /\ n <= n * (m + 1)
<1>1. n * (m + 1) = n * m + n /\ n * m \in Nat
  OBVIOUS
<1>2. (n + 1) * (m + 1) = n * (m + 1) + (m + 1)
  OBVIOUS
<1>3. QED
  BY <1>1, <1>2

LEMMA OngoingMayEnd ==
  ASSUME NEW l, NEW w \in BOOLEAN, Ongoing(l, w)
  PROVE  Ended(l)
BY Limits DEF Ongoing, Ended, ClockRight, Loops, NoDeadline

(* A conversation at its first call. *)
LEMMA FreshLocals ==
  ASSUME NEW w \in BOOLEAN
  PROVE  Ongoing(NewLoop(~w), w) /\ NewLoop(~w).calls = 0 /\ NewLoop(~w).lastSql = NoSql
<1> DEFINE l == NewLoop(~w)
<1>1. /\ l.calls = 0 /\ l.retries = 0 /\ l.silent = 0 /\ l.nudges = 0 /\ l.lastSql = NoSql
      /\ l.executed = {} /\ l.deadline = -1 /\ l.warmTime = 0 /\ l.matched = {}
      /\ l.coldStart = ~w
  BY DEF NewLoop, NoDeadline
<1>2. l \in Loops
  BY Limits DEF NewLoop, NoDeadline, Loops
<1> HIDE DEF l
<1>3. 0 * (MaxSilent + 1) = 0
  BY Limits
<1>4. Spaced(l)
  BY <1>1, <1>3 DEF Spaced
<1>5. ClockRight(l, w)
  BY <1>1 DEF ClockRight
<1>6. Ongoing(l, w)
  BY <1>1, <1>2, <1>4, <1>5, Limits DEF Ongoing
<1>7. QED
  BY <1>1, <1>6 DEF l

(***************************************************************************)
(* The locals after a reply: one more call, of which silence or a reminder *)
(* may make use.                                                           *)
(***************************************************************************)
LEMMA ReceivedLocals ==
  ASSUME Steered, phase = "calling", NEW d \in 1..MaxTicks, InTime(d)
  PROVE  LET l == Received(d) IN
         /\ Ongoing(l, TRUE)
         /\ l.nudges * (MaxSilent + 1) + l.silent + 1 <= l.calls
         /\ l.nudges + 1 <= l.calls
<1> DEFINE l == Received(d)
<1>1. /\ loop \in Loops /\ Ongoing(loop, warmed) /\ loop.calls < MaxToolCalls
      /\ warmed \in BOOLEAN
  BY DEF Steered, TypeOK, Ended
<1>2. d \in Nat \ {0} /\ Budget \in Nat /\ MaxToolCalls \in Nat /\ NoDeadline = -1
  BY Limits DEF NoDeadline
<1>3. /\ l.calls = loop.calls + 1 /\ l.retries = loop.retries /\ l.silent = loop.silent
      /\ l.nudges = loop.nudges /\ l.lastSql = loop.lastSql /\ l.executed = loop.executed
      /\ l.matched = loop.matched /\ l.coldStart = loop.coldStart
      /\ l.deadline = IF Budget = 0 THEN NoDeadline
                      ELSE IF ~warmed THEN Budget
                      ELSE IF loop.deadline = NoDeadline THEN NoDeadline ELSE loop.deadline - d
      /\ l.warmTime = IF warmed THEN loop.warmTime + d ELSE loop.warmTime
  BY <1>1 DEF Received, Loops
<1>4. Budget > 0 /\ warmed /\ loop.deadline # NoDeadline => d <= loop.deadline
  BY <1>2 DEF InTime, Timed, Remaining
<1>5. l.deadline \in NoDeadline..Budget /\ l.warmTime \in Nat /\ l.calls \in 0..MaxToolCalls
  BY <1>1, <1>2, <1>3, <1>4 DEF Loops
<1>6. l \in Loops
  <2> DEFINE left == IF Budget = 0 THEN NoDeadline
                     ELSE IF ~warmed THEN Budget
                     ELSE IF loop.deadline = NoDeadline THEN NoDeadline ELSE loop.deadline - d
             spent == IF warmed THEN loop.warmTime + d ELSE loop.warmTime
  <2>1. l = [loop EXCEPT !.calls = loop.calls + 1, !.deadline = left, !.warmTime = spent]
    BY DEF Received
  <2>2. left \in NoDeadline..Budget /\ spent \in Nat /\ loop.calls + 1 \in 0..MaxToolCalls
    BY <1>3, <1>5
  <2> HIDE DEF l, left, spent
  <2>3. QED
    BY <1>1, <2>1, <2>2 DEF Loops
<1> HIDE DEF l
<1>7. ClockRight(l, TRUE)
  BY <1>1, <1>2, <1>3, <1>4 DEF ClockRight, Ongoing, Loops
<1>8. loop.nudges * (MaxSilent + 1) \in Nat /\ loop.nudges <= loop.nudges * (MaxSilent + 1)
  BY <1>1, OneMoreReminder, Limits DEF Loops
<1>9. loop.nudges * (MaxSilent + 1) + loop.silent <= loop.calls
  BY <1>1 DEF Ongoing, Spaced
<1>10. /\ l.nudges * (MaxSilent + 1) + l.silent + 1 <= l.calls
       /\ l.nudges + 1 <= l.calls
  BY <1>1, <1>3, <1>8, <1>9 DEF Loops
<1>11. Spaced(l)
  BY <1>1, <1>3, <1>8, <1>9 DEF Loops, Spaced
<1>12. Ongoing(l, TRUE)
  BY <1>1, <1>3, <1>6, <1>7, <1>11 DEF Ongoing
<1>13. QED
  BY <1>10, <1>12 DEF l

-----------------------------------------------------------------------------
(***************************************************************************)
(* How the loop goes on: by a call, or by an end that is earned.           *)
(***************************************************************************)
Calling(l) ==
  /\ phase' = "calling" /\ loop' = l /\ rest' = << >> /\ UNCHANGED result
  /\ l.calls < MaxToolCalls /\ ~stopRequested

Concluded(l) ==
  /\ phase' = "done" /\ loop' = l /\ rest' = << >>
  /\ result' \in [stop : StopReasons \cup {"none"}, sql : Sqls \cup {NoSql}, success : BOOLEAN]
  /\ result'.success => result'.sql = l.lastSql /\ result'.sql \in l.matched \cap Sqls

LEMMA EarnedConcludes ==
  ASSUME NEW l \in Loops, NEW stop \in StopReasons, NEW sql \in Sqls \cup {NoSql},
         NEW success \in BOOLEAN, Finish(l, stop, sql, success),
         success => sql = l.lastSql /\ sql \in l.matched \cap Sqls
  PROVE  Concluded(l)
<1>1. /\ phase' = "done" /\ loop' = l /\ rest' = << >>
      /\ result' = [stop |-> stop, sql |-> sql, success |-> success]
  BY DEF Finish
<1>2. result'.sql = sql /\ result'.success = success
  BY <1>1
<1>3. result' \in [stop : StopReasons \cup {"none"}, sql : Sqls \cup {NoSql}, success : BOOLEAN]
  BY <1>1
<1>4. QED
  BY <1>1, <1>2, <1>3 DEF Concluded

LEMMA HeadGoesOn ==
  ASSUME NEW l \in Loops, NEW w \in BOOLEAN, LoopHead(l, w)
  PROVE  Calling(l) \/ Concluded(l)
<1>1. /\ l.calls \in Nat /\ l.lastSql \in Sqls \cup {NoSql} /\ l.executed \subseteq Sqls
      /\ MaxToolCalls \in Nat
  BY Limits DEF Loops
<1> USE DEF StopReasons
<1>2. CASE l.calls >= MaxToolCalls
  <2>1. LimitReached(l)
    BY <1>2 DEF LoopHead
  <2>2. CASE l.lastSql \in l.executed
    <3>1. Finish(l, "limit_forced_ok", l.lastSql, Matched(l, l.lastSql))
      BY <2>1, <2>2 DEF LimitReached
    <3>2. Matched(l, l.lastSql) <=> l.lastSql \in l.matched
      BY DEF Matched
    <3>3. Matched(l, l.lastSql) \in BOOLEAN /\ l.lastSql \in Sqls
      BY <1>1, <2>2 DEF Matched
    <3>4. QED
      BY <1>1, <3>1, <3>2, <3>3, EarnedConcludes
  <2>3. CASE l.lastSql \notin l.executed
    <3>1. Finish(l, "tool_call_limit", l.lastSql, FALSE)
      BY <2>1, <2>3 DEF LimitReached
    <3>2. QED
      BY <1>1, <3>1, EarnedConcludes
  <2>4. QED
    BY <2>2, <2>3
<1>3. CASE ~(l.calls >= MaxToolCalls) /\ stopRequested
  <2>1. Finish(l, "aborted", l.lastSql, FALSE)
    BY <1>3 DEF LoopHead
  <2>2. QED
    BY <1>1, <2>1, EarnedConcludes
<1>4. CASE ~(l.calls >= MaxToolCalls) /\ ~stopRequested /\ Timed(w) /\ Remaining(l) <= 0
  <2>1. Finish(l, "question_timeout", l.lastSql, FALSE)
    BY <1>4 DEF LoopHead
  <2>2. QED
    BY <1>1, <2>1, EarnedConcludes
<1>5. CASE ~(l.calls >= MaxToolCalls) /\ ~stopRequested /\ ~(Timed(w) /\ Remaining(l) <= 0)
  <2>1. phase' = "calling" /\ loop' = l /\ rest' = << >> /\ UNCHANGED result
    BY <1>5 DEF LoopHead
  <2>2. l.calls < MaxToolCalls
    BY <1>1, <1>5
  <2>3. QED
    BY <1>5, <2>1, <2>2 DEF Calling
<1>6. QED
  BY <1>2, <1>3, <1>4, <1>5

(***************************************************************************)
(* Either way the invariant holds again.                                   *)
(***************************************************************************)
LEMMA ConcludedKeeps ==
  ASSUME NEW l, Ended(l), Concluded(l), warmed' \in BOOLEAN, asked' \in 0..NQuestions,
         stopRequested' \in BOOLEAN
  PROVE  Steered'
<1>1. phase' = "done" /\ loop' = l /\ l \in Loops /\ rest' = << >>
  BY DEF Concluded, Ended
<1>2. rest' \in Seq(ToolCalls)
  BY <1>1
<1>3. TypeOK'
  BY <1>1, <1>2 DEF Concluded, TypeOK, Loops
<1>4. Ended(loop)'
  BY <1>1 DEF Ended, Spaced
<1>5. SuccessIsEarned'
  BY <1>1 DEF Concluded, SuccessIsEarned
<1>6. QED
  BY <1>1, <1>3, <1>4, <1>5 DEF Steered

LEMMA CallingKeeps ==
  ASSUME NEW l, Steered, Ongoing(l, warmed'), Calling(l), warmed' \in BOOLEAN,
         asked' \in 0..NQuestions, stopRequested' \in BOOLEAN
  PROVE  Steered'
<1>1. phase' = "calling" /\ loop' = l /\ l \in Loops /\ rest' = << >> /\ result' = result
  BY DEF Calling, Ongoing
<1>2. rest' \in Seq(ToolCalls)
  BY <1>1
<1>3. TypeOK'
  BY <1>1, <1>2 DEF TypeOK, Steered, Loops
<1>4. Ongoing(loop, warmed)'
  BY <1>1 DEF Ongoing, Spaced, ClockRight
<1>5. Ended(loop)'
  <2>1. Ended(l)
    BY OngoingMayEnd
  <2>2. QED
    BY <1>1, <2>1 DEF Ended, Spaced
<1>6. SuccessIsEarned'
  BY <1>1 DEF SuccessIsEarned
<1>7. QED
  BY <1>1, <1>3, <1>4, <1>5, <1>6 DEF Steered, Calling

LEMMA HeadKeeps ==
  ASSUME NEW l, NEW w \in BOOLEAN, Steered, Ongoing(l, w), LoopHead(l, w), warmed' = w,
         asked' \in 0..NQuestions, stopRequested' \in BOOLEAN
  PROVE  Steered'
<1>1. l \in Loops /\ Ended(l)
  BY OngoingMayEnd DEF Ongoing
<1>2. Calling(l) \/ Concluded(l)
  BY <1>1, HeadGoesOn
<1>3. QED
  BY <1>1, <1>2, ConcludedKeeps, CallingKeeps

LEMMA HandlingKeeps ==
  ASSUME NEW l, Steered, Ongoing(l, TRUE), warmed' = TRUE, phase' = "handling", loop' = l,
         rest' \in Seq(ToolCalls), rest' # << >>, UNCHANGED <<asked, result, stopRequested>>
  PROVE  Steered'
<1>1. Ended(l) /\ l \in Loops
  BY OngoingMayEnd DEF Ongoing
<1>2. TypeOK'
  BY <1>1 DEF TypeOK, Steered, Loops
<1>3. Ended(loop)' /\ Ongoing(loop, warmed)'
  BY <1>1 DEF Ended, Ongoing, Spaced, ClockRight
<1>4. SuccessIsEarned'
  BY DEF SuccessIsEarned
<1>5. QED
  BY <1>2, <1>3, <1>4 DEF Steered

LEMMA HandledKeeps ==
  ASSUME NEW l, Steered, phase = "handling", Ongoing(l, TRUE), Handled(l),
         UNCHANGED <<asked, warmed, stopRequested>>
  PROVE  Steered'
<1>1. /\ warmed = TRUE /\ rest \in Seq(ToolCalls) /\ rest # << >>
      /\ asked' \in 0..NQuestions /\ stopRequested' \in BOOLEAN
  BY DEF Steered, TypeOK
<1>2. Tail(rest) \in Seq(ToolCalls)
  BY <1>1, HeadTailProperties
<1>3. CASE Tail(rest) = << >>
  <2>1. LoopHead(l, TRUE) /\ warmed' = TRUE
    BY <1>1, <1>3 DEF Handled
  <2>2. QED
    BY <1>1, <2>1, HeadKeeps
<1>4. CASE Tail(rest) # << >>
  <2>1. /\ loop' = l /\ rest' = Tail(rest) /\ phase' = "handling"
        /\ UNCHANGED <<asked, result, stopRequested>> /\ warmed' = TRUE
    BY <1>1, <1>4 DEF Handled
  <2>2. QED
    BY <1>2, <1>4, <2>1, HandlingKeeps
<1>5. QED
  BY <1>3, <1>4

(* The tool call at hand. *)
LEMMA CallAtHand ==
  ASSUME Steered, phase = "handling"
  PROVE  Head(rest).sql \in Sqls \cup {NoSql} /\ Ongoing(loop, TRUE) /\ loop \in Loops
<1>1. rest \in Seq(ToolCalls) /\ rest # << >> /\ Ongoing(loop, TRUE)
  BY DEF Steered, TypeOK
<1>2. Head(rest) \in ToolCalls
  BY <1>1, HeadTailProperties
<1>3. \A c \in ToolCalls : c.sql \in Sqls \cup {NoSql}
  BY DEF ToolCalls
<1>4. QED
  BY <1>1, <1>2, <1>3 DEF Ongoing

(* The locals after a query, by a tool call or as text: the model is warm. *)
OngoingWarm(l) == Ongoing(l, TRUE)

Queried(l, s, v, e) ==
  /\ Ended(e)
  /\ e.lastSql = s
  /\ e.matched \subseteq l.matched \cup {s}
  /\ v = "match" => s \in e.matched
  /\ v # "match" => e.matched = l.matched
  /\ e.executed = l.executed
  /\ v = "error" /\ ~(e.retries > MaxRetries) => OngoingWarm(e)
  /\ e.calls = l.calls /\ e.silent = l.silent /\ e.nudges = l.nudges
  /\ e.deadline = l.deadline /\ e.warmTime = l.warmTime /\ e.coldStart = l.coldStart

LEMMA QueriedLocals ==
  ASSUME NEW l, OngoingWarm(l), NEW s \in Sqls \cup {NoSql},
         NEW v \in {"match", "mismatch", "error"}, NEW e, e = Executed(l, s, v)
  PROVE  Queried(l, s, v, e)
<1> DEFINE tried == IF v = "error" THEN l.retries + 1 ELSE l.retries
           matching == IF v = "match" THEN l.matched \cup {s} ELSE l.matched
<1>1. l \in Loops /\ l.retries <= MaxRetries /\ MaxRetries \in Nat
  BY Limits DEF OngoingWarm, Ongoing
<1>2. tried \in 0..(MaxRetries + 1) /\ matching \in SUBSET (Sqls \cup {NoSql})
  BY <1>1 DEF Loops
<1>3. e = [l EXCEPT !.lastSql = s, !.retries = tried, !.matched = matching]
  BY DEF Executed
<1> HIDE DEF tried, matching
<1>4. e \in Loops
  BY <1>1, <1>2, <1>3 DEF Loops
<1>5. /\ e.lastSql = s /\ e.retries = tried /\ e.matched = matching
      /\ e.calls = l.calls /\ e.silent = l.silent /\ e.nudges = l.nudges
      /\ e.executed = l.executed /\ e.deadline = l.deadline /\ e.warmTime = l.warmTime
      /\ e.coldStart = l.coldStart
  BY <1>1, <1>3 DEF Loops
<1>6. Ended(l) /\ Spaced(l) /\ ClockRight(l, TRUE) /\ l.matched \subseteq l.executed
  BY OngoingMayEnd DEF OngoingWarm, Ongoing
<1>7. Spaced(e) /\ ClockRight(e, TRUE) /\ Ended(e)
  BY <1>4, <1>5, <1>6 DEF Spaced, ClockRight, Ended
<1>8. /\ e.matched \subseteq l.matched \cup {s}
      /\ v = "match" => s \in e.matched
      /\ v # "match" => e.matched = l.matched
  BY <1>5 DEF matching
<1>9. v = "error" /\ ~(e.retries > MaxRetries) => Ongoing(e, TRUE)
  <2>1. v = "error" => e.matched \subseteq e.executed
    BY <1>5, <1>6, <1>8
  <2>2. ~(e.retries > MaxRetries) => e.retries <= MaxRetries
    BY <1>1, <1>2, <1>5
  <2>3. QED
    BY <1>4, <1>7, <2>1, <2>2 DEF Ongoing
<1>10. QED
  BY <1>5, <1>7, <1>8, <1>9 DEF Queried, OngoingWarm

-----------------------------------------------------------------------------
LEMMA SteeredInit == Init => Steered
<1> SUFFICES ASSUME Init PROVE Steered
  OBVIOUS
<1>1. Ongoing(loop, FALSE) /\ loop \in Loops
  BY FreshLocals DEF Init, Ongoing
<1>2. rest \in Seq(ToolCalls)
  BY DEF Init
<1>3. result \in [stop : StopReasons \cup {"none"}, sql : Sqls \cup {NoSql}, success : BOOLEAN]
      /\ result.success = FALSE
  BY DEF Init, NoResult
<1>4. TypeOK
  <2>1. asked \in 0..NQuestions /\ phase \in {"idle", "calling", "handling", "done"}
    BY Limits DEF Init
  <2>2. warmed \in BOOLEAN /\ stopRequested \in BOOLEAN
    BY DEF Init
  <2>3. QED
    BY <1>1, <1>2, <1>3, <2>1, <2>2 DEF TypeOK, Loops
<1>5. Ended(loop)
  BY <1>1, OngoingMayEnd
<1>6. QED
  BY <1>4, <1>5 DEF Init, Steered, SuccessIsEarned

LEMMA AskKeeps ==
  ASSUME Steered, Ask
  PROVE  Steered'
<1>1. warmed \in BOOLEAN /\ asked' \in 0..NQuestions /\ stopRequested' \in BOOLEAN
      /\ warmed' = warmed /\ LoopHead(NewLoop(~warmed), warmed)
  BY Limits DEF Steered, TypeOK, Ask
<1>2. Ongoing(NewLoop(~warmed), warmed)
  BY <1>1, FreshLocals
<1>3. QED
  BY <1>1, <1>2, HeadKeeps

LEMMA ReplyToolsKeeps ==
  ASSUME Steered, NEW d \in 1..MaxTicks, NEW calls \in Replies, ReplyTools(calls, d)
  PROVE  Steered'
<1> DEFINE l == Received(d)
           k == [l EXCEPT !.silent = 0]
<1>1. Ongoing(l, TRUE) /\ l.nudges + 1 <= l.calls
      /\ l.nudges * (MaxSilent + 1) + l.silent + 1 <= l.calls
  BY ReceivedLocals DEF ReplyTools
<1>2. /\ phase' = "handling" /\ loop' = k /\ rest' = calls /\ warmed' = TRUE
      /\ UNCHANGED <<asked, result, stopRequested>>
  BY DEF ReplyTools
<1> HIDE DEF l
<1>3. /\ k \in Loops /\ k.calls = l.calls /\ k.retries = l.retries /\ k.silent = 0
      /\ k.nudges = l.nudges /\ k.executed = l.executed /\ k.matched = l.matched
      /\ k.deadline = l.deadline /\ k.warmTime = l.warmTime /\ k.coldStart = l.coldStart
  BY <1>1, Limits DEF Ongoing, Loops
<1>4. l.nudges * (MaxSilent + 1) \in Nat /\ l.silent \in Nat /\ l.calls \in Nat
  BY <1>1, OneMoreReminder, Limits DEF Ongoing, Loops
<1> HIDE DEF k
<1>5. Spaced(k)
  BY <1>1, <1>3, <1>4 DEF Spaced
<1>6. Ongoing(k, TRUE)
  BY <1>1, <1>3, <1>5 DEF Ongoing, ClockRight
<1>7. calls \in Seq(ToolCalls) /\ calls # << >>
  <2>1. PICK n \in 1..MaxReply : calls \in [1..n -> ToolCalls]
    BY DEF Replies
  <2>2. n \in Nat /\ n >= 1
    BY <2>1, Limits
  <2>3. calls \in Seq(ToolCalls)
    BY <2>1, <2>2
  <2>4. 1 \in DOMAIN calls
    BY <2>1, <2>2
  <2>5. QED
    BY <2>3, <2>4
<1>8. QED
  BY <1>2, <1>6, <1>7, HandlingKeeps

LEMMA ReplySqlKeeps ==
  ASSUME Steered, NEW d \in 1..MaxTicks, NEW s \in Sqls, NEW v \in Verdicts[s], ReplySql(s, v, d)
  PROVE  Steered'
<1> DEFINE l == Received(d)
           e == Executed(l, s, v)
<1>1. /\ phase = "calling" /\ InTime(d) /\ warmed' = TRUE
      /\ asked' \in 0..NQuestions /\ stopRequested' \in BOOLEAN
  BY DEF ReplySql, Steered, TypeOK
<1>2. /\ v # "error" => Finish(e, "results_ok", s, v = "match")
      /\ v = "error" /\ e.retries > MaxRetries => Finish(e, "query_failed", s, FALSE)
      /\ v = "error" /\ ~(e.retries > MaxRetries) => LoopHead(e, TRUE)
  BY DEF ReplySql
<1>3. Ongoing(l, TRUE)
  BY <1>1, ReceivedLocals
<1>4. v \in {"match", "mismatch", "error"}
  BY Limits
<1> HIDE DEF l
<1> HIDE DEF e
<1>5. Queried(l, s, v, e)
  <2>1. e = Executed(l, s, v)
    BY DEF e
  <2>2. OngoingWarm(l) /\ s \in Sqls \cup {NoSql}
    BY <1>3 DEF OngoingWarm
  <2>3. QED
    BY <1>4, <2>1, <2>2, QueriedLocals
<1>6. e \in Loops /\ Ended(e)
  BY <1>5 DEF Queried, Ended
<1>7. CASE v # "error"
  <2>1. (v = "match") \in BOOLEAN /\ (v = "match" => s = e.lastSql /\ s \in e.matched \cap Sqls)
    BY <1>5 DEF Queried
  <2>2. Concluded(e)
    BY <1>2, <1>6, <1>7, <2>1, EarnedConcludes DEF StopReasons
  <2>3. QED
    BY <1>1, <1>6, <2>2, ConcludedKeeps
<1>8. CASE v = "error" /\ e.retries > MaxRetries
  <2>1. Concluded(e)
    BY <1>2, <1>6, <1>8, EarnedConcludes DEF StopReasons
  <2>2. QED
    BY <1>1, <1>6, <2>1, ConcludedKeeps
<1>9. CASE v = "error" /\ ~(e.retries > MaxRetries)
  <2>1. Ongoing(e, TRUE)
    BY <1>5, <1>9 DEF Queried, OngoingWarm
  <2>2. QED
    BY <1>1, <1>2, <1>9, <2>1, HeadKeeps
<1>10. QED
  BY <1>7, <1>8, <1>9

LEMMA ReplyProseKeeps ==
  ASSUME Steered, NEW d \in 1..MaxTicks, ReplyProse(d)
  PROVE  Steered'
<1> DEFINE l == Received(d)
           a == [l EXCEPT !.silent = l.silent + 1]
           b == [l EXCEPT !.silent = 0, !.nudges = l.nudges + 1]
<1>1. /\ phase = "calling" /\ InTime(d) /\ warmed' = TRUE
      /\ asked' \in 0..NQuestions /\ stopRequested' \in BOOLEAN
  BY DEF ReplyProse, Steered, TypeOK
<1>2. \/ l.lastSql \in l.executed
           /\ Finish(l, "text_implicit_ok", l.lastSql, Matched(l, l.lastSql))
      \/ l.silent < MaxSilent /\ LoopHead(a, TRUE)
      \/ ~(l.silent < MaxSilent) /\ LoopHead(b, TRUE)
  BY DEF ReplyProse
<1>3. /\ Ongoing(l, TRUE) /\ l.nudges + 1 <= l.calls
      /\ l.nudges * (MaxSilent + 1) + l.silent + 1 <= l.calls
  BY <1>1, ReceivedLocals
<1> HIDE DEF l
<1>4. l \in Loops /\ Ended(l)
  BY <1>3, OngoingMayEnd DEF Ongoing
<1>5. /\ l.silent \in 0..MaxSilent /\ l.nudges \in Nat /\ l.calls \in 0..MaxToolCalls
      /\ MaxSilent \in Nat /\ MaxToolCalls \in Nat
  BY <1>4, Limits DEF Loops
<1>6. /\ l.nudges * (MaxSilent + 1) \in Nat
      /\ (l.nudges + 1) * (MaxSilent + 1) = l.nudges * (MaxSilent + 1) + MaxSilent + 1
  BY <1>5, OneMoreReminder
<1>7. CASE l.lastSql \in l.executed
           /\ Finish(l, "text_implicit_ok", l.lastSql, Matched(l, l.lastSql))
  <2>1. l.lastSql \in Sqls /\ Matched(l, l.lastSql) \in BOOLEAN
        /\ (Matched(l, l.lastSql) => l.lastSql \in l.matched \cap Sqls)
    BY <1>4, <1>7 DEF Matched, Loops
  <2>2. Concluded(l)
    BY <1>4, <1>7, <2>1, EarnedConcludes DEF StopReasons
  <2>3. QED
    BY <1>1, <1>4, <2>2, ConcludedKeeps
<1>8. CASE l.silent < MaxSilent /\ LoopHead(a, TRUE)
  <2>1. /\ a \in Loops /\ a.calls = l.calls /\ a.retries = l.retries /\ a.silent = l.silent + 1
        /\ a.nudges = l.nudges /\ a.executed = l.executed /\ a.matched = l.matched
        /\ a.deadline = l.deadline /\ a.warmTime = l.warmTime /\ a.coldStart = l.coldStart
    BY <1>4, <1>5, <1>8 DEF Loops
  <2> HIDE DEF a
  <2>2. Spaced(a)
    BY <1>3, <1>5, <1>6, <2>1 DEF Spaced
  <2>3. Ongoing(a, TRUE)
    BY <1>3, <2>1, <2>2 DEF Ongoing, ClockRight
  <2>4. QED
    BY <1>1, <1>8, <2>3, HeadKeeps
<1>9. CASE ~(l.silent < MaxSilent) /\ LoopHead(b, TRUE)
  <2>1. l.silent = MaxSilent /\ l.nudges + 1 \in 0..MaxToolCalls
    BY <1>3, <1>5, <1>9
  <2>2. /\ b \in Loops /\ b.calls = l.calls /\ b.retries = l.retries /\ b.silent = 0
        /\ b.nudges = l.nudges + 1 /\ b.executed = l.executed /\ b.matched = l.matched
        /\ b.deadline = l.deadline /\ b.warmTime = l.warmTime /\ b.coldStart = l.coldStart
    <3> DEFINE more == l.nudges + 1
    <3>1. more \in 0..MaxToolCalls /\ 0 \in 0..MaxSilent
      BY <1>5, <2>1
    <3>2. b = [l EXCEPT !.silent = 0, !.nudges = more]
      OBVIOUS
    <3> HIDE DEF b, more
    <3>3. b \in Loops /\ b.nudges = more
      BY <1>4, <3>1, <3>2 DEF Loops
    <3>4. /\ b.calls = l.calls /\ b.retries = l.retries /\ b.silent = 0
          /\ b.executed = l.executed /\ b.matched = l.matched
          /\ b.deadline = l.deadline /\ b.warmTime = l.warmTime /\ b.coldStart = l.coldStart
      BY <1>4, <3>2 DEF Loops
    <3>5. QED
      BY <3>3, <3>4 DEF more
  <2> HIDE DEF b
  <2>3. Spaced(b)
    BY <1>3, <1>5, <1>6, <2>1, <2>2 DEF Spaced
  <2>4. Ongoing(b, TRUE)
    BY <1>3, <2>2, <2>3 DEF Ongoing, ClockRight
  <2>5. QED
    BY <1>1, <1>9, <2>4, HeadKeeps
<1>10. QED
  BY <1>2, <1>7, <1>8, <1>9

(* The call ends without a reply that could be used. *)
LEMMA CallFailsKeeps ==
  ASSUME Steered, CallFails
  PROVE  Steered'
<1>1. /\ Ended(loop) /\ loop \in Loops /\ loop.lastSql \in Sqls \cup {NoSql}
      /\ warmed' \in BOOLEAN /\ asked' \in 0..NQuestions /\ stopRequested' \in BOOLEAN
  BY DEF Steered, TypeOK, Ended, Loops, CallFails
<1>2. Finish(loop, "call_failed", loop.lastSql, FALSE)
  BY DEF CallFails
<1>3. Concluded(loop)
  BY <1>1, <1>2, EarnedConcludes DEF StopReasons
<1>4. QED
  BY <1>1, <1>3, ConcludedKeeps

LEMMA ReplyRaisesKeeps ==
  ASSUME Steered, ReplyRaises
  PROVE  Steered'
<1>1. /\ Ended(loop) /\ loop \in Loops
      /\ warmed' \in BOOLEAN /\ asked' \in 0..NQuestions /\ stopRequested' \in BOOLEAN
  BY DEF Steered, TypeOK, Ended, ReplyRaises
<1>2. Finish(loop, "raised", NoSql, FALSE)
  BY DEF ReplyRaises
<1>3. Concluded(loop)
  BY <1>1, <1>2, EarnedConcludes DEF StopReasons
<1>4. QED
  BY <1>1, <1>3, ConcludedKeeps

(* What was left of the budget of a cold question is what its calls to the *)
(* warm model had not spent.                                               *)
LEMMA BudgetExpiresKeeps ==
  ASSUME Steered, BudgetExpires
  PROVE  Steered'
<1> DEFINE spent == loop.warmTime + Remaining(loop)
           k == [loop EXCEPT !.warmTime = spent]
<1>1. /\ Ended(loop) /\ Ongoing(loop, TRUE) /\ loop \in Loops /\ Budget > 0
      /\ warmed' \in BOOLEAN /\ asked' \in 0..NQuestions /\ stopRequested' \in BOOLEAN
  BY DEF Steered, TypeOK, Ended, BudgetExpires, Timed
<1>2. Finish(k, "question_timeout", loop.lastSql, FALSE)
  BY DEF BudgetExpires
<1>3. /\ Remaining(loop) \in Nat /\ spent \in Nat
      /\ loop.coldStart => spent = Budget
  BY <1>1, Limits DEF Remaining, Ongoing, ClockRight, Loops, NoDeadline
<1>4. loop.lastSql \in Sqls \cup {NoSql}
  BY <1>1 DEF Loops
<1> HIDE DEF spent
<1>5. /\ k \in Loops /\ k.warmTime = spent /\ k.coldStart = loop.coldStart
      /\ k.calls = loop.calls /\ k.silent = loop.silent /\ k.nudges = loop.nudges
  BY <1>1, <1>3 DEF Loops
<1> HIDE DEF k
<1>6. Ended(k)
  BY <1>1, <1>3, <1>5, Limits DEF Ended, Spaced
<1>7. Concluded(k)
  BY <1>2, <1>4, <1>5, EarnedConcludes DEF StopReasons
<1>8. QED
  BY <1>1, <1>6, <1>7, ConcludedKeeps

LEMMA UnknownToolKeeps ==
  ASSUME Steered, UnknownTool
  PROVE  Steered'
<1>1. phase = "handling" /\ Handled(loop) /\ UNCHANGED <<asked, warmed, stopRequested>>
  BY DEF UnknownTool, Handling
<1>2. Ongoing(loop, TRUE)
  BY <1>1, CallAtHand
<1>3. QED
  BY <1>1, <1>2, HandledKeeps

(* A query that was run in this conversation is not run again. *)
LEMMA DuplicateQueryKeeps ==
  ASSUME Steered, DuplicateQuery
  PROVE  Steered'
<1> DEFINE s == Head(rest).sql
           k == [loop EXCEPT !.lastSql = s]
<1>1. /\ phase = "handling" /\ s \in loop.executed
      /\ Finish(k, "duplicate_sql_forced_ok", s, Matched(loop, s))
      /\ warmed' \in BOOLEAN /\ asked' \in 0..NQuestions /\ stopRequested' \in BOOLEAN
  BY DEF DuplicateQuery, Handling, Steered, TypeOK
<1>2. s \in Sqls \cup {NoSql} /\ Ongoing(loop, TRUE) /\ loop \in Loops /\ Ended(loop)
  BY <1>1, CallAtHand, OngoingMayEnd
<1> HIDE DEF s
<1>3. s \in Sqls /\ Matched(loop, s) \in BOOLEAN /\ (Matched(loop, s) => s \in loop.matched)
  BY <1>1, <1>2 DEF Loops, Matched
<1>4. /\ k \in Loops /\ k.lastSql = s /\ k.matched = loop.matched
      /\ k.coldStart = loop.coldStart /\ k.warmTime = loop.warmTime
      /\ k.calls = loop.calls /\ k.silent = loop.silent /\ k.nudges = loop.nudges
  BY <1>2 DEF Loops
<1> HIDE DEF k
<1>5. Ended(k)
  BY <1>2, <1>4 DEF Ended, Spaced
<1>6. Concluded(k)
  BY <1>1, <1>2, <1>3, <1>4, EarnedConcludes DEF StopReasons
<1>7. QED
  BY <1>1, <1>5, <1>6, ConcludedKeeps

(* A query that worked is remembered, whether it matched or not; without   *)
(* SQL there is nothing to remember, and nothing that could match.         *)
LEMMA RunQueryKeeps ==
  ASSUME Steered, NEW v \in {"match", "mismatch", "error"}, RunQuery(v)
  PROVE  Steered'
<1> DEFINE s == Head(rest).sql
           e == Executed(loop, s, v)
           known == IF s = NoSql THEN e.executed ELSE e.executed \cup {s}
           k == [e EXCEPT !.retries = 0, !.executed = known]
<1>1. /\ phase = "handling" /\ v \in Verdicts[s]
      /\ UNCHANGED <<asked, warmed, stopRequested>>
      /\ warmed' \in BOOLEAN /\ asked' \in 0..NQuestions /\ stopRequested' \in BOOLEAN
  BY DEF RunQuery, Handling, Steered, TypeOK
<1>2. /\ v # "error" => Handled(k)
      /\ v = "error" /\ e.retries > MaxRetries => Finish(e, "query_failed", s, FALSE)
      /\ v = "error" /\ ~(e.retries > MaxRetries) => Handled(e)
  BY DEF RunQuery
<1>3. s \in Sqls \cup {NoSql} /\ OngoingWarm(loop)
  BY <1>1, CallAtHand DEF OngoingWarm
<1> HIDE DEF s
<1>4. e = Executed(loop, s, v)
  OBVIOUS
<1> HIDE DEF e
<1>5. Queried(loop, s, v, e)
  BY <1>3, <1>4, QueriedLocals
<1>6. e \in Loops /\ Ended(e)
  BY <1>5 DEF Queried, Ended
<1>7. CASE v # "error"
  <2>1. v = "match" => s # NoSql
    BY <1>1, Limits
  <2>2. loop.matched \subseteq loop.executed /\ ClockRight(loop, TRUE) /\ Spaced(loop)
    BY <1>3 DEF OngoingWarm, Ongoing
  <2>3. known \in SUBSET Sqls /\ e.matched \subseteq known
    BY <1>3, <1>5, <1>6, <2>1, <2>2 DEF Queried, Loops
  <2>4. k \in Loops /\ k.executed = known
    <3>1. 0 \in 0..(MaxRetries + 1)
      BY Limits
    <3>2. k = [e EXCEPT !.retries = 0, !.executed = known]
      BY DEF known
    <3> HIDE DEF k, known
    <3>3. QED
      BY <1>6, <2>3, <3>1, <3>2 DEF Loops
  <2> HIDE DEF known
  <2>5. /\ k.retries = 0 /\ k.matched = e.matched
        /\ k.calls = e.calls /\ k.silent = e.silent /\ k.nudges = e.nudges
        /\ k.deadline = e.deadline /\ k.warmTime = e.warmTime /\ k.coldStart = e.coldStart
    BY <1>6 DEF Loops
  <2> HIDE DEF k
  <2>6. Spaced(k) /\ ClockRight(k, TRUE)
    BY <1>5, <2>2, <2>5 DEF Spaced, ClockRight, Queried
  <2>7. Ongoing(k, TRUE)
    <3>1. 0 <= MaxRetries
      BY Limits
    <3>2. QED
      BY <2>3, <2>4, <2>5, <2>6, <3>1 DEF Ongoing
  <2>8. QED
    BY <1>1, <1>2, <1>7, <2>7, HandledKeeps
<1>8. CASE v = "error" /\ e.retries > MaxRetries
  <2>1. Concluded(e)
    BY <1>2, <1>3, <1>6, <1>8, EarnedConcludes DEF StopReasons
  <2>2. QED
    BY <1>1, <1>6, <2>1, ConcludedKeeps
<1>9. CASE v = "error" /\ ~(e.retries > MaxRetries)
  <2>1. Ongoing(e, TRUE)
    BY <1>5, <1>9 DEF Queried, OngoingWarm
  <2>2. QED
    BY <1>1, <1>2, <1>9, <2>1, HandledKeeps
<1>10. QED
  BY <1>7, <1>8, <1>9

LEMMA ResultsOkKeeps ==
  ASSUME Steered, NEW v \in {"match", "mismatch", "error"}, ResultsOk(v)
  PROVE  Steered'
<1> DEFINE s == loop.lastSql
           seen == IF v = "match" THEN loop.matched \cup {s} ELSE loop.matched
           k == [loop EXCEPT !.matched = seen]
<1>1. /\ phase = "handling" /\ v \in Verdicts[s]
      /\ warmed' \in BOOLEAN /\ asked' \in 0..NQuestions /\ stopRequested' \in BOOLEAN
  BY DEF ResultsOk, Handling, Steered, TypeOK
<1>2. /\ s = NoSql => Finish(loop, "results_ok", NoSql, FALSE)
      /\ s # NoSql => Finish(k, "results_ok", s, v = "match")
  BY DEF ResultsOk
<1>3. loop \in Loops /\ Ended(loop)
  BY <1>1, CallAtHand, OngoingMayEnd
<1>4. s \in Sqls \cup {NoSql} /\ seen \in SUBSET (Sqls \cup {NoSql})
      /\ (v = "match" => s \in seen)
  BY <1>3 DEF Loops
<1>5. CASE s = NoSql
  <2>1. Concluded(loop)
    BY <1>2, <1>3, <1>5, EarnedConcludes DEF StopReasons
  <2>2. QED
    BY <1>1, <1>3, <2>1, ConcludedKeeps
<1>6. CASE s # NoSql
  <2> HIDE DEF seen
  <2>1. k \in Loops /\ k.matched = seen
    BY <1>3, <1>4 DEF Loops
  <2>2. /\ k.lastSql = s /\ k.calls = loop.calls /\ k.silent = loop.silent
        /\ k.nudges = loop.nudges /\ k.warmTime = loop.warmTime /\ k.coldStart = loop.coldStart
    BY <1>3 DEF Loops
  <2>3. Finish(k, "results_ok", s, v = "match")
    BY <1>2, <1>6
  <2> HIDE DEF k, s
  <2>4. Ended(k)
    BY <1>3, <2>1, <2>2 DEF Ended, Spaced
  <2>5. s \in Sqls /\ (v = "match") \in BOOLEAN /\ (v = "match" => s \in k.matched \cap Sqls)
    BY <1>4, <1>6, <2>1
  <2>6. Concluded(k)
    BY <2>1, <2>2, <2>3, <2>5, EarnedConcludes DEF StopReasons
  <2>7. QED
    BY <1>1, <2>4, <2>6, ConcludedKeeps
<1>7. QED
  BY <1>5, <1>6

LEMMA StoppingKeeps ==
  ASSUME Steered, RequestStop \/ UNCHANGED vars
  PROVE  Steered'
<1>1. UNCHANGED <<asked, phase, loop, rest, result, warmed>> /\ stopRequested' \in BOOLEAN
  BY DEF RequestStop, vars, Steered, TypeOK
<1>2. TypeOK' /\ SuccessIsEarned'
  BY <1>1 DEF Steered, TypeOK, SuccessIsEarned
<1>3. Ended(loop)' /\ (phase \in {"calling", "handling"} => Ongoing(loop, warmed))'
  BY <1>1 DEF Steered, Ended, Ongoing, Spaced, ClockRight
<1>4. QED
  BY <1>1, <1>2, <1>3 DEF Steered

-----------------------------------------------------------------------------
LEMMA SteeredNext == Steered /\ [Next]_vars => Steered'
<1> SUFFICES ASSUME Steered, [Next]_vars PROVE Steered'
  OBVIOUS
<1>1. CASE Ask
  BY <1>1, AskKeeps
<1>2. ASSUME NEW d \in 1..MaxTicks, NEW calls \in Replies, ReplyTools(calls, d)
      PROVE  Steered'
  BY <1>2, ReplyToolsKeeps
<1>3. ASSUME NEW d \in 1..MaxTicks, NEW s \in Sqls, NEW v \in Verdicts[s], ReplySql(s, v, d)
      PROVE  Steered'
  BY <1>3, ReplySqlKeeps
<1>4. ASSUME NEW d \in 1..MaxTicks, ReplyProse(d)
      PROVE  Steered'
  BY <1>4, ReplyProseKeeps
<1>5. CASE CallFails
  BY <1>5, CallFailsKeeps
<1>6. CASE BudgetExpires
  BY <1>6, BudgetExpiresKeeps
<1>7. CASE ReplyRaises
  BY <1>7, ReplyRaisesKeeps
<1>8. CASE DuplicateQuery
  BY <1>8, DuplicateQueryKeeps
<1>9. ASSUME NEW v \in {"match", "mismatch", "error"}, RunQuery(v)
      PROVE  Steered'
  BY <1>9, RunQueryKeeps
<1>10. ASSUME NEW v \in {"match", "mismatch", "error"}, ResultsOk(v)
       PROVE  Steered'
  BY <1>10, ResultsOkKeeps
<1>11. CASE UnknownTool
  BY <1>11, UnknownToolKeeps
<1>12. CASE RequestStop \/ UNCHANGED vars
  BY <1>12, StoppingKeeps
<1>13. QED
  BY <1>1, <1>2, <1>3, <1>4, <1>5, <1>6, <1>7, <1>8, <1>9, <1>10, <1>11, <1>12
     DEF Next, LoopStep

LEMMA AlwaysSteered == Spec => []Steered
<1>1. QED
  BY SteeredInit, SteeredNext, PTL DEF Spec

(***************************************************************************)
(* TypeOK: the locals of the loop, its counters within their limits and    *)
(* the clock never below zero when the next call goes out, and what it     *)
(* returned.                                                               *)
(***************************************************************************)
THEOREM TypeCorrect == Spec => []TypeOK
<1>1. Steered => TypeOK
  BY DEF Steered
<1>2. QED
  BY <1>1, AlwaysSteered, PTL

(***************************************************************************)
(* SuccessIsEarned: a question only passes with the last query the model   *)
(* sent, and only if that query ran and matched during this question,      *)
(* whichever of the ways to end the loop was taken.                        *)
(***************************************************************************)
THEOREM SuccessEarned == Spec => []SuccessIsEarned
<1>1. Steered => SuccessIsEarned
  BY DEF Steered
<1>2. QED
  BY <1>1, AlwaysSteered, PTL

(***************************************************************************)
(* CallsAreRationed: a cold question never spends more than its budget in  *)
(* calls to the warm model, and between two reminders the model has had    *)
(* its chances, for all limits and budgets.                                *)
(***************************************************************************)
THEOREM CallsRationed == Spec => []CallsAreRationed
<1>1. Steered => CallsAreRationed
  BY DEF Steered, Ended, Spaced, CallsAreRationed, ColdQuestionKeepsBudget, RemindersAreSpaced
<1>2. QED
  BY <1>1, AlwaysSteered, PTL

-----------------------------------------------------------------------------
(* After a stop request the head of the loop makes no call. *)
LEMMA HeadObeysStop ==
  ASSUME NEW l, NEW w, LoopHead(l, w), stopRequested
  PROVE  phase' = "done"
BY DEF LoopHead, LimitReached, Finish

LEMMA HandledObeysStop ==
  ASSUME NEW l, Handled(l), phase = "handling", stopRequested
  PROVE  phase' # "calling"
<1>1. CASE Tail(rest) = << >>
  BY <1>1, HeadObeysStop DEF Handled
<1>2. CASE Tail(rest) # << >>
  BY <1>2 DEF Handled
<1>3. QED
  BY <1>1, <1>2

LEMMA StopObeyed ==
  ASSUME [Next]_vars, stopRequested, phase' = "calling"
  PROVE  phase = "calling" /\ loop' = loop
<1>1. CASE RequestStop \/ UNCHANGED vars
  BY <1>1 DEF RequestStop, vars
<1>2. ~Ask
  BY DEF Ask
<1>3. ASSUME NEW d \in 1..MaxTicks, NEW calls \in Replies, ReplyTools(calls, d)
      PROVE  FALSE
  BY <1>3 DEF ReplyTools
<1>4. ASSUME NEW d \in 1..MaxTicks, NEW s \in Sqls, NEW v \in Verdicts[s], ReplySql(s, v, d)
      PROVE  FALSE
  BY <1>4, HeadObeysStop DEF ReplySql, Finish
<1>5. ASSUME NEW d \in 1..MaxTicks, ReplyProse(d)
      PROVE  FALSE
  BY <1>5, HeadObeysStop DEF ReplyProse, Finish
<1>6. ~CallFails /\ ~BudgetExpires /\ ~ReplyRaises
  BY DEF CallFails, BudgetExpires, ReplyRaises, Finish
<1>7. ~DuplicateQuery
  BY DEF DuplicateQuery, Finish
<1>8. ASSUME NEW v \in {"match", "mismatch", "error"}, RunQuery(v)
      PROVE  FALSE
  BY <1>8, HandledObeysStop DEF RunQuery, Handling, Finish
<1>9. ASSUME NEW v \in {"match", "mismatch", "error"}, ResultsOk(v)
      PROVE  FALSE
  BY <1>9 DEF ResultsOk, Finish
<1>10. ~UnknownTool
  BY HandledObeysStop DEF UnknownTool, Handling
<1>11. QED
  BY <1>1, <1>2, <1>3, <1>4, <1>5, <1>6, <1>7, <1>8, <1>9, <1>10 DEF Next, LoopStep

(* A query that matched is in executed_sql, so only the duplicate branch   *)
(* can handle it.                                                          *)
LEMMA RepetitionEnds ==
  ASSUME Steered, [Next]_vars, NEW s \in loop.matched, phase = "handling",
         Head(rest) = [fn |-> "run_sql_query", sql |-> s]
  PROVE  (phase' = "done" /\ result'.success) \/ UNCHANGED vars
<1>1. s \in loop.executed
  BY CallAtHand DEF Ongoing
<1>2. Head(rest).fn = "run_sql_query" /\ Head(rest).sql = s
  OBVIOUS
<1>3. CASE DuplicateQuery
  <2>1. Finish([loop EXCEPT !.lastSql = s], "duplicate_sql_forced_ok", s, Matched(loop, s))
    BY <1>2, <1>3 DEF DuplicateQuery
  <2>2. phase' = "done" /\ result'.success = Matched(loop, s)
    BY <2>1 DEF Finish
  <2>3. QED
    BY <2>2 DEF Matched
<1>4. ASSUME NEW v \in {"match", "mismatch", "error"}, RunQuery(v)
      PROVE  FALSE
  BY <1>1, <1>2, <1>4 DEF RunQuery
<1>5. ASSUME NEW v \in {"match", "mismatch", "error"}, ResultsOk(v)
      PROVE  FALSE
  BY <1>2, <1>5 DEF ResultsOk, Handling
<1>6. ~UnknownTool
  BY <1>2 DEF UnknownTool, Handling
<1>7. ~Ask /\ ~CallFails /\ ~BudgetExpires /\ ~ReplyRaises /\ ~RequestStop
  BY DEF Ask, CallFails, BudgetExpires, ReplyRaises, RequestStop
<1>8. ASSUME NEW d \in 1..MaxTicks
      PROVE  /\ \A calls \in Replies : ~ReplyTools(calls, d)
             /\ \A q \in Sqls : \A v \in Verdicts[q] : ~ReplySql(q, v, d)
             /\ ~ReplyProse(d)
  BY DEF ReplyTools, ReplySql, ReplyProse
<1>9. QED
  BY <1>3, <1>4, <1>5, <1>6, <1>7, <1>8 DEF Next, LoopStep

(***************************************************************************)
(* NoNeedlessCall: no call goes out after a stop request, and a query that *)
(* is sent again after it gave the expected result ends the question with  *)
(* success.                                                                *)
(***************************************************************************)
THEOREM NothingNeedless == Spec => NoNeedlessCall
<1>1. [Next]_vars =>
        [stopRequested /\ phase' = "calling" => phase = "calling" /\ loop' = loop]_vars
  BY StopObeyed
<1>2. Steered /\ [Next]_vars =>
        [\A s \in loop.matched :
           phase = "handling" /\ Head(rest) = [fn |-> "run_sql_query", sql |-> s]
           => phase' = "done" /\ result'.success]_vars
  BY RepetitionEnds
<1>3. Spec => NoCallAfterStop
  BY <1>1, PTL DEF Spec, NoCallAfterStop
<1>4. Spec => RepetitionEndsQuestion
  BY <1>2, AlwaysSteered, PTL DEF Spec, RepetitionEndsQuestion
<1>5. QED
  BY <1>3, <1>4 DEF NoNeedlessCall
=============================================================================

------------------------------ MODULE ToolLoop ------------------------------
(***************************************************************************)
(* run_question_tool_calling: the conversation in which a model runs SQL   *)
(* through tools until it confirms a result, for a few questions that one  *)
(* model is asked in a row.  A reply is one await; the tool calls in it    *)
(* are handled one after the other without an await (DuckDB blocks the     *)
(* event loop), so no stop request comes between them.                     *)
(*                                                                         *)
(* What the model sends is arbitrary, what a query returns is drawn from   *)
(* the verdicts the comparison with the expected result can have.          *)
(***************************************************************************)
EXTENDS Integers, Sequences, FiniteSets

CONSTANTS
  Sqls,          (* normalised SQL texts                                   *)
  NoSql,         (* None: no SQL in the tool call                          *)
  Verdicts,      (* Verdicts[s]: what running s may give                   *)
  NQuestions,    (* questions asked in a row                               *)
  MaxToolCalls,  (* MAX_TOOL_CALLS                                         *)
  MaxRetries,    (* max_retries                                            *)
  MaxSilent,     (* MAX_NO_TOOL_CALL_RETRIES: 1 when thinking, else 3      *)
  Budget,        (* question_timeout_ms in ticks, 0 for none               *)
  MaxTicks,      (* bound: ticks a reply may take                          *)
  MaxReply       (* bound: tool calls in one reply                         *)

ASSUME LoopAssumption ==
  /\ NoSql \notin Sqls
  /\ Verdicts \in [Sqls \cup {NoSql} -> SUBSET {"match", "mismatch", "error"}]
  /\ "match" \notin Verdicts[NoSql]
  /\ {NQuestions, MaxToolCalls, MaxTicks, MaxReply} \subseteq Nat \ {0}
  /\ {MaxRetries, MaxSilent, Budget} \subseteq Nat

VARIABLES
  asked,          (* questions begun so far                                *)
  phase,          (* "idle", "calling", "handling" a reply, "done"         *)
  loop,           (* the locals of the call, see NewLoop                   *)
  rest,           (* tool calls of the reply still to handle               *)
  result,         (* what the last finished question returned              *)
  warmed,         (* the model is in warmed_models                         *)
  stopRequested   (* abort_signal.stop_requested                           *)

vars == <<asked, phase, loop, rest, result, warmed, stopRequested>>

-----------------------------------------------------------------------------
NoDeadline == -1

(* The locals of one run of the function, and three facts of its past:
   warmTime, the ticks spent in calls to the warm model; coldStart; and
   matched, the queries that were seen to match. *)
NewLoop(cold) ==
  [calls |-> 0, retries |-> 0, silent |-> 0, nudges |-> 0, lastSql |-> NoSql,
   executed |-> {}, deadline |-> NoDeadline,
   warmTime |-> 0, coldStart |-> cold, matched |-> {}]

ToolCalls ==
  {[fn |-> "run_sql_query", sql |-> s] : s \in Sqls \cup {NoSql}} \cup
  {[fn |-> f, sql |-> NoSql] : f \in {"results_ok", "unknown"}}

Replies == UNION {[1..n -> ToolCalls] : n \in 1..MaxReply}

NoResult == [stop |-> "none", sql |-> NoSql, success |-> FALSE]

(* stop_reason, with the causes the code lumps together as "error" told
   apart. *)
StopReasons == {"results_ok", "text_implicit_ok", "duplicate_sql_forced_ok",
                "limit_forced_ok", "tool_call_limit", "question_timeout",
                "aborted", "call_failed", "query_failed", "raised"}

(* What is left of the budget when the loop is at its head. *)
Timed(w) == Budget > 0 /\ w
Remaining(l) == IF l.deadline = NoDeadline THEN Budget ELSE l.deadline

Finish(l, stop, sql, success) ==
  /\ loop' = l
  /\ phase' = "done"
  /\ rest' = << >>
  /\ result' = [stop |-> stop, sql |-> sql, success |-> success]

(* Mutant: the result of another query is reused. *)
Matched_AnyQuery(l, s) == l.matched # {}

(* _finalize_tool_run on a query whose result is known. *)
Matched(l, s) == s \in l.matched

(* No call is left: the last query is scored, if it worked. *)
LimitReached(l) ==
  IF l.lastSql \in l.executed
  THEN Finish(l, "limit_forced_ok", l.lastSql, Matched(l, l.lastSql))
  ELSE Finish(l, "tool_call_limit", l.lastSql, FALSE)

(* Mutant: one call too many. *)
LoopHead_OneMore(l, w) ==
  IF l.calls > MaxToolCalls
  THEN LimitReached(l)
  ELSE IF stopRequested
  THEN Finish(l, "aborted", l.lastSql, FALSE)
  ELSE IF Timed(w) /\ Remaining(l) <= 0
  THEN Finish(l, "question_timeout", l.lastSql, FALSE)
  ELSE /\ loop' = l
       /\ phase' = "calling"
       /\ rest' = << >>
       /\ UNCHANGED result

(* The loop with locals l, and the model warm or not, is at its head. *)
LoopHead(l, w) ==
  IF l.calls >= MaxToolCalls
  THEN LimitReached(l)
  ELSE IF stopRequested
  THEN Finish(l, "aborted", l.lastSql, FALSE)
  ELSE IF Timed(w) /\ Remaining(l) <= 0
  THEN Finish(l, "question_timeout", l.lastSql, FALSE)
  ELSE /\ loop' = l
       /\ phase' = "calling"
       /\ rest' = << >>
       /\ UNCHANGED result

(* Mutant: every answer starts the clock again. *)
Received_Restarts(d) ==
  [loop EXCEPT
     !.calls = @ + 1,
     !.deadline = IF Budget = 0 THEN NoDeadline ELSE Budget,
     !.warmTime = IF warmed THEN @ + d ELSE @]

(* The locals after a reply that took d ticks.  The answer to a cold call
   starts the clock, a warm call runs against what is left. *)
Received(d) ==
  [loop EXCEPT
     !.calls = @ + 1,
     !.deadline = IF Budget = 0 THEN NoDeadline
                  ELSE IF ~warmed THEN Budget
                  ELSE IF @ = NoDeadline THEN NoDeadline ELSE @ - d,
     !.warmTime = IF warmed THEN @ + d ELSE @]

(* wait_for lets a reply through that comes before the budget is used up. *)
InTime(d) == Timed(warmed) => d <= Remaining(loop)

(* The locals after query s ran with verdict v, by a tool call or as text. *)
Executed(l, s, v) ==
  [l EXCEPT !.lastSql = s,
            !.retries = IF v = "error" THEN @ + 1 ELSE @,
            !.matched = IF v = "match" THEN @ \cup {s} ELSE @]

-----------------------------------------------------------------------------
Init ==
  /\ asked = 0
  /\ phase = "idle"
  /\ loop = NewLoop(TRUE)
  /\ rest = << >>
  /\ result = NoResult
  /\ warmed = FALSE
  /\ stopRequested = FALSE

(* run_sql_job asks the next question; an exception has ended the job. *)
Ask ==
  /\ phase \in {"idle", "done"}
  /\ asked < NQuestions
  /\ ~stopRequested
  /\ result.stop # "raised"
  /\ asked' = asked + 1
  /\ LoopHead(NewLoop(~warmed), warmed)
  /\ UNCHANGED <<warmed, stopRequested>>

(***************************************************************************)
(* A reply with tool calls, native ones or one parsed from the text.       *)
(***************************************************************************)
ReplyTools(calls, d) ==
  /\ phase = "calling"
  /\ InTime(d)
  /\ loop' = [Received(d) EXCEPT !.silent = 0]
  /\ phase' = "handling"
  /\ rest' = calls
  /\ warmed' = TRUE
  /\ UNCHANGED <<asked, result, stopRequested>>

(* A text that looks like SQL is run, scored and returned; if it fails the
   error goes back to the model. *)
ReplySql(s, v, d) ==
  LET l == Executed(Received(d), s, v) IN
  /\ phase = "calling"
  /\ InTime(d)
  /\ v \in Verdicts[s]
  /\ warmed' = TRUE
  /\ IF v # "error"
     THEN Finish(l, "results_ok", s, v = "match")
     ELSE IF l.retries > MaxRetries
     THEN Finish(l, "query_failed", s, FALSE)
     ELSE LoopHead(l, TRUE)
  /\ UNCHANGED <<asked, stopRequested>>

(* Prose after a query that worked confirms it; else the request is sent
   again, and after MaxSilent repetitions with a reminder. *)
ReplyProse(d) ==
  LET l == Received(d) IN
  /\ phase = "calling"
  /\ InTime(d)
  /\ warmed' = TRUE
  /\ IF l.lastSql \in l.executed
     THEN Finish(l, "text_implicit_ok", l.lastSql, Matched(l, l.lastSql))
     ELSE IF l.silent < MaxSilent
     THEN LoopHead([l EXCEPT !.silent = @ + 1], TRUE)
     ELSE LoopHead([l EXCEPT !.silent = 0, !.nudges = @ + 1], TRUE)
  /\ UNCHANGED <<asked, stopRequested>>

(* The call fails, is not answered in time by the endpoint, or carries a
   usage field that cannot be counted (then the model is warm already). *)
CallFails ==
  /\ phase = "calling"
  /\ Finish(loop, "call_failed", loop.lastSql, FALSE)
  /\ warmed' \in {warmed, TRUE}
  /\ UNCHANGED <<asked, stopRequested>>

BudgetExpires ==
  /\ phase = "calling"
  /\ Timed(warmed)
  /\ Finish([loop EXCEPT !.warmTime = @ + Remaining(loop)],
            "question_timeout", loop.lastSql, FALSE)
  /\ UNCHANGED <<asked, warmed, stopRequested>>

(* A reply of a shape the loop does not expect: an AttributeError or
   TypeError that it does not catch. *)
ReplyRaises ==
  /\ phase = "calling"
  /\ Finish(loop, "raised", NoSql, FALSE)
  /\ warmed' = TRUE
  /\ UNCHANGED <<asked, stopRequested>>

-----------------------------------------------------------------------------
(* A tool call has been handled, with locals l. *)
Handled(l) ==
  IF Tail(rest) = << >>
  THEN LoopHead(l, warmed)
  ELSE /\ loop' = l
       /\ rest' = Tail(rest)
       /\ UNCHANGED <<phase, result>>

Handling(f) == phase = "handling" /\ Head(rest).fn = f

(* The same SQL again, after it worked: not run, taken as results_ok. *)
DuplicateQuery ==
  LET s == Head(rest).sql IN
  /\ Handling("run_sql_query")
  /\ s \in loop.executed
  /\ Finish([loop EXCEPT !.lastSql = s], "duplicate_sql_forced_ok", s,
            Matched(loop, s))
  /\ UNCHANGED <<asked, warmed, stopRequested>>

(* Mutant: queries that worked are not remembered. *)
RunQuery_NoMemory(v) ==
  LET s == Head(rest).sql
      l == Executed(loop, s, v)
  IN /\ Handling("run_sql_query")
     /\ s \notin loop.executed
     /\ v \in Verdicts[s]
     /\ IF v # "error"
        THEN Handled([l EXCEPT !.retries = 0])
        ELSE IF l.retries > MaxRetries
        THEN Finish(l, "query_failed", s, FALSE)
        ELSE Handled(l)
     /\ UNCHANGED <<asked, warmed, stopRequested>>

RunQuery(v) ==
  LET s == Head(rest).sql
      l == Executed(loop, s, v)
  IN /\ Handling("run_sql_query")
     /\ s \notin loop.executed
     /\ v \in Verdicts[s]
     /\ IF v # "error"
        THEN Handled([l EXCEPT !.retries = 0,
                               !.executed = IF s = NoSql THEN @ ELSE @ \cup {s}])
        ELSE IF l.retries > MaxRetries
        THEN Finish(l, "query_failed", s, FALSE)
        ELSE Handled(l)
     /\ UNCHANGED <<asked, warmed, stopRequested>>

(* results_ok runs the last query once more to score it. *)
ResultsOk(v) ==
  LET s == loop.lastSql IN
  /\ Handling("results_ok")
  /\ v \in Verdicts[s]
  /\ IF s = NoSql
     THEN Finish(loop, "results_ok", NoSql, FALSE)
     ELSE Finish([loop EXCEPT !.matched = IF v = "match" THEN @ \cup {s} ELSE @],
                 "results_ok", s, v = "match")
  /\ UNCHANGED <<asked, warmed, stopRequested>>

(* Mutant: a tool call nobody knows is never done with. *)
UnknownTool_Again == Handling("unknown") /\ UNCHANGED vars

UnknownTool ==
  /\ Handling("unknown")
  /\ Handled(loop)
  /\ UNCHANGED <<asked, warmed, stopRequested>>

(* benchmark_stop is only served while the loop awaits a reply. *)
RequestStop ==
  /\ phase # "handling"
  /\ stopRequested' = TRUE
  /\ UNCHANGED <<asked, phase, loop, rest, result, warmed>>

LoopStep ==
  \/ Ask
  \/ \E d \in 1..MaxTicks :
       \/ \E calls \in Replies : ReplyTools(calls, d)
       \/ \E s \in Sqls : \E v \in Verdicts[s] : ReplySql(s, v, d)
       \/ ReplyProse(d)
  \/ CallFails
  \/ BudgetExpires
  \/ ReplyRaises
  \/ DuplicateQuery
  \/ \E v \in {"match", "mismatch", "error"} : RunQuery(v) \/ ResultsOk(v)
  \/ UnknownTool

Next == LoopStep \/ RequestStop

Spec == Init /\ [][Next]_vars

(* Every call is answered or times out; nobody must press Stop. *)
FairSpec == Spec /\ WF_vars(LoopStep)

-----------------------------------------------------------------------------
TypeOK ==
  /\ asked \in 0..NQuestions
  /\ phase \in {"idle", "calling", "handling", "done"}
  /\ loop \in [calls : 0..MaxToolCalls, retries : 0..(MaxRetries + 1),
               silent : 0..MaxSilent, nudges : 0..MaxToolCalls,
               lastSql : Sqls \cup {NoSql}, executed : SUBSET Sqls,
               deadline : NoDeadline..Budget, warmTime : Nat,
               coldStart : BOOLEAN, matched : SUBSET (Sqls \cup {NoSql})]
  /\ rest \in Seq(ToolCalls)
  /\ result \in [stop : StopReasons \cup {"none"}, sql : Sqls \cup {NoSql},
                 success : BOOLEAN]
  /\ warmed \in BOOLEAN
  /\ stopRequested \in BOOLEAN

(***************************************************************************)
(* A question only counts as passed for a query that ran and matched       *)
(* during this very question, and that is the last one the model sent, on  *)
(* every way to end the loop: confirmation, prose, repetition or limit.    *)
(***************************************************************************)
SuccessIsEarned ==
  phase = "done" /\ result.success =>
    /\ result.sql = loop.lastSql
    /\ result.sql \in loop.matched \cap Sqls

(***************************************************************************)
(* With a budget, a question that starts with the cold call never spends   *)
(* more than the budget in calls to the warm model.                        *)
(***************************************************************************)
ColdQuestionKeepsBudget ==
  Budget > 0 /\ loop.coldStart => loop.warmTime <= Budget

(***************************************************************************)
(* Reminders are rare: between two of them the model has had MaxSilent     *)
(* chances to answer without one, tool calls and errors in between or not. *)
(***************************************************************************)
RemindersAreSpaced ==
  loop.nudges * (MaxSilent + 1) + loop.silent <= loop.calls

(***************************************************************************)
(* Neither the clock nor the reminders run away with the calls.            *)
(***************************************************************************)
CallsAreRationed == ColdQuestionKeepsBudget /\ RemindersAreSpaced

(***************************************************************************)
(* A model that sends a query again after it gave the expected result ends *)
(* the question with it, instead of going round in circles.                *)
(***************************************************************************)
RepetitionEndsQuestion ==
  [][\A s \in loop.matched :
       phase = "handling" /\ Head(rest) = [fn |-> "run_sql_query", sql |-> s]
       => phase' = "done" /\ result'.success]_vars

(***************************************************************************)
(* After a stop request no call goes out, not even the next one of a       *)
(* conversation that is under way.                                         *)
(***************************************************************************)
NoCallAfterStop ==
  [][stopRequested /\ phase' = "calling" => phase = "calling" /\ loop' = loop]_vars

(***************************************************************************)
(* Neither a stop nor a repeated answer leads to one more call.            *)
(***************************************************************************)
NoNeedlessCall == NoCallAfterStop /\ RepetitionEndsQuestion

(***************************************************************************)
(* However the model behaves, the question ends.                           *)
(***************************************************************************)
QuestionEnds == phase = "calling" ~> phase = "done"

(***************************************************************************)
(* sql_benchmark.py, run_question_tool_calling: "question_timeout_ms:      *)
(* per-question wall-clock budget ... this budget counts only *warm* model *)
(* time".                                                                  *)
(***************************************************************************)
QuestionKeepsBudget == Budget > 0 => loop.warmTime <= Budget

(***************************************************************************)
(* sql_benchmark.py, at the limit: "If the model did produce at least one  *)
(* SQL that executed successfully, score that last good query instead of   *)
(* recording a bare error".                                                *)
(***************************************************************************)
LimitScoresLastGoodQuery ==
  phase = "done" /\ result.stop = "tool_call_limit" => loop.executed = {}

(***************************************************************************)
(* sql_benchmark.py, _finalize_tool_run: "Shared by the results_ok branch  *)
(* and the duplicate-SQL force-stop so both paths produce a real,          *)
(* validated result (non-empty generated_sql)".                            *)
(***************************************************************************)
FinalizedHasSql ==
  phase = "done" /\ result.stop \in {"results_ok", "duplicate_sql_forced_ok"}
  => result.sql # NoSql
=============================================================================

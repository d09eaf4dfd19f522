---------------------------- MODULE SqlQuestion ----------------------------
(***************************************************************************)
(* The SQL questions of a job, one after another, down to the endpoint and *)
(* the database: run_question (grammar mode) as a whole, and of            *)
(* run_question_tool_calling what it does with its calls (LlmCall), with   *)
(* the connection all questions share (DuckSession), and with what the     *)
(* statements yield (Scoring).  How that conversation is steered is the    *)
(* subject of ToolLoop; here the model's replies are free.                 *)
(***************************************************************************)
EXTENDS LlmCall, DuckSession, Scoring

CONSTANTS
  Questions,   (* of questions.json: [truth, digits], see Reference        *)
  NQuestions,  (* questions of the job                                     *)
  MaxRounds,   (* calls of a conversation, MAX_TOOL_CALLS in the code      *)
  MaxTries,    (* bound: statements a model sends for one question         *)
  MaxOverruns  (* bound: statements of a job that reach the time limit     *)

ASSUME QuestionAssumption ==
  /\ Questions \subseteq [truth : Nat, digits : 0..2]
  /\ {NQuestions, MaxRounds, MaxTries, MaxOverruns} \subseteq Nat \ {0}

VARIABLES
  at,        (* where run_sql_job and the question are                     *)
  question,  (* the current question                                       *)
  rounds,    (* total_calls of the conversation                            *)
  tries,     (* statements of the model executed for this question         *)
  last,      (* last_sql                                                   *)
  executed,  (* executed_sql: statements that yielded an answer, with it   *)
  answered,  (* rows of the job so far                                     *)
  row        (* the latest of them, until the next question begins         *)

vars == <<callVars, sessionVars, at, question, rounds, tries, last, executed, answered, row>>

-----------------------------------------------------------------------------
(***************************************************************************)
(* The data.  A question asks for a label and an amount.  The reference    *)
(* has the amount rounded to "digits" decimals, as ROUND in the expected   *)
(* SQL left it, or as a whole number.                                      *)
(***************************************************************************)
Place(digits) ==
  CASE digits = 0 -> 1000
    [] digits = 1 -> 100
    [] OTHER      -> 10
Rounded(n, digits) == ((n + Place(digits) \div 2) \div Place(digits)) * Place(digits)

Label == [kind |-> "text", n |-> 0]
Float(n) == [kind |-> "float", n |-> n]
Stored(q, n) == [kind |-> IF q.digits = 0 THEN "int" ELSE "float", n |-> n]
Columns == <<[key |-> "label", spelling |-> "Label"], [key |-> "amount", spelling |-> "amount"]>>
Respelled == <<[key |-> "amount", spelling |-> "Amount"], [key |-> "label", spelling |-> "label"]>>

Reference(q) ==
  [count |-> 2, columns |-> Columns, first |-> <<Label, Stored(q, Rounded(q.truth, q.digits))>>]

(* What a statement with this answer yields for question q. *)
Answer(q, kind) ==
  CASE kind = "rounded"  -> Reference(q)
    [] kind = "exact"    -> [Reference(q) EXCEPT !.first = <<Label, Float(q.truth)>>]
    [] kind = "renamed"  -> [count |-> 2, columns |-> Respelled,
                             first |-> <<Float(q.truth), Label>>]
    [] kind = "off"      -> [Reference(q) EXCEPT !.first =
                              <<Label, Stored(q, Rounded(q.truth, q.digits) + Place(q.digits))>>]
    [] kind = "short"    -> [Reference(q) EXCEPT !.count = 1]
    [] kind = "narrow"   -> [count |-> 2, columns |-> <<Columns[2]>>,
                             first |-> <<Float(q.truth)>>]
    [] kind = "nothing"  -> [count |-> 0, columns |-> Columns, first |-> <<Label, Label>>]

AnswerKinds == {"rounded", "exact", "renamed", "off", "short", "narrow", "nothing"}
Failures == {"error", "timeout"}

(* The expected SQL yields what questions.json says. *)
ASSUME ResultAssumption == "rounded" \in Results

ExpectedSql == [pace |-> "quick", writes |-> FALSE, yields |-> "rounded"]
NoSql == [pace |-> "quick", writes |-> FALSE, yields |-> "none"]
NoRow == [kind |-> "none", success |-> FALSE, sql |-> NoSql, clean |-> FALSE, fallback |-> FALSE]

-----------------------------------------------------------------------------
Init ==
  /\ CallInit
  /\ SessionInit
  /\ at = "idle"
  /\ question \in Questions
  /\ rounds = 0 /\ tries = 0
  /\ last = NoSql
  /\ executed = {}
  /\ answered = 0
  /\ row = NoRow

(* The question ends with a row; "clean": nothing has harmed the session. *)
RecordOf(sql, kind, success) ==
  /\ row' = [kind |-> kind, success |-> success, sql |-> sql,
             clean |-> session = "intact" /\ spoiled = 0, fallback |-> fallback]
  /\ last' = sql
  /\ answered' = answered + 1
  /\ at' = "idle"
  /\ UNCHANGED <<callVars, question, rounds, tries, executed>>

Record(kind, success) == RecordOf(last, kind, success)

ScoredOf(sql, answer) ==
  RecordOf(sql, "scored", Success(Reference(question), Answer(question, answer)))

Scored(answer) == ScoredOf(last, answer)

(* The next question: its own fallback_state, and the expected SQL. *)
StartQuestion ==
  /\ at = "idle"
  /\ answered < NQuestions
  /\ \E q \in Questions : question' = q
  /\ at' = "setup"
  /\ Execute(ExpectedSql)
  /\ row' = NoRow
  /\ call' = At("idle") /\ body' = NoBody /\ sent' = 0
  /\ fallback' = FALSE /\ refused' = FALSE /\ bare' = FALSE
  /\ rounds' = 0 /\ tries' = 0
  /\ last' = NoSql
  /\ executed' = {}
  /\ UNCHANGED <<request, answered>>

(* The statement of _execute_sql has ended and its finally block has run. *)
Executed(phase) == at = phase /\ query.at = "done"
Failed == query.result \in Failures

SetupFails ==
  /\ Executed("setup")
  /\ Failed
  /\ Record("setup_failed", FALSE)
  /\ UNCHANGED sessionVars

SetupDone ==
  /\ Executed("setup")
  /\ ~Failed
  /\ at' = "calling"
  /\ BeginCall
  /\ UNCHANGED <<sessionVars, question, rounds, tries, last, executed, answered, row>>

CallFailed ==
  /\ at = "calling"
  /\ call.at = "raised"
  /\ Record("call_failed", FALSE)
  /\ UNCHANGED sessionVars

Try(s, phase) ==
  /\ tries < MaxTries
  /\ overruns < MaxOverruns \/ s.pace = "quick"
  /\ tries' = tries + 1
  /\ last' = s
  /\ at' = phase
  /\ Execute(s)
  /\ UNCHANGED <<callVars, question, rounds, executed, answered, row>>

-----------------------------------------------------------------------------
(* run_question: the reply is the statement. *)

GrammarReply ==
  /\ at = "calling" /\ call.at = "answered" /\ ~request.tools
  /\ \E s \in Statements : Try(s, "trying")

GrammarEmpty ==
  /\ at = "calling" /\ call.at = "answered" /\ ~request.tools
  /\ Record("empty", FALSE)
  /\ UNCHANGED sessionVars

GrammarScored ==
  /\ Executed("trying")
  /\ ~request.tools
  /\ IF Failed THEN Record("sql_failed", FALSE) ELSE Scored(query.result)
  /\ UNCHANGED sessionVars

-----------------------------------------------------------------------------
(* run_question_tool_calling: the reply is text or a list of tool calls. *)

ToolsReply ==
  /\ at = "calling" /\ call.at = "answered" /\ request.tools
  /\ rounds' = rounds + 1
  /\ at' = "handling"
  /\ UNCHANGED <<callVars, sessionVars, question, tries, last, executed, answered, row>>

(* A statement that has yielded an answer is not executed again. *)
RunSqlQuery ==
  /\ at = "handling"
  /\ \E s \in Statements :
       /\ \A e \in executed : e[1] # s
       /\ Try(s, "trying")

(* SQL in the text of a reply; its execution is final if it works. *)
SqlInText ==
  /\ at = "handling"
  /\ \E s \in Statements : Try(s, "text")

ToolAnswered ==
  /\ Executed("trying")
  /\ request.tools
  /\ ~Failed
  /\ executed' = executed \cup {<<last, query.result>>}
  /\ at' = "handling"
  /\ UNCHANGED <<callVars, sessionVars, question, rounds, tries, last, answered, row>>

TextAnswered ==
  /\ Executed("text")
  /\ ~Failed
  /\ Scored(query.result)
  /\ UNCHANGED sessionVars

(* The model is told of the error and may try again, up to max_retries. *)
QueryFailed ==
  /\ Executed("trying") \/ Executed("text")
  /\ request.tools
  /\ Failed
  /\ \/ /\ at' = "handling"
        /\ UNCHANGED <<callVars, question, rounds, tries, last, executed, answered, row>>
     \/ Record("sql_failed", FALSE)
  /\ UNCHANGED sessionVars

(* A statement repeated, prose after one that worked, or the limit after it:
   the result is taken from executed_sql. *)
FromMemory ==
  /\ at = "handling"
  /\ \E e \in executed : ScoredOf(e[1], e[2])
  /\ UNCHANGED sessionVars

(* results_ok: the last statement is executed once more. *)
ResultsOk ==
  /\ at = "handling"
  /\ last # NoSql
  /\ overruns < MaxOverruns \/ last.pace = "quick"
  /\ at' = "confirming"
  /\ Execute(last)
  /\ UNCHANGED <<callVars, question, rounds, tries, last, executed, answered, row>>

ResultsOkScored ==
  /\ Executed("confirming")
  /\ IF Failed THEN Record("sql_failed", FALSE) ELSE Scored(query.result)
  /\ UNCHANGED sessionVars

(* results_ok before any statement *)
ResultsOkOfNothing ==
  /\ at = "handling"
  /\ last = NoSql
  /\ Record("nothing", FALSE)
  /\ UNCHANGED sessionVars

(* The calls are used up, and the last statement did not work. *)
GiveUp ==
  /\ at = "handling"
  /\ rounds = MaxRounds
  /\ \A e \in executed : e[1] # last
  /\ Record("gave_up", FALSE)
  /\ UNCHANGED sessionVars

(* The head of the loop finds a stop, or the question's budget used up. *)
CutShort ==
  /\ at = "handling"
  /\ rounds < MaxRounds
  /\ Record("cut_short", FALSE)
  /\ UNCHANGED sessionVars

(* Mutant: the limit is checked after the call that exceeds it. *)
NextCall_OneMore ==
  /\ at = "handling"
  /\ rounds <= MaxRounds
  /\ at' = "calling"
  /\ BeginCall
  /\ UNCHANGED <<sessionVars, question, rounds, tries, last, executed, answered, row>>

NextCall ==
  /\ at = "handling"
  /\ rounds < MaxRounds
  /\ at' = "calling"
  /\ BeginCall
  /\ UNCHANGED <<sessionVars, question, rounds, tries, last, executed, answered, row>>

-----------------------------------------------------------------------------
CallMoves ==
  /\ CallStep
  /\ UNCHANGED <<sessionVars, at, question, rounds, tries, last, executed, answered, row>>

SessionMoves ==
  /\ SessionStep
  /\ UNCHANGED <<callVars, at, question, rounds, tries, last, executed, answered, row>>

QuestionMoves ==
  \/ StartQuestion \/ SetupFails \/ SetupDone \/ CallFailed
  \/ GrammarReply \/ GrammarEmpty \/ GrammarScored
  \/ ToolsReply \/ RunSqlQuery \/ SqlInText \/ ToolAnswered \/ TextAnswered
  \/ QueryFailed \/ FromMemory \/ ResultsOk \/ ResultsOkScored \/ ResultsOkOfNothing
  \/ GiveUp \/ CutShort \/ NextCall

Next == CallMoves \/ SessionMoves \/ QuestionMoves

Spec == Init /\ [][Next]_vars /\ WF_vars(Next)

-----------------------------------------------------------------------------
TypeOK ==
  /\ request \in Requests
  /\ call \in [at : {"idle", "posted", "sleeping", "answered", "raised"}, stage : Stages]
  /\ body \in [tools : BOOLEAN, reasoning : BOOLEAN]
  /\ query.at \in {"none", "running", "ended", "done"}
  /\ query.result \in Results \cup {"none", "timeout"}
  /\ watchdog \in {"off", "armed", "fired", "spent"}
  /\ query.at = "running" => watchdog # "off"
  /\ pending => query.at \in {"running", "ended", "done"}
  /\ rounds \in 0..MaxRounds /\ tries \in 0..MaxTries
  /\ at \in {"idle", "setup", "calling", "trying", "handling", "text", "confirming"}
  /\ answered \in 0..NQuestions

(***************************************************************************)
(* A row says reasoning_fallback exactly if the endpoint refused the field *)
(* to this very question, and an answer given without it never goes        *)
(* unmentioned, whichever of the nested retries it came from.              *)
(***************************************************************************)
FallbackIsReported ==
  row # NoRow => row.fallback = refused /\ (bare => row.fallback)

(***************************************************************************)
(* However its retries nest, a call costs a bounded number of requests and *)
(* what it gave up is reported.                                            *)
(***************************************************************************)
RetriesAreAccounted == CallIsBounded /\ FallbackIsReported

(***************************************************************************)
(* A read-only statement that answers the question passes in an unharmed   *)
(* session, whether it rounds or not, spells and orders its columns        *)
(* differently, is scored at once, from memory or by running it again.     *)
(***************************************************************************)
CorrectQueryPasses ==
  /\ row.kind \in {"scored", "sql_failed", "gave_up"}
  /\ row.clean
  /\ row.sql.pace = "quick" /\ ~row.sql.writes
  /\ row.sql.yields \in {"rounded", "exact", "renamed"}
  => row.success

(***************************************************************************)
(* "Benchmark setup failed" is only said after a statement of the model    *)
(* has changed the session or overrun its time: the expected SQL itself    *)
(* has done nothing wrong.                                                 *)
(***************************************************************************)
SetupFailsOnlyIfHarmed ==
  row.kind = "setup_failed" => session = "changed" \/ overruns > 0

(***************************************************************************)
(* A watchdog harms nobody but the statement it belongs to, one later      *)
(* statement at most, and never one of a job in which nothing overran.     *)
(***************************************************************************)
InterruptsAreEarned == OneHitPerOverrun /\ TimeoutIsEarned /\ SetupFailsOnlyIfHarmed

(* Every question gets its row, whatever the endpoint and the model do. *)
EveryQuestionEnds == <>(answered = NQuestions)

(***************************************************************************)
(* sql_benchmark.py:1301 calls the race of a timer that fires as its query *)
(* ends harmless for the next query.  Not so: it may be cancelled.         *)
(***************************************************************************)
StrayTimerIsHarmless == spoiled = 0

(***************************************************************************)
(* sql_benchmark.py:1524: the tolerance "absorbs exactly one rounding step *)
(* at the precision the reference value was rounded to", so what passes    *)
(* rounds to the reference.                                                *)
(***************************************************************************)
PassRoundsToReference ==
  row.clean /\ row.success => row.sql.yields # "off"
=============================================================================

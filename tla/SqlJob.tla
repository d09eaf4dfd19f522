------------------------------- MODULE SqlJob -------------------------------
(***************************************************************************)
(* A SQL benchmark: run_job and run_sql_job, which asks every model every  *)
(* question, once per thinking variant, one call at a time, and gives up   *)
(* on a model that cannot be loaded (the circuit breaker).  One action is  *)
(* one run of the code between two awaits that yield to the event loop;    *)
(* rows of skipped questions are made without an await, so a whole chain   *)
(* of them belongs to the step that starts it.  ToolLoop models what       *)
(* happens between the question and its answer.                            *)
(***************************************************************************)
EXTENDS Integers, Sequences

CONSTANTS
  Models,      (* request.models, a sequence of names                      *)
  Variants,    (* number of thinking variants: 2 for "both"                *)
  Questions,   (* question_ids: "good", "broken" (its own SQL does not     *)
               (* run) or "unknown" (no such question), for each of them   *)
  SqlModes     (* the values of request.sql_mode to consider               *)

(* from_dict rejects an empty list of models, not one of questions. *)
ASSUME RequestAssumption ==
  /\ Len(Models) \in Nat \ {0}
  /\ Variants \in {1, 2}
  /\ Questions \in Seq({"good", "broken", "unknown"})
  /\ SqlModes \subseteq {"tool-calling", "grammar"}

VARIABLES
  sqlMode,        (* request.sql_mode                                      *)
  status,         (* JobState.status                                       *)
  stopRequested,  (* JobState.stop_requested                               *)
  pc,             (* where run_job is                                      *)
  listed,         (* names of the models the endpoint lists                *)
  unit,           (* the unit whose question is being asked                *)
  callFailures,   (* consecutive_call_failures                             *)
  results,        (* JobState.results                                      *)
  errors,         (* JobState.errors is not empty                          *)
  pendingSaves    (* number of tasks in JobState._pending_saves            *)

vars == <<sqlMode, status, stopRequested, pc, listed, unit, callFailures,
          results, errors, pendingSaves>>

-----------------------------------------------------------------------------
(***************************************************************************)
(* The units of work, numbered in the order of the three nested loops.     *)
(***************************************************************************)
PerModel == Variants * Len(Questions)
Total == Len(Models) * PerModel
Units == 1..Total
Position(n) == ((n - 1) \div PerModel) + 1
Model(n) == Models[Position(n)]
Question(n) == Questions[((n - 1) % Len(Questions)) + 1]
LastOfModel(n) == Position(n) * PerModel
SameModel(n, k) == Position(n) = Position(k)

Row(n, o) == [unit |-> n, outcome |-> o]

(***************************************************************************)
(* "scored" stands for every answer that is not a failure of the LLM call: *)
(* passed, mismatch, bad SQL, question budget.  A failed call looks        *)
(* transient or like an unavailable model.  Only the tool-calling loop     *)
(* looks at the stop flag itself.  An exception is not caught.             *)
(***************************************************************************)
CallFailures == {"callFailed", "unavailable"}
Answers == {"scored", "raised"} \cup CallFailures \cup
           (IF sqlMode = "tool-calling" /\ stopRequested THEN {"aborted"} ELSE {})

Terminal == {"completed", "failed", "stopped"}

-----------------------------------------------------------------------------
Init ==
  /\ sqlMode \in SqlModes
  /\ status = "queued"
  /\ stopRequested = FALSE
  /\ pc = "new"
  /\ listed = {}
  /\ unit = 0
  /\ callFailures = 0
  /\ results = << >>
  /\ errors = FALSE
  /\ pendingSaves = 0

(* The except clause of run_job. *)
Raise ==
  /\ status' = "failed"
  /\ errors' = TRUE
  /\ pc' = "draining"

Settle ==
  /\ status' = IF stopRequested /\ status = "stopping" THEN "stopped" ELSE "completed"
  /\ pc' = "draining"
  /\ UNCHANGED errors

(***************************************************************************)
(* Units from n on that get their row without an await: those of a model   *)
(* the endpoint does not list, those up to `skipTo`, the last unit of a    *)
(* model whose breaker is open, and broken questions.                      *)
(***************************************************************************)
Skipped(k, models, skipTo) == k <= skipTo \/ Model(k) \notin models

NextAsked(n, models, skipTo) ==
  CHOOSE k \in n..(Total + 1) :
    /\ k \in Units => ~Skipped(k, models, skipTo) /\ Question(k) # "broken"
    /\ \A i \in n..(k - 1) : Skipped(i, models, skipTo) \/ Question(i) = "broken"

ChainRows(n, k, models, skipTo) ==
  [i \in 1..(k - n) |->
     Row(n + i - 1,
         IF Skipped(n + i - 1, models, skipTo) THEN "skipped" ELSE "scored")]

(* Mutant: the stop flag is checked after the skipped rows. *)
Continue_StopLate(n, rows, models, failures, skipTo) ==
  LET k == NextAsked(n, models, skipTo)
      all == rows \o ChainRows(n, k, models, skipTo)
      fresh == k > n \/ n = 1 \/ ~SameModel(n - 1, n)
  IN /\ results' = all
     /\ pendingSaves' = pendingSaves + Len(all) - Len(results)
     /\ IF stopRequested \/ k = Total + 1
        THEN Settle /\ UNCHANGED <<unit, callFailures>>
        ELSE IF Question(k) = "unknown"
        THEN Raise /\ UNCHANGED <<unit, callFailures>>
        ELSE /\ pc' = "asking"
             /\ unit' = k
             /\ callFailures' = IF fresh THEN 0 ELSE failures
             /\ UNCHANGED <<status, errors>>

(***************************************************************************)
(* The loops of run_sql_job from unit n on, with the rows so far, up to    *)
(* the next question that is really asked.  The counter of the breaker     *)
(* starts again with every model and with every row that is no call        *)
(* failure.                                                                *)
(***************************************************************************)
Continue(n, rows, models, failures, skipTo) ==
  LET k == NextAsked(n, models, skipTo)
      all == rows \o ChainRows(n, k, models, skipTo)
      fresh == k > n \/ n = 1 \/ ~SameModel(n - 1, n)
  IN IF stopRequested
     THEN /\ Settle
          /\ results' = rows
          /\ pendingSaves' = pendingSaves + Len(rows) - Len(results)
          /\ UNCHANGED <<unit, callFailures>>
     ELSE /\ results' = all
          /\ pendingSaves' = pendingSaves + Len(all) - Len(results)
          /\ IF k = Total + 1
             THEN Settle /\ UNCHANGED <<unit, callFailures>>
             ELSE IF Question(k) = "unknown"
             THEN Raise /\ UNCHANGED <<unit, callFailures>>
             ELSE /\ pc' = "asking"
                  /\ unit' = k
                  /\ callFailures' = IF fresh THEN 0 ELSE failures
                  /\ UNCHANGED <<status, errors>>

-----------------------------------------------------------------------------
Start ==
  /\ pc = "new"
  /\ status' = "running"
  /\ pc' = "detecting"
  /\ UNCHANGED <<sqlMode, stopRequested, listed, unit, callFailures, results,
                 errors, pendingSaves>>

ProviderDetected ==
  /\ pc = "detecting"
  /\ pc' = "discovering"
  /\ UNCHANGED <<sqlMode, status, stopRequested, listed, unit, callFailures,
                 results, errors, pendingSaves>>

(* No provider, no model list, or no question data to build the runner. *)
TargetUnusable ==
  /\ pc \in {"detecting", "discovering"}
  /\ Raise
  /\ UNCHANGED <<sqlMode, stopRequested, listed, unit, callFailures, results,
                 pendingSaves>>

(* The endpoint may list any of the requested models. *)
ModelsDiscovered(S) ==
  /\ pc = "discovering"
  /\ listed' = S
  /\ Continue(1, << >>, S, 0, 0)
  /\ UNCHANGED <<sqlMode, stopRequested>>

(* Mutants: an answer does not reset the breaker's counter; the breaker
   opens after three failures. *)
Answered_NoReset(o) ==
  LET failures == IF o \in CallFailures THEN callFailures + 1 ELSE callFailures
      open == o = "unavailable" \/ failures >= 2
  IN /\ pc = "asking"
     /\ o \in Answers \ {"raised"}
     /\ Continue(unit + 1, Append(results, Row(unit, o)), listed, failures,
                 IF open THEN LastOfModel(unit) ELSE 0)
     /\ UNCHANGED <<sqlMode, stopRequested, listed>>

Answered_Three(o) ==
  LET failures == IF o \in CallFailures THEN callFailures + 1 ELSE 0
      open == o = "unavailable" \/ failures >= 3
  IN /\ pc = "asking"
     /\ o \in Answers \ {"raised"}
     /\ Continue(unit + 1, Append(results, Row(unit, o)), listed, failures,
                 IF open THEN LastOfModel(unit) ELSE 0)
     /\ UNCHANGED <<sqlMode, stopRequested, listed>>

(* The row of a question and the breaker's bookkeeping. *)
Answered(o) ==
  LET failures == IF o \in CallFailures THEN callFailures + 1 ELSE 0
      open == o = "unavailable" \/ failures >= 2
  IN /\ pc = "asking"
     /\ o \in Answers \ {"raised"}
     /\ Continue(unit + 1, Append(results, Row(unit, o)), listed, failures,
                 IF open THEN LastOfModel(unit) ELSE 0)
     /\ UNCHANGED <<sqlMode, stopRequested, listed>>

QuestionRaises ==
  /\ pc = "asking"
  /\ Raise
  /\ UNCHANGED <<sqlMode, stopRequested, listed, unit, callFailures, results,
                 pendingSaves>>

(* Mutant: benchmark_stop overwrites the status of a settled job. *)
RequestStop_Always ==
  /\ status # "queued"
  /\ stopRequested' = TRUE
  /\ status' = "stopping"
  /\ UNCHANGED <<sqlMode, pc, listed, unit, callFailures, results, errors,
                 pendingSaves>>

(* benchmark_stop; JobLifecycle says why the job is not queued then. *)
RequestStop ==
  /\ status # "queued"
  /\ stopRequested' = TRUE
  /\ status' = IF status = "running" THEN "stopping" ELSE status
  /\ UNCHANGED <<sqlMode, pc, listed, unit, callFailures, results, errors,
                 pendingSaves>>

SaveEnds ==
  /\ pendingSaves > 0
  /\ pendingSaves' = pendingSaves - 1
  /\ UNCHANGED <<sqlMode, status, stopRequested, pc, listed, unit,
                 callFailures, results, errors>>

Drained ==
  /\ pc = "draining"
  /\ pendingSaves = 0
  /\ pc' = IF results # << >> \/ errors THEN "saving" ELSE "done"
  /\ UNCHANGED <<sqlMode, status, stopRequested, listed, unit, callFailures,
                 results, errors, pendingSaves>>

FinalSave ==
  /\ pc = "saving"
  /\ pc' = "done"
  /\ UNCHANGED <<sqlMode, status, stopRequested, listed, unit, callFailures,
                 results, errors, pendingSaves>>

JobStep ==
  \/ Start
  \/ ProviderDetected
  \/ TargetUnusable
  \/ \E S \in SUBSET {Models[m] : m \in DOMAIN Models} : ModelsDiscovered(S)
  \/ \E o \in Answers \ {"raised"} : Answered(o)
  \/ QuestionRaises
  \/ SaveEnds
  \/ Drained
  \/ FinalSave

Next == JobStep \/ RequestStop

Spec == Init /\ [][Next]_vars

(* As in SpeedJob: calls are answered or time out, nobody must press Stop. *)
FairSpec == Spec /\ WF_vars(JobStep)

-----------------------------------------------------------------------------
TypeOK ==
  /\ sqlMode \in {"tool-calling", "grammar"}
  /\ status \in {"queued", "running", "stopping"} \cup Terminal
  /\ stopRequested \in BOOLEAN
  /\ pc \in {"new", "detecting", "discovering", "asking", "draining",
             "saving", "done"}
  /\ listed \subseteq {Models[m] : m \in DOMAIN Models}
  /\ unit \in 0..Total
  /\ callFailures \in {0, 1}
  /\ results \in Seq([unit : Units, outcome : CallFailures \cup
                                              {"scored", "aborted", "skipped"}])
  /\ errors \in BOOLEAN
  /\ pendingSaves \in Nat

(***************************************************************************)
(* The rows are those of the first units of the plan, in order: breaker,   *)
(* skips and stop never lose, repeat or move a question.                   *)
(***************************************************************************)
RowsFollowPlan == \A i \in DOMAIN results : results[i].unit = i

(***************************************************************************)
(* The breaker is open at unit n when an earlier row of the model is an    *)
(* availability error, or two of its rows in a row are failed calls.       *)
(***************************************************************************)
Failed(i) == results[i].outcome \in CallFailures
BreakerOpen(n) ==
  \E i \in 1..(n - 1) :
    /\ SameModel(i, n)
    /\ \/ results[i].outcome = "unavailable"
       \/ Failed(i) /\ i > 1 /\ SameModel(i - 1, n) /\ Failed(i - 1)

(***************************************************************************)
(* A question is skipped exactly when its model is not listed or the       *)
(* breaker of that entry of the model list is open: no endless retries of  *)
(* a dead model, and a model that answered in between is not given up.     *)
(***************************************************************************)
SkippedIffUnavailable ==
  \A n \in DOMAIN results :
    results[n].outcome = "skipped" <=> Model(n) \notin listed \/ BreakerOpen(n)

(***************************************************************************)
(* A question is only put to a model that is listed, whose breaker is      *)
(* closed, and that comes next in the plan.                                *)
(***************************************************************************)
AskedIsNext ==
  pc = "asking" =>
    /\ unit = Len(results) + 1
    /\ Model(unit) \in listed
    /\ ~BreakerOpen(unit)

(***************************************************************************)
(* Rows, skips and the next question are those of the plan.                *)
(***************************************************************************)
RowsAreThePlans == RowsFollowPlan /\ SkippedIffUnavailable /\ AskedIsNext

(***************************************************************************)
(* After a stop request at most the question under way gets its row, and   *)
(* the job settles in the same step, not after the skipped rows of a model *)
(* that failed.                                                            *)
(***************************************************************************)
StopEndsRecording ==
  [][stopRequested /\ results' # results =>
       Len(results') = Len(results) + 1 /\ status' \in Terminal]_vars

(***************************************************************************)
(* A job finishes, saves included, whether somebody stops it or not.       *)
(***************************************************************************)
JobSettles == <>(status \in Terminal /\ pc = "done")

(***************************************************************************)
(* Stop or no stop, a job comes to its end, and a stop brings it there     *)
(* with the answer it was waiting for.                                     *)
(***************************************************************************)
JobEnds == StopEndsRecording /\ JobSettles

(***************************************************************************)
(* A SQL job is a JobLifecycle.                                            *)
(***************************************************************************)
Lifecycle == INSTANCE JobLifecycle WITH
  Work <- Units,
  recorded <- [i \in DOMAIN results |-> results[i].unit]
LifecycleSpec == Lifecycle!Spec
=============================================================================

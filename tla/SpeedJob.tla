------------------------------ MODULE SpeedJob ------------------------------
(***************************************************************************)
(* A speed benchmark: run_job and the loops run_sequential and             *)
(* run_parallel it calls for each target, with the stop request that may   *)
(* arrive whenever the job awaits something.  One action is one run of     *)
(* the code between two awaits that really yield to the event loop (an     *)
(* HTTP call, the semaphore, the wait for saves): set_phase never yields,  *)
(* its lock is always free.                                                *)
(***************************************************************************)
EXTENDS Integers, Sequences, FiniteSets, Functions

CONSTANTS
  NTargets,     (* len(request.targets)                                    *)
  NModels,      (* NModels[t] = number of models of target t               *)
  RepeatCount,  (* request.repeat_count                                    *)
  WarmupRuns,   (* request.warmup_runs                                     *)
  Concurrency,  (* request.concurrency                                     *)
  Modes         (* the values of request.mode to consider                  *)

Targets == 1..NTargets

(* BenchmarkRequest.from_dict rejects empty targets and model lists and
   clamps the counts. *)
ASSUME RequestAssumption ==
  /\ NTargets \in Nat \ {0}
  /\ NModels \in [Targets -> Nat \ {0}]
  /\ RepeatCount \in Nat \ {0}
  /\ WarmupRuns \in Nat
  /\ Concurrency \in Nat \ {0}
  /\ Modes \subseteq {"sequential", "parallel"}

VARIABLES
  mode,           (* request.mode                                          *)
  status,         (* JobState.status                                       *)
  stopRequested,  (* JobState.stop_requested                               *)
  pc,             (* where run_job is                                      *)
  target,         (* index of the target it is at                          *)
  todo,           (* units of the target with no call yet                  *)
  inflight,       (* units whose benchmark call is unanswered              *)
  arrived,        (* parallel: worker results the main loop has not taken  *)
  results,        (* JobState.results                                      *)
  errors,         (* JobState.errors is not empty                          *)
  pendingSaves    (* number of tasks in JobState._pending_saves            *)

vars == <<mode, status, stopRequested, pc, target, todo, inflight, arrived,
          results, errors, pendingSaves>>

-----------------------------------------------------------------------------
(***************************************************************************)
(* A unit is one benchmark call: target, position of the model in the      *)
(* target's list, run.  Runs up to 0 are the warm-ups (run_index 0 in the  *)
(* code), runs from 1 on are measured.                                     *)
(***************************************************************************)
Units(t) == {t} \X (1..NModels[t]) \X ((1 - WarmupRuns)..RepeatCount)
AllUnits == UNION {Units(t) : t \in Targets}
IsWarmup(u) == u[3] <= 0
Measured == {u \in AllUnits : ~IsWarmup(u)}

ModelMajor(u, v) == u[2] < v[2] \/ (u[2] = v[2] /\ u[3] < v[3])

(* The order in which a target's calls are issued: model by model, or, as
   the task list of run_parallel, every warm-up first. *)
Before(u, v) ==
  IF mode = "parallel" /\ IsWarmup(u) # IsWarmup(v)
  THEN IsWarmup(u)
  ELSE ModelMajor(u, v)

IsFirst(u, S) == u \in S /\ \A v \in S \ {u} : Before(u, v)

(***************************************************************************)
(* A finished call is a success that carries a latency, a success that     *)
(* carries none (Ollama reports no durations), a failure row, or an        *)
(* exception run_single_benchmark does not catch.  Nothing of a warm-up is *)
(* kept.                                                                   *)
(***************************************************************************)
Outcomes == {"timed", "untimed", "failed"}
Answers(u) == IF IsWarmup(u) THEN {"discarded", "raised"}
              ELSE Outcomes \cup {"raised"}

Row(u, o) == [unit |-> u, outcome |-> o]
Rows == [unit : Measured, outcome : Outcomes]
Recorded == {results[i].unit : i \in DOMAIN results}

(* build_speed_report takes the minimum latency of the successful rows,
   and min() of no latency at all raises. *)
ReportRaises(rows) ==
  /\ \E i \in DOMAIN rows : rows[i].outcome = "untimed"
  /\ \A i \in DOMAIN rows : rows[i].outcome # "timed"

Terminal == {"completed", "failed", "stopped"}

-----------------------------------------------------------------------------
(* from_dict and benchmark_start have built the job. *)
Init ==
  /\ mode \in Modes
  /\ status = "queued"
  /\ stopRequested = FALSE
  /\ pc = "new"
  /\ target = 1
  /\ todo = {}
  /\ inflight = {}
  /\ arrived = << >>
  /\ results = << >>
  /\ errors = FALSE
  /\ pendingSaves = 0

(***************************************************************************)
(* The ends of the try block.  Raise is the except clause; a report that   *)
(* raises there too leaves the same state behind.                          *)
(***************************************************************************)
Raise ==
  /\ status' = "failed"
  /\ errors' = TRUE
  /\ pc' = "draining"
  /\ UNCHANGED target

Verdict ==
  IF stopRequested /\ status = "stopping" THEN "stopped" ELSE "completed"

Settle(rows) ==
  IF ReportRaises(rows)
  THEN Raise
  ELSE /\ status' = Verdict
       /\ pc' = "draining"
       /\ UNCHANGED <<target, errors>>

(* The rest of an iteration of the loop over the targets. *)
LeaveTarget(rows) ==
  IF stopRequested \/ target = NTargets
  THEN Settle(rows)
  ELSE /\ target' = target + 1
       /\ pc' = "detecting"
       /\ UNCHANGED <<status, errors>>

(* results.append, progress_completed += 1 and the tracked save task. *)
Append1(row) ==
  /\ results' = Append(results, row)
  /\ pendingSaves' = pendingSaves + 1

-----------------------------------------------------------------------------
Start ==
  /\ pc = "new"
  /\ status' = "running"
  /\ pc' = "detecting"
  /\ UNCHANGED <<mode, stopRequested, target, todo, inflight, arrived,
                 results, errors, pendingSaves>>

ProviderDetected ==
  /\ pc = "detecting"
  /\ pc' = "discovering"
  /\ UNCHANGED <<mode, status, stopRequested, target, todo, inflight,
                 arrived, results, errors, pendingSaves>>

(* No provider recognised, no model list, or a requested model missing. *)
TargetUnusable ==
  /\ pc \in {"detecting", "discovering"}
  /\ Raise
  /\ UNCHANGED <<mode, stopRequested, todo, inflight, arrived, results,
                 pendingSaves>>

(* run_sequential up to its next call: every loop head checks the flag. *)
SeqContinue(rest, rows) ==
  IF stopRequested \/ rest = {}
  THEN /\ todo' = {}
       /\ inflight' = {}
       /\ LeaveTarget(rows)
  ELSE \E u \in rest :
         /\ IsFirst(u, rest)
         /\ todo' = rest \ {u}
         /\ inflight' = {u}
         /\ pc' = "sequential"
         /\ UNCHANGED <<status, target, errors>>

EnterSequential ==
  /\ pc = "discovering"
  /\ mode = "sequential"
  /\ SeqContinue(Units(target), results)
  /\ UNCHANGED <<mode, stopRequested, arrived, results, pendingSaves>>

SeqReturn(u, o) ==
  /\ pc = "sequential"
  /\ u \in inflight
  /\ o \in Answers(u)
  /\ CASE o = "raised" ->
            /\ Raise
            /\ todo' = {}
            /\ inflight' = {}
            /\ UNCHANGED <<results, pendingSaves>>
       [] o = "discarded" ->
            /\ SeqContinue(todo, results)
            /\ UNCHANGED <<results, pendingSaves>>
       [] OTHER ->
            /\ Append1(Row(u, o))
            /\ SeqContinue(todo, Append(results, Row(u, o)))
  /\ UNCHANGED <<mode, stopRequested, arrived>>

(* Mutant: the tasks are always those of the first target. *)
EnterParallel_StaleTarget ==
  /\ pc = "discovering"
  /\ mode = "parallel"
  /\ pc' = "parallel"
  /\ todo' = Units(1)
  /\ UNCHANGED <<mode, status, stopRequested, target, inflight, arrived,
                 results, errors, pendingSaves>>

-----------------------------------------------------------------------------
(* run_parallel creates a worker task for every unit of the target. *)
EnterParallel ==
  /\ pc = "discovering"
  /\ mode = "parallel"
  /\ pc' = "parallel"
  /\ todo' = Units(target)
  /\ UNCHANGED <<mode, status, stopRequested, target, inflight, arrived,
                 results, errors, pendingSaves>>

(* Mutant: the task list of run_parallel holds a task twice. *)
Deliver_Twice(u, o) ==
  arrived' = IF pc = "parallel" THEN arrived \o <<Row(u, o), Row(u, o)>> ELSE arrived

(* Nobody awaits a worker that outlives the loop of run_parallel. *)
Deliver(u, o) ==
  arrived' = IF pc = "parallel" THEN Append(arrived, Row(u, o)) ELSE arrived

(* Mutant: a worker that gets the semaphore does not look at the flag. *)
WorkerEnters_NoStopCheck(u) ==
  /\ mode = "parallel"
  /\ IsFirst(u, todo)
  /\ Cardinality(inflight) < Concurrency
  /\ todo' = todo \ {u}
  /\ inflight' = inflight \cup {u}
  /\ UNCHANGED <<mode, status, stopRequested, pc, target, arrived, results,
                 errors, pendingSaves>>

(* The semaphore lets the workers in one by one, in creation order.  A
   worker that finds the flag set answers "stopped" without a call. *)
WorkerEnters(u) ==
  /\ mode = "parallel"
  /\ IsFirst(u, todo)
  /\ Cardinality(inflight) < Concurrency
  /\ todo' = todo \ {u}
  /\ IF stopRequested
     THEN Deliver(u, "stopped") /\ UNCHANGED inflight
     ELSE inflight' = inflight \cup {u} /\ UNCHANGED arrived
  /\ UNCHANGED <<mode, status, stopRequested, pc, target, results, errors,
                 pendingSaves>>

WorkerReturns(u, o) ==
  /\ mode = "parallel"
  /\ u \in inflight
  /\ o \in Answers(u)
  /\ inflight' = inflight \ {u}
  /\ Deliver(u, o)
  /\ UNCHANGED <<mode, status, stopRequested, pc, target, todo, results,
                 errors, pendingSaves>>

(* The loop over as_completed goes on, or every task has been taken. *)
ParContinue(rows) ==
  /\ arrived' = Tail(arrived)
  /\ UNCHANGED <<todo, inflight>>
  /\ IF todo \cup inflight = {} /\ Tail(arrived) = << >>
     THEN LeaveTarget(rows)
     ELSE UNCHANGED <<status, pc, target, errors>>

TakeDropped ==
  /\ pc = "parallel"
  /\ arrived # << >>
  /\ Head(arrived).outcome \in {"stopped", "discarded"}
  /\ ParContinue(results)
  /\ UNCHANGED <<mode, stopRequested, results, pendingSaves>>

(* The exception leaves run_parallel; the other workers are not cancelled. *)
TakeRaised ==
  /\ pc = "parallel"
  /\ arrived # << >>
  /\ Head(arrived).outcome = "raised"
  /\ arrived' = << >>
  /\ Raise
  /\ UNCHANGED <<mode, stopRequested, todo, inflight, results, pendingSaves>>

(* Mutant: the tasks left after a stop are not cancelled. *)
TakeRow_NoCancel ==
  /\ pc = "parallel"
  /\ arrived # << >>
  /\ Head(arrived).outcome \in Outcomes
  /\ Append1(Head(arrived))
  /\ IF stopRequested
     THEN /\ arrived' = << >>
          /\ LeaveTarget(Append(results, Head(arrived)))
          /\ UNCHANGED <<todo, inflight>>
     ELSE ParContinue(Append(results, Head(arrived)))
  /\ UNCHANGED <<mode, stopRequested>>

(* A measured row.  After a stop every unfinished task is cancelled and the
   loop returns, whatever has arrived in the meantime. *)
TakeRow ==
  /\ pc = "parallel"
  /\ arrived # << >>
  /\ Head(arrived).outcome \in Outcomes
  /\ Append1(Head(arrived))
  /\ IF stopRequested
     THEN /\ todo' = {}
          /\ inflight' = {}
          /\ arrived' = << >>
          /\ LeaveTarget(Append(results, Head(arrived)))
     ELSE ParContinue(Append(results, Head(arrived)))
  /\ UNCHANGED <<mode, stopRequested>>

(* Mutant: benchmark_stop overwrites the status of a settled job. *)
RequestStop_Always ==
  /\ status # "queued"
  /\ stopRequested' = TRUE
  /\ status' = "stopping"
  /\ UNCHANGED <<mode, pc, target, todo, inflight, arrived, results, errors,
                 pendingSaves>>

-----------------------------------------------------------------------------
(* benchmark_stop, from a client that has seen the job (JobLifecycle says
   why it is not queued then). *)
RequestStop ==
  /\ status # "queued"
  /\ stopRequested' = TRUE
  /\ status' = IF status = "running" THEN "stopping" ELSE status
  /\ UNCHANGED <<mode, pc, target, todo, inflight, arrived, results, errors,
                 pendingSaves>>

(* Mutant: finished saves stay in _pending_saves. *)
SaveEnds_Leaks == pendingSaves > 0 /\ UNCHANGED vars

(* A flush_job_record task ends; ResultsStore models what it does. *)
SaveEnds ==
  /\ pendingSaves > 0
  /\ pendingSaves' = pendingSaves - 1
  /\ UNCHANGED <<mode, status, stopRequested, pc, target, todo, inflight,
                 arrived, results, errors>>

(* The finally clause: drain, then the last save, if there is anything. *)
Drained ==
  /\ pc = "draining"
  /\ pendingSaves = 0
  /\ pc' = IF results # << >> \/ errors THEN "saving" ELSE "done"
  /\ UNCHANGED <<mode, status, stopRequested, target, todo, inflight,
                 arrived, results, errors, pendingSaves>>

FinalSave ==
  /\ pc = "saving"
  /\ pc' = "done"
  /\ UNCHANGED <<mode, status, stopRequested, target, todo, inflight,
                 arrived, results, errors, pendingSaves>>

JobStep ==
  \/ Start
  \/ ProviderDetected
  \/ TargetUnusable
  \/ EnterSequential
  \/ \E u \in inflight : \E o \in Answers(u) : SeqReturn(u, o)
  \/ EnterParallel
  \/ \E u \in todo : WorkerEnters(u)
  \/ \E u \in inflight : \E o \in Answers(u) : WorkerReturns(u, o)
  \/ TakeDropped
  \/ TakeRaised
  \/ TakeRow
  \/ SaveEnds
  \/ Drained
  \/ FinalSave

Next == JobStep \/ RequestStop

Spec == Init /\ [][Next]_vars

(* The event loop runs what is ready, and every call is answered or times
   out (httpx.Timeout); nobody has to press Stop. *)
FairSpec == Spec /\ WF_vars(JobStep)

-----------------------------------------------------------------------------
TypeOK ==
  /\ mode \in {"sequential", "parallel"}
  /\ status \in {"queued", "running", "stopping"} \cup Terminal
  /\ stopRequested \in BOOLEAN
  /\ pc \in {"new", "detecting", "discovering", "sequential", "parallel",
             "draining", "saving", "done"}
  /\ target \in Targets
  /\ todo \subseteq Units(target)
  /\ inflight \subseteq Units(target)
  /\ arrived \in Seq([unit : Units(target),
                      outcome : Outcomes \cup {"stopped", "discarded", "raised"}])
  /\ results \in Seq(Rows)
  /\ errors \in BOOLEAN
  /\ pendingSaves \in Nat

(***************************************************************************)
(* However the workers interleave and whenever the stop comes, no measured *)
(* run gets two rows.                                                      *)
(***************************************************************************)
OneRowPerRun ==
  \A i, j \in DOMAIN results : results[i].unit = results[j].unit => i = j

(***************************************************************************)
(* Sequential results have no holes: a row is preceded by the rows of all  *)
(* the runs planned before it, so a stopped run is a prefix of the plan.   *)
(***************************************************************************)
SequentialPrefix ==
  mode = "sequential" =>
    \A i \in DOMAIN results : \A u \in Measured :
      \/ u[1] < results[i].unit[1]
      \/ u[1] = results[i].unit[1] /\ ModelMajor(u, results[i].unit)
      => \E j \in 1..(i - 1) : results[j].unit = u

(***************************************************************************)
(* The rows are those of the plan, in both modes.                          *)
(***************************************************************************)
RowsAreThePlans == OneRowPerRun /\ SequentialPrefix

(***************************************************************************)
(* Once a job says "completed" or "stopped", no call of it is left at the  *)
(* endpoint and no worker is waiting to make one.                          *)
(***************************************************************************)
QuietWhenSettled == status \in {"completed", "stopped"} => inflight \cup todo = {}

(***************************************************************************)
(* After a stop request no further benchmark call is issued, not even by   *)
(* workers that were queued at the semaphore.                              *)
(***************************************************************************)
NoCallAfterStop == [][stopRequested => inflight' \subseteq inflight]_vars

(***************************************************************************)
(* At most one row still comes in after a stop request, and it settles the *)
(* job in the same step.                                                   *)
(***************************************************************************)
StopEndsRecording ==
  [][stopRequested /\ results' # results => status' \in Terminal]_vars

(***************************************************************************)
(* A stop is honoured at the endpoint and in the record.                   *)
(***************************************************************************)
StopIsHonoured == NoCallAfterStop /\ StopEndsRecording

(***************************************************************************)
(* Every job settles, stopped or not.                                      *)
(***************************************************************************)
JobSettles == <>(status \in Terminal /\ pc = "done")

(***************************************************************************)
(* A speed job is a JobLifecycle: the client sees a row for a measured run *)
(* at most once, only while the job is live, and "completed" only when the *)
(* job is whole.                                                           *)
(***************************************************************************)
Lifecycle == INSTANCE JobLifecycle WITH
  Work <- Measured,
  recorded <- [i \in DOMAIN results |-> results[i].unit]
LifecycleSpec == Lifecycle!Spec

(***************************************************************************)
(* README.md, Speed Metrics: "Use `warmup_runs > 0` to keep cold           *)
(* model-loading time out of measured runs": no measured call to a model   *)
(* starts while a warm-up of that model is still unanswered.               *)
(***************************************************************************)
WarmBeforeMeasured ==
  \A u, v \in inflight : IsWarmup(u) /\ u[2] = v[2] => IsWarmup(v)

(***************************************************************************)
(* CHANGELOG.md: "Parallel mode no longer drops results on cancellation":  *)
(* a measured run whose answer has arrived when the job is stopped has its *)
(* row in the stopped job.                                                 *)
(***************************************************************************)
CancellationKeepsRows ==
  [][\A i \in DOMAIN arrived :
       /\ arrived[i].outcome \in Outcomes
       /\ status' = "stopped"
       => \E j \in DOMAIN results' : results'[j] = arrived[i]]_vars
=============================================================================

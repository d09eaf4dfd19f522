---------------------------- MODULE JobLifecycle ----------------------------
(***************************************************************************)
(* What the HTTP clients of the test bench may rely on while they watch    *)
(* one benchmark job, whatever kind of benchmark it runs.  A job has a     *)
(* status, a stop flag and a list of result rows, one for each unit of     *)
(* work of the request (a measured speed run, a SQL question).  The        *)
(* runners of job_runner.py take many more steps than this; SpeedJob and   *)
(* SqlJob show that each of those steps is one of the steps below, or      *)
(* changes nothing a client can see.                                       *)
(***************************************************************************)
EXTENDS Naturals, Sequences, Functions

CONSTANT
  Work          (* the units of work the request asks a row for           *)

VARIABLES
  status,        (* JobState.status                                       *)
  stopRequested, (* JobState.stop_requested                               *)
  recorded       (* the units of JobState.results, in order               *)

vars == <<status, stopRequested, recorded>>

Live == {"queued", "running", "stopping"}
Terminal == {"completed", "failed", "stopped"}

(***************************************************************************)
(* benchmark_start: the record exists, run_job has not had its first step. *)
(***************************************************************************)
Init ==
  /\ status = "queued"
  /\ stopRequested = FALSE
  /\ recorded = << >>

Start ==
  /\ status = "queued"
  /\ status' = "running"
  /\ UNCHANGED <<stopRequested, recorded>>

(***************************************************************************)
(* benchmark_stop.  The event loop has put the first step of run_job ahead *)
(* of any request of a client that knows the job's id, so no stop finds    *)
(* the job still queued.  A stop of a settled job only sets the flag.      *)
(***************************************************************************)
RequestStop ==
  /\ status # "queued"
  /\ stopRequested' = TRUE
  /\ status' = IF status = "running" THEN "stopping" ELSE status
  /\ UNCHANGED recorded

(***************************************************************************)
(* Rows are only ever appended, and no unit gets a second one.  Several    *)
(* may appear at once: questions of an unavailable model are skipped       *)
(* without yielding to the event loop.                                     *)
(***************************************************************************)
Extends(old, new) ==
  /\ Len(old) <= Len(new)
  /\ \A i \in DOMAIN old : new[i] = old[i]
  /\ IsInjective(new)
  /\ Range(new) \subseteq Work

Record ==
  /\ status \in {"running", "stopping"}
  /\ Extends(recorded, recorded')
  /\ UNCHANGED <<status, stopRequested>>

(***************************************************************************)
(* A job that nobody stopped completes once every unit has its row; a      *)
(* stopping job stops; either may fail instead.  A client may see the last *)
(* rows and the new status appear together, because the runner does not    *)
(* yield to the event loop between the two.                                *)
(***************************************************************************)
Finish ==
  /\ Extends(recorded, recorded')
  /\ \/ /\ status = "running"
        /\ Range(recorded') = Work
        /\ status' = "completed"
     \/ /\ status = "stopping"
        /\ status' = "stopped"
     \/ /\ status \in {"running", "stopping"}
        /\ status' = "failed"
  /\ UNCHANGED stopRequested

Next ==
  \/ Start
  \/ RequestStop
  \/ Record
  \/ Finish

Spec == Init /\ [][Next]_vars

(***************************************************************************)
(* The status is one of the six the API names, rows belong to the request. *)
(***************************************************************************)
TypeOK ==
  /\ status \in Live \cup Terminal
  /\ stopRequested \in BOOLEAN
  /\ recorded \in Seq(Work)
=============================================================================

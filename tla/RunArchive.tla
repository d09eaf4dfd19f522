----------------------------- MODULE RunArchive -----------------------------
(***************************************************************************)
(* What a client that asks for a run (load_job_record: exports, opened     *)
(* history entries) may rely on, without files, locks and save tasks.      *)
(* While the server that runs a job lives, the client sees the job itself; *)
(* what is left of it when that server dies is an earlier sight of it, or  *)
(* nothing.                                                                *)
(***************************************************************************)
EXTENDS Naturals

CONSTANT
  Jobs     (* the ids of jobs, never used twice                            *)

VARIABLES
  alive,   (* alive[j]: the server process that runs or ran j still exists *)
  entry    (* entry[j]: what the client is shown                           *)

vars == <<alive, entry>>

LiveStatuses == {"queued", "running", "stopping"}
Terminal == {"completed", "failed", "stopped"}

Run(s, n) == [kind |-> "run", status |-> s, rows |-> n]
Nothing == [kind |-> "nothing", status |-> "none", rows |-> 0]

Init ==
  /\ alive = [j \in Jobs |-> FALSE]
  /\ entry = [j \in Jobs |-> Nothing]

(* Only a run nobody has seen yet begins. *)
Begin(j) ==
  /\ entry[j] = Nothing
  /\ alive' = [alive EXCEPT ![j] = TRUE]
  /\ entry' = [entry EXCEPT ![j] = Run("running", 0)]

AddRow(j) ==
  /\ alive[j]
  /\ entry[j].status \in LiveStatuses
  /\ entry' = [entry EXCEPT ![j].rows = @ + 1]
  /\ UNCHANGED alive

Advance(j, s) ==
  /\ alive[j]
  /\ entry[j].status \in LiveStatuses
  /\ entry' = [entry EXCEPT ![j].status = s]
  /\ UNCHANGED alive

(* What is left of a run: a finished entry survives only unchanged, so a
   partial row list never carries a finished status. *)
Remains(j) ==
  {entry[j], Nothing} \cup
  {Run(s, n) : s \in LiveStatuses, n \in 0..entry[j].rows}

(* The server dies, with every job in its memory. *)
Die ==
  /\ \E j \in Jobs : alive[j]
  /\ alive' = [j \in Jobs |-> FALSE]
  /\ \A j \in Jobs :
       entry'[j] \in IF alive[j] THEN Remains(j) ELSE {entry[j]}

(* At the next start a run cut short is marked; its rows are kept. *)
Interrupt(j) ==
  /\ ~alive[j]
  /\ entry[j].status \in LiveStatuses
  /\ entry' = [entry EXCEPT ![j].status = "interrupted"]
  /\ UNCHANGED alive

(* Runs of earlier servers, cleared by the user or torn by a crash during
   the marking. *)
Forget ==
  /\ \A j \in Jobs :
       entry'[j] \in IF alive[j] THEN {entry[j]} ELSE {entry[j], Nothing}
  /\ UNCHANGED alive

Next ==
  \/ \E j \in Jobs : Begin(j) \/ AddRow(j) \/ Interrupt(j)
  \/ \E j \in Jobs, s \in {"stopping"} \cup Terminal : Advance(j, s)
  \/ Die
  \/ Forget

Spec == Init /\ [][Next]_vars

(* An entry is a run with one of the statuses of the API, or nothing. *)
TypeOK ==
  /\ alive \in [Jobs -> BOOLEAN]
  /\ entry \in [Jobs -> {Nothing} \cup
       [kind : {"run"}, status : LiveStatuses \cup Terminal \cup {"interrupted"},
        rows : Nat]]
=============================================================================

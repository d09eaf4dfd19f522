---------------------------- MODULE DuckSession ----------------------------
(***************************************************************************)
(* The DuckDB connection of a SqlBenchmarkRunner, and _execute_sql, which  *)
(* runs every statement on it beside a watchdog thread.  One connection    *)
(* serves all questions of all models of a job.  A statement blocks the    *)
(* event loop, so only watchdogs run beside it: its own, and any earlier   *)
(* one that has set its flag but not called interrupt() yet.               *)
(***************************************************************************)
EXTENDS Naturals

CONSTANTS
  Statements,  (* the SQL a model may send: [pace, writes, yields]         *)
  Results      (* what a statement may yield: answers, and "error"         *)

(***************************************************************************)
(* A "quick" statement ends long before the limit, a "slow" one before or  *)
(* after it, an "endless" one only when it is interrupted.  "yields" is    *)
(* what it yields on the tables as they were loaded.                       *)
(***************************************************************************)
ASSUME DuckAssumption ==
  /\ Statements \subseteq [pace : {"quick", "slow", "endless"}, writes : BOOLEAN,
                           yields : Results]
  /\ "error" \in Results
  /\ {"none", "timeout"} \cap Results = {}

VARIABLES
  query,     (* the statement in _execute_sql and how far it is            *)
  watchdog,  (* the timer thread of the statement                          *)
  strays,    (* timer threads of earlier statements yet to interrupt()     *)
  pending,   (* DuckDB has been told to interrupt the running statement    *)
  session,   (* whether a statement has changed the tables or left the     *)
             (* connection in a transaction                                *)
  overruns,  (* history: watchdogs that have fired                         *)
  spoiled    (* history: statements cancelled that had not overrun         *)

sessionVars == <<query, watchdog, strays, pending, session, overruns, spoiled>>

-----------------------------------------------------------------------------
NoQuery == [at |-> "none", pace |-> "quick", writes |-> FALSE, yields |-> "none",
            result |-> "none"]

SessionInit ==
  /\ query = NoQuery
  /\ watchdog = "off"
  /\ strays = 0
  /\ pending = FALSE
  /\ session = "intact"
  /\ overruns = 0
  /\ spoiled = 0

(* DuckDB forgets earlier interrupts when a statement begins. *)
Execute(s) ==
  /\ query.at # "running" /\ query.at # "ended"
  /\ query' = [at |-> "running", pace |-> s.pace, writes |-> s.writes,
               yields |-> s.yields, result |-> "none"]
  /\ watchdog' = "armed"
  /\ pending' = FALSE
  /\ UNCHANGED <<strays, session, overruns, spoiled>>

(* _on_timeout, first half: the flag. *)
WatchdogFires ==
  /\ watchdog = "armed"
  /\ query.pace # "quick"
  /\ watchdog' = "fired"
  /\ overruns' = overruns + 1
  /\ UNCHANGED <<query, strays, pending, session, spoiled>>

(* Mutant: interrupt() is called on another connection. *)
WatchdogInterrupts_Elsewhere ==
  /\ watchdog = "fired"
  /\ watchdog' = "spent"
  /\ UNCHANGED <<query, strays, pending, session, overruns, spoiled>>

(* _on_timeout, second half; an interrupt between statements has no effect. *)
WatchdogInterrupts ==
  /\ watchdog = "fired"
  /\ watchdog' = "spent"
  /\ pending' = (query.at = "running")
  /\ UNCHANGED <<query, strays, session, overruns, spoiled>>

StrayInterrupts ==
  /\ strays > 0
  /\ strays' = strays - 1
  /\ pending' = (pending \/ query.at = "running")
  /\ UNCHANGED <<query, watchdog, session, overruns, spoiled>>

(* Whatever a writing text gets to, its first statements have taken effect. *)
Wrote == session' \in IF query.writes THEN {session, "changed"} ELSE {session}

(* An error of a statement whose own flag is set is reported as a timeout. *)
Failure == IF watchdog = "armed" THEN "error" ELSE "timeout"

(* The statement ends by itself, perhaps without a look at the interrupt. *)
StatementEnds ==
  /\ query.at = "running"
  /\ query.pace # "endless"
  /\ \E r \in IF session = "intact" THEN {query.yields} ELSE Results :
       query' = [query EXCEPT !.at = "ended", !.result = IF r = "error" THEN Failure ELSE r]
  /\ Wrote
  /\ UNCHANGED <<watchdog, strays, pending, overruns, spoiled>>

(* duckdb.InterruptException *)
StatementInterrupted ==
  /\ query.at = "running"
  /\ pending
  /\ query' = [query EXCEPT !.at = "ended", !.result = Failure]
  /\ spoiled' = IF watchdog = "armed" THEN spoiled + 1 ELSE spoiled
  /\ Wrote
  /\ UNCHANGED <<watchdog, strays, pending, overruns>>

(* Mutant: no timer is cancelled. *)
CancelWatchdog_None ==
  /\ query.at = "ended"
  /\ strays' = IF watchdog \in {"armed", "fired"} THEN strays + 1 ELSE strays
  /\ watchdog' = "off"
  /\ query' = [query EXCEPT !.at = "done"]
  /\ UNCHANGED <<pending, session, overruns, spoiled>>

(* The finally block: a timer that has fired cannot be cancelled any more. *)
CancelWatchdog ==
  /\ query.at = "ended"
  /\ strays' = IF watchdog = "fired" THEN strays + 1 ELSE strays
  /\ watchdog' = "off"
  /\ query' = [query EXCEPT !.at = "done"]
  /\ UNCHANGED <<pending, session, overruns, spoiled>>

SessionStep ==
  \/ WatchdogFires \/ WatchdogInterrupts \/ StrayInterrupts
  \/ StatementEnds \/ StatementInterrupted \/ CancelWatchdog

-----------------------------------------------------------------------------
(***************************************************************************)
(* Every watchdog cancels at most one statement: one that fires as its own *)
(* statement ends may hit a later one, but never a second.                 *)
(***************************************************************************)
OneHitPerOverrun == spoiled + strays <= overruns

(***************************************************************************)
(* "SQL execution exceeded ..." is only said of a statement that did.      *)
(***************************************************************************)
TimeoutIsEarned == query.result = "timeout" => query.pace # "quick"
=============================================================================

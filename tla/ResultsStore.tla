---------------------------- MODULE ResultsStore ----------------------------
(***************************************************************************)
(* The results directory: one JSON file per job, rewritten after every row *)
(* by fire-and-forget save tasks (persistence.py), read by the history     *)
(* list, deleted by "clear", and all that is left of a job when the server *)
(* process dies.                                                           *)
(*                                                                         *)
(* A save task of a job waits for the job's _save_lock, captures status    *)
(* and progress, waits for the server's _results_lock to scan the          *)
(* directory, serialises the record and then writes the file in a thread,  *)
(* outside the _results_lock and in place.  The rows of the record are a   *)
(* reference to the live list: they are read when it is serialised, later  *)
(* than the rest.                                                          *)
(*                                                                         *)
(* Rows are append-only, so a list of rows is modelled by its length.      *)
(***************************************************************************)
EXTENDS Naturals, Sequences

CONSTANTS
  Jobs,        (* jobs that may be started; an id is never used twice      *)
  Readers,     (* history requests (list, summaries, dashboard)            *)
  MaxRows,     (* bound: rows of a job                                     *)
  MaxCrashes,  (* bound: crashes of the server process                     *)
  MaxErrors    (* bound: file operations that fail (disk full, locked)     *)

ASSUME BoundsAssumption ==
  /\ MaxRows \in Nat
  /\ MaxCrashes \in Nat
  /\ MaxErrors \in Nat

VARIABLES
  up,         (* "up", "down", or "reconciling" before it serves           *)
  life,       (* life[j]: how far run_job is                               *)
  status,     (* status[j]: JobState.status                                *)
  rows,       (* rows[j]: len(JobState.results) = progress_completed       *)
  save,       (* save[j][k]: the k-th save task of the job                 *)
  disk,       (* disk[j]: the file of the job                              *)
  lockQueue,  (* holder of _results_lock, then those waiting for it        *)
  reader,     (* reader[r]: a history request                              *)
  clearing,   (* the jobs of a clear request that waits for the lock       *)
  toCheck,    (* files reconcile_stale_records has still to look at        *)
  rewrite,    (* the stale file it is rewriting, if any, and what with     *)
  crashes,    (* crashes so far                                            *)
  ioErrors,   (* failed file operations so far                             *)
  flushed     (* flushed[j]: most rows a finished save has put on disk     *)

vars == <<up, life, status, rows, save, disk, lockQueue, reader, clearing,
          toCheck, rewrite, crashes, ioErrors, flushed>>

memory == <<life, status, rows>>
budget == <<crashes, ioErrors>>
history == <<reader, clearing>>
startup == <<toCheck, rewrite>>

-----------------------------------------------------------------------------
LiveStatuses == {"queued", "running", "stopping"}
Terminal == {"completed", "failed", "stopped"}
Statuses == LiveStatuses \cup Terminal \cup {"interrupted", "none"}

(* Save tasks in the order they are created: one per row, then the final
   save of run_job. *)
FinalSave == MaxRows + 1
Saves == 1..FinalSave

(***************************************************************************)
(* A file is absent, whole, or torn: truncated or partly written, so that  *)
(* json.loads fails on it.                                                 *)
(***************************************************************************)
Record(s, c, n) == [kind |-> "whole", status |-> s, completed |-> c, rows |-> n]
NoRecord(k) == [kind |-> k, status |-> "none", completed |-> 0, rows |-> 0]
Absent == NoRecord("absent")
Torn == NoRecord("torn")

(* pc of a save task: "none" before it exists, "waiting" for the save lock,
   "gate" for the results lock, "serialised", "writing" (linked to the
   directory or not), "saved" or "failed". *)
Task(p, s, c, n, l) ==
  [pc |-> p, status |-> s, completed |-> c, rows |-> n, linked |-> l]
Blank(p) == Task(p, "none", 0, 0, FALSE)

Begun(j, k) == save[j][k].pc \in {"gate", "serialised", "writing"}
Over(j, k) == save[j][k].pc \in {"none", "saved", "failed"}

(* Mutant: saves do not wait for each other. *)
HasTurn_NoLock(j, k) == save[j][k].pc = "waiting"

(* _save_lock is free and k is the first in line: asyncio locks are fair. *)
HasTurn(j, k) ==
  /\ save[j][k].pc = "waiting"
  /\ \A i \in Saves : ~Begun(j, i) /\ (i < k => Over(j, i))

SetSave(j, k, t) == save' = [save EXCEPT ![j][k] = t]

IdleReader == [pc |-> "idle", todo |-> {}, items |-> {}]

InMemory(j) == life[j] \notin {"unborn", "lost"}

(* w holds the _results_lock. *)
AtHead(w) == lockQueue # << >> /\ Head(lockQueue) = w

-----------------------------------------------------------------------------
Init ==
  /\ up = "up"
  /\ life = [j \in Jobs |-> "unborn"]
  /\ status = [j \in Jobs |-> "none"]
  /\ rows = [j \in Jobs |-> 0]
  /\ save = [j \in Jobs |-> [k \in Saves |-> Blank("none")]]
  /\ disk = [j \in Jobs |-> Absent]
  /\ lockQueue = << >>
  /\ reader = [r \in Readers |-> IdleReader]
  /\ clearing = {}
  /\ toCheck = {}
  /\ rewrite = << >>
  /\ crashes = 0
  /\ ioErrors = 0
  /\ flushed = [j \in Jobs |-> 0]

-----------------------------------------------------------------------------
(* The job, as SpeedJob and SqlJob run it, seen from the store. *)
StartJob(j) ==
  /\ up = "up"
  /\ life[j] = "unborn"
  /\ life' = [life EXCEPT ![j] = "working"]
  /\ status' = [status EXCEPT ![j] = "running"]
  /\ UNCHANGED <<up, rows, save, disk, lockQueue, history, startup, budget,
                 flushed>>

StopJob(j) ==
  /\ life[j] = "working"
  /\ status[j] = "running"
  /\ status' = [status EXCEPT ![j] = "stopping"]
  /\ UNCHANGED <<up, life, rows, save, disk, lockQueue, history, startup,
                 budget, flushed>>

(* results.append, progress_completed += 1, ensure_future, track_save. *)
AddRow(j) ==
  /\ life[j] = "working"
  /\ rows[j] < MaxRows
  /\ rows' = [rows EXCEPT ![j] = @ + 1]
  /\ SetSave(j, rows[j] + 1, Blank("waiting"))
  /\ UNCHANGED <<up, life, status, disk, lockQueue, history, startup, budget,
                 flushed>>

SettleJob(j, s) ==
  /\ life[j] = "working"
  /\ \/ status[j] = "running" /\ s \in {"completed", "failed"}
     \/ status[j] = "stopping" /\ s \in {"stopped", "failed"}
  /\ life' = [life EXCEPT ![j] = "draining"]
  /\ status' = [status EXCEPT ![j] = s]
  /\ UNCHANGED <<up, rows, save, disk, lockQueue, history, startup, budget,
                 flushed>>

(* Mutant: the final save is left to run in the background. *)
DrainJob_Background(j) ==
  /\ life[j] = "draining"
  /\ \A k \in Saves : Over(j, k)
  /\ life' = [life EXCEPT ![j] = "done"]
  /\ SetSave(j, FinalSave, Blank("waiting"))
  /\ UNCHANGED <<up, status, rows, disk, lockQueue, history, startup, budget,
                 flushed>>

(* finally: once the tracked saves are over, the last save, unless the job
   has neither rows nor errors. *)
DrainJob(j) ==
  /\ life[j] = "draining"
  /\ \A k \in Saves : Over(j, k)
  /\ IF rows[j] > 0 \/ status[j] = "failed"
     THEN /\ life' = [life EXCEPT ![j] = "lastSave"]
          /\ SetSave(j, FinalSave, Blank("waiting"))
     ELSE /\ life' = [life EXCEPT ![j] = "done"]
          /\ UNCHANGED save
  /\ UNCHANGED <<up, status, rows, disk, lockQueue, history, startup, budget,
                 flushed>>

(* Mutant: the count is captured one row ahead. *)
BeginSave_Ahead(j, k) ==
  /\ HasTurn(j, k)
  /\ IF lockQueue = << >>
     THEN /\ SetSave(j, k, Task("serialised", status[j], rows[j] + 1, rows[j], FALSE))
          /\ UNCHANGED lockQueue
     ELSE /\ SetSave(j, k, Task("gate", status[j], rows[j] + 1, 0, FALSE))
          /\ lockQueue' = Append(lockQueue, <<"save", j, k>>)
  /\ UNCHANGED <<up, memory, disk, history, startup, budget, flushed>>

-----------------------------------------------------------------------------
(***************************************************************************)
(* append_job_to_results_store builds the record; save_job_record scans    *)
(* the directory under _results_lock and serialises.  Without contention   *)
(* none of this yields.                                                    *)
(***************************************************************************)
BeginSave(j, k) ==
  /\ HasTurn(j, k)
  /\ IF lockQueue = << >>
     THEN /\ SetSave(j, k, Task("serialised", status[j], rows[j], rows[j], FALSE))
          /\ UNCHANGED lockQueue
     ELSE /\ SetSave(j, k, Task("gate", status[j], rows[j], 0, FALSE))
          /\ lockQueue' = Append(lockQueue, <<"save", j, k>>)
  /\ UNCHANGED <<up, memory, disk, history, startup, budget, flushed>>

(* Mutants: the rows are captured before the count; the lock is not
   released. *)
PassGate_CountLast(j, k) ==
  /\ save[j][k].pc = "gate"
  /\ AtHead(<<"save", j, k>>)
  /\ lockQueue' = Tail(lockQueue)
  /\ save' = [save EXCEPT ![j][k].pc = "serialised", ![j][k].completed = rows[j]]
  /\ UNCHANGED <<up, memory, disk, history, startup, budget, flushed>>

PassGate_KeepsLock(j, k) ==
  /\ save[j][k].pc = "gate"
  /\ AtHead(<<"save", j, k>>)
  /\ save' = [save EXCEPT ![j][k].pc = "serialised", ![j][k].rows = rows[j]]
  /\ UNCHANGED <<up, memory, disk, lockQueue, history, startup, budget, flushed>>

PassGate(j, k) ==
  /\ save[j][k].pc = "gate"
  /\ AtHead(<<"save", j, k>>)
  /\ lockQueue' = Tail(lockQueue)
  /\ save' = [save EXCEPT ![j][k].pc = "serialised", ![j][k].rows = rows[j]]
  /\ UNCHANGED <<up, memory, disk, history, startup, budget, flushed>>

(* path.write_text in a worker thread: open truncates the file, close makes
   it whole.  A file deleted meanwhile is written to no name. *)
OpenFile(j, k) ==
  /\ save[j][k].pc = "serialised"
  /\ save' = [save EXCEPT ![j][k].pc = "writing", ![j][k].linked = TRUE]
  /\ disk' = [disk EXCEPT ![j] = Torn]
  /\ UNCHANGED <<up, memory, lockQueue, history, startup, budget, flushed>>

(* The task ends, or run_job itself when the task is the final save. *)
EndSave(j, k, p) ==
  /\ SetSave(j, k, Blank(p))
  /\ life' = IF k = FinalSave THEN [life EXCEPT ![j] = "done"] ELSE life

CloseFile(j, k) ==
  LET t == save[j][k] IN
  /\ t.pc = "writing"
  /\ EndSave(j, k, "saved")
  /\ IF t.linked
     THEN /\ disk' = [disk EXCEPT ![j] = Record(t.status, t.completed, t.rows)]
          /\ flushed' = [flushed EXCEPT ![j] = IF @ > t.rows THEN @ ELSE t.rows]
     ELSE UNCHANGED <<disk, flushed>>
  /\ UNCHANGED <<up, status, rows, lockQueue, history, startup, budget>>

(* OSError from the open or from a write: the exception ends the task,
   nothing is retried and what is on disk stays. *)
SaveFails(j, k) ==
  /\ save[j][k].pc \in {"serialised", "writing"}
  /\ ioErrors < MaxErrors
  /\ ioErrors' = ioErrors + 1
  /\ EndSave(j, k, "failed")
  /\ UNCHANGED <<up, status, rows, disk, lockQueue, history, startup,
                 crashes, flushed>>

-----------------------------------------------------------------------------
(* load_results_store: glob, then read file after file, all under the
   lock. *)
Files == {j \in Jobs : disk[j] # Absent}

Listing(r) == reader' = [reader EXCEPT ![r] =
                           [pc |-> "reading", todo |-> Files, items |-> {}]]

RequestList(r) ==
  /\ up = "up"
  /\ reader[r].pc = "idle"
  /\ lockQueue' = Append(lockQueue, <<"list", r>>)
  /\ IF lockQueue = << >>
     THEN Listing(r)
     ELSE reader' = [reader EXCEPT ![r].pc = "waiting"]
  /\ UNCHANGED <<up, memory, save, disk, clearing, startup, budget, flushed>>

EnterList(r) ==
  /\ reader[r].pc = "waiting"
  /\ AtHead(<<"list", r>>)
  /\ Listing(r)
  /\ UNCHANGED <<up, memory, save, disk, lockQueue, clearing, startup, budget,
                 flushed>>

ReadFile(r, j) ==
  /\ reader[r].pc = "reading"
  /\ j \in reader[r].todo
  /\ reader' = [reader EXCEPT
                  ![r].todo = @ \ {j},
                  ![r].items = IF disk[j].kind = "whole" THEN @ \cup {j} ELSE @]
  /\ UNCHANGED <<up, memory, save, disk, lockQueue, clearing, startup, budget,
                 flushed>>

EndList(r) ==
  /\ reader[r].pc = "reading"
  /\ reader[r].todo = {}
  /\ lockQueue' = Tail(lockQueue)
  /\ reader' = [reader EXCEPT ![r] = IdleReader]
  /\ UNCHANGED <<up, memory, save, disk, clearing, startup, budget, flushed>>

-----------------------------------------------------------------------------
(* clear_results, for some jobs or all. *)
Unlink(S) ==
  /\ disk' = [j \in Jobs |-> IF j \in S THEN Absent ELSE disk[j]]
  /\ flushed' = [j \in Jobs |-> IF j \in S THEN 0 ELSE flushed[j]]
  /\ save' = [j \in Jobs |-> [k \in Saves |->
                IF j \in S THEN [save[j][k] EXCEPT !.linked = FALSE]
                ELSE save[j][k]]]

(* Mutant: files are deleted without the lock. *)
RequestClear_NoLock(S) ==
  /\ up = "up"
  /\ Unlink(S)
  /\ UNCHANGED <<up, memory, lockQueue, history, startup, budget>>

RequestClear(S) ==
  /\ up = "up"
  /\ clearing = {}
  /\ IF lockQueue = << >>
     THEN Unlink(S) /\ UNCHANGED <<lockQueue, clearing>>
     ELSE /\ lockQueue' = Append(lockQueue, <<"clear">>)
          /\ clearing' = S
          /\ UNCHANGED <<disk, flushed, save>>
  /\ UNCHANGED <<up, memory, reader, startup, budget>>

EnterClear ==
  /\ clearing # {}
  /\ AtHead(<<"clear">>)
  /\ Unlink(clearing)
  /\ clearing' = {}
  /\ lockQueue' = Tail(lockQueue)
  /\ UNCHANGED <<up, memory, reader, startup, budget>>

-----------------------------------------------------------------------------
(* The process dies: memory and threads go, the files stay as they are. *)
Crash ==
  /\ up # "down"
  /\ crashes < MaxCrashes
  /\ crashes' = crashes + 1
  /\ up' = "down"
  /\ life' = [j \in Jobs |-> IF InMemory(j) THEN "lost" ELSE life[j]]
  /\ save' = [j \in Jobs |-> [k \in Saves |-> Blank("none")]]
  /\ lockQueue' = << >>
  /\ reader' = [r \in Readers |-> IdleReader]
  /\ clearing' = {}
  /\ toCheck' = {}
  /\ rewrite' = << >>
  /\ UNCHANGED <<status, rows, disk, ioErrors, flushed>>

(* Mutant: the server does not reconcile before it serves. *)
Restart_NoReconcile ==
  /\ up = "down"
  /\ up' = "up"
  /\ UNCHANGED <<memory, save, disk, lockQueue, history, startup, budget,
                 flushed>>

(* create_app: reconcile_stale_records before any request is served. *)
Restart ==
  /\ up = "down"
  /\ up' = "reconciling"
  /\ toCheck' = Files
  /\ UNCHANGED <<memory, save, disk, lockQueue, history, rewrite, budget,
                 flushed>>

Stale(j) == disk[j].kind = "whole" /\ disk[j].status \in LiveStatuses

(* Files that cannot be parsed and finished records are left alone. *)
SkipFile(j) ==
  /\ j \in toCheck
  /\ rewrite = << >>
  /\ ~Stale(j)
  /\ toCheck' = toCheck \ {j}
  /\ UNCHANGED <<up, memory, save, disk, lockQueue, history, rewrite, budget,
                 flushed>>

(* Mutant: the interrupted record is rewritten without its rows. *)
BeginRewrite_NoRows(j) ==
  /\ j \in toCheck
  /\ rewrite = << >>
  /\ Stale(j)
  /\ toCheck' = toCheck \ {j}
  /\ rewrite' = <<j, [disk[j] EXCEPT !.status = "interrupted", !.rows = 0]>>
  /\ disk' = [disk EXCEPT ![j] = Torn]
  /\ UNCHANGED <<up, memory, save, lockQueue, history, budget, flushed>>

(* A stale record goes through write_text too: truncated, then whole. *)
BeginRewrite(j) ==
  /\ j \in toCheck
  /\ rewrite = << >>
  /\ Stale(j)
  /\ toCheck' = toCheck \ {j}
  /\ rewrite' = <<j, [disk[j] EXCEPT !.status = "interrupted"]>>
  /\ disk' = [disk EXCEPT ![j] = Torn]
  /\ UNCHANGED <<up, memory, save, lockQueue, history, budget, flushed>>

EndRewrite ==
  /\ rewrite # << >>
  /\ disk' = [disk EXCEPT ![rewrite[1]] = rewrite[2]]
  /\ rewrite' = << >>
  /\ UNCHANGED <<up, memory, save, lockQueue, history, toCheck, budget,
                 flushed>>

(* OSError: before the truncation the record stays stale, after it the file
   is torn; either way the next file is looked at. *)
RewriteFails ==
  /\ ioErrors < MaxErrors
  /\ ioErrors' = ioErrors + 1
  /\ \/ /\ rewrite # << >>
        /\ rewrite' = << >>
        /\ UNCHANGED toCheck
     \/ /\ rewrite = << >>
        /\ \E j \in toCheck : Stale(j) /\ toCheck' = toCheck \ {j}
        /\ UNCHANGED rewrite
  /\ UNCHANGED <<up, memory, save, disk, lockQueue, history, crashes, flushed>>

Serve ==
  /\ up = "reconciling"
  /\ toCheck = {}
  /\ rewrite = << >>
  /\ up' = "up"
  /\ UNCHANGED <<memory, save, disk, lockQueue, history, startup, budget,
                 flushed>>

-----------------------------------------------------------------------------
JobStep ==
  \E j \in Jobs :
    \/ StartJob(j)
    \/ StopJob(j)
    \/ AddRow(j)
    \/ \E s \in Terminal : SettleJob(j, s)
    \/ DrainJob(j)

SaveStep ==
  \E j \in Jobs, k \in Saves :
    \/ BeginSave(j, k)
    \/ PassGate(j, k)
    \/ OpenFile(j, k)
    \/ CloseFile(j, k)
    \/ SaveFails(j, k)

ListStep ==
  \E r \in Readers :
    \/ EnterList(r)
    \/ \E j \in Jobs : ReadFile(r, j)
    \/ EndList(r)

StartupStep ==
  \/ Restart
  \/ \E j \in Jobs : SkipFile(j) \/ BeginRewrite(j)
  \/ EndRewrite
  \/ RewriteFails
  \/ Serve

Next ==
  \/ JobStep
  \/ SaveStep
  \/ ListStep
  \/ EnterClear
  \/ StartupStep
  \/ \E r \in Readers : RequestList(r)
  \/ \E S \in SUBSET Jobs \ {{}} : RequestClear(S)
  \/ Crash

Spec == Init /\ [][Next]_vars

(* The event loop and the thread pool run what is ready.  Nothing obliges a
   job to produce rows, a client to ask or the process to crash. *)
FairSpec ==
  /\ Spec
  /\ \A j \in Jobs :
       WF_vars(\/ DrainJob(j)
               \/ \E k \in Saves : \/ BeginSave(j, k) \/ PassGate(j, k)
                                   \/ OpenFile(j, k) \/ CloseFile(j, k))
  /\ WF_vars(ListStep)
  /\ WF_vars(EnterClear)
  /\ WF_vars(StartupStep)

-----------------------------------------------------------------------------
RecordType == [kind : {"absent", "torn", "whole"}, status : Statuses,
               completed : 0..MaxRows, rows : 0..MaxRows]

TaskType == [pc : {"none", "waiting", "gate", "serialised", "writing", "saved",
                   "failed"},
             status : Statuses, completed : 0..MaxRows, rows : 0..MaxRows,
             linked : BOOLEAN]

ReaderType == [pc : {"idle", "waiting", "reading"}, todo : SUBSET Jobs,
               items : SUBSET Jobs]

TypeOK ==
  /\ up \in {"up", "down", "reconciling"}
  /\ life \in [Jobs -> {"unborn", "working", "draining", "lastSave", "done", "lost"}]
  /\ status \in [Jobs -> Statuses]
  /\ rows \in [Jobs -> 0..MaxRows]
  /\ save \in [Jobs -> [Saves -> TaskType]]
  /\ disk \in [Jobs -> RecordType]
  /\ reader \in [Readers -> ReaderType]
  /\ clearing \in SUBSET Jobs
  /\ toCheck \in SUBSET Jobs
  /\ rewrite = << >> \/ rewrite \in Jobs \X RecordType
  /\ crashes \in 0..MaxCrashes
  /\ ioErrors \in 0..MaxErrors
  /\ flushed \in [Jobs -> 0..MaxRows]

(***************************************************************************)
(* A record on disk never claims more rows than it holds, although the     *)
(* count is captured before the rows are; it may hold more than it claims  *)
(* while the job runs.                                                     *)
(***************************************************************************)
NeverOverclaims ==
  \A j \in Jobs : disk[j].completed <= disk[j].rows /\ disk[j].rows <= rows[j]

(***************************************************************************)
(* A finished record on disk (completed, failed or stopped) holds every    *)
(* row of its job and counts them right, whatever saves, lists and clears  *)
(* ran beside it and even after a crash.                                   *)
(***************************************************************************)
FinishedRecordIsComplete ==
  \A j \in Jobs :
    disk[j].status \in Terminal =>
      /\ disk[j].status = status[j]
      /\ disk[j].rows = rows[j]
      /\ disk[j].completed = rows[j]

(***************************************************************************)
(* What a record says of its job is true.                                  *)
(***************************************************************************)
RecordsAreTrue == NeverOverclaims /\ FinishedRecordIsComplete

(***************************************************************************)
(* When run_job is over and its last save did not fail, the file, if       *)
(* nobody deleted it, is the finished record: no earlier save lands later. *)
(***************************************************************************)
LastSaveWins ==
  \A j \in Jobs :
    life[j] = "done" /\ save[j][FinalSave].pc # "failed" /\ disk[j] # Absent
    => disk[j] = Record(status[j], rows[j], rows[j])

(***************************************************************************)
(* Rows that a save has put on disk stay on disk until the user clears     *)
(* them: while no write to the file is under way, it can be parsed and     *)
(* holds at least these rows.  Crashes and failed writes aside: see        *)
(* CrashKeepsSavedRows.                                                    *)
(***************************************************************************)
SavedStaysSaved ==
  crashes + ioErrors = 0 =>
    \A j \in Jobs :
      flushed[j] > 0 /\ (\A k \in Saves : save[j][k].pc # "writing")
      => disk[j].kind = "whole" /\ disk[j].rows >= flushed[j]

(***************************************************************************)
(* No save takes back what another has written.                            *)
(***************************************************************************)
SavesLandInOrder == LastSaveWins /\ SavedStaysSaved

(***************************************************************************)
(* reconcile_stale_records: once the server serves requests, a record on   *)
(* disk says queued, running or stopping only while its job is in memory;  *)
(* no "forever-running, unstoppable job" is left in the history.           *)
(***************************************************************************)
NoGhostRuns ==
  up = "up" /\ ioErrors = 0 => \A j \in Jobs : Stale(j) => InMemory(j)

(***************************************************************************)
(* The deleted record of a finished or crashed run never comes back; only  *)
(* a save of a job still at work can create a file.                        *)
(***************************************************************************)
NoResurrection ==
  [][\A j \in Jobs : disk[j] = Absent /\ disk'[j] # Absent
                     => life[j] \in {"working", "draining", "lastSave"}]_vars

(***************************************************************************)
(* A history list leaves out a file it found only if a save of that job is *)
(* writing the file at that moment; finished runs are always listed.       *)
(* (Without crashes and failed writes, which may leave a torn file.)       *)
(***************************************************************************)
ListsWhatIsThere ==
  [][\A r \in Readers : \A j \in reader[r].todo \ reader'[r].todo :
       \/ j \in reader'[r].items
       \/ life[j] # "done" /\ \E k \in Saves : save[j][k].pc = "writing"
       \/ crashes' + ioErrors > 0]_vars

(***************************************************************************)
(* A job that has settled gets through the drain and its last save, and a  *)
(* history request is answered, however they contend for the locks.        *)
(***************************************************************************)
SettledIsSaved == \A j \in Jobs : life[j] = "draining" ~> life[j] \in {"done", "lost"}
ListIsAnswered == \A r \in Readers : reader[r].pc = "waiting" ~> reader[r].pc = "idle"
NobodyStarves == SettledIsSaved /\ ListIsAnswered

(***************************************************************************)
(* job_runner.py: "Incremental save: a server crash mid-run no longer      *)
(* drops all already-finished results": when the server is down, the file  *)
(* of a job that was still running holds the rows a completed save had put *)
(* there.                                                                  *)
(***************************************************************************)
CrashKeepsSavedRows ==
  up = "down" =>
    \A j \in Jobs : status[j] \in LiveStatuses => disk[j].rows >= flushed[j]

(***************************************************************************)
(* The store implements RunArchive, with load_job_record as the refinement *)
(* mapping: the job in memory first, then its file.                        *)
(***************************************************************************)
Loaded(j) ==
  IF InMemory(j)
  THEN [kind |-> "run", status |-> status[j], rows |-> rows[j]]
  ELSE LET file == IF rewrite # << >> /\ rewrite[1] = j THEN rewrite[2] ELSE disk[j]
       IN IF file.kind = "whole"
          THEN [kind |-> "run", status |-> file.status, rows |-> file.rows]
          ELSE [kind |-> "nothing", status |-> "none", rows |-> 0]

Archive == INSTANCE RunArchive WITH
  alive <- [j \in Jobs |-> InMemory(j)],
  entry <- [j \in Jobs |-> Loaded(j)]

ArchiveSpec == Archive!Spec
=============================================================================

----------------------------- MODULE Shutdown -----------------------------
(***************************************************************************)
(* The end of the server process by SIGTERM, beside one job and its saves. *)
(* BenchmarkServer.shutdown waits for the saves it finds and closes the    *)
(* HTTP client; aiohttp then cancels every task that is left.  A cancelled *)
(* save gives up its lock, but the thread that writes the file goes on,    *)
(* and the process only ends when the threads have.  ResultsStore has the  *)
(* saves of a server that is killed instead.                               *)
(***************************************************************************)
EXTENDS Integers, FiniteSets

CONSTANT MaxRows   (* rows of the job; every row starts one save           *)

ASSUME RowsAssumption == MaxRows \in Nat \ {0}

VARIABLES
  results,   (* number of rows in JobState.results                         *)
  job,       (* where run_job is                                           *)
  save,      (* where the incremental save of each row is                  *)
  writer,    (* the thread of a save, or of the last save of run_job       *)
  file,      (* the record on disk: [rows, whole]; a torn file has text    *)
             (* of two writers, or none yet                                *)
  phase,     (* how far the process has ended                              *)
  awaited,   (* the saves shutdown waits for                               *)
  atSignal,  (* history: number of rows when the signal came               *)
  overlap,   (* history: a thread was started beside another               *)
  cutShort   (* history: run_job was cancelled in its finally block        *)

vars == <<results, job, save, writer, file, phase, awaited, atSignal, overlap, cutShort>>

-----------------------------------------------------------------------------
Final == 0                  (* run_job's own save at the end               *)
Saves == 1..MaxRows
Writers == Saves \cup {Final}

Phases == {"up", "draining", "closing", "closed", "cancelled", "exited"}

(* A thread that has no file open, and the text it is to write. *)
NoThread == [at |-> "none", rows |-> 0]

Init ==
  /\ results = 0
  /\ job = "calling"
  /\ save = [i \in Saves |-> "none"]
  /\ writer = [w \in Writers |-> NoThread]
  /\ file = [rows |-> 0, whole |-> TRUE]
  /\ phase = "up"
  /\ awaited = {}
  /\ atSignal = 0
  /\ overlap = FALSE
  /\ cutShort = FALSE

Pending == {i \in Saves : save[i] \in {"waiting", "holding", "writing"}}
LockFree ==
  /\ \A i \in Saves : save[i] \notin {"holding", "writing"}
  /\ job \notin {"holding", "writing"}

-----------------------------------------------------------------------------
(* A call is answered or fails, the client being closed: a row, and a save. *)
RecordRow ==
  /\ job = "calling"
  /\ results < MaxRows
  /\ results' = results + 1
  /\ save' = [save EXCEPT ![results + 1] = "waiting"]
  /\ UNCHANGED <<job, writer, file, phase, awaited, atSignal, overlap, cutShort>>

(* The last row or a stop: into the finally block, which waits for the saves. *)
JobEnds ==
  /\ job = "calling"
  /\ job' = "draining"
  /\ UNCHANGED <<results, save, writer, file, phase, awaited, atSignal, overlap, cutShort>>

JobDrained ==
  /\ job = "draining"
  /\ Pending = {}
  /\ job' = IF results > 0 THEN "holding" ELSE "over"
  /\ UNCHANGED <<results, save, writer, file, phase, awaited, atSignal, overlap, cutShort>>

(* Mutant: incremental saves do not take the job's lock. *)
SaveBegins_NoLock(i) ==
  /\ save[i] = "waiting"
  /\ save' = [save EXCEPT ![i] = "holding"]
  /\ UNCHANGED <<results, job, writer, file, phase, awaited, atSignal, overlap, cutShort>>

(* The job's lock is handed on in the order of the saves. *)
SaveBegins(i) ==
  /\ save[i] = "waiting"
  /\ LockFree
  /\ \A j \in Saves : save[j] = "waiting" => i <= j
  /\ save' = [save EXCEPT ![i] = "holding"]
  /\ UNCHANGED <<results, job, writer, file, phase, awaited, atSignal, overlap, cutShort>>

(* json.dumps, and the text is handed to a thread. *)
Handed(w) ==
  /\ writer' = [writer EXCEPT ![w] = [at |-> "handed", rows |-> results]]
  /\ overlap' = (overlap \/ \E v \in Writers : writer[v].at \in {"handed", "open"})

SaveWrites(i) ==
  /\ save[i] = "holding"
  /\ save' = [save EXCEPT ![i] = "writing"]
  /\ Handed(i)
  /\ UNCHANGED <<results, job, file, phase, awaited, atSignal, cutShort>>

FinalWrites ==
  /\ job = "holding"
  /\ job' = "writing"
  /\ Handed(Final)
  /\ UNCHANGED <<results, save, file, phase, awaited, atSignal, cutShort>>

(* write_text opens the file, which empties it. *)
ThreadOpens(w) ==
  /\ writer[w].at = "handed"
  /\ writer' = [writer EXCEPT ![w].at = "open"]
  /\ file' = [rows |-> 0, whole |-> FALSE]
  /\ UNCHANGED <<results, job, save, phase, awaited, atSignal, overlap, cutShort>>

(* A record with more rows is longer, and the last one, which has its end
   time, longer than any other with its rows. *)
Longer(v, w) ==
  writer[v].rows > writer[w].rows \/ (writer[v].rows = writer[w].rows /\ v = Final)

(***************************************************************************)
(* It writes from the beginning.  If a thread that had the file open at    *)
(* the same time has put a longer text there, the end of that one stays.   *)
(***************************************************************************)
ThreadCloses(w) ==
  /\ writer[w].at = "open"
  /\ writer' = [writer EXCEPT ![w].at = "closed"]
  /\ file' = [rows  |-> writer[w].rows,
              whole |-> ~ \E v \in Writers :
                            writer[v].at = "closed" /\ Longer(v, w) /\ file.rows = writer[v].rows]
  /\ UNCHANGED <<results, job, save, phase, awaited, atSignal, overlap, cutShort>>

SaveEnds(i) ==
  /\ save[i] = "writing"
  /\ writer[i].at = "closed"
  /\ save' = [save EXCEPT ![i] = "ended"]
  /\ UNCHANGED <<results, job, writer, file, phase, awaited, atSignal, overlap, cutShort>>

FinalEnds ==
  /\ job = "writing"
  /\ writer[Final].at = "closed"
  /\ job' = "over"
  /\ UNCHANGED <<results, save, writer, file, phase, awaited, atSignal, overlap, cutShort>>

-----------------------------------------------------------------------------
(* Mutant: shutdown only waits for saves that have their lock. *)
Signal_Running ==
  /\ phase = "up"
  /\ phase' = "draining"
  /\ awaited' = {i \in Saves : save[i] \in {"holding", "writing"}}
  /\ atSignal' = results
  /\ UNCHANGED <<results, job, save, writer, file, overlap, cutShort>>

(* shutdown: gather over drain_pending_saves, which copies the set. *)
Signal ==
  /\ phase = "up"
  /\ phase' = "draining"
  /\ awaited' = Pending
  /\ atSignal' = results
  /\ UNCHANGED <<results, job, save, writer, file, overlap, cutShort>>

(* Mutant: shutdown waits for the jobs as well, and nobody stops them. *)
Drained_WithJobs ==
  /\ phase = "draining"
  /\ Pending = {}
  /\ job = "over"
  /\ phase' = "closing"
  /\ UNCHANGED <<results, job, save, writer, file, awaited, atSignal, overlap, cutShort>>

Drained ==
  /\ phase = "draining"
  /\ awaited \cap Pending = {}
  /\ phase' = "closing"
  /\ UNCHANGED <<results, job, save, writer, file, awaited, atSignal, overlap, cutShort>>

(* http_client.aclose: calls under way fail, later ones at once. *)
ClientCloses ==
  /\ phase = "closing"
  /\ phase' = "closed"
  /\ UNCHANGED <<results, job, save, writer, file, awaited, atSignal, overlap, cutShort>>

(***************************************************************************)
(* aiohttp's run_app cancels all tasks.  A thread that has been started    *)
(* goes on without its save, one that has not never is.  run_job gets to   *)
(* its finally block, unless it is there already: then its last save does  *)
(* not take place, or only the thread is left of it.                       *)
(***************************************************************************)
CancelTasks ==
  /\ phase = "closed"
  /\ phase' = "cancelled"
  /\ save' = [i \in Saves |-> IF i \in Pending THEN "cancelled" ELSE save[i]]
  /\ \E dropped \in SUBSET {w \in Writers : writer[w].at = "handed"} :
       /\ writer' = [w \in Writers |-> IF w \in dropped THEN NoThread ELSE writer[w]]
       /\ cutShort' = (job \in {"draining", "holding"} \/ Final \in dropped)
  /\ job' = IF job = "calling" THEN "draining" ELSE "over"
  /\ UNCHANGED <<results, file, awaited, atSignal, overlap>>

(* The loop has run the cancelled tasks to their end; the interpreter joins
   the threads of the executor. *)
Exit ==
  /\ phase = "cancelled"
  /\ job = "over"
  /\ \A w \in Writers : writer[w].at \in {"none", "closed"}
  /\ phase' = "exited"
  /\ UNCHANGED <<results, job, save, writer, file, awaited, atSignal, overlap, cutShort>>

-----------------------------------------------------------------------------
JobStep == RecordRow \/ JobEnds \/ JobDrained \/ FinalWrites \/ FinalEnds
SaveStep == \E i \in Saves : SaveBegins(i) \/ SaveWrites(i) \/ SaveEnds(i)
ThreadStep == \E w \in Writers : ThreadOpens(w) \/ ThreadCloses(w)
ExitStep == Drained \/ ClientCloses \/ CancelTasks \/ Exit

Next == JobStep \/ SaveStep \/ ThreadStep \/ Signal \/ ExitStep

(* Threads run, and the event loop runs what is ready: no fairness for the
   signal, nor for the endpoint's answers. *)
Fairness ==
  /\ WF_vars(JobDrained) /\ WF_vars(FinalWrites) /\ WF_vars(FinalEnds)
  /\ WF_vars(SaveStep) /\ WF_vars(ThreadStep) /\ WF_vars(ExitStep)

Spec == Init /\ [][Next]_vars
FairSpec == Spec /\ Fairness

-----------------------------------------------------------------------------
TypeOK ==
  /\ results \in 0..MaxRows
  /\ job \in {"calling", "draining", "holding", "writing", "over"}
  /\ save \in [Saves -> {"none", "waiting", "holding", "writing", "ended", "cancelled"}]
  /\ writer \in [Writers -> [at : {"none", "handed", "open", "closed"}, rows : 0..MaxRows]]
  /\ file \in [rows : 0..MaxRows, whole : BOOLEAN]
  /\ phase \in Phases
  /\ awaited \subseteq Saves
  /\ atSignal \in 0..MaxRows
  /\ overlap \in BOOLEAN /\ cutShort \in BOOLEAN
  /\ overlap \/ cutShort => phase \in {"cancelled", "exited"}

(***************************************************************************)
(* What models.py:666 promises of the drain: until the tasks are           *)
(* cancelled, a row recorded before the signal is on disk, or a later save *)
(* has just the file in hand.                                              *)
(***************************************************************************)
DrainKeepsRows ==
  phase \in {"closing", "closed"} =>
    \/ file.whole /\ file.rows >= atSignal
    \/ \E w \in Writers : writer[w].at = "open" /\ writer[w].rows >= atSignal

(***************************************************************************)
(* Every row is on disk at the exit, also those of calls that failed as    *)
(* the client was closed, but for two races of the cancellation: with the  *)
(* finally block of run_job, and with a thread that still writes.          *)
(***************************************************************************)
ExitKeepsAllRows ==
  phase = "exited" /\ ~cutShort /\ ~overlap => file.whole /\ file.rows = results

(***************************************************************************)
(* Rows reach the disk by the drain, or else by the end of the process.    *)
(***************************************************************************)
RowsReachDisk == DrainKeepsRows /\ ExitKeepsAllRows

(* The process ends, whatever the job was doing. *)
SignalEndsProcess == phase = "draining" ~> phase = "exited"

(***************************************************************************)
(* CHANGELOG.md:465: incremental saves are no longer lost on SIGTERM, as   *)
(* shutdown awaits every pending save before exit.                         *)
(***************************************************************************)
ExitKeepsSignalledRows ==
  phase = "exited" /\ atSignal > 0 => file.whole /\ file.rows >= atSignal
=============================================================================

------------------------------ MODULE Frontend ------------------------------
(***************************************************************************)
(* The page of src/static/app.js as far as it controls benchmark jobs: the *)
(* queue of tests a click on Start fills, the polling loop that watches    *)
(* the live job and launches the next test, Stop, opening and closing a    *)
(* run of the history, and re-attaching after a reload.  JavaScript runs   *)
(* one handler at a time, up to its next await: an action of the page is   *)
(* one such stretch, and every fetch in between is a request that the      *)
(* server answers at one moment and the page handles at a later one.       *)
(***************************************************************************)
EXTENDS Integers, Sequences, FiniteSets, FiniteSetsExt, SequencesExt

CONSTANTS
  MaxTests,    (* tests one click may queue: Speed and SQL                 *)
  MaxStarts,   (* bound: clicks on Start                                   *)
  MaxJobs,     (* bound: tests queued in all                               *)
  MaxTrouble,  (* bound: reloads, runs opened from the history, selections
                  changed, and failures of other requests than theirs      *)
  MaxLoops     (* bound: polling loops alive at once                       *)

ASSUME BoundsAssumption ==
  /\ {MaxTests, MaxStarts, MaxJobs, MaxLoops} \subseteq Nat \ {0}
  /\ MaxTrouble \in Nat

VARIABLES
  jobs,       (* server: the jobs in creation order; the index is the id   *)
  ui,         (* page: state.*, the buttons                                *)
  hint,       (* sessionStorage 'llmSpeedTest.jobId', 0 for none           *)
  loops,      (* page: its polling loops, waiting or with a request out    *)
  launching,  (* POST /start requests without a handled answer             *)
  stops,      (* jobs with a POST /stop on its way                         *)
  opening,    (* the GET of openHistoryJob                                 *)
  restoring,  (* the GETs of restoreActiveJob                              *)
  cancelled,  (* history: the last click on Start before a click on Stop   *)
  overlapped, (* history: two activities of the page have overlapped       *)
  used        (* how much of each bound is used                            *)

vars == <<jobs, ui, hint, loops, launching, stops, opening, restoring,
          cancelled, overlapped, used>>

-----------------------------------------------------------------------------
LiveStatus == {"running", "stopping"}
Finished == {"completed", "failed", "stopped"}
Status == LiveStatus \cup Finished
IsLive(s) == s \in LiveStatus

Payload == [click : 1..MaxStarts, test : 1..MaxTests]
Loops == 1..MaxLoops

(* What a status request tells: the status and whether there are rows. *)
Unanswered == [status |-> "none", rows |-> FALSE]
Reply == [status : Status, rows : BOOLEAN]
Told(j) == [status |-> jobs[j].status, rows |-> jobs[j].rows]

Quiet == [at |-> "idle", job |-> 0, reply |-> Unanswered]
Asking(j) == [at |-> "sent", job |-> j, reply |-> Unanswered]

NoRestore == [via |-> "done", at |-> "idle", job |-> 0, reply |-> Unanswered]
Restore(via, j) == [via |-> via, at |-> "sent", job |-> j, reply |-> Unanswered]

FreshPage ==
  [queue      |-> << >>,   (* jobQueue                                     *)
   liveJobId  |-> 0,
   jobId      |-> 0,
   historyId  |-> 0,       (* activeHistoryJobId                           *)
   pollTimer  |-> 0,       (* the loop whose timeout handle it holds       *)
   shown      |-> <<"none", 0>>,   (* _lastResultsFingerprint              *)
   running    |-> FALSE,   (* isBenchmarkRunning; Stop is enabled with it  *)
   startOn    |-> TRUE,    (* Start is enabled                             *)
   closeOn    |-> FALSE]   (* the close button of the history view         *)

Init ==
  /\ jobs = << >>
  /\ ui = FreshPage
  /\ hint = 0
  /\ loops = [l \in Loops |-> Quiet]
  /\ launching = {}
  /\ stops = {}
  /\ opening = Quiet
  /\ cancelled = 0
  /\ overlapped = FALSE
  /\ \E late \in {0} \cup 1..Min({1, MaxTrouble}) :
       /\ restoring = IF late = 0 THEN NoRestore ELSE Restore("list", 0)
       /\ used = [starts |-> 0, tests |-> 0, faults |-> 0, trouble |-> late]

-----------------------------------------------------------------------------
(***************************************************************************)
(* Helpers of the page.                                                    *)
(***************************************************************************)
(* Mutant: the history view takes precedence over the live run. *)
ActiveJob_HistoryFirst(u) == IF u.jobId # 0 THEN u.jobId ELSE u.liveJobId

ActiveJob(u) == IF u.liveJobId # 0 THEN u.liveJobId ELSE u.jobId

Buttons(u, live) == [u EXCEPT !.running = live, !.startOn = ~live]

(* The fingerprint counts rows and carries the last row's time stamp, but
   not the job: two jobs without rows look alike. *)
Fingerprint(j, r) == <<r.status, IF r.rows THEN j ELSE 0>>

(* stopPolling clears the timeout of the handle, if it has not fired yet. *)
ClearTimer(ls, u) ==
  IF u.pollTimer # 0 /\ ls[u.pollTimer].at = "timer"
  THEN [ls EXCEPT ![u.pollTimer] = Quiet]
  ELSE ls

IdleLoops == {l \in Loops : loops[l].at = "idle"}

(* pollJob() called by a handler whose page state is u. *)
BeginPolling(u) ==
  /\ IdleLoops # {}
  /\ loops' = [loops EXCEPT ![Min(IdleLoops)] = Asking(ActiveJob(u))]

(* Both places that attach poll only if they see no timeout handle. *)
PollUnlessTimer(u) ==
  IF u.pollTimer = 0 THEN BeginPolling(u) ELSE UNCHANGED loops

(* startNextQueuedJob up to its fetch. *)
LaunchNext(u) ==
  IF u.queue = << >>
  THEN /\ ui' = Buttons(u, FALSE)
       /\ UNCHANGED launching
  ELSE /\ ui' = [u EXCEPT !.queue = Tail(@)]
       /\ launching' = launching \cup {[payload |-> Head(u.queue), job |-> 0]}

Trouble ==
  /\ used.trouble < MaxTrouble
  /\ used' = [used EXCEPT !.trouble = @ + 1]

Fault ==
  /\ used.trouble < MaxTrouble
  /\ used' = [used EXCEPT !.trouble = @ + 1, !.faults = @ + 1]

-----------------------------------------------------------------------------
(***************************************************************************)
(* The server: see SpeedJob and SqlJob for what a job really does.         *)
(***************************************************************************)
NewJob(p) == [payload |-> p, status |-> "running", rows |-> FALSE]

(* Mutant: the job is answered for before it is registered. *)
AcceptStart_Early(r) ==
  /\ r.job = 0
  /\ launching' = (launching \ {r}) \cup {[r EXCEPT !.job = Len(jobs) + 1]}
  /\ UNCHANGED <<jobs, ui, hint, loops, stops, opening, restoring, cancelled,
                 used>>

AcceptStart(r) ==
  /\ r.job = 0
  /\ jobs' = Append(jobs, NewJob(r.payload))
  /\ launching' = (launching \ {r}) \cup {[r EXCEPT !.job = Len(jobs) + 1]}
  /\ UNCHANGED <<ui, hint, loops, stops, opening, restoring,
                 cancelled, used>>

RecordRow(j) ==
  /\ IsLive(jobs[j].status)
  /\ ~jobs[j].rows
  /\ jobs' = [jobs EXCEPT ![j].rows = TRUE]
  /\ UNCHANGED <<ui, hint, loops, launching, stops, opening, restoring,
                 cancelled, used>>

FinishJob(j) ==
  /\ \/ jobs[j].status = "running" /\ jobs[j].rows
        /\ jobs' = [jobs EXCEPT ![j].status = "completed"]
     \/ jobs[j].status = "stopping"
        /\ jobs' = [jobs EXCEPT ![j].status = "stopped"]
     \/ IsLive(jobs[j].status)
        /\ jobs' = [jobs EXCEPT ![j].status = "failed"]
  /\ UNCHANGED <<ui, hint, loops, launching, stops, opening, restoring,
                 cancelled, used>>

AcceptStop(j) ==
  /\ j \in stops
  /\ stops' = stops \ {j}
  /\ jobs' = IF jobs[j].status = "running"
             THEN [jobs EXCEPT ![j].status = "stopping"] ELSE jobs
  /\ UNCHANGED <<ui, hint, loops, launching, opening, restoring,
                 cancelled, used>>

AnswerPoll(l) ==
  /\ loops[l].at = "sent"
  /\ loops' = [loops EXCEPT ![l].at = "answered",
                            ![l].reply = Told(loops[l].job)]
  /\ UNCHANGED <<jobs, ui, hint, launching, stops, opening, restoring,
                 cancelled, used>>

AnswerOpening ==
  /\ opening.at = "sent"
  /\ opening' = [opening EXCEPT !.at = "answered", !.reply = Told(opening.job)]
  /\ UNCHANGED <<jobs, ui, hint, loops, launching, stops, restoring,
                 cancelled, used>>

(* GET /active lists the most recently started live job first. *)
AnswerRestore ==
  LET liveJobs == {j \in DOMAIN jobs : IsLive(jobs[j].status)} IN
  /\ restoring.at = "sent"
  /\ restoring' = IF restoring.via = "list"
       THEN [restoring EXCEPT !.at = "answered",
                              !.job = IF liveJobs = {} THEN 0 ELSE Max(liveJobs)]
       ELSE [restoring EXCEPT !.at = "answered", !.reply = Told(restoring.job)]
  /\ UNCHANGED <<jobs, ui, hint, loops, launching, stops, opening, cancelled,
                 used>>

-----------------------------------------------------------------------------
(***************************************************************************)
(* Start.  The button goes off at once, but any change of the selection    *)
(* runs updateActionButtons, which looks only at isBenchmarkRunning.       *)
(***************************************************************************)
ClickStart ==
  /\ ui.startOn
  /\ used.starts < MaxStarts
  /\ \E n \in 1..Min({MaxTests, MaxJobs - used.tests}) :
       /\ used' = [used EXCEPT !.starts = @ + 1, !.tests = @ + n]
       /\ LaunchNext([ui EXCEPT
         !.startOn = FALSE,
         !.queue = [t \in 1..n |-> [click |-> used.starts + 1, test |-> t]]])
  /\ UNCHANGED <<jobs, hint, loops, stops, opening, restoring, cancelled>>

ChangeSelection ==
  /\ ~ui.running /\ ~ui.startOn
  /\ Trouble
  /\ ui' = [ui EXCEPT !.startOn = TRUE]
  /\ UNCHANGED <<jobs, hint, loops, launching, stops, opening, restoring,
                 cancelled>>

(* The rest of startNextQueuedJob when its fetch has succeeded. *)
JobStarted(r) ==
  /\ r \in launching /\ r.job # 0
  /\ launching' = launching \ {r}
  /\ ui' = Buttons([ui EXCEPT !.jobId = r.job, !.liveJobId = r.job,
                              !.historyId = 0], TRUE)
  /\ hint' = r.job
  /\ BeginPolling(ui')
  /\ UNCHANGED <<jobs, stops, opening, restoring, cancelled, used>>

(* The request was refused, or it or its answer was lost. *)
StartFailed(r) ==
  /\ r \in launching
  /\ Fault
  /\ launching' = launching \ {r}
  /\ ui' = Buttons([ui EXCEPT !.queue = << >>], FALSE)
  /\ UNCHANGED <<jobs, hint, loops, stops, opening, restoring, cancelled>>

(* Bound: Stop is clicked once after a click on Start. *)
ClickStop ==
  /\ ui.running
  /\ cancelled < used.starts
  /\ cancelled' = used.starts
  /\ LET target == ActiveJob(ui)
         u == [ui EXCEPT !.queue = << >>]
     IN IF target = 0
        THEN ui' = Buttons(u, FALSE) /\ UNCHANGED stops
        ELSE ui' = u /\ stops' = stops \cup {target}
  /\ UNCHANGED <<jobs, hint, loops, launching, opening, restoring, used>>

StopLost(j) ==
  /\ j \in stops
  /\ Fault
  /\ stops' = stops \ {j}
  /\ UNCHANGED <<jobs, ui, hint, loops, launching, opening, restoring, cancelled>>

-----------------------------------------------------------------------------
(***************************************************************************)
(* pollJob.                                                                *)
(***************************************************************************)
PollTick(l) ==
  /\ loops[l].at = "timer"
  /\ loops' = [loops EXCEPT
       ![l] = IF ActiveJob(ui) = 0 THEN Quiet ELSE Asking(ActiveJob(ui))]
  /\ UNCHANGED <<jobs, ui, hint, launching, stops, opening, restoring,
                 cancelled, used>>

Rearm(l, u) ==
  /\ ui' = Buttons([u EXCEPT !.pollTimer = l], IsLive(loops[l].reply.status))
  /\ loops' = [loops EXCEPT ![l] = [Quiet EXCEPT !.at = "timer"]]

PollUnchanged(l) ==
  /\ loops[l].at = "answered"
  /\ Fingerprint(loops[l].job, loops[l].reply) = ui.shown
  /\ Rearm(l, ui)
  /\ UNCHANGED <<jobs, hint, launching, stops, opening, restoring, cancelled, used>>

(* Mutants: the handler goes on to its end after a terminal answer; the next
   test is not launched. *)
PollNews_Rearms(l) ==
  /\ loops[l].at = "answered"
  /\ Fingerprint(loops[l].job, loops[l].reply) # ui.shown
  /\ loops' = [loops EXCEPT ![l] = [Quiet EXCEPT !.at = "timer"]]
  /\ LET u == [ui EXCEPT !.shown = Fingerprint(loops[l].job, loops[l].reply),
                         !.pollTimer = l]
     IN IF IsLive(loops[l].reply.status)
        THEN ui' = Buttons(u, TRUE) /\ UNCHANGED launching
        ELSE LaunchNext([u EXCEPT !.liveJobId = 0])
  /\ UNCHANGED <<jobs, hint, stops, opening, restoring, cancelled, used>>

PollNews_NoChain(l) ==
  LET r == loops[l].reply
      u == [ui EXCEPT !.shown = Fingerprint(loops[l].job, r)]
  IN
  /\ loops[l].at = "answered"
  /\ u # ui
  /\ IF IsLive(r.status)
     THEN Rearm(l, u) /\ UNCHANGED hint
     ELSE /\ loops' = [loops EXCEPT ![l] = Quiet]
          /\ hint' = 0
          /\ ui' = Buttons([u EXCEPT !.liveJobId = 0, !.pollTimer = 0], FALSE)
  /\ UNCHANGED <<jobs, launching, stops, opening, restoring, cancelled, used>>

PollNews(l) ==
  LET r == loops[l].reply
      u == [ui EXCEPT !.shown = Fingerprint(loops[l].job, r)]
  IN
  /\ loops[l].at = "answered"
  /\ u # ui
  /\ IF IsLive(r.status)
     THEN Rearm(l, u) /\ UNCHANGED <<hint, launching>>
     ELSE /\ loops' = [loops EXCEPT ![l] = Quiet]
          /\ hint' = 0
          /\ LET done == [u EXCEPT
                  !.liveJobId = 0,
                  !.pollTimer = 0,
                  !.queue = IF r.status = "stopped" THEN << >> ELSE @]
             IN LaunchNext(done)
  /\ UNCHANGED <<jobs, stops, opening, restoring, cancelled, used>>

PollFailed(l) ==
  /\ loops[l].at = "sent"
  /\ Fault
  /\ ui' = Buttons([ui EXCEPT !.liveJobId = 0, !.pollTimer = 0], FALSE)
  /\ loops' = ClearTimer([loops EXCEPT ![l] = Quiet], ui)
  /\ hint' = 0
  /\ UNCHANGED <<jobs, launching, stops, opening, restoring, cancelled>>

-----------------------------------------------------------------------------
(***************************************************************************)
(* The history view.  A saved record shows a live status only if rows of   *)
(* it were saved while the job ran.                                        *)
(***************************************************************************)
OpenHistoryJob(j) ==
  /\ Trouble
  /\ ui.historyId # j
  /\ opening.at = "idle"
  /\ ui' = [ui EXCEPT !.historyId = j, !.jobId = j, !.closeOn = TRUE]
  /\ \/ jobs[j].rows /\ opening' = Asking(j)
     \/ jobs[j].status \in Finished /\ UNCHANGED opening
  /\ UNCHANGED <<jobs, hint, loops, launching, stops, restoring, cancelled>>

HistoryAnswered ==
  /\ opening.at = "answered"
  /\ opening' = Quiet
  /\ IF IsLive(opening.reply.status)
     THEN /\ ui' = Buttons([ui EXCEPT !.liveJobId = opening.job], TRUE)
          /\ hint' = opening.job
          /\ PollUnlessTimer(ui')
     ELSE UNCHANGED <<ui, hint, loops>>
  /\ UNCHANGED <<jobs, launching, stops, restoring, cancelled, used>>

HistoryFailed ==
  /\ opening.at = "sent"
  /\ opening' = Quiet
  /\ UNCHANGED <<jobs, ui, hint, loops, launching, stops, restoring,
                 cancelled, used>>

CloseHistoryView ==
  /\ ui.closeOn
  /\ ui' = Buttons([ui EXCEPT !.historyId = 0, !.closeOn = FALSE,
                              !.jobId = ui.liveJobId], ui.liveJobId # 0)
  /\ UNCHANGED <<jobs, hint, loops, launching, stops, opening, restoring,
                 cancelled, used>>

-----------------------------------------------------------------------------
(***************************************************************************)
(* A reload discards the page and its requests; a launch on its way may    *)
(* still reach the server.  The new page runs restoreActiveJob.            *)
(***************************************************************************)
Reload ==
  /\ Trouble
  /\ ui' = FreshPage
  /\ loops' = [l \in Loops |-> Quiet]
  /\ opening' = Quiet
  /\ restoring' =
       IF hint = 0 THEN Restore("list", 0) ELSE Restore("hint", hint)
  /\ \E S \in SUBSET {r.payload : r \in {q \in launching : q.job = 0}} :
       jobs' = jobs \o [i \in 1..Cardinality(S) |-> NewJob(SetToSeq(S)[i])]
  /\ launching' = {}
  /\ UNCHANGED <<hint, stops, cancelled>>

Attach(j) ==
  /\ ui' = Buttons([ui EXCEPT !.jobId = j, !.liveJobId = j], TRUE)
  /\ hint' = j
  /\ PollUnlessTimer(ui')

(* Mutant: a stale hint ends the restore, the server's list is not asked. *)
RestoreAnswered_HintOnly ==
  /\ restoring.at = "answered"
  /\ restoring' = NoRestore
  /\ IF restoring.via # "list" /\ IsLive(restoring.reply.status)
     THEN Attach(restoring.job)
     ELSE UNCHANGED <<ui, hint, loops>>
  /\ UNCHANGED <<jobs, launching, stops, opening, cancelled, used>>

RestoreAnswered ==
  /\ restoring.at = "answered"
  /\ \/ /\ restoring.via # "list"
        /\ IsLive(restoring.reply.status)
        /\ Attach(restoring.job)
        /\ restoring' = NoRestore
     \/ /\ restoring.via = "hint"
        /\ ~IsLive(restoring.reply.status)
        /\ hint' = 0
        /\ restoring' = Restore("list", 0)
        /\ UNCHANGED <<ui, loops>>
     \/ /\ restoring.via = "list" /\ restoring.job # 0
        /\ restoring' = Restore("detail", restoring.job)
        /\ UNCHANGED <<ui, hint, loops>>
     \/ /\ \/ restoring.via = "list" /\ restoring.job = 0
           \/ restoring.via = "detail" /\ ~IsLive(restoring.reply.status)
        /\ restoring' = NoRestore
        /\ UNCHANGED <<ui, hint, loops>>
  /\ UNCHANGED <<jobs, launching, stops, opening, cancelled, used>>

RestoreFailed ==
  /\ restoring.at = "sent"
  /\ used' = [used EXCEPT !.faults = @ + 1]
  /\ restoring' = NoRestore
  /\ UNCHANGED <<jobs, ui, hint, loops, launching, stops, opening, cancelled>>

-----------------------------------------------------------------------------
RunJobs == \E j \in DOMAIN jobs : RecordRow(j) \/ FinishJob(j)

ServerStep ==
  \/ \E r \in launching : AcceptStart(r)
  \/ RunJobs
  \/ \E j \in stops : AcceptStop(j)
  \/ \E l \in Loops : AnswerPoll(l)
  \/ AnswerOpening
  \/ AnswerRestore

(* What the page does by itself, without the user and without a fault. *)
PageStep ==
  \/ \E r \in launching : JobStarted(r)
  \/ \E l \in Loops : PollTick(l) \/ PollUnchanged(l) \/ PollNews(l)
  \/ HistoryAnswered
  \/ RestoreAnswered

(* Bound: once activities have overlapped, the user only clicks Stop. *)
UserStep ==
  \/ ClickStop
  \/ /\ ~overlapped
     /\ \/ ClickStart \/ ChangeSelection
        \/ \E j \in DOMAIN jobs : OpenHistoryJob(j)
        \/ CloseHistoryView
        \/ Reload

FaultStep ==
  \/ \E r \in launching : StartFailed(r)
  \/ \E j \in stops : StopLost(j)
  \/ \E l \in Loops : PollFailed(l)
  \/ HistoryFailed
  \/ RestoreFailed

(***************************************************************************)
(* The page counts on doing one thing at a time: a launch, a polling loop  *)
(* or a restore.  It does not enforce it: Start comes back on while a      *)
(* launch or a restore is out, and an attach starts a loop beside one      *)
(* whose first request is unanswered.  An attach may also rely on an       *)
(* answer that is no longer true.  overlapped remembers that it happened.  *)
(***************************************************************************)
Activities ==
  Cardinality(launching) + Cardinality(Loops \ IdleLoops)
    + (IF restoring.via = "done" THEN 0 ELSE 1)

Outdated(q) == IsLive(q.reply.status) /\ ~IsLive(jobs[q.job].status)

Watch ==
  overlapped' = \/ overlapped
                \/ Activities' > 1
                \/ Outdated(opening)' \/ Outdated(restoring)'

Next == (ServerStep \/ PageStep \/ UserStep \/ FaultStep) /\ Watch

(***************************************************************************)
(* The jobs settle (JobSettles of SpeedJob and SqlJob), requests are       *)
(* answered and timeouts fire.  Nothing is asked of the user, of attaches  *)
(* or of a stop request.                                                   *)
(***************************************************************************)
Poll(l) == PollTick(l) \/ AnswerPoll(l) \/ PollUnchanged(l) \/ PollNews(l)
Launch == \E r \in launching : AcceptStart(r) \/ JobStarted(r)

Fairness ==
  /\ WF_vars(RunJobs /\ Watch)
  /\ WF_vars(Launch /\ Watch)
  /\ \A l \in Loops : WF_vars(Poll(l) /\ Watch)

Spec == Init /\ [][Next]_vars /\ Fairness

-----------------------------------------------------------------------------
(***************************************************************************)
(* Every variable stays in its range: ids are ids of jobs, the queue holds *)
(* payloads, an answer is a status the API names.                          *)
(***************************************************************************)
TypeOK ==
  /\ jobs \in Seq([payload : Payload, status : Status, rows : BOOLEAN])
  /\ {ui.liveJobId, ui.jobId, ui.historyId, hint} \subseteq {0} \cup DOMAIN jobs
  /\ ui.queue \in Seq(Payload)
  /\ ui.pollTimer \in {0} \cup Loops
  /\ \A l \in Loops : loops[l].reply \in Reply \cup {Unanswered}
  /\ stops \subseteq DOMAIN jobs

LiveJobs == {j \in DOMAIN jobs : IsLive(jobs[j].status)}

(* Nothing failed and nothing the page does not expect overlapped. *)
Calm == ~overlapped /\ used.faults = 0

(***************************************************************************)
(* "Pending benchmark payloads to run one after another" (app.js:19): the  *)
(* page never has the server run two jobs at once, whatever the user opens *)
(* or reloads, as long as things are calm.  A second job would share the   *)
(* endpoint with the first and spoil what both measure.                    *)
(***************************************************************************)
OneRunAtATime == Calm => Cardinality(LiveJobs) <= 1

(***************************************************************************)
(* Opening a run of the history "never hijacks an in-progress run's Stop   *)
(* button" (app.js:16-18): between launches, an enabled Stop goes to the   *)
(* job that really runs, never to the run in the history view.             *)
(***************************************************************************)
StopAimsAtLiveRun ==
  Calm /\ launching = {} /\ ui.running => LiveJobs \subseteq {ActiveJob(ui)}

(***************************************************************************)
(* A job that runs can be stopped from the page: Stop is enabled again     *)
(* after every launch, attach, closed history view and finished restore    *)
(* (restoreActiveJob is "what makes Stop work after a plain reload").      *)
(***************************************************************************)
StopIsAvailable ==
  Calm /\ launching = {} /\ restoring.via = "done" /\ LiveJobs # {}
    => ui.running

(***************************************************************************)
(* Stop is there when a job runs, and it is that job it stops.             *)
(***************************************************************************)
StopWorks == StopAimsAtLiveRun /\ StopIsAvailable

(***************************************************************************)
(* "Stop clears this so the queue does not continue" (app.js:21): from the *)
(* click on Stop on, no payload of that or an earlier click is sent any    *)
(* more, not even by a second polling loop or a late answer.               *)
(***************************************************************************)
StopDropsQueue ==
  [][\A r \in launching' \ launching :
       r.job = 0 => r.payload.click > cancelled]_vars

(***************************************************************************)
(* The chain pollJob - startNextQueuedJob - pollJob never overlaps with    *)
(* itself: a second launch or loop only appears when the user clicks Start *)
(* on a button that came back too early, or with an attach.                *)
(***************************************************************************)
ChainIsSingle ==
  [][~overlapped /\ Activities' > 1
       => ClickStart \/ HistoryAnswered \/ RestoreAnswered]_vars

(***************************************************************************)
(* The queue is launched by one chain, and not beyond a Stop.              *)
(***************************************************************************)
QueueIsOrderly == StopDropsQueue /\ ChainIsSingle

(***************************************************************************)
(* The fingerprint of the last job, which is kept when another is started, *)
(* hides that the other has finished: both ended alike and without rows.   *)
(***************************************************************************)
LooksOld(l) ==
  /\ loops[l].at = "answered"
  /\ loops[l].reply.status \in Finished
  /\ Fingerprint(loops[l].job, loops[l].reply) = ui.shown

(***************************************************************************)
(* "pollJob starts the next one on completion" (app.js:20): a run the page *)
(* controls comes to its end, with every queued test launched and Start    *)
(* enabled again, unless a request failed, something overlapped, or a      *)
(* final answer looked like the one before.                                *)
(***************************************************************************)
RunsToTheEnd ==
  ui.running \/ ui.queue # << >>
    ~> \/ ~ui.running /\ ui.queue = << >>
       \/ ~Calm
       \/ \E l \in Loops : LooksOld(l)

(***************************************************************************)
(* "Cancelling means cancelling the whole run" (app.js:965): no job of a   *)
(* run that was cancelled is running with no stop on its way to it.        *)
(***************************************************************************)
StopCancelsWholeRun ==
  \A j \in LiveJobs \ stops :
    jobs[j].payload.click <= cancelled => jobs[j].status = "stopping"
=============================================================================

# A formal model of LLM TestBench

LLM TestBench runs speed and SQL benchmarks against local OpenAI-compatible and
Ollama endpoints. It is one Python process: an aiohttp server whose handlers,
benchmark jobs and save tasks are coroutines of one event loop, a thread pool
for file writes, a DuckDB connection with its watchdog threads, and a browser
page that polls it. The modules here model the parts of it that interleave,
crash, retry, time out and count.

TLC checks them on small instances, the liveness properties included. TLAPS proves
the safety properties of all of them for every value of the constants: any number
of targets, models, questions, jobs, readers, rows, calls, crashes and errors.

    tlc -config Speed.cfg MCSpeedJob.tla          # the other runs likewise
    tlapm SpeedJob_proofs.tla                     # the other *_proofs.tla likewise

## 1. The system

| Part | Code | State | Operations | Interacts with | Module |
|---|---|---|---|---|---|
| Speed job | `job_runner.py` `run_job`, `run_sequential`, `run_parallel` | `JobState`: status, stop flag, results, errors, pending saves; worker tasks, the semaphore | detect, discover, call, append a row, settle, drain, last save | stop handler (shared flag), endpoint (HTTP), save tasks | `SpeedJob` |
| Speed metrics | `job_runner.py` `benchmark_openai`, `benchmark_ollama`; `speed_row.py` | locals of a call: start, first delta, usage | read the stream, time it, build the row | speed job | `SpeedMetrics` |
| Phase and aggregates | `models.py` `JobState`, `aggregates.py` | phase, aggregates cache | `set_phase`, `to_dict`, `_aggregated_speed` | status handler, saves | `SpeedMetrics` |
| SQL job | `job_runner.py` `run_sql_job`, `sql_result_row` | `JobState`, and the breaker's counter, `warmed_models` | three nested loops, skip, breaker, settle | the same as the speed job, and the question | `SqlJob` |
| SQL conversation | `sql_benchmark.py` `run_question_tool_calling` | call, retry, silent counters, last SQL, executed SQL, deadline | cold and warm calls, tool calls, scoring, limit, timeout, abort | endpoint, DuckDB, stop flag | `ToolLoop` |
| SQL question | `sql_benchmark.py` `run_question`, `run_question_tool_calling` | the same, and `fallback_state` | set-up by the expected SQL, call, statement, scoring | LLM call, DuckDB, comparison | `SqlQuestion` |
| LLM call helpers | `job_runner.py` `call_llm_single`, `call_llm_tool_calling`, `post_openai_chat_with_reasoning_fallback` | the fallback flag of the question | reasoning fallback, tools fallback, retry after unload | endpoint | `LlmCall` |
| DuckDB watchdog | `sql_benchmark.py` `_execute_sql` | a timer thread and its flag, the connection | start, fire, interrupt, cancel | all statements of the job | `DuckSession` |
| Comparison of results | `sql_benchmark.py` | none | row count, columns, first row | questions | `Scoring` |
| Results store | `persistence.py`, `benchmark_server.py` | one JSON file per job, `_results_lock`, `_save_lock` of each job, `_pending_saves` | save, list, load, clear, reconcile | jobs, history requests, the process that dies | `ResultsStore` |
| Shutdown | `benchmark_server.py`, `server.py` | tasks and threads that are left | drain saves, close the HTTP client, cancel, exit | a job, its saves, their threads | `Shutdown` |
| Job registry and handlers | `benchmark_server.py` | `jobs` by id | start, status, stop, active, load | jobs, store, browser | `Frontend`, and the job modules |
| Browser | `static/app.js` | run queue, polling loops, history view, fingerprint, `sessionStorage` | queue, launch, poll, stop, open and close history, re-attach | all handlers | `Frontend` |
| Legacy migration, exports, request parsing, SSRF guard, local benchmarks, launchers, styles | – | – | – | – | section 5 |

### What makes it correct, and what is hard about it

* **Jobs.** Every measured run or question gets one row, in the order of the
  plan when calls are sequential; `completed` is said of whole jobs only; a stop,
  whenever it comes, ends calls and recording and lets the job settle. Hard:
  workers, their semaphore, the loop over `as_completed` and the stop handler
  interleave freely; exceptions leave some of them behind.
* **Metrics.** A row says what the clock and the stream said; aggregates speak for
  the rows there are, although a cache stands between. Hard: fields an endpoint
  leaves out, rows that arrive out of order, aggregates and rows of one record
  captured at different moments.
* **Breaker.** A dead model is given up after two failed calls in a row or one
  availability error, and only then. Hard: long sequences of answers, skips,
  broken questions, thinking variants.
* **Conversation.** What is scored is a query that ran and matched in this very
  question; loops end; budgets hold. Hard: the model is arbitrary, and four
  counters, a set and a deadline decide together.
* **One question, down to endpoint and database.** Three retries nest; a flag is
  shared by the calls of a question; one connection serves all statements of all
  models, and a timer thread may be a step behind its statement. Hard: a late
  interrupt, a statement that writes, refusals that combine.
* **Store.** What is on disk is true, whole when finished, not lost, and not
  resurrected. Hard: saves are fire-and-forget and write in threads, records are
  captured in two looks, writes happen outside the directory lock and in place,
  the process may die between any two steps.
* **Shutdown.** What was recorded before the signal is on disk at the exit, and
  the process ends. Hard: the job goes on while saves are drained; cancelling a task
  does not stop its thread.
* **Browser.** One run at a time, Stop hits the job that runs, a cancelled queue
  stays cancelled, a queue nobody cancels runs to its end. Hard: every handler is
  cut at its awaits, and answers come late, when the page is about something else.

`PROJECT.json` lists the hazards one by one with the line each bites at and the
properties that watch it.

## 2. The modules

    JobLifecycle   <-- implemented by --  SpeedJob      SqlJob
    RunArchive     <-- implemented by --  ResultsStore
    SqlQuestion  = LlmCall + DuckSession + Scoring, for the questions of a job
    ToolLoop       how one tool-calling conversation is steered
    SpeedMetrics   what one job measures and shows
    Shutdown       one job, its saves and their threads at SIGTERM
    Frontend       the page composed with the server's registry of jobs
    MC*            instances for TLC
    *_proofs       theorems: SpeedJob, SpeedMetrics, SqlJob, ToolLoop,
                   SqlQuestion, ResultsStore, Shutdown, Frontend

A part is modelled at the level where it can go wrong, so some code appears in
two modules at different grains: a speed job is its control in `SpeedJob` and its
numbers in `SpeedMetrics`; a save is files and locks in `ResultsStore`, tasks and
threads in `Shutdown`, what it captures in `SpeedMetrics`; a job is a status and
a flag for `Frontend`.

**JobLifecycle** is what a client that watches one job may rely on: a status, a
stop flag, rows that are only appended, one for each unit of work; `completed`
only when every unit has its row.

**SpeedJob** is `run_job` with `run_sequential` and `run_parallel`. One action is
the code between two awaits that really yield (an HTTP call, the semaphore, the
wait for saves). `set_phase` never yields, because its lock is never held across
an await, so it is not a step.

| Model | Code |
|---|---|
| `todo`, `inflight`, `arrived` | workers waiting at the semaphore, calls under way, results `as_completed` has not handed out |
| `Start`, `ProviderDetected`, `TargetUnusable` | head of `run_job`, `detect_provider`, `list_models` and their errors |
| `SeqContinue`, `SeqReturn` | `run_sequential` up to its next call; an answer, the row, the save task and what follows |
| `EnterParallel`, `WorkerEnters`, `WorkerReturns` | task creation, the semaphore with its stop check, the end of a call |
| `TakeRow`, `TakeDropped`, `TakeRaised` | one turn of the loop over `as_completed`, with cancellation after a stop and orphans after an exception |
| `LeaveTarget`, `Settle`, `Verdict`, `Raise` | the loop over the targets, the report (whose `min()` may raise), the status at the end, the `except` clause |
| `SaveEnds`, `Drained`, `FinalSave` | tracked save tasks and the `finally` clause |
| `RequestStop` | `benchmark_stop` |

A call ends with a latency, without one, as a failure row, or with an exception
that nobody catches. The numbers are the subject of `SpeedMetrics`.

**SpeedMetrics** takes the measured calls of a request as its parameter `Plan`, which
`PlanOf` makes of the models of each target, and follows each call from `perf_counter()` to its row:
`Delta`, `Usage` and `StreamEnds` are the chunks of an OpenAI-compatible stream,
`OllamaAnswers` the one answer of an Ollama endpoint with the durations it may
leave out, `CallFails` the failure row; `Record` appends a row in order of arrival.
`Poll` is `JobState.to_dict`; `Capture`, `SaveBegins` and `SaveWrites` are the save,
which looks at the aggregates before the rows. `AggregatedSpeed` is the cache with
its key (number of rows, stamp of the last one), `Aggregates` the function behind
it. Time is a clock in microseconds that ticks in whole seconds, rates and means are in
hundredths with the rounding of the code; `latency_ms` always equals
`total_time_ms` and is left out. Warm-ups, stops and escaped exceptions are
`SpeedJob`'s.

**SqlJob** is `run_sql_job` in the style of `SpeedJob`. Rows of skipped models and
broken questions are made without an await, so `Continue` makes the whole chain of
them in one step (`NextAsked`, `ChainRows`). `Answered` is the row and the breaker.
An answer is `scored`, `callFailed`, `unavailable`, `aborted` (tool-calling mode
after a stop) or an exception.

**ToolLoop** is `run_question_tool_calling` over a few questions that one model
is asked in a row. `LoopHead` is the head of the loop: limit, stop flag, budget,
in this order. `ReplyTools`, `ReplySql`, `ReplyProse`, `CallFails`,
`BudgetExpires` and `ReplyRaises` are what may come back; `DuplicateQuery`,
`RunQuery`, `ResultsOk` and `UnknownTool` handle one tool call each, without an
await between them, which is why `RequestStop` is disabled then. SQL texts are
model values with the verdicts running them may give. Three ghost fields of
`loop` remember the past for the properties: `warmTime`, `coldStart`, `matched`.

**LlmCall** is one call with its retries: `RetryWithoutReasoning` inside
`post_openai_chat_with_reasoning_fallback`, `WaitForReload`/`Reloaded` and
`RetryWithoutTools` around it. An answer is its class and which of the words the
code looks for its text contains, so refusals combine freely. Requests carry the
reasoning field only where an effort is asked for, which the job does for
OpenAI-compatible endpoints.

**DuckSession** is the connection and `_execute_sql`: the statement, the timer
thread as two steps (it sets its flag, then it calls `interrupt()`), and timers
that are cancelled too late and live on as `strays`. DuckDB itself is external: it
is assumed to forget an interrupt when a statement begins, and a statement that
writes may change what every later one yields (`session`).

**Scoring** is the comparison of an execution with the reference: numbers in
thousandths, with the last decimal place of Python's `str` as the tolerance.

**SqlQuestion** puts the three together for the questions of a job, in grammar
mode (`GrammarReply`, `GrammarEmpty`, `GrammarScored`) and in tools mode, with
the model's replies free. `rounds`, `tries`, `last`, `executed` are the locals of
the conversation; `row.clean` is a ghost: the session was intact and nothing had
overrun when the row was made.

**ResultsStore** is the results directory. `save[j][k]` is the k-th save task of
job j and walks `waiting` (for `_save_lock`), `gate` (for `_results_lock`, after
status and count are captured), `serialised` (rows captured), `writing` (file
truncated), `saved` or `failed`. `lockQueue` is `_results_lock` with its FIFO
waiters. Lists read file after file under the lock. `Crash`, `Restart`,
`SkipFile`, `BeginRewrite`, `EndRewrite`, `RewriteFails`, `Serve` are death, and
`reconcile_stale_records` before the server serves. Rows are append-only, so a
list of rows is its length. A job is seen from the store: it starts, is stopped,
appends rows, settles, drains, makes its last save. `flushed` is a ghost: the
most rows a finished save has put on disk since the last clear.

**RunArchive** is what `load_job_record` shows for a run, without files and
locks: the job itself while its server lives, then an earlier sight of it or
nothing; a finished entry survives unchanged or not at all.

**Shutdown** is the other way a server ends. `Signal` may come at any moment of a
job; `Drained` is `shutdown` after the saves it found, `ClientCloses` the end of the
HTTP client (calls cut off become rows of failures), `CancelTasks` what aiohttp does
with the tasks that are left, `Exit` the process once job and threads are over.
Threads (`ThreadOpens`, `ThreadCloses`) cannot be cancelled. Ghosts: `atSignal`,
`overlap`, `cutShort`.

**Frontend** is `app.js` as far as it controls jobs. JavaScript runs one handler up
to its next await, so each such stretch is an action, and each fetch is answered by
the server at one moment and handled by the page at a later one.

| Model | Code |
|---|---|
| `ui` | `jobQueue`, `liveJobId`, `jobId`, `activeHistoryJobId`, `pollTimer`, `_lastResultsFingerprint`, the buttons |
| `loops` | chains of `setTimeout(pollJob)`; a handle that has fired is not cleared, so there may be two |
| `launching`, `AcceptStart`, `JobStarted` | `startNextQueuedJob` around its POST |
| `PollTick`, `AnswerPoll`, `PollUnchanged`, `PollNews` | `pollJob` around its GET |
| `opening`, `restoring` | `openHistoryJob`, `restoreActiveJob` with their GETs |
| `hint` | the job id in `sessionStorage`, which survives a reload |
| `jobs` | the server's registry: accept, run, settle, stop |

Mutants (operators commented `Mutant`, named `<Definition>_<What>`) are plausible
bugs, one for each property of each passing run; with the mutant in place of the
definition TLC finds the property violated.

## 3. The runs

| Run | Instance | Question | Distinct states |
|---|---|---|---|
| `Speed` | 2 targets with 2 and 1 models, 1 warm-up, 1 measured run, semaphore of 2, both modes | rows, stop, settling, `JobLifecycle` | 13 thousand |
| `SpeedMetrics` | 3 calls, 2 models, an OpenAI-compatible and an Ollama target, two at a time, one tick of the clock | rows against clock and stream, each row its own call's, aggregates, cache, saves | 928 thousand |
| `SqlBreaker` | 2 models x 2 variants x 4 questions, one broken, tool-calling mode | plan, breaker, stop, settling, `JobLifecycle` | 802 thousand |
| `Tool` | 2 questions, 2 queries, 4 calls, 1 retry, 1 silent reply, budget and replies of up to 2 ticks, up to 2 tool calls in a reply | scoring, reminders, budget, termination | 247 thousand |
| `SqlQuestion` | 2 questions, each 12.698 rounded to 12.70 or 7.4 rounded to 7; 2 calls, 2 statements, one overrun; both modes | retries, fallback flag, watchdog, scoring, termination | 1.1 million |
| `Store` | 1 job of up to 3 rows, 2 readers, clears, 1 crash, 1 failing file operation | truth and completeness on disk, locks, order of saves, lists, nobody starves, `RunArchive` | 315 thousand |
| `Shutdown` | 1 job of up to 3 rows | rows reach the disk, the process ends | 6 thousand |
| `Frontend` | 2 tests from one click or two, one Stop for each, 1 trouble, 2 loops | one run at a time, Stop, queue, end of the queue | 617 thousand |
| `ToolWarmBudget`, `StoreTorn`, `ShutdownTorn`, `FrontendStop` | the smallest instance | what a document or comment says and the code does not do | – |

Why these bounds are enough. In `Speed` three models at two targets with two
places at the semaphore give every relation between two calls: same model, other
model, other target, warm-up and measured, one waiting, one under way, one
arrived. In `SpeedMetrics` two calls overlap at the first target, so rows arrive in
either order, a poll fills the cache before, between and after them, and a model
is measured at both kinds of endpoint; `SpeedRepeats.cfg` (run by hand) has
repeated runs of one model, a count of zero and a clock of two seconds instead
(`MCSpeedMetrics` writes both plans out and assumes that `PlanOf` makes them). In
`SqlBreaker` the questions are good, broken, good, good, twice for the
two variants, so three are asked in a row across the variants: the breaker, which
opens after two failures, can open, be reset by an answer between, and be reset by
the broken question; the grammar mode differs only in that a stop does not abort a
question, and `SqlLive.cfg` checks both modes. In `Tool` the limit of four calls
exceeds what retries, silent replies and reminders need together. In `SqlQuestion`
the second question meets whatever the first left behind: a stray timer, a changed
session, a fallback flag; one call takes all three retries. In `Store` three rows
give four save tasks: one writing, one waiting, one not yet born, and the last,
and a record may lack one row or several; several jobs at once are covered by the
proofs and by `StoreJobs.cfg`. In `Shutdown` three rows allow a save that is
awaited, one that is cancelled and one of a call cut off by the close. In `Frontend`
two tests are the two that one click may queue at most; the one trouble is a reload, a
run opened from the history, a selection changed, or a request that fails, at any
moment.

Bounds of the models are `MaxRows`, `MaxCrashes`, `MaxErrors`, `MaxTicks`,
`MaxReply`, `MaxSeconds`, `MaxTries`, `MaxOverruns`, `MaxStarts`, `MaxJobs`,
`MaxTrouble` and `MaxLoops`; the other constants are parameters of a request, of the
page (`MaxTests`) or of the code (`MaxRounds`). `SpeedMetrics`, `SqlQuestion`,
`Shutdown`, `ShutdownTorn`, `Frontend` and `FrontendStop` switch the deadlock check off: the measured job is complete and saved,
all questions have their rows, the process has exited, or the user has used up
clicks and jobs. In the other runs something can always happen: a job that is over
may still be asked to stop, a store to list.

Two things bound what the browser's properties claim. `Calm` means that no request
failed and no two activities of the page (a polling loop, a launch, an attach)
overlapped unexpectedly, and no answer of an attach came after its job ended: with an
early second Start or an attach during a launch the code does run two loops or two
jobs, which the page does not guard against. `RunsToTheEnd` also leaves out a final
answer that looks like the one before (`LooksOld`): the fingerprint is not reset
between jobs and names no job, so a second job that fails like the first without
rows is taken for no news, and the page waits on. Both are listed as hazards.

### What the violation runs show

* `ToolWarmBudget`: the budget of a question is a deadline only the cold call
  sets. From the model's second question on, each call gets the whole budget.
* `StoreTorn`: incremental saves are there so that a crash does not drop finished
  results; the file is rewritten in place, and a crash in between drops them all.
* `ShutdownTorn`: the changelog says shutdown awaits every pending save. It awaits
  those there are when it begins; a later one is cancelled while its thread writes,
  the job's last save writes the same file beside it, and the file may be torn.
* `FrontendStop`: "cancelling means cancelling the whole run", but while the next
  test is being launched Stop goes to the one that has finished.

More disagreements can be seen with configurations that are not part of the regular
runs; each violates the one property it names:

| Configuration | Module | Shows |
|---|---|---|
| `SpeedWarmup.cfg` | `MCSpeedJob` | the program's `README.md:146` says warm-ups keep cold loading out of measured runs; in parallel mode only the semaphore orders them, and a measured call runs beside the unanswered warm-up of its model |
| `SpeedDropped.cfg` | `MCSpeedJob` | `CHANGELOG.md:471` says parallel mode no longer drops results on cancellation; after a stop the first measured row ends the loop, and answers that had arrived are dropped |
| `SpeedTtft.cfg` | `MCSpeedMetrics` | `tests/test_speed_unit.py:318` speaks of the first non-empty delta; the clock of the first token is read at the first delta, an empty one included |
| `ToolLimit.cfg` | `MCToolLoop` | at the limit only the last query sent is looked up (`sql_benchmark.py:848`), so an earlier good one is not scored when the last one failed |
| `ToolNoSql.cfg` | `MCToolLoop` | `results_ok` before any query yields a result without SQL (`sql_benchmark.py:381`) |
| `SqlStray.cfg` | `MCSqlQuestion` | `sql_benchmark.py:1301` calls a timer that fires as its query ends harmless; it may cancel the next statement |
| `SqlRounding.cfg` | `MCSqlQuestion` | `sql_benchmark.py:1524` promises one rounding step at the precision of the reference; 12.70 is written 12.7, so 12.71 passes |

`SqlLive.cfg`, `StoreJobs.cfg` (job ids symmetric, no liveness) and
`SpeedRepeats.cfg` pass.

Two details the aggregates leave open, written into `SpeedMetrics` as the code has
them: when no run at all has succeeded, the count of runs is 0 beside the count of
failures (`aggregates.py:41`); and a model of the same name at two targets is averaged
as one, under the label of the first. A record of a running job may hold newer rows
than its aggregates speak for (`persistence.py:266` captures them first).

### Fairness

`FairSpec` of the job modules is weak fairness of the job's own steps: the event
loop runs what is ready, and every call is answered or ended by `httpx.Timeout`.
A stop is never obliged to come. In `SqlQuestion` it is weak fairness of `Next`: an
endpoint answers or the call is cut, a statement ends or its watchdog interrupts it.
In `ResultsStore` the saves and the drain of
each job, the lists, the clear and the startup are weakly fair, because asyncio
and the thread pool run what is ready; asyncio's locks are FIFO, which the model
has as a queue. Nothing is assumed of clients, crashes or rows to come. In
`Shutdown` threads run and the event loop runs what is ready; neither the signal nor
the endpoint's answers are obliged to come. In `Frontend` jobs settle (what `JobSettles`
says of the job modules), requests of launches and polls are answered and timeouts
fire; the user, attaches and stop requests are free.

## 4. The proofs

Each component has its theorems in `<module>_proofs.tla`. They hold for every value
of the constants that satisfies the assumption of the module, and use nothing else:

| Assumption | Says, and why the code justifies it |
|---|---|
| `RequestAssumption` (`SpeedJob`, `SqlJob`) | counts are natural numbers, at least one target, model, run, worker: `BenchmarkRequest.from_dict` refuses or clamps the rest |
| `LoopAssumption` (`ToolLoop`) | limits are natural numbers; no text is no query, and running nothing matches nothing |
| `QuestionAssumption`, `ResultAssumption`, `DuckAssumption` | amounts have at most two decimals; the expected SQL yields the rounded amount; a result is not a failure |
| `PlanAssumption` (`SpeedMetrics`) | the plan is a sequence of calls at targets of a known kind; counts and durations are natural numbers. The order of the plan is not assumed |
| `BoundsAssumption`, `RowsAssumption` | bounds are natural numbers |

Few safety properties are inductive as they stand. Each proof has its invariant
(`Init => I`, `I /\ [Next]_vars => I'`, `I => property`), one named step or lemma per
action, and a lemma for whatever two actions share.

### Results store: `Honest`, `Phases`, `Sights`, `InOrder`

| Theorem | Says |
|---|---|
| `TypeCorrect` | `Spec => []TypeOK` |
| `SavesExclusive` | saves of one job never overlap (`OneSaveAtATime`, which the order of saves rests on) |
| `RecordsNeverOverclaim` | a file never claims more rows than it holds, nor holds more than the job has |
| `FinishedRecordsComplete` | a file that says completed, failed or stopped holds all rows and counts them right |
| `RecordsTrue` | the two together, the invariant `RecordsAreTrue` |
| `Reconciled` | once the server serves, no file says running of a job that is not there |
| `DeletedStaysDeleted` | only a save of a job at work creates a file |
| `SavesOrdered` | `SavesLandInOrder`: the last save is what stays, and flushed rows stay on disk |
| `ListsComplete` | `ListsWhatIsThere`: a list leaves out only files that are being written |
| `StoreImplementsArchive` | `Spec => ArchiveSpec`: the store implements `RunArchive` |
| `HistoryIsFinal` | what a client reads of a run only fades: a finished entry stays as it is or is gone for good, and no run of a dead server comes to life or gains rows |

*Mutual exclusion* needs no strengthening besides the types: the one action that
lets a task into its critical section requires that no other is inside.

*Records.* `NeverOverclaims` and `FinishedRecordIsComplete` are not inductive: a
record is built in two looks at the job and is on its way for a while. `Honest`
says that whatever is on its way (a task between its looks and its write, a file,
a rewrite of the reconciliation) makes a true claim about the job. The proof has
two halves. `StepsBuildHonestly`: what a step builds is true of the job as it was
*before* the step. `JobsEvolve` and `HoldsForever`: rows only grow and nothing of a
settled job changes (`SettledForGood`), so what is true of a job stays true.
`HonestNext` joins the halves.

*Phases.* `Phases` relates files to the life of their job: saves are under way
only while `run_job` is, the last one only at its very end; while the server is
down or reconciles nobody is in memory and nothing is cleared; a stale record is
one that reconciliation has still to look at. `Reconciled` and
`DeletedStaysDeleted` follow.

*Order.* `Ordered` says why a later save is a better one: there is no file before
the first row (`NothingYet`), the last save captures how the job ended
(`LastIsFinal`), a write to a deleted file leaves no trace (`UnlinkedIsGone`), and
whatever is on its way to the disk has all the rows that were flushed before
(`FlushedGrows`), because saves of one job exclude each other. `FilesAreWritten`: as
long as nothing crashed and no operation failed, a torn file is one a save is
writing. For the lists, `Reading` says that who reads the directory is at the head
of the lock's queue, so that no deletion comes between.

*Refinement.* A client sees the job in memory first, then its file (`Loaded`).
`Sights` adds to `Honest` and `Phases` what files say of the life of their job: no
whole file before the job begins, only a status of the job itself while that is in
memory, and no whole file under a rewrite. `StoreStep` then maps each action:
`StartJob` to `Begin` (there was nothing to see), `AddRow` to `AddRow`, a stop or a
settled status to `Advance`, clears and a failed rewrite to `Forget`, `BeginRewrite` to
`Interrupt`, and all the steps of save tasks, lists, locks and restarts to stutters,
because a save only runs while its job is in memory and shadows the file. `Crash` is the
heart of it: what comes to light is the file of a job that was in memory, torn, or with
a live status and no more rows than the job had, or finished and, by `Honest`, the
whole job. A crash during the reconciliation loses the record being rewritten
(`Forget`).

*What a client has read* (`HistoryOnlyFades`) follows from the refinement, step by
step, and from the types: while its server lives a job's rows only grow and what it
ended with stays; when the server dies the entry is there, is an earlier sight
of it, or is gone; from then on it is only ever marked as interrupted or lost.
`LostForGood` is what it takes besides: a job that died with its server is not in
memory again.

### Shutdown: `Orderly`

`TypeCorrect`, and `RowsKept`: `RowsReachDisk` for jobs of any size. The property speaks
of the ends of the drain and of the process; the invariant says how they are
reached. A save belongs to a row and captures at least the rows up to it
(`SavesFollowRows`); the last save has every row unless it was cut short
(`LastSaveIsLast`); until tasks are cancelled the job's lock is respected and a thread
works only while its save holds it (`LockIsKept`); as long as no thread was started
beside another they write in turn, each what is newer, and the file is the newest
record closed (`WritesInTurn`); every save of a row from before the signal is awaited
or over (`AwaitedFromSignal`). The first two hold through the cancellation, the
others are guarded by the ghosts `overlap` and `cutShort`, which stand for its two races.

### Speed job: `Planned`

| Theorem | Says |
|---|---|
| `TypeCorrect` | `Spec => []TypeOK` |
| `RowsFollowThePlan` | no measured run has two rows; sequential results are a prefix of the plan |
| `SettledIsQuiet` | a job that says completed or stopped has no call out and no worker waiting |
| `CompletedJobsAreWhole` | completed means a row for each measured run of the request |
| `ImplementsLifecycle` | `Spec => LifecycleSpec`: the job implements `JobLifecycle` |
| `StopHonoured` | after a stop no call is issued, and a row that comes in settles the job |
| `SeenStaysTrue` | rows are never taken back or changed, a settled job keeps status and rows, a stopped one never turns completed |

`InOnePlace` is the heart of `Planned`: a unit of work waits, is at the endpoint, has
arrived or is in the record, never in two of these places, and nothing is in a list
twice. `NothingLost` is its converse: a measured run of the current target is in one of
them unless a stop made `run_parallel` drop its workers; `EarlierTargetsWhole` carries
that over to the targets done. Both together give `CompletedIsWhole`, which the
refinement needs: the status `completed` is set where `run_job` leaves its loop with
no stop on the way. `AnswersAreTrue` says that what has arrived tells truly what became
of the call, `Stages` where the job is when clients are told what. In sequential mode
`OneCallAtATime` keeps the next call the successor of the last row.

### SQL job: `Planned`

`TypeCorrect` (with the bound 1 of the breaker's counter between questions),
`RowsFollowThePlan`, `CompletedJobsAreWhole`, `ImplementsLifecycle` as above, and
`StopIsTheEnd`: after a stop at most the question under way gets its row, and settles
the job with it; `SeenStaysTrue` is as above. A row is identified by its position: the plan is three nested
loops, and `PlanSize`, `Positions` and `Division` are the arithmetic that takes a position
to its model, variant and question and back, for all lengths. `NextAsked` is the first
position at or after the last row that is not skipped; that it exists
and is to be asked (`NextFound`) is proved without induction from the least number
principle (`LeastNumber`, from the library's well-founded minimum). `CounterIsTrue` ties
the breaker to the rows: between two questions its counter is 1 exactly when the row
before is a failed one of the same model, and `SkippedIffUnavailable` says from the rows
alone when the breaker is open.

### Conversation: `Steered`

| Theorem | Says |
|---|---|
| `TypeCorrect` | limits hold: at most `MaxToolCalls` calls, at most one retry above `MaxRetries` |
| `SuccessEarned` | a question only passes with the last query sent, which ran and matched in this question |
| `CallsRationed` | warm calls of a cold question stay within the budget; reminders are spaced |
| `NothingNeedless` | no call after a stop; a query repeated after it matched ends the question with success |

`Steered` says of the locals, while the conversation goes on (`Ongoing`): matched
queries are in `executed_sql`; reminders times (`MaxSilent` + 1), plus the silent replies
since, are at most the calls made (`Spaced`); for a question that began cold,
what its warm calls have taken and what the deadline has left make up the budget
(`ClockRight`). A reply is handled in a chain of operators on the locals (`Received`,
`Executed`, `LoopHead`, `Finish`); there is a lemma for each link, and the actions combine
them.

### Question: `Sound`

| Theorem | Says |
|---|---|
| `TypeCorrect` | types and limits of call, session and question |
| `RetriesAccounted` | a call sends at most two requests, four with tools; the row reports the fallback exactly when it was taken |
| `InterruptsEarned` | no more statements are cut than have overrun; timeouts are said only of overruns; the expected SQL fails only in a harmed session |
| `CorrectQueriesPass` | in an unharmed session a read-only statement with the right answer passes, for every amount and rounding |

The lemmas are stated for call, session and question separately, so that an action
of one is shown once to leave the invariants of the others alone (`CallAside`,
`SessionAside`). `CountedSent` bounds the requests by the stage of the call and by whether
the reasoning field was given up. `Budgeted` gives every interrupt a watchdog of its
own that has fired: those that hit (`spoiled`), the strays still to come, the one about to
call `interrupt()` and the one pending are together at most `overruns`. For the last
theorem, `Faithful` says that in an unharmed session a good statement yields what it
should (`Yields`), stays in `executed_sql` with it and is looked up there (`Remembers`),
and `CorrectAnswerPasses` that `Success` accepts it: `RoundingIsTolerated` is arithmetic over
all amounts, the others take the comparison apart by columns.

### Metrics: `Orderly`

| Theorem | Says |
|---|---|
| `TypeCorrect` | calls are those of the plan, one target at a time, within the concurrency |
| `RowsMeasured` | first token, total time, tokens and rates of a row fit together |
| `NothingStaleIsShown` | a poll shows `Aggregates` of all rows, a record those of its first rows, of all of them when completed; the phase is not about a call whose row is there |
| `AggregatesCurrent` | and these aggregates speak for those rows: every model once, its successes in the order of their runs, failures counted, extremes and means of what is known |
| `EveryCallShown` | each row is its own call's; the aggregates of a completed job account for all calls of all models |
| `PlanIsTheRequest` | `PlanOf` makes the calls a request asks for, no other, target after target, none twice unless a target names a model twice |

`Made` says which calls there are (those of the plan so far, those pending all at one
target, their number within the concurrency) and that their times are in order;
`Measured` holds of each row by arithmetic on rounded quotients (`Quotient`,
`RateIsNatural`). `RowsKept`: there are as many rows as recorded calls, and all of the plan
when the job is completed, so that no row comes after the last save has looked.
`Cached` says what the key of the cache promises: a cache with the number of rows there
are holds the aggregates of these rows. `Captured` carries that through a save. So far
`Aggregates` may be any function of the rows.

`AggregatesSpeak` opens it, for lists of any length. It needs induction, which the
provers do not do for a predicate; `AllNumbers` is induction for a *set* of numbers, and
each use makes the set of the sizes for which the claim holds. A finite set with a total
order has a last element (`SomeLast`), so its elements can be put in order (`SomeOrder`),
so `Sorted` chooses such a list, in which every element is exactly once
(`OrderIsWhole`). Names and runs are the two orders it is used with (`NumbersSorted`,
`RunsSorted`). The sum of a column over a set of rows lies between their number times its
least and times its greatest value (`SumBounded`), so the rounded mean lies between the two
(`MeanBetween`, `Extremes`, `StatisticsFit`).

`Attributed` is the invariant of `EveryCallShown`: an answered call holds a row of its own
name, and for *every set* of names there are as many rows as recorded calls of
them. Stated for sets it is inductive, because a recorded call adds one to both
sides or to neither, and it gives the counts of a single call as well as those of a model
at all its targets.

`PlanIsTheRequest` is about the operator alone: `FlattenSeq` is a recursive function whose
value is unfolded once (`FlattenUnfolds`) and described by induction on the number of lists
joined (`Joined`, `Flattened`). It shows that `PlanAssumption` holds of the plans of all
requests, so that nothing else in this part rests on an assumption a request might break.

### Browser: `Orderly`

| Theorem | Says |
|---|---|
| `TypeCorrect` | ids held by page, loops, requests and stops are ids of jobs of the server, reloads included |
| `OneRun` | while `Calm`, never two live jobs |
| `StopHitsTheRun` | between launches Stop is enabled for a job that runs, and goes to that job |
| `QueueOrderly` | nothing queued before a click on Stop is sent after it; a polling chain never overlaps with itself |

`Watched` has two parts. As long as nothing has overlapped, the page does at most one
thing: one launch, or one polling loop, or one attach (`Single`). While it is `Calm`, that
one thing is about the only job that may be live (`Attended`): a launch whose job the
server has made, a loop whose `liveJobId` it is, an attach that is about to find it. An
answer may be old, but a job it calls over is over (`AnswersLast`), so a loop that stops
leaves no job behind. Failures and overlaps are counted and the counters never fall
(`FaultsAreCounted`), so a calm state has had a calm step before it, and the cases with
faults need not be looked at. `QueueIsWanted` needs no calm.

### What the proofs changed in the models

`Scoring` had a `CASE` whose arms overlapped, harmless to TLC and without a definite
value for a prover; it is a conditional now. `ResultsStore` names who is at the head of the
lock (`AtHead`), which is not defined on an empty queue. `Asking` and `Restore` of
`Frontend` and the rows and captures of `SpeedMetrics` are written as whole records.
`SpeedMetrics` takes its plan as a parameter, which makes the theorems hold for plans
in any order; and its last save has the condition of the code, that there are rows. Its
aggregates are written over sets of positions, put in order by `Sorted` and summed by a
fold over a set, because sequences that are filtered and sorted by an operator given as an
argument cannot be reasoned about here.

## 5. What is only model-checked, and what is not modelled

Every invariant, every action property and every refinement checked by the passing runs is
a theorem.

Liveness under fairness is out of reach of the prover and stays with TLC: `JobSettles`
of both job modules (in `SqlJob` within `JobEnds`, whose other half, `StopEndsRecording`, is
proved), `QuestionEnds`, `EveryQuestionEnds`, `NobodyStarves`, `SignalEndsProcess`,
`RunsToTheEnd`.

Not modelled:

* *Startup migration and removal of duplicates* (`migrate_legacy_filenames`, the
  scan in `save_job_record`): they act only when a run has two files, or a file of an
  older naming scheme. A server of this version gives a run one name for good, a
  function of job id and creation time, so no state of the model leads there.
* *Request parsing* beyond its guarantees, which are the `RequestAssumption` of the job
  modules; *endpoint scan* beyond success and failure of detection and discovery.
* *Clean-up of SQL text* (think tags, fences, custom tool calls): string processing; a
  statement is a model value.
* *Exports, summaries, dashboard*: formatting of one record. *SSRF guard*, *local
  benchmark and adapter metadata*: stateless checks. *JSON loading, logging, launchers,
  style sheets*: no state of interest.

Abstractions to keep in mind. Two jobs share nothing but the store and, in `Frontend`,
the page. A crash kills the process, not the file system, so what `close` has
written stays. `ToolLoop` leaves out the database and the endpoint's retries, which
`SqlQuestion` has, and `SqlQuestion` leaves out reminders and the stop, which `ToolLoop`
has. `Shutdown` has no directory lock and no lists. The texts of phases around the calls
(detecting, warming up, settling) are left out. In `Frontend` the page shows rows or
none, nothing of their content; other tabs and the settings are left out.

## 6. Plan

1. *Done:* jobs, metrics and aggregates, conversation, question with endpoint and
   database, store, shutdown, browser; the abstract specifications; the safety of all of
   them and the three refinements proved.
2. *Done:* what clients may rely on (`HistoryIsFinal`, `SeenStaysTrue`), and what the
   operators compute (`AggregatesCurrent`, `PlanIsTheRequest`).
3. **Pure code:** request clamping and the scan's removal of duplicates as operators
   against reference definitions.

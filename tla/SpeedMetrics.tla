---------------------------- MODULE SpeedMetrics ----------------------------
(***************************************************************************)
(* What a speed benchmark measures: the clock around the streamed or plain *)
(* answer of an endpoint, the row made of it, the per-model aggregates a   *)
(* poll or a saved record shows, their cache, and the phase shown beside   *)
(* them.  Which calls are made, and what a stop or an escaped exception    *)
(* does, is SpeedJob's subject: here all measured calls of a plan are made *)
(* in order, at most Concurrency at a time, target after target            *)
(* (run_sequential is the case of one at a time).  Warm-ups leave no row   *)
(* and are left out.                                                       *)
(*                                                                         *)
(* Times are in microseconds, the resolution of the rates; rates and means *)
(* are in hundredths.  latency_ms always equals total_time_ms and is not   *)
(* kept beside it.                                                         *)
(***************************************************************************)
EXTENDS Integers, Sequences, SequencesExt

CONSTANTS
  Plan,         (* the measured calls, target after target: see PlanOf     *)
  Provider,     (* Provider[t] = the kind of endpoint target t is          *)
  RepeatCount,  (* request.repeat_count                                    *)
  Concurrency,  (* request.concurrency                                     *)
  Counts,       (* token counts an endpoint may report                     *)
  Durations,    (* durations an Ollama endpoint may report                 *)
  MaxSeconds,   (* bound: the clock stops here                             *)
  None          (* Python's None                                           *)

Targets == DOMAIN Provider
Second == 1000000

(* The names of models are numbers, in their sorted order. *)
ASSUME PlanAssumption ==
  /\ Provider \in Seq({"openai-compatible", "ollama"})
  /\ Plan \in Seq([target : Targets, model : Nat, index : 1..RepeatCount])
  /\ RepeatCount \in Nat \ {0}
  /\ Concurrency \in Nat \ {0}
  /\ Counts \subseteq Nat /\ Durations \subseteq Nat
  /\ MaxSeconds \in Nat
  /\ None \notin Nat

VARIABLES
  now,          (* time.perf_counter()                                     *)
  calls,        (* the calls made so far, in the order of the plan; of a
                   call under way: when it started, when its first delta
                   came, the usage reported, and, for the properties only,
                   when the first delta with text came                     *)
  results,      (* JobState.results                                        *)
  completed,    (* the job's status is completed                           *)
  phase,        (* JobState.run_state: a phase and the call it is about    *)
  cache,        (* JobState._aggregates_cache                              *)
  pendingSaves, (* save tasks that wait for JobState._save_lock            *)
  saving,       (* what the save that holds the lock has captured          *)
  disk          (* the record in the results directory                     *)

vars == <<now, calls, results, completed, phase, cache, pendingSaves, saving,
          disk>>

-----------------------------------------------------------------------------
(***************************************************************************)
(* The plan: the measured calls of each target t, for which models[t] was  *)
(* requested, model by model.                                              *)
(***************************************************************************)
CallsAt(models, t) ==
  FlattenSeq([i \in DOMAIN models[t] |->
    [r \in 1..RepeatCount |-> [target |-> t, model |-> models[t][i], index |-> r]]])
PlanOf(models) == FlattenSeq([t \in DOMAIN models |-> CallsAt(models, t)])

Lower(x, y) == IF x <= y THEN x ELSE y
Higher(x, y) == IF x <= y THEN y ELSE x

(* round(n / d, 2) of an n that is given in hundredths. *)
Rounded(n, d) == (2 * n + d) \div (2 * d)

(* Tokens over microseconds, in hundredths of a token per second; max(..., 1e-6)
   keeps the divisor from zero. *)
Rate(tokens, time) == Rounded(100 * Second * tokens, Higher(time, 1))

(***************************************************************************)
(* The row of a call: _build_speed_row with the metrics of a success, or   *)
(* with nothing but the time a failure took.                               *)
(***************************************************************************)
NoMetrics == [total |-> None, ttft |-> None, prefill |-> None, decode |-> None,
              tokens |-> None]
(* Mutant: model and target are those of the job's current_model and provider,
   which every call sets as it begins. *)
Row_CurrentModel(c, success, metrics) ==
  LET current == Plan[Len(calls)]
  IN [model |-> current.model, target |-> current.target, index |-> Plan[c].index,
      stamp |-> calls[c].start, success |-> success,
      total |-> metrics.total, ttft |-> metrics.ttft, prefill |-> metrics.prefill,
      decode |-> metrics.decode, tokens |-> metrics.tokens]

Row(c, success, metrics) ==
  [model |-> Plan[c].model, target |-> Plan[c].target, index |-> Plan[c].index,
   stamp |-> calls[c].start, success |-> success,
   total |-> metrics.total, ttft |-> metrics.ttft, prefill |-> metrics.prefill,
   decode |-> metrics.decode, tokens |-> metrics.tokens]

FailedRow(c) ==
  Row(c, FALSE, [NoMetrics EXCEPT !.total = now - calls[c].start])

(* Mutant: the decode rate is taken over the whole call. *)
StreamedRow_WholeTime(c) ==
  LET call == calls[c]
      ttft == IF call.first = None THEN None ELSE call.first - call.start
  IN Row(c, TRUE,
         [total |-> now - call.start, ttft |-> ttft, prefill |-> None,
          decode |-> IF None \in {ttft, call.tokens} THEN None
                     ELSE Rate(call.tokens, now - call.start),
          tokens |-> call.tokens])

(* The end of benchmark_openai: rates need a first token and a usage chunk. *)
StreamedRow(c) ==
  LET call == calls[c]
      ttft == IF call.first = None THEN None ELSE call.first - call.start
  IN Row(c, TRUE,
         [total |-> now - call.start, ttft |-> ttft, prefill |-> None,
          decode |-> IF None \in {ttft, call.tokens} THEN None
                     ELSE Rate(call.tokens, now - call.first),
          tokens |-> call.tokens])

(* benchmark_ollama trusts the durations the endpoint reports, where zero is as
   good as absent; the clock of this program plays no part. *)
Reported(x) == x \notin {None, 0}
OllamaRow(c, prompt, tokens, promptTime, evalTime) ==
  Row(c, TRUE,
      [total   |-> IF Reported(promptTime) \/ Reported(evalTime)
                   THEN (IF Reported(promptTime) THEN promptTime ELSE 0)
                        + (IF Reported(evalTime) THEN evalTime ELSE 0)
                   ELSE None,
       ttft    |-> IF Reported(promptTime) THEN promptTime ELSE None,
       prefill |-> IF Reported(prompt) /\ Reported(promptTime)
                   THEN Rate(prompt, promptTime) ELSE None,
       decode  |-> IF tokens # None /\ Reported(evalTime)
                   THEN Rate(tokens, evalTime) ELSE None,
       tokens  |-> tokens])

-----------------------------------------------------------------------------
(***************************************************************************)
(* _compute_speed_aggregates.                                              *)
(***************************************************************************)
RowsOf(rows, m, success) ==
  {k \in DOMAIN rows : rows[k].model = m /\ rows[k].success = success}

(* Python's sorted, for an order that is total on S. *)
Sorted(S, Before(_, _)) ==
  CHOOSE s \in [1..Cardinality(S) -> S] :
    \A i, j \in DOMAIN s : i < j => Before(s[i], s[j])

(* Models are sorted by name; the sort of their runs by run_index is stable. *)
ByName(models) == Sorted(models, <)
InRunOrder(rows, K) ==
  Sorted(K, LAMBDA k, l : \/ rows[k].index < rows[l].index
                          \/ rows[k].index = rows[l].index /\ k < l)

Total(rows, K, f) == MapThenSumSet(LAMBDA k : rows[k][f], K)

Statistics(rows, K, f) ==
  LET known == {k \in K : rows[k][f] # None}
      values == {rows[k][f] : k \in known}
  IN IF known = {} THEN [avg |-> None, min |-> None, max |-> None]
     ELSE [avg |-> Rounded(Total(rows, known, f), Cardinality(known)),
           min |-> Min(values), max |-> Max(values)]

Aggregate(rows, m) ==
  LET good == RowsOf(rows, m, TRUE)
      failed == RowsOf(rows, m, FALSE)
      runs == InRunOrder(rows, good)
  IN [model    |-> m,
      label    |-> rows[IF good = {} THEN Min(failed) ELSE runs[1]].target,
      runCount |-> IF \E r \in ToSet(rows) : r.success
                   THEN Cardinality(good) + Cardinality(failed) ELSE 0,
      failures |-> Cardinality(failed),
      decode   |-> Statistics(rows, good, "decode"),
      ttft     |-> Statistics(rows, good, "ttft"),
      total    |-> Statistics(rows, good, "total").avg,
      prefill  |-> Statistics(rows, good, "prefill").avg,
      runs     |-> [i \in DOMAIN runs |-> rows[runs[i]]]]

(* Models with a success come first, models that only failed after them. *)
Aggregates(rows) ==
  LET good == {r.model : r \in {x \in ToSet(rows) : x.success}}
      seen == {r.model : r \in ToSet(rows)}
      models == ByName(good) \o ByName(seen \ good)
  IN [i \in DOMAIN models |-> Aggregate(rows, models[i])]

(***************************************************************************)
(* JobState._aggregated_speed: cached under the number of rows and the     *)
(* time stamp of the last one.                                             *)
(***************************************************************************)
LastStamp == IF results = <<>> THEN None ELSE Last(results).stamp
(* Mutant: the number of rows is not in the key. *)
Hit_StampOnly == cache # None /\ cache.stamp = LastStamp

Hit == cache # None /\ cache.n = Len(results) /\ cache.stamp = LastStamp

AggregatedSpeed == IF Hit THEN cache.aggregates ELSE Aggregates(results)

AskAggregates ==
  cache' = IF Hit THEN cache
           ELSE [n |-> Len(results), stamp |-> LastStamp,
                 aggregates |-> Aggregates(results)]

-----------------------------------------------------------------------------
NoPhase == [name |-> "none", call |-> 0]
SetPhase(name, c) == phase' = [name |-> name, call |-> c]

NewCall == [pc |-> "waiting", start |-> now, first |-> None, text |-> None,
            tokens |-> None]
Unanswered == {c \in DOMAIN calls : calls[c].pc \in {"waiting", "streaming"}}
Unrecorded == {c \in DOMAIN calls : calls[c].pc # "recorded"}
At(c, provider) == Provider[Plan[c].target] = provider

Init ==
  /\ now = 0
  /\ calls = <<>>
  /\ results = <<>>
  /\ completed = FALSE
  /\ phase = NoPhase
  /\ cache = None
  /\ pendingSaves = 0
  /\ saving = None
  /\ disk = None

(* Mutant: the next target does not wait. *)
Begin_NextTarget ==
  LET c == Len(calls) + 1 IN
  /\ c <= Len(Plan)
  /\ Cardinality(Unanswered) < Concurrency
  /\ calls' = Append(calls, NewCall)
  /\ SetPhase(IF At(c, "ollama") THEN "waiting_response"
              ELSE "waiting_first_token", c)
  /\ UNCHANGED <<now, results, completed, cache, pendingSaves, saving, disk>>

(* The next call of the plan; a target's calls wait for those of the target
   before it to be recorded. *)
Begin ==
  LET c == Len(calls) + 1 IN
  /\ c <= Len(Plan)
  /\ Cardinality(Unanswered) < Concurrency
  /\ \A d \in Unrecorded : Plan[d].target = Plan[c].target
  /\ calls' = Append(calls, NewCall)
  /\ SetPhase(IF At(c, "ollama") THEN "waiting_response"
              ELSE "waiting_first_token", c)
  /\ UNCHANGED <<now, results, completed, cache, pendingSaves, saving, disk>>

(* A chunk whose delta carries a content, which may be the empty string many
   endpoints send with the role. *)
Delta(c, hasText) ==
  /\ c \in Unanswered /\ At(c, "openai-compatible")
  /\ calls' = [calls EXCEPT
       ![c].pc = "streaming",
       ![c].first = IF @ = None THEN now ELSE @,
       ![c].text = IF @ = None /\ hasText THEN now ELSE @]
  /\ IF calls[c].first = None THEN SetPhase("streaming", c) ELSE UNCHANGED phase
  /\ UNCHANGED <<now, results, completed, cache, pendingSaves, saving, disk>>

Usage(c, tokens) ==
  /\ c \in Unanswered /\ At(c, "openai-compatible")
  /\ calls' = [calls EXCEPT ![c].tokens = tokens]
  /\ UNCHANGED <<now, results, completed, phase, cache, pendingSaves, saving,
                 disk>>

(* The row of an answered call is built; what was kept of the stream is gone. *)
Answered(c, row) == calls' = [calls EXCEPT ![c] = [pc |-> "answered", row |-> row]]

(* data: [DONE], or the stream just ends, with or without any content. *)
StreamEnds(c) ==
  /\ c \in Unanswered /\ At(c, "openai-compatible")
  /\ Answered(c, StreamedRow(c))
  /\ SetPhase("scoring", c)
  /\ UNCHANGED <<now, results, completed, cache, pendingSaves, saving, disk>>

OllamaAnswers(c, prompt, tokens, promptTime, evalTime) ==
  /\ c \in Unanswered /\ At(c, "ollama")
  /\ Answered(c, OllamaRow(c, prompt, tokens, promptTime, evalTime))
  /\ SetPhase("scoring", c)
  /\ UNCHANGED <<now, results, completed, cache, pendingSaves, saving, disk>>

(* A status of 400 or more, an error chunk, a broken connection, a timeout. *)
CallFails(c) ==
  /\ c \in Unanswered
  /\ Answered(c, FailedRow(c))
  /\ UNCHANGED <<now, results, completed, phase, cache, pendingSaves, saving,
                 disk>>

(* The loop over the answers takes one, in the order they arrived in or not. *)
Record(c) ==
  /\ c \in DOMAIN calls /\ calls[c].pc = "answered"
  /\ results' = Append(results, calls[c].row)
  /\ calls' = [calls EXCEPT ![c] = [pc |-> "recorded"]]
  /\ pendingSaves' = pendingSaves + 1
  /\ SetPhase("result_recorded", c)
  /\ UNCHANGED <<now, completed, cache, saving, disk>>

Complete ==
  /\ ~completed
  /\ Len(results) = Len(Plan)
  /\ completed' = TRUE
  /\ UNCHANGED <<now, calls, results, phase, cache, pendingSaves, saving, disk>>

(* A poll answered with JobState.to_dict. *)
Poll ==
  /\ AskAggregates
  /\ UNCHANGED <<now, calls, results, completed, phase, pendingSaves, saving,
                 disk>>

(* append_job_to_results_store captures status and aggregates, waits for the
   directory lock, and writes the rows there are by then. *)
Capture ==
  /\ AskAggregates
  /\ saving' = [completed |-> completed, aggregates |-> AggregatedSpeed]
  /\ UNCHANGED <<now, calls, results, completed, phase, disk>>

SaveBegins ==
  /\ pendingSaves > 0 /\ saving = None
  /\ pendingSaves' = pendingSaves - 1
  /\ Capture

SaveWrites ==
  /\ saving # None
  /\ disk' = [completed |-> saving.completed, aggregates |-> saving.aggregates,
              rows |-> Len(results)]
  /\ saving' = None
  /\ UNCHANGED <<now, calls, results, completed, phase, cache, pendingSaves>>

(* run_job's finally block: the last save, after all the others. *)
FinalSave ==
  /\ completed /\ pendingSaves = 0 /\ saving = None
  /\ results # <<>>
  /\ disk.completed = FALSE
  /\ Capture
  /\ UNCHANGED pendingSaves

Tick ==
  /\ now < MaxSeconds * Second
  /\ now' = now + Second
  /\ UNCHANGED <<calls, results, completed, phase, cache, pendingSaves, saving,
                 disk>>

-----------------------------------------------------------------------------
StreamStep ==
  \E c \in Unanswered :
    \/ \E hasText \in BOOLEAN : Delta(c, hasText)
    \/ \E tokens \in Counts : Usage(c, tokens)
    \/ StreamEnds(c)
    \/ \E prompt, tokens \in Counts \cup {None}, pt, et \in Durations \cup {None} :
         OllamaAnswers(c, prompt, tokens, pt, et)
    \/ CallFails(c)

SaveStep == SaveBegins \/ SaveWrites \/ FinalSave

Next ==
  \/ Begin \/ StreamStep \/ (\E c \in DOMAIN calls : Record(c)) \/ Complete
  \/ Poll \/ SaveStep \/ Tick

Spec == Init /\ [][Next]_vars

-----------------------------------------------------------------------------
Measure == Nat \cup {None}
RowType == [model : Nat, target : Targets, index : 1..RepeatCount, stamp : Nat,
            success : BOOLEAN, total : Measure, ttft : Measure,
            prefill : Measure, decode : Measure, tokens : Measure]

(* The shape of the state: rows and calls of the plan, one target at a time, a
   first delta only on a call that streams, no more saves waiting than rows. *)
TypeOK ==
  /\ now \in Nat
  /\ \A c \in DOMAIN calls :
       \/ /\ calls[c].pc \in {"waiting", "streaming"}
          /\ calls[c].start \in 0..now
          /\ IF calls[c].pc = "waiting" THEN calls[c].first = None
             ELSE calls[c].first \in calls[c].start..now
       \/ calls[c].pc = "answered" /\ calls[c].row \in RowType
       \/ calls[c].pc = "recorded"
  /\ Len(calls) <= Len(Plan)
  /\ \A c, d \in Unrecorded : Plan[c].target = Plan[d].target
  /\ Cardinality(Unanswered) <= Concurrency
  /\ \A i \in DOMAIN results : results[i] \in RowType
  /\ completed \in BOOLEAN
  /\ phase.call \in 0..Len(calls)
  /\ pendingSaves \in 0..Len(results)
  /\ disk # None => disk.rows \in 1..Len(results)

(* "decode TPS is calculated from streamed completion tokens over
   post-first-token stream time" (README.md:142), and the numbers of the two
   kinds of endpoint mean the same: the first token comes within the total
   time, a rate is tokens over what is left of it, and a row of a failure
   carries its time and nothing else.  One row of this kind is one test; the
   property is about what streams, missing fields and late usage can do. *)
RowsAreMeasured ==
  \A i \in DOMAIN results : LET r == results[i] IN
    /\ r.ttft # None => r.total # None /\ r.ttft <= r.total
    /\ r.decode # None =>
         /\ r.tokens # None
         /\ r.decode = Rate(r.tokens, r.total - (IF r.ttft = None THEN 0 ELSE r.ttft))
    /\ ~r.success => /\ r.total # None
                     /\ {r.ttft, r.prefill, r.decode, r.tokens} = {None}
    /\ Provider[r.target] = "openai-compatible" =>
         /\ r.total \in 0..now - r.stamp
         /\ r.decode # None => r.ttft # None

(* Aggregates speak for exactly these rows: every model once, each of its
   successes in its runs and in the order of the runs, its failures counted, the
   label one of a target it was measured at, minimum and maximum those of the
   runs and the mean between them.  As long as no run at all has succeeded the
   code says 0 runs beside its count of failures, which is left at that. *)
Spread(stat, values) ==
  IF values = {} THEN {stat.avg, stat.min, stat.max} = {None}
  ELSE /\ {stat.min, stat.max} \subseteq values
       /\ \A v \in values : stat.min <= v /\ v <= stat.max
       /\ stat.min <= stat.avg /\ stat.avg <= stat.max

SpeakFor(aggregates, rows) ==
  /\ {aggregates[i].model : i \in DOMAIN aggregates} = {r.model : r \in ToSet(rows)}
  /\ \A i, j \in DOMAIN aggregates :
       aggregates[i].model = aggregates[j].model => i = j
  /\ \A i \in DOMAIN aggregates :
       LET a == aggregates[i]
           mine == {r \in ToSet(rows) : r.model = a.model}
           good == {r \in mine : r.success}
           known(f) == {r[f] : r \in good} \ {None}
       IN /\ ToSet(a.runs) = good
          /\ Len(a.runs) + a.failures
               = Cardinality({k \in DOMAIN rows : rows[k].model = a.model})
          /\ \A k, l \in DOMAIN a.runs : k < l => a.runs[k].index <= a.runs[l].index
          /\ (\E r \in ToSet(rows) : r.success) => a.runCount = Len(a.runs) + a.failures
          /\ a.label \in {r.target : r \in mine}
          /\ Spread(a.decode, known("decode"))
          /\ Spread(a.ttft, known("ttft"))

(* What the next poll would show is about all the rows there are, whatever the
   cache holds; the phase it shows is not about a call whose row is there,
   unless it says that.  A record of a completed job agrees with itself, though
   its aggregates are captured before its rows; one of a running job may have
   aggregates of fewer rows than it holds, never of other rows. *)
AggregatesAreCurrent ==
  /\ SpeakFor(AggregatedSpeed, results)
  /\ phase.name # "result_recorded" => phase.call \notin DOMAIN calls \ Unrecorded
  /\ disk # None =>
       \E n \in 0..disk.rows :
         /\ SpeakFor(disk.aggregates, SubSeq(results, 1, n))
         /\ disk.completed => n = Len(results)

(* The call a row is named after. *)
Named(r) == [target |-> r.target, model |-> r.model, index |-> r.index]

(* Each model of the plan, and as many runs and failures as it has calls there. *)
WholePlan(aggregates) ==
  {<<a.model, Len(a.runs) + a.failures>> : a \in ToSet(aggregates)}
    = {<<Plan[c].model, Cardinality({d \in DOMAIN Plan : Plan[d].model = Plan[c].model})>>
         : c \in DOMAIN Plan}

(* A row is that of its own call, in whatever order the answers come and whatever
   the job's current model is by then: at any moment there are as many rows of a
   target, model and index as calls of them have been recorded.  What a poll shows
   of a completed job accounts for all calls of the plan, a model's calls at
   several targets together, and so does the record that says completed. *)
EveryCallIsShown ==
  /\ \A c \in DOMAIN Plan :
       Cardinality({k \in DOMAIN results : Named(results[k]) = Plan[c]})
         = Cardinality({d \in DOMAIN calls \ Unrecorded : Plan[d] = Plan[c]})
  /\ completed => WholePlan(AggregatedSpeed)
  /\ disk # None => (disk.completed => WholePlan(disk.aggregates))

(* "TTFT is still measurable from the first non-empty delta"
   (tests/test_speed_unit.py:318): the clock of the first token is read when the
   first text comes. *)
FirstTokenIsNonEmpty ==
  \A c \in Unanswered : calls[c].first = calls[c].text

=============================================================================

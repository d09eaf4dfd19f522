-------------------------- MODULE Frontend_proofs --------------------------
(***************************************************************************)
(* What the page keeps of the jobs it runs, for any number of clicks,      *)
(* tests, reloads, polling loops and failures.                             *)
(***************************************************************************)
EXTENDS Frontend, FiniteSetTheorems, SequenceTheorems, WellFoundedInduction, TLAPS

(***************************************************************************)
(* The state when the server has n jobs.                                   *)
(***************************************************************************)
Job == [payload : Payload, status : Status, rows : BOOLEAN]

Pages(n) ==
  [queue : Seq(Payload), liveJobId : 0..n, jobId : 0..n, historyId : 0..n,
   pollTimer : {0} \cup Loops, shown : (Status \cup {"none"}) \X (0..n),
   running : BOOLEAN, startOn : BOOLEAN, closeOn : BOOLEAN]

Stage == {"idle", "timer", "sent", "answered"}

(* A request that is out is about a job, and its answer names a status. *)
InOrder(q) ==
  /\ q.at \in {"sent", "answered"} => q.job # 0
  /\ q.at = "answered" => q.reply \in Reply

Requests(n) ==
  {q \in [at : Stage, job : 0..n, reply : Reply \cup {Unanswered}] : InOrder(q)}

Restores(n) ==
  {q \in [via : {"done", "hint", "list", "detail"}, at : Stage, job : 0..n,
          reply : Reply \cup {Unanswered}] :
     /\ q.via \in {"hint", "detail"} => q.at \in {"sent", "answered"} /\ InOrder(q)
     /\ q.at # "idle" => q.via # "done"
     /\ q.via = "list" => q.reply = Unanswered}

Launches(n) == [payload : Payload, job : 0..n]

Uses == [starts : 0..MaxStarts, tests : Nat, faults : Nat, trouble : Nat]

Fits(n, u, h, ls, L, st, op, re, c, us) ==
  /\ u \in Pages(n)
  /\ h \in 0..n
  /\ ls \in [Loops -> Requests(n)]
  /\ L \subseteq Launches(n) /\ IsFiniteSet(L)
  /\ st \subseteq 1..n
  /\ op \in Requests(n)
  /\ re \in Restores(n)
  /\ us \in Uses
  /\ c \in 0..us.starts

Typed ==
  /\ jobs \in Seq(Job)
  /\ overlapped \in BOOLEAN
  /\ Fits(Len(jobs), ui, hint, loops, launching, stops, opening, restoring, cancelled, used)

(* What is left in the queue was put there after the last Stop. *)
QueueIsWanted == \A i \in DOMAIN ui.queue : ui.queue[i].click > cancelled

(***************************************************************************)
(* An answer may be late, but a job that was over when it was given is     *)
(* over.                                                                   *)
(***************************************************************************)
Late(js, q) == q.at = "answered" /\ ~IsLive(q.reply.status) => ~IsLive(js[q.job].status)

AnswersLast ==
  /\ \A l \in Loops : Late(jobs, loops[l])
  /\ Late(jobs, opening)
  /\ restoring.via # "list" => Late(jobs, restoring)

(***************************************************************************)
(* While things are calm, the page does at most one thing: it launches a   *)
(* job, polls one, or restores one.                                        *)
(***************************************************************************)
Busy(ls) == {l \in Loops : ls[l].at # "idle"}

Single(L, B, v) ==
  /\ \A r, s \in L : r = s
  /\ \A k, l \in B : k = l
  /\ L # {} => B = {} /\ v = "done"
  /\ B # {} => v = "done"

(***************************************************************************)
(* And whatever it does is about the one job that may be live: of jobs js  *)
(* the launches L have made it, the polling loops ls ask for it, and the   *)
(* restore re is about to find it.                                         *)
(***************************************************************************)
OnlyLive(js, j) == \A i \in DOMAIN js : IsLive(js[i].status) => i = j

LoopWatches(js, u, q) ==
  /\ u.liveJobId # 0
  /\ OnlyLive(js, u.liveJobId)
  /\ q.at \in {"sent", "answered"} => q.job = u.liveJobId
  /\ IsLive(js[u.liveJobId].status) => u.running

RestoreWatches(js, u, re) ==
  /\ ~u.running /\ u.liveJobId = 0
  /\ \E j \in {0} \cup DOMAIN js : OnlyLive(js, j)
  /\ re.via = "detail" \/ (re.via = "list" /\ re.at = "answered") => OnlyLive(js, re.job)

Attended(js, u, ls, L, re) ==
  /\ \A r \in L : OnlyLive(js, r.job)
  /\ \A l \in Busy(ls) : LoopWatches(js, u, ls[l])
  /\ re.via # "done" => RestoreWatches(js, u, re)
  /\ L = {} /\ Busy(ls) = {} /\ re.via = "done" => OnlyLive(js, 0)
  /\ u.pollTimer # 0 => u.pollTimer \in Busy(ls)

Watched ==
  /\ ~overlapped =>
       /\ Single(launching, Busy(loops), restoring.via)
       /\ ~Outdated(opening) /\ ~Outdated(restoring)
  /\ Calm => Attended(jobs, ui, loops, launching, restoring)

Orderly == Typed /\ QueueIsWanted /\ AnswersLast /\ Watched

-----------------------------------------------------------------------------
(***************************************************************************)
(* Numbers and sets.                                                       *)
(***************************************************************************)
(* A set of numbers has a least one. *)
LEMMA MinIsIn ==
  ASSUME NEW T \in SUBSET Nat, T # {}
  PROVE  Min(T) \in T /\ \A y \in T : Min(T) <= y
<1> DEFINE Less == {pair \in Nat \X Nat : pair[1] < pair[2]}
<1>1. IsWellFoundedOn(Less, Nat)
  BY NatLessThanWellFounded, Zenon DEF OpToRel
<1>2. PICK x \in T : \A y \in T : ~(<<y, x>> \in Less)
  <2> HIDE DEF Less
  <2> QED
    BY <1>1, WFMin
<1>3. \A y \in T : ~(y < x)
  BY <1>2
<1>4. \E m \in T : \A y \in T : m =< y
  BY <1>3
<1> QED
  BY <1>4 DEF Min

LEMMA MaxIsIn ==
  ASSUME NEW T \in SUBSET Nat, NEW n \in Nat, T # {}, \A x \in T : x <= n
  PROVE  Max(T) \in T
<1> DEFINE U == {n - x : x \in T}
<1>1. U \in SUBSET Nat /\ U # {}
  <2>1. \A x \in T : n - x \in Nat
    OBVIOUS
  <2> QED
    BY <2>1
<1>2. \E k \in U : \A y \in U : k <= y
  BY <1>1, MinIsIn
<1>3. PICK x \in T : \A y \in U : n - x <= y
  BY <1>2
<1>4. \A y \in T : x >= y
  BY <1>3
<1> QED
  BY <1>4 DEF Max

LEMMA MinOfTwo ==
  ASSUME NEW a \in Int, NEW b \in Int
  PROVE  Min({a, b}) \in Int /\ Min({a, b}) <= a /\ Min({a, b}) <= b
<1>1. \E m \in {a, b} : \A y \in {a, b} : m =< y
  <2>1. CASE a <= b
    BY <2>1
  <2>2. CASE b <= a
    BY <2>2
  <2> QED
    BY <2>1, <2>2
<1> QED
  BY <1>1 DEF Min

(* Sets of which something can be counted have it once or not at all. *)
LEMMA AtMostOne ==
  ASSUME NEW L, IsFiniteSet(L), Cardinality(L) <= 1
  PROVE  \A r, s \in L : r = s
<1>1. Cardinality(L) \in Nat
  BY FS_CardinalityType
<1>2. CASE Cardinality(L) = 0
  BY <1>2, FS_EmptySet
<1>3. CASE Cardinality(L) = 1
  <2>1. PICK x : L = {x}
    BY <1>3, FS_Singleton
  <2> QED
    BY <2>1
<1> QED
  BY <1>1, <1>2, <1>3

LEMMA OneAtMost ==
  ASSUME NEW L, \A r, s \in L : r = s
  PROVE  IsFiniteSet(L) /\ Cardinality(L) <= 1 /\ (L = {} => Cardinality(L) = 0)
<1>1. CASE L = {}
  BY <1>1, FS_EmptySet
<1>2. CASE L # {}
  <2>1. PICK x : x \in L
    BY <1>2
  <2>2. L = {x}
    BY <2>1
  <2>3. IsFiniteSet({x}) /\ Cardinality({x}) = 1
    BY FS_Singleton
  <2> QED
    BY <1>2, <2>2, <2>3
<1> QED
  BY <1>1, <1>2

Count(L, B, v) == Cardinality(L) + Cardinality(B) + (IF v = "done" THEN 0 ELSE 1)

LEMMA Counted ==
  ASSUME NEW L, NEW B, NEW v, IsFiniteSet(L), IsFiniteSet(B)
  PROVE  Count(L, B, v) <= 1 <=> Single(L, B, v)
<1>1. Cardinality(L) \in Nat /\ Cardinality(B) \in Nat
  BY FS_CardinalityType
<1>2. Cardinality(L) = 0 <=> L = {}
  BY FS_EmptySet
<1>3. Cardinality(B) = 0 <=> B = {}
  BY FS_EmptySet
<1>4. Cardinality(L) <= 1 <=> \A r, s \in L : r = s
  BY AtMostOne, OneAtMost
<1>5. Cardinality(B) <= 1 <=> \A k, l \in B : k = l
  BY AtMostOne, OneAtMost
<1> DEFINE one == \A r, s \in L : r = s
<1> DEFINE two == \A k, l \in B : k = l
<1>6. Single(L, B, v) <=> one /\ two /\ (L # {} => B = {} /\ v = "done") /\ (B # {} => v = "done")
  BY DEF Single
<1>7. (Cardinality(L) <= 1 <=> one) /\ (Cardinality(B) <= 1 <=> two)
  BY <1>4, <1>5
<1> HIDE DEF one, two
<1>8. CASE v = "done"
  BY <1>1, <1>2, <1>3, <1>6, <1>7, <1>8 DEF Count
<1>9. CASE v # "done"
  BY <1>1, <1>2, <1>3, <1>6, <1>7, <1>9 DEF Count
<1> QED
  BY <1>8, <1>9

(* What SetToSeq makes of a finite set. *)
LEMMA Listed ==
  ASSUME NEW S, IsFiniteSet(S)
  PROVE  /\ Cardinality(S) \in Nat
         /\ SetToSeq(S) \in [1..Cardinality(S) -> S]
<1>1. Cardinality(S) \in Nat /\ ExistsBijection(1..Cardinality(S), S)
  BY FS_CardinalityType
<1>2. PICK f : f \in Bijection(1..Cardinality(S), S)
  BY <1>1 DEF ExistsBijection
<1>3. f \in [1..Cardinality(S) -> S] /\ IsInjective(f)
  BY <1>2 DEF Bijection, Injection
<1> QED
  BY <1>1, <1>3 DEF SetToSeq

(* The payloads that are on their way. *)
LEMMA PayloadsFinite ==
  ASSUME NEW L, IsFiniteSet(L)
  PROVE  /\ IsFiniteSet({r.payload : r \in L})
         /\ Cardinality({r.payload : r \in L}) <= Cardinality(L)
<1> DEFINE f == [r \in L |-> r.payload]
<1> DEFINE T == {r.payload : r \in L}
<1>1. f \in [L -> T]
  OBVIOUS
<1>2. \A t \in T : \E s \in L : f[s] = t
  OBVIOUS
<1>3. f \in Surjection(L, T)
  BY <1>1, <1>2 DEF Surjection
<1> HIDE DEF f, T
<1>4. IsFiniteSet(T) /\ Cardinality(T) <= Cardinality(L)
  BY <1>3, FS_Surjection
<1> QED
  BY <1>4 DEF T

-----------------------------------------------------------------------------
(***************************************************************************)
(* Requests and pages.                                                     *)
(***************************************************************************)
Timer == [Quiet EXCEPT !.at = "timer"]

LEMMA RequestFacts ==
  ASSUME NEW n \in Nat
  PROVE  /\ Quiet \in Requests(n)
         /\ Timer \in Requests(n)
         /\ \A j \in 1..n : Asking(j) \in Requests(n)
<1>1. Quiet \in Requests(n)
  BY DEF Requests, Quiet, InOrder, Stage
<1>2. Timer \in Requests(n)
  BY DEF Requests, Quiet, Timer, InOrder, Stage
<1>3. \A j \in 1..n : Asking(j) \in Requests(n)
  BY DEF Requests, Asking, InOrder, Stage
<1> QED
  BY <1>1, <1>2, <1>3

LEMMA RestoreFacts ==
  ASSUME NEW n \in Nat
  PROVE  /\ NoRestore \in Restores(n)
         /\ Restore("list", 0) \in Restores(n)
         /\ \A via \in {"hint", "detail"}, j \in 1..n : Restore(via, j) \in Restores(n)
<1>1. NoRestore \in Restores(n)
  BY DEF Restores, NoRestore, InOrder, Stage
<1>2. Restore("list", 0) \in Restores(n)
  BY DEF Restores, Restore, InOrder, Stage
<1>3. \A via \in {"hint", "detail"}, j \in 1..n : Restore(via, j) \in Restores(n)
  BY DEF Restores, Restore, InOrder, Stage
<1> QED
  BY <1>1, <1>2, <1>3

LEMMA Growing ==
  ASSUME NEW n \in Nat, NEW m \in Nat, n <= m
  PROVE  /\ Pages(n) \subseteq Pages(m)
         /\ Requests(n) \subseteq Requests(m)
         /\ Restores(n) \subseteq Restores(m)
         /\ Launches(n) \subseteq Launches(m)
<1>1. 0..n \subseteq 0..m
  OBVIOUS
<1>2. Pages(n) \subseteq Pages(m)
  BY <1>1 DEF Pages
<1>3. Requests(n) \subseteq Requests(m)
  BY <1>1 DEF Requests
<1>4. Restores(n) \subseteq Restores(m)
  BY <1>1 DEF Restores
<1>5. Launches(n) \subseteq Launches(m)
  BY <1>1 DEF Launches
<1> QED
  BY <1>2, <1>3, <1>4, <1>5

LEMMA ButtonsTyped ==
  ASSUME NEW n \in Nat, NEW u \in Pages(n), NEW live \in BOOLEAN
  PROVE  Buttons(u, live) \in Pages(n)
BY DEF Buttons, Pages

LEMMA PageUpdates ==
  ASSUME NEW n \in Nat, NEW u \in Pages(n)
  PROVE  /\ \A j, i \in 0..n :
              [u EXCEPT !.jobId = j, !.liveJobId = j, !.historyId = i] \in Pages(n)
         /\ \A j \in 0..n : [u EXCEPT !.jobId = j, !.liveJobId = j] \in Pages(n)
         /\ \A j, i \in 0..n, b \in BOOLEAN :
              [u EXCEPT !.historyId = i, !.jobId = j, !.closeOn = b] \in Pages(n)
         /\ \A j, i \in 0..n, b \in BOOLEAN :
              [u EXCEPT !.historyId = i, !.closeOn = b, !.jobId = j] \in Pages(n)
         /\ \A j \in 0..n, t \in {0} \cup Loops :
              [u EXCEPT !.liveJobId = j, !.pollTimer = t] \in Pages(n)
<1> SUFFICES ASSUME NEW j \in 0..n, NEW i \in 0..n, NEW t \in {0} \cup Loops, NEW b \in BOOLEAN
             PROVE  /\ [u EXCEPT !.jobId = j, !.liveJobId = j, !.historyId = i] \in Pages(n)
                    /\ [u EXCEPT !.jobId = j, !.liveJobId = j] \in Pages(n)
                    /\ [u EXCEPT !.historyId = i, !.jobId = j, !.closeOn = b] \in Pages(n)
                    /\ [u EXCEPT !.historyId = i, !.closeOn = b, !.jobId = j] \in Pages(n)
                    /\ [u EXCEPT !.liveJobId = j, !.pollTimer = t] \in Pages(n)
  OBVIOUS
<1>1. [u EXCEPT !.jobId = j, !.liveJobId = j, !.historyId = i] \in Pages(n)
  BY DEF Pages
<1>2. [u EXCEPT !.jobId = j, !.liveJobId = j] \in Pages(n)
  BY DEF Pages
<1>3. [u EXCEPT !.historyId = i, !.jobId = j, !.closeOn = b] \in Pages(n)
  BY DEF Pages
<1>4. [u EXCEPT !.historyId = i, !.closeOn = b, !.jobId = j] \in Pages(n)
  BY DEF Pages
<1>5. [u EXCEPT !.liveJobId = j, !.pollTimer = t] \in Pages(n)
  BY DEF Pages
<1> QED
  BY <1>1, <1>2, <1>3, <1>4, <1>5

LEMMA UseUpdates ==
  ASSUME used \in Uses
  PROVE  /\ Trouble => used' \in Uses /\ used'.starts = used.starts
         /\ Fault => used' \in Uses /\ used'.starts = used.starts
         /\ \A c \in 0..MaxStarts, a \in Nat :
              /\ [used EXCEPT !.starts = c, !.tests = a] \in Uses
              /\ [used EXCEPT !.starts = c, !.tests = a].starts = c
<1>1. \A a, b \in Nat, x \in Uses :
        /\ [x EXCEPT !.trouble = a] \in Uses
        /\ [x EXCEPT !.trouble = a].starts = x.starts
  BY DEF Uses
<1>2. \A a, b \in Nat, x \in Uses :
        /\ [x EXCEPT !.trouble = a, !.faults = b] \in Uses
        /\ [x EXCEPT !.trouble = a, !.faults = b].starts = x.starts
  BY DEF Uses
<1>3. \A c \in 0..MaxStarts, a \in Nat, x \in Uses :
        /\ [x EXCEPT !.starts = c, !.tests = a] \in Uses
        /\ [x EXCEPT !.starts = c, !.tests = a].starts = c
  BY DEF Uses
<1>4. used.trouble + 1 \in Nat /\ used.faults + 1 \in Nat
  BY DEF Uses
<1>5. Trouble => used' \in Uses /\ used'.starts = used.starts
  BY <1>1, <1>4 DEF Trouble
<1>6. Fault => used' \in Uses /\ used'.starts = used.starts
  <2> DEFINE a == used.trouble + 1
  <2> DEFINE b == used.faults + 1
  <2>1. a \in Nat /\ b \in Nat
    BY <1>4
  <2>2. Fault => used' = [used EXCEPT !.trouble = a, !.faults = b]
    BY DEF Fault
  <2> HIDE DEF a, b
  <2> QED
    BY <1>2, <2>1, <2>2
<1> QED
  BY <1>3, <1>5, <1>6

LEMMA RequestAnswered ==
  ASSUME NEW n \in Nat, NEW q \in Requests(n), q.job # 0, NEW r \in Reply
  PROVE  [q EXCEPT !.at = "answered", !.reply = r] \in Requests(n)
<1>1. [q EXCEPT !.at = "answered", !.reply = r]
        \in [at : Stage, job : 0..n, reply : Reply \cup {Unanswered}]
  BY DEF Requests, Stage
<1> QED
  BY <1>1 DEF Requests, InOrder

LEMMA ActiveTyped ==
  ASSUME NEW n \in Nat, NEW u \in Pages(n)
  PROVE  ActiveJob(u) \in 0..n
BY DEF ActiveJob, Pages

LEMMA FreshTyped ==
  ASSUME NEW n \in Nat
  PROVE  FreshPage \in Pages(n)
<1>1. << >> \in Seq(Payload)
  OBVIOUS
<1> QED
  BY <1>1 DEF FreshPage, Pages

LEMMA ToldTyped ==
  ASSUME jobs \in Seq(Job), NEW j \in 1..Len(jobs)
  PROVE  Told(j) \in Reply
<1>1. jobs[j] \in Job
  BY ElementOfSeq
<1> QED
  BY <1>1 DEF Told, Reply, Job

LEMMA ShownTyped ==
  ASSUME NEW n \in Nat, NEW j \in 0..n, NEW r \in Reply
  PROVE  Fingerprint(j, r) \in (Status \cup {"none"}) \X (0..n)
BY DEF Fingerprint, Reply

(* The queue loses its head, or the page comes to rest. *)
LEMMA Launching ==
  ASSUME NEW n \in Nat, NEW u \in Pages(n), launching \subseteq Launches(n),
         IsFiniteSet(launching), LaunchNext(u)
  PROVE  /\ ui' \in Pages(n)
         /\ launching' \subseteq Launches(n)
         /\ IsFiniteSet(launching')
<1>1. CASE u.queue = << >>
  BY <1>1, ButtonsTyped DEF LaunchNext
<1>2. CASE u.queue # << >>
  <2> DEFINE r == [payload |-> Head(u.queue), job |-> 0]
  <2>1. u.queue \in Seq(Payload)
    BY DEF Pages
  <2>2. Head(u.queue) \in Payload /\ Tail(u.queue) \in Seq(Payload)
    BY <1>2, <2>1, HeadTailProperties
  <2>3. ui' = [u EXCEPT !.queue = Tail(u.queue)] /\ launching' = launching \cup {r}
    BY <1>2 DEF LaunchNext
  <2>4. ui' \in Pages(n)
    BY <2>2, <2>3 DEF Pages
  <2>5. r \in Launches(n)
    BY <2>2 DEF Launches
  <2> HIDE DEF r
  <2>6. IsFiniteSet(launching')
    BY <2>3, FS_AddElement
  <2> QED
    BY <2>3, <2>4, <2>5, <2>6
<1> QED
  BY <1>1, <1>2

(* The first idle loop asks for the active job. *)
LEMMA Polling ==
  ASSUME NEW n \in Nat, loops \in [Loops -> Requests(n)], NEW u, BeginPolling(u),
         ActiveJob(u) \in 1..n
  PROVE  /\ loops' \in [Loops -> Requests(n)]
         /\ \E k \in IdleLoops : loops' = [loops EXCEPT ![k] = Asking(ActiveJob(u))]
<1>1. IdleLoops \in SUBSET Nat /\ IdleLoops # {}
  BY DEF IdleLoops, Loops, BeginPolling
<1>2. Min(IdleLoops) \in IdleLoops
  BY <1>1, MinIsIn
<1>3. loops' = [loops EXCEPT ![Min(IdleLoops)] = Asking(ActiveJob(u))]
  BY DEF BeginPolling
<1>4. Asking(ActiveJob(u)) \in Requests(n)
  BY RequestFacts
<1> QED
  BY <1>2, <1>3, <1>4

LEMMA PollingUnless ==
  ASSUME NEW n \in Nat, loops \in [Loops -> Requests(n)], NEW u, PollUnlessTimer(u),
         ActiveJob(u) \in 1..n
  PROVE  loops' \in [Loops -> Requests(n)]
<1>1. CASE u.pollTimer = 0
  BY <1>1, Polling DEF PollUnlessTimer
<1>2. CASE u.pollTimer # 0
  BY <1>2 DEF PollUnlessTimer
<1> QED
  BY <1>1, <1>2

-----------------------------------------------------------------------------
(***************************************************************************)
(* The steps.                                                              *)
(***************************************************************************)
LEMMA NextCases ==
  ASSUME Next
  PROVE  \/ \E r \in launching : AcceptStart(r) \/ JobStarted(r) \/ StartFailed(r)
         \/ \E j \in DOMAIN jobs : RecordRow(j) \/ FinishJob(j) \/ OpenHistoryJob(j)
         \/ \E j \in stops : AcceptStop(j) \/ StopLost(j)
         \/ \E l \in Loops : AnswerPoll(l) \/ PollTick(l) \/ PollUnchanged(l)
                             \/ PollNews(l) \/ PollFailed(l)
         \/ AnswerOpening \/ HistoryAnswered \/ HistoryFailed
         \/ AnswerRestore \/ RestoreAnswered \/ RestoreFailed
         \/ ClickStart \/ ChangeSelection \/ ClickStop \/ CloseHistoryView \/ Reload
<1>1. CASE ServerStep
  BY <1>1 DEF ServerStep, RunJobs
<1>2. CASE PageStep
  BY <1>2 DEF PageStep
<1>3. CASE UserStep
  BY <1>3 DEF UserStep
<1>4. CASE FaultStep
  BY <1>4 DEF FaultStep
<1> QED
  BY <1>1, <1>2, <1>3, <1>4 DEF Next

(* The jobs of the server: none is forgotten, and one that is over stays over. *)
JobsEvolve ==
  /\ jobs' \in Seq(Job)
  /\ Len(jobs) <= Len(jobs')
  /\ \A j \in DOMAIN jobs : ~IsLive(jobs[j].status) => ~IsLive(jobs'[j].status)

(* A job takes a step; which ones are live is up to that step. *)
LEMMA JobChanges ==
  ASSUME jobs \in Seq(Job), NEW j \in DOMAIN jobs, NEW x \in Job, jobs' = [jobs EXCEPT ![j] = x],
         ~IsLive(jobs[j].status) => ~IsLive(x.status)
  PROVE  /\ JobsEvolve
         /\ Len(jobs') = Len(jobs)
         /\ \A i \in DOMAIN jobs : jobs'[i] = IF i = j THEN x ELSE jobs[i]
<1>1. DOMAIN jobs = 1..Len(jobs)
  BY LenProperties
<1>2. /\ jobs' \in Seq(Job)
      /\ Len(jobs') = Len(jobs)
      /\ \A i \in 1..Len(jobs) : jobs'[i] = IF i = j THEN x ELSE jobs[i]
  BY <1>1, ExceptSeq
<1> QED
  BY <1>1, <1>2 DEF JobsEvolve

(* New jobs are running ones. *)
LEMMA JobsAdded ==
  ASSUME jobs \in Seq(Job), NEW s \in Seq(Job), jobs' = jobs \o s
  PROVE  /\ JobsEvolve
         /\ Len(jobs') = Len(jobs) + Len(s)
         /\ DOMAIN jobs' = 1..(Len(jobs) + Len(s))
         /\ \A i \in 1..Len(jobs) : jobs'[i] = jobs[i]
         /\ \A i \in 1..Len(s) : jobs'[Len(jobs) + i] = s[i]
<1>1. DOMAIN jobs = 1..Len(jobs) /\ Len(jobs) \in Nat /\ Len(s) \in Nat
  BY LenProperties
<1>2. /\ jobs' \in Seq(Job)
      /\ Len(jobs') = Len(jobs) + Len(s)
      /\ \A i \in 1..(Len(jobs) + Len(s)) :
           jobs'[i] = IF i <= Len(jobs) THEN jobs[i] ELSE s[i - Len(jobs)]
  BY ConcatProperties
<1>3. DOMAIN jobs' = 1..(Len(jobs) + Len(s))
  BY <1>2, LenProperties
<1>4. \A i \in 1..Len(jobs) : jobs'[i] = jobs[i]
  BY <1>1, <1>2
<1>5. \A i \in 1..Len(s) : jobs'[Len(jobs) + i] = s[i]
  BY <1>1, <1>2
<1> QED
  BY <1>1, <1>2, <1>3, <1>4, <1>5 DEF JobsEvolve

(* What a reload leaves behind at the server. *)
LEMMA ReloadAdds ==
  ASSUME Typed, Reload
  PROVE  \E s \in Seq(Job) :
           /\ jobs' = jobs \o s
           /\ Len(s) <= Cardinality({q \in launching : q.job = 0})
<1> DEFINE L == {q \in launching : q.job = 0}
<1> DEFINE P == {r.payload : r \in L}
<1>1. IsFiniteSet(launching) /\ launching \subseteq Launches(Len(jobs))
  BY DEF Typed, Fits
<1>2. IsFiniteSet(L)
  BY <1>1, FS_Subset
<1>3. P \subseteq Payload
  BY <1>1 DEF Launches
<1>4. PICK S \in SUBSET P :
        jobs' = jobs \o [i \in 1..Cardinality(S) |-> NewJob(SetToSeq(S)[i])]
  BY DEF Reload
<1> HIDE DEF L
<1>5. IsFiniteSet(P) /\ Cardinality(P) <= Cardinality(L)
  BY <1>2, PayloadsFinite
<1> HIDE DEF P
<1>6. IsFiniteSet(S) /\ Cardinality(S) <= Cardinality(P)
  BY <1>5, FS_Subset
<1>7. Cardinality(S) \in Nat /\ SetToSeq(S) \in [1..Cardinality(S) -> S]
  BY <1>6, Listed
<1> DEFINE s == [i \in 1..Cardinality(S) |-> NewJob(SetToSeq(S)[i])]
<1>8. \A i \in 1..Cardinality(S) : NewJob(SetToSeq(S)[i]) \in Job
  BY <1>3, <1>7 DEF NewJob, Job, Status, LiveStatus
<1>9. s \in Seq(Job) /\ Len(s) = Cardinality(S)
  BY <1>7, <1>8
<1>10. Cardinality(P) \in Nat /\ Cardinality(L) \in Nat
  BY <1>2, <1>5, FS_CardinalityType
<1>11. jobs' = jobs \o s
  BY <1>4
<1> HIDE DEF s
<1>12. Len(s) <= Cardinality(L)
  BY <1>5, <1>6, <1>7, <1>9, <1>10
<1> QED
  BY <1>9, <1>11, <1>12 DEF L

LEMMA AllJobsEvolve ==
  ASSUME Typed, [Next]_vars
  PROVE  JobsEvolve
<1>0. jobs \in Seq(Job) /\ DOMAIN jobs = 1..Len(jobs) /\ Len(jobs) \in Nat
  BY LenProperties DEF Typed
<1>1. ASSUME jobs' = jobs
      PROVE  JobsEvolve
  BY <1>0, <1>1 DEF JobsEvolve
<1>2. ASSUME NEW r \in launching, AcceptStart(r)
      PROVE  JobsEvolve
  <2>1. r.payload \in Payload
    BY DEF Typed, Fits, Launches
  <2>2. NewJob(r.payload) \in Job
    BY <2>1 DEF NewJob, Job, Status, LiveStatus
  <2>3. jobs' = jobs \o <<NewJob(r.payload)>> /\ <<NewJob(r.payload)>> \in Seq(Job)
    BY <1>0, <1>2, <2>2 DEF AcceptStart
  <2> QED
    BY <1>0, <2>3, JobsAdded
<1>3. ASSUME NEW j \in DOMAIN jobs, RecordRow(j) \/ FinishJob(j)
      PROVE  JobsEvolve
  <2>1. jobs[j] \in Job
    BY <1>0
  <2>2. jobs' = [jobs EXCEPT ![j] = jobs'[j]] /\ jobs'[j] \in Job
    <3>1. CASE RecordRow(j)
      BY <1>0, <2>1, <3>1 DEF RecordRow, Job
    <3>2. CASE FinishJob(j)
      <4>1. PICK x \in Finished : jobs' = [jobs EXCEPT ![j].status = x]
        BY <3>2 DEF FinishJob, Finished
      <4>2. jobs'[j] = [jobs[j] EXCEPT !.status = x]
        BY <1>0, <4>1
      <4> QED
        BY <1>0, <2>1, <4>1, <4>2 DEF Job, Status
    <3> QED
      BY <1>3, <3>1, <3>2
  <2>3. IsLive(jobs[j].status)
    BY <1>3 DEF RecordRow, FinishJob, IsLive, LiveStatus
  <2> QED
    BY <1>0, <2>2, <2>3, JobChanges
<1>4. ASSUME NEW j \in stops, AcceptStop(j)
      PROVE  JobsEvolve
  <2>0. j \in DOMAIN jobs
    BY <1>0 DEF Typed, Fits
  <2>1. CASE jobs[j].status = "running"
    <3>1. jobs[j] \in Job
      BY <1>0, <2>0
    <3>2. jobs' = [jobs EXCEPT ![j] = jobs'[j]] /\ jobs'[j] \in Job
      BY <1>0, <1>4, <2>0, <2>1, <3>1 DEF AcceptStop, Job, Status, LiveStatus
    <3>3. IsLive(jobs[j].status)
      BY <2>1 DEF IsLive, LiveStatus
    <3> QED
      BY <1>0, <2>0, <3>2, <3>3, JobChanges
  <2>2. CASE jobs[j].status # "running"
    BY <1>1, <1>4, <2>2 DEF AcceptStop
  <2> QED
    BY <2>1, <2>2
<1>5. ASSUME Reload
      PROVE  JobsEvolve
  BY <1>0, <1>5, ReloadAdds, JobsAdded
<1>6. CASE UNCHANGED vars
  BY <1>1, <1>6 DEF vars
<1>7. CASE Next
  <2>1. \A r : JobStarted(r) \/ StartFailed(r) => jobs' = jobs
    BY DEF JobStarted, StartFailed
  <2>2. \A j : OpenHistoryJob(j) \/ StopLost(j) => jobs' = jobs
    BY DEF OpenHistoryJob, StopLost
  <2>3. \A l : AnswerPoll(l) \/ PollTick(l) \/ PollUnchanged(l) \/ PollNews(l) \/ PollFailed(l)
               => jobs' = jobs
    BY DEF AnswerPoll, PollTick, PollUnchanged, PollNews, PollFailed
  <2>4. AnswerOpening \/ HistoryAnswered \/ HistoryFailed \/ AnswerRestore \/ RestoreAnswered
          \/ RestoreFailed => jobs' = jobs
    BY DEF AnswerOpening, HistoryAnswered, HistoryFailed, AnswerRestore, RestoreAnswered,
           RestoreFailed
  <2>5. ClickStart \/ ChangeSelection \/ ClickStop \/ CloseHistoryView => jobs' = jobs
    BY DEF ClickStart, ChangeSelection, ClickStop, CloseHistoryView
  <2> QED
    BY <1>1, <1>2, <1>3, <1>4, <1>5, <1>7, <2>1, <2>2, <2>3, <2>4, <2>5, NextCases
<1> QED
  BY <1>6, <1>7

LEMMA TypedNext ==
  ASSUME Typed, [Next]_vars
  PROVE  Typed'
<1> DEFINE n == Len(jobs)
<1> DEFINE m == Len(jobs')
<1> DEFINE Fit == Fits(m, ui', hint', loops', launching', stops', opening', restoring',
                       cancelled', used')
<1>0. /\ jobs \in Seq(Job) /\ n \in Nat /\ DOMAIN jobs = 1..n
      /\ jobs' \in Seq(Job) /\ m \in Nat /\ n <= m
  BY AllJobsEvolve, LenProperties DEF Typed, JobsEvolve
<1>1. Fits(n, ui, hint, loops, launching, stops, opening, restoring, cancelled, used)
  BY DEF Typed
<1>2. Fits(m, ui, hint, loops, launching, stops, opening, restoring, cancelled, used)
  BY <1>0, <1>1, Growing DEF Fits
<1>3. ASSUME NEW r \in launching, AcceptStart(r)
      PROVE  Fit
  <2>1. m = n + 1
    BY <1>0, <1>3 DEF AcceptStart
  <2> DEFINE x == [r EXCEPT !.job = n + 1]
  <2>2. x \in Launches(m)
    BY <1>1, <2>1 DEF Launches, Fits
  <2>3. launching' = (launching \ {r}) \cup {x}
    BY <1>3 DEF AcceptStart
  <2> HIDE DEF x
  <2>4. IsFiniteSet(launching')
    BY <1>1, <2>3, FS_RemoveElement, FS_AddElement DEF Fits
  <2> QED
    BY <1>2, <1>3, <2>2, <2>3, <2>4 DEF AcceptStart, Fits
<1>4. ASSUME NEW r \in launching, JobStarted(r)
      PROVE  Fit
  <2>1. m = n /\ r.job \in 1..n
    BY <1>1, <1>4 DEF JobStarted, Fits, Launches
  <2> DEFINE u == [ui EXCEPT !.jobId = r.job, !.liveJobId = r.job, !.historyId = 0]
  <2>2. u \in Pages(n)
    <3>1. r.job \in 0..n /\ 0 \in 0..n /\ ui \in Pages(n)
      BY <1>0, <1>1, <2>1 DEF Fits
    <3> QED
      BY <1>0, <3>1, PageUpdates
  <2>3. ui' = Buttons(u, TRUE)
    BY <1>4 DEF JobStarted
  <2>4. ui' \in Pages(n) /\ ActiveJob(ui') \in 1..n /\ hint' \in 0..n
    <3>1. ui' \in Pages(n)
      BY <1>0, <2>2, <2>3, ButtonsTyped
    <3>2. ui'.liveJobId = r.job
      BY <1>1, <2>3 DEF Buttons, Fits, Pages
    <3>3. hint' = r.job
      BY <1>4 DEF JobStarted
    <3> QED
      BY <2>1, <3>1, <3>2, <3>3 DEF ActiveJob
  <2>5. loops' \in [Loops -> Requests(n)]
    BY <1>0, <1>1, <1>4, <2>4, Polling DEF JobStarted, Fits
  <2>6. IsFiniteSet(launching') /\ launching' \subseteq launching
    BY <1>1, <1>4, FS_RemoveElement DEF JobStarted, Fits
  <2> QED
    BY <1>1, <1>4, <2>1, <2>4, <2>5, <2>6 DEF JobStarted, Fits
<1>5. ASSUME NEW r \in launching, StartFailed(r)
      PROVE  Fit
  <2> DEFINE u == [ui EXCEPT !.queue = << >>]
  <2>1. << >> \in Seq(Payload)
    OBVIOUS
  <2>2. u \in Pages(m)
    BY <1>2, <2>1 DEF Fits, Pages
  <2>3. ui' \in Pages(m)
    BY <1>0, <1>5, <2>2, ButtonsTyped DEF StartFailed
  <2>4. IsFiniteSet(launching') /\ launching' \subseteq launching
    BY <1>1, <1>5, FS_RemoveElement DEF StartFailed, Fits
  <2>5. used' \in Uses /\ used'.starts = used.starts
    BY <1>1, <1>5, UseUpdates DEF StartFailed, Fits
  <2> QED
    BY <1>2, <1>5, <2>3, <2>4, <2>5 DEF StartFailed, Fits
<1>6. ASSUME NEW j \in DOMAIN jobs, RecordRow(j) \/ FinishJob(j)
      PROVE  Fit
  BY <1>2, <1>6 DEF RecordRow, FinishJob, Fits
<1>7. ASSUME NEW j \in DOMAIN jobs, OpenHistoryJob(j)
      PROVE  Fit
  <2>1. m = n
    BY <1>7 DEF OpenHistoryJob
  <2>2. ui' \in Pages(n)
    <3>1. ui' = [ui EXCEPT !.historyId = j, !.jobId = j, !.closeOn = TRUE] /\ j \in 0..n
      BY <1>0, <1>7 DEF OpenHistoryJob
    <3> QED
      BY <1>0, <1>1, <3>1, PageUpdates DEF Fits
  <2>3. opening' \in Requests(n)
    BY <1>0, <1>1, <1>7, RequestFacts DEF OpenHistoryJob, Fits
  <2>4. used' \in Uses /\ used'.starts = used.starts
    BY <1>1, <1>7, UseUpdates DEF OpenHistoryJob, Fits
  <2> QED
    BY <1>1, <1>7, <2>1, <2>2, <2>3, <2>4 DEF OpenHistoryJob, Fits
<1>8. ASSUME NEW j \in stops, AcceptStop(j)
      PROVE  Fit
  BY <1>2, <1>8 DEF AcceptStop, Fits
<1>9. ASSUME NEW j \in stops, StopLost(j)
      PROVE  Fit
  <2>1. used' \in Uses /\ used'.starts = used.starts
    BY <1>1, <1>9, UseUpdates DEF StopLost, Fits
  <2> QED
    BY <1>2, <1>9, <2>1 DEF StopLost, Fits
<1>10. ASSUME NEW l \in Loops, AnswerPoll(l)
       PROVE  Fit
  <2>1. loops[l] \in Requests(n) /\ loops[l].job \in 1..n
    BY <1>0, <1>1, <1>10 DEF AnswerPoll, Fits, Requests, InOrder
  <2>2. Told(loops[l].job) \in Reply
    BY <1>0, <2>1, ToldTyped
  <2> DEFINE x == [loops[l] EXCEPT !.at = "answered", !.reply = Told(loops[l].job)]
  <2>3. x \in Requests(n)
    <3>1. loops[l].job # 0
      BY <2>1
    <3> QED
      BY <1>0, <2>1, <2>2, <3>1, RequestAnswered
  <2>4. loops' = [loops EXCEPT ![l] = x]
    BY <1>1, <1>10 DEF AnswerPoll, Fits
  <2> HIDE DEF x
  <2>5. loops' \in [Loops -> Requests(n)]
    BY <1>1, <2>3, <2>4 DEF Fits
  <2> QED
    BY <1>1, <1>10, <2>5 DEF AnswerPoll, Fits
<1>11. ASSUME NEW l \in Loops, PollTick(l)
       PROVE  Fit
  <2>1. ActiveJob(ui) \in 0..n
    BY <1>0, <1>1, ActiveTyped DEF Fits
  <2> DEFINE x == IF ActiveJob(ui) = 0 THEN Quiet ELSE Asking(ActiveJob(ui))
  <2>2. x \in Requests(n)
    BY <1>0, <2>1, RequestFacts
  <2>3. loops' = [loops EXCEPT ![l] = x]
    BY <1>11 DEF PollTick
  <2> HIDE DEF x
  <2>4. loops' \in [Loops -> Requests(n)]
    BY <1>1, <2>2, <2>3 DEF Fits
  <2> QED
    BY <1>1, <1>11, <2>4 DEF PollTick, Fits
<1>12. ASSUME NEW l \in Loops, NEW u \in Pages(n), Rearm(l, u)
       PROVE  ui' \in Pages(n) /\ loops' \in [Loops -> Requests(n)]
  <2>1. [u EXCEPT !.pollTimer = l] \in Pages(n)
    BY DEF Pages
  <2>2. ui' \in Pages(n)
    <3>1. ui' = Buttons([u EXCEPT !.pollTimer = l], IsLive(loops[l].reply.status))
      BY <1>12 DEF Rearm
    <3>2. IsLive(loops[l].reply.status) \in BOOLEAN
      BY DEF IsLive
    <3> QED
      BY <1>0, <2>1, <3>1, <3>2, ButtonsTyped
  <2>3. loops' = [loops EXCEPT ![l] = Timer]
    BY <1>12 DEF Rearm, Timer
  <2> QED
    BY <1>0, <1>1, <2>2, <2>3, RequestFacts DEF Fits
<1>13. ASSUME NEW l \in Loops, PollUnchanged(l)
       PROVE  Fit
  <2>1. ui' \in Pages(n) /\ loops' \in [Loops -> Requests(n)]
    BY <1>1, <1>12, <1>13 DEF PollUnchanged, Fits
  <2> QED
    BY <1>1, <1>13, <2>1 DEF PollUnchanged, Fits
<1>14. ASSUME NEW l \in Loops, PollNews(l)
       PROVE  Fit
  <2> DEFINE f == Fingerprint(loops[l].job, loops[l].reply)
  <2> DEFINE u == [ui EXCEPT !.shown = f]
  <2>1. loops[l].job \in 0..n /\ loops[l].reply \in Reply
    BY <1>1, <1>14 DEF PollNews, Fits, Requests, InOrder
  <2>2. f \in (Status \cup {"none"}) \X (0..n)
    BY <1>0, <2>1, ShownTyped
  <2> HIDE DEF f
  <2>3. u \in Pages(n)
    BY <1>1, <2>2 DEF Fits, Pages
  <2>4. CASE IsLive(loops[l].reply.status)
    <3>1. Rearm(l, u) /\ UNCHANGED <<hint, launching>>
      BY <1>14, <2>4 DEF PollNews, f
    <3>2. ui' \in Pages(n) /\ loops' \in [Loops -> Requests(n)]
      BY <1>12, <2>3, <3>1
    <3> QED
      BY <1>1, <1>14, <3>1, <3>2 DEF PollNews, Fits
  <2>5. CASE ~IsLive(loops[l].reply.status)
    <3> DEFINE q == IF loops[l].reply.status = "stopped" THEN << >> ELSE u.queue
    <3> DEFINE done == [u EXCEPT !.liveJobId = 0, !.pollTimer = 0, !.queue = q]
    <3>1. LaunchNext(done) /\ hint' = 0 /\ loops' = [loops EXCEPT ![l] = Quiet]
      BY <1>14, <2>5 DEF PollNews, f
    <3>2. << >> \in Seq(Payload)
      OBVIOUS
    <3>3. q \in Seq(Payload)
      BY <2>3, <3>2 DEF Pages
    <3> HIDE DEF q
    <3>4. done \in Pages(n)
      <4> DEFINE v == [u EXCEPT !.liveJobId = 0, !.pollTimer = 0]
      <4>1. v \in Pages(n)
        <5>1. 0 \in 0..n /\ 0 \in {0} \cup Loops
          BY <1>0
        <5> QED
          BY <1>0, <2>3, <5>1, PageUpdates
      <4>2. [v EXCEPT !.queue = q] \in Pages(n)
        BY <3>3, <4>1 DEF Pages
      <4> QED
        BY <4>2
    <3> HIDE DEF done
    <3>5. ui' \in Pages(n) /\ launching' \subseteq Launches(n) /\ IsFiniteSet(launching')
      BY <1>0, <1>1, <3>1, <3>4, Launching DEF Fits
    <3>6. loops' \in [Loops -> Requests(n)]
      BY <1>0, <1>1, <3>1, RequestFacts DEF Fits
    <3> QED
      BY <1>1, <1>14, <3>1, <3>5, <3>6 DEF PollNews, Fits
  <2> QED
    BY <2>4, <2>5
<1>15. ASSUME NEW l \in Loops, PollFailed(l)
       PROVE  Fit
  <2> DEFINE u == [ui EXCEPT !.liveJobId = 0, !.pollTimer = 0]
  <2> DEFINE ls == [loops EXCEPT ![l] = Quiet]
  <2>1. u \in Pages(n)
    <3>1. 0 \in 0..n /\ 0 \in {0} \cup Loops /\ ui \in Pages(n)
      BY <1>0, <1>1 DEF Fits
    <3> QED
      BY <1>0, <3>1, PageUpdates
  <2>2. ui' \in Pages(n)
    BY <1>0, <1>15, <2>1, ButtonsTyped DEF PollFailed
  <2>3. Quiet \in Requests(n) /\ ls \in [Loops -> Requests(n)]
    BY <1>0, <1>1, RequestFacts DEF Fits
  <2> HIDE DEF ls
  <2>4. loops' = ClearTimer(ls, ui)
    BY <1>15 DEF PollFailed, ls
  <2>5. loops' \in [Loops -> Requests(n)]
    BY <2>3, <2>4 DEF ClearTimer
  <2>6. used' \in Uses /\ used'.starts = used.starts
    BY <1>1, <1>15, UseUpdates DEF PollFailed, Fits
  <2>7. hint' \in 0..n /\ m = n
    BY <1>0, <1>15 DEF PollFailed
  <2> QED
    BY <1>1, <1>15, <2>2, <2>5, <2>6, <2>7 DEF PollFailed, Fits
<1>16. ASSUME AnswerOpening
       PROVE  Fit
  <2>1. opening.job \in 1..n
    BY <1>0, <1>1, <1>16 DEF AnswerOpening, Fits, Requests, InOrder
  <2>2. Told(opening.job) \in Reply
    BY <1>0, <2>1, ToldTyped
  <2>3. opening' \in Requests(n)
    <3>1. opening.job # 0 /\ opening \in Requests(n)
      BY <1>1, <2>1 DEF Fits
    <3>2. opening' = [opening EXCEPT !.at = "answered", !.reply = Told(opening.job)]
      BY <1>16 DEF AnswerOpening
    <3> QED
      BY <1>0, <2>2, <3>1, <3>2, RequestAnswered
  <2> QED
    BY <1>1, <1>16, <2>3 DEF AnswerOpening, Fits
<1>17. ASSUME HistoryAnswered
       PROVE  Fit
  <2>1. opening.job \in 1..n
    BY <1>0, <1>1, <1>17 DEF HistoryAnswered, Fits, Requests, InOrder
  <2>2. opening' \in Requests(n)
    BY <1>0, <1>17, RequestFacts DEF HistoryAnswered
  <2>3. CASE IsLive(opening.reply.status)
    <3> DEFINE u == [ui EXCEPT !.liveJobId = opening.job]
    <3>1. u \in Pages(n)
      BY <1>1, <2>1 DEF Fits, Pages
    <3>2. ui' = Buttons(u, TRUE) /\ hint' = opening.job /\ PollUnlessTimer(ui')
      BY <1>17, <2>3 DEF HistoryAnswered
    <3>3. ui' \in Pages(n) /\ ActiveJob(ui') \in 1..n /\ hint' \in 0..n
      <4>1. ui' \in Pages(n)
        BY <1>0, <3>1, <3>2, ButtonsTyped
      <4>2. ui'.liveJobId = opening.job
        BY <1>1, <3>2 DEF Buttons, Fits, Pages
      <4>3. ActiveJob(ui') = opening.job
        BY <2>1, <4>2 DEF ActiveJob
      <4>4. hint' \in 0..n
        BY <1>0, <2>1, <3>2
      <4>5. ActiveJob(ui') \in 1..n
        BY <1>0, <2>1, <4>3
      <4> QED
        BY <4>1, <4>4, <4>5
    <3>4. loops' \in [Loops -> Requests(n)]
      BY <1>0, <1>1, <3>2, <3>3, PollingUnless DEF Fits
    <3> QED
      BY <1>1, <1>17, <2>1, <2>2, <3>2, <3>3, <3>4 DEF HistoryAnswered, Fits
  <2>4. CASE ~IsLive(opening.reply.status)
    BY <1>1, <1>17, <2>2, <2>4 DEF HistoryAnswered, Fits
  <2> QED
    BY <2>3, <2>4
<1>18. ASSUME HistoryFailed
       PROVE  Fit
  <2>1. opening' \in Requests(n)
    BY <1>0, <1>18, RequestFacts DEF HistoryFailed
  <2> QED
    BY <1>1, <1>18, <2>1 DEF HistoryFailed, Fits
<1>19. ASSUME AnswerRestore
       PROVE  Fit
  <2>1. CASE restoring.via = "list"
    <3> DEFINE live == {j \in DOMAIN jobs : IsLive(jobs[j].status)}
    <3> DEFINE j == IF live = {} THEN 0 ELSE Max(live)
    <3>1. restoring' = [restoring EXCEPT !.at = "answered", !.job = j]
      BY <1>19, <2>1 DEF AnswerRestore
    <3>2. j \in 0..n
      <4>1. live \in SUBSET Nat /\ \A x \in live : x \in 1..n /\ x <= n
        BY <1>0
      <4> HIDE DEF live
      <4>2. ASSUME live # {}
            PROVE  Max(live) \in live
        BY <1>0, <4>1, <4>2, MaxIsIn
      <4>3. CASE live = {}
        BY <1>0, <4>3
      <4>4. CASE live # {}
        <5>1. Max(live) \in 1..n
          BY <4>1, <4>2, <4>4
        <5>2. j = Max(live)
          BY <4>4
        <5> QED
          BY <1>0, <5>1, <5>2
      <4> QED
        BY <4>3, <4>4
    <3> HIDE DEF j
    <3>3. restoring' \in Restores(n)
      BY <1>1, <2>1, <3>1, <3>2 DEF Fits, Restores, Stage
    <3> QED
      BY <1>1, <1>19, <3>3 DEF AnswerRestore, Fits
  <2>2. CASE restoring.via # "list"
    <3>1. restoring.via \in {"hint", "detail"} /\ restoring.job \in 1..n
      BY <1>0, <1>1, <1>19, <2>2 DEF AnswerRestore, Fits, Restores, InOrder
    <3>2. Told(restoring.job) \in Reply
      BY <1>0, <3>1, ToldTyped
    <3>3. restoring' = [restoring EXCEPT !.at = "answered", !.reply = Told(restoring.job)]
      BY <1>19, <2>2 DEF AnswerRestore
    <3>4. restoring' \in Restores(n)
      BY <1>1, <3>1, <3>2, <3>3 DEF Fits, Restores, InOrder, Stage
    <3> QED
      BY <1>1, <1>19, <3>4 DEF AnswerRestore, Fits
  <2> QED
    BY <2>1, <2>2
<1>20. ASSUME RestoreAnswered
       PROVE  Fit
  <2>1. restoring.via = "list" \/ restoring.job \in 1..n
    BY <1>0, <1>1, <1>20 DEF RestoreAnswered, Fits, Restores, InOrder
  <2>2. restoring.job \in 0..n
    BY <1>1 DEF Fits, Restores
  <2>3. CASE /\ restoring.via # "list" /\ Attach(restoring.job)
             /\ restoring' = NoRestore
    <3> DEFINE u == [ui EXCEPT !.jobId = restoring.job, !.liveJobId = restoring.job]
    <3>1. restoring.job \in 1..n /\ u \in Pages(n)
      BY <1>0, <1>1, <2>1, <2>2, <2>3, PageUpdates DEF Fits
    <3>2. ui' = Buttons(u, TRUE) /\ hint' = restoring.job /\ PollUnlessTimer(ui')
      BY <2>3 DEF Attach
    <3>3. ui' \in Pages(n) /\ ActiveJob(ui') \in 1..n /\ hint' \in 0..n
      <4>1. ui' \in Pages(n)
        BY <1>0, <3>1, <3>2, ButtonsTyped
      <4>2. ui'.liveJobId = restoring.job
        BY <1>1, <3>2 DEF Buttons, Fits, Pages
      <4>3. ActiveJob(ui') = restoring.job
        BY <3>1, <4>2 DEF ActiveJob
      <4>4. hint' \in 0..n
        BY <1>0, <3>1, <3>2
      <4>5. ActiveJob(ui') \in 1..n
        BY <1>0, <3>1, <4>3
      <4> QED
        BY <4>1, <4>4, <4>5
    <3>4. loops' \in [Loops -> Requests(n)]
      BY <1>0, <1>1, <3>2, <3>3, PollingUnless DEF Fits
    <3> QED
      BY <1>0, <1>1, <1>20, <2>3, <3>1, <3>2, <3>3, <3>4, RestoreFacts DEF RestoreAnswered, Fits
  <2>4. CASE /\ hint' = 0
             /\ restoring' = Restore("list", 0)
             /\ UNCHANGED <<ui, loops>>
    BY <1>0, <1>1, <1>20, <2>4, RestoreFacts DEF RestoreAnswered, Fits
  <2>5. CASE /\ restoring.job # 0
             /\ restoring' = Restore("detail", restoring.job)
             /\ UNCHANGED <<ui, hint, loops>>
    BY <1>0, <1>1, <1>20, <2>2, <2>5, RestoreFacts DEF RestoreAnswered, Fits
  <2>6. CASE /\ restoring' = NoRestore
             /\ UNCHANGED <<ui, hint, loops>>
    BY <1>0, <1>1, <1>20, <2>6, RestoreFacts DEF RestoreAnswered, Fits
  <2> QED
    BY <1>20, <2>3, <2>4, <2>5, <2>6 DEF RestoreAnswered
<1>21. ASSUME RestoreFailed
       PROVE  Fit
  <2>1. used' \in Uses /\ used'.starts = used.starts
    BY <1>1, <1>21 DEF RestoreFailed, Fits, Uses
  <2> QED
    BY <1>0, <1>1, <1>21, <2>1, RestoreFacts DEF RestoreFailed, Fits
<1>22. ASSUME ClickStart
       PROVE  Fit
  <2>1. PICK k \in 1..Min({MaxTests, MaxJobs - used.tests}) :
          /\ used' = [used EXCEPT !.starts = @ + 1, !.tests = @ + k]
          /\ LaunchNext([ui EXCEPT
               !.startOn = FALSE,
               !.queue = [t \in 1..k |-> [click |-> used.starts + 1, test |-> t]]])
    BY <1>22 DEF ClickStart
  <2> DEFINE q == [t \in 1..k |-> [click |-> used.starts + 1, test |-> t]]
  <2> DEFINE u == [ui EXCEPT !.startOn = FALSE, !.queue = q]
  <2>2. k \in Nat /\ k <= MaxTests
    <3>1. MaxTests \in Int /\ MaxJobs - used.tests \in Int
      BY <1>1, BoundsAssumption DEF Fits, Uses
    <3>2. Min({MaxTests, MaxJobs - used.tests}) \in Int
          /\ Min({MaxTests, MaxJobs - used.tests}) <= MaxTests
      BY <3>1, MinOfTwo
    <3> QED
      BY <3>1, <3>2
  <2>3. used.starts \in Nat /\ used.starts + 1 \in 1..MaxStarts
    BY <1>1, <1>22, BoundsAssumption DEF ClickStart, Fits, Uses
  <2>4. \A t \in 1..k : [click |-> used.starts + 1, test |-> t] \in Payload
    BY <2>2, <2>3, BoundsAssumption DEF Payload
  <2>5. q \in Seq(Payload)
    BY <2>2, <2>4
  <2> HIDE DEF q
  <2>6. u \in Pages(n)
    BY <1>1, <2>5 DEF Fits, Pages
  <2>7. LaunchNext(u)
    BY <2>1 DEF q
  <2> HIDE DEF u
  <2>8. ui' \in Pages(n) /\ launching' \subseteq Launches(n) /\ IsFiniteSet(launching')
    BY <1>0, <1>1, <2>6, <2>7, Launching DEF Fits
  <2>9. used' \in Uses /\ used'.starts = used.starts + 1
    <3>1. used.tests + k \in Nat
      BY <1>1, <2>2 DEF Fits, Uses
    <3>2. used.starts + 1 \in 0..MaxStarts
      BY <2>3, BoundsAssumption
    <3> QED
      BY <1>1, <2>1, <3>1, <3>2, UseUpdates DEF Fits
  <2> QED
    BY <1>1, <1>22, <2>3, <2>8, <2>9 DEF ClickStart, Fits
<1>23. ASSUME ChangeSelection
       PROVE  Fit
  <2>1. ui' \in Pages(n)
    BY <1>1, <1>23 DEF ChangeSelection, Fits, Pages
  <2>2. used' \in Uses /\ used'.starts = used.starts
    BY <1>1, <1>23, UseUpdates DEF ChangeSelection, Fits
  <2> QED
    BY <1>1, <1>23, <2>1, <2>2 DEF ChangeSelection, Fits
<1>24. ASSUME ClickStop
       PROVE  Fit
  <2> DEFINE u == [ui EXCEPT !.queue = << >>]
  <2>1. << >> \in Seq(Payload)
    OBVIOUS
  <2>2. u \in Pages(n)
    BY <1>1, <2>1 DEF Fits, Pages
  <2>3. ui' \in Pages(n)
    BY <1>0, <1>24, <2>2, ButtonsTyped DEF ClickStop
  <2>4. stops' \subseteq 1..n
    <3>1. stops' \subseteq stops \cup ({ActiveJob(ui)} \ {0})
      BY <1>24 DEF ClickStop
    <3>2. ActiveJob(ui) \in 0..n
      BY <1>0, <1>1, ActiveTyped DEF Fits
    <3> QED
      BY <1>0, <1>1, <3>1, <3>2 DEF Fits
  <2>5. cancelled' \in 0..used.starts
    BY <1>1, <1>24 DEF ClickStop, Fits, Uses
  <2> QED
    BY <1>1, <1>24, <2>3, <2>4, <2>5 DEF ClickStop, Fits
<1>25. ASSUME CloseHistoryView
       PROVE  Fit
  <2> DEFINE u == [ui EXCEPT !.historyId = 0, !.closeOn = FALSE, !.jobId = ui.liveJobId]
  <2>1. u \in Pages(n)
    <3>1. ui.liveJobId \in 0..n /\ 0 \in 0..n /\ ui \in Pages(n)
      BY <1>0, <1>1 DEF Fits, Pages
    <3> QED
      BY <1>0, <3>1, PageUpdates
  <2>2. ui' \in Pages(n)
    BY <1>0, <1>25, <2>1, ButtonsTyped DEF CloseHistoryView
  <2> QED
    BY <1>1, <1>25, <2>2 DEF CloseHistoryView, Fits
<1>26. ASSUME Reload
       PROVE  Fit
  <2>1. ui' \in Pages(m)
    BY <1>0, <1>26, FreshTyped DEF Reload
  <2>2. loops' \in [Loops -> Requests(m)] /\ opening' \in Requests(m)
    BY <1>0, <1>26, RequestFacts DEF Reload
  <2>3. restoring' \in Restores(m)
    <3>1. restoring' = IF hint = 0 THEN Restore("list", 0) ELSE Restore("hint", hint)
      BY <1>26 DEF Reload
    <3>2. hint \in 0..m
      BY <1>2 DEF Fits
    <3>3. CASE hint = 0
      BY <1>0, <3>1, <3>3, RestoreFacts
    <3>4. CASE hint # 0
      <4>1. hint \in 1..m
        BY <1>0, <3>2, <3>4
      <4> QED
        BY <1>0, <3>1, <3>4, <4>1, RestoreFacts
    <3> QED
      BY <3>3, <3>4
  <2>4. launching' \subseteq Launches(m) /\ IsFiniteSet(launching')
    BY <1>26, FS_EmptySet DEF Reload
  <2>5. used' \in Uses /\ used'.starts = used.starts
    BY <1>1, <1>26, UseUpdates DEF Reload, Fits
  <2> QED
    BY <1>2, <1>26, <2>1, <2>2, <2>3, <2>4, <2>5 DEF Reload, Fits
<1>27. CASE Next
  <2>1. overlapped' \in BOOLEAN
    BY <1>27 DEF Next, Watch
  <2>2. Fit
    BY <1>3, <1>4, <1>5, <1>6, <1>7, <1>8, <1>9, <1>10, <1>11, <1>13, <1>14, <1>15, <1>16,
       <1>17, <1>18, <1>19, <1>20, <1>21, <1>22, <1>23, <1>24, <1>25, <1>26, <1>27, NextCases
  <2> QED
    BY <1>0, <2>1, <2>2 DEF Typed
<1>28. CASE UNCHANGED vars
  BY <1>1, <1>28 DEF Typed, vars
<1> QED
  BY <1>27, <1>28

-----------------------------------------------------------------------------
(***************************************************************************)
(* The queue.                                                              *)
(***************************************************************************)
Wanted(queue, c) == \A i \in DOMAIN queue : queue[i].click > c

LEMMA LaunchWanted ==
  ASSUME NEW n \in Nat, NEW u \in Pages(n), LaunchNext(u), NEW c, Wanted(u.queue, c)
  PROVE  /\ Wanted(ui'.queue, c)
         /\ \A r \in launching' \ launching : r.payload.click > c
<1>1. u.queue \in Seq(Payload)
  BY DEF Pages
<1>2. CASE u.queue = << >>
  <2>1. ui'.queue = u.queue
    BY <1>2 DEF LaunchNext, Buttons, Pages
  <2> QED
    BY <1>2, <2>1 DEF LaunchNext
<1>3. CASE u.queue # << >>
  <2> DEFINE x == [payload |-> Head(u.queue), job |-> 0]
  <2>1. ui' = [u EXCEPT !.queue = Tail(u.queue)] /\ launching' = launching \cup {x}
    BY <1>3 DEF LaunchNext
  <2>2. ui'.queue = Tail(u.queue)
    BY <2>1 DEF Pages
  <2>3. Len(u.queue) \in Nat /\ DOMAIN u.queue = 1..Len(u.queue)
    BY <1>1, LenProperties
  <2>4. u.queue # << >> => Len(u.queue) # 0
    BY <1>1, EmptySeq
  <2>5. /\ Tail(u.queue) \in Seq(Payload)
        /\ Len(Tail(u.queue)) = Len(u.queue) - 1
        /\ \A i \in 1..Len(Tail(u.queue)) : Tail(u.queue)[i] = u.queue[i + 1]
    BY <1>1, <1>3, HeadTailProperties
  <2>6. DOMAIN Tail(u.queue) = 1..(Len(u.queue) - 1)
    BY <2>5, LenProperties
  <2>7. Wanted(Tail(u.queue), c)
    BY <2>3, <2>5, <2>6 DEF Wanted
  <2>8. Head(u.queue) = u.queue[1] /\ 1 \in DOMAIN u.queue
    BY <1>1, <1>3, <2>3, <2>4
  <2>9. x.payload.click > c
    BY <2>8 DEF Wanted
  <2> HIDE DEF x
  <2> QED
    BY <2>1, <2>2, <2>7, <2>9
<1> QED
  BY <1>2, <1>3

(* A step leaves in the queue, and sends, only what was asked for after the
   last Stop. *)
LEMMA QueueNext ==
  ASSUME Typed, QueueIsWanted, [Next]_vars
  PROVE  /\ QueueIsWanted'
         /\ \A r \in launching' \ launching : r.job = 0 => r.payload.click > cancelled
<1> DEFINE n == Len(jobs)
<1> DEFINE Sent == \A r \in launching' \ launching : r.job = 0 => r.payload.click > cancelled
<1>0. n \in Nat /\ ui \in Pages(n) /\ launching \subseteq Launches(n)
      /\ cancelled \in Nat /\ used.starts \in Nat /\ cancelled <= used.starts
  BY LenProperties DEF Typed, Fits, Uses
<1>1. Wanted(ui.queue, cancelled)
  BY DEF QueueIsWanted, Wanted
<1>2. ASSUME Wanted(ui'.queue, cancelled')
      PROVE  QueueIsWanted'
  BY <1>2 DEF QueueIsWanted, Wanted
<1>3. ASSUME ui'.queue = ui.queue \/ ui'.queue = << >>, cancelled' = cancelled \/ ui'.queue = << >>
      PROVE  QueueIsWanted'
  BY <1>1, <1>2, <1>3 DEF Wanted
<1>4. ASSUME launching' \subseteq launching
      PROVE  Sent
  BY <1>4
<1>5. ASSUME NEW r \in launching, AcceptStart(r)
      PROVE  QueueIsWanted' /\ Sent
  <2> DEFINE x == [r EXCEPT !.job = n + 1]
  <2>1. launching' = (launching \ {r}) \cup {x}
    BY <1>5 DEF AcceptStart
  <2>2. x.job = n + 1
    BY <1>0 DEF Launches
  <2> HIDE DEF x
  <2>3. Sent
    BY <1>0, <2>1, <2>2
  <2> QED
    BY <1>3, <1>5, <2>3 DEF AcceptStart
<1>6. ASSUME NEW r \in launching, JobStarted(r) \/ StartFailed(r)
      PROVE  QueueIsWanted' /\ Sent
  <2>1. ui'.queue = ui.queue \/ ui'.queue = << >>
    BY <1>0, <1>6 DEF JobStarted, StartFailed, Buttons, Pages
  <2> QED
    BY <1>3, <1>4, <1>6, <2>1 DEF JobStarted, StartFailed
<1>7. ASSUME NEW j, RecordRow(j) \/ FinishJob(j) \/ OpenHistoryJob(j) \/ AcceptStop(j) \/ StopLost(j)
      PROVE  QueueIsWanted' /\ Sent
  <2>1. ui'.queue = ui.queue
    BY <1>0, <1>7 DEF RecordRow, FinishJob, OpenHistoryJob, AcceptStop, StopLost, Pages
  <2> QED
    BY <1>3, <1>4, <1>7, <2>1 DEF RecordRow, FinishJob, OpenHistoryJob, AcceptStop, StopLost
<1>8. ASSUME NEW l \in Loops, AnswerPoll(l) \/ PollTick(l) \/ PollUnchanged(l) \/ PollFailed(l)
      PROVE  QueueIsWanted' /\ Sent
  <2>1. ui'.queue = ui.queue
    BY <1>0, <1>8 DEF AnswerPoll, PollTick, PollUnchanged, PollFailed, Rearm, Buttons, Pages
  <2> QED
    BY <1>3, <1>4, <1>8, <2>1 DEF AnswerPoll, PollTick, PollUnchanged, PollFailed
<1>9. ASSUME NEW l \in Loops, PollNews(l)
      PROVE  QueueIsWanted' /\ Sent
  <2> DEFINE u == [ui EXCEPT !.shown = Fingerprint(loops[l].job, loops[l].reply)]
  <2>0. cancelled' = cancelled
    BY <1>9 DEF PollNews
  <2>1. CASE IsLive(loops[l].reply.status)
    <3>1. ui'.queue = ui.queue /\ launching' = launching
      BY <1>0, <1>9, <2>1 DEF PollNews, Rearm, Buttons, Pages
    <3> QED
      BY <1>3, <1>4, <2>0, <3>1
  <2>2. CASE ~IsLive(loops[l].reply.status)
    <3> DEFINE q == IF loops[l].reply.status = "stopped" THEN << >> ELSE u.queue
    <3> DEFINE done == [u EXCEPT !.liveJobId = 0, !.pollTimer = 0, !.queue = q]
    <3>1. LaunchNext(done)
      BY <1>9, <2>2 DEF PollNews
    <3>2. done \in Pages(n)
      <4>1. Fingerprint(loops[l].job, loops[l].reply) \in (Status \cup {"none"}) \X (0..n)
        <5>1. loops[l].job \in 0..n /\ loops[l].reply \in Reply
          BY <1>9 DEF PollNews, Typed, Fits, Requests, InOrder
        <5> QED
          BY <1>0, <5>1, ShownTyped
      <4>2. u \in Pages(n)
        BY <1>0, <4>1 DEF Pages
      <4>3. << >> \in Seq(Payload)
        OBVIOUS
      <4>4. q \in Seq(Payload)
        BY <4>2, <4>3 DEF Pages
      <4> HIDE DEF q, u
      <4> DEFINE v == [u EXCEPT !.liveJobId = 0, !.pollTimer = 0]
      <4>5. v \in Pages(n)
        <5>1. 0 \in 0..n /\ 0 \in {0} \cup Loops
          BY <1>0
        <5> QED
          BY <1>0, <4>2, <5>1, PageUpdates
      <4>6. [v EXCEPT !.queue = q] \in Pages(n)
        BY <4>4, <4>5 DEF Pages
      <4> QED
        BY <4>6
    <3>3. done.queue = ui.queue \/ done.queue = << >>
      BY <1>0 DEF Pages
    <3> HIDE DEF done
    <3>4. Wanted(done.queue, cancelled)
      BY <1>1, <3>3 DEF Wanted
    <3> QED
      BY <1>0, <1>2, <2>0, <3>1, <3>2, <3>4, LaunchWanted
  <2> QED
    BY <2>1, <2>2
<1>10. ASSUME AnswerOpening \/ HistoryAnswered \/ HistoryFailed \/ AnswerRestore
              \/ RestoreAnswered \/ RestoreFailed
       PROVE  QueueIsWanted' /\ Sent
  <2>1. ui'.queue = ui.queue
    BY <1>0, <1>10 DEF AnswerOpening, HistoryAnswered, HistoryFailed, AnswerRestore,
       RestoreAnswered, RestoreFailed, Attach, Buttons, Pages
  <2>2. launching' = launching /\ cancelled' = cancelled
    BY <1>10 DEF AnswerOpening, HistoryAnswered, HistoryFailed, AnswerRestore,
       RestoreAnswered, RestoreFailed
  <2> QED
    BY <1>3, <1>4, <2>1, <2>2
<1>11. ASSUME ClickStart
       PROVE  QueueIsWanted' /\ Sent
  <2>1. PICK k \in 1..Min({MaxTests, MaxJobs - used.tests}) :
          LaunchNext([ui EXCEPT
            !.startOn = FALSE,
            !.queue = [t \in 1..k |-> [click |-> used.starts + 1, test |-> t]]])
    BY <1>11 DEF ClickStart
  <2> DEFINE q == [t \in 1..k |-> [click |-> used.starts + 1, test |-> t]]
  <2> DEFINE u == [ui EXCEPT !.startOn = FALSE, !.queue = q]
  <2>2. Wanted(q, cancelled)
    BY <1>0 DEF Wanted
  <2>3. q \in Seq(Payload)
    <3>1. MaxTests \in Int /\ MaxJobs - used.tests \in Int
      BY BoundsAssumption DEF Typed, Fits, Uses
    <3>2. Min({MaxTests, MaxJobs - used.tests}) \in Int
          /\ Min({MaxTests, MaxJobs - used.tests}) <= MaxTests
      BY <3>1, MinOfTwo
    <3>3. k \in Nat /\ k <= MaxTests
      BY <3>1, <3>2
    <3>4. used.starts + 1 \in 1..MaxStarts
      BY <1>0, <1>11, BoundsAssumption DEF ClickStart
    <3>5. \A t \in 1..k : [click |-> used.starts + 1, test |-> t] \in Payload
      BY <3>3, <3>4, BoundsAssumption DEF Payload
    <3> QED
      BY <3>3, <3>5
  <2>4. LaunchNext(u) /\ cancelled' = cancelled
    BY <1>11, <2>1 DEF ClickStart
  <2> HIDE DEF q
  <2>5. u \in Pages(n) /\ u.queue = q
    BY <1>0, <2>3 DEF Pages
  <2> HIDE DEF u
  <2> QED
    BY <1>0, <1>2, <2>2, <2>4, <2>5, LaunchWanted
<1>12. ASSUME ChangeSelection \/ ClickStop \/ CloseHistoryView \/ Reload
       PROVE  QueueIsWanted' /\ Sent
  <2>1. (ui'.queue = ui.queue /\ cancelled' = cancelled) \/ ui'.queue = << >>
    <3>1. CASE ChangeSelection \/ CloseHistoryView
      BY <1>0, <3>1 DEF ChangeSelection, CloseHistoryView, Buttons, Pages
    <3>2. CASE ClickStop
      BY <1>0, <3>2 DEF ClickStop, Buttons, Pages
    <3>3. CASE Reload
      BY <3>3 DEF Reload, FreshPage
    <3> QED
      BY <1>12, <3>1, <3>2, <3>3
  <2>2. launching' \subseteq launching
    BY <1>12 DEF ChangeSelection, ClickStop, CloseHistoryView, Reload
  <2> QED
    BY <1>3, <1>4, <2>1, <2>2
<1>13. CASE Next
  BY <1>5, <1>6, <1>7, <1>8, <1>9, <1>10, <1>11, <1>12, <1>13, NextCases
<1>14. CASE UNCHANGED vars
  BY <1>3, <1>4, <1>14 DEF vars
<1> QED
  BY <1>13, <1>14

-----------------------------------------------------------------------------
(***************************************************************************)
(* The answers.                                                            *)
(***************************************************************************)
(* An answer that comes now, and one that has come before. *)
Answer(q, x) == x.job = q.job /\ x.reply = Told(q.job)

LEMMA LateStays ==
  ASSUME Typed, JobsEvolve, NEW q, q.at = "answered" => q.job \in 1..Len(jobs), Late(jobs, q)
  PROVE  Late(jobs', q)
<1>1. DOMAIN jobs = 1..Len(jobs)
  BY LenProperties DEF Typed
<1> QED
  BY <1>1 DEF Late, JobsEvolve

LEMMA AnswersNext ==
  ASSUME Typed, AnswersLast, [Next]_vars
  PROVE  AnswersLast'
<1> DEFINE n == Len(jobs)
<1> DEFINE Loop == \A l \in Loops :
      \/ loops'[l] = loops[l]
      \/ loops'[l].at # "answered"
      \/ jobs' = jobs /\ Answer(loops[l], loops'[l])
<1> DEFINE Opened ==
      \/ opening' = opening
      \/ opening'.at # "answered"
      \/ jobs' = jobs /\ Answer(opening, opening')
<1> DEFINE Restored ==
      \/ restoring' = restoring
      \/ restoring'.at # "answered" \/ restoring'.via = "list"
      \/ jobs' = jobs /\ Answer(restoring, restoring')
<1>0. n \in Nat /\ DOMAIN jobs = 1..n /\ JobsEvolve
      /\ loops \in [Loops -> Requests(n)] /\ opening \in Requests(n) /\ restoring \in Restores(n)
  BY LenProperties, AllJobsEvolve DEF Typed, Fits
<1>1. \A q, x : jobs' = jobs /\ Answer(q, x) => Late(jobs', x)
  BY DEF Answer, Told, Late
<1>2. \A q \in Requests(n) : q.at = "answered" => q.job \in 1..n
  BY <1>0 DEF Requests, InOrder
<1>3. restoring.via # "list" /\ restoring.at = "answered" => restoring.job \in 1..n
  BY <1>0 DEF Restores, InOrder
<1>4. ASSUME Loop, Opened, Restored
      PROVE  AnswersLast'
  <2>1. ASSUME NEW l \in Loops
        PROVE  Late(jobs', loops'[l])
    <3>1. Late(jobs', loops[l])
      BY <1>0, <1>2, LateStays DEF AnswersLast
    <3>2. CASE loops'[l].at # "answered"
      BY <3>2 DEF Late
    <3> QED
      BY <1>1, <1>4, <3>1, <3>2
  <2>2. Late(jobs', opening')
    <3>1. Late(jobs', opening)
      BY <1>0, <1>2, LateStays DEF AnswersLast
    <3>2. CASE opening'.at # "answered"
      BY <3>2 DEF Late
    <3> QED
      BY <1>1, <1>4, <3>1, <3>2
  <2>3. restoring'.via # "list" => Late(jobs', restoring')
    <3>1. restoring.via # "list" => Late(jobs', restoring)
      BY <1>0, <1>3, LateStays DEF AnswersLast
    <3>2. CASE restoring'.at # "answered"
      BY <3>2 DEF Late
    <3> QED
      BY <1>1, <1>4, <3>1, <3>2
  <2> QED
    BY <2>1, <2>2, <2>3 DEF AnswersLast
<1>5. ASSUME UNCHANGED <<loops, opening, restoring>>
      PROVE  Loop /\ Opened /\ Restored
  BY <1>5
<1>6. Asking(ActiveJob(ui')).at = "sent" /\ Asking(ActiveJob(ui)).at = "sent"
      /\ Quiet.at = "idle" /\ Timer.at = "timer"
      /\ \A via, j : Restore(via, j).at = "sent"
      /\ NoRestore.at = "idle"
  BY DEF Asking, Quiet, Timer, Restore, NoRestore
<1>7. ASSUME BeginPolling(ui') \/ PollUnlessTimer(ui')
      PROVE  Loop
  BY <1>0, <1>6, <1>7 DEF BeginPolling, PollUnlessTimer
<1>8. ASSUME NEW r \in launching, AcceptStart(r) \/ JobStarted(r) \/ StartFailed(r)
      PROVE  Loop /\ Opened /\ Restored
  BY <1>5, <1>7, <1>8 DEF AcceptStart, JobStarted, StartFailed
<1>9. ASSUME NEW j, RecordRow(j) \/ FinishJob(j) \/ AcceptStop(j) \/ StopLost(j)
      PROVE  Loop /\ Opened /\ Restored
  BY <1>5, <1>9 DEF RecordRow, FinishJob, AcceptStop, StopLost
<1>10. ASSUME NEW j \in DOMAIN jobs, OpenHistoryJob(j)
       PROVE  Loop /\ Opened /\ Restored
  <2>1. Asking(j).at = "sent"
    BY DEF Asking
  <2> QED
    BY <1>10, <2>1 DEF OpenHistoryJob
<1>11. ASSUME NEW l \in Loops, AnswerPoll(l)
       PROVE  Loop /\ Opened /\ Restored
  <2>1. loops' = [loops EXCEPT ![l] = [loops[l] EXCEPT !.at = "answered", !.reply = Told(loops[l].job)]]
    BY <1>0, <1>11 DEF AnswerPoll
  <2>2. Answer(loops[l], loops'[l])
    BY <1>0, <2>1 DEF Answer, Requests
  <2>3. Loop
    BY <1>0, <1>11, <2>1, <2>2 DEF AnswerPoll
  <2> QED
    BY <1>11, <2>3 DEF AnswerPoll
<1>12. ASSUME NEW l \in Loops, PollTick(l)
       PROVE  Loop /\ Opened /\ Restored
  BY <1>0, <1>6, <1>12 DEF PollTick
<1>13. ASSUME NEW l \in Loops, NEW u, Rearm(l, u)
       PROVE  Loop
  BY <1>0, <1>6, <1>13 DEF Rearm, Timer
<1>14. ASSUME NEW l \in Loops, PollUnchanged(l)
       PROVE  Loop /\ Opened /\ Restored
  BY <1>13, <1>14 DEF PollUnchanged
<1>15. ASSUME NEW l \in Loops, PollNews(l)
       PROVE  Loop /\ Opened /\ Restored
  <2>1. CASE IsLive(loops[l].reply.status)
    BY <1>13, <1>15, <2>1 DEF PollNews
  <2>2. CASE ~IsLive(loops[l].reply.status)
    BY <1>0, <1>6, <1>15, <2>2 DEF PollNews
  <2> QED
    BY <2>1, <2>2
<1>16. ASSUME NEW l \in Loops, PollFailed(l)
       PROVE  Loop /\ Opened /\ Restored
  BY <1>0, <1>6, <1>16 DEF PollFailed, ClearTimer
<1>17. ASSUME AnswerOpening
       PROVE  Loop /\ Opened /\ Restored
  <2>1. Answer(opening, opening')
    BY <1>0, <1>17 DEF AnswerOpening, Answer, Requests
  <2> QED
    BY <1>17, <2>1 DEF AnswerOpening
<1>18. ASSUME HistoryAnswered
       PROVE  Loop /\ Opened /\ Restored
  BY <1>6, <1>7, <1>18 DEF HistoryAnswered
<1>19. ASSUME HistoryFailed
       PROVE  Loop /\ Opened /\ Restored
  BY <1>6, <1>19 DEF HistoryFailed
<1>20. ASSUME AnswerRestore
       PROVE  Loop /\ Opened /\ Restored
  <2>1. CASE restoring.via = "list"
    BY <1>0, <1>20, <2>1 DEF AnswerRestore, Restores
  <2>2. CASE restoring.via # "list"
    <3>1. Answer(restoring, restoring')
      BY <1>0, <1>20, <2>2 DEF AnswerRestore, Answer, Restores
    <3> QED
      BY <1>20, <3>1 DEF AnswerRestore
  <2> QED
    BY <2>1, <2>2
<1>21. ASSUME RestoreAnswered
       PROVE  Loop /\ Opened /\ Restored
  BY <1>6, <1>7, <1>21 DEF RestoreAnswered, Attach
<1>22. ASSUME RestoreFailed
       PROVE  Loop /\ Opened /\ Restored
  BY <1>6, <1>22 DEF RestoreFailed
<1>23. ASSUME ClickStart \/ ChangeSelection \/ ClickStop \/ CloseHistoryView
       PROVE  Loop /\ Opened /\ Restored
  BY <1>5, <1>23 DEF ClickStart, ChangeSelection, ClickStop, CloseHistoryView
<1>24. ASSUME Reload
       PROVE  Loop /\ Opened /\ Restored
  BY <1>6, <1>24 DEF Reload
<1>25. CASE Next
  <2>1. Loop /\ Opened /\ Restored
    <3> HIDE DEF Loop, Opened, Restored
    <3> QED
      BY <1>8, <1>9, <1>10, <1>11, <1>12, <1>14, <1>15, <1>16, <1>17, <1>18, <1>19, <1>20,
         <1>21, <1>22, <1>23, <1>24, <1>25, NextCases
  <2> QED
    BY <1>4, <2>1
<1>26. CASE UNCHANGED vars
  BY <1>4, <1>5, <1>26 DEF vars
<1> QED
  BY <1>25, <1>26

-----------------------------------------------------------------------------
(***************************************************************************)
(* One thing at a time.                                                    *)
(***************************************************************************)
LEMMA ActivitiesCounted ==
  ASSUME Typed, Typed'
  PROVE  /\ Activities \in Nat /\ Activities' \in Nat
         /\ Activities <= 1 <=> Single(launching, Busy(loops), restoring.via)
         /\ Activities' <= 1 <=> Single(launching', Busy(loops'), restoring'.via)
<1>1. Activities = Count(launching, Busy(loops), restoring.via)
  <2>1. Loops \ IdleLoops = Busy(loops)
    BY DEF IdleLoops, Busy
  <2> QED
    BY <2>1 DEF Activities, Count
<1>2. Activities' = Count(launching', Busy(loops'), restoring'.via)
  <2>1. Loops \ IdleLoops' = Busy(loops')
    BY DEF IdleLoops, Busy
  <2> QED
    BY <2>1 DEF Activities, Count
<1>3. \A ls : IsFiniteSet(Busy(ls))
  <2>1. MaxLoops \in Int /\ 1 \in Int
    BY BoundsAssumption
  <2>2. IsFiniteSet(Loops)
    BY <2>1, FS_Interval DEF Loops
  <2>3. \A ls : Busy(ls) \in SUBSET Loops
    BY DEF Busy
  <2> QED
    BY <2>2, <2>3, FS_Subset
<1>4. IsFiniteSet(launching) /\ IsFiniteSet(launching')
  BY DEF Typed, Fits
<1>5. \A L, B, v : IsFiniteSet(L) /\ IsFiniteSet(B) => Count(L, B, v) \in Nat
  BY FS_CardinalityType DEF Count
<1> QED
  BY <1>1, <1>2, <1>3, <1>4, <1>5, Counted

(* What is put in the place of a loop decides whether that is busy. *)
LEMMA BusyPut ==
  ASSUME NEW S, NEW ls \in [Loops -> S], NEW l \in Loops, NEW x
  PROVE  /\ x.at = "idle" => Busy([ls EXCEPT ![l] = x]) = Busy(ls) \ {l}
         /\ x.at # "idle" => Busy([ls EXCEPT ![l] = x]) = Busy(ls) \cup {l}
BY DEF Busy

(* The only busy loop stays the only one. *)
LEMMA BusyKept ==
  ASSUME NEW n, loops \in [Loops -> Requests(n)], NEW l \in Loops, NEW x, x.at # "idle",
         Busy(loops) \subseteq {l}, loops' = [loops EXCEPT ![l] = x]
  PROVE  Busy(loops') = {l} /\ loops'[l] = x
<1>1. loops'[l] = x
  OBVIOUS
<1>2. \A k \in Loops : k # l => loops'[k] = loops[k]
  OBVIOUS
<1>3. \A k \in Loops : k # l => loops[k].at = "idle"
  BY DEF Busy
<1> QED
  BY <1>1, <1>2, <1>3 DEF Busy

-----------------------------------------------------------------------------
(***************************************************************************)
(* Whom the page attends to.                                               *)
(***************************************************************************)
LEMMA Resting ==
  ASSUME NEW js, NEW u, NEW ls, NEW L, NEW re,
         L = {}, Busy(ls) = {}, re.via = "done", OnlyLive(js, 0), u.pollTimer = 0
  PROVE  Attended(js, u, ls, L, re)
BY DEF Attended

LEMMA LaunchingOne ==
  ASSUME NEW js, NEW u, NEW ls, NEW L, NEW re, NEW r,
         L = {r}, Busy(ls) = {}, re.via = "done", OnlyLive(js, r.job), u.pollTimer = 0
  PROVE  Attended(js, u, ls, L, re)
BY DEF Attended

LEMMA PollingOne ==
  ASSUME NEW js, NEW u, NEW ls, NEW L, NEW re, NEW k,
         L = {}, Busy(ls) = {k}, re.via = "done", LoopWatches(js, u, ls[k]),
         u.pollTimer \in {0, k}
  PROVE  Attended(js, u, ls, L, re)
BY DEF Attended

LEMMA Restoring ==
  ASSUME NEW js, NEW u, NEW ls, NEW L, NEW re,
         L = {}, Busy(ls) = {}, RestoreWatches(js, u, re), re.via # "done", u.pollTimer = 0
  PROVE  Attended(js, u, ls, L, re)
BY DEF Attended

(* Another page state that is about the same job. *)
LEMMA SamePage ==
  ASSUME NEW js, NEW u, NEW v, NEW ls, NEW L, NEW re, Attended(js, u, ls, L, re),
         v.liveJobId = u.liveJobId, v.pollTimer = u.pollTimer,
         v.running = u.running \/ v.running = (u.liveJobId # 0)
  PROVE  Attended(js, v, ls, L, re)
<1>1. \A q : LoopWatches(js, u, q) => LoopWatches(js, v, q)
  BY DEF LoopWatches
<1>2. RestoreWatches(js, u, re) => RestoreWatches(js, v, re)
  BY DEF RestoreWatches
<1> QED
  BY <1>1, <1>2 DEF Attended

(* Jobs that settle, or stay as they are. *)
LEMMA FewerLive ==
  ASSUME NEW js, NEW ks, NEW u, NEW ls, NEW L, NEW re, Attended(js, u, ls, L, re),
         DOMAIN ks = DOMAIN js,
         \A i \in DOMAIN js : IsLive(ks[i].status) => IsLive(js[i].status),
         u.liveJobId # 0 => u.liveJobId \in DOMAIN js
  PROVE  Attended(ks, u, ls, L, re)
<1>1. \A j : OnlyLive(js, j) => OnlyLive(ks, j)
  BY DEF OnlyLive
<1>2. \A q : LoopWatches(js, u, q) => LoopWatches(ks, u, q)
  BY <1>1 DEF LoopWatches
<1>3. RestoreWatches(js, u, re) => RestoreWatches(ks, u, re)
  BY <1>1 DEF RestoreWatches
<1> QED
  BY <1>1, <1>2, <1>3 DEF Attended

(* A launch, a loop or a restore that is alone. *)
LEMMA Alone ==
  ASSUME NEW js, NEW u, NEW ls, NEW L, NEW re,
         Attended(js, u, ls, L, re), Single(L, Busy(ls), re.via)
  PROVE  /\ \A r \in L : L = {r} /\ Busy(ls) = {} /\ re.via = "done" /\ OnlyLive(js, r.job)
                         /\ u.pollTimer = 0
         /\ \A l \in Busy(ls) : L = {} /\ Busy(ls) = {l} /\ re.via = "done"
                         /\ LoopWatches(js, u, ls[l]) /\ u.pollTimer \in {0, l}
         /\ re.via # "done" => L = {} /\ Busy(ls) = {} /\ RestoreWatches(js, u, re)
                         /\ u.pollTimer = 0
BY DEF Attended, Single

-----------------------------------------------------------------------------
LEMMA FaultsCounted ==
  ASSUME Typed
  PROVE  /\ Trouble => used'.faults = used.faults
         /\ Fault => used'.faults = used.faults + 1
         /\ used.faults \in Nat
<1>1. used \in Uses
  BY DEF Typed, Fits
<1> QED
  BY <1>1 DEF Trouble, Fault, Uses

(* What fails is counted. *)
LEMMA FaultsAreCounted ==
  ASSUME Typed, Next, used'.faults = 0
  PROVE  /\ used.faults = 0
         /\ \A r : ~StartFailed(r)
         /\ \A j : ~StopLost(j)
         /\ \A l : ~PollFailed(l)
         /\ ~RestoreFailed
<1>0. used \in Uses /\ used.faults \in Nat
  BY FaultsCounted DEF Typed, Fits
<1>1. \A r, j, l : ~StartFailed(r) /\ ~StopLost(j) /\ ~PollFailed(l)
  <2>1. ~Fault
    BY <1>0, FaultsCounted
  <2> QED
    BY <2>1 DEF StartFailed, StopLost, PollFailed
<1>2. ~RestoreFailed
  BY <1>0 DEF RestoreFailed, Uses
<1>3. ASSUME used' = used
      PROVE  used.faults = 0
  BY <1>3
<1>4. ASSUME Trouble
      PROVE  used.faults = 0
  BY <1>4, FaultsCounted
<1>5. ASSUME ClickStart
      PROVE  used.faults = 0
  BY <1>0, <1>5 DEF ClickStart, Uses
<1>6. \A r : AcceptStart(r) \/ JobStarted(r) => used' = used
  BY DEF AcceptStart, JobStarted
<1>7. \A j : /\ RecordRow(j) \/ FinishJob(j) \/ AcceptStop(j) => used' = used
             /\ OpenHistoryJob(j) => Trouble
  BY DEF RecordRow, FinishJob, AcceptStop, OpenHistoryJob
<1>8. \A l : AnswerPoll(l) \/ PollTick(l) \/ PollUnchanged(l) \/ PollNews(l) => used' = used
  BY DEF AnswerPoll, PollTick, PollUnchanged, PollNews
<1>9. /\ AnswerOpening \/ HistoryAnswered \/ HistoryFailed \/ AnswerRestore \/ RestoreAnswered
            \/ ClickStop \/ CloseHistoryView => used' = used
      /\ ChangeSelection \/ Reload => Trouble
  BY DEF AnswerOpening, HistoryAnswered, HistoryFailed, AnswerRestore, RestoreAnswered,
     ClickStop, CloseHistoryView, ChangeSelection, Reload
<1> QED
  BY <1>1, <1>2, <1>3, <1>4, <1>5, <1>6, <1>7, <1>8, <1>9, NextCases

(* A page that starts to poll job j, when it was doing nothing else. *)
LEMMA StartsPolling ==
  ASSUME Typed, NEW j \in 1..Len(jobs), BeginPolling(ui'), jobs' = jobs,
         ui'.liveJobId = j, ui'.running = TRUE, ui'.pollTimer = 0, OnlyLive(jobs, j),
         launching' = {}, Busy(loops) = {}, restoring'.via = "done"
  PROVE  Attended(jobs', ui', loops', launching', restoring')
<1>0. Len(jobs) \in Nat /\ loops \in [Loops -> Requests(Len(jobs))]
  BY LenProperties DEF Typed, Fits
<1>1. ActiveJob(ui') = j
  BY DEF ActiveJob
<1>2. PICK k \in IdleLoops : loops' = [loops EXCEPT ![k] = Asking(j)]
  BY <1>0, <1>1, Polling
<1>3. k \in Loops
  BY DEF IdleLoops
<1>4. Busy(loops') = {k} /\ loops'[k] = Asking(j)
  <2>1. Asking(j).at # "idle"
    BY DEF Asking
  <2> QED
    BY <1>0, <1>2, <1>3, <2>1, BusyKept
<1>5. LoopWatches(jobs', ui', loops'[k])
  BY <1>4 DEF LoopWatches, Asking
<1> QED
  BY <1>4, <1>5, PollingOne

LEMMA AttendedNext ==
  ASSUME Typed, Typed', AnswersLast, Next, used'.faults = 0,
         Single(launching, Busy(loops), restoring.via),
         Single(launching', Busy(loops'), restoring'.via),
         ~Outdated(opening), ~Outdated(restoring),
         Attended(jobs, ui, loops, launching, restoring)
  PROVE  Attended(jobs', ui', loops', launching', restoring')
<1> DEFINE n == Len(jobs)
<1> DEFINE A == Attended(jobs', ui', loops', launching', restoring')
<1>0. /\ jobs \in Seq(Job) /\ n \in Nat /\ DOMAIN jobs = 1..n
      /\ Fits(n, ui, hint, loops, launching, stops, opening, restoring, cancelled, used)
  BY LenProperties DEF Typed
<1>1. /\ loops \in [Loops -> Requests(n)] /\ ui \in Pages(n) /\ launching \subseteq Launches(n)
      /\ ui.liveJobId \in 0..n /\ ui.jobId \in 0..n
  BY <1>0 DEF Fits, Pages
<1>2. /\ \A r \in launching : /\ launching = {r} /\ Busy(loops) = {} /\ restoring.via = "done"
                              /\ OnlyLive(jobs, r.job) /\ ui.pollTimer = 0
      /\ \A l \in Busy(loops) : /\ launching = {} /\ Busy(loops) = {l} /\ restoring.via = "done"
                                /\ LoopWatches(jobs, ui, loops[l]) /\ ui.pollTimer \in {0, l}
      /\ restoring.via # "done" => /\ launching = {} /\ Busy(loops) = {}
                                   /\ RestoreWatches(jobs, ui, restoring) /\ ui.pollTimer = 0
  BY Alone
<1>3. ASSUME NEW v, UNCHANGED <<jobs, loops, launching, restoring>>, ui' = v,
             v.liveJobId = ui.liveJobId, v.pollTimer = ui.pollTimer,
             v.running = ui.running \/ v.running = (ui.liveJobId # 0)
      PROVE  A
  BY <1>3, SamePage
<1>4. ASSUME UNCHANGED <<ui, loops, launching, restoring>>, DOMAIN jobs' = DOMAIN jobs,
             \A i \in DOMAIN jobs : IsLive(jobs'[i].status) => IsLive(jobs[i].status)
      PROVE  A
  BY <1>0, <1>1, <1>4, FewerLive
<1>5. ASSUME NEW r \in launching, AcceptStart(r)
      PROVE  A
  <2> DEFINE x == [r EXCEPT !.job = n + 1]
  <2>1. launching' = {x} /\ x.job = n + 1
    BY <1>1, <1>2, <1>5 DEF AcceptStart, Launches
  <2>2. OnlyLive(jobs, 0)
    BY <1>2, <1>5 DEF AcceptStart
  <2>3. NewJob(r.payload) \in Job
    BY <1>1 DEF Launches, NewJob, Job, Status, LiveStatus
  <2>4. jobs' = jobs \o <<NewJob(r.payload)>> /\ <<NewJob(r.payload)>> \in Seq(Job)
        /\ Len(<<NewJob(r.payload)>>) = 1
    BY <1>0, <1>5, <2>3 DEF AcceptStart
  <2>5. DOMAIN jobs' = 1..(n + 1) /\ \A i \in 1..n : jobs'[i] = jobs[i]
    BY <1>0, <2>4, JobsAdded
  <2>6. OnlyLive(jobs', n + 1)
    BY <1>0, <2>2, <2>5 DEF OnlyLive
  <2> HIDE DEF x
  <2> QED
    BY <1>2, <1>5, <2>1, <2>6, LaunchingOne DEF AcceptStart
<1>6. ASSUME NEW r \in launching, JobStarted(r)
      PROVE  A
  <2>1. r.job \in 1..n
    BY <1>0, <1>1, <1>6 DEF JobStarted, Launches
  <2>2. ui'.liveJobId = r.job /\ ui'.running = TRUE /\ ui'.pollTimer = 0
    BY <1>1, <1>2, <1>6 DEF JobStarted, Buttons, Pages
  <2> QED
    BY <1>2, <1>6, <2>1, <2>2, StartsPolling DEF JobStarted
<1>7. ASSUME NEW j \in DOMAIN jobs, RecordRow(j) \/ FinishJob(j)
      PROVE  A
  <2>1. DOMAIN jobs' = DOMAIN jobs
    BY <1>7 DEF RecordRow, FinishJob
  <2>2. IsLive(jobs[j].status)
    BY <1>7 DEF RecordRow, FinishJob, IsLive, LiveStatus
  <2>3. \A i \in DOMAIN jobs : i # j => jobs'[i] = jobs[i]
    BY <1>7 DEF RecordRow, FinishJob
  <2> QED
    BY <1>4, <1>7, <2>1, <2>2, <2>3 DEF RecordRow, FinishJob
<1>8. ASSUME NEW j, OpenHistoryJob(j)
      PROVE  A
  <2>1. ui'.liveJobId = ui.liveJobId /\ ui'.pollTimer = ui.pollTimer /\ ui'.running = ui.running
    BY <1>1, <1>8 DEF OpenHistoryJob, Pages
  <2> QED
    BY <1>3, <1>8, <2>1 DEF OpenHistoryJob
<1>9. ASSUME NEW j \in stops, AcceptStop(j)
      PROVE  A
  <2>1. DOMAIN jobs' = DOMAIN jobs
    BY <1>9 DEF AcceptStop
  <2>2. \A i \in DOMAIN jobs : i # j => jobs'[i] = jobs[i]
    BY <1>9 DEF AcceptStop
  <2>3. j \in DOMAIN jobs /\ IsLive(jobs'[j].status) => IsLive(jobs[j].status)
    BY <1>9 DEF AcceptStop, IsLive, LiveStatus
  <2> QED
    BY <1>4, <1>9, <2>1, <2>2, <2>3 DEF AcceptStop
<1>10. ASSUME NEW l \in Loops, AnswerPoll(l)
       PROVE  A
  <2> DEFINE x == [loops[l] EXCEPT !.at = "answered", !.reply = Told(loops[l].job)]
  <2>1. loops' = [loops EXCEPT ![l] = x]
    BY <1>1, <1>10 DEF AnswerPoll
  <2>2. x.at = "answered" /\ x.job = loops[l].job
    BY <1>1 DEF Requests
  <2> HIDE DEF x
  <2>3. l \in Busy(loops)
    BY <1>10 DEF AnswerPoll, Busy
  <2>4. Busy(loops') = {l} /\ loops'[l] = x
    BY <1>1, <1>2, <2>1, <2>2, <2>3, BusyKept
  <2>5. LoopWatches(jobs, ui, x)
    BY <1>2, <1>10, <2>2, <2>3 DEF LoopWatches, AnswerPoll
  <2>6. UNCHANGED <<jobs, ui, launching, restoring>>
    BY <1>10 DEF AnswerPoll
  <2>7. launching = {} /\ restoring.via = "done" /\ ui.pollTimer \in {0, l}
    BY <1>2, <2>3
  <2>8. LoopWatches(jobs', ui', loops'[l])
    BY <2>4, <2>5, <2>6
  <2> QED
    BY <2>4, <2>6, <2>7, <2>8, PollingOne
<1>11. ASSUME NEW l \in Loops, PollTick(l)
       PROVE  A
  <2>1. l \in Busy(loops)
    BY <1>11 DEF PollTick, Busy
  <2>2. ActiveJob(ui) = ui.liveJobId /\ ui.liveJobId # 0
    BY <1>2, <2>1 DEF ActiveJob, LoopWatches
  <2> DEFINE x == Asking(ui.liveJobId)
  <2>3. loops' = [loops EXCEPT ![l] = x]
    BY <1>11, <2>2 DEF PollTick
  <2>4. x.at = "sent" /\ x.job = ui.liveJobId
    BY DEF Asking
  <2> HIDE DEF x
  <2>5. Busy(loops') = {l} /\ loops'[l] = x
    BY <1>1, <1>2, <2>1, <2>3, <2>4, BusyKept
  <2>6. LoopWatches(jobs, ui, x)
    BY <1>2, <2>1, <2>4 DEF LoopWatches
  <2>7. UNCHANGED <<jobs, ui, launching, restoring>>
    BY <1>11 DEF PollTick
  <2>8. launching = {} /\ restoring.via = "done" /\ ui.pollTimer \in {0, l}
    BY <1>2, <2>1
  <2>9. LoopWatches(jobs', ui', loops'[l])
    BY <2>5, <2>6, <2>7
  <2> QED
    BY <2>5, <2>7, <2>8, <2>9, PollingOne
(* A loop goes on with the answer it got. *)
<1>12. ASSUME NEW l \in Loops, loops[l].at = "answered", NEW u,
              u.liveJobId = ui.liveJobId, u.pollTimer = ui.pollTimer, u \in Pages(n),
              Rearm(l, u), UNCHANGED <<jobs, launching, restoring>>
       PROVE  A
  <2>1. l \in Busy(loops)
    BY <1>12 DEF Busy
  <2>2. loops' = [loops EXCEPT ![l] = Timer]
    BY <1>12 DEF Rearm, Timer
  <2>3. Timer.at = "timer"
    BY DEF Timer, Quiet
  <2>4. Busy(loops') = {l} /\ loops'[l] = Timer
    BY <1>1, <1>2, <2>1, <2>2, <2>3, BusyKept
  <2>5. ui'.liveJobId = ui.liveJobId /\ ui'.pollTimer = l
        /\ ui'.running = IsLive(loops[l].reply.status)
    BY <1>12 DEF Rearm, Buttons, Pages
  <2>6. LoopWatches(jobs, ui, loops[l]) /\ loops[l].job = ui.liveJobId
    BY <1>2, <1>12, <2>1 DEF LoopWatches
  <2>7. Late(jobs, loops[l])
    BY DEF AnswersLast
  <2>8. IsLive(jobs[ui.liveJobId].status) => IsLive(loops[l].reply.status)
    BY <1>12, <2>6, <2>7 DEF Late
  <2>9. LoopWatches(jobs', ui', loops'[l])
    BY <1>12, <2>3, <2>4, <2>5, <2>6, <2>8 DEF LoopWatches
  <2>10. launching' = {} /\ restoring'.via = "done"
    BY <1>2, <1>12, <2>1
  <2> QED
    BY <2>4, <2>5, <2>9, <2>10, PollingOne
<1>13. ASSUME NEW l \in Loops, PollUnchanged(l)
       PROVE  A
  BY <1>1, <1>12, <1>13 DEF PollUnchanged
<1>14. ASSUME NEW l \in Loops, PollNews(l)
       PROVE  A
  <2> DEFINE u == [ui EXCEPT !.shown = Fingerprint(loops[l].job, loops[l].reply)]
  <2>1. u.liveJobId = ui.liveJobId /\ u.pollTimer = ui.pollTimer
    BY <1>1 DEF Pages
  <2>2. u \in Pages(n)
    <3>1. loops[l].job \in 0..n /\ loops[l].reply \in Reply
      BY <1>1, <1>14 DEF PollNews, Requests, InOrder
    <3>2. Fingerprint(loops[l].job, loops[l].reply) \in (Status \cup {"none"}) \X (0..n)
      BY <1>0, <3>1, ShownTyped
    <3> QED
      BY <1>1, <3>2 DEF Pages
  <2>3. CASE IsLive(loops[l].reply.status)
    <3>1. Rearm(l, u) /\ UNCHANGED <<jobs, launching, restoring>> /\ loops[l].at = "answered"
      BY <1>14, <2>3 DEF PollNews
    <3> HIDE DEF u
    <3> QED
      BY <1>12, <2>1, <2>2, <3>1
  <2>4. CASE ~IsLive(loops[l].reply.status)
    <3> DEFINE q == IF loops[l].reply.status = "stopped" THEN << >> ELSE u.queue
    <3> DEFINE done == [u EXCEPT !.liveJobId = 0, !.pollTimer = 0, !.queue = q]
    <3>1. LaunchNext(done) /\ loops' = [loops EXCEPT ![l] = Quiet]
          /\ UNCHANGED <<jobs, restoring>> /\ loops[l].at = "answered"
      BY <1>14, <2>4 DEF PollNews
    <3>2. l \in Busy(loops)
      BY <3>1 DEF Busy
    <3>3. Busy(loops') = {}
      <4>1. Quiet.at = "idle"
        BY DEF Quiet
      <4>2. Busy(loops) = {l}
        BY <1>2, <3>2
      <4>3. Busy([loops EXCEPT ![l] = Quiet]) = Busy(loops) \ {l}
        BY <1>1, <4>1, BusyPut
      <4> QED
        BY <3>1, <4>2, <4>3
    <3>4. OnlyLive(jobs, ui.liveJobId) /\ loops[l].job = ui.liveJobId
      BY <1>2, <3>1, <3>2 DEF LoopWatches
    <3>5. ~IsLive(jobs[ui.liveJobId].status)
      BY <2>4, <3>1, <3>4 DEF AnswersLast, Late
    <3>6. OnlyLive(jobs, 0)
      BY <3>4, <3>5 DEF OnlyLive
    <3>7. done.pollTimer = 0 /\ DOMAIN done = DOMAIN ui
      BY <1>1 DEF Pages
    <3>8. ui'.pollTimer = 0
      <4> DEFINE v == done
      <4>1. v.pollTimer = 0 /\ LaunchNext(v) /\ "pollTimer" \in DOMAIN v
        BY <1>1, <3>1, <3>7 DEF Pages
      <4> HIDE DEF v, done
      <4>2. ui' = [v EXCEPT !.running = FALSE, !.startOn = TRUE] \/ ui' = [v EXCEPT !.queue = Tail(v.queue)]
        BY <4>1 DEF LaunchNext, Buttons
      <4> QED
        BY <4>1, <4>2
    <3>9. launching = {} /\ restoring'.via = "done"
      BY <1>2, <3>1, <3>2
    <3> HIDE DEF done
    <3>10. CASE done.queue = << >>
      <4>1. launching' = {}
        BY <3>1, <3>9, <3>10 DEF LaunchNext
      <4> QED
        BY <3>1, <3>3, <3>6, <3>8, <3>9, <4>1, Resting
    <3>11. CASE done.queue # << >>
      <4> DEFINE r == [payload |-> Head(done.queue), job |-> 0]
      <4>1. launching' = {r}
        BY <3>1, <3>9, <3>11 DEF LaunchNext
      <4>2. r.job = 0
        OBVIOUS
      <4> HIDE DEF r
      <4> QED
        BY <3>1, <3>3, <3>6, <3>8, <3>9, <4>1, <4>2, LaunchingOne
    <3> QED
      BY <3>10, <3>11
  <2> QED
    BY <2>3, <2>4
<1>15. ASSUME AnswerOpening \/ HistoryFailed
       PROVE  A
  BY <1>15 DEF AnswerOpening, HistoryFailed
<1>16. ASSUME HistoryAnswered
       PROVE  A
  <2>1. CASE ~IsLive(opening.reply.status)
    BY <1>16, <2>1 DEF HistoryAnswered
  <2>2. CASE IsLive(opening.reply.status)
    <3>1. opening.job \in 1..n
      BY <1>0, <1>16 DEF HistoryAnswered, Fits, Requests, InOrder
    <3>2. IsLive(jobs[opening.job].status)
      BY <2>2 DEF Outdated
    <3>3. ui' = Buttons([ui EXCEPT !.liveJobId = opening.job], TRUE) /\ PollUnlessTimer(ui')
          /\ UNCHANGED <<jobs, launching, restoring>>
      BY <1>16, <2>2 DEF HistoryAnswered
    <3>4. ui'.liveJobId = opening.job /\ ui'.running = TRUE /\ ui'.pollTimer = ui.pollTimer
      BY <1>1, <3>3 DEF Buttons, Pages
    <3>5. CASE ui.pollTimer # 0
      <4>1. ui.pollTimer \in Busy(loops)
        BY <3>5 DEF Attended
      <4>2. LoopWatches(jobs, ui, loops[ui.pollTimer])
        BY <1>2, <4>1
      <4>3. opening.job = ui.liveJobId
        BY <1>0, <3>1, <3>2, <4>2 DEF LoopWatches, OnlyLive
      <4>4. loops' = loops
        BY <3>3, <3>4, <3>5 DEF PollUnlessTimer
      <4>5. ui'.liveJobId = ui.liveJobId /\ ui'.running = (ui.liveJobId # 0)
        <5>1. (ui.liveJobId # 0) = TRUE
          BY <1>0, <3>1, <4>3
        <5> QED
          BY <3>4, <4>3, <5>1
      <4> QED
        BY <1>3, <3>3, <3>4, <4>4, <4>5
    <3>6. CASE ui.pollTimer = 0
      <4>1. BeginPolling(ui')
        BY <3>3, <3>4, <3>6 DEF PollUnlessTimer
      <4>2. ActiveJob(ui') = opening.job
        BY <1>0, <3>1, <3>4 DEF ActiveJob
      <4>3. PICK k \in IdleLoops : loops' = [loops EXCEPT ![k] = Asking(opening.job)]
        BY <1>0, <1>1, <3>1, <4>1, <4>2, Polling
      <4>4. k \in Loops /\ k \notin Busy(loops)
        BY DEF IdleLoops, Busy
      <4>5. Asking(opening.job).at # "idle"
        BY DEF Asking
      <4>6. Busy(loops') = Busy(loops) \cup {k}
        BY <1>1, <4>3, <4>4, <4>5, BusyPut
      <4>7. Busy(loops) = {} /\ launching = {} /\ restoring.via = "done"
        BY <3>3, <4>4, <4>6 DEF Single
      <4>8. OnlyLive(jobs, 0)
        BY <4>7 DEF Attended
      <4> QED
        BY <1>0, <3>1, <3>2, <4>8 DEF OnlyLive
    <3> QED
      BY <3>5, <3>6
  <2> QED
    BY <2>1, <2>2
<1>17. ASSUME AnswerRestore
       PROVE  A
  <2>1. restoring.via # "done"
    BY <1>0, <1>17 DEF AnswerRestore, Fits, Restores
  <2>2. RestoreWatches(jobs, ui, restoring) /\ launching = {} /\ Busy(loops) = {} /\ ui.pollTimer = 0
    BY <1>2, <2>1
  <2>3. UNCHANGED <<jobs, ui, loops, launching>>
    BY <1>17 DEF AnswerRestore
  <2>4. CASE restoring.via = "list"
    <3> DEFINE live == {j \in DOMAIN jobs : IsLive(jobs[j].status)}
    <3> DEFINE j == IF live = {} THEN 0 ELSE Max(live)
    <3>1. restoring' = [restoring EXCEPT !.at = "answered", !.job = j]
      BY <1>17, <2>4 DEF AnswerRestore
    <3>2. PICK i \in {0} \cup DOMAIN jobs : OnlyLive(jobs, i)
      BY <2>2 DEF RestoreWatches
    <3>3. \A k \in live : k = i
      BY <3>2 DEF OnlyLive
    <3>4. OnlyLive(jobs, j)
      <4>1. live \in SUBSET Nat /\ \A x \in live : x \in 1..n /\ x <= n
        BY <1>0
      <4>2. CASE live = {}
        BY <4>2 DEF OnlyLive
      <4>3. CASE live # {}
        <5> HIDE DEF live
        <5>1. Max(live) \in live
          BY <1>0, <4>1, <4>3, MaxIsIn
        <5>2. j = i
          BY <3>3, <4>3, <5>1
        <5> QED
          BY <3>2, <5>2
      <4> QED
        BY <4>2, <4>3
    <3> HIDE DEF j
    <3>5. restoring'.via = "list" /\ restoring'.job = j
      BY <1>0, <2>4, <3>1 DEF Fits, Restores
    <3>6. RestoreWatches(jobs, ui, restoring')
      BY <2>2, <3>4, <3>5 DEF RestoreWatches
    <3> QED
      BY <2>2, <2>3, <3>5, <3>6, Restoring
  <2>5. CASE restoring.via # "list"
    <3>1. restoring'.via = restoring.via /\ restoring'.job = restoring.job
      BY <1>0, <1>17, <2>5 DEF AnswerRestore, Fits, Restores
    <3>2. RestoreWatches(jobs, ui, restoring')
      BY <2>2, <2>5, <3>1 DEF RestoreWatches
    <3> QED
      BY <2>1, <2>2, <2>3, <3>1, <3>2, Restoring
  <2> QED
    BY <2>4, <2>5
<1>18. ASSUME RestoreAnswered
       PROVE  A
  <2>1. restoring.via # "done" /\ restoring.at = "answered"
        /\ (restoring.via # "list" => restoring.job \in 1..n)
    BY <1>0, <1>18 DEF RestoreAnswered, Fits, Restores, InOrder
  <2>2. RestoreWatches(jobs, ui, restoring) /\ launching = {} /\ Busy(loops) = {} /\ ui.pollTimer = 0
    BY <1>2, <2>1
  <2>3. UNCHANGED <<jobs, launching>>
    BY <1>18 DEF RestoreAnswered
  <2>4. restoring.via # "list" => Late(jobs, restoring)
    BY DEF AnswersLast
  <2>5. NoRestore.via = "done" /\ \A via, j : Restore(via, j) =
          [via |-> via, at |-> "sent", job |-> j, reply |-> Unanswered]
    BY DEF NoRestore, Restore
  <2>6. CASE /\ restoring.via # "list" /\ IsLive(restoring.reply.status)
             /\ Attach(restoring.job) /\ restoring' = NoRestore
    <3>1. IsLive(jobs[restoring.job].status)
      BY <2>6 DEF Outdated
    <3>2. OnlyLive(jobs, restoring.job)
      BY <1>0, <2>1, <2>2, <2>6, <3>1 DEF RestoreWatches, OnlyLive
    <3>3. ui' = Buttons([ui EXCEPT !.jobId = restoring.job, !.liveJobId = restoring.job], TRUE)
          /\ PollUnlessTimer(ui')
      BY <2>6 DEF Attach
    <3>4. ui'.liveJobId = restoring.job /\ ui'.running = TRUE /\ ui'.pollTimer = 0
      BY <1>1, <2>2, <3>3 DEF Buttons, Pages
    <3>5. BeginPolling(ui')
      BY <3>3, <3>4 DEF PollUnlessTimer
    <3> QED
      BY <2>1, <2>2, <2>3, <2>5, <2>6, <3>2, <3>4, <3>5, StartsPolling
  <2>7. CASE /\ restoring' = Restore("list", 0) /\ UNCHANGED <<ui, loops>>
    <3>1. restoring'.via = "list" /\ restoring'.at = "sent"
      BY <2>5, <2>7
    <3>2. RestoreWatches(jobs, ui, restoring')
      BY <2>2, <3>1 DEF RestoreWatches
    <3> QED
      BY <2>2, <2>3, <2>7, <3>1, <3>2, Restoring
  <2>8. CASE /\ restoring.via = "list"
             /\ restoring' = Restore("detail", restoring.job) /\ UNCHANGED <<ui, loops>>
    <3>1. restoring'.via = "detail" /\ restoring'.job = restoring.job
      BY <2>5, <2>8
    <3>2. RestoreWatches(jobs, ui, restoring')
      BY <2>1, <2>2, <2>8, <3>1 DEF RestoreWatches
    <3> QED
      BY <2>2, <2>3, <2>8, <3>1, <3>2, Restoring
  <2>9. CASE /\ \/ restoring.via = "list" /\ restoring.job = 0
                \/ restoring.via = "detail" /\ ~IsLive(restoring.reply.status)
             /\ restoring' = NoRestore
             /\ UNCHANGED <<ui, loops>>
    <3>1. OnlyLive(jobs, restoring.job)
      BY <2>1, <2>2, <2>9 DEF RestoreWatches
    <3>2. OnlyLive(jobs, 0)
      <4>1. CASE restoring.job = 0
        BY <3>1, <4>1
      <4>2. CASE ~IsLive(jobs[restoring.job].status)
        BY <3>1, <4>2 DEF OnlyLive
      <4> QED
        BY <2>1, <2>4, <2>9, <4>1, <4>2 DEF Late
    <3> QED
      BY <2>2, <2>3, <2>5, <2>9, <3>2, Resting
  <2> QED
    BY <1>18, <2>6, <2>7, <2>8, <2>9 DEF RestoreAnswered
<1>19. ASSUME ClickStart
       PROVE  A
  <2>1. PICK k \in 1..Min({MaxTests, MaxJobs - used.tests}) :
          LaunchNext([ui EXCEPT
            !.startOn = FALSE,
            !.queue = [t \in 1..k |-> [click |-> used.starts + 1, test |-> t]]])
    BY <1>19 DEF ClickStart
  <2> DEFINE q == [t \in 1..k |-> [click |-> used.starts + 1, test |-> t]]
  <2> DEFINE u == [ui EXCEPT !.startOn = FALSE, !.queue = q]
  <2>2. UNCHANGED <<jobs, loops, restoring>> /\ LaunchNext(u)
    BY <1>19, <2>1 DEF ClickStart
  <2>3. q # << >>
    BY <2>1
  <2> HIDE DEF q
  <2>4. u.queue = q /\ u.pollTimer = ui.pollTimer
    BY <1>1 DEF Pages
  <2> DEFINE r == [payload |-> Head(q), job |-> 0]
  <2>5. launching' = launching \cup {r} /\ ui' = [u EXCEPT !.queue = Tail(q)] /\ r.job = 0
    BY <2>2, <2>3, <2>4 DEF LaunchNext
  <2>6. ui'.pollTimer = ui.pollTimer
    BY <2>4, <2>5
  <2> HIDE DEF r
  <2>7. launching' = {r} /\ Busy(loops) = {} /\ restoring.via = "done"
    BY <2>2, <2>5 DEF Single
  <2>8. ui.pollTimer = 0
    BY <2>7 DEF Attended
  <2>9. OnlyLive(jobs, 0)
    <3>1. CASE launching = {}
      BY <2>7, <3>1 DEF Attended
    <3>2. CASE launching # {}
      BY <1>2, <2>5, <2>7, <3>2
    <3> QED
      BY <3>1, <3>2
  <2> QED
    BY <2>2, <2>5, <2>6, <2>7, <2>8, <2>9, LaunchingOne
<1>20. ASSUME ChangeSelection \/ CloseHistoryView
       PROVE  A
  <2>1. ui'.liveJobId = ui.liveJobId /\ ui'.pollTimer = ui.pollTimer
        /\ (ui'.running = ui.running \/ ui'.running = (ui.liveJobId # 0))
    BY <1>1, <1>20 DEF ChangeSelection, CloseHistoryView, Buttons, Pages
  <2> QED
    BY <1>3, <1>20, <2>1 DEF ChangeSelection, CloseHistoryView
<1>21. ASSUME ClickStop
       PROVE  A
  <2>1. ui'.liveJobId = ui.liveJobId /\ ui'.pollTimer = ui.pollTimer
        /\ (ui'.running = ui.running \/ ui'.running = (ui.liveJobId # 0))
    <3>1. CASE ActiveJob(ui) = 0
      BY <1>1, <1>21, <3>1 DEF ClickStop, Buttons, Pages, ActiveJob
    <3>2. CASE ActiveJob(ui) # 0
      BY <1>1, <1>21, <3>2 DEF ClickStop, Pages
    <3> QED
      BY <3>1, <3>2
  <2> QED
    BY <1>3, <1>21, <2>1 DEF ClickStop
<1>22. ASSUME Reload
       PROVE  A
  <2> DEFINE L == {q \in launching : q.job = 0}
  <2>1. PICK s \in Seq(Job) : jobs' = jobs \o s /\ Len(s) <= Cardinality(L)
    BY <1>22, ReloadAdds
  <2>2. /\ DOMAIN jobs' = 1..(n + Len(s)) /\ Len(s) \in Nat
        /\ \A i \in 1..n : jobs'[i] = jobs[i]
    BY <1>0, <2>1, JobsAdded, LenProperties
  <2>3. /\ restoring'.via # "done" /\ restoring'.via # "detail"
        /\ ~(restoring'.via = "list" /\ restoring'.at = "answered")
    BY <1>22 DEF Reload, Restore
  <2>4. \E j \in {0} \cup DOMAIN jobs' : OnlyLive(jobs', j)
    <3>1. CASE L = {}
      <4>1. Len(s) = 0
        <5>1. Cardinality(L) = 0
          BY <3>1, FS_EmptySet
        <5> QED
          BY <2>1, <2>2, <5>1
      <4>2. DOMAIN jobs' = 1..n
        BY <1>0, <2>2, <4>1
      <4>3. \E j \in {0} \cup DOMAIN jobs : OnlyLive(jobs, j)
        <5>1. CASE launching # {}
          <6>1. PICK r \in launching : OnlyLive(jobs, r.job)
            BY <1>2, <5>1
          <6>2. r.job \in {0} \cup 1..n
            BY <1>0, <1>1 DEF Launches
          <6> QED
            BY <1>0, <6>1, <6>2
        <5>2. CASE Busy(loops) # {}
          BY <1>0, <1>1, <1>2, <5>2 DEF LoopWatches
        <5>3. CASE restoring.via # "done"
          BY <1>2, <5>3 DEF RestoreWatches
        <5>4. CASE launching = {} /\ Busy(loops) = {} /\ restoring.via = "done"
          BY <5>4 DEF Attended
        <5> QED
          BY <5>1, <5>2, <5>3, <5>4
      <4> QED
        BY <1>0, <2>2, <4>2, <4>3 DEF OnlyLive
    <3>2. CASE L # {}
      <4>1. PICK r \in launching : r.job = 0
        BY <3>2
      <4>2. launching = {r} /\ OnlyLive(jobs, 0)
        BY <1>2, <4>1
      <4>3. L = {r}
        BY <4>1, <4>2
      <4>4. Cardinality(L) = 1
        BY <4>3, FS_Singleton
      <4>5. Len(s) <= 1
        BY <2>1, <4>4
      <4>6. OnlyLive(jobs', IF Len(s) = 0 THEN 0 ELSE n + 1)
        BY <1>0, <2>2, <4>2, <4>5 DEF OnlyLive
      <4> QED
        BY <1>0, <2>2, <4>5, <4>6
    <3> QED
      BY <3>1, <3>2
  <2>5. ui' = FreshPage /\ launching' = {}
    BY <1>22 DEF Reload
  <2>6. RestoreWatches(jobs', ui', restoring') /\ ui'.pollTimer = 0
    BY <2>3, <2>4, <2>5 DEF RestoreWatches, FreshPage
  <2>7. Busy(loops') = {}
    BY <1>22 DEF Reload, Busy, Quiet
  <2> QED
    BY <2>3, <2>5, <2>6, <2>7, Restoring
<1>23. /\ \A r : ~StartFailed(r)
       /\ \A j : ~StopLost(j)
       /\ \A l : ~PollFailed(l)
       /\ ~RestoreFailed
  BY FaultsAreCounted
<1>24. CASE \E r \in launching : AcceptStart(r) \/ JobStarted(r) \/ StartFailed(r)
  BY <1>5, <1>6, <1>23, <1>24
<1>25. CASE \/ \E j \in DOMAIN jobs : RecordRow(j) \/ FinishJob(j) \/ OpenHistoryJob(j)
            \/ \E j \in stops : AcceptStop(j) \/ StopLost(j)
  BY <1>7, <1>8, <1>9, <1>23, <1>25
<1>26. CASE \E l \in Loops : AnswerPoll(l) \/ PollTick(l) \/ PollUnchanged(l)
                             \/ PollNews(l) \/ PollFailed(l)
  BY <1>10, <1>11, <1>13, <1>14, <1>23, <1>26
<1>27. CASE \/ AnswerOpening \/ HistoryAnswered \/ HistoryFailed
            \/ AnswerRestore \/ RestoreAnswered \/ RestoreFailed
            \/ ClickStart \/ ChangeSelection \/ ClickStop \/ CloseHistoryView \/ Reload
  BY <1>15, <1>16, <1>17, <1>18, <1>19, <1>20, <1>21, <1>22, <1>23, <1>27
<1> QED
  BY <1>24, <1>25, <1>26, <1>27, NextCases

-----------------------------------------------------------------------------
(***************************************************************************)
(* What overlaps.                                                          *)
(***************************************************************************)
(* With fewer activities, there is still one at most. *)
LEMMA FewerActivities ==
  ASSUME NEW L, NEW B, NEW v, Single(L, B, v), NEW M \in SUBSET L, NEW C \in SUBSET B,
         NEW w, w = v \/ w = "done"
  PROVE  Single(M, C, w)
BY DEF Single

(* Which loops are busy changes with the loop that takes a step only. *)
LEMMA BusyStep ==
  ASSUME NEW n, loops \in [Loops -> Requests(n)], NEW l \in Busy(loops), NEW x,
         loops' = [loops EXCEPT ![l] = x]
  PROVE  Busy(loops') \subseteq Busy(loops)
BY DEF Busy

(* No step of the chain, and none that ends something, adds an activity. *)
LEMMA SingleNext ==
  ASSUME Typed, Next, Single(launching, Busy(loops), restoring.via)
  PROVE  \/ Single(launching', Busy(loops'), restoring'.via)
         \/ ClickStart \/ HistoryAnswered \/ RestoreAnswered
<1> DEFINE n == Len(jobs)
<1> DEFINE S == Single(launching', Busy(loops'), restoring'.via)
<1>0. /\ n \in Nat /\ loops \in [Loops -> Requests(n)] /\ ui \in Pages(n)
      /\ launching \subseteq Launches(n) /\ restoring \in Restores(n)
  BY LenProperties DEF Typed, Fits
<1>1. ASSUME UNCHANGED <<launching, loops, restoring>>
      PROVE  S
  BY <1>1
<1>2. ASSUME launching' \subseteq launching, Busy(loops') \subseteq Busy(loops),
             restoring'.via \in {restoring.via, "done"}
      PROVE  S
  BY <1>2, FewerActivities
<1>3. ASSUME NEW r \in launching, AcceptStart(r)
      PROVE  S
  <2> DEFINE x == [r EXCEPT !.job = n + 1]
  <2>1. launching = {r} /\ Busy(loops) = {} /\ restoring.via = "done"
    BY DEF Single
  <2>2. launching' = {x} /\ UNCHANGED <<loops, restoring>>
    BY <1>3, <2>1 DEF AcceptStart
  <2> HIDE DEF x
  <2> QED
    BY <2>1, <2>2 DEF Single
<1>4. ASSUME NEW r \in launching, JobStarted(r)
      PROVE  S
  <2>1. launching = {r} /\ Busy(loops) = {} /\ restoring.via = "done"
    BY DEF Single
  <2>2. launching' = {} /\ restoring' = restoring
    BY <1>4, <2>1 DEF JobStarted
  <2>3. r.job \in 1..n
    BY <1>0, <1>4 DEF JobStarted, Launches
  <2>4. ui'.liveJobId = r.job
    BY <1>0, <1>4 DEF JobStarted, Buttons, Pages
  <2>5. ActiveJob(ui') = r.job /\ BeginPolling(ui')
    BY <1>4, <2>3, <2>4 DEF ActiveJob, JobStarted
  <2>6. PICK k \in IdleLoops : loops' = [loops EXCEPT ![k] = Asking(r.job)]
    BY <1>0, <2>3, <2>5, Polling
  <2>7. k \in Loops /\ Asking(r.job).at # "idle"
    BY DEF IdleLoops, Asking
  <2>8. Busy(loops') = {k}
    BY <1>0, <2>1, <2>6, <2>7, BusyKept
  <2> QED
    BY <2>1, <2>2, <2>8 DEF Single
<1>5. ASSUME NEW r \in launching, StartFailed(r)
      PROVE  S
  BY <1>2, <1>5 DEF StartFailed
<1>6. ASSUME NEW j, \/ RecordRow(j) \/ FinishJob(j) \/ OpenHistoryJob(j)
                    \/ AcceptStop(j) \/ StopLost(j)
      PROVE  S
  BY <1>1, <1>6 DEF RecordRow, FinishJob, OpenHistoryJob, AcceptStop, StopLost
<1>7. ASSUME \/ AnswerOpening \/ HistoryFailed
             \/ ChangeSelection \/ ClickStop \/ CloseHistoryView
      PROVE  S
  BY <1>1, <1>7 DEF AnswerOpening, HistoryFailed, ChangeSelection, ClickStop, CloseHistoryView
<1>8. ASSUME NEW l \in Loops, loops[l].at # "idle",
             NEW x, loops' = [loops EXCEPT ![l] = x], UNCHANGED <<launching, restoring>>
      PROVE  S
  <2>1. l \in Busy(loops)
    BY <1>8 DEF Busy
  <2>2. Busy(loops') \subseteq Busy(loops)
    BY <1>0, <1>8, <2>1, BusyStep
  <2> QED
    BY <1>2, <1>8, <2>2
<1>9. ASSUME NEW l \in Loops, AnswerPoll(l)
      PROVE  S
  <2> DEFINE x == [loops[l] EXCEPT !.at = "answered", !.reply = Told(loops[l].job)]
  <2>1. loops' = [loops EXCEPT ![l] = x] /\ loops[l].at # "idle" /\ UNCHANGED <<launching, restoring>>
    BY <1>0, <1>9 DEF AnswerPoll
  <2> HIDE DEF x
  <2> QED
    BY <1>8, <2>1
<1>10. ASSUME NEW l \in Loops, PollTick(l)
       PROVE  S
  BY <1>8, <1>10 DEF PollTick
<1>11. ASSUME NEW l \in Loops, PollUnchanged(l)
       PROVE  S
  BY <1>8, <1>11 DEF PollUnchanged, Rearm
<1>12. ASSUME NEW l \in Loops, PollNews(l)
       PROVE  S
  <2>1. CASE IsLive(loops[l].reply.status)
    BY <1>8, <1>12, <2>1 DEF PollNews, Rearm
  <2>2. CASE ~IsLive(loops[l].reply.status)
    <3>1. PICK u : LaunchNext(u)
      BY <1>12, <2>2 DEF PollNews
    <3>2. loops' = [loops EXCEPT ![l] = Quiet] /\ restoring' = restoring /\ loops[l].at # "idle"
      BY <1>12, <2>2 DEF PollNews
    <3>3. l \in Busy(loops)
      BY <3>2 DEF Busy
    <3>4. launching = {} /\ Busy(loops) = {l} /\ restoring.via = "done"
      BY <3>3 DEF Single
    <3>5. Busy(loops') = {}
      <4>1. Quiet.at = "idle"
        BY DEF Quiet
      <4>2. Busy([loops EXCEPT ![l] = Quiet]) = Busy(loops) \ {l}
        BY <1>0, <4>1, BusyPut
      <4> QED
        BY <3>2, <3>4, <4>2
    <3>6. launching' = {} \/ \E r : launching' = {r}
      BY <3>1, <3>4 DEF LaunchNext
    <3> QED
      BY <3>2, <3>4, <3>5, <3>6 DEF Single
  <2> QED
    BY <2>1, <2>2
<1>13. ASSUME NEW l \in Loops, PollFailed(l)
       PROVE  S
  <2> DEFINE ls == [loops EXCEPT ![l] = Quiet]
  <2>1. loops' = ClearTimer(ls, ui) /\ UNCHANGED <<launching, restoring>>
    BY <1>13 DEF PollFailed
  <2>2. Quiet.at = "idle"
    BY DEF Quiet
  <2>3. Busy(ls) \subseteq Busy(loops)
    BY <1>0, <2>2 DEF Busy
  <2>4. ui.pollTimer \in {0} \cup Loops
    BY <1>0 DEF Pages
  <2>5. ls \in [Loops -> Requests(n)]
    BY <1>0, RequestFacts
  <2> HIDE DEF ls
  <2>6. Busy(loops') \subseteq Busy(ls)
    BY <2>1, <2>2, <2>4, <2>5 DEF ClearTimer, Busy
  <2> QED
    BY <1>2, <2>1, <2>3, <2>6
<1>14. ASSUME AnswerRestore
       PROVE  S
  <2>1. restoring'.via = restoring.via /\ UNCHANGED <<launching, loops>>
    BY <1>0, <1>14 DEF AnswerRestore, Restores
  <2> QED
    BY <1>2, <2>1
<1>15. ASSUME RestoreFailed
       PROVE  S
  <2>1. restoring'.via = "done" /\ UNCHANGED <<launching, loops>>
    BY <1>15 DEF RestoreFailed, NoRestore
  <2> QED
    BY <1>2, <2>1
<1>16. ASSUME Reload
       PROVE  S
  <2>1. launching' = {}
    BY <1>16 DEF Reload
  <2>2. Busy(loops') = {}
    BY <1>16 DEF Reload, Busy, Quiet
  <2> QED
    BY <2>1, <2>2 DEF Single
<1>17. CASE \E r \in launching : AcceptStart(r) \/ JobStarted(r) \/ StartFailed(r)
  BY <1>3, <1>4, <1>5, <1>17
<1>18. CASE \/ \E j \in DOMAIN jobs : RecordRow(j) \/ FinishJob(j) \/ OpenHistoryJob(j)
            \/ \E j \in stops : AcceptStop(j) \/ StopLost(j)
  BY <1>6, <1>18
<1>19. CASE \E l \in Loops : AnswerPoll(l) \/ PollTick(l) \/ PollUnchanged(l)
                             \/ PollNews(l) \/ PollFailed(l)
  BY <1>9, <1>10, <1>11, <1>12, <1>13, <1>19
<1> QED
  BY <1>7, <1>14, <1>15, <1>16, <1>17, <1>18, <1>19, NextCases

LEMMA WatchedNext ==
  ASSUME Typed, Typed', AnswersLast, Watched, [Next]_vars
  PROVE  Watched'
<1>1. CASE Next
  <2>1. /\ ~overlapped' => /\ ~overlapped /\ ~(Activities' > 1)
                           /\ ~Outdated(opening)' /\ ~Outdated(restoring)'
    BY <1>1 DEF Next, Watch
  <2>2. ~overlapped' => Single(launching', Busy(loops'), restoring'.via)
    BY <2>1, ActivitiesCounted
  <2>3. Calm' => Calm /\ used'.faults = 0
    BY <1>1, <2>1, FaultsAreCounted DEF Calm
  <2>4. Calm' => Attended(jobs', ui', loops', launching', restoring')
    <3>1. SUFFICES ASSUME Calm'
                   PROVE  Attended(jobs', ui', loops', launching', restoring')
      OBVIOUS
    <3>2. ~overlapped /\ ~overlapped' /\ used'.faults = 0 /\ Calm
      BY <2>3, <3>1 DEF Calm
    <3>3. /\ Single(launching, Busy(loops), restoring.via)
          /\ ~Outdated(opening) /\ ~Outdated(restoring)
          /\ Attended(jobs, ui, loops, launching, restoring)
      BY <3>2 DEF Watched
    <3> QED
      BY <1>1, <2>2, <3>2, <3>3, AttendedNext
  <2> QED
    BY <2>1, <2>2, <2>4 DEF Watched
<1>2. CASE UNCHANGED vars
  <2>1. UNCHANGED <<jobs, ui, loops, launching, opening, restoring, overlapped, used>>
    BY <1>2 DEF vars
  <2> QED
    BY <2>1 DEF Watched, Calm, Outdated
<1> QED
  BY <1>1, <1>2

LEMMA OrderlyNext ==
  ASSUME Orderly, [Next]_vars
  PROVE  Orderly'
BY TypedNext, QueueNext, AnswersNext, WatchedNext DEF Orderly

LEMMA OrderlyInit ==
  ASSUME Init
  PROVE  Orderly
<1>0. 0 \in Nat /\ << >> \in Seq(Job) /\ Len(jobs) = 0 /\ DOMAIN jobs = {}
  BY DEF Init
<1>1. PICK late \in {0} \cup 1..Min({1, MaxTrouble}) :
        /\ restoring = IF late = 0 THEN NoRestore ELSE Restore("list", 0)
        /\ used = [starts |-> 0, tests |-> 0, faults |-> 0, trouble |-> late]
  BY DEF Init
<1>2. late \in Nat
  BY MinOfTwo, BoundsAssumption
<1>3. used \in Uses /\ used.starts = 0 /\ used.faults = 0
  BY <1>1, <1>2, BoundsAssumption DEF Uses
<1>4. loops \in [Loops -> Requests(0)] /\ opening \in Requests(0)
  BY <1>0, RequestFacts DEF Init
<1>5. restoring \in Restores(0)
  BY <1>0, <1>1, RestoreFacts
<1>6. ui \in Pages(0) /\ ui.queue = << >> /\ ui.pollTimer = 0
      /\ ~ui.running /\ ui.liveJobId = 0
  BY <1>0, FreshTyped DEF Init, FreshPage
<1>7. IsFiniteSet(launching) /\ launching = {}
  BY FS_EmptySet DEF Init
<1>8. Typed
  <2>1. jobs \in Seq(Job) /\ overlapped \in BOOLEAN
    BY <1>0 DEF Init
  <2>2. hint \in 0..0 /\ cancelled \in 0..0
    BY DEF Init
  <2>3. stops \subseteq 1..0 /\ launching \subseteq Launches(0)
    BY DEF Init
  <2> QED
    BY <1>0, <1>3, <1>4, <1>5, <1>6, <1>7, <2>1, <2>2, <2>3 DEF Typed, Fits
<1>9. QueueIsWanted
  BY <1>6 DEF QueueIsWanted
<1>10. /\ \A l \in Loops : loops[l].at = "idle"
       /\ opening.at = "idle" /\ ~IsLive(opening.reply.status)
       /\ restoring.at \in {"idle", "sent"} /\ ~IsLive(restoring.reply.status)
       /\ restoring.via \in {"done", "list"}
  BY <1>1 DEF Init, Quiet, NoRestore, Restore, Unanswered, IsLive, LiveStatus
<1>11. AnswersLast
  BY <1>10 DEF AnswersLast, Late
<1>12. OnlyLive(jobs, 0)
  BY <1>0 DEF OnlyLive
<1>13. Busy(loops) = {}
  BY <1>10 DEF Busy
<1>14. Watched
  <2>1. Single(launching, Busy(loops), restoring.via)
    BY <1>7, <1>13 DEF Single
  <2>2. ~Outdated(opening) /\ ~Outdated(restoring)
    BY <1>10 DEF Outdated
  <2>3. restoring.via # "done" => RestoreWatches(jobs, ui, restoring)
    BY <1>6, <1>10, <1>12 DEF RestoreWatches
  <2>4. Attended(jobs, ui, loops, launching, restoring)
    BY <1>6, <1>7, <1>12, <1>13, <2>3 DEF Attended
  <2> QED
    BY <2>1, <2>2, <2>4 DEF Watched
<1> QED
  BY <1>8, <1>9, <1>11, <1>14 DEF Orderly

LEMMA OrderlyAlways == Spec => []Orderly
<1>1. Init => Orderly
  BY OrderlyInit
<1>2. Orderly /\ [Next]_vars => Orderly'
  BY OrderlyNext
<1> QED
  BY <1>1, <1>2, PTL DEF Spec

-----------------------------------------------------------------------------
(***************************************************************************)
(* The ids the page holds are ids of the server's jobs, and its loops,     *)
(* requests and queue never hold anything else.                            *)
(***************************************************************************)
THEOREM TypeCorrect == Spec => []TypeOK
<1>1. Orderly => TypeOK
  <2> SUFFICES ASSUME Orderly
               PROVE  TypeOK
    OBVIOUS
  <2>1. /\ jobs \in Seq(Job) /\ DOMAIN jobs = 1..Len(jobs) /\ Len(jobs) \in Nat
        /\ Fits(Len(jobs), ui, hint, loops, launching, stops, opening, restoring, cancelled, used)
    BY LenProperties DEF Orderly, Typed
  <2>2. {ui.liveJobId, ui.jobId, ui.historyId, hint} \subseteq {0} \cup DOMAIN jobs
    BY <2>1 DEF Fits, Pages
  <2>3. ui.queue \in Seq(Payload) /\ ui.pollTimer \in {0} \cup Loops
    BY <2>1 DEF Fits, Pages
  <2>4. \A l \in Loops : loops[l].reply \in Reply \cup {Unanswered}
    BY <2>1 DEF Fits, Requests
  <2> QED
    BY <2>1, <2>2, <2>3, <2>4 DEF TypeOK, Job, Fits
<1> QED
  BY <1>1, OrderlyAlways, PTL

(***************************************************************************)
(* The page has the server run one job at a time, as long as nothing fails *)
(* and nothing overlaps.                                                   *)
(***************************************************************************)
THEOREM OneRun == Spec => []OneRunAtATime
<1>1. Orderly => OneRunAtATime
  <2> SUFFICES ASSUME Orderly, Calm
               PROVE  Cardinality(LiveJobs) <= 1
    BY DEF OneRunAtATime
  <2>1. Attended(jobs, ui, loops, launching, restoring)
    BY DEF Orderly, Watched
  <2>2. \E j : OnlyLive(jobs, j)
    <3>1. CASE launching # {}
      BY <2>1, <3>1 DEF Attended
    <3>2. CASE Busy(loops) # {}
      BY <2>1, <3>2 DEF Attended, LoopWatches
    <3>3. CASE restoring.via # "done"
      BY <2>1, <3>3 DEF Attended, RestoreWatches
    <3>4. CASE launching = {} /\ Busy(loops) = {} /\ restoring.via = "done"
      BY <2>1, <3>4 DEF Attended
    <3> QED
      BY <3>1, <3>2, <3>3, <3>4
  <2>3. \A i, k \in LiveJobs : i = k
    BY <2>2 DEF OnlyLive, LiveJobs
  <2> QED
    BY <2>3, OneAtMost
<1> QED
  BY <1>1, OrderlyAlways, PTL

(***************************************************************************)
(* Between launches, Stop is there for the job that runs, and the one it   *)
(* is sent to is that job and never the one of the history view.           *)
(***************************************************************************)
THEOREM StopHitsTheRun == Spec => []StopWorks
<1>1. Orderly => StopWorks
  <2> SUFFICES ASSUME Orderly, Calm, launching = {}
               PROVE  /\ ui.running => LiveJobs \subseteq {ActiveJob(ui)}
                      /\ restoring.via = "done" /\ LiveJobs # {} => ui.running
    BY DEF StopWorks, StopAimsAtLiveRun, StopIsAvailable
  <2>1. Attended(jobs, ui, loops, launching, restoring)
    BY DEF Orderly, Watched
  <2>2. CASE Busy(loops) # {}
    <3>1. PICK l \in Loops : LoopWatches(jobs, ui, loops[l])
      BY <2>1, <2>2 DEF Attended, Busy
    <3>2. ActiveJob(ui) = ui.liveJobId /\ OnlyLive(jobs, ui.liveJobId)
      BY <3>1 DEF LoopWatches, ActiveJob
    <3>3. LiveJobs \subseteq {ActiveJob(ui)}
      BY <3>2 DEF LiveJobs, OnlyLive
    <3>4. LiveJobs # {} => ui.running
      BY <3>1, <3>2 DEF LiveJobs, OnlyLive, LoopWatches
    <3> QED
      BY <3>3, <3>4
  <2>3. CASE restoring.via # "done"
    BY <2>1, <2>3 DEF Attended, RestoreWatches
  <2>4. CASE Busy(loops) = {} /\ restoring.via = "done"
    <3>1. OnlyLive(jobs, 0) /\ 0 \notin DOMAIN jobs
      <4>1. jobs \in Seq(Job)
        BY DEF Orderly, Typed
      <4>2. 0 \notin DOMAIN jobs
        BY <4>1, LenProperties
      <4> QED
        BY <2>1, <2>4, <4>2 DEF Attended
    <3>2. LiveJobs = {}
      BY <3>1 DEF LiveJobs, OnlyLive
    <3> QED
      BY <3>2
  <2> QED
    BY <2>2, <2>3, <2>4
<1> QED
  BY <1>1, OrderlyAlways, PTL

(***************************************************************************)
(* Nothing that was queued before a click on Stop is sent after it, and    *)
(* the chain that launches the queue never overlaps with itself.           *)
(***************************************************************************)
THEOREM QueueOrderly == Spec => QueueIsOrderly
<1> DEFINE Sent == \A r \in launching' \ launching : r.job = 0 => r.payload.click > cancelled
<1> DEFINE Chain == ~overlapped /\ Activities' > 1 => ClickStart \/ HistoryAnswered \/ RestoreAnswered
<1>1. Orderly /\ [Next]_vars => [Sent]_vars
  BY QueueNext DEF Orderly
<1>2. Orderly /\ [Next]_vars => [Chain]_vars
  <2> SUFFICES ASSUME Orderly, Next, ~overlapped, Activities' > 1
               PROVE  ClickStart \/ HistoryAnswered \/ RestoreAnswered
    OBVIOUS
  <2>1. Typed /\ Typed' /\ Single(launching, Busy(loops), restoring.via)
    BY OrderlyNext DEF Orderly, Watched
  <2>2. ~Single(launching', Busy(loops'), restoring'.via)
    BY <2>1, ActivitiesCounted
  <2> QED
    BY <2>1, <2>2, SingleNext
<1> HIDE DEF Sent, Chain
<1>3. Spec => [][Sent]_vars /\ [][Chain]_vars
  BY <1>1, <1>2, OrderlyAlways, PTL DEF Spec
<1> USE DEF Sent, Chain
<1> QED
  BY <1>3 DEF QueueIsOrderly, StopDropsQueue, ChainIsSingle
=============================================================================

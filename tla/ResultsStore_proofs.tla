------------------------ MODULE ResultsStore_proofs ------------------------
(***************************************************************************)
(* What holds of the results directory for every number of jobs, readers,  *)
(* rows, crashes and failed file operations.                               *)
(***************************************************************************)
EXTENDS ResultsStore, SequenceTheorems, TLAPS

(***************************************************************************)
(* The steps of the store, one operator application per disjunct of Next.  *)
(***************************************************************************)
LEMMA NextCases ==
  ASSUME [Next]_vars
  PROVE  \/ \E j \in Jobs : StartJob(j)
         \/ \E j \in Jobs : StopJob(j)
         \/ \E j \in Jobs : AddRow(j)
         \/ \E j \in Jobs, s \in Terminal : SettleJob(j, s)
         \/ \E j \in Jobs : DrainJob(j)
         \/ \E j \in Jobs, k \in Saves : BeginSave(j, k)
         \/ \E j \in Jobs, k \in Saves : PassGate(j, k)
         \/ \E j \in Jobs, k \in Saves : OpenFile(j, k)
         \/ \E j \in Jobs, k \in Saves : CloseFile(j, k)
         \/ \E j \in Jobs, k \in Saves : SaveFails(j, k)
         \/ \E r \in Readers : RequestList(r) \/ EnterList(r) \/ EndList(r)
         \/ \E r \in Readers, j \in Jobs : ReadFile(r, j)
         \/ \E S \in SUBSET Jobs : RequestClear(S)
         \/ EnterClear
         \/ Crash
         \/ Restart
         \/ \E j \in Jobs : SkipFile(j)
         \/ \E j \in Jobs : BeginRewrite(j)
         \/ EndRewrite
         \/ RewriteFails
         \/ Serve
         \/ UNCHANGED vars
BY DEF Next, JobStep, SaveStep, ListStep, StartupStep

-----------------------------------------------------------------------------
(* Types of the values that the actions build. *)
LEMMA BlankType ==
  ASSUME NEW p \in {"none", "waiting", "saved", "failed"}
  PROVE  Blank(p) \in TaskType
BY BoundsAssumption DEF Blank, Task, TaskType, Statuses

LEMMA RecordTypes ==
  /\ Absent \in RecordType
  /\ Torn \in RecordType
  /\ \A t \in TaskType : Record(t.status, t.completed, t.rows) \in RecordType
BY BoundsAssumption
   DEF Absent, Torn, NoRecord, Record, RecordType, TaskType, Statuses

LEMMA TaskUpdates ==
  ASSUME NEW t \in TaskType
  PROVE  /\ \A n \in 0..MaxRows :
              [t EXCEPT !.pc = "serialised", !.rows = n] \in TaskType
         /\ [t EXCEPT !.pc = "writing", !.linked = TRUE] \in TaskType
         /\ [t EXCEPT !.linked = FALSE] \in TaskType
BY DEF TaskType

LEMMA ReaderTypes ==
  /\ IdleReader \in ReaderType
  /\ \A S \in SUBSET Jobs : [pc |-> "reading", todo |-> S, items |-> {}] \in ReaderType
  /\ \A v \in ReaderType : [v EXCEPT !.pc = "waiting"] \in ReaderType
  /\ \A v \in ReaderType, S, T \in SUBSET Jobs :
       [v EXCEPT !.todo = S, !.items = T] \in ReaderType
BY DEF IdleReader, ReaderType

LEMMA Interrupted ==
  ASSUME NEW d \in RecordType
  PROVE  [d EXCEPT !.status = "interrupted"] \in RecordType
BY DEF RecordType, Statuses

LEMMA SaveNumbers == FinalSave \in Saves /\ \A n \in 0..MaxRows : n < MaxRows => n + 1 \in Saves
BY BoundsAssumption DEF Saves, FinalSave

LEMMA SaveUpdate ==
  ASSUME save \in [Jobs -> [Saves -> TaskType]],
         NEW j \in Jobs, NEW k \in Saves, NEW t \in TaskType
  PROVE  [save EXCEPT ![j][k] = t] \in [Jobs -> [Saves -> TaskType]]
OBVIOUS

LEMMA TypeInit == Init => TypeOK
<1> SUFFICES ASSUME Init PROVE TypeOK
  OBVIOUS
<1>1. save \in [Jobs -> [Saves -> TaskType]]
  BY BlankType DEF Init
<1>2. disk \in [Jobs -> RecordType]
  BY RecordTypes DEF Init
<1>3. reader \in [Readers -> ReaderType]
  BY ReaderTypes DEF Init
<1>4. /\ crashes \in 0..MaxCrashes
      /\ ioErrors \in 0..MaxErrors
      /\ flushed \in [Jobs -> 0..MaxRows]
      /\ rows \in [Jobs -> 0..MaxRows]
  BY BoundsAssumption DEF Init
<1>5. QED
  BY <1>1, <1>2, <1>3, <1>4 DEF Init, TypeOK, Statuses

LEMMA TypeNext == TypeOK /\ [Next]_vars => TypeOK'
<1> SUFFICES ASSUME TypeOK, [Next]_vars PROVE TypeOK'
  OBVIOUS
<1> USE DEF TypeOK, memory, budget, history, startup
<1>1. ASSUME NEW j \in Jobs, StartJob(j) PROVE TypeOK'
  BY <1>1 DEF StartJob, Statuses, LiveStatuses
<1>2. ASSUME NEW j \in Jobs, StopJob(j) PROVE TypeOK'
  BY <1>2 DEF StopJob, Statuses, LiveStatuses
<1>3. ASSUME NEW j \in Jobs, AddRow(j) PROVE TypeOK'
  <2>1. save' \in [Jobs -> [Saves -> TaskType]]
    <3>1. PICK k \in Saves : k = rows[j] + 1
      BY <1>3, SaveNumbers DEF AddRow
    <3>2. save' = [save EXCEPT ![j][k] = Blank("waiting")]
      BY <1>3, <3>1 DEF AddRow, SetSave
    <3>3. QED
      BY <3>2, BlankType, SaveUpdate
  <2>2. rows' \in [Jobs -> 0..MaxRows]
    BY <1>3, BoundsAssumption DEF AddRow
  <2>3. QED
    BY <1>3, <2>1, <2>2 DEF AddRow
<1>4. ASSUME NEW j \in Jobs, NEW s \in Terminal, SettleJob(j, s) PROVE TypeOK'
  BY <1>4 DEF SettleJob, Statuses
<1>5. ASSUME NEW j \in Jobs, DrainJob(j) PROVE TypeOK'
  <2>1. save' \in [Jobs -> [Saves -> TaskType]]
    <3>1. FinalSave \in Saves /\ Blank("waiting") \in TaskType
      BY BlankType, SaveNumbers
    <3>2. save' = [save EXCEPT ![j][FinalSave] = Blank("waiting")] \/ save' = save
      BY <1>5 DEF DrainJob, SetSave
    <3>3. CASE save' = [save EXCEPT ![j][FinalSave] = Blank("waiting")]
      BY <3>1, <3>3, SaveUpdate
    <3>4. QED
      BY <3>2, <3>3
  <2>2. QED
    BY <1>5, <2>1 DEF DrainJob
<1>6. ASSUME NEW j \in Jobs, NEW k \in Saves, BeginSave(j, k) PROVE TypeOK'
  <2>1. /\ Task("serialised", status[j], rows[j], rows[j], FALSE) \in TaskType
        /\ Task("gate", status[j], rows[j], 0, FALSE) \in TaskType
    BY BoundsAssumption DEF Task, TaskType
  <2>2. \E t \in TaskType : save' = [save EXCEPT ![j][k] = t]
    BY <1>6, <2>1 DEF BeginSave, SetSave
  <2>3. save' \in [Jobs -> [Saves -> TaskType]]
    BY <2>2, SaveUpdate
  <2>4. QED
    BY <1>6, <2>3 DEF BeginSave
<1>7. ASSUME NEW j \in Jobs, NEW k \in Saves, PassGate(j, k) PROVE TypeOK'
  <2> DEFINE t == [save[j][k] EXCEPT !.pc = "serialised", !.rows = rows[j]]
  <2>1. save[j][k] \in TaskType /\ rows[j] \in 0..MaxRows
    OBVIOUS
  <2>2. t \in TaskType
    BY <2>1, TaskUpdates
  <2>3. save' = [save EXCEPT ![j][k] = t]
    BY <1>7 DEF PassGate
  <2>4. save' \in [Jobs -> [Saves -> TaskType]]
    BY <2>2, <2>3, SaveUpdate
  <2>5. QED
    BY <1>7, <2>4 DEF PassGate
<1>8. ASSUME NEW j \in Jobs, NEW k \in Saves, OpenFile(j, k) PROVE TypeOK'
  <2> DEFINE t == [save[j][k] EXCEPT !.pc = "writing", !.linked = TRUE]
  <2>1. save[j][k] \in TaskType /\ rows[j] \in 0..MaxRows
    OBVIOUS
  <2>2. t \in TaskType
    BY <2>1, TaskUpdates
  <2>3. save' = [save EXCEPT ![j][k] = t]
    BY <1>8 DEF OpenFile
  <2>4. save' \in [Jobs -> [Saves -> TaskType]]
    BY <2>2, <2>3, SaveUpdate
  <2>5. QED
    BY <1>8, <2>4, RecordTypes DEF OpenFile
<1>9. ASSUME NEW j \in Jobs, NEW k \in Saves, CloseFile(j, k) PROVE TypeOK'
  <2>1. save' \in [Jobs -> [Saves -> TaskType]]
    BY <1>9, BlankType, SaveUpdate DEF CloseFile, EndSave, SetSave
  <2>2. disk' \in [Jobs -> RecordType]
    BY <1>9, RecordTypes DEF CloseFile
  <2>3. save[j][k].rows \in 0..MaxRows
    BY DEF TaskType
  <2>4. flushed' \in [Jobs -> 0..MaxRows]
    BY <1>9, <2>3 DEF CloseFile
  <2>5. QED
    BY <1>9, <2>1, <2>2, <2>4 DEF CloseFile, EndSave
<1>10. ASSUME NEW j \in Jobs, NEW k \in Saves, SaveFails(j, k) PROVE TypeOK'
  <2>1. save' \in [Jobs -> [Saves -> TaskType]]
    BY <1>10, BlankType, SaveUpdate DEF SaveFails, EndSave, SetSave
  <2>2. QED
    BY <1>10, <2>1, BoundsAssumption DEF SaveFails, EndSave
<1>11. ASSUME NEW r \in Readers, RequestList(r) \/ EnterList(r) \/ EndList(r)
       PROVE TypeOK'
  <2>1. \E v \in ReaderType : reader' = [reader EXCEPT ![r] = v]
    BY <1>11, ReaderTypes DEF RequestList, EnterList, EndList, Listing, Files
  <2>2. QED
    BY <1>11, <2>1 DEF RequestList, EnterList, EndList
<1>12. ASSUME NEW r \in Readers, NEW j \in Jobs, ReadFile(r, j) PROVE TypeOK'
  <2> DEFINE todo == reader[r].todo \ {j}
             items == IF disk[j].kind = "whole" THEN reader[r].items \cup {j}
                      ELSE reader[r].items
  <2>1. todo \in SUBSET Jobs /\ items \in SUBSET Jobs
    BY DEF ReaderType
  <2>2. [reader[r] EXCEPT !.todo = todo, !.items = items] \in ReaderType
    BY <2>1, ReaderTypes
  <2>3. reader' = [reader EXCEPT ![r] =
                     [reader[r] EXCEPT !.todo = todo, !.items = items]]
    BY <1>12 DEF ReadFile
  <2>4. QED
    BY <1>12, <2>2, <2>3 DEF ReadFile
<1>13. ASSUME NEW S \in SUBSET Jobs, Unlink(S)
       PROVE  /\ save' \in [Jobs -> [Saves -> TaskType]]
              /\ disk' \in [Jobs -> RecordType]
              /\ flushed' \in [Jobs -> 0..MaxRows]
  <2>1. \A t \in TaskType : [t EXCEPT !.linked = FALSE] \in TaskType
    BY TaskUpdates
  <2>2. QED
    BY <1>13, <2>1, RecordTypes, BoundsAssumption DEF Unlink
<1>14. ASSUME NEW S \in SUBSET Jobs, RequestClear(S) PROVE TypeOK'
  BY <1>13, <1>14 DEF RequestClear
<1>15. CASE EnterClear
  BY <1>13, <1>15 DEF EnterClear
<1>16. CASE Crash
  <2>1. save' \in [Jobs -> [Saves -> TaskType]]
    BY <1>16, BlankType DEF Crash
  <2>2. reader' \in [Readers -> ReaderType]
    BY <1>16, ReaderTypes DEF Crash
  <2>3. life' \in [Jobs -> {"unborn", "working", "draining", "lastSave", "done", "lost"}]
    BY <1>16 DEF Crash
  <2>4. crashes' \in 0..MaxCrashes
    BY <1>16, BoundsAssumption DEF Crash
  <2>5. QED
    BY <1>16, <2>1, <2>2, <2>3, <2>4 DEF Crash
<1>17. CASE Restart
  BY <1>17 DEF Restart, Files
<1>18. ASSUME NEW j \in Jobs, SkipFile(j) PROVE TypeOK'
  BY <1>18 DEF SkipFile
<1>19. ASSUME NEW j \in Jobs, BeginRewrite(j) PROVE TypeOK'
  <2>1. [disk[j] EXCEPT !.status = "interrupted"] \in RecordType
    BY Interrupted
  <2>2. QED
    BY <1>19, <2>1, RecordTypes DEF BeginRewrite
<1>20. CASE EndRewrite
  BY <1>20 DEF EndRewrite
<1>21. CASE RewriteFails
  BY <1>21, BoundsAssumption DEF RewriteFails
<1>22. CASE Serve
  BY <1>22 DEF Serve
<1>23. CASE UNCHANGED vars
  BY <1>23 DEF vars
<1>24. QED
  BY NextCases, <1>1, <1>2, <1>3, <1>4, <1>5, <1>6, <1>7, <1>8, <1>9, <1>10,
     <1>11, <1>12, <1>14, <1>15, <1>16, <1>17, <1>18, <1>19, <1>20, <1>21,
     <1>22, <1>23

(***************************************************************************)
(* Every variable of the store keeps its type: in particular no save task  *)
(* captures, and no file claims, more rows than a job can have.            *)
(***************************************************************************)
THEOREM TypeCorrect == Spec => []TypeOK
BY TypeInit, TypeNext, PTL DEF Spec

(***************************************************************************)
(* The saves of one job never overlap: one task at a time is between the   *)
(* capture of the record and the end of the write.                         *)
(***************************************************************************)
OneSaveAtATime ==
  \A j \in Jobs : \A k, i \in Saves : Begun(j, k) /\ Begun(j, i) => k = i

-----------------------------------------------------------------------------
(***************************************************************************)
(* The locks.  The only step that lets a save task begin is the one that   *)
(* finds every other task of the job outside its critical section.         *)
(***************************************************************************)
LEMMA OneSaveNext ==
  TypeOK /\ OneSaveAtATime /\ [Next]_vars => OneSaveAtATime'
<1> SUFFICES ASSUME TypeOK, OneSaveAtATime, [Next]_vars
             PROVE  OneSaveAtATime'
  OBVIOUS
<1> DEFINE Grows == \E j \in Jobs, k \in Saves : BeginSave(j, k)
<1>1. save \in [Jobs -> [Saves -> TaskType]]
  BY DEF TypeOK
<1>2. ASSUME NEW i \in Jobs, NEW l \in Saves, BeginSave(i, l)
      PROVE  OneSaveAtATime'
  <2>1. \A k \in Saves : ~Begun(i, k)
    BY <1>2 DEF BeginSave, HasTurn
  <2>2. ASSUME NEW j \in Jobs, NEW k \in Saves, Begun(j, k)', <<j, k>> # <<i, l>>
        PROVE  Begun(j, k)
    BY <1>1, <1>2, <2>2 DEF BeginSave, SetSave, Begun
  <2>3. QED
    BY <2>1, <2>2 DEF OneSaveAtATime
<1>3. SUFFICES ASSUME NEW j \in Jobs, NEW k \in Saves, Begun(j, k)', ~Grows
               PROVE  Begun(j, k)
  BY <1>2 DEF OneSaveAtATime
<1>4. ASSUME UNCHANGED save PROVE Begun(j, k)
  BY <1>3, <1>4 DEF Begun
<1>5. ASSUME NEW i \in Jobs, NEW l \in Saves, NEW p, SetSave(i, l, Blank(p)),
             p \notin {"gate", "serialised", "writing"}
      PROVE  Begun(j, k)
  BY <1>1, <1>3, <1>5 DEF SetSave, Begun, Blank, Task
<1>6. ASSUME NEW i \in Jobs, NEW l \in Saves, PassGate(i, l) \/ OpenFile(i, l)
      PROVE  Begun(j, k)
  <2>1. save'[j][k].pc = save[j][k].pc \/ (i = j /\ l = k)
    BY <1>1, <1>6 DEF PassGate, OpenFile
  <2>2. Begun(i, l)
    BY <1>6 DEF PassGate, OpenFile, Begun
  <2>3. QED
    BY <1>3, <2>1, <2>2 DEF Begun
<1>7. ASSUME NEW S, Unlink(S) PROVE Begun(j, k)
  <2>1. save'[j][k].pc = save[j][k].pc
    BY <1>1, <1>7 DEF Unlink, TaskType
  <2>2. QED
    BY <1>3, <2>1 DEF Begun
<1>8. ASSUME Crash PROVE Begun(j, k)
  BY <1>3, <1>8 DEF Crash, Begun, Blank, Task
<1>9. ASSUME NEW i \in Jobs, AddRow(i) PROVE Begun(j, k)
  <2>1. PICK l \in Saves : l = rows[i] + 1
    BY <1>9, SaveNumbers DEF AddRow, TypeOK
  <2>2. QED
    BY <1>5, <1>9, <2>1 DEF AddRow
<1>10. ASSUME NEW i \in Jobs, DrainJob(i) PROVE Begun(j, k)
  BY <1>4, <1>5, <1>10, SaveNumbers DEF DrainJob
<1>11. ASSUME NEW i \in Jobs, NEW l \in Saves, CloseFile(i, l) \/ SaveFails(i, l)
       PROVE  Begun(j, k)
  BY <1>5, <1>11 DEF CloseFile, SaveFails, EndSave
<1>12. ASSUME NEW S, RequestClear(S) PROVE Begun(j, k)
  BY <1>4, <1>7, <1>12 DEF RequestClear
<1>13. ASSUME EnterClear PROVE Begun(j, k)
  BY <1>7, <1>13 DEF EnterClear
<1>14. ASSUME \/ \E i \in Jobs : \/ StartJob(i) \/ StopJob(i)
                                 \/ \E s \in Terminal : SettleJob(i, s)
              \/ \E r \in Readers :
                   \/ RequestList(r) \/ EnterList(r) \/ EndList(r)
                   \/ \E i \in Jobs : ReadFile(r, i)
              \/ Restart \/ EndRewrite \/ RewriteFails \/ Serve
              \/ \E i \in Jobs : SkipFile(i) \/ BeginRewrite(i)
              \/ UNCHANGED vars
       PROVE  Begun(j, k)
  BY <1>4, <1>14 DEF StartJob, StopJob, SettleJob, RequestList, EnterList, EndList,
     ReadFile, Restart, EndRewrite, RewriteFails, Serve, SkipFile, BeginRewrite, vars
<1>15. QED
  BY <1>3, <1>6, <1>8, <1>9, <1>10, <1>11, <1>12, <1>13, <1>14, NextCases

(***************************************************************************)
(* Saves of one job never overlap (_save_lock), however many tasks wait.   *)
(***************************************************************************)
THEOREM SavesExclusive == Spec => []OneSaveAtATime
<1>1. Init => OneSaveAtATime
  BY DEF Init, OneSaveAtATime, Begun, Blank, Task
<1>2. QED
  BY <1>1, OneSaveNext, TypeCorrect, PTL DEF Spec

-----------------------------------------------------------------------------
(***************************************************************************)
(* The records.  A record is built in two looks at the job, and is on its  *)
(* way to the disk for a while; what it says of the job is true at both    *)
(* looks because rows only grow, and true for good once the job is settled *)
(* because then neither the status nor the rows change any more.           *)
(***************************************************************************)
SettledForGood ==
  \A j \in Jobs : status[j] \in Terminal => life[j] \notin {"unborn", "working"}

(* A claim of a status and a number of rows made of job j. *)
Holds(j, s, c) ==
  /\ c <= rows[j]
  /\ s \in Terminal => s = status[j] /\ c = rows[j]

Whole(j, c, n) == c <= n /\ n <= rows[j]

HonestTask(j, t) ==
  /\ t.pc \in {"gate", "serialised", "writing"} => Holds(j, t.status, t.completed)
  /\ t.pc \in {"serialised", "writing"} => Whole(j, t.completed, t.rows)

HonestRecord(j, d) == Holds(j, d.status, d.completed) /\ Whole(j, d.completed, d.rows)

HonestRewrite == rewrite # << >> => HonestRecord(rewrite[1], rewrite[2])

Honest ==
  /\ SettledForGood
  /\ \A j \in Jobs, k \in Saves : HonestTask(j, save[j][k])
  /\ \A j \in Jobs : HonestRecord(j, disk[j])
  /\ HonestRewrite

(***************************************************************************)
(* A job's rows only grow, and nothing changes once its status is final.   *)
(***************************************************************************)
JobEvolves(j) ==
  /\ rows[j] <= rows'[j]
  /\ status[j] \in Terminal => status'[j] = status[j] /\ rows'[j] = rows[j]

LEMMA JobsEvolve ==
  ASSUME TypeOK, SettledForGood, [Next]_vars
  PROVE  SettledForGood' /\ \A j \in Jobs : JobEvolves(j)
<1>1. /\ rows \in [Jobs -> 0..MaxRows]
      /\ status \in [Jobs -> Statuses]
      /\ life \in [Jobs -> {"unborn", "working", "draining", "lastSave", "done", "lost"}]
  BY DEF TypeOK
<1> USE DEF JobEvolves, SettledForGood
<1>2. ASSUME UNCHANGED memory
      PROVE  SettledForGood' /\ \A j \in Jobs : JobEvolves(j)
  BY <1>1, <1>2, BoundsAssumption DEF memory
<1>3. ASSUME NEW i \in Jobs, StartJob(i) \/ StopJob(i)
      PROVE  SettledForGood' /\ \A j \in Jobs : JobEvolves(j)
  BY <1>1, <1>3, BoundsAssumption DEF StartJob, StopJob, Terminal
<1>4. ASSUME NEW i \in Jobs, AddRow(i)
      PROVE  SettledForGood' /\ \A j \in Jobs : JobEvolves(j)
  BY <1>1, <1>4, BoundsAssumption DEF AddRow
<1>5. ASSUME NEW i \in Jobs, NEW s \in Terminal, SettleJob(i, s)
      PROVE  SettledForGood' /\ \A j \in Jobs : JobEvolves(j)
  BY <1>1, <1>5, BoundsAssumption DEF SettleJob
<1>6. ASSUME UNCHANGED <<status, rows>>,
             \A j \in Jobs : life'[j] \in {life[j], "lastSave", "done", "lost"}
      PROVE  SettledForGood' /\ \A j \in Jobs : JobEvolves(j)
  BY <1>1, <1>6, BoundsAssumption
<1>7. ASSUME NEW i \in Jobs, DrainJob(i)
      PROVE  SettledForGood' /\ \A j \in Jobs : JobEvolves(j)
  <2>1. \A j \in Jobs : life'[j] \in {life[j], "lastSave", "done", "lost"}
    BY <1>1, <1>7 DEF DrainJob
  <2>2. QED
    BY <1>6, <1>7, <2>1 DEF DrainJob
<1>8. ASSUME NEW i \in Jobs, NEW l \in Saves, CloseFile(i, l) \/ SaveFails(i, l)
      PROVE  SettledForGood' /\ \A j \in Jobs : JobEvolves(j)
  <2>1. \A j \in Jobs : life'[j] \in {life[j], "lastSave", "done", "lost"}
    BY <1>1, <1>8 DEF CloseFile, SaveFails, EndSave
  <2>2. QED
    BY <1>6, <1>8, <2>1 DEF CloseFile, SaveFails
<1>9. CASE Crash
  <2>1. \A j \in Jobs : life'[j] \in {life[j], "lastSave", "done", "lost"}
    BY <1>9 DEF Crash
  <2>2. QED
    BY <1>6, <1>9, <2>1 DEF Crash
<1>10. ASSUME \/ \E j \in Jobs, k \in Saves :
                   BeginSave(j, k) \/ PassGate(j, k) \/ OpenFile(j, k)
              \/ \E r \in Readers :
                   \/ RequestList(r) \/ EnterList(r) \/ EndList(r)
                   \/ \E j \in Jobs : ReadFile(r, j)
              \/ \E S \in SUBSET Jobs : RequestClear(S)
              \/ EnterClear \/ Restart \/ EndRewrite \/ RewriteFails \/ Serve
              \/ \E j \in Jobs : SkipFile(j) \/ BeginRewrite(j)
              \/ UNCHANGED vars
       PROVE  SettledForGood' /\ \A j \in Jobs : JobEvolves(j)
  <2>1. UNCHANGED memory
    BY <1>10 DEF BeginSave, PassGate, OpenFile, RequestList, EnterList, EndList,
       ReadFile, RequestClear, EnterClear, Restart, EndRewrite, RewriteFails,
       Serve, SkipFile, BeginRewrite, vars, memory
  <2>2. QED
    BY <1>2, <2>1
<1>11. QED
  BY <1>3, <1>4, <1>5, <1>7, <1>8, <1>9, <1>10, NextCases

(***************************************************************************)
(* What is true of a job now stays true of it.                             *)
(***************************************************************************)
LEMMA HoldsForever ==
  ASSUME TypeOK, TypeOK', NEW j \in Jobs, JobEvolves(j),
         NEW c \in 0..MaxRows, NEW n \in 0..MaxRows, NEW s
  PROVE  /\ Holds(j, s, c) => Holds(j, s, c)'
         /\ Whole(j, c, n) => Whole(j, c, n)'
<1>1. rows[j] \in Nat /\ rows'[j] \in Nat
  BY BoundsAssumption DEF TypeOK
<1>2. QED
  BY <1>1, BoundsAssumption DEF Holds, Whole, JobEvolves

(***************************************************************************)
(* Whatever a step puts into a task, a file or a rewrite is true of the    *)
(* jobs as they were before the step.                                      *)
(***************************************************************************)
BuiltHonest ==
  /\ \A j \in Jobs, k \in Saves : HonestTask(j, save'[j][k])
  /\ \A j \in Jobs : HonestRecord(j, disk'[j])
  /\ rewrite' # << >> => HonestRecord(rewrite'[1], rewrite'[2])

LEMMA NothingClaimed ==
  ASSUME TypeOK, NEW j \in Jobs
  PROVE  /\ \A p \in {"none", "waiting", "saved", "failed"} : HonestTask(j, Blank(p))
         /\ HonestRecord(j, Absent)
         /\ HonestRecord(j, Torn)
<1>1. rows[j] \in Nat
  BY BoundsAssumption DEF TypeOK
<1>2. QED
  BY <1>1 DEF HonestTask, HonestRecord, Holds, Whole, Blank, Task, Absent, Torn,
     NoRecord, Terminal

LEMMA StepsBuildHonestly ==
  ASSUME TypeOK, Honest, [Next]_vars
  PROVE  BuiltHonest
<1>1. /\ save \in [Jobs -> [Saves -> TaskType]]
      /\ disk \in [Jobs -> RecordType]
      /\ rows \in [Jobs -> 0..MaxRows]
      /\ rewrite = << >> \/ rewrite \in Jobs \X RecordType
  BY DEF TypeOK
<1>2. /\ \A j \in Jobs, k \in Saves : HonestTask(j, save[j][k])
      /\ \A j \in Jobs : HonestRecord(j, disk[j])
      /\ rewrite # << >> => HonestRecord(rewrite[1], rewrite[2])
  BY DEF Honest, HonestRewrite
<1>3. ASSUME UNCHANGED <<save, disk, rewrite>> PROVE BuiltHonest
  BY <1>2, <1>3 DEF BuiltHonest
<1>4. ASSUME NEW i \in Jobs, NEW l \in Saves, NEW t, save' = [save EXCEPT ![i][l] = t],
             HonestTask(i, t)
      PROVE  \A j \in Jobs, k \in Saves : HonestTask(j, save'[j][k])
  <2> TAKE j \in Jobs, k \in Saves
  <2>1. save'[j][k] = save[j][k] \/ (j = i /\ k = l /\ save'[j][k] = t)
    BY <1>1, <1>4
  <2>2. QED
    BY <1>2, <1>4, <2>1
<1>5. ASSUME NEW i \in Jobs, NEW d, disk' = [disk EXCEPT ![i] = d], HonestRecord(i, d)
      PROVE  \A j \in Jobs : HonestRecord(j, disk'[j])
  <2> TAKE j \in Jobs
  <2>1. disk'[j] = disk[j] \/ (j = i /\ disk'[j] = d)
    BY <1>1, <1>5
  <2>2. QED
    BY <1>2, <1>5, <2>1
<1>6. ASSUME NEW i \in Jobs, AddRow(i) PROVE BuiltHonest
  <2>1. PICK l \in Saves : l = rows[i] + 1
    BY <1>1, <1>6, SaveNumbers DEF AddRow
  <2>2. save' = [save EXCEPT ![i][l] = Blank("waiting")]
    BY <1>6, <2>1 DEF AddRow, SetSave
  <2>3. \A j \in Jobs, k \in Saves : HonestTask(j, save'[j][k])
    BY <1>4, <2>2, NothingClaimed
  <2>4. QED
    BY <1>2, <1>6, <2>3 DEF AddRow, BuiltHonest, startup
<1>7. ASSUME NEW i \in Jobs, DrainJob(i) PROVE BuiltHonest
  <2>1. CASE UNCHANGED save
    BY <1>3, <1>7, <2>1 DEF DrainJob, startup
  <2>2. CASE save' = [save EXCEPT ![i][FinalSave] = Blank("waiting")]
    <3>1. \A j \in Jobs, k \in Saves : HonestTask(j, save'[j][k])
      BY <1>4, <2>2, NothingClaimed, SaveNumbers
    <3>2. QED
      BY <1>2, <1>7, <3>1 DEF DrainJob, BuiltHonest, startup
  <2>3. QED
    BY <1>7, <2>1, <2>2 DEF DrainJob, SetSave
<1>8. ASSUME NEW i \in Jobs, NEW l \in Saves, BeginSave(i, l) PROVE BuiltHonest
  <2> DEFINE now == Task("serialised", status[i], rows[i], rows[i], FALSE)
             soon == Task("gate", status[i], rows[i], 0, FALSE)
  <2>1. rows[i] \in Nat
    BY <1>1, BoundsAssumption
  <2>2. HonestTask(i, now) /\ HonestTask(i, soon)
    BY <2>1 DEF HonestTask, Holds, Whole, Task
  <2>3. save' = [save EXCEPT ![i][l] = now] \/ save' = [save EXCEPT ![i][l] = soon]
    BY <1>8 DEF BeginSave, SetSave
  <2>4. \A j \in Jobs, k \in Saves : HonestTask(j, save'[j][k])
    BY <1>4, <2>2, <2>3
  <2>5. QED
    BY <1>2, <1>8, <2>4 DEF BeginSave, BuiltHonest, startup
<1>9. ASSUME NEW i \in Jobs, NEW l \in Saves, PassGate(i, l) PROVE BuiltHonest
  <2> DEFINE old == save[i][l]
             t == [old EXCEPT !.pc = "serialised", !.rows = rows[i]]
  <2>1. /\ rows[i] \in Nat
        /\ old \in TaskType
        /\ old.pc = "gate"
        /\ HonestTask(i, old)
    BY <1>1, <1>2, <1>9, BoundsAssumption DEF PassGate
  <2>2. t.status = old.status /\ t.completed = old.completed /\ t.rows = rows[i]
    BY <2>1 DEF TaskType
  <2>3. Holds(i, old.status, old.completed)
    BY <2>1 DEF HonestTask
  <2>4. HonestTask(i, t)
    BY <2>1, <2>2, <2>3 DEF HonestTask, Holds, Whole
  <2>5. save' = [save EXCEPT ![i][l] = t]
    BY <1>9 DEF PassGate
  <2>6. \A j \in Jobs, k \in Saves : HonestTask(j, save'[j][k])
    BY <1>4, <2>4, <2>5
  <2>7. QED
    BY <1>2, <1>9, <2>6 DEF PassGate, BuiltHonest, startup
<1>10. ASSUME NEW i \in Jobs, NEW l \in Saves, OpenFile(i, l) PROVE BuiltHonest
  <2> DEFINE old == save[i][l]
             t == [old EXCEPT !.pc = "writing", !.linked = TRUE]
  <2>1. old \in TaskType /\ old.pc = "serialised" /\ HonestTask(i, old)
    BY <1>1, <1>2, <1>10 DEF OpenFile
  <2>2. t.status = old.status /\ t.completed = old.completed /\ t.rows = old.rows
    BY <2>1 DEF TaskType
  <2>3. HonestTask(i, t)
    BY <2>1, <2>2 DEF HonestTask
  <2>4. save' = [save EXCEPT ![i][l] = t] /\ disk' = [disk EXCEPT ![i] = Torn]
    BY <1>10 DEF OpenFile
  <2>5. \A j \in Jobs, k \in Saves : HonestTask(j, save'[j][k])
    BY <1>4, <2>3, <2>4
  <2>6. \A j \in Jobs : HonestRecord(j, disk'[j])
    BY <1>5, <2>4, NothingClaimed
  <2>7. QED
    BY <1>2, <1>10, <2>5, <2>6 DEF OpenFile, BuiltHonest, startup
<1>11. ASSUME NEW i \in Jobs, NEW l \in Saves, CloseFile(i, l) PROVE BuiltHonest
  <2> DEFINE t == save[i][l]
             d == Record(t.status, t.completed, t.rows)
  <2>1. t.pc = "writing" /\ HonestTask(i, t)
    BY <1>2, <1>11 DEF CloseFile
  <2>2. HonestRecord(i, d)
    BY <2>1 DEF HonestTask, HonestRecord, Record
  <2>3. \A j \in Jobs : HonestRecord(j, disk'[j])
    <3>1. CASE disk' = [disk EXCEPT ![i] = d]
      BY <1>5, <2>2, <3>1
    <3>2. CASE UNCHANGED disk
      BY <1>2, <3>2
    <3>3. QED
      BY <1>11, <3>1, <3>2 DEF CloseFile
  <2>4. \A j \in Jobs, k \in Saves : HonestTask(j, save'[j][k])
    BY <1>4, <1>11, NothingClaimed DEF CloseFile, EndSave, SetSave
  <2>5. QED
    BY <1>2, <1>11, <2>3, <2>4 DEF CloseFile, BuiltHonest, startup
<1>12. ASSUME NEW i \in Jobs, NEW l \in Saves, SaveFails(i, l) PROVE BuiltHonest
  <2>1. \A j \in Jobs, k \in Saves : HonestTask(j, save'[j][k])
    BY <1>4, <1>12, NothingClaimed DEF SaveFails, EndSave, SetSave
  <2>2. QED
    BY <1>2, <1>12, <2>1 DEF SaveFails, BuiltHonest, startup
<1>13. ASSUME NEW S \in SUBSET Jobs, Unlink(S), UNCHANGED rewrite PROVE BuiltHonest
  <2>1. ASSUME NEW j \in Jobs, NEW k \in Saves PROVE HonestTask(j, save'[j][k])
    <3> DEFINE old == save[j][k]
               t == [old EXCEPT !.linked = FALSE]
    <3>1. old \in TaskType /\ HonestTask(j, old)
      BY <1>1, <1>2
    <3>2. /\ t.status = old.status /\ t.completed = old.completed
          /\ t.rows = old.rows /\ t.pc = old.pc
      BY <3>1 DEF TaskType
    <3>3. HonestTask(j, t)
      BY <3>1, <3>2 DEF HonestTask
    <3>4. save'[j][k] = t \/ save'[j][k] = old
      BY <1>13 DEF Unlink
    <3>5. QED
      BY <3>1, <3>3, <3>4
  <2>2. ASSUME NEW j \in Jobs PROVE HonestRecord(j, disk'[j])
    <3>1. disk'[j] = Absent \/ disk'[j] = disk[j]
      BY <1>13 DEF Unlink
    <3>2. QED
      BY <1>2, <3>1, NothingClaimed
  <2>3. QED
    BY <1>2, <1>13, <2>1, <2>2 DEF BuiltHonest
<1>14. ASSUME NEW S \in SUBSET Jobs, RequestClear(S) PROVE BuiltHonest
  <2>1. UNCHANGED rewrite /\ (Unlink(S) \/ UNCHANGED <<save, disk>>)
    BY <1>14 DEF RequestClear, startup
  <2>2. QED
    BY <1>3, <1>13, <2>1
<1>15. CASE EnterClear
  <2>1. UNCHANGED rewrite /\ Unlink(clearing) /\ clearing \in SUBSET Jobs
    BY <1>15 DEF EnterClear, startup, TypeOK
  <2>2. QED
    BY <1>13, <2>1
<1>16. CASE Crash
  <2>1. \A j \in Jobs, k \in Saves : HonestTask(j, save'[j][k])
    BY <1>16, NothingClaimed DEF Crash
  <2>2. QED
    BY <1>2, <1>16, <2>1 DEF Crash, BuiltHonest
<1>17. ASSUME NEW i \in Jobs, BeginRewrite(i) PROVE BuiltHonest
  <2> DEFINE d == [disk[i] EXCEPT !.status = "interrupted"]
  <2>1. disk[i] \in RecordType /\ HonestRecord(i, disk[i])
    BY <1>1, <1>2
  <2>2. d.status = "interrupted" /\ d.completed = disk[i].completed /\ d.rows = disk[i].rows
    BY <2>1 DEF RecordType
  <2>3. HonestRecord(i, d)
    BY <2>1, <2>2 DEF HonestRecord, Holds, Whole, Terminal
  <2>4. rewrite' = <<i, d>> /\ disk' = [disk EXCEPT ![i] = Torn] /\ UNCHANGED save
    BY <1>17 DEF BeginRewrite
  <2>5. \A j \in Jobs : HonestRecord(j, disk'[j])
    BY <1>5, <2>4, NothingClaimed
  <2>6. QED
    BY <1>2, <2>3, <2>4, <2>5 DEF BuiltHonest
<1>18. CASE EndRewrite
  <2> DEFINE i == rewrite[1]
             d == rewrite[2]
  <2>1. /\ i \in Jobs /\ HonestRecord(i, d)
        /\ rewrite' = << >>
        /\ disk' = [disk EXCEPT ![i] = d]
        /\ UNCHANGED save
    BY <1>1, <1>2, <1>18 DEF EndRewrite
  <2>2. \A j \in Jobs : HonestRecord(j, disk'[j])
    BY <1>5, <2>1
  <2>3. QED
    BY <1>2, <2>1, <2>2 DEF BuiltHonest
<1>19. CASE RewriteFails
  BY <1>2, <1>19 DEF RewriteFails, BuiltHonest
<1>20. ASSUME \/ \E i \in Jobs : \/ StartJob(i) \/ StopJob(i) \/ SkipFile(i)
                                 \/ \E s \in Terminal : SettleJob(i, s)
              \/ \E r \in Readers :
                   \/ RequestList(r) \/ EnterList(r) \/ EndList(r)
                   \/ \E i \in Jobs : ReadFile(r, i)
              \/ Restart \/ Serve \/ UNCHANGED vars
       PROVE  BuiltHonest
  BY <1>3, <1>20 DEF StartJob, StopJob, SkipFile, SettleJob, RequestList, EnterList,
     EndList, ReadFile, Restart, Serve, vars, startup
<1>21. QED
  BY <1>6, <1>7, <1>8, <1>9, <1>10, <1>11, <1>12, <1>14, <1>15, <1>16, <1>17,
     <1>18, <1>19, <1>20, NextCases

(***************************************************************************)
(* Honest is inductive: what a step builds is true before the step, and    *)
(* what is true stays true.                                                *)
(***************************************************************************)
LEMMA HonestInit == Init => Honest
<1> SUFFICES ASSUME Init PROVE Honest
  OBVIOUS
<1>1. TypeOK
  BY TypeInit
<1>2. \A j \in Jobs, k \in Saves : HonestTask(j, save[j][k])
  BY <1>1, NothingClaimed DEF Init
<1>3. \A j \in Jobs : HonestRecord(j, disk[j])
  BY <1>1, NothingClaimed DEF Init
<1>4. SettledForGood /\ HonestRewrite
  BY DEF Init, SettledForGood, HonestRewrite, Terminal
<1>5. QED
  BY <1>2, <1>3, <1>4 DEF Honest

LEMMA HonestNext == TypeOK /\ TypeOK' /\ Honest /\ [Next]_vars => Honest'
<1> SUFFICES ASSUME TypeOK, TypeOK', Honest, [Next]_vars PROVE Honest'
  OBVIOUS
<1>1. SettledForGood' /\ \A j \in Jobs : JobEvolves(j)
  BY JobsEvolve DEF Honest
<1>2. BuiltHonest
  BY StepsBuildHonestly
<1>3. ASSUME NEW j \in Jobs, NEW d \in RecordType, HonestRecord(j, d)
      PROVE  HonestRecord(j, d)'
  <2>1. d.completed \in 0..MaxRows /\ d.rows \in 0..MaxRows
    BY DEF RecordType
  <2>2. QED
    BY <1>1, <1>3, <2>1, HoldsForever DEF HonestRecord
<1>4. ASSUME NEW j \in Jobs, NEW t \in TaskType, HonestTask(j, t)
      PROVE  HonestTask(j, t)'
  <2>1. t.completed \in 0..MaxRows /\ t.rows \in 0..MaxRows
    BY DEF TaskType
  <2>2. QED
    BY <1>1, <1>4, <2>1, HoldsForever DEF HonestTask
<1>5. /\ save' \in [Jobs -> [Saves -> TaskType]]
      /\ disk' \in [Jobs -> RecordType]
      /\ rewrite' = << >> \/ rewrite' \in Jobs \X RecordType
  BY DEF TypeOK
<1>6. \A j \in Jobs, k \in Saves : HonestTask(j, save[j][k])'
  BY <1>2, <1>4, <1>5 DEF BuiltHonest
<1>7. \A j \in Jobs : HonestRecord(j, disk[j])'
  BY <1>2, <1>3, <1>5 DEF BuiltHonest
<1>8. HonestRewrite'
  BY <1>2, <1>3, <1>5 DEF BuiltHonest, HonestRewrite
<1>9. QED
  BY <1>1, <1>6, <1>7, <1>8 DEF Honest

LEMMA HonestAlways == Spec => []Honest
BY HonestInit, HonestNext, TypeCorrect, PTL DEF Spec

(***************************************************************************)
(* A file never claims more rows than it holds nor holds more than the job *)
(* has, although its count and its rows are captured at different moments. *)
(***************************************************************************)
THEOREM RecordsNeverOverclaim == Spec => []NeverOverclaims
<1>1. Honest => NeverOverclaims
  BY DEF Honest, HonestRecord, Whole, NeverOverclaims
<1>2. QED
  BY <1>1, HonestAlways, PTL

(***************************************************************************)
(* A file that calls its job completed, failed or stopped holds all rows   *)
(* of the job and counts them right, through any interleaving of saves,    *)
(* lists, clears, failed writes, crashes and restarts.                     *)
(***************************************************************************)
THEOREM FinishedRecordsComplete == Spec => []FinishedRecordIsComplete
<1>1. TypeOK /\ Honest => FinishedRecordIsComplete
  <2> SUFFICES ASSUME TypeOK, Honest, NEW j \in Jobs, disk[j].status \in Terminal
               PROVE  /\ disk[j].status = status[j]
                      /\ disk[j].rows = rows[j]
                      /\ disk[j].completed = rows[j]
    BY DEF FinishedRecordIsComplete
  <2>1. disk[j].rows \in Nat /\ rows[j] \in Nat
    BY BoundsAssumption DEF TypeOK, RecordType
  <2>2. Holds(j, disk[j].status, disk[j].completed) /\ Whole(j, disk[j].completed, disk[j].rows)
    BY DEF Honest, HonestRecord
  <2>3. QED
    BY <2>1, <2>2 DEF Holds, Whole
<1>2. QED
  BY <1>1, HonestAlways, TypeCorrect, PTL

(***************************************************************************)
(* What a record says is true: save_job_record never writes a count above  *)
(* the rows beside it, nor a finished status above a partial list.         *)
(***************************************************************************)
THEOREM RecordsTrue == Spec => []RecordsAreTrue
  BY RecordsNeverOverclaim, FinishedRecordsComplete, PTL DEF RecordsAreTrue

-----------------------------------------------------------------------------
(***************************************************************************)
(* The life of a file against the life of its job.  Saves are under way    *)
(* only while run_job is, the last one only at its very end; while the     *)
(* server is down or reconciles, no job is in memory, nothing is cleared,  *)
(* and a stale record is one that is still to be looked at.                *)
(***************************************************************************)
SavesInLife ==
  \A j \in Jobs, k \in Saves :
    ~Over(j, k) => IF k = FinalSave THEN life[j] = "lastSave"
                   ELSE life[j] \in {"working", "draining"}

QuietWhenDown ==
  up # "up" => clearing = {} /\ \A j \in Jobs : ~InMemory(j)

RewritesAtStartup ==
  /\ rewrite # << >> => /\ up = "reconciling"
                        /\ disk[rewrite[1]] # Absent
                        /\ rewrite[2].status = "interrupted"
  /\ toCheck # {} => up = "reconciling"

StaleIsKnown ==
  ioErrors = 0 =>
    \A j \in Jobs : Stale(j) => \/ InMemory(j)
                                \/ up = "down"
                                \/ up = "reconciling" /\ j \in toCheck

Phases == SavesInLife /\ QuietWhenDown /\ RewritesAtStartup /\ StaleIsKnown

LEMMA PhasesInit == Init => Phases
BY DEF Init, Phases, SavesInLife, QuietWhenDown, RewritesAtStartup, StaleIsKnown,
   Over, Blank, Task, Stale, Absent, NoRecord

(***************************************************************************)
(* SavesInLife is kept: tasks are created by the job they belong to, and   *)
(* the last save only once all others are over.                            *)
(***************************************************************************)
LEMMA SavesInLifeNext ==
  ASSUME TypeOK, SavesInLife, [Next]_vars
  PROVE  SavesInLife'
<1>1. /\ save \in [Jobs -> [Saves -> TaskType]]
      /\ life \in [Jobs -> {"unborn", "working", "draining", "lastSave", "done", "lost"}]
      /\ rows \in [Jobs -> 0..MaxRows]
  BY DEF TypeOK
<1> USE DEF SavesInLife
<1>2. ASSUME UNCHANGED <<save, life>> PROVE SavesInLife'
  BY <1>2 DEF Over
<1>3. ASSUME NEW i \in Jobs, StartJob(i) \/ \E s \in Terminal : SettleJob(i, s)
      PROVE  SavesInLife'
  BY <1>1, <1>3 DEF StartJob, SettleJob, Over
<1>4. ASSUME NEW i \in Jobs, AddRow(i) PROVE SavesInLife'
  <2>1. PICK l \in Saves : l = rows[i] + 1 /\ l # FinalSave
    BY <1>1, <1>4, SaveNumbers, BoundsAssumption DEF AddRow, FinalSave
  <2>2. save' = [save EXCEPT ![i][l] = Blank("waiting")]
    BY <1>4, <2>1 DEF AddRow, SetSave
  <2>3. QED
    BY <1>1, <1>4, <2>1, <2>2 DEF AddRow, Over
<1>5. ASSUME NEW i \in Jobs, DrainJob(i) PROVE SavesInLife'
  <2>1. \A k \in Saves : Over(i, k)
    BY <1>5 DEF DrainJob
  <2>2. CASE /\ save' = [save EXCEPT ![i][FinalSave] = Blank("waiting")]
             /\ life' = [life EXCEPT ![i] = "lastSave"]
    BY <1>1, <2>1, <2>2, SaveNumbers DEF Over
  <2>3. CASE UNCHANGED save /\ life' = [life EXCEPT ![i] = "done"]
    BY <1>1, <2>1, <2>3 DEF Over
  <2>4. QED
    BY <1>5, <2>2, <2>3 DEF DrainJob, SetSave
<1>6. ASSUME NEW i \in Jobs, NEW l \in Saves,
             BeginSave(i, l) \/ PassGate(i, l) \/ OpenFile(i, l)
      PROVE  SavesInLife'
  <2>1. UNCHANGED life /\ ~Over(i, l)
    BY <1>6 DEF BeginSave, HasTurn, PassGate, OpenFile, Over, memory
  <2>2. \A j \in Jobs, k \in Saves : j # i \/ k # l => save'[j][k] = save[j][k]
    <3>1. CASE BeginSave(i, l)
      <4> DEFINE now == Task("serialised", status[i], rows[i], rows[i], FALSE)
                 soon == Task("gate", status[i], rows[i], 0, FALSE)
      <4>1. save' = [save EXCEPT ![i][l] = now] \/ save' = [save EXCEPT ![i][l] = soon]
        BY <3>1 DEF BeginSave, SetSave
      <4> HIDE DEF now, soon
      <4>2. QED
        BY <1>1, <4>1
    <3>2. CASE PassGate(i, l) \/ OpenFile(i, l)
      BY <1>1, <3>2 DEF PassGate, OpenFile
    <3>3. QED
      BY <1>6, <3>1, <3>2
  <2>3. QED
    BY <2>1, <2>2 DEF Over
<1>7. ASSUME NEW i \in Jobs, NEW l \in Saves, CloseFile(i, l) \/ SaveFails(i, l)
      PROVE  SavesInLife'
  <2>1. /\ ~Over(i, l)
        /\ life' = IF l = FinalSave THEN [life EXCEPT ![i] = "done"] ELSE life
    BY <1>7 DEF CloseFile, SaveFails, EndSave, Over
  <2>2. \E p \in {"saved", "failed"} : save' = [save EXCEPT ![i][l] = Blank(p)]
    BY <1>7 DEF CloseFile, SaveFails, EndSave, SetSave
  <2>3. Over(i, l)'
    BY <1>1, <2>2 DEF Over, Blank, Task
  <2>4. \A j \in Jobs, k \in Saves : j # i \/ k # l => save'[j][k] = save[j][k]
    BY <1>1, <2>2
  <2>5. QED
    BY <1>1, <2>1, <2>3, <2>4 DEF Over
<1>8. ASSUME NEW S, Unlink(S), UNCHANGED life PROVE SavesInLife'
  <2>1. \A j \in Jobs, k \in Saves : save'[j][k].pc = save[j][k].pc
    BY <1>1, <1>8 DEF Unlink, TaskType
  <2>2. QED
    BY <1>8, <2>1 DEF Over
<1>9. ASSUME NEW S, RequestClear(S) PROVE SavesInLife'
  BY <1>2, <1>8, <1>9 DEF RequestClear, memory
<1>10. CASE EnterClear
  BY <1>8, <1>10 DEF EnterClear, memory
<1>11. CASE Crash
  BY <1>11 DEF Crash, Over, Blank, Task
<1>12. ASSUME \/ \E i \in Jobs : StopJob(i) \/ SkipFile(i) \/ BeginRewrite(i)
              \/ \E r \in Readers :
                   \/ RequestList(r) \/ EnterList(r) \/ EndList(r)
                   \/ \E i \in Jobs : ReadFile(r, i)
              \/ Restart \/ Serve \/ EndRewrite \/ RewriteFails \/ UNCHANGED vars
       PROVE  SavesInLife'
  BY <1>2, <1>12 DEF StopJob, SkipFile, BeginRewrite, RequestList, EnterList, EndList,
     ReadFile, Restart, Serve, EndRewrite, RewriteFails, vars, memory
<1>13. QED
  BY <1>3, <1>4, <1>5, <1>6, <1>7, <1>9, <1>10, <1>11, <1>12, NextCases

(***************************************************************************)
(* The other phases: one step per group of actions that touch the server,  *)
(* the files and the life of jobs in the same way.                         *)
(***************************************************************************)
LEMMA PhasesNext ==
  ASSUME TypeOK, Phases, [Next]_vars
  PROVE  Phases'
<1> DEFINE Others == QuietWhenDown /\ RewritesAtStartup /\ StaleIsKnown
<1>1. /\ life \in [Jobs -> {"unborn", "working", "draining", "lastSave", "done", "lost"}]
      /\ disk \in [Jobs -> RecordType]
      /\ up \in {"up", "down", "reconciling"}
      /\ toCheck \in SUBSET Jobs
      /\ rewrite = << >> \/ rewrite \in Jobs \X RecordType
      /\ ioErrors \in Nat
  BY BoundsAssumption DEF TypeOK
<1>2. /\ \A j \in Jobs : InMemory(j) => up = "up"
      /\ \A j \in Jobs, k \in Saves : ~Over(j, k) => InMemory(j)
  BY DEF Phases, SavesInLife, QuietWhenDown, InMemory
<1>3. SavesInLife'
  BY SavesInLifeNext DEF Phases
<1> SUFFICES Others'
  BY <1>3 DEF Phases
<1> USE DEF Phases, QuietWhenDown, RewritesAtStartup, StaleIsKnown
<1>4. ASSUME UNCHANGED <<up, disk, startup, ioErrors>>, up = "up" \/ UNCHANGED clearing,
             \A j \in Jobs : InMemory(j) <=> InMemory(j)'
      PROVE  Others'
  BY <1>4 DEF Stale, startup
<1>5. ASSUME NEW i \in Jobs,
             \/ StartJob(i) \/ StopJob(i) \/ AddRow(i) \/ DrainJob(i)
             \/ \E s \in Terminal : SettleJob(i, s)
      PROVE  Others'
  <2>1. UNCHANGED <<up, disk, clearing, startup, ioErrors>>
    BY <1>5 DEF StartJob, StopJob, AddRow, DrainJob, SettleJob, history, budget
  <2>2. up = "up" /\ \A j \in Jobs : InMemory(j) => InMemory(j)'
    BY <1>1, <1>2, <1>5 DEF StartJob, StopJob, AddRow, DrainJob, SettleJob, InMemory
  <2>3. QED
    BY <2>1, <2>2 DEF Stale, startup
<1>6. ASSUME \/ \E i \in Jobs, l \in Saves : BeginSave(i, l) \/ PassGate(i, l)
             \/ \E r \in Readers :
                  \/ RequestList(r) \/ EnterList(r) \/ EndList(r)
                  \/ \E i \in Jobs : ReadFile(r, i)
             \/ UNCHANGED vars
      PROVE  Others'
  <2>1. UNCHANGED <<up, disk, clearing, startup, ioErrors, life>>
    BY <1>6 DEF BeginSave, PassGate, RequestList, EnterList, EndList, ReadFile,
       vars, history, budget, memory, startup
  <2>2. QED
    BY <1>4, <2>1 DEF InMemory
<1>7. ASSUME NEW i \in Jobs, NEW l \in Saves, OpenFile(i, l) PROVE Others'
  <2>1. up = "up"
    BY <1>2, <1>7 DEF OpenFile, Over
  <2>2. /\ UNCHANGED <<up, life, startup, ioErrors, clearing>>
        /\ \A j \in Jobs : Stale(j)' => Stale(j)
    BY <1>1, <1>7 DEF OpenFile, memory, history, budget, Stale, Torn, NoRecord
  <2>3. QED
    BY <2>1, <2>2 DEF startup, InMemory
<1>8. ASSUME NEW i \in Jobs, NEW l \in Saves, CloseFile(i, l) PROVE Others'
  <2>1. up = "up" /\ InMemory(i)
    BY <1>2, <1>8 DEF CloseFile, Over
  <2>2. /\ UNCHANGED <<up, startup, ioErrors, clearing>>
        /\ \A j \in Jobs : InMemory(j) => InMemory(j)'
        /\ \A j \in Jobs : j # i => disk'[j] = disk[j]
    BY <1>1, <1>8 DEF CloseFile, EndSave, InMemory, history, budget
  <2>3. QED
    BY <2>1, <2>2 DEF startup, Stale
<1>9. ASSUME NEW i \in Jobs, NEW l \in Saves, SaveFails(i, l) PROVE Others'
  <2>1. up = "up" /\ ioErrors' # 0
    BY <1>1, <1>2, <1>9 DEF SaveFails, Over
  <2>2. UNCHANGED <<up, startup>>
    BY <1>9 DEF SaveFails
  <2>3. QED
    BY <2>1, <2>2 DEF startup
<1>10. ASSUME NEW S, Unlink(S), up = "up", UNCHANGED <<up, life, startup, ioErrors>>
       PROVE  Others'
  <2>1. \A j \in Jobs : Stale(j)' => Stale(j)
    BY <1>10 DEF Unlink, Stale, Absent, NoRecord
  <2>2. QED
    BY <1>10, <2>1 DEF startup, InMemory
<1>11. ASSUME NEW S \in SUBSET Jobs, RequestClear(S) PROVE Others'
  <2>1. up = "up" /\ UNCHANGED <<up, life, startup, ioErrors>>
    BY <1>11 DEF RequestClear, memory, budget
  <2>2. CASE UNCHANGED disk
    BY <1>4, <2>1, <2>2 DEF InMemory
  <2>3. QED
    BY <1>10, <1>11, <2>1, <2>2 DEF RequestClear
<1>12. CASE EnterClear
  <2>1. up = "up" /\ UNCHANGED <<up, life, startup, ioErrors>> /\ Unlink(clearing)
    BY <1>1, <1>12 DEF EnterClear, memory, budget
  <2>2. QED
    BY <1>10, <2>1
<1>13. CASE Crash
  <2>1. \A j \in Jobs : ~InMemory(j)'
    BY <1>13 DEF Crash, InMemory
  <2>2. QED
    BY <1>13, <2>1 DEF Crash
<1>14. CASE Restart
  <2>1. \A j \in Jobs : Stale(j)' => j \in toCheck'
    BY <1>14 DEF Restart, Stale, Files, Absent, NoRecord
  <2>2. /\ UNCHANGED <<life, clearing, rewrite>> /\ up = "down"
        /\ up' = "reconciling"
    BY <1>14 DEF Restart, memory, history
  <2>3. QED
    BY <2>1, <2>2 DEF InMemory
<1>15. ASSUME NEW i \in Jobs, SkipFile(i) PROVE Others'
  <2>1. /\ UNCHANGED <<up, life, clearing, rewrite, disk, ioErrors>>
        /\ toCheck' = toCheck \ {i} /\ ~Stale(i)
    BY <1>15 DEF SkipFile, memory, history, budget
  <2>2. QED
    BY <2>1 DEF InMemory, Stale
<1>16. ASSUME NEW i \in Jobs, BeginRewrite(i) PROVE Others'
  <2> DEFINE d == [disk[i] EXCEPT !.status = "interrupted"]
  <2>1. d.status = "interrupted"
    BY <1>1 DEF RecordType
  <2>2. /\ UNCHANGED <<up, life, clearing, ioErrors>>
        /\ toCheck' = toCheck \ {i} /\ i \in toCheck
        /\ rewrite' = <<i, d>>
        /\ disk' = [disk EXCEPT ![i] = Torn]
    BY <1>16 DEF BeginRewrite, memory, history, budget
  <2>3. disk'[i] = Torn /\ ~Stale(i)' /\ Torn # Absent
    BY <1>1, <2>2 DEF Stale, Torn, Absent, NoRecord
  <2>4. \A j \in Jobs : j # i => (Stale(j)' => Stale(j))
    BY <1>1, <2>2 DEF Stale
  <2>5. QED
    BY <2>1, <2>2, <2>3, <2>4 DEF InMemory
<1>17. CASE EndRewrite
  <2>1. /\ UNCHANGED <<up, life, clearing, ioErrors, toCheck>>
        /\ rewrite' = << >>
        /\ rewrite[2].status = "interrupted"
        /\ disk' = [disk EXCEPT ![rewrite[1]] = rewrite[2]]
    BY <1>17 DEF EndRewrite, memory, history, budget
  <2>2. \A j \in Jobs : Stale(j)' => Stale(j)
    BY <1>1, <2>1 DEF Stale, LiveStatuses
  <2>3. QED
    BY <2>1, <2>2 DEF InMemory
<1>18. CASE RewriteFails
  <2>1. /\ UNCHANGED <<up, life, clearing, disk>>
        /\ ioErrors' # 0
        /\ toCheck' \in SUBSET toCheck
        /\ rewrite' \in {rewrite, << >>}
    BY <1>1, <1>18 DEF RewriteFails, memory, history
  <2>2. QED
    BY <2>1 DEF InMemory
<1>19. CASE Serve
  <2>1. /\ UNCHANGED <<life, clearing, rewrite, disk, ioErrors, toCheck>>
        /\ up = "reconciling" /\ toCheck = {} /\ rewrite = << >> /\ up' = "up"
    BY <1>19 DEF Serve, memory, history, budget, startup
  <2>2. QED
    BY <2>1 DEF InMemory, Stale
<1>20. QED
  BY <1>5, <1>6, <1>7, <1>8, <1>9, <1>11, <1>12, <1>13, <1>14, <1>15, <1>16, <1>17,
     <1>18, <1>19, NextCases

LEMMA PhasesAlways == Spec => []Phases
BY PhasesInit, PhasesNext, TypeCorrect, PTL DEF Spec

(***************************************************************************)
(* reconcile_stale_records does its job: when the server serves and no     *)
(* file operation has failed, no record says "running" of a job that is    *)
(* not there, after any number of crashes, one in the reconciliation       *)
(* itself included.                                                        *)
(***************************************************************************)
THEOREM Reconciled == Spec => []NoGhostRuns
<1>1. Phases => NoGhostRuns
  BY DEF Phases, StaleIsKnown, NoGhostRuns
<1>2. QED
  BY <1>1, PhasesAlways, PTL

(***************************************************************************)
(* A deleted file comes back only by a save of a job still at work.        *)
(***************************************************************************)
THEOREM DeletedStaysDeleted == Spec => NoResurrection
<1> DEFINE AtWork(j) == life[j] \in {"working", "draining", "lastSave"}
           Step == \A j \in Jobs : disk[j] = Absent /\ disk'[j] # Absent => AtWork(j)
<1>1. ASSUME TypeOK, Phases, [Next]_vars PROVE Step
  <2>1. disk \in [Jobs -> RecordType] /\ (rewrite = << >> \/ rewrite \in Jobs \X RecordType)
    BY <1>1 DEF TypeOK
  <2>2. ASSUME UNCHANGED disk PROVE Step
    BY <2>2
  <2>3. ASSUME NEW i \in Jobs, NEW l \in Saves, OpenFile(i, l) \/ CloseFile(i, l)
        PROVE  Step
    <3>1. AtWork(i)
      BY <1>1, <2>3 DEF OpenFile, CloseFile, Phases, SavesInLife, Over
    <3>2. \A j \in Jobs : j # i => disk'[j] = disk[j]
      BY <2>1, <2>3 DEF OpenFile, CloseFile
    <3>3. QED
      BY <3>1, <3>2
  <2>4. ASSUME NEW S, Unlink(S) PROVE Step
    BY <2>4 DEF Unlink
  <2>5. ASSUME NEW i \in Jobs, BeginRewrite(i) PROVE Step
    BY <2>1, <2>5 DEF BeginRewrite, Stale, Absent, NoRecord
  <2>6. CASE EndRewrite
    BY <1>1, <2>1, <2>6 DEF EndRewrite, Phases, RewritesAtStartup
  <2>7. ASSUME NEW S \in SUBSET Jobs, RequestClear(S) PROVE Step
    BY <2>2, <2>4, <2>7 DEF RequestClear
  <2>8. CASE EnterClear
    BY <2>4, <2>8 DEF EnterClear
  <2>9. ASSUME \/ \E i \in Jobs : \/ StartJob(i) \/ StopJob(i) \/ AddRow(i) \/ DrainJob(i)
                                  \/ SkipFile(i) \/ \E s \in Terminal : SettleJob(i, s)
               \/ \E i \in Jobs, l \in Saves : BeginSave(i, l) \/ PassGate(i, l) \/ SaveFails(i, l)
               \/ \E r \in Readers :
                    \/ RequestList(r) \/ EnterList(r) \/ EndList(r)
                    \/ \E i \in Jobs : ReadFile(r, i)
               \/ Crash \/ Restart \/ RewriteFails \/ Serve \/ UNCHANGED vars
        PROVE  Step
    BY <2>2, <2>9 DEF StartJob, StopJob, AddRow, DrainJob, SkipFile, SettleJob, BeginSave,
       PassGate, SaveFails, RequestList, EnterList, EndList, ReadFile, Crash, Restart,
       RewriteFails, Serve, vars
  <2>10. QED
    BY <1>1, <2>3, <2>5, <2>6, <2>7, <2>8, <2>9, NextCases
<1>2. TypeOK /\ Phases /\ [Next]_vars => [Step]_vars
  BY <1>1
<1>3. QED
  BY <1>2, TypeCorrect, PhasesAlways, PTL DEF Spec, NoResurrection

-----------------------------------------------------------------------------
(***************************************************************************)
(* The results directory implements RunArchive.                            *)
(***************************************************************************)
Known == LiveStatuses \cup Terminal

(***************************************************************************)
(* What a file says of the life of its job: nothing before the job begins, *)
(* a status of the job itself as long as that is in memory, and nothing    *)
(* while reconciliation rewrites it.                                       *)
(***************************************************************************)
UnbornIsBlank ==
  \A j \in Jobs : life[j] = "unborn" => rows[j] = 0 /\ disk[j].kind # "whole"

StatusIsKnown ==
  \A j \in Jobs :
    /\ life[j] = "working" => status[j] \in LiveStatuses
    /\ InMemory(j) => status[j] \in Known

TasksAreKnown == \A j \in Jobs, k \in Saves : Begun(j, k) => save[j][k].status \in Known

FilesAreKnown ==
  \A j \in Jobs : InMemory(j) /\ disk[j].kind = "whole" => disk[j].status \in Known

RewrittenIsTorn ==
  rewrite # << >> => disk[rewrite[1]].kind # "whole" /\ life[rewrite[1]] # "unborn"

Sights ==
  UnbornIsBlank /\ StatusIsKnown /\ TasksAreKnown /\ FilesAreKnown /\ RewrittenIsTorn

LEMMA SightsInit == Init => Sights
BY DEF Init, Sights, UnbornIsBlank, StatusIsKnown, TasksAreKnown, FilesAreKnown,
   RewrittenIsTorn, InMemory, Begun, Blank, Task, Absent, NoRecord

(* Saves are under way only for jobs in memory, these are there only while the
   server is up, and then nothing is being rewritten. *)
LEMMA MemoryIsUp ==
  ASSUME Phases
  PROVE  /\ \A j \in Jobs : InMemory(j) => up = "up"
         /\ \A j \in Jobs, k \in Saves : ~Over(j, k) => InMemory(j)
         /\ up # "reconciling" => rewrite = << >>
BY DEF Phases, SavesInLife, QuietWhenDown, RewritesAtStartup, InMemory

LEMMA SightsNext ==
  ASSUME TypeOK, Phases, Sights, [Next]_vars
  PROVE  Sights'
<1>1. /\ save \in [Jobs -> [Saves -> TaskType]]
      /\ life \in [Jobs -> {"unborn", "working", "draining", "lastSave", "done", "lost"}]
      /\ status \in [Jobs -> Statuses]
      /\ rows \in [Jobs -> 0..MaxRows]
      /\ disk \in [Jobs -> RecordType]
      /\ rewrite = << >> \/ rewrite \in Jobs \X RecordType
  BY DEF TypeOK
<1>2. /\ \A j \in Jobs : InMemory(j) => up = "up"
      /\ \A j \in Jobs, k \in Saves : ~Over(j, k) => InMemory(j)
      /\ up # "reconciling" => rewrite = << >>
  BY MemoryIsUp
<1> USE DEF Sights, UnbornIsBlank, StatusIsKnown, TasksAreKnown, FilesAreKnown,
            RewrittenIsTorn
<1>3. ASSUME UNCHANGED <<life, status, rows, disk, rewrite>>,
             \A j \in Jobs, k \in Saves : Begun(j, k)' =>
                save'[j][k].status = save[j][k].status /\ Begun(j, k)
      PROVE  Sights'
  BY <1>3 DEF InMemory
<1>4. ASSUME NEW i \in Jobs, NEW l \in Saves, NEW p, SetSave(i, l, Blank(p)),
             p \notin {"gate", "serialised", "writing"}
      PROVE  \A j \in Jobs, k \in Saves : Begun(j, k)' =>
               save'[j][k].status = save[j][k].status /\ Begun(j, k)
  BY <1>1, <1>4 DEF SetSave, Begun, Blank, Task
<1>5. ASSUME NEW i \in Jobs, StartJob(i) PROVE Sights'
  <2>1. /\ UNCHANGED <<save, rows, disk, rewrite>>
        /\ life[i] = "unborn"
        /\ life' = [life EXCEPT ![i] = "working"]
        /\ status' = [status EXCEPT ![i] = "running"]
    BY <1>5 DEF StartJob, startup
  <2>2. QED
    BY <1>1, <2>1 DEF InMemory, Begun, Known, LiveStatuses
<1>6. ASSUME NEW i \in Jobs, StopJob(i) PROVE Sights'
  <2>1. /\ UNCHANGED <<save, life, rows, disk, rewrite>>
        /\ status' = [status EXCEPT ![i] = "stopping"]
    BY <1>6 DEF StopJob, startup
  <2>2. QED
    BY <1>1, <2>1 DEF InMemory, Begun, Known, LiveStatuses
<1>7. ASSUME NEW i \in Jobs, AddRow(i) PROVE Sights'
  <2>1. PICK l \in Saves : l = rows[i] + 1
    BY <1>1, <1>7, SaveNumbers DEF AddRow
  <2>2. \A j \in Jobs, k \in Saves : Begun(j, k)' =>
          save'[j][k].status = save[j][k].status /\ Begun(j, k)
    BY <1>4, <1>7, <2>1 DEF AddRow
  <2>3. /\ UNCHANGED <<life, status, disk, rewrite>>
        /\ life[i] = "working"
        /\ rows' = [rows EXCEPT ![i] = @ + 1]
    BY <1>7 DEF AddRow, startup
  <2>4. QED
    BY <1>1, <2>2, <2>3 DEF InMemory
<1>8. ASSUME NEW i \in Jobs, NEW s \in Terminal, SettleJob(i, s) PROVE Sights'
  <2>1. /\ UNCHANGED <<save, rows, disk, rewrite>>
        /\ life[i] = "working"
        /\ life' = [life EXCEPT ![i] = "draining"]
        /\ status' = [status EXCEPT ![i] = s]
    BY <1>8 DEF SettleJob, startup
  <2>2. QED
    BY <1>1, <2>1 DEF InMemory, Begun, Known
<1>9. ASSUME NEW i \in Jobs, DrainJob(i) PROVE Sights'
  <2>1. \A j \in Jobs, k \in Saves : Begun(j, k)' =>
          save'[j][k].status = save[j][k].status /\ Begun(j, k)
    BY <1>4, <1>9, SaveNumbers DEF DrainJob, Begun
  <2>2. /\ UNCHANGED <<status, rows, disk, rewrite>>
        /\ life[i] = "draining"
        /\ \/ life' = [life EXCEPT ![i] = "lastSave"]
           \/ life' = [life EXCEPT ![i] = "done"]
    BY <1>9 DEF DrainJob, startup
  <2>3. QED
    BY <1>1, <2>1, <2>2 DEF InMemory
<1>10. ASSUME NEW i \in Jobs, NEW l \in Saves, BeginSave(i, l) PROVE Sights'
  <2> DEFINE now == Task("serialised", status[i], rows[i], rows[i], FALSE)
             soon == Task("gate", status[i], rows[i], 0, FALSE)
  <2>1. save' = [save EXCEPT ![i][l] = now] \/ save' = [save EXCEPT ![i][l] = soon]
    BY <1>10 DEF BeginSave, SetSave
  <2>2. now.status = status[i] /\ soon.status = status[i]
    BY DEF Task
  <2>3. status[i] \in Known
    BY <1>2, <1>10 DEF BeginSave, HasTurn, Over
  <2> HIDE DEF now, soon
  <2>4. TasksAreKnown'
    <3>1. save'[i][l].status = status[i]
      BY <1>1, <2>1, <2>2
    <3>2. \A j \in Jobs, k \in Saves : j # i \/ k # l => save'[j][k] = save[j][k]
      BY <1>1, <2>1
    <3>3. QED
      BY <2>3, <3>1, <3>2 DEF Begun
  <2>5. UNCHANGED <<life, status, rows, disk, rewrite>>
    BY <1>10 DEF BeginSave, memory, startup
  <2>6. QED
    BY <2>4, <2>5 DEF InMemory
<1>11. ASSUME NEW i \in Jobs, NEW l \in Saves, PassGate(i, l) PROVE Sights'
  <2> DEFINE old == save[i][l]
             t == [old EXCEPT !.pc = "serialised", !.rows = rows[i]]
  <2>1. old \in TaskType /\ old.pc = "gate" /\ save' = [save EXCEPT ![i][l] = t]
    BY <1>1, <1>11 DEF PassGate
  <2>2. t.status = old.status
    BY <2>1 DEF TaskType
  <2> HIDE DEF t
  <2>3. \A j \in Jobs, k \in Saves : Begun(j, k)' =>
          save'[j][k].status = save[j][k].status /\ Begun(j, k)
    BY <1>1, <2>1, <2>2 DEF Begun
  <2>4. QED
    BY <1>3, <1>11, <2>3 DEF PassGate, memory, startup
<1>12. ASSUME NEW i \in Jobs, NEW l \in Saves, OpenFile(i, l) PROVE Sights'
  <2> DEFINE old == save[i][l]
             t == [old EXCEPT !.pc = "writing", !.linked = TRUE]
  <2>1. /\ old \in TaskType /\ old.pc = "serialised"
        /\ save' = [save EXCEPT ![i][l] = t]
        /\ disk' = [disk EXCEPT ![i] = Torn]
        /\ UNCHANGED <<life, status, rows, rewrite>>
    BY <1>1, <1>12 DEF OpenFile, memory, startup
  <2>2. t.status = old.status
    BY <2>1 DEF TaskType
  <2> HIDE DEF t
  <2>3. TasksAreKnown'
    BY <1>1, <2>1, <2>2 DEF Begun
  <2>4. \A j \in Jobs : disk'[j].kind = "whole" => disk'[j] = disk[j]
    BY <1>1, <2>1 DEF Torn, NoRecord
  <2>5. QED
    BY <1>1, <2>1, <2>3, <2>4 DEF InMemory
<1>13. ASSUME NEW i \in Jobs, NEW l \in Saves, CloseFile(i, l) PROVE Sights'
  <2> DEFINE t == save[i][l]
  <2>1. /\ Begun(i, l) /\ ~Over(i, l)
        /\ SetSave(i, l, Blank("saved"))
        /\ \/ life' = [life EXCEPT ![i] = "done"] \/ life' = life
        /\ \/ disk' = [disk EXCEPT ![i] = Record(t.status, t.completed, t.rows)]
           \/ disk' = disk
        /\ UNCHANGED <<status, rows, rewrite>>
    BY <1>13 DEF CloseFile, EndSave, Begun, Over, startup
  <2>2. /\ InMemory(i) /\ t.status \in Known /\ rewrite = << >>
    BY <1>2, <2>1
  <2>3. TasksAreKnown'
    BY <1>4, <2>1
  <2>4. UnbornIsBlank' /\ FilesAreKnown'
    <3>1. \A j \in Jobs : /\ life'[j] = "unborn" => life[j] = "unborn" /\ j # i
                          /\ InMemory(j)' => InMemory(j)
      BY <1>1, <2>1, <2>2 DEF InMemory
    <3>2. /\ \A j \in Jobs : j # i => disk'[j] = disk[j]
          /\ disk'[i] = disk[i] \/ disk'[i].status = t.status
      BY <1>1, <2>1 DEF Record
    <3>3. UnbornIsBlank'
      BY <2>1, <3>1, <3>2
    <3>4. ASSUME NEW j \in Jobs, InMemory(j)', disk'[j].kind = "whole"
          PROVE  disk'[j].status \in Known
      BY <2>2, <3>1, <3>2, <3>4
    <3>5. QED
      BY <3>3, <3>4
  <2>5. StatusIsKnown'
    BY <1>1, <2>1, <2>2 DEF InMemory
  <2>6. QED
    BY <2>1, <2>2, <2>3, <2>4, <2>5
<1>14. ASSUME NEW i \in Jobs, NEW l \in Saves, SaveFails(i, l) PROVE Sights'
  <2>1. /\ ~Over(i, l)
        /\ SetSave(i, l, Blank("failed"))
        /\ \/ life' = [life EXCEPT ![i] = "done"] \/ life' = life
        /\ UNCHANGED <<status, rows, disk, rewrite>>
    BY <1>14 DEF SaveFails, EndSave, Over, startup
  <2>2. InMemory(i)
    BY <1>2, <2>1
  <2>3. TasksAreKnown'
    BY <1>4, <2>1
  <2>4. QED
    BY <1>1, <2>1, <2>2, <2>3 DEF InMemory
<1>15. ASSUME NEW S, Unlink(S), UNCHANGED <<life, status, rows, rewrite>>
       PROVE  Sights'
  <2>1. \A j \in Jobs, k \in Saves : /\ save'[j][k].pc = save[j][k].pc
                                     /\ save'[j][k].status = save[j][k].status
    BY <1>1, <1>15 DEF Unlink, TaskType
  <2>2. TasksAreKnown'
    BY <2>1 DEF Begun
  <2>3. \A j \in Jobs : disk'[j].kind = "whole" => disk'[j] = disk[j]
    BY <1>15 DEF Unlink, Absent, NoRecord
  <2>4. QED
    BY <1>1, <1>15, <2>2, <2>3 DEF InMemory
<1>16. ASSUME NEW S, RequestClear(S) PROVE Sights'
  BY <1>3, <1>15, <1>16 DEF RequestClear, memory, startup, Begun
<1>17. CASE EnterClear
  BY <1>15, <1>17 DEF EnterClear, memory, startup
<1>18. CASE Crash
  <2>1. /\ \A j \in Jobs : ~InMemory(j)'
        /\ \A j \in Jobs : life'[j] = "unborn" <=> life[j] = "unborn"
        /\ \A j \in Jobs : life'[j] # "working"
        /\ \A j \in Jobs, k \in Saves : ~Begun(j, k)'
        /\ UNCHANGED <<rows, disk>> /\ rewrite' = << >>
    BY <1>1, <1>18 DEF Crash, InMemory, Begun, Blank, Task
  <2>2. QED
    BY <2>1
<1>19. ASSUME NEW i \in Jobs, BeginRewrite(i) PROVE Sights'
  <2>1. /\ UNCHANGED <<life, status, rows, save>>
        /\ rewrite'[1] = i
        /\ disk' = [disk EXCEPT ![i] = Torn]
    BY <1>19 DEF BeginRewrite, memory
  <2>2. /\ disk'[i].kind # "whole"
        /\ \A j \in Jobs : disk'[j].kind = "whole" => disk'[j] = disk[j]
    BY <1>1, <2>1 DEF Torn, NoRecord
  <2>3. life[i] # "unborn"
    BY <1>19 DEF BeginRewrite, Stale
  <2>4. QED
    BY <2>1, <2>2, <2>3 DEF InMemory, Begun
<1>20. CASE EndRewrite
  <2> DEFINE i == rewrite[1]
  <2>1. /\ UNCHANGED <<life, status, rows, save>>
        /\ i \in Jobs /\ rewrite' = << >>
        /\ disk' = [disk EXCEPT ![i] = rewrite[2]]
    BY <1>1, <1>20 DEF EndRewrite, memory
  <2>2. ~InMemory(i) /\ life[i] # "unborn"
    BY <1>2, <1>20, <2>1 DEF EndRewrite
  <2>3. QED
    BY <1>1, <2>1, <2>2 DEF InMemory, Begun
<1>21. CASE RewriteFails
  BY <1>21 DEF RewriteFails, memory, InMemory, Begun
<1>22. ASSUME \/ \E r \in Readers :
                   \/ RequestList(r) \/ EnterList(r) \/ EndList(r)
                   \/ \E i \in Jobs : ReadFile(r, i)
              \/ \E i \in Jobs : SkipFile(i)
              \/ Restart \/ Serve \/ UNCHANGED vars
       PROVE  Sights'
  <2>1. UNCHANGED <<life, status, rows, save, disk, rewrite>>
    BY <1>22 DEF RequestList, EnterList, EndList, ReadFile, SkipFile, Restart, Serve,
       vars, memory, startup
  <2>2. QED
    BY <1>3, <2>1 DEF Begun
<1>23. QED
  BY <1>5, <1>6, <1>7, <1>8, <1>9, <1>10, <1>11, <1>12, <1>13, <1>14, <1>16, <1>17,
     <1>18, <1>19, <1>20, <1>21, <1>22, NextCases

LEMMA SightsAlways == Spec => []Sights
BY SightsInit, SightsNext, TypeCorrect, PhasesAlways, PTL DEF Spec

-----------------------------------------------------------------------------
(* What a client is shown of jobs that a step leaves alone. *)
Unseen(j) == InMemory(j)' = InMemory(j) /\ Loaded(j)' = Loaded(j)

LEMMA StutterStep ==
  ASSUME \A j \in Jobs : Unseen(j)
  PROVE  UNCHANGED Archive!vars
BY DEF Unseen, Archive!vars

LEMMA UnseenInMemory ==
  ASSUME NEW j \in Jobs, InMemory(j), InMemory(j)', status'[j] = status[j],
         rows'[j] = rows[j]
  PROVE  Unseen(j)
BY DEF Unseen, Loaded, InMemory

LEMMA UnseenOnDisk ==
  ASSUME NEW j \in Jobs, ~InMemory(j), ~InMemory(j)', disk'[j] = disk[j],
         UNCHANGED rewrite
  PROVE  Unseen(j)
BY DEF Unseen, Loaded, InMemory

(***************************************************************************)
(* Every step of the store is a step of the archive, or one that no client *)
(* can see.                                                                *)
(***************************************************************************)
LEMMA StoreStep ==
  ASSUME TypeOK, Honest, Phases, Sights, [Next]_vars
  PROVE  [Archive!Next]_(Archive!vars)
<1>1. /\ save \in [Jobs -> [Saves -> TaskType]]
      /\ life \in [Jobs -> {"unborn", "working", "draining", "lastSave", "done", "lost"}]
      /\ status \in [Jobs -> Statuses]
      /\ rows \in [Jobs -> Nat]
      /\ disk \in [Jobs -> RecordType]
      /\ rewrite = << >> \/ rewrite \in Jobs \X RecordType
  BY BoundsAssumption DEF TypeOK
<1>2. /\ \A j \in Jobs : InMemory(j) => up = "up"
      /\ \A j \in Jobs, k \in Saves : ~Over(j, k) => InMemory(j)
      /\ up # "reconciling" => rewrite = << >>
  BY MemoryIsUp
<1> DEFINE alive == [j \in Jobs |-> InMemory(j)]
           entry == [j \in Jobs |-> Loaded(j)]
<1>3. ASSUME \A j \in Jobs : Unseen(j) PROVE [Archive!Next]_(Archive!vars)
  BY <1>3, StutterStep
(* A save, however it goes, is a step of a job in memory. *)
<1>4. ASSUME NEW i \in Jobs, InMemory(i), InMemory(i)',
             \A j \in Jobs : j # i => disk'[j] = disk[j] /\ life'[j] = life[j],
             UNCHANGED <<status, rows, rewrite>>
      PROVE  [Archive!Next]_(Archive!vars)
  <2>1. ASSUME NEW j \in Jobs PROVE Unseen(j)
    <3>1. CASE InMemory(j)
      BY <1>4, <3>1, UnseenInMemory DEF InMemory
    <3>2. CASE ~InMemory(j)
      BY <1>4, <3>2, UnseenOnDisk DEF InMemory
    <3>3. QED
      BY <3>1, <3>2
  <2>2. QED
    BY <1>3, <2>1
<1>5. ASSUME NEW i \in Jobs, StartJob(i) PROVE Archive!Next
  <2>1. /\ life[i] = "unborn" /\ rows[i] = 0 /\ disk[i].kind # "whole"
        /\ up = "up" /\ rewrite = << >>
        /\ UNCHANGED <<rows, disk, rewrite>>
        /\ life' = [life EXCEPT ![i] = "working"]
        /\ status' = [status EXCEPT ![i] = "running"]
    BY <1>2, <1>5 DEF StartJob, startup, Sights, UnbornIsBlank
  <2>2. /\ Loaded(i) = Archive!Nothing /\ Loaded(i)' = Archive!Run("running", 0)
        /\ InMemory(i)'
    BY <1>1, <2>1 DEF Loaded, InMemory, Archive!Nothing, Archive!Run
  <2>3. \A j \in Jobs : j # i => Unseen(j)
    BY <1>1, <2>1 DEF Unseen, Loaded, InMemory
  <2>4. Archive!Begin(i)
    BY <2>2, <2>3 DEF Unseen, Archive!Begin
  <2>5. QED
    BY <2>4 DEF Archive!Next
<1>6. ASSUME NEW i \in Jobs, NEW s \in {"stopping"} \cup Terminal,
             life[i] = "working",
             \/ life' = life \/ life' = [life EXCEPT ![i] = "draining"],
             status' = [status EXCEPT ![i] = s],
             UNCHANGED <<rows, disk, rewrite>>
      PROVE  Archive!Next
  <2>1. /\ Loaded(i).status \in LiveStatuses
        /\ Loaded(i)' = [Loaded(i) EXCEPT !.status = s]
        /\ InMemory(i) /\ InMemory(i)'
    BY <1>1, <1>6 DEF Loaded, InMemory, Sights, StatusIsKnown
  <2>2. \A j \in Jobs : j # i => Unseen(j)
    BY <1>1, <1>6 DEF Unseen, Loaded, InMemory
  <2>3. entry' = [entry EXCEPT ![i].status = s]
    BY <2>1, <2>2 DEF Unseen
  <2>4. UNCHANGED alive
    <3>1. \A j \in Jobs : InMemory(j)' = InMemory(j)
      BY <2>1, <2>2 DEF Unseen, InMemory
    <3>2. QED
      BY <3>1
  <2>5. Archive!Advance(i, s)
    BY <2>1, <2>3, <2>4 DEF Archive!Advance, Archive!LiveStatuses, LiveStatuses
  <2>6. QED
    BY <2>5 DEF Archive!Next, Archive!Terminal, Terminal
<1>7. ASSUME NEW i \in Jobs, AddRow(i) PROVE Archive!Next
  <2>1. /\ life[i] = "working"
        /\ rows' = [rows EXCEPT ![i] = @ + 1]
        /\ UNCHANGED <<life, status, disk, rewrite>>
    BY <1>7 DEF AddRow, startup
  <2>2. /\ Loaded(i).status \in LiveStatuses
        /\ Loaded(i)' = [Loaded(i) EXCEPT !.rows = Loaded(i).rows + 1]
        /\ InMemory(i) /\ InMemory(i)'
    <3>1. /\ InMemory(i) /\ InMemory(i)'
          /\ status[i] \in LiveStatuses /\ status'[i] = status[i]
          /\ rows'[i] = rows[i] + 1
      BY <1>1, <2>1 DEF InMemory, Sights, StatusIsKnown
    <3>2. QED
      BY <3>1 DEF Loaded
  <2>3. \A j \in Jobs : j # i => Unseen(j)
    BY <1>1, <2>1 DEF Unseen, Loaded, InMemory
  <2>4. entry' = [entry EXCEPT ![i].rows = @ + 1]
    BY <2>2, <2>3 DEF Unseen
  <2>5. UNCHANGED alive
    <3>1. \A j \in Jobs : InMemory(j)' = InMemory(j)
      BY <2>2, <2>3 DEF Unseen, InMemory
    <3>2. QED
      BY <3>1
  <2>6. Archive!AddRow(i)
    BY <2>2, <2>4, <2>5 DEF Archive!AddRow, Archive!LiveStatuses, LiveStatuses
  <2>7. QED
    BY <2>6 DEF Archive!Next
<1>8. ASSUME NEW i \in Jobs, DrainJob(i) PROVE [Archive!Next]_(Archive!vars)
  <2>1. /\ life[i] = "draining"
        /\ \/ life' = [life EXCEPT ![i] = "lastSave"]
           \/ life' = [life EXCEPT ![i] = "done"]
        /\ UNCHANGED <<status, rows, disk, rewrite>>
    BY <1>8 DEF DrainJob, startup
  <2>2. InMemory(i) /\ InMemory(i)'
    BY <1>1, <2>1 DEF InMemory
  <2>3. QED
    BY <1>1, <1>4, <2>1, <2>2
<1>9. ASSUME NEW i \in Jobs, NEW l \in Saves,
             \/ BeginSave(i, l) \/ PassGate(i, l) \/ OpenFile(i, l)
             \/ CloseFile(i, l) \/ SaveFails(i, l)
      PROVE  [Archive!Next]_(Archive!vars)
  <2>1. ~Over(i, l) /\ UNCHANGED <<status, rows, rewrite>>
    BY <1>9 DEF BeginSave, PassGate, OpenFile, CloseFile, SaveFails, HasTurn, Over,
       memory, startup
  <2>2. \/ life' = life \/ life' = [life EXCEPT ![i] = "done"]
    BY <1>9 DEF BeginSave, PassGate, OpenFile, CloseFile, SaveFails, EndSave, memory
  <2>3. \A j \in Jobs : j # i => disk'[j] = disk[j]
    BY <1>1, <1>9 DEF BeginSave, PassGate, OpenFile, CloseFile, SaveFails
  <2>4. InMemory(i) /\ InMemory(i)'
    BY <1>1, <1>2, <2>1, <2>2 DEF InMemory
  <2>5. QED
    BY <1>1, <1>4, <2>1, <2>2, <2>3, <2>4
<1>10. ASSUME NEW S, Unlink(S), up = "up", UNCHANGED <<life, status, rows, rewrite>>
       PROVE  Archive!Next
  <2>1. ASSUME NEW j \in Jobs
        PROVE  /\ InMemory(j)' = InMemory(j)
               /\ Loaded(j)' \in IF InMemory(j) THEN {Loaded(j)}
                                 ELSE {Loaded(j), Archive!Nothing}
    BY <1>2, <1>10 DEF Unlink, Loaded, InMemory, Absent, NoRecord, Archive!Nothing
  <2>2. Archive!Forget
    BY <2>1 DEF Archive!Forget
  <2>3. QED
    BY <2>2 DEF Archive!Next
<1>11. ASSUME NEW S, RequestClear(S) PROVE [Archive!Next]_(Archive!vars)
  <2>1. CASE Unlink(S)
    BY <1>10, <1>11, <2>1 DEF RequestClear, memory, startup
  <2>2. CASE UNCHANGED disk
    <3>1. \A j \in Jobs : Unseen(j)
      BY <1>11, <2>2 DEF RequestClear, memory, startup, Unseen, Loaded, InMemory
    <3>2. QED
      BY <1>3, <3>1
  <2>3. QED
    BY <1>11, <2>1, <2>2 DEF RequestClear
<1>12. CASE EnterClear
  BY <1>10, <1>12 DEF EnterClear, memory, startup, Phases, QuietWhenDown
<1>13. CASE Crash
  <2>1. /\ \A j \in Jobs : InMemory(j)' = FALSE
        /\ UNCHANGED disk
        /\ rewrite' = << >>
    BY <1>1, <1>13 DEF Crash, InMemory
  <2>2. CASE rewrite # << >>
    <3>1. \A j \in Jobs : InMemory(j) = FALSE
      BY <1>2, <2>2 DEF InMemory
    <3>2. \A j \in Jobs : Loaded(j)' \in {Loaded(j), Archive!Nothing}
      BY <1>1, <2>1, <2>2, <3>1 DEF Loaded, Archive!Nothing, Sights, RewrittenIsTorn
    <3>3. Archive!Forget
      BY <2>1, <3>1, <3>2 DEF Archive!Forget
    <3>4. QED
      BY <3>3 DEF Archive!Next
  <2>3. CASE rewrite = << >> /\ \A j \in Jobs : ~InMemory(j)
    <3>1. \A j \in Jobs : Unseen(j)
      BY <2>1, <2>3, UnseenOnDisk
    <3>2. QED
      BY <1>3, <3>1
  <2>4. CASE rewrite = << >> /\ \E j \in Jobs : InMemory(j)
    <3>1. ASSUME NEW j \in Jobs, ~InMemory(j)
          PROVE  Loaded(j)' = Loaded(j)
      BY <2>1, <2>4, <3>1, UnseenOnDisk DEF Unseen
    <3>2. ASSUME NEW j \in Jobs, InMemory(j)
          PROVE  Loaded(j)' \in Archive!Remains(j)
      <4>1. Loaded(j) = Archive!Run(status[j], rows[j])
        BY <3>2 DEF Loaded, Archive!Run
      <4>2. CASE disk[j].kind # "whole"
        <5>1. Loaded(j)' = Archive!Nothing
          BY <2>1, <4>2 DEF Loaded, Archive!Nothing
        <5>2. QED
          BY <5>1 DEF Archive!Remains
      <4>3. CASE disk[j].kind = "whole"
        <5>1. Loaded(j)' = Archive!Run(disk[j].status, disk[j].rows)
          BY <2>1, <4>3 DEF Loaded, Archive!Run
        <5>2. /\ disk[j].status \in LiveStatuses \cup Terminal
              /\ disk[j].rows \in 0..rows[j]
              /\ disk[j].status \in Terminal => /\ disk[j].status = status[j]
                                               /\ disk[j].rows = rows[j]
          BY <1>1, <3>2, <4>3, BoundsAssumption
             DEF Honest, HonestRecord, Holds, Whole, Sights, FilesAreKnown, Known, RecordType
        <5>3. CASE disk[j].status \in Terminal
          BY <4>1, <5>1, <5>2, <5>3 DEF Archive!Remains
        <5>4. CASE disk[j].status \in LiveStatuses
          <6>1. Loaded(j).rows = rows[j]
            BY <4>1 DEF Archive!Run
          <6>2. QED
            BY <5>1, <5>2, <5>4, <6>1
               DEF Archive!Remains, Archive!LiveStatuses, LiveStatuses
        <5>5. QED
          BY <5>2, <5>3, <5>4
      <4>4. QED
        BY <4>2, <4>3
    <3>3. alive' = [j \in Jobs |-> FALSE]
      BY <2>1
    <3>4. \A j \in Jobs :
            entry'[j] \in IF alive[j] THEN Archive!Remains(j) ELSE {entry[j]}
      BY <3>1, <3>2
    <3>5. Archive!Die
      BY <2>4, <3>3, <3>4 DEF Archive!Die
    <3>6. QED
      BY <3>5 DEF Archive!Next
  <2>5. QED
    BY <2>2, <2>3, <2>4
<1>14. ASSUME NEW i \in Jobs, BeginRewrite(i) PROVE Archive!Next
  <2>1. /\ UNCHANGED <<life, status, rows>>
        /\ disk[i].kind = "whole" /\ disk[i].status \in LiveStatuses
        /\ rewrite = << >>
        /\ rewrite' = <<i, [disk[i] EXCEPT !.status = "interrupted"]>>
        /\ disk' = [disk EXCEPT ![i] = Torn]
    BY <1>14 DEF BeginRewrite, Stale, memory
  <2>2. \A j \in Jobs : ~InMemory(j) /\ InMemory(j)' = InMemory(j)
    BY <1>2, <1>14, <2>1 DEF BeginRewrite, Phases, RewritesAtStartup, InMemory
  <2>3. /\ Loaded(i) = Archive!Run(disk[i].status, disk[i].rows)
        /\ Loaded(i)' = Archive!Run("interrupted", disk[i].rows)
    BY <1>1, <2>1, <2>2 DEF Loaded, Archive!Run, RecordType
  <2>4. \A j \in Jobs : j # i => Loaded(j)' = Loaded(j)
    BY <1>1, <2>1, <2>2 DEF Loaded
  <2>5. /\ Loaded(i).status \in LiveStatuses
        /\ Loaded(i)' = [Loaded(i) EXCEPT !.status = "interrupted"]
    BY <2>1, <2>3 DEF Archive!Run
  <2>6. Archive!Interrupt(i)
    BY <2>2, <2>4, <2>5 DEF Archive!Interrupt, Archive!LiveStatuses, LiveStatuses
  <2>7. QED
    BY <2>6 DEF Archive!Next
<1>15. CASE EndRewrite
  <2>1. /\ rewrite # << >> /\ rewrite[1] \in Jobs
        /\ disk' = [disk EXCEPT ![rewrite[1]] = rewrite[2]]
        /\ rewrite' = << >>
        /\ UNCHANGED <<life, status, rows>>
    BY <1>1, <1>15 DEF EndRewrite, memory
  <2>2. \A j \in Jobs : Unseen(j)
    BY <1>1, <2>1 DEF Unseen, Loaded, InMemory
  <2>3. QED
    BY <1>3, <2>2
<1>16. CASE RewriteFails
  <2>1. UNCHANGED <<life, status, rows, disk>> /\ rewrite' = << >>
    BY <1>16 DEF RewriteFails, memory
  <2>2. ASSUME NEW j \in Jobs
        PROVE  /\ InMemory(j)' = InMemory(j)
               /\ Loaded(j)' \in IF InMemory(j) THEN {Loaded(j)}
                                 ELSE {Loaded(j), Archive!Nothing}
    BY <2>1 DEF Loaded, InMemory, Archive!Nothing, Sights, RewrittenIsTorn
  <2>3. Archive!Forget
    BY <2>2 DEF Archive!Forget
  <2>4. QED
    BY <2>3 DEF Archive!Next
<1>17. ASSUME \/ \E r \in Readers :
                   \/ RequestList(r) \/ EnterList(r) \/ EndList(r)
                   \/ \E i \in Jobs : ReadFile(r, i)
              \/ \E i \in Jobs : SkipFile(i)
              \/ Restart \/ Serve \/ UNCHANGED vars
       PROVE  [Archive!Next]_(Archive!vars)
  <2>1. UNCHANGED <<life, status, rows, disk, rewrite>>
    BY <1>17 DEF RequestList, EnterList, EndList, ReadFile, SkipFile, Restart, Serve,
       vars, memory, startup
  <2>2. \A j \in Jobs : Unseen(j)
    BY <2>1 DEF Unseen, Loaded, InMemory
  <2>3. QED
    BY <1>3, <2>2
<1>18. ASSUME NEW i \in Jobs, StopJob(i) PROVE Archive!Next
  BY <1>6, <1>18 DEF StopJob, startup
<1>19. ASSUME NEW i \in Jobs, NEW s \in Terminal, SettleJob(i, s) PROVE Archive!Next
  BY <1>6, <1>19 DEF SettleJob, startup
<1>20. QED
  BY <1>5, <1>7, <1>8, <1>9, <1>11, <1>12, <1>13, <1>14, <1>15, <1>16, <1>17, <1>18,
     <1>19, NextCases

(***************************************************************************)
(* The store implements the archive of runs: whoever loads a run sees it   *)
(* alive while its server is, and afterwards an earlier sight of it or     *)
(* nothing, never a finished status over a partial list of rows.           *)
(***************************************************************************)
THEOREM StoreImplementsArchive == Spec => ArchiveSpec
<1>1. ASSUME Init PROVE Archive!Init
  <2>1. \A j \in Jobs : InMemory(j) = FALSE
    BY <1>1 DEF Init, InMemory
  <2>2. \A j \in Jobs : Loaded(j) = Archive!Nothing
    BY <1>1, <2>1 DEF Init, Loaded, Archive!Nothing, Absent, NoRecord
  <2>3. QED
    BY <2>1, <2>2 DEF Archive!Init
<1>2. QED
  BY <1>1, StoreStep, TypeCorrect, HonestAlways, PhasesAlways, SightsAlways, PTL
     DEF Spec, ArchiveSpec, Archive!Spec

-----------------------------------------------------------------------------
(***************************************************************************)
(* What follows for who asks for a run twice.  A run that is not in memory *)
(* any more is marked as interrupted, if it was cut short, and forgotten.  *)
(***************************************************************************)
Fades(e, f) ==
  \/ f = e
  \/ f = Archive!Nothing
  \/ e.status \in LiveStatuses /\ f = [e EXCEPT !.status = "interrupted"]

HistoryOnlyFades ==
  \A j \in Jobs : life[j] # "unborn" =>
    /\ InMemory(j)' => /\ InMemory(j)
                       /\ Loaded(j).rows <= Loaded(j)'.rows
                       /\ Loaded(j).status \in Terminal => Loaded(j)' = Loaded(j)
    /\ InMemory(j) /\ ~InMemory(j)' =>
         \/ Loaded(j)' \in {Loaded(j), Archive!Nothing}
         \/ Loaded(j)'.status \in LiveStatuses /\ Loaded(j)'.rows <= Loaded(j).rows
    /\ ~InMemory(j) => Fades(Loaded(j), Loaded(j)')

LEMMA LoadedType ==
  ASSUME TypeOK, NEW j \in Jobs
  PROVE  /\ Loaded(j) \in [kind : {"run", "nothing"}, status : Statuses, rows : Nat]
         /\ InMemory(j) => Loaded(j) # Archive!Nothing
<1>1. /\ status[j] \in Statuses /\ rows[j] \in Nat /\ disk[j] \in RecordType
      /\ rewrite # << >> => rewrite[2] \in RecordType
  BY BoundsAssumption DEF TypeOK
<1>2. \A r \in RecordType : r.status \in Statuses /\ r.rows \in Nat
  BY BoundsAssumption DEF RecordType
<1>3. QED
  BY <1>1, <1>2 DEF Loaded, Statuses, Archive!Nothing

(* A job that died with its server does not come back. *)
LEMMA LostForGood ==
  ASSUME TypeOK, Phases, [Next]_vars, NEW j \in Jobs, life[j] = "lost"
  PROVE  life'[j] = "lost"
<1>1. life \in [Jobs -> {"unborn", "working", "draining", "lastSave", "done", "lost"}]
  BY DEF TypeOK
<1>2. \A k \in Saves : Over(j, k)
  BY MemoryIsUp DEF InMemory
<1>3. CASE life' = life
  BY <1>3
<1>4. ASSUME NEW i \in Jobs, NEW s \in Terminal, StartJob(i) \/ SettleJob(i, s) \/ DrainJob(i)
      PROVE  life'[j] = "lost"
  BY <1>1, <1>4 DEF StartJob, SettleJob, DrainJob
<1>5. ASSUME NEW i \in Jobs, NEW k \in Saves, CloseFile(i, k) \/ SaveFails(i, k)
      PROVE  life'[j] = "lost"
  <2>1. i # j
    BY <1>2, <1>5 DEF CloseFile, SaveFails, Over
  <2>2. QED
    BY <1>1, <1>5, <2>1 DEF CloseFile, SaveFails, EndSave
<1>6. CASE Crash
  BY <1>6 DEF Crash, InMemory
<1>7. ASSUME \/ \E i \in Jobs : StopJob(i) \/ AddRow(i) \/ SkipFile(i) \/ BeginRewrite(i)
             \/ \E i \in Jobs, k \in Saves : BeginSave(i, k) \/ PassGate(i, k) \/ OpenFile(i, k)
             \/ \E r \in Readers : RequestList(r) \/ EnterList(r) \/ EndList(r)
             \/ \E r \in Readers, i \in Jobs : ReadFile(r, i)
             \/ \E S \in SUBSET Jobs : RequestClear(S)
             \/ EnterClear \/ Restart \/ EndRewrite \/ RewriteFails \/ Serve \/ UNCHANGED vars
      PROVE  life' = life
  BY <1>7 DEF StopJob, AddRow, SkipFile, BeginRewrite, BeginSave, PassGate, OpenFile, RequestList,
     EnterList, EndList, ReadFile, RequestClear, EnterClear, Restart, EndRewrite, RewriteFails,
     Serve, vars, memory
<1>8. \E s : s \in Terminal
  BY DEF Terminal
<1>9. QED
  BY <1>3, <1>4, <1>5, <1>6, <1>7, <1>8, NextCases

LEMMA HistoryFades ==
  ASSUME TypeOK, TypeOK', Phases, [Next]_vars, [Archive!Next]_(Archive!vars)
  PROVE  HistoryOnlyFades
<1> DEFINE alive == [i \in Jobs |-> InMemory(i)]
           entry == [i \in Jobs |-> Loaded(i)]
           Later(j) ==
             /\ InMemory(j)' => /\ InMemory(j)
                                /\ Loaded(j).rows <= Loaded(j)'.rows
                                /\ Loaded(j).status \in Terminal => Loaded(j)' = Loaded(j)
             /\ InMemory(j) /\ ~InMemory(j)' =>
                  \/ Loaded(j)' \in {Loaded(j), Archive!Nothing}
                  \/ Loaded(j)'.status \in LiveStatuses /\ Loaded(j)'.rows <= Loaded(j).rows
             /\ ~InMemory(j) => Fades(Loaded(j), Loaded(j)')
<1>1. SUFFICES ASSUME NEW j \in Jobs, life[j] # "unborn"
               PROVE  Later(j)
  BY DEF HistoryOnlyFades
<1>2. InMemory(j)' => InMemory(j)
  BY <1>1, LostForGood DEF InMemory
<1>3. /\ Loaded(j) \in [kind : {"run", "nothing"}, status : Statuses, rows : Nat]
      /\ InMemory(j) => Loaded(j) # Archive!Nothing
  BY LoadedType
<1>4. /\ \A i \in Jobs : alive[i] = InMemory(i) /\ alive'[i] = InMemory(i)'
      /\ \A i \in Jobs : entry[i] = Loaded(i) /\ entry'[i] = Loaded(i)'
  OBVIOUS
<1>5. DOMAIN alive = Jobs /\ DOMAIN entry = Jobs
  OBVIOUS
<1>6. CASE Unseen(j)
  BY <1>2, <1>3, <1>6 DEF Unseen, Fades
<1>7. CASE UNCHANGED <<alive, entry>>
  <2>1. Unseen(j)
    BY <1>4, <1>7 DEF Unseen
  <2>2. QED
    BY <1>6, <2>1
<1> HIDE DEF Later
<1>8. ASSUME NEW i \in Jobs, Archive!Begin(i)
      PROVE  Later(j)
  <2>1. entry[i] = Archive!Nothing /\ alive' = [alive EXCEPT ![i] = TRUE]
        /\ entry' = [entry EXCEPT ![i] = Archive!Run("running", 0)]
    BY <1>8 DEF Archive!Begin
  <2>2. i # j
    BY <1>2, <1>3, <1>4, <1>5, <2>1
  <2>3. QED
    BY <1>4, <1>5, <1>6, <2>1, <2>2 DEF Unseen
<1>9. ASSUME NEW i \in Jobs, Archive!AddRow(i)
      PROVE  Later(j)
  <2>1. alive[i] /\ entry[i].status \in LiveStatuses /\ alive' = alive
        /\ entry' = [entry EXCEPT ![i].rows = @ + 1]
    BY <1>9 DEF Archive!AddRow, Archive!LiveStatuses, LiveStatuses
  <2>2. CASE i # j
    BY <1>4, <1>5, <1>6, <2>1, <2>2 DEF Unseen
  <2>3. CASE i = j
    <3>1. InMemory(j) /\ InMemory(j)' /\ Loaded(j).status \in LiveStatuses
          /\ Loaded(j)' = [Loaded(j) EXCEPT !.rows = @ + 1]
      BY <1>4, <1>5, <2>1, <2>3
    <3>2. Loaded(j).rows <= Loaded(j)'.rows
      BY <1>3, <3>1
    <3>3. QED
      BY <3>1, <3>2 DEF Later, LiveStatuses, Terminal
  <2>4. QED
    BY <2>2, <2>3
<1>10. ASSUME NEW i \in Jobs, NEW s \in {"stopping"} \cup Terminal, Archive!Advance(i, s)
       PROVE  Later(j)
  <2>1. alive[i] /\ entry[i].status \in LiveStatuses /\ alive' = alive
        /\ entry' = [entry EXCEPT ![i].status = s]
    BY <1>10 DEF Archive!Advance, Archive!LiveStatuses, LiveStatuses
  <2>2. CASE i # j
    BY <1>4, <1>5, <1>6, <2>1, <2>2 DEF Unseen
  <2>3. CASE i = j
    <3>1. InMemory(j) /\ InMemory(j)' /\ Loaded(j).status \in LiveStatuses
          /\ Loaded(j)' = [Loaded(j) EXCEPT !.status = s]
      BY <1>4, <1>5, <2>1, <2>3
    <3>2. Loaded(j).rows <= Loaded(j)'.rows
      BY <1>3, <3>1
    <3>3. QED
      BY <3>1, <3>2 DEF Later, LiveStatuses, Terminal
  <2>4. QED
    BY <2>2, <2>3
<1>11. ASSUME Archive!Die
       PROVE  Later(j)
  <2>1. ~InMemory(j)' /\ Loaded(j)' \in IF InMemory(j) THEN Archive!Remains(j) ELSE {Loaded(j)}
    BY <1>4, <1>11 DEF Archive!Die
  <2>2. CASE ~InMemory(j)
    BY <2>1, <2>2 DEF Later, Fades
  <2>3. CASE InMemory(j)
    <3>1. \/ Loaded(j)' \in {Loaded(j), Archive!Nothing}
          \/ \E s \in LiveStatuses, n \in 0..Loaded(j).rows : Loaded(j)' = Archive!Run(s, n)
      BY <1>4, <2>1, <2>3 DEF Archive!Remains, Archive!LiveStatuses, LiveStatuses
    <3>2. \A s \in LiveStatuses, n \in 0..Loaded(j).rows :
            Archive!Run(s, n).status \in LiveStatuses /\ Archive!Run(s, n).rows <= Loaded(j).rows
      BY <1>3 DEF Archive!Run
    <3>3. QED
      BY <2>1, <2>3, <3>1, <3>2 DEF Later
  <2>4. QED
    BY <2>2, <2>3
<1>12. ASSUME NEW i \in Jobs, Archive!Interrupt(i)
       PROVE  Later(j)
  <2>1. ~alive[i] /\ entry[i].status \in LiveStatuses /\ alive' = alive
        /\ entry' = [entry EXCEPT ![i].status = "interrupted"]
    BY <1>12 DEF Archive!Interrupt, Archive!LiveStatuses, LiveStatuses
  <2>2. CASE i # j
    BY <1>4, <1>5, <1>6, <2>1, <2>2 DEF Unseen
  <2>3. CASE i = j
    BY <1>4, <1>5, <2>1, <2>3 DEF Later, Fades
  <2>4. QED
    BY <2>2, <2>3
<1>13. ASSUME Archive!Forget
       PROVE  Later(j)
  <2>1. alive' = alive /\ Loaded(j)' \in IF InMemory(j) THEN {Loaded(j)}
                                         ELSE {Loaded(j), Archive!Nothing}
    BY <1>4, <1>13 DEF Archive!Forget
  <2>2. InMemory(j)' = InMemory(j)
    BY <1>4, <2>1
  <2>3. CASE InMemory(j)
    BY <1>6, <2>1, <2>2, <2>3 DEF Unseen
  <2>4. CASE ~InMemory(j)
    BY <2>1, <2>2, <2>4 DEF Later, Fades
  <2>5. QED
    BY <2>3, <2>4
<1>14. QED
  BY <1>7, <1>8, <1>9, <1>10, <1>11, <1>12, <1>13
     DEF Archive!Next, Archive!vars, Archive!Terminal, Terminal

(***************************************************************************)
(* Whoever asks for a run twice sees it grow while its server lives, and   *)
(* stay as it is once it has finished.  When the server dies the run is    *)
(* the same, gone, or still looks live with no more rows; from then on it  *)
(* can only be marked as interrupted and forgotten: no row comes, no       *)
(* finished status appears and nothing that was gone comes back.           *)
(***************************************************************************)
THEOREM HistoryIsFinal == Spec => [][HistoryOnlyFades]_vars
<1>1. TypeOK /\ TypeOK' /\ Honest /\ Phases /\ Sights /\ [Next]_vars => [HistoryOnlyFades]_vars
  BY StoreStep, HistoryFades
<1>2. QED
  BY <1>1, TypeCorrect, HonestAlways, PhasesAlways, SightsAlways, PTL DEF Spec

-----------------------------------------------------------------------------
(***************************************************************************)
(* The order of the saves, and what a history list finds.                  *)
(***************************************************************************)

(***************************************************************************)
(* The files.  Reconciliation, the only writer besides the saves, runs     *)
(* after a crash; as long as there was none and no write failed, a torn    *)
(* file is one that a save is writing.                                     *)
(***************************************************************************)
Undisturbed == crashes + ioErrors = 0
Writing(j) == \E k \in Saves : save[j][k].pc = "writing"

FilesAreWritten ==
  /\ crashes = 0 => up = "up"
  /\ \A j \in Jobs : disk[j].kind = "absent" => disk[j] = Absent
  /\ rewrite # << >> => rewrite[2].kind = "whole"
  /\ Undisturbed => \A j \in Jobs : disk[j].kind = "torn" => Writing(j)

(***************************************************************************)
(* The _results_lock.  Who reads the directory is at the head of the       *)
(* queue, and what is still to be read is there.                           *)
(***************************************************************************)
Requests ==
  {<<"save", j, k>> : j \in Jobs, k \in Saves} \cup {<<"list", r>> : r \in Readers}
  \cup {<<"clear">>}

ReadersAtHead ==
  \A r \in Readers : reader[r].pc = "reading" => AtHead(<<"list", r>>)

ReadersSeeFiles ==
  \A r \in Readers :
    /\ reader[r].pc # "reading" => reader[r].todo = {}
    /\ \A j \in reader[r].todo : disk[j].kind # "absent"

Reading == lockQueue \in Seq(Requests) /\ ReadersAtHead /\ ReadersSeeFiles

(***************************************************************************)
(* The saves.  Nothing is saved of a job without rows before its last      *)
(* save; the last save tells how the job ended; who writes to a deleted    *)
(* file leaves no trace of it; and what is on its way to the disk has all  *)
(* the rows that were flushed.                                             *)
(***************************************************************************)
NothingYet ==
  \A j \in Jobs :
    life[j] \in {"unborn", "working", "draining"} =>
      /\ life[j] = "unborn" \/ rows[j] = 0 => disk[j] = Absent
      /\ \A k \in Saves : save[j][k].pc # "none" => k # FinalSave /\ k <= rows[j]

LastIsFinal ==
  \A j \in Jobs :
    /\ life[j] \in {"draining", "lastSave", "done"} => status[j] \in Terminal
    /\ Begun(j, FinalSave) => save[j][FinalSave].status = status[j]

UnlinkedIsGone ==
  \A j \in Jobs, k \in Saves :
    save[j][k].pc = "writing" /\ ~save[j][k].linked => disk[j] = Absent /\ flushed[j] = 0

FlushedGrows ==
  \A j \in Jobs :
    /\ flushed[j] <= rows[j]
    /\ \A k \in Saves :
         save[j][k].pc \in {"serialised", "writing"} => flushed[j] <= save[j][k].rows

Ordered ==
  NothingYet /\ LastIsFinal /\ UnlinkedIsGone /\ FlushedGrows /\ SavesLandInOrder

-----------------------------------------------------------------------------
(* The queue of the lock: who is first stays first. *)
LEMMA QueueGrows ==
  ASSUME NEW x \in Requests, lockQueue \in Seq(Requests), lockQueue' = Append(lockQueue, x)
  PROVE  /\ lockQueue' \in Seq(Requests)
         /\ \A w : AtHead(w) => AtHead(w)'
         /\ lockQueue = << >> => AtHead(x)'
BY DEF AtHead

LEMMA QueueShrinks ==
  ASSUME lockQueue \in Seq(Requests), lockQueue # << >>, lockQueue' = Tail(lockQueue)
  PROVE  lockQueue' \in Seq(Requests)
BY HeadTailProperties

LEMMA OneAtHead ==
  ASSUME ReadersAtHead, NEW r \in Readers, reader[r].pc = "reading"
  PROVE  /\ lockQueue # << >>
         /\ \A j, k : ~AtHead(<<"save", j, k>>)
         /\ ~AtHead(<<"clear">>)
         /\ \A s \in Readers : AtHead(<<"list", s>>) => s = r
<1>1. AtHead(<<"list", r>>)
  BY DEF ReadersAtHead
<1>2. \A w : AtHead(w) => w = <<"list", r>>
  BY <1>1 DEF AtHead
<1>3. /\ \A j, k : <<"save", j, k>> # <<"list", r>>
      /\ <<"clear">> # <<"list", r>>
      /\ \A s : <<"list", s>> = <<"list", r>> => s = r
  OBVIOUS
<1>4. QED
  BY <1>1, <1>2, <1>3 DEF AtHead

LEMMA ReadingInit == Init => Reading
BY DEF Init, Reading, ReadersAtHead, ReadersSeeFiles, IdleReader

(***************************************************************************)
(* Readers that a step leaves alone still see the files, if it deletes     *)
(* none that are there.                                                    *)
(***************************************************************************)
LEMMA ReadingNext ==
  ASSUME TypeOK, FilesAreWritten, Reading, [Next]_vars
  PROVE  Reading'
<1>1. /\ save \in [Jobs -> [Saves -> TaskType]]
      /\ disk \in [Jobs -> RecordType]
      /\ reader \in [Readers -> ReaderType]
      /\ rewrite = << >> \/ rewrite \in Jobs \X RecordType
      /\ lockQueue \in Seq(Requests)
  BY DEF TypeOK, Reading
<1> USE DEF Reading
<1>2. ASSUME UNCHANGED <<lockQueue, reader>>,
             \A j \in Jobs : disk'[j].kind = "absent" => disk[j].kind = "absent"
      PROVE  Reading'
  <2>1. \A r \in Readers : reader[r].todo \subseteq Jobs
    BY <1>1 DEF ReaderType
  <2>2. QED
    BY <1>2, <2>1 DEF ReadersAtHead, ReadersSeeFiles, AtHead
<1>3. ASSUME NEW x \in Requests, lockQueue' = Append(lockQueue, x), UNCHANGED <<reader, disk>>
      PROVE  Reading'
  BY <1>1, <1>3, QueueGrows DEF ReadersAtHead, ReadersSeeFiles
<1>4. ASSUME \A r \in Readers : reader[r].pc # "reading",
             lockQueue' \in Seq(Requests), UNCHANGED reader
      PROVE  Reading'
  BY <1>4 DEF ReadersAtHead, ReadersSeeFiles
<1>5. ASSUME NEW i \in Jobs, NEW l \in Saves, BeginSave(i, l) PROVE Reading'
  <2>1. <<"save", i, l>> \in Requests
    BY DEF Requests
  <2>2. QED
    BY <1>2, <1>3, <1>5, <2>1 DEF BeginSave, history
<1>6. ASSUME NEW i \in Jobs, NEW l \in Saves, PassGate(i, l) PROVE Reading'
  <2>1. /\ AtHead(<<"save", i, l>>) /\ lockQueue # << >>
        /\ lockQueue' = Tail(lockQueue) /\ UNCHANGED reader
    BY <1>6 DEF PassGate, AtHead, history
  <2>2. QED
    BY <1>1, <1>4, <2>1, OneAtHead, QueueShrinks
<1>7. ASSUME NEW i \in Jobs, NEW l \in Saves, OpenFile(i, l) \/ CloseFile(i, l)
      PROVE  Reading'
  <2>1. /\ UNCHANGED <<lockQueue, reader>>
        /\ \A j \in Jobs : disk'[j] = disk[j] \/ disk'[j].kind # "absent"
    BY <1>1, <1>7 DEF OpenFile, CloseFile, history, Torn, NoRecord, Record
  <2>2. QED
    BY <1>2, <2>1
<1>8. ASSUME NEW r \in Readers, NEW f, reader' = [reader EXCEPT ![r] = f],
             f = [pc |-> "reading", todo |-> Files, items |-> {}],
             UNCHANGED disk, lockQueue' \in Seq(Requests), AtHead(<<"list", r>>)',
             \A s \in Readers : reader[s].pc = "reading" => AtHead(<<"list", s>>)'
      PROVE  Reading'
  <2>1. f.pc = "reading" /\ f.todo = Files
    BY <1>8
  <2>2. \A j \in Files : disk'[j].kind # "absent"
    BY <1>8 DEF Files, FilesAreWritten
  <2>3. reader'[r] = f /\ \A s \in Readers : s # r => reader'[s] = reader[s]
    BY <1>1, <1>8
  <2>4. ReadersAtHead'
    BY <1>8, <2>3 DEF ReadersAtHead
  <2>5. ReadersSeeFiles'
    BY <1>8, <2>1, <2>2, <2>3 DEF ReadersSeeFiles
  <2>6. QED
    BY <1>8, <2>4, <2>5
<1>9. ASSUME NEW r \in Readers, RequestList(r) PROVE Reading'
  <2>1. /\ reader[r].pc = "idle" /\ UNCHANGED disk
        /\ lockQueue' = Append(lockQueue, <<"list", r>>) /\ <<"list", r>> \in Requests
    BY <1>9 DEF RequestList, Requests
  <2>2. CASE lockQueue = << >>
    BY <1>1, <1>8, <1>9, <2>1, <2>2, QueueGrows DEF RequestList, Listing, ReadersAtHead
  <2>3. CASE lockQueue # << >>
    <3>1. reader' = [reader EXCEPT ![r].pc = "waiting"]
      BY <1>9, <2>3 DEF RequestList
    <3>2. /\ reader'[r].pc = "waiting" /\ reader'[r].todo = reader[r].todo
          /\ \A s \in Readers : s # r => reader'[s] = reader[s]
      BY <1>1, <3>1 DEF ReaderType
    <3>3. QED
      BY <1>1, <2>1, <3>2, QueueGrows DEF ReadersAtHead, ReadersSeeFiles
  <2>4. QED
    BY <2>2, <2>3
<1>10. ASSUME NEW r \in Readers, EnterList(r) PROVE Reading'
  <2>1. AtHead(<<"list", r>>) /\ UNCHANGED <<disk, lockQueue>> /\ Listing(r)
    BY <1>10 DEF EnterList
  <2>2. QED
    BY <1>1, <1>8, <2>1 DEF Listing, ReadersAtHead, AtHead
<1>11. ASSUME NEW r \in Readers, NEW i \in Jobs, ReadFile(r, i) PROVE Reading'
  <2>1. /\ UNCHANGED <<lockQueue, disk>>
        /\ reader'[r].pc = reader[r].pc /\ reader'[r].todo \subseteq reader[r].todo
        /\ \A s \in Readers : s # r => reader'[s] = reader[s]
    BY <1>1, <1>11 DEF ReadFile, ReaderType
  <2>2. QED
    BY <1>1, <2>1 DEF ReadersAtHead, ReadersSeeFiles, AtHead
<1>12. ASSUME NEW r \in Readers, EndList(r) PROVE Reading'
  <2>1. /\ reader[r].pc = "reading" /\ lockQueue' = Tail(lockQueue)
        /\ reader' = [reader EXCEPT ![r] = IdleReader]
    BY <1>12 DEF EndList
  <2>2. \A s \in Readers : s # r => reader[s].pc # "reading"
    BY <2>1, OneAtHead DEF ReadersAtHead
  <2>3. \A s \in Readers : reader'[s].pc # "reading" /\ reader'[s].todo = {}
    BY <1>1, <2>1, <2>2 DEF IdleReader, ReadersSeeFiles
  <2>4. lockQueue' \in Seq(Requests)
    BY <1>1, <2>1, OneAtHead, QueueShrinks
  <2>5. QED
    BY <2>3, <2>4 DEF ReadersAtHead, ReadersSeeFiles
<1>13. ASSUME NEW S, RequestClear(S) PROVE Reading'
  <2>1. CASE lockQueue = << >>
    <3>1. UNCHANGED <<lockQueue, reader>>
      BY <1>13, <2>1 DEF RequestClear
    <3>2. \A r \in Readers : reader[r].pc # "reading"
      BY <2>1, OneAtHead
    <3>3. QED
      BY <1>1, <1>4, <3>1, <3>2
  <2>2. CASE lockQueue # << >>
    <3>1. lockQueue' = Append(lockQueue, <<"clear">>) /\ UNCHANGED <<reader, disk>>
      BY <1>13, <2>2 DEF RequestClear
    <3>2. <<"clear">> \in Requests
      BY DEF Requests
    <3>3. QED
      BY <1>3, <3>1, <3>2
  <2>3. QED
    BY <2>1, <2>2
<1>14. CASE EnterClear
  <2>1. /\ AtHead(<<"clear">>) /\ lockQueue # << >>
        /\ lockQueue' = Tail(lockQueue) /\ UNCHANGED reader
    BY <1>14 DEF EnterClear, AtHead
  <2>2. QED
    BY <1>1, <1>4, <2>1, OneAtHead, QueueShrinks
<1>15. CASE Crash
  <2>1. lockQueue' = << >> /\ \A r \in Readers : reader'[r] = IdleReader
    BY <1>15 DEF Crash
  <2>2. QED
    BY <2>1 DEF ReadersAtHead, ReadersSeeFiles, IdleReader
<1>16. ASSUME NEW i \in Jobs, BeginRewrite(i) PROVE Reading'
  <2>1. /\ UNCHANGED <<lockQueue, reader>>
        /\ \A j \in Jobs : disk'[j] = disk[j] \/ disk'[j].kind # "absent"
    BY <1>1, <1>16 DEF BeginRewrite, history, Torn, NoRecord
  <2>2. QED
    BY <1>2, <2>1
<1>17. CASE EndRewrite
  <2>1. /\ UNCHANGED <<lockQueue, reader>> /\ rewrite[2].kind = "whole"
        /\ \A j \in Jobs : disk'[j] = disk[j] \/ disk'[j] = rewrite[2]
    BY <1>1, <1>17 DEF EndRewrite, history, FilesAreWritten
  <2>2. QED
    BY <1>2, <2>1
<1>18. ASSUME \/ \E i \in Jobs : \/ StartJob(i) \/ StopJob(i) \/ AddRow(i) \/ DrainJob(i)
                                 \/ SkipFile(i) \/ \E s \in Terminal : SettleJob(i, s)
              \/ \E i \in Jobs, l \in Saves : SaveFails(i, l)
              \/ Restart \/ RewriteFails \/ Serve \/ UNCHANGED vars
       PROVE  Reading'
  <2>1. UNCHANGED <<lockQueue, reader, disk>>
    BY <1>18 DEF StartJob, StopJob, AddRow, DrainJob, SkipFile, SettleJob, SaveFails, Restart,
       RewriteFails, Serve, vars, history
  <2>2. QED
    BY <1>2, <2>1
<1>19. QED
  BY <1>5, <1>6, <1>7, <1>9, <1>10, <1>11, <1>12, <1>13, <1>14, <1>15, <1>16, <1>17, <1>18,
     NextCases

-----------------------------------------------------------------------------
(***************************************************************************)
(* Everything together, and what of the earlier invariants it rests on.    *)
(***************************************************************************)
InOrder == Ordered /\ FilesAreWritten

Ground ==
  /\ TypeOK /\ Honest /\ Phases /\ OneSaveAtATime
  /\ InOrder

LEMMA Types ==
  ASSUME TypeOK
  PROVE  /\ save \in [Jobs -> [Saves -> TaskType]]
         /\ life \in [Jobs -> {"unborn", "working", "draining", "lastSave", "done", "lost"}]
         /\ status \in [Jobs -> Statuses]
         /\ rows \in [Jobs -> Nat]
         /\ flushed \in [Jobs -> Nat]
         /\ disk \in [Jobs -> RecordType]
         /\ crashes \in Nat /\ ioErrors \in Nat
         /\ up \in {"up", "down", "reconciling"}
         /\ rewrite = << >> \/ rewrite \in Jobs \X RecordType
<1>1. 0..MaxRows \subseteq Nat /\ 0..MaxCrashes \subseteq Nat /\ 0..MaxErrors \subseteq Nat
  BY BoundsAssumption
<1>2. QED
  BY <1>1 DEF TypeOK

LEMMA InOrderInit == Init => InOrder
<1> SUFFICES ASSUME Init PROVE InOrder
  OBVIOUS
<1>1. /\ \A j \in Jobs : /\ life[j] = "unborn" /\ rows[j] = 0 /\ flushed[j] = 0
                         /\ disk[j] = Absent
      /\ \A j \in Jobs, k \in Saves : save[j][k].pc = "none"
      /\ up = "up" /\ rewrite = << >>
  BY DEF Init, Blank, Task
<1>2. Ordered
  BY <1>1, SaveNumbers DEF Ordered, NothingYet, LastIsFinal, UnlinkedIsGone, FlushedGrows,
     SavesLandInOrder, LastSaveWins, SavedStaysSaved, Begun
<1>3. FilesAreWritten
  BY <1>1 DEF FilesAreWritten, Absent, NoRecord
<1>4. QED
  BY <1>2, <1>3 DEF InOrder

LEMMA SaveRange == FinalSave \in Nat /\ \A k \in Saves : k \in Nat /\ k >= 1
BY BoundsAssumption DEF FinalSave, Saves

(* Where a job is while one of its tasks is not over. *)
LEMMA TasksInLife ==
  ASSUME Phases, NEW j \in Jobs, NEW k \in Saves, ~Over(j, k)
  PROVE  /\ up = "up" /\ InMemory(j)
         /\ k = FinalSave => life[j] = "lastSave"
         /\ k # FinalSave => life[j] \in {"working", "draining"}
BY DEF Phases, SavesInLife, QuietWhenDown, InMemory

(***************************************************************************)
(* A step that leaves tasks, files and jobs alone.                         *)
(***************************************************************************)
LEMMA QuietOrder ==
  ASSUME Ground, UNCHANGED <<save, disk, flushed, life, status, rows, crashes>>,
         rewrite' = rewrite \/ rewrite' = << >>,
         ioErrors' = ioErrors \/ ioErrors' # 0, ioErrors' \in Nat, crashes = 0 => up' = up
  PROVE  InOrder'
<1>1. crashes \in Nat /\ ioErrors \in Nat /\ Ordered /\ FilesAreWritten
  BY Types DEF Ground, InOrder
<1>2. Undisturbed' => Undisturbed
  <2>1. crashes' = crashes /\ crashes \in Nat /\ ioErrors \in Nat /\ ioErrors' \in Nat
        /\ (ioErrors' = ioErrors \/ ioErrors' # 0)
    BY <1>1
  <2>2. \A a, b \in Nat : a + b = 0 => b = 0
    OBVIOUS
  <2>3. QED
    BY <2>1, <2>2 DEF Undisturbed
<1>3. NothingYet' /\ LastIsFinal' /\ UnlinkedIsGone' /\ FlushedGrows'
  BY <1>1 DEF Ordered, NothingYet, LastIsFinal, UnlinkedIsGone, FlushedGrows, Begun
<1>4. LastSaveWins'
  BY <1>1 DEF Ordered, SavesLandInOrder, LastSaveWins
<1>5. SavedStaysSaved'
  BY <1>1, <1>2 DEF Ordered, SavesLandInOrder, SavedStaysSaved, Undisturbed
<1>6. FilesAreWritten'
  BY <1>1, <1>2 DEF FilesAreWritten, Writing
<1>7. QED
  BY <1>3, <1>4, <1>5, <1>6 DEF InOrder, Ordered, SavesLandInOrder

(***************************************************************************)
(* A step that leaves tasks and files alone and moves a job on.            *)
(***************************************************************************)
LEMMA JobMoves ==
  ASSUME Ground, UNCHANGED <<save, disk, flushed, rows, rewrite, up, crashes, ioErrors>>,
         \A j \in Jobs :
           \/ life'[j] = life[j] /\ status'[j] = status[j]
           \/ life[j] \in {"unborn", "working"} /\ life'[j] = "working"
           \/ life[j] = "working" /\ life'[j] = "draining" /\ status'[j] \in Terminal
  PROVE  InOrder'
<1>1. Ordered /\ FilesAreWritten /\ Phases
  BY DEF Ground, InOrder
<1>2. NothingYet'
  BY <1>1 DEF Ordered, NothingYet
<1>3. LastIsFinal'
  <2>1. \A j \in Jobs : Begun(j, FinalSave) => life[j] = "lastSave"
    BY <1>1, SaveNumbers, TasksInLife DEF Begun, Over
  <2>2. \A j \in Jobs : Begun(j, FinalSave)' <=> Begun(j, FinalSave)
    BY DEF Begun
  <2>3. QED
    BY <1>1, <2>1, <2>2 DEF Ordered, LastIsFinal
<1>4. UnlinkedIsGone' /\ FlushedGrows'
  BY <1>1 DEF Ordered, UnlinkedIsGone, FlushedGrows
<1>5. LastSaveWins'
  BY <1>1 DEF Ordered, SavesLandInOrder, LastSaveWins
<1>6. SavedStaysSaved' /\ FilesAreWritten'
  BY <1>1 DEF Ordered, SavesLandInOrder, SavedStaysSaved, FilesAreWritten, Writing, Undisturbed
<1>7. QED
  BY <1>2, <1>3, <1>4, <1>5, <1>6 DEF InOrder, Ordered, SavesLandInOrder

(***************************************************************************)
(* A task is created: for a row, or as the last save.                      *)
(***************************************************************************)
LEMMA AddRowOrder ==
  ASSUME Ground, NEW i \in Jobs, AddRow(i)
  PROVE  InOrder'
<1>1. Ordered /\ FilesAreWritten /\ Phases
  BY DEF Ground, InOrder
<1>2. PICK l \in Saves : l = rows[i] + 1 /\ l # FinalSave
  BY SaveNumbers, BoundsAssumption DEF AddRow, FinalSave, Ground, TypeOK
<1>3. /\ life[i] = "working" /\ rows' = [rows EXCEPT ![i] = @ + 1]
      /\ save' = [save EXCEPT ![i][l] = Blank("waiting")]
      /\ UNCHANGED <<life, status, disk, flushed, rewrite, up, crashes, ioErrors>>
  BY <1>2 DEF AddRow, SetSave, startup, budget
<1>4. /\ save'[i][l].pc = "waiting" /\ save[i][l].pc = "none"
      /\ \A j \in Jobs, k \in Saves : j # i \/ k # l => save'[j][k] = save[j][k]
  <2>1. save[i][l].pc = "none"
    BY <1>1, <1>2, <1>3, Types DEF Ordered, NothingYet, Ground
  <2>2. QED
    BY <1>3, <2>1, Types DEF Blank, Task, Ground
<1>5. rows'[i] = rows[i] + 1 /\ rows[i] \in Nat /\ \A j \in Jobs : j # i => rows'[j] = rows[j]
  BY <1>3, Types DEF Ground
<1>6. NothingYet'
  BY <1>1, <1>2, <1>3, <1>4, <1>5, SaveRange DEF Ordered, NothingYet
<1>7. LastIsFinal'
  BY <1>1, <1>2, <1>3, <1>4, SaveNumbers DEF Ordered, LastIsFinal, Begun
<1>8. UnlinkedIsGone'
  BY <1>1, <1>3, <1>4 DEF Ordered, UnlinkedIsGone
<1>9. FlushedGrows'
  BY <1>1, <1>3, <1>4, <1>5, Types DEF Ordered, FlushedGrows, Ground
<1>10. LastSaveWins'
  <2>1. \A j \in Jobs : save'[j][FinalSave] = save[j][FinalSave]
    BY <1>2, <1>4, SaveNumbers
  <2>2. QED
    BY <1>1, <1>3, <1>5, <2>1 DEF Ordered, SavesLandInOrder, LastSaveWins
<1>11. SavedStaysSaved'
  BY <1>1, <1>3, <1>4 DEF Ordered, SavesLandInOrder, SavedStaysSaved
<1>12. FilesAreWritten'
  BY <1>1, <1>3, <1>4 DEF FilesAreWritten, Writing, Undisturbed
<1>13. QED
  BY <1>6, <1>7, <1>8, <1>9, <1>10, <1>11, <1>12 DEF InOrder, Ordered, SavesLandInOrder

LEMMA DrainOrder ==
  ASSUME Ground, NEW i \in Jobs, DrainJob(i)
  PROVE  InOrder'
<1>1. Ordered /\ FilesAreWritten /\ Phases
  BY DEF Ground, InOrder
<1>2. /\ life[i] = "draining" /\ \A k \in Saves : Over(i, k)
      /\ UNCHANGED <<status, rows, disk, flushed, rewrite, up, crashes, ioErrors>>
  BY DEF DrainJob, startup, budget
<1>3. status[i] \in Terminal
  BY <1>1, <1>2 DEF Ordered, LastIsFinal
<1>4. CASE /\ life' = [life EXCEPT ![i] = "lastSave"]
           /\ save' = [save EXCEPT ![i][FinalSave] = Blank("waiting")]
  <2>1. /\ save'[i][FinalSave].pc = "waiting"
        /\ \A j \in Jobs, k \in Saves : j # i \/ k # FinalSave => save'[j][k] = save[j][k]
    BY <1>4, SaveNumbers, Types DEF Blank, Task, Ground
  <2>2. life'[i] = "lastSave" /\ \A j \in Jobs : j # i => life'[j] = life[j]
    BY <1>4, Types DEF Ground
  <2>3. \A k \in Saves : save[i][k].pc \notin {"serialised", "writing"}
    BY <1>2 DEF Over
  <2>4. NothingYet' /\ LastIsFinal'
    BY <1>1, <1>2, <1>3, <2>1, <2>2, SaveNumbers DEF Ordered, NothingYet, LastIsFinal, Begun
  <2>5. UnlinkedIsGone' /\ FlushedGrows'
    BY <1>1, <1>2, <2>1, <2>2 DEF Ordered, UnlinkedIsGone, FlushedGrows
  <2>6. LastSaveWins'
    BY <1>1, <1>2, <2>1, <2>2, SaveNumbers DEF Ordered, SavesLandInOrder, LastSaveWins
  <2>7. SavedStaysSaved' /\ FilesAreWritten'
    BY <1>1, <1>2, <2>1, <2>3 DEF Ordered, SavesLandInOrder, SavedStaysSaved, FilesAreWritten,
       Writing, Undisturbed
  <2>8. QED
    BY <2>4, <2>5, <2>6, <2>7 DEF InOrder, Ordered, SavesLandInOrder
<1>5. CASE life' = [life EXCEPT ![i] = "done"] /\ UNCHANGED save /\ rows[i] = 0
  <2>1. life'[i] = "done" /\ \A j \in Jobs : j # i => life'[j] = life[j]
    BY <1>5, Types DEF Ground
  <2>2. disk[i] = Absent
    BY <1>1, <1>2, <1>5 DEF Ordered, NothingYet
  <2>3. NothingYet' /\ LastIsFinal'
    BY <1>1, <1>2, <1>3, <1>5, <2>1 DEF Ordered, NothingYet, LastIsFinal, Begun
  <2>4. UnlinkedIsGone' /\ FlushedGrows'
    BY <1>1, <1>2, <1>5 DEF Ordered, UnlinkedIsGone, FlushedGrows
  <2>5. LastSaveWins'
    BY <1>1, <1>2, <1>5, <2>1, <2>2 DEF Ordered, SavesLandInOrder, LastSaveWins
  <2>6. SavedStaysSaved' /\ FilesAreWritten'
    BY <1>1, <1>2, <1>5 DEF Ordered, SavesLandInOrder, SavedStaysSaved, FilesAreWritten,
       Writing, Undisturbed
  <2>7. QED
    BY <2>3, <2>4, <2>5, <2>6 DEF InOrder, Ordered, SavesLandInOrder
<1>6. QED
  BY <1>4, <1>5, Types DEF DrainJob, SetSave, Ground

(***************************************************************************)
(* A task goes on without touching the file: the rows it serialises are    *)
(* all there are.                                                          *)
(***************************************************************************)
LEMMA TaskMoves ==
  ASSUME Ground, NEW i \in Jobs, NEW l \in Saves, BeginSave(i, l) \/ PassGate(i, l)
  PROVE  InOrder'
<1>1. Ordered /\ FilesAreWritten /\ Phases
  BY DEF Ground, InOrder
<1>2. /\ UNCHANGED <<life, status, rows, disk, flushed, rewrite, up, crashes, ioErrors>>
      /\ save[i][l].pc \in {"waiting", "gate"} /\ ~Over(i, l)
  BY DEF BeginSave, PassGate, HasTurn, memory, budget, startup, Over
<1>3. \A j \in Jobs, k \in Saves : j # i \/ k # l => save'[j][k] = save[j][k]
  <2>1. CASE BeginSave(i, l)
    <3>1. \E t : save' = [save EXCEPT ![i][l] = t]
      BY <2>1 DEF BeginSave, SetSave
    <3>2. QED
      BY <3>1, Types DEF Ground
  <2>2. CASE PassGate(i, l)
    BY <2>2, Types DEF PassGate, Ground
  <2>3. QED
    BY <2>1, <2>2
<1>4. /\ save'[i][l].pc \in {"gate", "serialised"}
      /\ save'[i][l].pc = "serialised" => save'[i][l].rows = rows[i]
      /\ save'[i][l].status = status[i] \/ (Begun(i, l) /\ save'[i][l].status = save[i][l].status)
  <2>1. CASE BeginSave(i, l)
    <3> DEFINE now == Task("serialised", status[i], rows[i], rows[i], FALSE)
               soon == Task("gate", status[i], rows[i], 0, FALSE)
    <3>1. save' = [save EXCEPT ![i][l] = now] \/ save' = [save EXCEPT ![i][l] = soon]
      BY <2>1 DEF BeginSave, SetSave
    <3>2. /\ now.pc = "serialised" /\ now.rows = rows[i] /\ now.status = status[i]
          /\ soon.pc = "gate" /\ soon.status = status[i]
      BY DEF Task
    <3> HIDE DEF now, soon
    <3>3. save'[i][l] = now \/ save'[i][l] = soon
      BY <3>1, Types DEF Ground
    <3>4. QED
      BY <3>2, <3>3
  <2>2. CASE PassGate(i, l)
    <3> DEFINE t == [save[i][l] EXCEPT !.pc = "serialised", !.rows = rows[i]]
    <3>1. save[i][l] \in TaskType /\ save[i][l].pc = "gate" /\ save' = [save EXCEPT ![i][l] = t]
      <4>1. save[i][l].pc = "gate" /\ save' = [save EXCEPT ![i][l] = t]
        BY <2>2 DEF PassGate
      <4>2. save[i][l] \in TaskType
        BY Types DEF Ground
      <4>3. QED
        BY <4>1, <4>2
    <3>2. t.pc = "serialised" /\ t.rows = rows[i] /\ t.status = save[i][l].status
      BY <3>1 DEF TaskType
    <3> HIDE DEF t
    <3>3. save'[i][l] = t
      BY <3>1, Types DEF Ground
    <3>4. QED
      BY <3>1, <3>2, <3>3 DEF Begun
  <2>3. QED
    BY <2>1, <2>2
<1>5. NothingYet'
  BY <1>1, <1>2, <1>3 DEF Ordered, NothingYet
<1>6. LastIsFinal'
  <2>1. ASSUME NEW j \in Jobs, Begun(j, FinalSave)'
        PROVE  save'[j][FinalSave].status = status[j]
    <3>1. CASE j = i /\ l = FinalSave
      BY <1>1, <1>4, <3>1 DEF Ordered, LastIsFinal
    <3>2. CASE j # i \/ l # FinalSave
      BY <1>1, <1>3, <2>1, <3>2, SaveNumbers DEF Ordered, LastIsFinal, Begun
    <3>3. QED
      BY <3>1, <3>2
  <2>2. QED
    BY <1>1, <1>2, <2>1 DEF Ordered, LastIsFinal
<1>7. UnlinkedIsGone'
  BY <1>1, <1>2, <1>3, <1>4 DEF Ordered, UnlinkedIsGone
<1>8. FlushedGrows'
  BY <1>1, <1>2, <1>3, <1>4 DEF Ordered, FlushedGrows
<1>9. LastSaveWins'
  <2>1. life[i] # "done"
    BY <1>1, <1>2, TasksInLife
  <2>2. QED
    BY <1>1, <1>2, <1>3, <2>1, SaveNumbers DEF Ordered, SavesLandInOrder, LastSaveWins
<1>10. \A j \in Jobs, k \in Saves : save'[j][k].pc = "writing" <=> save[j][k].pc = "writing"
  BY <1>2, <1>3, <1>4
<1>11. SavedStaysSaved' /\ FilesAreWritten'
  BY <1>1, <1>2, <1>10 DEF Ordered, SavesLandInOrder, SavedStaysSaved, FilesAreWritten,
     Writing, Undisturbed
<1>12. QED
  BY <1>5, <1>6, <1>7, <1>8, <1>9, <1>11 DEF InOrder, Ordered, SavesLandInOrder

(***************************************************************************)
(* The file is truncated: from now on it is torn, and being written.       *)
(***************************************************************************)
LEMMA OpenOrder ==
  ASSUME Ground, NEW i \in Jobs, NEW l \in Saves, OpenFile(i, l)
  PROVE  InOrder'
<1> DEFINE t == [save[i][l] EXCEPT !.pc = "writing", !.linked = TRUE]
<1>1. Ordered /\ FilesAreWritten /\ Phases /\ OneSaveAtATime
  BY DEF Ground, InOrder
<1>2. /\ UNCHANGED <<life, status, rows, flushed, rewrite, up, crashes, ioErrors>>
      /\ save[i][l].pc = "serialised" /\ ~Over(i, l) /\ Begun(i, l)
      /\ save' = [save EXCEPT ![i][l] = t]
      /\ disk' = [disk EXCEPT ![i] = Torn]
  BY DEF OpenFile, memory, budget, startup, Over, Begun
<1>3. /\ t.pc = "writing" /\ t.linked = TRUE /\ t.rows = save[i][l].rows
      /\ t.status = save[i][l].status
  <2>1. save[i][l] \in TaskType
    BY Types DEF Ground
  <2>2. QED
    BY <2>1 DEF TaskType
<1> HIDE DEF t
<1>4. /\ save'[i][l] = t
      /\ \A j \in Jobs, k \in Saves : j # i \/ k # l => save'[j][k] = save[j][k]
  BY <1>2, Types DEF Ground
<1>5. disk'[i].kind = "torn" /\ \A j \in Jobs : j # i => disk'[j] = disk[j]
  BY <1>2, Types DEF Ground, Torn, NoRecord
<1>6. \A k \in Saves : k # l => ~Begun(i, k)
  BY <1>1, <1>2 DEF OneSaveAtATime
<1>7. life[i] \in {"working", "draining", "lastSave"}
  BY <1>1, <1>2, TasksInLife
<1>8. NothingYet'
  <2>1. life[i] \in {"working", "draining"} => rows[i] # 0
    BY <1>1, <1>2, SaveRange DEF Ordered, NothingYet
  <2>2. QED
    BY <1>1, <1>2, <1>3, <1>4, <1>5, <1>7, <2>1 DEF Ordered, NothingYet
<1>9. LastIsFinal'
  BY <1>1, <1>2, <1>3, <1>4, SaveNumbers DEF Ordered, LastIsFinal, Begun
<1>10. UnlinkedIsGone'
  BY <1>1, <1>2, <1>3, <1>4, <1>5, <1>6 DEF Ordered, UnlinkedIsGone, Begun
<1>11. FlushedGrows'
  BY <1>1, <1>2, <1>3, <1>4 DEF Ordered, FlushedGrows
<1>12. LastSaveWins'
  BY <1>1, <1>2, <1>4, <1>5, <1>7, SaveNumbers DEF Ordered, SavesLandInOrder, LastSaveWins
<1>13. Writing(i)' /\ \A j \in Jobs : j # i => (Writing(j)' <=> Writing(j))
  BY <1>3, <1>4 DEF Writing
<1>14. SavedStaysSaved'
  BY <1>1, <1>2, <1>5, <1>13 DEF Ordered, SavesLandInOrder, SavedStaysSaved, Writing
<1>15. FilesAreWritten'
  BY <1>1, <1>2, <1>5, <1>13 DEF FilesAreWritten, Undisturbed
<1>16. QED
  BY <1>8, <1>9, <1>10, <1>11, <1>12, <1>14, <1>15 DEF InOrder, Ordered, SavesLandInOrder

(***************************************************************************)
(* The file is whole, or gone if it was deleted meanwhile.  The last save  *)
(* leaves the finished record: the job is settled, so status, count and    *)
(* rows are those of its end.                                              *)
(***************************************************************************)
LEMMA CloseOrder ==
  ASSUME Ground, NEW i \in Jobs, NEW l \in Saves, CloseFile(i, l)
  PROVE  InOrder'
<1> DEFINE t == save[i][l]
           d == Record(t.status, t.completed, t.rows)
           most == IF flushed[i] > t.rows THEN flushed[i] ELSE t.rows
<1>1. Ordered /\ FilesAreWritten /\ Phases /\ OneSaveAtATime /\ Honest
  BY DEF Ground, InOrder
<1>2. /\ UNCHANGED <<status, rows, rewrite, up, crashes, ioErrors>>
      /\ t.pc = "writing" /\ ~Over(i, l) /\ Begun(i, l)
      /\ save' = [save EXCEPT ![i][l] = Blank("saved")]
      /\ life' = IF l = FinalSave THEN [life EXCEPT ![i] = "done"] ELSE life
      /\ t.linked => /\ disk' = [disk EXCEPT ![i] = d]
                     /\ flushed' = [flushed EXCEPT ![i] = most]
      /\ ~t.linked => UNCHANGED <<disk, flushed>>
  BY DEF CloseFile, EndSave, SetSave, budget, startup, Over, Begun
<1>3. /\ save'[i][l].pc = "saved"
      /\ \A j \in Jobs, k \in Saves : j # i \/ k # l => save'[j][k] = save[j][k]
  BY <1>2, Types DEF Ground, Blank, Task
<1>4. /\ t \in TaskType /\ t.rows \in Nat /\ rows[i] \in Nat /\ flushed[i] \in Nat
      /\ t.completed \in Nat
  <2>1. t \in TaskType
    BY Types DEF Ground
  <2>2. QED
    BY <2>1, Types, BoundsAssumption DEF Ground, TaskType
<1>5. /\ d.kind = "whole" /\ d.rows = t.rows
      /\ \A j \in Jobs : j # i => disk'[j] = disk[j] /\ flushed'[j] = flushed[j]
      /\ t.linked => disk'[i] = d /\ flushed'[i] = most
      /\ ~t.linked => disk'[i] = disk[i] /\ flushed'[i] = flushed[i]
  BY <1>2, Types DEF Ground, Record
<1>6. /\ \A k \in Saves : k # l => ~Begun(i, k)
      /\ \A k \in Saves : save'[i][k].pc \notin {"gate", "serialised", "writing"}
  BY <1>1, <1>2, <1>3 DEF OneSaveAtATime, Begun
<1>7. /\ l = FinalSave => life[i] = "lastSave" /\ life'[i] = "done"
      /\ l # FinalSave => life[i] \in {"working", "draining"} /\ life'[i] = life[i]
      /\ \A j \in Jobs : j # i => life'[j] = life[j]
  BY <1>1, <1>2, Types, TasksInLife DEF Ground
<1>8. t.rows <= rows[i] /\ flushed[i] <= t.rows /\ most = t.rows
  <2>1. Whole(i, t.completed, t.rows)
    BY <1>1, <1>2 DEF Honest, HonestTask
  <2>2. flushed[i] <= t.rows
    BY <1>1, <1>2 DEF Ordered, FlushedGrows
  <2>3. QED
    BY <1>4, <2>1, <2>2 DEF Whole
<1>9. l = FinalSave => d = Record(status[i], rows[i], rows[i])
  <2> SUFFICES ASSUME l = FinalSave PROVE d = Record(status[i], rows[i], rows[i])
    OBVIOUS
  <2>1. t.status = status[i] /\ status[i] \in Terminal
    BY <1>1, <1>2, <1>7 DEF Ordered, LastIsFinal
  <2>2. Holds(i, t.status, t.completed) /\ Whole(i, t.completed, t.rows)
    BY <1>1, <1>2 DEF Honest, HonestTask
  <2>3. t.completed = rows[i] /\ t.rows = rows[i]
    BY <1>4, <2>1, <2>2 DEF Holds, Whole
  <2>4. QED
    BY <2>1, <2>3
<1>10. ~t.linked => disk[i] = Absent /\ flushed[i] = 0
  BY <1>1, <1>2 DEF Ordered, UnlinkedIsGone
<1>11. Absent.kind = "absent"
  BY DEF Absent, NoRecord
<1> HIDE DEF t, d, most
<1>12. NothingYet'
  <2>1. l # FinalSave => rows[i] # 0 /\ l <= rows[i]
    BY <1>1, <1>2, <1>7, SaveRange DEF Ordered, NothingYet, Over
  <2>2. QED
    BY <1>1, <1>2, <1>3, <1>5, <1>7, <2>1 DEF Ordered, NothingYet
<1>13. LastIsFinal'
  BY <1>1, <1>2, <1>3, <1>6, <1>7, SaveNumbers DEF Ordered, LastIsFinal, Begun
<1>14. UnlinkedIsGone'
  BY <1>1, <1>3, <1>5, <1>6 DEF Ordered, UnlinkedIsGone
<1>15. FlushedGrows'
  <2>1. flushed'[i] <= rows'[i]
    BY <1>1, <1>2, <1>4, <1>5, <1>8 DEF Ordered, FlushedGrows
  <2>2. QED
    BY <1>1, <1>2, <1>3, <1>5, <1>6, <2>1 DEF Ordered, FlushedGrows
<1>16. LastSaveWins'
  <2>1. life'[i] = "done" => l = FinalSave
    BY <1>7
  <2>2. ASSUME NEW j \in Jobs, j # i PROVE save'[j][FinalSave] = save[j][FinalSave]
    BY <1>3, <2>2, SaveNumbers
  <2>3. QED
    BY <1>1, <1>2, <1>5, <1>7, <1>9, <1>10, <2>1, <2>2
       DEF Ordered, SavesLandInOrder, LastSaveWins
<1>17. \A j \in Jobs : j # i => (Writing(j)' <=> Writing(j))
  BY <1>3 DEF Writing
<1>18. SavedStaysSaved'
  <2>1. flushed'[i] > 0 => disk'[i].kind = "whole" /\ disk'[i].rows >= flushed'[i]
    BY <1>4, <1>5, <1>8, <1>10
  <2>2. QED
    BY <1>1, <1>2, <1>3, <1>5, <2>1 DEF Ordered, SavesLandInOrder, SavedStaysSaved
<1>19. FilesAreWritten'
  <2>1. disk'[i].kind = "absent" => disk'[i] = Absent
    BY <1>5, <1>10
  <2>2. disk'[i].kind # "torn"
    BY <1>5, <1>10, <1>11
  <2>3. QED
    BY <1>1, <1>2, <1>5, <1>17, <2>1, <2>2 DEF FilesAreWritten, Undisturbed
<1>20. QED
  BY <1>12, <1>13, <1>14, <1>15, <1>16, <1>18, <1>19 DEF InOrder, Ordered, SavesLandInOrder

LEMMA FailOrder ==
  ASSUME Ground, NEW i \in Jobs, NEW l \in Saves, SaveFails(i, l)
  PROVE  InOrder'
<1>1. Ordered /\ FilesAreWritten /\ Phases
  BY DEF Ground, InOrder
<1>2. /\ UNCHANGED <<status, rows, disk, flushed, rewrite, up, crashes>>
      /\ ioErrors' = ioErrors + 1 /\ ~Over(i, l) /\ save[i][l].pc # "none"
      /\ save' = [save EXCEPT ![i][l] = Blank("failed")]
      /\ life' = IF l = FinalSave THEN [life EXCEPT ![i] = "done"] ELSE life
  BY DEF SaveFails, EndSave, SetSave, startup, Over
<1>3. /\ save'[i][l].pc = "failed"
      /\ \A j \in Jobs, k \in Saves : j # i \/ k # l => save'[j][k] = save[j][k]
  BY <1>2, Types DEF Ground, Blank, Task
<1>4. ~Undisturbed'
  <2>1. crashes \in Nat /\ ioErrors \in Nat /\ crashes' = crashes /\ ioErrors' = ioErrors + 1
    BY <1>2, Types DEF Ground
  <2>2. \A a, b \in Nat : a + (b + 1) # 0
    OBVIOUS
  <2>3. QED
    BY <2>1, <2>2 DEF Undisturbed
<1>5. /\ l = FinalSave => life[i] = "lastSave" /\ life'[i] = "done"
      /\ l # FinalSave => life[i] \in {"working", "draining"} /\ life'[i] = life[i]
      /\ \A j \in Jobs : j # i => life'[j] = life[j]
  BY <1>1, <1>2, Types, TasksInLife DEF Ground
<1>6. NothingYet'
  BY <1>1, <1>2, <1>3, <1>5 DEF Ordered, NothingYet
<1>7. LastIsFinal'
  BY <1>1, <1>2, <1>3, <1>5, SaveNumbers DEF Ordered, LastIsFinal, Begun
<1>8. UnlinkedIsGone' /\ FlushedGrows'
  BY <1>1, <1>2, <1>3 DEF Ordered, UnlinkedIsGone, FlushedGrows
<1>9. LastSaveWins'
  <2>1. life'[i] = "done" => save'[i][FinalSave].pc = "failed"
    BY <1>3, <1>5
  <2>2. ASSUME NEW j \in Jobs, j # i PROVE save'[j][FinalSave] = save[j][FinalSave]
    BY <1>3, <2>2, SaveNumbers
  <2>3. QED
    BY <1>1, <1>2, <1>5, <2>1, <2>2 DEF Ordered, SavesLandInOrder, LastSaveWins
<1>10. SavedStaysSaved' /\ FilesAreWritten'
  BY <1>1, <1>2, <1>4 DEF SavedStaysSaved, FilesAreWritten, Undisturbed
<1>11. QED
  BY <1>6, <1>7, <1>8, <1>9, <1>10 DEF InOrder, Ordered, SavesLandInOrder

(***************************************************************************)
(* Files are deleted: what was flushed is forgotten with them.             *)
(***************************************************************************)
LEMMA UnlinkOrder ==
  ASSUME Ground, NEW S, Unlink(S),
         UNCHANGED <<life, status, rows, rewrite, up, crashes, ioErrors>>
  PROVE  InOrder'
<1>1. Ordered /\ FilesAreWritten
  BY DEF Ground, InOrder
<1>2. \A j \in Jobs, k \in Saves :
        /\ save'[j][k].pc = save[j][k].pc /\ save'[j][k].status = save[j][k].status
        /\ save'[j][k].rows = save[j][k].rows
        /\ j \notin S => save'[j][k].linked = save[j][k].linked
  <2>1. ASSUME NEW t \in TaskType
        PROVE  LET u == [t EXCEPT !.linked = FALSE] IN
               u.pc = t.pc /\ u.status = t.status /\ u.rows = t.rows
    BY DEF TaskType
  <2>2. \A j \in Jobs, k \in Saves : save[j][k] \in TaskType
    BY Types DEF Ground
  <2>3. ASSUME NEW j \in Jobs, NEW k \in Saves
        PROVE  save'[j][k] = IF j \in S THEN [save[j][k] EXCEPT !.linked = FALSE] ELSE save[j][k]
    BY DEF Unlink
  <2>4. QED
    BY <2>1, <2>2, <2>3
<1>3. \A j \in Jobs : \/ j \in S /\ disk'[j] = Absent /\ flushed'[j] = 0
                      \/ j \notin S /\ disk'[j] = disk[j] /\ flushed'[j] = flushed[j]
  BY DEF Unlink
<1>4. Absent.kind = "absent"
  BY DEF Absent, NoRecord
<1>5. NothingYet'
  BY <1>1, <1>2, <1>3 DEF Ordered, NothingYet
<1>6. LastIsFinal'
  BY <1>1, <1>2, SaveNumbers DEF Ordered, LastIsFinal, Begun
<1>7. UnlinkedIsGone'
  BY <1>1, <1>2, <1>3 DEF Ordered, UnlinkedIsGone
<1>8. FlushedGrows'
  <2>1. \A j \in Jobs : rows[j] \in Nat /\ \A k \in Saves : save[j][k].rows \in Nat
    BY Types, BoundsAssumption DEF Ground, TaskType
  <2>2. \A n \in Nat : 0 <= n
    OBVIOUS
  <2>3. QED
    BY <1>1, <1>2, <1>3, <2>1, <2>2 DEF Ordered, FlushedGrows
<1>9. LastSaveWins'
  BY <1>1, <1>2, <1>3, SaveNumbers DEF Ordered, SavesLandInOrder, LastSaveWins
<1>10. SavedStaysSaved'
  BY <1>1, <1>2, <1>3 DEF Ordered, SavesLandInOrder, SavedStaysSaved
<1>11. FilesAreWritten'
  BY <1>1, <1>2, <1>3, <1>4 DEF FilesAreWritten, Writing, Undisturbed
<1>12. QED
  BY <1>5, <1>6, <1>7, <1>8, <1>9, <1>10, <1>11 DEF InOrder, Ordered, SavesLandInOrder

(***************************************************************************)
(* After a crash there are neither tasks nor jobs left, and it counts.     *)
(***************************************************************************)
LEMMA CrashOrder ==
  ASSUME Ground, Crash
  PROVE  InOrder'
<1>1. Ordered /\ FilesAreWritten
  BY DEF Ground, InOrder
<1>2. /\ UNCHANGED <<status, rows, disk, flushed, ioErrors>>
      /\ rewrite' = << >> /\ crashes' = crashes + 1
      /\ \A j \in Jobs, k \in Saves : save'[j][k].pc = "none"
      /\ \A j \in Jobs : \/ life'[j] = "unborn" /\ life[j] = "unborn"
                         \/ life'[j] = "lost"
  BY Types DEF Ground, Crash, InMemory, Blank, Task
<1>3. ~Undisturbed' /\ crashes' # 0
  <2>1. crashes \in Nat /\ ioErrors \in Nat /\ ioErrors' = ioErrors /\ crashes' = crashes + 1
    BY <1>2, Types DEF Ground
  <2>2. \A a, b \in Nat : (a + 1) + b # 0 /\ a + 1 # 0
    OBVIOUS
  <2>3. QED
    BY <2>1, <2>2 DEF Undisturbed
<1>4. NothingYet' /\ LastIsFinal' /\ UnlinkedIsGone' /\ FlushedGrows'
  BY <1>1, <1>2, SaveNumbers DEF Ordered, NothingYet, LastIsFinal, UnlinkedIsGone, FlushedGrows,
     Begun
<1>5. LastSaveWins' /\ SavedStaysSaved' /\ FilesAreWritten'
  BY <1>1, <1>2, <1>3 DEF LastSaveWins, SavedStaysSaved, FilesAreWritten, Undisturbed
<1>6. QED
  BY <1>4, <1>5 DEF InOrder, Ordered, SavesLandInOrder

(***************************************************************************)
(* Reconciliation rewrites files of jobs that once began, while no job is  *)
(* in memory.                                                              *)
(***************************************************************************)
LEMMA RewriteOrder ==
  ASSUME Ground, NEW i \in Jobs, disk[i] # Absent, up = "reconciling",
         UNCHANGED <<save, life, status, rows, flushed, up, crashes, ioErrors>>,
         \A j \in Jobs : j # i => disk'[j] = disk[j],
         disk'[i].kind \in {"torn", "whole"},
         rewrite' # << >> => rewrite'[2].kind = "whole"
  PROVE  InOrder'
<1>1. Ordered /\ FilesAreWritten /\ Phases
  BY DEF Ground, InOrder
<1>2. \A j \in Jobs : life[j] \in {"unborn", "lost"}
  BY <1>1, Types DEF Ground, Phases, QuietWhenDown, InMemory
<1>3. \A j \in Jobs, k \in Saves : Over(j, k)
  BY <1>1, TasksInLife
<1>4. ~Undisturbed' /\ crashes # 0
  <2>1. crashes # 0 /\ crashes \in Nat /\ ioErrors \in Nat
    BY <1>1, Types DEF FilesAreWritten, Ground
  <2>2. \A a, b \in Nat : a # 0 => a + b # 0
    OBVIOUS
  <2>3. QED
    BY <2>1, <2>2 DEF Undisturbed
<1>5. NothingYet'
  BY <1>1, <1>2 DEF Ordered, NothingYet
<1>6. LastIsFinal'
  BY <1>2, <1>3, SaveNumbers DEF LastIsFinal, Begun, Over
<1>7. UnlinkedIsGone' /\ FlushedGrows'
  BY <1>1, <1>3 DEF Ordered, UnlinkedIsGone, FlushedGrows, Over
<1>8. LastSaveWins' /\ SavedStaysSaved'
  BY <1>2, <1>4 DEF LastSaveWins, SavedStaysSaved, Undisturbed
<1>9. FilesAreWritten'
  BY <1>1, <1>4 DEF FilesAreWritten
<1>10. QED
  BY <1>5, <1>6, <1>7, <1>8, <1>9 DEF InOrder, Ordered, SavesLandInOrder

-----------------------------------------------------------------------------
LEMMA InOrderNext ==
  ASSUME Ground, TypeOK', [Next]_vars
  PROVE  InOrder'
<1>1. /\ disk \in [Jobs -> RecordType] /\ crashes \in Nat /\ ioErrors \in Nat
      /\ life \in [Jobs -> {"unborn", "working", "draining", "lastSave", "done", "lost"}]
      /\ status \in [Jobs -> Statuses]
      /\ rewrite = << >> \/ rewrite \in Jobs \X RecordType
      /\ ioErrors' \in Nat
  BY Types, BoundsAssumption DEF Ground, TypeOK
<1>2. Phases /\ FilesAreWritten
  BY DEF Ground, InOrder
<1>3. ASSUME NEW i \in Jobs, StartJob(i) \/ StopJob(i)
      PROVE  InOrder'
  <2>1. /\ UNCHANGED <<save, disk, flushed, rows, rewrite, up, crashes, ioErrors>>
        /\ life[i] \in {"unborn", "working"} /\ life'[i] = "working"
        /\ \A j \in Jobs : j # i => life'[j] = life[j] /\ status'[j] = status[j]
    BY <1>1, <1>3 DEF StartJob, StopJob, startup, budget
  <2>2. QED
    BY <2>1, JobMoves
<1>4. ASSUME NEW i \in Jobs, NEW s \in Terminal, SettleJob(i, s)
      PROVE  InOrder'
  <2>1. /\ UNCHANGED <<save, disk, flushed, rows, rewrite, up, crashes, ioErrors>>
        /\ life[i] = "working" /\ life'[i] = "draining" /\ status'[i] \in Terminal
        /\ \A j \in Jobs : j # i => life'[j] = life[j] /\ status'[j] = status[j]
    BY <1>1, <1>4 DEF SettleJob, startup, budget
  <2>2. QED
    BY <2>1, JobMoves
<1>5. ASSUME NEW S, RequestClear(S)
      PROVE  InOrder'
  <2>1. UNCHANGED <<life, status, rows, rewrite, up, crashes, ioErrors>>
    BY <1>5 DEF RequestClear, memory, startup, budget
  <2>2. CASE Unlink(S)
    BY <2>1, <2>2, UnlinkOrder
  <2>3. CASE UNCHANGED <<disk, flushed, save>>
    BY <1>1, <2>1, <2>3, QuietOrder
  <2>4. QED
    BY <1>5, <2>2, <2>3 DEF RequestClear
<1>6. CASE EnterClear
  BY <1>6, UnlinkOrder DEF EnterClear, memory, startup, budget
<1>7. ASSUME NEW i \in Jobs, BeginRewrite(i)
      PROVE  InOrder'
  <2> DEFINE d == [disk[i] EXCEPT !.status = "interrupted"]
  <2>1. /\ UNCHANGED <<save, life, status, rows, flushed, up, crashes, ioErrors>>
        /\ i \in toCheck /\ disk[i].kind = "whole"
        /\ rewrite' = <<i, d>> /\ disk' = [disk EXCEPT ![i] = Torn]
    BY <1>7 DEF BeginRewrite, memory, budget, Stale
  <2>2. up = "reconciling"
    BY <1>2, <2>1 DEF Phases, RewritesAtStartup
  <2>3. disk[i] # Absent /\ d.kind = "whole"
    BY <1>1, <2>1 DEF Absent, NoRecord, RecordType
  <2>4. /\ disk'[i].kind = "torn" /\ \A j \in Jobs : j # i => disk'[j] = disk[j]
        /\ rewrite'[2].kind = "whole"
    BY <1>1, <2>1, <2>3 DEF Torn, NoRecord
  <2>5. QED
    BY <2>1, <2>2, <2>3, <2>4, RewriteOrder
<1>8. CASE EndRewrite
  <2>1. /\ UNCHANGED <<save, life, status, rows, flushed, up, crashes, ioErrors>>
        /\ rewrite # << >> /\ rewrite' = << >>
        /\ disk' = [disk EXCEPT ![rewrite[1]] = rewrite[2]]
    BY <1>8 DEF EndRewrite, memory, budget
  <2>2. rewrite[1] \in Jobs /\ up = "reconciling" /\ disk[rewrite[1]] # Absent
    BY <1>1, <1>2, <2>1 DEF Phases, RewritesAtStartup
  <2>3. /\ disk'[rewrite[1]].kind = "whole"
        /\ \A j \in Jobs : j # rewrite[1] => disk'[j] = disk[j]
    BY <1>1, <1>2, <2>1, <2>2 DEF FilesAreWritten
  <2>4. QED
    BY <2>1, <2>2, <2>3, RewriteOrder
<1>9. CASE RewriteFails
  <2>1. /\ UNCHANGED <<save, disk, flushed, life, status, rows, crashes, up>>
        /\ ioErrors' = ioErrors + 1 /\ (rewrite' = rewrite \/ rewrite' = << >>)
    BY <1>9 DEF RewriteFails, memory
  <2>2. ioErrors' # 0
    BY <1>1, <2>1
  <2>3. QED
    BY <1>1, <2>1, <2>2, QuietOrder
<1>10. ASSUME \/ \E r \in Readers :
                   \/ RequestList(r) \/ EnterList(r) \/ EndList(r)
                   \/ \E i \in Jobs : ReadFile(r, i)
              \/ \E i \in Jobs : SkipFile(i)
              \/ Restart \/ Serve \/ UNCHANGED vars
       PROVE  InOrder'
  <2>1. UNCHANGED <<save, disk, flushed, life, status, rows, crashes, ioErrors, rewrite>>
    BY <1>10 DEF RequestList, EnterList, EndList, ReadFile, SkipFile, Restart, Serve, vars,
       memory, startup, budget
  <2>2. crashes = 0 => up' = up
    BY <1>2, <1>10 DEF RequestList, EnterList, EndList, ReadFile, SkipFile, Restart, Serve, vars,
       FilesAreWritten
  <2>3. QED
    BY <1>1, <2>1, <2>2, QuietOrder
<1>11. QED
  BY <1>3, <1>4, <1>5, <1>6, <1>7, <1>8, <1>9, <1>10, AddRowOrder, DrainOrder, TaskMoves,
     OpenOrder, CloseOrder, FailOrder, CrashOrder, NextCases

LEMMA AlwaysInOrder == Spec => [](InOrder /\ Reading)
<1>1. Init => InOrder /\ Reading
  BY InOrderInit, ReadingInit
<1>2. /\ TypeOK /\ TypeOK' /\ Honest /\ Phases /\ OneSaveAtATime /\ InOrder /\ Reading
      /\ [Next]_vars
      => (InOrder /\ Reading)'
  BY InOrderNext, ReadingNext DEF Ground, InOrder
<1>3. QED
  BY <1>1, <1>2, TypeCorrect, HonestAlways, PhasesAlways, SavesExclusive, PTL DEF Spec

(***************************************************************************)
(* SavesLandInOrder: when run_job is over and its last save did not fail,  *)
(* the file, if it was not deleted, is the finished record; and what a     *)
(* finished save has put on disk is there as long as nothing crashes,      *)
(* fails or deletes it.                                                    *)
(***************************************************************************)
THEOREM SavesOrdered == Spec => []SavesLandInOrder
<1>1. InOrder => SavesLandInOrder
  BY DEF InOrder, Ordered
<1>2. QED
  BY <1>1, AlwaysInOrder, PTL

(***************************************************************************)
(* ListsWhatIsThere: a list that leaves out a file it has found met a save *)
(* of that job in the middle of the write; the lock keeps deletions out.   *)
(***************************************************************************)
LEMMA ListStepFinds ==
  ASSUME TypeOK, Phases, InOrder, Reading, [Next]_vars,
         NEW r \in Readers, NEW j \in reader[r].todo \ reader'[r].todo
  PROVE  \/ j \in reader'[r].items
         \/ life[j] # "done" /\ \E k \in Saves : save[j][k].pc = "writing"
         \/ crashes' + ioErrors > 0
<1>1. /\ reader \in [Readers -> ReaderType] /\ disk \in [Jobs -> RecordType]
      /\ crashes \in Nat /\ ioErrors \in Nat
  BY Types DEF TypeOK
<1>2. j \in Jobs /\ reader[r].pc = "reading" /\ disk[j].kind # "absent"
  BY <1>1 DEF Reading, ReadersSeeFiles, ReaderType
<1>3. ASSUME NEW i \in Jobs, ReadFile(r, i)
      PROVE  \/ j \in reader'[r].items
             \/ life[j] # "done" /\ \E k \in Saves : save[j][k].pc = "writing"
             \/ crashes' + ioErrors > 0
  <2>1. /\ crashes' = crashes /\ j = i
        /\ disk[i].kind = "whole" => i \in reader'[r].items
    BY <1>1, <1>3 DEF ReadFile, budget, ReaderType
  <2>2. CASE disk[j].kind = "whole"
    BY <2>1, <2>2
  <2>3. CASE disk[j].kind = "torn" /\ Undisturbed
    <3>1. PICK k \in Saves : save[j][k].pc = "writing"
      BY <1>2, <2>3 DEF InOrder, FilesAreWritten, Writing
    <3>2. life[j] # "done"
      BY <1>2, <3>1, TasksInLife DEF Over
    <3>3. QED
      BY <3>1, <3>2
  <2>4. CASE ~Undisturbed
    BY <1>1, <2>1, <2>4 DEF Undisturbed
  <2>5. QED
    BY <1>1, <1>2, <2>2, <2>3, <2>4 DEF RecordType
<1>4. CASE Crash
  BY <1>1, <1>4 DEF Crash
<1>5. ASSUME NEW s \in Readers, RequestList(s) \/ EnterList(s) \/ EndList(s)
      PROVE  FALSE
  <2>1. s = r => reader[r].todo = {}
    BY <1>2, <1>5 DEF RequestList, EnterList, EndList
  <2>2. s # r => reader'[r] = reader[r]
    BY <1>1, <1>5 DEF RequestList, EnterList, EndList, Listing
  <2>3. QED
    BY <2>1, <2>2
<1>6. ASSUME NEW s \in Readers, NEW i \in Jobs, ReadFile(s, i), s # r
      PROVE  FALSE
  BY <1>1, <1>6 DEF ReadFile
<1>7. ASSUME UNCHANGED reader PROVE FALSE
  BY <1>7
<1>8. ASSUME \/ \E i \in Jobs : \/ StartJob(i) \/ StopJob(i) \/ AddRow(i) \/ DrainJob(i)
                                \/ SkipFile(i) \/ BeginRewrite(i)
                                \/ \E s \in Terminal : SettleJob(i, s)
             \/ \E i \in Jobs, l \in Saves : \/ BeginSave(i, l) \/ PassGate(i, l) \/ OpenFile(i, l)
                                             \/ CloseFile(i, l) \/ SaveFails(i, l)
             \/ \E S \in SUBSET Jobs : RequestClear(S)
             \/ EnterClear \/ Restart \/ EndRewrite \/ RewriteFails \/ Serve \/ UNCHANGED vars
      PROVE  UNCHANGED reader
  BY <1>8 DEF StartJob, StopJob, AddRow, DrainJob, SkipFile, BeginRewrite, SettleJob, BeginSave,
     PassGate, OpenFile, CloseFile, SaveFails, RequestClear, EnterClear, Restart, EndRewrite,
     RewriteFails, Serve, vars, history
<1>9. QED
  BY <1>3, <1>4, <1>5, <1>6, <1>7, <1>8, NextCases

THEOREM ListsComplete == Spec => ListsWhatIsThere
<1>1. TypeOK /\ Phases /\ InOrder /\ Reading /\ [Next]_vars =>
        [\A r \in Readers : \A j \in reader[r].todo \ reader'[r].todo :
           \/ j \in reader'[r].items
           \/ life[j] # "done" /\ \E k \in Saves : save[j][k].pc = "writing"
           \/ crashes' + ioErrors > 0]_vars
  BY ListStepFinds
<1>2. QED
  BY <1>1, TypeCorrect, PhasesAlways, AlwaysInOrder, PTL DEF Spec, ListsWhatIsThere
=============================================================================

-------------------------- MODULE Shutdown_proofs --------------------------
(***************************************************************************)
(* What the end of the server process keeps, for every number of rows.     *)
(***************************************************************************)
EXTENDS Shutdown, TLAPS

Active(w) == writer[w].at \in {"handed", "open"}

Undisturbed == phase \notin {"cancelled", "exited"}

(***************************************************************************)
(* Saves and their threads.  Every row has had its save, a thread has the  *)
(* rows there were when it got its text, and the last save comes when no   *)
(* other is pending any more.                                              *)
(***************************************************************************)
SavesFollowRows ==
  /\ \A i \in Saves : save[i] # "none" <=> i <= results
  /\ \A w \in Writers : writer[w].at # "none" => w <= writer[w].rows /\ writer[w].rows <= results
  /\ file.rows <= results

LastSaveIsLast ==
  /\ job \in {"holding", "writing", "over"} => Pending = {}
  /\ job \in {"calling", "draining", "holding"} => writer[Final].at = "none"
  /\ job = "writing" \/ (job = "over" /\ ~cutShort)
       => results = 0 \/ (writer[Final].at # "none" /\ writer[Final].rows = results)
  /\ phase = "exited" => job = "over" /\ \A w \in Writers : ~Active(w)

(***************************************************************************)
(* Until the tasks are cancelled the job's lock is respected, and a thread *)
(* works only while its save has it.                                       *)
(***************************************************************************)
Locked(i) == save[i] \in {"holding", "writing"}

LockIsKept ==
  Undisturbed =>
    /\ ~overlap /\ ~cutShort
    /\ \A i, j \in Saves : Locked(i) /\ Locked(j) => i = j
    /\ \A i \in Saves : Locked(i) => job \notin {"holding", "writing"}
    /\ \A i \in Saves : Active(i) => save[i] = "writing"
    /\ Active(Final) => job = "writing"
    /\ \A i \in Saves : save[i] = "ended" => writer[i].at = "closed"
    /\ \A i \in Saves : save[i] # "cancelled"

(***************************************************************************)
(* As long as no thread was started beside another, they write one after   *)
(* the other, each what is newer than what was closed before, and the file *)
(* is the newest record unless it is just being written.                   *)
(***************************************************************************)
WritesInTurn ==
  ~overlap =>
    /\ \A v, w \in Writers : Active(v) /\ Active(w) => v = w
    /\ \A v, w \in Writers :
         writer[v].at = "closed" /\ Active(w) => v # Final /\ writer[v].rows <= writer[w].rows
    /\ (\A w \in Writers : writer[w].at # "open")
         => file.whole /\ \A v \in Writers : writer[v].at = "closed" => writer[v].rows <= file.rows

(***************************************************************************)
(* The saves of the rows from before the signal: awaited, or over.         *)
(***************************************************************************)
AwaitedFromSignal ==
  /\ phase # "up" => atSignal <= results /\ \A i \in awaited : i <= atSignal
  /\ phase \in {"draining", "closing", "closed"} =>
       \A i \in Saves : i <= atSignal => i \in awaited \/ save[i] = "ended"
  /\ phase \in {"closing", "closed"} => awaited \cap Pending = {}

Orderly ==
  SavesFollowRows /\ LastSaveIsLast /\ LockIsKept /\ WritesInTurn /\ AwaitedFromSignal

-----------------------------------------------------------------------------
(***************************************************************************)
(* The steps of the process, one operator application per disjunct.        *)
(***************************************************************************)
LEMMA NextCases ==
  ASSUME [Next]_vars
  PROVE  \/ RecordRow
         \/ JobEnds
         \/ JobDrained
         \/ FinalWrites
         \/ FinalEnds
         \/ \E i \in Saves : SaveBegins(i)
         \/ \E i \in Saves : SaveWrites(i)
         \/ \E i \in Saves : SaveEnds(i)
         \/ \E w \in Writers : ThreadOpens(w)
         \/ \E w \in Writers : ThreadCloses(w)
         \/ Signal
         \/ Drained
         \/ ClientCloses
         \/ CancelTasks
         \/ Exit
         \/ UNCHANGED vars
BY DEF Next, JobStep, SaveStep, ThreadStep, ExitStep

LEMMA WriterNumbers ==
  /\ Saves \subseteq 1..MaxRows
  /\ Final = 0 /\ Final \in Writers /\ Final \notin Saves
  /\ Writers = Saves \cup {Final}
  /\ \A n \in 0..MaxRows : n < MaxRows => n + 1 \in Saves
BY RowsAssumption DEF Saves, Writers, Final

LEMMA TypeInit == Init => TypeOK
<1> SUFFICES ASSUME Init PROVE TypeOK
  OBVIOUS
<1> USE RowsAssumption DEF Init
<1>1. writer \in [Writers -> [at : {"none", "handed", "open", "closed"}, rows : 0..MaxRows]]
  BY DEF NoThread
<1>2. save \in [Saves -> {"none", "waiting", "holding", "writing", "ended", "cancelled"}]
  OBVIOUS
<1>3. file \in [rows : 0..MaxRows, whole : BOOLEAN]
  OBVIOUS
<1>4. QED
  BY <1>1, <1>2, <1>3 DEF TypeOK, Phases

LEMMA OrderlyInit == Init => Orderly
<1> USE WriterNumbers DEF Init, NoThread, Active
<1>1. Init => SavesFollowRows
  BY RowsAssumption DEF SavesFollowRows
<1>2. Init => LastSaveIsLast
  BY DEF LastSaveIsLast
<1>3. Init => LockIsKept
  BY DEF LockIsKept, Locked
<1>4. Init => WritesInTurn
  BY DEF WritesInTurn
<1>5. Init => AwaitedFromSignal
  BY DEF AwaitedFromSignal
<1>6. QED
  BY <1>1, <1>2, <1>3, <1>4, <1>5 DEF Orderly

LEMMA TypeNext ==
  ASSUME TypeOK, Orderly, [Next]_vars
  PROVE  TypeOK'
<1> USE DEF TypeOK
<1>1. CASE RecordRow
  BY <1>1, RowsAssumption DEF RecordRow, Saves
<1>2. CASE JobEnds \/ JobDrained \/ FinalEnds \/ Signal \/ Drained \/ ClientCloses \/ Exit
           \/ UNCHANGED vars
  BY <1>2 DEF JobEnds, JobDrained, FinalEnds, Signal, Drained, ClientCloses, Exit, vars,
     Pending, Phases
<1>3. CASE FinalWrites
  BY <1>3 DEF FinalWrites, Handed, Orderly, LockIsKept, Undisturbed, Active, Locked,
     Writers, Saves, Final, Phases
<1>4. ASSUME NEW i \in Saves, SaveBegins(i) \/ SaveEnds(i) PROVE TypeOK'
  BY <1>4 DEF SaveBegins, SaveEnds
<1>5. ASSUME NEW i \in Saves, SaveWrites(i) PROVE TypeOK'
  BY <1>5 DEF SaveWrites, Handed, Orderly, LockIsKept, Undisturbed, Active, Locked,
     Writers, Saves, Final, Phases
<1>6. ASSUME NEW w \in Writers, ThreadOpens(w) PROVE TypeOK'
  BY <1>6, RowsAssumption DEF ThreadOpens
<1>7. ASSUME NEW w \in Writers, ThreadCloses(w) PROVE TypeOK'
  BY <1>7 DEF ThreadCloses
<1>8. CASE CancelTasks
  BY <1>8, RowsAssumption DEF CancelTasks, NoThread, Phases
<1>9. QED
  BY <1>1, <1>2, <1>3, <1>4, <1>5, <1>6, <1>7, <1>8, NextCases

LEMMA SavesFollowRowsNext ==
  ASSUME TypeOK, TypeOK', Orderly, [Next]_vars
  PROVE  SavesFollowRows'
<1>1. SavesFollowRows /\ results \in 0..MaxRows
  BY DEF Orderly, TypeOK
<1> USE RowsAssumption, WriterNumbers DEF TypeOK, SavesFollowRows
<1>2. CASE RecordRow
  BY <1>1, <1>2 DEF RecordRow
<1>3. CASE \/ JobEnds \/ JobDrained \/ FinalEnds \/ Signal \/ Drained \/ ClientCloses \/ Exit
           \/ UNCHANGED vars
  BY <1>1, <1>3 DEF JobEnds, JobDrained, FinalEnds, Signal, Drained, ClientCloses, Exit, vars
<1>4. CASE FinalWrites
  BY <1>1, <1>4 DEF FinalWrites, Handed
<1>5. ASSUME NEW i \in Saves, SaveBegins(i) \/ SaveEnds(i) PROVE SavesFollowRows'
  BY <1>1, <1>5 DEF SaveBegins, SaveEnds
<1>6. ASSUME NEW i \in Saves, SaveWrites(i) PROVE SavesFollowRows'
  BY <1>1, <1>6 DEF SaveWrites, Handed
<1>7. ASSUME NEW w \in Writers, ThreadOpens(w) \/ ThreadCloses(w) PROVE SavesFollowRows'
  BY <1>1, <1>7 DEF ThreadOpens, ThreadCloses
<1>8. CASE CancelTasks
  BY <1>1, <1>8 DEF CancelTasks, NoThread, Pending
<1>9. QED
  BY <1>2, <1>3, <1>4, <1>5, <1>6, <1>7, <1>8, NextCases

LEMMA LastSaveIsLastNext ==
  ASSUME TypeOK, TypeOK', Orderly, [Next]_vars
  PROVE  LastSaveIsLast'
<1>1. LastSaveIsLast /\ SavesFollowRows /\ LockIsKept /\ results \in 0..MaxRows
  BY DEF Orderly, TypeOK
<1> USE WriterNumbers DEF TypeOK, LastSaveIsLast, Active
<1>2. CASE RecordRow
  BY <1>1, <1>2 DEF RecordRow, SavesFollowRows
<1>3. CASE \/ JobEnds \/ JobDrained \/ FinalEnds \/ Signal \/ Drained \/ ClientCloses \/ Exit
           \/ UNCHANGED vars
  BY <1>1, <1>3 DEF JobEnds, JobDrained, FinalEnds, Signal, Drained, ClientCloses, Exit, vars,
     Pending
<1>4. CASE FinalWrites
  BY <1>1, <1>4 DEF FinalWrites, Handed, Pending
<1>5. ASSUME NEW i \in Saves, SaveBegins(i) \/ SaveEnds(i) PROVE LastSaveIsLast'
  BY <1>1, <1>5 DEF SaveBegins, SaveEnds, Pending
<1>6. ASSUME NEW i \in Saves, SaveWrites(i) PROVE LastSaveIsLast'
  BY <1>1, <1>6 DEF SaveWrites, Handed, Pending
<1>7. ASSUME NEW w \in Writers, ThreadOpens(w) \/ ThreadCloses(w) PROVE LastSaveIsLast'
  BY <1>1, <1>7 DEF ThreadOpens, ThreadCloses, Pending
<1>8. CASE CancelTasks
  BY <1>1, <1>8 DEF CancelTasks, NoThread, Pending
<1>9. QED
  BY <1>2, <1>3, <1>4, <1>5, <1>6, <1>7, <1>8, NextCases

LEMMA LockIsKeptNext ==
  ASSUME TypeOK, TypeOK', Orderly, [Next]_vars
  PROVE  LockIsKept'
<1>1. LastSaveIsLast /\ SavesFollowRows /\ LockIsKept /\ results \in 0..MaxRows
  BY DEF Orderly, TypeOK
<1> USE WriterNumbers DEF TypeOK, LockIsKept, Active, Locked, Undisturbed
<1>2. CASE RecordRow
  BY <1>1, <1>2 DEF RecordRow, SavesFollowRows
<1>3. CASE \/ JobEnds \/ JobDrained \/ FinalEnds \/ Signal \/ Drained \/ ClientCloses \/ Exit
           \/ UNCHANGED vars
  BY <1>1, <1>3 DEF JobEnds, JobDrained, FinalEnds, Signal, Drained, ClientCloses, Exit, vars,
     Pending
<1>4. CASE FinalWrites
  BY <1>1, <1>4 DEF FinalWrites, Handed, Pending
<1>5. ASSUME NEW i \in Saves, SaveBegins(i) PROVE LockIsKept'
  BY <1>1, <1>5 DEF SaveBegins, LockFree
<1>6. ASSUME NEW i \in Saves, SaveEnds(i) PROVE LockIsKept'
  BY <1>1, <1>6 DEF SaveEnds
<1>7. ASSUME NEW i \in Saves, SaveWrites(i) PROVE LockIsKept'
  BY <1>1, <1>7 DEF SaveWrites, Handed
<1>8. ASSUME NEW w \in Writers, ThreadOpens(w) \/ ThreadCloses(w) PROVE LockIsKept'
  BY <1>1, <1>8 DEF ThreadOpens, ThreadCloses
<1>9. CASE CancelTasks
  BY <1>9 DEF CancelTasks
<1>10. QED
  BY <1>2, <1>3, <1>4, <1>5, <1>6, <1>7, <1>8, <1>9, NextCases

LEMMA WritesInTurnNext ==
  ASSUME TypeOK, TypeOK', Orderly, [Next]_vars
  PROVE  WritesInTurn'
<1>1. /\ LastSaveIsLast /\ SavesFollowRows /\ LockIsKept /\ WritesInTurn
      /\ results \in 0..MaxRows
  BY DEF Orderly, TypeOK
<1> USE RowsAssumption, WriterNumbers DEF TypeOK, WritesInTurn, Active
<1>2. CASE \/ RecordRow \/ JobEnds \/ JobDrained \/ FinalEnds \/ Signal \/ Drained
           \/ ClientCloses \/ Exit \/ UNCHANGED vars
           \/ \E i \in Saves : SaveBegins(i) \/ SaveEnds(i)
  BY <1>1, <1>2 DEF RecordRow, JobEnds, JobDrained, FinalEnds, Signal, Drained, ClientCloses,
     Exit, vars, SaveBegins, SaveEnds
(* A text that is handed to a thread has all the rows there are. *)
<1>3. ASSUME NEW w \in Writers, Handed(w), UNCHANGED <<results, file>>,
             writer[Final].at = "none"
      PROVE  WritesInTurn'
  <2>1. /\ writer'[w].at = "handed" /\ writer'[w].rows = results
        /\ \A v \in Writers : v # w => writer'[v] = writer[v]
    BY <1>3 DEF Handed
  <2>2. SUFFICES ASSUME ~overlap' PROVE WritesInTurn'
    OBVIOUS
  <2>3. ~overlap /\ \A v \in Writers : ~Active(v)
    BY <1>3, <2>2 DEF Handed
  <2>4. \A v \in Writers : Active(v)' => v = w
    BY <2>1, <2>3
  <2>5. ASSUME NEW v \in Writers, writer'[v].at = "closed"
        PROVE  /\ v # Final /\ writer[v].at = "closed" /\ writer'[v] = writer[v]
               /\ writer[v].rows <= results
    BY <1>1, <1>3, <2>1, <2>5 DEF SavesFollowRows
  <2>6. file.whole /\ \A v \in Writers : writer[v].at = "closed" => writer[v].rows <= file.rows
    BY <1>1, <2>3
  <2>7. QED
    BY <1>3, <2>1, <2>4, <2>5, <2>6
<1>4. CASE FinalWrites
  BY <1>1, <1>3, <1>4 DEF FinalWrites, LastSaveIsLast
<1>5. ASSUME NEW i \in Saves, SaveWrites(i) PROVE WritesInTurn'
  <2>1. job \in {"calling", "draining"}
    BY <1>1, <1>5 DEF SaveWrites, LastSaveIsLast, Pending
  <2>2. QED
    BY <1>1, <1>3, <1>5, <2>1 DEF SaveWrites, LastSaveIsLast
<1>6. ASSUME NEW w \in Writers, ThreadOpens(w) PROVE WritesInTurn'
  <2>1. /\ writer[w].at = "handed" /\ writer'[w].at = "open" /\ writer'[w].rows = writer[w].rows
        /\ \A v \in Writers : v # w => writer'[v] = writer[v]
        /\ UNCHANGED overlap
    BY <1>6 DEF ThreadOpens
  <2>2. QED
    BY <1>1, <2>1
<1>7. ASSUME NEW w \in Writers, ThreadCloses(w) PROVE WritesInTurn'
  <2>1. /\ writer[w].at = "open" /\ writer'[w].at = "closed" /\ writer'[w].rows = writer[w].rows
        /\ \A v \in Writers : v # w => writer'[v] = writer[v]
        /\ file'.rows = writer[w].rows
        /\ file'.whole <=> ~ \E v \in Writers :
                               writer[v].at = "closed" /\ Longer(v, w) /\ file.rows = writer[v].rows
        /\ UNCHANGED overlap
    <3>1. writer' = [writer EXCEPT ![w].at = "closed"] /\ writer[w].at = "open"
      BY <1>7 DEF ThreadCloses
    <3>2. writer'[w] = [writer[w] EXCEPT !.at = "closed"]
      BY <3>1
    <3>3. writer[w] \in [at : {"none", "handed", "open", "closed"}, rows : 0..MaxRows]
      OBVIOUS
    <3>4. writer'[w].at = "closed" /\ writer'[w].rows = writer[w].rows
      BY <3>2, <3>3
    <3>5. \A v \in Writers : v # w => writer'[v] = writer[v]
      BY <3>1
    <3>6. QED
      BY <1>7, <3>1, <3>4, <3>5 DEF ThreadCloses
  <2>2. SUFFICES ASSUME ~overlap PROVE WritesInTurn'
    BY <2>1
  <2>3. \A v \in Writers : Active(v) => v = w
    BY <1>1, <2>1, <2>2
  <2>4. \A v \in Writers : writer[v].at = "closed" => v # Final /\ writer[v].rows <= writer[w].rows
    BY <1>1, <2>1, <2>2
  <2>5. file'.whole
    BY <2>1, <2>4 DEF Longer
  <2>6. \A v \in Writers : ~Active(v)'
    BY <2>1, <2>3
  <2>7. QED
    BY <2>1, <2>4, <2>5, <2>6
<1>8. CASE CancelTasks
  <2>1. \A v \in Writers :
          writer'[v] = writer[v] \/ (writer[v].at = "handed" /\ writer'[v].at = "none")
    <3>1. PICK dropped \in SUBSET {w \in Writers : writer[w].at = "handed"} :
            writer' = [w \in Writers |-> IF w \in dropped THEN NoThread ELSE writer[w]]
      BY <1>8 DEF CancelTasks
    <3>2. \A v \in Writers : writer'[v] = IF v \in dropped THEN NoThread ELSE writer[v]
      BY <3>1
    <3>3. NoThread.at = "none"
      BY DEF NoThread
    <3>4. \A v \in dropped : writer[v].at = "handed"
      BY <3>1
    <3>5. QED
      BY <3>2, <3>3, <3>4
  <2>2. UNCHANGED <<file, overlap>>
    BY <1>8 DEF CancelTasks
  <2>3. QED
    BY <1>1, <2>1, <2>2
<1>9. QED
  BY <1>2, <1>4, <1>5, <1>6, <1>7, <1>8, NextCases

LEMMA AwaitedFromSignalNext ==
  ASSUME TypeOK, TypeOK', Orderly, [Next]_vars
  PROVE  AwaitedFromSignal'
<1>1. AwaitedFromSignal /\ SavesFollowRows /\ LockIsKept /\ results \in 0..MaxRows
  BY DEF Orderly, TypeOK
<1> USE WriterNumbers DEF TypeOK, AwaitedFromSignal, Pending
<1>2. CASE RecordRow
  BY <1>1, <1>2 DEF RecordRow, SavesFollowRows
<1>3. CASE JobEnds \/ JobDrained \/ FinalEnds \/ Drained \/ ClientCloses \/ Exit \/ UNCHANGED vars
           \/ \E w \in Writers : ThreadOpens(w) \/ ThreadCloses(w)
  BY <1>1, <1>3 DEF JobEnds, JobDrained, FinalEnds, Drained, ClientCloses, Exit, vars,
     ThreadOpens, ThreadCloses
<1>4. CASE FinalWrites
  BY <1>1, <1>4 DEF FinalWrites
<1>5. ASSUME NEW i \in Saves, SaveBegins(i) \/ SaveWrites(i) \/ SaveEnds(i)
      PROVE  AwaitedFromSignal'
  <2>1. /\ \A j \in Saves : save[j] = "ended" => save'[j] = "ended"
        /\ Pending' \subseteq Pending
        /\ UNCHANGED <<results, phase, awaited, atSignal>>
    BY <1>5 DEF SaveBegins, SaveWrites, SaveEnds, Handed
  <2> HIDE DEF Pending
  <2>2. QED
    BY <1>1, <2>1
<1>6. CASE Signal
  BY <1>1, <1>6 DEF Signal, SavesFollowRows, LockIsKept, Undisturbed
<1>7. CASE CancelTasks
  BY <1>1, <1>7 DEF CancelTasks
<1>8. QED
  BY <1>2, <1>3, <1>4, <1>5, <1>6, <1>7, NextCases

LEMMA OrderlyNext ==
  ASSUME TypeOK, Orderly, [Next]_vars
  PROVE  TypeOK' /\ Orderly'
<1>1. TypeOK'
  BY TypeNext
<1>2. SavesFollowRows' /\ LastSaveIsLast' /\ LockIsKept'
  BY <1>1, SavesFollowRowsNext, LastSaveIsLastNext, LockIsKeptNext
<1>3. WritesInTurn' /\ AwaitedFromSignal'
  BY <1>1, WritesInTurnNext, AwaitedFromSignalNext
<1>4. QED
  BY <1>1, <1>2, <1>3 DEF Orderly

LEMMA AlwaysOrderly == Spec => [](TypeOK /\ Orderly)
<1>1. Init => TypeOK /\ Orderly
  BY TypeInit, OrderlyInit
<1>2. TypeOK /\ Orderly /\ [Next]_vars => (TypeOK /\ Orderly)'
  BY OrderlyNext
<1>3. QED
  BY <1>1, <1>2, PTL DEF Spec

(***************************************************************************)
(* As long as threads write in turn, the newest of them counts: the file   *)
(* has its rows, or a later thread is just writing.                        *)
(***************************************************************************)
LEMMA NewestCounts ==
  ASSUME TypeOK, Orderly, ~overlap, NEW v \in Writers, writer[v].at = "closed"
  PROVE  \/ file.whole /\ file.rows >= writer[v].rows
         \/ \E w \in Writers : writer[w].at = "open" /\ writer[w].rows >= writer[v].rows
<1> USE DEF TypeOK, Orderly, WritesInTurn, Active
<1>1. CASE \E w \in Writers : writer[w].at = "open"
  BY <1>1
<1>2. CASE \A w \in Writers : writer[w].at # "open"
  BY <1>2
<1>3. QED
  BY <1>1, <1>2

LEMMA DrainKeeps == TypeOK /\ Orderly => DrainKeepsRows
<1> SUFFICES ASSUME TypeOK, Orderly, phase \in {"closing", "closed"}
             PROVE  \/ file.whole /\ file.rows >= atSignal
                    \/ \E w \in Writers : writer[w].at = "open" /\ writer[w].rows >= atSignal
  BY DEF DrainKeepsRows
<1> USE WriterNumbers
<1>1. ~overlap /\ \A i \in Saves : save[i] = "ended" => writer[i].at = "closed"
  BY DEF Orderly, LockIsKept, Undisturbed
<1>2. CASE atSignal = 0
  <2>1. CASE \E w \in Writers : writer[w].at = "open"
    BY <1>2, <2>1 DEF TypeOK
  <2>2. CASE \A w \in Writers : writer[w].at # "open"
    BY <1>1, <1>2, <2>2 DEF TypeOK, Orderly, WritesInTurn
  <2>3. QED
    BY <2>1, <2>2
<1>3. CASE atSignal # 0
  <2>1. atSignal \in Saves /\ atSignal <= results
    BY <1>3 DEF TypeOK, Orderly, AwaitedFromSignal, Saves
  <2>2. save[atSignal] # "none" /\ save[atSignal] # "cancelled" /\ atSignal \notin Pending
    <3>1. save[atSignal] # "none"
      BY <2>1 DEF Orderly, SavesFollowRows
    <3>2. save[atSignal] # "cancelled"
      BY <2>1 DEF Orderly, LockIsKept, Undisturbed
    <3>3. atSignal \notin Pending
      BY <2>1 DEF Orderly, AwaitedFromSignal, TypeOK, Pending
    <3>4. QED
      BY <3>1, <3>2, <3>3
  <2>3. save[atSignal] = "ended"
    BY <2>1, <2>2 DEF TypeOK, Pending
  <2>4. writer[atSignal].at = "closed"
    BY <1>1, <2>1, <2>3
  <2>5. writer[atSignal].rows >= atSignal
    BY <2>1, <2>4 DEF TypeOK, Orderly, SavesFollowRows
  <2>6. QED
    BY <1>1, <2>1, <2>4, <2>5, NewestCounts DEF TypeOK
<1>4. QED
  BY <1>2, <1>3

LEMMA ExitKeeps == TypeOK /\ Orderly => ExitKeepsAllRows
<1> SUFFICES ASSUME TypeOK, Orderly, phase = "exited", ~cutShort, ~overlap
             PROVE  file.whole /\ file.rows = results
  BY DEF ExitKeepsAllRows
<1> USE WriterNumbers DEF TypeOK, Active
<1>1. job = "over" /\ \A w \in Writers : writer[w].at # "open" /\ writer[w].at # "handed"
  BY DEF Orderly, LastSaveIsLast
<1>2. file.whole /\ file.rows <= results
      /\ \A v \in Writers : writer[v].at = "closed" => writer[v].rows <= file.rows
  BY <1>1 DEF Orderly, WritesInTurn, SavesFollowRows
<1>3. results = 0 \/ (writer[Final].at = "closed" /\ writer[Final].rows = results)
  BY <1>1 DEF Orderly, LastSaveIsLast
<1>4. QED
  BY <1>2, <1>3

-----------------------------------------------------------------------------
(***************************************************************************)
(* Every variable keeps its type, and nothing goes wrong with locks or the *)
(* last save before the tasks are cancelled.                               *)
(***************************************************************************)
THEOREM TypeCorrect == Spec => []TypeOK
BY AlwaysOrderly, PTL

(***************************************************************************)
(* What models.py:666 promises, for jobs of any size: rows recorded before *)
(* the signal are on disk when the drain has ended, and all rows are when  *)
(* the process exits, but for the two races of the cancellation.           *)
(***************************************************************************)
THEOREM RowsKept == Spec => []RowsReachDisk
<1>1. TypeOK /\ Orderly => RowsReachDisk
  BY DrainKeeps, ExitKeeps DEF RowsReachDisk
<1>2. QED
  BY <1>1, AlwaysOrderly, PTL
=============================================================================

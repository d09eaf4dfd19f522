------------------------ MODULE SqlQuestion_proofs ------------------------
(***************************************************************************)
(* What holds of the SQL questions of a job, for all questions, statements *)
(* and limits: the retries of a call, the watchdogs of the connection, and *)
(* the answers that pass.                                                  *)
(***************************************************************************)
EXTENDS SqlQuestion, FiniteSetTheorems, TLAPS

(* What a statement is, and what a row is. *)
Texts == [pace : {"quick", "slow", "endless"}, writes : BOOLEAN, yields : Results \cup {"none"}]
Outcomes == Results \cup {"none", "timeout"}

Typed ==
  /\ TypeOK
  /\ sent \in Nat
  /\ fallback \in BOOLEAN /\ refused \in BOOLEAN /\ bare \in BOOLEAN
  /\ query \in [at : {"none", "running", "ended", "done"}, pace : {"quick", "slow", "endless"},
                writes : BOOLEAN, yields : Results \cup {"none"}, result : Outcomes]
  /\ strays \in Nat /\ overruns \in Nat /\ spoiled \in Nat
  /\ pending \in BOOLEAN
  /\ session \in {"intact", "changed"}
  /\ question \in Questions
  /\ last \in Texts
  /\ executed \subseteq Texts \X Outcomes

(***************************************************************************)
(* Where the question is: it has its row when it is idle, and room for one *)
(* more call as long as a call is under way.                               *)
(***************************************************************************)
Placed ==
  /\ at # "idle" => row = NoRow /\ answered < NQuestions
  /\ at = "calling" => rounds < MaxRounds
  /\ at = "setup" => rounds = 0 /\ last = NoSql /\ executed = {}
  /\ call.at \in {"posted", "sleeping"} => at = "calling"

(***************************************************************************)
(* The requests of a call: each stage adds one, and the field given up     *)
(* another; without tools there is only the first stage.                   *)
(***************************************************************************)
Dropped == request.effort /\ ~body.reasoning

CountedSent ==
  /\ call.at \in {"idle", "answered", "raised"} => sent = 0
  /\ call.at = "sleeping" => call.stage = "first" /\ request.tools
  /\ call.at = "posted" /\ call.stage # "first" => request.tools
  /\ call.at = "posted" => (body.reasoning => request.effort)
  /\ call.at \in {"posted", "sleeping"} /\ call.stage = "first" =>
       sent <= IF call.at = "posted" /\ ~Dropped THEN 1 ELSE 2
  /\ call.at = "posted" /\ call.stage # "first" => sent <= IF Dropped THEN 4 ELSE 3

Reported ==
  /\ fallback = refused
  /\ bare => refused
  /\ call.at = "posted" /\ Dropped => refused
  /\ row # NoRow => row.fallback = refused

(***************************************************************************)
(* Interrupts: those that have hit, those still to come and the one under  *)
(* way each have a watchdog of their own that has fired.                   *)
(***************************************************************************)
One(condition) == IF condition THEN 1 ELSE 0

Budgeted ==
  /\ query.at \in {"none", "done"} => watchdog = "off"
  /\ watchdog \in {"fired", "spent"} => query.pace # "quick"
  /\ TimeoutIsEarned
  /\ spoiled + strays + One(watchdog = "fired")
       + One(pending /\ watchdog = "armed" /\ query.at = "running") <= overruns
  /\ pending => overruns > 0

SetupIsHarmless ==
  /\ at = "setup" =>
       /\ query.at # "none"
       /\ query.pace = "quick" /\ ~query.writes /\ query.yields = "rounded"
       /\ query.at \in {"ended", "done"} /\ query.result \in Failures
            => session = "changed" \/ overruns > 0
  /\ SetupFailsOnlyIfHarmed

(***************************************************************************)
(* In an unharmed session a good statement yields what it should, in the   *)
(* query and in executed_sql, and a question whose last statement is good  *)
(* remembers it.                                                           *)
(***************************************************************************)
Clean == session = "intact" /\ spoiled = 0
Good(s) == s.pace = "quick" /\ ~s.writes /\ s.yields \in {"rounded", "exact", "renamed"}

Faithful ==
  /\ query.at \in {"ended", "done"} /\ Clean /\ Good(query) => query.result = query.yields
  /\ at \in {"trying", "text", "confirming"} =>
       query.at # "none" /\ query.pace = last.pace /\ query.writes = last.writes
         /\ query.yields = last.yields
  /\ \A e \in executed : Clean /\ Good(e[1]) => e[2] = e[1].yields
  /\ at \in {"calling", "handling"} /\ Clean /\ Good(last) => \E e \in executed : e[1] = last
  /\ CorrectQueryPasses

Sound == Placed /\ CountedSent /\ Reported /\ Budgeted /\ SetupIsHarmless /\ Faithful

-----------------------------------------------------------------------------
(* The steps, one operator application per disjunct. *)
LEMMA CallCases ==
  ASSUME CallStep
  PROVE  \/ Reloaded
         \/ CallIsCut
         \/ \E a \in Answers : RetryWithoutReasoning(a)
         \/ \E a \in Answers : WaitForReload(a)
         \/ \E a \in Answers : RetryWithoutTools(a)
         \/ \E a \in Answers : CallSucceeds(a)
         \/ \E a \in Answers : CallRaises(a)
BY DEF CallStep

LEMMA NextCases ==
  ASSUME [Next]_vars
  PROVE  \/ CallMoves \/ SessionMoves \/ QuestionMoves \/ UNCHANGED vars
BY DEF Next

LEMMA Questioned ==
  /\ Questions \subseteq [truth : Nat, digits : 0..2]
  /\ NQuestions \in Nat \ {0} /\ MaxRounds \in Nat \ {0}
  /\ MaxTries \in Nat \ {0} /\ MaxOverruns \in Nat \ {0}
  /\ Statements \subseteq Texts
  /\ "error" \in Results /\ "rounded" \in Results
  /\ "none" \notin Results /\ "timeout" \notin Results
  /\ ExpectedSql \in Texts /\ NoSql \in Texts
BY QuestionAssumption, DuckAssumption, ResultAssumption DEF Texts, ExpectedSql, NoSql

LEMMA TypedInit == Init => Typed
<1> SUFFICES ASSUME Init PROVE Typed
  OBVIOUS
<1> USE Questioned DEF Init, CallInit, SessionInit, At, NoBody, NoQuery
<1>1. TypeOK
  BY DEF TypeOK, Stages, Requests
<1>2. query \in [at : {"none", "running", "ended", "done"}, pace : {"quick", "slow", "endless"},
                 writes : BOOLEAN, yields : Results \cup {"none"}, result : Outcomes]
  BY DEF Outcomes
<1>3. QED
  BY <1>1, <1>2 DEF Typed

LEMMA SoundInit == Init => Sound
<1> USE DEF Init, CallInit, SessionInit, At, NoBody, NoQuery, NoRow
<1>1. Init => Placed /\ CountedSent /\ Reported
  <2>1. Init => Placed
    BY DEF Placed
  <2>2. Init => call.at = "idle" /\ sent = 0
    OBVIOUS
  <2>3. Init => CountedSent
    BY <2>2 DEF CountedSent
  <2>4. Init => Reported
    BY <2>2 DEF Reported
  <2>5. QED
    BY <2>1, <2>3, <2>4
<1>2. Init => Budgeted /\ SetupIsHarmless
  BY DEF Budgeted, TimeoutIsEarned, One, SetupIsHarmless, SetupFailsOnlyIfHarmed
<1>3. Init => Faithful
  BY DEF Faithful, CorrectQueryPasses
<1>4. QED
  BY <1>1, <1>2, <1>3 DEF Sound

-----------------------------------------------------------------------------
(***************************************************************************)
(* Scoring.  A number is at most half a unit of the last place from the    *)
(* rounded one, in the place the rounded one is written with.              *)
(***************************************************************************)
LEMMA RoundingIsTolerated ==
  ASSUME NEW n \in Nat, NEW digits \in 0..2
  PROVE  /\ Rounded(n, digits) \in Int
         /\ 2 * Abs(n - Rounded(n, digits))
              <= LastPlace([kind |-> IF digits = 0 THEN "int" ELSE "float",
                            n |-> Rounded(n, digits)])
<1> DEFINE v == [kind |-> IF digits = 0 THEN "int" ELSE "float", n |-> Rounded(n, digits)]
<1>1. CASE digits = 0
  <2>1. Rounded(n, digits) = ((n + 500) \div 1000) * 1000
    BY <1>1 DEF Rounded, Place
  <2>2. 2 * Abs(n - Rounded(n, digits)) <= 1000
    BY <2>1 DEF Abs
  <2>3. LastPlace(v) = 1000
    <3>1. v.kind = "int" /\ v.n = Rounded(n, digits)
      BY <1>1
    <3>2. QED
      BY <2>2, <3>1 DEF LastPlace
  <2>4. QED
    BY <2>1, <2>2, <2>3
<1>2. CASE digits = 1
  <2>1. Rounded(n, digits) = ((n + 50) \div 100) * 100
    BY <1>2 DEF Rounded, Place
  <2>2. 2 * Abs(n - Rounded(n, digits)) <= 100 /\ Rounded(n, digits) % 100 = 0
    BY <2>1 DEF Abs
  <2>3. LastPlace(v) = 100
    <3>1. v.kind = "float" /\ v.n = Rounded(n, digits)
      BY <1>2
    <3>2. QED
      BY <2>2, <3>1 DEF LastPlace
  <2>4. QED
    BY <2>1, <2>2, <2>3
<1>3. CASE digits = 2
  <2>1. Rounded(n, digits) = ((n + 5) \div 10) * 10
    BY <1>3 DEF Rounded, Place
  <2>2. 2 * Abs(n - Rounded(n, digits)) <= 10 /\ Rounded(n, digits) % 10 = 0
    BY <2>1 DEF Abs
  <2>3. LastPlace(v) \in {10, 100}
    <3>1. v.kind = "float" /\ v.n = Rounded(n, digits)
      BY <1>3
    <3>2. QED
      BY <2>2, <3>1 DEF LastPlace
  <2>4. Rounded(n, digits) \in Int /\ Abs(n - Rounded(n, digits)) \in Int
    BY <2>1 DEF Abs
  <2>5. QED
    BY <2>2, <2>3, <2>4
<1>4. QED
  BY <1>1, <1>2, <1>3

LEMMA AmountMatches ==
  ASSUME NEW q \in [truth : Nat, digits : 0..2]
  PROVE  LET amount == Stored(q, Rounded(q.truth, q.digits))
         IN  ValueMatches(amount, amount) /\ ValueMatches(amount, Float(q.truth))
<1> DEFINE amount == Stored(q, Rounded(q.truth, q.digits))
<1>1. /\ Rounded(q.truth, q.digits) \in Int
      /\ 2 * Abs(q.truth - Rounded(q.truth, q.digits)) <= LastPlace(amount)
  BY RoundingIsTolerated DEF Stored
<1>2. amount.n = Rounded(q.truth, q.digits) /\ IsNumber(amount)
  BY DEF Stored, IsNumber
<1>3. Float(q.truth).n = q.truth /\ IsNumber(Float(q.truth))
  BY DEF Float, IsNumber
<1>4. LastPlace(amount) \in Nat
  BY DEF LastPlace
<1>5. 2 * Abs(amount.n - amount.n) <= LastPlace(amount)
  BY <1>1, <1>2, <1>4 DEF Abs
<1> HIDE DEF amount
<1>6. QED
  BY <1>1, <1>2, <1>3, <1>5 DEF ValueMatches, RoundingTolerance2, amount

(* Two columns of different names, in either order. *)
LEMMA TwoColumns ==
  /\ ColumnsMatch(Columns, Columns) /\ ColumnsMatch(Columns, Respelled)
  /\ Keys(Columns) = {"label", "amount"} /\ Keys(Respelled) = {"label", "amount"}
<1>1. /\ Len(Columns) = 2 /\ DOMAIN Columns = {1, 2}
      /\ Columns[1].key = "label" /\ Columns[2].key = "amount"
  BY DEF Columns
<1>2. /\ Len(Respelled) = 2 /\ DOMAIN Respelled = {1, 2}
      /\ Respelled[1].key = "amount" /\ Respelled[2].key = "label"
  BY DEF Respelled
<1>3. Keys(Columns) = {"label", "amount"} /\ Keys(Respelled) = {"label", "amount"}
  BY <1>1, <1>2 DEF Keys, NormalizeCol
<1>4. /\ Occurrences("label", Columns) = 1 /\ Occurrences("amount", Columns) = 1
      /\ Occurrences("label", Respelled) = 1 /\ Occurrences("amount", Respelled) = 1
  <2>1. /\ {i \in DOMAIN Columns : NormalizeCol(Columns[i]) = "label"} = {1}
        /\ {i \in DOMAIN Columns : NormalizeCol(Columns[i]) = "amount"} = {2}
    BY <1>1 DEF NormalizeCol
  <2>2. /\ {i \in DOMAIN Respelled : NormalizeCol(Respelled[i]) = "label"} = {2}
        /\ {i \in DOMAIN Respelled : NormalizeCol(Respelled[i]) = "amount"} = {1}
    BY <1>2 DEF NormalizeCol
  <2>3. QED
    BY <2>1, <2>2, FS_Singleton DEF Occurrences
<1>5. QED
  BY <1>1, <1>2, <1>3, <1>4 DEF ColumnsMatch

(* The cells of a row by the names of its columns. *)
LEMMA CellsByName ==
  ASSUME NEW x, NEW a, NEW b, x.first = <<a, b>>,
         x.columns = Columns \/ x.columns = Respelled
  PROVE  /\ FirstRow(x)["label"] = IF x.columns = Columns THEN a ELSE b
         /\ FirstRow(x)["amount"] = IF x.columns = Columns THEN b ELSE a
<1> DEFINE Cell(k) == CHOOSE i \in DOMAIN x.columns :
                        /\ NormalizeCol(x.columns[i]) = k
                        /\ \A j \in DOMAIN x.columns :
                             NormalizeCol(x.columns[j]) = k => j <= i
<1>0. x.first[1] = a /\ x.first[2] = b
  OBVIOUS
<1>1. FirstRow(x)["label"] = x.first[Cell("label")]
      /\ FirstRow(x)["amount"] = x.first[Cell("amount")]
  BY TwoColumns DEF FirstRow
<1>2. CASE x.columns = Columns
  <2>1. DOMAIN x.columns = {1, 2} /\ x.columns[1].key = "label" /\ x.columns[2].key = "amount"
    BY <1>2 DEF Columns
  <2>2. Cell("label") = 1 /\ Cell("amount") = 2
    BY <2>1 DEF NormalizeCol
  <2>3. QED
    BY <1>0, <1>1, <1>2, <2>2
<1>3. CASE x.columns = Respelled
  <2>1. DOMAIN x.columns = {1, 2} /\ x.columns[1].key = "amount" /\ x.columns[2].key = "label"
    BY <1>3 DEF Respelled
  <2>2. Cell("label") = 2 /\ Cell("amount") = 1
    BY <2>1 DEF NormalizeCol
  <2>3. Columns # Respelled
    BY DEF Columns, Respelled
  <2>4. QED
    BY <1>0, <1>1, <1>3, <2>2, <2>3
<1>4. QED
  BY <1>2, <1>3

(* An answer to the question passes: rounded or not, columns in any order. *)
LEMMA CorrectAnswerPasses ==
  ASSUME NEW q \in [truth : Nat, digits : 0..2], NEW kind \in {"rounded", "exact", "renamed"}
  PROVE  Success(Reference(q), Answer(q, kind))
<1> DEFINE expected == Reference(q)
           actual == Answer(q, kind)
           amount == Stored(q, Rounded(q.truth, q.digits))
<1>1. /\ expected.count = 2 /\ expected.columns = Columns
      /\ expected.first = <<Label, amount>>
  BY DEF Reference
<1>2. /\ actual.count = 2
      /\ \/ actual.columns = Columns /\ actual.first = <<Label, amount>>
         \/ actual.columns = Columns /\ actual.first = <<Label, Float(q.truth)>>
         \/ actual.columns = Respelled /\ actual.first = <<Float(q.truth), Label>>
  <2>1. CASE kind = "rounded"
    BY <2>1 DEF Answer, Reference
  <2>2. CASE kind = "exact"
    BY <2>2 DEF Answer, Reference
  <2>3. CASE kind = "renamed"
    BY <2>3 DEF Answer
  <2>4. QED
    BY <2>1, <2>2, <2>3
<1> HIDE DEF expected, actual, amount
<1>3. ColumnsMatch(expected.columns, actual.columns)
      /\ Keys(expected.columns) = {"label", "amount"}
      /\ Keys(actual.columns) = {"label", "amount"}
  BY <1>1, <1>2, TwoColumns
<1>4. Columns # Respelled
  BY DEF Columns, Respelled
<1>5. FirstRow(expected)["label"] = Label /\ FirstRow(expected)["amount"] = amount
  BY <1>1, CellsByName
<1>6. /\ FirstRow(actual)["label"] = Label
      /\ FirstRow(actual)["amount"] \in {amount, Float(q.truth)}
  BY <1>2, <1>4, CellsByName
<1>7. ValueMatches(amount, amount) /\ ValueMatches(amount, Float(q.truth))
  BY AmountMatches DEF amount
<1>8. ValueMatches(Label, Label)
  BY DEF ValueMatches, IsNumber, Label
<1>9. FirstRowMatches(expected, actual)
  BY <1>2, <1>3, <1>5, <1>6, <1>7, <1>8 DEF FirstRowMatches
<1>10. Success(expected, actual)
  BY <1>1, <1>2, <1>3, <1>9 DEF Success
<1>11. QED
  BY <1>10 DEF expected, actual

-----------------------------------------------------------------------------
(* Types: the call, the session and the question have theirs each. *)
CallTyped ==
  /\ request \in Requests
  /\ call \in [at : {"idle", "posted", "sleeping", "answered", "raised"}, stage : Stages]
  /\ body \in [tools : BOOLEAN, reasoning : BOOLEAN]
  /\ sent \in Nat
  /\ fallback \in BOOLEAN /\ refused \in BOOLEAN /\ bare \in BOOLEAN

SessionTyped ==
  /\ query \in [at : {"none", "running", "ended", "done"}, pace : {"quick", "slow", "endless"},
                writes : BOOLEAN, yields : Results \cup {"none"}, result : Outcomes]
  /\ watchdog \in {"off", "armed", "fired", "spent"}
  /\ query.at = "running" => watchdog # "off"
  /\ strays \in Nat /\ overruns \in Nat /\ spoiled \in Nat
  /\ pending \in BOOLEAN
  /\ pending => query.at \in {"running", "ended", "done"}
  /\ session \in {"intact", "changed"}

QuestionTyped ==
  /\ rounds \in 0..MaxRounds /\ tries \in 0..MaxTries
  /\ at \in {"idle", "setup", "calling", "trying", "handling", "text", "confirming"}
  /\ answered \in 0..NQuestions
  /\ question \in Questions
  /\ last \in Texts
  /\ executed \subseteq Texts \X Outcomes

LEMMA TypedParts == Typed <=> CallTyped /\ SessionTyped /\ QuestionTyped
BY DEF Typed, TypeOK, CallTyped, SessionTyped, QuestionTyped, Outcomes

LEMMA CallTypedStep ==
  ASSUME CallTyped, CallStep
  PROVE  CallTyped'
<1> USE DEF CallTyped
<1>1. CASE Reloaded
  <2>1. /\ call' = [at |-> "posted", stage |-> "retry"]
        /\ body' = [tools |-> TRUE, reasoning |-> request.effort]
        /\ sent' = sent + 1
        /\ UNCHANGED <<request, fallback, refused, bare>>
    BY <1>1 DEF Reloaded, Post
  <2>2. body' \in [tools : BOOLEAN, reasoning : BOOLEAN]
    BY <2>1 DEF Requests
  <2>3. QED
    BY <2>1, <2>2 DEF Stages
<1>2. CASE CallIsCut
  BY <1>2 DEF CallIsCut, Ends, At, NoBody, Stages
<1>3. ASSUME NEW a \in Answers, RetryWithoutReasoning(a) PROVE CallTyped'
  <2>1. /\ body' = [body EXCEPT !.reasoning = FALSE]
        /\ sent' = sent + 1
        /\ fallback' = TRUE /\ refused' = TRUE
        /\ UNCHANGED <<request, call, bare>>
    BY <1>3 DEF RetryWithoutReasoning
  <2>2. body' \in [tools : BOOLEAN, reasoning : BOOLEAN]
    BY <2>1
  <2>3. QED
    BY <2>1, <2>2
<1>4. ASSUME NEW a \in Answers, WaitForReload(a) PROVE CallTyped'
  BY <1>4 DEF WaitForReload
<1>5. ASSUME NEW a \in Answers, RetryWithoutTools(a) PROVE CallTyped'
  <2>1. /\ call' = [at |-> "posted", stage |-> "plain"]
        /\ body' = [tools |-> FALSE, reasoning |-> request.effort]
        /\ sent' = sent + 1
        /\ UNCHANGED <<request, fallback, refused, bare>>
    BY <1>5 DEF RetryWithoutTools, Post
  <2>2. body' \in [tools : BOOLEAN, reasoning : BOOLEAN]
    BY <2>1 DEF Requests
  <2>3. QED
    BY <2>1, <2>2 DEF Stages
<1>6. ASSUME NEW a \in Answers, CallSucceeds(a) PROVE CallTyped'
  BY <1>6 DEF CallSucceeds, Ends, At, NoBody, Stages, Requests
<1>7. ASSUME NEW a \in Answers, CallRaises(a) PROVE CallTyped'
  BY <1>7 DEF CallRaises, Ends, At, NoBody, Stages
<1>8. QED
  BY <1>1, <1>2, <1>3, <1>4, <1>5, <1>6, <1>7, CallCases

LEMMA BeginCallTyped ==
  ASSUME CallTyped, BeginCall
  PROVE  CallTyped'
<1> USE DEF CallTyped
<1>1. /\ call' = [at |-> "posted", stage |-> "first"]
      /\ body' = [tools |-> request.tools, reasoning |-> request.effort]
      /\ sent' = 1
      /\ UNCHANGED <<request, fallback, refused, bare>>
  BY DEF BeginCall, Post
<1>2. body' \in [tools : BOOLEAN, reasoning : BOOLEAN]
  BY <1>1 DEF Requests
<1>3. QED
  BY <1>1, <1>2 DEF Stages

LEMMA SessionTypedStep ==
  ASSUME SessionTyped, SessionStep
  PROVE  SessionTyped'
<1> USE Questioned DEF SessionTyped, Outcomes
<1>1. CASE WatchdogFires
  BY <1>1 DEF WatchdogFires
<1>2. CASE WatchdogInterrupts
  BY <1>2 DEF WatchdogInterrupts
<1>3. CASE StrayInterrupts
  BY <1>3 DEF StrayInterrupts
<1>4. CASE StatementEnds
  <2>1. PICK r \in Results \cup {"none"} :
          query' = [query EXCEPT !.at = "ended",
                                 !.result = IF r = "error" THEN Failure ELSE r]
    BY <1>4 DEF StatementEnds
  <2>2. (IF r = "error" THEN Failure ELSE r) \in Outcomes
    BY DEF Failure
  <2>3. /\ query' \in [at : {"none", "running", "ended", "done"},
                        pace : {"quick", "slow", "endless"}, writes : BOOLEAN,
                        yields : Results \cup {"none"}, result : Outcomes]
        /\ query'.at = "ended"
    BY <2>1, <2>2
  <2>4. session' \in {"intact", "changed"}
    BY <1>4 DEF StatementEnds, Wrote
  <2>5. QED
    BY <1>4, <2>3, <2>4 DEF StatementEnds
<1>5. CASE StatementInterrupted
  <2>1. Failure \in Outcomes
    BY DEF Failure
  <2>2. /\ query' \in [at : {"none", "running", "ended", "done"},
                        pace : {"quick", "slow", "endless"}, writes : BOOLEAN,
                        yields : Results \cup {"none"}, result : Outcomes]
        /\ query'.at = "ended"
    BY <1>5, <2>1 DEF StatementInterrupted
  <2>3. session' \in {"intact", "changed"}
    BY <1>5 DEF StatementInterrupted, Wrote
  <2>4. QED
    BY <1>5, <2>2, <2>3 DEF StatementInterrupted
<1>6. CASE CancelWatchdog
  BY <1>6 DEF CancelWatchdog
<1>7. QED
  BY <1>1, <1>2, <1>3, <1>4, <1>5, <1>6 DEF SessionStep

LEMMA ExecuteTyped ==
  ASSUME SessionTyped, NEW s \in Texts, Execute(s)
  PROVE  SessionTyped'
BY DEF SessionTyped, Execute, Texts, Outcomes

LEMMA TypedNext ==
  ASSUME Typed, Sound, [Next]_vars
  PROVE  Typed'
<1>1. CallTyped /\ SessionTyped /\ QuestionTyped /\ Placed
  BY TypedParts DEF Sound
<1> SUFFICES CallTyped' /\ SessionTyped' /\ QuestionTyped'
  BY DEF Typed, TypeOK, CallTyped, SessionTyped, QuestionTyped, Outcomes
<1>2. CASE CallMoves
  BY <1>1, <1>2, CallTypedStep DEF CallMoves, SessionTyped, QuestionTyped, sessionVars
<1>3. CASE SessionMoves
  BY <1>1, <1>3, SessionTypedStep DEF SessionMoves, CallTyped, QuestionTyped, callVars
<1>4. CASE UNCHANGED vars
  BY <1>1, <1>4 DEF vars, callVars, sessionVars, CallTyped, SessionTyped, QuestionTyped
<1>5. ASSUME NEW sql \in Texts, NEW kind, NEW success, RecordOf(sql, kind, success),
             UNCHANGED sessionVars, at # "idle"
      PROVE  CallTyped' /\ SessionTyped' /\ QuestionTyped'
  BY <1>1, <1>5, Questioned
  DEF Placed, RecordOf, CallTyped, SessionTyped, QuestionTyped, callVars, sessionVars
<1>6. ASSUME NEW s \in Statements, NEW phase \in {"trying", "text"}, Try(s, phase)
      PROVE  CallTyped' /\ SessionTyped' /\ QuestionTyped'
  BY <1>1, <1>6, Questioned, ExecuteTyped DEF Try, CallTyped, QuestionTyped, callVars
<1>7. CASE StartQuestion
  <2>1. SessionTyped'
    BY <1>1, <1>7, Questioned, ExecuteTyped DEF StartQuestion
  <2>2. QuestionTyped'
    BY <1>1, <1>7, Questioned DEF StartQuestion, QuestionTyped
  <2>3. CallTyped'
    BY <1>1, <1>7 DEF StartQuestion, CallTyped, At, NoBody, Stages
  <2>4. QED
    BY <2>1, <2>2, <2>3
<1>8. CASE SetupDone \/ NextCall
  BY <1>1, <1>8, BeginCallTyped DEF SetupDone, NextCall, SessionTyped, QuestionTyped, sessionVars
<1>9. CASE ToolsReply
  BY <1>1, <1>9, Questioned
  DEF ToolsReply, Placed, CallTyped, SessionTyped, QuestionTyped, callVars, sessionVars
<1>10. CASE ToolAnswered
  BY <1>1, <1>10
  DEF ToolAnswered, Executed, CallTyped, SessionTyped, QuestionTyped, callVars, sessionVars
<1>11. CASE ResultsOk
  BY <1>1, <1>11, ExecuteTyped DEF ResultsOk, CallTyped, QuestionTyped, callVars
<1>12. CASE QueryFailed
  <2>1. last \in Texts /\ at # "idle"
    BY <1>1, <1>12 DEF QuestionTyped, QueryFailed, Executed
  <2>2. CASE at' = "handling" /\ UNCHANGED <<callVars, question, rounds, tries, last, executed,
                                            answered, row>>
    BY <1>1, <1>12, <2>2
    DEF QueryFailed, CallTyped, SessionTyped, QuestionTyped, callVars, sessionVars
  <2>3. CASE Record("sql_failed", FALSE)
    BY <1>5, <1>12, <2>1, <2>3 DEF QueryFailed, Record
  <2>4. QED
    BY <1>12, <2>2, <2>3 DEF QueryFailed
<1>13. CASE FromMemory
  <2>1. \A e \in executed : e[1] \in Texts
    BY <1>1 DEF QuestionTyped
  <2>2. QED
    BY <1>5, <1>13, <2>1 DEF FromMemory, ScoredOf
<1>14. CASE \/ SetupFails \/ CallFailed \/ GrammarEmpty \/ GrammarScored \/ TextAnswered
            \/ ResultsOkScored \/ ResultsOkOfNothing \/ GiveUp \/ CutShort
  <2>1. last \in Texts
    BY <1>1 DEF QuestionTyped
  <2>2. QED
    BY <1>5, <1>14, <2>1
    DEF SetupFails, CallFailed, GrammarEmpty, GrammarScored, TextAnswered, ResultsOkScored,
        ResultsOkOfNothing, GiveUp, CutShort, Executed, Record, Scored, ScoredOf
<1>15. CASE GrammarReply \/ RunSqlQuery \/ SqlInText
  BY <1>6, <1>15 DEF GrammarReply, RunSqlQuery, SqlInText
<1>16. QED
  BY <1>2, <1>3, <1>4, <1>7, <1>8, <1>9, <1>10, <1>11, <1>12, <1>13, <1>14, <1>15, NextCases
  DEF QuestionMoves

-----------------------------------------------------------------------------
(***************************************************************************)
(* The steps of a question by what they do.  Many of them end it with a    *)
(* row; whichever it is, an answer that ought to pass passes.              *)
(***************************************************************************)
questionVars == <<at, question, rounds, tries, last, executed, answered, row>>

Recording(sql, kind) ==
  /\ at # "idle" /\ at' = "idle"
  /\ call.at \notin {"posted", "sleeping"}
  /\ sql \in Texts
  /\ row'.kind = kind /\ row'.sql = sql /\ row'.fallback = fallback
  /\ row'.clean => Clean
  /\ kind = "setup_failed" => session = "changed" \/ overruns > 0
  /\ kind \in {"scored", "sql_failed", "gave_up"} /\ Clean /\ Good(sql) => row'.success
  /\ UNCHANGED <<callVars, sessionVars, question, rounds, tries, executed>>

Trying(s, phase) ==
  /\ at \in {"calling", "handling"}
  /\ call.at \notin {"posted", "sleeping"}
  /\ Try(s, phase)

Retold ==
  /\ Executed("trying") \/ Executed("text")
  /\ Failed
  /\ at' = "handling"
  /\ UNCHANGED <<callVars, sessionVars, question, rounds, tries, last, executed, answered, row>>

(* A row for a statement and its answer, which is the right one if the
   statement is good. *)
LEMMA ScoredRecords ==
  ASSUME Typed, Sound, NEW sql \in Texts, NEW answer, ScoredOf(sql, answer),
         at # "idle", at # "calling", UNCHANGED sessionVars,
         Clean /\ Good(sql) => answer = sql.yields
  PROVE  Recording(sql, "scored")
<1>1. /\ question \in [truth : Nat, digits : 0..2]
      /\ call.at \notin {"posted", "sleeping"}
  BY Questioned DEF Typed, Sound, Placed
<1>2. RecordOf(sql, "scored", Success(Reference(question), Answer(question, answer)))
  BY DEF ScoredOf
<1>3. /\ row' = [kind |-> "scored",
                success |-> Success(Reference(question), Answer(question, answer)),
                sql |-> sql, clean |-> session = "intact" /\ spoiled = 0, fallback |-> fallback]
      /\ at' = "idle"
      /\ UNCHANGED <<callVars, question, rounds, tries, executed>>
  BY <1>2 DEF RecordOf
<1>4. Clean /\ Good(sql) => Success(Reference(question), Answer(question, answer))
  BY <1>1, CorrectAnswerPasses DEF Good
<1>5. /\ row'.kind = "scored" /\ row'.sql = sql /\ row'.fallback = fallback
      /\ row'.success = Success(Reference(question), Answer(question, answer))
      /\ row'.clean = (session = "intact" /\ spoiled = 0)
  BY <1>3
<1>6. row'.clean => Clean
  BY <1>5 DEF Clean
<1>7. Clean /\ Good(sql) => row'.success
  BY <1>4, <1>5
<1>8. QED
  BY <1>1, <1>3, <1>5, <1>6, <1>7 DEF Recording

(* A row without a success, for which no good statement is to blame. *)
LEMMA FailureRecords ==
  ASSUME Typed, NEW kind, Record(kind, FALSE), at # "idle",
         call.at \notin {"posted", "sleeping"}, UNCHANGED sessionVars,
         kind = "setup_failed" => session = "changed" \/ overruns > 0,
         kind \in {"scored", "sql_failed", "gave_up"} => ~(Clean /\ Good(last))
  PROVE  Recording(last, kind)
<1>1. last \in Texts
  BY DEF Typed
<1>2. /\ row' = [kind |-> kind, success |-> FALSE, sql |-> last,
                clean |-> session = "intact" /\ spoiled = 0, fallback |-> fallback]
      /\ at' = "idle"
      /\ UNCHANGED <<callVars, question, rounds, tries, executed>>
  BY DEF Record, RecordOf
<1>3. /\ row'.kind = kind /\ row'.sql = last /\ row'.fallback = fallback
      /\ row'.clean = (session = "intact" /\ spoiled = 0)
  BY <1>2
<1>4. row'.clean => Clean
  BY <1>3 DEF Clean
<1>5. QED
  BY <1>1, <1>2, <1>3, <1>4 DEF Recording

(* The statement of the phase has run: what it yielded, if it is good. *)
LEMMA ExecutedYields ==
  ASSUME Typed, Sound, NEW phase \in {"trying", "text", "confirming"}, Executed(phase),
         Clean, Good(last)
  PROVE  query.result = last.yields /\ ~Failed
<1>1. /\ query.at = "done" /\ query.pace = last.pace /\ query.writes = last.writes
      /\ query.yields = last.yields
  BY DEF Sound, Faithful, Executed
<1>2. query.result = last.yields
  BY <1>1 DEF Sound, Faithful, Good
<1>3. QED
  BY <1>2 DEF Failed, Failures, Good

LEMMA QuestionCases ==
  ASSUME Typed, Sound, QuestionMoves
  PROVE  \/ StartQuestion
         \/ SetupDone
         \/ NextCall
         \/ ToolsReply
         \/ ToolAnswered
         \/ ResultsOk
         \/ \E s \in Statements : Trying(s, "trying") \/ Trying(s, "text")
         \/ Retold
         \/ \E sql \in Texts : \E kind : Recording(sql, kind)
<1>1. Placed /\ SetupIsHarmless /\ last \in Texts
  BY DEF Sound, Typed
<1> DEFINE Recorded == \E sql \in Texts : \E kind : Recording(sql, kind)
<1>2. CASE SetupFails
  <2>1. session = "changed" \/ overruns > 0
    BY <1>1, <1>2 DEF SetupFails, Executed, Failed, SetupIsHarmless
  <2>2. Recording(last, "setup_failed")
    BY <1>1, <1>2, <2>1, FailureRecords DEF SetupFails, Executed, Placed
  <2>3. QED
    BY <1>1, <2>2
<1>3. CASE CallFailed
  <2>1. Recording(last, "call_failed")
    BY <1>3, FailureRecords DEF CallFailed
  <2>2. QED
    BY <1>1, <2>1
<1>4. CASE GrammarEmpty
  <2>1. Recording(last, "empty")
    BY <1>4, FailureRecords DEF GrammarEmpty
  <2>2. QED
    BY <1>1, <2>1
<1>5. CASE ResultsOkOfNothing
  <2>1. Recording(last, "nothing")
    BY <1>1, <1>5, FailureRecords DEF ResultsOkOfNothing, Placed
  <2>2. QED
    BY <1>1, <2>1
<1>6. CASE GiveUp
  <2>1. ~(Clean /\ Good(last))
    BY <1>6 DEF GiveUp, Sound, Faithful
  <2>2. Recording(last, "gave_up")
    BY <1>1, <1>6, <2>1, FailureRecords DEF GiveUp, Placed
  <2>3. QED
    BY <1>1, <2>2
<1>7. CASE CutShort
  <2>1. Recording(last, "cut_short")
    BY <1>1, <1>7, FailureRecords DEF CutShort, Placed
  <2>2. QED
    BY <1>1, <2>1
<1>8. ASSUME NEW phase \in {"trying", "text", "confirming"}, Executed(phase), UNCHANGED sessionVars,
             \/ Failed /\ Record("sql_failed", FALSE)
             \/ ~Failed /\ Scored(query.result)
      PROVE  Recorded
  <2>1. Clean /\ Good(last) => query.result = last.yields /\ ~Failed
    BY <1>8, ExecutedYields
  <2>2. at = phase /\ at # "idle" /\ at # "calling" /\ call.at \notin {"posted", "sleeping"}
    BY <1>1, <1>8 DEF Executed, Placed
  <2>3. CASE Failed /\ Record("sql_failed", FALSE)
    <3>1. Recording(last, "sql_failed")
      BY <1>8, <2>1, <2>2, <2>3, FailureRecords
    <3>2. QED
      BY <1>1, <3>1
  <2>4. CASE ~Failed /\ Scored(query.result)
    <3>1. Recording(last, "scored")
      BY <1>1, <1>8, <2>1, <2>2, <2>4, ScoredRecords DEF Scored
    <3>2. QED
      BY <1>1, <3>1
  <2>5. QED
    BY <1>8, <2>3, <2>4
<1>9. CASE GrammarScored
  BY <1>8, <1>9 DEF GrammarScored
<1>10. CASE ResultsOkScored
  BY <1>8, <1>10 DEF ResultsOkScored
<1>11. CASE TextAnswered
  BY <1>8, <1>11 DEF TextAnswered
<1>12. CASE QueryFailed
  BY <1>8, <1>12 DEF QueryFailed, Retold
<1>13. CASE FromMemory
  <2>1. PICK e \in executed : ScoredOf(e[1], e[2])
    BY <1>13 DEF FromMemory
  <2>2. e[1] \in Texts
    BY <2>1 DEF Typed
  <2>3. Clean /\ Good(e[1]) => e[2] = e[1].yields
    BY <2>1 DEF Sound, Faithful
  <2>4. Recording(e[1], "scored")
    BY <1>13, <2>1, <2>2, <2>3, ScoredRecords DEF FromMemory
  <2>5. QED
    BY <2>2, <2>4
<1>14. CASE GrammarReply \/ RunSqlQuery \/ SqlInText
  BY <1>1, <1>14 DEF GrammarReply, RunSqlQuery, SqlInText, Trying, Placed
<1>15. QED
  BY <1>2, <1>3, <1>4, <1>5, <1>6, <1>7, <1>9, <1>10, <1>11, <1>12, <1>13, <1>14
  DEF QuestionMoves

LEMMA PlacedNext ==
  ASSUME Typed, Sound, [Next]_vars
  PROVE  Placed'
<1>1. Placed
  BY DEF Sound
<1> USE Questioned DEF Placed
<1>2. CASE CallMoves
  <2>1. call.at \in {"posted", "sleeping"}
    BY <1>2 DEF CallMoves, CallStep, Reloaded, CallIsCut, RetryWithoutReasoning, WaitForReload,
       RetryWithoutTools, CallSucceeds, CallRaises, Returned
  <2>2. QED
    BY <1>1, <1>2, <2>1 DEF CallMoves
<1>3. CASE SessionMoves \/ UNCHANGED vars
  BY <1>1, <1>3 DEF SessionMoves, vars, callVars
<1>4. CASE StartQuestion
  BY <1>1, <1>4 DEF StartQuestion, At
<1>5. CASE SetupDone \/ NextCall
  BY <1>1, <1>5 DEF SetupDone, NextCall, Executed
<1>6. CASE ToolsReply
  BY <1>1, <1>6 DEF ToolsReply, callVars
<1>7. CASE ToolAnswered
  BY <1>1, <1>7 DEF ToolAnswered, Executed, callVars
<1>8. CASE ResultsOk
  BY <1>1, <1>8 DEF ResultsOk, callVars
<1>9. ASSUME NEW s \in Statements, Trying(s, "trying") \/ Trying(s, "text") PROVE Placed'
  BY <1>1, <1>9 DEF Trying, Try, callVars
<1>10. CASE Retold
  BY <1>1, <1>10 DEF Retold, Executed, callVars
<1>11. ASSUME NEW sql \in Texts, NEW kind, Recording(sql, kind) PROVE Placed'
  BY <1>1, <1>11 DEF Recording, callVars
<1>12. QED
  BY <1>2, <1>3, <1>4, <1>5, <1>6, <1>7, <1>8, <1>9, <1>10, <1>11, NextCases, QuestionCases

LEMMA CountedSentStep ==
  ASSUME CallTyped, CountedSent, CallStep
  PROVE  CountedSent'
<1>1. request \in Requests /\ sent \in Nat /\ request.effort \in BOOLEAN
  BY DEF CallTyped, Requests
<1> USE DEF CountedSent, Dropped
<1>2. CASE Reloaded
  <2>1. /\ call.at = "sleeping" /\ call.stage = "first" /\ request.tools /\ sent <= 2
        /\ call'.at = "posted" /\ call'.stage = "retry"
        /\ body'.reasoning = request.effort /\ sent' = sent + 1 /\ request' = request
    BY <1>2 DEF Reloaded, Post
  <2>2. QED
    BY <1>1, <2>1
<1>3. CASE CallIsCut
  BY <1>3 DEF CallIsCut, Ends, At
<1>4. ASSUME NEW a \in Answers, RetryWithoutReasoning(a) PROVE CountedSent'
  <2>1. /\ call.at = "posted" /\ body.reasoning /\ request.effort
        /\ sent' = sent + 1 /\ request' = request /\ call' = call
    BY <1>4 DEF RetryWithoutReasoning
  <2>2. ~body'.reasoning
    BY <1>4 DEF RetryWithoutReasoning, CallTyped
  <2>3. QED
    BY <1>1, <2>1, <2>2
<1>5. ASSUME NEW a \in Answers, WaitForReload(a) PROVE CountedSent'
  <2>1. /\ call.at = "posted" /\ call.stage = "first" /\ request.tools
        /\ UNCHANGED <<request, body, sent>>
    BY <1>5 DEF WaitForReload, Returned, SecondTry
  <2>2. call'.at = "sleeping" /\ call'.stage = "first"
    BY <1>5, <2>1 DEF WaitForReload, CallTyped
  <2>3. QED
    BY <1>1, <2>1, <2>2
<1>6. ASSUME NEW a \in Answers, RetryWithoutTools(a) PROVE CountedSent'
  <2>1. /\ call.at = "posted" /\ call.stage = "first" /\ request.tools
        /\ call'.at = "posted" /\ call'.stage = "plain"
        /\ body'.reasoning = request.effort /\ sent' = sent + 1 /\ request' = request
    BY <1>6 DEF RetryWithoutTools, Returned, SecondTry, Post
  <2>2. QED
    BY <1>1, <2>1
<1>7. ASSUME NEW a \in Answers, CallSucceeds(a) \/ CallRaises(a) PROVE CountedSent'
  BY <1>7 DEF CallSucceeds, CallRaises, Ends, At
<1>8. QED
  BY <1>2, <1>3, <1>4, <1>5, <1>6, <1>7, CallCases

(* Of the question's steps only those that begin a call touch one. *)
LEMMA CallAside ==
  ASSUME Typed, Sound, QuestionMoves
  PROVE  StartQuestion \/ SetupDone \/ NextCall \/ UNCHANGED callVars
<1>1. \A s \in Statements : Trying(s, "trying") \/ Trying(s, "text") => UNCHANGED callVars
  BY DEF Trying, Try
<1>2. \A sql, kind : Recording(sql, kind) => UNCHANGED callVars
  BY DEF Recording
<1>3. ToolsReply \/ ToolAnswered \/ ResultsOk \/ Retold => UNCHANGED callVars
  BY DEF ToolsReply, ToolAnswered, ResultsOk, Retold
<1>4. QED
  BY <1>1, <1>2, <1>3, QuestionCases

LEMMA CountedSentNext ==
  ASSUME Typed, Sound, [Next]_vars
  PROVE  CountedSent'
<1>1. CountedSent /\ CallTyped
  BY TypedParts DEF Sound
<1>2. CASE CallMoves
  BY <1>1, <1>2, CountedSentStep DEF CallMoves
<1>3. CASE UNCHANGED callVars
  BY <1>1, <1>3 DEF callVars, CountedSent, Dropped
<1>4. CASE StartQuestion
  BY <1>4 DEF StartQuestion, CountedSent, At
<1>5. CASE SetupDone \/ NextCall
  <2>1. /\ call'.at = "posted" /\ call'.stage = "first"
        /\ body'.reasoning = request.effort /\ sent' = 1 /\ request' = request
    BY <1>5 DEF SetupDone, NextCall, BeginCall, Post
  <2>2. QED
    BY <2>1 DEF CountedSent, Dropped
<1>6. QED
  BY <1>2, <1>3, <1>4, <1>5, NextCases, CallAside DEF SessionMoves, vars

LEMMA ReportedNext ==
  ASSUME Typed, Sound, [Next]_vars
  PROVE  Reported'
<1>1. /\ Reported /\ Placed /\ CountedSent /\ CallTyped
  BY TypedParts DEF Sound
<1>2. CASE CallMoves
  <2>1. at # "idle" /\ row = NoRow /\ row' = NoRow
    <3>1. call.at \in {"posted", "sleeping"}
      BY <1>2 DEF CallMoves, CallStep, Reloaded, CallIsCut, RetryWithoutReasoning,
         WaitForReload, RetryWithoutTools, CallSucceeds, CallRaises, Returned
    <3>2. QED
      BY <1>1, <1>2, <3>1 DEF CallMoves, Placed
  <2>2. SUFFICES /\ fallback' = refused'
                 /\ bare' => refused'
                 /\ call'.at = "posted" /\ request'.effort /\ ~body'.reasoning => refused'
    BY <2>1 DEF Reported, Dropped
  <2> USE DEF Reported, Dropped
  <2>3. CASE Reloaded
    BY <1>1, <2>3 DEF Reloaded, Post
  <2>4. CASE CallIsCut
    BY <1>1, <2>4 DEF CallIsCut, Ends, At
  <2>5. ASSUME NEW a \in Answers, RetryWithoutReasoning(a)
        PROVE  fallback' = refused' /\ refused'
    BY <2>5 DEF RetryWithoutReasoning
  <2>6. ASSUME NEW a \in Answers, WaitForReload(a)
        PROVE  UNCHANGED <<fallback, refused, bare>> /\ call'.at = "sleeping"
    BY <1>1, <2>6 DEF WaitForReload, CallTyped
  <2>7. ASSUME NEW a \in Answers, RetryWithoutTools(a)
        PROVE  /\ UNCHANGED <<fallback, refused, bare>>
               /\ body'.reasoning = request.effort /\ request' = request
    BY <2>7 DEF RetryWithoutTools, Post
  <2>8. ASSUME NEW a \in Answers, CallSucceeds(a)
        PROVE  fallback' = refused' /\ (bare' => refused') /\ call'.at = "answered"
    BY <1>1, <2>8 DEF CallSucceeds, Returned, Ends, At
  <2>9. ASSUME NEW a \in Answers, CallRaises(a)
        PROVE  UNCHANGED <<fallback, refused, bare>> /\ call'.at = "raised"
    BY <2>9 DEF CallRaises, Ends, At
  <2>10. CallStep
    BY <1>2 DEF CallMoves
  <2>11. QED
    BY <1>1, <2>3, <2>4, <2>5, <2>6, <2>7, <2>8, <2>9, <2>10, CallCases
<1>3. CASE SessionMoves \/ UNCHANGED vars
  BY <1>1, <1>3 DEF SessionMoves, vars, callVars, Reported, Dropped
<1>4. CASE StartQuestion
  BY <1>4 DEF StartQuestion, At, Reported, Dropped
<1>5. CASE SetupDone \/ NextCall
  <2>1. /\ body'.reasoning = request.effort /\ request' = request
        /\ UNCHANGED <<fallback, refused, bare, row>>
    BY <1>5 DEF SetupDone, NextCall, BeginCall, Post
  <2>2. QED
    BY <1>1, <2>1 DEF Reported, Dropped
<1>6. CASE ToolsReply \/ ToolAnswered \/ ResultsOk \/ Retold
           \/ \E s \in Statements : Trying(s, "trying") \/ Trying(s, "text")
  <2>1. UNCHANGED <<callVars, row>>
    BY <1>6 DEF ToolsReply, ToolAnswered, ResultsOk, Retold, Trying, Try
  <2>2. QED
    BY <1>1, <2>1 DEF callVars, Reported, Dropped
<1>7. ASSUME NEW sql \in Texts, NEW kind, Recording(sql, kind) PROVE Reported'
  BY <1>1, <1>7 DEF Recording, callVars, Reported, Dropped
<1>8. QED
  BY <1>2, <1>3, <1>4, <1>5, <1>6, <1>7, NextCases, QuestionCases

-----------------------------------------------------------------------------
(***************************************************************************)
(* The session: harm stays harm, and each step of a watchdog or of its     *)
(* statement keeps the account of the interrupts.                          *)
(***************************************************************************)
LEMMA HarmStays ==
  ASSUME SessionTyped, SessionStep
  PROVE  /\ session = "changed" => session' = "changed"
         /\ overruns <= overruns'
         /\ Clean' => Clean
<1> USE DEF SessionTyped, Clean
<1>1. CASE WatchdogFires \/ WatchdogInterrupts \/ StrayInterrupts \/ CancelWatchdog
  BY <1>1 DEF WatchdogFires, WatchdogInterrupts, StrayInterrupts, CancelWatchdog
<1>2. CASE StatementEnds
  BY <1>2 DEF StatementEnds, Wrote
<1>3. CASE StatementInterrupted
  <2>1. /\ session' \in {session, "changed"} /\ overruns' = overruns
        /\ spoiled' \in {spoiled, spoiled + 1}
    BY <1>3 DEF StatementInterrupted, Wrote
  <2>2. QED
    BY <2>1
<1>4. QED
  BY <1>1, <1>2, <1>3 DEF SessionStep

LEMMA QueryKept ==
  ASSUME SessionTyped, SessionStep
  PROVE  /\ UNCHANGED <<query.pace, query.writes, query.yields>>
         /\ query.at # "none" => query'.at # "none"
<1>1. CASE UNCHANGED query
  BY <1>1
<1>2. CASE StatementEnds
  BY <1>2 DEF StatementEnds, SessionTyped
<1>3. CASE StatementInterrupted
  BY <1>3 DEF StatementInterrupted, SessionTyped
<1>4. CASE CancelWatchdog
  BY <1>4 DEF CancelWatchdog, SessionTyped
<1>5. QED
  BY <1>1, <1>2, <1>3, <1>4 DEF SessionStep, WatchdogFires, WatchdogInterrupts, StrayInterrupts

LEMMA BudgetedStep ==
  ASSUME SessionTyped, Budgeted, SessionStep
  PROVE  Budgeted'
<1>1. UNCHANGED <<query.pace, query.writes, query.yields>>
  BY QueryKept
<1> USE DEF SessionTyped, Budgeted, TimeoutIsEarned, One
<1>2. CASE WatchdogFires
  BY <1>2 DEF WatchdogFires
<1>3. CASE WatchdogInterrupts
  BY <1>3 DEF WatchdogInterrupts
<1>4. CASE StrayInterrupts
  BY <1>4 DEF StrayInterrupts
<1>5. CASE StatementEnds
  <2>1. query.at = "running" /\ query'.at = "ended"
        /\ UNCHANGED <<watchdog, strays, pending, overruns, spoiled>>
    BY <1>5 DEF StatementEnds
  <2>2. query'.result = "timeout" => watchdog # "armed"
    <3>1. PICK r \in IF session = "intact" THEN {query.yields} ELSE Results :
            query' = [query EXCEPT !.at = "ended",
                                   !.result = IF r = "error" THEN Failure ELSE r]
      BY <1>5 DEF StatementEnds
    <3>2. r # "timeout"
      BY Questioned
    <3>3. query'.result = IF r = "error" THEN Failure ELSE r
      BY <3>1
    <3>4. QED
      BY <3>2, <3>3 DEF Failure
  <2>3. QED
    BY <1>1, <2>1, <2>2
<1>6. CASE StatementInterrupted
  <2>1. /\ query.at = "running" /\ query'.at = "ended" /\ query'.result = Failure /\ pending
        /\ spoiled' = IF watchdog = "armed" THEN spoiled + 1 ELSE spoiled
        /\ UNCHANGED <<watchdog, strays, pending, overruns>>
    BY <1>6 DEF StatementInterrupted
  <2>2. QED
    BY <1>1, <2>1 DEF Failure
<1>7. CASE CancelWatchdog
  <2>1. /\ query.at = "ended" /\ query'.at = "done" /\ query'.result = query.result
        /\ strays' = IF watchdog = "fired" THEN strays + 1 ELSE strays
        /\ watchdog' = "off"
        /\ UNCHANGED <<pending, session, overruns, spoiled>>
    BY <1>7 DEF CancelWatchdog
  <2>2. QED
    BY <1>1, <2>1
<1>8. QED
  BY <1>2, <1>3, <1>4, <1>5, <1>6, <1>7 DEF SessionStep

LEMMA ExecuteBudgeted ==
  ASSUME SessionTyped, Budgeted, NEW s \in Texts, Execute(s)
  PROVE  Budgeted'
<1>1. /\ watchdog = "off" /\ watchdog' = "armed" /\ ~pending'
      /\ query'.at = "running" /\ query'.result = "none"
      /\ UNCHANGED <<strays, overruns, spoiled>>
  BY DEF Execute, SessionTyped, Budgeted
<1>2. QED
  BY <1>1 DEF SessionTyped, Budgeted, TimeoutIsEarned, One

(* Of the question's steps only those that execute a statement touch it. *)
LEMMA SessionAside ==
  ASSUME Typed, Sound, QuestionMoves
  PROVE  (\E s \in Texts : Execute(s)) \/ UNCHANGED sessionVars
<1>1. \A s \in Statements : Trying(s, "trying") \/ Trying(s, "text") => s \in Texts /\ Execute(s)
  BY Questioned DEF Trying, Try
<1>2. StartQuestion => ExpectedSql \in Texts /\ Execute(ExpectedSql)
  BY Questioned DEF StartQuestion
<1>3. ResultsOk => last \in Texts /\ Execute(last)
  BY DEF ResultsOk, Typed
<1>4. \A sql, kind : Recording(sql, kind) => UNCHANGED sessionVars
  BY DEF Recording
<1>5. SetupDone \/ NextCall \/ ToolsReply \/ ToolAnswered \/ Retold => UNCHANGED sessionVars
  BY DEF SetupDone, NextCall, ToolsReply, ToolAnswered, Retold
<1>6. QED
  BY <1>1, <1>2, <1>3, <1>4, <1>5, QuestionCases

LEMMA BudgetedNext ==
  ASSUME Typed, Sound, [Next]_vars
  PROVE  Budgeted'
<1>1. Budgeted /\ SessionTyped
  BY TypedParts DEF Sound
<1>2. CASE SessionMoves
  BY <1>1, <1>2, BudgetedStep DEF SessionMoves
<1>3. CASE UNCHANGED sessionVars
  BY <1>1, <1>3 DEF sessionVars, Budgeted, TimeoutIsEarned, One
<1>4. CASE \E s \in Texts : Execute(s)
  BY <1>1, <1>4, ExecuteBudgeted
<1>5. QED
  BY <1>2, <1>3, <1>4, NextCases, SessionAside DEF CallMoves, vars

LEMMA SetupIsHarmlessNext ==
  ASSUME Typed, Sound, [Next]_vars
  PROVE  SetupIsHarmless'
<1>1. SetupIsHarmless /\ Budgeted /\ SessionTyped
  BY TypedParts DEF Sound
<1> USE DEF SetupIsHarmless, SetupFailsOnlyIfHarmed
<1>2. CASE SessionMoves
  <2>1. /\ UNCHANGED <<at, row, query.pace, query.writes, query.yields>>
        /\ query.at # "none" => query'.at # "none"
        /\ session = "changed" => session' = "changed"
        /\ overruns <= overruns'
    BY <1>1, <1>2, QueryKept, HarmStays DEF SessionMoves
  <2>2. overruns \in Nat /\ overruns' \in Nat
    BY <1>1, <1>2, SessionTypedStep DEF SessionMoves, SessionTyped
  <2>3. SUFFICES ASSUME at = "setup", query'.at \in {"ended", "done"}, query'.result \in Failures
                 PROVE  session' = "changed" \/ overruns' > 0
    BY <1>1, <2>1, <2>2
  <2>4. query.pace = "quick" /\ ~query.writes /\ query.yields = "rounded"
    BY <1>1, <2>3
  <2>5. CASE pending \/ session = "changed"
    BY <1>1, <2>1, <2>2, <2>5 DEF Budgeted
  <2>6. CASE ~pending /\ session = "intact"
    <3>1. CASE StatementEnds
      <4>1. query'.result = "rounded"
        BY <1>1, <2>4, <2>6, <3>1 DEF StatementEnds, SessionTyped
      <4>2. QED
        BY <2>3, <4>1 DEF Failures
    <3>2. CASE UNCHANGED query
      BY <1>1, <2>1, <2>2, <2>3, <3>2
    <3>3. CASE CancelWatchdog
      <4>1. query.at = "ended" /\ query'.result = query.result
        BY <1>1, <3>3 DEF CancelWatchdog, SessionTyped
      <4>2. QED
        BY <1>1, <2>1, <2>2, <2>3, <4>1
    <3>4. CASE StatementInterrupted
      BY <2>6, <3>4 DEF StatementInterrupted
    <3>5. QED
      BY <1>2, <3>1, <3>2, <3>3, <3>4
      DEF SessionMoves, SessionStep, WatchdogFires, WatchdogInterrupts, StrayInterrupts
  <2>7. QED
    BY <1>1, <2>5, <2>6 DEF SessionTyped
<1>3. CASE CallMoves \/ UNCHANGED vars
  BY <1>1, <1>3 DEF CallMoves, vars, sessionVars
<1>4. CASE StartQuestion
  <2>1. row' = NoRow /\ query'.at = "running" /\ query'.pace = "quick" /\ query'.writes = FALSE
        /\ query'.yields = "rounded"
    BY <1>4 DEF StartQuestion, Execute, ExpectedSql
  <2>2. QED
    BY <2>1 DEF NoRow
<1>5. CASE SetupDone \/ NextCall \/ ToolsReply \/ ToolAnswered \/ Retold
  BY <1>1, <1>5 DEF SetupDone, NextCall, ToolsReply, ToolAnswered, Retold, sessionVars
<1>6. CASE ResultsOk \/ \E s \in Statements : Trying(s, "trying") \/ Trying(s, "text")
  <2>1. at' # "setup" /\ UNCHANGED <<row, session, overruns>>
    BY <1>6 DEF ResultsOk, Trying, Try, Execute
  <2>2. QED
    BY <1>1, <2>1
<1>7. ASSUME NEW sql \in Texts, NEW kind, Recording(sql, kind) PROVE SetupIsHarmless'
  BY <1>7 DEF Recording, sessionVars
<1>8. QED
  BY <1>2, <1>3, <1>4, <1>5, <1>6, <1>7, NextCases, QuestionCases

(***************************************************************************)
(* A good statement in an unharmed session: it yields what it should, as   *)
(* an interrupt that hits it would be a harm.                              *)
(***************************************************************************)
Yields(q) == q.at \in {"ended", "done"} /\ Clean /\ Good(q) => q.result = q.yields

LEMMA YieldsStep ==
  ASSUME SessionTyped, Budgeted, SessionStep, Yields(query)
  PROVE  Yields(query)'
<1>1. /\ UNCHANGED <<query.pace, query.writes, query.yields>>
      /\ Clean' => Clean
  BY QueryKept, HarmStays
<1>2. SUFFICES ASSUME query'.at \in {"ended", "done"}, Clean', Clean, Good(query)
               PROVE  query'.result = query.yields
  BY <1>1 DEF Yields, Good
<1>3. CASE WatchdogFires \/ WatchdogInterrupts \/ StrayInterrupts
  BY <1>1, <1>2, <1>3 DEF WatchdogFires, WatchdogInterrupts, StrayInterrupts, Yields
<1>4. CASE StatementEnds
  <2>1. query' = [query EXCEPT !.at = "ended",
                               !.result = IF query.yields = "error" THEN Failure ELSE query.yields]
    BY <1>2, <1>4 DEF StatementEnds, Clean
  <2>2. query.yields # "error"
    BY <1>2 DEF Good
  <2>3. QED
    BY <2>1, <2>2 DEF SessionTyped
<1>5. CASE StatementInterrupted
  <2>1. watchdog = "armed"
    BY <1>2, <1>5 DEF StatementInterrupted, SessionTyped, Budgeted, Good
  <2>2. spoiled' = spoiled + 1 /\ spoiled \in Nat
    BY <1>5, <2>1 DEF StatementInterrupted, SessionTyped
  <2>3. QED
    BY <1>2, <2>2 DEF Clean
<1>6. CASE CancelWatchdog
  <2>1. query.at = "ended" /\ query'.result = query.result
    BY <1>6 DEF CancelWatchdog, SessionTyped
  <2>2. QED
    BY <1>2, <2>1 DEF Yields
<1>7. QED
  BY <1>3, <1>4, <1>5, <1>6 DEF SessionStep

LEMMA YieldsNext ==
  ASSUME Typed, Sound, [Next]_vars
  PROVE  Yields(query)'
<1>1. SessionTyped /\ Budgeted /\ Yields(query)
  BY TypedParts DEF Sound, Faithful, Yields
<1>2. CASE SessionMoves
  BY <1>1, <1>2, YieldsStep DEF SessionMoves
<1>3. CASE UNCHANGED sessionVars
  BY <1>1, <1>3 DEF sessionVars, Yields, Clean
<1>4. CASE \E s \in Texts : Execute(s)
  <2>1. query'.at = "running"
    BY <1>4 DEF Execute
  <2>2. QED
    BY <2>1 DEF Yields
<1>5. QED
  BY <1>2, <1>3, <1>4, NextCases, SessionAside DEF CallMoves, vars

(* The statement in the session is the last one of the question. *)
LastIsRun ==
  at \in {"trying", "text", "confirming"} =>
    query.at # "none" /\ query.pace = last.pace /\ query.writes = last.writes
      /\ query.yields = last.yields

LEMMA LastIsRunNext ==
  ASSUME Typed, Sound, [Next]_vars
  PROVE  LastIsRun'
<1>1. SessionTyped /\ LastIsRun
  BY TypedParts DEF Sound, Faithful, LastIsRun
<1> USE DEF LastIsRun
<1>2. CASE SessionMoves
  <2>1. /\ UNCHANGED <<at, last, query.pace, query.writes, query.yields>>
        /\ query.at # "none" => query'.at # "none"
    BY <1>1, <1>2, QueryKept DEF SessionMoves
  <2>2. QED
    BY <1>1, <2>1
<1>3. CASE CallMoves \/ UNCHANGED vars
  BY <1>1, <1>3 DEF CallMoves, vars, sessionVars
<1>4. CASE StartQuestion \/ SetupDone \/ NextCall \/ ToolsReply \/ ToolAnswered \/ Retold
  BY <1>4 DEF StartQuestion, SetupDone, NextCall, ToolsReply, ToolAnswered, Retold
<1>5. CASE ResultsOk
  BY <1>5 DEF ResultsOk, Execute
<1>6. ASSUME NEW s \in Statements, Trying(s, "trying") \/ Trying(s, "text") PROVE LastIsRun'
  BY <1>6 DEF Trying, Try, Execute
<1>7. ASSUME NEW sql \in Texts, NEW kind, Recording(sql, kind) PROVE LastIsRun'
  BY <1>7 DEF Recording
<1>8. QED
  BY <1>2, <1>3, <1>4, <1>5, <1>6, <1>7, NextCases, QuestionCases

(* What executed_sql remembers, and that it remembers a good statement. *)
Remembers ==
  /\ \A e \in executed : Clean /\ Good(e[1]) => e[2] = e[1].yields
  /\ at \in {"calling", "handling"} /\ Clean /\ Good(last) => \E e \in executed : e[1] = last

LEMMA RemembersNext ==
  ASSUME Typed, Sound, [Next]_vars
  PROVE  Remembers'
<1>1. SessionTyped /\ Remembers /\ Placed
  BY TypedParts DEF Sound, Faithful, Remembers
<1>2. (CallMoves \/ SessionMoves \/ UNCHANGED vars) => (Clean' => Clean)
  BY <1>1, HarmStays DEF CallMoves, SessionMoves, vars, sessionVars, Clean
<1>3. CASE CallMoves \/ SessionMoves \/ UNCHANGED vars
  <2>1. UNCHANGED <<at, last, executed>>
    BY <1>3 DEF CallMoves, SessionMoves, vars
  <2>2. Clean' => Clean
    BY <1>2, <1>3
  <2> HIDE DEF Clean
  <2>3. QED
    BY <1>1, <2>1, <2>2 DEF Remembers, Good
<1>4. CASE StartQuestion
  BY <1>4 DEF StartQuestion, Remembers
<1>5. CASE SetupDone
  <2>1. last' = NoSql /\ executed' = {}
    BY <1>1, <1>5 DEF SetupDone, Executed, Placed
  <2>2. ~Good(NoSql)
    BY DEF Good, NoSql
  <2>3. QED
    BY <2>1, <2>2 DEF Remembers, Good
<1>6. CASE NextCall \/ ToolsReply
  <2>1. UNCHANGED <<last, executed, session, spoiled>> /\ at \in {"calling", "handling"}
    BY <1>6 DEF NextCall, ToolsReply, sessionVars
  <2>2. QED
    BY <1>1, <2>1 DEF Remembers, Good, Clean
<1>7. CASE ToolAnswered
  <2>1. /\ executed' = executed \cup {<<last, query.result>>}
        /\ UNCHANGED <<last, session, spoiled>>
        /\ Executed("trying")
    BY <1>7 DEF ToolAnswered, sessionVars
  <2>2. Clean /\ Good(last) => query.result = last.yields
    BY <2>1, ExecutedYields
  <2>3. Clean' <=> Clean
    BY <2>1 DEF Clean
  <2>4. \A e \in executed' : Clean /\ Good(e[1]) => e[2] = e[1].yields
    <3>1. SUFFICES ASSUME NEW e \in executed', Clean, Good(e[1]) PROVE e[2] = e[1].yields
      OBVIOUS
    <3>2. CASE e \in executed
      BY <1>1, <3>1, <3>2 DEF Remembers
    <3>3. CASE e = <<last, query.result>>
      BY <2>2, <3>1, <3>3
    <3>4. QED
      BY <2>1, <3>2, <3>3
  <2>5. <<last, query.result>> \in executed' /\ <<last, query.result>>[1] = last
    BY <2>1
  <2>6. \E e \in executed' : e[1] = last
    BY <2>5
  <2>7. QED
    BY <2>1, <2>3, <2>4, <2>6 DEF Remembers, Good
<1>8. CASE ResultsOk \/ \E s \in Statements : Trying(s, "trying") \/ Trying(s, "text")
  <2>1. at' \notin {"calling", "handling"} /\ UNCHANGED <<executed, session, spoiled>>
    BY <1>8 DEF ResultsOk, Trying, Try, Execute
  <2>2. QED
    BY <1>1, <2>1 DEF Remembers, Good, Clean
<1>9. CASE Retold
  <2>1. UNCHANGED <<last, executed, session, spoiled>>
    BY <1>9 DEF Retold, sessionVars
  <2>2. ~(Clean /\ Good(last))
    BY <1>9, ExecutedYields DEF Retold
  <2>3. QED
    BY <1>1, <2>1, <2>2 DEF Remembers, Good, Clean
<1>10. ASSUME NEW sql \in Texts, NEW kind, Recording(sql, kind) PROVE Remembers'
  BY <1>1, <1>10 DEF Recording, sessionVars, Remembers, Good, Clean
<1>11. QED
  BY <1>3, <1>4, <1>5, <1>6, <1>7, <1>8, <1>9, <1>10, NextCases, QuestionCases

LEMMA PassesNext ==
  ASSUME Typed, Sound, [Next]_vars
  PROVE  CorrectQueryPasses'
<1>1. CorrectQueryPasses
  BY DEF Sound, Faithful
<1>2. CASE UNCHANGED row
  BY <1>1, <1>2 DEF CorrectQueryPasses
<1>3. CASE StartQuestion
  BY <1>3 DEF StartQuestion, CorrectQueryPasses, NoRow
<1>4. ASSUME NEW sql \in Texts, NEW kind, Recording(sql, kind) PROVE CorrectQueryPasses'
  BY <1>4 DEF Recording, CorrectQueryPasses, Good
<1>5. QED
  BY <1>2, <1>3, <1>4, NextCases, QuestionCases
  DEF CallMoves, SessionMoves, vars, SetupDone, NextCall, ToolsReply, ToolAnswered, ResultsOk,
      Trying, Try, Retold

-----------------------------------------------------------------------------
LEMMA SoundNext ==
  ASSUME Typed, Sound, [Next]_vars
  PROVE  Typed' /\ Sound'
<1>1. Typed' /\ Placed' /\ CountedSent' /\ Reported' /\ Budgeted' /\ SetupIsHarmless'
  BY TypedNext, PlacedNext, CountedSentNext, ReportedNext, BudgetedNext, SetupIsHarmlessNext
<1>2. Faithful'
  BY YieldsNext, LastIsRunNext, RemembersNext, PassesNext DEF Faithful, Yields, LastIsRun, Remembers
<1>3. QED
  BY <1>1, <1>2 DEF Sound

LEMMA AlwaysSound == Spec => [](Typed /\ Sound)
<1>1. Init => Typed /\ Sound
  BY TypedInit, SoundInit
<1>2. Typed /\ Sound /\ [Next]_vars => (Typed /\ Sound)'
  BY SoundNext
<1>3. QED
  BY <1>1, <1>2, PTL DEF Spec

(***************************************************************************)
(* The state of the question, of its call and of the connection keep their *)
(* types, and a conversation its limits on calls and statements.           *)
(***************************************************************************)
THEOREM TypeCorrect == Spec => []TypeOK
<1>1. Typed => TypeOK
  BY DEF Typed
<1>2. QED
  BY <1>1, AlwaysSound, PTL

(***************************************************************************)
(* However the endpoint refuses, a call (call_llm_single,                  *)
(* call_llm_tool_calling) costs two requests, or four with tools, and a    *)
(* row says exactly if the reasoning field was given up.                   *)
(***************************************************************************)
THEOREM RetriesAccounted == Spec => []RetriesAreAccounted
<1>1. Typed /\ Sound => RetriesAreAccounted
  <2>1. Typed /\ Sound => CallIsBounded
    BY TypedParts DEF Sound, CallTyped, CountedSent, CallIsBounded, Stages
  <2>2. Typed /\ Sound => FallbackIsReported
    BY DEF Sound, Reported, FallbackIsReported
  <2>3. QED
    BY <2>1, <2>2 DEF RetriesAreAccounted
<1>2. QED
  BY <1>1, AlwaysSound, PTL

(***************************************************************************)
(* The watchdogs of _execute_sql cancel no more statements than have       *)
(* overrun, a timeout is only said of a statement that did, and the setup  *)
(* of a question only fails after a statement that did harm.               *)
(***************************************************************************)
THEOREM InterruptsEarned == Spec => []InterruptsAreEarned
<1>1. Typed /\ Sound => InterruptsAreEarned
  <2>1. Typed /\ Sound => OneHitPerOverrun
    BY DEF Typed, Sound, Budgeted, One, OneHitPerOverrun
  <2>2. Typed /\ Sound => TimeoutIsEarned /\ SetupFailsOnlyIfHarmed
    BY DEF Sound, Budgeted, SetupIsHarmless
  <2>3. QED
    BY <2>1, <2>2 DEF InterruptsAreEarned
<1>2. QED
  BY <1>1, AlwaysSound, PTL

(***************************************************************************)
(* For every question and number: a read-only statement with the right     *)
(* answer passes in an unharmed session, on each of the ways by which the  *)
(* code comes to score it.                                                 *)
(***************************************************************************)
THEOREM CorrectQueriesPass == Spec => []CorrectQueryPasses
<1>1. Typed /\ Sound => CorrectQueryPasses
  BY DEF Sound, Faithful
<1>2. QED
  BY <1>1, AlwaysSound, PTL
=============================================================================

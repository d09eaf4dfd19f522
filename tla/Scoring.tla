------------------------------ MODULE Scoring ------------------------------
(***************************************************************************)
(* How the execution of a model's SQL is compared with what questions.json *)
(* says of the expected one: number of rows, columns up to spelling and    *)
(* order, and the first row up to rounding.  Numbers are in thousandths.   *)
(***************************************************************************)
EXTENDS Integers, Sequences, FiniteSets

Abs(n) == IF n < 0 THEN -n ELSE n

(***************************************************************************)
(* A value is [kind, n]: an "int" (n a multiple of 1000), a "float", or a  *)
(* "text".  str() of a float shows at least one decimal and no trailing    *)
(* zeros after it: 12.70 is 12.7, and 1322.00 is 1322.0.                   *)
(***************************************************************************)
IsNumber(v) == v.kind \in {"int", "float"}

(* The last decimal place of the value as it is written, in thousandths. *)
LastPlace(v) ==
  IF v.kind = "int" THEN 1000
  ELSE IF v.n % 100 = 0 THEN 100
  ELSE IF v.n % 10 = 0 THEN 10
  ELSE 1

(* Half a unit in the last place of the expected value, doubled. *)
RoundingTolerance2(expected) == LastPlace(expected)

ValueMatches(expected, actual) ==
  IF IsNumber(expected) /\ IsNumber(actual)
  THEN 2 * Abs(actual.n - expected.n) <= RoundingTolerance2(expected)
  ELSE expected = actual

(***************************************************************************)
(* A column name is [key, spelling]: "Fiscal Year", "fiscal_year" and      *)
(* "FiscalYear" are spellings of one key.                                  *)
(***************************************************************************)
NormalizeCol(c) == c.key
Keys(columns) == {NormalizeCol(columns[i]) : i \in DOMAIN columns}
Occurrences(k, columns) == Cardinality({i \in DOMAIN columns : NormalizeCol(columns[i]) = k})

(* The sorted lists of normalised names are equal. *)
ColumnsMatch(expected, actual) ==
  /\ Len(expected) = Len(actual)
  /\ \A k \in Keys(expected) \cup Keys(actual) :
       Occurrences(k, expected) = Occurrences(k, actual)

(* first_row as a dict over normalised names: the last column of a name wins. *)
FirstRow(x) ==
  [k \in Keys(x.columns) |->
    x.first[CHOOSE i \in DOMAIN x.columns :
              /\ NormalizeCol(x.columns[i]) = k
              /\ \A j \in DOMAIN x.columns : NormalizeCol(x.columns[j]) = k => j <= i]]

(* An execution is [count, columns, first]; without rows there is no first row. *)
FirstRowMatches(expected, actual) ==
  /\ actual.count > 0
  /\ Keys(expected.columns) = Keys(actual.columns)
  /\ \A k \in Keys(expected.columns) :
       ValueMatches(FirstRow(expected)[k], FirstRow(actual)[k])

(* Mutant: columns are compared in their order and spelling. *)
Success_Literal(expected, actual) ==
  /\ expected.count = actual.count
  /\ expected.columns = actual.columns
  /\ FirstRowMatches(expected, actual)

Success(expected, actual) ==
  /\ expected.count = actual.count
  /\ ColumnsMatch(expected.columns, actual.columns)
  /\ FirstRowMatches(expected, actual)

=============================================================================

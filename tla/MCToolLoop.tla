----------------------------- MODULE MCToolLoop -----------------------------
(* A right query, and a wrong one that does not even run once in a while. *)
EXTENDS ToolLoop

CONSTANTS right, wrong

RightAndWrong == {right, wrong}

MCVerdicts ==
  [s \in Sqls \cup {NoSql} |->
     IF s = right THEN {"match"} ELSE {"mismatch", "error"}]
=============================================================================

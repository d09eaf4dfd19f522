--------------------------- MODULE MCSqlQuestion ---------------------------
EXTENDS SqlQuestion

(* 12.698 rounds to 12.70, which is written 12.7; 7.4 to the whole number 7. *)
MCQuestions == {[truth |-> 12698, digits |-> 2], [truth |-> 7400, digits |-> 0]}

MCResults == {"rounded", "renamed", "off", "short", "nothing", "error"}

MCStatements ==
  {[pace |-> "quick", writes |-> FALSE, yields |-> y] : y \in {"renamed", "error"}}
    \cup {[pace |-> "slow", writes |-> FALSE, yields |-> "rounded"],
          [pace |-> "endless", writes |-> FALSE, yields |-> "error"],
          [pace |-> "quick", writes |-> TRUE, yields |-> "short"]}

(* Read-only answers of every kind, right and wrong. *)
MCAnswers == [pace : {"quick"}, writes : {FALSE}, yields : AnswerKinds]
MCAnswerResults == AnswerKinds \cup {"error"}
=============================================================================

----------------------------- MODULE MCSpeedJob -----------------------------
(* Small speed requests: two targets, the first with two models. *)
EXTENDS SpeedJob

TwoAndOne == <<2, 1>>
OnlyOne == <<1>>
BothModes == {"sequential", "parallel"}
ParallelOnly == {"parallel"}
=============================================================================

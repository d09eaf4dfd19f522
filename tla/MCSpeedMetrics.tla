--------------------------- MODULE MCSpeedMetrics ---------------------------
EXTENDS SpeedMetrics

Call(t, m, r) == [target |-> t, model |-> m, index |-> r]

(* Two models at a target of the first kind, one of them at one of the other
   kind as well. *)
TwoTargets == <<Call(1, 1, 1), Call(1, 2, 1), Call(2, 1, 1)>>
TwoKinds == <<"openai-compatible", "ollama">>

(* Repeated runs of one model. *)
OneTarget == <<Call(1, 1, 1), Call(1, 1, 2)>>
OneKind == <<"openai-compatible">>

(* Written out because TLC evaluates a plan wherever it is named. *)
ASSUME PlansAreTheRequests ==
  /\ RepeatCount = 1 => TwoTargets = PlanOf(<<<<1, 2>>, <<1>>>>)
  /\ RepeatCount = 2 => OneTarget = PlanOf(<<<<1>>>>)

OneSecond == {Second}
=============================================================================

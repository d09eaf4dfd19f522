------------------------------ MODULE MCSqlJob ------------------------------
(* Small SQL requests: two models and a few questions. *)
EXTENDS SqlJob

CONSTANTS a, b

TwoModels == <<a, b>>
OneBroken == <<"good", "broken", "good", "good">>
OneUnknown == <<"good", "good", "unknown">>
ToolCalling == {"tool-calling"}
BothModes == {"tool-calling", "grammar"}
=============================================================================

------------------------------ MODULE LlmCall ------------------------------
(***************************************************************************)
(* One call of the model's endpoint by a SQL question: call_llm_single of  *)
(* the grammar mode, call_llm_tool_calling of the tools mode, and          *)
(* post_openai_chat_with_reasoning_fallback under both.  The endpoint may  *)
(* refuse the reasoning field, the tools, or say that it is just           *)
(* reloading the model; each has a retry of its own, and the retries nest. *)
(* Several calls belong to one question and share its fallback_state.      *)
(***************************************************************************)
EXTENDS Naturals

VARIABLES
  request,   (* of the job: tools (sql_mode is "tools", not "grammar") and *)
             (* effort (a reasoning field is asked for)                    *)
  call,      (* where the call is                                          *)
  body,      (* what the last request carries: tools, the reasoning field  *)
  sent,      (* requests of this call                                      *)
  fallback,  (* fallback_state["used"] of the question                     *)
  refused,   (* history: the field has been refused to this question       *)
  bare       (* history: an answer was given without the field asked for   *)

callVars == <<request, call, body, sent, fallback, refused, bare>>

-----------------------------------------------------------------------------
(***************************************************************************)
(* An answer of the endpoint: its class, and for refusals which of the     *)
(* words the code looks for its text contains.  The texts are free, so any *)
(* of the words may come together.                                         *)
(***************************************************************************)
Words == {"reasoning", "unloaded", "tools"}
Answers ==
  [class : {"ok", "noChoices", "other"}, says : {{}}]
    \cup [class : {"400", "501"}, says : SUBSET Words]

(* The stages of call_llm_tool_calling; call_llm_single only has the first. *)
Stages == {"first", "retry", "plain"}
Requests == [tools : BOOLEAN, effort : BOOLEAN]
At(where) == [at |-> where, stage |-> "first"]
NoBody == [tools |-> FALSE, reasoning |-> FALSE]

CallInit ==
  /\ call = At("idle")
  /\ body = NoBody
  /\ sent = 0
  /\ request \in Requests
  /\ fallback = FALSE /\ refused = FALSE /\ bare = FALSE

(* post_openai_chat_with_reasoning_fallback up to its first await. *)
Post(stage, withTools) ==
  /\ call' = [at |-> "posted", stage |-> stage]
  /\ body' = [tools |-> withTools, reasoning |-> request.effort]

BeginCall ==
  /\ Post("first", request.tools)
  /\ sent' = 1
  /\ UNCHANGED <<request, fallback, refused, bare>>

(* _looks_like_reasoning_rejection *)
RejectsReasoning(a) == a.class = "400" /\ "reasoning" \in a.says

(* The same request once more, without the field; fallback_state learns it. *)
RetryWithoutReasoning(a) ==
  /\ call.at = "posted"
  /\ body.reasoning
  /\ RejectsReasoning(a)
  /\ body' = [body EXCEPT !.reasoning = FALSE]
  /\ sent' = sent + 1
  /\ fallback' = TRUE
  /\ refused' = TRUE
  /\ UNCHANGED <<request, call, bare>>

(* The answers that post_... hands back to its caller. *)
Returned(a) ==
  /\ call.at = "posted"
  /\ ~(body.reasoning /\ RejectsReasoning(a))

(* Only the first answer of a tools call is looked at for a second try. *)
SecondTry(a) ==
  /\ request.tools
  /\ call.stage = "first"
  /\ a.class \in {"400", "501"}
  /\ a.says \cap {"unloaded", "tools"} # {}

WaitForReload(a) ==
  /\ Returned(a)
  /\ SecondTry(a)
  /\ "unloaded" \in a.says
  /\ call' = [call EXCEPT !.at = "sleeping"]
  /\ UNCHANGED <<request, body, sent, fallback, refused, bare>>

Reloaded ==
  /\ call.at = "sleeping"
  /\ Post("retry", TRUE)
  /\ sent' = sent + 1
  /\ UNCHANGED <<request, fallback, refused, bare>>

(* Mutant: the plain answer may be looked at for a second try again. *)
RetryWithoutTools_Again(a) ==
  /\ Returned(a)
  /\ SecondTry(a)
  /\ "unloaded" \notin a.says
  /\ sent < 9
  /\ Post("first", FALSE)
  /\ sent' = sent + 1
  /\ UNCHANGED <<request, fallback, refused, bare>>

RetryWithoutTools(a) ==
  /\ Returned(a)
  /\ SecondTry(a)
  /\ "unloaded" \notin a.says
  /\ Post("plain", FALSE)
  /\ sent' = sent + 1
  /\ UNCHANGED <<request, fallback, refused, bare>>

(* The call returns or raises; its locals are gone. *)
Ends(outcome) ==
  /\ call' = At(outcome)
  /\ body' = NoBody
  /\ sent' = 0
  /\ UNCHANGED <<request, fallback, refused>>

CallSucceeds(a) ==
  /\ Returned(a)
  /\ a.class = "ok"
  /\ bare' = (bare \/ (request.effort /\ ~body.reasoning))
  /\ Ends("answered")

(* Refused for good, or a 2xx without choices. *)
CallRaises(a) ==
  /\ Returned(a)
  /\ a.class # "ok"
  /\ ~SecondTry(a)
  /\ Ends("raised")
  /\ UNCHANGED bare

(* A connection error, a timeout of the HTTP client, or, even while it waits
   for the model, the end of the question's budget. *)
CallIsCut ==
  /\ call.at \in {"posted", "sleeping"}
  /\ Ends("raised")
  /\ UNCHANGED bare

CallStep ==
  \/ Reloaded
  \/ CallIsCut
  \/ \E a \in Answers :
       \/ RetryWithoutReasoning(a) \/ WaitForReload(a) \/ RetryWithoutTools(a)
       \/ CallSucceeds(a) \/ CallRaises(a)

-----------------------------------------------------------------------------
(***************************************************************************)
(* However the refusals combine, a call sends at most two requests, four   *)
(* where it has tools to offer: no retry re-enables an earlier one.        *)
(***************************************************************************)
CallIsBounded == sent <= IF request.tools THEN 4 ELSE 2
=============================================================================

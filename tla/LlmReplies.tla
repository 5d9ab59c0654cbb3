----------------------------- MODULE LlmReplies -----------------------------
(***************************************************************************)
(* What a reply of the language model is taken for (src/broker/llm.py).    *)
(*                                                                         *)
(* A reply is a record: failed (the request raised), stop (why the model   *)
(* stopped), text, and calls, the tool calls it carries in order.  A call  *)
(* has a name and an input; valid says whether the input fits the schema   *)
(* of the tool it names.                                                   *)
(***************************************************************************)
EXTENDS Naturals, Sequences

\* _create: the request succeeded and the model did not refuse.
Usable(reply) == ~reply.failed /\ reply.stop # "refusal"

\* call_tool: the model stopped on exactly one tool use.
CallsOneTool(reply) ==
  Usable(reply) /\ reply.stop = "tool_use" /\ Len(reply.calls) = 1

\* The tail of every forced call (triage, ask_once, clarify, _propose): the tool was
\* offered and its input is valid.
Chooses(reply, offered) ==
  CallsOneTool(reply) /\ reply.calls[1].name \in offered /\ reply.calls[1].valid

\* The forced calls: the tool called, or the error the caller fails loud with.
Forced(reply, offered) == IF Chooses(reply, offered) THEN reply.calls[1].name ELSE "error"

Triage(reply)   == Forced(reply, {"answer", "escalate", "complete", "no_action"})
Propose(reply)  == Forced(reply, {"propose_prompt"})
Clarify(reply)  == Forced(reply, {"answer_clarification"})
Classify(reply) == Forced(reply, {"allow", "escalate"})

\* call_turn: a turn of free choice has text, or calls, or both.
TakesTurn(reply) == Usable(reply) /\ (reply.text # "" \/ reply.calls # <<>>)
=============================================================================

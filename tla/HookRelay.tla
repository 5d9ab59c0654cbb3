----------------------------- MODULE HookRelay -----------------------------
(***************************************************************************)
(* The hook client (src/broker/hook/__main__.py): one process per hook     *)
(* event.  What it sends the broker, what it reads back, and what it prints*)
(* for Claude Code, which is all the power it has over the session.        *)
(*                                                                         *)
(* A payload is a record: object (it is a JSON object), event, tool.  gate *)
(* says whether BROKER_SOCKET is set.  A conversation is what the socket   *)
(* does next: "part" (bytes without a newline), "line" (bytes that end the *)
(* reply), "closed", "silent" (the timeout of one recv).  A reply is a     *)
(* record: object, payload (it carries one), decision, updated.            *)
(***************************************************************************)
EXTENDS Naturals, Sequences, SequencesExt

CONSTANT MaxParts   \* MAX_LINE_BYTES, in parts

IsAsk(payload) == payload.event = "PreToolUse" /\ payload.tool = "AskUserQuestion"

\* The request main() sends: none outside the gate and for ordinary tool calls.
Sent(payload, gate) ==
  IF ~payload.object \/ ~gate \/ (payload.event = "PreToolUse" /\ ~IsAsk(payload)) THEN "nothing"
  ELSE IF payload.event = "PermissionRequest" THEN "permission_request"
  ELSE IF IsAsk(payload) THEN "ask_question"
  ELSE "hook_event"

\* _read_line: the newline comes before the cap, a close and a silence.
ReadsLine(conversation) ==
  LET parts == SelectInSeq(conversation, LAMBDA c : c # "part") - 1
  IN  /\ \E i \in DOMAIN conversation : conversation[i] # "part"
      /\ conversation[parts + 1] = "line"
      /\ parts <= MaxParts

\* Mutant of Allows: anything but an escalation is an allowance.
AllowsByDefault(reply) == reply.decision # "escalated"

Allows(reply)  == reply.decision = "allow"
Answers(reply) == reply.decision = "answer" /\ reply.updated

\* main(): the allowance, the answers, or nothing.  Every exception prints nothing.
Printed(payload, gate, conversation, reply) ==
  LET sent    == Sent(payload, gate)
      replied == ReadsLine(conversation) /\ reply.object /\ reply.payload
  IN  CASE sent = "permission_request" /\ replied /\ Allows(reply) -> "allow"
        [] sent = "ask_question" /\ replied /\ Answers(reply) -> "answers"
        [] OTHER -> "nothing"

-----------------------------------------------------------------------------
\* The hook prints an allowance only for a permission request the broker allowed, in a
\* whole line, answers only for a question it answered, and nothing else, ever
\* (hook/__main__.py:8).
PrintsWhatTheBrokerSaid(payload, gate, conversation, reply) ==
  LET out == Printed(payload, gate, conversation, reply) IN
  out # "nothing" =>
    /\ gate /\ reply.payload
    /\ \E i \in DOMAIN conversation :
         conversation[i] = "line" /\ \A j \in 1 .. i - 1 : conversation[j] = "part"
    /\ \/ /\ out = "allow"
          /\ payload.event = "PermissionRequest" /\ reply.decision = "allow"
       \/ /\ out = "answers"
          /\ payload.tool = "AskUserQuestion" /\ payload.event = "PreToolUse"
          /\ reply.decision = "answer" /\ reply.updated
=============================================================================

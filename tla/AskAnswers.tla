----------------------------- MODULE AskAnswers -----------------------------
(***************************************************************************)
(* Answering the coding agent's menu (src/broker/session/ask.py): the      *)
(* questions a hook carries, one model call that answers or escalates, the *)
(* check of its answers, and the one retry.                                *)
(*                                                                         *)
(* A question is a record of its text, its options (labels, in order),     *)
(* multi, and valid (its entry fits the schema).  An answer names a        *)
(* question by its text, selects labels, and has a free text, "" if blank. *)
(***************************************************************************)
EXTENDS Naturals, Sequences, SequencesExt, LlmReplies

Tools == {"answer_questions", "escalate"}

\* parse_questions: a menu that is not understood whole is not answered.
Parses(menu) ==
  menu # <<>> /\ \A i \in DOMAIN menu : menu[i].valid /\ menu[i].options # <<>>

\* by_text: of questions with the same text, the last.
ByText(menu, text) == menu[SelectLastInSeq(menu, LAMBDA q : q.text = text)]
Texts(menu)        == {menu[i].text : i \in DOMAIN menu}

\* Every question is answered exactly once.
Covers(answers, menu) ==
  /\ {answers[i].question : i \in DOMAIN answers} = Texts(menu)
  /\ \A i, j \in DOMAIN answers : answers[i].question = answers[j].question => i = j

\* Mutant of Fits: a single-select question takes several labels.
FitsLoosely(answer, question) ==
  /\ (answer.selected # <<>>) # (answer.free # "")
  /\ ToSet(answer.selected) \subseteq ToSet(question.options)

\* One answer fits its question: labels or free text, listed labels, no label twice,
\* and one label where one is asked for.
Fits(answer, question) ==
  /\ (answer.selected # <<>>) # (answer.free # "")
  /\ answer.free = "" =>
       /\ ToSet(answer.selected) \subseteq ToSet(question.options)
       /\ \A i, j \in DOMAIN answer.selected :
            answer.selected[i] = answer.selected[j] => i = j
       /\ ~question.multi => Len(answer.selected) = 1

\* validate_answers.
Valid(answers, menu) ==
  /\ Covers(answers, menu)
  /\ \A i \in DOMAIN answers : Fits(answers[i], ByText(menu, answers[i].question))

\* The wire value: the free text, the one label, or the list of labels.
WireValue(answer, question) ==
  IF answer.free # "" THEN [form |-> "text", value |-> <<answer.free>>]
  ELSE [form |-> IF question.multi THEN "labels" ELSE "text", value |-> answer.selected]

Wire(answers, menu) ==
  [t \in Texts(menu) |->
     LET i == SelectInSeq(answers, LAMBDA a : a.question = t)
     IN  WireValue(answers[i], ByText(menu, t))]

\* ask_once: answers, an escalation, or an error.
AskOnce(reply) == IF Chooses(reply, Tools) THEN reply.calls[1].name ELSE "error"

Decision(kind, answers) == [kind |-> kind, wire |-> answers]
NoWire == [t \in {} |-> <<>>]

\* The retry: answers that are wrong again are an error.
Retry(reply, menu) ==
  IF AskOnce(reply) # "answer_questions" THEN Decision(AskOnce(reply), NoWire)
  ELSE IF Valid(reply.calls[1].answers, menu)
  THEN Decision("answer_questions", Wire(reply.calls[1].answers, menu))
  ELSE Decision("error", NoWire)

\* decide_questions: invalid answers, and only they, are asked for once more.
Decide(first, second, menu) ==
  IF AskOnce(first) # "answer_questions" THEN Decision(AskOnce(first), NoWire)
  ELSE IF Valid(first.calls[1].answers, menu)
  THEN Decision("answer_questions", Wire(first.calls[1].answers, menu))
  ELSE Retry(second, menu)

-----------------------------------------------------------------------------
(* What the menu gets.                                                     *)

\* A wire value a question can take from a reply: one listed label, the free text the
\* reply has for the question, or, where several may be selected, distinct listed labels.
Takes(question, wire, reply) ==
  LET listed == ToSet(wire.value) \subseteq ToSet(question.options) IN
  \/ /\ wire.form = "text" /\ Len(wire.value) = 1
     /\ \/ listed
        \/ /\ wire.value # <<"">>
           /\ \E a \in ToSet(reply.calls[1].answers) :
                a.question = question.text /\ wire.value = <<a.free>>
  \/ /\ question.multi /\ wire.form = "labels" /\ wire.value # <<>> /\ listed
     /\ \A i, j \in DOMAIN wire.value : wire.value[i] = wire.value[j] => i = j

\* Whatever the model replies, first and again, the menu gets one fitting answer per
\* question, or none at all: an error or an escalation (decide_questions).
AnswersFitTheMenu(first, second, menu) ==
  LET d == Decide(first, second, menu) IN
  /\ d.kind \in {"answer_questions", "escalate", "error"}
  /\ d.kind = "answer_questions" =>
       /\ DOMAIN d.wire = Texts(menu)
       /\ \E reply \in {first, second} :
            \A text \in Texts(menu) : Takes(ByText(menu, text), d.wire[text], reply)
  /\ d.kind = "escalate" =>
       \E reply \in {first, second} :
         ~reply.failed /\ reply.stop = "tool_use" /\ reply.calls[1].name = "escalate"
=============================================================================

----------------------------- MODULE Transcript -----------------------------
(***************************************************************************)
(* The transcript reader (src/broker/transcript/adapter.py and raw.py):    *)
(* from the JSONL file Claude Code appends to, the events the brokers      *)
(* decide on.  The reader trusts nothing: a line that is not JSON is fatal,*)
(* any other surprise is dropped and counted, and a tool result becomes an *)
(* answer only if it pairs with a question or a plan still waiting.        *)
(*                                                                         *)
(* A line is a record of what the reader tells apart:                      *)
(*   shape     "blank", "malformed", "value" (JSON, not an object),        *)
(*             "object"                                                    *)
(*   type      "assistant", "user", or another                             *)
(*   text      string content: "human", "other" (a local command), "none"  *)
(*   blocks    list content                                                *)
(*   rejected  the record says the developer rejected the tool use         *)
(*   answers   the record's structured answers                             *)
(* A block has a type; a tool_use a tool, an id and an input, "bad" where  *)
(* raw.py cannot map it and "drift" where the event's schema refuses what  *)
(* it mapped; a tool_result an id and an error flag.                       *)
(***************************************************************************)
EXTENDS Naturals, Sequences, FiniteSets, SequencesExt

CONSTANTS NoId, NoAnswers

MapIf(test, event) == IF test THEN <<event>> ELSE <<>>

Event(kind, id, rejected, answers, valid) ==
  [kind |-> kind, id |-> id, rejected |-> rejected, answers |-> answers, valid |-> valid]

\* _map_tool_use: only questions and plans are kept.
MapToolUse(b) ==
  MapIf(b.input # "bad" /\ b.tool \in {"AskUserQuestion", "ExitPlanMode"},
        Event(IF b.tool = "AskUserQuestion" THEN "ask_user_question" ELSE "exit_plan_mode",
              b.id, FALSE, NoAnswers, b.input = "good"))

\* _map_assistant: texts and tool uses, in order; other blocks are stripped.
MapAssistant(line) ==
  FlattenSeq([i \in DOMAIN line.blocks |->
    LET b == line.blocks[i] IN
    IF b.type = "tool_use" THEN MapToolUse(b)
    ELSE MapIf(b.type = "text", Event("assistant_text", NoId, FALSE, NoAnswers, TRUE))])

\* _map_user: a typed prompt, or the record's tool results.  The rejection and the
\* structured answers are the record's, and go with each of its results.
MapUser(line) ==
  IF line.text # "none"
  THEN MapIf(line.text = "human", Event("user_prompt", NoId, FALSE, NoAnswers, TRUE))
  ELSE FlattenSeq([i \in DOMAIN line.blocks |->
         LET b == line.blocks[i] IN
         MapIf(b.type = "tool_result",
               Event("tool_result", b.id, b.error \/ line.rejected, line.answers, TRUE))])

\* map_line, record_type: what one record holds.
MapLine(line) ==
  CASE line.type = "assistant" -> MapAssistant(line)
    [] line.type = "user" -> MapUser(line)
    [] OTHER -> <<>>

\* read_cleaned_with_report, before the first line.
Start == [events |-> <<>>, pending |-> [id \in {} |-> NoId], lines |-> 0, unknown |-> 0,
          skipped |-> 0, fatal |-> FALSE]

\* pending.pop: an answered call no longer waits.
Popped(pending, id) == [i \in DOMAIN pending \ {id} |-> pending[i]]

Waiting(pending, id, kind) ==
  [i \in DOMAIN pending \cup {id} |-> IF i = id THEN kind ELSE pending[i]]

\* _resolve_tool_result: an answer, or an implementation tool's result, stripped.
TakeResult(s, e) ==
  IF e.id \notin DOMAIN s.pending THEN s
  ELSE [s EXCEPT !.events = Append(@, [e EXCEPT !.kind = s.pending[e.id]]),
                 !.pending = Popped(@, e.id)]

\* Mutant of TakeOther: a call waits for its result though the schema refused it.
TakeOtherUnchecked(s, e) ==
  LET t == CASE e.kind = "ask_user_question" ->
                 [s EXCEPT !.pending = Waiting(@, e.id, "ask_user_answer")]
             [] e.kind = "exit_plan_mode" ->
                 [s EXCEPT !.pending = Waiting(@, e.id, "exit_plan_result")]
             [] OTHER -> s
  IN IF e.valid THEN [t EXCEPT !.events = Append(@, e)] ELSE [t EXCEPT !.skipped = @ + 1]

\* EVENT_ADAPTER: shape drift is skipped and counted; a question or a plan waits for
\* its result.
TakeOther(s, e) ==
  IF ~e.valid THEN [s EXCEPT !.skipped = @ + 1]
  ELSE LET t == [s EXCEPT !.events = Append(@, e)] IN
       CASE e.kind = "ask_user_question" ->
              [t EXCEPT !.pending = Waiting(@, e.id, "ask_user_answer")]
         [] e.kind = "exit_plan_mode" ->
              [t EXCEPT !.pending = Waiting(@, e.id, "exit_plan_result")]
         [] OTHER -> t

Take(s, e) == IF e.kind = "tool_result" THEN TakeResult(s, e) ELSE TakeOther(s, e)

\* The items of a line, one after the other.
TakeAll(s, items) ==
  LET took[k \in 0 .. Len(items)] == IF k = 0 THEN s ELSE Take(took[k - 1], items[k])
  IN  took[Len(items)]

\* One line.
ReadLine(s, line) ==
  IF s.fatal \/ line.shape = "blank" THEN s
  ELSE IF line.shape = "malformed" THEN [s EXCEPT !.fatal = TRUE]
  ELSE LET t == [s EXCEPT !.lines = @ + 1] IN
       IF line.shape = "value" THEN [t EXCEPT !.unknown = @ + 1]
       ELSE IF MapLine(line) = <<>>
       THEN IF line.type \in {"assistant", "user"} THEN t ELSE [t EXCEPT !.unknown = @ + 1]
       ELSE TakeAll(t, MapLine(line))

\* The whole file: lines that yield no event at all are fatal too.
ReadCleaned(lines) ==
  LET after[n \in 0 .. Len(lines)] == IF n = 0 THEN Start ELSE ReadLine(after[n - 1], lines[n])
      s == after[Len(lines)] IN
  [s EXCEPT !.fatal = s.fatal \/ (s.lines > 0 /\ s.events = <<>>)]

-----------------------------------------------------------------------------
(* What the brokers rely on.                                               *)

\* Everything the lines hold, in order.
Items(lines) ==
  FlattenSeq([i \in DOMAIN lines |->
    IF lines[i].shape = "object" THEN MapLine(lines[i]) ELSE <<>>])

Calls == {"ask_user_question", "exit_plan_mode"}
AnswerTo(kind) == IF kind = "ask_user_question" THEN "ask_user_answer" ELSE "exit_plan_result"

\* Item i settles the call it names, as an answer to it or by asking it anew.
SettlesCall(item, id) ==
  item.id = id /\ (item.kind = "tool_result" \/ (item.kind \in Calls /\ item.valid))

\* Call j waits before item i: it was not answered and not asked anew since.
WaitsBefore(items, i, j) ==
  /\ items[j].kind \in Calls /\ items[j].valid
  /\ \A k \in j + 1 .. i - 1 : ~SettlesCall(items[k], items[j].id)

\* Item i answers item j: it is the result of the call, which still waits.
Answers(items, i, j) ==
  items[i].kind = "tool_result" /\ items[j].id = items[i].id /\ WaitsBefore(items, i, j)

\* The items that become events: texts, prompts and calls that fit their schema, and
\* results that answer a call; and the event of each, as it is or of its call's kind.
Kept(items, i) ==
  IF items[i].kind = "tool_result" THEN \E j \in 1 .. i - 1 : Answers(items, i, j)
  ELSE items[i].valid
IsEventOf(event, items, i) ==
  IF items[i].kind = "tool_result"
  THEN \E j \in 1 .. i - 1 : Answers(items, i, j)
                           /\ event = [items[i] EXCEPT !.kind = AnswerTo(items[j].kind)]
  ELSE event = items[i]

\* The events are exactly what the lines hold: texts and prompts as they are, and each
\* answer once, after the question or plan it answers and of its kind; a line that is not
\* JSON, or lines without a single event, are fatal (read_cleaned_with_report).
EventsAreTheFile(lines) ==
  LET s        == ReadCleaned(lines)
      items    == Items(lines)
      kept     == {i \in DOMAIN items : Kept(items, i)}
      place(i) == Cardinality({k \in kept : k <= i})
  IN  IF \E n \in DOMAIN lines : lines[n].shape = "malformed" THEN s.fatal
      ELSE /\ Len(s.events) = Cardinality(kept)
           /\ \A i \in kept : IsEventOf(s.events[place(i)], items, i)
           /\ s.fatal <=> s.events = <<>> /\ \E n \in DOMAIN lines : lines[n].shape # "blank"
=============================================================================

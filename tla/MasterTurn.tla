----------------------------- MODULE MasterTurn -----------------------------
(***************************************************************************)
(* The conversation of the developer with the master's language model      *)
(* (master/llm.py), one reply of the model at a time.                      *)
(*                                                                         *)
(* A reply is one of LlmReplies; each of its calls has a name and an end:  *)
(* "runs" (the tool returned and its line was written), "fails" (the tool  *)
(* is unknown, its input invalid, or it raised), or the tool returned and  *)
(* the process ended, or the disk was full, while its line was written:    *)
(* "torn" (a part of the line is there) or "lost" (nothing is).  The lines *)
(* of the developer and the assistant are written whole.  Only the roles,  *)
(* the order of messages and lines, and the ids that pair a call with its  *)
(* result are kept of the texts.                                           *)
(***************************************************************************)
EXTENDS Integers, Sequences, FiniteSets, SequencesExt, LlmReplies

CONSTANTS MaxToolRounds, RecentTurns  \* RecentTurns > 0

Row(role, text) == [role |-> role, text |-> text]
Torn            == Row("torn", "")
NoReply         == "(tool loop reached its round cap with no reply)"

\* log: the file; requests: the message lists sent; history of the turn: ran, the tools
\* that returned, and unlogged, the last of them has no whole line.
Start == [log |-> <<>>, running |-> FALSE, round |-> 0, messages |-> <<>>, reply |-> "",
          requests |-> <<>>, ran |-> <<>>, unlogged |-> FALSE]

\* tail: the last RecentTurns lines; a torn one among them raises.
Window(log) == SubSeq(log, IF Len(log) < RecentTurns THEN 1 ELSE Len(log) - RecentTurns + 1, Len(log))

\* handle_developer_message up to the loop: the message list is assembled before the
\* developer's line is written.
Begin(c) ==
  IF Contains(Window(c.log), Torn) THEN c
  ELSE [c EXCEPT !.running = TRUE, !.round = 0, !.reply = "", !.ran = <<>>, !.unlogged = FALSE,
                 !.messages = <<[role |-> "user", window |-> Window(c.log)]>>,
                 !.log = Append(@, Row("developer", ""))]

Raises(c)       == [c EXCEPT !.running = FALSE]
Answer(c, text) == [c EXCEPT !.running = FALSE, !.log = Append(@, Row("assistant", text))]

\* The calls of a round that run, up to the first that does not, and how that one ends.
Runs(calls) ==
  LET i == SelectInSeq(calls, LAMBDA k : k.end # "runs")
  IN  IF i = 0 THEN calls ELSE SubSeq(calls, 1, i - 1)
Stops(calls) == IF Runs(calls) = calls THEN "runs" ELSE calls[Len(Runs(calls)) + 1].end

\* The tools that returned with a line of their own, the one that returned without, if
\* there is one, and what lines of tools look like.
Ran(calls)       == [i \in DOMAIN Runs(calls) |-> calls[i].name]
Unwritten(calls) == IF Stops(calls) \in {"torn", "lost"}
                    THEN <<calls[Len(Runs(calls)) + 1].name>> ELSE <<>>
Lines(tools)     == [i \in DOMAIN tools |-> Row("tool", tools[i])]
Cut(calls)       == IF Stops(calls) = "torn" THEN <<Torn>> ELSE <<>>

\* Mutant of Execute: the lines of a round are written once all its calls have run.
ExecuteThenLog(c, calls) ==
  [c EXCEPT !.ran = @ \o Ran(calls) \o Unwritten(calls), !.unlogged = Unwritten(calls) # <<>>,
            !.log = IF Stops(calls) = "runs" THEN @ \o Lines(Ran(calls)) ELSE @]
\* One call after the other, each written to the log before the next is made.
Execute(c, calls) ==
  [c EXCEPT !.ran = @ \o Ran(calls) \o Unwritten(calls), !.unlogged = Unwritten(calls) # <<>>,
            !.log = @ \o Lines(Ran(calls)) \o Cut(calls)]

\* The calls and their results, paired by ids that no other round of the turn uses.
Exchange(round, calls) ==
  LET ids == [i \in DOMAIN calls |-> <<round, i>>]
  IN  <<[role |-> "assistant", uses |-> ids], [role |-> "user", results |-> ids]>>

\* The end of a round whose calls all ran: the next one, or the cap.
Continue(c, reply) ==
  LET said == IF reply.text # "" THEN reply.text ELSE c.reply
      next == [c EXCEPT !.round = @ + 1, !.reply = said,
                        !.messages = @ \o Exchange(c.round, reply.calls)]
  IN  IF next.round < MaxToolRounds THEN next
      ELSE Answer(next, IF said # "" THEN said ELSE NoReply)

\* One round of the loop: the request, then what its reply asks for.
Round(c, reply) ==
  LET asked == [c EXCEPT !.requests = Append(@, c.messages)]
      done  == Execute(asked, reply.calls)
  IN  IF ~TakesTurn(reply) THEN Raises(asked)
      ELSE IF reply.calls = <<>> THEN Answer(asked, reply.text)
      ELSE IF Stops(reply.calls) # "runs" THEN Raises(done)
      ELSE Continue(done, reply)

\* The developer writes whenever no turn runs (the composer is disabled while one does).
Take(c, reply) ==
  LET open == IF c.running THEN c ELSE Begin(c)
  IN  IF open.running THEN Round(open, reply) ELSE open
Conversation(replies) ==
  LET after[n \in 0 .. Len(replies)] == IF n = 0 THEN Start ELSE Take(after[n - 1], replies[n])
  IN  after[Len(replies)]

-----------------------------------------------------------------------------
(* What a reader of the log and of the requests relies on.                 *)

\* The lines of a turn are those after the developer's last.
TurnLines(log) ==
  SubSeq(log, SelectLastInSeq(log, LAMBDA row : row.role = "developer") + 1, Len(log))

\* The turn's lines are those of the tools that returned, each once and in order, with the
\* assistant's after them if it answered.  Only when the process or the disk failed while
\* a tool's line was written is one missing: the last, which is torn or not there at all.
LinesTell(c, lines) ==
  LET all == Lines(c.ran) IN
  IF c.unlogged
  THEN c.ran # <<>> /\ lines \in {Front(all), Append(Front(all), Torn)}
  ELSE \/ lines = all
       \/ /\ ~c.running
          /\ lines # <<>> /\ Last(lines).role = "assistant" /\ Front(lines) = all
Recorded(c) == LinesTell(c, TurnLines(c.log)) /\ (c.running => ~c.unlogged)

\* A list the model's interface accepts: it starts and ends with the user, each message
\* with calls is followed by its results, and no id serves two calls.
WellFormed(messages) ==
  LET calls == {i \in DOMAIN messages : messages[i].role = "assistant"}
  IN  /\ Head(messages).role = "user" /\ Last(messages).role = "user"
      /\ \A i \in calls : messages[i + 1].role = "user" /\ messages[i + 1].results = messages[i].uses
      /\ \A i, j \in calls : i # j => ToSet(messages[i].uses) \cap ToSet(messages[j].uses) = {}

\* However a turn ends - with a reply, at the round cap, by a failing model or tool - the
\* log names every tool that returned, once and in order, before the model is asked again
\* or the developer answered; a write that fails costs the last tool's line and ends the
\* turn.  And the model only ever gets lists of messages its interface accepts, at most
\* MaxToolRounds a turn (handle_developer_message).
TurnsKeepTheRecord(replies) ==
  LET c == Conversation(replies) IN
  /\ Recorded(c)
  /\ \A i \in DOMAIN c.requests :
       /\ WellFormed(c.requests[i])
       /\ Len(c.requests[i]) <= 2 * MaxToolRounds - 1
=============================================================================

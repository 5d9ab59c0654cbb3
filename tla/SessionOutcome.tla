--------------------------- MODULE SessionOutcome ---------------------------
(***************************************************************************)
(* The outcome of a settled session (src/broker/master/outcome.py), put    *)
(* together from the rows of its decision log (src/broker/decision_log.py).*)
(* The log does not say how an escalation ended: build_outcome infers it   *)
(* from the row that comes next.                                           *)
(*                                                                         *)
(* A row is a record of its kind, its task summary and its headline ("" for*)
(* none) and its escalation id.  The supporting text goes with the headline*)
(* and timestamps and reasonings are left out.                             *)
(***************************************************************************)
EXTENDS Naturals, Sequences, FiniteSets

CONSTANTS NoId, NoResolution

\* read_rows: every non-blank line is a row; a line torn by a kill is fatal.
ReadRows(lines) ==
  IF \E i \in DOMAIN lines : lines[i].kind = "torn" THEN [fatal |-> TRUE, rows |-> <<>>]
  ELSE [fatal |-> FALSE, rows |-> lines]

NoFollowUp == "(no recorded follow-up)"

\* One line of the history.
Entry(kind, label) == [kind |-> kind, label |-> label, resolution |-> NoResolution]

Begin == [history |-> <<>>, pending |-> {}, open |-> [id \in {} |-> 0],
          headline |-> "", fatal |-> 0]

Resolved(history, at, summary) ==
  [i \in DOMAIN history |-> IF i \in at THEN [history[i] EXCEPT !.resolution = summary]
                            ELSE history[i]]

\* resolve(summary): a kept action answers all that is pending.
Resolve(s, summary) ==
  [s EXCEPT !.history = Resolved(@, s.pending, summary), !.pending = {},
            !.open = [id \in {} |-> 0]]

Add(s, entry) == [s EXCEPT !.history = Append(@, entry)]
Next1(s)      == Len(s.history) + 1

\* Mutant of Retract: a retraction leaves its escalation to the next kept action.
RetractOnly(s, row) == s

\* A retraction closes the escalation it names, if that is still open.
Retract(s, row) ==
  IF row.id \notin DOMAIN s.open THEN s
  ELSE [s EXCEPT !.history = Resolved(@, {s.open[row.id]}, row.summary),
                 !.pending = @ \ {s.open[row.id]},
                 !.open = [id \in DOMAIN @ \ {row.id} |-> @[id]]]

Kept(s, row) == IF row.summary = "" THEN s ELSE Resolve(s, row.summary)

\* build_outcome, one row.
Account(s, row) ==
  CASE row.kind = "answered" ->
         IF row.summary = "" THEN s ELSE Add(Kept(s, row), Entry("action", row.summary))
    [] row.kind = "completed" ->
         [Add(Kept(s, row), Entry("terminal", "Task completed"))
            EXCEPT !.headline = IF row.headline = "" THEN @ ELSE row.headline]
    [] row.kind = "escalation_raised" ->
         [Add(s, Entry("escalation", row.summary))
            EXCEPT !.pending = @ \cup {Next1(s)},
                   !.open = IF row.id = NoId THEN @
                            ELSE [id \in DOMAIN @ \cup {row.id} |->
                                    IF id = row.id THEN Next1(s) ELSE @[id]]]
    [] row.kind = "retracted" -> Retract(s, row)
    [] row.kind = "developer_prompt" ->
         [Add(s, Entry("developer", "Developer instruction"))
            EXCEPT !.pending = @ \cup {Next1(s)}]
    [] row.kind = "reactivated" -> Add(s, Entry("reactivated", "New task"))
    [] row.kind = "error" -> [s EXCEPT !.fatal = @ + 1]
    [] OTHER -> s

\* build_outcome, and _status for what the top of the window says.
Status(state, s) ==
  CASE state = "completed" -> <<"completed", s.headline>>
    [] state = "error" -> <<"error", IF s.fatal > 0 THEN "detail" ELSE "no detail">>
    [] state = "stopped" -> <<"stopped", "">>
    [] OTHER -> <<"other", IF s.headline = "" THEN "In progress" ELSE s.headline>>

BuildOutcome(state, rows) ==
  LET after[n \in 0 .. Len(rows)] == IF n = 0 THEN Begin ELSE Account(after[n - 1], rows[n])
      s == after[Len(rows)] IN
  [history |-> Resolved(s.history, s.pending, NoFollowUp), status |-> Status(state, s)]

-----------------------------------------------------------------------------
(* What the developer is told.                                             *)

Shown == {"completed", "escalation_raised", "developer_prompt", "reactivated"}

\* The rows that make a line of the history, and those that wait for a Solution.
MakesLine(row) == row.kind \in Shown \/ (row.kind = "answered" /\ row.summary # "")
Opens(row)     == row.kind \in {"escalation_raised", "developer_prompt"}

KeptAction(row) == row.kind \in {"answered", "completed"} /\ row.summary # ""

\* Row j ends what row i opened: the first kept action after it, or before that the
\* retraction of that very escalation.
Ends(rows, i, j) ==
  \/ KeptAction(rows[j])
  \/ /\ rows[i].kind = "escalation_raised" /\ rows[j].kind = "retracted"
     /\ rows[i].id # NoId /\ rows[j].id = rows[i].id

\* The Solution of an escalation, the result of an instruction.
Solution(rows, i) ==
  LET later == {j \in i + 1 .. Len(rows) : Ends(rows, i, j)} IN
  IF later = {} THEN NoFollowUp
  ELSE rows[CHOOSE j \in later : \A k \in later : j <= k].summary

\* Every escalation and instruction of the history gets as its Solution the first kept
\* action after it, or the retraction of that very escalation if that comes first, and
\* each row that is shown makes one line, in order (build_outcome).
SolutionsMatch(lines) ==
  LET read     == ReadRows(lines)
      out      == BuildOutcome("stopped", read.rows).history
      shown    == {i \in DOMAIN lines : MakesLine(lines[i])}
      place(i) == Cardinality({k \in shown : k <= i})
  IN  ~read.fatal =>
        /\ Len(out) = Cardinality(shown)
        /\ \A i \in shown : Opens(lines[i]) => out[place(i)].resolution = Solution(lines, i)
=============================================================================

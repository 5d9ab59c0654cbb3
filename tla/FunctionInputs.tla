--------------------------- MODULE FunctionInputs ---------------------------
(***************************************************************************)
(* The pure functions of the code, applied to inputs that grow one item at *)
(* a time; each action is a function's.  What items there are, and how     *)
(* many, are constants: MCFunctions gives them small sets, FunctionProofs  *)
(* takes them as they come.                                                *)
(***************************************************************************)
EXTENDS Integers, Sequences, FiniteSets

CONSTANTS
  NoId, NoAnswers, NoResolution,  \* model values
  TranscriptLine, LogRow, MenuAnswer, TurnReplies, NodeItems,  \* the items
  RefItems, EdgeItems,            \* items in the order they come in
  Menu, Payloads, Decisions,      \* what else a function takes
  Classes, Files, Imports,        \* of edges: symbols besides the items, files, imports
  Vectors, IndexedSymbols, Importing,  \* of an index: similarities, symbols, files with imports
  Precedes(_, _),                 \* the order of names, of references and of edges
  TranscriptLines, LogRows, AnswerCount, ReferenceCount, EdgeCount, Statements, Parts, ModelReplies,
                                  \* bounds on the inputs
  MaxParts, TopK, Budget,         \* of HookRelay and Retrieval
  MaxToolRounds, RecentTurns      \* of MasterTurn

-----------------------------------------------------------------------------
(* The items.                                                              *)

\* A line of a transcript has a shape, and an object's content is a list.
IsSeq(q) == Len(q) \in Nat /\ q = [i \in 1 .. Len(q) |-> q[i]]
IsLine(line) ==
  /\ line.shape \in {"blank", "malformed", "value", "object"}
  /\ line.shape = "object" => IsSeq(line.blocks)

\* A menu, and the model's replies to it; the names the code knows are written out.
Question == [text : STRING, options : Seq(STRING), multi : BOOLEAN, valid : BOOLEAN]
Answer   == [question : STRING, free : STRING, selected : Seq(STRING)]
ToolName == STRING \cup {"answer_questions", "escalate", "answer"}
Stop     == STRING \cup {"tool_use", "max_tokens", "refusal"}
AskCall  == [name : ToolName, valid : BOOLEAN, answers : Seq(Answer)]
AskReply == [failed : BOOLEAN, stop : Stop, text : STRING \cup {""}, calls : Seq(AskCall)]

\* The model's replies in a developer's turn.
TurnCall  == [name : STRING, end : {"runs", "fails", "torn", "lost"}]
TurnReply == [failed : BOOLEAN, stop : STRING, text : STRING, calls : Seq(TurnCall)]

ASSUME FunctionsAssumption ==
  /\ MaxParts \in Nat /\ TopK \in Nat \ {0} /\ Budget \in Nat
  /\ MaxToolRounds \in Nat \ {0} /\ RecentTurns \in Nat \ {0}

\* Sorts are by a strict order.
Orders(S) ==
  /\ \A a \in S : ~Precedes(a, a)
  /\ \A a, b \in S : a # b => Precedes(a, b) \/ Precedes(b, a)
  /\ \A a, b, c \in S : Precedes(a, b) /\ Precedes(b, c) => Precedes(a, c)

\* An index has one symbol of a name, a name has its file, and some names are embedded.
NamesOf(symbols) == {s.name : s \in symbols}
IsIndexed(symbols) ==
  /\ IsFiniteSet(symbols) /\ Orders(NamesOf(symbols))
  /\ \A s, t \in symbols : s.name = t.name => s = t
  /\ \A s \in symbols : s.name = [file |-> s.name.file, inner |-> s.name.inner]
IsEmbedded(vectors) ==
  /\ vectors \in [DOMAIN vectors -> Int] /\ IsFiniteSet(DOMAIN vectors) /\ DOMAIN vectors # {}
  /\ Orders(DOMAIN vectors)

\* An item is a reference or a symbol.
IsRef(item) == "source" \in DOMAIN item

ASSUME EdgesAssumption ==
  /\ IsFiniteSet(Classes)
  /\ IsSeq(RefItems) /\ Orders({r \in {RefItems[i] : i \in DOMAIN RefItems} : IsRef(r)})

ASSUME IndexAssumption ==
  /\ IsIndexed(IndexedSymbols) /\ \A v \in Vectors : IsEmbedded(v)
  /\ IsSeq(EdgeItems) /\ Orders({EdgeItems[i] : i \in DOMAIN EdgeItems})

ASSUME ItemsAssumption ==
  /\ \A line \in TranscriptLine : IsLine(line)
  /\ Menu \in Seq(Question) /\ MenuAnswer \subseteq Answer
  /\ TurnReplies \subseteq TurnReply

-----------------------------------------------------------------------------
VARIABLES subject, input
vars == <<subject, input>>

Subjects == {"transcript", "outcome", "ask", "hook", "edges", "retrieval", "extraction", "turn"}
Grow(name, bound, items) ==
  /\ subject = name /\ Len(input) < bound
  /\ \E x \in items : input' = Append(input, x)
  /\ UNCHANGED subject
\* Where the order of the items does not matter, they come in a fixed order.
GrowOrdered(name, bound, items) ==
  /\ subject = name /\ Len(input) < bound
  /\ \E i \in DOMAIN items :
       /\ \A j \in DOMAIN input : \E k \in 1 .. i - 1 : items[k] = input[j]
       /\ input' = Append(input, items[i])
  /\ UNCHANGED subject

TranscriptGrows == Grow("transcript", TranscriptLines, TranscriptLine)
\* The broker draws a fresh id for every raise.
OutcomeGrows ==
  Grow("outcome", LogRows,
       {r \in LogRow : r.kind # "escalation_raised"
                       \/ \A i \in DOMAIN input : input[i].kind = "escalation_raised" => input[i].id # r.id})
AskGrows       == Grow("ask", AnswerCount, MenuAnswer)
HookGrows      == Grow("hook", Parts, {"part", "line", "closed", "silent"})
EdgesGrow      == GrowOrdered("edges", ReferenceCount, RefItems)
EdgesFound     == GrowOrdered("retrieval", EdgeCount, EdgeItems)
StatementsGrow == Grow("extraction", Statements, NodeItems)
TurnsGrow      == Grow("turn", ModelReplies, TurnReplies)

Init == subject \in Subjects /\ input = <<>>

Next == TranscriptGrows \/ OutcomeGrows \/ AskGrows \/ HookGrows \/ EdgesGrow \/ EdgesFound
        \/ StatementsGrow \/ TurnsGrow

Spec == Init /\ [][Next]_vars

-----------------------------------------------------------------------------
(* What the functions must give.                                           *)

T == INSTANCE Transcript
O == INSTANCE SessionOutcome
A == INSTANCE AskAnswers
H == INSTANCE HookRelay
L == INSTANCE MasterTurn
E == INSTANCE EdgeResolution WITH Before <- Precedes
R == INSTANCE Retrieval

\* The events are exactly what the lines hold: texts and prompts as they are, and each
\* answer once, after the question or plan it answers and of its kind; a line that is not
\* JSON, or lines without a single event, are fatal (read_cleaned_with_report).
EventsAreTheFile == subject = "transcript" => T!EventsAreTheFile(input)

\* Every escalation and instruction of the history gets as its Solution the first kept
\* action after it, or the retraction of that very escalation if that comes first, and
\* each row that is shown makes one line, in order (build_outcome).
SolutionsMatch == subject = "outcome" => O!SolutionsMatch(input)

Called(name, valid, answers) ==
  [failed |-> FALSE, stop |-> "tool_use", text |-> "",
   calls |-> <<[name |-> name, valid |-> valid, answers |-> answers]>>]
Replies ==
  {Called("answer_questions", TRUE, input), Called("answer_questions", FALSE, input),
   Called("escalate", TRUE, <<>>), Called("answer", TRUE, <<>>),
   [Called("escalate", TRUE, <<>>) EXCEPT !.stop = "max_tokens"],
   [Called("escalate", TRUE, <<>>) EXCEPT !.stop = "refusal"],
   [Called("escalate", TRUE, <<>>) EXCEPT !.failed = TRUE],
   [Called("answer_questions", TRUE, input) EXCEPT !.calls = @ \o @]}

\* Whatever the two replies, the menu gets one fitting answer per question, or none at
\* all (decide_questions).
AnswersFitTheMenu ==
  subject = "ask" => \A first, second \in Replies : A!AnswersFitTheMenu(first, second, Menu)

\* Whatever the payload and the reply, and however the reply comes, the hook prints
\* what the broker said and nothing by itself (main).
PrintsWhatTheBrokerSaid ==
  subject = "hook" =>
    \A payload \in Payloads, gate \in BOOLEAN, reply \in Decisions :
      H!PrintsWhatTheBrokerSaid(payload, gate, input, reply)

\* A call of a member of self reaches the definition of it nearest along the inherits
\* edges, through imports and cycles of bases, and no edge where no ancestor defines it
\* (_hierarchy, _resolve).
SelfCallsReachNearest ==
  subject = "edges" =>
    LET items == {input[i] : i \in DOMAIN input}
        refs  == {x \in items : IsRef(x)}
    IN  E!SelfCallsReachNearest(Classes \cup (items \ refs), Files, Imports, refs)

\* An index with the edges of the input.
Index(vectors) ==
  [exists |-> TRUE, vectors |-> vectors, edges |-> {input[i] : i \in DOMAIN input},
   symbols |-> IndexedSymbols, imports |-> Importing]

\* Each symbol of the neighbourhood ranks as the best of the seeds that pull it in,
\* whatever the order of the edges (_expand).
RanksByBestSeed == subject = "retrieval" => \A v \in Vectors : R!RanksByBestSeed(Index(v))

\* A grounding call that succeeds.
Proposed == [failed |-> FALSE, stop |-> "tool_use", text |-> "",
             calls |-> <<[name |-> "propose_prompt", valid |-> TRUE]>>]

\* The block of the prompt loses the tail of the expansion, no more of it than has to
\* go, and no seed (fit_to_budget); every symbol kept has one heading in it, also a
\* method whose class was dropped, and only a method of what is no class has none
\* (render_relevant_code).
BlockFits == subject = "retrieval" => \A v \in Vectors : R!BlockFits(Index(v), Proposed)

\* However a turn ends, the log names every tool that returned, once and in order, but for
\* the last one when its own line could not be written, and the model only ever gets lists
\* of messages its interface accepts, at most MaxToolRounds a turn
\* (handle_developer_message).
TurnsKeepTheRecord == subject = "turn" => L!TurnsKeepTheRecord(input)
=============================================================================

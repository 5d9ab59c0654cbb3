---------------------------- MODULE MCFunctions ----------------------------
(***************************************************************************)
(* The pure functions of the code, over every input of a bounded shape:    *)
(* the items FunctionInputs takes, and what symbol extraction must give.   *)
(***************************************************************************)
EXTENDS TLC, SequencesExt, FunctionInputs

-----------------------------------------------------------------------------
(* transcript/                                                             *)

ToolUse(tool, id, in) == [type |-> "tool_use", tool |-> tool, id |-> id, input |-> in]
ToolResult(id, error) == [type |-> "tool_result", id |-> id, error |-> error]
Record(type, text, blocks, rejected) ==
  [shape |-> "object", type |-> type, text |-> text, blocks |-> blocks, rejected |-> rejected,
   answers |-> NoAnswers]
Ask(id, in)  == ToolUse("AskUserQuestion", id, in)
Plan(id)     == ToolUse("ExitPlanMode", id, "good")
MCTranscriptLine ==
  {Record("assistant", "none", <<[type |-> "text"], Ask("a", "good")>>, FALSE),
   Record("assistant", "none", <<Ask("b", "drift"), Plan("a")>>, FALSE),
   Record("assistant", "none", <<Ask("b", "bad"), ToolUse("Edit", "c", "good")>>, FALSE),
   Record("assistant", "none", <<Ask("b", "good"), Plan("a")>>, FALSE),
   Record("user", "none", <<ToolResult("a", FALSE)>>, TRUE),
   Record("user", "none", <<ToolResult("b", TRUE), ToolResult("a", FALSE), ToolResult("c", FALSE)>>, FALSE),
   Record("user", "human", <<>>, FALSE), Record("user", "other", <<>>, FALSE),
   Record("summary", "none", <<>>, FALSE),
   [shape |-> "value"], [shape |-> "blank"], [shape |-> "malformed"]}

-----------------------------------------------------------------------------
(* decision_log.py, master/outcome.py                                      *)

Row(kind, summary, id) == [kind |-> kind, summary |-> summary, headline |-> "", id |-> id]
MCLogRow ==
  {Row("answered", s, NoId) : s \in {"", "approved"}}
  \cup {Row("completed", s, NoId) : s \in {"", "finished"}}
  \cup {Row("escalation_raised", "asked", e) : e \in {"e1", "e2"}}
  \cup {Row("retracted", "resolved in pane", e) : e \in {"e1", "e2"}}
  \cup {Row(k, "", NoId) : k \in {"developer_prompt", "reactivated", "error", "torn"}}

-----------------------------------------------------------------------------
(* session/ask.py                                                          *)

MenuQuestion(text, options, multi) ==
  [text |-> text, options |-> options, multi |-> multi, valid |-> TRUE]
MCMenu ==
  <<MenuQuestion("one", <<"x", "y">>, FALSE), MenuQuestion("many", <<"x", "y">>, TRUE)>>
MCMenuAnswer == [question : {"one", "many", "none"}, free : {"", "text"},
                 selected : {<<>>, <<"x">>, <<"x", "y">>, <<"x", "x">>, <<"z">>}]
-----------------------------------------------------------------------------
(* hook/__main__.py                                                        *)

MCPayloads == [object : BOOLEAN, event : {"PermissionRequest", "PreToolUse", "Stop"},
               tool : {"AskUserQuestion", "Bash"}]
MCDecisions == [object : BOOLEAN, payload : BOOLEAN, updated : BOOLEAN,
                decision : {"allow", "escalated", "answer", "passthrough", "none"}]

-----------------------------------------------------------------------------
(* index/edge_resolution.py                                                *)

Python(parts)        == [language |-> "python", parts |-> parts, probe |-> 0]
Ecma(parts, probe)   == [language |-> "ecma", parts |-> parts, probe |-> probe]
Sym(file, inner, kind) == [name |-> [file |-> file, inner |-> inner], kind |-> kind]
Ref(file, inner, kind, target) ==
  [source |-> [file |-> file, inner |-> inner], kind |-> kind, target |-> target]
Import(file, local, module, name) ==
  [file |-> file, local |-> local, module |-> module, name |-> name]

M == Python(<<"app", "m">>)
N == Python(<<"app", "n">>)
U == Ecma(<<"u">>, 1)
V == Ecma(<<"v">>, 1)
MCFiles == {M, N, Python(<<"lib", "n">>), Python(<<"app", "__init__">>), U, V, Ecma(<<"v">>, 7)}
MCImports == {Import(M, "n", <<"app", "n">>, <<>>), Import(U, "Base", <<"v">>, <<"Base">>)}
MCClasses == {Sym(M, <<"A">>, "class"), Sym(M, <<"B">>, "class"), Sym(M, <<"C">>, "class"),
            Sym(N, <<"D">>, "class"), Sym(U, <<"E">>, "class"), Sym(V, <<"Base">>, "class"),
            Sym(M, <<"A", "run">>, "method"), Sym(U, <<"E", "run">>, "method")}

\* In the order of the code's sort: bases of a class by their name, then the calls.
MCRefItems ==
  <<Ref(M, <<"A">>, "base", <<"B">>), Ref(M, <<"A">>, "base", <<"C">>),
    Ref(M, <<"A", "run">>, "call", <<"self", "go">>),
    Ref(M, <<"B">>, "base", <<"A">>), Ref(M, <<"B">>, "base", <<"n", "D">>),
    Ref(M, <<"C">>, "base", <<"n", "D">>),
    Ref(U, <<"E">>, "base", <<"Base">>), Ref(U, <<"E", "run">>, "call", <<"this", "go">>),
    Sym(M, <<"A", "go">>, "method"), Sym(M, <<"B", "go">>, "method"),
    Sym(M, <<"C", "go">>, "type"), Sym(N, <<"D", "go">>, "method"),
    Sym(V, <<"Base", "go">>, "method")>>

-----------------------------------------------------------------------------
(* index/retrieval.py, index/render.py                                     *)

Name(file, inner) == [file |-> file, inner |-> inner]
NameOf == [C |-> Name("p", <<"C">>), Cm |-> Name("p", <<"C", "m">>), f |-> Name("p", <<"f">>),
           g |-> Name("q", <<"g">>), T |-> Name("q", <<"T">>), gone |-> Name("q", <<"gone">>)]
Kinds == [C |-> "class", Cm |-> "method", f |-> "function", g |-> "function", T |-> "type"]
Link(source, target, kind) == [source |-> NameOf[source], target |-> NameOf[target], kind |-> kind]
MCEdgeItems ==
  <<Link("C", "Cm", "defines"), Link("C", "T", "inherits"), Link("Cm", "g", "calls"),
    Link("f", "Cm", "calls"), Link("f", "T", "references_type"), Link("f", "g", "calls"),
    Link("f", "gone", "calls"), Link("g", "f", "calls"), Link("g", "g", "calls")>>
NameItems ==
  <<NameOf.C, NameOf.Cm, Name("p", <<"C", "n">>), Name("p", <<"D">>), Name("p", <<"D", "C">>),
    Name("p", <<"D", "C", "m">>), Name("p", <<"D", "m">>), NameOf.f, Name("p", <<"k">>),
    NameOf.T, NameOf.g>>
MCPrecedes(a, b) ==
  IF "inner" \in DOMAIN a
  THEN SelectInSeq(NameItems, LAMBDA n : n = a) < SelectInSeq(NameItems, LAMBDA n : n = b)
  ELSE IF a.kind \in {"base", "call"}
  THEN SelectInSeq(MCRefItems, LAMBDA r : r = a) < SelectInSeq(MCRefItems, LAMBDA r : r = b)
  ELSE SelectInSeq(MCEdgeItems, LAMBDA e : e = a) < SelectInSeq(MCEdgeItems, LAMBDA e : e = b)
\* What the intent is nearest to.
Similarities ==
  {[C |-> 3, Cm |-> 2, f |-> 1, g |-> 0], [C |-> 1, Cm |-> 1, f |-> 2, g |-> 2],
   [C |-> -1, Cm |-> 0, f |-> 1, g |-> 2], [C |-> 0, Cm |-> 3, f |-> 2, g |-> 0],
   [C |-> 0, Cm |-> 2, f |-> 0, g |-> 3]}
SimilarityOf(similarity) ==
  [n \in {NameOf[k] : k \in DOMAIN similarity} |->
     similarity[CHOOSE k \in DOMAIN similarity : NameOf[k] = n]]
MCVectors == {SimilarityOf(similarity) : similarity \in Similarities}
MCSymbols == {[name |-> NameOf[k], kind |-> Kinds[k]] : k \in DOMAIN Kinds}
MCImporting == {"p"}

-----------------------------------------------------------------------------
(* index/symbol_extraction.py                                              *)

X == INSTANCE SymbolExtraction

Node(type, name, calls, children) ==
  [type |-> type, name |-> name, body |-> "body", value |-> "none", bases |-> {},
   annotations |-> {}, calls |-> calls, children |-> children]
FunctionValued(node) == [node EXCEPT !.value = "function"]
Block(calls)  == Node("other", "", calls, <<>>)
Method(name, calls) == Node("method", name, calls, <<Block({"print"}), Node("function", "inner", {"deep"}, <<>>)>>)
MCNodeItems ==
  {Node("import", "os", {}, <<>>), Block({"main"}),
   Node("function", "f", {"decorate"}, <<Node("function", "inner", {"g"}, <<>>)>>),
   Node("function", "C", {"h"}, <<>>), [Node("type", "C", {}, <<>>) EXCEPT !.body = ""],
   Node("variable", "", {}, <<FunctionValued(Node("declarator", "k", {"f"}, <<>>))>>),
   Node("variable", "", {"f"}, <<Node("declarator", "v", {"g"}, <<>>)>>),
   Node("transparent", "", {}, <<Node("function", "f", {"late"}, <<>>), Block({"x"})>>),
   [Node("class", "C", {}, <<Method("m", {"self.n"}), Method("", {"computed"}), Block({"setup"}),
                             FunctionValued(Node("field", "n", {"wrap"}, <<Block({"self.m"})>>)),
                             [Node("field", "size", {"field"}, <<>>) EXCEPT !.annotations = {"int"}]>>)
      EXCEPT !.bases = {"Base"}],
   Node("class", "D", {"register"}, <<Node("class", "C", {}, <<Method("m", {"D"})>>), Method("m", {"C"})>>)}

\* A call is attributed to the innermost function, method or class body it is written
\* in and to no other, whatever is nested in what and defined twice (_class, _calls).
CallsGoToInnermost == subject = "extraction" => X!CallsOfInnermost(input)

\* "Seeds are never dropped" (render.py:16): what a file's functions, methods and
\* classes are when all of them are seeds.
SeedsAreShown ==
  subject = "extraction" =>
    LET symbols == X!ExtractFile(input).symbols
        seeds   == {q \in DOMAIN symbols : symbols[q].kind \in {"function", "method", "class"}}
        index   == [edges |-> {}, imports |-> {},
                    symbols |-> {[name |-> Name("p", q), kind |-> symbols[q].kind] : q \in DOMAIN symbols}]
        context == R!Expand(index, [n \in {Name("p", q) : q \in seeds} |-> 1])
        block   == R!Render(R!Fit(context))
    IN  \A i \in DOMAIN context.symbols : R!Headings(block, context.symbols[i]) = 1

-----------------------------------------------------------------------------
(* master/llm.py                                                           *)

Calls(text, ends) ==
  [failed |-> FALSE, stop |-> "tool_use", text |-> text,
   calls |-> [i \in DOMAIN ends |-> [name |-> IF i = 1 THEN "dispatch" ELSE "spawn_session", end |-> ends[i]]]]
MCTurnReplies ==
  {Calls("", <<>>), [Calls("done", <<>>) EXCEPT !.stop = "end_turn"],
   [Calls("", <<"runs">>) EXCEPT !.failed = TRUE], Calls("doing", <<"runs">>),
   Calls("", <<"runs", "runs">>), Calls("both", <<"runs", "fails">>), Calls("", <<"runs", "torn">>),
   Calls("", <<"lost">>)}

\* The next turn is run whatever became of the one before it: the error of a turn is
\* shown, and "the app (and its socket server) survives" (tui/app.py:275).
NextTurnRuns ==
  subject = "turn" =>
    LET c == L!Conversation(input) IN ~c.running => L!Begin(c).running

=============================================================================

------------------------------ MODULE Retrieval ------------------------------
(***************************************************************************)
(* Retrieval at spawn (src/broker/index/retrieval.py): seeds by similarity,*)
(* one hop of expansion; and the block the grounding prompt gets           *)
(* (src/broker/index/render.py), fitted to its budget.                     *)
(*                                                                         *)
(* A name is a record of its file and inner name in parts.  A symbol has a *)
(* name and a kind, an edge a source, a target and a kind.  An index has   *)
(* vectors (the similarity of each embedded name), symbols, edges, and     *)
(* imports, the files with an import line.  Precedes orders names and edges*)
(* as the code's sorts do.                                                 *)
(***************************************************************************)
EXTENDS Integers, Sequences, FiniteSets, SequencesExt, FiniteSetsExt, LlmReplies

CONSTANTS TopK, Budget, Precedes(_, _)

\* _neighbor: the node an edge pulls into the neighbourhood of a seed, {} for none.
Neighbor(edge, seeds) ==
  IF edge.source \in seeds /\ edge.kind \in {"calls", "inherits", "references_type"}
  THEN {edge.target}
  ELSE IF edge.target \in seeds /\ edge.kind \in {"calls", "defines"}
  THEN {edge.source}
  ELSE {}

\* S in order, where before holds the pairs of S that are in order.
Sorted(S, before) ==
  [i \in 1 .. Cardinality(S) |-> CHOOSE x \in S : Cardinality({y \in S : <<y, x>> \in before}) = i - 1]

\* neighborhood_edges, import edges aside; those that pull a node are kept.
KeptEdges(index, seeds) ==
  LET kept == {e \in index.edges : Neighbor(e, seeds) # {}}
  IN  Sorted(kept, {p \in kept \X kept : Precedes(p[1], p[2])})

\* Mutant of Pull: the last edge decides.
PullLast(rank, neighbor, score) ==
  [n \in DOMAIN rank \cup {neighbor} |-> IF n = neighbor THEN score ELSE rank[n]]

\* rank[neighbor] = max(...).
Pull(rank, neighbor, score) ==
  [n \in DOMAIN rank \cup {neighbor} |->
     IF n # neighbor THEN rank[n]
     ELSE IF n \in DOMAIN rank THEN Max({rank[n], score}) ELSE score]

\* The loop of _expand.
Ranked(edges, seeds) ==
  LET Visit(old, edge) ==
        LET neighbor == CHOOSE n \in Neighbor(edge, DOMAIN seeds) : TRUE
            anchor   == IF edge.source \in DOMAIN seeds THEN edge.source ELSE edge.target
        IN  IF neighbor \in DOMAIN seeds THEN old ELSE Pull(old, neighbor, seeds[anchor])
      rank[i \in 0 .. Len(edges)] == IF i = 0 THEN seeds ELSE Visit(rank[i - 1], edges[i])
  IN  rank[Len(edges)]

\* _expand: the symbols that exist, seeds first, best first.
Expand(index, seeds) ==
  LET edges == KeptEdges(index, DOMAIN seeds)
      rank  == Ranked(edges, seeds)
      found == {s \in index.symbols : s.name \in DOMAIN rank}
      First(a, b) ==
        IF (a.name \in DOMAIN seeds) # (b.name \in DOMAIN seeds) THEN a.name \in DOMAIN seeds
        ELSE IF rank[a.name] # rank[b.name] THEN rank[a.name] > rank[b.name]
        ELSE Precedes(a.name, b.name)
      Context(s) == [name |-> s.name, kind |-> s.kind, rank |-> rank[s.name],
                     seed |-> s.name \in DOMAIN seeds]
      ordered == Sorted(found, {p \in found \X found : First(p[1], p[2])})
  IN  [symbols |-> [i \in DOMAIN ordered |-> Context(ordered[i])],
       edges   |-> ToSet(edges),
       imports |-> index.imports \cap {s.name.file : s \in {t \in found : t.name \in DOMAIN seeds}}]

\* retrieve: the TopK nearest embedded names; no degraded path.
Seeds(vectors) ==
  LET Nearer(a, b) == \/ vectors[a] > vectors[b]
                      \/ vectors[a] = vectors[b] /\ Precedes(a, b)
      names  == DOMAIN vectors
      ranked == Sorted(names, {p \in names \X names : Nearer(p[1], p[2])})
      top    == {ranked[i] : i \in {j \in DOMAIN ranked : j <= TopK}}
  IN  [n \in top |-> vectors[n]]

Retrieve(index, embedded) ==
  IF ~index.exists \/ DOMAIN index.vectors = {} \/ embedded # "vector"
  THEN [error |-> TRUE]
  ELSE [error |-> FALSE, context |-> Expand(index, Seeds(index.vectors))]

-----------------------------------------------------------------------------
(* render.py                                                               *)

\* _owner: the name a member hangs on, {} for none.
Owner(name) ==
  IF Len(name.inner) = 1 THEN {} ELSE {[name EXCEPT !.inner = Front(@)]}

Line(what, name, nested) == [what |-> what, name |-> name, nested |-> nested]

\* The lines of one label, sorted and joined into one: none if there is nothing to say.
LabelLine(label, names, name, nested) ==
  IF names = {} THEN <<>> ELSE <<Line(label, name, nested)>>

\* _symbol_lines: a heading, then a line per kind of edge.
SymbolLines(context, symbol, nested) ==
  LET q == symbol.name
      Out(kind) == {e \in context.edges : e.kind = kind /\ e.source = q}
      In(kind)  == {e \in context.edges : e.kind = kind /\ e.target = q}
      Of(label, names) == LabelLine(label, names, q, nested)
  IN  <<Line("symbol", q, nested)>> \o Of("calls", Out("calls"))
        \o Of("called by", In("calls")) \o Of("owner", In("defines"))
        \o Of("bases", Out("inherits")) \o Of("types", Out("references_type"))

\* The places of a sequence, from first to last.
Places(I) == Sorted(I, {p \in I \X I : p[1] < p[2]})

\* The methods of a file rendered under their class; symbols are named by their places.
Nested(symbols, here) ==
  {i \in here : /\ symbols[i].kind = "method"
               /\ \E j \in DOMAIN symbols : Owner(symbols[i].name) = {symbols[j].name}}

\* A symbol at the top of its file, a class with its methods.
Block(context, here, i) ==
  LET symbols == context.symbols
      methods == Places({j \in Nested(symbols, here) : Owner(symbols[j].name) = {symbols[i].name}})
  IN  SymbolLines(context, symbols[i], FALSE)
        \o (IF symbols[i].kind # "class" THEN <<>>
            ELSE FlattenSeq([k \in DOMAIN methods |-> SymbolLines(context, symbols[methods[k]], TRUE)]))

\* One file: its heading, its imports, its symbols with their methods.
FileLines(context, file) ==
  LET here == {i \in DOMAIN context.symbols : context.symbols[i].name.file = file}
      top  == Places(here \ Nested(context.symbols, here))
  IN  <<Line("file", file, FALSE)>>
        \o (IF file \in context.imports THEN <<Line("imports", file, FALSE)>> ELSE <<>>)
        \o FlattenSeq([k \in DOMAIN top |-> Block(context, here, top[k])])

\* render_relevant_code: the files, each at its first symbol.
Render(context) ==
  LET symbols == context.symbols
      files   == Places({i \in DOMAIN symbols :
                           \A j \in 1 .. i - 1 : symbols[j].name.file # symbols[i].name.file})
  IN  FlattenSeq([k \in DOMAIN files |-> FileLines(context, symbols[files[k]].name.file)])

\* Mutant of Cheapest: the best-ranked expansion symbol goes first.
Dearest(symbols) == SelectInSeq(symbols, LAMBDA s : ~s.seed)

\* The last expansion symbol, 0 if only seeds are left.
Cheapest(symbols) == SelectLastInSeq(symbols, LAMBDA s : ~s.seed)

\* fit_to_budget: a line is the unit of the budget.
Fit(context) ==
  LET Drop(symbols) ==
        IF Len(Render([context EXCEPT !.symbols = symbols])) > Budget /\ Cheapest(symbols) # 0
        THEN RemoveAt(symbols, Cheapest(symbols)) ELSE symbols
      kept[i \in 0 .. Len(context.symbols)] == IF i = 0 THEN context.symbols ELSE Drop(kept[i - 1])
  IN  [context EXCEPT !.symbols = kept[Len(context.symbols)]]

\* ground_intent: the block the one grounding call saw, with what it proposed, or an
\* error; no proposal without the code it is grounded in.
GroundIntent(index, embedded, reply) ==
  LET found == Retrieve(index, embedded)
  IN  IF found.error \/ Propose(reply) = "error" THEN [error |-> TRUE]
      ELSE [error |-> FALSE, fitted |-> Fit(found.context), block |-> Render(Fit(found.context))]

-----------------------------------------------------------------------------
(* What the prompt is promised.                                            *)

\* A node ranks as the best of the seeds that pull it in.
BestSeed(index, seeds, symbol) ==
  LET pulling == {s \in DOMAIN seeds :
                    \E e \in index.edges : {e.source, e.target} = {s, symbol.name}
                                           /\ symbol.name \in Neighbor(e, DOMAIN seeds)}
  IN  IF symbol.seed THEN symbol.rank = seeds[symbol.name]
      ELSE /\ \A s \in pulling : seeds[s] <= symbol.rank
           /\ \E s \in pulling : seeds[s] = symbol.rank

\* Every symbol retrieved does.
RanksByBestSeed(index) ==
  LET symbols == Retrieve(index, "vector").context.symbols
  IN  \A i \in DOMAIN symbols : BestSeed(index, Seeds(index.vectors), symbols[i])

\* What is dropped is the tail of the expansion, and no more of it than has to go.
LeastDropped(context, fitted) ==
  LET kept  == Len(fitted.symbols)
      seeds == Cardinality({i \in DOMAIN context.symbols : context.symbols[i].seed})
  IN  /\ fitted.symbols = SubSeq(context.symbols, 1, kept)
      /\ kept >= seeds
      /\ Len(Render(fitted)) <= Budget \/ kept = seeds
      /\ kept < Len(context.symbols) =>
           Len(Render([context EXCEPT !.symbols = SubSeq(@, 1, kept + 1)])) > Budget

\* How often the block has the heading of a symbol.
Headings(block, symbol) ==
  Cardinality({i \in DOMAIN block : block[i].what = "symbol" /\ block[i].name = symbol.name})

\* A method of what is no class, as of the function of a name defined twice.
Misplaced(symbols, symbol) ==
  symbol.kind = "method" /\ \E t \in ToSet(symbols) : Owner(symbol.name) = {t.name} /\ t.kind # "class"

\* The block loses the least it can, and has one heading for each symbol it keeps, but
\* none for a misplaced method.
BlockFits(index, reply) ==
  LET g == GroundIntent(index, "vector", reply)
  IN  ~g.error =>
        /\ LeastDropped(Retrieve(index, "vector").context, g.fitted)
        /\ \A s \in ToSet(g.fitted.symbols) :
             Headings(g.block, s) = IF Misplaced(g.fitted.symbols, s) THEN 0 ELSE 1
=============================================================================

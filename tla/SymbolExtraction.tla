-------------------------- MODULE SymbolExtraction --------------------------
(***************************************************************************)
(* File extraction (src/broker/index/symbol_extraction.py): one walk over  *)
(* the syntax tree of a file to its symbols, as-written references and     *)
(* imports.  A node is a record of what the language tables tell apart:    *)
(*   type       transparent, import, class, function, type, variable,      *)
(*              declarator, method, field, decorator, other; wrappers      *)
(*              (decorated, exported) are folded into the node they wrap   *)
(*   name       "" if the grammar finds none                               *)
(*   body       the text of its body, "" for none                          *)
(*   value      function if a declarator or field holds one, else none     *)
(*   bases, annotations  as-written names of bases and of types            *)
(*   calls      dotted callees written in it and outside its children      *)
(*   children   its members, declarators or statements                     *)
(* Names are inner names in parts.  Lines, signatures and the lists of     *)
(* fields, which only the embedded text shows, are left out.               *)
(***************************************************************************)
EXTENDS Naturals, Sequences, FiniteSets, SequencesExt

Nothing == [symbols |-> [q \in {} |-> {}], references |-> {}, imports |-> {}]

Reference(source, kind, target) == [source |-> source, kind |-> kind, target |-> target]
References(source, kind, targets) == {Reference(source, kind, t) : t \in targets}

Symbol(kind, body) == [kind |-> kind, body |-> body]

\* _merge: overloads and redefinitions of one name; the first gives the kind.
Merge(old, new) == [old EXCEPT !.body = IF new.body = "" THEN @ ELSE new.body]

Merged(acc, q, symbol) ==
  [acc EXCEPT !.symbols =
     [n \in DOMAIN @ \cup {q} |-> IF n # q THEN @[n]
                                  ELSE IF q \in DOMAIN @ THEN Merge(@[q], symbol) ELSE symbol]]

Refer(acc, references) == [acc EXCEPT !.references = @ \cup references]

\* _calls: what is called anywhere under a node, pruned children aside.
RECURSIVE CallsUnder(_, _)
CallsUnder(node, pruned) ==
  node.calls \cup UNION {CallsUnder(node.children[i], {}) : i \in DOMAIN node.children \ pruned}

\* _annotation_names: the annotations in a node but for its body, which its children are.
AnnotationNames(node) == node.annotations

\* _callable: a function or method; outer is where its text starts.
Callable(acc, outer, node, q, kind) ==
  Refer(Merged(acc, q, Symbol(kind, node.body)),
        References(q, "call", CallsUnder(outer, {}))
          \cup References(q, "type", AnnotationNames(node)))

HoldsFunction(node) == node.value = "function"

\* The members that are symbols of their own.
IsOwnSymbol(node) ==
  \/ node.type = "class"
  \/ node.type = "method" /\ node.name # ""
  \/ node.type = "field" /\ node.name # "" /\ HoldsFunction(node)

\* Mutant of Pruned: a function-valued field is not pruned from its class.
PrunedButFields(class) ==
  {i \in DOMAIN class.children : class.children[i].type # "field" /\ IsOwnSymbol(class.children[i])}

\* child_symbol_ids: what a class leaves to its members.
Pruned(class) == {i \in DOMAIN class.children : IsOwnSymbol(class.children[i])}

RECURSIVE Class(_, _, _)
\* _member.
Member(acc, member, scope) ==
  CASE member.type = "class" -> Class(acc, member, scope)
    [] member.type \in {"method", "field"} /\ IsOwnSymbol(member) ->
         Callable(acc, member, member, Append(scope, member.name), "method")
    [] member.type = "field" /\ member.name # "" /\ ~HoldsFunction(member) ->
         Refer(acc, References(scope, "type", AnnotationNames(member)))
    [] OTHER -> acc

\* _class: the members first, then the class with its bases and its own calls.
Class(acc, node, scope) ==
  IF node.name = "" \/ node.body = "" THEN acc
  ELSE LET q       == Append(scope, node.name)
           members == FoldLeft(LAMBDA a, m : Member(a, m, q), acc, node.children)
       IN  Refer(Merged(members, q, Symbol("class", node.body)),
                 References(q, "base", node.bases)
                   \cup References(q, "call", CallsUnder(node, Pruned(node))))

\* _assigned_functions: every function of the declaration, each with all its calls.
AssignedFunctions(acc, node) ==
  LET functions == SelectSeq(node.children, LAMBDA d : d.type = "declarator" /\ d.name # ""
                                                       /\ HoldsFunction(d))
  IN  FoldLeft(LAMBDA a, d : Callable(a, node, d, <<d.name>>, "function"), acc, functions)

\* _module_statement.
ModuleStatement(acc, node) ==
  CASE node.type = "import" -> [acc EXCEPT !.imports = @ \cup {node.name}]
    [] node.type = "class" -> Class(acc, node, <<>>)
    [] node.type = "function" /\ node.name # "" -> Callable(acc, node, node, <<node.name>>, "function")
    [] node.type = "type" /\ node.name # "" -> Merged(acc, <<node.name>>, Symbol("type", ""))
    [] node.type = "variable" -> AssignedFunctions(acc, node)
    [] OTHER -> acc

\* _module_statements: transparent wrappers flattened.
RECURSIVE ModuleStatements(_)
ModuleStatements(nodes) ==
  FlattenSeq([i \in DOMAIN nodes |->
    IF nodes[i].type = "transparent" THEN ModuleStatements(nodes[i].children) ELSE <<nodes[i]>>])

\* extract_file.
ExtractFile(nodes) == FoldLeft(ModuleStatement, Nothing, ModuleStatements(nodes))

-----------------------------------------------------------------------------
(* What the walk promises.                                                 *)

\* Each call of a class body, a declaration or a function with the innermost symbol it
\* is written in; what stands outside every symbol is not indexed.
RECURSIVE CallSites(_, _)
CallSites(node, scope) ==
  LET Sites(q, calls) == {<<q, t>> : t \in calls}
      q    == Append(scope, node.name)
      kids == ToSet(node.children)
  IN  CASE node.type = "class" ->
             Sites(q, node.calls) \cup UNION {IF IsOwnSymbol(m) THEN CallSites(m, q)
                                              ELSE Sites(q, CallsUnder(m, {})) : m \in kids}
        [] node.type = "variable" ->
             UNION {Sites(<<d.name>>, CallsUnder(d, {})) : d \in {k \in kids : HoldsFunction(k)}}
        [] node.type = "function" \/ scope # <<>> -> Sites(q, CallsUnder(node, {}))
        [] OTHER -> {}

\* Every call is attributed to the innermost symbol it is written in, and to no other.
CallsOfInnermost(nodes) ==
  {<<r.source, r.target>> : r \in {s \in ExtractFile(nodes).references : s.kind = "call"}}
    = UNION {CallSites(n, <<>>) : n \in ToSet(ModuleStatements(nodes))}

=============================================================================

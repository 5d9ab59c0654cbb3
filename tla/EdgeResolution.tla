--------------------------- MODULE EdgeResolution ---------------------------
(***************************************************************************)
(* Global edge resolution (src/broker/index/edge_resolution.py): from the  *)
(* symbols, the as-written references and the imports of every indexed     *)
(* file, the resolved edges.                                               *)
(*                                                                         *)
(* A file is a record of its language, its path in parts, and for          *)
(* ECMAScript the place of its extension in _ECMA_PROBES, 0 if an import   *)
(* writes it out.  A qualified name is a file and an inner name in parts; a*)
(* file itself has none.  A symbol is a record of its qualified name and   *)
(* kind; an import of the file, the local name (one import each), the      *)
(* module in parts and the imported name, <<>> if none.                    *)
(* Before orders references as the code's sort does.                       *)
(***************************************************************************)
EXTENDS Naturals, Sequences, FiniteSets, SequencesExt, FiniteSetsExt

CONSTANT Before(_, _)

CallTargets == {"function", "method", "class"}
TypeTargets == {"class", "type"}

QName(file, inner) == [file |-> file, inner |-> inner]
Outer(inner)       == SubSeq(inner, 1, Len(inner) - 1)
NoTarget           == QName([language |-> "none"], <<>>)

\* _python_module_names: every dotted suffix, of the package for an __init__.
ModuleNames(file) ==
  LET parts == IF Last(file.parts) = "__init__" THEN Front(file.parts) ELSE file.parts
  IN  {SubSeq(parts, i, Len(parts)) : i \in DOMAIN parts}

\* _is.
Is(symbols, q, kinds) == \E s \in symbols : s.name = q /\ s.kind \in kinds

Named(symbols, q) == IF \E s \in symbols : s.name = q THEN q ELSE NoTarget

\* _via_import, Python: the longest prefix that names exactly one file.
ViaPython(symbols, files, dotted) ==
  LET Naming(cut) == {f \in files : f.language = "python"
                                    /\ SubSeq(dotted, 1, cut) \in ModuleNames(f)}
      cuts == {c \in DOMAIN dotted : Cardinality(Naming(c)) = 1}
  IN  IF cuts = {} THEN NoTarget
      ELSE LET cut  == Max(cuts)
               file == CHOOSE f \in Naming(cut) : TRUE
               rest == SubSeq(dotted, cut + 1, Len(dotted))
           IN  IF rest = <<>> THEN QName(file, <<>>) ELSE Named(symbols, QName(file, rest))

\* _via_import, ECMAScript, with _ecma_module_path: the first probe that is a file.
ViaEcma(symbols, files, module, chain) ==
  LET found == {f \in files : f.language = "ecma" /\ f.parts = module}
  IN  IF found = {} THEN NoTarget
      ELSE LET file == CHOOSE f \in found : \A g \in found : f.probe <= g.probe
           IN  IF chain = <<>> THEN QName(file, <<>>) ELSE Named(symbols, QName(file, chain))

ViaImport(symbols, files, imp, rest) ==
  IF imp.file.language = "python"
  THEN ViaPython(symbols, files, imp.module \o imp.name \o rest)
  ELSE ViaEcma(symbols, files, imp.module,
               (IF imp.name = <<"default">> THEN <<>> ELSE imp.name) \o rest)

AddNew(seen, class) == IF class \in ToSet(seen) THEN seen ELSE Append(seen, class)

AddAll(seen, classes) ==
  LET added[i \in 0 .. Len(classes)] == IF i = 0 THEN seen ELSE AddNew(added[i - 1], classes[i])
  IN  added[Len(classes)]

\* A name of which no base is known has none.
BasesOf(bases, class) == IF class \in DOMAIN bases THEN bases[class] ELSE <<>>

\* Mutant of Hierarchy: one level of bases only.
HierarchyOfOne(bases, class) == AddAll(<<class>>, BasesOf(bases, class))

\* _hierarchy: the class, then its bases breadth first, each once.
Hierarchy(bases, class) ==
  LET Visit(seen, i) == IF i > Len(seen) THEN seen ELSE AddAll(seen, BasesOf(bases, seen[i]))
      visited[i \in 0 .. Cardinality(DOMAIN bases)] ==
        IF i = 0 THEN <<class>> ELSE Visit(visited[i - 1], i)
  IN  visited[Cardinality(DOMAIN bases)]

\* _owner_inner: the class that self means inside source.
OwnerInner(symbols, source) ==
  IF Is(symbols, source, {"class"}) THEN source.inner ELSE Outer(source.inner)

SelfNames(file) == IF file.language = "python" THEN {"self", "cls"} ELSE {"this"}

\* _resolve: in the same file, on the own class and its bases, through the imports.
Resolve(symbols, files, imports, bases, ref, kinds, hierarchy) ==
  LET file  == ref.source.file
      owner == OwnerInner(symbols, ref.source)
      classes ==
        IF ~hierarchy \/ Len(ref.target) = 1 \/ Head(ref.target) \notin SelfNames(file)
           \/ owner = <<>>
        THEN <<>> ELSE Hierarchy(bases, QName(file, owner))
      Member(i) == QName(classes[i].file, classes[i].inner \o Tail(ref.target))
      \* The classes that define what self is asked for.
      definers == {i \in DOMAIN classes : Is(symbols, Member(i), kinds)}
      imported == {ViaImport(symbols, files, i, Tail(ref.target)) :
                     i \in {j \in imports : j.file = file /\ j.local = Head(ref.target)}}
  IN  IF Is(symbols, QName(file, ref.target), kinds) THEN QName(file, ref.target)
      ELSE IF definers # {} THEN Member(Min(definers))
      ELSE IF \E q \in imported : Is(symbols, q, kinds)
      THEN CHOOSE q \in imported : Is(symbols, q, kinds)
      ELSE NoTarget

\* References in the order of the code's sort.
InOrder(refs) ==
  CHOOSE q \in [1 .. Cardinality(refs) -> refs] :
    \A i, j \in DOMAIN q : i < j => Before(q[i], q[j])

\* The INHERITS half of edges(): the bases that resolve, of every name.
Bases(symbols, files, imports, refs) ==
  LET nothing == [q \in {} |-> <<>>]
      Target(r) == Resolve(symbols, files, imports, nothing, r, TypeTargets, FALSE)
      sorted(q) == InOrder({r \in refs : r.kind = "base" /\ r.source = q /\ Target(r) # NoTarget})
  IN  [q \in {s.name : s \in symbols} \cup {r.source : r \in refs} |->
        [i \in DOMAIN sorted(q) |-> Target(sorted(q)[i])]]

\* edges(): what resolves, once.
ResolveEdges(symbols, files, imports, refs) ==
  LET bases == Bases(symbols, files, imports, refs)
      Edge(source, target, kind) == [source |-> source, target |-> target, kind |-> kind]
      Of(r) ==
        IF r.kind = "call"
        THEN Edge(r.source, Resolve(symbols, files, imports, bases, r, CallTargets, TRUE), "calls")
        ELSE Edge(r.source, Resolve(symbols, files, imports, bases, r, TypeTargets, FALSE),
                  IF r.kind = "base" THEN "inherits" ELSE "references_type")
      all == {Of(r) : r \in refs}
             \cup {Edge(QName(i.file, <<>>), ViaImport(symbols, files, i, <<>>), "imports") : i \in imports}
             \cup {Edge(QName(s.name.file, Outer(s.name.inner)), s.name, "defines") :
                     s \in {t \in symbols : Len(t.name.inner) > 1}}
  IN  {e \in all : e.target # NoTarget}

-----------------------------------------------------------------------------
(* What a resolved call means.                                             *)

\* The calls of members of self, where the file knows nothing else by that name.
SelfCalls(symbols, imports, refs) ==
  {r \in refs :
     /\ r.kind = "call" /\ Len(r.target) # 1 /\ Head(r.target) \in SelfNames(r.source.file)
     /\ OwnerInner(symbols, r.source) # <<>>
     /\ ~Is(symbols, QName(r.source.file, r.target), CallTargets)
     /\ ~ \E i \in imports : i.file = r.source.file /\ i.local = Head(r.target)}

\* The classes reachable from class over inherits edges, in 0 to far steps.
Reached(edges, class, far) ==
  LET Further(names) ==
        names \cup {e.target : e \in {f \in edges : f.kind = "inherits" /\ f.source \in names}}
      reached[i \in 0 .. far] == IF i = 0 THEN {class} ELSE Further(reached[i - 1])
  IN  reached

\* A call of a member of self in a class goes to a definition of the member no farther
\* along the inherits edges than any other; to none where none is in reach.
NearestDefinition(symbols, edges, class, member, target) ==
  LET far == Cardinality(symbols)
      reached == Reached(edges, class, far)
      Definitions(n) == {q \in {QName(c.file, c.inner \o member) : c \in reached[n]} :
                           Is(symbols, q, CallTargets)}
  IN  IF Definitions(far) = {} THEN target = NoTarget
      ELSE \E n \in 0 .. far :
             /\ target \in Definitions(n)
             /\ n > 0 => Definitions(n - 1) = {}

\* Of the calls in a function, each of self reaches the nearest definition; if there is
\* no other call, nothing else is reached.
SelfCallsReachNearest(symbols, files, imports, refs) ==
  LET edges == ResolveEdges(symbols, files, imports, refs)
      Targets(source) == {e.target : e \in {f \in edges : f.kind = "calls" /\ f.source = source}}
  IN  \A r \in SelfCalls(symbols, imports, refs) :
        \E t \in Targets(r.source) \cup {NoTarget} :
          /\ NearestDefinition(symbols, edges,
               QName(r.source.file, OwnerInner(symbols, r.source)), Tail(r.target), t)
          /\ (\A c \in refs : c.kind = "call" /\ c.source = r.source => c = r)
               => Targets(r.source) \subseteq {t}
=============================================================================

----------------------- MODULE RepositoryIndexProofs ------------------------
(***************************************************************************)
(* Proofs about RepositoryIndex, for any files, contents, batches, runs,   *)
(* edits and interruptions.                                                *)
(*                                                                         *)
(* A run that nothing joins works alone (Sole), on a tree that stands      *)
(* still.  Whatever the store held, the rows of a file it has dealt with   *)
(* are those of the tree, those it has still to deal with are as it read   *)
(* them (Scanning); each later phase rests on the one before (Phase).      *)
(***************************************************************************)
EXTENDS RepositoryIndex, SequenceTheorems, TLAPS

\* Vectors and texts are functions.
Maps == /\ vectors = [s \in DOMAIN vectors |-> vectors[s]]
        /\ hashes = [r \in Runs |-> hashes[r]] /\ pending = [r \in Runs |-> pending[r]]
        /\ \A r \in Runs : pending[r] = [s \in DOMAIN pending[r] |-> pending[r][s]]

\* No other run is at work.
Sole(r) ==
  pc[r] \in Working \cup {"done"} /\ ~touched[r] =>
    \A q \in Runs : q # r => pc[q] \notin Working

\* While files are read.
Scanning(r) ==
  /\ \A p \in Paths :
       /\ p \in todo[r] => repo[p] # Absent
       /\ p \in gone[r] => repo[p] = Absent
       /\ p \in todo[r] \cup gone[r] => files[p] = known[r][p]
       /\ \/ p \in todo[r] \cup gone[r]
          \/ pc[r] = "store" /\ p = reading[r][1]
          \/ files[p] = repo[p]
  /\ pc[r] = "store" => /\ reading[r][1] \notin todo[r] \cup gone[r]
                        /\ reading[r][2] = repo[reading[r][1]]

\* A symbol's vector is that of its text.
Fresh(s) == s \in DOMAIN vectors /\ vectors[s] = TextsOf(repo)[s]

\* While batches are embedded.
Planned(r) ==
  /\ \A s \in DOMAIN pending[r] :
       s \in Embeddable(repo) /\ ~Fresh(s) /\ pending[r][s] = TextsOf(repo)[s]
  /\ \A s \in Embeddable(repo) : s \in DOMAIN pending[r] \/ Fresh(s)

Parsed    == {"resolve", "edges", "hash", "plan", "embed", "prune", "done"}
Connected == {"hash", "plan", "embed", "prune", "done"}

Phase(r) ==
  ~touched[r] =>
    /\ pc[r] = "open" => todo[r] = Names(repo)
    /\ pc[r] \in {"scan", "store"} => Scanning(r)
    /\ pc[r] \in Parsed => files = repo
    /\ pc[r] \in {"resolve", "edges"} =>
         \A i \in 1 .. Len(inputs[r]) : inputs[r][i] = repo
    /\ pc[r] \in Connected => edges = [t \in 1 .. 4 |-> repo]
    /\ pc[r] = "plan" => hashes[r] = vectors
    /\ pc[r] = "embed" => Planned(r)
    /\ pc[r] = "prune" => \A s \in Embeddable(repo) : Fresh(s)
    /\ pc[r] = "done" => vectors = TextsOf(repo)

IInv == TypeOK /\ Maps /\ (\A r \in Runs : Sole(r)) /\ (\A r \in Runs : Phase(r))

-----------------------------------------------------------------------------
(* Type correctness.                                                       *)

\* The initial states have their types.
LEMMA InitTypes == Init => TypeOK
<1>1. SUFFICES ASSUME Init PROVE TypeOK
  OBVIOUS
<1>2. NoFiles \in Trees
  BY DEF NoFiles, Trees
<1> QED
  BY <1>1, <1>2, IndexAssumption DEF Init, TypeOK, Working, Trees, IndexAssumption

\* A step keeps the types.
LEMMA StepTypes ==
  ASSUME TypeOK, [Next]_vars
  PROVE  TypeOK'
<1> USE DEF TypeOK, Trees, Working
<1>0. NoFiles \in Trees
  BY DEF NoFiles
<1>1. CASE UNCHANGED vars
  BY <1>1 DEF vars, tables, local
<1>2. ASSUME NEW p \in Paths, NEW c \in Contents \cup {Absent}, Edit(p, c) PROVE TypeOK'
  BY <1>2, IndexAssumption DEF Edit, tables, local, IndexAssumption
<1>3. ASSUME NEW r \in Runs, List(r) PROVE TypeOK'
  BY <1>3 DEF List, tables, Names, Active
<1>4. ASSUME NEW r \in Runs, Open(r) PROVE TypeOK'
  BY <1>4 DEF Open, At, tables, Names
<1>5. ASSUME NEW r \in Runs, Store(r) PROVE TypeOK'
  BY <1>5 DEF Store, At
<1>6. ASSUME NEW r \in Runs, EndScan(r) PROVE TypeOK'
  <2>1. \A q \in Runs : pc'[q] = IF q = r THEN "resolve" ELSE pc[q]
    BY <1>6 DEF EndScan, At
  <2>2. inputs' = inputs /\ inputs[r] = <<>> /\ Len(<<>>) = 0
    BY <1>6 DEF EndScan, At
  <2> QED
    BY <1>6, <1>0, <2>1, <2>2 DEF EndScan, At, tables
<1>7. ASSUME NEW r \in Runs, Query(r) PROVE TypeOK'
  <2>1. inputs[r] \in Seq(Trees) /\ files \in Trees /\ Len(inputs[r]) < 4 /\ pc[r] = "resolve"
    BY <1>7 DEF Query
  <2>2. /\ Append(inputs[r], files) \in Seq(Trees)
        /\ Len(Append(inputs[r], files)) = Len(inputs[r]) + 1 /\ Len(inputs[r]) \in Nat
    BY <2>1
  <2>3. \A q \in Runs : inputs'[q] = IF q = r THEN Append(inputs[r], files) ELSE inputs[q]
    BY <1>7 DEF Query
  <2>4. \A q \in Runs :
          pc'[q] = IF q # r THEN pc[q] ELSE IF Len(inputs[r]) = 3 THEN "edges" ELSE "resolve"
    BY <1>7 DEF Query
  <2>5. inputs' \in [Runs -> Seq(Trees)] /\ pc' \in [Runs -> Working \cup {"off", "done", "failed"}]
    BY <1>7, <2>2 DEF Query
  <2>6. ASSUME NEW q \in Runs
        PROVE  /\ pc'[q] = "resolve" => Len(inputs'[q]) < 4
               /\ pc'[q] = "edges" => Len(inputs'[q]) = 4
               /\ pc'[q] \notin {"resolve", "edges"} => inputs'[q] = <<>>
    <3>1. CASE q = r
      <4>1. Len(inputs'[r]) = Len(inputs[r]) + 1
        BY <2>2, <2>3
      <4>2. pc'[r] = IF Len(inputs[r]) = 3 THEN "edges" ELSE "resolve"
        BY <2>4
      <4>3. CASE Len(inputs[r]) = 3
        <5>1. Len(inputs'[q]) = 4 /\ pc'[q] = "edges"
          BY <3>1, <4>1, <4>2, <4>3
        <5> QED
          BY <5>1
      <4>4. CASE Len(inputs[r]) # 3
        <5>1. Len(inputs'[q]) < 4
          <6>1. \A n \in Nat : n < 4 /\ n # 3 => n + 1 < 4
            OBVIOUS
          <6>2. Len(inputs[r]) \in Nat /\ Len(inputs[r]) < 4
            BY <2>1, <2>2
          <6>3. Len(inputs[r]) + 1 < 4
            BY <4>4, <6>1, <6>2
          <6> QED
            BY <3>1, <4>1, <6>3
        <5>2. pc'[q] = "resolve"
          BY <3>1, <4>2, <4>4
        <5> QED
          BY <5>1, <5>2
      <4> QED
        BY <4>3, <4>4
    <3>2. CASE q # r
      BY <3>2, <2>3, <2>4
    <3> QED
      BY <3>1, <3>2
  <2>7. \A q \in Runs : pc'[q] = "store" => reading'[q] # <<>>
    BY <1>7, <2>4 DEF Query
  <2>8. UNCHANGED <<repo, files, edges, known, todo, gone, reading, touched, edits>>
    BY <1>7 DEF Query, tables
  <2> HIDE DEF Working
  <2> QED
    BY <2>5, <2>6, <2>7, <2>8
<1>8. ASSUME NEW r \in Runs, ReplaceEdges(r) PROVE TypeOK'
  <2>1. inputs[r] \in Seq(Trees) /\ Len(inputs[r]) = 4
    BY <1>8 DEF ReplaceEdges, At
  <2>2. edges' \in [1 .. 4 -> Trees]
    BY <1>8, <2>1, LenProperties DEF ReplaceEdges
  <2>3. <<>> \in Seq(Trees)
    OBVIOUS
  <2>4. inputs' \in [Runs -> Seq(Trees)] /\ \A q \in Runs : q # r => inputs'[q] = inputs[q]
    BY <1>8, <2>3 DEF ReplaceEdges
  <2>5. \A q \in Runs : pc'[q] = IF q = r THEN "hash" ELSE pc[q]
    BY <1>8 DEF ReplaceEdges, At
  <2>6. inputs'[r] = <<>>
    BY <1>8 DEF ReplaceEdges
  <2> QED
    BY <1>8, <2>2, <2>4, <2>5, <2>6 DEF ReplaceEdges, At
<1>9. ASSUME NEW r \in Runs, Hashes(r) PROVE TypeOK'
  BY <1>9 DEF Hashes, At, tables
<1>10. ASSUME NEW r \in Runs, Plan(r) PROVE TypeOK'
  BY <1>10 DEF Plan, At, tables
<1>11. ASSUME NEW r \in Runs, EndEmbed(r) PROVE TypeOK'
  BY <1>11 DEF EndEmbed, At, tables, local
<1>12. ASSUME NEW r \in Runs, Prune(r) PROVE TypeOK'
  BY <1>12 DEF Prune, At, local
<1>13. ASSUME NEW r \in Runs, Fail(r) PROVE TypeOK'
  BY <1>13, <1>0 DEF Fail, tables, Active
<1>14. ASSUME NEW r \in Runs, NEW p \in Paths, Read(r, p) PROVE TypeOK'
  <2>1. <<p, repo[p]>> \in Paths \X Contents
    BY <1>14 DEF Read, Readable
  <2>2. CASE Unchanged(r, p)
    BY <1>14, <2>2 DEF Read, tables
  <2>3. CASE ~Unchanged(r, p)
    <3>1. \A q \in Runs : /\ pc'[q] = IF q = r THEN "store" ELSE pc[q]
                          /\ reading'[q] = IF q = r THEN <<p, repo[p]>> ELSE reading[q]
      BY <1>14, <2>3 DEF Read
    <3>2. <<p, repo[p]>> # <<>>
      OBVIOUS
    <3>3. reading' \in [Runs -> {<<>>} \cup (Paths \X Contents)]
      BY <1>14, <2>1, <2>3 DEF Read
    <3>4. pc' \in [Runs -> Working \cup {"off", "done", "failed"}]
      BY <1>14, <2>3 DEF Read
    <3>5. /\ UNCHANGED <<repo, files, edges, known, gone, inputs, touched, edits>>
          /\ todo' \in [Runs -> SUBSET Paths] /\ pc[r] = "scan"
      BY <1>14 DEF Read, tables
    <3>6. \A q \in Runs : /\ pc'[q] = "store" => reading'[q] # <<>>
                          /\ pc'[q] = "resolve" => Len(inputs'[q]) < 4
                          /\ pc'[q] = "edges" => Len(inputs'[q]) = 4
                          /\ pc'[q] \notin {"resolve", "edges"} => inputs'[q] = <<>>
      BY <3>1, <3>2, <3>5
    <3> HIDE DEF Working
    <3> QED
      BY <3>3, <3>4, <3>5, <3>6
  <2> QED
    BY <2>2, <2>3
<1>15. ASSUME NEW r \in Runs, NEW p \in Paths, Remove(r, p) PROVE TypeOK'
  BY <1>15 DEF Remove
<1>16. ASSUME NEW r \in Runs, NEW batch \in SUBSET DOMAIN pending[r], Embed(r, batch)
       PROVE  TypeOK'
  BY <1>16 DEF Embed
<1> QED
  BY <1>1, <1>2, <1>3, <1>4, <1>5, <1>6, <1>7, <1>8, <1>9, <1>10, <1>11, <1>12, <1>13,
     <1>14, <1>15, <1>16 DEF Next, Step

-----------------------------------------------------------------------------
(* Functions restricted and merged.                                        *)

\* Only restricts.
LEMMA OnlyValues ==
  ASSUME NEW f, NEW S
  PROVE  /\ DOMAIN Only(f, S) = S /\ \A s \in S : Only(f, S)[s] = f[s]
         /\ Only(f, S) = [s \in DOMAIN Only(f, S) |-> Only(f, S)[s]]
BY DEF Only

\* Merge overwrites.
LEMMA MergeValues ==
  ASSUME NEW f, NEW g
  PROVE  /\ DOMAIN Merge(f, g) = DOMAIN f \cup DOMAIN g
         /\ \A s \in DOMAIN g : Merge(f, g)[s] = g[s]
         /\ \A s \in DOMAIN f \ DOMAIN g : Merge(f, g)[s] = f[s]
         /\ Merge(f, g) = [s \in DOMAIN Merge(f, g) |-> Merge(f, g)[s]]
BY DEF Merge

\* The texts of a tree are those of its embedded symbols.
LEMMA TextValues ==
  ASSUME NEW tree
  PROVE  /\ DOMAIN TextsOf(tree) = Embeddable(tree)
         /\ TextsOf(tree) = [s \in Embeddable(tree) |-> TextsOf(tree)[s]]
BY DEF TextsOf

\* A step keeps vectors and texts functions.
LEMMA StepMaps ==
  ASSUME TypeOK, Maps, [Next]_vars
  PROVE  Maps'
<1> USE DEF Maps
<1>1. CASE UNCHANGED <<vectors, hashes, pending>>
  BY <1>1
<1>2. ASSUME NEW r \in Runs, Hashes(r) PROVE Maps'
  BY <1>2 DEF Hashes, tables
<1>3. ASSUME NEW r \in Runs, Plan(r) PROVE Maps'
  <2> DEFINE new == Only(TextsOf(files), Stale(files, hashes[r]))
  <2>1. new = [s \in DOMAIN new |-> new[s]]
    BY OnlyValues
  <2>2. pending' = [pending EXCEPT ![r] = new] /\ hashes' = [hashes EXCEPT ![r] = Nothing]
    BY <1>3 DEF Plan
  <2>3. vectors' = vectors
    BY <1>3 DEF Plan, tables
  <2> HIDE DEF new
  <2> QED
    BY <2>1, <2>2, <2>3
<1>4. ASSUME NEW r \in Runs, Prune(r) PROVE Maps'
  BY <1>4, OnlyValues DEF Prune, Pruned, local
<1>5. ASSUME NEW r \in Runs, Fail(r) PROVE Maps'
  BY <1>5 DEF Fail, tables, Nothing
<1>6. ASSUME NEW r \in Runs, NEW batch \in SUBSET DOMAIN pending[r], Embed(r, batch)
      PROVE  Maps'
  <2> DEFINE merged == Merge(vectors, Only(pending[r], batch))
  <2>0. vectors' = merged /\ merged = [s \in DOMAIN merged |-> merged[s]]
    BY <1>6, MergeValues DEF Embed
  <2> HIDE DEF merged
  <2>1. vectors' = [s \in DOMAIN vectors' |-> vectors'[s]]
    BY <2>0
  <2>2. pending' = [pending EXCEPT ![r] = Only(pending[r], DOMAIN pending[r] \ batch)]
    BY <1>6 DEF Embed, Rest
  <2>3. hashes' = hashes
    BY <1>6 DEF Embed
  <2> QED
    BY <2>1, <2>2, <2>3, OnlyValues
<1> QED
  BY <1>1, <1>2, <1>3, <1>4, <1>5, <1>6
     DEF Next, Step, vars, tables, local, List, Open, Store, EndScan, Query, ReplaceEdges,
         EndEmbed, Read, Remove, Edit

-----------------------------------------------------------------------------
(* One run's step as the others see it.                                    *)

\* Another run's phase is its own, and a run once joined stays so.
LEMMA Aside ==
  ASSUME TypeOK, NEW r \in Runs, NEW q \in Runs, q # r, Step(r)
  PROVE  pc'[q] = pc[q] /\ (touched[q] => touched'[q])
BY DEF TypeOK, Step, List, Open, Store, EndScan, Query, ReplaceEdges, Hashes, Plan, EndEmbed,
       Prune, Fail, Read, Remove, Embed, At

\* A run that is not at work can only start, and so join every other.
LEMMA Joins ==
  ASSUME TypeOK, NEW r \in Runs, pc[r] \notin Working, Step(r)
  PROVE  List(r) /\ pc'[r] = "open" /\ \A q \in Runs : q # r => touched'[q]
<1>1. List(r)
  BY DEF TypeOK, Step, Open, Store, EndScan, Query, ReplaceEdges, Hashes, Plan, EndEmbed,
         Prune, Fail, Read, Remove, Embed, At, Working, Active
<1> QED
  BY <1>1 DEF List, TypeOK

\* A run at work goes on; it is joined as much as before.
LEMMA GoesOn ==
  ASSUME TypeOK, NEW r \in Runs, pc[r] \in Working, Step(r)
  PROVE  touched' = touched /\ repo' = repo
BY DEF Step, List, Open, Store, EndScan, Query, ReplaceEdges, Hashes, Plan, EndEmbed,
       Prune, Fail, Read, Remove, Embed, At, tables, local

\* A run that nothing joins works alone.
LEMMA StepSole ==
  ASSUME IInv, NEW r \in Runs, Step(r), NEW q \in Runs
  PROVE  Sole(q)'
<1>1. TypeOK /\ Sole(q)
  BY DEF IInv
<1>2. SUFFICES ASSUME pc'[q] \in Working \cup {"done"}, ~touched'[q],
                      NEW p \in Runs, p # q
               PROVE  pc'[p] \notin Working
  BY DEF Sole, Working
<1>3. CASE q # r
  <2>1. pc[q] = pc'[q] /\ ~touched[q]
    BY <1>1, <1>2, <1>3, Aside
  <2>2. pc[r] \notin Working
    BY <1>1, <1>2, <1>3, <2>1 DEF Sole
  <2> QED
    BY <1>1, <1>2, <1>3, <2>2, Joins
<1>4. CASE q = r /\ pc[r] \in Working
  BY <1>1, <1>2, <1>4, Aside, GoesOn DEF Sole
<1>5. CASE q = r /\ pc[r] \notin Working
  <2>1. List(r)
    BY <1>1, <1>5, Joins
  <2>2. Active = {}
    BY <1>1, <1>2, <1>5, <2>1 DEF List, TypeOK
  <2> QED
    BY <1>1, <1>2, <1>5, <2>2, Aside DEF Active
<1> QED
  BY <1>3, <1>4, <1>5

\* What a run may rely on, the other runs leave it.
LEMMA StepOther ==
  ASSUME IInv, NEW r \in Runs, Step(r), NEW q \in Runs, q # r
  PROVE  Phase(q)'
<1>1. TypeOK /\ Sole(q)
  BY DEF IInv
<1>2. SUFFICES ASSUME ~touched'[q] PROVE pc'[q] \notin Working \cup {"done"}
  BY DEF Phase, Working, Parsed, Connected
<1>3. pc'[q] = pc[q] /\ ~touched[q]
  BY <1>1, <1>2, Aside
<1>4. pc[q] \in Working \cup {"done"} => pc[r] \notin Working
  BY <1>1, <1>3 DEF Sole
<1> QED
  BY <1>1, <1>2, <1>3, <1>4, Joins

-----------------------------------------------------------------------------
(* One run's phases.                                                       *)

\* Opening the store: nothing is dealt with but what is equal to the tree.
LEMMA OwnOpen ==
  ASSUME IInv, NEW r \in Runs, Open(r), ~touched[r]
  PROVE  Scanning(r)'
<1>1. todo[r] = Names(repo) /\ files \in Trees /\ repo \in Trees /\ todo' = todo
  BY DEF IInv, TypeOK, Phase, Open, At
<1>2. known'[r] = files /\ gone'[r] = Names(files) \ todo[r] /\ pc'[r] = "scan"
  BY DEF IInv, TypeOK, Open, At
<1>3. repo' = repo /\ files' = files
  BY DEF Open, tables
<1> QED
  BY <1>1, <1>2, <1>3 DEF Scanning, Names, Trees

\* Reading a file whose rows are those of its content leaves it; another is stored.
LEMMA OwnRead ==
  ASSUME IInv, NEW r \in Runs, NEW p \in Paths, Read(r, p), ~touched[r]
  PROVE  Scanning(r)'
<1>1. TypeOK /\ Scanning(r) /\ pc[r] = "scan" /\ p \in todo[r]
  BY DEF IInv, Phase, Read
<1>2. /\ todo'[r] = todo[r] \ {p} /\ gone' = gone /\ known' = known
      /\ repo' = repo /\ files' = files
  BY <1>1 DEF TypeOK, Read, tables
<1>3. CASE Unchanged(r, p)
  <2>1. pc'[r] = "scan"
    BY <1>1, <1>3 DEF Read
  <2>2. files[p] = repo[p]
    BY <1>1, <1>3 DEF Scanning, Unchanged
  <2> QED
    BY <1>1, <1>2, <2>1, <2>2 DEF Scanning
<1>4. CASE ~Unchanged(r, p)
  <2>1. reading'[r] = <<p, repo[p]>>
    BY <1>1, <1>4 DEF Read, TypeOK
  <2>2. reading'[r][1] = p /\ reading'[r][2] = repo[p]
    BY <2>1
  <2>3. pc'[r] = "store"
    BY <1>1, <1>4 DEF Read, TypeOK
  <2>4. p \notin gone[r] /\ p \notin todo'[r]
    BY <1>1, <1>2 DEF Scanning
  <2> QED
    BY <1>1, <1>2, <2>2, <2>3, <2>4 DEF Scanning
<1> QED
  BY <1>3, <1>4

\* The rows of a stored file are those of its content.
LEMMA OwnStore ==
  ASSUME IInv, NEW r \in Runs, Store(r), ~touched[r]
  PROVE  Scanning(r)'
<1>1. TypeOK /\ Scanning(r) /\ pc[r] = "store"
  BY DEF IInv, Phase, Store, At
<1>2. reading[r] \in Paths \X Contents
  BY <1>1 DEF TypeOK
<1>3. \A p \in Paths : files'[p] = IF p = reading[r][1] THEN reading[r][2] ELSE files[p]
  BY <1>1, <1>2 DEF Store, TypeOK, Trees
<1>4. pc'[r] = "scan" /\ todo' = todo /\ gone' = gone /\ known' = known /\ repo' = repo
  BY <1>1 DEF Store, At, TypeOK
<1>5. \A p \in Paths : p # reading[r][1] => files'[p] = files[p]
  BY <1>3
<1>6. files'[reading[r][1]] = repo[reading[r][1]]
  BY <1>1, <1>2, <1>3 DEF Scanning
<1> QED
  BY <1>1, <1>4, <1>5, <1>6 DEF Scanning

\* A file that was not listed is not in the tree.
LEMMA OwnRemove ==
  ASSUME IInv, NEW r \in Runs, NEW p \in Paths, Remove(r, p), ~touched[r]
  PROVE  Scanning(r)'
<1>1. TypeOK /\ Scanning(r) /\ pc[r] = "scan" /\ p \in gone[r]
  BY DEF IInv, Phase, Remove
<1>2. /\ pc'[r] = "scan" /\ todo' = todo /\ known' = known /\ repo' = repo
      /\ gone'[r] = gone[r] \ {p}
  BY <1>1 DEF Remove, TypeOK
<1>3. \A q \in Paths : files'[q] = IF q = p THEN Absent ELSE files[q]
  BY <1>1 DEF Remove, TypeOK, Trees
<1> QED
  BY <1>1, <1>2, <1>3 DEF Scanning

\* Once every file is dealt with, the rows are those of the tree.
LEMMA ScanEnds ==
  ASSUME TypeOK, NEW r \in Runs, Scanning(r), pc[r] = "scan", Scanned(r)
  PROVE  files = repo
<1>1. \A p \in Paths : files[p] = repo[p]
  BY DEF Scanning, Scanned
<1> QED
  BY <1>1 DEF TypeOK, Trees

\* The plan: every symbol has its vector or is to be embedded.
LEMMA OwnPlan ==
  ASSUME IInv, NEW r \in Runs, Plan(r), ~touched[r]
  PROVE  Planned(r)'
<1> DEFINE stale == Stale(files, hashes[r])
           new   == Only(TextsOf(files), stale)
<1>1. files = repo /\ hashes[r] = vectors
  BY DEF IInv, Phase, Plan, At, Parsed
<1>2. pending'[r] = new
  BY DEF IInv, Maps, Plan
<1>3. repo' = repo /\ vectors' = vectors
  BY DEF Plan, tables
<1>4. DOMAIN new = stale /\ \A s \in stale : new[s] = TextsOf(repo)[s]
  BY <1>1, OnlyValues
<1>5. \A s \in Embeddable(repo) : s \in stale \/ Fresh(s)
  BY <1>1 DEF Stale, Fresh
<1>6. \A s \in stale : s \in Embeddable(repo) /\ ~Fresh(s)
  BY <1>1 DEF Stale, Fresh
<1> HIDE DEF stale, new
<1> QED
  BY <1>2, <1>3, <1>4, <1>5, <1>6 DEF Planned, Fresh

\* A batch: its symbols have their vectors, and are off the list.
LEMMA OwnEmbed ==
  ASSUME IInv, NEW r \in Runs, NEW batch \in SUBSET DOMAIN pending[r], Embed(r, batch),
         ~touched[r]
  PROVE  Planned(r)'
<1> DEFINE new  == Only(pending[r], batch)
           rest == Only(pending[r], DOMAIN pending[r] \ batch)
<1>1. Planned(r)
  BY DEF IInv, Phase, Embed
<1>2. pending'[r] = rest /\ vectors' = Merge(vectors, new) /\ repo' = repo
  BY DEF IInv, Maps, Embed, Rest
<1>3. DOMAIN new = batch /\ \A s \in batch : new[s] = pending[r][s]
  BY OnlyValues
<1>4. DOMAIN rest = DOMAIN pending[r] \ batch /\ \A s \in DOMAIN rest : rest[s] = pending[r][s]
  BY OnlyValues
<1> HIDE DEF new, rest
<1>5. /\ DOMAIN vectors' = DOMAIN vectors \cup batch
      /\ \A s \in batch : vectors'[s] = pending[r][s]
      /\ \A s \in DOMAIN vectors \ batch : vectors'[s] = vectors[s]
  <2>1. /\ DOMAIN Merge(vectors, new) = DOMAIN vectors \cup DOMAIN new
        /\ \A s \in DOMAIN new : Merge(vectors, new)[s] = new[s]
        /\ \A s \in DOMAIN vectors \ DOMAIN new : Merge(vectors, new)[s] = vectors[s]
    BY DEF Merge
  <2> QED
    BY <1>2, <1>3, <2>1
<1>6. ASSUME NEW s \in Embeddable(repo)
      PROVE  s \in DOMAIN rest \/ Fresh(s)'
  <2>1. CASE s \in batch
    BY <1>1, <1>2, <1>5, <2>1 DEF Planned, Fresh
  <2>2. CASE s \in DOMAIN pending[r] \ batch
    BY <1>4, <2>2
  <2>3. CASE s \notin DOMAIN pending[r]
    BY <1>1, <1>2, <1>5, <2>3 DEF Planned, Fresh
  <2> QED
    BY <2>1, <2>2, <2>3
<1>7. ASSUME NEW s \in DOMAIN rest
      PROVE  s \in Embeddable(repo) /\ ~Fresh(s)' /\ rest[s] = TextsOf(repo)[s]
  BY <1>1, <1>2, <1>4, <1>5, <1>7 DEF Planned, Fresh
<1> QED
  BY <1>2, <1>6, <1>7 DEF Planned

\* Pruned, the vectors are those of the tree's symbols.
LEMMA OwnPrune ==
  ASSUME IInv, NEW r \in Runs, Prune(r), ~touched[r]
  PROVE  vectors' = TextsOf(repo)'
<1> DEFINE keep == DOMAIN vectors \cap Embeddable(repo)
<1>1. files = repo /\ \A s \in Embeddable(repo) : Fresh(s)
  BY DEF IInv, Phase, Prune, At, Parsed
<1>2. vectors' = Only(vectors, keep) /\ repo' = repo
  BY <1>1 DEF Prune, Pruned, local
<1>3. keep = Embeddable(repo)
  BY <1>1 DEF Fresh
<1>4. vectors' = [s \in Embeddable(repo) |-> vectors[s]]
  BY <1>2, <1>3 DEF Only
<1>5. \A s \in Embeddable(repo) : vectors[s] = TextsOf(repo)[s]
  BY <1>1 DEF Fresh
<1> QED
  BY <1>2, <1>4, <1>5, TextValues

\* Its own step leads a run from phase to phase.
LEMMA StepOwn ==
  ASSUME IInv, NEW r \in Runs, Step(r)
  PROVE  Phase(r)'
<1>0. TypeOK /\ Phase(r)
  BY DEF IInv
<1>1. CASE List(r)
  BY <1>0, <1>1 DEF List, Phase, TypeOK, Parsed, Connected, Names
<1>2. CASE Open(r)
  BY <1>0, <1>2, OwnOpen DEF Open, At, Phase, TypeOK, Parsed, Connected
<1>3. CASE Store(r)
  BY <1>0, <1>3, OwnStore DEF Store, At, Phase, TypeOK, Parsed, Connected
<1>4. CASE EndScan(r)
  <2>1. pc[r] = "scan" /\ pc'[r] = "resolve" /\ Scanned(r)
    BY <1>0, <1>4 DEF EndScan, At, TypeOK
  <2>2. /\ repo' = repo /\ files' = files /\ touched' = touched /\ inputs'[r] = <<>>
        /\ 1 .. Len(<<>>) = {}
    BY <1>0, <1>4, <2>1 DEF EndScan, tables, TypeOK
  <2>3. ~touched[r] => files = repo
    BY <1>0, <2>1, ScanEnds DEF Phase
  <2> QED
    BY <2>1, <2>2, <2>3 DEF Phase, Parsed, Connected
<1>5. CASE Query(r)
  <2>1. /\ pc[r] = "resolve" /\ pc'[r] \in {"resolve", "edges"} /\ inputs[r] \in Seq(Trees)
        /\ inputs'[r] = Append(inputs[r], files)
    BY <1>0, <1>5 DEF Query, TypeOK
  <2>2. repo' = repo /\ files' = files /\ touched' = touched
    BY <1>5 DEF Query, tables
  <2>3. ~touched[r] => files = repo /\ \A i \in 1 .. Len(inputs[r]) : inputs[r][i] = repo
    BY <1>0, <2>1 DEF Phase, Parsed
  <2>4. files \in Trees
    BY <1>0 DEF TypeOK
  <2>5. ~touched[r] => \A i \in 1 .. Len(inputs'[r]) : inputs'[r][i] = repo
    BY <2>1, <2>3, <2>4
  <2> QED
    BY <2>1, <2>2, <2>3, <2>5 DEF Phase, Parsed, Connected
<1>6. CASE ReplaceEdges(r)
  <2>1. pc[r] = "edges" /\ pc'[r] = "hash" /\ edges' = inputs[r]
    BY <1>0, <1>6 DEF ReplaceEdges, At, TypeOK
  <2>2. repo' = repo /\ files' = files /\ touched' = touched
    BY <1>6 DEF ReplaceEdges
  <2>3. inputs[r] \in Seq(Trees) /\ Len(inputs[r]) = 4
    BY <1>0, <2>1 DEF TypeOK
  <2>4. inputs[r] \in [1 .. 4 -> Trees]
    BY <2>3, LenProperties
  <2>5. ~touched[r] => files = repo /\ \A i \in 1 .. 4 : inputs[r][i] = repo
    BY <1>0, <2>1, <2>3 DEF Phase, Parsed
  <2>6. ~touched[r] => edges' = [t \in 1 .. 4 |-> repo]
    BY <2>1, <2>4, <2>5
  <2> QED
    BY <2>1, <2>2, <2>5, <2>6 DEF Phase, Parsed, Connected
<1>7. CASE Hashes(r)
  <2>1. hashes'[r] = vectors /\ vectors' = vectors
    BY <1>7 DEF IInv, Maps, Hashes, tables
  <2> QED
    BY <1>0, <1>7, <2>1 DEF Hashes, At, Phase, TypeOK, Parsed, Connected, tables
<1>8. CASE Plan(r)
  BY <1>0, <1>8, OwnPlan DEF Plan, At, Phase, TypeOK, Parsed, Connected, tables
<1>9. CASE EndEmbed(r)
  <2>1. Fresh(1)' = Fresh(1) /\ \A s : Fresh(s) => Fresh(s)'
    BY <1>9 DEF EndEmbed, Fresh, tables
  <2>2. pc[r] = "embed" /\ pc'[r] = "prune" /\ DOMAIN pending[r] = {} /\ touched' = touched
    BY <1>0, <1>9 DEF EndEmbed, At, TypeOK, Nothing
  <2>3. repo' = repo /\ files' = files /\ edges' = edges
    BY <1>9 DEF EndEmbed, tables
  <2>4. ~touched[r] => \A s \in Embeddable(repo) : Fresh(s)'
    BY <1>0, <2>1, <2>2 DEF Phase, Planned
  <2> QED
    BY <1>0, <2>2, <2>3, <2>4 DEF Phase, Parsed, Connected
<1>10. CASE Prune(r)
  BY <1>0, <1>10, OwnPrune DEF Prune, At, Phase, TypeOK, Parsed, Connected
<1>11. CASE Fail(r)
  BY <1>0, <1>11 DEF Fail, Phase, TypeOK, Parsed, Connected
<1>12. ASSUME NEW p \in Paths, Read(r, p) PROVE Phase(r)'
  <2>1. pc'[r] \in {"scan", "store"} /\ touched' = touched
    BY <1>0, <1>12 DEF Read, TypeOK
  <2> QED
    BY <1>12, <2>1, OwnRead DEF Phase, Parsed, Connected
<1>13. ASSUME NEW p \in Paths, Remove(r, p) PROVE Phase(r)'
  <2>1. pc'[r] = "scan" /\ touched' = touched
    BY <1>0, <1>13 DEF Remove, TypeOK
  <2> QED
    BY <1>13, <2>1, OwnRemove DEF Phase, Parsed, Connected
<1>14. ASSUME NEW batch \in SUBSET DOMAIN pending[r], Embed(r, batch) PROVE Phase(r)'
  BY <1>0, <1>14, OwnEmbed DEF Embed, Phase, TypeOK, Parsed, Connected
<1> QED
  BY <1>1, <1>2, <1>3, <1>4, <1>5, <1>6, <1>7, <1>8, <1>9, <1>10, <1>11, <1>12, <1>13, <1>14
     DEF Step

-----------------------------------------------------------------------------
(* The theorems.                                                           *)

\* A step keeps the invariant.
LEMMA StepInv ==
  ASSUME IInv, [Next]_vars
  PROVE  IInv'
<1>1. TypeOK' /\ Maps'
  BY StepTypes, StepMaps DEF IInv
<1>2. CASE UNCHANGED vars
  BY <1>1, <1>2 DEF vars, tables, local, IInv, Sole, Phase, Scanning, Planned, Fresh
<1>3. ASSUME NEW p \in Paths, NEW c \in Contents \cup {Absent}, Edit(p, c) PROVE IInv'
  BY <1>1, <1>3 DEF Edit, IInv, Sole, Phase
<1>4. ASSUME NEW r \in Runs, Step(r) PROVE IInv'
  <2>1. \A q \in Runs : Sole(q)'
    BY <1>4, StepSole
  <2>2. \A q \in Runs : Phase(q)'
    BY <1>4, StepOther, StepOwn
  <2> QED
    BY <1>1, <2>1, <2>2 DEF IInv
<1> QED
  BY <1>2, <1>3, <1>4 DEF Next

\* Every reachable state satisfies the invariant.
LEMMA Invariant == Spec => []IInv
<1>1. Init => IInv
  <2>1. SUFFICES ASSUME Init PROVE IInv
    OBVIOUS
  <2>2. TypeOK
    BY <2>1, InitTypes
  <2> QED
    BY <2>1, <2>2 DEF Init, IInv, Maps, Nothing, Sole, Phase, Working, Parsed, Connected
<1>2. IInv /\ [Next]_vars => IInv'
  BY StepInv
<1> QED
  BY <1>1, <1>2, PTL DEF Spec

\* The store and every run's variables have their types (indexer.py, store.py).
THEOREM TypeCorrect == Spec => []TypeOK
<1>1. IInv => TypeOK
  BY DEF IInv
<1> QED
  BY <1>1, Invariant, PTL

\* index_repo: a run that nothing joins leaves the index of the present tree, whatever
\* interrupted, overlapping or overtaken runs left before it.
THEOREM RunsConverge == Spec => []Converges
<1>1. IInv => Converges
  BY DEF IInv, Phase, Converges, UpToDate, Parsed, Connected
<1> QED
  BY <1>1, Invariant, PTL

\* _embed_changed: a run that nothing joins embeds no symbol whose vector is that of
\* its text.
THEOREM NothingEmbeddedTwice == Spec => []OnlyStaleEmbedded
<1>1. IInv => OnlyStaleEmbedded
  BY DEF IInv, Phase, OnlyStaleEmbedded, Planned, Fresh, Stale, Parsed
<1> QED
  BY <1>1, Invariant, PTL
=============================================================================

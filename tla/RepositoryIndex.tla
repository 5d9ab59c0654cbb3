--------------------------- MODULE RepositoryIndex --------------------------
(***************************************************************************)
(* The code index of one repository (src/broker/index/indexer.py and       *)
(* store.py): `python -m broker.index' brings a SQLite file up to date     *)
(* with the work tree, file by file, re-parsing and re-embedding only what *)
(* changed.                                                                *)
(*                                                                         *)
(* Every transaction of the store is one step, every query is one step,    *)
(* and so is every read of a source file.  Between two steps the developer *)
(* edits the tree, another process indexes the same repository, or the     *)
(* run ends by an error or a kill; what it committed stays.                *)
(*                                                                         *)
(* A file's content is the map from the symbols it defines to the texts    *)
(* embedded for them; its hash is the content.  The rows a file has in     *)
(* files, symbols, refs and imports are replaced together and extracted    *)
(* from one content, so that content stands for them.  The edge table is   *)
(* the value of resolve_edges (module EdgeResolution) on four queries; it  *)
(* is represented by what those queries returned.                          *)
(***************************************************************************)
EXTENDS Naturals, Sequences, FiniteSets

CONSTANTS
  Paths,     \* files of an indexed language
  Contents,  \* what a file may hold: functions from symbol names to texts
  Plain,     \* the "text" of a symbol that is not embedded (kind TYPE)
  Absent,    \* no such file
  Runs,      \* index processes
  BatchMax,  \* _BATCH_MAX_ITEMS
  MaxEdits   \* bound on the edits of the work tree

ASSUME IndexAssumption ==
  /\ Absent \notin Contents /\ BatchMax \in Nat \ {0} /\ MaxEdits \in Nat
  /\ \A c \in Contents : c = [n \in DOMAIN c |-> c[n]]

VARIABLES
  repo,     \* the work tree
  files,    \* tables files, symbols, refs and imports
  edges,    \* table edges: what the queries it was resolved from returned
  vectors,  \* table embeddings: the text behind the vector of each symbol
  pc,       \* where each run is
  known,    \* its file_hashes() at the start
  todo,     \* listed files still to look at
  gone,     \* known files that were not listed
  reading,  \* the file it has read and extracted, and the content
  inputs,   \* results of the queries for resolve_edges, so far
  hashes,   \* its embedding_hashes()
  pending,  \* symbols still to embed, with their texts
  touched,  \* history: a run was joined by another, or by an edit
  edits     \* history: the number of edits

tables  == <<files, edges, vectors>>
local   == <<known, todo, gone, reading, inputs, hashes, pending>>
vars    == <<repo, tables, pc, local, touched, edits>>

Trees   == [Paths -> Contents \cup {Absent}]
NoFiles == [p \in Paths |-> Absent]
Nothing == [s \in {} |-> Plain]              \* no vectors, no texts

\* embeddable_symbols and embedding_text: the embedded symbols of a tree and
\* their texts, keyed by qualified name.
Names(tree) == {p \in Paths : tree[p] # Absent}
Embeddable(tree) ==
  UNION {{<<p, n>> : n \in {m \in DOMAIN tree[p] : tree[p][m] # Plain}} : p \in Names(tree)}
TextsOf(tree) == [s \in Embeddable(tree) |-> tree[s[1]][s[2]]]

\* Symbols whose text has no vector yet.
Stale(tree, stored) ==
  {s \in Embeddable(tree) : s \notin DOMAIN stored \/ stored[s] # TextsOf(tree)[s]}

Only(f, S)     == [s \in S |-> f[s]]
Merge(f, g)    == [s \in DOMAIN f \cup DOMAIN g |-> IF s \in DOMAIN g THEN g[s] ELSE f[s]]

Working == {"open", "scan", "store", "resolve", "edges", "hash", "plan", "embed", "prune"}
Active  == {r \in Runs : pc[r] \in Working}

Init ==
  /\ repo \in Trees
  /\ files = NoFiles /\ edges = [t \in 1 .. 4 |-> NoFiles] /\ vectors = Nothing
  /\ pc = [r \in Runs |-> "off"]
  /\ known = [r \in Runs |-> NoFiles]
  /\ todo = [r \in Runs |-> {}] /\ gone = [r \in Runs |-> {}]
  /\ reading = [r \in Runs |-> <<>>] /\ inputs = [r \in Runs |-> <<>>]
  /\ hashes = [r \in Runs |-> Nothing] /\ pending = [r \in Runs |-> Nothing]
  /\ touched = [r \in Runs |-> FALSE] /\ edits = 0

-----------------------------------------------------------------------------
(* One run.  A local variable is cleared once the run is past its last use. *)

At(r, here, next) == pc[r] = here /\ pc' = [pc EXCEPT ![r] = next]

\* index_repo, list_repo_files: git lists the tree before the store is opened.
\* Two runs at once touch each other.
List(r) ==
  /\ pc[r] \notin Working
  /\ pc' = [pc EXCEPT ![r] = "open"]
  /\ todo' = [todo EXCEPT ![r] = Names(repo)]
  /\ touched' = [q \in Runs |-> IF q = r THEN Active # {} ELSE TRUE]
  /\ UNCHANGED <<repo, tables, known, gone, reading, inputs, hashes, pending, edits>>

\* IndexStore.open, file_hashes.  The files to remove are those known but not
\* listed.
Open(r) ==
  /\ At(r, "open", "scan")
  /\ known' = [known EXCEPT ![r] = files]
  /\ gone' = [gone EXCEPT ![r] = Names(files) \ todo[r]]
  /\ UNCHANGED <<repo, tables, todo, reading, inputs, hashes, pending, touched, edits>>

\* Mutant of Unchanged: a file that is known is not read again.
UnchangedIfKnown(r, p) == known[r][p] # Absent

\* The stored hash is the content's.
Unchanged(r, p) == known[r][p] = repo[p]

\* A file listed may have vanished since, which ends the run (Fail).
Readable(p) == repo[p] # Absent

\* A listed file is read, and hashed.
Read(r, p) ==
  /\ pc[r] = "scan" /\ p \in todo[r] /\ Readable(p)
  /\ todo' = [todo EXCEPT ![r] = @ \ {p}]
  /\ IF Unchanged(r, p) THEN UNCHANGED <<pc, reading>>
     ELSE /\ pc' = [pc EXCEPT ![r] = "store"]
          /\ reading' = [reading EXCEPT ![r] = <<p, repo[p]>>]
  /\ UNCHANGED <<repo, tables, known, gone, inputs, hashes, pending, touched, edits>>

\* replace_file: one transaction.
Store(r) ==
  /\ At(r, "store", "scan")
  /\ files' = [files EXCEPT ![reading[r][1]] = reading[r][2]]
  /\ reading' = [reading EXCEPT ![r] = <<>>]
  /\ UNCHANGED <<repo, edges, vectors, known, todo, gone, inputs, hashes, pending, touched,
                 edits>>

\* delete_file, once every listed file was looked at.
Remove(r, p) ==
  /\ pc[r] = "scan" /\ todo[r] = {} /\ p \in gone[r]
  /\ gone' = [gone EXCEPT ![r] = @ \ {p}]
  /\ files' = [files EXCEPT ![p] = Absent]
  /\ UNCHANGED <<repo, edges, vectors, pc, known, todo, reading, inputs, hashes, pending,
                 touched, edits>>

\* Mutant of Scanned: removed files keep their rows.
ScannedListed(r) == todo[r] = {}

\* Every listed file was looked at and every file not listed removed.
Scanned(r) == todo[r] = {} /\ gone[r] = {}

EndScan(r) ==
  /\ At(r, "scan", "resolve") /\ Scanned(r)
  /\ known' = [known EXCEPT ![r] = NoFiles]
  /\ UNCHANGED <<repo, tables, todo, gone, reading, inputs, hashes, pending, touched, edits>>

\* symbol_keys, references, imports, file_languages: one query each.
Query(r) ==
  /\ pc[r] = "resolve"
  /\ inputs' = [inputs EXCEPT ![r] = Append(@, files)]
  /\ pc' = [pc EXCEPT ![r] = IF Len(inputs[r]) = 3 THEN "edges" ELSE "resolve"]
  /\ UNCHANGED <<repo, tables, known, todo, gone, reading, hashes, pending, touched, edits>>

\* replace_edges(resolve_edges(...)): one transaction.
ReplaceEdges(r) ==
  /\ At(r, "edges", "hash")
  /\ edges' = inputs[r]
  /\ inputs' = [inputs EXCEPT ![r] = <<>>]
  /\ UNCHANGED <<repo, files, vectors, known, todo, gone, reading, hashes, pending, touched,
                 edits>>

\* _embed_changed: the stored hashes ...
Hashes(r) ==
  /\ At(r, "hash", "plan")
  /\ hashes' = [hashes EXCEPT ![r] = vectors]
  /\ UNCHANGED <<repo, tables, known, todo, gone, reading, inputs, pending, touched, edits>>

\* ... and the symbols whose text they do not match.
Plan(r) ==
  /\ At(r, "plan", "embed")
  /\ pending' = [pending EXCEPT ![r] = Only(TextsOf(files), Stale(files, hashes[r]))]
  /\ hashes' = [hashes EXCEPT ![r] = Nothing]
  /\ UNCHANGED <<repo, tables, known, todo, gone, reading, inputs, touched, edits>>

\* Mutant of Rest: a batch is not taken off the list.
RestAll(r, batch) == pending[r]

\* What is left after a batch.
Rest(r, batch) == Only(pending[r], DOMAIN pending[r] \ batch)

\* One batch is embedded and stored in one transaction.  A batch is cut by its
\* number of items or of characters.
Embed(r, batch) ==
  /\ pc[r] = "embed"
  /\ batch \subseteq DOMAIN pending[r] /\ batch # {} /\ Cardinality(batch) <= BatchMax
  /\ vectors' = Merge(vectors, Only(pending[r], batch))
  /\ pending' = [pending EXCEPT ![r] = Rest(r, batch)]
  /\ UNCHANGED <<repo, files, edges, pc, known, todo, gone, reading, inputs, hashes, touched,
                 edits>>

EndEmbed(r) ==
  /\ At(r, "embed", "prune") /\ pending[r] = Nothing
  /\ UNCHANGED <<repo, tables, local, touched, edits>>

\* Mutant of Pruned: only symbols that vanished lose their vector.
PrunedGone(stored, tree) ==
  Only(stored, {s \in DOMAIN stored : s[1] \in Names(tree) /\ s[2] \in DOMAIN tree[s[1]]})

\* What prune_embeddings keeps: vectors of symbols still there and still embedded.
Pruned(stored, tree) == Only(stored, DOMAIN stored \cap Embeddable(tree))

Prune(r) ==
  /\ At(r, "prune", "done")
  /\ vectors' = Pruned(vectors, files)
  /\ UNCHANGED <<repo, files, edges, local, touched, edits>>

\* An error (a file vanished, git or the embedding call failed or timed out, the
\* database was locked) or a kill: nothing is undone.
Fail(r) ==
  /\ r \in Active
  /\ pc' = [pc EXCEPT ![r] = "failed"]
  /\ known' = [known EXCEPT ![r] = NoFiles]
  /\ todo' = [todo EXCEPT ![r] = {}] /\ gone' = [gone EXCEPT ![r] = {}]
  /\ reading' = [reading EXCEPT ![r] = <<>>] /\ inputs' = [inputs EXCEPT ![r] = <<>>]
  /\ hashes' = [hashes EXCEPT ![r] = Nothing] /\ pending' = [pending EXCEPT ![r] = Nothing]
  /\ UNCHANGED <<repo, tables, touched, edits>>

\* The developer, or the session, changes the tree.
Edit(p, c) ==
  /\ edits < MaxEdits /\ repo[p] # c
  /\ repo' = [repo EXCEPT ![p] = c]
  /\ edits' = edits + 1
  /\ touched' = [r \in Runs |-> TRUE]
  /\ UNCHANGED <<tables, pc, local>>

Step(r) ==
  \/ List(r) \/ Open(r) \/ Store(r) \/ EndScan(r) \/ Query(r) \/ ReplaceEdges(r)
  \/ Hashes(r) \/ Plan(r) \/ EndEmbed(r) \/ Prune(r) \/ Fail(r)
  \/ \E p \in Paths : Read(r, p) \/ Remove(r, p)
  \/ \E batch \in SUBSET DOMAIN pending[r] : Embed(r, batch)

Next == (\E r \in Runs : Step(r)) \/ \E p \in Paths, c \in Contents \cup {Absent} : Edit(p, c)

Spec == Init /\ [][Next]_vars

-----------------------------------------------------------------------------
(* Properties.                                                             *)

TypeOK ==
  /\ repo \in Trees /\ files \in Trees /\ edges \in [1 .. 4 -> Trees]
  /\ pc \in [Runs -> Working \cup {"off", "done", "failed"}]
  /\ known \in [Runs -> Trees] /\ todo \in [Runs -> SUBSET Paths]
  /\ gone \in [Runs -> SUBSET Paths]
  /\ reading \in [Runs -> {<<>>} \cup (Paths \X Contents)]
  /\ \A r \in Runs : pc[r] = "store" => reading[r] # <<>>
  /\ \A r \in Runs : (pc[r] = "resolve" => Len(inputs[r]) < 4)
                    /\ (pc[r] = "edges" => Len(inputs[r]) = 4)
                    /\ (pc[r] \notin {"resolve", "edges"} => inputs[r] = <<>>)
  /\ inputs \in [Runs -> Seq(Trees)]
  /\ touched \in [Runs -> BOOLEAN] /\ edits \in 0 .. MaxEdits

\* "Bring the index at db_path up to date with repo": a run nothing joined leaves
\* exactly what indexing the tree from nothing would, whatever earlier runs left:
\* interrupted anywhere, overlapping each other, overtaken by edits.
UpToDate ==
  /\ files = repo
  /\ edges = [t \in 1 .. 4 |-> repo]
  /\ vectors = TextsOf(repo)
Converges == \A r \in Runs : pc[r] = "done" /\ ~touched[r] => UpToDate

\* "embed symbols whose text changed": what an earlier run embedded before it
\* failed, and what this one has embedded, is not paid for again.
OnlyStaleEmbedded ==
  \A r \in Runs : pc[r] = "embed" /\ ~touched[r] =>
    DOMAIN pending[r] \subseteq Stale(files, vectors)

-----------------------------------------------------------------------------
(* What the source says that the store does not keep.                      *)

\* "so edges are always consistent with the current symbol set"
\* (edge_resolution.py): not after a run that ended between the two.
EdgesCurrent == Active = {} => edges = [t \in 1 .. 4 |-> files]
=============================================================================

------------------------- MODULE MCRepositoryIndex --------------------------
(***************************************************************************)
(* The code index on a small repository.  Between the three contents a     *)
(* symbol changes its text, appears, vanishes, and changes to a kind that  *)
(* is not embedded and back.                                               *)
(***************************************************************************)
EXTENDS RepositoryIndex, TLC

CONSTANTS a, b, x, y

MCContents ==
  {[n \in {a} |-> x], [n \in {a, b} |-> IF n = a THEN y ELSE x], [n \in {a} |-> Plain]}

Symmetry == Permutations(Paths) \cup Permutations(Runs)
=============================================================================

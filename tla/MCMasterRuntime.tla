--------------------------- MODULE MCMasterRuntime ---------------------------
(***************************************************************************)
(* MasterRuntime for TLC.  Ids are interchangeable; session names are not, *)
(* because startup visits them in order.                                   *)
(***************************************************************************)
EXTENDS MasterRuntime, TLC

SymmetricIds ==
  Permutations(EscalationIds) \cup Permutations(PaneIds) \cup Permutations(ProposalIds)

\* Bound of the run about tool calls: one life of the master, no restart.
FirstLife == phase = "up"

\* Bound of the run about restarts: native prompts are raised, or sessions gain
\* the identity attach needs, but not both in one history.
PanesOrStatuses == raised \cap PaneIds = {} \/ identified = {}
=============================================================================

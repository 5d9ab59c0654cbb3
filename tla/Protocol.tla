------------------------------ MODULE Protocol ------------------------------
(***************************************************************************)
(* The vocabulary master and session brokers share on the wire: session    *)
(* states and the closed subsets both sides test a state against           *)
(* (src/broker/protocol/constants.py, plus the master's absorbing set).    *)
(***************************************************************************)

\* Every state a session may be in, on either side (enum SessionState).
SessionState ==
  {"spawning", "grounding", "awaiting_approval", "driving", "escalated",
   "completed", "error", "stopped", "unmanaged"}

\* States in which a broker answers, triages and reconciles.
ACTIVE_STATES == {"driving"}

\* States in which the master ignores a pushed live status.
ABSORBING == {"completed", "error", "stopped", "unmanaged"}

\* The two native prompts a pane escalation reports (enum PaneKind).
PaneKind == {"permission", "question"}
=============================================================================

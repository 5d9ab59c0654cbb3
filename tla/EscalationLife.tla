---------------------------- MODULE EscalationLife ----------------------------
(***************************************************************************)
(* What the system promises about decision escalations, with no processes, *)
(* queues or messages: a session has at most one open escalation; the      *)
(* developer's decision for an escalation enters the pane of the session   *)
(* that raised it, once at most, and only while it is open.  A decision    *)
(* made too late is discarded.                                             *)
(*                                                                         *)
(* Supervision implements this specification.                              *)
(***************************************************************************)
EXTENDS Naturals

CONSTANTS Sessions, Ids, Nobody

VARIABLES
  phase,   \* of each escalation: "new", "open" or "over"
  raiser,  \* the session that raised it, Nobody before
  chosen,  \* escalations the developer made a decision for
  entered  \* how often an escalation's decision was typed into a session's pane

lifeVars == <<phase, raiser, chosen, entered>>

LifeInit ==
  /\ phase = [e \in Ids |-> "new"] /\ raiser = [e \in Ids |-> Nobody] /\ chosen = {}
  /\ entered = [s \in Sessions |-> [e \in Ids |-> 0]]

\* Session s gets stuck and asks; it has no other open escalation.
Open(s, e) ==
  /\ phase[e] = "new" /\ \A x \in Ids : ~ (phase[x] = "open" /\ raiser[x] = s)
  /\ phase' = [phase EXCEPT ![e] = "open"] /\ raiser' = [raiser EXCEPT ![e] = s]
  /\ UNCHANGED <<chosen, entered>>

\* The developer decides, perhaps about an escalation that is over.
Choose(e) ==
  /\ phase[e] # "new" /\ chosen' = chosen \cup {e}
  /\ UNCHANGED <<phase, raiser, entered>>

\* A decision made for e is typed into the pane of the session that asked.
Enter(s, e) ==
  /\ phase[e] = "open" /\ raiser[e] = s /\ e \in chosen
  /\ phase' = [phase EXCEPT ![e] = "over"]
  /\ entered' = [entered EXCEPT ![s][e] = @ + 1]
  /\ UNCHANGED <<raiser, chosen>>

\* The session goes on without a decision: the developer answered in the pane
\* or superseded the question.
Close(e) ==
  /\ phase[e] = "open" /\ phase' = [phase EXCEPT ![e] = "over"]
  /\ UNCHANGED <<raiser, chosen, entered>>

LifeNext ==
  \/ \E s \in Sessions, e \in Ids : Open(s, e) \/ Enter(s, e)
  \/ \E e \in Ids : Choose(e) \/ Close(e)

LifeSpec == LifeInit /\ [][LifeNext]_lifeVars
=============================================================================

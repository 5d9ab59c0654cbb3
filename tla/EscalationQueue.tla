--------------------------- MODULE EscalationQueue ---------------------------
(***************************************************************************)
(* The master's persisted FIFO of decision escalations                     *)
(* (src/broker/master/queue.py) as operators on a sequence of entries      *)
(* [id |-> escalation id, session |-> session name].  The head is the      *)
(* escalation shown to the developer.                                      *)
(***************************************************************************)
EXTENDS Naturals, Sequences

IdsOf(q)      == {q[i].id : i \in DOMAIN q}
SessionsOf(q) == {q[i].session : i \in DOMAIN q}

\* list.pop(i): the queue without its i-th entry, the others in order.
Pop(q, i) == [j \in 1 .. Len(q) - 1 |-> IF j < i THEN q[j] ELSE q[j + 1]]

\* The first position satisfying the loop's test; the loops of queue.py stop
\* at the first match.
FirstWithId(q, id) ==
  CHOOSE i \in DOMAIN q : q[i].id = id /\ \A j \in DOMAIN q : q[j].id = id => i <= j
FirstOfSession(q, s) ==
  CHOOSE i \in DOMAIN q :
    q[i].session = s /\ \A j \in DOMAIN q : q[j].session = s => i <= j

\* Mutant of CanAccept: duplicates are recognised by id only.
CanAcceptNewId(q, p) == p.id \notin IdsOf(q)

\* Mutant of Accept: the newest escalation is put first.
AcceptInFront(q, p) == <<p>> \o q

\* accept raises EscalationProtocolViolation when the session has a live entry.
CanAccept(q, p) == p.session \notin SessionsOf(q)
Accept(q, p)    == Append(q, p)

\* retract: withdraw an escalation wherever it waits; no match is a no-op.
Retract(q, id) == IF id \in IdsOf(q) THEN Pop(q, FirstWithId(q, id)) ELSE q

\* Mutant of RetractForSession: only the head is looked at.
RetractHeadOfSession(q, s) == IF q # << >> /\ q[1].session = s THEN Pop(q, 1) ELSE q

\* retract_for_session: withdraw the session's live entry, if any.
RetractForSession(q, s) ==
  IF s \in SessionsOf(q) THEN Pop(q, FirstOfSession(q, s)) ELSE q

\* resolve: only a matching head is cleared.
IsHead(q, id)  == q # << >> /\ q[1].id = id
Resolve(q, id) == IF IsHead(q, id) THEN Pop(q, 1) ELSE q

\* At most one live entry per session, and no id twice: what accept keeps.
UniqueLive(q) ==
  \A i, j \in DOMAIN q : i # j => q[i].session # q[j].session /\ q[i].id # q[j].id
=============================================================================

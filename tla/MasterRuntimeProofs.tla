------------------------- MODULE MasterRuntimeProofs -------------------------
(***************************************************************************)
(* Proofs about MasterRuntime, for any number of sessions and ids: types,  *)
(* a queue without duplicates whose every entry has a registry record, and *)
(* an announced head.  None is inductive alone (withdrawing an entry is    *)
(* well defined only in a queue without duplicates, a fresh id is new to   *)
(* the queue only if queued ids were raised), so IInv holds all of them.   *)
(***************************************************************************)
EXTENDS MasterRuntime, EscalationQueueProofs

QueueOK == UniqueLive(queue) /\ IdsOf(queue) \subseteq raised /\ QueuedSessionKnown

\* A process that is not serving has announced nothing.
AnnouncedOK == HeadAnnounced /\ (phase # "up" => surfaced = None)

IInv == TypeOK /\ QueueOK /\ AnnouncedOK

-----------------------------------------------------------------------------
(* The shared pieces of the handlers.                                      *)

\* _set_state keeps the types and makes no session known or unknown.
LEMMA SetStateKeeps ==
  ASSUME TypeOK, NEW s \in Sessions, NEW st \in SessionState, SetState(s, st)
  PROVE  /\ registry' \in [Sessions -> SessionState \cup {"absent"}]
         /\ savedSeq' \in 0 .. MaxSessions
         /\ proposals' \subseteq [id : ProposalIds, session : Sessions]
         /\ \A x \in Sessions : registry[x] # "absent" => registry'[x] # "absent"
<1>1. "absent" \notin SessionState
  BY DEF SessionState
<1> QED
  BY <1>1 DEF TypeOK, SetState, SaveRegistry, Known, OthersProposals

\* Announcing what follows a withdrawn entry leaves the new head announced.
LEMMA AnnounceNext ==
  ASSUME NEW q \in Seq(Entry), NEW i \in 1 .. Len(q), surfaced = HeadId(q)
  PROVE  Surface(Pop(q, i), Forget(q[i].id)) = HeadId(Pop(q, i))
<1>1. Len(Pop(q, i)) = Len(q) - 1 /\ Pop(q, i) \in Seq(Entry) /\ Len(q) \in Nat
  BY PopProperties
<1>2. CASE Pop(q, i) = << >>
  <2>1. i = 1 /\ q # << >>
    <3>1. Len(Pop(q, i)) = 0
      BY <1>2
    <3>2. Len(q) = 1
      BY <1>1, <3>1
    <3>3. i \in 1 .. 1
      BY <3>2, Zenon
    <3>4. Len(q) # Len(<< >>)
      BY <3>2
    <3> QED
      BY <3>3, <3>4
  <2> QED
    BY <1>2, <2>1 DEF Surface, Forget, HeadId
<1>3. CASE Pop(q, i) # << >>
  BY <1>3 DEF Surface, HeadId
<1> QED
  BY <1>2, <1>3

\* _retract_stranded_escalation removes the session's entry and no other, and
\* announces the head it promotes.
LEMMA RetractStrandedKeeps ==
  ASSUME TypeOK, UniqueLive(queue), NEW s \in Sessions, RetractStranded(s)
  PROVE  /\ queue' \in Seq(Entry) /\ UniqueLive(queue')
         /\ IdsOf(queue') \subseteq IdsOf(queue)
         /\ SessionsOf(queue') = SessionsOf(queue) \ {s}
         /\ inflight' \in EscalationIds \cup {None}
         /\ panes' \subseteq [id : PaneIds, session : Sessions, kind : PaneKind]
         /\ surfaced = HeadId(queue) => surfaced' = HeadId(queue')
<1>1. queue \in Seq(Entry) /\ queue' = RetractForSession(queue, s)
  BY DEF TypeOK, RetractStranded
<1>2. /\ queue' \in Seq(Entry) /\ UniqueLive(queue')
      /\ IdsOf(queue') \subseteq IdsOf(queue)
      /\ SessionsOf(queue') = SessionsOf(queue) \ {s}
  BY <1>1, RemovalsUnique
<1>3. inflight' \in EscalationIds \cup {None}
  BY DEF TypeOK, RetractStranded, ClearInflight
<1>4. panes' \subseteq [id : PaneIds, session : Sessions, kind : PaneKind]
  BY DEF TypeOK, RetractStranded
<1>5. ASSUME surfaced = HeadId(queue) PROVE surfaced' = HeadId(queue')
  <2>1. CASE s \in SessionsOf(queue)
    <3> DEFINE i == FirstOfSession(queue, s)
    <3>1. i \in 1 .. Len(queue)
      BY <1>1, <2>1, Lookup
    <3>2. queue' = Pop(queue, i) /\ surfaced' = Surface(queue', Forget(queue[i].id))
      BY <1>1, <2>1 DEF RetractStranded, RetractForSession, Stranded
    <3> HIDE DEF i
    <3> QED
      BY <1>1, <1>5, <3>1, <3>2, AnnounceNext
  <2>2. CASE s \notin SessionsOf(queue)
    BY <1>1, <1>5, <2>2 DEF RetractStranded, RetractForSession, HeadId
  <2> QED
    BY <2>1, <2>2
<1> QED
  BY <1>2, <1>3, <1>4, <1>5

\* What is announced is an escalation or nothing.
LEMMA HeadIdType ==
  ASSUME NEW q \in Seq(Entry)
  PROVE  HeadId(q) \in EscalationIds \cup {None}
<1>1. CASE q = << >>
  BY <1>1 DEF HeadId
<1>2. CASE q # << >>
  <2>1. q[1] \in Entry
    BY <1>2
  <2> QED
    BY <1>2, <2>1 DEF HeadId, Entry
<1> QED
  BY <1>1, <1>2

\* Queued escalations come from sessions.
LEMMA QueuedAreSessions ==
  ASSUME NEW q \in Seq(Entry)
  PROVE  SessionsOf(q) \subseteq Sessions
<1>1. \A i \in DOMAIN q : q[i] \in Entry
  OBVIOUS
<1>2. \A i \in DOMAIN q : q[i].session \in Sessions
  BY <1>1 DEF Entry
<1> QED
  BY <1>2 DEF SessionsOf

\* A step that keeps queue, announcement and phase, and forgets neither a
\* session nor a raised id, keeps the rest of the invariant.
LEMMA Frame ==
  ASSUME IInv, TypeOK', UNCHANGED <<queue, surfaced, phase>>, raised \subseteq raised',
         \A x \in Sessions : registry[x] # "absent" => registry'[x] # "absent"
  PROVE  IInv'
<1>1. SessionsOf(queue) \subseteq Sessions
  BY QueuedAreSessions DEF IInv, TypeOK
<1>2. QueueOK'
  BY <1>1 DEF IInv, QueueOK, QueuedSessionKnown, Known, IdsOf, SessionsOf, UniqueLive
<1>3. AnnouncedOK'
  BY DEF IInv, AnnouncedOK, HeadAnnounced, HeadId
<1> QED
  BY <1>2, <1>3 DEF IInv

-----------------------------------------------------------------------------
(* Handlers that leave the queue alone.                                    *)
\* They keep the invariant: pane escalations, completion, the tail of a
\* terminal report, proposals and status pushes.
LEMMA FrameHandlers ==
  ASSUME IInv, NEW s \in Sessions
  PROVE  /\ \A id \in PaneIds : OnPaneRetract(s, id) => IInv'
         /\ \A id \in PaneIds, k \in PaneKind : OnPaneEscalation(s, id, k) => IInv'
         /\ OnCompletion(s) => IInv'
         /\ FinishTail(s) => IInv'
         /\ \A id \in ProposalIds : OnPromptProposal(s, id) => IInv'
         /\ \A st \in Statuses, ident \in BOOLEAN : OnLiveStatus(s, st, ident) => IInv'
<1> USE MasterAssumption
<1>1. ASSUME NEW id \in PaneIds, OnPaneRetract(s, id) PROVE IInv'
  <2>1. TypeOK'
    BY <1>1 DEF IInv, TypeOK, registryVars, storeVars, startupVars, envVars,
      OnPaneRetract
  <2>2. /\ UNCHANGED <<queue, surfaced, phase>> /\ raised \subseteq raised'
        /\ \A x \in Sessions : registry[x] # "absent" => registry'[x] # "absent"
    BY <1>1 DEF IInv, TypeOK, registryVars, storeVars, startupVars, envVars,
      OnPaneRetract
  <2> QED
    BY <2>1, <2>2, Frame
<1>2. ASSUME NEW id \in PaneIds, NEW k \in PaneKind, OnPaneEscalation(s, id, k) PROVE IInv'
  <2>1. TypeOK'
    BY <1>2 DEF IInv, TypeOK, registryVars, storeVars, startupVars, envVars,
      OnPaneEscalation
  <2>2. /\ UNCHANGED <<queue, surfaced, phase>> /\ raised \subseteq raised'
        /\ \A x \in Sessions : registry[x] # "absent" => registry'[x] # "absent"
    BY <1>2 DEF IInv, TypeOK, registryVars, storeVars, startupVars, envVars,
      OnPaneEscalation
  <2> QED
    BY <2>1, <2>2, Frame
<1>3. ASSUME OnCompletion(s) PROVE IInv'
  <2>1. TypeOK'
    BY SetStateKeeps, <1>3 DEF IInv, TypeOK, registryVars, storeVars,
      startupVars, envVars, OnCompletion, SessionState
  <2>2. /\ UNCHANGED <<queue, surfaced, phase>> /\ raised \subseteq raised'
        /\ \A x \in Sessions : registry[x] # "absent" => registry'[x] # "absent"
    BY SetStateKeeps, <1>3 DEF IInv, TypeOK, registryVars, storeVars,
      startupVars, envVars, OnCompletion, SessionState
  <2> QED
    BY <2>1, <2>2, Frame
<1>4. ASSUME FinishTail(s) PROVE IInv'
  <2>1. TypeOK'
    BY <1>4 DEF IInv, TypeOK, registryVars, storeVars, startupVars, envVars,
      FinishTail
  <2>2. /\ UNCHANGED <<queue, surfaced, phase>> /\ raised \subseteq raised'
        /\ \A x \in Sessions : registry[x] # "absent" => registry'[x] # "absent"
    BY <1>4 DEF IInv, TypeOK, registryVars, storeVars, startupVars, envVars,
      FinishTail
  <2> QED
    BY <2>1, <2>2, Frame
<1>5. ASSUME NEW id \in ProposalIds, OnPromptProposal(s, id) PROVE IInv'
  <2>1. TypeOK'
    BY <1>5 DEF IInv, TypeOK, registryVars, storeVars, startupVars, envVars,
      OnPromptProposal, SaveRegistry, SessionState
  <2>2. /\ UNCHANGED <<queue, surfaced, phase>> /\ raised \subseteq raised'
        /\ \A x \in Sessions : registry[x] # "absent" => registry'[x] # "absent"
    BY <1>5 DEF IInv, TypeOK, registryVars, storeVars, startupVars, envVars,
      OnPromptProposal, SaveRegistry, SessionState
  <2> QED
    BY <2>1, <2>2, Frame
<1>6. ASSUME NEW st \in Statuses, NEW ident \in BOOLEAN, OnLiveStatus(s, st, ident) PROVE IInv'
  <2>1. TypeOK'
    BY SetStateKeeps, <1>6 DEF IInv, TypeOK, registryVars, storeVars,
      startupVars, envVars, OnLiveStatus
  <2>2. /\ UNCHANGED <<queue, surfaced, phase>> /\ raised \subseteq raised'
        /\ \A x \in Sessions : registry[x] # "absent" => registry'[x] # "absent"
    BY SetStateKeeps, <1>6 DEF IInv, TypeOK, registryVars, storeVars,
      startupVars, envVars, OnLiveStatus
  <2> QED
    BY <2>1, <2>2, Frame
<1> QED
  BY <1>1, <1>2, <1>3, <1>4, <1>5, <1>6

\* The developer's tool calls, attach apart, leave the queue alone.
LEMMA FrameTools ==
  ASSUME IInv
  PROVE  /\ SpawnStart \/ SpawnFinish \/ AttachRetractPanes \/ RespawnFinish \/ RespawnFails
              \/ ReactivateFinish \/ ApproveFinish \/ DispatchTaken \/ DispatchFinish
              \/ ToolFails => IInv'
         /\ \A s \in Sessions :
              /\ StopStart(s, "stop") \/ StopStart(s, "reassign") => IInv'
              /\ StopFinish(s) => IInv'
              /\ ReactivateStart(s) => IInv'
              /\ \A st \in Statuses : Probe(s, st) => IInv'
         /\ \A p \in proposals : ApproveStart(p) => IInv'
         /\ \A id \in EscalationIds : DispatchStart(id) => IInv'
<1> USE MasterAssumption DEF Sessions, ToolCalls, Tool, Idle
<1>0. /\ tool.op # "idle" => tool.session \in Sessions
      /\ tool.op = "dispatch" =>
           tool.id \in EscalationIds /\ [tool EXCEPT !.op = "dispatched"] \in ToolCalls
  BY DEF IInv, TypeOK
<1>1. ASSUME SpawnStart PROVE IInv'
  <2>1. TypeOK'
    BY <1>1 DEF IInv, TypeOK, registryVars, storeVars, startupVars, envVars,
      SpawnStart
  <2>2. /\ UNCHANGED <<queue, surfaced, phase>> /\ raised \subseteq raised'
        /\ \A x \in Sessions : registry[x] # "absent" => registry'[x] # "absent"
    BY <1>1 DEF IInv, TypeOK, registryVars, storeVars, startupVars, envVars,
      SpawnStart
  <2> QED
    BY <2>1, <2>2, Frame
<1>2. ASSUME SpawnFinish PROVE IInv'
  <2>1. TypeOK'
    BY <1>2 DEF IInv, TypeOK, registryVars, storeVars, startupVars, envVars,
      SpawnFinish, SaveRegistry, SessionState
  <2>2. /\ UNCHANGED <<queue, surfaced, phase>> /\ raised \subseteq raised'
        /\ \A x \in Sessions : registry[x] # "absent" => registry'[x] # "absent"
    BY <1>2 DEF IInv, TypeOK, registryVars, storeVars, startupVars, envVars,
      SpawnFinish, SaveRegistry, SessionState
  <2> QED
    BY <2>1, <2>2, Frame
<1>3. ASSUME AttachRetractPanes PROVE IInv'
  <2>1. TypeOK'
    BY <1>3 DEF IInv, TypeOK, registryVars, storeVars, startupVars, envVars,
      AttachRetractPanes
  <2>2. /\ UNCHANGED <<queue, surfaced, phase>> /\ raised \subseteq raised'
        /\ \A x \in Sessions : registry[x] # "absent" => registry'[x] # "absent"
    BY <1>3 DEF IInv, TypeOK, registryVars, storeVars, startupVars, envVars,
      AttachRetractPanes
  <2> QED
    BY <2>1, <2>2, Frame
<1>4. ASSUME RespawnFinish PROVE IInv'
  <2>1. TypeOK'
    BY <1>0, <1>4 DEF IInv, TypeOK, registryVars, storeVars, startupVars,
      envVars, RespawnFinish, SaveRegistry, SessionState
  <2>2. /\ UNCHANGED <<queue, surfaced, phase>> /\ raised \subseteq raised'
        /\ \A x \in Sessions : registry[x] # "absent" => registry'[x] # "absent"
    BY <1>0, <1>4 DEF IInv, TypeOK, registryVars, storeVars, startupVars,
      envVars, RespawnFinish, SaveRegistry, SessionState
  <2> QED
    BY <2>1, <2>2, Frame
<1>5. ASSUME RespawnFails PROVE IInv'
  <2>1. TypeOK'
    BY <1>5 DEF IInv, TypeOK, registryVars, storeVars, startupVars, envVars,
      RespawnFails
  <2>2. /\ UNCHANGED <<queue, surfaced, phase>> /\ raised \subseteq raised'
        /\ \A x \in Sessions : registry[x] # "absent" => registry'[x] # "absent"
    BY <1>5 DEF IInv, TypeOK, registryVars, storeVars, startupVars, envVars,
      RespawnFails
  <2> QED
    BY <2>1, <2>2, Frame
<1>6. ASSUME ReactivateFinish PROVE IInv'
  <2>1. TypeOK'
    BY <1>6 DEF IInv, TypeOK, registryVars, storeVars, startupVars, envVars,
      ReactivateFinish, SaveRegistry, SessionState
  <2>2. /\ UNCHANGED <<queue, surfaced, phase>> /\ raised \subseteq raised'
        /\ \A x \in Sessions : registry[x] # "absent" => registry'[x] # "absent"
    BY <1>6 DEF IInv, TypeOK, registryVars, storeVars, startupVars, envVars,
      ReactivateFinish, SaveRegistry, SessionState
  <2> QED
    BY <2>1, <2>2, Frame
<1>7. ASSUME ApproveFinish PROVE IInv'
  <2>1. TypeOK'
    BY <1>7 DEF IInv, TypeOK, registryVars, storeVars, startupVars, envVars,
      ApproveFinish, SaveRegistry, SessionState
  <2>2. /\ UNCHANGED <<queue, surfaced, phase>> /\ raised \subseteq raised'
        /\ \A x \in Sessions : registry[x] # "absent" => registry'[x] # "absent"
    BY <1>7 DEF IInv, TypeOK, registryVars, storeVars, startupVars, envVars,
      ApproveFinish, SaveRegistry, SessionState
  <2> QED
    BY <2>1, <2>2, Frame
<1>8. ASSUME DispatchTaken PROVE IInv'
  <2>1. TypeOK'
    BY <1>0, <1>8 DEF IInv, TypeOK, registryVars, storeVars, startupVars,
      envVars, DispatchTaken
  <2>2. /\ UNCHANGED <<queue, surfaced, phase>> /\ raised \subseteq raised'
        /\ \A x \in Sessions : registry[x] # "absent" => registry'[x] # "absent"
    BY <1>0, <1>8 DEF IInv, TypeOK, registryVars, storeVars, startupVars,
      envVars, DispatchTaken
  <2> QED
    BY <2>1, <2>2, Frame
<1>9. ASSUME DispatchFinish PROVE IInv'
  <2>1. TypeOK'
    BY <1>9 DEF IInv, TypeOK, registryVars, storeVars, startupVars, envVars,
      DispatchFinish
  <2>2. /\ UNCHANGED <<queue, surfaced, phase>> /\ raised \subseteq raised'
        /\ \A x \in Sessions : registry[x] # "absent" => registry'[x] # "absent"
    BY <1>9 DEF IInv, TypeOK, registryVars, storeVars, startupVars, envVars,
      DispatchFinish
  <2> QED
    BY <2>1, <2>2, Frame
<1>10. ASSUME ToolFails PROVE IInv'
  <2>1. TypeOK'
    BY <1>10 DEF IInv, TypeOK, registryVars, storeVars, startupVars, envVars,
      ToolFails, ToolOnly
  <2>2. /\ UNCHANGED <<queue, surfaced, phase>> /\ raised \subseteq raised'
        /\ \A x \in Sessions : registry[x] # "absent" => registry'[x] # "absent"
    BY <1>10 DEF IInv, TypeOK, registryVars, storeVars, startupVars, envVars,
      ToolFails, ToolOnly
  <2> QED
    BY <2>1, <2>2, Frame
<1>11. ASSUME NEW s \in Sessions, NEW op \in {"stop", "reassign"}, StopStart(s, op) PROVE IInv'
  <2>1. TypeOK'
    BY <1>11 DEF IInv, TypeOK, registryVars, storeVars, startupVars, envVars,
      StopStart, ToolOnly
  <2>2. /\ UNCHANGED <<queue, surfaced, phase>> /\ raised \subseteq raised'
        /\ \A x \in Sessions : registry[x] # "absent" => registry'[x] # "absent"
    BY <1>11 DEF IInv, TypeOK, registryVars, storeVars, startupVars, envVars,
      StopStart, ToolOnly
  <2> QED
    BY <2>1, <2>2, Frame
<1>12. ASSUME NEW s \in Sessions, StopFinish(s) PROVE IInv'
  <2>1. TypeOK'
    BY SetStateKeeps, <1>12 DEF IInv, TypeOK, registryVars, storeVars,
      startupVars, envVars, StopFinish, SessionState, ClearInflight
  <2>2. /\ UNCHANGED <<queue, surfaced, phase>> /\ raised \subseteq raised'
        /\ \A x \in Sessions : registry[x] # "absent" => registry'[x] # "absent"
    BY SetStateKeeps, <1>12 DEF IInv, TypeOK, registryVars, storeVars,
      startupVars, envVars, StopFinish, SessionState, ClearInflight
  <2> QED
    BY <2>1, <2>2, Frame
<1>13. ASSUME NEW s \in Sessions, ReactivateStart(s) PROVE IInv'
  <2>1. TypeOK'
    BY <1>13 DEF IInv, TypeOK, registryVars, storeVars, startupVars, envVars,
      ReactivateStart, ToolOnly
  <2>2. /\ UNCHANGED <<queue, surfaced, phase>> /\ raised \subseteq raised'
        /\ \A x \in Sessions : registry[x] # "absent" => registry'[x] # "absent"
    BY <1>13 DEF IInv, TypeOK, registryVars, storeVars, startupVars, envVars,
      ReactivateStart, ToolOnly
  <2> QED
    BY <2>1, <2>2, Frame
<1>14. ASSUME NEW s \in Sessions, NEW st \in Statuses, Probe(s, st) PROVE IInv'
  <2>1. TypeOK'
    BY SetStateKeeps, <1>14 DEF IInv, TypeOK, registryVars, storeVars,
      startupVars, envVars, Probe
  <2>2. /\ UNCHANGED <<queue, surfaced, phase>> /\ raised \subseteq raised'
        /\ \A x \in Sessions : registry[x] # "absent" => registry'[x] # "absent"
    BY SetStateKeeps, <1>14 DEF IInv, TypeOK, registryVars, storeVars,
      startupVars, envVars, Probe
  <2> QED
    BY <2>1, <2>2, Frame
<1>15. ASSUME NEW p \in proposals, ApproveStart(p) PROVE IInv'
  <2>1. TypeOK'
    BY <1>15 DEF IInv, TypeOK, registryVars, storeVars, startupVars, envVars,
      ApproveStart, ToolOnly
  <2>2. /\ UNCHANGED <<queue, surfaced, phase>> /\ raised \subseteq raised'
        /\ \A x \in Sessions : registry[x] # "absent" => registry'[x] # "absent"
    BY <1>15 DEF IInv, TypeOK, registryVars, storeVars, startupVars, envVars,
      ApproveStart, ToolOnly
  <2> QED
    BY <2>1, <2>2, Frame
<1>16. ASSUME NEW id \in EscalationIds, DispatchStart(id) PROVE IInv'
  <2>1. TypeOK'
    BY QueuedAreSessions, <1>16 DEF IInv, TypeOK, registryVars, storeVars,
      startupVars, envVars, DispatchStart, ToolOnly, IsHead, SessionsOf
  <2>2. /\ UNCHANGED <<queue, surfaced, phase>> /\ raised \subseteq raised'
        /\ \A x \in Sessions : registry[x] # "absent" => registry'[x] # "absent"
    BY QueuedAreSessions, <1>16 DEF IInv, TypeOK, registryVars, storeVars,
      startupVars, envVars, DispatchStart, ToolOnly, IsHead, SessionsOf
  <2> QED
    BY <2>1, <2>2, Frame
<1> QED
  BY <1>1, <1>2, <1>3, <1>4, <1>5, <1>6, <1>7, <1>8, <1>9, <1>10, <1>11, <1>12, <1>13, <1>14,
     <1>15, <1>16

-----------------------------------------------------------------------------
(* Steps that change the queue, the records or the announcement.           *)

\* A raise is queued behind the others, and announced only on an empty queue.
LEMMA EscalationKeeps ==
  ASSUME IInv, NEW s \in Sessions, NEW id \in EscalationIds, OnEscalation(s, id)
  PROVE  IInv'
<1> DEFINE p == [id |-> id, session |-> s]
<1>1. queue \in Seq(Entry) /\ p \in Entry /\ UniqueLive(queue) /\ id \notin IdsOf(queue)
  BY DEF IInv, TypeOK, QueueOK, Entry, OnEscalation
<1>2. CASE Known(s) /\ CanAccept(queue, p)
  <2>1. /\ queue' = Accept(queue, p) /\ SetState(s, "escalated")
        /\ surfaced' = Surface(queue', surfaced) /\ raised' = raised \cup {id}
    BY <1>2 DEF OnEscalation
  <2>2. /\ queue' \in Seq(Entry) /\ UniqueLive(queue')
        /\ IdsOf(queue') = IdsOf(queue) \cup {id}
        /\ SessionsOf(queue') = SessionsOf(queue) \cup {s}
    BY <1>1, <1>2, <2>1, AcceptUnique
  <2>3. surfaced = HeadId(queue) /\ phase = "up" /\ phase' = "up"
    BY DEF IInv, AnnouncedOK, HeadAnnounced, OnEscalation, Sends
  <2>4. queue' # << >>
    BY <1>1, <2>1 DEF Accept
  <2>5. surfaced' = HeadId(queue')
    BY <2>1, <2>4 DEF Surface, HeadId
  <2>6. TypeOK'
    BY <2>1, <2>2, <2>5, HeadIdType, SetStateKeeps
       DEF IInv, TypeOK, OnEscalation, SessionState, startupVars
  <2>7. QueueOK'
    BY <1>2, <2>1, <2>2, SetStateKeeps, QueuedAreSessions
       DEF IInv, TypeOK, QueueOK, QueuedSessionKnown, Known, SessionState
  <2>8. AnnouncedOK'
    BY <2>3, <2>5 DEF AnnouncedOK, HeadAnnounced, HeadId
  <2> QED
    BY <2>6, <2>7, <2>8 DEF IInv
<1>3. CASE ~ (Known(s) /\ CanAccept(queue, p))
  <2>1. TypeOK'
    BY <1>3 DEF IInv, TypeOK, OnEscalation, startupVars
  <2>2. /\ UNCHANGED <<queue, surfaced, phase>> /\ raised \subseteq raised'
        /\ \A x \in Sessions : registry[x] # "absent" => registry'[x] # "absent"
    BY <1>3 DEF OnEscalation
  <2> QED
    BY <2>1, <2>2, Frame
<1> QED
  BY <1>2, <1>3

\* Withdrawing an entry by id announces the head it promotes, if any.
LEMMA RetractAnnounces ==
  ASSUME NEW q \in Seq(Entry), UniqueLive(q), NEW id, surfaced = HeadId(q)
  PROVE  Surface(Retract(q, id), Forget(id)) = HeadId(Retract(q, id))
<1>1. CASE id \in IdsOf(q)
  <2> DEFINE i == FirstWithId(q, id)
  <2>1. i \in 1 .. Len(q) /\ q[i].id = id
    BY <1>1, Lookup
  <2>2. Retract(q, id) = Pop(q, i)
    BY <1>1 DEF Retract
  <2> HIDE DEF i
  <2> QED
    BY <2>1, <2>2, AnnounceNext
<1>2. CASE id \notin IdsOf(q)
  BY <1>2 DEF Retract, Surface, Forget, HeadId
<1> QED
  BY <1>1, <1>2

\* A step that withdraws entries and keeps the new head announced, forgetting
\* no session that still has an entry, keeps the invariant.
LEMMA Withdraw ==
  ASSUME IInv, TypeOK', UniqueLive(queue'), IdsOf(queue') \subseteq IdsOf(queue),
         SessionsOf(queue') \subseteq SessionsOf(queue), raised' = raised,
         \A x \in SessionsOf(queue') : registry[x] # "absent" => registry'[x] # "absent",
         phase' = phase, phase # "up" => surfaced' = surfaced,
         phase = "up" => surfaced' = HeadId(queue')
  PROVE  IInv'
<1>1. QueueOK'
  BY DEF IInv, QueueOK, QueuedSessionKnown, Known
<1>2. AnnouncedOK'
  BY DEF IInv, AnnouncedOK, HeadAnnounced, HeadId
<1> QED
  BY <1>1, <1>2 DEF IInv

\* The four handlers that withdraw or resolve one escalation.
LEMMA WithdrawalsKeep ==
  ASSUME IInv
  PROVE  /\ \A s \in Sessions, id \in EscalationIds : OnEscalationRetract(s, id) => IInv'
         /\ \A id \in EscalationIds : OnDecisionDelivered(id) => IInv'
         /\ \A id \in EscalationIds, live \in BOOLEAN :
              OnDecisionUndelivered(id, live) => IInv'
<1>0. queue \in Seq(Entry) /\ UniqueLive(queue) /\ MasterAssumption
  BY MasterAssumption DEF IInv, TypeOK, QueueOK
<1>1. ASSUME NEW s \in Sessions, NEW id \in EscalationIds, OnEscalationRetract(s, id)
      PROVE  IInv'
  <2>1. /\ queue' = Retract(queue, id) /\ phase = "up" /\ phase' = "up"
        /\ surfaced = HeadId(queue) /\ UNCHANGED raised
    BY <1>1 DEF OnEscalationRetract, Sends, IInv, AnnouncedOK, HeadAnnounced, envVars
  <2>2. /\ queue' \in Seq(Entry) /\ UniqueLive(queue')
        /\ IdsOf(queue') \subseteq IdsOf(queue) /\ SessionsOf(queue') \subseteq SessionsOf(queue)
    BY <1>0, <2>1, RemovalsUnique
  <2>3. surfaced' = HeadId(queue')
    <3>1. CASE id \in IdsOf(queue)
      BY <1>0, <1>1, <2>1, <3>1, RetractAnnounces DEF OnEscalationRetract
    <3>2. CASE id \notin IdsOf(queue)
      BY <1>1, <2>1, <3>2 DEF OnEscalationRetract, Retract
    <3> QED
      BY <3>1, <3>2
  <2>4. TypeOK' /\ \A x \in Sessions : registry[x] # "absent" => registry'[x] # "absent"
    BY <1>1, <2>2, <2>3, HeadIdType, SetStateKeeps
       DEF IInv, TypeOK, OnEscalationRetract, ClearInflight, SessionState, startupVars, envVars
  <2> QED
    BY <1>0, <2>1, <2>2, <2>3, <2>4, QueuedAreSessions, Withdraw
<1>2. ASSUME NEW id \in EscalationIds, OnDecisionDelivered(id) PROVE IInv'
  <2>1. /\ queue' = Resolve(queue, id) /\ phase = "up" /\ phase' = "up"
        /\ surfaced = HeadId(queue) /\ UNCHANGED <<raised, registry>>
    BY <1>2 DEF OnDecisionDelivered, Answered, IInv, AnnouncedOK, HeadAnnounced, registryVars
  <2>2. /\ queue' \in Seq(Entry) /\ UniqueLive(queue')
        /\ IdsOf(queue') \subseteq IdsOf(queue) /\ SessionsOf(queue') \subseteq SessionsOf(queue)
    BY <1>0, <2>1, RemovalsUnique
  <2>3. surfaced' = HeadId(queue')
    BY <1>2, <2>1 DEF OnDecisionDelivered, Surface, HeadId, Resolve
  <2>4. TypeOK'
    BY <1>0, <1>2, <2>2, <2>3, HeadIdType
       DEF IInv, TypeOK, OnDecisionDelivered, Answered, ClearInflight, startupVars, registryVars
  <2> QED
    BY <2>1, <2>2, <2>3, <2>4, Withdraw
<1>3. ASSUME NEW id \in EscalationIds, NEW live \in BOOLEAN, OnDecisionUndelivered(id, live)
      PROVE  IInv'
  <2>1. /\ phase = "up" /\ phase' = "up"
        /\ surfaced = HeadId(queue) /\ UNCHANGED <<raised, registry>>
    BY <1>3 DEF OnDecisionUndelivered, Answered, IInv, AnnouncedOK, HeadAnnounced, registryVars
  <2>2. /\ queue' \in Seq(Entry) /\ UniqueLive(queue')
        /\ IdsOf(queue') \subseteq IdsOf(queue) /\ SessionsOf(queue') \subseteq SessionsOf(queue)
        /\ surfaced' = HeadId(queue')
    <3>1. CASE live
      BY <1>0, <1>3, <2>1, <3>1 DEF OnDecisionUndelivered
    <3>2. CASE ~ live
      <4>1. queue' = Retract(queue, id) /\ surfaced' = Surface(queue', Forget(id))
        BY <1>3, <3>2 DEF OnDecisionUndelivered
      <4> QED
        BY <1>0, <2>1, <4>1, RemovalsUnique, RetractAnnounces
    <3> QED
      BY <3>1, <3>2
  <2>3. TypeOK'
    BY <1>0, <1>3, <2>2, HeadIdType
       DEF IInv, TypeOK, OnDecisionUndelivered, Answered, ClearInflight, startupVars, registryVars
  <2> QED
    BY <2>1, <2>2, <2>3, Withdraw
<1> QED
  BY <1>1, <1>2, <1>3

\* The two terminal reports and attach, which withdraw a session's entry.
LEMMA StrandingKeeps ==
  ASSUME IInv, NEW s \in Sessions
  PROVE  (OnFatal(s) => IInv') /\ (OnSessionEnded(s) => IInv') /\ (AttachStart(s) => IInv')
<1>0. UniqueLive(queue) /\ TypeOK /\ MasterAssumption
  BY MasterAssumption DEF IInv, QueueOK
<1>1. ASSUME RetractStranded(s)
      PROVE  /\ queue' \in Seq(Entry) /\ UniqueLive(queue')
             /\ IdsOf(queue') \subseteq IdsOf(queue)
             /\ SessionsOf(queue') \subseteq SessionsOf(queue) /\ s \notin SessionsOf(queue')
             /\ phase = "up" => surfaced' = HeadId(queue')
             /\ surfaced' \in EscalationIds \cup {None}
  <2>1. phase = "up" => surfaced = HeadId(queue)
    BY DEF IInv, AnnouncedOK, HeadAnnounced
  <2>2. /\ queue' \in Seq(Entry) /\ UniqueLive(queue')
        /\ IdsOf(queue') \subseteq IdsOf(queue)
        /\ SessionsOf(queue') \subseteq SessionsOf(queue) /\ s \notin SessionsOf(queue')
        /\ phase = "up" => surfaced' = HeadId(queue')
    BY <1>0, <1>1, <2>1, RetractStrandedKeeps
  <2>3. surfaced' \in EscalationIds \cup {None}
    <3>1. CASE s \notin SessionsOf(queue)
      BY <1>0, <1>1, <3>1 DEF RetractStranded, TypeOK
    <3>2. CASE s \in SessionsOf(queue)
      <4>1. surfaced' = Surface(queue', Forget(Stranded(s)))
        BY <1>1, <3>2 DEF RetractStranded
      <4>2. CASE queue' = << >>
        BY <1>0, <4>1, <4>2 DEF Surface, Forget, TypeOK
      <4>3. CASE queue' # << >>
        BY <2>2, <4>1, <4>3, HeadIdType DEF Surface, HeadId
      <4> QED
        BY <4>2, <4>3
    <3> QED
      BY <3>1, <3>2
  <2> QED
    BY <2>2, <2>3
<1>2. ASSUME OnFatal(s) PROVE IInv'
  <2>1. RetractStranded(s) /\ SetState(s, "error") /\ phase = "up" /\ phase' = "up"
    BY <1>2 DEF OnFatal, Sends
  <2>2. TypeOK'
    BY <1>0, <1>1, <1>2, <2>1, RetractStrandedKeeps, SetStateKeeps
       DEF TypeOK, OnFatal, SessionState, startupVars, envVars
  <2>3. raised' = raised /\ \A x \in Sessions : registry[x] # "absent" => registry'[x] # "absent"
    BY <1>0, <1>2, <2>1, SetStateKeeps DEF OnFatal, envVars, SessionState
  <2> QED
    BY <1>0, <1>1, <2>1, <2>2, <2>3, QueuedAreSessions, Withdraw
<1>3. ASSUME OnSessionEnded(s) PROVE IInv'
  <2>1. /\ RetractStranded(s) /\ phase = "up" /\ phase' = "up" /\ raised' = raised
        /\ registry' = [registry EXCEPT ![s] = "absent"]
    BY <1>3 DEF OnSessionEnded, Sends, SaveRegistry, envVars
  <2>2. TypeOK'
    BY <1>0, <1>1, <1>3, <2>1, RetractStrandedKeeps
       DEF TypeOK, OnSessionEnded, SaveRegistry, OthersProposals, startupVars, envVars
  <2>3. \A x \in Sessions \ {s} : registry'[x] = registry[x]
    BY <1>0, <2>1 DEF TypeOK
  <2>4. SessionsOf(queue') \subseteq Sessions \ {s}
    BY <1>1, <2>1, QueuedAreSessions
  <2> QED
    BY <1>1, <2>1, <2>2, <2>3, <2>4, Withdraw
<1>4. ASSUME AttachStart(s) PROVE IInv'
  <2>1. RetractStranded(s) /\ phase = "up" /\ phase' = "up" /\ UNCHANGED <<raised, registry>>
    BY <1>4 DEF AttachStart, Free, envVars, registryVars
  <2>2. tool' \in ToolCalls
    BY <1>4 DEF AttachStart, Tool, ToolCalls
  <2>3. TypeOK'
    BY <1>0, <1>1, <1>4, <2>1, <2>2, RetractStrandedKeeps
       DEF TypeOK, AttachStart, registryVars, startupVars, envVars
  <2> QED
    BY <1>1, <2>1, <2>3, Withdraw
<1> QED
  BY <1>2, <1>3, <1>4

\* Startup, repopulation and the two ways to stop.
LEMMA StartupKeeps ==
  ASSUME IInv
  PROVE  /\ Restart \/ Serve \/ RepopulateNext \/ RepopulateSkip \/ Quit \/ Crash => IInv'
         /\ \A s \in Sessions, answers \in BOOLEAN, running \in {"yes", "no", "unsure"} :
              Reconcile(s, answers, running) => IInv'
         /\ \A st \in Statuses, pending \in SUBSET ProposalIds, activity \in BOOLEAN :
              RepopulateReply(st, pending, activity) => IInv'
<1>0. /\ queue \in Seq(Entry) /\ UniqueLive(queue) /\ TypeOK /\ MasterAssumption
      /\ None \in EscalationIds \cup {None} /\ Idle \in ToolCalls
  BY MasterAssumption DEF IInv, TypeOK, QueueOK, ToolCalls
<1>1. ASSUME Restart PROVE IInv'
  <2>1. TypeOK'
    BY <1>0, <1>1 DEF TypeOK, Restart, storeVars, registryVars, envVars
  <2>2. QueueOK'
    BY <1>1 DEF IInv, QueueOK, QueuedSessionKnown, Known, Restart, storeVars, registryVars,
                envVars
  <2>3. AnnouncedOK'
    BY <1>1 DEF IInv, AnnouncedOK, HeadAnnounced, Restart
  <2> QED
    BY <2>1, <2>2, <2>3 DEF IInv
<1>2. ASSUME Serve PROVE IInv'
  <2>1. surfaced = None /\ UNCHANGED queue /\ surfaced' = HeadId(queue')
    BY <1>2 DEF IInv, AnnouncedOK, Serve, storeVars, Surface, HeadId
  <2>2. TypeOK'
    BY <1>0, <1>2, <2>1, HeadIdType DEF TypeOK, Serve, storeVars, registryVars, envVars
  <2>3. QueueOK'
    BY <1>2 DEF IInv, QueueOK, QueuedSessionKnown, Known, Serve, storeVars, registryVars,
                envVars
  <2>4. AnnouncedOK'
    BY <1>2, <2>1 DEF AnnouncedOK, HeadAnnounced, HeadId, Serve
  <2> QED
    BY <2>2, <2>3, <2>4 DEF IInv
<1>3. ASSUME RepopulateNext PROVE IInv'
  <2>1. todo' \subseteq todo /\ probing' \in todo \cup {0}
    BY <1>3 DEF RepopulateNext
  <2>2. TypeOK'
    BY <1>0, <1>3, <2>1 DEF TypeOK, RepopulateNext, storeVars, registryVars, envVars
  <2> QED
    BY <1>3, <2>2, Frame DEF RepopulateNext, storeVars, registryVars, envVars
<1>4. ASSUME RepopulateSkip PROVE IInv'
  <2>1. TypeOK'
    BY <1>0, <1>4 DEF TypeOK, RepopulateSkip, storeVars, registryVars, envVars
  <2> QED
    BY <1>4, <2>1, Frame DEF RepopulateSkip, storeVars, registryVars, envVars
<1>5. ASSUME Quit \/ Crash PROVE IInv'
  <2>1. TypeOK'
    BY <1>0, <1>5 DEF TypeOK, Quit, Crash, LoseMemory, SaveRegistry, envVars
  <2>2. QueueOK'
    BY <1>5 DEF IInv, QueueOK, QueuedSessionKnown, Known, Quit, Crash, SaveRegistry, envVars
  <2>3. AnnouncedOK'
    BY <1>5 DEF AnnouncedOK, HeadAnnounced, Quit, Crash, LoseMemory
  <2> QED
    BY <2>1, <2>2, <2>3 DEF IInv
<1>6. ASSUME NEW s \in Sessions, NEW answers \in BOOLEAN, NEW running \in {"yes", "no", "unsure"},
             Reconcile(s, answers, running)
      PROVE  IInv'
  <2> USE DEF Reconcile
  <2>1. phase # "up" /\ UNCHANGED <<phase, surfaced, raised>>
    BY <1>6 DEF envVars
  <2>2. CASE UNCHANGED <<registry, savedSeq, queue, panes>>
    <3>1. TypeOK'
      BY <1>0, <1>6, <2>2 DEF TypeOK, envVars
    <3> QED
      BY <2>1, <2>2, <3>1, Frame
  <2>3. CASE /\ queue' = RetractForSession(queue, s) /\ panes' = panes \ PanesOf(s)
             /\ SaveRegistry([registry EXCEPT ![s] = "absent"])
    <3>1. /\ queue' \in Seq(Entry) /\ UniqueLive(queue')
          /\ IdsOf(queue') \subseteq IdsOf(queue)
          /\ SessionsOf(queue') = SessionsOf(queue) \ {s}
      BY <1>0, <2>3, RemovalsUnique
    <3>2. TypeOK'
      BY <1>0, <1>6, <2>3, <3>1 DEF TypeOK, SaveRegistry, envVars
    <3>3. \A x \in Sessions \ {s} : registry'[x] = registry[x]
      BY <1>0, <2>3 DEF TypeOK, SaveRegistry
    <3> QED
      BY <1>0, <2>1, <3>1, <3>2, <3>3, QueuedAreSessions, Withdraw
  <2>4. CASE SaveRegistry([registry EXCEPT ![s] = "unmanaged"]) /\ UNCHANGED <<queue, panes>>
    <3>1. TypeOK'
      BY <1>0, <1>6, <2>4 DEF TypeOK, SaveRegistry, SessionState, envVars
    <3>2. \A x \in Sessions : registry[x] # "absent" => registry'[x] # "absent"
      BY <1>0, <2>4 DEF TypeOK, SaveRegistry
    <3> QED
      BY <2>1, <2>4, <3>1, <3>2, Frame
  <2> QED
    BY <1>6, <2>2, <2>3, <2>4
<1>7. ASSUME NEW st \in Statuses, NEW pending \in SUBSET ProposalIds, NEW activity \in BOOLEAN,
             RepopulateReply(st, pending, activity)
      PROVE  IInv'
  <2>1. st \in SessionState /\ st # "absent" /\ probing \in Sessions
    BY <1>0, <1>7 DEF TypeOK, RepopulateReply, MasterAssumption, SessionState
  <2>2. TypeOK'
    BY <1>0, <1>7, <2>1 DEF TypeOK, RepopulateReply, SaveRegistry, OthersProposals, envVars
  <2>3. /\ UNCHANGED <<queue, surfaced, phase>> /\ raised' = raised
        /\ \A x \in Sessions : registry[x] # "absent" => registry'[x] # "absent"
    BY <1>0, <1>7, <2>1 DEF TypeOK, RepopulateReply, SaveRegistry, envVars
  <2> QED
    BY <2>2, <2>3, Frame
<1> QED
  BY <1>1, <1>2, <1>3, <1>4, <1>5, <1>6, <1>7

-----------------------------------------------------------------------------
(* The theorems.                                                           *)

LEMMA InitHolds == Init => IInv
<1> SUFFICES ASSUME Init PROVE IInv
  OBVIOUS
<1>1. TypeOK
  BY MasterAssumption DEF Init, TypeOK, ToolCalls, SessionState
<1>2. IdsOf(queue) = {} /\ SessionsOf(queue) = {} /\ UniqueLive(queue)
  BY DEF Init, IdsOf, SessionsOf, UniqueLive
<1>3. AnnouncedOK
  BY DEF Init, AnnouncedOK, HeadAnnounced, HeadId
<1> QED
  BY <1>1, <1>2, <1>3 DEF IInv, QueueOK, QueuedSessionKnown

\* Every step of the master keeps the invariant.
LEMMA StepHolds == IInv /\ [Next]_vars => IInv'
<1> SUFFICES ASSUME IInv, [Next]_vars PROVE IInv'
  OBVIOUS
<1>1. CASE Handlers
  BY <1>1, FrameHandlers, EscalationKeeps, WithdrawalsKeep, StrandingKeeps DEF Handlers
<1>2. CASE Tools
  BY <1>2, FrameTools, StrandingKeeps DEF Tools
<1>3. CASE Startup
  <2>1. \A pending \in {{}} \cup {{i} : i \in ProposalIds} : pending \in SUBSET ProposalIds
    OBVIOUS
  <2> QED
    BY <1>3, <2>1, StartupKeeps DEF Startup
<1>4. CASE Quit \/ Crash
  BY <1>4, StartupKeeps
<1>5. CASE UNCHANGED vars
  <2>1. TypeOK'
    BY <1>5 DEF IInv, TypeOK, vars, storeVars, registryVars, envVars
  <2> QED
    BY <1>5, <2>1, Frame DEF vars, storeVars, registryVars, envVars
<1> QED
  BY <1>1, <1>2, <1>3, <1>4, <1>5 DEF Next

LEMMA Invariance == Spec => []IInv
<1> QED
  BY InitHolds, StepHolds, PTL DEF Spec

\* TypeOK holds in every reachable state of the master.
THEOREM TypeCorrect == Spec => []TypeOK
<1>1. IInv => TypeOK
  BY DEF IInv
<1> QED
  BY <1>1, Invariance, PTL

\* The persisted queue of runtime.py never holds two entries of one session or
\* one escalation twice, through any interleaving of handlers, tool calls,
\* crashes and reconciliation.
THEOREM QueueUnique == Spec => []OneLivePerSession
<1>1. IInv => OneLivePerSession
  BY DEF IInv, QueueOK, OneLivePerSession
<1> QED
  BY <1>1, Invariance, PTL

\* No queue entry outlives the registry record of its session, so dispatch
\* always finds the head's socket and the FIFO cannot wedge on a gone session.
THEOREM NoOrphanInQueue == Spec => []QueuedSessionKnown
<1>1. IInv => QueuedSessionKnown
  BY DEF IInv, QueueOK
<1> QED
  BY <1>1, Invariance, PTL

\* While the master serves, the announced escalation is the head of the queue.
THEOREM HeadIsAnnounced == Spec => []HeadAnnounced
<1>1. IInv => HeadAnnounced
  BY DEF IInv, AnnouncedOK
<1> QED
  BY <1>1, Invariance, PTL

-----------------------------------------------------------------------------
(* What a step may do to the queue, whatever handler, tool call or restart *)
(* it belongs to; and what follows for what is shown and in flight.        *)

Raises(p) == p.id \notin raised /\ queue' = Append(queue, p)
Moves ==
  \/ queue' = queue
  \/ \E p \in Entry : Raises(p)
  \/ \E i \in 1 .. Len(queue) : queue' = Pop(queue, i)

\* retract, retract_for_session and resolve take out one entry or none.
LEMMA Removals ==
  ASSUME NEW q \in Seq(Entry), UniqueLive(q), NEW id, NEW s
  PROVE  /\ Retract(q, id) = q \/ \E i \in 1 .. Len(q) : Retract(q, id) = Pop(q, i)
         /\ RetractForSession(q, s) = q
              \/ \E i \in 1 .. Len(q) : RetractForSession(q, s) = Pop(q, i)
         /\ Resolve(q, id) = q \/ \E i \in 1 .. Len(q) : Resolve(q, id) = Pop(q, i)
<1>1. Retract(q, id) = q \/ \E i \in 1 .. Len(q) : Retract(q, id) = Pop(q, i)
  BY Lookup DEF Retract
<1>2. RetractForSession(q, s) = q
        \/ \E i \in 1 .. Len(q) : RetractForSession(q, s) = Pop(q, i)
  BY Lookup DEF RetractForSession
<1>3. Resolve(q, id) = q \/ \E i \in 1 .. Len(q) : Resolve(q, id) = Pop(q, i)
  <2>1. IsHead(q, id) => 1 \in 1 .. Len(q)
    BY DEF IsHead
  <2> QED
    BY <2>1 DEF Resolve
<1> QED
  BY <1>1, <1>2, <1>3

\* Every step of the master moves the queue that way.
LEMMA QueueMoves ==
  ASSUME IInv, [Next]_vars
  PROVE  Moves
<1>0. queue \in Seq(Entry) /\ UniqueLive(queue)
  BY DEF IInv, TypeOK, QueueOK
<1>1. ASSUME NEW s \in Sessions, NEW id \in EscalationIds, OnEscalation(s, id) PROVE Moves
  <2>1. [id |-> id, session |-> s] \in Entry
    BY DEF Entry
  <2> QED
    BY <1>1, <2>1 DEF OnEscalation, Moves, Raises, Accept
<1>2. ASSUME NEW s \in Sessions, RetractStranded(s) PROVE Moves
  BY <1>0, <1>2, Removals DEF RetractStranded, Moves
<1>3. CASE Handlers
  <2>1. ASSUME NEW s \in Sessions, NEW id \in EscalationIds, OnEscalationRetract(s, id)
        PROVE  Moves
    BY <1>0, <2>1, Removals DEF OnEscalationRetract, Moves
  <2>2. ASSUME NEW id \in EscalationIds, OnDecisionDelivered(id) PROVE Moves
    BY <1>0, <2>2, Removals DEF OnDecisionDelivered, Moves
  <2>3. ASSUME NEW id \in EscalationIds, NEW live \in BOOLEAN, OnDecisionUndelivered(id, live)
        PROVE  Moves
    BY <1>0, <2>3, Removals DEF OnDecisionUndelivered, Moves
  <2>4. ASSUME NEW s \in Sessions, OnFatal(s) \/ OnSessionEnded(s) PROVE Moves
    BY <1>2, <2>4 DEF OnFatal, OnSessionEnded
  <2>5. ASSUME NEW s \in Sessions,
               \/ \E id \in PaneIds :
                    OnPaneRetract(s, id) \/ \E k \in PaneKind : OnPaneEscalation(s, id, k)
               \/ OnCompletion(s) \/ FinishTail(s)
               \/ \E id \in ProposalIds : OnPromptProposal(s, id)
               \/ \E st \in Statuses, ident \in BOOLEAN : OnLiveStatus(s, st, ident)
        PROVE  queue' = queue
    BY <2>5 DEF OnPaneRetract, OnPaneEscalation, OnCompletion, FinishTail, OnPromptProposal,
                OnLiveStatus
  <2> QED
    BY <1>1, <1>3, <2>1, <2>2, <2>3, <2>4, <2>5 DEF Handlers, Moves
<1>4. CASE Tools
  <2>1. ASSUME NEW s \in Sessions, AttachStart(s) PROVE Moves
    BY <1>2, <2>1 DEF AttachStart
  <2>2. ASSUME \/ SpawnStart \/ SpawnFinish \/ AttachRetractPanes \/ RespawnFinish
               \/ RespawnFails \/ ReactivateFinish \/ ApproveFinish
               \/ DispatchTaken \/ DispatchFinish \/ ToolFails
        PROVE  queue' = queue
    BY <2>2 DEF SpawnStart, SpawnFinish, AttachRetractPanes, RespawnFinish, RespawnFails,
                ReactivateFinish, ApproveFinish, DispatchTaken, DispatchFinish, ToolFails,
                ToolOnly, storeVars
  <2>3. ASSUME \/ \E s \in Sessions :
                    \/ StopStart(s, "stop") \/ StopStart(s, "reassign") \/ StopFinish(s)
                    \/ ReactivateStart(s) \/ \E st \in Statuses : Probe(s, st)
               \/ \E p \in proposals : ApproveStart(p)
               \/ \E id \in EscalationIds : DispatchStart(id)
        PROVE  queue' = queue
    BY <2>3 DEF StopStart, StopFinish, ReactivateStart, Probe, ApproveStart, DispatchStart,
                ToolOnly, storeVars
  <2> QED
    BY <1>4, <2>1, <2>2, <2>3 DEF Tools, Moves
<1>5. CASE Startup
  <2>1. ASSUME NEW s \in Sessions, NEW answers \in BOOLEAN,
               NEW running \in {"yes", "no", "unsure"}, Reconcile(s, answers, running)
        PROVE  Moves
    BY <1>0, <2>1, Removals DEF Reconcile, Moves
  <2>2. ASSUME \/ Restart \/ Serve \/ RepopulateNext \/ RepopulateSkip
               \/ \E st \in Statuses, pending \in {{}} \cup {{i} : i \in ProposalIds},
                     activity \in BOOLEAN : RepopulateReply(st, pending, activity)
        PROVE  queue' = queue
    BY <2>2 DEF Restart, Serve, RepopulateNext, RepopulateSkip, RepopulateReply, storeVars
  <2> QED
    BY <1>5, <2>1, <2>2 DEF Startup, Moves
<1>6. CASE Quit \/ Crash \/ UNCHANGED vars
  BY <1>6 DEF Quit, Crash, Moves, vars, storeVars
<1> QED
  BY <1>3, <1>4, <1>5, <1>6 DEF Next

\* The queue is a strict FIFO across every step of the master, restarts and
\* reconciliation included: what stays keeps its order and what is new goes behind it.
THEOREM AlwaysFifo == Spec => StrictFifo
<1> DEFINE Ordered ==
      \A i, j \in DOMAIN queue' :
        i < j /\ queue'[j].id \in IdsOf(queue)
          => queue'[i].id \in IdsOf(queue) /\ Before(queue, queue'[i], queue'[j])
<1>1. ASSUME IInv, [Next]_vars PROVE [Ordered]_queue
  <2>0. /\ queue \in Seq(Entry) /\ UniqueLive(queue) /\ IdsOf(queue) \subseteq raised
        /\ DOMAIN queue = 1 .. Len(queue) /\ Len(queue) \in Nat
    BY <1>1 DEF IInv, TypeOK, QueueOK
  <2>1. ASSUME NEW p \in Entry, Raises(p) PROVE Ordered
    <3>1. /\ DOMAIN queue' = 1 .. Len(queue) + 1 /\ queue'[Len(queue) + 1] = p
          /\ \A i \in DOMAIN queue : queue'[i] = queue[i]
      BY <2>0, <2>1 DEF Raises
    <3> SUFFICES ASSUME NEW i \in DOMAIN queue', NEW j \in DOMAIN queue', i < j,
                        queue'[j].id \in IdsOf(queue)
                 PROVE  queue'[i].id \in IdsOf(queue) /\ Before(queue, queue'[i], queue'[j])
      OBVIOUS
    <3>2. j # Len(queue) + 1
      BY <2>0, <2>1, <3>1 DEF Raises
    <3>3. i \in DOMAIN queue /\ j \in DOMAIN queue
      BY <2>0, <3>1, <3>2
    <3> QED
      BY <3>1, <3>3 DEF IdsOf, Before
  <2>2. ASSUME NEW k \in 1 .. Len(queue), queue' = Pop(queue, k) PROVE Ordered
    <3> DEFINE old(n) == IF n < k THEN n ELSE n + 1
    <3>1. /\ DOMAIN queue' = 1 .. Len(queue) - 1
          /\ \A n \in 1 .. Len(queue) - 1 : queue'[n] = queue[old(n)]
      BY <2>0, <2>2, PopProperties DEF Pop
    <3>2. \A n \in 1 .. Len(queue) - 1 : old(n) \in DOMAIN queue
      BY <2>0
    <3>3. \A m, n \in 1 .. Len(queue) - 1 : m < n => old(m) < old(n)
      BY <2>0
    <3> HIDE DEF old
    <3> QED
      BY <3>1, <3>2, <3>3 DEF IdsOf, Before
  <2> QED
    BY <1>1, <2>1, <2>2, QueueMoves DEF Moves
<1> QED
  BY <1>1, Invariance, PTL DEF Spec, StrictFifo

\* What is shown to the developer is replaced only once it has left the queue.
THEOREM NothingOvertakes == Spec => ShownUntilGone
<1> DEFINE Shown == phase' = "up" /\ surfaced # None /\ surfaced' # surfaced
                      => surfaced \notin IdsOf(queue')
<1>1. ASSUME IInv, IInv', [Next]_vars PROVE Shown
  <2> SUFFICES ASSUME phase' = "up", surfaced # None, surfaced' # surfaced
               PROVE  surfaced \notin IdsOf(queue')
    OBVIOUS
  <2>0. /\ queue \in Seq(Entry) /\ UniqueLive(queue) /\ Len(queue) \in Nat
        /\ surfaced = HeadId(queue) /\ surfaced' = HeadId(queue')
    BY <1>1 DEF IInv, TypeOK, QueueOK, AnnouncedOK, HeadAnnounced, HeadId
  <2>1. queue # << >> /\ surfaced = queue[1].id /\ 1 \in 1 .. Len(queue)
    BY <2>0 DEF HeadId
  <2>2. queue' # queue
    BY <2>0 DEF HeadId
  <2>3. ASSUME NEW p \in Entry, Raises(p) PROVE FALSE
    <3>1. queue' # << >> /\ queue'[1] = queue[1]
      BY <2>0, <2>1, <2>3 DEF Raises
    <3> QED
      BY <2>0, <2>1, <3>1 DEF HeadId
  <2>4. ASSUME NEW k \in 1 .. Len(queue), queue' = Pop(queue, k)
        PROVE  surfaced \notin IdsOf(queue')
    <3>1. k = 1
      <4> SUFFICES ASSUME k # 1 PROVE FALSE
        OBVIOUS
      <4>1. /\ 1 \in 1 .. Len(queue) - 1 /\ 1 < k /\ queue' \in Seq(Entry)
            /\ Len(queue') = Len(queue) - 1
        BY <2>0, <2>4, PopProperties
      <4>2. queue'[1] = queue[1]
        BY <2>0, <2>4, <4>1, PopProperties
      <4>3. queue' # << >>
        BY <2>0, <4>1
      <4> QED
        BY <2>0, <2>1, <4>2, <4>3 DEF HeadId
    <3>2. IdsOf(Pop(queue, 1)) = IdsOf(queue) \ {queue[1].id}
      BY <2>0, <2>1, PopUnique, Zenon
    <3> QED
      BY <2>1, <2>4, <3>1, <3>2
  <2> QED
    BY <1>1, <2>2, <2>3, <2>4, QueueMoves DEF Moves
<1>2. ASSUME IInv, IInv', [Next]_vars PROVE [Shown]_vars
  BY <1>1, <1>2
<1> QED
  BY <1>2, Invariance, PTL DEF Spec, ShownUntilGone

\* A decision being dispatched or in flight is for an escalation that was raised, and
\* that is the head if it is still queued.
Aimed(id) == id # None => id \in raised /\ (id \in IdsOf(queue) => id = HeadId(queue))
Dispatching == tool.op \in {"dispatch", "dispatched"}
AimedOK == Aimed(inflight) /\ (Dispatching => Aimed(tool.id))

\* No move of the queue turns a head into an escalation that waits.
LEMMA AimStays ==
  ASSUME IInv, Moves, NEW id, Aimed(id), raised \subseteq raised'
  PROVE  Aimed(id)'
<1>0. queue \in Seq(Entry) /\ UniqueLive(queue) /\ Len(queue) \in Nat
  BY DEF IInv, TypeOK, QueueOK
<1> SUFFICES ASSUME id # None, id \in IdsOf(queue') PROVE id = HeadId(queue')
  BY DEF Aimed
<1>1. CASE queue' = queue
  BY <1>1 DEF Aimed
<1>2. ASSUME NEW p \in Entry, Raises(p) PROVE id = HeadId(queue')
  <2>1. /\ DOMAIN queue' = 1 .. Len(queue) + 1 /\ queue'[Len(queue) + 1] = p
        /\ \A i \in 1 .. Len(queue) : queue'[i] = queue[i]
    BY <1>0, <1>2 DEF Raises
  <2>2. id \in IdsOf(queue)
    BY <1>0, <1>2, <2>1 DEF IdsOf, Aimed, Raises
  <2>3. queue # << >> /\ 1 \in 1 .. Len(queue)
    BY <1>0, <2>2 DEF IdsOf
  <2>4. queue' # << >> /\ queue'[1] = queue[1]
    BY <1>0, <1>2, <2>1, <2>3 DEF Raises
  <2> QED
    BY <2>2, <2>3, <2>4 DEF Aimed, HeadId
<1>3. ASSUME NEW k \in 1 .. Len(queue), queue' = Pop(queue, k) PROVE id = HeadId(queue')
  <2>1. /\ IdsOf(queue') = IdsOf(queue) \ {queue[k].id}
    BY <1>0, <1>3, PopUnique, Zenon
  <2>2. id = HeadId(queue) /\ queue # << >> /\ id = queue[1].id
    BY <1>0, <2>1 DEF Aimed, HeadId, IdsOf
  <2>3. k # 1
    BY <2>1, <2>2
  <2>4. /\ 1 \in 1 .. Len(queue) - 1 /\ 1 < k /\ queue' \in Seq(Entry)
        /\ Len(queue') = Len(queue) - 1
    BY <1>0, <1>3, <2>3, PopProperties
  <2>5. queue'[1] = queue[1] /\ queue' # << >>
    BY <1>0, <1>3, <2>4, PopProperties
  <2> QED
    BY <2>2, <2>5 DEF HeadId
<1> QED
  BY <1>1, <1>2, <1>3 DEF Moves

\* What a step does to the decision in flight and to the one being dispatched.
LEMMA AimMoves ==
  ASSUME IInv, [Next]_vars
  PROVE  /\ raised \subseteq raised'
         /\ \/ inflight' = None \/ inflight' = inflight
            \/ Dispatching /\ inflight' = tool.id
         /\ Dispatching' =>
              \/ Dispatching /\ tool'.id = tool.id
              \/ queue' = queue /\ IsHead(queue, tool'.id)
<1>1. CASE Handlers
  <2>1. ASSUME NEW s \in Sessions, RetractStranded(s)
        PROVE  inflight' = None \/ inflight' = inflight
    BY <2>1 DEF RetractStranded, ClearInflight
  <2>2. ASSUME NEW s \in Sessions, NEW id \in EscalationIds,
               OnEscalation(s, id) \/ OnEscalationRetract(s, id)
        PROVE  tool' = tool /\ (inflight' = None \/ inflight' = inflight)
                 /\ raised \subseteq raised'
    BY <2>2 DEF OnEscalation, OnEscalationRetract, ClearInflight, envVars
  <2>3. ASSUME NEW id \in EscalationIds,
               OnDecisionDelivered(id) \/ \E live \in BOOLEAN : OnDecisionUndelivered(id, live)
        PROVE  tool' = tool /\ (inflight' = None \/ inflight' = inflight) /\ raised' = raised
    BY <2>3 DEF OnDecisionDelivered, OnDecisionUndelivered, Answered, ClearInflight
  <2>4. ASSUME NEW s \in Sessions, OnFatal(s) \/ OnSessionEnded(s)
        PROVE  tool' = tool /\ (inflight' = None \/ inflight' = inflight) /\ raised' = raised
    BY <2>1, <2>4 DEF OnFatal, OnSessionEnded, envVars
  <2>5. ASSUME NEW s \in Sessions,
               \/ \E id \in PaneIds :
                    OnPaneRetract(s, id) \/ \E k \in PaneKind : OnPaneEscalation(s, id, k)
               \/ OnCompletion(s) \/ FinishTail(s)
               \/ \E id \in ProposalIds : OnPromptProposal(s, id)
               \/ \E st \in Statuses, ident \in BOOLEAN : OnLiveStatus(s, st, ident)
        PROVE  tool' = tool /\ inflight' = inflight /\ raised \subseteq raised'
    BY <2>5 DEF OnPaneRetract, OnPaneEscalation, OnCompletion, FinishTail, OnPromptProposal,
                OnLiveStatus, envVars
  <2>6. tool' = tool /\ (inflight' = None \/ inflight' = inflight) /\ raised \subseteq raised'
    BY <1>1, <2>2, <2>3, <2>4, <2>5 DEF Handlers
  <2> QED
    BY <2>6 DEF Dispatching
<1>2. CASE Tools
  <2>1. ASSUME \/ SpawnStart \/ SpawnFinish \/ AttachRetractPanes \/ RespawnFinish
               \/ RespawnFails \/ ReactivateFinish \/ ApproveFinish \/ ToolFails
        PROVE  ~ Dispatching' /\ inflight' = inflight /\ raised' = raised
    BY <2>1 DEF SpawnStart, SpawnFinish, AttachRetractPanes, RespawnFinish, RespawnFails,
                ReactivateFinish, ApproveFinish, ToolFails, ToolOnly, Tool, Idle, Dispatching,
                envVars, IInv, TypeOK, ToolCalls
  <2>2. ASSUME \/ \E s \in Sessions :
                    \/ StopStart(s, "stop") \/ StopStart(s, "reassign")
                    \/ ReactivateStart(s) \/ \E st \in Statuses : Probe(s, st)
               \/ \E p \in proposals : ApproveStart(p)
        PROVE  ~ Dispatching' /\ inflight' = inflight /\ raised' = raised
    BY <2>2 DEF StopStart, ReactivateStart, Probe, ApproveStart, Free, ToolOnly, Tool, Idle,
                Dispatching, envVars
  <2>3. ASSUME NEW s \in Sessions, StopFinish(s) \/ AttachStart(s)
        PROVE  /\ ~ Dispatching' /\ raised' = raised
               /\ inflight' = None \/ inflight' = inflight
    BY <2>3 DEF StopFinish, AttachStart, RetractStranded, ClearInflight, Tool, Idle,
                Dispatching, envVars
  <2>4. ASSUME DispatchTaken
        PROVE  Dispatching /\ tool'.id = tool.id /\ inflight' = inflight /\ raised' = raised
    <3>1. tool.op = "dispatch" /\ tool' = [tool EXCEPT !.op = "dispatched"]
      BY <2>4 DEF DispatchTaken
    <3>2. tool'.id = tool.id
      BY <3>1 DEF IInv, TypeOK, ToolCalls, Idle
    <3> QED
      BY <2>4, <3>1, <3>2 DEF DispatchTaken, Dispatching
  <2>5. ASSUME DispatchFinish
        PROVE  Dispatching /\ ~ Dispatching' /\ inflight' = tool.id /\ raised' = raised
    BY <2>5 DEF DispatchFinish, Dispatching, Idle, envVars
  <2>6. ASSUME NEW id \in EscalationIds, DispatchStart(id)
        PROVE  /\ tool'.id = id /\ IsHead(queue, id) /\ queue' = queue
               /\ inflight' = inflight /\ raised' = raised
    BY <2>6 DEF DispatchStart, ToolOnly, Tool, storeVars, envVars
  <2> QED
    BY <1>2, <2>1, <2>2, <2>3, <2>4, <2>5, <2>6 DEF Tools
<1>3. CASE Startup \/ Quit \/ Crash \/ UNCHANGED vars
  <2>1. ASSUME Startup \/ UNCHANGED vars
        PROVE  tool' = tool /\ inflight' = inflight /\ raised' = raised
    BY <2>1 DEF Startup, Restart, Serve, RepopulateNext, RepopulateSkip, Reconcile,
                RepopulateReply, vars, envVars
  <2>2. ASSUME Quit \/ Crash PROVE ~ Dispatching' /\ inflight' = None /\ raised' = raised
    BY <2>2 DEF Quit, Crash, LoseMemory, Idle, Dispatching, envVars
  <2> QED
    BY <1>3, <2>1, <2>2 DEF Dispatching
<1> QED
  BY <1>1, <1>2, <1>3 DEF Next

\* A decision in flight never belongs to an escalation that waits behind the head, with
\* dispatch running beside every handler.
THEOREM InflightIsHead == Spec => []InflightNeverWaits
<1>1. Init => AimedOK
  BY DEF Init, AimedOK, Aimed, Dispatching, Idle
<1>2. ASSUME IInv, AimedOK, [Next]_vars PROVE AimedOK'
  <2>1. Moves
    BY <1>2, QueueMoves
  <2>2. raised \subseteq raised'
    BY <1>2, AimMoves
  <2>3. Aimed(inflight)'
    <3>1. CASE inflight' = None
      BY <3>1 DEF Aimed
    <3>2. CASE inflight' = inflight
      <4>1. ASSUME NEW id, id = inflight PROVE Aimed(id)'
        BY <1>2, <2>1, <2>2, <4>1, AimStays DEF AimedOK
      <4> QED
        BY <3>2, <4>1 DEF Aimed
    <3>3. CASE Dispatching /\ inflight' = tool.id
      <4>1. ASSUME NEW id, id = tool.id PROVE Aimed(id)'
        BY <1>2, <2>1, <2>2, <3>3, <4>1, AimStays DEF AimedOK
      <4> QED
        BY <3>3, <4>1 DEF Aimed
    <3> QED
      BY <1>2, <3>1, <3>2, <3>3, AimMoves
  <2>4. ASSUME Dispatching' PROVE Aimed(tool.id)'
    <3>1. CASE Dispatching /\ tool'.id = tool.id
      <4>1. ASSUME NEW id, id = tool.id PROVE Aimed(id)'
        BY <1>2, <2>1, <2>2, <3>1, <4>1, AimStays DEF AimedOK
      <4> QED
        BY <3>1, <4>1 DEF Aimed
    <3>2. CASE queue' = queue /\ IsHead(queue, tool'.id)
      <4>1. queue # << >> /\ tool'.id = queue[1].id /\ 1 \in DOMAIN queue
        BY <1>2, <3>2 DEF IsHead, IInv, TypeOK
      <4>2. tool'.id \in raised'
        BY <1>2, <2>2, <4>1 DEF IInv, QueueOK, IdsOf
      <4> QED
        BY <3>2, <4>1, <4>2 DEF Aimed, HeadId
    <3> QED
      BY <1>2, <2>4, <3>1, <3>2, AimMoves
  <2> QED
    BY <2>3, <2>4 DEF AimedOK
<1>3. ASSUME IInv, AimedOK PROVE InflightNeverWaits
  <2>1. None \notin IdsOf(queue)
    <3>1. \A i \in DOMAIN queue : queue[i] \in Entry
      BY <1>3 DEF IInv, TypeOK
    <3>2. None \notin EscalationIds
      BY MasterAssumption
    <3> QED
      BY <3>1, <3>2 DEF IdsOf, Entry
  <2> QED
    BY <1>3, <2>1 DEF AimedOK, Aimed, InflightNeverWaits
<1> QED
  BY <1>1, <1>2, <1>3, Invariance, PTL DEF Spec

=============================================================================

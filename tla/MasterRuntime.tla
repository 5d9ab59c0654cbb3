---------------------------- MODULE MasterRuntime ----------------------------
(***************************************************************************)
(* The master process (src/broker/master/runtime.py): the session          *)
(* registry, the persisted escalation queue and pane-escalation store, the *)
(* pending proposals, what has been announced to the developer, and the    *)
(* decision in flight.                                                     *)
(*                                                                         *)
(* One asyncio loop runs everything, so a step of this module is the code  *)
(* between two awaits.  Socket handlers (the On... actions) interleave     *)
(* with the developer's current tool call, which is a record `tool' with   *)
(* one phase per await; the TUI disables its box during a turn, so there   *)
(* is one tool call at a time.  Every store is saved before the step ends, *)
(* so a crash between steps keeps registry, queue, panes and approved and  *)
(* drops the rest; SpecKill adds kills between two saves of one step.      *)
(*                                                                         *)
(* The brokers are an open environment: any started session may send any   *)
(* message, except that escalation ids are fresh (uuid4) and that a        *)
(* decision is answered once, by the session it was delivered to.          *)
(***************************************************************************)
EXTENDS Integers, FiniteSets, Protocol, EscalationQueue

CONSTANTS
  MaxSessions,   \* bound on spawned sessions; names are 1 .. MaxSessions
  EscalationIds, \* ids of decision escalations, each raised at most once
  PaneIds,       \* ids of pane escalations, each raised at most once
  ProposalIds,   \* ids of prompt proposals, each sent at most once
  Statuses,      \* states brokers push or report; a subset of SessionState
  MaxDispatches, \* bound on unanswered decisions per escalation
  None           \* a value outside all of these: Python's None

ASSUME MasterAssumption ==
  /\ MaxSessions \in Nat /\ MaxDispatches \in Nat
  /\ Statuses \subseteq SessionState
  /\ None \notin EscalationIds

Sessions == 1 .. MaxSessions

VARIABLES
  phase,      \* "down", "reconciling" or "up"
  registry,   \* registry[s]: recorded state, or "absent" (no record)
  nameSeq,    \* the name counter in memory ...
  savedSeq,   \* ... and as last saved with the registry
  identified, \* sessions whose record has pane, Claude id and transcript
  approved,   \* sessions whose record has an approved prompt
  queue,      \* the escalation queue (module EscalationQueue)
  panes,      \* open pane escalations: [id, session, kind]
  proposals,  \* pending proposals: [id, session]
  surfaced,   \* _surfaced_id: the announced head
  inflight,   \* _inflight: the dispatched, unconfirmed decision
  tool,       \* the developer's tool call: [op, session, id]
  tails,      \* sessions whose end/fatal handler is suspended in _notify
  todo,       \* sessions the startup loops have still to visit
  probing,    \* the session whose startup probe is awaited, 0 for none
  started,    \* history: sessions some broker process was started for
  raised,     \* history: ids brokers have already sent
  accepted    \* accepted[id]: decisions brokers took and have not answered

registryVars == <<registry, nameSeq, savedSeq, identified, approved>>
storeVars    == <<registryVars, queue, panes>>
startupVars  == <<todo, probing>>
envVars      == <<started, raised, accepted>>
vars == <<phase, storeVars, proposals, surfaced, inflight, tool, tails, todo,
          probing, envVars>>

Idle == [op |-> "idle", session |-> 0, id |-> None]
Tool(op, s, id) == [op |-> op, session |-> s, id |-> id]

Init ==
  /\ phase = "up"
  /\ registry = [s \in Sessions |-> "absent"]
  /\ nameSeq = 0 /\ savedSeq = 0
  /\ identified = {} /\ approved = {}
  /\ queue = << >> /\ panes = {} /\ proposals = {}
  /\ surfaced = None /\ inflight = None
  /\ tool = Idle /\ tails = {} /\ todo = {} /\ probing = 0
  /\ started = {} /\ raised = {} /\ accepted = [id \in EscalationIds |-> 0]

-----------------------------------------------------------------------------
(* Shared pieces of the handlers.                                          *)

Known(s)   == registry[s] # "absent"
HeadId(q)  == IF q = << >> THEN None ELSE q[1].id
PanesOf(s) == {p \in panes : p.session = s}
OthersProposals(s) == {p \in proposals : p.session # s}

\* registry.upsert / save writes the name counter with the records.
SaveRegistry(r) == registry' = r /\ savedSeq' = nameSeq

\* _set_state: no effect on an unknown session or an unchanged state; entering
\* an absorbing state drops the session's proposals.
SetState(s, st) ==
  IF Known(s) /\ registry[s] # st
  THEN /\ SaveRegistry([registry EXCEPT ![s] = st])
       /\ proposals' = IF st \in ABSORBING THEN OthersProposals(s) ELSE proposals
  ELSE UNCHANGED <<registry, savedSeq, proposals>>

\* _clear_inflight.
ClearInflight(id) == inflight' = IF inflight = id THEN None ELSE inflight

\* Mutant of Surface: the newest escalation is announced.
SurfaceNewest(q, was) == IF q = << >> THEN was ELSE q[Len(q)].id

\* _surface_head over queue q when `was' is the announced id: nothing to
\* announce leaves _surfaced_id alone.
Surface(q, was) == IF q = << >> THEN was ELSE q[1].id

\* Mutant of Forget: the announced id is never reset.
ForgetNothing(id) == surfaced

\* The retracting handlers forget the announced id only when they cleared it.
Forget(id) == IF id = surfaced THEN None ELSE surfaced

\* _surface_head suspends its handler (the notifier is awaited) only when it
\* has something new to announce.
Suspends(q, was) == q # << >> /\ q[1].id # was

\* _retract_stranded_escalation withdraws the session's queued escalation; when
\* that promotes a head the notifier is awaited before the session's pane
\* escalations are withdrawn too.
Stranded(s) == queue[FirstOfSession(queue, s)].id
AwaitsNotifier(s) ==
  s \in SessionsOf(queue) /\ Suspends(RetractForSession(queue, s), Forget(Stranded(s)))

RetractStranded(s) ==
  /\ queue' = RetractForSession(queue, s)
  /\ IF s \in SessionsOf(queue)
     THEN /\ ClearInflight(Stranded(s))
          /\ surfaced' = Surface(queue', Forget(Stranded(s)))
     ELSE UNCHANGED <<inflight, surfaced>>
  /\ panes' = IF AwaitsNotifier(s) THEN panes ELSE panes \ PanesOf(s)

-----------------------------------------------------------------------------
(* Socket handlers: one per message a broker sends.                        *)

Sends(s) == phase = "up" /\ s \in started

\* _on_escalation: an unknown session and a second live entry are NACKed.
OnEscalation(s, id) ==
  LET p == [id |-> id, session |-> s] IN
  /\ Sends(s) /\ id \notin raised
  /\ raised' = raised \cup {id}
  /\ IF Known(s) /\ CanAccept(queue, p)
     THEN /\ queue' = Accept(queue, p)
          /\ SetState(s, "escalated")
          /\ surfaced' = Surface(queue', surfaced)
     ELSE UNCHANGED <<queue, surfaced, registry, savedSeq, proposals>>
  /\ UNCHANGED <<phase, nameSeq, identified, approved, panes, inflight, tool,
                 tails, startupVars, started, accepted>>

\* _on_escalation_retract: DRIVING only when something was withdrawn.
OnEscalationRetract(s, id) ==
  /\ Sends(s) /\ id \in raised
  /\ \A i \in DOMAIN queue : queue[i].id = id => queue[i].session = s
  /\ ClearInflight(id)
  /\ queue' = Retract(queue, id)
  /\ IF id \in IdsOf(queue)
     THEN SetState(s, "driving") /\ surfaced' = Surface(queue', Forget(id))
     ELSE UNCHANGED <<registry, savedSeq, proposals, surfaced>>
  /\ UNCHANGED <<phase, nameSeq, identified, approved, panes, tool, tails, startupVars,
                 envVars>>

\* _on_pane_escalation: one open prompt of each kind per session.
OnPaneEscalation(s, id, k) ==
  /\ Sends(s) /\ id \notin raised
  /\ raised' = raised \cup {id}
  /\ panes' = IF Known(s) /\ ~ \E p \in panes : p.session = s /\ p.kind = k
              THEN panes \cup {[id |-> id, session |-> s, kind |-> k]}
              ELSE panes
  /\ UNCHANGED <<phase, registryVars, queue, proposals, surfaced, inflight, tool,
                 tails, startupVars, started, accepted>>

\* _on_pane_retract.
OnPaneRetract(s, id) ==
  /\ Sends(s)
  /\ \E p \in panes : p.id = id /\ p.session = s
  /\ panes' = {p \in panes : p.id # id}
  /\ UNCHANGED <<phase, registryVars, queue, proposals, surfaced, inflight, tool,
                 tails, startupVars, envVars>>

\* T_COMPLETION, in _handle.
OnCompletion(s) ==
  /\ Sends(s)
  /\ SetState(s, "completed")
  /\ UNCHANGED <<phase, nameSeq, identified, approved, queue, panes, surfaced,
                 inflight, tool, tails, startupVars, envVars>>

\* T_FATAL_ERROR, in _handle: an errored session's escalations are withdrawn.
OnFatal(s) ==
  /\ Sends(s)
  /\ SetState(s, "error")
  /\ RetractStranded(s)
  /\ tails' = IF AwaitsNotifier(s) THEN tails \cup {s} ELSE tails
  /\ UNCHANGED <<phase, nameSeq, identified, approved, tool, startupVars, envVars>>

\* _on_session_ended: the record goes first, then what it stranded.
OnSessionEnded(s) ==
  /\ Sends(s) /\ Known(s)
  /\ SaveRegistry([registry EXCEPT ![s] = "absent"])
  /\ proposals' = OthersProposals(s)
  /\ RetractStranded(s)
  /\ tails' = IF AwaitsNotifier(s) THEN tails \cup {s} ELSE tails
  /\ UNCHANGED <<phase, nameSeq, identified, approved, tool, startupVars, envVars>>

\* The rest of OnFatal / OnSessionEnded once the notifier returned; two such
\* handlers of one session count as one.
FinishTail(s) ==
  /\ s \in tails
  /\ tails' = tails \ {s}
  /\ panes' = panes \ PanesOf(s)
  /\ UNCHANGED <<phase, registryVars, queue, proposals, surfaced, inflight, tool,
                 startupVars, envVars>>

\* T_PROMPT_PROPOSAL, in _handle: the proposal is registered even when the
\* session has no record.
OnPromptProposal(s, id) ==
  /\ Sends(s) /\ id \notin raised
  /\ raised' = raised \cup {id}
  /\ IF Known(s) /\ registry[s] # "awaiting_approval"
     THEN SaveRegistry([registry EXCEPT ![s] = "awaiting_approval"])
     ELSE UNCHANGED <<registry, savedSeq>>
  /\ proposals' = proposals \cup {[id |-> id, session |-> s]}
  /\ UNCHANGED <<phase, nameSeq, identified, approved, queue, panes, surfaced,
                 inflight, tool, tails, startupVars, started, accepted>>

\* T_LIVE_STATUS, in _handle: identity always, the state unless absorbing.
OnLiveStatus(s, st, ident) ==
  /\ Sends(s) /\ Known(s)
  /\ identified' = IF ident THEN identified \cup {s} ELSE identified
  /\ IF registry[s] \notin ABSORBING THEN SetState(s, st)
     ELSE UNCHANGED <<registry, savedSeq, proposals>>
  /\ UNCHANGED <<phase, nameSeq, approved, queue, panes, surfaced, inflight,
                 tool, tails, startupVars, envVars>>

\* A broker answers one of the decisions it took.
Answered(id) ==
  /\ phase = "up" /\ accepted[id] > 0
  /\ accepted' = [accepted EXCEPT ![id] = @ - 1]
  /\ UNCHANGED <<phase, registryVars, panes, proposals, tool, tails, startupVars,
                 started, raised>>

\* _on_decision_delivered.
OnDecisionDelivered(id) ==
  /\ Answered(id)
  /\ ClearInflight(id)
  /\ queue' = Resolve(queue, id)
  /\ surfaced' = IF IsHead(queue, id) THEN Surface(queue', None) ELSE surfaced

\* _on_decision_undelivered: a miss that is still live stays surfaced.
OnDecisionUndelivered(id, stillLive) ==
  /\ Answered(id)
  /\ ClearInflight(id)
  /\ IF stillLive THEN UNCHANGED <<queue, surfaced>>
     ELSE queue' = Retract(queue, id) /\ surfaced' = Surface(queue', Forget(id))

-----------------------------------------------------------------------------
(* The developer's tool calls.                                             *)

Free == phase = "up" /\ tool = Idle

\* A call moves on (or ends) without touching anything else.
ToolOnly(t) ==
  /\ tool' = t
  /\ UNCHANGED <<phase, storeVars, proposals, surfaced, inflight, tails, startupVars,
                 envVars>>

\* spawn_session: the name is taken and the broker started before the record
\* is stored and saved.
SpawnStart ==
  /\ Free /\ nameSeq < MaxSessions
  /\ nameSeq' = nameSeq + 1
  /\ started' = started \cup {nameSeq'}
  /\ tool' = Tool("spawn", nameSeq', None)
  /\ UNCHANGED <<phase, registry, savedSeq, identified, approved, queue, panes,
                 proposals, surfaced, inflight, tails, startupVars, raised, accepted>>

SpawnFinish ==
  /\ tool.op = "spawn"
  /\ SaveRegistry([registry EXCEPT ![tool.session] = "spawning"])
  /\ tool' = Idle
  /\ UNCHANGED <<phase, nameSeq, identified, approved, queue, panes, proposals,
                 surfaced, inflight, tails, startupVars, envVars>>

\* stop_session, also run by reassign_session, which first checks that the
\* record holds everything a replacement broker needs.
StopStart(s, op) ==
  /\ Free /\ Known(s)
  /\ op = "reassign" => s \in identified
  /\ ToolOnly(Tool(op, s, None))

\* The broker process is gone (shutdown ACKed or not, exited or terminated).
\* The session's own decision escalation is kept.
StopFinish(s) ==
  /\ tool.op \in {"stop", "reassign"} /\ tool.session = s
  /\ panes' = panes \ PanesOf(s)
  /\ IF queue # << >> /\ queue[1].session = s THEN ClearInflight(queue[1].id)
     ELSE UNCHANGED inflight
  /\ SetState(s, "stopped")
  /\ tool' = IF tool.op = "stop" THEN Idle ELSE Tool("respawn", s, None)
  /\ UNCHANGED <<phase, nameSeq, identified, approved, queue, surfaced, tails,
                 startupVars, envVars>>

\* attach_session, up to the spawn: nobody answers the socket (otherwise the
\* call is refused and nothing changes), stranded escalations are withdrawn.
AttachStart(s) ==
  /\ Free /\ Known(s) /\ s \in identified /\ s \in approved
  /\ RetractStranded(s)
  /\ tool' = Tool(IF AwaitsNotifier(s) THEN "attach" ELSE "resume", s, None)
  /\ UNCHANGED <<phase, registryVars, proposals, tails, startupVars, envVars>>

\* attach_session past the notifier.
AttachRetractPanes ==
  /\ tool.op = "attach"
  /\ panes' = panes \ PanesOf(tool.session)
  /\ tool' = [tool EXCEPT !.op = "resume"]
  /\ UNCHANGED <<phase, registryVars, queue, proposals, surfaced, inflight,
                 tails, startupVars, envVars>>

\* reassign_session / attach_session once the replacement broker is spawned;
\* reassign drops the approved prompt just before.  The record is stored even
\* if it was removed meanwhile.
RespawnFinish ==
  /\ tool.op \in {"respawn", "resume"}
  /\ SaveRegistry([registry EXCEPT ![tool.session] = "spawning"])
  /\ approved' = IF tool.op = "respawn" THEN approved \ {tool.session} ELSE approved
  /\ started' = started \cup {tool.session}
  /\ tool' = Idle
  /\ UNCHANGED <<phase, nameSeq, identified, queue, panes, proposals, surfaced,
                 inflight, tails, startupVars, raised, accepted>>

\* reactivate_session: request, then the ACK.
ReactivateStart(s) == Free /\ Known(s) /\ ToolOnly(Tool("reactivate", s, None))

ReactivateFinish ==
  /\ tool.op = "reactivate"
  /\ SaveRegistry([registry EXCEPT ![tool.session] = "grounding"])
  /\ approved' = approved \ {tool.session}
  /\ tool' = Idle
  /\ UNCHANGED <<phase, nameSeq, identified, queue, panes, proposals, surfaced,
                 inflight, tails, startupVars, envVars>>

\* approve_prompt: request, then the ACK; a proposal dropped meanwhile makes
\* the call fail with a KeyError and nothing is recorded.
ApproveStart(p) ==
  Free /\ p \in proposals /\ Known(p.session)
    /\ ToolOnly(Tool("approve", p.session, p.id))

ApproveFinish ==
  LET p == [id |-> tool.id, session |-> tool.session] IN
  /\ tool.op = "approve" /\ p \in proposals
  /\ proposals' = proposals \ {p}
  /\ approved' = approved \cup {tool.session}
  /\ SaveRegistry(registry)
  /\ tool' = Idle
  /\ UNCHANGED <<phase, nameSeq, identified, queue, panes, surfaced, inflight,
                 tails, startupVars, envVars>>

\* Mutant of DispatchStart: any live escalation may be answered.
DispatchStartAnyLive(id) ==
  /\ Free
  /\ id \in IdsOf(queue) /\ inflight = None /\ Known(queue[1].session)
  /\ ToolOnly(Tool("dispatch", queue[1].session, id))

\* dispatch: the liveness and in-flight checks, then the request.
DispatchStart(id) ==
  /\ Free
  /\ ~ \E p \in panes : p.id = id
  /\ IsHead(queue, id) /\ inflight = None /\ Known(queue[1].session)
  /\ ToolOnly(Tool("dispatch", queue[1].session, id))

\* The session's broker takes the decision and ACKs it.
DispatchTaken ==
  /\ tool.op = "dispatch" /\ accepted[tool.id] < MaxDispatches
  /\ accepted' = [accepted EXCEPT ![tool.id] = @ + 1]
  /\ tool' = [tool EXCEPT !.op = "dispatched"]
  /\ UNCHANGED <<phase, storeVars, proposals, surfaced, inflight, tails, startupVars,
                 started, raised>>

\* The ACK reaches dispatch, which only now marks the decision in flight.
DispatchFinish ==
  /\ tool.op = "dispatched"
  /\ inflight' = tool.id
  /\ tool' = Idle
  /\ UNCHANGED <<phase, storeVars, proposals, surfaced, tails, startupVars, envVars>>

\* reassign_session when the replacement cannot be spawned.
RespawnFails ==
  /\ tool.op = "respawn"
  /\ approved' = approved \ {tool.session}
  /\ tool' = Idle
  /\ UNCHANGED <<phase, registry, nameSeq, savedSeq, identified, queue, panes,
                 proposals, surfaced, inflight, tails, startupVars, envVars>>

\* Any request to a broker may be refused, time out or lose its connection,
\* a socket may never come free, a spawn may fail.
ToolFails == tool # Idle /\ ToolOnly(Idle)

\* probe_status: the reported state is recorded without the absorbing guard.
Probe(s, st) ==
  /\ Free /\ Known(s)
  /\ SetState(s, st)
  /\ UNCHANGED <<phase, nameSeq, identified, approved, queue, panes, surfaced,
                 inflight, tool, tails, startupVars, envVars>>

-----------------------------------------------------------------------------
(* Crash, reconciliation at startup, repopulation.                         *)

\* What a dead process leaves behind besides the stores.
LoseMemory ==
  /\ phase' = "down"
  /\ nameSeq' = savedSeq'
  /\ proposals' = {} /\ surfaced' = None /\ inflight' = None
  /\ tool' = Idle /\ tails' = {} /\ todo' = {} /\ probing' = 0

\* The TUI's unmount saves the registry once more, name counter included.
Quit ==
  /\ phase = "up"
  /\ SaveRegistry(registry)
  /\ LoseMemory
  /\ UNCHANGED <<identified, approved, queue, panes, envVars>>

Crash ==
  /\ phase = "up"
  /\ UNCHANGED <<registry, savedSeq, identified, approved, queue, panes, envVars>>
  /\ LoseMemory

\* A kill between two saves of one handler: after the record is removed or
\* marked failed but before its escalation is withdrawn, or after the
\* escalation is queued but before the state is recorded.
KillBetweenSaves(s, id) ==
  /\ Sends(s) /\ Known(s)
  /\ \/ /\ \E st \in {"absent", "error"} : SaveRegistry([registry EXCEPT ![s] = st])
        /\ UNCHANGED <<queue, raised>>
     \/ /\ id \notin raised /\ CanAccept(queue, [id |-> id, session |-> s])
        /\ queue' = Accept(queue, [id |-> id, session |-> s])
        /\ raised' = raised \cup {id}
        /\ UNCHANGED <<registry, savedSeq>>
  /\ LoseMemory
  /\ UNCHANGED <<identified, approved, panes, started, accepted>>

Restart ==
  /\ phase = "down"
  /\ phase' = "reconciling"
  /\ todo' = {s \in Sessions : Known(s)}
  /\ UNCHANGED <<storeVars, proposals, surfaced, inflight, tool, tails, probing, envVars>>

\* reconcile_registry, one session: left as is when its broker answers;
\* dropped (_drop_from_fleet) when Claude Code is gone or cannot be adopted;
\* otherwise unmanaged.
Reconcile(s, answers, running) ==
  /\ phase = "reconciling" /\ s \in todo
  /\ todo' = todo \ {s}
  /\ IF answers THEN UNCHANGED <<registry, savedSeq, queue, panes>>
     ELSE IF running = "no" \/ (running = "yes" /\ s \notin identified)
     THEN /\ queue' = RetractForSession(queue, s)
          /\ panes' = panes \ PanesOf(s)
          /\ SaveRegistry([registry EXCEPT ![s] = "absent"])
     ELSE /\ SaveRegistry([registry EXCEPT ![s] = "unmanaged"])
          /\ UNCHANGED <<queue, panes>>
  /\ UNCHANGED <<phase, nameSeq, identified, approved, proposals, surfaced,
                 inflight, tool, tails, probing, envVars>>

\* serve: the head loaded from disk is announced, then every surviving broker
\* is probed (todo).
Serve ==
  /\ phase = "reconciling" /\ todo = {}
  /\ phase' = "up"
  /\ surfaced' = Surface(queue, surfaced)
  /\ todo' = {s \in Sessions : Known(s)}
  /\ UNCHANGED <<storeVars, proposals, inflight, tool, tails, probing, envVars>>

\* _repopulate_from_brokers walks the names it started with.  A name whose
\* record was removed meanwhile raises KeyError, which ends the loop.
RepopulateNext ==
  /\ phase = "up" /\ probing = 0
  /\ \E s \in todo :
       /\ \A x \in todo : s <= x
       /\ todo' = IF Known(s) THEN todo \ {s} ELSE {}
       /\ probing' = IF Known(s) /\ registry[s] \notin ABSORBING THEN s ELSE 0
  /\ UNCHANGED <<phase, storeVars, proposals, surfaced, inflight, tool, tails, envVars>>

\* The probed broker answers.  If its record is gone by now and it reports an
\* activity, _note_task_activity raises KeyError, with the same effect.
RepopulateReply(st, pending, activity) ==
  /\ probing # 0
  /\ probing' = 0
  /\ IF Known(probing)
     THEN /\ todo' = todo
          /\ SaveRegistry([registry EXCEPT ![probing] = st])
          /\ proposals' = (IF st \in ABSORBING /\ registry[probing] # st
                           THEN OthersProposals(probing) ELSE proposals)
                            \cup [id : pending, session : {probing}]
     ELSE /\ todo' = IF activity THEN {} ELSE todo
          /\ proposals' = IF activity THEN proposals
                          ELSE proposals \cup [id : pending, session : {probing}]
          /\ UNCHANGED <<registry, savedSeq>>
  /\ UNCHANGED <<phase, nameSeq, identified, approved, queue, panes, surfaced,
                 inflight, tool, tails, envVars>>

\* An unreachable broker is skipped.
RepopulateSkip ==
  /\ probing # 0
  /\ probing' = 0
  /\ UNCHANGED <<phase, storeVars, proposals, surfaced, inflight, tool, tails, todo,
                 envVars>>

-----------------------------------------------------------------------------
Handlers ==
  \/ \E s \in Sessions :
       \/ \E id \in EscalationIds : OnEscalation(s, id) \/ OnEscalationRetract(s, id)
       \/ \E id \in PaneIds :
            OnPaneRetract(s, id) \/ \E k \in PaneKind : OnPaneEscalation(s, id, k)
       \/ OnCompletion(s) \/ OnFatal(s) \/ OnSessionEnded(s) \/ FinishTail(s)
       \/ \E id \in ProposalIds : OnPromptProposal(s, id)
       \/ \E st \in Statuses, ident \in BOOLEAN : OnLiveStatus(s, st, ident)
  \/ \E id \in EscalationIds :
       OnDecisionDelivered(id) \/ \E live \in BOOLEAN : OnDecisionUndelivered(id, live)

Tools ==
  \/ SpawnStart \/ SpawnFinish \/ AttachRetractPanes \/ RespawnFinish
  \/ RespawnFails \/ ReactivateFinish \/ ApproveFinish
  \/ DispatchTaken \/ DispatchFinish \/ ToolFails
  \/ \E s \in Sessions :
       \/ StopStart(s, "stop") \/ StopStart(s, "reassign") \/ StopFinish(s)
       \/ AttachStart(s) \/ ReactivateStart(s) \/ \E st \in Statuses : Probe(s, st)
  \/ \E p \in proposals : ApproveStart(p)
  \/ \E id \in EscalationIds : DispatchStart(id)

Startup ==
  \/ Restart \/ Serve \/ RepopulateNext \/ RepopulateSkip
  \/ \E s \in Sessions, answers \in BOOLEAN, running \in {"yes", "no", "unsure"} :
       Reconcile(s, answers, running)
  \/ \E st \in Statuses, pending \in {{}} \cup {{i} : i \in ProposalIds},
        activity \in BOOLEAN : RepopulateReply(st, pending, activity)

Next == Handlers \/ Tools \/ Startup \/ Quit \/ Crash

Spec == Init /\ [][Next]_vars

\* The same master, which may also be killed between two saves of a step.
SpecKill ==
  Init /\ [][Next \/ \E s \in Sessions, id \in EscalationIds :
                      KillBetweenSaves(s, id)]_vars

-----------------------------------------------------------------------------
(* Properties.                                                             *)

Entry == [id : EscalationIds, session : Sessions]

ToolCalls ==
  {Idle}
    \cup [op : {"spawn", "stop", "reassign", "respawn", "attach", "resume", "reactivate"},
          session : Sessions, id : {None}]
    \cup [op : {"approve"}, session : Sessions, id : ProposalIds]
    \cup [op : {"dispatch", "dispatched"}, session : Sessions, id : EscalationIds]

\* Every variable holds a value of its type.
TypeOK ==
  /\ phase \in {"down", "reconciling", "up"}
  /\ registry \in [Sessions -> SessionState \cup {"absent"}]
  /\ nameSeq \in 0 .. MaxSessions /\ savedSeq \in 0 .. MaxSessions
  /\ identified \subseteq Sessions /\ approved \subseteq Sessions
  /\ queue \in Seq(Entry)
  /\ panes \subseteq [id : PaneIds, session : Sessions, kind : PaneKind]
  /\ proposals \subseteq [id : ProposalIds, session : Sessions]
  /\ surfaced \in EscalationIds \cup {None} /\ inflight \in EscalationIds \cup {None}
  /\ tool \in ToolCalls
  /\ tails \subseteq Sessions /\ todo \subseteq Sessions
  /\ probing \in Sessions \cup {0} /\ started \subseteq Sessions
  /\ raised \subseteq EscalationIds \cup PaneIds \cup ProposalIds
  /\ accepted \in [EscalationIds -> 0 .. MaxDispatches]

\* However handlers, tool calls, crashes and reconciliation interleave, the
\* queue never holds two entries of one session nor one escalation twice: the
\* invariant EscalationQueue.accept relies on to recognise a protocol
\* violation (queue.py).
OneLivePerSession == UniqueLive(queue)

\* Every queued escalation belongs to a session the registry knows, so
\* dispatch can always resolve the head's socket: a queue entry outliving its
\* record would wedge the FIFO (_on_session_ended).
QueuedSessionKnown == \A s \in SessionsOf(queue) : Known(s)

\* While the master serves, the developer is looking at the head of the
\* queue and at nothing else: every handler that removes the head announces
\* the next one before it yields (_surface_head).
HeadAnnounced == phase = "up" => surfaced = HeadId(queue)

\* A decision marked in flight never belongs to an escalation waiting behind
\* the head: it is the head's or that of an escalation already gone.
InflightNeverWaits == inflight \in IdsOf(queue) => inflight = HeadId(queue)

\* The queue is a strict FIFO across every step of the master: entries that
\* stay keep their order, and what is new goes behind everything old.
Before(q, a, b) == \E i, j \in DOMAIN q : i < j /\ q[i] = a /\ q[j] = b
StrictFifo ==
  [][\A i, j \in DOMAIN queue' :
       i < j /\ queue'[j].id \in IdsOf(queue)
         => queue'[i].id \in IdsOf(queue) /\ Before(queue, queue'[i], queue'[j])]_queue

\* An escalation shown to the developer stays the one shown until it has
\* left the queue: nothing overtakes it on the screen.
ShownUntilGone ==
  [][(phase' = "up" /\ surfaced # None /\ surfaced' # surfaced)
       => surfaced \notin IdsOf(queue')]_vars

-----------------------------------------------------------------------------
(* What the source says that the master does not keep.                     *)

\* An open pane escalation belongs to a known session, or to one whose
\* end-of-session handler is about to clear it.  A crash while that handler
\* waits for the notifier leaves the prompt in the store for good.
PaneSessionKnown == \A p \in panes : Known(p.session) \/ p.session \in tails

\* _inflight names only a decision not yet confirmed; the confirmation may be
\* handled before dispatch resumes with the ACK.
InflightIsUnconfirmed == inflight # None => inflight \in IdsOf(queue)

\* allocate_name never hands out the name of a session that was started; the
\* counter is saved only once the broker process exists.
NameNeverReused ==
  [][tool.op = "idle" /\ tool'.op = "spawn" => tool'.session \notin started]_vars

\* A replacement broker starts with no live entry of its session queued, which
\* would refuse its first raise; reassign keeps the old broker's entry.
ReplacementMayRaise ==
  [][tool.op = "respawn" /\ tool.session \in started' /\ registry'[tool.session] = "spawning"
       => tool.session \notin SessionsOf(queue')]_vars

\* An absorbing state is left only by reassign, attach and reactivate (or by
\* removal); escalations, retractions, proposals and probes leave it too.
SettledLeftByMaster ==
  [][\A s \in Sessions :
       registry[s] \in ABSORBING /\ registry'[s] \notin ABSORBING \cup {"absent"}
         => tool.op \in {"respawn", "resume", "reactivate"}]_vars

\* No proposal is pending for a session that settled: _discard_proposals drops
\* them.  Repopulation registers one right after recording a settled state.
SettledHasNoProposal == \A p \in proposals : registry[p.session] \notin ABSORBING

\* Startup probes every surviving broker: one at a time, until none is left.
\* A session that ends meanwhile makes the loop fail for those after it.
EverySurvivorProbed ==
  [][phase = "up" /\ phase' = "up" => \E s \in Sessions : todo \ todo' \subseteq {s}]_vars
=============================================================================

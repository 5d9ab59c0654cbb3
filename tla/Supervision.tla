----------------------------- MODULE Supervision -----------------------------
(***************************************************************************)
(* Decision escalations end to end: the session brokers                    *)
(* (src/broker/session/broker.py) and the master that queues their         *)
(* escalations, shows them and dispatches the developer's decisions        *)
(* (src/broker/master/runtime.py), over the request/response socket calls  *)
(* between them (src/broker/protocol/client.py and server.py).             *)
(*                                                                         *)
(* A broker's main task makes one call at a time and waits for the reply.  *)
(* It gives up after MASTER_TIMEOUT_S, but the request it sent is still    *)
(* handled, before the next one it sends (an assumption: they come on      *)
(* connections of their own).  The master answers a call only after the    *)
(* notification it caused was shown, which may take as long.  It keeps its *)
(* queue on disk and nothing else: a crash loses requests, replies and the *)
(* in-flight mark.                                                         *)
(*                                                                         *)
(* Of a broker only its main task is here and of that only what raises,    *)
(* answers or ends an escalation; SessionBroker has the rest, hook         *)
(* handlers that raise included.                                           *)
(***************************************************************************)
EXTENDS EscalationQueue

CONSTANTS
  Sessions,
  MaxIds,      \* bound on escalations raised, ids 1 .. MaxIds
  MaxJobs,     \* bound on a broker's queue when something appends to it
  MaxFaults,   \* bound on how often something goes wrong
  Faults       \* what may go wrong: "slow", a call outlives its timeout; "pane",
               \* the pane refuses or fails a submission; "crash", of the master;
               \* "late_ack", dispatch reads a broker's ACK after the master handled
               \* what that broker sent next

ASSUME SupervisionAssumption ==
  /\ MaxIds \in Nat /\ MaxJobs \in Nat /\ MaxFaults \in Nat
  /\ 0 \notin Sessions

Ids  == 1 .. MaxIds
None == 0

VARIABLES
  state,    \* of each broker: "driving", "escalated" or "error"
  live,     \* _active_escalation, None for none
  task,     \* [op, id]: the await the main task is in; "idle" in queue.get
  jobs,     \* the broker's queue: [op, id]
  answered, \* the developer typed in the pane since the escalation was raised
  wire,     \* requests sent to the master and not handled, in order: [op, id]
  waiting,  \* the main task's call: "no", "request" (not handled yet),
            \*   "notifying", "acked", "refused" or "failed"
  up,       \* the master runs
  queue,    \* the master's escalation queue, on disk
  surfaced, \* _surfaced_id
  inflight, \* _inflight
  dispatch, \* [id, session, at]: the dispatch under way, "sent" or "taken"
  faults,   \* how often something went wrong
  raiser,   \* history: who raised each escalation, None before
  chosen,   \* history: escalations a decision was dispatched for
  entered   \* history: how often an escalation's decision was typed in a pane

brokerVars  == <<state, live, task, jobs, answered>>
callVars    == <<wire, waiting>>
masterVars  == <<up, queue, surfaced, inflight, dispatch>>
historyVars == <<raiser, chosen, entered>>
vars == <<brokerVars, callVars, masterVars, faults, historyVars>>

Msg(op, id) == [op |-> op, id |-> id]
Idle        == Msg("idle", None)
Contacts == {"typed_contact", "answered_contact", "prompt_contact"}
Retracts == {"retract", "supersede"}
Calls    == {"escalation", "delivered", "undelivered_gone", "undelivered_live",
             "prompt_undelivered", "fatal_error"} \cup Contacts \cup Retracts
NotDispatching == [id |-> None, session |-> None, at |-> "none"]

Init ==
  /\ state = [s \in Sessions |-> "driving"] /\ live = [s \in Sessions |-> None]
  /\ task = [s \in Sessions |-> Idle] /\ jobs = [s \in Sessions |-> << >>]
  /\ answered = [s \in Sessions |-> FALSE]
  /\ wire = [s \in Sessions |-> << >>] /\ waiting = [s \in Sessions |-> "no"]
  /\ up = TRUE /\ queue = << >> /\ surfaced = None /\ inflight = None
  /\ dispatch = NotDispatching /\ faults = 0
  /\ raiser = [e \in Ids |-> None] /\ chosen = {}
  /\ entered = [s \in Sessions |-> [e \in Ids |-> 0]]

-----------------------------------------------------------------------------
(* The broker's main task.                                                 *)

\* Something goes wrong once more.
Fault(kind) == kind \in Faults /\ faults < MaxFaults /\ faults' = faults + 1

\* _to_master: the request is on its way and its reply awaited; with no master
\* to connect to the call fails.
Call(s, op, id) ==
  /\ task' = [task EXCEPT ![s] = Msg(op, id)]
  /\ wire' = IF up THEN [wire EXCEPT ![s] = Append(@, Msg(op, id))] ELSE wire
  /\ waiting' = [waiting EXCEPT ![s] = IF up THEN "request" ELSE "failed"]

\* _event_loop takes the next job.
Takes(s, op) ==
  /\ task[s] = Idle /\ jobs[s] # << >> /\ jobs[s][1].op = op
  /\ jobs' = [jobs EXCEPT ![s] = Tail(@)]

\* The job ends without a call.
JobEnds(s) == task' = [task EXCEPT ![s] = Idle]

\* _fatal: ERROR, then a report whose failure is swallowed.  The escalation is
\* left as it is.
Fatal(s) ==
  /\ state' = [state EXCEPT ![s] = "error"] /\ Call(s, "fatal_error", None)

\* _end_active_escalation.
EndActiveEscalation(s) == live' = [live EXCEPT ![s] = None]

\* _retract_decision, up to its call.
RetractDecision(s, why) ==
  /\ EndActiveEscalation(s) /\ state' = [state EXCEPT ![s] = "driving"]
  /\ Call(s, why, live[s])

\* A queued turn end with nothing to do: escalated and unanswered, or failed.
TurnEndQuiet(s) ==
  /\ Takes(s, "turn_end")
  /\ \/ state[s] = "escalated" /\ ~ (live[s] # None /\ answered[s])
     \/ state[s] = "error"
  /\ UNCHANGED <<state, live, task, answered, callVars, masterVars, faults, historyVars>>

\* _check_out_of_band_resolution finds a prompt the developer typed.
TurnEndAnswered(s) ==
  /\ Takes(s, "turn_end") /\ state[s] = "escalated" /\ live[s] # None /\ answered[s]
  /\ RetractDecision(s, "retract")
  /\ UNCHANGED <<answered, masterVars, faults, historyVars>>

\* _raise_escalation, up to its call, with a fresh id.
RaiseEscalation(s, e) ==
  /\ live' = [live EXCEPT ![s] = e] /\ answered' = [answered EXCEPT ![s] = FALSE]
  /\ raiser' = [raiser EXCEPT ![e] = s] /\ state' = [state EXCEPT ![s] = "escalated"]
  /\ Call(s, "escalation", e)

\* _classify while driving: triage answers the session, or raises.
Fresh == {e \in Ids : raiser[e] = None /\ \A x \in 1 .. (e - 1) : raiser[x] # None}
Classify(s) ==
  \/ JobEnds(s) /\ UNCHANGED <<state, live, answered, callVars, raiser>>
  \/ \E e \in Fresh : RaiseEscalation(s, e)
TurnEndClassified(s) ==
  /\ Takes(s, "turn_end") /\ state[s] = "driving" /\ Classify(s)
  /\ UNCHANGED <<masterVars, faults, chosen, entered>>

\* Mutant of Stale: any live escalation takes the decision.
StaleIfNone(s, id) == live[s] = None

\* _deliver_decision: the decision is for an escalation that is over.
Stale(s, id) == live[s] # id

DeliverStale(s) ==
  /\ Takes(s, "deliver") /\ Stale(s, jobs[s][1].id)
  /\ Call(s, "undelivered_gone", jobs[s][1].id)
  /\ UNCHANGED <<state, live, answered, masterVars, faults, historyVars>>

\* _deliver_decision: the decision is being typed.
DeliverTyping(s) ==
  /\ Takes(s, "deliver") /\ ~ Stale(s, jobs[s][1].id)
  /\ task' = [task EXCEPT ![s] = Msg("typing", jobs[s][1].id)]
  /\ UNCHANGED <<state, live, answered, callVars, masterVars, faults, historyVars>>

\* The submission returns: the escalation is over, the budget is reset and
\* reported, and only then is the delivery confirmed (DeliveryConfirmed).
Typed(s) ==
  /\ task[s].op = "typing"
  /\ entered' = [entered EXCEPT ![s][task[s].id] = @ + 1]
  /\ EndActiveEscalation(s)
  /\ Call(s, "typed_contact", task[s].id)
  /\ UNCHANGED <<state, jobs, answered, masterVars, faults, raiser, chosen>>

\* The submission fails: the escalation stays, to be decided again.  What a
\* failed submission may have written is not modelled.
TypingFails(s) ==
  /\ task[s].op = "typing" /\ Fault("pane")
  /\ Call(s, "undelivered_live", task[s].id)
  /\ UNCHANGED <<state, live, jobs, answered, masterVars, historyVars>>

\* _send_developer_prompt: typed, it supersedes the escalation, if any.
PromptTyped(s) ==
  /\ Takes(s, "prompt")
  /\ IF live[s] # None THEN RetractDecision(s, "supersede")
     ELSE /\ state' = [state EXCEPT ![s] = "driving"] /\ Call(s, "prompt_contact", None)
          /\ UNCHANGED live
  /\ UNCHANGED <<answered, masterVars, faults, historyVars>>

\* A pane a native prompt occupies is reported; any other failure is fatal.
PromptFails(s) ==
  /\ Takes(s, "prompt") /\ Fault("pane")
  /\ \/ Call(s, "prompt_undelivered", None) /\ UNCHANGED state
     \/ Fatal(s)
  /\ UNCHANGED <<live, answered, masterVars, historyVars>>

\* What the main task does when its call was acknowledged.  A retracted
\* escalation's turn end is classified after all.
Acked(s) == waiting[s] = "acked"
DeliveryConfirmed(s) ==
  /\ Acked(s) /\ task[s].op = "typed_contact"
  /\ state' = [state EXCEPT ![s] = "driving"] /\ Call(s, "delivered", task[s].id)
  /\ UNCHANGED <<live, jobs, answered, masterVars, faults, historyVars>>
RetractAcked(s) ==
  /\ Acked(s) /\ task[s].op \in Retracts
  /\ Call(s, IF task[s].op = "retract" THEN "answered_contact" ELSE "prompt_contact", None)
  /\ UNCHANGED <<state, live, jobs, answered, masterVars, faults, historyVars>>
AnsweredClassified(s) ==
  /\ Acked(s) /\ task[s].op = "answered_contact"
  /\ \/ /\ JobEnds(s) /\ waiting' = [waiting EXCEPT ![s] = "no"]
        /\ UNCHANGED <<state, live, answered, wire, raiser>>
     \/ \E e \in Fresh : RaiseEscalation(s, e)
  /\ UNCHANGED <<jobs, masterVars, faults, chosen, entered>>
CallEnds(s) ==
  /\ \/ Acked(s) /\ task[s].op \notin Retracts \cup {"typed_contact", "answered_contact"}
     \/ waiting[s] \in {"refused", "failed"} /\ task[s].op = "fatal_error"
  /\ JobEnds(s) /\ waiting' = [waiting EXCEPT ![s] = "no"]
  /\ UNCHANGED <<state, live, jobs, answered, wire, masterVars, faults, historyVars>>

\* MasterRefusedError, ConnectionError or TimeoutError leaves the job.
CallFails(s) ==
  /\ waiting[s] \in {"refused", "failed"} /\ task[s].op # "fatal_error" /\ Fatal(s)
  /\ UNCHANGED <<live, jobs, answered, masterVars, faults, historyVars>>

\* asyncio.timeout(MASTER_TIMEOUT_S) expires: the request stays where it is.
GiveUp(s) ==
  /\ waiting[s] \in {"request", "notifying"} /\ Fault("slow")
  /\ waiting' = [waiting EXCEPT ![s] = "failed"]
  /\ UNCHANGED <<brokerVars, wire, masterVars, historyVars>>

-----------------------------------------------------------------------------
(* The session and the developer.                                          *)

Enqueue(s, op, id) == jobs' = [jobs EXCEPT ![s] = Append(@, Msg(op, id))]
Queued(s, op)      == \E i \in DOMAIN jobs[s] : jobs[s][i].op = op

\* The Stop hook; the turn may have been one the developer typed.
TurnEnds(s) ==
  /\ ~ Queued(s, "turn_end") /\ Len(jobs[s]) < MaxJobs
  /\ Enqueue(s, "turn_end", None)
  /\ \/ UNCHANGED answered
     \/ live[s] # None /\ answered' = [answered EXCEPT ![s] = TRUE]
  /\ UNCHANGED <<state, live, task, callVars, masterVars, faults, historyVars>>

\* send_prompt of the master, handled by the broker.
SendPrompt(s) ==
  /\ up /\ ~ Queued(s, "prompt") /\ Len(jobs[s]) < MaxJobs
  /\ Enqueue(s, "prompt", None)
  /\ UNCHANGED <<state, live, task, answered, callVars, masterVars, faults, historyVars>>

-----------------------------------------------------------------------------
(* The master.                                                             *)

\* Mutants of AfterMessage: a failed broker's entry stays; a stale one stays.
AfterMessageFailed(s, m) ==
  CASE m.op = "escalation" /\ CanAccept(queue, [id |-> m.id, session |-> s]) ->
         Accept(queue, [id |-> m.id, session |-> s])
    [] m.op \in Retracts \cup {"undelivered_gone"} -> Retract(queue, m.id)
    [] m.op = "delivered" -> Resolve(queue, m.id)
    [] OTHER -> queue
AfterMessageStale(s, m) ==
  CASE m.op = "escalation" /\ CanAccept(queue, [id |-> m.id, session |-> s]) ->
         Accept(queue, [id |-> m.id, session |-> s])
    [] m.op \in Retracts -> Retract(queue, m.id)
    [] m.op = "delivered" -> Resolve(queue, m.id)
    [] m.op = "fatal_error" -> RetractForSession(queue, s)
    [] OTHER -> queue

\* The queue after message m of session s.
AfterMessage(s, m) ==
  CASE m.op = "escalation" /\ CanAccept(queue, [id |-> m.id, session |-> s]) ->
         Accept(queue, [id |-> m.id, session |-> s])
    [] m.op \in Retracts \cup {"undelivered_gone"} -> Retract(queue, m.id)
    [] m.op = "delivered"   -> Resolve(queue, m.id)
    [] m.op = "fatal_error" -> RetractForSession(queue, s)
    [] OTHER -> queue

\* Mutant of ClearedInflight: a decision that missed the pane stays in flight.
ClearedIfDelivered(s, m) == m.op = "delivered" /\ inflight = m.id

\* The message's own escalation is no longer in flight; a fatal broker's too.
ClearedInflight(s, m) ==
  \/ m.op \in Retracts \cup {"delivered", "undelivered_gone", "undelivered_live"}
       /\ inflight = m.id
  \/ m.op = "fatal_error" /\ s \in SessionsOf(queue)
       /\ inflight = queue[FirstOfSession(queue, s)].id

\* _surface_head: the head is the escalation shown.
Surface(q) == IF q = << >> THEN None ELSE q[1].id

\* One request handled.  The reply waits for the notifier when a new head was
\* shown, and always when the broker failed; it reaches the caller only if he
\* still waits.  Unless "late_ack", dispatch reads its ACK first.
HandleMessage(s) ==
  LET m == wire[s][1]
      q == AfterMessage(s, m)
      refused  == m.op = "escalation" /\ ~ CanAccept(queue, [id |-> m.id, session |-> s])
      notifies == m.op = "fatal_error" \/ (Surface(q) # None /\ Surface(q) # surfaced)
      awaited  == Len(wire[s]) = 1 /\ waiting[s] = "request"
  IN /\ up /\ wire[s] # << >>
     /\ "late_ack" \in Faults \/ dispatch.at # "taken" \/ dispatch.session # s
     /\ wire' = [wire EXCEPT ![s] = Tail(@)]
     /\ queue' = q
     /\ surfaced' = Surface(q)
     /\ inflight' = IF ClearedInflight(s, m) THEN None ELSE inflight
     /\ waiting' = IF ~ awaited THEN waiting
                   ELSE [waiting EXCEPT ![s] = IF refused THEN "refused"
                                               ELSE IF notifies THEN "notifying"
                                               ELSE "acked"]
     /\ UNCHANGED <<brokerVars, up, dispatch, faults, historyVars>>

\* The notification was shown and the handler replies.
Notified(s) ==
  /\ up /\ waiting[s] = "notifying"
  /\ waiting' = [waiting EXCEPT ![s] = "acked"]
  /\ UNCHANGED <<brokerVars, wire, masterVars, faults, historyVars>>

\* dispatch: the developer decides what is shown; nothing else is in flight.
DispatchStart(id) ==
  /\ up /\ dispatch = NotDispatching /\ IsHead(queue, id) /\ inflight = None
  /\ dispatch' = [id |-> id, session |-> queue[1].session, at |-> "sent"]
  /\ chosen' = chosen \cup {id}
  /\ UNCHANGED <<brokerVars, callVars, up, queue, surfaced, inflight, faults,
                 raiser, entered>>

\* The broker's handler queues the decision and acknowledges it.
DispatchTaken ==
  LET s == dispatch.session
  IN /\ up /\ dispatch.at = "sent" /\ Len(jobs[s]) < MaxJobs
     /\ Enqueue(s, "deliver", dispatch.id)
     /\ dispatch' = [dispatch EXCEPT !.at = "taken"]
     /\ UNCHANGED <<state, live, task, answered, callVars, up, queue, surfaced, inflight,
                    faults, historyVars>>

\* dispatch resumes with the ACK and only now marks the decision in flight.
DispatchAcked ==
  /\ up /\ dispatch.at = "taken"
  /\ inflight' = dispatch.id /\ dispatch' = NotDispatching
  /\ UNCHANGED <<brokerVars, callVars, up, queue, surfaced, faults, historyVars>>

\* REQUEST_TIMEOUT_S expires; the decision may have been taken.
DispatchFails ==
  /\ up /\ dispatch # NotDispatching /\ Fault("slow")
  /\ dispatch' = NotDispatching
  /\ UNCHANGED <<brokerVars, callVars, up, queue, surfaced, inflight, historyVars>>

\* The master dies: every open connection closes.
Crash ==
  /\ up /\ Fault("crash")
  /\ up' = FALSE /\ dispatch' = NotDispatching
  /\ wire' = [s \in Sessions |-> << >>]
  /\ waiting' = [s \in Sessions |->
                   IF waiting[s] \in {"request", "notifying"} THEN "failed" ELSE waiting[s]]
  /\ UNCHANGED <<brokerVars, queue, surfaced, inflight, historyVars>>

\* A new master loads the queue and shows its head again.
Restart ==
  /\ ~ up /\ up' = TRUE
  /\ surfaced' = Surface(queue) /\ inflight' = None
  /\ UNCHANGED <<brokerVars, callVars, queue, dispatch, faults, historyVars>>

-----------------------------------------------------------------------------
MainTask(s) ==
  \/ TurnEndQuiet(s) \/ TurnEndAnswered(s) \/ TurnEndClassified(s)
  \/ DeliverStale(s) \/ DeliverTyping(s) \/ Typed(s) \/ TypingFails(s)
  \/ PromptTyped(s) \/ PromptFails(s)
  \/ DeliveryConfirmed(s) \/ RetractAcked(s) \/ AnsweredClassified(s)
  \/ CallEnds(s) \/ CallFails(s)

Next ==
  \/ \E s \in Sessions : MainTask(s) \/ GiveUp(s) \/ TurnEnds(s) \/ SendPrompt(s)
  \/ \E s \in Sessions : HandleMessage(s) \/ Notified(s)
  \/ \E id \in Ids : DispatchStart(id)
  \/ DispatchTaken \/ DispatchAcked \/ DispatchFails \/ Crash \/ Restart

\* Both loops run, the notifier returns, a crashed master is started again, a
\* decision that can be submitted again and again is typed in the end, a
\* dispatch tried again and again is taken in the end, and the developer
\* decides what stays shown to him.
Fairness ==
  /\ \A s \in Sessions : /\ WF_vars(MainTask(s)) /\ SF_vars(Typed(s))
                         /\ WF_vars(HandleMessage(s)) /\ WF_vars(Notified(s))
  /\ WF_vars(DispatchAcked) /\ SF_vars(DispatchTaken) /\ WF_vars(Restart)
  /\ \A id \in Ids : SF_vars(DispatchStart(id))

Spec     == Init /\ [][Next]_vars
FairSpec == Spec /\ Fairness

-----------------------------------------------------------------------------
(* Properties.                                                             *)

Entry    == [id : Ids, session : Sessions]
JobType  == [op : {"turn_end", "deliver", "prompt"}, id : Ids \cup {None}]
MsgType  == {m \in [op : Calls, id : Ids \cup {None}] : m.op = "escalation" => m.id # None}
TaskType == [op : Calls \cup {"idle", "typing"}, id : Ids \cup {None}]
Waits    == {"no", "request", "notifying", "acked", "refused", "failed"}
Dispatch == [id : Ids, session : Sessions, at : {"sent", "taken"}]

\* Types.
TypeOK ==
  /\ state \in [Sessions -> {"driving", "escalated", "error"}]
  /\ live \in [Sessions -> Ids \cup {None}]
  /\ task \in [Sessions -> TaskType] /\ jobs \in [Sessions -> Seq(JobType)]
  /\ answered \in [Sessions -> BOOLEAN]
  /\ wire \in [Sessions -> Seq(MsgType)] /\ waiting \in [Sessions -> Waits]
  /\ up \in BOOLEAN /\ queue \in Seq(Entry)
  /\ surfaced \in Ids \cup {None} /\ inflight \in Ids \cup {None}
  /\ dispatch \in {NotDispatching} \cup Dispatch /\ faults \in Nat
  /\ raiser \in [Ids -> Sessions \cup {None}] /\ chosen \subseteq Ids
  /\ entered \in [Sessions -> [Ids -> Nat]]

\* The life of an escalation as the broker that raised it keeps it.
Phase(e) ==
  IF raiser[e] = None THEN "new" ELSE IF live[raiser[e]] = e THEN "open" ELSE "over"

Life == INSTANCE EscalationLife WITH phase <- [e \in Ids |-> Phase(e)], Nobody <- None

\* Whatever is lost, late or repeated on the way, a decision is typed into the
\* pane of the session that asked, once at most and only while the escalation
\* is active there; and no session has two (_deliver_decision's id check, the
\* only one made at the time of the write).
ImplementsLife == Life!LifeSpec

\* The master never refuses an escalation: when a broker raises one, nothing
\* of an earlier one is left in the queue, however the earlier one ended
\* (NACK_PROTOCOL_VIOLATION would be fatal to the session).
NeverRefused == \A s \in Sessions : waiting[s] # "refused"

\* A decision reaches the pane only while the developer is still shown the
\* escalation ("A stale dispatch is the worst failure this system can produce").
TypedWhileShown ==
  [][\A s \in Sessions : Typed(s) => task[s].id \in IdsOf(queue)]_vars

\* A session that waits for a decision gets one or moves on, or is reported
\* failed: no escalation is lost on its way and no queue entry blocks another.
EscalationsSettle ==
  \A s \in Sessions, e \in Ids :
    live[s] = e ~> (live[s] # e \/ state[s] = "error")

\* An entry whose broker has moved past it does not stay before the developer:
\* retracted, confirmed or, when that message was lost, found stale.
Moot(e) == e \in IdsOf(queue) /\ live[raiser[e]] # e
MootEntriesLeave == \A e \in Ids : Moot(e) ~> e \notin IdsOf(queue)
=============================================================================

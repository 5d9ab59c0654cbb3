---------------------------- MODULE SessionBroker ----------------------------
(***************************************************************************)
(* One session broker (src/broker/session/broker.py) driving one Claude    *)
(* Code session for the master.                                            *)
(*                                                                         *)
(* One asyncio loop runs a main task and the socket handlers.  The main    *)
(* task launches the session and then runs queued jobs one at a time;      *)
(* `agenda' is what is left of the job it runs, a sequence of steps whose  *)
(* first is being awaited or is about to run: a message to the master, an  *)
(* LLM call, a pane write, or the code up to the next await.  Handlers and *)
(* hooks are one action each (two when they await the LLM) and come        *)
(* between any two steps; what they leave to the main task they append to  *)
(* `jobs'.                                                                 *)
(*                                                                         *)
(* The master is reduced to what it holds of this session (held,           *)
(* heldQuestions, told), which only this broker's messages change, and the *)
(* session to its turn, its transcript and the picker on its screen.       *)
(* Transcript writes are taken to precede the hook that follows them.      *)
(***************************************************************************)
EXTENDS Integers, Sequences, FiniteSets, Protocol

CONSTANTS
  Launches,  \* ways the broker may start; a subset of LaunchKinds
  Hooks,     \* what the session may do or report
  Requests,  \* what the master may ask
  Failures,  \* what may fail: "llm", "pane", "master", "hook", "transcript", and
             \* "injection": an injected answer not recorded in time
  MaxTools,  \* bound on AskUserQuestion calls: 1 .. MaxTools
  MaxIds,    \* bound on escalations raised: 1 .. MaxIds
  MaxJobs,   \* bound on the queue when a handler appends to it
  BudgetMax  \* cfg.budget_max

LaunchKinds == {"fresh", "adopted", "resumed", "resumed_completed"}

ASSUME BrokerAssumption ==
  /\ Launches \subseteq LaunchKinds
  /\ MaxTools \in Nat /\ MaxIds \in Nat /\ MaxJobs \in Nat /\ BudgetMax \in Nat

Tools == 1 .. MaxTools
Ids   == 1 .. MaxIds

VARIABLES
  life,          \* "launching", "serving" (in _event_loop) or "exited"
  shutdown,      \* _shutdown
  state,         \* state: SessionState
  agenda,        \* the rest of what the main task is doing
  jobs,          \* queue: the jobs waiting for the main task
  bound,         \* session_bound
  pending,       \* _pending: "none", "open", or "approved" (future resolved)
  active,        \* _active_escalation, 0 for none
  baselined,     \* _user_prompt_baseline is a count, not -1
  budget,        \* budget_count
  menu,          \* _open_menu: [tool, id, injected], NoMenu for none
  permPrompt,    \* _permission_prompt_pending
  decided,       \* _ask_decisions
  deciding,      \* question handlers inside the LLM call, per tool use
  expected,      \* _ask_expected: injected answers not verified yet
  clarifying,    \* escalations of the clarifications inside the LLM call
  turn,          \* the session: "idle" or "working"
  submitted,     \* a prompt was entered, its UserPromptSubmit not yet sent
  unread,        \* the transcript grew since the last classification
  sinceRead,     \* a prompt was entered since that classification's read,
  sinceBaseline, \*   and since the read the baseline was counted on
  recorded,      \* answer in the transcript: "no", "same" as injected, "other"
  picker,        \* the AskUserQuestion menu on screen, 0 for none
  ended,         \* the session is over
  held,          \* the master's decision escalations of this session
  heldQuestions, \* the master's question escalations of this session
  told,          \* the budget the master was last told
  nextId,        \* history: the next fresh escalation id
  typed,         \* history: decisions typed for each escalation
  replies        \* history: the different replies each tool use got

mainVars    == <<life, shutdown, state, agenda>>
escVars     == <<active, baselined, sinceBaseline>>
askVars     == <<decided, deciding, expected, replies>>
sessionVars == <<turn, submitted, unread, sinceRead>>
screenVars  == <<recorded, picker, ended>>
masterVars  == <<held, heldQuestions, told>>
vars == <<mainVars, jobs, bound, pending, escVars, budget, menu, permPrompt, askVars,
          clarifying, sessionVars, screenVars, masterVars, nextId, typed>>

Step(op, arg) == [op |-> op, arg |-> arg]
NoMenu        == [tool |-> 0, id |-> 0, injected |-> FALSE]
Max2(a, b)    == IF a > b THEN a ELSE b

Messages ==
  {"escalation", "escalation_retract", "pane_escalation", "pane_retract", "completion",
   "prompt_proposal", "budget_update", "decision_delivered", "undelivered_gone",
   "undelivered_live", "prompt_undelivered", "fatal_error", "session_ended"}
Typings == {"type_opening", "type_answer", "type_decision", "type_prompt"}
JobOps ==
  {"turn_end", "reconcile", "menu_answered", "out_of_band", "deliver", "reactivate",
   "send_prompt", "verify_missing", "verify_recorded", "fatal", "session_end",
   "budget_update", "pane_escalation", "pane_retract"}
Ops == Messages \cup Typings \cup JobOps
         \cup {"bind", "ground", "grounding", "approval", "serve", "classify", "recover",
               "triage", "complete", "contact", "drive", "drive_contact", "exit"}

\* What _launch has to do, and how it leaves the state.
LaunchAgenda(k) ==
  CASE k = "fresh"   -> <<Step("bind", 0), Step("ground", 0), Step("serve", 0)>>
    [] k = "adopted" -> <<Step("ground", 0), Step("serve", 0)>>
    [] OTHER         -> <<Step("serve", 0)>>
LaunchState(k) ==
  CASE k = "resumed" -> "driving" [] k = "resumed_completed" -> "completed"
    [] OTHER -> "spawning"

Init ==
  /\ \E k \in Launches :
       /\ agenda = LaunchAgenda(k) /\ state = LaunchState(k)
       /\ bound = (k # "fresh") /\ unread = (k # "fresh")
  /\ life = "launching" /\ shutdown = FALSE /\ jobs = << >> /\ pending = "none"
  /\ active = 0 /\ baselined = FALSE /\ budget = 0 /\ menu = NoMenu
  /\ permPrompt = FALSE
  /\ decided = [t \in Tools |-> "none"] /\ deciding = [t \in Tools |-> 0]
  /\ expected = {} /\ clarifying = {}
  /\ turn = "idle" /\ submitted = FALSE
  /\ sinceRead = FALSE /\ sinceBaseline = FALSE
  /\ recorded = [t \in Tools |-> "no"] /\ picker = 0 /\ ended = FALSE
  /\ held = {} /\ heldQuestions = {} /\ told = 0
  /\ nextId = 1 /\ typed = [e \in Ids |-> 0] /\ replies = [t \in Tools |-> {}]

-----------------------------------------------------------------------------
(* The main task: shared pieces.                                           *)

Live     == life # "exited"
At(op)   == Live /\ agenda # << >> /\ agenda[1].op = op
Arg      == agenda[1].arg
Rest     == Tail(agenda)
Occupied == menu # NoMenu \/ permPrompt        \* _native_prompt
CanRaise == nextId <= MaxIds

\* An exception leaves the job (or ends _launch, and then the process): state
\* ERROR and a best-effort report.
Fatal ==
  /\ state' = "error"
  /\ agenda' = IF life = "launching" THEN <<Step("fatal_error", 0), Step("exit", 0)>>
               ELSE <<Step("fatal_error", 0)>>

\* Mutants of EndActive: the clarifications run on; the escalation stays.
ClarificationsRunOn == active' = 0 /\ UNCHANGED clarifying
EscalationStays     == UNCHANGED active /\ clarifying' = {}

\* _end_active_escalation: clarifications bound to the escalation are cancelled.
EndActive == active' = 0 /\ clarifying' = {}

\* _raise_escalation, up to the wait for the master.
Raise(counted) ==
  /\ CanRaise
  /\ active' = nextId /\ nextId' = nextId + 1
  /\ baselined' = counted /\ sinceBaseline' = (counted /\ sinceRead)
  /\ state' = "escalated"
  /\ agenda' = <<Step("escalation", nextId)>>

\* The text is in the pane: a user prompt of the transcript, a new turn.
TextEntered ==
  /\ turn' = "working" /\ submitted' = TRUE /\ unread' = TRUE /\ sinceRead' = TRUE

-----------------------------------------------------------------------------
(* The main task: launch and event loop.                                   *)

\* _start_session returns on the SessionStart hook, or fails or times out.
Bind ==
  /\ At("bind")
  /\ \/ bound /\ agenda' = Rest /\ UNCHANGED state
     \/ Fatal
  /\ UNCHANGED <<life, shutdown, jobs, bound, pending, escVars, budget, menu, permPrompt,
                 askVars, clarifying, sessionVars, screenVars, masterVars, nextId, typed>>

\* _ground_and_submit, up to the grounding call.
Ground ==
  /\ At("ground")
  /\ state' = "grounding"
  /\ agenda' = <<Step("grounding", 0)>> \o Rest
  /\ UNCHANGED <<life, shutdown, jobs, bound, pending, escVars, budget, menu, permPrompt,
                 askVars, clarifying, sessionVars, screenVars, masterVars, nextId, typed>>

\* The grounding call returns; the proposal is sent, then approval awaited.
Grounded ==
  /\ At("grounding")
  /\ \/ /\ pending' = "open" /\ state' = "awaiting_approval"
        /\ agenda' = <<Step("prompt_proposal", 0), Step("approval", 0)>> \o Rest
     \/ "llm" \in Failures /\ Fatal /\ UNCHANGED pending
  /\ UNCHANGED <<life, shutdown, jobs, bound, escVars, budget, menu, permPrompt, askVars,
                 clarifying, sessionVars, screenVars, masterVars, nextId, typed>>

\* The approval future is resolved: the prompt is typed, unless a native
\* prompt holds the pane (PaneOccupiedError).
Approved ==
  /\ At("approval") /\ pending = "approved"
  /\ IF Occupied THEN Fatal
     ELSE agenda' = <<Step("type_opening", 0)>> \o Rest /\ UNCHANGED state
  /\ UNCHANGED <<life, shutdown, jobs, bound, pending, escVars, budget, menu, permPrompt,
                 askVars, clarifying, sessionVars, screenVars, masterVars, nextId, typed>>

\* _launch returned: the event loop starts.
Serve ==
  /\ At("serve")
  /\ life' = "serving" /\ agenda' = Rest
  /\ UNCHANGED <<shutdown, state, jobs, bound, pending, escVars, budget, menu, permPrompt,
                 askVars, clarifying, sessionVars, screenVars, masterVars, nextId, typed>>

\* What a job runs, one after the other.
Steps(job) ==
  CASE job.op = "turn_end" ->
         <<Step("menu_answered", 0), Step("out_of_band", 0), Step("classify", 0)>>
    [] job.op = "reconcile" ->
         <<Step("menu_answered", 0), Step("out_of_band", 0), Step("recover", 0)>>
    [] job.op = "session_end" -> <<Step("session_ended", 0), Step("exit", 0)>>
    [] OTHER -> <<job>>

\* _event_loop: the next job, unless shutdown is set.
NextJob ==
  /\ life = "serving" /\ agenda = << >>
  /\ IF shutdown THEN life' = "exited" /\ UNCHANGED <<agenda, jobs>>
     ELSE /\ jobs # << >>
          /\ agenda' = Steps(Head(jobs)) /\ jobs' = Tail(jobs)
          /\ UNCHANGED life
  /\ UNCHANGED <<shutdown, state, bound, pending, escVars, budget, menu, permPrompt,
                 askVars, clarifying, sessionVars, screenVars, masterVars, nextId, typed>>

\* _on_session_end is done, or _launch failed.
Exit ==
  /\ At("exit")
  /\ life' = "exited" /\ agenda' = << >>
  /\ UNCHANGED <<shutdown, state, jobs, bound, pending, escVars, budget, menu, permPrompt,
                 askVars, clarifying, sessionVars, screenVars, masterVars, nextId, typed>>

-----------------------------------------------------------------------------
(* The main task: messages to the master.                                  *)

\* One decision escalation and one question of a session at a time.
Refused(m) ==
  \/ m.op = "escalation" /\ held # {}
  \/ m.op = "pane_escalation" /\ heldQuestions # {}

\* Mutant of DropRefused: the menu keeps the id of a refused question.
KeepRefused(id) == menu

\* _raise_question refused: the claim stays, the escalation is dropped.
DropRefused(id) == IF menu.id = id THEN [menu EXCEPT !.id = 0] ELSE menu

\* What the master does with a message it accepts.
Handled(m) ==
  /\ held' = CASE m.op = "escalation" -> held \cup {m.arg}
               [] m.op \in {"escalation_retract", "decision_delivered", "undelivered_gone"}
                    -> held \ {m.arg}
               [] m.op \in {"fatal_error", "session_ended"} -> {}
               [] OTHER -> held
  /\ heldQuestions' = CASE m.op = "pane_escalation" -> heldQuestions \cup {m.arg}
                        [] m.op = "pane_retract" -> heldQuestions \ {m.arg}
                        [] m.op \in {"fatal_error", "session_ended"} -> {}
                        [] OTHER -> heldQuestions
  /\ told' = IF m.op = "budget_update" THEN m.arg ELSE told

\* _to_master: the reply arrives, or the request fails before ("lost") or
\* after ("unanswered") the master handled it.  Reports of the end are best
\* effort; a refused question is dropped; any other failure is fatal.
ToMaster ==
  /\ Live /\ agenda # << >> /\ agenda[1].op \in Messages
  /\ \E outcome \in {"replied"}
                      \cup (IF "master" \in Failures THEN {"lost", "unanswered"} ELSE {}) :
       LET m       == agenda[1]
           refused == Refused(m)
           ok      == outcome = "replied" /\ ~refused
       IN
       /\ IF outcome = "lost" \/ refused THEN UNCHANGED masterVars ELSE Handled(m)
       /\ IF ok \/ m.op \in {"fatal_error", "session_ended"}
          THEN agenda' = Rest /\ UNCHANGED <<state, menu>>
          ELSE IF m.op = "pane_escalation" /\ outcome = "replied"
          THEN /\ agenda' = Rest /\ UNCHANGED state
               /\ menu' = DropRefused(m.arg)
          ELSE Fatal /\ UNCHANGED menu
  /\ UNCHANGED <<life, shutdown, jobs, bound, pending, escVars, budget, permPrompt, askVars,
                 clarifying, sessionVars, screenVars, nextId, typed>>

-----------------------------------------------------------------------------
(* The main task: jobs.                                                    *)

\* _check_menu_answered: the transcript's answer releases the picker; one the
\* developer gave is developer contact.
MenuAnswered ==
  /\ At("menu_answered")
  /\ IF menu # NoMenu /\ recorded[menu.tool] # "no"
     THEN /\ menu' = NoMenu
          /\ agenda' =
               (IF menu.id = 0 THEN << >>
                ELSE IF menu.injected /\ recorded[menu.tool] = "same"
                THEN <<Step("pane_retract", menu.id)>>
                ELSE <<Step("pane_retract", menu.id), Step("contact", 0)>>) \o Rest
     ELSE agenda' = Rest /\ UNCHANGED menu
  /\ UNCHANGED <<life, shutdown, state, jobs, bound, pending, escVars, budget, permPrompt,
                 askVars, clarifying, sessionVars, screenVars, masterVars, nextId, typed>>

\* _check_out_of_band_resolution and _retract_decision.
OutOfBand ==
  /\ At("out_of_band")
  /\ IF state = "escalated" /\ active # 0 /\ baselined /\ sinceBaseline
     THEN /\ EndActive /\ state' = "driving"
          /\ agenda' = <<Step("escalation_retract", active), Step("contact", 0)>> \o Rest
     ELSE agenda' = Rest /\ UNCHANGED <<state, active, clarifying>>
  /\ UNCHANGED <<life, shutdown, jobs, bound, pending, baselined, sinceBaseline, budget,
                 menu, permPrompt, askVars, sessionVars, screenVars, masterVars, nextId,
                 typed>>

\* _note_developer_contact, up to the report; _send_developer_prompt marks the
\* session driven just before, _deliver_decision just after.
Contact ==
  /\ At("contact") \/ At("drive_contact")
  /\ budget' = 0
  /\ state' = IF At("contact") THEN state ELSE "driving"
  /\ agenda' = <<Step("budget_update", 0)>> \o Rest
  /\ UNCHANGED <<life, shutdown, jobs, bound, pending, escVars, menu, permPrompt, askVars,
                 clarifying, sessionVars, screenVars, masterVars, nextId, typed>>

\* The state set once the master has replied: DRIVING after the budget report
\* of a delivery, COMPLETED after the report of completion.
MarkState ==
  /\ At("drive") \/ At("complete")
  /\ state' = IF At("drive") THEN "driving" ELSE "completed"
  /\ agenda' = Rest
  /\ UNCHANGED <<life, shutdown, jobs, bound, pending, escVars, budget, menu, permPrompt,
                 askVars, clarifying, sessionVars, screenVars, masterVars, nextId, typed>>

\* Mutants of MayClassify: the state is not looked at; the watchdog's job
\* finds nothing to do.
InAnyState == At("classify") \/ (At("recover") /\ unread /\ ~Occupied)
OnlyOnHook == state \in ACTIVE_STATES /\ At("classify")

\* _classify runs only in an active state; _reconcile_job moreover only with
\* no native prompt open and something new in the transcript.
MayClassify ==
  /\ state \in ACTIVE_STATES
  /\ At("classify") \/ (At("recover") /\ unread /\ ~Occupied)

\* _classify / _reconcile_job, up to the triage call.
Classify ==
  /\ At("classify") \/ At("recover")
  /\ IF MayClassify
     THEN /\ state' = "driving"
          /\ unread' = FALSE /\ sinceRead' = FALSE
          /\ agenda' = <<Step("triage", 0)>>
     ELSE agenda' = Rest /\ UNCHANGED <<state, unread, sinceRead>>
  /\ UNCHANGED <<life, shutdown, jobs, bound, pending, escVars, budget, menu, permPrompt,
                 askVars, clarifying, turn, submitted, screenVars, masterVars, nextId, typed>>

\* _classify with the verdict.  An answer beyond the budget is handed over.
Triaged(verdict) ==
  /\ At("triage")
  /\ \/ /\ verdict = "escalate" \/ (verdict = "answer" /\ budget >= BudgetMax)
        /\ Raise(TRUE)
     \/ /\ verdict = "answer" /\ budget < BudgetMax
        /\ IF Occupied THEN Fatal ELSE agenda' = <<Step("type_answer", 0)>> /\ UNCHANGED state
        /\ UNCHANGED <<escVars, nextId>>
     \/ /\ verdict = "complete"
        /\ agenda' = <<Step("completion", 0), Step("complete", 0)>>
        /\ UNCHANGED <<state, escVars, nextId>>
     \/ verdict = "no_action" /\ agenda' = << >> /\ UNCHANGED <<state, escVars, nextId>>
     \/ verdict = "failed" /\ "llm" \in Failures /\ Fatal /\ UNCHANGED <<escVars, nextId>>
  /\ UNCHANGED <<life, shutdown, jobs, bound, pending, budget, menu, permPrompt, askVars,
                 clarifying, sessionVars, screenVars, masterVars, typed>>

\* Mutants of IsActive and ReportGone: every decision is taken to be current;
\* a stale one is dropped silently.
AnyDecision(id)    == TRUE
IgnoreGone(id)     == << >>

\* _deliver_decision, up to the pane write.  A decision for anything but the
\* active escalation is reported gone.
IsActive(id)   == active = id
ReportGone(id) == <<Step("undelivered_gone", id)>>

Deliver ==
  /\ At("deliver")
  /\ agenda' = IF ~IsActive(Arg) THEN ReportGone(Arg)
               ELSE IF Occupied THEN <<Step("undelivered_live", Arg)>>
               ELSE <<Step("type_decision", Arg)>>
  /\ UNCHANGED <<life, shutdown, state, jobs, bound, pending, escVars, budget, menu,
                 permPrompt, askVars, clarifying, sessionVars, screenVars, masterVars,
                 nextId, typed>>

\* _reactivate, up to the budget report; then _ground_and_submit.
Reactivate ==
  /\ At("reactivate")
  /\ EndActive /\ budget' = 0
  /\ agenda' = <<Step("budget_update", 0), Step("ground", 0)>>
  /\ UNCHANGED <<life, shutdown, state, jobs, bound, pending, baselined, sinceBaseline, menu,
                 permPrompt, askVars, sessionVars, screenVars, masterVars, nextId, typed>>

\* _send_developer_prompt, up to the pane write.
SendPrompt ==
  /\ At("send_prompt")
  /\ agenda' = IF Occupied THEN <<Step("prompt_undelivered", 0)>>
               ELSE <<Step("type_prompt", 0)>>
  /\ UNCHANGED <<life, shutdown, state, jobs, bound, pending, escVars, budget, menu,
                 permPrompt, askVars, clarifying, sessionVars, screenVars, masterVars,
                 nextId, typed>>

\* The pane write succeeded: the rest of _ground_and_submit, _classify,
\* _deliver_decision and _send_developer_prompt up to their next await.
Typed ==
  /\ Live /\ agenda # << >> /\ agenda[1].op \in Typings
  /\ TextEntered
  /\ sinceBaseline' = baselined
  /\ \/ /\ At("type_opening")
        /\ pending' = "none" /\ state' = "driving" /\ agenda' = Rest
        /\ UNCHANGED <<active, clarifying, budget, typed>>
     \/ /\ At("type_answer")
        /\ budget' = budget + 1
        /\ agenda' = <<Step("budget_update", budget + 1)>>
        /\ UNCHANGED <<pending, state, active, clarifying, typed>>
     \/ /\ At("type_decision")
        /\ EndActive /\ budget' = 0 /\ typed' = [typed EXCEPT ![Arg] = @ + 1]
        /\ agenda' = <<Step("budget_update", 0), Step("drive", 0),
                       Step("decision_delivered", Arg)>>
        /\ UNCHANGED <<pending, state>>
     \/ /\ At("type_prompt")
        /\ state' = "driving"
        /\ IF active # 0
           THEN /\ EndActive /\ UNCHANGED budget
                /\ agenda' = <<Step("escalation_retract", active), Step("drive_contact", 0)>>
           ELSE /\ budget' = 0 /\ UNCHANGED <<active, clarifying>>
                /\ agenda' = <<Step("budget_update", 0)>>
        /\ UNCHANGED <<pending, typed>>
  /\ UNCHANGED <<life, shutdown, jobs, bound, baselined, menu, permPrompt, askVars,
                 screenVars, masterVars, nextId>>

\* The pane write failed: a decision stays live, anything else is fatal.  Text
\* that reached the pane all the same is a PaneInput.
TypingFails ==
  /\ Live /\ agenda # << >> /\ agenda[1].op \in Typings /\ "pane" \in Failures
  /\ IF At("type_decision")
     THEN agenda' = <<Step("undelivered_live", Arg)>> /\ UNCHANGED state
     ELSE Fatal
  /\ UNCHANGED <<life, shutdown, jobs, bound, pending, escVars, budget, menu, permPrompt,
                 askVars, clarifying, sessionVars, screenVars, masterVars, nextId, typed>>

\* _ask_verify_failed with an answer on record: only a decision resolves it.
VerifyRecorded ==
  /\ At("verify_recorded")
  /\ Raise(FALSE)
  /\ UNCHANGED <<life, shutdown, jobs, bound, pending, budget, menu, permPrompt, askVars,
                 clarifying, sessionVars, screenVars, masterVars, typed>>

\* Mutant of Superseded: a menu without an escalation is withdrawn too.
SupersededAlways == <<Step("pane_retract", menu.id)>>

\* _claim_menu queues the withdrawal of the picker it replaces.
Superseded == IF menu.id = 0 THEN << >> ELSE <<Step("pane_retract", menu.id)>>

\* _ask_verify_failed without one: the picker is claimed, the question raised.
VerifyMissing ==
  /\ At("verify_missing") /\ CanRaise
  /\ menu' = [tool |-> Arg, id |-> nextId, injected |-> TRUE]
  /\ jobs' = jobs \o Superseded
  /\ nextId' = nextId + 1
  /\ agenda' = <<Step("pane_escalation", nextId)>>
  /\ UNCHANGED <<life, shutdown, state, bound, pending, escVars, budget, permPrompt, askVars,
                 clarifying, sessionVars, screenVars, masterVars, typed>>

\* The checks that read the transcript: for the claimed menu's answer, or for prompts
\* typed since the live escalation was raised.
Reads == \/ At("menu_answered") /\ menu # NoMenu
         \/ At("out_of_band") /\ state = "escalated" /\ active # 0 /\ baselined

\* The StopFailure job, or a check that cannot read the transcript.
ReportFatal ==
  /\ At("fatal") \/ ("transcript" \in Failures /\ Reads)
  /\ Fatal
  /\ UNCHANGED <<life, shutdown, jobs, bound, pending, escVars, budget, menu, permPrompt,
                 askVars, clarifying, sessionVars, screenVars, masterVars, nextId, typed>>

-----------------------------------------------------------------------------
(* Requests of the master.                                                 *)

Room == Len(jobs) + 2 <= MaxJobs
Asks(request) == Live /\ request \in Requests

\* T_APPROVE_PROMPT: a stale approval is refused.
OnApprove ==
  /\ Asks("approve") /\ pending = "open"
  /\ pending' = "approved"
  /\ UNCHANGED <<mainVars, jobs, bound, escVars, budget, menu, permPrompt, askVars,
                 clarifying, sessionVars, screenVars, masterVars, nextId, typed>>

\* T_DISPATCH_DECISION: the master answers what it holds, again after a restart.
OnDispatch(id) ==
  /\ Asks("dispatch") /\ id \in held /\ Room
  /\ jobs' = Append(jobs, Step("deliver", id))
  /\ UNCHANGED <<mainVars, bound, pending, escVars, budget, menu, permPrompt, askVars,
                 clarifying, sessionVars, screenVars, masterVars, nextId, typed>>

\* Mutant of Reactivatable: the gate of T_REACTIVATE is missing.
AlwaysReactivatable == TRUE

\* T_REACTIVATE: only a completed session; the state is changed at once.
Reactivatable == state = "completed"

OnReactivate ==
  /\ Asks("reactivate") /\ Reactivatable /\ Room
  /\ state' = "grounding"
  /\ jobs' = Append(jobs, Step("reactivate", 0))
  /\ UNCHANGED <<life, shutdown, agenda, bound, pending, escVars, budget, menu, permPrompt,
                 askVars, clarifying, sessionVars, screenVars, masterVars, nextId, typed>>

\* T_SEND_PROMPT: refused while a native prompt is open.
OnSendPrompt ==
  /\ Asks("send_prompt") /\ ~Occupied /\ Room
  /\ jobs' = Append(jobs, Step("send_prompt", 0))
  /\ UNCHANGED <<mainVars, bound, pending, escVars, budget, menu, permPrompt, askVars,
                 clarifying, sessionVars, screenVars, masterVars, nextId, typed>>

\* T_SHUTDOWN.
OnShutdown ==
  /\ Asks("shutdown")
  /\ shutdown' = TRUE
  /\ UNCHANGED <<life, state, agenda, jobs, bound, pending, escVars, budget, menu,
                 permPrompt, askVars, clarifying, sessionVars, screenVars, masterVars,
                 nextId, typed>>

\* _on_clarify_escalation: liveness is checked, then the LLM asked; the call
\* ends with an answer, a failure, or by EndActive.
OnClarify(id) ==
  /\ Asks("clarify") /\ state = "escalated" /\ active = id /\ id # 0
  /\ clarifying' = clarifying \cup {id}
  /\ UNCHANGED <<mainVars, jobs, bound, pending, escVars, budget, menu, permPrompt, askVars,
                 sessionVars, screenVars, masterVars, nextId, typed>>

Clarified(id) ==
  /\ Live /\ id \in clarifying
  /\ clarifying' = clarifying \ {id}
  /\ UNCHANGED <<mainVars, jobs, bound, pending, escVars, budget, menu, permPrompt, askVars,
                 sessionVars, screenVars, masterVars, nextId, typed>>

-----------------------------------------------------------------------------
(* Questions: AskUserQuestion menus, judged while the hook waits.          *)

Fires(hook) == Live /\ bound /\ ~ended /\ hook \in Hooks

\* The reply releases the hook: cached, and an escalated menu appears.
Reply(t, decision) ==
  /\ decided' = [decided EXCEPT ![t] = decision]
  /\ replies' = [replies EXCEPT ![t] = @ \cup {decision}]
  /\ picker' = IF decision = "escalated" /\ recorded[t] = "no" THEN t ELSE picker

\* Mutant of EscalateMenu: the question is raised but the picker not claimed.
EscalateUnclaimed(t) ==
  /\ CanRaise
  /\ UNCHANGED menu
  /\ jobs' = jobs \o <<Step("pane_escalation", nextId)>>
  /\ nextId' = nextId + 1

\* _escalate_menu: the picker is claimed now, its question raised by a job.
EscalateMenu(t) ==
  /\ CanRaise
  /\ menu' = [tool |-> t, id |-> nextId, injected |-> FALSE]
  /\ jobs' = jobs \o Superseded \o <<Step("pane_escalation", nextId)>>
  /\ nextId' = nextId + 1

\* Question t is asked and has no answer in the transcript: until then the
\* session neither asks another nor ends its turn.
Waits(t) == (deciding[t] > 0 \/ decided[t] # "none") /\ recorded[t] = "no"

\* _on_ask_question up to the LLM call.  The PreToolUse hook of one question
\* may fire twice; a cached reply changes nothing.
OnAsk(t) ==
  /\ Fires("ask") /\ turn = "working" /\ ~submitted
  /\ picker = 0 /\ recorded[t] = "no" /\ decided[t] = "none" /\ deciding[t] < 2
  /\ \A u \in Tools : u # t => ~Waits(u) /\ (u < t => decided[u] # "none")
  /\ Room
  /\ \/ /\ state \notin ACTIVE_STATES
        /\ menu' = [tool |-> t, id |-> 0, injected |-> FALSE]
        /\ jobs' = jobs \o Superseded
        /\ Reply(t, "escalated")
        /\ UNCHANGED <<deciding, nextId>>
     \/ /\ state \in ACTIVE_STATES
        /\ deciding[t] = 0 \/ budget >= BudgetMax   \* unusable input, no budget
        /\ EscalateMenu(t) /\ Reply(t, "escalated")
        /\ UNCHANGED deciding
     \/ /\ state \in ACTIVE_STATES /\ budget < BudgetMax
        /\ deciding' = [deciding EXCEPT ![t] = @ + 1]
        /\ UNCHANGED <<menu, jobs, decided, replies, picker, nextId>>
  /\ UNCHANGED <<mainVars, bound, pending, escVars, budget, permPrompt, expected, clarifying,
                 sessionVars, recorded, ended, masterVars, typed>>

\* _decide_ask after the LLM call: an answer is injected and will be
\* verified, its budget report queued by value; anything else escalates.
AskDecided(t, decision) ==
  /\ Live /\ deciding[t] > 0
  /\ deciding' = [deciding EXCEPT ![t] = @ - 1]
  /\ Reply(t, decision)
  /\ IF decision = "answer"
     THEN /\ expected' = expected \cup {t}
          /\ budget' = budget + 1
          /\ jobs' = Append(jobs, Step("budget_update", budget + 1))
          /\ UNCHANGED <<menu, nextId>>
     ELSE EscalateMenu(t) /\ UNCHANGED <<expected, budget>>
  /\ UNCHANGED <<mainVars, bound, pending, escVars, permPrompt, clarifying, sessionVars,
                 recorded, ended, masterVars, typed>>

\* The session records an answer: the developer's, in the picker; or, for an
\* injected one, what was injected or something else.
AnswerRecorded(t, how) ==
  /\ Fires("ask") /\ recorded[t] = "no" /\ deciding[t] = 0
  /\ \/ picker = t /\ how = "other"
     \/ picker # t /\ decided[t] = "answer"
  /\ recorded' = [recorded EXCEPT ![t] = how]
  /\ picker' = IF picker = t THEN 0 ELSE picker
  /\ unread' = TRUE
  /\ UNCHANGED <<mainVars, jobs, bound, pending, escVars, budget, menu, permPrompt, askVars,
                 clarifying, turn, submitted, sinceRead, ended, masterVars, nextId, typed>>

\* _ask_verify_backstop: no echo came in time, so the transcript decides.
Backstop(t, readable) ==
  /\ Live /\ t \in expected
  /\ readable \/ "transcript" \in Failures
  /\ recorded[t] # "no" \/ "injection" \in Failures
  /\ expected' = expected \ {t}
  /\ jobs' = jobs \o (IF readable /\ recorded[t] = "same" THEN << >>
                      ELSE IF readable /\ recorded[t] = "no"
                      THEN <<Step("verify_missing", t)>>
                      ELSE <<Step("verify_recorded", t)>>)
  /\ UNCHANGED <<mainVars, bound, pending, escVars, budget, menu, permPrompt, decided,
                 deciding, replies, clarifying, sessionVars, screenVars, masterVars, nextId,
                 typed>>

-----------------------------------------------------------------------------
(* Hooks and the session behind them.                                      *)

Delivered == {TRUE} \cup (IF "hook" \in Failures THEN {FALSE} ELSE {})

\* What UserPromptSubmit and PostToolUse queue.
Checks == (IF menu = NoMenu THEN << >> ELSE <<Step("menu_answered", 0)>>)
            \o (IF state = "escalated" THEN <<Step("out_of_band", 0)>> ELSE << >>)

\* SessionStart.
OnSessionStart ==
  /\ Live /\ ~bound
  /\ bound' = TRUE
  /\ UNCHANGED <<mainVars, jobs, pending, escVars, budget, menu, permPrompt, askVars,
                 clarifying, sessionVars, screenVars, masterVars, nextId, typed>>

\* The developer types a prompt in the pane.
PaneInput ==
  /\ Fires("input") /\ picker = 0 /\ ~submitted
  /\ TextEntered
  /\ sinceBaseline' = baselined
  /\ UNCHANGED <<mainVars, jobs, bound, pending, active, baselined, budget, menu, permPrompt,
                 askVars, clarifying, screenVars, masterVars, nextId, typed>>

\* UserPromptSubmit, for any prompt.
OnPromptSubmitted(delivered) ==
  /\ Live /\ bound /\ ~ended /\ submitted /\ Room
  /\ submitted' = FALSE
  /\ jobs' = IF delivered THEN jobs \o Checks ELSE jobs
  /\ UNCHANGED <<mainVars, bound, pending, escVars, budget, menu, permPrompt, askVars,
                 clarifying, turn, unread, sinceRead, screenVars, masterVars, nextId, typed>>

\* PostToolUse of a tool that is not a question.
OnToolUsed ==
  /\ Fires("tool") /\ turn = "working" /\ picker = 0 /\ Room
  /\ permPrompt' = FALSE
  /\ jobs' = jobs \o Checks
  /\ UNCHANGED <<mainVars, bound, pending, escVars, budget, menu, askVars, clarifying,
                 sessionVars, screenVars, masterVars, nextId, typed>>

\* PostToolUse of an AskUserQuestion, with _verify_ask.
OnQuestionUsed(t) ==
  /\ Fires("ask") /\ recorded[t] # "no" /\ (t \in expected \/ menu # NoMenu) /\ Room
  /\ permPrompt' = FALSE
  /\ expected' = expected \ {t}
  /\ jobs' = jobs \o (IF t \in expected /\ recorded[t] = "other"
                      THEN <<Step("verify_recorded", t)>> ELSE << >>) \o Checks
  /\ UNCHANGED <<mainVars, bound, pending, escVars, budget, menu, decided, deciding, replies,
                 clarifying, sessionVars, screenVars, masterVars, nextId, typed>>

\* Notification of a permission prompt.
OnPermissionPrompt ==
  /\ Fires("permission") /\ turn = "working" /\ ~permPrompt
  /\ permPrompt' = TRUE
  /\ UNCHANGED <<mainVars, jobs, bound, pending, escVars, budget, menu, askVars, clarifying,
                 sessionVars, screenVars, masterVars, nextId, typed>>

\* The turn ends: a Stop hook, unless it is lost.
OnStop(delivered) ==
  /\ Fires("stop") /\ turn = "working" /\ ~submitted /\ \A t \in Tools : ~Waits(t)
  /\ Room
  /\ turn' = "idle" /\ unread' = TRUE
  /\ IF delivered
     THEN permPrompt' = FALSE /\ jobs' = Append(jobs, Step("turn_end", 0))
     ELSE UNCHANGED <<permPrompt, jobs>>
  /\ UNCHANGED <<mainVars, bound, pending, escVars, budget, menu, askVars, clarifying,
                 submitted, sinceRead, screenVars, masterVars, nextId, typed>>

\* The turn ends in an API error: StopFailure.
OnStopFailure ==
  /\ Fires("stop_failure") /\ turn = "working" /\ ~submitted /\ \A t \in Tools : ~Waits(t)
  /\ Room
  /\ turn' = "idle" /\ unread' = TRUE
  /\ jobs' = Append(jobs, Step("fatal", 0))
  /\ UNCHANGED <<mainVars, bound, pending, escVars, budget, menu, permPrompt, askVars,
                 clarifying, submitted, sinceRead, screenVars, masterVars, nextId, typed>>

\* SessionEnd.
OnSessionEnd ==
  /\ Fires("session_end")
  /\ ended' = TRUE /\ turn' = "idle" /\ submitted' = FALSE /\ picker' = 0
  /\ state' = "stopped"
  /\ jobs' = Append(jobs, Step("session_end", 0))
  /\ UNCHANGED <<life, shutdown, agenda, bound, pending, escVars, budget, menu, permPrompt,
                 askVars, clarifying, unread, sinceRead, recorded, masterVars, nextId, typed>>

\* Watchdog._run: the deadline expires while the agent is idle or blocked.
WatchdogExpires ==
  /\ Live /\ "watchdog" \in Hooks
  /\ turn = "idle" \/ picker # 0 \/ permPrompt
  /\ Room /\ \A i \in DOMAIN jobs : jobs[i].op # "reconcile"
  /\ jobs' = Append(jobs, Step("reconcile", 0))
  /\ UNCHANGED <<mainVars, bound, pending, escVars, budget, menu, permPrompt, askVars,
                 clarifying, sessionVars, screenVars, masterVars, nextId, typed>>

-----------------------------------------------------------------------------
Verdicts == {"answer", "escalate", "complete", "no_action", "failed"}

Main ==
  \/ Bind \/ Ground \/ Grounded \/ Approved \/ Serve \/ NextJob \/ Exit \/ ToMaster
  \/ MenuAnswered \/ OutOfBand \/ Contact \/ MarkState \/ Classify \/ Deliver
  \/ Reactivate \/ SendPrompt \/ Typed \/ TypingFails \/ VerifyRecorded \/ VerifyMissing
  \/ ReportFatal
  \/ \E v \in Verdicts : Triaged(v)

Master ==
  \/ OnApprove \/ OnReactivate \/ OnSendPrompt \/ OnShutdown
  \/ \E id \in Ids : OnDispatch(id) \/ OnClarify(id) \/ Clarified(id)

Questions ==
  \E t \in Tools :
    \/ OnAsk(t) \/ OnQuestionUsed(t)
    \/ \E d \in {"answer", "escalated"} : AskDecided(t, d)
    \/ \E how \in {"same", "other"} : AnswerRecorded(t, how)
    \/ \E readable \in BOOLEAN : Backstop(t, readable)

Session ==
  \/ OnSessionStart \/ PaneInput \/ OnToolUsed \/ OnPermissionPrompt \/ OnStopFailure
  \/ OnSessionEnd \/ WatchdogExpires
  \/ \E d \in Delivered : OnPromptSubmitted(d) \/ OnStop(d)

Next == Main \/ Master \/ Questions \/ Session

Spec == Init /\ [][Next]_vars

\* Every await of the main task but the approval is bounded by a timeout, so
\* the main task goes on; the watchdog's deadline expires in the end.
FairSpec == Spec /\ WF_vars(Main) /\ WF_vars(WatchdogExpires)

-----------------------------------------------------------------------------
(* Properties.                                                             *)

AboutEscalation ==
  {"deliver", "type_decision", "escalation", "escalation_retract", "pane_escalation",
   "pane_retract", "decision_delivered", "undelivered_gone", "undelivered_live"}
AboutTool == {"verify_missing", "verify_recorded"}
StepType ==
  [op : AboutEscalation, arg : Ids] \cup [op : AboutTool, arg : Tools]
    \cup [op : Ops \ (AboutEscalation \cup AboutTool), arg : Nat]

\* Every variable holds a value of its type; in particular every step about an
\* escalation names one (_retract_superseded_menu asserts it).
TypeOK ==
  /\ life \in {"launching", "serving", "exited"} /\ shutdown \in BOOLEAN
  /\ state \in SessionState
  /\ agenda \in Seq(StepType) /\ jobs \in Seq(StepType)
  /\ bound \in BOOLEAN /\ pending \in {"none", "open", "approved"}
  /\ active \in Ids \cup {0} /\ baselined \in BOOLEAN /\ budget \in Nat
  /\ menu \in [tool : Tools \cup {0}, id : Ids \cup {0}, injected : BOOLEAN]
  /\ permPrompt \in BOOLEAN
  /\ decided \in [Tools -> {"none", "answer", "escalated"}]
  /\ deciding \in [Tools -> 0 .. 2]
  /\ expected \subseteq Tools /\ clarifying \subseteq Ids
  /\ turn \in {"idle", "working"} /\ submitted \in BOOLEAN /\ unread \in BOOLEAN
  /\ sinceRead \in BOOLEAN /\ sinceBaseline \in BOOLEAN
  /\ recorded \in [Tools -> {"no", "same", "other"}] /\ picker \in Tools \cup {0}
  /\ ended \in BOOLEAN
  /\ held \subseteq Ids /\ heldQuestions \subseteq Ids /\ told \in Nat
  /\ nextId \in 1 .. MaxIds + 1
  /\ typed \in [Ids -> Nat] /\ replies \in [Tools -> SUBSET {"answer", "escalated"}]

\* At most one decision is ever typed for an escalation, however often the
\* master dispatches it: _deliver_decision compares with the active escalation,
\* and nothing comes between that test and its end in the main task.
OneDecisionTyped == \A e \in Ids : typed[e] <= 1

\* The broker drives the session only when no escalation of it is live
\* (_raise_escalation: "stops driving the session entirely").
DrivingMeansResolved == state = "driving" => active = 0

\* While an escalation is live no verdict of the broker is on its way into the
\* pane: the serial queue keeps triage and its answer apart from every raise.
HandsOff ==
  active # 0 => \A i \in DOMAIN agenda : agenda[i].op \notin {"triage", "type_answer"}

\* A menu the developer was left with is claimed until its answer is recorded,
\* so nothing is typed into it (_decide_ask).  BrokerPicker.cfg shows where it is not.
PickerClaimed == picker # 0 /\ Live => menu.tool = picker

\* Neither duplicate hooks, refused raises, late checks nor replaced menus take the claim
\* of the menu on screen away: only the queued job of a verification does, for an older
\* question whose answer was recorded after its timer had read the transcript
\* (_claim_menu, _ask_verify_failed).
Unclaimed == ~PickerClaimed
ClaimKept ==
  [][Unclaimed' => \/ Unclaimed /\ picker' = picker
                   \/ VerifyMissing /\ Arg # picker /\ recorded[Arg] # "no"]_vars

\* No clarification outlives the escalation it is about
\* (_end_active_escalation: "can never outlive").
ClarifyBound == clarifying \subseteq {active}

\* While the opening prompt waits for its approval nothing else drives the
\* session: not even a second reactivation changes the state.
ApprovalBlocks == At("approval") => state \in {"awaiting_approval", "stopped"}

\* At rest -- nothing running, nothing queued -- the broker and the master agree
\* on the live decision escalation, so it can be answered and the next raised.
AtRest == life = "serving" /\ agenda = << >> /\ jobs = << >> /\ state # "error"
MasterAgrees == AtRest => held = {active} \ {0}

\* At rest the master shows the question escalation of the claimed menu, unless the
\* session failed with the menu open (which clears the master's list) and a failed
\* verification has made it escalated since.
MenuReported ==
  AtRest /\ menu.id # 0
    => menu.id \in heldQuestions \/ (state = "escalated" /\ ~baselined)

\* A decision the broker took is answered (delivered, undelivered), unless the
\* broker fails or waits for an approval.
Answers(id) ==
  At("decision_delivered") \/ At("undelivered_live") \/ At("undelivered_gone")
DecisionAnswered ==
  \A id \in Ids :
    (\E i \in DOMAIN jobs : jobs[i] = Step("deliver", id))
      ~> ((Answers(id) /\ Arg = id) \/ At("approval") \/ state = "error" \/ ~Live)

\* A finished turn of a driven session is looked at even when its Stop hook is
\* lost (Watchdog: "a bounded delay rather than a permanent hang").
LostStopRecovered ==
  (life = "serving" /\ state = "driving" /\ turn = "idle" /\ unread)
    ~> (~unread \/ state # "driving" \/ turn = "working" \/ ~Live)

-----------------------------------------------------------------------------
(* What the source says that the broker does not keep.                     *)

\* "The transcript is the complete clearing signal" (_check_menu_answered): at
\* rest the master shows no question but the claimed menu's.  An answer seen
\* before the question is raised leaves the question for good.
MenuAgrees == AtRest => heldQuestions \subseteq {menu.id}

\* "Nothing is typed into the pane while it is" occupied (PaneOccupiedError):
\* the prompt opens after _submit's test, before the write.
NothingTypedIntoPrompt == agenda # << >> /\ agenda[1].op \in Typings => ~Occupied

\* "An exhausted budget converts an answer into a handover" (_classify): triage
\* and a question handler test the budget, await, then both count.
BudgetRespected == budget <= BudgetMax

\* The budget a replacement broker resumes with is the one this broker stands
\* at: a report queued by value arrives after a later reset.
BudgetAgrees == AtRest => told = budget

\* "A duplicate must get the same reply" (_on_ask_question): the cache is
\* filled only after the LLM call.
SameReply == \A t \in Tools : Cardinality(replies[t]) <= 1

\* "A second reactivate arriving before the queue drains must not pass"
\* (_handle): a job ahead of the first may complete the session again.
OneReactivation ==
  \A i, j \in DOMAIN jobs : jobs[i].op = "reactivate" /\ jobs[j].op = "reactivate" => i = j

\* "It neither answers nor acts again until" the escalation is resolved
\* (_raise_escalation): a failed answer verification raises on top ...
OneRaise == At("escalation") => held = {}

\* ... and a question whose LLM call began while driving is answered.
AnsweredWhileDriving ==
  [][\A t \in Tools : decided[t] # "answer" /\ decided'[t] = "answer"
       => state # "escalated"]_vars

\* _on_session_end reports the end, "then stop[s] serving and exit[s]": the job
\* never runs while the main task waits for an approval.
EndedExits == ended ~> ~Live
=============================================================================

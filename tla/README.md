# TLA+ verification of broker

broker supervises coding sessions (Claude Code running in terminal panes) for
one developer.  This directory holds its TLA+ models, the TLC configurations
that check them on small instances, and the proofs TLAPS checks for every
instance.  Paths below are relative to `src/src/broker/`.

## 1. The system

Three kinds of process talk over Unix sockets, one request and one reply per
connection:

- the **master** (`master/`), one per developer: a terminal UI, an LLM loop that
  turns what the developer types into tool calls, and a runtime that keeps the
  fleet;
- a **session broker** (`session/`) per coding session: it reads the session's
  turn boundaries, answers what it can within a budget, and raises the rest to
  the master;
- a **hook relay** (`hook/`), one short-lived process per Claude Code hook event:
  it forwards the event to the session's broker and, for permission requests and
  AskUserQuestion menus, waits for a verdict.

| component | state it keeps | operations | interacts with |
|---|---|---|---|
| Escalation queue (`master/queue.py`) | FIFO of decision escalations, in a file | accept, retract, retract_for_session, resolve | master runtime |
| Pane-escalation store (`master/pane_escalations.py`) | open native prompts, in a file | accept, retract, retract_for_session | master runtime |
| Registry (`master/registry.py`) | a record per session, the name counter, in a file | allocate_name, upsert, remove, save, load | master runtime, startup |
| Master runtime (`master/runtime.py`) | pending proposals, announced head, in-flight decision | a handler per broker message; spawn, stop, reassign, attach, reactivate, approve, dispatch, probe | brokers (requests both ways), notifier, UI |
| Session broker (`session/broker.py`) | state, budget, active escalation, open menu, pending approval, job queue, ask cache | hooks, permission / question / clarification requests, master requests, queued jobs | master, hook relay, pane, LLM, transcript |
| Watchdog (`session/watchdog.py`) | a deadline | reset, expiry | broker |
| Permission module (`permission/module.py`) | the raised permission escalation and its tasks | decide, note_tool_completed, note_developer_input, note_session_ended | broker, master |
| Hook relay (`hook/__main__.py`) | none | relay one event | Claude Code, broker |
| Transcript reader (`transcript/`) | none (re-reads a growing JSONL file) | read_cleaned, count | broker |
| LLM callers (`llm.py`, `session/triage.py`, `clarify.py`, `ask.py`, `permission/llm.py`) | none | one forced tool call each, checked against its schema; `ask` retries once | broker, permission module |
| Master LLM loop (`master/llm.py`) | the conversation log, in a file | a turn: rounds of one request and the tools it calls | UI, master runtime |
| Repository index (`index/`) | a SQLite store on disk | incremental update, edge resolution, retrieval, rendering | broker (grounding), the developer's work tree |
| Settings files (`claude/`) | Claude Code's own JSON files | atomic_update_json: register, verify and repair, seed trust, write permissions | master at startup and spawn, Claude Code |
| Decision log and outcome (`decision_log.py`, `master/outcome.py`) | an append-only journal | append, read back, summarise | broker, UI |

**Where it is hard.**  Each process is one asyncio loop: code between two awaits
is atomic, and at every await any socket handler may run.  The broker adds a
serial job queue beside its handlers, tasks that outlive the handler that
started them (clarifications, answer verification, permission raises) and worker
threads for pane writes.  Requests may be refused, lost, or answered after their
timeout; the three master stores are saved one after the other and the process
may die between; a broker outlives its master and the other way round; hooks may
be dropped or repeated.  `PROJECT.json` lists these hazards, each at its line.

**What makes each part correct.**  The queue: one live entry per session, strict
FIFO, no entry of a session that is gone.  The runtime: what the developer is
looking at is the head; a decision goes only to the live head, once.  The broker:
it does not act while an escalation is live, types a decision once and only for
its own escalation, never types into a native prompt, stays within its budget,
agrees with the master on what is live, and never leaves a finished turn unseen.
The permission module: at most one escalation held, withdrawn when it ends.
The two processes together: an escalation is decided once, in the session that
asked, or withdrawn, and neither side waits for ever for the other.  The index: a
run leaves what indexing from nothing would.  The settings files: never torn,
never without a backup, and nothing touched that is not ours.  The pure
functions: the transcript, the outcome, the menu's answers, the edges, the
retrieved code and the conversation log say what happened, no more and no less.

## 2. Plan

Built in this order, the most important behaviour first:

1. `Protocol`, `EscalationQueue`, `MasterRuntime`, with proofs: the process that
   keeps what must survive.
2. `SessionBroker`: job queue, handlers, menus, with liveness, and proofs.
3. `PermissionModule`: the one escalation it holds, its raise and retract tasks,
   supersession; with liveness, and proofs.
4. `EscalationLife`, the abstract specification of decision escalations, and
   `Supervision`, brokers and master composed over late and lost calls, proved to
   implement it; with liveness.
5. `RepositoryIndex`, with proofs: an incremental index converges to a fresh one.
6. `SettingsFile`, with proofs: Claude Code's files under kills and other writers.
7. The pure functions, over bounded inputs.

What could come next: the opening proposal and the menus in `Supervision`, so that
the master's proposals and questions too have an abstract life; the clarification
relay; and symbol extraction without `RECURSIVE` operators, about which
`CallsGoToInnermost` could be proved for declarations of one function.

## 3. Modules

| module | models | notes |
|---|---|---|
| `Protocol` | `protocol/constants.py`, `_ABSORBING` | the shared vocabulary |
| `EscalationQueue` | `master/queue.py` | operators on a sequence, no variables |
| `EscalationQueueProofs` | | what those operators keep, as lemmas |
| `MasterRuntime` | `master/runtime.py`, `registry.py`, `pane_escalations.py`, `__main__.py`, one-tool-at-a-time from `tui/app.py` | the state machine of the master |
| `MCMasterRuntime` | | symmetry of ids for TLC |
| `MasterRuntimeProofs` | | theorems about the master |
| `SessionBroker` | `session/broker.py`, `session/watchdog.py` | the state machine of one broker, with a minimal master and session around it |
| `SessionBrokerProofs` | | theorems about the broker |
| `PermissionModule` | `permission/module.py`, the wait of `hook/__main__.py` | the calls of one session, the module's tasks and the requests on their way |
| `PermissionModuleProofs` | | theorems about the permission module |
| `EscalationLife` | | the abstract specification of decision escalations: opened, decided, entered or closed |
| `Supervision` | the decision path of `session/broker.py` and `master/runtime.py`, with `protocol/client.py` and `server.py` between them | brokers and master composed, over calls that may be late, lost or cut off; implements `EscalationLife` |
| `SupervisionProofs` | | types, the refinement, and no escalation is refused unless the master crashes |
| `RepositoryIndex` | `index/indexer.py`, `index/store.py` | runs of the indexer over one store and one work tree |
| `MCRepositoryIndex` | | two files and their contents |
| `RepositoryIndexProofs` | | theorems about the index |
| `SettingsFile` | `claude/atomic.py`, `settings.py`, `trust.py` | one file, the master's updates, and everybody else |
| `MCSettingsFile` | | what others write |
| `SettingsFileProofs` | | theorems about the files |
| `Transcript`, `SessionOutcome`, `AskAnswers`, `LlmReplies`, `HookRelay`, `EdgeResolution`, `Retrieval`, `SymbolExtraction`, `MasterTurn` | `transcript/`, `master/outcome.py` with `decision_log.py`, `session/ask.py`, the LLM callers, `hook/__main__.py`, `index/edge_resolution.py`, `retrieval.py` with `render.py`, `symbol_extraction.py`, `master/llm.py` | pure functions, as operators |
| `FunctionInputs` | | their inputs, one item longer at each step, of any items, and what all but symbol extraction must give |
| `MCFunctions` | | small sets of items, and what symbol extraction must give |
| `FunctionProofs` | | theorems about what they must give, for any items and inputs of any length |

### MasterRuntime

One step is the code between two awaits.  A socket handler is one action
(`OnEscalation`, `OnPaneRetract`, ...), except that `_on_session_ended` and the
fatal handler await the notifier between withdrawing the decision escalation and
the pane escalations when the first promotes a new head: the rest is `FinishTail`.
A developer tool call is several actions with `tool` as its program counter
(`DispatchStart`, `DispatchTaken`, `DispatchFinish`), and handlers run between
them.  The TUI disables its input box during a turn, so there is one call at a
time.  A record keeps its state, whether it has the identity attach needs and
whether it has an approved prompt; `nameSeq` and `savedSeq` are the name counter
in memory and on disk.  `Quit`, `Crash`, `Restart`, `Reconcile`, `Serve` and the
three `Repopulate` actions are the end of one process and the start of the next.

The brokers are an open environment: a session that was ever started may send
any message at any time.  Two facts about brokers are kept: an escalation id is
fresh (`raised`), and a decision is answered once, by the broker that took it
(`accepted`).  An id is retracted only by the session that raised it.

Left out: the clarification relay and the read-only queries, task activity and
budget figures on the record, and the wording of announcements.

### SessionBroker

The broker's loop runs one main task beside its socket handlers.  `agenda` is the
rest of what the main task is doing, a sequence of steps; the first step is what
it awaits (a message to the master, an LLM call, a pane write, the approval) or
the code it runs next.  A step may replace what follows: an answer that fails its
pane write raises, so the rest of the job is dropped (`Fatal`), as an exception
leaves the coroutine.  When the agenda is empty `NextJob` takes the next job of
`jobs`, the `queue` of the code.  A handler is one action that comes between any
two steps; the two that await the LLM inside the handler (a question, a
clarification) are two actions, `OnAsk`/`AskDecided` and `OnClarify`/`Clarified`.

| action | code |
|---|---|
| `Bind`, `Ground`, `Grounded`, `Approved`, `Serve`, `NextJob`, `Exit` | `run`, `_launch`, `_ground_and_submit`, `_event_loop` |
| `ToMaster` | every `_to_master` of the main task: replied, refused, lost, or handled and unanswered |
| `MenuAnswered`, `OutOfBand`, `Contact`, `Classify`, `Triaged`, `Deliver`, `Reactivate`, `SendPrompt`, `VerifyMissing`, `VerifyRecorded` | the jobs, cut at their awaits |
| `Typed`, `TypingFails` | the return of a pane write, with what the job does next |
| `On...` | the handlers of master requests and hooks |
| `Backstop` | the timer that verifies an injected answer |
| `WatchdogExpires` | `Watchdog._run` |

The master is reduced to what it holds of this session (`held`, `heldQuestions`,
`told`): it refuses a second escalation of the session, as `MasterRuntime` does.
The session is its turn, its transcript (`unread`, `recorded`) and its screen
(`picker`).  Assumed of Claude Code: one AskUserQuestion at a time and no turn end
while one waits; the PreToolUse hook of a question may fire twice; the transcript
is written before the hook that follows.  With "injection" among the failures an
injected answer may also be recorded late, differently or never.

Bounds: `MaxTools`, `MaxIds` number the questions and escalations of a history;
`MaxJobs` limits the queue *when a handler appends* (what a handler would append
to a longer queue is left out), `BudgetMax` is the configured budget, 1 in every
run so that one answer exhausts it.  Two escalations are what it takes for a
decision, a retraction or a raise to meet the wrong one; three queued jobs let a
handler's job come before, between and after two others.

Left out: the status sender and log queries, the permission module (modelled on its
own, below), task activity, the decision log, and the text of prompts.

### PermissionModule

Hooks are answered side by side and the sends to the master are tasks, so what is
concurrent here is *requests*: every one has its own connection, and requests of
different tasks overtake each other.  `call` is what becomes of each tool call,
`judging` the calls whose `decide` awaits the classifier, `live` the slot (`_live`),
`tasks` what each task has left to send, `wire` and `replies` the requests and
answers on their way, `held` what the master keeps for the session.

| action | code |
|---|---|
| `Asked`, `Judged` | `decide`, before and after the classifier; the log entry comes first, then the raise, then the reply |
| `HookTimesOut` | the relay's deadline: the native prompt opens, `decide` goes on |
| `Answered`, `Completed`, `DeveloperInput`, `SessionEnds` | the developer, and the three signals that retract |
| `Replied`, `SendFails` | the end of a task's current request: answered, unreachable or late |
| `Handle` | `PaneEscalations.accept` and `retract` on the master |
| `MasterDrops` | `_retract_stranded_pane_escalations`: a fatal report, or a broker found gone, while the module goes on |
| `EndReported`, `Exit` | the broker's session end, which drops what the master holds |

Assumed of Claude Code: a call runs only when allowed or approved; the developer's
input is submitted when no call blocks the session.  A request of a sender that
gave up, or whose process exited, may still be handled.  `dropped` is history: what
the master dropped of its own accord.  The module is not told (`broker.py:1908`), so
after the broker reported a fatal error (which does not stop it) the slot stays
claimed for an escalation the developer no longer sees, until the next signal or raise
retracts it; `SlotIsShown` and `SlotSettles` except exactly these ids.  Bounds: `MaxCalls` calls,
of which `Parallel` block the session at once, `Kinds` distinct tool inputs.

Left out: the refusal of a session the master does not know (`runtime.py:761-799`), which
releases the slot as every refusal does; `set_intent` and the transcript the classifier reads, and permission
suggestions, which the slot does not depend on.

### Supervision and EscalationLife

`EscalationLife` says what the system promises, with no processes: a session has
at most one open escalation; a decision made for it enters the pane of the session
that raised it, once, while it is open; or it is closed without one.

`Supervision` composes the brokers' main tasks with the master.  A `_to_master` is
`Call` (the request is on the `wire`, the task awaits), `HandleMessage` (the master
handles it, and answers at once or after `Notified`), and the action that resumes
the task.  `GiveUp` is the timeout: the caller takes the call for failed, the
request is still on the wire and still handled.  `Crash` closes every connection
and loses all of the master but its queue; `Restart` loads it.

| action | code |
|---|---|
| `TurnEnds`, `SendPrompt` | the hook and the developer's prompt, which append jobs |
| `TurnEndQuiet`, `TurnEndAnswered`, `TurnEndClassified` | `_on_turn_end`: nothing to do, the developer answered in the pane, triage |
| `DeliverStale`, `DeliverTyping`, `Typed`, `TypingFails` | `_deliver_decision`, cut at the pane write |
| `PromptTyped`, `PromptFails` | `_send_developer_prompt` |
| `DeliveryConfirmed`, `RetractAcked`, `AnsweredClassified`, `CallEnds`, `CallFails` | what follows a call |
| `DispatchStart`, `DispatchTaken`, `DispatchAcked`, `DispatchFails` | `dispatch` of the master, and the broker's handler of it |

The refinement mapping computes the phase of an escalation from the broker that
raised it: new before it is raised, open while it is `_active_escalation`, over
afterwards.  So what the master holds is not part of the promise, and the refinement
says that no state of the master, however stale, can make a broker break it.

Against `SessionBroker` the composition leaves out: menus and their questions,
hook handlers that raise, launch and end of a session, the budget.  Against
`MasterRuntime`: panes, proposals, the registry, tool calls other than dispatch.

### RepositoryIndex

Each transaction of the store, each query and each read of a source file is one
step of a run; between two, the developer edits the tree (`Edit`), another run
works, or the run fails (`Fail`, which stands for a kill too).  A file's content is
the map from its symbols to their embedded texts, and its hash is the content.  The
edge table is represented by what the four queries it was resolved from returned;
resolution itself is `EdgeResolution`.  `touched` is history: whether another run or
an edit joined a run.

What is not in the hash is not in the model either: after an upgrade of the
extractor or of the languages the rows of unchanged files stay as the old one
extracted them.

### SettingsFile

`kind` picks the file and with it the mutations: registering hooks, verifying and
repairing them, seeding trust, writing a session's permissions.  An update is its
read (`Begin`, with the refusal of what is not a JSON object), the backup in two
steps because `write_bytes` truncates first, the temporary file in two, and
`Replace`.  `Fail` is a write error, after which the temporary file goes unless its
unlink fails too; `Crash` is a kill, `OthersWrite` Claude Code or the developer, who
replace the whole file.  `verify_and_repair` ends with the shadow check, one project
file after the other (`Look`); others write those too (`OthersWriteProject`), between
two looks and after them.  A project file says nothing of the event, has our entry,
our entry with the command of an older installation ("stale"), foreign entries only,
or cannot be read; the check knows our entries by their marker, so "stale" passes.
`since` is history: what others wrote after the update replaced the file or after it
looked at the project.  A report is held to what was there when it looked.

### The functions

`FunctionInputs` holds one input per function, of a bounded length; each action makes
it longer by one item.  The items are constants, to which `MCFunctions` gives small
sets with every case the code tells apart.
The expected value is stated independently of how the code computes it: for the
transcript, which lines hold which events; for the outcome, which later row settles
an entry; for edges, the nearest definition along the inherits edges, where the
code walks a queue; for retrieval, the best seed; for the block, what a shorter or
longer one would cost; for a turn of the master, that every tool that returned has
its line whatever failed next, but for the last one of a turn whose own line could not
be written (a kill or a full disk leaves it torn or leaves nothing, and the turn ends),
and that every request is a list the interface accepts.  The lines of the developer
and the assistant are written whole, and a line is not cut just before its newline.  `SymbolExtraction` uses recursive operators, `LlmReplies` is shared by
every caller of an LLM.

## 4. Runs

Names are in `PROJECT.json`; each passing property has a mutant there, a plausible
bug in one definition under which TLC finds it violated.

| run | bounds | what it shows |
|---|---|---|
| `restart` | 2 sessions, 2 decision and 2 pane escalations, pushed state DRIVING; native prompts or identified sessions, not both (`PanesOrStatuses`) | `QueuedSessionKnown`, `HeadAnnounced` over handlers, spawn, stop, reassign, crash, quit and restart.  Two sessions are what it takes for one to wait behind the other, and for a head to be promoted while its predecessor's handler is suspended |
| `tools` | 2 sessions, 2 escalations, 1 proposal, 1 decision taken, one life | `StrictFifo`, `ShownUntilGone`, `OneLivePerSession`, `InflightNeverWaits`, with approve, attach, dispatch and reactivate run to their end.  What a restart resets (proposals, the in-flight marker) starts empty, so one life suffices; longer queues are the theorems' |
| `broker_drive` | from launch or a completed session; 2 escalations, 3 jobs, no question | `OneDecisionTyped`, `DrivingMeansResolved`, `HandsOff`, `ApprovalBlocks`, with LLM, pane and master failing, hooks lost, permission prompts |
| `broker_live` | 2 escalations, 3 jobs | `DecisionAnswered`, `LostStopRecovered` under fairness, and `MasterAgrees`, `ClarifyBound`, with hooks lost and pane writes failing; no permission prompts (see `BrokerStrand` below) and no loss towards the master (a broker whose report is lost goes to ERROR and master and broker then differ) |
| `broker_menus` | 2 questions, 3 escalation ids, a shutdown | `ClaimKept`, `MenuReported`, `TypeOK`: a second menu is what replaces a first one's claim; injected answers are recorded, missing, different or unreadable, and verified in time or long after the next question.  `ClaimKept` says that a claim once made is lost to one step only, the verification of another question; `BrokerPicker` below shows that step |
| `permission` | 2 calls, in parallel, of different inputs | `OnRecord`, `SlotIsShown`, and `SlotSettles` under fairness, with the classifier, the log, hooks and the master failing.  Two calls are what it takes for a raise to supersede another and for the two tasks to overtake each other |
| `index` | 2 runs, 2 files with 3 contents or none, 1 edit, batches of 1, any starting tree | `Converges`, `OnlyStaleEmbedded`.  A run can start again and again, so a store that several interrupted runs left is reached; two at once is what it takes to overlap |
| `functions` | up to 3 transcript lines, 4 log rows, 2 answers, 2 replies, 4 parts of a reply, every subset of 13 references and of 9 edges, 3 statements, 5 replies of 3 rounds | the nine function properties.  Each bound is the length at which two items can meet a third: a question answered twice, an escalation retracted between two others, a cycle of bases with an exit |
| `claude_files` | 2 projects, 1 abandoned temporary file, 8 contents others write | `NeverTorn`, `BackedUp`, `OthersKept`, `SilenceMeansInEffect`: contents with foreign, stale, current and merged entries, and those the master must refuse |
| `supervision` | 2 sessions, 2 escalations, 1 queued job per broker, 1 slow call, ACKs that overtake | `NeverRefused`, `ImplementsLife`.  Two escalations of one session are what it takes for the second to meet the first one's entry, two sessions for one to wait behind the other |
| `supervision_live` | 1 session, 2 escalations, 2 jobs, 1 fault: slow call, failing pane or crash of the master | `EscalationsSettle`, `MootEntriesLeave` under fairness |

The type invariant of every module is a theorem (section 5); TLC checks it for the
broker, the largest, in `broker_menus`.

One run expects a violation:

| run | sentence | what happens |
|---|---|---|
| `inflight` | "dispatched but not yet confirmed" (`runtime.py:565`) | the confirmation is handled before `dispatch` resumes; every later dispatch is refused |

The modules state further sentences of the source that the code does not keep.
They are not among the project's runs.  Where a cfg is named, `tlc -config <cfg>
<module>` shows it; elsewhere the instance is given, as the differences from the cfg
of the run named.

| property | shown by | sentence | what happens |
|---|---|---|---|
| `PaneSessionKnown` | `restart` with one pane id, `Statuses = {}` | "so retract them all" (`runtime.py:1675`) | a quit or crash while the handler waits for the notifier leaves the pane escalation of a removed session |
| `NameNeverReused` | `restart` with 1 session, no ids, `Statuses = {}` | "Monotonic" (`registry.py:112`) | the counter is saved only after the broker was started |
| `ReplacementMayRaise` | `restart` with 1 session, 1 escalation, no panes | "a live entry would refuse the resumed broker's first raise" (`runtime.py:1032`) | reassign does not withdraw the entry, attach does |
| `SettledLeftByMaster` | the same, `Statuses = {}` | "Left only by a master-initiated boundary write" (`runtime.py:151`) | escalations, retractions, proposals and probes leave it too |
| `SettledHasNoProposal` | `restart` with 1 session, no escalation or pane, 1 proposal, `Statuses = {"error"}` | "Drop any pending proposal a session left behind on settling" (`runtime.py:1819`) | repopulation registers one right after recording the settled state |
| `QueuedSessionKnown` | `SpecKill`, 1 session, 1 escalation, no panes | "a stranded head would wedge the FIFO queue" (`runtime.py:1676`) | killed between the registry save and the queue save |
| `EverySurvivorProbed` | `restart` with no ids | "from each surviving broker" (`runtime.py:596`) | a record removed during a probe ends the loop with a KeyError |
| `EndedExits` | `FairSpec` of `SessionBroker`, `Launches = {"fresh"}`, `Hooks = {"session_end"}`, `Requests = {"approve"}`, no failures | "Report the terminal end to the master, then stop serving and exit" (`broker.py:1930`) | the job that reports the end waits behind the approval the main task awaits without a timeout |
| `NotForFinished` | `permission` with `Parallel = 1`, no failures | "Retract the live escalation when its own tool call has finished" (`permission/module.py:172`) | a verdict that comes after the hook gave up is raised for a call that is over |
| `NoOrphan` | `PermissionOrphan.cfg` | "must be retracted rather than orphaned in the master's slot" (`test_permission_module.py:256`) | a retraction overtakes the raise it is about; the master accepts the raise afterwards and keeps it |
| `OneRaise` | `BrokerSecondRaise.cfg` | "it neither answers nor acts again until" (`broker.py:1563`) | a failed answer verification raises on top of a live escalation; the refusal is fatal and drops both |
| `MenuAgrees` | `BrokerQuestion.cfg` | "the transcript is the complete clearing signal" (`broker.py:1354`) | the answer is seen before the queued raise runs; the question is raised afterwards and never withdrawn |
| `NothingTypedIntoPrompt` | `BrokerPane.cfg` | "nothing is typed into the pane while it is" (`broker.py:207`) | the prompt opens while the worker thread writes |
| `BudgetRespected` | `BrokerBudget.cfg` | "An exhausted budget converts an answer into a handover escalation" (`broker.py:1127`) | triage and question handlers test, await, then all count |
| `BudgetAgrees` | `BrokerBudgetReport.cfg` | "persisted count resumes across broker death" (`config.py:156`) | a report queued by value arrives after a later reset |
| `SameReply` | `BrokerDuplicate.cfg` | "a duplicate must get the same reply without a second LLM call" (`broker.py:666`) | it arrives while the first is being decided |
| `OneReactivation` | `BrokerReactivate.cfg` | "a second reactivate arriving before the queue drains must not pass it too" (`broker.py:981`) | a job ahead of the first completes the session again |
| `PickerClaimed` | `BrokerPicker.cfg` | "Every `escalated` reply claims the open picker before returning" (`broker.py:681`) | a stale verification job takes the claim away |
| `AnsweredWhileDriving` | `BrokerDuplicate.cfg` with `MaxIds = 2`, hooks `input`, `ask`, `stop` | as `OneRaise` | the state is tested before the LLM call only |
| `LostStopRecovered` | `BrokerStrand.cfg` | "a bounded delay rather than a permanent hang" (`watchdog.py:67`) | a permission prompt closed by a turn whose Stop hook is lost keeps its flag, and every reconcile job returns because of it |
| `TypedWhileShown` | `SupervisionStale.cfg` | "A stale dispatch is the worst failure this system can produce" (`runtime.py:1150`) | a slow notification makes the raise fail at the broker; its report of the failure withdraws the entry while the decision is dispatched, and the decision is typed all the same |
| `NeverRefused` | `SupervisionCrash.cfg` | "One escalation is live per session" (`queue.py`) | the master dies with a withdrawal on its way; the entry is loaded again and refuses the session's next raise, which is fatal |
| `EscalationsSettle` | `supervision_live` with `MaxFaults = 2`, `Faults = {"slow"}` | | two slow calls: the in-flight mark of a confirmed decision is never cleared, so nothing is dispatched again |
| `EdgesCurrent` | `IndexEdges.cfg` | "so edges are always consistent with the current symbol set" (`edge_resolution.py:3`) | a run ends between the rows of a file and the edges; the store serves edges of symbols that are gone |
| `NoStaleShadow` | `claude_files` | "Warn when ``candidate`` shadows our registration" (`settings.py:201`) | a project's entry of ours with the command of an older installation passes for a current one, and replaces the user's |
| `AppliedAtomically` | `claude_files` | "Apply mutate to the JSON object at path, atomically" (`atomic.py:25`) | what others write between the read and the rename is overwritten |
| `ForeignHooksKept` | `claude_files` | "Foreign entries [...] are preserved verbatim" (`settings.py:3`) | a foreign hook in an entry that also holds ours goes with the entry |
| `SeedsAreShown` | `SeedsShown.cfg` | "Seeds are never dropped" (`render.py:16`) | a name defined as a function and again as a class is one symbol of kind function; the class's methods count as nested under it and are rendered nowhere |
| `NextTurnRuns` | `TurnRuns.cfg` | "the app (and its socket server) survives" (`app.py:275`) | a line of the conversation log cut short by a kill or a full disk makes every later turn raise before it begins |

**Fairness.**  None is assumed in `MasterRuntime`, whose properties are safety properties.
`SessionBroker!FairSpec` adds weak fairness of `Main` and of `WatchdogExpires`.
The first is what asyncio gives a task whose awaits end: every await of the main
task has a timeout (LLM calls, pane writes, requests to the master) except the
approval of a prompt, at which `Main` is not enabled until a handler resolves it,
so that nothing is assumed of the developer.  The second is the watchdog's sleep to
a deadline, repeated forever.  Nothing is assumed of the session, the master's
requests, or the failures.
`PermissionModule!FairSpec` adds weak fairness of `SendEnds`, because every request
has a timeout, and of `Handles`, because the master serves its socket.  Nothing is
assumed of the classifier, the hooks or the developer.
`Supervision!FairSpec` adds weak fairness of each broker's main task, of the
master's handlers, of the notifier's return, of `DispatchAcked` and of `Restart`,
which are the loops of the two processes and a developer who starts a dead master
again.  Three actions need strong fairness, because they are disabled again and
again: `Typed` (a submission that may fail is made again when the decision is
dispatched again), `DispatchTaken` (the broker's queue is bounded in the model only)
and `DispatchStart` (the head is decided only while nothing is in flight; the
developer decides what keeps being shown).  Faults are bounded by `MaxFaults`, not
by fairness.

## 5. Proofs

`MasterRuntimeProofs` proves, for any number of sessions, ids, pushed statuses and
dispatches, assuming only `MasterAssumption` (the bounds are naturals, statuses
are session states, `None` is not an escalation id):

- `TypeCorrect`: `Spec => []TypeOK`;
- `QueueUnique`: `Spec => []OneLivePerSession`;
- `NoOrphanInQueue`: `Spec => []QueuedSessionKnown`;
- `HeadIsAnnounced`: `Spec => []HeadAnnounced`;
- `AlwaysFifo`: `Spec => StrictFifo`, and `NothingOvertakes`: `Spec => ShownUntilGone`;
- `InflightIsHead`: `Spec => []InflightNeverWaits`.

The argument.  `EscalationQueueProofs` first shows that every way the queue
changes (accept, retract, retract_for_session, resolve) keeps `UniqueLive`, and
what each leaves in it: withdrawing a session's entry leaves none of that
session *because* there was only one.  So `QueuedSessionKnown` is not inductive
alone; it needs `OneLivePerSession`, which needs that an accepted id is new
(queued ids have been raised).  `HeadAnnounced` needs in addition that the
announced id belongs to the queue's head whenever the handler compares with it.
The inductive invariant is the conjunction, proved once per action.

The two action properties rest on `QueueMoves`: every step of the master leaves the
queue as it is, appends one entry, or removes one at some place; reconciliation at
startup, which removes several, comes before anything is shown.  `InflightNeverWaits`
follows because an in-flight decision was the head when it was dispatched, and
nothing overtakes the head.

`SessionBrokerProofs` proves, for any launches, hooks, requests and failures and
any bounds, assuming only `BrokerAssumption` (the launches are launch kinds, the
bounds are naturals):

- `TypeCorrect`: `Spec => []TypeOK`;
- `DecidesOnce`: `Spec => []OneDecisionTyped`;
- `DrivingResolved`: `Spec => []DrivingMeansResolved`;
- `HandsOffWhileLive`: `Spec => []HandsOff`;
- `ApprovalWaits`: `Spec => []ApprovalBlocks`;
- `MenuQuestionReported`: `Spec => []MenuReported`;
- `ClaimIsKept`: `Spec => ClaimKept`;

and under a hypothesis each, which a run or a scenario shows to be needed,

- `ClarificationsEnd`: `Spec /\ [][VerifyRecorded => active = 0]_vars => []ClarifyBound`;
- `MasterAgreed`: `Spec /\ [][Reactivate => active = 0]_vars => []MasterAgrees`, where
  no message to the master is lost.

The argument is about what the running job still holds.  None of the first four is
inductive: what a step may do was decided when its job was laid out.  `IInv` says
it of the whole `agenda`: a step that drives the session, or leads to driving it
(`NeedsResolved`), stands in it only while no escalation is live (`ResolvedOK`); a
decision about to be typed is the live escalation's and comes first (`DecisionOK`);
the wait for approval comes first or right after the proposal, in a state only the
end of the session leaves (`ApprovalOK`).  Handlers run between any two steps, so
the proof needs that they touch neither the agenda nor the live escalation, and
that they queue nothing but whole jobs (`JobsOK`): whatever job comes next starts
with none of those steps.  A raise replaces the agenda, which is why a
verification that raises on top of a live escalation does not break it.  Last,
`TypedOK`: an escalation a decision was typed for is not live and never will be
again, because ids are fresh.

The others need more of the queue.  A claim is made when a reply leaves the picker to
the developer, and only the jobs `menu_answered` and a failed verification change it.
`AskOK` says that the picker on the screen has no answer on record and every question
before it has, `VerifyOK` that nothing is verified but a question that was answered: so
a verification that takes the claim away is of an earlier question (`VerifiedEarlier`),
which is the one step `ClaimKept` excepts; `BrokerPicker.cfg` shows it, and `PickerClaimed`
is false because of it.  `MenuReported` is about the master: the question of the claimed menu is
shown, or its raise is still in the queue, or a refusal of it is about to drop the
id (`QuestionOK`), and a retraction on its way is of an id no menu claims (`RetractOK`).
Its exception was found by the proof: a session that fails (which clears the master's
list) with its menu open and then escalates a failed verification is ESCALATED with a
menu the master does not show.  `MasterAgrees` follows from `Agreed`: what the master
holds is the live escalation, and one that is being withdrawn; the live escalation is
with the master unless its raise, a failure or the end comes first; and a step that
withdraws never names the live one.  Two ways out are real.  A report that is lost leaves the broker in
ERROR.  And `_reactivate` (`broker.py:1726`) ends the live escalation without
withdrawing it: a session that completed is given a new task, the job waits behind a
verification that raises, and the master keeps the escalation that nobody can answer;
the hypothesis excludes that order.  `ClarifyBound` fails in one order too: a failed
verification (`_ask_verify_failed`) is the one raise no test for a live escalation
precedes, so it replaces a live one without cancelling its clarifications.

`PermissionModuleProofs` proves, for any number of calls, any parallelism and any
failures, assuming only `PermissionAssumption`:

- `TypeCorrect`: `Spec => []TypeOK`;
- `AlwaysOnRecord`: `Spec => []OnRecord`;
- `SlotAlwaysShown`: `Spec => []SlotIsShown`.

`OnRecord` is about what the developer sees, so it must hold of what is on its way:
`Recorded` says that every request of a task or on the wire is about a recorded
call.  `SlotIsShown` is harder, because a request may be handled long after its
sender gave up.  What makes it true is that the escalation in the slot has never
been retracted (`Unretracted`: no retraction of it is in a task or on the wire, and
calls are judged once), so an accepted raise stays accepted; and that an answer
tells what happened (`AnswerTold`: while the session lasts, an accepting answer for
the escalation in the slot means that the master holds it, or has dropped it of its own
accord since).

`RepositoryIndexProofs` proves, for any files, contents, batches, number of runs and
edits, assuming only `IndexAssumption`: `TypeCorrect`, `RunsConverge` (`Spec =>
[]Converges`) and `NothingEmbeddedTwice` (`Spec => []OnlyStaleEmbedded`).  A run
nothing joined works alone (`Sole`), so only its own steps matter.  `Scanning` splits
the files into those it has dealt with, whose rows are the tree's, and those it has
still to look at, whose rows are as it read them: a file skipped because its hash is
unchanged is right for that reason.  Each later phase (`Phase`) rests on the one
before: the edges on rows that are right, the plan on them and on the vectors read,
the batches on what is still stale (`Planned`), and the end on the removal of what
is no symbol any more.

`SettingsFileProofs` proves, for any contents, projects and faults: `TypeCorrect`,
`WholeAlways`, `AlwaysBackedUp`, `OthersAreKept` and `SilenceIsEffect`.  The invariant says
what an update has on disk at each step (`OnDisk`) and that what it will write is the
mutation of what it read (`InMemory`); the lemma `Registered` says what the
registration does to a list of entries.

`SupervisionProofs` proves, for any sessions, bounds and faults, assuming only
`SupervisionAssumption`: `TypeCorrect` and `Implements` (`Spec => ImplementsLife`,
the refinement).  A step that raises must find no open escalation of the session:
`Settled` says that a session that drives, or is about to, has none, and `OwnLive`
that the live escalation is one the session raised.  A step that types must find its
decision made and its escalation open: `DispatchChosen` and `JobsChosen` follow the
decision from the developer into the job queue, and `TypesLive` holds from the
broker's check of the id to the end of the write, because nothing but the main task
ends an escalation.  `QueueRaised` and `WireRaised` make sure that what the developer
can choose was raised.

`SupervisionProofs` also proves `NothingRefused` (`Spec => []NeverRefused`) for any
sessions and bounds from the same assumption and one more, that the master does not
crash; with a crash it is false (`SupervisionCrash.cfg`).  The broker may give up a
call, fail, drive on and raise again while the request of its last escalation is
still on its way, so the invariant is about the wire: before each escalation on it
comes whatever clears the ones ahead, queued or on their way (`Orderly`), and one that
nothing on the wire clears is the live escalation of a session in ESCALATED, or the
one whose decision was just typed (`Owed`).  A confirmation clears the head only
(`EscalationQueue.resolve`), hence `ChosenFirst`: what was decided is the head as long
as it is queued, because nothing overtakes it; and `Once`, since a decided id that came
again would not be.

`FunctionProofs` proves of `FunctionInputs`, whose inputs are of any items and any
length, what the run `functions` checks on short inputs of a few:

- `HookPrints`: `Spec => []PrintsWhatTheBrokerSaid`;
- `MenusAnswered`: `Spec => []AnswersFitTheMenu`;
- `TurnsAlwaysRecorded`: `Spec => []TurnsKeepTheRecord`;
- `OutcomesMatch`: `Spec => []SolutionsMatch`;
- `TranscriptsRead`: `Spec => []EventsAreTheFile`;
- `RanksAlwaysBest`: `Spec => []RanksByBestSeed`;
- `BlocksAlwaysFit`: `Spec => []BlockFits`;
- `SelfCallsAlwaysNearest`: `Spec => []SelfCallsReachNearest`.

They assume `FunctionsAssumption` (the limits of `master/llm.py` are positive, as the
code sets them), `ItemsAssumption`: the model's replies have the shape the client
parses them into, and a transcript's lines are objects with a list of blocks or are
recognised as something else; `IndexAssumption`: an index is finite, has one symbol
of a qualified name (the store's `symbols_by_qualified_name`) and names with a file,
and the sorts of `retrieval.py` and `store.py` are by a strict order; and
`EdgesAssumption`: symbols are finitely many, and the references are sorted by a
strict order (`edge_resolution.py:89`).  Ids of escalations are fresh (`OutcomeGrows`), as the
broker draws them.  Each property is an operator of its function's module, and
each theorem rests on a lemma that proves it of one input of any length
(`PrintsNothingElse`, `NothingElseFits`, `TurnsRecorded`, `SolutionsAreTheirs`,
`EventsAreTheLines`, `RanksAreBest`, `BlocksAreFit`, `NearestReached`).  A library theorem for induction cannot be used,
so each proof takes the least item at which its invariant would fail (`Least`, from
the well-foundedness of `<`) and shows that it does not.  The invariants say what the
part already read determines: in `Transcript`, which calls wait (`PendingTold`) and
that the events so far are those of the first n items (`EventsTold`), where n runs
over the items of the whole file and not of the line; in `SessionOutcome`, which
entry was made for which row and whether what ends it has come (`Told`); in
`MasterTurn`, that the messages alternate, end with the user's, and name each call
before its result, and that the log ends with the lines of the tools that returned, but
for the last one when its line failed, which ends the turn.  `Counted` turns an increasing enumeration into the place by
counting that the properties speak of.

For retrieval, `SortedLists` says that counting what comes before gives each element of
a finite set its place; `RankedSo`, that after any number of edges a node has the best
rank of the edges so far, whatever their order, and only seeds and neighbours have one;
`FitLeaves`, that each turn of `fit_to_budget` removes the last symbol because the
expansion is the tail, so that what is left is a beginning (`FitSo`), and the turns run
out only when seeds are left or the block fits.  `RenderHeads` counts headings: each
symbol is in the lines of one file, there under its class or on its own, and in the
lines of no other; a method of what is no class is in neither (`Wrong`), which is the
exception the property names.

For edge resolution, the code looks through a queue of classes and takes the first that
defines what is asked for, while the property speaks of steps along the inherits edges.
What makes them agree is how the queue grows (`QueuedSo`): no class is in it twice, every
class but the first has a base edge from one before it, the bases of the classes looked
at are in it, and of two classes the earlier was reached from no later a class than the
other (`Ordered`).  As the queue never holds more than the names with bases and theirs,
looking at as many as have bases looks at all (`HierarchyClosed`); a cycle of bases
adds nothing.  `Levels` then says that what is reached in k steps is a beginning of the
queue, at least k + 1 classes long or the whole, so that the first definition is in reach in the
fewest steps (`FirstIsNearest`).  `BasesResolve` and `EdgesResolve` tie the queue's bases
and the inherits edges to the same references, and a base of a name to a symbol, so that
no more steps are needed than there are symbols (`HierarchyShort`).

**Only model-checked.**  The liveness properties of the broker, of the permission module
(`SlotSettles`) and of the composition: liveness under fairness is out of the prover's
reach.  One function property: `CallsGoToInnermost` rests on `RECURSIVE` operators,
which no module with a theorem may reach.  And what the two
hypotheses above exclude: the runs check `MasterAgrees` without lost reports and
`ClarifyBound` without questions, and no more is claimed of them.  The other properties of the passing runs are theorems.

## 6. Not modelled

`PROJECT.json` lists every component with the reason.  In short:

- the UI's rendering, the fleet view model, prompt texts, configuration, paths and
  logging hold no state another part depends on;
- the herdr driver, the embedding backend, the LLMs, git and tree-sitter are
  external: the models see their results and failures;
- test mode is a scripted double of the system, calibration and the maintenance
  scripts run offline;
- the master's clarification relay and read-only queries, the broker's status sender
  and log queries, task activity and budget figures on the master's records.

Behaviours the models leave out although the code has them: calls of one broker's main
task that the master handles in another order than they were sent (each has its own
connection; two are outstanding only after the first one timed out, `runtime.py:703`),
where `Supervision` keeps the order; the approved prompt dropped before the spawn's
await (`runtime.py:982`; `RespawnFinish` drops it after); a message handled between
attach's check of the broker and its retractions (`runtime.py:1027`; `AttachStart` is
both); a pane submission that
is reported failed but had landed, which is then decided and typed again; two
questions of one menu with the same text, whose answers share one key; a variable
declaration with several declarators, each function of which gets all its calls
(`symbol_extraction.py:282`; the operator `AssignedFunctions` does so, but no input of
the run has one, and `CallsGoToInnermost` is claimed of the others only); the hook's read timeout, which is per `recv`, so that
a reply in parts may take longer; trust lost between seeding and the start of Claude
Code (`runtime.py:946`); a session whose working directory is first seen after
startup, which is not checked for shadowing.

--------------------------- MODULE PermissionModule ---------------------------
(***************************************************************************)
(* The permission module of one session (src/broker/permission/module.py): *)
(* it judges the tool calls the native rules leave open, logs each         *)
(* decision, and holds at most one escalation with the master.             *)
(*                                                                         *)
(* Every hook is answered in a task of its own, so calls are judged side   *)
(* by side.  Raises and retractions leave the decision path: each is a     *)
(* task that sends one or two requests to the master, one at a time, every *)
(* request on a connection of its own.  Requests of different tasks        *)
(* therefore overtake each other, and one whose sender gave up may still   *)
(* be handled.  The master is its slot for this session's permission       *)
(* escalation; the session is what becomes of each of its calls.           *)
(***************************************************************************)
EXTENDS Naturals, Sequences, FiniteSets

CONSTANTS
  MaxCalls,  \* bound on the permission requests of the session
  Kinds,     \* calls c and c + Kinds are the same tool with the same input
  Parallel,  \* calls the session may be blocked on at once
  Failures   \* what may fail: "llm", "log", "hook" (one is lost), "master", and
             \* "drop": the master gives up on a session whose broker lives on

ASSUME PermissionAssumption ==
  MaxCalls \in Nat /\ Kinds \in Nat \ {0} /\ Parallel \in Nat

Calls == 1 .. MaxCalls

VARIABLES
  call,     \* the session's view of each call
  judging,  \* calls whose decide awaits the classifier
  log,      \* the permission log: the decision recorded for each call
  live,     \* _live: the call whose escalation holds the slot, 0 for none
  tasks,    \* _tasks: for each, the requests left to send; it awaits the first
  wire,     \* requests on their way to the master
  replies,  \* answers on their way to the task that awaits them
  held,     \* the master's permission escalations of this session
  dropped,  \* history, read by no guard: those the master dropped by itself
  stage     \* "running", "ended" (SessionEnd), "reported" to the master, "exited"

vars == <<call, judging, log, live, tasks, wire, replies, held, dropped, stage>>

Request(op, c) == [op |-> op, id |-> c]
Requests       == [op : {"raise", "retract"}, id : Calls]
SameCall(c, d) == c % Kinds = d % Kinds          \* equal _call_key
Blocking       == {c \in Calls : call[c] \in {"asked", "prompted"}}
May(failure)   == {TRUE} \cup (IF failure \in Failures THEN {FALSE} ELSE {})

Init ==
  /\ call = [c \in Calls |-> "new"] /\ log = [c \in Calls |-> "none"]
  /\ judging = {} /\ live = 0 /\ tasks = {} /\ wire = {} /\ replies = {} /\ held = {}
  /\ dropped = {} /\ stage = "running"

-----------------------------------------------------------------------------
(* Sends off the decision path.                                            *)

\* _spawn: the task sends its first request.
Spawn(todo) == tasks' = tasks \cup {todo} /\ wire' = wire \cup {todo[1]}

\* _raise and _supersede_then_send: the slot is claimed at once, the escalation
\* it held is retracted first, by the same task.
Raise(c) ==
  /\ live' = c
  /\ Spawn(IF live = 0 THEN <<Request("raise", c)>>
           ELSE <<Request("retract", live), Request("raise", c)>>)

\* _retract: the slot is released at once.
Retract == live' = 0 /\ Spawn(<<Request("retract", live)>>)

\* note_tool_completed, note_developer_input, note_session_ended.
Note(settles) ==
  IF live # 0 /\ settles THEN Retract ELSE UNCHANGED <<live, tasks, wire>>

\* Mutant of Release: a refused raise keeps the slot.
KeepSlot(request) == live

\* _release, after a raise that was refused or got no answer.
Release(request) == IF request = Request("raise", live) THEN 0 ELSE live

\* The task's first request is over: on to the next.
Advance(t, sent) ==
  /\ tasks' = (tasks \ {t}) \cup (IF Tail(t) = << >> THEN {} ELSE {Tail(t)})
  /\ wire' = sent \cup (IF Tail(t) = << >> THEN {} ELSE {t[2]})

\* The master's answer arrives.
Replied(t) ==
  \E r \in replies :
    /\ r.request = t[1]
    /\ replies' = replies \ {r}
    /\ live' = IF r.ok THEN live ELSE Release(t[1])
    /\ Advance(t, wire)
    /\ UNCHANGED <<call, judging, log, held, dropped, stage>>

\* _send: unreachable, or no answer within MASTER_TIMEOUT_S; a request already
\* on its way may be handled all the same.
SendFails(t) ==
  /\ "master" \in Failures
  /\ live' = Release(t[1])
  /\ replies' = {r \in replies : r.request # t[1]}
  /\ \E sent \in {wire, wire \ {t[1]}} : Advance(t, sent)
  /\ UNCHANGED <<call, judging, log, held, dropped, stage>>

-----------------------------------------------------------------------------
(* The master.                                                             *)

\* PaneEscalations.accept: one per session.
Accepts(c) == held = {}

\* A raise is refused while another is shown, or when the registry no longer knows
\* the session; a retraction is acknowledged whatever it finds.
Handle(request) ==
  /\ request \in wire
  /\ wire' = wire \ {request}
  /\ \E known \in May("drop") :
       LET ok == request.op = "retract" \/ (known /\ Accepts(request.id)) IN
       /\ held' = IF request.op = "retract" THEN held \ {request.id}
                  ELSE IF ok THEN held \cup {request.id} ELSE held
       /\ replies' = IF \E t \in tasks : t[1] = request
                     THEN replies \cup {[request |-> request, ok |-> ok]}
                     ELSE replies
  /\ UNCHANGED <<call, judging, log, live, tasks, dropped, stage>>

\* _retract_stranded_pane_escalations: on the broker's report of a fatal error, or
\* a registry that finds no broker.  The module is not told, and its slot stays
\* claimed for an escalation the developer no longer sees.
MasterDrops ==
  /\ "drop" \in Failures /\ held # {}
  /\ held' = {} /\ dropped' = dropped \cup held
  /\ UNCHANGED <<call, judging, log, live, tasks, wire, replies, stage>>

-----------------------------------------------------------------------------
(* The calls.                                                              *)

\* PermissionRequest: the hook waits.  decide logs a call of AskUserQuestion
\* and hands it back at once; any other goes to the classifier.
Asked(c) ==
  /\ stage = "running" /\ call[c] = "new" /\ \A d \in Calls : d < c => call[d] # "new"
  /\ Cardinality(Blocking) < Parallel
  /\ \/ /\ call' = [call EXCEPT ![c] = "asked"] /\ judging' = judging \cup {c}
        /\ UNCHANGED log
     \/ /\ call' = [call EXCEPT ![c] = "prompted"]
        /\ \E logged \in May("log") :
             log' = IF logged THEN [log EXCEPT ![c] = "escalated"] ELSE log
        /\ UNCHANGED judging
  /\ UNCHANGED <<live, tasks, wire, replies, held, dropped, stage>>

\* The hook gives up before the broker has decided (HOOK_WAIT_SECONDS): the
\* native prompt opens.
HookTimesOut(c) ==
  /\ stage = "running" /\ call[c] = "asked"
  /\ call' = [call EXCEPT ![c] = "prompted"]
  /\ UNCHANGED <<judging, log, live, tasks, wire, replies, held, dropped, stage>>

\* Mutant of Proceeds: an error while logging is swallowed.
LogErrorSwallowed(logged) == TRUE

\* An error while logging leaves decide: no raise, and the hook gets no reply.
Proceeds(logged) == logged

\* decide once the classifier has answered, or failed, which escalates without a
\* raise.  The reply reaches the hook if it still waits.
Judged(c, verdict) ==
  /\ c \in judging
  /\ verdict = "failed" => "llm" \in Failures
  /\ judging' = judging \ {c}
  /\ \E logged \in May("log") :
       /\ log' = IF ~logged THEN log
                 ELSE [log EXCEPT ![c] = IF verdict = "allow" THEN "allow" ELSE "escalated"]
       /\ call' = IF call[c] # "asked" THEN call
                  ELSE [call EXCEPT ![c] = IF verdict = "allow" /\ Proceeds(logged)
                                           THEN "allowed" ELSE "prompted"]
       /\ IF verdict = "escalate" /\ Proceeds(logged) THEN Raise(c)
          ELSE UNCHANGED <<live, tasks, wire>>
  /\ UNCHANGED <<replies, held, dropped, stage>>

\* The developer answers the native prompt.
Answered(c, approved) ==
  /\ stage = "running" /\ call[c] = "prompted"
  /\ call' = [call EXCEPT ![c] = IF approved THEN "approved" ELSE "denied"]
  /\ UNCHANGED <<judging, log, live, tasks, wire, replies, held, dropped, stage>>

\* The call has run: PostToolUse, unless it is lost.
Completed(c) ==
  /\ stage = "running" /\ call[c] \in {"allowed", "approved"}
  /\ call' = [call EXCEPT ![c] = "done"]
  /\ \E delivered \in May("hook") : Note(delivered /\ SameCall(live, c))
  /\ UNCHANGED <<judging, log, replies, held, dropped, stage>>

\* UserPromptSubmit, when no call blocks the session.
DeveloperInput ==
  /\ stage = "running" /\ Blocking = {} /\ live # 0
  /\ Note(TRUE)
  /\ UNCHANGED <<call, judging, log, replies, held, dropped, stage>>

\* SessionEnd.
SessionEnds ==
  /\ stage = "running"
  /\ stage' = "ended"
  /\ Note(TRUE)
  /\ UNCHANGED <<call, judging, log, replies, held, dropped>>

\* _on_session_end: the master drops what it holds of the session, if told.
EndReported ==
  /\ stage = "ended"
  /\ stage' = "reported"
  /\ \E told \in May("master") : held' = IF told THEN {} ELSE held
  /\ UNCHANGED <<call, judging, log, live, tasks, wire, replies, dropped>>

\* The process exits with its tasks; requests already written may be handled.
Exit ==
  /\ stage = "reported"
  /\ stage' = "exited" /\ tasks' = {} /\ judging' = {} /\ replies' = {}
  /\ UNCHANGED <<call, log, live, wire, held, dropped>>

-----------------------------------------------------------------------------
Session ==
  \/ DeveloperInput \/ SessionEnds \/ EndReported \/ Exit
  \/ \E c \in Calls :
       \/ Asked(c) \/ HookTimesOut(c) \/ Completed(c)
       \/ \E v \in {"allow", "escalate", "failed"} : Judged(c, v)
       \/ \E approved \in BOOLEAN : Answered(c, approved)

SendEnds == \E t \in tasks : Replied(t) \/ SendFails(t)
Handles  == \E request \in Requests : Handle(request)

Next == Session \/ SendEnds \/ Handles \/ MasterDrops

Spec == Init /\ [][Next]_vars

\* The master serves its socket, and an awaited request ends, by the answer or
\* by its timeout.
FairSpec == Spec /\ WF_vars(SendEnds) /\ WF_vars(Handles)

-----------------------------------------------------------------------------
(* Properties.                                                             *)

TypeOK ==
  /\ call \in [Calls -> {"new", "asked", "prompted", "allowed", "approved", "denied", "done"}]
  /\ judging \subseteq Calls /\ log \in [Calls -> {"none", "allow", "escalated"}]
  /\ live \in Calls \cup {0}
  /\ tasks \subseteq
       {<<r>> : r \in Requests}
         \cup {<<Request("retract", d), Request("raise", c)>> : d \in Calls, c \in Calls}
  /\ wire \subseteq Requests /\ replies \subseteq [request : Requests, ok : BOOLEAN]
  /\ held \subseteq Calls /\ dropped \subseteq Calls
  /\ stage \in {"running", "ended", "reported", "exited"}

\* "A command that runs is never a command with no record", and no escalation
\* reaches the developer without one: the log comes before the reply and the raise.
OnRecord ==
  /\ \A c \in Calls : call[c] = "allowed" => log[c] = "allow"
  /\ \A c \in held \cup ({live} \ {0}) : log[c] = "escalated"

\* The slot is claimed only for an escalation the master shows, is still being told
\* of, or showed and dropped by itself ("the slot must not stay claimed"): whatever
\* is refused, lost, late or overtaken, a later call is free to raise.
SlotIsShown ==
  /\ live # 0 /\ stage \in {"running", "ended"}
  /\ \A t \in tasks : \A i \in DOMAIN t : t[i] # Request("raise", live)
  => live \in held \cup dropped

\* A claimed slot is shown in the end, or given up, while the session lasts and the
\* master has not dropped its escalation.
SlotSettles ==
  \A c \in Calls :
    live = c ~> (c \in held \cup dropped \/ live # c \/ stage \in {"reported", "exited"})

-----------------------------------------------------------------------------
(* What the source says that the module does not keep.                     *)

\* "Retracted rather than orphaned in the master's slot"
\* (test_second_escalation_supersedes_the_first): a retraction overtakes the raise
\* it is about, and the escalation stays for good, in the way of every later one.
NoOrphan == stage = "running" /\ tasks = {} /\ wire = {} => held \subseteq {live}

\* "Retract the live escalation when its own tool call has finished"
\* (note_tool_completed): a verdict that comes after the hook gave up is raised
\* for a call that is over.
NotForFinished ==
  stage = "running" /\ tasks = {} /\ wire = {} => \A c \in held : call[c] # "done"
=============================================================================

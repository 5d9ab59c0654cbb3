------------------------ MODULE PermissionModuleProofs ------------------------
(***************************************************************************)
(* Proofs about PermissionModule, for any number of calls, any parallelism *)
(* and any failures.                                                       *)
(*                                                                         *)
(* A slot is claimed for a call just judged, and no request about that     *)
(* call exists yet: every request is about a call already on record        *)
(* (Recorded).  From then on nothing but the module's own retraction, which*)
(* releases the slot (Unretracted), and the master's own dropping, which   *)
(* dropped remembers, takes the escalation from the master.                *)
(***************************************************************************)
EXTENDS PermissionModule, TLAPS

Todo == {<<r>> : r \in Requests}
          \cup {<<Request("retract", d), Request("raise", c)>> : d \in Calls, c \in Calls}

\* Every request, wherever it is, is about a call logged as escalated.
OnLog(request) == log[request.id] = "escalated"
Recorded ==
  /\ \A c \in judging : log[c] = "none"
  /\ \A c \in Calls : call[c] = "new" => log[c] = "none" /\ c \notin judging
  /\ \A t \in tasks : \A i \in DOMAIN t : OnLog(t[i])
  /\ \A r \in wire : OnLog(r)
  /\ \A r \in replies : OnLog(r.request)

\* The escalation that holds the slot is not being retracted.
Unretracted ==
  live # 0 => /\ Request("retract", live) \notin wire
              /\ \A t \in tasks : \A i \in DOMAIN t : t[i] # Request("retract", live)

\* An escalation the master answered for is one it shows.
AnswerTold ==
  \A r \in replies :
    r.ok /\ r.request = Request("raise", live) /\ stage \in {"running", "ended"}
      => live \in held \cup dropped

IInv == TypeOK /\ OnRecord /\ Recorded /\ Unretracted /\ AnswerTold /\ SlotIsShown

-----------------------------------------------------------------------------
(* Requests and the tasks that send them.                                  *)

\* A request tells what it is about.
LEMMA RequestParts ==
  /\ \A op \in {"raise", "retract"}, c \in Calls :
       Request(op, c) \in Requests /\ Request(op, c).op = op /\ Request(op, c).id = c
  /\ \A c, d : Request("raise", c) = Request("raise", d) => c = d
  /\ \A c, d : Request("retract", c) = Request("retract", d) => c = d
  /\ \A c, d : Request("raise", c) # Request("retract", d)
  /\ \A r \in Requests : r.id \in Calls /\ r.op \in {"raise", "retract"}
BY DEF Request, Requests

\* Calls are numbered from 1.
LEMMA NoCallZero == 0 \notin Calls
BY DEF Calls

\* A task sends one request, or a retraction and then a raise.
LEMMA TodoParts ==
  ASSUME NEW t \in Todo
  PROVE  /\ t \in Seq(Requests) /\ t # << >> /\ 1 \in DOMAIN t /\ t[1] \in Requests
         /\ \A i \in DOMAIN t : t[i] \in Requests
         /\ \/ Tail(t) = << >> /\ DOMAIN t = {1}
            \/ /\ Tail(t) = <<t[2]>> /\ DOMAIN t = {1, 2} /\ t[2] \in Requests
               /\ Tail(t) \in Todo /\ Tail(t) # << >>
<1>1. CASE \E r \in Requests : t = <<r>>
  BY <1>1
<1>2. CASE \E c, d \in Calls : t = <<Request("retract", d), Request("raise", c)>>
  <2>1. PICK c \in Calls, d \in Calls : t = <<Request("retract", d), Request("raise", c)>>
    BY <1>2
  <2>2. Request("retract", d) \in Requests /\ Request("raise", c) \in Requests
    BY RequestParts
  <2> DEFINE q == Request("retract", d)
             r == Request("raise", c)
  <2>3. t = <<q, r>> /\ q \in Requests /\ r \in Requests
    BY <2>1, <2>2
  <2> HIDE DEF q, r
  <2>4. Tail(t) = <<r>> /\ t[1] = q /\ t[2] = r /\ DOMAIN t = {1, 2}
    BY <2>3
  <2>5. <<r>> \in Todo
    BY <2>3 DEF Todo
  <2> QED
    BY <2>3, <2>4, <2>5
<1> QED
  BY <1>1, <1>2 DEF Todo

\* What Spawn is given.
LEMMA SpawnType ==
  ASSUME NEW todo \in Todo, tasks \subseteq Todo, wire \subseteq Requests, Spawn(todo)
  PROVE  tasks' \subseteq Todo /\ wire' \subseteq Requests
BY TodoParts DEF Spawn

\* TypeOK, with Todo named.
LEMMA Types ==
  TypeOK <=> /\ call \in [Calls -> {"new", "asked", "prompted", "allowed", "approved",
                                    "denied", "done"}]
             /\ judging \subseteq Calls /\ log \in [Calls -> {"none", "allow", "escalated"}]
             /\ live \in Calls \cup {0} /\ tasks \subseteq Todo /\ wire \subseteq Requests
             /\ replies \subseteq [request : Requests, ok : BOOLEAN]
             /\ held \subseteq Calls /\ dropped \subseteq Calls
             /\ stage \in {"running", "ended", "reported", "exited"}
BY DEF TypeOK, Todo

-----------------------------------------------------------------------------
(* The initial state.                                                      *)

LEMMA InitKeeps == Init => IInv
<1> SUFFICES ASSUME Init PROVE IInv
  OBVIOUS
<1>1. TypeOK
  BY Types DEF Init
<1>2. OnRecord /\ Recorded /\ Unretracted /\ AnswerTold /\ SlotIsShown
  BY DEF Init, OnRecord, Recorded, Unretracted, AnswerTold, SlotIsShown
<1> QED
  BY <1>1, <1>2 DEF IInv

-----------------------------------------------------------------------------
(* The calls.                                                              *)

\* A call the broker is not judging may be asked, prompted, answered.
LEMMA CallKeeps ==
  ASSUME IInv, NEW c \in Calls,
         Asked(c) \/ HookTimesOut(c) \/ (\E approved \in BOOLEAN : Answered(c, approved))
  PROVE  IInv'
<1>1. UNCHANGED <<live, tasks, wire, replies, held, dropped, stage>>
  BY DEF Asked, HookTimesOut, Answered
<1>2. log' = log \/ (call[c] = "new" /\ log' = [log EXCEPT ![c] = "escalated"])
  BY DEF Asked, HookTimesOut, Answered
<1>3. /\ call' \in [Calls -> {"new", "asked", "prompted", "allowed", "approved", "denied",
                              "done"}]
      /\ \A d \in Calls : d # c => call'[d] = call[d]
      /\ call'[c] \notin {"new", "allowed"}
      /\ judging' = judging \/ (call[c] = "new" /\ judging' = judging \cup {c} /\ log' = log)
  BY Types DEF IInv, Asked, HookTimesOut, Answered
<1>4. log \in [Calls -> {"none", "allow", "escalated"}] /\ judging \subseteq Calls
  BY Types DEF IInv
<1>5. \A d \in Calls : /\ log'[d] = log[d] \/ (log[d] = "none" /\ d = c /\ c \notin judging
                                               /\ judging' = judging)
                       /\ log[d] = "escalated" => log'[d] = "escalated"
  BY <1>2, <1>3, <1>4 DEF IInv, Recorded
<1>6. TypeOK'
  BY <1>1, <1>2, <1>3, <1>4 DEF IInv, TypeOK
<1>7. OnRecord'
  <2>1. held \subseteq Calls /\ live \in Calls \cup {0}
    BY Types DEF IInv
  <2>2. \A d \in Calls : call'[d] = "allowed" => log'[d] = "allow"
    <3> SUFFICES ASSUME NEW d \in Calls, call'[d] = "allowed" PROVE log'[d] = "allow"
      OBVIOUS
    <3>1. d # c /\ log[d] = "allow"
      BY <1>3 DEF IInv, OnRecord
    <3> QED
      BY <1>5, <3>1
  <2> QED
    BY <1>1, <1>5, <2>1, <2>2 DEF IInv, OnRecord
<1>8. Recorded'
  <2>1. /\ \A t \in tasks : \A i \in DOMAIN t : t[i].id \in Calls
        /\ \A r \in wire : r.id \in Calls
        /\ \A r \in replies : r.request.id \in Calls
    BY Types, TodoParts, RequestParts DEF IInv
  <2>2. \A d \in judging' : log'[d] = "none"
    BY <1>2, <1>3, <1>4, <1>5 DEF IInv, Recorded
  <2>3. \A d \in Calls : call'[d] = "new" => log'[d] = "none" /\ d \notin judging'
    BY <1>3, <1>5 DEF IInv, Recorded
  <2> QED
    BY <1>1, <1>5, <2>1, <2>2, <2>3 DEF IInv, Recorded, OnLog
<1>9. Unretracted' /\ AnswerTold' /\ SlotIsShown'
  BY <1>1 DEF IInv, Unretracted, AnswerTold, SlotIsShown
<1> QED
  BY <1>6, <1>7, <1>8, <1>9 DEF IInv

\* No request is about a call that is being judged.
LEMMA NoneYet ==
  ASSUME IInv, NEW c \in judging
  PROVE  /\ c # live /\ c \notin held
         /\ \A t \in tasks : \A i \in DOMAIN t : t[i].id # c
         /\ \A r \in wire : r.id # c
         /\ \A r \in replies : r.request.id # c
BY NoCallZero, Types DEF IInv, OnRecord, Recorded, OnLog

\* A verdict.
LEMMA JudgedKeeps ==
  ASSUME IInv, NEW c \in Calls, NEW verdict \in {"allow", "escalate", "failed"},
         Judged(c, verdict)
  PROVE  IInv'
<1> DEFINE decision == IF verdict = "allow" THEN "allow" ELSE "escalated"
<1>1. c \in judging /\ judging' = judging \ {c} /\ UNCHANGED <<replies, held, dropped, stage>>
  BY DEF Judged
<1>2. PICK logged \in BOOLEAN :
        /\ log' = IF ~logged THEN log ELSE [log EXCEPT ![c] = decision]
        /\ call' = IF call[c] # "asked" THEN call
                   ELSE [call EXCEPT ![c] = IF verdict = "allow" /\ logged
                                            THEN "allowed" ELSE "prompted"]
        /\ IF verdict = "escalate" /\ logged THEN Raise(c)
           ELSE UNCHANGED <<live, tasks, wire>>
  BY DEF Judged, May, Proceeds
<1>3. log \in [Calls -> {"none", "allow", "escalated"}] /\ log[c] = "none"
      /\ judging \subseteq Calls
  BY <1>1, Types DEF IInv, Recorded
<1>4. /\ log' \in [Calls -> {"none", "allow", "escalated"}]
      /\ \A d \in Calls : d # c => log'[d] = log[d]
      /\ logged => log'[c] = decision
  BY <1>2, <1>3
<1>5. /\ call' \in [Calls -> {"new", "asked", "prompted", "allowed", "approved", "denied",
                              "done"}]
      /\ \A d \in Calls : d # c => call'[d] = call[d]
      /\ call'[c] = "allowed" => call[c] = "allowed" \/ (verdict = "allow" /\ logged)
      /\ call'[c] = "new" => call[c] = "new"
  BY <1>2, Types DEF IInv
<1>6. \A d \in Calls : log[d] = "escalated" => log'[d] = "escalated" /\ d # c
  BY <1>3, <1>4
<1>7. /\ \A t \in tasks : \A i \in DOMAIN t : t[i].id \in Calls
      /\ \A r \in wire : r.id \in Calls
      /\ \A r \in replies : r.request.id \in Calls
  BY Types, TodoParts, RequestParts DEF IInv
<1>8. /\ \A t \in tasks : \A i \in DOMAIN t : log'[t[i].id] = "escalated"
      /\ \A r \in wire : log'[r.id] = "escalated"
      /\ \A r \in replies : log'[r.request.id] = "escalated"
  BY <1>6, <1>7 DEF IInv, Recorded, OnLog
<1>9. \A d \in Calls : call'[d] = "allowed" => log'[d] = "allow"
  BY <1>3, <1>4, <1>5 DEF IInv, OnRecord
<1>10. \A d \in held \cup ({live} \ {0}) : log'[d] = "escalated"
  BY <1>6, Types DEF IInv, OnRecord
<1>11. /\ \A d \in judging' : log'[d] = "none"
       /\ \A d \in Calls : call'[d] = "new" => log'[d] = "none" /\ d \notin judging'
  BY <1>1, <1>3, <1>4, <1>5 DEF IInv, Recorded
<1>12. CASE ~(verdict = "escalate" /\ logged)
  <2>1. UNCHANGED <<live, tasks, wire>>
    BY <1>2, <1>12
  <2>2. TypeOK'
    BY <1>1, <1>4, <1>5, <2>1 DEF IInv, TypeOK
  <2>3. OnRecord' /\ Recorded'
    BY <1>1, <1>8, <1>9, <1>10, <1>11, <2>1 DEF OnRecord, Recorded, OnLog
  <2>4. Unretracted' /\ AnswerTold' /\ SlotIsShown'
    BY <1>1, <2>1 DEF IInv, Unretracted, AnswerTold, SlotIsShown
  <2> QED
    BY <2>2, <2>3, <2>4 DEF IInv
<1>13. CASE verdict = "escalate" /\ logged
  <2> DEFINE todo == IF live = 0 THEN <<Request("raise", c)>>
                     ELSE <<Request("retract", live), Request("raise", c)>>
  <2>1. live' = c /\ Spawn(todo) /\ log'[c] = "escalated"
    BY <1>2, <1>4, <1>13 DEF Raise
  <2>2. /\ todo \in Todo /\ \E i \in DOMAIN todo : todo[i] = Request("raise", c)
        /\ \A i \in DOMAIN todo :
             todo[i] = Request("raise", c)
             \/ (live # 0 /\ todo[i] = Request("retract", live))
    <3>1. Request("raise", c) \in Requests /\ live \in Calls \cup {0}
      BY RequestParts, Types DEF IInv
    <3>2. CASE live = 0
      <4>1. todo = <<Request("raise", c)>>
        BY <3>2
      <4> QED
        BY <3>1, <4>1 DEF Todo
    <3>3. CASE live # 0
      <4>1. todo = <<Request("retract", live), Request("raise", c)>>
        BY <3>3
      <4>2. DOMAIN todo = {1, 2} /\ todo[2] = Request("raise", c)
            /\ todo[1] = Request("retract", live)
        BY <4>1
      <4> QED
        BY <3>1, <3>3, <4>1, <4>2 DEF Todo
    <3> QED
      BY <3>2, <3>3
  <2> HIDE DEF todo
  <2>3. tasks' = tasks \cup {todo} /\ wire' = wire \cup {todo[1]}
    BY <2>1 DEF Spawn
  <2>4. 1 \in DOMAIN todo
    BY <2>2, TodoParts
  <2>5. TypeOK'
    <3>1. tasks' \subseteq Todo /\ wire' \subseteq Requests
      BY <2>1, <2>2, SpawnType, Types DEF IInv
    <3> QED
      BY <1>1, <1>4, <1>5, <2>1, <3>1 DEF IInv, TypeOK, Todo
  <2>6. live # 0 => log'[live] = "escalated"
    BY <1>10
  <2>7. live \in Calls \cup {0}
    BY Types DEF IInv
  <2>8. \A i \in DOMAIN todo : log'[todo[i].id] = "escalated"
    BY <2>1, <2>2, <2>6, <2>7, RequestParts
  <2>9. OnRecord'
    BY <1>1, <1>9, <1>10, <2>1 DEF OnRecord
  <2>10. Recorded'
    BY <1>1, <1>8, <1>11, <2>3, <2>4, <2>8 DEF Recorded, OnLog
  <2>11. Unretracted'
    <3>1. \A i \in DOMAIN todo : todo[i] # Request("retract", c)
      BY <1>1, <2>2, NoneYet, RequestParts
    <3>2. /\ \A t \in tasks : \A i \in DOMAIN t : t[i] # Request("retract", c)
          /\ Request("retract", c) \notin wire
      BY <1>1, NoneYet, RequestParts
    <3> QED
      BY <2>1, <2>3, <2>4, <3>1, <3>2 DEF Unretracted
  <2>12. AnswerTold'
    <3>1. \A r \in replies : r.request # Request("raise", c)
      BY <1>1, NoneYet, RequestParts
    <3> QED
      BY <1>1, <2>1, <3>1 DEF AnswerTold
  <2>13. SlotIsShown'
    BY <2>1, <2>2, <2>3 DEF SlotIsShown
  <2> QED
    BY <2>5, <2>9, <2>10, <2>11, <2>12, <2>13 DEF IInv
<1> QED
  BY <1>12, <1>13

\* A signal retracts the escalation that holds the slot, or changes nothing.
LEMMA NoteKeeps ==
  ASSUME IInv, NEW settles \in BOOLEAN, Note(settles),
         UNCHANGED <<log, judging, replies, held, dropped>>,
         call' \in [Calls -> {"new", "asked", "prompted", "allowed", "approved", "denied",
                              "done"}],
         \A c \in Calls : call'[c] \in {"new", "allowed"} => call[c] = call'[c],
         stage' \in {stage, "ended"}, stage = "running"
  PROVE  IInv'
<1>1. \/ UNCHANGED <<live, tasks, wire>>
      \/ /\ live # 0 /\ live' = 0 /\ tasks' = tasks \cup {<<Request("retract", live)>>}
         /\ wire' = wire \cup {Request("retract", live)}
  BY DEF Note, Retract, Spawn
<1>2. TypeOK /\ OnRecord /\ Recorded /\ Unretracted /\ AnswerTold /\ SlotIsShown
  BY DEF IInv
<1>3. (\A c \in judging' : log'[c] = "none")
      /\ \A c \in Calls : call'[c] = "new" => log'[c] = "none" /\ c \notin judging'
  BY <1>2 DEF Recorded
<1>4. \A c \in Calls : call'[c] = "allowed" => log'[c] = "allow"
  BY <1>2 DEF OnRecord
<1>5. CASE UNCHANGED <<live, tasks, wire>>
  <2>1. TypeOK'
    BY <1>2, <1>5 DEF TypeOK
  <2>2. OnRecord' /\ Recorded'
    BY <1>2, <1>3, <1>4, <1>5 DEF OnRecord, Recorded, OnLog
  <2>3. Unretracted' /\ AnswerTold' /\ SlotIsShown'
    BY <1>2, <1>5 DEF Unretracted, AnswerTold, SlotIsShown
  <2> QED
    BY <2>1, <2>2, <2>3 DEF IInv
<1>6. CASE /\ live # 0 /\ live' = 0 /\ tasks' = tasks \cup {<<Request("retract", live)>>}
           /\ wire' = wire \cup {Request("retract", live)}
  <2>1. live \in Calls /\ Request("retract", live) \in Requests
        /\ Request("retract", live).id = live
    BY <1>2, <1>6, RequestParts DEF TypeOK
  <2>2. tasks' \subseteq Todo
    BY <1>2, <1>6, <2>1, Types DEF Todo
  <2>3. TypeOK'
    BY <1>2, <1>6, <2>1, <2>2 DEF TypeOK, Todo
  <2>4. OnRecord'
    BY <1>2, <1>4, <1>6 DEF OnRecord
  <2>5. Recorded'
    <3>1. log[live] = "escalated"
      BY <1>2, <1>6 DEF OnRecord
    <3>2. \A t \in tasks' : \A i \in DOMAIN t : log[t[i].id] = "escalated"
      BY <1>2, <1>6, <2>1, <3>1 DEF Recorded, OnLog
    <3>3. \A r \in wire' : log[r.id] = "escalated"
      BY <1>2, <1>6, <2>1, <3>1 DEF Recorded, OnLog
    <3> QED
      BY <1>2, <1>3, <3>2, <3>3 DEF Recorded, OnLog
  <2>6. AnswerTold'
    <3>1. \A r \in replies : r.request # Request("raise", 0)
      BY <1>2, NoCallZero, RequestParts DEF TypeOK, Request, Requests
    <3> QED
      BY <1>6, <3>1 DEF AnswerTold
  <2>7. Unretracted' /\ SlotIsShown'
    BY <1>6 DEF Unretracted, SlotIsShown
  <2> QED
    BY <2>3, <2>4, <2>5, <2>6, <2>7 DEF IInv
<1> QED
  BY <1>1, <1>5, <1>6

\* The three signals.
LEMMA SignalKeeps ==
  ASSUME IInv, DeveloperInput \/ SessionEnds \/ \E c \in Calls : Completed(c)
  PROVE  IInv'
<1>1. CASE DeveloperInput
  <2>1. /\ stage = "running" /\ stage' = stage /\ Note(TRUE) /\ call' = call
        /\ UNCHANGED <<log, judging, replies, held, dropped>>
    BY <1>1 DEF DeveloperInput
  <2>2. /\ call' \in [Calls -> {"new", "asked", "prompted", "allowed", "approved", "denied",
                                "done"}]
        /\ \A c \in Calls : call'[c] \in {"new", "allowed"} => call[c] = call'[c]
    BY <2>1 DEF IInv, TypeOK
  <2>3. TRUE \in BOOLEAN
    OBVIOUS
  <2> QED
    BY <2>1, <2>2, <2>3, NoteKeeps
<1>2. CASE SessionEnds
  <2>1. /\ stage = "running" /\ stage' = "ended" /\ Note(TRUE) /\ call' = call
        /\ UNCHANGED <<log, judging, replies, held, dropped>>
    BY <1>2 DEF SessionEnds
  <2>2. /\ call' \in [Calls -> {"new", "asked", "prompted", "allowed", "approved", "denied",
                                "done"}]
        /\ \A c \in Calls : call'[c] \in {"new", "allowed"} => call[c] = call'[c]
    BY <2>1 DEF IInv, TypeOK
  <2>3. TRUE \in BOOLEAN
    OBVIOUS
  <2> QED
    BY <2>1, <2>2, <2>3, NoteKeeps
<1>3. ASSUME NEW c \in Calls, Completed(c) PROVE IInv'
  <2>1. PICK delivered \in BOOLEAN : Note(delivered /\ SameCall(live, c))
    BY <1>3 DEF Completed, May
  <2>2. /\ stage = "running" /\ stage' = stage /\ UNCHANGED <<log, judging, replies, held, dropped>>
        /\ call' = [call EXCEPT ![c] = "done"]
    BY <1>3 DEF Completed
  <2>3. (delivered /\ SameCall(live, c)) \in BOOLEAN
    OBVIOUS
  <2>4. call \in [Calls -> {"new", "asked", "prompted", "allowed", "approved", "denied",
                            "done"}]
    BY DEF IInv, TypeOK
  <2>5. /\ call' \in [Calls -> {"new", "asked", "prompted", "allowed", "approved", "denied",
                                "done"}]
        /\ \A d \in Calls : call'[d] \in {"new", "allowed"} => call[d] = call'[d]
    BY <2>2, <2>4
  <2> QED
    BY <2>1, <2>2, <2>3, <2>5, NoteKeeps
<1> QED
  BY <1>1, <1>2, <1>3

\* The end of the session.
LEMMA EndKeeps ==
  ASSUME IInv, EndReported \/ Exit
  PROVE  IInv'
<1>1. /\ UNCHANGED <<call, log, live, wire, dropped>> /\ stage' \in {"reported", "exited"}
      /\ judging' \subseteq judging /\ tasks' \subseteq tasks /\ replies' \subseteq replies
      /\ held' \subseteq held
  BY DEF EndReported, Exit
<1>2. TypeOK /\ OnRecord /\ Recorded /\ Unretracted
  BY DEF IInv
<1>3. TypeOK'
  BY <1>1, <1>2 DEF TypeOK
<1>4. OnRecord' /\ Recorded'
  BY <1>1, <1>2 DEF OnRecord, Recorded, OnLog
<1>5. Unretracted' /\ AnswerTold' /\ SlotIsShown'
  BY <1>1, <1>2 DEF Unretracted, AnswerTold, SlotIsShown
<1> QED
  BY <1>3, <1>4, <1>5 DEF IInv

-----------------------------------------------------------------------------
(* The sends.                                                              *)

\* A task's first request is over: the master's answer came, or nothing will.
LEMMA SendKeeps ==
  ASSUME IInv, NEW t \in tasks, Replied(t) \/ SendFails(t)
  PROVE  IInv'
<1>1. TypeOK /\ OnRecord /\ Recorded /\ Unretracted /\ AnswerTold /\ SlotIsShown
  BY DEF IInv
<1>2. /\ UNCHANGED <<call, judging, log, held, dropped, stage>> /\ replies' \subseteq replies
      /\ live' \in {0, live}
      /\ tasks' = (tasks \ {t}) \cup (IF Tail(t) = << >> THEN {} ELSE {Tail(t)})
      /\ \E sent \in SUBSET wire : wire' = sent \cup (IF Tail(t) = << >> THEN {} ELSE {t[2]})
  BY DEF Replied, SendFails, Advance, Release
<1>3. t[1] = Request("raise", live) => live' = 0
         \/ (\E r \in replies : r.ok /\ r.request = t[1])
  BY DEF Replied, SendFails, Release
<1>4. t \in Todo /\ tasks \subseteq Todo /\ live \in Calls \cup {0}
  BY <1>1, Types
<1>5. \/ Tail(t) = << >> /\ DOMAIN t = {1}
      \/ /\ Tail(t) = <<t[2]>> /\ DOMAIN t = {1, 2} /\ t[2] \in Requests
         /\ Tail(t) \in Todo /\ Tail(t) # << >>
  BY <1>4, TodoParts
<1>6. \A u \in tasks' : \/ u \in tasks
                        \/ /\ u = <<t[2]>> /\ DOMAIN t = {1, 2} /\ DOMAIN u = {1}
                           /\ u[1] = t[2] /\ u \in Todo
  <2>1. DOMAIN <<t[2]>> = {1} /\ <<t[2]>>[1] = t[2]
    OBVIOUS
  <2> QED
    BY <1>2, <1>5, <2>1
<1>7. \A r \in wire' : r \in wire \/ (r = t[2] /\ 2 \in DOMAIN t /\ r \in Requests)
  BY <1>2, <1>5
<1>8. TypeOK'
  <2>1. tasks' \subseteq Todo /\ wire' \subseteq Requests
    BY <1>1, <1>4, <1>6, <1>7 DEF TypeOK
  <2> QED
    BY <1>1, <1>2, <2>1 DEF TypeOK, Todo
<1>9. OnRecord'
  BY <1>1, <1>2 DEF OnRecord
<1>10. Recorded'
  <2>1. \A i \in DOMAIN t : OnLog(t[i])
    BY <1>1 DEF Recorded
  <2>2. \A u \in tasks' : \A i \in DOMAIN u : OnLog(u[i])
    BY <1>1, <1>6, <2>1 DEF Recorded
  <2>3. \A r \in wire' : OnLog(r)
    BY <1>1, <1>7, <2>1 DEF Recorded
  <2> QED
    BY <1>1, <1>2, <2>2, <2>3 DEF Recorded, OnLog
<1>11. Unretracted'
  <2> SUFFICES ASSUME live' # 0
               PROVE  /\ Request("retract", live) \notin wire'
                      /\ \A u \in tasks' : \A i \in DOMAIN u : u[i] # Request("retract", live)
    BY <1>2 DEF Unretracted
  <2>1. /\ Request("retract", live) \notin wire
        /\ \A u \in tasks : \A i \in DOMAIN u : u[i] # Request("retract", live)
    BY <1>1, <1>2 DEF Unretracted
  <2> QED
    BY <1>6, <1>7, <2>1
<1>12. AnswerTold'
  <2>1. \A r \in replies : r.request # Request("raise", 0)
    BY <1>1, NoCallZero DEF TypeOK, Request, Requests
  <2> QED
    BY <1>1, <1>2, <2>1 DEF AnswerTold
<1>13. SlotIsShown'
  <2> SUFFICES ASSUME live' # 0, stage \in {"running", "ended"},
                      \A u \in tasks' : \A i \in DOMAIN u : u[i] # Request("raise", live)
               PROVE  live \in held \cup dropped
    BY <1>2 DEF SlotIsShown
  <2>1. CASE t[1] = Request("raise", live)
    BY <1>1, <1>3, <2>1 DEF AnswerTold
  <2>2. CASE t[1] # Request("raise", live)
    <3>1. \A i \in DOMAIN t : t[i] # Request("raise", live)
      <4>1. CASE DOMAIN t = {1}
        BY <2>2, <4>1
      <4>2. CASE Tail(t) = <<t[2]>> /\ DOMAIN t = {1, 2} /\ Tail(t) # << >>
        <5>1. Tail(t) \in tasks' /\ DOMAIN Tail(t) = {1} /\ Tail(t)[1] = t[2]
          BY <1>2, <4>2
        <5> QED
          BY <2>2, <4>2, <5>1
      <4> QED
        BY <1>5, <4>1, <4>2
    <3>2. \A u \in tasks : \A i \in DOMAIN u : u[i] # Request("raise", live)
      <4> SUFFICES ASSUME NEW u \in tasks, NEW i \in DOMAIN u
                   PROVE  u[i] # Request("raise", live)
        OBVIOUS
      <4>1. CASE u = t
        BY <3>1, <4>1
      <4>2. CASE u # t
        BY <1>2, <4>2
      <4> QED
        BY <4>1, <4>2
    <3>3. live # 0
      BY <1>2
    <3> QED
      BY <1>1, <3>2, <3>3 DEF SlotIsShown
  <2> QED
    BY <2>1, <2>2
<1> QED
  BY <1>8, <1>9, <1>10, <1>11, <1>12, <1>13 DEF IInv

\* The master handles a request.
LEMMA HandleKeeps ==
  ASSUME IInv, NEW request \in Requests, Handle(request)
  PROVE  IInv'
<1>1. TypeOK /\ OnRecord /\ Recorded /\ Unretracted /\ AnswerTold /\ SlotIsShown
  BY DEF IInv
<1>0. PICK known \in BOOLEAN :
        LET ok == request.op = "retract" \/ (known /\ Accepts(request.id)) IN
        /\ held' = IF request.op = "retract" THEN held \ {request.id}
                   ELSE IF ok THEN held \cup {request.id} ELSE held
        /\ replies' = IF \E t \in tasks : t[1] = request
                      THEN replies \cup {[request |-> request, ok |-> ok]}
                      ELSE replies
  BY DEF Handle, May
<1> DEFINE ok == request.op = "retract" \/ (known /\ Accepts(request.id))
<1>2. /\ request \in wire /\ wire' = wire \ {request}
      /\ UNCHANGED <<call, judging, log, live, tasks, dropped, stage>>
      /\ held' = IF request.op = "retract" THEN held \ {request.id}
                 ELSE IF ok THEN held \cup {request.id} ELSE held
      /\ replies' \subseteq replies \cup {[request |-> request, ok |-> ok]}
  BY <1>0 DEF Handle
<1>3. request.id \in Calls /\ request.op \in {"raise", "retract"} /\ ok \in BOOLEAN
      /\ log[request.id] = "escalated"
  BY <1>1, <1>2, RequestParts DEF Recorded, OnLog
<1>4. \/ request.op = "retract" /\ held' = held \ {request.id}
      \/ request.op = "raise" /\ ok /\ held' = held \cup {request.id}
      \/ request.op = "raise" /\ ~ok /\ held' = held
  <2> HIDE DEF ok
  <2> QED
    BY <1>2, <1>3
<1> HIDE DEF ok
<1>5. held' \subseteq held \cup {request.id}
  BY <1>4
<1>6. live # 0 /\ live \in held \cup dropped => live \in held' \cup dropped
  <2>1. request = Request(request.op, request.id)
    BY DEF Request, Requests
  <2>2. live # 0 => request # Request("retract", live)
    BY <1>1, <1>2 DEF Unretracted
  <2> QED
    BY <1>4, <2>1, <2>2
<1>7. TypeOK'
  <2>1. held' \subseteq Calls /\ wire' \subseteq Requests
    BY <1>1, <1>2, <1>3, <1>5 DEF TypeOK
  <2>2. replies' \subseteq [request : Requests, ok : BOOLEAN]
    BY <1>1, <1>2, <1>3 DEF TypeOK
  <2> QED
    BY <1>1, <1>2, <2>1, <2>2 DEF TypeOK
<1>8. OnRecord'
  BY <1>1, <1>2, <1>3, <1>5 DEF OnRecord
<1>9. Recorded'
  <2>1. \A r \in replies' : log[r.request.id] = "escalated"
    BY <1>1, <1>2, <1>3 DEF Recorded, OnLog
  <2> QED
    BY <1>1, <1>2, <2>1 DEF Recorded, OnLog
<1>10. Unretracted'
  BY <1>1, <1>2 DEF Unretracted
<1>11. AnswerTold'
  <2> SUFFICES ASSUME NEW r \in replies', r.ok, r.request = Request("raise", live),
                      stage \in {"running", "ended"}
               PROVE  live \in held' \cup dropped
    BY <1>2 DEF AnswerTold
  <2>1. live # 0
    <3>1. r.request \in Requests
      BY <1>7 DEF TypeOK
    <3> QED
      BY <3>1, NoCallZero DEF Request, Requests
  <2>2. CASE r \in replies
    BY <1>1, <1>6, <2>1, <2>2 DEF AnswerTold
  <2>3. CASE r = [request |-> request, ok |-> ok]
    <3>1. request = Request("raise", live) /\ ok
      BY <2>3
    <3>2. request.id = live /\ request.op = "raise"
      BY <3>1 DEF Request
    <3> QED
      BY <1>4, <3>1, <3>2
  <2> QED
    BY <1>2, <2>2, <2>3
<1>12. SlotIsShown'
  BY <1>1, <1>2, <1>6 DEF SlotIsShown
<1> QED
  BY <1>7, <1>8, <1>9, <1>10, <1>11, <1>12 DEF IInv

\* The master drops what it holds of the session.
LEMMA DropKeeps ==
  ASSUME IInv, MasterDrops
  PROVE  IInv'
<1>1. /\ UNCHANGED <<call, judging, log, live, tasks, wire, replies, stage>>
      /\ held' = {} /\ dropped' = dropped \cup held
  BY DEF MasterDrops
<1>2. TypeOK'
  BY <1>1 DEF IInv, TypeOK
<1>3. OnRecord' /\ Recorded'
  BY <1>1 DEF IInv, OnRecord, Recorded, OnLog
<1>4. Unretracted' /\ AnswerTold' /\ SlotIsShown'
  BY <1>1 DEF IInv, Unretracted, AnswerTold, SlotIsShown
<1> QED
  BY <1>2, <1>3, <1>4 DEF IInv

-----------------------------------------------------------------------------
(* The theorems.                                                           *)

\* Every step keeps the invariant.
THEOREM Inductive == Spec => []IInv
<1>1. IInv /\ [Next]_vars => IInv'
  <2> SUFFICES ASSUME IInv, [Next]_vars PROVE IInv'
    OBVIOUS
  <2>1. CASE Session
    BY <2>1, CallKeeps, JudgedKeeps, SignalKeeps, EndKeeps DEF Session
  <2>2. CASE SendEnds
    BY <2>2, SendKeeps DEF SendEnds
  <2>3. CASE Handles
    BY <2>3, HandleKeeps DEF Handles
  <2>5. CASE MasterDrops
    BY <2>5, DropKeeps
  <2>4. CASE UNCHANGED vars
    <3>1. TypeOK'
      BY <2>4 DEF IInv, TypeOK, vars
    <3>2. OnRecord' /\ Recorded'
      BY <2>4 DEF IInv, OnRecord, Recorded, OnLog, vars
    <3>3. Unretracted' /\ AnswerTold' /\ SlotIsShown'
      BY <2>4 DEF IInv, Unretracted, AnswerTold, SlotIsShown, vars
    <3> QED
      BY <3>1, <3>2, <3>3 DEF IInv
  <2> QED
    BY <2>1, <2>2, <2>3, <2>4, <2>5 DEF Next
<1> QED
  BY <1>1, InitKeeps, PTL DEF Spec

\* Every variable holds a value of its type.
THEOREM TypeCorrect == Spec => []TypeOK
<1>1. IInv => TypeOK
  BY DEF IInv
<1> QED
  BY <1>1, Inductive, PTL

\* A call that runs on the broker's word, and an escalation, are on record,
\* whatever the log, the classifier or the hook does (decide).
THEOREM AlwaysOnRecord == Spec => []OnRecord
<1>1. IInv => OnRecord
  BY DEF IInv
<1> QED
  BY <1>1, Inductive, PTL

\* The slot is never claimed for an escalation the master neither shows, nor is being
\* told of, nor showed and dropped by itself (_send_escalation, _release).
THEOREM SlotAlwaysShown == Spec => []SlotIsShown
<1>1. IInv => SlotIsShown
  BY DEF IInv
<1> QED
  BY <1>1, Inductive, PTL
=============================================================================

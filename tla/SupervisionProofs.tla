-------------------------- MODULE SupervisionProofs --------------------------
(***************************************************************************)
(* Proofs about Supervision, for any sessions, bounds and faults: its      *)
(* types, that it implements EscalationLife, and that the master refuses   *)
(* no escalation unless it crashes, however late requests are handled and  *)
(* replies read, and whatever the panes refuse.                            *)
(*                                                                         *)
(* The refinement rests on IInv: a session that drives, or is about to,    *)
(* has no live escalation (Settled), so that it never raises a second one; *)
(* the live escalation is the session's own (OwnLive); and a decision on   *)
(* its way or being typed is one the developer made, about the live        *)
(* escalation once it is being typed (TypesLive).                          *)
(*                                                                         *)
(* That none is refused rests on the order of the requests, which are      *)
(* handled as they were sent: behind every escalation, queued at the       *)
(* master or still on its way there, the broker has sent what withdraws or *)
(* resolves it before it sends the next one (Orderly); an escalation       *)
(* nothing is sent for yet is the live one, or the one whose decision was  *)
(* just typed (Owed), and a broker that drives has none.  A confirmation   *)
(* resolves the head only, so that chosen escalations must stay there      *)
(* (ChosenFirst).                                                          *)
(***************************************************************************)
EXTENDS Supervision, EscalationQueueProofs, SequenceTheorems, WellFoundedInduction

\* A session that drives or goes on to drive has no live escalation.
Settled ==
  \A s \in Sessions :
    state[s] = "driving" \/ task[s].op \in {"retract", "answered_contact", "typed_contact"}
      => live[s] = None

\* The live escalation of a session is one it raised.
OwnLive == \A s \in Sessions : live[s] # None => raiser[live[s]] = s

\* An entry of the queue, and one on its way there, was raised.
QueueRaised == \A i \in DOMAIN queue : raiser[queue[i].id] # None
WireRaised ==
  \A s \in Sessions : \A i \in DOMAIN wire[s] :
    wire[s][i].op = "escalation" => raiser[wire[s][i].id] # None

\* A decision dispatched or waiting to be delivered was made; one being typed
\* is about the live escalation.
DispatchChosen == dispatch # NotDispatching => dispatch.id \in chosen
JobsChosen ==
  \A s \in Sessions : \A i \in DOMAIN jobs[s] :
    jobs[s][i].op = "deliver" => jobs[s][i].id \in chosen
TypesLive ==
  \A s \in Sessions :
    task[s].op = "typing" => task[s].id = live[s] /\ live[s] # None /\ live[s] \in chosen

IInv ==
  /\ TypeOK /\ Settled /\ OwnLive /\ QueueRaised /\ WireRaised /\ DispatchChosen
  /\ JobsChosen /\ TypesLive

-----------------------------------------------------------------------------
(* Types.                                                                  *)

LEMMA MsgTypes ==
  ASSUME NEW o, NEW i \in Ids \cup {None}
  PROVE  /\ Msg(o, i).op = o /\ Msg(o, i).id = i
         /\ o \in Calls /\ (o = "escalation" => i # None) => Msg(o, i) \in MsgType
         /\ o \in {"turn_end", "deliver", "prompt"} => Msg(o, i) \in JobType
         /\ o \in Calls \cup {"idle", "typing"} =>
              Msg(o, i) \in TaskType
BY DEF Msg, MsgType, JobType, TaskType

LEMMA IdleType == Idle \in TaskType /\ Idle.op = "idle"
BY DEF Idle, Msg, TaskType

LEMMA CallTypes ==
  ASSUME TypeOK, NEW s \in Sessions, NEW o \in Calls, NEW i \in Ids \cup {None}, Call(s, o, i),
         o = "escalation" => i # None
  PROVE  /\ task' \in [Sessions -> TaskType]
         /\ wire' \in [Sessions -> Seq(MsgType)]
         /\ waiting' \in [Sessions -> Waits]
         /\ task'[s] = Msg(o, i) /\ \A x \in Sessions \ {s} : task'[x] = task[x]
         /\ \A x \in Sessions : wire'[x] = wire[x] \/ (x = s /\ wire'[x] = Append(wire[x], Msg(o, i)))
<1>1. Msg(o, i) \in MsgType
      /\ Msg(o, i) \in TaskType
  BY MsgTypes
<1>2. task \in [Sessions -> TaskType]
      /\ wire \in [Sessions -> Seq(MsgType)] /\ waiting \in [Sessions -> Waits]
  BY DEF TypeOK
<1>3. task' \in [Sessions -> TaskType]
      /\ task'[s] = Msg(o, i) /\ \A x \in Sessions \ {s} : task'[x] = task[x]
  BY <1>1, <1>2 DEF Call
<1>4. waiting' \in [Sessions -> Waits]
  BY <1>2 DEF Call, Waits
<1>5. Append(wire[s], Msg(o, i)) \in Seq(MsgType)
  BY <1>1, <1>2
<1>6. wire' \in [Sessions -> Seq(MsgType)]
      /\ \A x \in Sessions : wire'[x] = wire[x] \/ (x = s /\ wire'[x] = Append(wire[x], Msg(o, i)))
  BY <1>2, <1>5 DEF Call
<1> QED
  BY <1>3, <1>4, <1>6

LEMMA TakesTypes ==
  ASSUME TypeOK, NEW s \in Sessions, NEW o, Takes(s, o)
  PROVE  /\ jobs' \in [Sessions -> Seq(JobType)]
         /\ jobs[s][1] \in JobType /\ jobs[s][1].op = o /\ 1 \in DOMAIN jobs[s]
         /\ \A x \in Sessions : \A i \in DOMAIN jobs'[x] :
              \E j \in DOMAIN jobs[x] : jobs'[x][i] = jobs[x][j]
<1>1. jobs \in [Sessions -> Seq(JobType)] /\ jobs[s] # << >>
  BY DEF TypeOK, Takes
<1>2. /\ Tail(jobs[s]) \in Seq(JobType) /\ jobs[s][1] \in JobType /\ 1 \in DOMAIN jobs[s]
      /\ \A i \in DOMAIN Tail(jobs[s]) : Tail(jobs[s])[i] = jobs[s][i + 1] /\ i + 1 \in DOMAIN jobs[s]
  BY <1>1
<1>3. /\ jobs' = [jobs EXCEPT ![s] = Tail(jobs[s])] /\ jobs[s][1].op = o
  BY DEF Takes
<1> QED
  BY <1>1, <1>2, <1>3

LEMMA EnqueueTypes ==
  ASSUME TypeOK, NEW s \in Sessions, NEW o \in {"turn_end", "deliver", "prompt"},
         NEW i \in Ids \cup {None}, Enqueue(s, o, i)
  PROVE  /\ jobs' \in [Sessions -> Seq(JobType)]
         /\ \A x \in Sessions : \A k \in DOMAIN jobs'[x] :
              (k \in DOMAIN jobs[x] /\ jobs'[x][k] = jobs[x][k]) \/ jobs'[x][k] = Msg(o, i)
<1>1. jobs \in [Sessions -> Seq(JobType)] /\ Msg(o, i) \in JobType
  BY MsgTypes DEF TypeOK
<1>2. /\ Append(jobs[s], Msg(o, i)) \in Seq(JobType)
      /\ \A k \in DOMAIN Append(jobs[s], Msg(o, i)) :
           \/ k \in DOMAIN jobs[s] /\ Append(jobs[s], Msg(o, i))[k] = jobs[s][k]
           \/ Append(jobs[s], Msg(o, i))[k] = Msg(o, i)
  BY <1>1
<1>3. jobs' = [jobs EXCEPT ![s] = Append(jobs[s], Msg(o, i))]
  BY DEF Enqueue
<1> QED
  BY <1>1, <1>2, <1>3

\* The queue's loops find an entry whenever there is one.
LEMMA LeastPosition ==
  ASSUME NEW T, T \subseteq Nat, T # {}
  PROVE  \E x \in T : \A y \in T : x <= y
<1>1. IsWellFoundedOn(OpToRel(<, Nat), Nat)
  BY NatLessThanWellFounded
<1>2. PICK x \in T : \A y \in T : ~ (<<y, x>> \in OpToRel(<, Nat))
  BY <1>1, WFMin
<1>3. \A y \in T : ~ (y < x)
  BY <1>2 DEF OpToRel
<1> QED
  BY <1>3

LEMMA PopKeeps ==
  ASSUME NEW q \in Seq(Entry), NEW i \in DOMAIN q
  PROVE  /\ Pop(q, i) \in Seq(Entry)
         /\ \A k \in DOMAIN Pop(q, i) : \E j \in DOMAIN q : Pop(q, i)[k] = q[j]
<1>1. DOMAIN q = 1 .. Len(q) /\ Len(q) \in Nat
  OBVIOUS
<1>2. /\ Pop(q, i) \in Seq(Entry) /\ Len(Pop(q, i)) = Len(q) - 1
      /\ \A j \in 1 .. Len(q) - 1 : Pop(q, i)[j] = IF j < i THEN q[j] ELSE q[j + 1]
  BY <1>1, PopProperties
<1>3. DOMAIN Pop(q, i) = 1 .. Len(q) - 1
  BY <1>2
<1>4. ASSUME NEW k \in DOMAIN Pop(q, i) PROVE \E j \in DOMAIN q : Pop(q, i)[k] = q[j]
  <2>1. k \in 1 .. Len(q) - 1 /\ k \in DOMAIN q /\ k + 1 \in DOMAIN q
    BY <1>3, <1>1
  <2> QED
    BY <1>2, <2>1
<1> QED
  BY <1>2, <1>4

LEMMA RemovalById ==
  ASSUME NEW q \in Seq(Entry), NEW id
  PROVE  /\ Retract(q, id) \in Seq(Entry) /\ Resolve(q, id) \in Seq(Entry)
         /\ \A i \in DOMAIN Retract(q, id) : \E j \in DOMAIN q : Retract(q, id)[i] = q[j]
         /\ \A i \in DOMAIN Resolve(q, id) : \E j \in DOMAIN q : Resolve(q, id)[i] = q[j]
<1>1. ASSUME id \in IdsOf(q) PROVE FirstWithId(q, id) \in DOMAIN q
  <2> DEFINE T == {i \in DOMAIN q : q[i].id = id}
  <2>1. T # {} /\ T \subseteq Nat
    BY <1>1 DEF IdsOf
  <2>2. PICK x \in T : \A y \in T : x <= y
    BY <2>1, LeastPosition
  <2> QED
    BY <2>2 DEF FirstWithId
<1>2. IsHead(q, id) => 1 \in DOMAIN q
  BY DEF IsHead
<1> QED
  BY <1>1, <1>2, PopKeeps DEF Retract, Resolve

LEMMA RemovalBySession ==
  ASSUME NEW q \in Seq(Entry), NEW s
  PROVE  /\ RetractForSession(q, s) \in Seq(Entry)
         /\ \A i \in DOMAIN RetractForSession(q, s) :
              \E j \in DOMAIN q : RetractForSession(q, s)[i] = q[j]
         /\ s \in SessionsOf(q) => FirstOfSession(q, s) \in DOMAIN q
<1>1. ASSUME s \in SessionsOf(q) PROVE FirstOfSession(q, s) \in DOMAIN q
  <2> DEFINE T == {i \in DOMAIN q : q[i].session = s}
  <2>1. T # {} /\ T \subseteq Nat
    BY <1>1 DEF SessionsOf
  <2>2. PICK x \in T : \A y \in T : x <= y
    BY <2>1, LeastPosition
  <2> QED
    BY <2>2 DEF FirstOfSession
<1> QED
  BY <1>1, PopKeeps DEF RetractForSession

LEMMA RaiseTypes ==
  ASSUME TypeOK, NEW s \in Sessions, NEW e \in Fresh, RaiseEscalation(s, e)
  PROVE  /\ live' \in [Sessions -> Ids \cup {None}] /\ answered' \in [Sessions -> BOOLEAN]
         /\ raiser' \in [Ids -> Sessions \cup {None}]
         /\ state' \in [Sessions -> {"driving", "escalated", "error"}]
         /\ Call(s, "escalation", e) /\ e \in Ids /\ e # None /\ raiser[e] = None
<1>1. e \in Ids /\ raiser[e] = None
  BY DEF Fresh
<1>2. e # None
  BY <1>1 DEF Ids, None
<1> QED
  BY <1>1, <1>2 DEF TypeOK, RaiseEscalation

LEMMA RetractTypes ==
  ASSUME TypeOK, NEW s \in Sessions, NEW w \in Retracts, RetractDecision(s, w)
  PROVE  /\ live' \in [Sessions -> Ids \cup {None}]
         /\ state' \in [Sessions -> {"driving", "escalated", "error"}]
         /\ Call(s, w, live[s]) /\ w \in Calls /\ live[s] \in Ids \cup {None}
BY DEF TypeOK, RetractDecision, EndActiveEscalation, Calls

LEMMA MainTaskTypes ==
  ASSUME TypeOK, NEW s \in Sessions, MainTask(s)
  PROVE  TypeOK'
<1> USE DEF callVars, masterVars, historyVars
<1>1. CASE TurnEndQuiet(s)
  BY <1>1, TakesTypes DEF TypeOK, TurnEndQuiet
<1>2. CASE TurnEndAnswered(s)
  <2>1. Takes(s, "turn_end") /\ RetractDecision(s, "retract") /\ "retract" \in Retracts
    BY <1>2 DEF TurnEndAnswered, Retracts
  <2>2. jobs' \in [Sessions -> Seq(JobType)]
    BY <2>1, TakesTypes
  <2> QED
    BY <1>2, <2>1, <2>2, RetractTypes, CallTypes DEF TypeOK, TurnEndAnswered
<1>3. CASE TurnEndClassified(s)
  <2>1. Takes(s, "turn_end") /\ Classify(s)
    BY <1>3 DEF TurnEndClassified
  <2>2. jobs' \in [Sessions -> Seq(JobType)]
    BY <2>1, TakesTypes
  <2>3. CASE JobEnds(s) /\ UNCHANGED <<state, live, answered, callVars, raiser>>
    BY <1>3, <2>2, <2>3, IdleType DEF TypeOK, TurnEndClassified, JobEnds
  <2>4. ASSUME NEW e \in Fresh, RaiseEscalation(s, e) PROVE TypeOK'
    <3>1. "escalation" \in Calls
      BY DEF Calls
    <3> QED
      BY <1>3, <2>2, <2>4, <3>1, RaiseTypes, CallTypes DEF TypeOK, TurnEndClassified
  <2> QED
    BY <2>1, <2>3, <2>4 DEF Classify
<1>4. CASE DeliverStale(s)
  <2>1. Takes(s, "deliver") /\ jobs[s][1].id \in Ids \cup {None} /\ "undelivered_gone" \in Calls
    BY <1>4, TakesTypes DEF DeliverStale, JobType, Calls
  <2>2. jobs' \in [Sessions -> Seq(JobType)]
    BY <2>1, TakesTypes
  <2> QED
    BY <1>4, <2>1, <2>2, CallTypes DEF TypeOK, DeliverStale
<1>5. CASE DeliverTyping(s)
  <2>1. Takes(s, "deliver") /\ jobs[s][1].id \in Ids \cup {None}
    BY <1>5, TakesTypes DEF DeliverTyping, JobType
  <2>2. jobs' \in [Sessions -> Seq(JobType)]
    BY <2>1, TakesTypes
  <2>3. Msg("typing", jobs[s][1].id) \in TaskType
    BY <2>1, MsgTypes
  <2> QED
    BY <1>5, <2>2, <2>3 DEF TypeOK, DeliverTyping
<1>6. CASE Typed(s)
  <2>1. Call(s, "typed_contact", task[s].id) /\ task[s].id \in Ids \cup {None} /\ "typed_contact" \in Calls
    BY <1>6 DEF Typed, TypeOK, TaskType, Calls, Contacts
  <2>2. live' \in [Sessions -> Ids \cup {None}]
    BY <1>6 DEF Typed, TypeOK, EndActiveEscalation
  <2>3. entered' \in [Sessions -> [Ids -> Nat]]
    <3> DEFINE row == [entered[s] EXCEPT ![task[s].id] = @ + 1]
    <3>1. entered' = [entered EXCEPT ![s] = row]
      BY <1>6 DEF Typed
    <3>2. entered \in [Sessions -> [Ids -> Nat]] /\ entered[s] \in [Ids -> Nat]
      BY DEF TypeOK
    <3>3. \A e \in Ids : entered[s][e] + 1 \in Nat
      BY <3>2
    <3>4. row \in [Ids -> Nat]
      BY <3>2, <3>3
    <3> QED
      BY <3>1, <3>2, <3>4
  <2> QED
    BY <1>6, <2>1, <2>2, <2>3, CallTypes DEF TypeOK, Typed
<1>7. CASE TypingFails(s)
  <2>1. Call(s, "undelivered_live", task[s].id) /\ task[s].id \in Ids \cup {None}
        /\ "undelivered_live" \in Calls
    BY <1>7 DEF TypingFails, TypeOK, TaskType, Calls
  <2> QED
    BY <1>7, <2>1, CallTypes DEF TypeOK, TypingFails, Fault
<1>8. CASE PromptTyped(s)
  <2>1. Takes(s, "prompt") /\ "supersede" \in Retracts /\ "prompt_contact" \in Calls
    BY <1>8 DEF PromptTyped, Retracts, Calls, Contacts
  <2>2. jobs' \in [Sessions -> Seq(JobType)]
    BY <2>1, TakesTypes
  <2>3. CASE live[s] # None
    <3>1. RetractDecision(s, "supersede")
      BY <1>8, <2>3 DEF PromptTyped
    <3> QED
      BY <1>8, <2>1, <2>2, <3>1, RetractTypes, CallTypes DEF TypeOK, PromptTyped
  <2>4. CASE live[s] = None
    <3>1. Call(s, "prompt_contact", None) /\ state' = [state EXCEPT ![s] = "driving"] /\ live' = live
      BY <1>8, <2>4 DEF PromptTyped
    <3> QED
      BY <1>8, <2>1, <2>2, <3>1, CallTypes DEF TypeOK, PromptTyped
  <2> QED
    BY <2>3, <2>4
<1>9. CASE PromptFails(s)
  <2>1. Takes(s, "prompt") /\ {"prompt_undelivered", "fatal_error"} \subseteq Calls
    BY <1>9 DEF PromptFails, Calls
  <2>2. jobs' \in [Sessions -> Seq(JobType)]
    BY <2>1, TakesTypes
  <2>3. CASE Call(s, "prompt_undelivered", None) /\ UNCHANGED state
    BY <1>9, <2>1, <2>2, <2>3, CallTypes DEF TypeOK, PromptFails, Fault
  <2>4. CASE Fatal(s)
    BY <1>9, <2>1, <2>2, <2>4, CallTypes DEF TypeOK, PromptFails, Fault, Fatal
  <2> QED
    BY <1>9, <2>3, <2>4 DEF PromptFails
<1>10. CASE DeliveryConfirmed(s)
  <2>1. Call(s, "delivered", task[s].id) /\ task[s].id \in Ids \cup {None} /\ "delivered" \in Calls
    BY <1>10 DEF DeliveryConfirmed, TypeOK, TaskType, Calls
  <2> QED
    BY <1>10, <2>1, CallTypes DEF TypeOK, DeliveryConfirmed
<1>11. CASE RetractAcked(s)
  <2>1. PICK o \in {"answered_contact", "prompt_contact"} : Call(s, o, None)
    BY <1>11 DEF RetractAcked
  <2>2. o \in Calls
    BY DEF Calls, Contacts
  <2> QED
    BY <1>11, <2>1, <2>2, CallTypes DEF TypeOK, RetractAcked
<1>12. CASE AnsweredClassified(s)
  <2>1. CASE JobEnds(s) /\ waiting' = [waiting EXCEPT ![s] = "no"]
             /\ UNCHANGED <<state, live, answered, wire, raiser>>
    BY <1>12, <2>1, IdleType DEF TypeOK, AnsweredClassified, JobEnds, Waits
  <2>2. ASSUME NEW e \in Fresh, RaiseEscalation(s, e) PROVE TypeOK'
    <3>1. "escalation" \in Calls
      BY DEF Calls
    <3> QED
      BY <1>12, <2>2, <3>1, RaiseTypes, CallTypes DEF TypeOK, AnsweredClassified
  <2> QED
    BY <1>12, <2>1, <2>2 DEF AnsweredClassified
<1>13. CASE CallEnds(s)
  BY <1>13, IdleType DEF TypeOK, CallEnds, JobEnds, Waits
<1>14. CASE CallFails(s)
  <2>1. Call(s, "fatal_error", None) /\ state' = [state EXCEPT ![s] = "error"] /\ "fatal_error" \in Calls
    BY <1>14 DEF CallFails, Fatal, Calls
  <2> QED
    BY <1>14, <2>1, CallTypes DEF TypeOK, CallFails
<1> QED
  BY <1>1, <1>2, <1>3, <1>4, <1>5, <1>6, <1>7, <1>8, <1>9, <1>10, <1>11, <1>12, <1>13, <1>14
  DEF MainTask

LEMMA HandledMessage ==
  ASSUME TypeOK, NEW s \in Sessions, HandleMessage(s)
  PROVE  /\ wire[s][1] \in MsgType /\ 1 \in DOMAIN wire[s]
         /\ wire' \in [Sessions -> Seq(MsgType)]
         /\ \A x \in Sessions : \A i \in DOMAIN wire'[x] :
              \E j \in DOMAIN wire[x] : wire'[x][i] = wire[x][j]
         /\ queue' = AfterMessage(s, wire[s][1]) /\ queue' \in Seq(Entry)
         /\ \A i \in DOMAIN queue' :
              \/ \E j \in DOMAIN queue : queue'[i] = queue[j]
              \/ wire[s][1].op = "escalation" /\ queue'[i].id = wire[s][1].id
<1> DEFINE m == wire[s][1]
           p == [id |-> m.id, session |-> s]
<1>1. wire \in [Sessions -> Seq(MsgType)] /\ wire[s] # << >> /\ queue \in Seq(Entry)
      /\ wire' = [wire EXCEPT ![s] = Tail(@)] /\ queue' = AfterMessage(s, m)
  BY DEF TypeOK, HandleMessage
<1>2. /\ m \in MsgType /\ 1 \in DOMAIN wire[s] /\ Tail(wire[s]) \in Seq(MsgType)
      /\ \A i \in DOMAIN Tail(wire[s]) : Tail(wire[s])[i] = wire[s][i + 1] /\ i + 1 \in DOMAIN wire[s]
  BY <1>1
<1>3. /\ wire' \in [Sessions -> Seq(MsgType)]
      /\ \A x \in Sessions : \A i \in DOMAIN wire'[x] :
           \E j \in DOMAIN wire[x] : wire'[x][i] = wire[x][j]
  BY <1>1, <1>2
<1> DEFINE Kept(q) == /\ q \in Seq(Entry)
                      /\ \A i \in DOMAIN q : \/ \E j \in DOMAIN queue : q[i] = queue[j]
                                             \/ m.op = "escalation" /\ q[i].id = m.id
<1>4. Kept(queue) /\ Kept(Retract(queue, m.id)) /\ Kept(Resolve(queue, m.id))
      /\ Kept(RetractForSession(queue, s))
  <2>1. Kept(queue)
    BY <1>1
  <2>2. queue \in Seq(Entry)
    BY <1>1
  <2>3. Kept(Retract(queue, m.id)) /\ Kept(Resolve(queue, m.id))
    BY <2>2, RemovalById
  <2>4. Kept(RetractForSession(queue, s))
    BY <2>2, RemovalBySession
  <2> QED
    BY <2>1, <2>3, <2>4
<1>5. ASSUME m.op = "escalation" PROVE Kept(Accept(queue, p))
  <2>1. p \in Entry
    <3>1. m.id \in Ids
      BY <1>2, <1>5 DEF MsgType
    <3> QED
      BY <3>1 DEF Entry
  <2>2. /\ Append(queue, p) \in Seq(Entry)
        /\ \A i \in DOMAIN Append(queue, p) :
             \/ i \in DOMAIN queue /\ Append(queue, p)[i] = queue[i]
             \/ Append(queue, p)[i] = p
    BY <1>1, <2>1
  <2> QED
    BY <1>5, <2>2 DEF Accept
<1>6. Kept(AfterMessage(s, m))
  <2>1. \/ AfterMessage(s, m) \in {queue, Retract(queue, m.id), Resolve(queue, m.id),
                                  RetractForSession(queue, s)}
        \/ m.op = "escalation" /\ AfterMessage(s, m) = Accept(queue, p)
    BY DEF AfterMessage
  <2>2. ASSUME NEW q \in {queue, Retract(queue, m.id), Resolve(queue, m.id),
                         RetractForSession(queue, s)}
        PROVE  Kept(q)
    BY <1>4, <2>2
  <2> HIDE DEF Kept
  <2> QED
    BY <1>5, <2>1, <2>2
<1> QED
  BY <1>1, <1>2, <1>3, <1>6

LEMMA SurfaceType ==
  ASSUME NEW q \in Seq(Entry)
  PROVE  Surface(q) \in Ids \cup {None}
<1>1. CASE q = << >>
  BY <1>1 DEF Surface
<1>2. CASE q # << >>
  <2>1. q[1] \in Entry
    BY <1>2
  <2> QED
    BY <1>2, <2>1 DEF Surface, Entry
<1> QED
  BY <1>1, <1>2

LEMMA MasterTypes ==
  ASSUME TypeOK
  PROVE  /\ \A s \in Sessions : GiveUp(s) \/ TurnEnds(s) \/ SendPrompt(s) => TypeOK'
         /\ \A s \in Sessions : HandleMessage(s) \/ Notified(s) => TypeOK'
         /\ \A id \in Ids : DispatchStart(id) => TypeOK'
         /\ DispatchTaken \/ DispatchAcked \/ DispatchFails \/ Crash \/ Restart => TypeOK'
<1> USE DEF brokerVars, callVars, masterVars, historyVars
<1>1. ASSUME NEW s \in Sessions PROVE GiveUp(s) \/ TurnEnds(s) \/ SendPrompt(s) => TypeOK'
  <2>1. ASSUME GiveUp(s) PROVE TypeOK'
    BY <2>1 DEF TypeOK, GiveUp, Fault, Waits
  <2>2. ASSUME TurnEnds(s) PROVE TypeOK'
    <3>1. Enqueue(s, "turn_end", None)
      BY <2>2 DEF TurnEnds
    <3>2. jobs' \in [Sessions -> Seq(JobType)]
      BY <3>1, EnqueueTypes
    <3> QED
      BY <2>2, <3>2 DEF TypeOK, TurnEnds
  <2>3. ASSUME SendPrompt(s) PROVE TypeOK'
    <3>1. Enqueue(s, "prompt", None)
      BY <2>3 DEF SendPrompt
    <3>2. jobs' \in [Sessions -> Seq(JobType)]
      BY <3>1, EnqueueTypes
    <3> QED
      BY <2>3, <3>2 DEF TypeOK, SendPrompt
  <2> QED
    BY <2>1, <2>2, <2>3
<1>2. ASSUME NEW s \in Sessions PROVE HandleMessage(s) \/ Notified(s) => TypeOK'
  <2>1. ASSUME HandleMessage(s) PROVE TypeOK'
    <3>1. /\ wire' \in [Sessions -> Seq(MsgType)] /\ queue' \in Seq(Entry)
          /\ queue' = AfterMessage(s, wire[s][1])
      BY <2>1, HandledMessage
    <3>2. surfaced' \in Ids \cup {None}
      BY <2>1, <3>1, SurfaceType DEF HandleMessage
    <3>3. waiting' \in [Sessions -> Waits]
      BY <2>1 DEF HandleMessage, TypeOK, Waits
    <3>4. inflight' \in Ids \cup {None}
      BY <2>1 DEF HandleMessage, TypeOK
    <3> QED
      BY <2>1, <3>1, <3>2, <3>3, <3>4 DEF TypeOK, HandleMessage
  <2>2. ASSUME Notified(s) PROVE TypeOK'
    BY <2>2 DEF TypeOK, Notified, Waits
  <2> QED
    BY <2>1, <2>2
<1>3. ASSUME NEW id \in Ids PROVE DispatchStart(id) => TypeOK'
  <2> SUFFICES ASSUME DispatchStart(id) PROVE TypeOK'
    OBVIOUS
  <2>1. queue[1] \in Entry
    BY DEF DispatchStart, IsHead, TypeOK
  <2>2. dispatch' \in Dispatch
    BY <2>1 DEF DispatchStart, Dispatch, Entry
  <2> QED
    BY <2>2 DEF TypeOK, DispatchStart
<1>4. ASSUME DispatchTaken PROVE TypeOK'
  <2>1. dispatch \in Dispatch
    BY <1>4 DEF DispatchTaken, TypeOK, NotDispatching
  <2>2. dispatch.session \in Sessions /\ dispatch.id \in Ids /\ Enqueue(dispatch.session, "deliver", dispatch.id)
    BY <1>4, <2>1 DEF DispatchTaken, Dispatch
  <2>3. jobs' \in [Sessions -> Seq(JobType)]
    BY <2>2, EnqueueTypes
  <2>4. dispatch' \in Dispatch
    BY <1>4, <2>1 DEF DispatchTaken, Dispatch
  <2> QED
    BY <1>4, <2>3, <2>4 DEF TypeOK, DispatchTaken
<1>5. ASSUME DispatchAcked PROVE TypeOK'
  <2>1. dispatch.id \in Ids
    BY <1>5 DEF DispatchAcked, TypeOK, NotDispatching, Dispatch
  <2> QED
    BY <1>5, <2>1 DEF DispatchAcked, TypeOK
<1>6. ASSUME DispatchFails PROVE TypeOK'
  BY <1>6 DEF DispatchFails, TypeOK, Fault
<1>7. ASSUME Crash PROVE TypeOK'
  <2>1. << >> \in Seq(MsgType)
    OBVIOUS
  <2>2. waiting' \in [Sessions -> Waits]
    BY <1>7 DEF Crash, TypeOK, Waits
  <2>3. wire' \in [Sessions -> Seq(MsgType)]
    BY <1>7, <2>1 DEF Crash
  <2>4. up' \in BOOLEAN /\ dispatch' \in {NotDispatching} \cup Dispatch
    BY <1>7 DEF Crash
  <2>6. faults' \in Nat
    <3>1. faults \in Nat /\ faults' = faults + 1
      BY <1>7 DEF Crash, TypeOK, Fault
    <3> QED
      BY <3>1
  <2>5. /\ UNCHANGED <<state, live, task, jobs, answered>> /\ UNCHANGED <<queue, surfaced, inflight>>
        /\ UNCHANGED <<raiser, chosen, entered>>
    BY <1>7 DEF Crash
  <2> QED
    BY <2>2, <2>3, <2>4, <2>5, <2>6 DEF TypeOK
<1>8. ASSUME Restart PROVE TypeOK'
  <2>1. surfaced' \in Ids \cup {None}
    BY <1>8, SurfaceType DEF Restart, TypeOK
  <2> QED
    BY <1>8, <2>1 DEF Restart, TypeOK
<1> QED
  BY <1>1, <1>2, <1>3, <1>4, <1>5, <1>6, <1>7, <1>8

LEMMA InitTypes == Init => TypeOK
<1> SUFFICES ASSUME Init PROVE TypeOK
  OBVIOUS
<1>1. 0 \in Nat /\ << >> \in Seq(JobType) /\ << >> \in Seq(MsgType) /\ << >> \in Seq(Entry)
  OBVIOUS
<1>2. Idle \in TaskType
  BY IdleType
<1> QED
  BY <1>1, <1>2 DEF Init, TypeOK, Waits, None

LEMMA TypeStep == TypeOK /\ [Next]_vars => TypeOK'
<1> SUFFICES ASSUME TypeOK, [Next]_vars PROVE TypeOK'
  OBVIOUS
<1>1. CASE UNCHANGED vars
  BY <1>1 DEF vars, brokerVars, callVars, masterVars, historyVars, TypeOK
<1>2. CASE Next
  BY <1>2, MainTaskTypes, MasterTypes DEF Next
<1> QED
  BY <1>1, <1>2

\* The variables keep their types, whatever fails.
THEOREM TypeCorrect == Spec => []TypeOK
<1>1. Init => TypeOK
  BY InitTypes
<1>2. TypeOK /\ [Next]_vars => TypeOK'
  BY TypeStep
<1> QED
  BY <1>1, <1>2, PTL DEF Spec

-----------------------------------------------------------------------------
(* What a main task's step does to escalations.                            *)

\* A step of session s: other sessions and what the master keeps stay.
Elsewhere(s) ==
  /\ \A x \in Sessions \ {s} : state'[x] = state[x] /\ live'[x] = live[x] /\ task'[x] = task[x]
  /\ UNCHANGED <<queue, dispatch, chosen>>

\* It raises e, having no live escalation; it types the decision; it ends the
\* live escalation without one; or it leaves its escalation alone.
Raises(s, e) ==
  /\ e \in Ids /\ raiser[e] = None /\ live[s] = None
  /\ raiser' = [raiser EXCEPT ![e] = s] /\ live'[s] = e /\ state'[s] = "escalated"
  /\ task'[s].op = "escalation" /\ entered' = entered
Enters(s) ==
  /\ task[s].op = "typing" /\ live'[s] = None /\ task'[s].op = "typed_contact"
  /\ entered' = [entered EXCEPT ![s][task[s].id] = @ + 1] /\ raiser' = raiser
Closes(s) ==
  /\ live[s] # None /\ live'[s] = None /\ task'[s].op \in Retracts
  /\ UNCHANGED <<raiser, entered>>
Stays(s) ==
  /\ live'[s] = live[s] /\ UNCHANGED <<raiser, entered>>
  /\ state'[s] = "driving" \/ task'[s].op \in {"retract", "answered_contact", "typed_contact"}
       => live[s] = None
  /\ task'[s].op = "typing" => task'[s].id = live[s] /\ live[s] # None /\ live[s] \in chosen

Kinds(s) == (\E e \in Ids : Raises(s, e)) \/ Enters(s) \/ Closes(s) \/ Stays(s)

\* A call that reports no raised escalation.
LEMMA CallStays ==
  ASSUME IInv, NEW s \in Sessions, NEW o \in Calls, NEW i \in Ids \cup {None}, Call(s, o, i)
  PROVE  task'[s].op = o /\ task'[s].id = i /\ \A x \in Sessions \ {s} : task'[x] = task[x]
BY DEF IInv, TypeOK, Call, Msg

LEMMA RaiseKind ==
  ASSUME IInv, NEW s \in Sessions, NEW e \in Fresh, RaiseEscalation(s, e), entered' = entered,
         UNCHANGED <<queue, dispatch, chosen>>, live[s] = None
  PROVE  Elsewhere(s) /\ Raises(s, e)
<1>1. TypeOK /\ "escalation" \in Calls
  BY DEF IInv, Calls
<1>2. Call(s, "escalation", e) /\ e \in Ids /\ raiser[e] = None
  BY <1>1, RaiseTypes
<1>3. task'[s].op = "escalation" /\ \A x \in Sessions \ {s} : task'[x] = task[x]
  BY <1>1, <1>2, CallStays
<1>4. /\ live' = [live EXCEPT ![s] = e] /\ state' = [state EXCEPT ![s] = "escalated"]
      /\ raiser' = [raiser EXCEPT ![e] = s]
  BY DEF RaiseEscalation
<1>5. live \in [Sessions -> Ids \cup {None}] /\ DOMAIN state = Sessions
  BY <1>1 DEF TypeOK
<1> QED
  BY <1>2, <1>3, <1>4, <1>5 DEF Elsewhere, Raises

LEMMA CloseKind ==
  ASSUME IInv, NEW s \in Sessions, NEW w \in Retracts, RetractDecision(s, w), live[s] # None,
         UNCHANGED <<queue, dispatch, chosen, raiser, entered>>
  PROVE  Elsewhere(s) /\ Closes(s)
<1>1. TypeOK
  BY DEF IInv
<1>2. Call(s, w, live[s]) /\ w \in Calls /\ live[s] \in Ids \cup {None}
  BY <1>1, RetractTypes
<1>3. task'[s].op = w /\ \A x \in Sessions \ {s} : task'[x] = task[x]
  BY <1>2, CallStays
<1>4. live' = [live EXCEPT ![s] = None] /\ state' = [state EXCEPT ![s] = "driving"]
  BY DEF RetractDecision, EndActiveEscalation
<1>5. DOMAIN live = Sessions /\ DOMAIN state = Sessions
  BY <1>1 DEF TypeOK
<1> QED
  BY <1>3, <1>4, <1>5 DEF Elsewhere, Closes

\* The main task moves on to an await that is neither the typing of a decision
\* nor one after which it drives, or it has no live escalation.
LEMMA StayKind ==
  ASSUME IInv, NEW s \in Sessions, NEW o \in Calls, NEW i \in Ids \cup {None}, Call(s, o, i),
         UNCHANGED <<live, queue, dispatch, chosen, raiser, entered>>,
         \/ UNCHANGED state
         \/ state' = [state EXCEPT ![s] = "error"]
         \/ live[s] = None /\ state' = [state EXCEPT ![s] = "driving"],
         o \in {"retract", "answered_contact", "typed_contact"} => live[s] = None
  PROVE  Elsewhere(s) /\ Stays(s)
<1>1. task'[s].op = o /\ o # "typing" /\ \A x \in Sessions \ {s} : task'[x] = task[x]
  BY CallStays DEF Calls, Contacts, Retracts
<1>2. DOMAIN state = Sessions /\ (state[s] = "driving" => live[s] = None)
  BY DEF IInv, TypeOK, Settled
<1> QED
  BY <1>1, <1>2 DEF Elsewhere, Stays

\* The main task goes back to its queue.
LEMMA IdleKind ==
  ASSUME IInv, NEW s \in Sessions, JobEnds(s),
         UNCHANGED <<state, live, queue, dispatch, chosen, raiser, entered>>
  PROVE  Elsewhere(s) /\ Stays(s)
<1>1. task' = [task EXCEPT ![s] = Idle] /\ DOMAIN task = Sessions
  BY DEF JobEnds, IInv, TypeOK
<1>2. task'[s].op = "idle"
  BY <1>1, IdleType
<1> QED
  BY <1>1, <1>2 DEF Elsewhere, Stays, IInv, Settled

LEMMA MainTaskKinds ==
  ASSUME IInv, NEW s \in Sessions, MainTask(s)
  PROVE  Elsewhere(s) /\ Kinds(s)
<1> USE DEF masterVars, historyVars, Kinds
<1>0. TypeOK /\ Settled /\ JobsChosen /\ TypesLive
      /\ {"typed_contact", "undelivered_live", "undelivered_gone", "delivered", "prompt_contact",
          "prompt_undelivered", "fatal_error", "answered_contact"} \subseteq Calls
      /\ task[s].id \in Ids \cup {None} /\ None \in Ids \cup {None}
  BY DEF IInv, TypeOK, TaskType, Calls, Contacts
<1>1. CASE TurnEndQuiet(s)
  <2>1. /\ UNCHANGED <<state, live, task, queue, dispatch, chosen, raiser, entered>>
        /\ Takes(s, "turn_end")
    BY <1>1 DEF TurnEndQuiet
  <2>2. task[s].op = "idle"
    BY <2>1, IdleType DEF Takes
  <2> QED
    BY <1>0, <2>1, <2>2 DEF Elsewhere, Stays, Settled
<1>2. CASE TurnEndAnswered(s)
  BY <1>2, CloseKind DEF TurnEndAnswered, Retracts
<1>3. CASE TurnEndClassified(s)
  <2>1. live[s] = None /\ Classify(s) /\ UNCHANGED <<queue, dispatch, chosen, entered>>
    BY <1>0, <1>3 DEF TurnEndClassified, Settled
  <2>2. CASE JobEnds(s) /\ UNCHANGED <<state, live, answered, callVars, raiser>>
    BY <2>1, <2>2, IdleKind
  <2>3. ASSUME NEW e \in Fresh, RaiseEscalation(s, e) PROVE Elsewhere(s) /\ Kinds(s)
    <3>1. Elsewhere(s) /\ Raises(s, e)
      BY <2>1, <2>3, RaiseKind
    <3> QED
      BY <3>1 DEF Raises
  <2> QED
    BY <2>1, <2>2, <2>3 DEF Classify
<1>4. CASE DeliverStale(s)
  <2>1. Takes(s, "deliver") /\ jobs[s][1].id \in Ids \cup {None}
    BY <1>0, <1>4, TakesTypes DEF DeliverStale, JobType
  <2> QED
    BY <1>0, <1>4, <2>1, StayKind DEF DeliverStale
<1>5. CASE DeliverTyping(s)
  <2>1. /\ Takes(s, "deliver") /\ jobs[s][1].id \in Ids \cup {None} /\ 1 \in DOMAIN jobs[s]
        /\ jobs[s][1].op = "deliver"
    BY <1>0, <1>5, TakesTypes DEF DeliverTyping, JobType
  <2>2. jobs[s][1].id \in chosen /\ chosen \subseteq Ids /\ jobs[s][1].id = live[s]
    BY <1>0, <1>5, <2>1 DEF JobsChosen, TypeOK, DeliverTyping, Stale
  <2>3. live[s] # None
    BY <2>2 DEF Ids, None
  <2>4. /\ task' = [task EXCEPT ![s] = Msg("typing", live[s])]
        /\ UNCHANGED <<state, live, queue, dispatch, chosen, raiser, entered>>
    BY <1>5, <2>2 DEF DeliverTyping
  <2>5. task'[s].op = "typing" /\ task'[s].id = live[s] /\ \A x \in Sessions \ {s} : task'[x] = task[x]
    BY <1>0, <2>4 DEF TypeOK, Msg
  <2> QED
    BY <1>0, <2>2, <2>3, <2>4, <2>5 DEF Elsewhere, Stays, Settled
<1>6. CASE Typed(s)
  <2>1. /\ Call(s, "typed_contact", task[s].id) /\ live' = [live EXCEPT ![s] = None]
        /\ UNCHANGED <<state, queue, dispatch, chosen, raiser>> /\ task[s].op = "typing"
        /\ entered' = [entered EXCEPT ![s][task[s].id] = @ + 1]
    BY <1>6 DEF Typed, EndActiveEscalation
  <2>2. task'[s].op = "typed_contact" /\ \A x \in Sessions \ {s} : task'[x] = task[x]
    BY <1>0, <2>1, CallStays
  <2>3. DOMAIN live = Sessions
    BY <1>0 DEF TypeOK
  <2> QED
    BY <2>1, <2>2, <2>3 DEF Elsewhere, Enters
<1>7. CASE TypingFails(s)
  BY <1>0, <1>7, StayKind DEF TypingFails
<1>8. CASE PromptTyped(s)
  <2>1. CASE live[s] # None
    BY <1>8, <2>1, CloseKind DEF PromptTyped, Retracts
  <2>2. CASE live[s] = None
    BY <1>0, <1>8, <2>2, StayKind DEF PromptTyped
  <2> QED
    BY <2>1, <2>2
<1>9. CASE PromptFails(s)
  BY <1>0, <1>9, StayKind DEF PromptFails, Fatal
<1>10. CASE DeliveryConfirmed(s)
  <2>1. live[s] = None
    BY <1>0, <1>10 DEF DeliveryConfirmed, Settled
  <2> QED
    BY <1>0, <1>10, <2>1, StayKind DEF DeliveryConfirmed
<1>11. CASE RetractAcked(s)
  <2>1. CASE task[s].op = "retract"
    <3>1. live[s] = None
      BY <1>0, <2>1 DEF Settled
    <3> QED
      BY <1>0, <1>11, <2>1, <3>1, StayKind DEF RetractAcked
  <2>2. CASE task[s].op # "retract"
    BY <1>0, <1>11, <2>2, StayKind DEF RetractAcked
  <2> QED
    BY <2>1, <2>2
<1>12. CASE AnsweredClassified(s)
  <2>1. live[s] = None /\ UNCHANGED <<queue, dispatch, chosen, entered>>
    BY <1>0, <1>12 DEF AnsweredClassified, Settled
  <2>2. CASE JobEnds(s) /\ UNCHANGED <<state, live, answered, wire, raiser>>
    BY <2>1, <2>2, IdleKind
  <2>3. ASSUME NEW e \in Fresh, RaiseEscalation(s, e) PROVE Elsewhere(s) /\ Kinds(s)
    <3>1. Elsewhere(s) /\ Raises(s, e)
      BY <2>1, <2>3, RaiseKind
    <3> QED
      BY <3>1 DEF Raises
  <2> QED
    BY <1>12, <2>2, <2>3 DEF AnsweredClassified
<1>13. CASE CallEnds(s)
  BY <1>13, IdleKind DEF CallEnds
<1>14. CASE CallFails(s)
  BY <1>0, <1>14, StayKind DEF CallFails, Fatal
<1> QED
  BY <1>1, <1>2, <1>3, <1>4, <1>5, <1>6, <1>7, <1>8, <1>9, <1>10, <1>11, <1>12, <1>13, <1>14
  DEF MainTask

-----------------------------------------------------------------------------
(* The invariant.                                                          *)

LEMMA KindsKeep ==
  ASSUME IInv, TypeOK', NEW s \in Sessions, Elsewhere(s), Kinds(s)
  PROVE  Settled' /\ OwnLive' /\ TypesLive' /\ QueueRaised' /\ DispatchChosen'
         /\ \A e \in Ids : raiser[e] # None => raiser'[e] = raiser[e]
<1>1. TypeOK /\ Settled /\ OwnLive /\ TypesLive /\ QueueRaised /\ DispatchChosen
  BY DEF IInv
<1>2. /\ raiser \in [Ids -> Sessions \cup {None}] /\ live \in [Sessions -> Ids \cup {None}]
      /\ \A i \in DOMAIN queue : queue[i].id \in Ids
  <2>1. queue \in Seq(Entry)
    BY <1>1 DEF TypeOK
  <2>2. \A i \in DOMAIN queue : queue[i] \in Entry
    BY <2>1
  <2>3. /\ raiser \in [Ids -> Sessions \cup {None}] /\ live \in [Sessions -> Ids \cup {None}]
    BY <1>1 DEF TypeOK
  <2> QED
    BY <2>2, <2>3 DEF Entry
<1>3. \A e \in Ids : raiser[e] # None => raiser'[e] = raiser[e]
  BY <1>2 DEF Kinds, Raises, Enters, Closes, Stays
<1>4. QueueRaised' /\ DispatchChosen'
  BY <1>1, <1>2, <1>3 DEF QueueRaised, DispatchChosen, Elsewhere
<1>5. ASSUME NEW x \in Sessions, x # s
      PROVE  /\ state'[x] = "driving" \/ task'[x].op \in {"retract", "answered_contact", "typed_contact"}
                  => live'[x] = None
             /\ live'[x] # None => raiser'[live'[x]] = x
             /\ task'[x].op = "typing" =>
                  task'[x].id = live'[x] /\ live'[x] # None /\ live'[x] \in chosen'
  <2>1. state'[x] = state[x] /\ live'[x] = live[x] /\ task'[x] = task[x] /\ chosen' = chosen
    BY <1>5 DEF Elsewhere
  <2>2. live[x] # None => live[x] \in Ids /\ raiser[live[x]] = x /\ x # None
    BY <1>1, <1>2, SupervisionAssumption DEF OwnLive, None
  <2> QED
    BY <1>1, <1>3, <2>1, <2>2 DEF Settled, TypesLive
<1>6. /\ state'[s] = "driving" \/ task'[s].op \in {"retract", "answered_contact", "typed_contact"}
           => live'[s] = None
      /\ live'[s] # None => raiser'[live'[s]] = s
      /\ task'[s].op = "typing" =>
           task'[s].id = live'[s] /\ live'[s] # None /\ live'[s] \in chosen'
  <2>1. ASSUME NEW e \in Ids, Raises(s, e) PROVE <1>6
    BY <1>2, <2>1 DEF Raises
  <2>2. CASE Enters(s)
    BY <2>2 DEF Enters
  <2>3. CASE Closes(s)
    BY <2>3 DEF Closes, Retracts
  <2>4. CASE Stays(s)
    BY <1>1, <2>4 DEF Stays, OwnLive, Elsewhere
  <2> QED
    BY <2>1, <2>2, <2>3, <2>4 DEF Kinds
<1>7. Settled'
  BY <1>5, <1>6 DEF Settled
<1>8. OwnLive'
  BY <1>5, <1>6 DEF OwnLive
<1>9. TypesLive'
  BY <1>5, <1>6 DEF TypesLive
<1> QED
  BY <1>3, <1>4, <1>7, <1>8, <1>9

\* Requests: what a call puts on the wire was raised if it is an escalation.
LEMMA CallKeeps ==
  ASSUME TypeOK, WireRaised, NEW s \in Sessions, NEW o \in Calls, NEW i \in Ids \cup {None},
         Call(s, o, i), o = "escalation" => i # None /\ raiser'[i] # None,
         \A e \in Ids : raiser[e] # None => raiser'[e] = raiser[e]
  PROVE  WireRaised'
<1> DEFINE Fine(m) == m.op = "escalation" => raiser'[m.id] # None
<1>1. ASSUME NEW x \in Sessions, NEW k \in DOMAIN wire[x] PROVE Fine(wire[x][k])
  <2>1. wire[x][k] \in MsgType
    BY DEF TypeOK
  <2> QED
    BY <2>1 DEF WireRaised, MsgType
<1>2. Fine(Msg(o, i))
  BY MsgTypes
<1>3. \A x \in Sessions : wire'[x] = wire[x] \/ (x = s /\ wire'[x] = Append(wire[x], Msg(o, i)))
  BY CallTypes
<1>4. ASSUME NEW x \in Sessions, NEW k \in DOMAIN wire'[x] PROVE Fine(wire'[x][k])
  <2>1. wire[x] \in Seq(MsgType)
    BY DEF TypeOK
  <2>2. CASE wire'[x] = wire[x]
    BY <1>1, <2>2
  <2>3. CASE wire'[x] = Append(wire[x], Msg(o, i))
    <3>1. (k \in DOMAIN wire[x] /\ wire'[x][k] = wire[x][k]) \/ wire'[x][k] = Msg(o, i)
      BY <2>1, <2>3
    <3> QED
      BY <1>1, <1>2, <3>1
  <2> QED
    BY <1>3, <2>2, <2>3
<1> QED
  BY <1>4 DEF WireRaised

\* The wire after a main task's step.
LEMMA MainTaskWire ==
  ASSUME IInv, NEW s \in Sessions, MainTask(s),
         \A e \in Ids : raiser[e] # None => raiser'[e] = raiser[e]
  PROVE  WireRaised'
<1> USE DEF callVars, historyVars
<1>0. TypeOK /\ WireRaised /\ task[s].id \in Ids \cup {None}
  BY DEF IInv, TypeOK, TaskType
<1> DEFINE Called == \E o \in Calls \ {"escalation"}, i \in Ids \cup {None} : Call(s, o, i)
<1>1. ASSUME Called PROVE WireRaised'
  BY <1>0, <1>1, CallKeeps
<1>2. ASSUME UNCHANGED wire PROVE WireRaised'
  <2>1. \A x \in Sessions : \A k \in DOMAIN wire[x] :
          wire[x][k].op = "escalation" => wire[x][k].id \in Ids
    <3>1. ASSUME NEW x \in Sessions, NEW k \in DOMAIN wire[x] PROVE wire[x][k] \in MsgType
      <4>1. wire[x] \in Seq(MsgType)
        BY <1>0 DEF TypeOK
      <4> QED
        BY <4>1
    <3> QED
      BY <3>1 DEF MsgType
  <2> QED
    BY <1>0, <1>2, <2>1 DEF WireRaised
<1>3. ASSUME NEW e \in Fresh, RaiseEscalation(s, e) PROVE WireRaised'
  <2>1. /\ Call(s, "escalation", e) /\ e \in Ids /\ e # None /\ "escalation" \in Calls
        /\ raiser' = [raiser EXCEPT ![e] = s]
    BY <1>0, <1>3, RaiseTypes DEF Calls, RaiseEscalation
  <2>2. raiser'[e] # None
    BY <1>0, <2>1, SupervisionAssumption DEF TypeOK, None
  <2> QED
    BY <1>0, <2>1, <2>2, CallKeeps
<1>4. /\ {"typed_contact", "undelivered_live", "undelivered_gone", "delivered", "prompt_contact",
          "prompt_undelivered", "fatal_error", "answered_contact", "retract", "supersede"}
           \subseteq Calls \ {"escalation"}
      /\ None \in Ids \cup {None}
  BY DEF Calls, Contacts, Retracts
<1>5. ASSUME NEW w \in Retracts, RetractDecision(s, w) PROVE Called
  BY <1>0, <1>4, <1>5, RetractTypes DEF Retracts
<1>6. ASSUME NEW o, Takes(s, o) PROVE jobs[s][1].id \in Ids \cup {None}
  BY <1>0, <1>6, TakesTypes DEF JobType
<1>7. CASE TurnEndQuiet(s)
  BY <1>2, <1>7 DEF TurnEndQuiet
<1>8. CASE TurnEndAnswered(s)
  BY <1>1, <1>5, <1>8 DEF TurnEndAnswered, Retracts
<1>9. CASE TurnEndClassified(s)
  BY <1>2, <1>3, <1>9 DEF TurnEndClassified, Classify
<1>10. CASE DeliverStale(s)
  BY <1>1, <1>4, <1>6, <1>10 DEF DeliverStale
<1>11. CASE DeliverTyping(s)
  BY <1>2, <1>11 DEF DeliverTyping
<1>12. CASE Typed(s)
  BY <1>0, <1>1, <1>4, <1>12 DEF Typed
<1>13. CASE TypingFails(s)
  BY <1>0, <1>1, <1>4, <1>13 DEF TypingFails
<1>14. CASE PromptTyped(s)
  BY <1>1, <1>4, <1>5, <1>14 DEF PromptTyped, Retracts
<1>15. CASE PromptFails(s)
  BY <1>1, <1>4, <1>15 DEF PromptFails, Fatal
<1>16. CASE DeliveryConfirmed(s)
  BY <1>0, <1>1, <1>4, <1>16 DEF DeliveryConfirmed
<1>17. CASE RetractAcked(s)
  <2>1. PICK o \in {"answered_contact", "prompt_contact"} : Call(s, o, None)
    BY <1>17 DEF RetractAcked
  <2> QED
    BY <1>1, <1>4, <2>1
<1>18. CASE AnsweredClassified(s)
  BY <1>2, <1>3, <1>18 DEF AnsweredClassified
<1>19. CASE CallEnds(s)
  BY <1>2, <1>19 DEF CallEnds
<1>20. CASE CallFails(s)
  BY <1>1, <1>4, <1>20 DEF CallFails, Fatal
<1> QED
  BY <1>7, <1>8, <1>9, <1>10, <1>11, <1>12, <1>13, <1>14, <1>15, <1>16, <1>17, <1>18, <1>19, <1>20
  DEF MainTask

\* The broker's queue only shrinks by the main task's steps.
LEMMA MainTaskJobs ==
  ASSUME IInv, NEW s \in Sessions, MainTask(s), chosen' = chosen
  PROVE  JobsChosen'
<1>1. (\E o : Takes(s, o)) \/ UNCHANGED jobs
  BY DEF MainTask, TurnEndQuiet, TurnEndAnswered, TurnEndClassified, DeliverStale, DeliverTyping,
         Typed, TypingFails, PromptTyped, PromptFails, DeliveryConfirmed, RetractAcked,
         AnsweredClassified, CallEnds, CallFails
<1>2. \A x \in Sessions : \A i \in DOMAIN jobs'[x] : \E j \in DOMAIN jobs[x] : jobs'[x][i] = jobs[x][j]
  <2>1. CASE UNCHANGED jobs
    BY <2>1
  <2>2. ASSUME NEW o, Takes(s, o) PROVE <1>2
    BY <2>2, TakesTypes DEF IInv
  <2> QED
    BY <1>1, <2>1, <2>2
<1> QED
  BY <1>2 DEF IInv, JobsChosen

LEMMA MasterKeeps ==
  ASSUME IInv, TypeOK', UNCHANGED <<state, live, task, raiser>>,
         \/ \E s \in Sessions : GiveUp(s) \/ TurnEnds(s) \/ SendPrompt(s) \/ HandleMessage(s) \/ Notified(s)
         \/ \E id \in Ids : DispatchStart(id)
         \/ DispatchTaken \/ DispatchAcked \/ DispatchFails \/ Crash \/ Restart
  PROVE  IInv'
<1> USE DEF brokerVars, callVars, masterVars, historyVars
<1>0. TypeOK /\ Settled /\ OwnLive /\ QueueRaised /\ WireRaised /\ DispatchChosen /\ JobsChosen /\ TypesLive
  BY DEF IInv
<1>1. Settled' /\ OwnLive'
  BY <1>0 DEF Settled, OwnLive
<1>2. chosen \subseteq chosen'
  BY DEF GiveUp, TurnEnds, SendPrompt, HandleMessage, Notified, DispatchStart, DispatchTaken,
         DispatchAcked, DispatchFails, Crash, Restart
<1>3. TypesLive'
  BY <1>0, <1>2 DEF TypesLive
<1>4. QueueRaised' /\ WireRaised'
  <2>1. ASSUME NEW s \in Sessions, HandleMessage(s) PROVE QueueRaised' /\ WireRaised'
    <3>1. /\ wire[s][1] \in MsgType /\ 1 \in DOMAIN wire[s]
          /\ \A x \in Sessions : \A i \in DOMAIN wire'[x] :
               \E j \in DOMAIN wire[x] : wire'[x][i] = wire[x][j]
          /\ \A i \in DOMAIN queue' :
               \/ \E j \in DOMAIN queue : queue'[i] = queue[j]
               \/ wire[s][1].op = "escalation" /\ queue'[i].id = wire[s][1].id
      BY <1>0, <2>1, HandledMessage
    <3> QED
      BY <1>0, <3>1 DEF QueueRaised, WireRaised
  <2>2. CASE UNCHANGED queue /\ (UNCHANGED wire \/ wire' = [x \in Sessions |-> << >>])
    BY <1>0, <2>2 DEF QueueRaised, WireRaised
  <2>3. \/ \E s \in Sessions : HandleMessage(s)
        \/ UNCHANGED queue /\ (UNCHANGED wire \/ wire' = [x \in Sessions |-> << >>])
    BY DEF GiveUp, TurnEnds, SendPrompt, Notified, DispatchStart, DispatchTaken,
           DispatchAcked, DispatchFails, Crash, Restart
  <2> QED
    BY <2>1, <2>2, <2>3
<1>5. DispatchChosen'
  <2>1. ASSUME NEW id \in Ids, DispatchStart(id) PROVE DispatchChosen'
    BY <2>1 DEF DispatchStart, DispatchChosen
  <2>2. CASE DispatchTaken
    <3>1. dispatch # NotDispatching /\ dispatch \in Dispatch
      BY <1>0, <2>2 DEF DispatchTaken, NotDispatching, TypeOK
    <3> QED
      BY <1>0, <2>2, <3>1 DEF DispatchTaken, DispatchChosen, Dispatch
  <2>3. CASE dispatch' = NotDispatching \/ UNCHANGED <<dispatch, chosen>>
    BY <1>0, <2>3 DEF DispatchChosen
  <2>4. \/ \E id \in Ids : DispatchStart(id)
        \/ DispatchTaken
        \/ dispatch' = NotDispatching \/ UNCHANGED <<dispatch, chosen>>
    BY DEF GiveUp, TurnEnds, SendPrompt, HandleMessage, Notified, DispatchAcked, DispatchFails,
           Crash, Restart
  <2> QED
    BY <2>1, <2>2, <2>3, <2>4
<1>6. JobsChosen'
  <2> DEFINE Fine(m) == m.op = "deliver" => m.id \in chosen'
  <2>1. ASSUME NEW s \in Sessions, NEW o \in {"turn_end", "deliver", "prompt"},
               NEW i \in Ids \cup {None}, Enqueue(s, o, i), Fine(Msg(o, i))
        PROVE  JobsChosen'
    <3>1. \A x \in Sessions : \A k \in DOMAIN jobs'[x] :
            (k \in DOMAIN jobs[x] /\ jobs'[x][k] = jobs[x][k]) \/ jobs'[x][k] = Msg(o, i)
      BY <1>0, <2>1, EnqueueTypes
    <3>2. \A x \in Sessions : \A k \in DOMAIN jobs[x] : Fine(jobs[x][k])
      BY <1>0, <1>2 DEF JobsChosen
    <3> QED
      BY <2>1, <3>1, <3>2 DEF JobsChosen
  <2>2. ASSUME NEW s \in Sessions, TurnEnds(s) \/ SendPrompt(s) PROVE JobsChosen'
    BY <2>1, <2>2 DEF TurnEnds, SendPrompt, Msg
  <2>3. CASE DispatchTaken
    <3>1. dispatch # NotDispatching /\ dispatch \in Dispatch
      BY <1>0, <2>3 DEF DispatchTaken, NotDispatching, TypeOK
    <3>2. dispatch.session \in Sessions /\ dispatch.id \in Ids /\ dispatch.id \in chosen'
      BY <1>0, <1>2, <3>1 DEF Dispatch, DispatchChosen
    <3>3. Enqueue(dispatch.session, "deliver", dispatch.id)
      BY <2>3 DEF DispatchTaken
    <3> QED
      BY <2>1, <3>2, <3>3 DEF Msg
  <2>4. CASE UNCHANGED jobs
    BY <1>0, <1>2, <2>4 DEF JobsChosen
  <2>5. \/ \E s \in Sessions : TurnEnds(s) \/ SendPrompt(s)
        \/ DispatchTaken \/ UNCHANGED jobs
    BY DEF GiveUp, HandleMessage, Notified, DispatchStart, DispatchAcked, DispatchFails, Crash, Restart
  <2> QED
    BY <2>2, <2>3, <2>4, <2>5
<1> QED
  BY <1>1, <1>3, <1>4, <1>5, <1>6 DEF IInv

\* What is not the main task's leaves the brokers' escalations alone.
LEMMA MasterFrame ==
  ASSUME \/ \E s \in Sessions : GiveUp(s) \/ TurnEnds(s) \/ SendPrompt(s) \/ HandleMessage(s) \/ Notified(s)
         \/ \E id \in Ids : DispatchStart(id)
         \/ DispatchTaken \/ DispatchAcked \/ DispatchFails \/ Crash \/ Restart
  PROVE  UNCHANGED <<state, live, task, raiser, entered>>
BY DEF GiveUp, TurnEnds, SendPrompt, HandleMessage, Notified, DispatchStart, DispatchTaken,
       DispatchAcked, DispatchFails, Crash, Restart, brokerVars, historyVars

LEMMA InvInit == Init => IInv
<1> SUFFICES ASSUME Init PROVE IInv
  OBVIOUS
<1>1. Idle.op = "idle"
  BY IdleType
<1> QED
  BY <1>1, InitTypes
  DEF Init, IInv, Settled, OwnLive, QueueRaised, WireRaised, DispatchChosen, JobsChosen, TypesLive

LEMMA InvStep == IInv /\ [Next]_vars => IInv'
<1> SUFFICES ASSUME IInv, [Next]_vars PROVE IInv'
  OBVIOUS
<1>1. TypeOK'
  BY TypeStep DEF IInv
<1>2. CASE UNCHANGED vars
  BY <1>1, <1>2 DEF vars, brokerVars, callVars, masterVars, historyVars, IInv, Settled, OwnLive,
     QueueRaised, WireRaised, DispatchChosen, JobsChosen, TypesLive
<1>3. ASSUME NEW s \in Sessions, MainTask(s) PROVE IInv'
  <2>1. Elsewhere(s) /\ Kinds(s)
    BY <1>3, MainTaskKinds
  <2>2. /\ Settled' /\ OwnLive' /\ TypesLive' /\ QueueRaised' /\ DispatchChosen'
        /\ \A e \in Ids : raiser[e] # None => raiser'[e] = raiser[e]
    BY <1>1, <2>1, KindsKeep
  <2>3. WireRaised' /\ JobsChosen'
    BY <1>3, <2>1, <2>2, MainTaskWire, MainTaskJobs DEF Elsewhere
  <2> QED
    BY <1>1, <2>2, <2>3 DEF IInv
<1>4. CASE Next
  BY <1>1, <1>3, <1>4, MasterKeeps, MasterFrame DEF Next
<1> QED
  BY <1>2, <1>4

-----------------------------------------------------------------------------
(* The refinement.                                                         *)

LifePhase == [e \in Ids |-> Phase(e)]

\* An escalation is open when it is the live one of the session that raised it.
LEMMA OpenIsLive ==
  ASSUME IInv, NEW e \in Ids
  PROVE  /\ Phase(e) = "open" <=> raiser[e] # None /\ live[raiser[e]] = e
         /\ \A s \in Sessions : live[s] = e => Phase(e) = "open" /\ raiser[e] = s
         /\ Phase(e) = "new" <=> raiser[e] = None
<1>1. e # None /\ None \notin Sessions
  BY SupervisionAssumption DEF Ids, None
<1> QED
  BY <1>1 DEF Phase, IInv, OwnLive

\* The phases after a step of session s.
LEMMA OtherPhases ==
  ASSUME IInv, TypeOK', NEW s \in Sessions, Elsewhere(s), NEW e \in Ids,
         raiser'[e] = raiser[e], (live'[s] = e) <=> (live[s] = e)
  PROVE  Phase(e)' = Phase(e)
<1>1. raiser[e] # None => raiser[e] \in Sessions
  BY DEF IInv, TypeOK
<1> QED
  BY <1>1 DEF Phase, Elsewhere

LEMMA RaiseOpens ==
  ASSUME IInv, TypeOK', NEW s \in Sessions, Elsewhere(s), NEW e \in Ids, Raises(s, e)
  PROVE  Life!Open(s, e)
<1>1. /\ raiser[e] = None /\ live[s] = None /\ raiser' = [raiser EXCEPT ![e] = s]
      /\ live'[s] = e /\ UNCHANGED <<chosen, entered>> /\ DOMAIN raiser = Ids
  BY DEF Raises, Elsewhere, IInv, TypeOK
<1>2. \A x \in Ids : x # None
  BY DEF Ids, None
<1>3. s # None
  BY SupervisionAssumption DEF None
<1>4. Phase(e)' = "open"
  BY <1>1, <1>3 DEF Phase
<1>5. ASSUME NEW x \in Ids, x # e PROVE Phase(x)' = Phase(x)
  BY <1>1, <1>2, <1>5, OtherPhases
<1>6. LifePhase[e] = "new" /\ \A x \in Ids : ~ (LifePhase[x] = "open" /\ raiser[x] = s)
  BY <1>1, <1>2, OpenIsLive DEF LifePhase
<1>7. LifePhase' = [LifePhase EXCEPT ![e] = "open"]
  BY <1>4, <1>5 DEF LifePhase
<1> QED
  BY <1>1, <1>6, <1>7 DEF Life!Open, LifePhase

\* The live escalation ends.
LEMMA EndCloses ==
  ASSUME IInv, TypeOK', NEW s \in Sessions, Elsewhere(s), live[s] # None, live'[s] = None,
         raiser' = raiser
  PROVE  /\ live[s] \in Ids /\ raiser[live[s]] = s /\ LifePhase[live[s]] = "open"
         /\ LifePhase' = [LifePhase EXCEPT ![live[s]] = "over"]
<1>1. PICK e \in Ids : e = live[s]
  BY DEF IInv, TypeOK
<1>2. Phase(e) = "open" /\ raiser[e] = s /\ raiser[e] # None
  BY <1>1, OpenIsLive
<1>3. Phase(e)' = "over"
  BY <1>1, <1>2 DEF Phase
<1>4. ASSUME NEW x \in Ids, x # e PROVE Phase(x)' = Phase(x)
  <2>1. x # None
    BY DEF Ids, None
  <2> QED
    BY <1>1, <1>4, <2>1, OtherPhases
<1> QED
  BY <1>1, <1>2, <1>3, <1>4 DEF LifePhase

LEMMA EnterEnters ==
  ASSUME IInv, TypeOK', NEW s \in Sessions, Elsewhere(s), Enters(s)
  PROVE  \E e \in Ids : Life!Enter(s, e)
<1>1. /\ live[s] # None /\ task[s].id = live[s] /\ live[s] \in chosen /\ live'[s] = None
      /\ raiser' = raiser /\ chosen' = chosen
      /\ entered' = [entered EXCEPT ![s][live[s]] = @ + 1]
  BY DEF Enters, Elsewhere, IInv, TypesLive
<1>2. /\ live[s] \in Ids /\ raiser[live[s]] = s /\ LifePhase[live[s]] = "open"
      /\ LifePhase' = [LifePhase EXCEPT ![live[s]] = "over"]
  BY <1>1, EndCloses
<1> QED
  BY <1>1, <1>2 DEF Life!Enter, LifePhase

LEMMA CloseCloses ==
  ASSUME IInv, TypeOK', NEW s \in Sessions, Elsewhere(s), Closes(s)
  PROVE  \E e \in Ids : Life!Close(e)
<1>1. live[s] # None /\ live'[s] = None /\ UNCHANGED <<raiser, entered, chosen>>
  BY DEF Closes, Elsewhere
<1>2. /\ live[s] \in Ids /\ LifePhase[live[s]] = "open"
      /\ LifePhase' = [LifePhase EXCEPT ![live[s]] = "over"]
  BY <1>1, EndCloses
<1> QED
  BY <1>1, <1>2 DEF Life!Close, LifePhase

\* What leaves live and raiser leaves the phases.
LEMMA SamePhases ==
  ASSUME UNCHANGED <<live, raiser>>
  PROVE  LifePhase' = LifePhase
BY DEF LifePhase, Phase

LEMMA StayStutters ==
  ASSUME IInv, TypeOK', NEW s \in Sessions, Elsewhere(s), Stays(s)
  PROVE  UNCHANGED Life!lifeVars
<1>1. live'[s] = live[s] /\ UNCHANGED <<raiser, entered, chosen>>
  BY DEF Stays, Elsewhere
<1>2. \A x \in Ids : Phase(x)' = Phase(x)
  BY <1>1, OtherPhases
<1> QED
  BY <1>1, <1>2 DEF Life!lifeVars

\* Choosing: what is dispatched was raised.
LEMMA DispatchChooses ==
  ASSUME IInv, NEW id \in Ids, DispatchStart(id)
  PROVE  Life!Choose(id)
<1>1. 1 \in DOMAIN queue /\ queue[1].id = id
  BY DEF DispatchStart, IsHead, IInv, TypeOK
<1>2. raiser[id] # None
  BY <1>1 DEF IInv, QueueRaised
<1>3. chosen' = chosen \cup {id} /\ UNCHANGED <<live, raiser, entered>>
  BY DEF DispatchStart, brokerVars
<1>4. LifePhase' = LifePhase
  BY <1>3, SamePhases
<1>5. LifePhase[id] # "new"
  BY <1>2, OpenIsLive DEF LifePhase
<1> QED
  BY <1>3, <1>4, <1>5 DEF Life!Choose, LifePhase

LEMMA RefineInit == Init => Life!LifeInit
<1> SUFFICES ASSUME Init PROVE Life!LifeInit
  OBVIOUS
<1> QED
  BY DEF Init, Life!LifeInit, Phase

LEMMA RefineStep == IInv /\ [Next]_vars => [Life!LifeNext]_(Life!lifeVars)
<1> SUFFICES ASSUME IInv, [Next]_vars PROVE [Life!LifeNext]_(Life!lifeVars)
  OBVIOUS
<1>1. TypeOK'
  BY TypeStep DEF IInv
<1>2. ASSUME UNCHANGED <<live, raiser, chosen, entered>> PROVE UNCHANGED Life!lifeVars
  BY <1>2, SamePhases DEF Life!lifeVars, LifePhase
<1>3. CASE UNCHANGED vars
  BY <1>2, <1>3 DEF vars, brokerVars, historyVars
<1>4. ASSUME NEW s \in Sessions, MainTask(s) PROVE Life!LifeNext \/ UNCHANGED Life!lifeVars
  <2>1. Elsewhere(s) /\ Kinds(s)
    BY <1>4, MainTaskKinds
  <2>2. ASSUME NEW e \in Ids, Raises(s, e) PROVE Life!LifeNext
    BY <1>1, <2>1, <2>2, RaiseOpens DEF Life!LifeNext
  <2>3. ASSUME Enters(s) PROVE Life!LifeNext
    BY <1>1, <2>1, <2>3, EnterEnters DEF Life!LifeNext
  <2>4. ASSUME Closes(s) PROVE Life!LifeNext
    BY <1>1, <2>1, <2>4, CloseCloses DEF Life!LifeNext
  <2>5. ASSUME Stays(s) PROVE UNCHANGED Life!lifeVars
    BY <1>1, <2>1, <2>5, StayStutters
  <2> QED
    BY <2>1, <2>2, <2>3, <2>4, <2>5 DEF Kinds
<1>5. ASSUME NEW id \in Ids, DispatchStart(id) PROVE Life!LifeNext
  BY <1>5, DispatchChooses DEF Life!LifeNext
<1>6. ASSUME \/ \E s \in Sessions :
                  GiveUp(s) \/ TurnEnds(s) \/ SendPrompt(s) \/ HandleMessage(s) \/ Notified(s)
             \/ DispatchTaken \/ DispatchAcked \/ DispatchFails \/ Crash \/ Restart
      PROVE  UNCHANGED Life!lifeVars
  <2>1. UNCHANGED <<live, raiser, chosen, entered>>
    BY <1>6 DEF GiveUp, TurnEnds, SendPrompt, HandleMessage, Notified, DispatchTaken, DispatchAcked,
       DispatchFails, Crash, Restart, brokerVars, historyVars
  <2> QED
    BY <1>2, <2>1
<1>7. CASE Next
  BY <1>4, <1>5, <1>6, <1>7 DEF Next
<1> QED
  BY <1>3, <1>7

\* Whatever is lost, late or fails, the brokers and the master together do what
\* EscalationLife promises: a decision is typed into the pane of the session
\* that asked, at most once and only while its escalation is active there, and
\* no session has two.
THEOREM Implements == Spec => ImplementsLife
<1>1. Init => IInv
  BY InvInit
<1>2. IInv /\ [Next]_vars => IInv'
  BY InvStep
<1>3. Init => Life!LifeInit
  BY RefineInit
<1>4. IInv /\ [Next]_vars => [Life!LifeNext]_(Life!lifeVars)
  BY RefineStep
<1> QED
  BY <1>1, <1>2, <1>3, <1>4, PTL DEF Spec, ImplementsLife, Life!LifeSpec

-----------------------------------------------------------------------------
(* No escalation is refused.                                               *)

\* Escalation e of session s at place k: in the queue q (place 0), or the k-th
\* of the requests w on their way.
Source(q, w, s, k, e) ==
  \/ k = 0 /\ \E i \in DOMAIN q : q[i].session = s /\ q[i].id = e
  \/ k \in DOMAIN w /\ w[k].op = "escalation" /\ w[k].id = e

\* Request m takes its sender's escalation e off the queue.
Clears(m, e) ==
  \/ m.op = "fatal_error"
  \/ m.op \in Retracts \cup {"undelivered_gone", "delivered"} /\ m.id = e

\* Nothing that clears e, at place k, is on its way.
Uncleared(q, w, s, k, e) ==
  Source(q, w, s, k, e) /\ \A j \in DOMAIN w : k < j => ~ Clears(w[j], e)

\* Before the next escalation is handled, the ones before it are cleared.
OrderlyIn(q, w, s) ==
  \A k \in Nat, i \in DOMAIN w, e \in Ids :
    Source(q, w, s, k, e) /\ k < i /\ w[i].op = "escalation" =>
      \E j \in DOMAIN w : k < j /\ j < i /\ Clears(w[j], e)
Orderly == \A s \in Sessions : OrderlyIn(queue, wire[s], s)

\* What a broker still has to clear.
Owed ==
  \A s \in Sessions, k \in Nat, e \in Ids :
    Uncleared(queue, wire[s], s, k, e) =>
      /\ state[s] = "escalated"
      /\ live[s] = e \/ (task[s].op = "typed_contact" /\ task[s].id = e)

\* A broker that waits for a decision has a live escalation; one that retracted
\* it drives.
Awaits ==
  \A s \in Sessions :
    /\ state[s] = "escalated" /\ task[s].op # "typed_contact" => live[s] # None
    /\ task[s].op \in {"retract", "answered_contact"} => state[s] = "driving"

\* A decision is made about the head, and confirmed only when it was made.
ChosenFirst == \A i \in DOMAIN queue : queue[i].id \in chosen => i = 1
WireChosen ==
  \A s \in Sessions : \A i \in DOMAIN wire[s] :
    /\ wire[s][i].op = "escalation" => wire[s][i].id \notin chosen
    /\ wire[s][i].op = "delivered" => wire[s][i].id \in chosen
TypedChosen ==
  \A s \in Sessions : task[s].op = "typed_contact" => task[s].id \in chosen

\* What was decided was raised.
ChosenRaised == \A e \in chosen : raiser[e] # None

\* An escalation is in one place.
Once ==
  \A s, t \in Sessions, k, n \in Nat, e \in Ids :
    Source(queue, wire[s], s, k, e) /\ Source(queue, wire[t], t, n, e) => s = t /\ k = n

QInv ==
  /\ up /\ UniqueLive(queue) /\ Orderly /\ Owed /\ Awaits
  /\ ChosenFirst /\ WireChosen /\ TypedChosen /\ ChosenRaised /\ Once /\ NeverRefused

-----------------------------------------------------------------------------
(* Requests sent and handled.                                              *)

LEMMA AppendAt ==
  ASSUME NEW w \in Seq(MsgType), NEW m \in MsgType
  PROVE  /\ Append(w, m) \in Seq(MsgType) /\ Len(w) \in Nat
         /\ DOMAIN w = 1 .. Len(w) /\ DOMAIN Append(w, m) = 1 .. Len(w) + 1
         /\ \A i \in DOMAIN w : Append(w, m)[i] = w[i]
         /\ Append(w, m)[Len(w) + 1] = m
OBVIOUS

LEMMA TailAt ==
  ASSUME NEW w \in Seq(MsgType), w # << >>
  PROVE  /\ Tail(w) \in Seq(MsgType) /\ Len(w) \in Nat /\ w[1] \in MsgType
         /\ DOMAIN w = 1 .. Len(w) /\ DOMAIN Tail(w) = 1 .. Len(w) - 1 /\ 1 \in DOMAIN w
         /\ \A i \in DOMAIN Tail(w) : Tail(w)[i] = w[i + 1]
OBVIOUS

\* A request that raises nothing is sent: what it clears is cleared.
LEMMA SendKeepsOrder ==
  ASSUME NEW q, NEW w \in Seq(MsgType), NEW m \in MsgType, NEW s, OrderlyIn(q, w, s),
         m.op # "escalation"
  PROVE  /\ OrderlyIn(q, Append(w, m), s)
         /\ \A k \in Nat, e \in Ids :
              /\ Source(q, Append(w, m), s, k, e) => Source(q, w, s, k, e)
              /\ Uncleared(q, Append(w, m), s, k, e) =>
                   Uncleared(q, w, s, k, e) /\ ~ Clears(m, e)
<1> DEFINE v == Append(w, m)
<1>1. /\ Len(w) \in Nat /\ DOMAIN w = 1 .. Len(w) /\ DOMAIN v = 1 .. Len(w) + 1
      /\ \A i \in DOMAIN w : v[i] = w[i]
      /\ v[Len(w) + 1] = m
  BY AppendAt
<1> HIDE DEF v
<1>2. ASSUME NEW k \in Nat, NEW e \in Ids, Source(q, v, s, k, e)
      PROVE  Source(q, w, s, k, e) /\ k < Len(w) + 1
  BY <1>1, <1>2 DEF Source
<1>3. ASSUME NEW k \in Nat, NEW e \in Ids, Uncleared(q, v, s, k, e)
      PROVE  Uncleared(q, w, s, k, e) /\ ~ Clears(m, e)
  <2>1. Source(q, w, s, k, e) /\ k < Len(w) + 1 /\ \A j \in DOMAIN v : k < j => ~ Clears(v[j], e)
    BY <1>2, <1>3 DEF Uncleared
  <2>2. \A j \in DOMAIN w : j \in DOMAIN v /\ v[j] = w[j]
    BY <1>1
  <2>3. Len(w) + 1 \in DOMAIN v
    BY <1>1
  <2> QED
    BY <1>1, <2>1, <2>2, <2>3 DEF Uncleared
<1>4. OrderlyIn(q, v, s)
  <2> SUFFICES ASSUME NEW k \in Nat, NEW i \in DOMAIN v, NEW e \in Ids, Source(q, v, s, k, e),
                      k < i, v[i].op = "escalation"
               PROVE  \E j \in DOMAIN v : k < j /\ j < i /\ Clears(v[j], e)
    BY DEF OrderlyIn
  <2>1. i \in DOMAIN w /\ w[i].op = "escalation"
    BY <1>1
  <2>2. PICK j \in DOMAIN w : k < j /\ j < i /\ Clears(w[j], e)
    BY <1>2, <2>1 DEF OrderlyIn
  <2>3. j \in DOMAIN v /\ v[j] = w[j]
    BY <1>1
  <2> QED
    BY <2>2, <2>3
<1> QED
  BY <1>2, <1>3, <1>4 DEF v

\* An escalation is sent when every earlier one is cleared.
LEMMA RaiseKeepsOrder ==
  ASSUME NEW q, NEW w \in Seq(MsgType), NEW m \in MsgType, NEW s, OrderlyIn(q, w, s),
         m.op = "escalation", \A k \in Nat, e \in Ids : ~ Uncleared(q, w, s, k, e)
  PROVE  /\ OrderlyIn(q, Append(w, m), s)
         /\ \A k \in Nat, e \in Ids :
              /\ Source(q, Append(w, m), s, k, e) =>
                   Source(q, w, s, k, e) \/ (k = Len(w) + 1 /\ e = m.id)
              /\ Uncleared(q, Append(w, m), s, k, e) => e = m.id
<1> DEFINE v == Append(w, m)
<1>1. /\ Len(w) \in Nat /\ DOMAIN w = 1 .. Len(w) /\ DOMAIN v = 1 .. Len(w) + 1
      /\ \A i \in DOMAIN w : v[i] = w[i]
      /\ v[Len(w) + 1] = m
  BY AppendAt
<1> HIDE DEF v
<1>2. ASSUME NEW k \in Nat, NEW e \in Ids, Source(q, v, s, k, e)
      PROVE  (Source(q, w, s, k, e) /\ k < Len(w) + 1) \/ (k = Len(w) + 1 /\ e = m.id)
  BY <1>1, <1>2 DEF Source
<1>3. ASSUME NEW k \in Nat, NEW e \in Ids, Source(q, w, s, k, e)
      PROVE  \E j \in DOMAIN w : k < j /\ Clears(w[j], e)
  BY <1>3 DEF Uncleared
<1>4. \A j \in DOMAIN w : j \in DOMAIN v /\ v[j] = w[j] /\ j < Len(w) + 1
  BY <1>1
<1>5. ASSUME NEW k \in Nat, NEW e \in Ids, Uncleared(q, v, s, k, e) PROVE e = m.id
  <2>1. Source(q, v, s, k, e) /\ \A j \in DOMAIN v : k < j => ~ Clears(v[j], e)
    BY <1>5 DEF Uncleared
  <2> QED
    BY <1>2, <1>3, <1>4, <2>1
<1>6. OrderlyIn(q, v, s)
  <2> SUFFICES ASSUME NEW k \in Nat, NEW i \in DOMAIN v, NEW e \in Ids, Source(q, v, s, k, e),
                      k < i, v[i].op = "escalation"
               PROVE  \E j \in DOMAIN v : k < j /\ j < i /\ Clears(v[j], e)
    BY DEF OrderlyIn
  <2>1. Source(q, w, s, k, e)
    BY <1>1, <1>2
  <2>2. CASE i \in DOMAIN w
    <3>1. PICK j \in DOMAIN w : k < j /\ j < i /\ Clears(w[j], e)
      BY <1>1, <2>1, <2>2 DEF OrderlyIn
    <3> QED
      BY <1>4, <3>1
  <2>3. CASE i = Len(w) + 1
    BY <1>3, <1>4, <2>1, <2>3
  <2> QED
    BY <1>1, <2>2, <2>3
<1> QED
  BY <1>2, <1>5, <1>6 DEF v

\* A request is handled: what it cleared is gone, what it raised is queued.
LEMMA HandlingKeepsOrder ==
  ASSUME NEW q, NEW p, NEW w \in Seq(MsgType), w # << >>, NEW s, OrderlyIn(q, w, s),
         \A e \in Ids : Source(p, << >>, s, 0, e) =>
           \/ Source(q, w, s, 0, e) /\ ~ Clears(w[1], e)
           \/ Source(q, w, s, 1, e)
  PROVE  /\ OrderlyIn(p, Tail(w), s)
         /\ \A k \in Nat, e \in Ids :
              /\ Source(p, Tail(w), s, k, e) =>
                   Source(q, w, s, k + 1, e) \/ (k = 0 /\ Source(q, w, s, 0, e))
              /\ Uncleared(p, Tail(w), s, k, e) => \E n \in Nat : Uncleared(q, w, s, n, e)
<1> DEFINE v == Tail(w)
<1>1. /\ Len(w) \in Nat /\ DOMAIN w = 1 .. Len(w) /\ DOMAIN v = 1 .. Len(w) - 1
      /\ \A i \in DOMAIN v : v[i] = w[i + 1]
  BY TailAt
<1> HIDE DEF v
<1>2. ASSUME NEW k \in Nat, NEW e \in Ids, Source(p, v, s, k, e)
      PROVE  \E n \in {k, k + 1} :
               /\ Source(q, w, s, n, e) /\ (n = k => k = 0)
               /\ \A i \in DOMAIN w : n < i /\ Clears(w[i], e) => k + 1 < i
  <2>1. CASE k = 0 /\ Source(p, << >>, s, 0, e)
    <3>1. CASE Source(q, w, s, 0, e) /\ ~ Clears(w[1], e)
      BY <1>1, <2>1, <3>1
    <3>2. CASE Source(q, w, s, 1, e)
      BY <1>1, <2>1, <3>2
    <3> QED
      BY <2>1, <3>1, <3>2
  <2>2. CASE k \in DOMAIN v /\ v[k].op = "escalation" /\ v[k].id = e
    BY <1>1, <2>2 DEF Source
  <2>3. Source(p, << >>, s, 0, e) \/ (k \in DOMAIN v /\ v[k].op = "escalation" /\ v[k].id = e)
    BY <1>2 DEF Source
  <2>4. k = 0 \/ (k \in DOMAIN v /\ v[k].op = "escalation" /\ v[k].id = e)
    BY <1>2 DEF Source
  <2> QED
    BY <2>1, <2>2, <2>3, <2>4
<1>3. ASSUME NEW k \in Nat, NEW e \in Ids, Uncleared(p, v, s, k, e)
      PROVE  \E n \in Nat : Uncleared(q, w, s, n, e)
  <2>1. Source(p, v, s, k, e) /\ \A j \in DOMAIN v : k < j => ~ Clears(v[j], e)
    BY <1>3 DEF Uncleared
  <2>2. PICK n \in {k, k + 1} :
          Source(q, w, s, n, e) /\ \A i \in DOMAIN w : n < i /\ Clears(w[i], e) => k + 1 < i
    BY <1>2, <2>1
  <2>3. ASSUME NEW i \in DOMAIN w, n < i PROVE ~ Clears(w[i], e)
    <3>1. SUFFICES ASSUME Clears(w[i], e) PROVE FALSE
      OBVIOUS
    <3>2. i - 1 \in DOMAIN v /\ k < i - 1 /\ v[i - 1] = w[i]
      BY <1>1, <2>2, <2>3, <3>1
    <3> QED
      BY <2>1, <3>1, <3>2
  <2> QED
    BY <2>2, <2>3 DEF Uncleared
<1>4. OrderlyIn(p, v, s)
  <2> SUFFICES ASSUME NEW k \in Nat, NEW i \in DOMAIN v, NEW e \in Ids, Source(p, v, s, k, e),
                      k < i, v[i].op = "escalation"
               PROVE  \E j \in DOMAIN v : k < j /\ j < i /\ Clears(v[j], e)
    BY DEF OrderlyIn
  <2>1. i + 1 \in DOMAIN w /\ w[i + 1].op = "escalation"
    BY <1>1
  <2>2. PICK n \in {k, k + 1} :
          Source(q, w, s, n, e) /\ \A j \in DOMAIN w : n < j /\ Clears(w[j], e) => k + 1 < j
    BY <1>2
  <2>3. n \in Nat /\ n < i + 1
    BY <1>1, <2>2
  <2>4. PICK j \in DOMAIN w : n < j /\ j < i + 1 /\ Clears(w[j], e)
    BY <2>1, <2>2, <2>3 DEF OrderlyIn
  <2>5. j - 1 \in DOMAIN v /\ k < j - 1 /\ j - 1 < i /\ v[j - 1] = w[j]
    BY <1>1, <2>2, <2>4
  <2> QED
    BY <2>4, <2>5
<1> QED
  BY <1>2, <1>3, <1>4 DEF v

\* Fewer escalations queued.
LEMMA FewerKeepsOrder ==
  ASSUME NEW q, NEW p, NEW w, NEW s, OrderlyIn(q, w, s),
         \A k \in Nat, e \in Ids : Source(p, w, s, k, e) => Source(q, w, s, k, e)
  PROVE  /\ OrderlyIn(p, w, s)
         /\ \A k \in Nat, e \in Ids : Uncleared(p, w, s, k, e) => Uncleared(q, w, s, k, e)
BY DEF OrderlyIn, Uncleared

-----------------------------------------------------------------------------
(* The main task.                                                          *)

\* A step of session s sends request m, or none.
Sends(s, m) ==
  /\ m \in MsgType /\ task'[s].op = m.op /\ task'[s].id = m.id
  /\ wire'[s] = Append(wire[s], m) /\ waiting'[s] = "request"
Silent(s) ==
  /\ wire'[s] = wire[s] /\ waiting'[s] \in {waiting[s], "no"}
  /\ task'[s].op \in {"idle", "typing"}

\* It raises e; it ends its escalation, or every one, with what clears it; its
\* decision has been typed; or it leaves its escalation alone, and a decision
\* just typed does not stay unreported.
SendsRaise(s, e) ==
  /\ state[s] = "driving" /\ state'[s] = "escalated" /\ live'[s] = e
  /\ e \in Ids /\ raiser[e] = None /\ \E m \in MsgType : Sends(s, m) /\ m.op = "escalation" /\ m.id = e
SendsEnd(s) ==
  /\ state'[s] \in {"driving", "error"}
  /\ \E m \in MsgType :
       /\ Sends(s, m) /\ m.op \notin {"escalation", "typed_contact"}
       /\ m.op \in {"retract", "answered_contact"} => state'[s] = "driving"
       /\ m.op = "delivered" => m.id \in chosen
       /\ \A k \in Nat, e \in Ids : Uncleared(queue, wire[s], s, k, e) => Clears(m, e)
SendsTyped(s) ==
  /\ state'[s] = state[s] /\ task[s].op = "typing"
  /\ \E m \in MsgType : Sends(s, m) /\ m.op = "typed_contact" /\ m.id = live[s] /\ m.id \in chosen
SendsOther(s) ==
  /\ state'[s] = state[s] /\ live'[s] = live[s] /\ task[s].op # "typed_contact"
  /\ \/ Silent(s)
     \/ \E m \in MsgType :
          /\ Sends(s, m) /\ m.op \notin {"escalation", "typed_contact", "delivered"}
          /\ m.op \in {"retract", "answered_contact"} => state[s] = "driving"

SendKinds(s) == (\E e \in Ids : SendsRaise(s, e)) \/ SendsEnd(s) \/ SendsTyped(s) \/ SendsOther(s)

\* What a step of session s leaves alone, for the invariant.
Beside(s) ==
  /\ Elsewhere(s) /\ up' = up
  /\ \A x \in Sessions \ {s} : wire'[x] = wire[x] /\ waiting'[x] = waiting[x]

LEMMA CallSends ==
  ASSUME TypeOK, up, NEW s \in Sessions, NEW o \in Calls, NEW i \in Ids \cup {None},
         Call(s, o, i), o = "escalation" => i # None
  PROVE  /\ \E m \in MsgType : Sends(s, m) /\ m.op = o /\ m.id = i
         /\ \A x \in Sessions \ {s} : /\ wire'[x] = wire[x] /\ waiting'[x] = waiting[x]
                                      /\ task'[x] = task[x]
<1>1. Msg(o, i) \in MsgType /\ Msg(o, i).op = o /\ Msg(o, i).id = i
  BY MsgTypes
<1>2. DOMAIN task = Sessions /\ DOMAIN wire = Sessions /\ DOMAIN waiting = Sessions
  BY DEF TypeOK
<1>3. /\ task' = [task EXCEPT ![s] = Msg(o, i)] /\ wire' = [wire EXCEPT ![s] = Append(@, Msg(o, i))]
      /\ waiting' = [waiting EXCEPT ![s] = "request"]
  BY DEF Call
<1> QED
  BY <1>1, <1>2, <1>3 DEF Sends

LEMMA RestIsSilent ==
  ASSUME TypeOK, NEW s \in Sessions, JobEnds(s), wire' = wire,
         waiting' = waiting \/ waiting' = [waiting EXCEPT ![s] = "no"]
  PROVE  Silent(s) /\ \A x \in Sessions \ {s} : wire'[x] = wire[x] /\ waiting'[x] = waiting[x]
<1>1. DOMAIN task = Sessions /\ DOMAIN waiting = Sessions
  BY DEF TypeOK
<1>2. task'[s] = Idle
  BY <1>1 DEF JobEnds
<1> QED
  BY <1>1, <1>2, IdleType DEF Silent

\* A session that waits for a decision and is in its queue's get, or sends
\* nothing about a typed one, has at most its live escalation uncleared.
LEMMA UnclearedIsLive ==
  ASSUME Owed, NEW s \in Sessions, task[s].op # "typed_contact", NEW k \in Nat, NEW e \in Ids,
         Uncleared(queue, wire[s], s, k, e)
  PROVE  state[s] = "escalated" /\ live[s] = e
BY DEF Owed

LEMMA FatalEnds ==
  ASSUME TypeOK, up, NEW s \in Sessions, Fatal(s)
  PROVE  SendsEnd(s) /\ \A x \in Sessions \ {s} : wire'[x] = wire[x] /\ waiting'[x] = waiting[x]
<1>1. "fatal_error" \in Calls /\ None \in Ids \cup {None}
      /\ Call(s, "fatal_error", None) /\ state'[s] = "error"
  BY DEF Calls, Fatal, TypeOK
<1>2. PICK m \in MsgType : Sends(s, m) /\ m.op = "fatal_error"
  BY <1>1, CallSends
<1>3. \A x \in Sessions \ {s} : wire'[x] = wire[x] /\ waiting'[x] = waiting[x]
  BY <1>1, CallSends
<1>4. \A e \in Ids : Clears(m, e)
  BY <1>2 DEF Clears
<1> QED
  BY <1>1, <1>2, <1>3, <1>4 DEF SendsEnd

LEMMA RetractEnds ==
  ASSUME TypeOK, Owed, up, NEW s \in Sessions, NEW r \in Retracts, RetractDecision(s, r),
         task[s].op # "typed_contact"
  PROVE  SendsEnd(s) /\ \A x \in Sessions \ {s} : wire'[x] = wire[x] /\ waiting'[x] = waiting[x]
<1>1. Call(s, r, live[s]) /\ r \in Calls /\ live[s] \in Ids \cup {None}
  BY RetractTypes
<1>2. state'[s] = "driving" /\ r \notin {"escalation", "typed_contact", "delivered"}
  BY DEF RetractDecision, TypeOK, Retracts
<1>3. PICK m \in MsgType : Sends(s, m) /\ m.op = r /\ m.id = live[s]
  BY <1>1, <1>2, CallSends
<1>4. \A x \in Sessions \ {s} : wire'[x] = wire[x] /\ waiting'[x] = waiting[x]
  BY <1>1, <1>2, CallSends
<1>5. \A k \in Nat, e \in Ids : Uncleared(queue, wire[s], s, k, e) => Clears(m, e)
  BY <1>3, UnclearedIsLive DEF Clears
<1> QED
  BY <1>2, <1>3, <1>4, <1>5 DEF SendsEnd

LEMMA RaiseSends ==
  ASSUME TypeOK, up, NEW s \in Sessions, NEW e \in Fresh, RaiseEscalation(s, e),
         state[s] = "driving"
  PROVE  SendsRaise(s, e) /\ \A x \in Sessions \ {s} : wire'[x] = wire[x] /\ waiting'[x] = waiting[x]
<1>1. Call(s, "escalation", e) /\ e \in Ids /\ e # None /\ raiser[e] = None /\ "escalation" \in Calls
  BY RaiseTypes DEF Calls
<1>2. live'[s] = e /\ state'[s] = "escalated"
  BY DEF RaiseEscalation, TypeOK
<1>3. PICK m \in MsgType : Sends(s, m) /\ m.op = "escalation" /\ m.id = e
  BY <1>1, CallSends
<1>4. \A x \in Sessions \ {s} : wire'[x] = wire[x] /\ waiting'[x] = waiting[x]
  BY <1>1, CallSends
<1> QED
  BY <1>1, <1>2, <1>3, <1>4 DEF SendsRaise

\* A request that says nothing about the broker's escalations.
LEMMA OtherSends ==
  ASSUME TypeOK, up, NEW s \in Sessions, NEW o \in Calls, NEW i \in Ids \cup {None}, Call(s, o, i),
         UNCHANGED <<state, live>>, task[s].op # "typed_contact",
         o \notin {"escalation", "typed_contact", "delivered"},
         o \in {"retract", "answered_contact"} => state[s] = "driving"
  PROVE  SendsOther(s) /\ \A x \in Sessions \ {s} : wire'[x] = wire[x] /\ waiting'[x] = waiting[x]
<1>1. PICK m \in MsgType : Sends(s, m) /\ m.op = o /\ m.id = i
  BY CallSends
<1>2. \A x \in Sessions \ {s} : wire'[x] = wire[x] /\ waiting'[x] = waiting[x]
  BY CallSends
<1> QED
  BY <1>1, <1>2 DEF SendsOther

LEMMA MainTaskSends ==
  ASSUME IInv, QInv, NEW s \in Sessions, MainTask(s)
  PROVE  Beside(s) /\ SendKinds(s)
<1> USE DEF callVars, masterVars, historyVars
<1>0. /\ TypeOK /\ Owed /\ Awaits /\ TypedChosen /\ TypesLive /\ up
      /\ {"typed_contact", "undelivered_live", "undelivered_gone", "delivered", "prompt_contact",
          "prompt_undelivered", "answered_contact"} \subseteq Calls
      /\ task[s].id \in Ids \cup {None} /\ None \in Ids \cup {None}
  BY DEF IInv, QInv, TypeOK, TaskType, Calls, Contacts
<1>1. Elsewhere(s) /\ up' = up
  <2>1. Elsewhere(s)
    BY MainTaskKinds
  <2>2. UNCHANGED masterVars
    BY DEF MainTask, TurnEndQuiet, TurnEndAnswered, TurnEndClassified, DeliverStale, DeliverTyping,
         Typed, TypingFails, PromptTyped, PromptFails, DeliveryConfirmed, RetractAcked,
         AnsweredClassified, CallEnds, CallFails
  <2> QED
    BY <2>1, <2>2
<1> DEFINE Others == \A x \in Sessions \ {s} : wire'[x] = wire[x] /\ waiting'[x] = waiting[x]
<1>2. ASSUME NEW o, Takes(s, o) PROVE task[s].op = "idle" /\ jobs[s][1].id \in Ids \cup {None}
  BY <1>0, <1>2, IdleType, TakesTypes DEF Takes, JobType
<1>3. SUFFICES SendKinds(s) /\ Others
  BY <1>1 DEF Beside
<1> USE DEF SendKinds
<1>4. CASE TurnEndQuiet(s)
  <2>1. task[s].op = "idle" /\ UNCHANGED <<state, live, task, wire, waiting>>
    BY <1>2, <1>4 DEF TurnEndQuiet
  <2> QED
    BY <2>1 DEF SendsOther, Silent
<1>5. CASE TurnEndAnswered(s)
  <2>1. RetractDecision(s, "retract") /\ task[s].op # "typed_contact" /\ "retract" \in Retracts
    BY <1>2, <1>5 DEF TurnEndAnswered, Retracts
  <2> QED
    BY <1>0, <2>1, RetractEnds
<1>6. CASE TurnEndClassified(s)
  <2>1. task[s].op = "idle" /\ state[s] = "driving" /\ Classify(s)
    BY <1>2, <1>6 DEF TurnEndClassified
  <2>2. CASE JobEnds(s) /\ UNCHANGED <<state, live, answered, callVars, raiser>>
    BY <1>0, <2>1, <2>2, RestIsSilent DEF SendsOther
  <2>3. ASSUME NEW e \in Fresh, RaiseEscalation(s, e) PROVE SendKinds(s) /\ Others
    BY <1>0, <2>1, <2>3, RaiseSends DEF SendsRaise
  <2> QED
    BY <2>1, <2>2, <2>3 DEF Classify
<1>7. CASE DeliverStale(s)
  <2>1. /\ Call(s, "undelivered_gone", jobs[s][1].id) /\ UNCHANGED <<state, live>>
        /\ jobs[s][1].id \in Ids \cup {None} /\ task[s].op # "typed_contact"
    BY <1>2, <1>7 DEF DeliverStale
  <2> QED
    BY <1>0, <2>1, OtherSends
<1>8. CASE DeliverTyping(s)
  <2>1. /\ task' = [task EXCEPT ![s] = Msg("typing", jobs[s][1].id)] /\ task[s].op # "typed_contact"
        /\ UNCHANGED <<state, live, wire, waiting>>
    BY <1>2, <1>8 DEF DeliverTyping
  <2>2. task'[s].op = "typing"
    BY <1>0, <2>1 DEF TypeOK, Msg
  <2> QED
    BY <2>1, <2>2 DEF SendsOther, Silent
<1>9. CASE Typed(s)
  <2>1. /\ Call(s, "typed_contact", task[s].id) /\ task[s].op = "typing" /\ state' = state
        /\ task[s].id = live[s] /\ live[s] \in chosen
    BY <1>0, <1>9 DEF Typed, TypesLive
  <2>2. PICK m \in MsgType : Sends(s, m) /\ m.op = "typed_contact" /\ m.id = live[s]
    BY <1>0, <2>1, CallSends
  <2>3. Others
    BY <1>0, <2>1, CallSends
  <2> QED
    BY <2>1, <2>2, <2>3 DEF SendsTyped
<1>10. CASE TypingFails(s)
  <2>1. /\ Call(s, "undelivered_live", task[s].id) /\ UNCHANGED <<state, live>>
        /\ task[s].op # "typed_contact"
    BY <1>10 DEF TypingFails
  <2> QED
    BY <1>0, <2>1, OtherSends
<1>11. CASE PromptTyped(s)
  <2>1. task[s].op = "idle" /\ "supersede" \in Retracts
    BY <1>2, <1>11 DEF PromptTyped, Retracts
  <2>2. CASE live[s] # None
    <3>1. RetractDecision(s, "supersede")
      BY <1>11, <2>2 DEF PromptTyped
    <3> QED
      BY <1>0, <2>1, <3>1, RetractEnds
  <2>3. CASE live[s] = None
    <3>1. Call(s, "prompt_contact", None) /\ state'[s] = "driving"
      BY <1>0, <1>11, <2>3 DEF PromptTyped, TypeOK
    <3>2. PICK m \in MsgType : Sends(s, m) /\ m.op = "prompt_contact"
      BY <1>0, <3>1, CallSends
    <3>3. Others
      BY <1>0, <3>1, CallSends
    <3>4. \A k \in Nat, e \in Ids : ~ Uncleared(queue, wire[s], s, k, e)
      BY <1>0, <2>1, <2>3, UnclearedIsLive DEF Awaits
    <3> QED
      BY <3>1, <3>2, <3>3, <3>4 DEF SendsEnd
  <2> QED
    BY <2>2, <2>3
<1>12. CASE PromptFails(s)
  <2>1. /\ task[s].op = "idle" /\ live' = live
        /\ (Call(s, "prompt_undelivered", None) /\ UNCHANGED state) \/ Fatal(s)
    BY <1>2, <1>12 DEF PromptFails
  <2> QED
    BY <1>0, <2>1, OtherSends, FatalEnds
<1>13. CASE DeliveryConfirmed(s)
  <2>1. /\ Call(s, "delivered", task[s].id) /\ state'[s] = "driving"
        /\ task[s].op = "typed_contact" /\ task[s].id \in chosen
    BY <1>0, <1>13 DEF DeliveryConfirmed, TypedChosen, TypeOK
  <2>2. PICK m \in MsgType : Sends(s, m) /\ m.op = "delivered" /\ m.id = task[s].id
    BY <1>0, <2>1, CallSends
  <2>3. Others
    BY <1>0, <2>1, CallSends
  <2>4. ASSUME NEW k \in Nat, NEW e \in Ids, Uncleared(queue, wire[s], s, k, e) PROVE Clears(m, e)
    <3>1. live[s] = None
      BY <2>1 DEF IInv, Settled
    <3>2. e # None
      BY DEF Ids, None
    <3>3. task[s].id = e
      BY <1>0, <2>4, <3>1, <3>2 DEF Owed
    <3> QED
      BY <2>2, <3>3 DEF Clears
  <2> QED
    BY <2>1, <2>2, <2>3, <2>4 DEF SendsEnd
<1>14. CASE RetractAcked(s)
  <2>1. PICK o \in {"answered_contact", "prompt_contact"} :
          /\ Call(s, o, None) /\ UNCHANGED <<state, live>> /\ task[s].op \in Retracts
          /\ o = "answered_contact" => task[s].op = "retract"
    BY <1>14 DEF RetractAcked
  <2>2. task[s].op # "typed_contact" /\ (o = "answered_contact" => state[s] = "driving")
    BY <1>0, <2>1 DEF Awaits, Retracts
  <2> QED
    BY <1>0, <2>1, <2>2, OtherSends
<1>15. CASE AnsweredClassified(s)
  <2>1. state[s] = "driving" /\ task[s].op # "typed_contact"
    BY <1>0, <1>15 DEF AnsweredClassified, Awaits
  <2>2. CASE JobEnds(s) /\ waiting' = [waiting EXCEPT ![s] = "no"]
             /\ UNCHANGED <<state, live, answered, wire, raiser>>
    BY <1>0, <2>1, <2>2, RestIsSilent DEF SendsOther
  <2>3. ASSUME NEW e \in Fresh, RaiseEscalation(s, e) PROVE SendKinds(s) /\ Others
    BY <1>0, <2>1, <2>3, RaiseSends DEF SendsRaise
  <2> QED
    BY <1>15, <2>2, <2>3 DEF AnsweredClassified
<1>16. CASE CallEnds(s)
  <2>1. /\ JobEnds(s) /\ waiting' = [waiting EXCEPT ![s] = "no"] /\ UNCHANGED <<state, live, wire>>
        /\ task[s].op # "typed_contact"
    BY <1>16 DEF CallEnds
  <2> QED
    BY <1>0, <2>1, RestIsSilent DEF SendsOther
<1>17. CASE CallFails(s)
  BY <1>0, <1>17, FatalEnds DEF CallFails
<1> QED
  BY <1>4, <1>5, <1>6, <1>7, <1>8, <1>9, <1>10, <1>11, <1>12, <1>13, <1>14, <1>15, <1>16, <1>17
  DEF MainTask

-----------------------------------------------------------------------------
(* The invariant after a step of a main task.                              *)

LEMMA SourceRaised ==
  ASSUME IInv, NEW s \in Sessions, NEW k \in Nat, NEW e \in Ids, Source(queue, wire[s], s, k, e)
  PROVE  raiser[e] # None
BY DEF Source, IInv, QueueRaised, WireRaised

\* What a step of session s must show of it.
Upheld(s) ==
  /\ OrderlyIn(queue, wire'[s], s)
  /\ \A k \in Nat, e \in Ids :
       /\ Source(queue, wire'[s], s, k, e) =>
            Source(queue, wire[s], s, k, e) \/ (k = Len(wire[s]) + 1 /\ raiser[e] = None)
       /\ Uncleared(queue, wire'[s], s, k, e) =>
            /\ state'[s] = "escalated"
            /\ live'[s] = e \/ (task'[s].op = "typed_contact" /\ task'[s].id = e)
  /\ state'[s] = "escalated" /\ task'[s].op # "typed_contact" => live'[s] # None
  /\ task'[s].op \in {"retract", "answered_contact"} => state'[s] = "driving"
  /\ \A i \in DOMAIN wire'[s] :
       /\ wire'[s][i].op = "escalation" => wire'[s][i].id \notin chosen
       /\ wire'[s][i].op = "delivered" => wire'[s][i].id \in chosen
  /\ task'[s].op = "typed_contact" => task'[s].id \in chosen
  /\ waiting'[s] # "refused"

\* The requests on the wire after one more.
LEMMA WireAfterSend ==
  ASSUME IInv, QInv, NEW s \in Sessions, NEW m \in MsgType, Sends(s, m),
         m.op = "escalation" => m.id \notin chosen, m.op = "delivered" => m.id \in chosen
  PROVE  /\ \A i \in DOMAIN wire'[s] :
              /\ wire'[s][i].op = "escalation" => wire'[s][i].id \notin chosen
              /\ wire'[s][i].op = "delivered" => wire'[s][i].id \in chosen
         /\ wire[s] \in Seq(MsgType) /\ waiting'[s] # "refused"
<1>1. wire[s] \in Seq(MsgType)
  BY DEF IInv, TypeOK
<1>2. \A i \in DOMAIN Append(wire[s], m) :
        \/ i \in DOMAIN wire[s] /\ Append(wire[s], m)[i] = wire[s][i]
        \/ Append(wire[s], m)[i] = m
  BY <1>1
<1> QED
  BY <1>1, <1>2 DEF Sends, QInv, WireChosen

LEMMA SendUpholds ==
  ASSUME IInv, QInv, NEW s \in Sessions, SendKinds(s)
  PROVE  Upheld(s)
<1>0. /\ OrderlyIn(queue, wire[s], s) /\ Owed /\ Awaits /\ WireChosen /\ TypedChosen /\ ChosenRaised
      /\ \A e \in Ids : e # None
  BY DEF QInv, Orderly, Ids, None
<1>1. ASSUME NEW e \in Ids, SendsRaise(s, e) PROVE Upheld(s)
  <2>1. PICK m \in MsgType : Sends(s, m) /\ m.op = "escalation" /\ m.id = e
    BY <1>1 DEF SendsRaise
  <2>2. /\ state[s] = "driving" /\ state'[s] = "escalated" /\ live'[s] = e /\ raiser[e] = None
        /\ e \notin chosen
    BY <1>0, <1>1 DEF SendsRaise, ChosenRaised
  <2>3. /\ \A i \in DOMAIN wire'[s] :
             /\ wire'[s][i].op = "escalation" => wire'[s][i].id \notin chosen
             /\ wire'[s][i].op = "delivered" => wire'[s][i].id \in chosen
        /\ wire[s] \in Seq(MsgType) /\ waiting'[s] # "refused"
    BY <2>1, <2>2, WireAfterSend
  <2>4. \A k \in Nat, x \in Ids : ~ Uncleared(queue, wire[s], s, k, x)
    BY <1>0, <2>2 DEF Owed
  <2>5. /\ OrderlyIn(queue, wire'[s], s)
        /\ \A k \in Nat, x \in Ids :
             /\ Source(queue, wire'[s], s, k, x) =>
                  Source(queue, wire[s], s, k, x) \/ (k = Len(wire[s]) + 1 /\ x = m.id)
             /\ Uncleared(queue, wire'[s], s, k, x) => x = m.id
    <3> DEFINE v == Append(wire[s], m)
    <3>1. wire'[s] = v
      BY <2>1 DEF Sends
    <3>2. /\ OrderlyIn(queue, v, s)
          /\ \A k \in Nat, x \in Ids :
               /\ Source(queue, v, s, k, x) =>
                    Source(queue, wire[s], s, k, x) \/ (k = Len(wire[s]) + 1 /\ x = m.id)
               /\ Uncleared(queue, v, s, k, x) => x = m.id
      BY <1>0, <2>1, <2>3, <2>4, RaiseKeepsOrder, Zenon
    <3> QED
      BY <3>1, <3>2, Zenon
  <2>6. task'[s].op = "escalation"
    BY <2>1 DEF Sends
  <2> QED
    BY <1>0, <2>1, <2>2, <2>3, <2>5, <2>6 DEF Upheld
<1>2. ASSUME NEW m \in MsgType, Sends(s, m), m.op # "escalation", m.op = "delivered" => m.id \in chosen
      PROVE  /\ OrderlyIn(queue, wire'[s], s) /\ waiting'[s] # "refused"
             /\ task'[s].op = m.op /\ task'[s].id = m.id
             /\ \A k \in Nat, e \in Ids :
                  /\ Source(queue, wire'[s], s, k, e) => Source(queue, wire[s], s, k, e)
                  /\ Uncleared(queue, wire'[s], s, k, e) =>
                       Uncleared(queue, wire[s], s, k, e) /\ ~ Clears(m, e)
             /\ \A i \in DOMAIN wire'[s] :
                  /\ wire'[s][i].op = "escalation" => wire'[s][i].id \notin chosen
                  /\ wire'[s][i].op = "delivered" => wire'[s][i].id \in chosen
  <2>1. /\ \A i \in DOMAIN wire'[s] :
             /\ wire'[s][i].op = "escalation" => wire'[s][i].id \notin chosen
             /\ wire'[s][i].op = "delivered" => wire'[s][i].id \in chosen
        /\ wire[s] \in Seq(MsgType) /\ waiting'[s] # "refused"
    BY <1>2, WireAfterSend
  <2>2. wire'[s] = Append(wire[s], m) /\ task'[s].op = m.op /\ task'[s].id = m.id
    BY <1>2 DEF Sends
  <2>3. /\ OrderlyIn(queue, wire'[s], s)
        /\ \A k \in Nat, e \in Ids :
             /\ Source(queue, wire'[s], s, k, e) => Source(queue, wire[s], s, k, e)
             /\ Uncleared(queue, wire'[s], s, k, e) =>
                  Uncleared(queue, wire[s], s, k, e) /\ ~ Clears(m, e)
    <3> DEFINE v == Append(wire[s], m)
    <3>1. wire'[s] = v
      BY <2>2
    <3>2. /\ OrderlyIn(queue, v, s)
          /\ \A k \in Nat, e \in Ids :
               /\ Source(queue, v, s, k, e) => Source(queue, wire[s], s, k, e)
               /\ Uncleared(queue, v, s, k, e) =>
                    Uncleared(queue, wire[s], s, k, e) /\ ~ Clears(m, e)
      BY <1>0, <1>2, <2>1, SendKeepsOrder, Zenon
    <3> QED
      BY <3>1, <3>2, Zenon
  <2> QED
    BY <2>1, <2>2, <2>3
<1>3. CASE SendsEnd(s)
  <2>1. PICK m \in MsgType :
          /\ Sends(s, m) /\ m.op \notin {"escalation", "typed_contact"}
          /\ m.op \in {"retract", "answered_contact"} => state'[s] = "driving"
          /\ m.op = "delivered" => m.id \in chosen
          /\ \A k \in Nat, e \in Ids : Uncleared(queue, wire[s], s, k, e) => Clears(m, e)
    BY <1>3 DEF SendsEnd
  <2>2. state'[s] # "escalated"
    BY <1>3 DEF SendsEnd
  <2> QED
    BY <1>2, <2>1, <2>2 DEF Upheld
<1>4. CASE SendsTyped(s)
  <2>1. PICK m \in MsgType : Sends(s, m) /\ m.op = "typed_contact" /\ m.id = live[s] /\ m.id \in chosen
    BY <1>4 DEF SendsTyped
  <2>2. state'[s] = state[s] /\ task[s].op # "typed_contact"
    BY <1>4 DEF SendsTyped
  <2>3. \A k \in Nat, e \in Ids :
          Uncleared(queue, wire[s], s, k, e) => state[s] = "escalated" /\ live[s] = e
    BY <1>0, <2>2, UnclearedIsLive
  <2> QED
    BY <1>2, <2>1, <2>2, <2>3 DEF Upheld
<1>5. CASE SendsOther(s)
  <2>1. state'[s] = state[s] /\ live'[s] = live[s] /\ task[s].op # "typed_contact"
    BY <1>5 DEF SendsOther
  <2>2. /\ \A k \in Nat, e \in Ids :
             Uncleared(queue, wire[s], s, k, e) => state'[s] = "escalated" /\ live'[s] = e
        /\ state'[s] = "escalated" => live'[s] # None
    BY <1>0, <2>1, UnclearedIsLive DEF Awaits
  <2>3. CASE Silent(s)
    <3>1. waiting[s] # "refused"
      BY DEF QInv, NeverRefused
    <3> QED
      BY <1>0, <2>2, <2>3, <3>1 DEF Silent, Upheld, WireChosen
  <2>4. ASSUME NEW m \in MsgType, Sends(s, m), m.op \notin {"escalation", "typed_contact", "delivered"},
               m.op \in {"retract", "answered_contact"} => state[s] = "driving"
        PROVE  Upheld(s)
    BY <1>2, <2>1, <2>2, <2>4 DEF Upheld
  <2> QED
    BY <1>5, <2>3, <2>4 DEF SendsOther
<1> QED
  BY <1>1, <1>3, <1>4, <1>5 DEF SendKinds

LEMMA MainTaskOrder ==
  ASSUME IInv, QInv, TypeOK', NEW s \in Sessions, MainTask(s)
  PROVE  QInv'
<1>1. Beside(s) /\ SendKinds(s)
  BY MainTaskSends
<1>2. Upheld(s)
  BY <1>1, SendUpholds
<1>3. /\ queue' = queue /\ chosen' = chosen /\ up' = up
      /\ \A x \in Sessions \ {s} :
           /\ state'[x] = state[x] /\ live'[x] = live[x] /\ task'[x] = task[x]
           /\ wire'[x] = wire[x] /\ waiting'[x] = waiting[x]
  BY <1>1 DEF Beside, Elsewhere
<1>4. \A e \in Ids : raiser[e] # None => raiser'[e] = raiser[e]
  BY MainTaskKinds, KindsKeep
<1>5. up' /\ UniqueLive(queue') /\ ChosenFirst' /\ ChosenRaised'
  BY <1>3, <1>4 DEF QInv, ChosenFirst, ChosenRaised, IInv, TypeOK
<1>6. Orderly' /\ WireChosen' /\ TypedChosen' /\ NeverRefused'
  BY <1>2, <1>3 DEF QInv, Upheld, Orderly, WireChosen, TypedChosen, NeverRefused
<1>7. Owed' /\ Awaits'
  BY <1>2, <1>3 DEF QInv, Upheld, Owed, Awaits
<1>8. Once'
  <2>1. ASSUME NEW x \in Sessions, NEW k \in Nat, NEW e \in Ids, Source(queue', wire'[x], x, k, e)
        PROVE  \/ Source(queue, wire[x], x, k, e) /\ raiser[e] # None
               \/ x = s /\ k = Len(wire[s]) + 1 /\ raiser[e] = None
    BY <1>2, <1>3, <2>1, SourceRaised DEF Upheld
  <2> SUFFICES ASSUME NEW x \in Sessions, NEW t \in Sessions, NEW k \in Nat, NEW n \in Nat,
                      NEW e \in Ids, Source(queue', wire'[x], x, k, e), Source(queue', wire'[t], t, n, e)
               PROVE  x = t /\ k = n
    BY DEF Once
  <2> QED
    BY <2>1 DEF Once, QInv
<1> QED
  BY <1>5, <1>6, <1>7, <1>8 DEF QInv

-----------------------------------------------------------------------------
(* The invariant after a request is handled.                               *)

\* The entries of p are some of q's; the head is still the head if it is there.
Thinned(p, q) == \A i \in DOMAIN p : \E j \in DOMAIN q : p[i] = q[j] /\ (j = 1 => i = 1)

\* An entry that stays after a removal stays in place or moves forward.
LEMMA RemovalThins ==
  ASSUME NEW q \in Seq(Entry), UniqueLive(q), NEW id, NEW s
  PROVE  /\ Thinned(Retract(q, id), q) /\ Thinned(Resolve(q, id), q)
         /\ Thinned(RetractForSession(q, s), q)
<1>1. DOMAIN q = 1 .. Len(q) /\ Len(q) \in Nat
  OBVIOUS
<1>2. ASSUME NEW n \in 1 .. Len(q), NEW i \in DOMAIN Pop(q, n)
      PROVE  \E j \in DOMAIN q : Pop(q, n)[i] = q[j] /\ (j = 1 => i = 1)
  <2>1. /\ Len(Pop(q, n)) = Len(q) - 1 /\ Pop(q, n) \in Seq(Entry)
        /\ \A j \in 1 .. Len(q) - 1 : Pop(q, n)[j] = IF j < n THEN q[j] ELSE q[j + 1]
    BY <1>2, PopProperties
  <2>2. i \in 1 .. Len(q) - 1
    BY <2>1
  <2> QED
    BY <1>1, <2>1, <2>2
<1>3. /\ id \in IdsOf(q) => FirstWithId(q, id) \in 1 .. Len(q)
      /\ s \in SessionsOf(q) => FirstOfSession(q, s) \in 1 .. Len(q)
      /\ IsHead(q, id) => 1 \in 1 .. Len(q)
  <2>1. IsHead(q, id) => 1 \in 1 .. Len(q)
    BY <1>1 DEF IsHead
  <2> QED
    BY <2>1, Lookup
<1>4. Thinned(q, q) /\ \A n \in 1 .. Len(q) : Thinned(Pop(q, n), q)
  BY <1>2 DEF Thinned
<1> QED
  BY <1>3, <1>4 DEF Retract, Resolve, RetractForSession

\* An escalation of session s is handled when nothing of s is queued.
LEMMA HandledIsAccepted ==
  ASSUME IInv, QInv, NEW s \in Sessions, wire[s] # << >>, wire[s][1].op = "escalation"
  PROVE  /\ CanAccept(queue, [id |-> wire[s][1].id, session |-> s])
         /\ wire[s][1].id \in Ids /\ wire[s][1].id \notin IdsOf(queue)
<1> DEFINE m == wire[s][1]
<1>1. wire[s] \in Seq(MsgType) /\ queue \in Seq(Entry)
  BY DEF IInv, TypeOK
<1>2. m \in MsgType /\ 1 \in DOMAIN wire[s] /\ DOMAIN wire[s] \subseteq Nat
  BY <1>1, TailAt
<1>3. m.id \in Ids
  BY <1>2 DEF MsgType
<1>4. \A i \in DOMAIN queue : queue[i] \in Entry
  BY <1>1
<1>5. ASSUME s \in SessionsOf(queue) PROVE FALSE
  <2>1. PICK i \in DOMAIN queue : queue[i].session = s
    BY <1>5 DEF SessionsOf
  <2>2. Source(queue, wire[s], s, 0, queue[i].id) /\ queue[i].id \in Ids
    BY <1>4, <2>1 DEF Source, Entry
  <2>3. OrderlyIn(queue, wire[s], s)
    BY DEF QInv, Orderly
  <2>4. PICK j \in DOMAIN wire[s] : 0 < j /\ j < 1
    BY <1>2, <2>2, <2>3 DEF OrderlyIn
  <2> QED
    BY <1>2, <2>4
<1>6. ASSUME m.id \in IdsOf(queue) PROVE FALSE
  <2>1. PICK i \in DOMAIN queue : queue[i].id = m.id
    BY <1>6 DEF IdsOf
  <2>2. queue[i].session \in Sessions
    BY <1>4 DEF Entry
  <2>3. Source(queue, wire[queue[i].session], queue[i].session, 0, m.id)
    BY <2>1 DEF Source
  <2>4. Source(queue, wire[s], s, 1, m.id)
    BY <1>2 DEF Source
  <2>5. 0 = 1
    BY <1>3, <2>2, <2>3, <2>4 DEF QInv, Once
  <2> QED
    BY <2>5
<1> QED
  BY <1>3, <1>5, <1>6 DEF CanAccept

\* The queue after the first request of session s: no two entries of a session
\* or an id; each entry was there, is not cleared and is the head if it was, or
\* is the escalation the request raised.
LEMMA QueueAfter ==
  ASSUME IInv, QInv, NEW s \in Sessions, wire[s] # << >>
  PROVE  LET m == wire[s][1]
             q == AfterMessage(s, m)
         IN  /\ UniqueLive(q)
             /\ \A i \in DOMAIN q :
                  \/ \E j \in DOMAIN queue :
                       /\ q[i] = queue[j] /\ (j = 1 => i = 1)
                       /\ queue[j].session = s => ~ Clears(m, queue[j].id)
                  \/ m.op = "escalation" /\ q[i] = [id |-> m.id, session |-> s]
<1> DEFINE m == wire[s][1]
           p == [id |-> m.id, session |-> s]
           Fine(q) ==
             /\ UniqueLive(q)
             /\ \A i \in DOMAIN q :
                  \/ \E j \in DOMAIN queue :
                       /\ q[i] = queue[j] /\ (j = 1 => i = 1)
                       /\ queue[j].session = s => ~ Clears(m, queue[j].id)
                  \/ m.op = "escalation" /\ q[i] = p
<1>1. /\ wire[s] \in Seq(MsgType) /\ queue \in Seq(Entry) /\ UniqueLive(queue)
      /\ 1 \in DOMAIN wire[s]
  BY DEF IInv, QInv, TypeOK
<1>9. ASSUME NEW id
      PROVE  UniqueLive(Resolve(queue, id)) /\ IdsOf(Resolve(queue, id)) \subseteq IdsOf(queue)
  BY <1>1, RemovalsUnique
<1>2. ASSUME NEW q, UniqueLive(q),
             \/ q = Retract(queue, m.id) \/ q = Resolve(queue, m.id)
             \/ q = RetractForSession(queue, s),
             m.op = "fatal_error" => s \notin SessionsOf(q),
             m.op # "fatal_error" => m.id \notin IdsOf(q)
      PROVE  Fine(q)
  <2>0. Thinned(q, queue)
    BY <1>1, <1>2, RemovalThins
  <2>1. ASSUME NEW i \in DOMAIN q
        PROVE  \E j \in DOMAIN queue :
                 /\ q[i] = queue[j] /\ (j = 1 => i = 1)
                 /\ queue[j].session = s => ~ Clears(m, queue[j].id)
    <3>1. PICK j \in DOMAIN queue : q[i] = queue[j] /\ (j = 1 => i = 1)
      BY <2>0 DEF Thinned
    <3>2. q[i].id \in IdsOf(q) /\ q[i].session \in SessionsOf(q)
      BY DEF IdsOf, SessionsOf
    <3>3. queue[j].session = s => ~ Clears(m, queue[j].id)
      BY <1>2, <3>1, <3>2 DEF Clears
    <3> QED
      BY <3>1, <3>3
  <2> QED
    BY <1>2, <2>1
<1>3. CASE m.op = "escalation"
  <2>1. CanAccept(queue, p) /\ p \in Entry /\ p.id \notin IdsOf(queue)
    BY <1>3, HandledIsAccepted DEF Entry
  <2>2. UniqueLive(Accept(queue, p))
    BY <1>1, <2>1, AcceptUnique
  <2>3. \A i \in DOMAIN Accept(queue, p) :
          \/ i \in DOMAIN queue /\ Accept(queue, p)[i] = queue[i]
          \/ Accept(queue, p)[i] = p
    BY <1>1, <2>1 DEF Accept
  <2>4. AfterMessage(s, m) = Accept(queue, p)
    BY <1>3, <2>1 DEF AfterMessage, Retracts
  <2>5. \A e : ~ Clears(m, e)
    BY <1>3 DEF Clears, Retracts
  <2>6. Fine(Accept(queue, p))
    BY <1>3, <2>2, <2>3, <2>5
  <2> QED
    BY <2>4, <2>6
<1>4. CASE m.op \in Retracts \cup {"undelivered_gone"}
  <2>1. AfterMessage(s, m) = Retract(queue, m.id) /\ m.op # "fatal_error"
    BY <1>4 DEF AfterMessage, Retracts
  <2>2. UniqueLive(Retract(queue, m.id)) /\ m.id \notin IdsOf(Retract(queue, m.id))
    BY <1>1, RemovalsUnique
  <2>3. Fine(Retract(queue, m.id))
    BY <1>2, <2>1, <2>2
  <2> QED
    BY <2>1, <2>3
<1>5. CASE m.op = "delivered"
  <2>1. AfterMessage(s, m) = Resolve(queue, m.id)
    BY <1>5 DEF AfterMessage, Retracts
  <2>2. UniqueLive(Resolve(queue, m.id)) /\ IdsOf(Resolve(queue, m.id)) \subseteq IdsOf(queue)
    BY <1>9
  <2>3. m.id \notin IdsOf(Resolve(queue, m.id))
    <3>1. m.id \in chosen
      BY <1>1, <1>5 DEF QInv, WireChosen
    <3>2. ASSUME m.id \in IdsOf(queue) PROVE Resolve(queue, m.id) = Retract(queue, m.id)
      <4>1. PICK i \in DOMAIN queue : queue[i].id = m.id
        BY <3>2 DEF IdsOf
      <4>2. i = 1 /\ queue # << >>
        BY <3>1, <4>1 DEF QInv, ChosenFirst
      <4>3. IsHead(queue, m.id)
        BY <4>1, <4>2 DEF IsHead
      <4>4. FirstWithId(queue, m.id) = 1
        <5>1. FirstWithId(queue, m.id) \in DOMAIN queue /\ queue[FirstWithId(queue, m.id)].id = m.id
          BY <1>1, <3>2, Lookup
        <5> QED
          BY <3>1, <5>1 DEF QInv, ChosenFirst
      <4> QED
        BY <3>2, <4>3, <4>4 DEF Resolve, Retract
    <3>3. m.id \notin IdsOf(Retract(queue, m.id))
      BY <1>1, RemovalsUnique
    <3> QED
      BY <2>2, <3>2, <3>3
  <2>4. Fine(Resolve(queue, m.id))
    BY <1>2, <1>5, <2>2, <2>3
  <2> QED
    BY <2>1, <2>4
<1>6. CASE m.op = "fatal_error"
  <2>1. AfterMessage(s, m) = RetractForSession(queue, s)
    BY <1>6 DEF AfterMessage, Retracts
  <2>2. UniqueLive(RetractForSession(queue, s)) /\ s \notin SessionsOf(RetractForSession(queue, s))
    BY <1>1, RemovalsUnique
  <2>3. Fine(RetractForSession(queue, s))
    BY <1>2, <1>6, <2>2
  <2> QED
    BY <2>1, <2>3
<1>7. CASE m.op \notin Retracts \cup {"escalation", "undelivered_gone", "delivered", "fatal_error"}
  <2>1. AfterMessage(s, m) = queue /\ \A e : ~ Clears(m, e)
    BY <1>7 DEF AfterMessage, Clears, Retracts
  <2>2. Fine(queue)
    BY <1>1, <2>1
  <2> QED
    BY <2>1, <2>2
<1>8. Fine(AfterMessage(s, m))
  BY <1>3, <1>4, <1>5, <1>6, <1>7
<1> QED
  BY <1>8

LEMMA HandleOrder ==
  ASSUME IInv, QInv, NEW s \in Sessions, HandleMessage(s)
  PROVE  QInv'
<1> DEFINE m == wire[s][1]
<1>0. /\ wire[s] \in Seq(MsgType) /\ wire[s] # << >> /\ 1 \in DOMAIN wire[s]
      /\ DOMAIN wire = Sessions /\ DOMAIN waiting = Sessions /\ queue \in Seq(Entry)
      /\ \A i \in DOMAIN queue : queue[i].id \in Ids
  <2>1. wire[s] \in Seq(MsgType) /\ wire[s] # << >> /\ queue \in Seq(Entry)
        /\ DOMAIN wire = Sessions /\ DOMAIN waiting = Sessions
    BY DEF IInv, TypeOK, HandleMessage
  <2>2. \A i \in DOMAIN queue : queue[i] \in Entry
    BY <2>1
  <2> QED
    BY <2>1, <2>2 DEF Entry
<1>1. /\ queue' = AfterMessage(s, m) /\ wire'[s] = Tail(wire[s])
      /\ \A x \in Sessions \ {s} : wire'[x] = wire[x]
      /\ UNCHANGED <<state, live, task, up, raiser, chosen>>
  BY <1>0 DEF HandleMessage, brokerVars, historyVars
<1>2. /\ UniqueLive(queue')
      /\ \A i \in DOMAIN queue' :
           \/ \E j \in DOMAIN queue :
                /\ queue'[i] = queue[j] /\ (j = 1 => i = 1)
                /\ queue[j].session = s => ~ Clears(m, queue[j].id)
           \/ m.op = "escalation" /\ queue'[i] = [id |-> m.id, session |-> s]
  BY <1>0, <1>1, QueueAfter
<1>3. NeverRefused'
  <2>1. m.op = "escalation" => CanAccept(queue, [id |-> m.id, session |-> s])
    BY <1>0, HandledIsAccepted
  <2>2. waiting' = waiting \/ waiting' = [waiting EXCEPT ![s] = "notifying"]
                          \/ waiting' = [waiting EXCEPT ![s] = "acked"]
    BY <2>1 DEF HandleMessage
  <2> QED
    BY <1>0, <2>2 DEF QInv, NeverRefused
<1>4. ChosenFirst'
  <2> SUFFICES ASSUME NEW i \in DOMAIN queue', queue'[i].id \in chosen PROVE i = 1
    BY <1>1 DEF ChosenFirst
  <2>1. ASSUME NEW j \in DOMAIN queue, queue'[i] = queue[j], j = 1 => i = 1 PROVE i = 1
    BY <2>1 DEF QInv, ChosenFirst
  <2>2. ASSUME m.op = "escalation", queue'[i] = [id |-> m.id, session |-> s] PROVE FALSE
    BY <1>0, <2>2 DEF QInv, WireChosen
  <2> QED
    BY <1>2, <2>1, <2>2
<1>5. WireChosen' /\ TypedChosen' /\ ChosenRaised' /\ Awaits'
  <2>1. \A i \in DOMAIN Tail(wire[s]) : Tail(wire[s])[i] = wire[s][i + 1] /\ i + 1 \in DOMAIN wire[s]
    BY <1>0
  <2>2. \A x \in Sessions : \A i \in DOMAIN wire'[x] : \E j \in DOMAIN wire[x] : wire'[x][i] = wire[x][j]
    BY <1>1, <2>1
  <2>3. WireChosen'
    BY <1>1, <2>2 DEF QInv, WireChosen
  <2> QED
    BY <1>1, <2>3 DEF QInv, TypedChosen, ChosenRaised, Awaits
<1>6. ASSUME NEW e \in Ids, Source(queue', << >>, s, 0, e)
      PROVE  \/ Source(queue, wire[s], s, 0, e) /\ ~ Clears(m, e)
             \/ Source(queue, wire[s], s, 1, e)
  <2>1. PICK i \in DOMAIN queue' : queue'[i].session = s /\ queue'[i].id = e
    BY <1>6 DEF Source
  <2>2. ASSUME NEW j \in DOMAIN queue, queue'[i] = queue[j],
               queue[j].session = s => ~ Clears(m, queue[j].id)
        PROVE  Source(queue, wire[s], s, 0, e) /\ ~ Clears(m, e)
    BY <2>1, <2>2 DEF Source
  <2>3. ASSUME m.op = "escalation", queue'[i] = [id |-> m.id, session |-> s]
        PROVE  Source(queue, wire[s], s, 1, e)
    BY <1>0, <2>1, <2>3 DEF Source
  <2> QED
    BY <1>2, <2>2, <2>3
<1>7. /\ OrderlyIn(queue', wire'[s], s)
      /\ \A k \in Nat, e \in Ids :
           /\ Source(queue', wire'[s], s, k, e) =>
                Source(queue, wire[s], s, k + 1, e) \/ (k = 0 /\ Source(queue, wire[s], s, 0, e))
           /\ Uncleared(queue', wire'[s], s, k, e) =>
                \E n \in Nat : Uncleared(queue, wire[s], s, n, e)
  <2> DEFINE v == Tail(wire[s])
  <2>1. OrderlyIn(queue, wire[s], s)
    BY DEF QInv, Orderly
  <2>2. /\ OrderlyIn(queue', v, s)
        /\ \A k \in Nat, e \in Ids :
             /\ Source(queue', v, s, k, e) =>
                  Source(queue, wire[s], s, k + 1, e) \/ (k = 0 /\ Source(queue, wire[s], s, 0, e))
             /\ Uncleared(queue', v, s, k, e) =>
                  \E n \in Nat : Uncleared(queue, wire[s], s, n, e)
    BY <1>0, <1>6, <2>1, HandlingKeepsOrder, Zenon
  <2> QED
    BY <1>1, <2>2, Zenon
<1>8. ASSUME NEW x \in Sessions \ {s}
      PROVE  /\ OrderlyIn(queue', wire'[x], x)
             /\ \A k \in Nat, e \in Ids :
                  /\ Source(queue', wire'[x], x, k, e) => Source(queue, wire[x], x, k, e)
                  /\ Uncleared(queue', wire'[x], x, k, e) => Uncleared(queue, wire[x], x, k, e)
  <2> DEFINE w == wire[x]
  <2>1. wire'[x] = w /\ OrderlyIn(queue, w, x)
    BY <1>1 DEF QInv, Orderly
  <2>2. \A i \in DOMAIN queue' : queue'[i].session = x => \E j \in DOMAIN queue : queue'[i] = queue[j]
    BY <1>2
  <2> HIDE DEF w
  <2>3. \A k \in Nat, e \in Ids : Source(queue', w, x, k, e) => Source(queue, w, x, k, e)
    BY <2>2 DEF Source
  <2>4. /\ OrderlyIn(queue', w, x)
        /\ \A k \in Nat, e \in Ids : Uncleared(queue', w, x, k, e) => Uncleared(queue, w, x, k, e)
    BY <2>1, <2>3, FewerKeepsOrder, Zenon
  <2> QED
    BY <2>1, <2>3, <2>4 DEF w
<1>9. Orderly'
  BY <1>7, <1>8 DEF Orderly
<1>10. Owed'
  BY <1>1, <1>7, <1>8 DEF QInv, Owed
<1>11. Once'
  <2>1. ASSUME NEW x \in Sessions, NEW k \in Nat, NEW e \in Ids, Source(queue', wire'[x], x, k, e)
        PROVE  \E n \in Nat :
                 /\ Source(queue, wire[x], x, n, e)
                 /\ IF x = s THEN n = k + 1 \/ (k = 0 /\ n = 0) ELSE n = k
    <3>1. CASE x = s
      BY <1>7, <2>1, <3>1
    <3>2. CASE x # s
      BY <1>8, <2>1, <3>2
    <3> QED
      BY <3>1, <3>2
  <2> SUFFICES ASSUME NEW x \in Sessions, NEW t \in Sessions, NEW k \in Nat, NEW n \in Nat,
                      NEW e \in Ids, Source(queue', wire'[x], x, k, e), Source(queue', wire'[t], t, n, e)
               PROVE  x = t /\ k = n
    BY DEF Once
  <2>2. PICK i \in Nat : /\ Source(queue, wire[x], x, i, e)
                         /\ IF x = s THEN i = k + 1 \/ (k = 0 /\ i = 0) ELSE i = k
    BY <2>1
  <2>3. PICK j \in Nat : /\ Source(queue, wire[t], t, j, e)
                         /\ IF t = s THEN j = n + 1 \/ (n = 0 /\ j = 0) ELSE j = n
    BY <2>1
  <2>4. x = t /\ i = j
    BY <2>2, <2>3 DEF QInv, Once
  <2> QED
    BY <2>2, <2>3, <2>4
<1>12. up' /\ UniqueLive(queue')
  BY <1>1, <1>2 DEF QInv
<1> QED
  BY <1>3, <1>4, <1>5, <1>9, <1>10, <1>11, <1>12 DEF QInv

-----------------------------------------------------------------------------
(* The other steps, and the theorem.                                       *)

LEMMA DispatchStartOrder ==
  ASSUME IInv, QInv, NEW id \in Ids, DispatchStart(id)
  PROVE  QInv'
<1>1. /\ chosen' = chosen \cup {id} /\ 1 \in DOMAIN queue /\ queue[1].id = id
      /\ UNCHANGED <<state, live, task, wire, waiting, up, queue, raiser>>
  BY DEF DispatchStart, brokerVars, callVars, IsHead, IInv, TypeOK
<1>2. Orderly' /\ Owed' /\ Awaits' /\ Once' /\ NeverRefused' /\ up' /\ UniqueLive(queue')
  BY <1>1 DEF QInv, Orderly, Owed, Awaits, Once, NeverRefused
<1>3. ChosenFirst'
  BY <1>1 DEF QInv, ChosenFirst, UniqueLive
<1>4. ChosenRaised'
  BY <1>1 DEF QInv, ChosenRaised, IInv, QueueRaised
<1>5. WireChosen'
  <2>1. ASSUME NEW s \in Sessions, NEW i \in DOMAIN wire[s], wire[s][i].op = "escalation",
               wire[s][i].id = id
        PROVE  FALSE
    <3>1. queue \in Seq(Entry) /\ wire[s] \in Seq(MsgType)
      BY DEF IInv, TypeOK
    <3>2. queue[1] \in Entry /\ i \in Nat \ {0}
      BY <1>1, <3>1
    <3>3. queue[1].session \in Sessions
      BY <3>2 DEF Entry
    <3>4. Source(queue, wire[queue[1].session], queue[1].session, 0, id) /\ Source(queue, wire[s], s, i, id)
      BY <1>1, <2>1 DEF Source
    <3>5. 0 = i
      BY <3>2, <3>3, <3>4 DEF QInv, Once
    <3> QED
      BY <3>2, <3>5
  <2> QED
    BY <1>1, <2>1 DEF QInv, WireChosen
<1>6. TypedChosen'
  BY <1>1 DEF QInv, TypedChosen
<1> QED
  BY <1>2, <1>3, <1>4, <1>5, <1>6 DEF QInv

LEMMA QuietOrder ==
  ASSUME QInv, UNCHANGED <<state, live, task, wire, up, queue, raiser, chosen>>,
         \A s \in Sessions : waiting'[s] = waiting[s] \/ waiting'[s] # "refused"
  PROVE  QInv'
BY DEF QInv, Orderly, Owed, Awaits, Once, NeverRefused, ChosenFirst, ChosenRaised, WireChosen,
       TypedChosen

LEMMA QueueInit == Init => QInv
<1> SUFFICES ASSUME Init PROVE QInv
  OBVIOUS
<1>1. /\ up /\ queue = << >> /\ chosen = {} /\ DOMAIN queue = {}
      /\ \A s \in Sessions : /\ wire[s] = << >> /\ DOMAIN wire[s] = {} /\ waiting[s] = "no"
                             /\ state[s] = "driving" /\ task[s].op = "idle"
  BY IdleType DEF Init
<1>2. \A s \in Sessions, k \in Nat, e \in Ids : ~ Source(queue, wire[s], s, k, e)
  BY <1>1 DEF Source
<1> QED
  BY <1>1, <1>2 DEF QInv, UniqueLive, Orderly, OrderlyIn, Owed, Uncleared, Awaits, ChosenFirst,
     WireChosen, TypedChosen, ChosenRaised, Once, NeverRefused

LEMMA QueueStep ==
  ASSUME "crash" \notin Faults, IInv, QInv, [Next]_vars
  PROVE  QInv'
<1>1. TypeOK' /\ up /\ DOMAIN waiting = Sessions
  BY TypeStep DEF IInv, QInv, TypeOK
<1> USE DEF brokerVars, callVars, masterVars, historyVars
<1>2. CASE UNCHANGED vars
  BY <1>2, QuietOrder DEF vars
<1>3. ASSUME NEW s \in Sessions, MainTask(s) PROVE QInv'
  BY <1>1, <1>3, MainTaskOrder
<1>4. ASSUME NEW s \in Sessions, GiveUp(s) \/ TurnEnds(s) \/ SendPrompt(s) \/ Notified(s) PROVE QInv'
  <2>1. /\ UNCHANGED <<state, live, task, wire, up, queue, raiser, chosen>>
        /\ waiting' = waiting \/ waiting' = [waiting EXCEPT ![s] = "failed"]
                              \/ waiting' = [waiting EXCEPT ![s] = "acked"]
    BY <1>4 DEF GiveUp, TurnEnds, SendPrompt, Notified
  <2> QED
    BY <1>1, <2>1, QuietOrder
<1>5. ASSUME NEW s \in Sessions, HandleMessage(s) PROVE QInv'
  BY <1>5, HandleOrder
<1>6. ASSUME NEW id \in Ids, DispatchStart(id) PROVE QInv'
  BY <1>6, DispatchStartOrder
<1>7. CASE DispatchTaken \/ DispatchAcked \/ DispatchFails
  <2>1. UNCHANGED <<state, live, task, wire, waiting, up, queue, raiser, chosen>>
    BY <1>7 DEF DispatchTaken, DispatchAcked, DispatchFails
  <2> QED
    BY <2>1, QuietOrder
<1>8. ~ Crash /\ ~ Restart
  BY <1>1 DEF Crash, Restart, Fault
<1>9. CASE Next
  BY <1>3, <1>4, <1>5, <1>6, <1>7, <1>8, <1>9 DEF Next
<1> QED
  BY <1>2, <1>9

\* Unless the master crashes, it never refuses an escalation, whatever the
\* order in which late requests are handled, replies are read and panes fail:
\* a broker that raises one has sent before it what takes the earlier one off
\* the queue, however that one ended, and the master handles it first.
THEOREM NothingRefused ==
  ASSUME "crash" \notin Faults
  PROVE  Spec => []NeverRefused
<1>1. Init => IInv /\ QInv
  BY InvInit, QueueInit
<1>2. IInv /\ QInv /\ [Next]_vars => (IInv /\ QInv)'
  BY InvStep, QueueStep
<1>3. IInv /\ QInv => NeverRefused
  BY DEF QInv
<1> QED
  BY <1>1, <1>2, <1>3, PTL DEF Spec

=============================================================================

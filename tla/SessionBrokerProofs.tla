------------------------- MODULE SessionBrokerProofs -------------------------
(***************************************************************************)
(* Proofs about SessionBroker, for any launch, hooks, requests and         *)
(* failures and any bounds.                                                *)
(*                                                                         *)
(* First the types, then the invariant IInv: while an escalation is live   *)
(* the agenda holds no step that drives the session or leads to it, a      *)
(* decision about to be typed is that escalation's, and one already typed  *)
(* for is live no more.  Handlers touch neither the agenda nor the live    *)
(* escalation; the steps of the main task are taken one lemma per kind.    *)
(*                                                                         *)
(* On IInv rest four further invariants.  AskOK with VerifyOK: the picker  *)
(* on the screen stays claimed, if each question waits for the             *)
(* verification of the one before.  Orderly: the reports of a failure and  *)
(* of the end come last.  RetractOK with QuestionOK: the question of the   *)
(* claimed menu is with the master, on its way, or lost with a session     *)
(* that failed.  Agreed: the master holds the live escalation and what is  *)
(* being withdrawn.  Two theorems are about behaviours in which one step   *)
(* of the main task finds no escalation live; why is said at each.         *)
(***************************************************************************)
EXTENDS SessionBroker, TLAPS

Plain == Ops \ (AboutEscalation \cup AboutTool)

\* How a step is built, and what is known of one.
LEMMA StepTypes ==
  /\ \A o \in Plain, n \in Nat : Step(o, n) \in StepType
  /\ \A o \in AboutEscalation, e \in Ids : Step(o, e) \in StepType
  /\ \A o \in AboutTool, t \in Tools : Step(o, t) \in StepType
BY DEF Step, StepType, Plain

LEMMA StepParts ==
  ASSUME NEW s \in StepType
  PROVE  /\ s.op \in AboutEscalation => s.arg \in Ids
         /\ s.op \in AboutTool => s.arg \in Tools
         /\ s.arg \in Nat /\ s.op \in Ops
         /\ s.op = "budget_update" => s.arg \in Nat
<1>1. Ids \subseteq Nat /\ Tools \subseteq Nat
  BY BrokerAssumption DEF Ids, Tools
<1>2. AboutEscalation \subseteq Ops /\ AboutTool \subseteq Ops
  BY DEF AboutEscalation, AboutTool, Ops, Messages, Typings, JobOps
<1>3. AboutEscalation \cap AboutTool = {}
  BY DEF AboutEscalation, AboutTool
<1> QED
  BY <1>1, <1>2, <1>3 DEF StepType

\* The steps that carry no escalation and no question.
LEMMA PlainOps ==
  {"bind", "ground", "grounding", "approval", "serve", "classify", "recover", "triage",
   "complete", "contact", "drive", "drive_contact", "exit", "completion",
   "prompt_proposal", "budget_update", "prompt_undelivered", "fatal_error",
   "session_ended", "type_opening", "type_answer", "type_prompt", "turn_end", "reconcile",
   "menu_answered", "out_of_band", "reactivate", "send_prompt", "fatal", "session_end"}
    \subseteq Plain
BY DEF Plain, Ops, Messages, Typings, JobOps, AboutEscalation, AboutTool

\* The sequences the steps are put into.
LEMMA Sequences ==
  /\ << >> \in Seq(StepType)
  /\ \A s, t, u \in StepType :
       <<s>> \in Seq(StepType) /\ <<s, t>> \in Seq(StepType) /\ <<s, t, u>> \in Seq(StepType)
  /\ \A q, r \in Seq(StepType) :
       q \o r \in Seq(StepType) /\ (q # << >> => q[1] \in StepType /\ Tail(q) \in Seq(StepType))
  /\ \A q \in Seq(StepType), s \in StepType : Append(q, s) \in Seq(StepType)
OBVIOUS

-----------------------------------------------------------------------------
(* Types.                                                                  *)

\* _fatal, and _launch's way out.
LEMMA FatalType ==
  ASSUME Fatal
  PROVE  agenda' \in Seq(StepType) /\ state' \in SessionState
<1>1. Step("fatal_error", 0) \in StepType /\ Step("exit", 0) \in StepType
  BY StepTypes, PlainOps
<1>2. "error" \in SessionState
  BY DEF SessionState
<1> QED
  BY <1>1, <1>2, Sequences DEF Fatal

\* The launch and the event loop.
LEMMA LaunchType ==
  ASSUME TypeOK
  PROVE  /\ Bind => TypeOK'
         /\ Ground => TypeOK'
         /\ Grounded => TypeOK'
         /\ Approved => TypeOK'
         /\ Serve => TypeOK'
         /\ Exit => TypeOK'
<1>1. /\ Step("grounding", 0) \in StepType /\ Step("prompt_proposal", 0) \in StepType
      /\ Step("approval", 0) \in StepType /\ Step("type_opening", 0) \in StepType
  BY StepTypes, PlainOps
<1>2. {"grounding", "awaiting_approval"} \subseteq SessionState
  BY DEF SessionState
<1>3. agenda # << >> => Rest \in Seq(StepType)
  BY Sequences DEF TypeOK, Rest
<1>4. ASSUME Bind PROVE TypeOK'
  <2>1. agenda' \in Seq(StepType) /\ state' \in SessionState
    BY <1>3, <1>4, FatalType DEF Bind, At, TypeOK
  <2> QED
    BY <1>4, <2>1 DEF Bind, TypeOK, escVars, askVars, sessionVars, screenVars, masterVars
<1>5. ASSUME Ground PROVE TypeOK'
  <2>1. agenda' \in Seq(StepType) /\ state' \in SessionState
    BY <1>1, <1>2, <1>3, <1>5, Sequences DEF Ground, At
  <2> QED
    BY <1>5, <2>1 DEF Ground, TypeOK, escVars, askVars, sessionVars, screenVars, masterVars
<1>6. ASSUME Grounded PROVE TypeOK'
  <2>1. agenda' \in Seq(StepType) /\ state' \in SessionState
    <3>1. CASE Fatal
      BY <3>1, FatalType
    <3>2. CASE ~Fatal
      <4>1. /\ state' = "awaiting_approval" /\ agenda # << >>
            /\ agenda' = <<Step("prompt_proposal", 0), Step("approval", 0)>> \o Rest
        BY <1>6, <3>2 DEF Grounded, At
      <4>2. <<Step("prompt_proposal", 0), Step("approval", 0)>> \in Seq(StepType)
        BY <1>1
      <4> QED
        BY <1>2, <1>3, <4>1, <4>2, Sequences
    <3> QED
      BY <3>1, <3>2
  <2> QED
    BY <1>6, <2>1 DEF Grounded, TypeOK, escVars, askVars, sessionVars, screenVars, masterVars
<1>7. ASSUME Approved PROVE TypeOK'
  <2>1. agenda' \in Seq(StepType) /\ state' \in SessionState
    <3>1. CASE Occupied
      BY <1>7, <3>1, FatalType DEF Approved
    <3>2. CASE ~Occupied
      <4>1. /\ agenda # << >> /\ agenda' = <<Step("type_opening", 0)>> \o Rest
            /\ state' = state /\ state \in SessionState
        BY <1>7, <3>2 DEF Approved, At, TypeOK
      <4> QED
        BY <1>1, <1>3, <4>1, Sequences
    <3> QED
      BY <3>1, <3>2
  <2> QED
    BY <1>7, <2>1 DEF Approved, TypeOK, escVars, askVars, sessionVars, screenVars, masterVars
<1>8. ASSUME Serve PROVE TypeOK'
  BY <1>3, <1>8 DEF Serve, At, TypeOK, escVars, askVars, sessionVars, screenVars, masterVars
<1>9. ASSUME Exit PROVE TypeOK'
  BY <1>9, Sequences
     DEF Exit, At, TypeOK, escVars, askVars, sessionVars, screenVars, masterVars
<1> QED
  BY <1>4, <1>5, <1>6, <1>7, <1>8, <1>9

\* What may stand before the rest of the job.
LEMMA Ahead ==
  ASSUME TypeOK, agenda # << >>
  PROVE  /\ agenda[1] \in StepType /\ Rest \in Seq(StepType)
         /\ \A s \in StepType : <<s>> \o Rest \in Seq(StepType)
         /\ \A s, t \in StepType : <<s, t>> \o Rest \in Seq(StepType)
<1>1. agenda \in Seq(StepType)
  BY DEF TypeOK
<1>2. agenda[1] \in StepType /\ Rest \in Seq(StepType)
  BY <1>1, Sequences DEF Rest
<1> QED
  BY <1>2, Sequences

\* A job's steps.
LEMMA StepsType ==
  ASSUME NEW s \in StepType
  PROVE  Steps(s) \in Seq(StepType)
<1>1. \A o \in {"menu_answered", "out_of_band", "classify", "recover", "session_ended", "exit"} :
        Step(o, 0) \in StepType
  BY StepTypes, PlainOps
<1> QED
  BY <1>1, Sequences DEF Steps

\* The jobs that move no data.
LEMMA JobType ==
  ASSUME TypeOK
  PROVE  /\ NextJob => TypeOK'
         /\ MarkState => TypeOK'
         /\ SendPrompt => TypeOK'
         /\ Deliver => TypeOK'
         /\ TypingFails => TypeOK'
         /\ ReportFatal => TypeOK'
<1>1. ASSUME NextJob PROVE TypeOK'
  <2>1. agenda' \in Seq(StepType) /\ jobs' \in Seq(StepType)
    <3>1. agenda \in Seq(StepType) /\ jobs \in Seq(StepType)
      BY DEF TypeOK
    <3>2. CASE shutdown
      BY <1>1, <3>1, <3>2 DEF NextJob
    <3>3. CASE ~shutdown
      <4>1. jobs # << >> /\ agenda' = Steps(jobs[1]) /\ jobs' = Tail(jobs)
        BY <1>1, <3>3 DEF NextJob
      <4> QED
        BY <3>1, <4>1, StepsType, Sequences
    <3> QED
      BY <3>2, <3>3
  <2>2. life' \in {"serving", "exited"}
    BY <1>1 DEF NextJob
  <2> QED
    BY <1>1, <2>1, <2>2 DEF NextJob, TypeOK, escVars, askVars, sessionVars, screenVars,
       masterVars
<1>2. ASSUME MarkState PROVE TypeOK'
  <2>1. agenda' \in Seq(StepType)
    BY <1>2, Ahead DEF MarkState, At
  <2>2. {"driving", "completed"} \subseteq SessionState
    BY DEF SessionState
  <2> QED
    BY <1>2, <2>1, <2>2 DEF MarkState, TypeOK, escVars, askVars, sessionVars, screenVars,
       masterVars
<1>3. ASSUME SendPrompt PROVE TypeOK'
  <2>1. Step("prompt_undelivered", 0) \in StepType /\ Step("type_prompt", 0) \in StepType
    BY StepTypes, PlainOps
  <2>2. agenda' \in Seq(StepType)
    BY <1>3, <2>1, Sequences DEF SendPrompt
  <2> QED
    BY <1>3, <2>2 DEF SendPrompt, TypeOK, escVars, askVars, sessionVars, screenVars, masterVars
<1>4. ASSUME Deliver PROVE TypeOK'
  <2>1. Arg \in Ids
    BY <1>4, Ahead, StepParts DEF Deliver, At, Arg, AboutEscalation
  <2>2. \A o \in {"undelivered_gone", "undelivered_live", "type_decision"} :
          Step(o, Arg) \in StepType
    BY <2>1, StepTypes DEF AboutEscalation
  <2>3. agenda' \in Seq(StepType)
    BY <1>4, <2>2, Sequences DEF Deliver, ReportGone
  <2> QED
    BY <1>4, <2>3 DEF Deliver, TypeOK, escVars, askVars, sessionVars, screenVars, masterVars
<1>5. ASSUME TypingFails PROVE TypeOK'
  <2>1. agenda' \in Seq(StepType) /\ state' \in SessionState
    <3>1. CASE At("type_decision")
      <4>1. Arg \in Ids
        BY <3>1, Ahead, StepParts DEF At, Arg, AboutEscalation
      <4>2. Step("undelivered_live", Arg) \in StepType
        BY <4>1, StepTypes DEF AboutEscalation
      <4>3. agenda' = <<Step("undelivered_live", Arg)>> /\ state' = state
        BY <1>5, <3>1 DEF TypingFails
      <4> QED
        BY <4>2, <4>3, Sequences DEF TypeOK
    <3>2. CASE ~At("type_decision")
      BY <1>5, <3>2, FatalType DEF TypingFails
    <3> QED
      BY <3>1, <3>2
  <2> QED
    BY <1>5, <2>1 DEF TypingFails, TypeOK, escVars, askVars, sessionVars, screenVars,
       masterVars
<1>6. ASSUME ReportFatal PROVE TypeOK'
  <2>1. agenda' \in Seq(StepType) /\ state' \in SessionState
    BY <1>6, FatalType DEF ReportFatal
  <2> QED
    BY <1>6, <2>1 DEF ReportFatal, TypeOK, escVars, askVars, sessionVars, screenVars,
       masterVars
<1> QED
  BY <1>1, <1>2, <1>3, <1>4, <1>5, <1>6

\* _end_active_escalation.
LEMMA EndActiveType ==
  ASSUME EndActive
  PROVE  active' \in Ids \cup {0} /\ clarifying' \subseteq Ids
BY DEF EndActive

\* The jobs that resolve, report contact or start over.
LEMMA ContactType ==
  ASSUME TypeOK
  PROVE  /\ MenuAnswered => TypeOK'
         /\ OutOfBand => TypeOK'
         /\ Contact => TypeOK'
         /\ Classify => TypeOK'
         /\ Reactivate => TypeOK'
<1>1. /\ Step("contact", 0) \in StepType /\ Step("budget_update", 0) \in StepType
      /\ Step("ground", 0) \in StepType /\ Step("triage", 0) \in StepType
  BY StepTypes, PlainOps
<1>2. "driving" \in SessionState
  BY DEF SessionState
<1>3. ASSUME MenuAnswered PROVE TypeOK'
  <2>1. agenda # << >> /\ menu.id \in Ids \cup {0}
    BY <1>3 DEF MenuAnswered, At, TypeOK
  <2>2. menu.id # 0 => Step("pane_retract", menu.id) \in StepType
    BY <2>1, StepTypes DEF AboutEscalation
  <2>3. menu' \in [tool : Tools \cup {0}, id : Ids \cup {0}, injected : BOOLEAN]
    <3>1. NoMenu \in [tool : Tools \cup {0}, id : Ids \cup {0}, injected : BOOLEAN]
      BY DEF NoMenu
    <3> QED
      BY <1>3, <3>1 DEF MenuAnswered, TypeOK
  <2>4. \/ agenda' = Rest
        \/ agenda' = << >> \o Rest
        \/ menu.id # 0 /\ agenda' = <<Step("pane_retract", menu.id)>> \o Rest
        \/ menu.id # 0 /\ agenda' = <<Step("pane_retract", menu.id), Step("contact", 0)>> \o Rest
    BY <1>3 DEF MenuAnswered
  <2>5. agenda' \in Seq(StepType)
    BY <1>1, <2>1, <2>2, <2>4, Ahead, Sequences
  <2> QED
    BY <1>3, <2>3, <2>5 DEF MenuAnswered, TypeOK, escVars, askVars, sessionVars, screenVars,
       masterVars
<1>4. ASSUME OutOfBand PROVE TypeOK'
  <2>1. agenda # << >>
    BY <1>4 DEF OutOfBand, At
  <2>2. active # 0 => Step("escalation_retract", active) \in StepType
    BY StepTypes DEF AboutEscalation, TypeOK
  <2>3. \/ agenda' = Rest
        \/ active # 0 /\ agenda' = <<Step("escalation_retract", active), Step("contact", 0)>> \o Rest
    BY <1>4 DEF OutOfBand
  <2>4. agenda' \in Seq(StepType)
    BY <1>1, <2>1, <2>2, <2>3, Ahead
  <2>5. active' \in Ids \cup {0} /\ clarifying' \subseteq Ids /\ state' \in SessionState
    BY <1>2, <1>4, EndActiveType DEF OutOfBand, TypeOK
  <2> QED
    BY <1>4, <2>4, <2>5 DEF OutOfBand, TypeOK, escVars, askVars, sessionVars, screenVars,
       masterVars
<1>5. ASSUME Contact PROVE TypeOK'
  <2>1. agenda # << >> /\ agenda' = <<Step("budget_update", 0)>> \o Rest
    BY <1>5 DEF Contact, At
  <2>2. agenda' \in Seq(StepType)
    BY <1>1, <2>1, Ahead
  <2>3. state' \in SessionState /\ budget' = 0
    BY <1>2, <1>5 DEF Contact, TypeOK
  <2> QED
    BY <1>5, <2>2, <2>3 DEF Contact, TypeOK, escVars, askVars, sessionVars, screenVars,
       masterVars
<1>6. ASSUME Classify PROVE TypeOK'
  <2>1. agenda # << >> /\ (agenda' = <<Step("triage", 0)>> \/ agenda' = Rest)
    BY <1>6 DEF Classify, At
  <2>2. agenda' \in Seq(StepType)
    BY <1>1, <2>1, Ahead, Sequences
  <2>3. state' \in SessionState /\ unread' \in BOOLEAN /\ sinceRead' \in BOOLEAN
    <3>1. CASE MayClassify
      BY <1>2, <1>6, <3>1 DEF Classify
    <3>2. CASE ~MayClassify
      BY <1>6, <3>2 DEF Classify, TypeOK
    <3> QED
      BY <3>1, <3>2
  <2> QED
    BY <1>6, <2>2, <2>3 DEF Classify, TypeOK, escVars, askVars, sessionVars, screenVars,
       masterVars
<1>7. ASSUME Reactivate PROVE TypeOK'
  <2>1. agenda' \in Seq(StepType)
    BY <1>1, <1>7, Sequences DEF Reactivate
  <2> QED
    BY <1>7, <2>1, EndActiveType DEF Reactivate, TypeOK, escVars, askVars, sessionVars,
       screenVars, masterVars
<1> QED
  BY <1>3, <1>4, <1>5, <1>6, <1>7

\* What _claim_menu queues.
LEMMA SupersededType ==
  ASSUME TypeOK
  PROVE  Superseded \in Seq(StepType)
<1>1. menu.id \in Ids \cup {0}
  BY DEF TypeOK
<1>2. menu.id # 0 => Step("pane_retract", menu.id) \in StepType
  BY <1>1, StepTypes DEF AboutEscalation
<1> QED
  BY <1>2, Sequences DEF Superseded

\* _raise_escalation.
LEMMA RaiseType ==
  ASSUME TypeOK, NEW counted \in BOOLEAN, Raise(counted)
  PROVE  /\ agenda' \in Seq(StepType) /\ state' \in SessionState
         /\ active' \in Ids \cup {0} /\ nextId' \in 1 .. MaxIds + 1
         /\ baselined' \in BOOLEAN /\ sinceBaseline' \in BOOLEAN
<1>1. nextId \in Ids /\ nextId + 1 \in 1 .. MaxIds + 1
  BY BrokerAssumption DEF Raise, CanRaise, TypeOK, Ids
<1>2. Step("escalation", nextId) \in StepType
  BY <1>1, StepTypes DEF AboutEscalation
<1>3. agenda' \in Seq(StepType)
  BY <1>2, Sequences DEF Raise
<1>4. "escalated" \in SessionState
  BY DEF SessionState
<1> QED
  BY <1>1, <1>3, <1>4 DEF Raise, TypeOK

\* Triage's verdict and the failed verifications, which may raise.
LEMMA RaisingType ==
  ASSUME TypeOK
  PROVE  /\ \A v \in Verdicts : Triaged(v) => TypeOK'
         /\ VerifyRecorded => TypeOK'
         /\ VerifyMissing => TypeOK'
<1>1. ASSUME NEW v \in Verdicts, Triaged(v) PROVE TypeOK'
  <2>1. /\ Step("type_answer", 0) \in StepType /\ Step("completion", 0) \in StepType
        /\ Step("complete", 0) \in StepType
    BY StepTypes, PlainOps
  <2>2. CASE Raise(TRUE)
    <3>1. /\ agenda' \in Seq(StepType) /\ state' \in SessionState
          /\ active' \in Ids \cup {0} /\ nextId' \in 1 .. MaxIds + 1
          /\ baselined' \in BOOLEAN /\ sinceBaseline' \in BOOLEAN
      BY <2>2, RaiseType
    <3> QED
      BY <1>1, <3>1 DEF Triaged, TypeOK, escVars, askVars, sessionVars, screenVars, masterVars
  <2>3. CASE ~Raise(TRUE)
    <3>1. UNCHANGED <<active, baselined, sinceBaseline, nextId>>
      BY <1>1, <2>3 DEF Triaged, escVars
    <3>2. \/ Fatal
          \/ /\ state' = state
             /\ \/ agenda' = <<Step("type_answer", 0)>> \/ agenda' = << >>
                \/ agenda' = <<Step("completion", 0), Step("complete", 0)>>
      BY <1>1, <2>3 DEF Triaged
    <3>3. agenda' \in Seq(StepType) /\ state' \in SessionState
      <4>1. CASE Fatal
        BY <4>1, FatalType
      <4>2. CASE ~Fatal
        <5>1. state' = state /\ state \in SessionState
          BY <3>2, <4>2 DEF TypeOK
        <5>2. \/ agenda' = <<Step("type_answer", 0)>> \/ agenda' = << >>
              \/ agenda' = <<Step("completion", 0), Step("complete", 0)>>
          BY <3>2, <4>2
        <5> QED
          BY <2>1, <5>1, <5>2, Sequences
      <4> QED
        BY <4>1, <4>2
    <3> QED
      BY <1>1, <3>1, <3>3 DEF Triaged, TypeOK, escVars, askVars, sessionVars, screenVars,
         masterVars
  <2> QED
    BY <2>2, <2>3
<1>2. ASSUME VerifyRecorded PROVE TypeOK'
  <2>1. /\ agenda' \in Seq(StepType) /\ state' \in SessionState
        /\ active' \in Ids \cup {0} /\ nextId' \in 1 .. MaxIds + 1
        /\ baselined' \in BOOLEAN /\ sinceBaseline' \in BOOLEAN
    BY <1>2, RaiseType DEF VerifyRecorded
  <2> QED
    BY <1>2, <2>1 DEF VerifyRecorded, TypeOK, escVars, askVars, sessionVars, screenVars,
       masterVars
<1>3. ASSUME VerifyMissing PROVE TypeOK'
  <2>1. Arg \in Tools
    BY <1>3, Ahead, StepParts DEF VerifyMissing, At, Arg, AboutTool
  <2>2. nextId \in Ids /\ nextId + 1 \in 1 .. MaxIds + 1
    BY <1>3, BrokerAssumption DEF VerifyMissing, CanRaise, TypeOK, Ids
  <2>3. menu' \in [tool : Tools \cup {0}, id : Ids \cup {0}, injected : BOOLEAN]
    BY <1>3, <2>1, <2>2 DEF VerifyMissing
  <2>4. agenda' \in Seq(StepType)
    BY <1>3, <2>2, StepTypes, Sequences DEF VerifyMissing, AboutEscalation
  <2>5. jobs' \in Seq(StepType)
    BY <1>3, SupersededType, Sequences DEF VerifyMissing, TypeOK
  <2> QED
    BY <1>3, <2>2, <2>3, <2>4, <2>5 DEF VerifyMissing, TypeOK, escVars, askVars, sessionVars,
       screenVars, masterVars
<1> QED
  BY <1>1, <1>2, <1>3

\* What the master holds after a message.
LEMMA HandledType ==
  ASSUME TypeOK, NEW m \in StepType, Handled(m)
  PROVE  held' \subseteq Ids /\ heldQuestions' \subseteq Ids /\ told' \in Nat
<1>1. m.op \in {"escalation", "pane_escalation"} => m.arg \in Ids
  BY StepParts DEF AboutEscalation
<1>2. held \subseteq Ids /\ heldQuestions \subseteq Ids /\ told \in Nat
  BY DEF TypeOK
<1>3. held' \subseteq Ids
  <2>1. held' \subseteq held \/ (m.op = "escalation" /\ held' = held \cup {m.arg})
    BY DEF Handled
  <2> QED
    BY <1>1, <1>2, <2>1
<1>4. heldQuestions' \subseteq Ids
  <2>1. \/ heldQuestions' \subseteq heldQuestions
        \/ m.op = "pane_escalation" /\ heldQuestions' = heldQuestions \cup {m.arg}
    BY DEF Handled
  <2> QED
    BY <1>1, <1>2, <2>1
<1>5. told' \in Nat
  BY <1>2, StepParts DEF Handled
<1> QED
  BY <1>3, <1>4, <1>5

\* _to_master.
LEMMA ToMasterType ==
  ASSUME TypeOK, ToMaster
  PROVE  TypeOK'
<1>1. agenda # << >>
  BY DEF ToMaster
<1> DEFINE m == agenda[1]
<1>2. m \in StepType /\ Rest \in Seq(StepType)
  BY <1>1, Ahead
<1>3. held' \subseteq Ids /\ heldQuestions' \subseteq Ids /\ told' \in Nat
  <2>1. Handled(m) \/ UNCHANGED masterVars
    BY DEF ToMaster
  <2>2. CASE Handled(m)
    <3> HIDE DEF m
    <3> QED
      BY <1>2, <2>2, HandledType
  <2>3. CASE UNCHANGED masterVars
    BY <2>3 DEF TypeOK, masterVars
  <2> QED
    BY <2>1, <2>2, <2>3
<1>4. \/ agenda' = Rest /\ UNCHANGED <<state, menu>>
      \/ agenda' = Rest /\ UNCHANGED state /\ menu' = DropRefused(m.arg)
      \/ Fatal /\ UNCHANGED menu
  BY DEF ToMaster
<1>5. DropRefused(m.arg) \in [tool : Tools \cup {0}, id : Ids \cup {0}, injected : BOOLEAN]
  BY DEF TypeOK, DropRefused
<1>6. agenda' \in Seq(StepType) /\ state' \in SessionState
  <2>1. state \in SessionState
    BY DEF TypeOK
  <2> QED
    BY <1>2, <1>4, <2>1, FatalType
<1>7. menu' \in [tool : Tools \cup {0}, id : Ids \cup {0}, injected : BOOLEAN]
  <2>1. menu \in [tool : Tools \cup {0}, id : Ids \cup {0}, injected : BOOLEAN]
    BY DEF TypeOK
  <2> QED
    BY <1>4, <1>5, <2>1
<1>8. UNCHANGED <<life, shutdown, jobs, bound, pending, escVars, budget, permPrompt, askVars,
                  clarifying, sessionVars, screenVars, nextId, typed>>
  BY DEF ToMaster
<1> QED
  BY <1>3, <1>6, <1>7, <1>8 DEF TypeOK, escVars, askVars, sessionVars, screenVars

\* A pane write that succeeded.
LEMMA TypedType ==
  ASSUME TypeOK, Typed
  PROVE  TypeOK'
<1>1. agenda # << >>
  BY DEF Typed
<1>2. "driving" \in SessionState
  BY DEF SessionState
<1>3. /\ Step("budget_update", 0) \in StepType /\ Step("drive", 0) \in StepType
      /\ Step("drive_contact", 0) \in StepType
  BY StepTypes, PlainOps
<1>4. budget \in Nat /\ active \in Ids \cup {0}
  BY DEF TypeOK
<1>5. Step("budget_update", budget + 1) \in StepType
  BY <1>4, StepTypes, PlainOps
<1>6. active # 0 => Step("escalation_retract", active) \in StepType
  BY <1>4, StepTypes DEF AboutEscalation
<1>7. At("type_decision") => Arg \in Ids /\ Step("decision_delivered", Arg) \in StepType
  <2>1. At("type_decision") => Arg \in Ids
    BY <1>1, Ahead, StepParts DEF At, Arg, AboutEscalation
  <2> QED
    BY <2>1, StepTypes DEF AboutEscalation
<1>8. agenda' \in Seq(StepType)
  <2>1. \/ agenda' = Rest
        \/ agenda' = <<Step("budget_update", budget + 1)>>
        \/ /\ At("type_decision")
           /\ agenda' = <<Step("budget_update", 0), Step("drive", 0),
                         Step("decision_delivered", Arg)>>
        \/ active # 0 /\ agenda' = <<Step("escalation_retract", active), Step("drive_contact", 0)>>
        \/ agenda' = <<Step("budget_update", 0)>>
    BY DEF Typed
  <2>2. Rest \in Seq(StepType)
    BY <1>1, Ahead
  <2> QED
    <3>1. CASE At("type_decision")
               /\ agenda' = <<Step("budget_update", 0), Step("drive", 0),
                             Step("decision_delivered", Arg)>>
      BY <1>3, <1>7, <3>1, Sequences
    <3>2. CASE active # 0
               /\ agenda' = <<Step("escalation_retract", active), Step("drive_contact", 0)>>
      BY <1>3, <1>6, <3>2, Sequences
    <3>3. CASE agenda' = <<Step("budget_update", budget + 1)>>
      BY <1>5, <3>3, Sequences
    <3>4. CASE agenda' = <<Step("budget_update", 0)>>
      BY <1>3, <3>4, Sequences
    <3> QED
      BY <2>1, <2>2, <3>1, <3>2, <3>3, <3>4
<1>9. state' \in SessionState /\ pending' \in {"none", "open", "approved"}
  BY <1>2 DEF Typed, TypeOK
<1>10. active' \in Ids \cup {0} /\ clarifying' \subseteq Ids
  BY EndActiveType DEF Typed, TypeOK
<1>11. budget' \in Nat
  BY <1>4 DEF Typed
<1>12. typed' \in [Ids -> Nat]
  BY <1>7 DEF Typed, TypeOK
<1>13. /\ turn' \in {"idle", "working"} /\ submitted' \in BOOLEAN /\ unread' \in BOOLEAN
       /\ sinceRead' \in BOOLEAN /\ sinceBaseline' \in BOOLEAN
  BY DEF Typed, TextEntered, TypeOK
<1>14. UNCHANGED <<life, shutdown, jobs, bound, baselined, menu, permPrompt, askVars,
                   screenVars, masterVars, nextId>>
  BY DEF Typed
<1> QED
  BY <1>8, <1>9, <1>10, <1>11, <1>12, <1>13, <1>14
     DEF TypeOK, askVars, screenVars, masterVars

\* Every step of the main task.
LEMMA MainType ==
  ASSUME TypeOK, Main
  PROVE  TypeOK'
BY LaunchType, JobType, ContactType, RaisingType, ToMasterType, TypedType DEF Main

-----------------------------------------------------------------------------
(* Types: requests, questions and hooks.                                   *)

\* What the handlers queue.
LEMMA QueuedSteps ==
  /\ \A o \in {"reactivate", "send_prompt", "menu_answered", "out_of_band", "turn_end",
               "fatal", "session_end", "reconcile"} : Step(o, 0) \in StepType
  /\ \A n \in Nat : Step("budget_update", n) \in StepType
  /\ \A e \in Ids : Step("deliver", e) \in StepType /\ Step("pane_escalation", e) \in StepType
  /\ \A t \in Tools :
       Step("verify_missing", t) \in StepType /\ Step("verify_recorded", t) \in StepType
BY StepTypes, PlainOps DEF AboutEscalation, AboutTool

\* The checks UserPromptSubmit and PostToolUse queue.
LEMMA ChecksType == Checks \in Seq(StepType)
BY QueuedSteps, Sequences DEF Checks

\* The master's requests.
LEMMA MasterType ==
  ASSUME TypeOK, Master
  PROVE  TypeOK'
<1>1. jobs \in Seq(StepType)
  BY DEF TypeOK
<1>2. CASE OnApprove
  BY <1>2 DEF OnApprove, TypeOK, mainVars, escVars, askVars, sessionVars, screenVars,
     masterVars
<1>3. CASE OnReactivate
  <2>1. jobs' \in Seq(StepType)
    BY <1>1, <1>3, QueuedSteps, Sequences DEF OnReactivate
  <2>2. "grounding" \in SessionState
    BY DEF SessionState
  <2> QED
    BY <1>3, <2>1, <2>2 DEF OnReactivate, TypeOK, escVars, askVars, sessionVars, screenVars,
       masterVars
<1>4. CASE OnSendPrompt
  <2>1. jobs' \in Seq(StepType)
    BY <1>1, <1>4, QueuedSteps, Sequences DEF OnSendPrompt
  <2> QED
    BY <1>4, <2>1 DEF OnSendPrompt, TypeOK, mainVars, escVars, askVars, sessionVars,
       screenVars, masterVars
<1>5. CASE OnShutdown
  BY <1>5 DEF OnShutdown, TypeOK, escVars, askVars, sessionVars, screenVars, masterVars
<1>6. ASSUME NEW id \in Ids, OnDispatch(id) PROVE TypeOK'
  <2>1. jobs' \in Seq(StepType)
    BY <1>1, <1>6, QueuedSteps, Sequences DEF OnDispatch
  <2> QED
    BY <1>6, <2>1 DEF OnDispatch, TypeOK, mainVars, escVars, askVars, sessionVars, screenVars,
       masterVars
<1>7. ASSUME NEW id \in Ids, OnClarify(id) PROVE TypeOK'
  BY <1>7 DEF OnClarify, TypeOK, mainVars, escVars, askVars, sessionVars, screenVars,
     masterVars
<1>8. ASSUME NEW id \in Ids, Clarified(id) PROVE TypeOK'
  BY <1>8 DEF Clarified, TypeOK, mainVars, escVars, askVars, sessionVars, screenVars,
     masterVars
<1> QED
  BY <1>2, <1>3, <1>4, <1>5, <1>6, <1>7, <1>8 DEF Master

\* _escalate_menu.
LEMMA EscalateMenuType ==
  ASSUME TypeOK, NEW t \in Tools, EscalateMenu(t)
  PROVE  /\ menu' \in [tool : Tools \cup {0}, id : Ids \cup {0}, injected : BOOLEAN]
         /\ jobs' \in Seq(StepType) /\ nextId' \in 1 .. MaxIds + 1
<1>1. nextId \in Ids /\ nextId + 1 \in 1 .. MaxIds + 1
  BY BrokerAssumption DEF EscalateMenu, CanRaise, TypeOK, Ids
<1>2. menu' \in [tool : Tools \cup {0}, id : Ids \cup {0}, injected : BOOLEAN]
  BY <1>1 DEF EscalateMenu
<1>3. <<Step("pane_escalation", nextId)>> \in Seq(StepType)
  BY <1>1, QueuedSteps, Sequences
<1>4. jobs \o Superseded \in Seq(StepType)
  BY SupersededType, Sequences DEF TypeOK
<1> QED
  BY <1>1, <1>2, <1>3, <1>4, Sequences DEF EscalateMenu

\* The reply to the hook.
LEMMA ReplyType ==
  ASSUME TypeOK, NEW t \in Tools, NEW d \in {"answer", "escalated"}, Reply(t, d)
  PROVE  /\ decided' \in [Tools -> {"none", "answer", "escalated"}]
         /\ replies' \in [Tools -> SUBSET {"answer", "escalated"}]
         /\ picker' \in Tools \cup {0}
BY DEF Reply, TypeOK

\* Questions.
LEMMA QuestionType ==
  ASSUME TypeOK, NEW t \in Tools
  PROVE  /\ OnAsk(t) => TypeOK'
         /\ \A d \in {"answer", "escalated"} : AskDecided(t, d) => TypeOK'
         /\ \A how \in {"same", "other"} : AnswerRecorded(t, how) => TypeOK'
         /\ \A readable \in BOOLEAN : Backstop(t, readable) => TypeOK'
         /\ OnQuestionUsed(t) => TypeOK'
<1>1. ASSUME OnAsk(t) PROVE TypeOK'
  <2>1. CASE state \notin ACTIVE_STATES
    <3>1. menu' = [tool |-> t, id |-> 0, injected |-> FALSE] /\ jobs' = jobs \o Superseded
      BY <1>1, <2>1 DEF OnAsk
    <3>2. jobs' \in Seq(StepType)
      BY <3>1, SupersededType, Sequences DEF TypeOK
    <3>3. /\ decided' \in [Tools -> {"none", "answer", "escalated"}]
          /\ replies' \in [Tools -> SUBSET {"answer", "escalated"}]
          /\ picker' \in Tools \cup {0}
      BY <1>1, <2>1, ReplyType DEF OnAsk
    <3>4. UNCHANGED <<deciding, nextId>>
      BY <1>1, <2>1 DEF OnAsk
    <3> QED
      BY <1>1, <3>1, <3>2, <3>3, <3>4 DEF OnAsk, TypeOK, mainVars, escVars, sessionVars,
         masterVars
  <2>2. CASE EscalateMenu(t) /\ Reply(t, "escalated") /\ UNCHANGED deciding
    <3>2. /\ decided' \in [Tools -> {"none", "answer", "escalated"}]
          /\ replies' \in [Tools -> SUBSET {"answer", "escalated"}]
          /\ picker' \in Tools \cup {0}
      BY <2>2, ReplyType
    <3>3. /\ menu' \in [tool : Tools \cup {0}, id : Ids \cup {0}, injected : BOOLEAN]
          /\ jobs' \in Seq(StepType) /\ nextId' \in 1 .. MaxIds + 1
      BY <2>2, EscalateMenuType
    <3> QED
      BY <1>1, <2>2, <3>2, <3>3
         DEF OnAsk, TypeOK, mainVars, escVars, sessionVars, masterVars
  <2>3. CASE /\ deciding' = [deciding EXCEPT ![t] = @ + 1]
             /\ UNCHANGED <<menu, jobs, decided, replies, picker, nextId>>
    <3>1. deciding \in [Tools -> 0 .. 2] /\ deciding[t] < 2
      BY <1>1 DEF OnAsk, TypeOK
    <3>2. deciding[t] + 1 \in 0 .. 2
      BY <3>1
    <3>3. deciding' \in [Tools -> 0 .. 2]
      BY <2>3, <3>1, <3>2
    <3> QED
      BY <1>1, <2>3, <3>3 DEF OnAsk, TypeOK, mainVars, escVars, sessionVars, masterVars
  <2> QED
    BY <1>1, <2>1, <2>2, <2>3 DEF OnAsk
<1>2. ASSUME NEW d \in {"answer", "escalated"}, AskDecided(t, d) PROVE TypeOK'
  <2>1. /\ decided' \in [Tools -> {"none", "answer", "escalated"}]
        /\ replies' \in [Tools -> SUBSET {"answer", "escalated"}]
        /\ picker' \in Tools \cup {0}
    BY <1>2, ReplyType DEF AskDecided
  <2>2. deciding' \in [Tools -> 0 .. 2]
    BY <1>2 DEF AskDecided, TypeOK
  <2>3. CASE d = "answer"
    <3>1. /\ expected' = expected \cup {t} /\ budget' = budget + 1
          /\ jobs' = Append(jobs, Step("budget_update", budget + 1))
          /\ UNCHANGED <<menu, nextId>>
      BY <1>2, <2>3 DEF AskDecided
    <3>2. budget' \in Nat /\ jobs' \in Seq(StepType)
      BY <3>1, QueuedSteps, Sequences DEF TypeOK
    <3> QED
      BY <1>2, <2>1, <2>2, <3>1, <3>2
         DEF AskDecided, TypeOK, mainVars, escVars, sessionVars, masterVars
  <2>4. CASE d # "answer"
    <3>1. /\ menu' \in [tool : Tools \cup {0}, id : Ids \cup {0}, injected : BOOLEAN]
          /\ jobs' \in Seq(StepType) /\ nextId' \in 1 .. MaxIds + 1
          /\ UNCHANGED <<expected, budget>>
      BY <1>2, <2>4, EscalateMenuType DEF AskDecided
    <3> QED
      BY <1>2, <2>1, <2>2, <3>1
         DEF AskDecided, TypeOK, mainVars, escVars, sessionVars, masterVars
  <2> QED
    BY <2>3, <2>4
<1>3. ASSUME NEW how \in {"same", "other"}, AnswerRecorded(t, how) PROVE TypeOK'
  BY <1>3 DEF AnswerRecorded, TypeOK, mainVars, escVars, askVars, masterVars
<1>4. ASSUME NEW readable \in BOOLEAN, Backstop(t, readable) PROVE TypeOK'
  <2>1. \/ jobs' = jobs \o << >> \/ jobs' = jobs \o <<Step("verify_missing", t)>>
        \/ jobs' = jobs \o <<Step("verify_recorded", t)>>
    BY <1>4 DEF Backstop
  <2>2. jobs' \in Seq(StepType)
    <3>1. /\ << >> \in Seq(StepType) /\ <<Step("verify_missing", t)>> \in Seq(StepType)
          /\ <<Step("verify_recorded", t)>> \in Seq(StepType)
      BY QueuedSteps, Sequences
    <3>2. jobs \in Seq(StepType)
      BY DEF TypeOK
    <3> QED
      BY <2>1, <3>1, <3>2, Sequences
  <2> QED
    BY <1>4, <2>2 DEF Backstop, TypeOK, mainVars, escVars, sessionVars, screenVars, masterVars
<1>5. ASSUME OnQuestionUsed(t) PROVE TypeOK'
  <2>1. jobs' \in Seq(StepType)
    <3> DEFINE q == IF t \in expected /\ recorded[t] = "other"
                    THEN <<Step("verify_recorded", t)>> ELSE << >>
    <3>1. q \in Seq(StepType)
      BY QueuedSteps, Sequences
    <3>2. jobs' = jobs \o q \o Checks
      BY <1>5 DEF OnQuestionUsed
    <3> HIDE DEF q
    <3>3. jobs \o q \in Seq(StepType)
      BY <3>1, Sequences DEF TypeOK
    <3> QED
      BY <3>2, <3>3, ChecksType, Sequences
  <2>2. permPrompt' \in BOOLEAN /\ expected' \subseteq Tools
    BY <1>5 DEF OnQuestionUsed, TypeOK
  <2>3. UNCHANGED <<mainVars, bound, pending, escVars, budget, menu, decided, deciding, replies,
                    clarifying, sessionVars, screenVars, masterVars, nextId, typed>>
    BY <1>5 DEF OnQuestionUsed
  <2> QED
    BY <2>1, <2>2, <2>3
       DEF TypeOK, mainVars, escVars, sessionVars, screenVars, masterVars
<1> QED
  BY <1>1, <1>2, <1>3, <1>4, <1>5

\* Hooks, the session and the watchdog.
LEMMA SessionType ==
  ASSUME TypeOK, Session
  PROVE  TypeOK'
<1>1. jobs \in Seq(StepType)
  BY DEF TypeOK
<1>2. CASE OnSessionStart
  BY <1>2 DEF OnSessionStart, TypeOK, mainVars, escVars, askVars, sessionVars, screenVars,
     masterVars
<1>3. CASE PaneInput
  BY <1>3 DEF PaneInput, TextEntered, TypeOK, mainVars, askVars, screenVars, masterVars
<1>4. CASE OnToolUsed
  <2>1. jobs' \in Seq(StepType) /\ permPrompt' \in BOOLEAN
    BY <1>1, <1>4, ChecksType, Sequences DEF OnToolUsed
  <2>2. UNCHANGED <<mainVars, bound, pending, escVars, budget, menu, askVars, clarifying,
                    sessionVars, screenVars, masterVars, nextId, typed>>
    BY <1>4 DEF OnToolUsed
  <2> QED
    BY <2>1, <2>2 DEF TypeOK, mainVars, escVars, askVars, sessionVars, screenVars, masterVars
<1>5. CASE OnPermissionPrompt
  BY <1>5 DEF OnPermissionPrompt, TypeOK, mainVars, escVars, askVars, sessionVars, screenVars,
     masterVars
<1>6. CASE OnStopFailure
  <2>1. jobs' \in Seq(StepType)
    BY <1>1, <1>6, QueuedSteps, Sequences DEF OnStopFailure
  <2>2. turn' \in {"idle", "working"} /\ unread' \in BOOLEAN
    BY <1>6 DEF OnStopFailure
  <2>3. UNCHANGED <<mainVars, bound, pending, escVars, budget, menu, permPrompt, askVars,
                    clarifying, submitted, sinceRead, screenVars, masterVars, nextId, typed>>
    BY <1>6 DEF OnStopFailure
  <2> QED
    BY <2>1, <2>2, <2>3 DEF TypeOK, mainVars, escVars, askVars, screenVars, masterVars
<1>7. CASE OnSessionEnd
  <2>1. jobs' \in Seq(StepType)
    BY <1>1, <1>7, QueuedSteps, Sequences DEF OnSessionEnd
  <2>2. "stopped" \in SessionState
    BY DEF SessionState
  <2>3. /\ state' \in SessionState /\ ended' \in BOOLEAN /\ submitted' \in BOOLEAN
        /\ turn' \in {"idle", "working"} /\ picker' \in Tools \cup {0}
    BY <1>7, <2>2 DEF OnSessionEnd
  <2>4. UNCHANGED <<life, shutdown, agenda, bound, pending, escVars, budget, menu, permPrompt,
                    askVars, clarifying, unread, sinceRead, recorded, masterVars, nextId, typed>>
    BY <1>7 DEF OnSessionEnd
  <2> QED
    BY <2>1, <2>3, <2>4 DEF TypeOK, escVars, askVars, masterVars
<1>8. CASE WatchdogExpires
  <2>1. jobs' \in Seq(StepType)
    BY <1>1, <1>8, QueuedSteps, Sequences DEF WatchdogExpires
  <2> QED
    BY <1>8, <2>1 DEF WatchdogExpires, TypeOK, mainVars, escVars, askVars, sessionVars,
       screenVars, masterVars
<1>9. ASSUME NEW d \in BOOLEAN, OnPromptSubmitted(d) PROVE TypeOK'
  <2>1. jobs' = jobs \o Checks \/ jobs' = jobs
    BY <1>9 DEF OnPromptSubmitted
  <2>2. jobs' \in Seq(StepType)
    BY <1>1, <2>1, ChecksType, Sequences
  <2>3. submitted' \in BOOLEAN
    BY <1>9 DEF OnPromptSubmitted
  <2>4. UNCHANGED <<mainVars, bound, pending, escVars, budget, menu, permPrompt, askVars,
                    clarifying, turn, unread, sinceRead, screenVars, masterVars, nextId, typed>>
    BY <1>9 DEF OnPromptSubmitted
  <2> QED
    BY <2>2, <2>3, <2>4 DEF TypeOK, mainVars, escVars, askVars, screenVars, masterVars
<1>10. ASSUME NEW d \in BOOLEAN, OnStop(d) PROVE TypeOK'
  <2>1. jobs' = Append(jobs, Step("turn_end", 0)) \/ jobs' = jobs
    BY <1>10 DEF OnStop
  <2>2. jobs' \in Seq(StepType)
    BY <1>1, <2>1, QueuedSteps, Sequences
  <2>3. permPrompt' \in BOOLEAN
    <3>1. CASE d
      BY <1>10, <3>1 DEF OnStop
    <3>2. CASE ~d
      BY <1>10, <3>2 DEF OnStop, TypeOK
    <3> QED
      BY <3>1, <3>2
  <2>4. /\ turn' \in {"idle", "working"} /\ unread' \in BOOLEAN
        /\ UNCHANGED <<mainVars, bound, pending, escVars, budget, menu, askVars, clarifying,
                       submitted, sinceRead, screenVars, masterVars, nextId, typed>>
    BY <1>10 DEF OnStop
  <2> QED
    BY <2>2, <2>3, <2>4 DEF TypeOK, mainVars, escVars, askVars, screenVars, masterVars
<1>11. Delivered \subseteq BOOLEAN
  BY DEF Delivered
<1> QED
  BY <1>2, <1>3, <1>4, <1>5, <1>6, <1>7, <1>8, <1>9, <1>10, <1>11 DEF Session

\* Every launch starts from values of the right types.
LEMMA InitType == Init => TypeOK
<1> SUFFICES ASSUME Init PROVE TypeOK
  OBVIOUS
<1>1. /\ Step("bind", 0) \in StepType /\ Step("ground", 0) \in StepType
      /\ Step("serve", 0) \in StepType
  BY StepTypes, PlainOps
<1>2. agenda \in Seq(StepType)
  <2>1. PICK k \in Launches : agenda = LaunchAgenda(k)
    BY DEF Init
  <2> QED
    BY <1>1, <2>1, Sequences DEF LaunchAgenda
<1>3. jobs \in Seq(StepType)
  BY Sequences DEF Init
<1>4. state \in SessionState /\ bound \in BOOLEAN /\ unread \in BOOLEAN
  BY DEF Init, LaunchState, SessionState
<1>5. nextId \in 1 .. MaxIds + 1
  BY BrokerAssumption DEF Init
<1>6. menu \in [tool : Tools \cup {0}, id : Ids \cup {0}, injected : BOOLEAN]
  BY DEF Init, NoMenu
<1>7. /\ shutdown \in BOOLEAN /\ baselined \in BOOLEAN /\ permPrompt \in BOOLEAN
      /\ submitted \in BOOLEAN /\ sinceRead \in BOOLEAN /\ sinceBaseline \in BOOLEAN
      /\ ended \in BOOLEAN
  BY DEF Init
<1>8. /\ decided \in [Tools -> {"none", "answer", "escalated"}]
      /\ deciding \in [Tools -> 0 .. 2] /\ recorded \in [Tools -> {"no", "same", "other"}]
      /\ typed \in [Ids -> Nat] /\ replies \in [Tools -> SUBSET {"answer", "escalated"}]
  BY DEF Init
<1>9. /\ life \in {"launching", "serving", "exited"}
      /\ pending \in {"none", "open", "approved"} /\ turn \in {"idle", "working"}
      /\ active \in Ids \cup {0} /\ picker \in Tools \cup {0} /\ budget \in Nat
      /\ expected \subseteq Tools /\ clarifying \subseteq Ids /\ held \subseteq Ids
      /\ heldQuestions \subseteq Ids /\ told \in Nat
  BY DEF Init
<1> QED
  BY <1>2, <1>3, <1>4, <1>5, <1>6, <1>7, <1>8, <1>9 DEF TypeOK

\* Every step keeps the types.
LEMMA NextType ==
  ASSUME TypeOK, [Next]_vars
  PROVE  TypeOK'
<1>1. CASE Main
  BY <1>1, MainType
<1>2. CASE Master
  BY <1>2, MasterType
<1>3. CASE Questions
  BY <1>3, QuestionType DEF Questions
<1>4. CASE Session
  BY <1>4, SessionType
<1>5. CASE UNCHANGED vars
  BY <1>5 DEF TypeOK, vars, mainVars, escVars, askVars, sessionVars, screenVars, masterVars
<1> QED
  BY <1>1, <1>2, <1>3, <1>4, <1>5 DEF Next

\* Every variable of the broker holds a value of its type, in particular every
\* step about an escalation names one.
THEOREM TypeCorrect == Spec => []TypeOK
<1>1. Init => TypeOK
  BY InitType
<1>2. TypeOK /\ [Next]_vars => TypeOK'
  BY NextType
<1> QED
  BY <1>1, <1>2, PTL DEF Spec

-----------------------------------------------------------------------------
(* The inductive invariant.                                                *)

\* Steps that lead to driving the session, or are driving it.
NeedsResolved ==
  {"bind", "ground", "grounding", "prompt_proposal", "approval", "type_opening", "triage",
   "type_answer", "complete", "drive", "drive_contact"}

\* Nothing but job kinds is queued.
Job    == {s \in StepType : s.op \in JobOps}
JobsOK == jobs \in Seq(Job)

\* None of those steps is left while an escalation is live.
ResolvedOK == \A i \in DOMAIN agenda : agenda[i].op \in NeedsResolved => active = 0

\* The decision being typed is the one for the live escalation, and comes first.
DecisionOK ==
  \A i \in DOMAIN agenda : agenda[i].op = "type_decision" => i = 1 /\ agenda[i].arg = active

\* A decision is typed only for an escalation raised before and live no more.
TypedOK ==
  /\ active < nextId
  /\ \A e \in Ids : typed[e] <= 1 /\ (typed[e] # 0 => e < nextId /\ e # active)

\* The wait for approval comes first, or right after the proposal's report.
ApprovalOK ==
  \A i \in DOMAIN agenda : agenda[i].op = "approval" =>
    /\ state \in {"awaiting_approval", "stopped"}
    /\ i = 1 \/ (i = 2 /\ agenda[1].op = "prompt_proposal")

AgendaOK == ResolvedOK /\ DecisionOK /\ ApprovalOK

IInv == TypeOK /\ JobsOK /\ AgendaOK /\ DrivingMeansResolved /\ TypedOK

-----------------------------------------------------------------------------
(* What an agenda may hold.                                                *)

\* An agenda without the two steps whose place matters, and one without steps
\* that drive.
Quiet(q)    == \A i \in DOMAIN q : q[i].op \notin {"type_decision", "approval"}
Undriven(q) == \A i \in DOMAIN q : q[i].op \notin NeedsResolved

\* Short sequences.
LEMMA Short ==
  /\ Quiet(<< >>) /\ Undriven(<< >>)
  /\ \A s : s.op \notin {"type_decision", "approval"} => Quiet(<<s>>)
  /\ \A s : s.op \notin NeedsResolved => Undriven(<<s>>)
BY DEF Quiet, Undriven

\* Longer ones, put together.
LEMMA Together ==
  ASSUME NEW q \in Seq(StepType), NEW r \in Seq(StepType)
  PROVE  /\ Quiet(q) /\ Quiet(r) => Quiet(q \o r)
         /\ Undriven(q) /\ Undriven(r) => Undriven(q \o r)
<1>1. \A i \in DOMAIN (q \o r) :
        (\E j \in DOMAIN q : (q \o r)[i] = q[j]) \/ (\E j \in DOMAIN r : (q \o r)[i] = r[j])
  <2> SUFFICES ASSUME NEW i \in DOMAIN (q \o r)
               PROVE  \/ \E j \in DOMAIN q : (q \o r)[i] = q[j]
                      \/ \E j \in DOMAIN r : (q \o r)[i] = r[j]
    OBVIOUS
  <2>1. CASE i \in DOMAIN q
    BY <2>1
  <2>2. CASE i \notin DOMAIN q
    <3>1. i - Len(q) \in DOMAIN r /\ (q \o r)[i] = r[i - Len(q)]
      BY <2>2
    <3> QED
      BY <3>1
  <2> QED
    BY <2>1, <2>2
<1> QED
  BY <1>1 DEF Quiet, Undriven

\* The rest of a job: what stands there was there before.
LEMMA RestOf ==
  ASSUME IInv, agenda # << >>
  PROVE  /\ agenda[1].op # "prompt_proposal" => Quiet(Rest)
         /\ active # 0 => Undriven(Rest)
<1>1. agenda \in Seq(StepType)
  BY DEF IInv, TypeOK
<1>2. \A i \in DOMAIN Rest : i + 1 \in DOMAIN agenda /\ Rest[i] = agenda[i + 1] /\ i + 1 # 1
  BY <1>1 DEF Rest
<1>3. ASSUME active # 0 PROVE Undriven(Rest)
  BY <1>2, <1>3 DEF IInv, AgendaOK, ResolvedOK, Undriven
<1>4. ASSUME agenda[1].op # "prompt_proposal" PROVE Quiet(Rest)
  BY <1>2, <1>4 DEF IInv, AgendaOK, DecisionOK, ApprovalOK, Quiet
<1> QED
  BY <1>3, <1>4

\* A quiet agenda that does not drive a live escalation is as it should be.
LEMMA QuietAgenda ==
  ASSUME Quiet(agenda'), active' # 0 => Undriven(agenda')
  PROVE  AgendaOK'
BY DEF Quiet, Undriven, AgendaOK, ResolvedOK, DecisionOK, ApprovalOK

\* The two of them before the rest.
LEMMA QuietAhead ==
  ASSUME IInv, agenda # << >>, agenda[1].op # "prompt_proposal", NEW q \in Seq(StepType),
         Quiet(q), agenda' = q \o Rest, active' \in {0, active},
         active' # 0 => Undriven(q)
  PROVE  AgendaOK'
<1>1. Quiet(Rest) /\ (active # 0 => Undriven(Rest))
  BY RestOf
<1>2. Rest \in Seq(StepType)
  BY Ahead DEF IInv
<1>3. Quiet(agenda')
  BY <1>1, <1>2, Together
<1>4. active' # 0 => Undriven(agenda')
  BY <1>1, <1>2, Together
<1> QED
  BY <1>3, <1>4, QuietAgenda

\* _fatal leaves nothing but the report.
LEMMA FatalAgenda ==
  ASSUME Fatal
  PROVE  AgendaOK' /\ DrivingMeansResolved'
<1>1. /\ Step("fatal_error", 0).op \notin {"type_decision", "approval"} \cup NeedsResolved
      /\ Step("exit", 0).op \notin {"type_decision", "approval"} \cup NeedsResolved
  BY DEF Step, NeedsResolved
<1>2. Quiet(agenda') /\ Undriven(agenda')
  BY <1>1 DEF Fatal, Quiet, Undriven
<1>3. DrivingMeansResolved'
  BY DEF Fatal, DrivingMeansResolved
<1> QED
  BY <1>2, <1>3, QuietAgenda

-----------------------------------------------------------------------------
(* Handlers.                                                               *)

\* What handlers queue are jobs.
LEMMA JobSteps ==
  /\ \A o \in {"reactivate", "send_prompt", "menu_answered", "out_of_band", "turn_end",
               "fatal", "session_end", "reconcile"} : Step(o, 0) \in Job
  /\ \A n \in Nat : Step("budget_update", n) \in Job
  /\ \A e \in Ids : /\ Step("deliver", e) \in Job /\ Step("pane_escalation", e) \in Job
                    /\ Step("pane_retract", e) \in Job
  /\ \A t \in Tools : Step("verify_missing", t) \in Job /\ Step("verify_recorded", t) \in Job
<1>1. \A e \in Ids : Step("pane_retract", e) \in StepType
  BY StepTypes DEF AboutEscalation
<1>2. \A o \in JobOps : \A n : Step(o, n).op \in JobOps
  BY DEF Step
<1> QED
  BY <1>1, <1>2, QueuedSteps DEF Job, JobOps

\* Sequences of the elements of any set.
LEMMA Gathered ==
  ASSUME NEW S
  PROVE  /\ << >> \in Seq(S)
         /\ \A s \in S : <<s>> \in Seq(S)
         /\ \A q, r \in Seq(S) : q \o r \in Seq(S)
         /\ \A q \in Seq(S), s \in S : Append(q, s) = q \o <<s>>
         /\ \A q \in Seq(S) : q \o << >> = q
         /\ \A q \in Seq(S) : q # << >> => q[1] \in S /\ Tail(q) \in Seq(S)
         /\ \A T : S \subseteq T => Seq(S) \subseteq Seq(T)
OBVIOUS

\* What a handler may queue: a reactivation when one is asked for, a verdict on an
\* answer that is waiting for it, and the withdrawal of the menu it replaces.
Queueable ==
  {s \in Job : /\ s.op = "reactivate" => "reactivate" \in Requests
               /\ s.op \in AboutTool => s.arg \in expected
               /\ s.op = "pane_retract" => s.arg = menu.id}
Lasting   == {s \in Queueable : s.op # "pane_retract"}

LEMMA QueueableSteps ==
  /\ \A o \in {"send_prompt", "menu_answered", "out_of_band", "turn_end", "fatal",
               "session_end", "reconcile"} : Step(o, 0) \in Lasting
  /\ "reactivate" \in Requests => Step("reactivate", 0) \in Lasting
  /\ \A n \in Nat : Step("budget_update", n) \in Lasting
  /\ \A e \in Ids : Step("deliver", e) \in Lasting /\ Step("pane_escalation", e) \in Lasting
  /\ menu.id \in Ids => Step("pane_retract", menu.id) \in Queueable
  /\ \A t \in Tools \cap expected :
       Step("verify_missing", t) \in Lasting /\ Step("verify_recorded", t) \in Lasting
<1>1. \A o, n : Step(o, n).op = o /\ Step(o, n).arg = n
  BY DEF Step
<1> QED
  BY <1>1, JobSteps DEF Queueable, Lasting, AboutTool

\* The checks, the withdrawal and the raise that handlers put together.
LEMMA QueuedJobs ==
  ASSUME TypeOK
  PROVE  /\ Checks \in Seq(Lasting) /\ Superseded \in Seq(Queueable)
         /\ CanRaise => nextId \in Ids /\ <<Step("pane_escalation", nextId)>> \in Seq(Lasting)
         /\ Seq(Lasting) \subseteq Seq(Queueable)
<1>1. menu.id # 0 => menu.id \in Ids
  BY DEF TypeOK
<1>2. CanRaise => nextId \in Ids
  BY BrokerAssumption DEF CanRaise, TypeOK, Ids
<1>3. Checks \in Seq(Lasting)
  BY QueueableSteps, Gathered DEF Checks
<1>4. Seq(Lasting) \subseteq Seq(Queueable)
  BY Gathered DEF Lasting
<1> QED
  BY <1>1, <1>2, <1>3, <1>4, QueueableSteps, Gathered DEF Superseded

\* Every handler appends to the queue; the end of the session queues its job, and only
\* the claim of a menu, for no escalation or a fresh one, withdraws one.
LEMMA HandlersQueue ==
  ASSUME TypeOK, Master \/ Questions \/ Session
  PROVE  \E q \in Seq(Queueable) :
           /\ jobs' = jobs \o q
           /\ state' = "stopped" /\ state # "stopped" => q = <<Step("session_end", 0)>>
           /\ q \in Seq(Lasting) \/ menu'.id \in {0, nextId}
<1> DEFINE Queues(q) == /\ jobs' = jobs \o q
                        /\ state' = "stopped" /\ state # "stopped" => q = <<Step("session_end", 0)>>
                        /\ q \in Seq(Lasting) \/ menu'.id \in {0, nextId}
<1>0. jobs \o << >> = jobs /\ \A s : Append(jobs, s) = jobs \o <<s>>
  BY DEF TypeOK
<1>1. /\ << >> \in Seq(Lasting) /\ Checks \in Seq(Lasting) /\ Superseded \in Seq(Queueable)
      /\ Seq(Lasting) \subseteq Seq(Queueable)
  BY Gathered, QueuedJobs
<1>2. ASSUME NEW s \in Lasting, jobs' = Append(jobs, s),
             state' = "stopped" /\ state # "stopped" => s = Step("session_end", 0)
      PROVE  \E q \in Seq(Queueable) : Queues(q)
  <2>1. <<s>> \in Seq(Queueable) /\ Queues(<<s>>)
    BY <1>0, <1>1, <1>2, Gathered
  <2> QED
    BY <2>1
<1>3. ASSUME jobs' = jobs, state' = state PROVE \E q \in Seq(Queueable) : Queues(q)
  BY <1>0, <1>1, <1>3
<1>4. CASE Master
  <2>1. \/ jobs' = jobs /\ state' = state
        \/ /\ "reactivate" \in Requests /\ jobs' = Append(jobs, Step("reactivate", 0))
           /\ state' = "grounding"
        \/ jobs' = Append(jobs, Step("send_prompt", 0)) /\ state' = state
        \/ \E id \in Ids : jobs' = Append(jobs, Step("deliver", id)) /\ state' = state
    BY <1>4 DEF Master, OnApprove, OnReactivate, OnSendPrompt, OnShutdown, OnDispatch, OnClarify,
                Clarified, Asks, mainVars
  <2> QED
    BY <1>2, <1>3, <2>1, QueueableSteps
<1>5. CASE Session
  <2>1. \/ jobs' = jobs /\ state' = state
        \/ jobs' = jobs \o Checks /\ state' = state
        \/ \E o \in {"turn_end", "fatal", "reconcile"} :
             jobs' = Append(jobs, Step(o, 0)) /\ state' = state
        \/ jobs' = Append(jobs, Step("session_end", 0))
    BY <1>5 DEF Session, OnSessionStart, PaneInput, OnToolUsed, OnPermissionPrompt,
                OnStopFailure, OnSessionEnd, WatchdogExpires, OnPromptSubmitted, OnStop, mainVars
  <2> QED
    BY <1>1, <1>2, <1>3, <2>1, QueueableSteps
<1>6. CASE Questions
  <2>1. PICK t \in Tools :
          \/ OnAsk(t) \/ OnQuestionUsed(t)
          \/ \E d \in {"answer", "escalated"} : AskDecided(t, d)
          \/ \E how \in {"same", "other"} : AnswerRecorded(t, how)
          \/ \E readable \in BOOLEAN : Backstop(t, readable)
    BY <1>6 DEF Questions
  <2>2. state' = state
    BY <1>6 DEF Questions, OnAsk, OnQuestionUsed, AskDecided, AnswerRecorded, Backstop, mainVars
  <2>3. ASSUME NEW q \in Seq(Queueable), jobs' = jobs \o q,
               q \in Seq(Lasting) \/ menu'.id \in {0, nextId}
        PROVE  \E r \in Seq(Queueable) : Queues(r)
    BY <2>2, <2>3
  <2>4. CASE EscalateMenu(t)
    <3> DEFINE q == <<Step("pane_escalation", nextId)>>
    <3>1. q \in Seq(Queueable)
      BY <1>1, <2>4, QueuedJobs DEF EscalateMenu
    <3>2. jobs' = jobs \o Superseded \o q /\ menu'.id = nextId
      BY <2>4 DEF EscalateMenu
    <3> HIDE DEF q
    <3>3. Superseded \o q \in Seq(Queueable) /\ jobs' = jobs \o (Superseded \o q)
      <4>1. jobs \in Seq(StepType) /\ Seq(Queueable) \subseteq Seq(StepType)
        BY DEF TypeOK, Queueable, Job
      <4> QED
        BY <1>1, <3>1, <3>2, <4>1, Gathered
    <3> QED
      BY <2>3, <3>2, <3>3
  <2>5. CASE OnAsk(t) /\ ~EscalateMenu(t)
    <3>1. jobs' = jobs \/ (jobs' = jobs \o Superseded /\ menu'.id = 0)
      BY <2>5 DEF OnAsk
    <3> QED
      BY <1>1, <1>3, <2>2, <2>3, <3>1
  <2>6. CASE OnQuestionUsed(t)
    <3> DEFINE q == IF t \in expected /\ recorded[t] = "other"
                    THEN <<Step("verify_recorded", t)>> ELSE << >>
    <3>1. q \in Seq(Lasting)
      BY QueueableSteps, Gathered
    <3>2. jobs' = jobs \o q \o Checks
      BY <2>6 DEF OnQuestionUsed
    <3> HIDE DEF q
    <3>3. q \o Checks \in Seq(Lasting) /\ jobs' = jobs \o (q \o Checks)
      <4>1. jobs \in Seq(StepType) /\ Seq(Queueable) \subseteq Seq(StepType)
        BY DEF TypeOK, Queueable, Job
      <4> QED
        BY <1>1, <3>1, <3>2, <4>1, Gathered
    <3> QED
      BY <1>1, <2>3, <3>3
  <2>7. ASSUME NEW d \in {"answer", "escalated"}, AskDecided(t, d), ~EscalateMenu(t)
        PROVE  \E q \in Seq(Queueable) : Queues(q)
    <3>1. jobs' = Append(jobs, Step("budget_update", budget + 1)) /\ budget + 1 \in Nat
      BY <2>7 DEF AskDecided, TypeOK
    <3> QED
      BY <1>2, <2>2, <3>1, QueueableSteps
  <2>8. ASSUME NEW how \in {"same", "other"}, AnswerRecorded(t, how)
        PROVE  \E q \in Seq(Queueable) : Queues(q)
    BY <1>3, <2>2, <2>8 DEF AnswerRecorded
  <2>9. ASSUME NEW readable \in BOOLEAN, Backstop(t, readable)
        PROVE  \E q \in Seq(Queueable) : Queues(q)
    <3>1. /\ t \in expected
          /\ \/ jobs' = jobs \o << >> \/ jobs' = jobs \o <<Step("verify_missing", t)>>
             \/ jobs' = jobs \o <<Step("verify_recorded", t)>>
      BY <2>9 DEF Backstop
    <3>2. /\ <<Step("verify_missing", t)>> \in Seq(Lasting)
          /\ <<Step("verify_recorded", t)>> \in Seq(Lasting)
      BY <3>1, QueueableSteps, Gathered
    <3> QED
      BY <1>1, <2>3, <3>1, <3>2
  <2> QED
    BY <2>1, <2>4, <2>5, <2>6, <2>7, <2>8, <2>9
<1> QED
  BY <1>4, <1>5, <1>6

\* What no handler touches, and how it may change the state.
LEMMA HandlerFrame ==
  ASSUME TypeOK, Master \/ Questions \/ Session
  PROVE  /\ UNCHANGED <<life, agenda, active, baselined, held, heldQuestions, typed>>
         /\ nextId' >= nextId
         /\ \/ state' = state \/ state' = "stopped"
            \/ "reactivate" \in Requests /\ state = "completed" /\ state' = "grounding"
<1>1. nextId \in Nat
  BY DEF TypeOK
<1>2. CASE Master
  BY <1>1, <1>2 DEF Master, OnApprove, OnReactivate, Reactivatable, OnSendPrompt, OnShutdown,
                    OnDispatch, OnClarify, Clarified, Asks, mainVars, escVars, masterVars
<1>3. CASE Questions
  BY <1>1, <1>3 DEF Questions, OnAsk, OnQuestionUsed, AskDecided, AnswerRecorded, Backstop,
                    EscalateMenu, mainVars, escVars, masterVars
<1>4. CASE Session
  BY <1>1, <1>4 DEF Session, OnSessionStart, PaneInput, OnToolUsed, OnPermissionPrompt,
                    OnStopFailure, OnSessionEnd, WatchdogExpires, OnPromptSubmitted, OnStop,
                    mainVars, escVars, masterVars
<1> QED
  BY <1>2, <1>3, <1>4

\* Handlers keep the invariant.
LEMMA HandlersKeep ==
  ASSUME IInv, Master \/ Questions \/ Session
  PROVE  IInv'
<1>1. /\ UNCHANGED <<agenda, active, typed>> /\ nextId' >= nextId
      /\ \/ state' = state \/ (state = "completed" /\ state' = "grounding")
         \/ state' = "stopped"
  BY HandlerFrame DEF IInv
<1>2. TypeOK'
  BY NextType DEF IInv, Next
<1>3. JobsOK'
  <2>1. PICK q \in Seq(Queueable) : jobs' = jobs \o q
    BY HandlersQueue DEF IInv
  <2>2. q \in Seq(Job)
    BY Gathered DEF Queueable
  <2> QED
    BY <2>1, <2>2, Gathered DEF IInv, JobsOK
<1>4. AgendaOK'
  BY <1>1 DEF IInv, AgendaOK, ResolvedOK, DecisionOK, ApprovalOK
<1>5. DrivingMeansResolved'
  BY <1>1 DEF IInv, DrivingMeansResolved
<1>6. TypedOK'
  <2>1. nextId \in Nat /\ nextId' \in Nat /\ active \in Nat /\ Ids \subseteq Nat
    BY <1>2, BrokerAssumption DEF IInv, TypeOK, Ids
  <2> QED
    BY <1>1, <2>1 DEF IInv, TypedOK
<1> QED
  BY <1>2, <1>3, <1>4, <1>5, <1>6 DEF IInv

-----------------------------------------------------------------------------
(* The main task.                                                          *)

\* The rest of IInv.
SafeOK == AgendaOK /\ DrivingMeansResolved /\ TypedOK

\* A step that types no decision and makes no other escalation live.
LEMMA TypedFrame ==
  ASSUME IInv, TypeOK', typed' = typed, active' \in {0, active}, nextId' >= nextId
  PROVE  TypedOK'
<1>1. nextId \in Nat /\ nextId' \in Nat /\ active \in Nat /\ Ids \subseteq Nat
      /\ nextId # 0
  BY BrokerAssumption DEF IInv, TypeOK, Ids
<1>2. 0 \notin Ids
  BY DEF Ids
<1> QED
  BY <1>1, <1>2 DEF IInv, TypedOK

\* _raise_escalation: nothing else is left to do, and the id is fresh.
LEMMA RaiseKeeps ==
  ASSUME IInv, NEW counted \in BOOLEAN, Raise(counted), typed' = typed
  PROVE  SafeOK'
<1>1. Step("escalation", nextId).op \notin {"type_decision", "approval"} \cup NeedsResolved
  BY DEF Step, NeedsResolved
<1>2. Quiet(agenda') /\ Undriven(agenda')
  BY <1>1, Short DEF Raise
<1>3. AgendaOK'
  BY <1>2, QuietAgenda
<1>4. DrivingMeansResolved'
  BY DEF Raise, DrivingMeansResolved
<1>5. TypedOK'
  <2>1. nextId \in Nat /\ active' = nextId /\ nextId' = nextId + 1 /\ Ids \subseteq Nat
    BY DEF Raise, IInv, TypeOK, Ids
  <2> QED
    BY <2>1 DEF IInv, TypedOK
<1> QED
  BY <1>3, <1>4, <1>5 DEF SafeOK

\* The launch, up to the event loop.
LEMMA LaunchKeeps ==
  ASSUME IInv, TypeOK', Bind \/ Ground \/ Grounded \/ Approved \/ Serve \/ Exit
  PROVE  SafeOK'
<1>1. /\ typed' = typed /\ active' = active /\ nextId' = nextId /\ nextId \in Nat
      /\ agenda # << >>
  BY DEF Bind, Ground, Grounded, Approved, Serve, Exit, At, escVars, IInv, TypeOK
<1>2. TypedOK'
  BY <1>1, TypedFrame
<1>3. CASE Fatal
  BY <1>2, <1>3, FatalAgenda DEF SafeOK
<1>4. CASE ~Fatal
  <2>1. DrivingMeansResolved'
    BY <1>1, <1>4 DEF Bind, Ground, Grounded, Approved, Serve, Exit, IInv, DrivingMeansResolved
  <2>2. AgendaOK'
    <3>1. CASE Bind \/ Serve
      <4>1. agenda' = << >> \o Rest /\ agenda[1].op # "prompt_proposal"
        <5>1. agenda' = Rest /\ agenda[1].op \in {"bind", "serve"}
          BY <1>4, <3>1 DEF Bind, Serve, At
        <5>2. Rest \in Seq(StepType)
          BY <1>1, Ahead DEF IInv
        <5> QED
          BY <5>1, <5>2
      <4> QED
        BY <1>1, <4>1, Short, Sequences, QuietAhead
    <3>2. CASE Ground
      <4>1. /\ agenda' = <<Step("grounding", 0)>> \o Rest /\ agenda[1].op = "ground"
        BY <3>2 DEF Ground, At
      <4>2. active = 0
        BY <1>1, <4>1 DEF IInv, TypeOK, AgendaOK, ResolvedOK, NeedsResolved
      <4>3. Step("grounding", 0).op \notin {"type_decision", "approval"}
        BY DEF Step
      <4>4. Step("grounding", 0) \in StepType
        BY StepTypes, PlainOps
      <4> QED
        BY <1>1, <4>1, <4>2, <4>3, <4>4, Short, Sequences, QuietAhead
    <3>3. CASE Grounded
      <4>1. /\ agenda' = <<Step("prompt_proposal", 0), Step("approval", 0)>> \o Rest
            /\ agenda[1].op = "grounding" /\ state' = "awaiting_approval"
        BY <1>4, <3>3 DEF Grounded, At
      <4>2. active = 0
        BY <1>1, <4>1 DEF IInv, TypeOK, AgendaOK, ResolvedOK, NeedsResolved
      <4>3. Quiet(Rest) /\ Rest \in Seq(StepType)
        BY <1>1, <4>1, RestOf, Ahead DEF IInv
      <4>4. \A i \in DOMAIN agenda' :
              \/ i = 1 /\ agenda'[i] = Step("prompt_proposal", 0)
              \/ i = 2 /\ agenda'[i] = Step("approval", 0)
              \/ i - 2 \in DOMAIN Rest /\ agenda'[i] = Rest[i - 2]
        BY <4>1, <4>3
      <4>5. agenda'[1] = Step("prompt_proposal", 0)
        BY <4>1, <4>3
      <4>6. /\ Step("prompt_proposal", 0).op = "prompt_proposal"
            /\ Step("approval", 0).op = "approval"
        BY DEF Step
      <4>7. \A i \in DOMAIN agenda' :
              /\ agenda'[i].op # "type_decision"
              /\ agenda'[i].op = "approval" => i = 2
        BY <4>3, <4>4, <4>6 DEF Quiet
      <4> QED
        <5>1. ResolvedOK'
          BY <1>1, <4>2 DEF ResolvedOK
        <5>2. DecisionOK'
          BY <4>7 DEF DecisionOK
        <5>3. ApprovalOK'
          BY <4>1, <4>5, <4>6, <4>7 DEF ApprovalOK
        <5> QED
          BY <5>1, <5>2, <5>3 DEF AgendaOK
    <3>4. CASE Approved
      <4>1. agenda' = <<Step("type_opening", 0)>> \o Rest /\ agenda[1].op = "approval"
        BY <1>4, <3>4 DEF Approved, At
      <4>2. active = 0
        BY <1>1, <4>1 DEF IInv, TypeOK, AgendaOK, ResolvedOK, NeedsResolved
      <4>3. Step("type_opening", 0).op \notin {"type_decision", "approval"}
        BY DEF Step
      <4>4. Step("type_opening", 0) \in StepType
        BY StepTypes, PlainOps
      <4> QED
        BY <1>1, <4>1, <4>2, <4>3, <4>4, Short, Sequences, QuietAhead
    <3>5. CASE Exit
      BY <3>5, Short, QuietAgenda DEF Exit
    <3> QED
      BY <3>1, <3>2, <3>3, <3>4, <3>5
  <2> QED
    BY <1>2, <2>1, <2>2 DEF SafeOK
<1> QED
  BY <1>3, <1>4

\* Steps that neither drive nor wait for approval nor type a decision.
LEMMA CalmSteps ==
  \A o \in {"contact", "budget_update", "pane_retract", "escalation_retract", "pane_escalation",
           "undelivered_gone", "undelivered_live", "prompt_undelivered", "type_prompt",
           "completion", "decision_delivered", "menu_answered", "out_of_band", "classify",
           "recover", "session_ended", "exit"} \cup JobOps :
    \A n : Step(o, n).op \notin {"type_decision", "approval"} \cup NeedsResolved
BY DEF Step, NeedsResolved, JobOps

\* A job's steps are calm.
LEMMA CalmJob ==
  ASSUME NEW job \in Job
  PROVE  Quiet(Steps(job)) /\ Undriven(Steps(job))
<1>1. job.op \notin {"type_decision", "approval"} \cup NeedsResolved
  BY DEF Job, JobOps, NeedsResolved
<1>2. \A o \in {"menu_answered", "out_of_band", "classify", "recover", "session_ended", "exit"} :
        Step(o, 0).op \notin {"type_decision", "approval"} \cup NeedsResolved
  BY CalmSteps
<1> QED
  BY <1>1, <1>2 DEF Steps, Quiet, Undriven

\* The event loop takes a job.
LEMMA NextJobKeeps ==
  ASSUME IInv, TypeOK', NextJob
  PROVE  SafeOK' /\ JobsOK'
<1>1. /\ typed' = typed /\ active' = active /\ nextId' = nextId /\ nextId \in Nat
      /\ state' = state
  BY DEF NextJob, escVars, IInv, TypeOK
<1>2. TypedOK' /\ DrivingMeansResolved'
  BY <1>1, TypedFrame DEF IInv, DrivingMeansResolved
<1>3. CASE shutdown
  <2>1. agenda' = << >> /\ jobs' = jobs
    BY <1>3 DEF NextJob
  <2> QED
    BY <1>2, <2>1, Short, QuietAgenda DEF SafeOK, IInv, JobsOK
<1>4. CASE ~shutdown
  <2>1. jobs # << >> /\ agenda' = Steps(jobs[1]) /\ jobs' = Tail(jobs)
    BY <1>4 DEF NextJob
  <2>2. jobs[1] \in Job /\ jobs' \in Seq(Job)
    BY <2>1, Gathered DEF IInv, JobsOK
  <2> QED
    BY <1>2, <2>1, <2>2, CalmJob, QuietAgenda DEF SafeOK, JobsOK
<1> QED
  BY <1>3, <1>4

\* Messages to the master.
LEMMA ToMasterKeeps ==
  ASSUME IInv, TypeOK', ToMaster
  PROVE  SafeOK'
<1>1. /\ typed' = typed /\ active' = active /\ nextId' = nextId /\ nextId \in Nat
      /\ agenda # << >>
  BY DEF ToMaster, escVars, IInv, TypeOK
<1>2. TypedOK'
  BY <1>1, TypedFrame
<1>3. Fatal \/ (agenda' = Rest /\ state' = state)
  BY DEF ToMaster
<1>4. CASE Fatal
  BY <1>2, <1>4, FatalAgenda DEF SafeOK
<1>5. CASE agenda' = Rest /\ state' = state
  <2>1. agenda \in Seq(StepType)
    BY DEF IInv, TypeOK
  <2>2. \A i \in DOMAIN agenda' : /\ i + 1 \in DOMAIN agenda /\ i + 1 # 1
                                 /\ agenda'[i] = agenda[i + 1]
    BY <1>1, <1>5, <2>1 DEF Rest
  <2>3. ResolvedOK'
    BY <1>1, <2>2 DEF IInv, AgendaOK, ResolvedOK
  <2>4. DecisionOK'
    BY <2>2 DEF IInv, AgendaOK, DecisionOK
  <2>5. ApprovalOK'
    <3> SUFFICES ASSUME NEW i \in DOMAIN agenda', agenda'[i].op = "approval"
                 PROVE  state \in {"awaiting_approval", "stopped"} /\ i = 1
      BY <1>5 DEF ApprovalOK
    <3>1. i + 1 = 2 /\ state \in {"awaiting_approval", "stopped"}
      BY <2>2 DEF IInv, AgendaOK, ApprovalOK
    <3>2. i \in Nat
      BY <1>1, <1>5, <2>1 DEF Rest
    <3> QED
      BY <3>1, <3>2
  <2>6. DrivingMeansResolved'
    BY <1>1, <1>5 DEF IInv, DrivingMeansResolved
  <2> QED
    BY <1>2, <2>3, <2>4, <2>5, <2>6 DEF SafeOK, AgendaOK
<1> QED
  BY <1>3, <1>4, <1>5

\* The jobs that resolve, report contact or start over.
LEMMA ContactKeeps ==
  ASSUME IInv, TypeOK', MenuAnswered \/ OutOfBand \/ Contact \/ Classify \/ MarkState
  PROVE  SafeOK'
<1>1. /\ typed' = typed /\ active' \in {0, active} /\ nextId' = nextId /\ nextId \in Nat
      /\ agenda # << >> /\ agenda[1].op # "prompt_proposal"
  BY DEF MenuAnswered, OutOfBand, Contact, Classify, MarkState, At, EndActive, escVars, IInv,
         TypeOK
<1>2. TypedOK'
  BY <1>1, TypedFrame
<1>3. Rest \in Seq(StepType) /\ << >> \o Rest = Rest
  <2>1. Rest \in Seq(StepType)
    BY <1>1, Ahead DEF IInv
  <2> QED
    BY <2>1
<1>4. Quiet(Rest) /\ (active # 0 => Undriven(Rest))
  BY <1>1, RestOf
<1>5. active \in Ids \cup {0}
  BY DEF IInv, TypeOK
<1>6. \A o \in {"contact", "budget_update"} : Step(o, 0) \in StepType
  BY StepTypes, PlainOps
<1>7. AgendaOK'
  <2>1. CASE agenda' = Rest
    BY <1>1, <1>4, <2>1, QuietAgenda
  <2>2. CASE agenda' = << >> \o Rest
    BY <1>3, <2>1, <2>2
  <2>3. CASE MenuAnswered /\ agenda' # << >> \o Rest /\ agenda' # Rest
    <3>1. /\ menu.id # 0 /\ menu.id \in Ids \cup {0} /\ active' = active
          /\ \/ agenda' = <<Step("pane_retract", menu.id)>> \o Rest
             \/ agenda' = <<Step("pane_retract", menu.id), Step("contact", 0)>> \o Rest
      BY <2>3 DEF MenuAnswered, IInv, TypeOK, escVars
    <3>2. Step("pane_retract", menu.id) \in StepType
      BY <3>1, StepTypes DEF AboutEscalation
    <3> DEFINE p == <<Step("pane_retract", menu.id)>>
               q == <<Step("pane_retract", menu.id), Step("contact", 0)>>
    <3>3. Quiet(p) /\ Undriven(p) /\ Quiet(q) /\ Undriven(q)
      BY CalmSteps DEF Quiet, Undriven
    <3>4. p \in Seq(StepType) /\ q \in Seq(StepType)
      BY <1>6, <3>2, Sequences
    <3>5. agenda' = p \o Rest \/ agenda' = q \o Rest
      BY <3>1
    <3> HIDE DEF p, q
    <3> QED
      BY <1>1, <3>3, <3>4, <3>5, QuietAhead
  <2>4. CASE OutOfBand /\ agenda' # Rest
    <3>1. /\ active # 0
          /\ agenda' = <<Step("escalation_retract", active), Step("contact", 0)>> \o Rest
      BY <2>4 DEF OutOfBand
    <3>2. Step("escalation_retract", active) \in StepType
      BY <1>5, <3>1, StepTypes DEF AboutEscalation
    <3> DEFINE q == <<Step("escalation_retract", active), Step("contact", 0)>>
    <3>3. Quiet(q) /\ Undriven(q)
      BY CalmSteps DEF Quiet, Undriven
    <3>4. q \in Seq(StepType)
      BY <1>6, <3>2, Sequences
    <3>5. agenda' = q \o Rest
      BY <3>1
    <3> HIDE DEF q
    <3> QED
      BY <1>1, <3>3, <3>4, <3>5, QuietAhead
  <2>5. CASE Contact
    <3> DEFINE q == <<Step("budget_update", 0)>>
    <3>1. agenda' = q \o Rest
      BY <2>5 DEF Contact
    <3>2. Quiet(q) /\ Undriven(q)
      BY CalmSteps DEF Quiet, Undriven
    <3>3. q \in Seq(StepType)
      BY <1>6, Sequences
    <3> HIDE DEF q
    <3> QED
      BY <1>1, <3>1, <3>2, <3>3, QuietAhead
  <2>6. CASE Classify /\ agenda' # Rest
    <3>1. agenda' = <<Step("triage", 0)>> /\ state = "driving" /\ active' = active
      BY <2>6 DEF Classify, MayClassify, ACTIVE_STATES, escVars
    <3>2. active' = 0
      BY <3>1 DEF IInv, DrivingMeansResolved
    <3>3. Quiet(agenda')
      BY <3>1 DEF Quiet, Step
    <3> QED
      BY <3>2, <3>3, QuietAgenda
  <2> QED
    BY <2>1, <2>2, <2>3, <2>4, <2>5, <2>6 DEF MenuAnswered, OutOfBand, Classify, MarkState
<1>8. DrivingMeansResolved'
  <2>1. CASE MenuAnswered \/ OutOfBand \/ Classify
    BY <2>1 DEF MenuAnswered, OutOfBand, Classify, EndActive, MayClassify, ACTIVE_STATES,
                escVars, IInv, DrivingMeansResolved
  <2>2. CASE Contact \/ MarkState
    <3>1. /\ active' = active
          /\ \/ agenda[1].op \in {"drive", "drive_contact"}
             \/ state' = state \/ state' = "completed"
      BY <2>2 DEF Contact, MarkState, At, escVars
    <3>2. agenda[1].op \in {"drive", "drive_contact"} => active = 0
      BY <1>1 DEF IInv, TypeOK, AgendaOK, ResolvedOK, NeedsResolved
    <3> QED
      BY <3>1, <3>2 DEF IInv, DrivingMeansResolved
  <2> QED
    BY <2>1, <2>2
<1> QED
  BY <1>2, <1>7, <1>8 DEF SafeOK


\* Starting a delivery, a reactivation, a developer's prompt, a triage verdict.
LEMMA StartKeeps ==
  ASSUME IInv, TypeOK', Deliver \/ Reactivate \/ SendPrompt
  PROVE  SafeOK'
<1>1. /\ typed' = typed /\ active' \in {0, active} /\ nextId' = nextId /\ nextId \in Nat
      /\ agenda # << >> /\ state' = state
  BY DEF Deliver, Reactivate, SendPrompt, At, EndActive, escVars, IInv, TypeOK
<1>2. TypedOK'
  BY <1>1, TypedFrame
<1>3. DrivingMeansResolved'
  BY <1>1 DEF IInv, DrivingMeansResolved
<1>4. CASE Deliver
  <2>1. active' = active
    BY <1>4 DEF Deliver, escVars
  <2>2. CASE agenda' = <<Step("type_decision", Arg)>>
    <3>1. Arg = active
      BY <1>4, <2>2 DEF Deliver, ReportGone, IsActive, Step
    <3>2. \A i \in DOMAIN agenda' : i = 1 /\ agenda'[i] = Step("type_decision", Arg)
      BY <2>2
    <3>3. Step("type_decision", Arg).op = "type_decision"
          /\ Step("type_decision", Arg).arg = active /\ "type_decision" \notin NeedsResolved
      BY <3>1 DEF Step, NeedsResolved
    <3> QED
      BY <1>2, <1>3, <2>1, <3>2, <3>3
         DEF SafeOK, AgendaOK, ResolvedOK, DecisionOK, ApprovalOK
  <2>3. CASE \E o \in {"undelivered_gone", "undelivered_live"} : agenda' = <<Step(o, Arg)>>
    <3>1. Quiet(agenda') /\ Undriven(agenda')
      BY <2>3, CalmSteps, Short
    <3> QED
      BY <1>2, <1>3, <3>1, QuietAgenda DEF SafeOK
  <2> QED
    BY <1>4, <2>2, <2>3 DEF Deliver, ReportGone
<1>5. CASE Reactivate
  <2>1. active' = 0 /\ agenda' = <<Step("budget_update", 0), Step("ground", 0)>>
    BY <1>5 DEF Reactivate, EndActive
  <2>2. Quiet(agenda')
    BY <2>1 DEF Quiet, Step
  <2> QED
    BY <1>2, <1>3, <2>1, <2>2, QuietAgenda DEF SafeOK
<1>6. CASE SendPrompt
  <2>1. \E o \in {"prompt_undelivered", "type_prompt"} : agenda' = <<Step(o, 0)>>
    BY <1>6 DEF SendPrompt
  <2>2. Quiet(agenda') /\ Undriven(agenda')
    BY <2>1, CalmSteps, Short
  <2> QED
    BY <1>2, <1>3, <2>2, QuietAgenda DEF SafeOK
<1> QED
  BY <1>4, <1>5, <1>6

\* What a verdict leads to.
LEMMA TriagedKeeps ==
  ASSUME IInv, TypeOK', NEW v \in Verdicts, Triaged(v)
  PROVE  SafeOK'
<1>1. typed' = typed /\ nextId \in Nat
  BY DEF Triaged, IInv, TypeOK
<1>2. CASE Raise(TRUE)
  BY <1>1, <1>2, RaiseKeeps
<1>3. CASE ~Raise(TRUE)
  <2>1. active' = active /\ nextId' = nextId
    BY <1>3 DEF Triaged, escVars
  <2>2. TypedOK'
    BY <1>1, <2>1, TypedFrame
  <2>3. active = 0
    BY DEF Triaged, At, IInv, TypeOK, AgendaOK, ResolvedOK, NeedsResolved
  <2>4. CASE Fatal
    BY <2>2, <2>4, FatalAgenda DEF SafeOK
  <2>5. CASE ~Fatal
    <3>1. /\ state' = state
          /\ \/ agenda' = <<Step("type_answer", 0)>> \/ agenda' = << >>
             \/ agenda' = <<Step("completion", 0), Step("complete", 0)>>
      BY <1>3, <2>5 DEF Triaged
    <3>2. Quiet(agenda')
      BY <3>1 DEF Quiet, Step
    <3>3. DrivingMeansResolved'
      BY <2>1, <3>1 DEF IInv, DrivingMeansResolved
    <3> QED
      BY <2>1, <2>2, <2>3, <3>2, <3>3, QuietAgenda DEF SafeOK
  <2> QED
    BY <2>4, <2>5
<1> QED
  BY <1>2, <1>3

\* The pane write succeeds: a decision is typed for the live escalation, which
\* never was before, and ends it.
LEMMA TypedKeeps ==
  ASSUME IInv, TypeOK', Typed
  PROVE  SafeOK'
<1>1. nextId' = nextId /\ nextId \in Nat /\ agenda # << >> /\ 1 \in DOMAIN agenda
  BY DEF Typed, IInv, TypeOK
<1>2. CASE At("type_opening")
  <2>1. typed' = typed /\ active' = active /\ agenda' = Rest
    BY <1>2 DEF Typed, At
  <2>2. active = 0 /\ agenda[1].op # "prompt_proposal"
    BY <1>1, <1>2 DEF At, IInv, AgendaOK, ResolvedOK, NeedsResolved
  <2>3. Quiet(agenda')
    BY <1>1, <2>1, <2>2, RestOf
  <2>4. TypedOK'
    BY <1>1, <2>1, TypedFrame
  <2> QED
    BY <2>1, <2>2, <2>3, <2>4, QuietAgenda DEF SafeOK, DrivingMeansResolved
<1>3. CASE At("type_answer")
  <2>1. /\ typed' = typed /\ active' = active
        /\ agenda' = <<Step("budget_update", budget + 1)>>
    BY <1>3 DEF Typed, At
  <2>2. active = 0
    BY <1>1, <1>3 DEF At, IInv, AgendaOK, ResolvedOK, NeedsResolved
  <2>3. Quiet(agenda')
    BY <2>1, CalmSteps, Short
  <2>4. TypedOK'
    BY <1>1, <2>1, TypedFrame
  <2> QED
    BY <2>1, <2>2, <2>3, <2>4, QuietAgenda DEF SafeOK, DrivingMeansResolved
<1>4. CASE At("type_decision")
  <2>1. /\ active' = 0 /\ typed' = [typed EXCEPT ![Arg] = @ + 1]
        /\ agenda' = <<Step("budget_update", 0), Step("drive", 0),
                       Step("decision_delivered", Arg)>>
    BY <1>4 DEF Typed, At, EndActive
  <2>2. Quiet(agenda')
    BY <2>1 DEF Quiet, Step
  <2>3. Arg = active
    BY <1>1, <1>4 DEF At, Arg, IInv, AgendaOK, DecisionOK
  <2>4. agenda[1] \in StepType /\ agenda[1].op = "type_decision"
    BY <1>1, <1>4, Ahead DEF At, IInv
  <2>5. Arg \in Ids
    BY <2>4, StepParts DEF Arg, AboutEscalation
  <2>6. typed \in [Ids -> Nat] /\ Ids \subseteq Nat /\ 0 \notin Ids /\ nextId # 0
    BY BrokerAssumption DEF IInv, TypeOK, Ids
  <2>7. TypedOK'
    <3>1. active < nextId /\ \A e \in Ids : typed[e] <= 1 /\ (typed[e] # 0 => e < nextId /\ e # active)
      BY DEF IInv, TypedOK
    <3>2. typed[active] = 0
      BY <2>3, <2>5, <2>6, <3>1
    <3>3. ASSUME NEW e \in Ids
          PROVE  typed'[e] <= 1 /\ (typed'[e] # 0 => e < nextId' /\ e # active')
      <4>1. CASE e = active
        BY <1>1, <2>1, <2>3, <2>5, <2>6, <3>1, <3>2, <4>1
      <4>2. CASE e # active
        BY <1>1, <2>1, <2>3, <2>5, <2>6, <3>1, <4>2
      <4> QED
        BY <4>1, <4>2
    <3>4. active' < nextId'
      BY <1>1, <2>1, <2>6
    <3> QED
      BY <3>3, <3>4 DEF TypedOK
  <2> QED
    BY <2>1, <2>2, <2>7, QuietAgenda DEF SafeOK, DrivingMeansResolved
<1>5. CASE At("type_prompt")
  <2>1. /\ typed' = typed /\ active' = 0
        /\ \/ agenda' = <<Step("escalation_retract", active), Step("drive_contact", 0)>>
           \/ agenda' = <<Step("budget_update", 0)>>
    BY <1>5 DEF Typed, At, EndActive
  <2>2. Quiet(agenda')
    BY <2>1 DEF Quiet, Step
  <2>3. TypedOK'
    BY <1>1, <2>1, TypedFrame
  <2> QED
    BY <2>1, <2>2, <2>3, QuietAgenda DEF SafeOK, DrivingMeansResolved
<1> QED
  BY <1>2, <1>3, <1>4, <1>5 DEF Typed

\* The write fails, a verification fails, the session fails.
LEMMA FailureKeeps ==
  ASSUME IInv, TypeOK', TypingFails \/ VerifyRecorded \/ VerifyMissing \/ ReportFatal
  PROVE  SafeOK'
<1>1. typed' = typed /\ nextId \in Nat
  <2>1. typed' = typed
    BY DEF TypingFails, VerifyRecorded, VerifyMissing, ReportFatal
  <2>2. nextId \in Nat
    BY DEF IInv, TypeOK
  <2> QED
    BY <2>1, <2>2
<1>2. CASE VerifyRecorded
  BY <1>1, <1>2, RaiseKeeps DEF VerifyRecorded
<1>3. CASE ~VerifyRecorded
  <2>1. active' = active /\ nextId' >= nextId
    BY <1>1, <1>3 DEF TypingFails, VerifyMissing, ReportFatal, escVars
  <2>2. TypedOK'
    BY <1>1, <2>1, TypedFrame
  <2>3. CASE Fatal
    BY <2>2, <2>3, FatalAgenda DEF SafeOK
  <2>4. CASE ~Fatal
    <3>1. /\ state' = state
          /\ \E o \in {"undelivered_live", "pane_escalation"}, n \in {Arg, nextId} :
               agenda' = <<Step(o, n)>>
      BY <1>3, <2>4 DEF TypingFails, VerifyMissing, ReportFatal
    <3>2. Quiet(agenda') /\ Undriven(agenda')
      BY <3>1, CalmSteps, Short
    <3>3. DrivingMeansResolved'
      BY <2>1, <3>1 DEF IInv, DrivingMeansResolved
    <3> QED
      BY <2>2, <3>2, <3>3, QuietAgenda DEF SafeOK
  <2> QED
    BY <2>3, <2>4
<1> QED
  BY <1>2, <1>3

\* The main task keeps the invariant.
LEMMA MainKeeps ==
  ASSUME IInv, Main
  PROVE  IInv'
<1>1. TypeOK'
  BY NextType DEF IInv, Next
<1>2. SafeOK'
  BY <1>1, LaunchKeeps, NextJobKeeps, ToMasterKeeps, ContactKeeps, StartKeeps, TriagedKeeps,
     TypedKeeps, FailureKeeps DEF Main
<1>3. JobsOK'
  <2>1. CASE NextJob
    BY <1>1, <2>1, NextJobKeeps
  <2>2. CASE VerifyMissing
    <3>1. jobs' = jobs \o Superseded /\ Superseded \in Seq(Queueable) /\ jobs \in Seq(Job)
      BY <2>2, QueuedJobs DEF VerifyMissing, IInv, JobsOK
    <3>2. Superseded \in Seq(Job)
      BY <3>1, Gathered DEF Queueable
    <3> QED
      BY <3>1, <3>2, Gathered DEF JobsOK
  <2>3. CASE ~NextJob /\ ~VerifyMissing
    <3>1. jobs' = jobs
      BY <2>3 DEF Main, Bind, Ground, Grounded, Approved, Serve, Exit, ToMaster, MenuAnswered,
                  OutOfBand, Contact, MarkState, Classify, Deliver, Reactivate, SendPrompt,
                  Typed, TypingFails, VerifyRecorded, ReportFatal, Triaged
    <3> QED
      BY <3>1 DEF IInv, JobsOK
  <2> QED
    BY <2>1, <2>2, <2>3
<1> QED
  BY <1>1, <1>2, <1>3 DEF IInv, SafeOK

-----------------------------------------------------------------------------
(* The theorems.                                                           *)

\* The invariant holds when the broker starts ...
LEMMA InitKeeps == Init => IInv
<1> SUFFICES ASSUME Init PROVE IInv
  OBVIOUS
<1>1. TypeOK
  BY InitType
<1>2. JobsOK
  BY Gathered DEF Init, JobsOK
<1>3. active = 0 /\ nextId = 1 /\ \A e \in Ids : typed[e] = 0
  BY DEF Init
<1>4. Quiet(agenda)
  <2>1. PICK k \in Launches : agenda = LaunchAgenda(k)
    BY DEF Init
  <2> QED
    BY <2>1 DEF LaunchAgenda, Quiet, Step
<1>5. AgendaOK
  BY <1>3, <1>4 DEF Quiet, AgendaOK, ResolvedOK, DecisionOK, ApprovalOK
<1> QED
  BY <1>1, <1>2, <1>3, <1>5 DEF IInv, TypedOK, DrivingMeansResolved

\* ... and every step keeps it.
THEOREM Inductive == Spec => []IInv
<1>1. Init => IInv
  BY InitKeeps
<1>2. IInv /\ [Next]_vars => IInv'
  <2> SUFFICES ASSUME IInv, [Next]_vars PROVE IInv'
    OBVIOUS
  <2>1. CASE Main
    BY <2>1, MainKeeps
  <2>2. CASE Master \/ Questions \/ Session
    BY <2>2, HandlersKeep
  <2>3. CASE UNCHANGED vars
    <3>1. UNCHANGED <<jobs, agenda, state, active, typed, nextId>>
      BY <2>3 DEF vars, mainVars, escVars
    <3>2. TypeOK'
      BY NextType DEF IInv
    <3> QED
      BY <3>1, <3>2 DEF IInv, JobsOK, AgendaOK, ResolvedOK, DecisionOK, ApprovalOK,
                        DrivingMeansResolved, TypedOK
  <2> QED
    BY <2>1, <2>2, <2>3 DEF Next
<1> QED
  BY <1>1, <1>2, PTL DEF Spec

\* However often a decision is dispatched, and whatever fails or comes between,
\* at most one is ever typed for an escalation (_deliver_decision).
THEOREM DecidesOnce == Spec => []OneDecisionTyped
<1>1. IInv => OneDecisionTyped
  BY DEF IInv, TypedOK, OneDecisionTyped
<1> QED
  BY <1>1, Inductive, PTL

\* The broker never drives a session whose escalation is live
\* (_raise_escalation).
THEOREM DrivingResolved == Spec => []DrivingMeansResolved
<1>1. IInv => DrivingMeansResolved
  BY DEF IInv
<1> QED
  BY <1>1, Inductive, PTL

\* While an escalation is live no verdict of the broker is on its way into the
\* pane (_classify).
THEOREM HandsOffWhileLive == Spec => []HandsOff
<1>1. IInv => HandsOff
  BY DEF IInv, AgendaOK, ResolvedOK, NeedsResolved, HandsOff
<1> QED
  BY <1>1, Inductive, PTL

\* Nothing but the end of the session changes the state while the opening
\* prompt waits for its approval (_ground_and_submit).
THEOREM ApprovalWaits == Spec => []ApprovalBlocks
<1>1. IInv => ApprovalBlocks
  <2> SUFFICES ASSUME IInv, At("approval")
               PROVE  state \in {"awaiting_approval", "stopped"}
    BY DEF ApprovalBlocks
  <2>1. 1 \in DOMAIN agenda /\ agenda[1].op = "approval"
    BY DEF At, IInv, TypeOK
  <2> QED
    BY <2>1 DEF IInv, AgendaOK, ApprovalOK
<1> QED
  BY <1>1, Inductive, PTL

-----------------------------------------------------------------------------
(* Clarifications.                                                         *)

\* What raises ends nothing; everything else that touches the live escalation
\* ends the clarifications with it.
LEMMA ClarifyStep ==
  ASSUME IInv, ClarifyBound, [Next]_vars, [VerifyRecorded => active = 0]_vars
  PROVE  ClarifyBound'
<1>1. active = 0 => clarifying = {}
  BY DEF ClarifyBound, IInv, TypeOK, Ids
<1>2. CASE Main
  <2>1. CASE VerifyRecorded
    <3>1. clarifying' = clarifying /\ (active = 0 \/ active' = active)
      BY <2>1 DEF VerifyRecorded, vars, escVars
    <3> QED
      BY <1>1, <3>1 DEF ClarifyBound
  <2>2. CASE \E v \in Verdicts : Triaged(v)
    <3>1. clarifying' = clarifying /\ agenda # << >> /\ agenda[1].op = "triage"
      BY <2>2 DEF Triaged, At
    <3>2. active = 0
      BY <3>1 DEF IInv, TypeOK, AgendaOK, ResolvedOK, NeedsResolved
    <3> QED
      BY <1>1, <3>1, <3>2 DEF ClarifyBound
  <2>3. CASE OutOfBand \/ Reactivate \/ Typed
    <3>1. clarifying' = {} \/ (clarifying' = clarifying /\ active' = active)
      BY <2>3 DEF OutOfBand, Reactivate, Typed, EndActive
    <3> QED
      BY <3>1 DEF ClarifyBound
  <2>4. CASE ~(VerifyRecorded \/ (\E v \in Verdicts : Triaged(v)) \/ OutOfBand \/ Reactivate \/ Typed)
    <3>1. clarifying' = clarifying /\ active' = active
      BY <1>2, <2>4 DEF Main, Bind, Ground, Grounded, Approved, Serve, NextJob, Exit, ToMaster,
         MenuAnswered, Contact, MarkState, Classify, Deliver, SendPrompt, TypingFails,
         VerifyMissing, ReportFatal, escVars
    <3> QED
      BY <3>1 DEF ClarifyBound
  <2> QED
    BY <2>1, <2>2, <2>3, <2>4
<1>3. CASE Master \/ Questions \/ Session
  <2>1. active' = active
    BY <1>3, HandlerFrame DEF IInv
  <2>2. clarifying' \subseteq clarifying \/ (active # 0 /\ clarifying' = clarifying \cup {active})
    BY <1>3 DEF Master, OnApprove, OnReactivate, OnSendPrompt, OnShutdown, OnDispatch, OnClarify,
       Clarified, Questions, OnAsk, OnQuestionUsed, AskDecided, AnswerRecorded, Backstop,
       Session, OnSessionStart, PaneInput, OnToolUsed, OnPermissionPrompt, OnStopFailure,
       OnSessionEnd, WatchdogExpires, OnPromptSubmitted, OnStop
  <2> QED
    BY <2>1, <2>2 DEF ClarifyBound
<1>4. CASE UNCHANGED vars
  BY <1>4 DEF vars, escVars, ClarifyBound
<1> QED
  BY <1>2, <1>3, <1>4 DEF Next

\* A clarification ends with its escalation (_end_active_escalation), unless a failed
\* verification raises another on top of it: _ask_verify_failed is the one raise that no
\* test for a live escalation precedes.
THEOREM ClarificationsEnd ==
  Spec /\ [][VerifyRecorded => active = 0]_vars => []ClarifyBound
<1>1. Init => ClarifyBound
  BY DEF Init, ClarifyBound
<1>2. IInv /\ ClarifyBound /\ [Next]_vars /\ [VerifyRecorded => active = 0]_vars => ClarifyBound'
  BY ClarifyStep
<1> QED
  BY <1>1, <1>2, Inductive, PTL DEF Spec

-----------------------------------------------------------------------------
(* Where steps come from.                                                  *)

\* Steps that only handlers queue, but for the withdrawal of the claimed menu; and steps
\* of the session's failure and end.
Posted == AboutTool \cup {"pane_retract", "reactivate"}
Ending == {"fatal_error", "session_ended", "exit"}

\* The report of the session's end is what the main task is coming to.
Closing == agenda = <<Step("session_ended", 0), Step("exit", 0)>>

\* The main task puts the steps of its jobs in front of what it has left: any set of
\* steps with the other steps in it holds what it does next, unless the job fails or
\* ends the session, and what it queues.
LEMMA OtherSteps ==
  ASSUME IInv, Main, NEW S, agenda \in Seq(S), jobs \in Seq(S),
         {s \in StepType : s.op \notin Posted \cup Ending} \subseteq S,
         menu.id # 0 /\ menu'.id \in {0, nextId} => Step("pane_retract", menu.id) \in S
  PROVE  /\ jobs' \in Seq(S)
         /\ \/ agenda' \in Seq(S) \/ Fatal
            \/ NextJob /\ jobs # << >> /\ jobs[1].op = "session_end" /\ Closing'
<1>1. TypeOK /\ TypeOK'
  BY NextType DEF IInv, Next
<1>2. \A o \in Plain \ (Ending \cup {"reactivate"}), n \in Nat : Step(o, n) \in S
  <2>1. \A o \in Plain, n \in Nat : Step(o, n) \in StepType /\ Step(o, n).op = o
    BY StepTypes DEF Step
  <2>2. \A o \in Plain : o \notin AboutTool \cup {"pane_retract"}
    BY DEF Plain, AboutEscalation
  <2>3. \A o \in Plain \ (Ending \cup {"reactivate"}) : o \notin Posted \cup Ending
    BY <2>2 DEF Posted
  <2> QED
    BY <2>1, <2>3
<1>3. \A o \in AboutEscalation \ {"pane_retract"}, e \in Ids : Step(o, e) \in S
  <2>1. \A o \in AboutEscalation, e \in Ids : Step(o, e) \in StepType /\ Step(o, e).op = o
    BY StepTypes DEF Step
  <2>2. \A o \in AboutEscalation \ {"pane_retract"} : o \notin Posted \cup Ending
    BY DEF AboutTool, AboutEscalation, Posted, Ending
  <2> QED
    BY <2>1, <2>2
<1>4. \A o \in {"bind", "ground", "grounding", "approval", "serve", "classify", "recover",
                "triage", "complete", "contact", "drive", "drive_contact", "completion",
                "prompt_proposal", "budget_update", "prompt_undelivered", "type_opening",
                "type_answer", "type_prompt", "menu_answered", "out_of_band"} : Step(o, 0) \in S
  BY <1>2, PlainOps DEF Ending
<1>5. \A n \in Nat : Step("budget_update", n) \in S
  BY <1>2, PlainOps DEF Ending
<1>6. /\ << >> \in Seq(S)
      /\ \A s \in S : <<s>> \in Seq(S)
      /\ \A s, t \in S : <<s, t>> \in Seq(S)
      /\ \A s, t, u \in S : <<s, t, u>> \in Seq(S)
      /\ \A q \in Seq(S) : q # << >> => q[1] \in S /\ Tail(q) \in Seq(S)
      /\ \A q, r \in Seq(S) : q \o r \in Seq(S)
  OBVIOUS
<1>7. agenda # << >> => Rest \in Seq(S)
  BY <1>6 DEF Rest
<1>14. agenda # << >> =>
        /\ << >> \o Rest \in Seq(S)
        /\ \A s \in S : <<s>> \o Rest \in Seq(S)
        /\ \A s, t \in S : <<s, t>> \o Rest \in Seq(S)
  BY <1>6, <1>7
<1>8. agenda # << >> => agenda[1] \in StepType
  BY Ahead DEF IInv
<1>9. VerifyMissing => Superseded \in Seq(S)
  BY <1>6 DEF VerifyMissing, Superseded
<1>10. jobs' \in Seq(S)
  <2>1. \/ jobs' = jobs
        \/ VerifyMissing /\ jobs' = jobs \o Superseded
        \/ NextJob /\ jobs # << >> /\ jobs' = Tail(jobs)
    BY DEF Main, Bind, Ground, Grounded, Approved, Serve, NextJob, Exit, ToMaster, MenuAnswered,
       OutOfBand, Contact, MarkState, Classify, Deliver, Reactivate, SendPrompt, Typed,
       TypingFails, VerifyRecorded, VerifyMissing, ReportFatal, Triaged
  <2> QED
    BY <1>6, <1>9, <2>1
<1>12. CanRaise => nextId \in Ids
  BY <1>1, QueuedJobs
<1>13. ASSUME ~Fatal
       PROVE  \/ agenda' \in Seq(S)
              \/ NextJob /\ jobs # << >> /\ jobs[1].op = "session_end" /\ Closing'
  <2>1. CASE Bind \/ Ground \/ Grounded \/ Approved \/ Serve \/ Exit
    <3>1. agenda # << >>
      BY <2>1 DEF Bind, Ground, Grounded, Approved, Serve, Exit, At
    <3>2. \/ Fatal \/ agenda' = Rest \/ agenda' = << >>
          \/ agenda' = <<Step("grounding", 0)>> \o Rest
          \/ agenda' = <<Step("prompt_proposal", 0), Step("approval", 0)>> \o Rest
          \/ agenda' = <<Step("type_opening", 0)>> \o Rest
      BY <2>1 DEF Bind, Ground, Grounded, Approved, Serve, Exit
    <3>3. /\ Step("grounding", 0) \in S /\ Step("prompt_proposal", 0) \in S
          /\ Step("approval", 0) \in S /\ Step("type_opening", 0) \in S
      BY <1>4
    <3> QED
      BY <1>6, <1>7, <1>13, <1>14, <3>1, <3>2, <3>3
  <2>2. CASE NextJob
    <3>1. \A s \in S : s.op # "session_end" => Steps(s) \in Seq(S)
      <4>1. \A o \in {"menu_answered", "out_of_band", "classify", "recover"} : Step(o, 0) \in S
        BY <1>4
      <4> QED
        BY <1>6, <4>1 DEF Steps
    <3>2. \/ agenda' = agenda \/ (jobs # << >> /\ agenda' = Steps(jobs[1]))
      BY <2>2 DEF NextJob
    <3>3. jobs # << >> /\ jobs[1].op = "session_end" /\ agenda' = Steps(jobs[1]) => Closing'
      BY DEF Steps, Closing
    <3> QED
      BY <1>6, <2>2, <3>1, <3>2, <3>3
  <2>3. CASE ToMaster
    BY <1>7, <1>13, <2>3 DEF ToMaster
  <2>4. CASE MenuAnswered
    <3>1. \/ agenda' = Rest \/ agenda' = << >> \o Rest
          \/ /\ menu.id # 0 /\ menu'.id = 0
             /\ \/ agenda' = <<Step("pane_retract", menu.id)>> \o Rest
                \/ agenda' = <<Step("pane_retract", menu.id), Step("contact", 0)>> \o Rest
      <4>1. NoMenu.id = 0
        BY DEF NoMenu
      <4>2. CASE menu # NoMenu /\ recorded[menu.tool] # "no"
        BY <2>4, <4>1, <4>2 DEF MenuAnswered
      <4>3. CASE ~(menu # NoMenu /\ recorded[menu.tool] # "no")
        BY <2>4, <4>3 DEF MenuAnswered
      <4> QED
        BY <4>2, <4>3
    <3>2. agenda # << >>
      BY <2>4 DEF MenuAnswered, At
    <3>3. Step("contact", 0) \in S
      BY <1>4
    <3> QED
      BY <1>7, <1>14, <3>1, <3>2, <3>3
  <2>5. CASE OutOfBand
    <3>1. \/ agenda' = Rest
          \/ active # 0 /\ agenda' = <<Step("escalation_retract", active), Step("contact", 0)>> \o Rest
      BY <2>5 DEF OutOfBand
    <3>2. active # 0 => Step("escalation_retract", active) \in S
      BY <1>1, <1>3 DEF AboutEscalation, TypeOK
    <3>3. agenda # << >>
      BY <2>5 DEF OutOfBand, At
    <3>4. Step("contact", 0) \in S
      BY <1>4
    <3> QED
      BY <1>7, <1>14, <3>1, <3>2, <3>3, <3>4
  <2>6. CASE Contact \/ MarkState \/ Classify \/ Reactivate \/ SendPrompt
    <3>1. /\ agenda # << >>
          /\ \/ agenda' = <<Step("budget_update", 0)>> \o Rest
             \/ agenda' = Rest
             \/ agenda' = <<Step("triage", 0)>>
             \/ agenda' = <<Step("budget_update", 0), Step("ground", 0)>>
             \/ agenda' = <<Step("prompt_undelivered", 0)>>
             \/ agenda' = <<Step("type_prompt", 0)>>
      BY <2>6 DEF Contact, MarkState, Classify, Reactivate, SendPrompt, At
    <3>2. /\ Step("budget_update", 0) \in S /\ Step("triage", 0) \in S
          /\ Step("ground", 0) \in S /\ Step("prompt_undelivered", 0) \in S
          /\ Step("type_prompt", 0) \in S
      BY <1>4
    <3> QED
      BY <1>6, <1>7, <1>14, <3>1, <3>2
  <2>7. CASE Deliver
    <3>1. Arg \in Ids
      BY <1>8, <2>7, StepParts DEF Deliver, At, Arg, AboutEscalation
    <3>2. \A o \in {"undelivered_gone", "undelivered_live", "type_decision"} : Step(o, Arg) \in S
      BY <1>3, <3>1 DEF AboutEscalation
    <3> QED
      BY <1>6, <2>7, <3>2 DEF Deliver, ReportGone
  <2>8. CASE Typed
    <3>1. CASE At("type_opening")
      BY <1>7, <3>1, <2>8 DEF Typed, At
    <3>2. CASE At("type_answer")
      <4>1. budget + 1 \in Nat
        BY <1>1 DEF TypeOK
      <4> QED
        BY <1>5, <1>6, <3>2, <2>8, <4>1 DEF Typed, At
    <3>3. CASE At("type_decision")
      <4>1. Arg \in Ids
        BY <1>8, <3>3, StepParts DEF At, Arg, AboutEscalation
      <4>2. Step("decision_delivered", Arg) \in S
        BY <1>3, <4>1 DEF AboutEscalation
      <4>3. Step("budget_update", 0) \in S /\ Step("drive", 0) \in S
        BY <1>4
      <4>4. agenda' = <<Step("budget_update", 0), Step("drive", 0),
                        Step("decision_delivered", Arg)>>
        BY <3>3, <2>8 DEF Typed, At
      <4> QED
        BY <1>6, <4>2, <4>3, <4>4
    <3>4. CASE At("type_prompt")
      <4>1. active # 0 => Step("escalation_retract", active) \in S
        BY <1>1, <1>3 DEF AboutEscalation, TypeOK
      <4> QED
        BY <1>4, <1>6, <3>4, <2>8, <4>1 DEF Typed, At
    <3> QED
      BY <2>8, <3>1, <3>2, <3>3, <3>4 DEF Typed
  <2>9. CASE TypingFails
    <3>1. At("type_decision") => Step("undelivered_live", Arg) \in S
      <4>1. At("type_decision") => Arg \in Ids
        BY <1>8, StepParts DEF At, Arg, AboutEscalation
      <4> QED
        BY <1>3, <4>1 DEF AboutEscalation
    <3> QED
      BY <1>6, <1>13, <2>9, <3>1 DEF TypingFails
  <2>10. CASE VerifyRecorded \/ VerifyMissing \/ ReportFatal \/ \E v \in Verdicts : Triaged(v)
    <3>1. CanRaise => Step("escalation", nextId) \in S /\ Step("pane_escalation", nextId) \in S
      BY <1>3, <1>12 DEF AboutEscalation
    <3> QED
      <4>1. /\ Step("type_answer", 0) \in S /\ Step("completion", 0) \in S
            /\ Step("complete", 0) \in S
        BY <1>4
      <4>2. \/ Fatal \/ agenda' = << >> \/ agenda' = <<Step("type_answer", 0)>>
            \/ agenda' = <<Step("completion", 0), Step("complete", 0)>>
            \/ CanRaise /\ agenda' = <<Step("escalation", nextId)>>
            \/ CanRaise /\ agenda' = <<Step("pane_escalation", nextId)>>
        BY <2>10 DEF VerifyRecorded, VerifyMissing, ReportFatal, Triaged, Raise
      <4> QED
        BY <1>6, <1>13, <3>1, <4>1, <4>2
  <2> QED
    BY <2>1, <2>2, <2>3, <2>4, <2>5, <2>6, <2>7, <2>8, <2>9, <2>10 DEF Main
<1> QED
  BY <1>10, <1>13

\* Such a set with the steps of the end in it holds all of what is next.
LEMMA MainSteps ==
  ASSUME IInv, Main, NEW S, agenda \in Seq(S), jobs \in Seq(S),
         {s \in StepType : s.op \notin AboutTool \cup {"pane_retract"}} \subseteq S,
         menu.id # 0 /\ menu'.id \in {0, nextId} => Step("pane_retract", menu.id) \in S
  PROVE  agenda' \in Seq(S) /\ jobs' \in Seq(S)
<1>1. {s \in StepType : s.op \notin Posted \cup Ending} \subseteq S
  BY DEF Posted
<1>2. \A o \in Ending : Step(o, 0) \in S
  <2>1. \A o \in Ending : Step(o, 0) \in StepType /\ Step(o, 0).op = o
    BY StepTypes, PlainOps DEF Ending, Step
  <2> QED
    BY <2>1 DEF Ending, AboutTool
<1>3. \A s, t \in S : <<s>> \in Seq(S) /\ <<s, t>> \in Seq(S)
  OBVIOUS
<1>4. /\ Step("fatal_error", 0) \in S /\ Step("exit", 0) \in S
      /\ Step("session_ended", 0) \in S
  BY <1>2 DEF Ending
<1>5. Fatal \/ Closing' => agenda' \in Seq(S)
  BY <1>3, <1>4 DEF Fatal, Closing
<1> QED
  BY <1>1, <1>5, OtherSteps

-----------------------------------------------------------------------------
(* Questions.                                                              *)

Asked(t)    == deciding[t] > 0 \/ decided[t] # "none"
Verifiable  == {s \in StepType : s.op = "verify_missing" => decided[s.arg] # "none"}

\* The picker on screen and a question being judged have no answer on record, every
\* question before one that was asked has; a verification is of a question that was
\* answered for the developer.
AskOK ==
  /\ picker # 0 => recorded[picker] = "no" /\ decided[picker] # "none"
  /\ \A t \in Tools : deciding[t] > 0 => recorded[t] = "no"
  /\ \A t, u \in Tools : u < t /\ Asked(t) => recorded[u] # "no"
  /\ \A t \in expected : decided[t] # "none"

VerifyOK == agenda \in Seq(Verifiable) /\ jobs \in Seq(Verifiable)

\* Steps that ask, judge, record and verify nothing.
LEMMA AskFrame ==
  ASSUME AskOK, UNCHANGED <<picker, recorded, decided, deciding, expected>>
  PROVE  AskOK'
BY DEF AskOK, Asked

\* The questions of the session.
LEMMA QuestionsAsk ==
  ASSUME TypeOK, AskOK, Questions
  PROVE  AskOK' /\ \A t \in Tools : decided[t] # "none" => decided'[t] # "none"
<1>1. PICK t \in Tools :
        \/ OnAsk(t) \/ OnQuestionUsed(t)
        \/ \E d \in {"answer", "escalated"} : AskDecided(t, d)
        \/ \E how \in {"same", "other"} : AnswerRecorded(t, how)
        \/ \E readable \in BOOLEAN : Backstop(t, readable)
  BY DEF Questions
<1>2. /\ decided \in [Tools -> {"none", "answer", "escalated"}] /\ deciding \in [Tools -> 0 .. 2]
      /\ recorded \in [Tools -> {"no", "same", "other"}] /\ picker \in Tools \cup {0}
      /\ expected \subseteq Tools /\ Tools \subseteq Nat /\ 0 \notin Tools
  BY BrokerAssumption DEF TypeOK, Tools
<1>3. CASE OnAsk(t)
  <2>1. /\ recorded' = recorded /\ expected' = expected /\ recorded[t] = "no"
        /\ decided[t] = "none" /\ picker = 0
        /\ \A u \in Tools : u < t => recorded[u] # "no"
    BY <1>2, <1>3 DEF OnAsk, Waits
  <2>2. CASE Reply(t, "escalated") /\ deciding' = deciding
    <3>1. /\ decided' = [decided EXCEPT ![t] = "escalated"] /\ picker' = t
      BY <2>1, <2>2 DEF Reply
    <3>2. \A u \in Tools : u # t => decided'[u] = decided[u]
      BY <1>2, <3>1
    <3>3. decided'[t] = "escalated"
      BY <1>2, <3>1
    <3> QED
      BY <1>2, <2>1, <2>2, <3>1, <3>2, <3>3 DEF AskOK, Asked
  <2>3. CASE deciding' = [deciding EXCEPT ![t] = @ + 1] /\ decided' = decided /\ picker' = picker
    <3>1. \A u \in Tools : u # t => deciding'[u] = deciding[u]
      BY <1>2, <2>3
    <3> QED
      BY <1>2, <2>1, <2>3, <3>1 DEF AskOK, Asked
  <2> QED
    BY <1>3, <2>2, <2>3 DEF OnAsk
<1>4. CASE OnQuestionUsed(t) \/ \E readable \in BOOLEAN : Backstop(t, readable)
  <2>1. /\ UNCHANGED <<picker, recorded, decided, deciding>> /\ expected' \subseteq expected
    BY <1>4 DEF OnQuestionUsed, Backstop, screenVars
  <2> QED
    BY <2>1 DEF AskOK, Asked
<1>5. ASSUME NEW d \in {"answer", "escalated"}, AskDecided(t, d)
      PROVE  AskOK' /\ \A u \in Tools : decided[u] # "none" => decided'[u] # "none"
  <2>1. /\ deciding[t] > 0 /\ deciding' = [deciding EXCEPT ![t] = @ - 1]
        /\ decided' = [decided EXCEPT ![t] = d] /\ recorded' = recorded
        /\ picker' = IF d = "escalated" /\ recorded[t] = "no" THEN t ELSE picker
        /\ expected' = expected \cup {t} \/ expected' = expected
    BY <1>5 DEF AskDecided, Reply
  <2>2. recorded[t] = "no" /\ decided'[t] # "none"
    BY <1>2, <2>1 DEF AskOK
  <2>3. \A u \in Tools : u # t => decided'[u] = decided[u] /\ deciding'[u] = deciding[u]
    BY <1>2, <2>1
  <2>4. \A u \in Tools : Asked(u)' => Asked(u)
    BY <2>1, <2>3 DEF Asked
  <2>5. \A u \in Tools : deciding'[u] > 0 => deciding[u] > 0
    BY <2>1, <2>3
  <2>6. \A u \in Tools : decided[u] # "none" => decided'[u] # "none"
    BY <2>2, <2>3
  <2>7. picker' # 0 => recorded[picker'] = "no" /\ decided'[picker'] # "none"
    BY <1>2, <2>1, <2>2, <2>6 DEF AskOK
  <2>8. \A u \in expected' : decided'[u] # "none"
    BY <1>2, <2>1, <2>2, <2>6 DEF AskOK
  <2> QED
    BY <2>1, <2>4, <2>5, <2>6, <2>7, <2>8 DEF AskOK
<1>6. ASSUME NEW how \in {"same", "other"}, AnswerRecorded(t, how)
      PROVE  AskOK' /\ decided' = decided
  <2>1. /\ deciding[t] = 0 /\ recorded' = [recorded EXCEPT ![t] = how]
        /\ UNCHANGED <<decided, deciding, expected>>
        /\ picker' = IF picker = t THEN 0 ELSE picker
    BY <1>6 DEF AnswerRecorded, askVars
  <2>2. recorded'[t] # "no" /\ \A u \in Tools : u # t => recorded'[u] = recorded[u]
    BY <1>2, <2>1
  <2> QED
    BY <1>2, <2>1, <2>2 DEF AskOK, Asked
<1>7. OnQuestionUsed(t) \/ (\E readable \in BOOLEAN : Backstop(t, readable)) => decided' = decided
  BY DEF OnQuestionUsed, Backstop
<1>8. OnAsk(t) => \A u \in Tools : decided[u] # "none" => decided'[u] # "none"
  BY <1>2 DEF OnAsk, Reply
<1> QED
  BY <1>1, <1>3, <1>4, <1>5, <1>6, <1>7, <1>8

\* Every step.
LEMMA AskKeeps ==
  ASSUME IInv, AskOK, VerifyOK, [Next]_vars
  PROVE  AskOK' /\ VerifyOK'
<1>1. CASE Main
  <2>1. UNCHANGED <<picker, recorded, decided, deciding, expected>>
    BY <1>1 DEF Main, Bind, Ground, Grounded, Approved, Serve, NextJob, Exit, ToMaster,
       MenuAnswered, OutOfBand, Contact, MarkState, Classify, Deliver, Reactivate, SendPrompt,
       Typed, TypingFails, VerifyRecorded, VerifyMissing, ReportFatal, Triaged, askVars, screenVars
  <2>2. {s \in StepType : s.op \notin AboutTool \cup {"pane_retract"}} \subseteq Verifiable
    BY DEF Verifiable, AboutTool
  <2>3. menu.id # 0 => Step("pane_retract", menu.id) \in Verifiable
    <3>1. menu.id # 0 => Step("pane_retract", menu.id) \in StepType
      BY StepTypes DEF AboutEscalation, IInv, TypeOK
    <3> QED
      BY <3>1 DEF Verifiable, Step
  <2>4. agenda' \in Seq(Verifiable) /\ jobs' \in Seq(Verifiable)
    BY <1>1, <2>2, <2>3, MainSteps DEF VerifyOK
  <2>5. Verifiable' = Verifiable
    BY <2>1 DEF Verifiable
  <2> QED
    BY <2>1, <2>4, <2>5, AskFrame DEF VerifyOK
<1>2. CASE Master \/ Questions \/ Session
  <2>1. AskOK' /\ \A t \in Tools : decided[t] # "none" => decided'[t] # "none"
    <3>1. CASE Master \/ Session
      <4>1. /\ UNCHANGED <<recorded, decided, deciding, expected>>
            /\ picker' = picker \/ picker' = 0
        BY <3>1 DEF Master, OnApprove, OnReactivate, OnSendPrompt, OnShutdown, OnDispatch,
           OnClarify, Clarified, Session, OnSessionStart, PaneInput, OnToolUsed,
           OnPermissionPrompt, OnStopFailure, OnSessionEnd, WatchdogExpires, OnPromptSubmitted,
           OnStop, askVars, screenVars
      <4> QED
        BY <4>1 DEF AskOK, Asked
    <3>2. CASE Questions
      BY <3>2, QuestionsAsk DEF IInv
    <3> QED
      BY <1>2, <3>1, <3>2
  <2>2. PICK q \in Seq(Queueable) : jobs' = jobs \o q
    BY <1>2, HandlersQueue DEF IInv
  <2>3. agenda' = agenda
    BY <1>2, HandlerFrame DEF IInv
  <2>4. Queueable \subseteq Verifiable'
    <3>1. \A s \in Queueable : s \in StepType /\ (s.op = "verify_missing" => s.arg \in expected)
      BY DEF Queueable, Job, AboutTool
    <3>2. \A t \in expected : decided'[t] # "none"
      BY <2>1 DEF AskOK, IInv, TypeOK
    <3> QED
      BY <3>1, <3>2 DEF Verifiable
  <2>5. Verifiable \subseteq Verifiable'
    <3>1. \A s \in StepType : s.op = "verify_missing" => s.arg \in Tools
      BY StepParts DEF AboutTool
    <3> QED
      BY <2>1, <3>1 DEF Verifiable
  <2>6. Seq(Queueable) \subseteq Seq(Verifiable') /\ Seq(Verifiable) \subseteq Seq(Verifiable')
    BY <2>4, <2>5, Gathered
  <2>7. jobs' \in Seq(Verifiable')
    <3>1. jobs \in Seq(Verifiable') /\ q \in Seq(Verifiable')
      BY <2>6 DEF VerifyOK
    <3> QED
      BY <2>2, <3>1, Gathered
  <2> QED
    BY <2>1, <2>3, <2>6, <2>7 DEF VerifyOK
<1>3. CASE UNCHANGED vars
  <2>1. UNCHANGED <<picker, recorded, decided, deciding, expected, agenda, jobs>>
    BY <1>3 DEF vars, mainVars, askVars, screenVars
  <2> QED
    BY <2>1, AskFrame DEF VerifyOK, Verifiable
<1> QED
  BY <1>1, <1>2, <1>3 DEF Next

\* A verification of another question than the one on screen is of an earlier one, which
\* has its answer on record.
LEMMA VerifiedEarlier ==
  ASSUME IInv, AskOK, VerifyOK, VerifyMissing, picker # 0, Arg # picker
  PROVE  recorded[Arg] # "no"
<1>1. agenda # << >> /\ agenda[1].op = "verify_missing" /\ 1 \in DOMAIN agenda
  BY DEF VerifyMissing, At, IInv, TypeOK
<1>2. agenda[1] \in Verifiable
  BY <1>1 DEF VerifyOK
<1>3. Arg \in Tools /\ decided[Arg] # "none"
  BY <1>1, <1>2, StepParts DEF Verifiable, Arg, AboutTool
<1>4. picker \in Tools /\ recorded[picker] = "no" /\ decided[picker] # "none"
  BY DEF AskOK, IInv, TypeOK
<1>5. ~(picker < Arg)
  BY <1>3, <1>4 DEF AskOK, Asked
<1>6. Tools \subseteq Nat
  BY BrokerAssumption DEF Tools
<1>7. Arg < picker
  BY <1>3, <1>4, <1>5, <1>6
<1> QED
  BY <1>3, <1>4, <1>7 DEF AskOK, Asked

\* How a claim can be lost, in a step.
ClaimLost == VerifyMissing /\ Arg # picker /\ recorded[Arg] # "no"

LEMMA ClaimKeeps ==
  ASSUME IInv, AskOK, VerifyOK, [Next]_vars, Unclaimed'
  PROVE  (Unclaimed /\ picker' = picker) \/ ClaimLost
<1>1. CASE Main
  <2>1. picker' = picker /\ (Live' => Live)
    BY <1>1 DEF Main, Bind, Ground, Grounded, Approved, Serve, NextJob, Exit, ToMaster,
       MenuAnswered, OutOfBand, Contact, MarkState, Classify, Deliver, Reactivate, SendPrompt,
       Typed, TypingFails, VerifyRecorded, VerifyMissing, ReportFatal, Triaged, screenVars,
       At, Live
  <2>2. CASE VerifyMissing
    <3>1. picker # 0 /\ menu'.tool # picker
      BY <2>1 DEF Unclaimed, PickerClaimed
    <3>2. menu'.tool = Arg
      BY <2>2 DEF VerifyMissing
    <3> QED
      BY <2>2, <3>1, <3>2, VerifiedEarlier DEF ClaimLost
  <2>3. CASE MenuAnswered
    <3> SUFFICES ASSUME PickerClaimed PROVE FALSE
      BY <2>1 DEF Unclaimed
    <3>1. picker # 0 /\ menu.tool = picker /\ recorded[picker] = "no"
      BY <2>1, <2>3 DEF MenuAnswered, At, Unclaimed, PickerClaimed, AskOK
    <3>2. menu' = menu
      BY <2>3, <3>1 DEF MenuAnswered
    <3> QED
      BY <2>1, <3>1, <3>2 DEF Unclaimed, PickerClaimed
  <2>4. CASE ~VerifyMissing /\ ~MenuAnswered
    <3>1. menu' = menu \/ menu' = DropRefused(agenda[1].arg)
      BY <1>1, <2>4 DEF Main, Bind, Ground, Grounded, Approved, Serve, NextJob, Exit, ToMaster,
         OutOfBand, Contact, MarkState, Classify, Deliver, Reactivate, SendPrompt,
         Typed, TypingFails, VerifyRecorded, ReportFatal, Triaged
    <3>2. menu'.tool = menu.tool
      BY <3>1 DEF DropRefused, IInv, TypeOK
    <3> QED
      BY <2>1, <3>2 DEF Unclaimed, PickerClaimed
  <2> QED
    BY <2>2, <2>3, <2>4
<1>2. CASE Questions
  <2>1. PICK t \in Tools :
          \/ OnAsk(t) \/ OnQuestionUsed(t)
          \/ \E d \in {"answer", "escalated"} : AskDecided(t, d)
          \/ \E how \in {"same", "other"} : AnswerRecorded(t, how)
          \/ \E readable \in BOOLEAN : Backstop(t, readable)
    BY <1>2 DEF Questions
  <2>2. life' = life /\ t \in Tools
    BY <2>1 DEF OnAsk, OnQuestionUsed, AskDecided, AnswerRecorded, Backstop, mainVars
  <2>3. CASE menu'.tool = t /\ picker' = t
    BY <2>3 DEF Unclaimed, PickerClaimed
  <2>4. CASE menu' = menu /\ picker' \in {picker, 0}
    BY <2>2, <2>4 DEF Unclaimed, PickerClaimed, Live
  <2>5. OnAsk(t) => (menu'.tool = t /\ picker' = t) \/ (menu' = menu /\ picker' = picker)
    BY DEF OnAsk, EscalateMenu, Reply
  <2>6. ASSUME NEW d \in {"answer", "escalated"}, AskDecided(t, d)
        PROVE  (menu'.tool = t /\ picker' = t) \/ (menu' = menu /\ picker' = picker)
    <3>1. recorded[t] = "no" /\ Reply(t, d)
      BY <2>2, <2>6 DEF AskDecided, AskOK
    <3>2. CASE d = "answer"
      BY <2>6, <3>1, <3>2 DEF AskDecided, Reply
    <3>3. CASE d = "escalated"
      BY <2>6, <3>1, <3>3 DEF AskDecided, EscalateMenu, Reply
    <3> QED
      BY <2>6, <3>2, <3>3
  <2>7. OnQuestionUsed(t) \/ (\E readable \in BOOLEAN : Backstop(t, readable))
          => menu' = menu /\ picker' = picker
    BY DEF OnQuestionUsed, Backstop, screenVars
  <2>8. (\E how \in {"same", "other"} : AnswerRecorded(t, how))
          => menu' = menu /\ picker' \in {picker, 0}
    BY DEF AnswerRecorded
  <2> QED
    BY <2>1, <2>3, <2>4, <2>5, <2>6, <2>7, <2>8
<1>3. CASE Master \/ Session
  <2>1. menu' = menu /\ life' = life /\ picker' \in {picker, 0}
    BY <1>3 DEF Master, OnApprove, OnReactivate, OnSendPrompt, OnShutdown, OnDispatch,
       OnClarify, Clarified, Session, OnSessionStart, PaneInput, OnToolUsed,
       OnPermissionPrompt, OnStopFailure, OnSessionEnd, WatchdogExpires, OnPromptSubmitted,
       OnStop, mainVars, screenVars
  <2> QED
    BY <2>1 DEF Unclaimed, PickerClaimed, Live
<1>4. CASE UNCHANGED vars
  BY <1>4 DEF vars, mainVars, screenVars, Unclaimed, PickerClaimed, Live
<1> QED
  BY <1>1, <1>2, <1>3, <1>4 DEF Next

\* The claim of the menu on screen is lost to nothing but the late verification of an
\* older question, whose answer is on record: not to a duplicate hook, a refused raise, a
\* check that runs late, or a replaced menu's withdrawal.
THEOREM ClaimIsKept == Spec => ClaimKept
<1>1. Init => AskOK /\ VerifyOK
  <2> SUFFICES ASSUME Init PROVE AskOK /\ VerifyOK
    OBVIOUS
  <2>1. AskOK
    BY DEF Init, AskOK, Asked
  <2>2. agenda \in Seq(Verifiable)
    <3>1. PICK k \in Launches : agenda = LaunchAgenda(k)
      BY DEF Init
    <3>2. Step("bind", 0) \in Verifiable /\ Step("ground", 0) \in Verifiable
          /\ Step("serve", 0) \in Verifiable
      <4>1. \A o \in {"bind", "ground", "serve"} : Step(o, 0) \in StepType
        BY StepTypes, PlainOps
      <4> QED
        BY <4>1 DEF Verifiable, Step
    <3> QED
      BY <3>1, <3>2 DEF LaunchAgenda
  <2> QED
    BY <2>1, <2>2, Gathered DEF Init, VerifyOK
<1>2. IInv /\ AskOK /\ VerifyOK /\ [Next]_vars => AskOK' /\ VerifyOK'
  BY AskKeeps
<1>3. IInv /\ AskOK /\ VerifyOK /\ [Next]_vars
        => [Unclaimed' => (Unclaimed /\ picker' = picker) \/ ClaimLost]_vars
  BY ClaimKeeps
<1>4. [][Unclaimed' => (Unclaimed /\ picker' = picker) \/ ClaimLost]_vars => ClaimKept
  BY PTL DEF ClaimKept, ClaimLost
<1> QED
  BY <1>1, <1>2, <1>3, <1>4, Inductive, PTL DEF Spec


-----------------------------------------------------------------------------
(* The end of a session.                                                   *)

Foremost(o) == agenda # << >> /\ agenda[1].op = o

\* The report of a failure is all that is left, in a session marked as failed or ended;
\* the report of the end is followed by the exit.
Going  == {s \in StepType : s.op \notin {"fatal_error", "session_ended"}}
EndsOK ==
  \/ agenda \in Seq(Going) \/ Closing
  \/ /\ agenda = <<Step("fatal_error", 0)>> \/ agenda = <<Step("fatal_error", 0), Step("exit", 0)>>
     /\ state \in {"error", "stopped"}

\* An ended session leaves the broker the job that ends it.
StoppedOK ==
  state = "stopped" =>
    \/ life = "exited" \/ Foremost("session_ended") \/ Foremost("exit")
    \/ \E i \in DOMAIN jobs : jobs[i].op = "session_end"

Orderly == EndsOK /\ StoppedOK

\* What follows the two reports.
LEMMA EndSteps ==
  ASSUME Orderly, agenda # << >>
  PROVE  /\ agenda[1].op = "fatal_error" =>
              /\ state \in {"error", "stopped"}
              /\ Rest = << >> \/ Rest = <<Step("exit", 0)>>
         /\ agenda[1].op = "session_ended" => Rest = <<Step("exit", 0)>>
<1>1. CASE agenda \in Seq(Going)
  <2>1. agenda[1] \in Going
    BY <1>1, Gathered
  <2> QED
    BY <2>1 DEF Going
<1>2. CASE agenda \notin Seq(Going)
  <2> DEFINE s == Step("session_ended", 0)  f == Step("fatal_error", 0)  x == Step("exit", 0)
  <2>1. s.op = "session_ended" /\ f.op = "fatal_error"
    BY DEF Step
  <2>2. CASE agenda = <<s, x>>
    BY <2>1, <2>2 DEF Rest
  <2>3. CASE (agenda = <<f>> \/ agenda = <<f, x>>) /\ state \in {"error", "stopped"}
    <3>1. Tail(<<f>>) = << >> /\ Tail(<<f, x>>) = <<x>>
      OBVIOUS
    <3>2. Rest = << >> \/ Rest = <<x>>
      BY <2>3, <3>1 DEF Rest
    <3>3. agenda[1] = f
      BY <2>3
    <3> QED
      BY <2>1, <2>3, <3>2, <3>3
  <2> QED
    BY <1>2, <2>2, <2>3 DEF Orderly, EndsOK, Closing
<1> QED
  BY <1>1, <1>2

\* The job of the end stays in the queue until it is taken.
LEMMA StoppedMain ==
  ASSUME IInv, Orderly, Main
  PROVE  StoppedOK'
<1> SUFFICES ASSUME state' = "stopped"
             PROVE  \/ life' = "exited" \/ Foremost("session_ended")' \/ Foremost("exit")'
                    \/ \E i \in DOMAIN jobs' : jobs'[i].op = "session_end"
  BY DEF StoppedOK
<1>1. state = "stopped"
  BY DEF Main, Bind, Ground, Grounded, Approved, Serve, NextJob, Exit, ToMaster, MenuAnswered,
     OutOfBand, Contact, MarkState, Classify, Deliver, Reactivate, SendPrompt, Typed,
     TypingFails, VerifyRecorded, VerifyMissing, ReportFatal, Triaged, Fatal, Raise
<1>2. jobs \in Seq(Job)
  BY DEF IInv, JobsOK
<1>3. CASE NextJob
  <2>1. CASE life' # "exited"
    <3>1. /\ life = "serving" /\ agenda = << >> /\ jobs # << >>
          /\ agenda' = Steps(jobs[1]) /\ jobs' = Tail(jobs)
      BY <1>3, <2>1 DEF NextJob
    <3>2. PICK i \in DOMAIN jobs : jobs[i].op = "session_end"
      BY <1>1, <3>1 DEF Orderly, StoppedOK, Foremost
    <3>3. CASE i = 1
      <4>1. agenda' = <<Step("session_ended", 0), Step("exit", 0)>>
        BY <3>1, <3>2, <3>3 DEF Steps
      <4> QED
        BY <4>1 DEF Foremost, Step
    <3>4. CASE i # 1
      <4>1. i - 1 \in DOMAIN jobs' /\ jobs'[i - 1] = jobs[i]
        BY <1>2, <3>1, <3>4
      <4> QED
        BY <3>2, <4>1
    <3> QED
      BY <3>3, <3>4
  <2> QED
    BY <2>1
<1>4. CASE Exit
  BY <1>4 DEF Exit
<1>5. CASE ToMaster
  <2>1. jobs' = jobs /\ life # "exited" /\ agenda # << >> /\ ~Foremost("exit")
    BY <1>5 DEF ToMaster, Live, Foremost, Messages
  <2>2. ASSUME Foremost("session_ended") PROVE Foremost("exit")'
    <3>1. agenda' = Rest
      BY <1>5, <2>2 DEF ToMaster, Foremost
    <3>2. agenda' = <<Step("exit", 0)>>
      BY <2>1, <2>2, <3>1, EndSteps DEF Foremost
    <3> QED
      BY <3>2 DEF Foremost, Step
  <2> QED
    BY <1>1, <2>1, <2>2 DEF Orderly, StoppedOK
<1>6. CASE ~NextJob /\ ~Exit /\ ~ToMaster
  <2>1. jobs' = jobs \/ jobs' = jobs \o Superseded
    BY <1>6 DEF Main, Bind, Ground, Grounded, Approved, Serve, MenuAnswered, OutOfBand,
                Contact, MarkState, Classify, Deliver, Reactivate, SendPrompt, Typed, TypingFails,
                VerifyRecorded, VerifyMissing, ReportFatal, Triaged
  <2>2. Superseded \in Seq(StepType) /\ jobs \in Seq(StepType)
    BY SupersededType DEF IInv, TypeOK
  <2>3. \A i \in DOMAIN jobs : i \in DOMAIN jobs' /\ jobs'[i] = jobs[i]
    BY <2>1, <2>2
  <2>4. life # "exited" /\ ~Foremost("exit") /\ ~Foremost("session_ended")
    BY <1>6 DEF Main, Bind, Ground, Grounded, Approved, Serve, MenuAnswered, OutOfBand,
                Contact, MarkState, Classify, Deliver, Reactivate, SendPrompt, Typed, TypingFails,
                VerifyRecorded, VerifyMissing, ReportFatal, Reads, Triaged, At, Live, Foremost,
                Typings
  <2> QED
    BY <1>1, <2>3, <2>4 DEF Orderly, StoppedOK
<1> QED
  BY <1>3, <1>4, <1>5, <1>6

\* Nothing but a failure and a job of its own leads to the two reports.
LEMMA EndsMain ==
  ASSUME IInv, Orderly, Main
  PROVE  EndsOK'
<1>1. CASE agenda \in Seq(Going)
  <2>1. jobs \in Seq(Going)
    <3>1. Job \subseteq Going
      BY DEF Job, JobOps, Going
    <3> QED
      BY <3>1, Gathered DEF IInv, JobsOK
  <2>2. {s \in StepType : s.op \notin Posted \cup Ending} \subseteq Going
    BY DEF Going, Ending
  <2>3. menu.id # 0 => Step("pane_retract", menu.id) \in Going
    <3>1. menu.id # 0 => Step("pane_retract", menu.id) \in StepType
      BY StepTypes DEF AboutEscalation, IInv, TypeOK
    <3> QED
      BY <3>1 DEF Going, Step
  <2>4. agenda' \in Seq(Going) \/ Fatal \/ Closing'
    BY <1>1, <2>1, <2>2, <2>3, OtherSteps
  <2> QED
    BY <2>4 DEF EndsOK, Fatal, Going
<1>2. CASE agenda \notin Seq(Going)
  <2>1. /\ agenda # << >> /\ agenda[1].op \in {"fatal_error", "session_ended"}
    BY <1>2 DEF Orderly, EndsOK, Closing, Step
  <2>2. ToMaster
    BY <2>1 DEF Main, Bind, Ground, Grounded, Approved, Serve, NextJob, Exit, MenuAnswered,
       OutOfBand, Contact, MarkState, Classify, Deliver, Reactivate, SendPrompt, Typed,
       TypingFails, VerifyRecorded, VerifyMissing, ReportFatal, Reads, Triaged, At, Typings
  <2>3. agenda' = Rest
    BY <2>1, <2>2 DEF ToMaster
  <2>4. agenda' = << >> \/ agenda' = <<Step("exit", 0)>>
    BY <2>1, <2>3, EndSteps
  <2>5. Step("exit", 0) \in Going
    <3>1. Step("exit", 0) \in StepType
      BY StepTypes, PlainOps
    <3> QED
      BY <3>1 DEF Going, Step
  <2>6. << >> \in Seq(Going) /\ <<Step("exit", 0)>> \in Seq(Going)
    BY <2>5, Gathered
  <2> QED
    BY <2>4, <2>6 DEF EndsOK, Going
<1> QED
  BY <1>1, <1>2

\* Every step.
LEMMA OrderlyKeeps ==
  ASSUME IInv, Orderly, [Next]_vars
  PROVE  Orderly'
<1>1. CASE Main
  BY <1>1, StoppedMain, EndsMain DEF Orderly
<1>2. CASE Master \/ Questions \/ Session
  <2>1. /\ UNCHANGED <<life, agenda>>
        /\ \/ state' = state \/ state' = "stopped"
           \/ state = "completed" /\ state' = "grounding"
    BY <1>2, HandlerFrame DEF IInv
  <2>2. EndsOK'
    BY <2>1 DEF Orderly, EndsOK, Going, Closing
  <2>3. PICK q \in Seq(Queueable) :
          /\ jobs' = jobs \o q
          /\ state' = "stopped" /\ state # "stopped" => q = <<Step("session_end", 0)>>
    BY <1>2, HandlersQueue DEF IInv
  <2>4. jobs \in Seq(Job) /\ q \in Seq(Job)
    BY Gathered DEF Queueable, IInv, JobsOK
  <2>5. StoppedOK'
    <3>1. CASE q = <<Step("session_end", 0)>>
      <4>1. Len(jobs') \in DOMAIN jobs' /\ jobs'[Len(jobs')] = Step("session_end", 0)
        BY <2>3, <2>4, <3>1
      <4>2. jobs'[Len(jobs')].op = "session_end"
        BY <4>1 DEF Step
      <4> QED
        BY <4>1, <4>2 DEF StoppedOK
    <3>2. CASE q # <<Step("session_end", 0)>>
      <4>1. \A i \in DOMAIN jobs : i \in DOMAIN jobs' /\ jobs'[i] = jobs[i]
        BY <2>3, <2>4
      <4>2. StoppedOK /\ (state' = "stopped" => state = "stopped")
        BY <2>1, <2>3, <3>2 DEF Orderly
      <4> QED
        BY <2>1, <4>1, <4>2 DEF StoppedOK, Foremost
    <3> QED
      BY <3>1, <3>2
  <2> QED
    BY <2>2, <2>5 DEF Orderly
<1>3. CASE UNCHANGED vars
  <2>1. UNCHANGED <<life, jobs, agenda, state>>
    BY <1>3 DEF vars, mainVars
  <2> QED
    BY <2>1 DEF Orderly, EndsOK, StoppedOK, Closing, Going, Foremost
<1> QED
  BY <1>1, <1>2, <1>3 DEF Next

\* The reports of the end keep their order.
LEMMA AlwaysOrderly == Spec => []Orderly
<1>1. Init => Orderly
  <2> SUFFICES ASSUME Init PROVE Orderly
    OBVIOUS
  <2>1. PICK k \in Launches : agenda = LaunchAgenda(k) /\ state = LaunchState(k)
    BY DEF Init
  <2>2. /\ Step("bind", 0) \in Going /\ Step("ground", 0) \in Going
        /\ Step("serve", 0) \in Going
    <3>1. \A o \in {"bind", "ground", "serve"} : Step(o, 0) \in StepType
      BY StepTypes, PlainOps
    <3> QED
      BY <3>1 DEF Going, Step
  <2>3. agenda \in Seq(Going)
    BY <2>1, <2>2 DEF LaunchAgenda
  <2>4. state # "stopped"
    BY <2>1 DEF LaunchState
  <2> QED
    BY <2>3, <2>4 DEF Orderly, EndsOK, StoppedOK
<1>2. IInv /\ Orderly /\ [Next]_vars => Orderly'
  BY OrderlyKeeps
<1> QED
  BY <1>1, <1>2, Inductive, PTL DEF Spec

-----------------------------------------------------------------------------
(* The question of the claimed menu.                                       *)

\* A withdrawal is of a menu claimed before the present one.
Withdrawable == {s \in StepType : s.op = "pane_retract" => s.arg # menu.id /\ s.arg < nextId}
RetractOK    == /\ menu.id < nextId
                /\ agenda \in Seq(Withdrawable) /\ jobs \in Seq(Withdrawable)

\* The question waits to be raised, or is being raised.
Raised(id) ==
  \/ \E i \in DOMAIN jobs : jobs[i] = Step("pane_escalation", id)
  \/ agenda # << >> /\ agenda[1] = Step("pane_escalation", id)

\* The session failed, and nothing is on its way that would set it going.
Moving   == NeedsResolved \cup {"type_prompt", "type_decision"}
Still    == {s \in StepType : s.op \notin Moving}
Fallen   == state \in {"error", "stopped"} \/ (state = "escalated" /\ ~baselined)
Stranded == Fallen /\ agenda \in Seq(Still)

\* A completed session is given a new task: the open menu fails it.
Regrounding ==
  \/ agenda = <<Step("budget_update", 0), Step("ground", 0)>>
  \/ agenda = <<Step("ground", 0)>> \/ agenda = <<Step("grounding", 0)>>
  \/ agenda = <<Step("prompt_proposal", 0), Step("approval", 0)>>
  \/ agenda = <<Step("approval", 0)>>

\* The master has it, or will; or the session failed, ended or is about to fail.
Accounted(id) ==
  \/ id \in heldQuestions \/ Raised(id) \/ Stranded \/ Regrounding
  \/ life = "exited" \/ Foremost("exit")
QuestionOK == menu.id # 0 => Accounted(menu.id)

\* How the claim changes in handlers.
LEMMA HandlerMenu ==
  ASSUME TypeOK, Master \/ Questions \/ Session
  PROVE  \/ menu' = menu
         \/ menu'.id = 0
         \/ /\ menu'.id = nextId /\ nextId' = nextId + 1
            /\ \E i \in DOMAIN jobs' : jobs'[i] = Step("pane_escalation", nextId)
<1>1. CASE Master \/ Session
  BY <1>1 DEF Master, OnApprove, OnReactivate, OnSendPrompt, OnShutdown, OnDispatch,
       OnClarify, Clarified, Session, OnSessionStart, PaneInput, OnToolUsed,
       OnPermissionPrompt, OnStopFailure, OnSessionEnd, WatchdogExpires, OnPromptSubmitted,
       OnStop
<1>2. CASE Questions
  <2>1. \/ menu' = menu \/ menu'.id = 0
        \/ \E t \in Tools : EscalateMenu(t)
    BY <1>2 DEF Questions, OnAsk, OnQuestionUsed, AskDecided, AnswerRecorded, Backstop
  <2>2. ASSUME NEW t \in Tools, EscalateMenu(t)
        PROVE  /\ menu'.id = nextId /\ nextId' = nextId + 1
               /\ \E i \in DOMAIN jobs' : jobs'[i] = Step("pane_escalation", nextId)
    <3> DEFINE s == Step("pane_escalation", nextId)
               q == jobs \o Superseded
    <3>1. jobs' = q \o <<s>> /\ menu'.id = nextId /\ nextId' = nextId + 1
      BY <2>2 DEF EscalateMenu
    <3>2. q \in Seq(StepType) /\ s \in StepType
      <4>1. nextId \in Ids
        BY <2>2, QueuedJobs DEF EscalateMenu
      <4>2. Superseded \in Seq(StepType) /\ jobs \in Seq(StepType)
        BY SupersededType DEF TypeOK
      <4> QED
        BY <4>1, <4>2, StepTypes, Sequences DEF AboutEscalation
    <3> HIDE DEF q, s
    <3>3. Len(q) + 1 \in DOMAIN jobs' /\ jobs'[Len(q) + 1] = s
      BY <3>1, <3>2
    <3> QED
      BY <3>1, <3>3 DEF s
  <2> QED
    BY <2>1, <2>2
<1> QED
  BY <1>1, <1>2

\* What the main task does to the claim.
LEMMA MainMenu ==
  ASSUME IInv, Main
  PROVE  /\ nextId' >= nextId
         /\ \/ menu' = menu
            \/ menu'.id = 0
            \/ VerifyMissing /\ menu'.id = nextId /\ nextId' = nextId + 1
<1>1. nextId \in Nat
  BY DEF IInv, TypeOK
<1>2. nextId' = nextId \/ nextId' = nextId + 1
  BY DEF Main, Bind, Ground, Grounded, Approved, Serve, NextJob, Exit, ToMaster, MenuAnswered,
     OutOfBand, Contact, MarkState, Classify, Deliver, Reactivate, SendPrompt, Typed,
     TypingFails, VerifyRecorded, VerifyMissing, ReportFatal, Triaged, Raise
<1>3. CASE VerifyMissing
  BY <1>1, <1>3 DEF VerifyMissing
<1>4. CASE ~VerifyMissing
  <2>1. menu' = menu \/ menu' = DropRefused(agenda[1].arg) \/ menu' = NoMenu
    BY <1>4 DEF Main, Bind, Ground, Grounded, Approved, Serve, NextJob, Exit, ToMaster,
       MenuAnswered, OutOfBand, Contact, MarkState, Classify, Deliver, Reactivate, SendPrompt,
       Typed, TypingFails, VerifyRecorded, ReportFatal, Triaged
  <2>2. menu' = menu \/ menu'.id = 0
    BY <2>1 DEF DropRefused, NoMenu, IInv, TypeOK
  <2> QED
    BY <1>1, <1>2, <2>2
<1> QED
  BY <1>3, <1>4

\* Withdrawals stay behind the claim.
LEMMA RetractKeeps ==
  ASSUME IInv, RetractOK, [Next]_vars
  PROVE  RetractOK'
<1>1. menu.id \in Nat /\ nextId \in Nat /\ nextId # 0 /\ nextId' \in Nat /\ 0 \notin Ids
  <2>1. TypeOK'
    BY NextType DEF IInv
  <2> QED
    BY <2>1, BrokerAssumption DEF IInv, TypeOK, Ids
<1>2. \A s \in StepType : s.op = "pane_retract" => s.arg \in Ids /\ s.arg \in Nat
  BY StepParts DEF AboutEscalation
<1>3. ASSUME nextId' >= nextId,
             menu' = menu \/ menu'.id = 0 \/ (menu'.id = nextId /\ nextId' = nextId + 1)
      PROVE  /\ menu'.id < nextId' /\ Withdrawable \subseteq Withdrawable'
             /\ menu.id # 0 /\ menu'.id \in {0, nextId}
                  => Step("pane_retract", menu.id) \in Withdrawable'
  <2>1. menu'.id < nextId'
    BY <1>1, <1>3 DEF RetractOK
  <2>2. Withdrawable \subseteq Withdrawable'
    BY <1>1, <1>2, <1>3 DEF Withdrawable
  <2>3. ASSUME menu.id # 0, menu'.id \in {0, nextId}
        PROVE  Step("pane_retract", menu.id) \in Withdrawable'
    <3>1. menu.id \in Ids /\ menu.id # menu'.id /\ menu.id < nextId'
      BY <1>1, <1>3, <2>3 DEF RetractOK, IInv, TypeOK
    <3>2. Step("pane_retract", menu.id) \in StepType
      BY <3>1, StepTypes DEF AboutEscalation
    <3> QED
      BY <3>1, <3>2 DEF Withdrawable, Step
  <2> QED
    BY <2>1, <2>2, <2>3
<1>4. \A S : Withdrawable \subseteq S => agenda \in Seq(S) /\ jobs \in Seq(S)
  BY Gathered DEF RetractOK
<1>5. CASE Main
  <2>1. /\ menu'.id < nextId' /\ Withdrawable \subseteq Withdrawable'
        /\ menu.id # 0 /\ menu'.id \in {0, nextId}
                  => Step("pane_retract", menu.id) \in Withdrawable'
    BY <1>3, <1>5, MainMenu
  <2>2. {s \in StepType : s.op \notin AboutTool \cup {"pane_retract"}} \subseteq Withdrawable'
    BY DEF Withdrawable
  <2>3. agenda' \in Seq(Withdrawable') /\ jobs' \in Seq(Withdrawable')
    BY <1>4, <1>5, <2>1, <2>2, MainSteps
  <2> QED
    BY <2>1, <2>3 DEF RetractOK
<1>6. CASE Master \/ Questions \/ Session
  <2>1. /\ menu'.id < nextId' /\ Withdrawable \subseteq Withdrawable'
        /\ menu.id # 0 /\ menu'.id \in {0, nextId}
                  => Step("pane_retract", menu.id) \in Withdrawable'
    <3>1. nextId' >= nextId
      BY <1>6, HandlerFrame DEF IInv
    <3>2. menu' = menu \/ menu'.id = 0 \/ (menu'.id = nextId /\ nextId' = nextId + 1)
      BY <1>6, HandlerMenu DEF IInv
    <3> QED
      BY <1>3, <3>1, <3>2
  <2>2. PICK q \in Seq(Queueable) :
          jobs' = jobs \o q /\ (q \in Seq(Lasting) \/ menu'.id \in {0, nextId})
    BY <1>6, HandlersQueue DEF IInv
  <2>3. Lasting \subseteq Withdrawable'
    BY DEF Lasting, Queueable, Job, Withdrawable
  <2>4. menu'.id \in {0, nextId} => Queueable \subseteq Withdrawable'
    <3>1. ASSUME menu'.id \in {0, nextId}, NEW s \in Queueable, s.op = "pane_retract"
          PROVE  s.arg # menu'.id /\ s.arg < nextId'
      <4>1. s \in StepType /\ s.arg = menu.id
        BY <3>1 DEF Queueable, Job
      <4>2. menu.id \in Ids
        BY <1>2, <3>1, <4>1
      <4>3. menu.id # 0 /\ menu.id < nextId
        BY <1>1, <4>2 DEF RetractOK
      <4>4. nextId' >= nextId
        BY <1>6, HandlerFrame DEF IInv
      <4> QED
        BY <1>1, <3>1, <4>1, <4>3, <4>4
    <3> QED
      BY <3>1 DEF Withdrawable, Queueable, Job
  <2>5. q \in Seq(Withdrawable') /\ jobs \in Seq(Withdrawable') /\ agenda \in Seq(Withdrawable')
    BY <1>4, <2>1, <2>2, <2>3, <2>4, Gathered
  <2>6. jobs' \in Seq(Withdrawable')
    BY <2>2, <2>5, Gathered
  <2>7. agenda' = agenda
    BY <1>6, HandlerFrame DEF IInv
  <2> QED
    BY <2>1, <2>5, <2>6, <2>7 DEF RetractOK
<1>7. CASE UNCHANGED vars
  <2>1. UNCHANGED <<menu, nextId, agenda, jobs>>
    BY <1>7 DEF vars, mainVars
  <2> QED
    BY <2>1 DEF RetractOK, Withdrawable
<1> QED
  BY <1>5, <1>6, <1>7 DEF Next

\* Handlers: a claimed menu's question is queued with the claim.
LEMMA HandlersAccount ==
  ASSUME IInv, QuestionOK, Master \/ Questions \/ Session
  PROVE  QuestionOK'
<1>1. /\ UNCHANGED <<life, agenda, baselined, heldQuestions>>
      /\ state' = state \/ state' = "stopped" \/ state = "completed"
  BY HandlerFrame DEF IInv
<1>2. CASE menu' = menu
  <2> SUFFICES ASSUME menu.id # 0, Accounted(menu.id) PROVE Accounted(menu.id)'
    BY <1>2 DEF QuestionOK
  <2>1. Raised(menu.id) => Raised(menu.id)'
    <3>1. PICK q \in Seq(Queueable) : jobs' = jobs \o q
      BY HandlersQueue DEF IInv
    <3>2. jobs \in Seq(Job) /\ q \in Seq(Job)
      BY Gathered DEF IInv, JobsOK, Queueable
    <3>3. \A i \in DOMAIN jobs : i \in DOMAIN jobs' /\ jobs'[i] = jobs[i]
      BY <3>1, <3>2
    <3> QED
      BY <1>1, <1>2, <3>3 DEF Raised
  <2>2. Stranded => Stranded'
    BY <1>1 DEF Stranded, Fallen, Still
  <2> QED
    BY <1>1, <1>2, <2>1, <2>2 DEF Accounted, Foremost, Regrounding
<1>3. CASE menu'.id = 0
  BY <1>3 DEF QuestionOK
<1>4. ASSUME menu'.id = nextId, NEW i \in DOMAIN jobs', jobs'[i] = Step("pane_escalation", nextId)
      PROVE  QuestionOK'
  BY <1>4 DEF QuestionOK, Accounted, Raised
<1> QED
  BY <1>2, <1>3, <1>4, HandlerMenu DEF IInv

\* _fatal, and _launch's way out.
LEMMA FatalStrands ==
  ASSUME Fatal
  PROVE  Stranded'
<1>1. Step("fatal_error", 0) \in Still /\ Step("exit", 0) \in Still
  <2>1. Step("fatal_error", 0) \in StepType /\ Step("exit", 0) \in StepType
    BY StepTypes, PlainOps
  <2> QED
    BY <2>1 DEF Still, Moving, NeedsResolved, Step
<1>2. agenda' \in Seq(Still)
  BY <1>1, Gathered DEF Fatal
<1> QED
  BY <1>2 DEF Fatal, Stranded, Fallen, Still

\* A stranded session is set going by nothing the main task still does: its pane is
\* taken, its escalation was counted against no prompt.
LEMMA StaysStranded ==
  ASSUME IInv, Main, Stranded, menu.id # 0, ~ToMaster, ~NextJob, ~Exit, ~VerifyMissing
  PROVE  Stranded' \/ Regrounding' \/ menu'.id = 0
<1>1. agenda # << >> /\ agenda[1].op \notin Moving /\ Occupied /\ 1 \in DOMAIN agenda
  <2>1. agenda # << >>
    BY DEF Main, Bind, Ground, Grounded, Approved, Serve, NextJob, Exit, ToMaster, MenuAnswered,
       OutOfBand, Contact, MarkState, Classify, Deliver, Reactivate, SendPrompt, Typed,
       TypingFails, VerifyRecorded, VerifyMissing, ReportFatal, Reads, Triaged, At
  <2>2. agenda[1] \in Still
    BY <2>1, Gathered DEF Stranded
  <2>3. 1 \in DOMAIN agenda
    BY <2>1 DEF IInv, TypeOK
  <2>4. Occupied
    BY DEF Occupied, NoMenu
  <2> QED
    BY <2>1, <2>2, <2>3, <2>4 DEF Still
<1>2. Rest \in Seq(Still) /\ Still' = Still
  BY <1>1, Gathered DEF Stranded, Rest, Still
<1>3. ~Bind /\ ~Ground /\ ~Grounded /\ ~Approved /\ ~MarkState /\ ~Typed /\ ~TypingFails
      /\ (\A v \in Verdicts : ~Triaged(v))
  BY <1>1 DEF Bind, Ground, Grounded, Approved, MarkState, Typed, TypingFails, Triaged, At,
     Moving, NeedsResolved, Typings
<1>4. CASE Serve \/ OutOfBand \/ Classify
  <2>1. agenda' = Rest /\ state' = state /\ baselined' = baselined
    BY <1>4 DEF Serve, OutOfBand, Classify, MayClassify, ACTIVE_STATES, Stranded, Fallen, escVars
  <2> QED
    BY <1>2, <2>1 DEF Stranded, Fallen
<1>5. CASE MenuAnswered
  <2>1. NoMenu.id = 0
    BY DEF NoMenu
  <2>2. menu' = NoMenu \/ (agenda' = Rest /\ state' = state /\ baselined' = baselined)
    BY <1>5 DEF MenuAnswered, escVars
  <2> QED
    BY <1>2, <2>1, <2>2 DEF Stranded, Fallen
<1>6. CASE Contact
  <2>1. /\ agenda' = <<Step("budget_update", 0)>> \o Rest /\ state' = state
        /\ baselined' = baselined
    BY <1>1, <1>6 DEF Contact, At, Moving, NeedsResolved, escVars
  <2>2. Step("budget_update", 0) \in Still
    <3>1. Step("budget_update", 0) \in StepType
      BY StepTypes, PlainOps
    <3> QED
      BY <3>1 DEF Still, Moving, NeedsResolved, Step
  <2>3. agenda' \in Seq(Still)
    BY <1>2, <2>1, <2>2, Gathered
  <2> QED
    BY <1>2, <2>1, <2>3 DEF Stranded, Fallen
<1>7. CASE Deliver \/ SendPrompt
  <2>1. /\ state' = state /\ baselined' = baselined
        /\ \E o \in {"undelivered_gone", "undelivered_live", "prompt_undelivered"}, n \in {0, Arg} :
             agenda' = <<Step(o, n)>>
    BY <1>1, <1>7 DEF Deliver, SendPrompt, ReportGone, escVars
  <2>2. TypeOK'
    BY NextType DEF IInv, Next
  <2>3. agenda' \in Seq(Still)
    <3>1. PICK o \in {"undelivered_gone", "undelivered_live", "prompt_undelivered"}, n \in {0, Arg} :
            agenda' = <<Step(o, n)>>
      BY <2>1
    <3>2. Step(o, n) \in StepType
      BY <2>2, <3>1, Gathered DEF TypeOK
    <3>3. Step(o, n).op \notin Moving
      BY DEF Step, Moving, NeedsResolved
    <3>4. Step(o, n) \in Still
      BY <3>2, <3>3 DEF Still
    <3> QED
      BY <3>1, <3>4, Gathered
  <2> QED
    BY <1>2, <2>1, <2>3 DEF Stranded, Fallen
<1>8. CASE VerifyRecorded
  <2>1. /\ state' = "escalated" /\ baselined' = FALSE
        /\ agenda' = <<Step("escalation", nextId)>>
    BY <1>8 DEF VerifyRecorded, Raise
  <2>2. TypeOK'
    BY NextType DEF IInv, Next
  <2>3. Step("escalation", nextId) \in StepType
    BY <2>1, <2>2, Gathered DEF TypeOK
  <2>4. Step("escalation", nextId) \in Still
    BY <2>3 DEF Still, Step, Moving, NeedsResolved
  <2>5. agenda' \in Seq(Still)
    BY <2>1, <2>4, Gathered
  <2> QED
    BY <1>2, <2>1, <2>5 DEF Stranded, Fallen
<1>9. CASE ReportFatal
  BY <1>9, FatalStrands DEF ReportFatal
<1>10. CASE Reactivate
  BY <1>10 DEF Reactivate, Regrounding
<1> QED
  BY <1>3, <1>4, <1>5, <1>6, <1>7, <1>8, <1>9, <1>10 DEF Main

\* A new task goes on to its approval, where the open menu fails it.
LEMMA StaysRegrounding ==
  ASSUME IInv, Main, Regrounding, menu.id # 0
  PROVE  ~Fatal => Regrounding'
<1> DEFINE b == Step("budget_update", 0)    g == Step("ground", 0)
           c == Step("grounding", 0)        p == Step("prompt_proposal", 0)
           a == Step("approval", 0)
<1>1. /\ b.op = "budget_update" /\ g.op = "ground" /\ c.op = "grounding"
      /\ p.op = "prompt_proposal" /\ a.op = "approval"
  BY DEF Step
<1>2. Occupied
  BY DEF Occupied, NoMenu
<1>3. \/ agenda = <<b, g>> \/ agenda = <<g>> \/ agenda = <<c>> \/ agenda = <<p, a>>
      \/ agenda = <<a>>
  BY DEF Regrounding
<1> SUFFICES ASSUME ~Fatal
             PROVE  \/ agenda' = <<b, g>> \/ agenda' = <<g>> \/ agenda' = <<c>>
                    \/ agenda' = <<p, a>> \/ agenda' = <<a>>
  BY DEF Regrounding
<1> HIDE DEF b, g, c, p, a
<1>4. agenda # << >> /\ agenda[1] \in {b, g, c, p, a}
  BY <1>3
<1>5. CASE agenda[1] = b \/ agenda[1] = p
  <2>1. ToMaster
    BY <1>1, <1>4, <1>5 DEF Main, Bind, Ground, Grounded, Approved, Serve, NextJob, Exit,
       MenuAnswered, OutOfBand, Contact, MarkState, Classify, Deliver, Reactivate, SendPrompt,
       Typed, TypingFails, VerifyRecorded, VerifyMissing, ReportFatal, Triaged, At, Typings
  <2>2. agenda' = Rest
    BY <1>1, <1>5, <2>1 DEF ToMaster
  <2>3. Tail(<<b, g>>) = <<g>> /\ Tail(<<p, a>>) = <<a>>
    OBVIOUS
  <2>4. agenda = <<b, g>> \/ agenda = <<p, a>>
    BY <1>1, <1>3, <1>5
  <2> QED
    BY <2>2, <2>3, <2>4 DEF Rest
<1>6. CASE agenda[1] \in {g, c, a}
  <2>1. agenda = <<g>> \/ agenda = <<c>> \/ agenda = <<a>>
    BY <1>1, <1>3, <1>6
  <2>2. Rest = << >>
    <3>1. Tail(<<g>>) = << >> /\ Tail(<<c>>) = << >> /\ Tail(<<a>>) = << >>
      OBVIOUS
    <3> QED
      BY <2>1, <3>1 DEF Rest
  <2>3. Ground \/ Grounded \/ Approved
    BY <1>1, <1>4, <1>6 DEF Main, Bind, Serve, NextJob, Exit, ToMaster, Messages,
       MenuAnswered, OutOfBand, Contact, MarkState, Classify, Deliver, Reactivate, SendPrompt,
       Typed, TypingFails, VerifyRecorded, VerifyMissing, ReportFatal, Triaged, At, Typings
  <2>4. Ground => agenda' = <<c>> \o Rest
    BY DEF Ground, c
  <2>5. Grounded => agenda' = <<p, a>> \o Rest
    BY DEF Grounded, p, a
  <2>6. ~Approved
    BY <1>2 DEF Approved
  <2> QED
    BY <2>2, <2>3, <2>4, <2>5, <2>6
<1> QED
  BY <1>4, <1>5, <1>6

\* The event loop takes a job: the raise of the question, or one that sets nothing going.
LEMMA NextJobAccounts ==
  ASSUME IInv, QuestionOK, NextJob
  PROVE  QuestionOK'
<1>1. UNCHANGED <<menu, heldQuestions, state, baselined>>
  BY DEF NextJob, escVars, masterVars
<1>2. CASE life' = "exited"
  BY <1>2 DEF QuestionOK, Accounted
<1>3. CASE life' # "exited"
  <2> SUFFICES ASSUME menu.id # 0, Accounted(menu.id) PROVE Accounted(menu.id)'
    BY <1>1 DEF QuestionOK
  <2>1. /\ life = "serving" /\ agenda = << >> /\ jobs # << >>
        /\ agenda' = Steps(jobs[1]) /\ jobs' = Tail(jobs)
    BY <1>3 DEF NextJob
  <2>2. jobs \in Seq(Job) /\ jobs[1] \in Job
    BY <2>1, Gathered DEF IInv, JobsOK
  <2>3. ASSUME Raised(menu.id) PROVE Raised(menu.id)'
    <3>1. PICK i \in DOMAIN jobs : jobs[i] = Step("pane_escalation", menu.id)
      BY <2>1, <2>3 DEF Raised
    <3>2. CASE i = 1
      <4>1. Steps(jobs[1]) = <<jobs[1]>>
        BY <3>1, <3>2 DEF Steps, Step
      <4> QED
        BY <1>1, <2>1, <3>1, <3>2, <4>1 DEF Raised
    <3>3. CASE i # 1
      <4>1. i - 1 \in DOMAIN jobs' /\ jobs'[i - 1] = jobs[i]
        BY <2>1, <2>2, <3>3
      <4> QED
        BY <1>1, <3>1, <4>1 DEF Raised
    <3> QED
      BY <3>2, <3>3
  <2>4. ASSUME Stranded PROVE Stranded'
    <3>1. \A o \in {"menu_answered", "out_of_band", "classify", "recover", "session_ended",
                    "exit"} : Step(o, 0) \in Still
      <4>1. \A o \in {"menu_answered", "out_of_band", "classify", "recover", "session_ended",
                    "exit"} : Step(o, 0) \in StepType
        BY StepTypes, PlainOps
      <4> QED
        BY <4>1 DEF Still, Moving, NeedsResolved, Step
    <3>2. jobs[1] \in Still
      BY <2>2 DEF Job, JobOps, Still, Moving, NeedsResolved
    <3>3. Steps(jobs[1]) \in Seq(Still)
      <4>1. \A s, t, u \in Still : <<s>> \in Seq(Still) /\ <<s, t>> \in Seq(Still)
                                   /\ <<s, t, u>> \in Seq(Still)
        OBVIOUS
      <4> QED
        BY <3>1, <3>2, <4>1 DEF Steps
    <3> QED
      BY <1>1, <2>1, <2>4, <3>3 DEF Stranded, Fallen, Still
  <2> QED
    BY <1>1, <2>1, <2>3, <2>4 DEF Accounted, Foremost, Regrounding
<1> QED
  BY <1>2, <1>3

\* The reports that take an escalation off the master's list.
Withdrawals == {"undelivered_gone", "escalation_retract", "decision_delivered"}

\* What an accepted message does to the master's lists.
LEMMA HandledLists ==
  ASSUME NEW m, Handled(m)
  PROVE  /\ m.op = "escalation" => held' = held \cup {m.arg}
         /\ m.op \in Withdrawals => held' = held \ {m.arg}
         /\ m.op \in {"fatal_error", "session_ended"} => held' = {} /\ heldQuestions' = {}
         /\ m.op \notin Withdrawals \cup {"escalation", "fatal_error", "session_ended"}
              => held' = held
         /\ m.op = "pane_escalation" => heldQuestions' = heldQuestions \cup {m.arg}
         /\ m.op = "pane_retract" => heldQuestions' = heldQuestions \ {m.arg}
         /\ m.op \notin {"pane_escalation", "pane_retract", "fatal_error", "session_ended"}
              => heldQuestions' = heldQuestions
BY DEF Handled, Withdrawals

\* What a message leaves: the failure, or the rest of the job.
LEMMA Replied ==
  ASSUME ToMaster
  PROVE  LET m == agenda[1] IN
         \/ Fatal
         \/ /\ agenda' = Rest /\ state' = state
            /\ \/ m.op \in {"fatal_error", "session_ended"}
               \/ Handled(m) /\ ~Refused(m) /\ UNCHANGED menu
               \/ /\ Refused(m) /\ m.op = "pane_escalation" /\ UNCHANGED masterVars
                  /\ menu' = DropRefused(m.arg)
BY DEF ToMaster

\* A message: the question arrives, or is refused and dropped with its id.
LEMMA ToMasterAccounts ==
  ASSUME IInv, Orderly, RetractOK, QuestionOK, ToMaster
  PROVE  QuestionOK'
<1> SUFFICES ASSUME menu'.id # 0 PROVE Accounted(menu.id)'
  BY DEF QuestionOK
<1> DEFINE m == agenda[1]
<1>1. /\ UNCHANGED <<life, jobs, baselined>> /\ agenda # << >> /\ life # "exited"
      /\ 1 \in DOMAIN agenda /\ m.op \in Messages
  BY DEF ToMaster, Live, escVars, IInv, TypeOK
<1>2. menu' = menu
  BY DEF ToMaster, DropRefused, IInv, TypeOK
<1>3. Accounted(menu.id) /\ ~Foremost("exit")
  BY <1>1, <1>2 DEF QuestionOK, Foremost, Messages
<1>4. m = Step("pane_escalation", menu.id) => m.op = "pane_escalation" /\ m.arg = menu.id
  BY DEF Step
<1>5. CASE Fatal
  <2>1. Stranded'
    BY <1>5, FatalStrands
  <2> QED
    BY <2>1 DEF Accounted
<1>6. CASE Regrounding
  <2>1. Main
    BY DEF Main
  <2>2. Stranded' \/ Regrounding'
    BY <1>2, <2>1, FatalStrands, StaysRegrounding, <1>6
  <2> QED
    BY <2>2 DEF Accounted
<1>7. CASE ~Fatal /\ ~Regrounding
  <2>1. agenda' = Rest /\ state' = state
    BY <1>7, Replied
  <2>2. Stranded => Stranded'
    <3>1. Stranded => Rest \in Seq(Still)
      BY <1>1, Gathered DEF Stranded, Rest
    <3> QED
      BY <1>1, <2>1, <3>1 DEF Stranded, Fallen, Still
  <2>3. CASE m.op = "session_ended"
    <3>1. agenda' = <<Step("exit", 0)>>
      BY <1>1, <2>1, <2>3, EndSteps
    <3>2. Foremost("exit")'
      BY <3>1 DEF Foremost, Step
    <3> QED
      BY <3>2 DEF Accounted
  <2>4. CASE m.op = "fatal_error"
    <3>1. state' \in {"error", "stopped"} /\ (agenda' = << >> \/ agenda' = <<Step("exit", 0)>>)
      BY <1>1, <2>1, <2>4, EndSteps
    <3>2. Step("exit", 0) \in Still
      <4>1. Step("exit", 0) \in StepType
        BY StepTypes, PlainOps
      <4> QED
        BY <4>1 DEF Still, Moving, NeedsResolved, Step
    <3>3. << >> \in Seq(Still) /\ <<Step("exit", 0)>> \in Seq(Still)
      BY <3>2, Gathered
    <3> QED
      BY <3>1, <3>3 DEF Accounted, Stranded, Fallen, Still
  <2>5. CASE m.op = "pane_escalation"
    <3>1. CASE Refused(m)
      <4>1. heldQuestions' = heldQuestions /\ menu' = DropRefused(m.arg)
        BY <1>7, <2>5, <3>1, Replied DEF masterVars
      <4>2. m.arg # menu.id
        BY <1>2, <4>1 DEF DropRefused, IInv, TypeOK
      <4> QED
        BY <1>1, <1>2, <1>3, <1>4, <1>7, <2>2, <4>1, <4>2 DEF Accounted, Raised
    <3>2. CASE ~Refused(m)
      <4>1. heldQuestions' = heldQuestions \cup {m.arg}
        BY <1>7, <2>5, <3>2, Replied, HandledLists
      <4> QED
        BY <1>1, <1>2, <1>3, <1>4, <1>7, <2>2, <4>1 DEF Accounted, Raised
    <3> QED
      BY <3>1, <3>2
  <2>6. CASE m.op = "pane_retract"
    <3>1. heldQuestions' = heldQuestions \ {m.arg}
      BY <1>7, <2>6, Replied, HandledLists DEF Refused
    <3>2. m \in Withdrawable
      BY <1>1, Gathered DEF RetractOK
    <3>3. m.arg # menu.id
      BY <2>6, <3>2 DEF Withdrawable
    <3> QED
      BY <1>1, <1>2, <1>3, <1>4, <1>7, <2>2, <2>6, <3>1, <3>3 DEF Accounted, Raised
  <2>7. CASE m.op \notin {"pane_escalation", "pane_retract", "fatal_error", "session_ended"}
    <3>1. heldQuestions' = heldQuestions
      BY <1>7, <2>7, Replied, HandledLists DEF masterVars
    <3> QED
      BY <1>1, <1>2, <1>3, <1>4, <1>7, <2>2, <2>7, <3>1 DEF Accounted, Raised
  <2> QED
    BY <2>3, <2>4, <2>5, <2>6, <2>7
<1> QED
  BY <1>5, <1>6, <1>7

\* The main task keeps the account.
LEMMA MainAccounts ==
  ASSUME IInv, Orderly, RetractOK, QuestionOK, Main
  PROVE  QuestionOK'
<1>1. CASE ToMaster
  BY <1>1, ToMasterAccounts
<1>2. CASE NextJob
  BY <1>2, NextJobAccounts
<1>3. CASE Exit
  BY <1>3 DEF Exit, QuestionOK, Accounted
<1>4. CASE VerifyMissing
  <2>1. menu'.id = nextId /\ agenda' = <<Step("pane_escalation", nextId)>>
    BY <1>4 DEF VerifyMissing
  <2> QED
    BY <2>1 DEF QuestionOK, Accounted, Raised
<1>5. CASE ~(ToMaster \/ NextJob \/ Exit \/ VerifyMissing)
  <2> SUFFICES ASSUME menu'.id # 0 PROVE Accounted(menu.id)'
    BY DEF QuestionOK
  <2>1. menu' = menu \/ menu' = NoMenu
    BY <1>5 DEF Main, Bind, Ground, Grounded, Approved, Serve, MenuAnswered, OutOfBand, Contact,
       MarkState, Classify, Deliver, Reactivate, SendPrompt, Typed, TypingFails, VerifyRecorded,
       ReportFatal, Triaged
  <2>2. menu' = menu
    BY <2>1 DEF NoMenu
  <2>3. /\ jobs' = jobs /\ heldQuestions' = heldQuestions /\ Live
        /\ agenda # << >> /\ agenda[1].op \notin {"pane_escalation", "exit"}
    BY <1>5 DEF Main, Bind, Ground, Grounded, Approved, Serve, MenuAnswered, OutOfBand, Contact,
       MarkState, Classify, Deliver, Reactivate, SendPrompt, Typed, TypingFails, VerifyRecorded,
       ReportFatal, Reads, Triaged, At, Live, Typings, masterVars
  <2>4. agenda[1] # Step("pane_escalation", menu.id)
    BY <2>3 DEF Step
  <2>5. Accounted(menu.id)
    BY <2>2 DEF QuestionOK
  <2>6. Stranded \/ Regrounding => Stranded' \/ Regrounding'
    BY <1>5, <2>2, StaysStranded, StaysRegrounding, FatalStrands
  <2> QED
    BY <2>2, <2>3, <2>4, <2>5, <2>6 DEF Accounted, Raised, Foremost, Live
<1> QED
  BY <1>1, <1>2, <1>3, <1>4, <1>5

\* At rest nothing is on its way, and an ended session has exited.
LEMMA AccountedAtRest ==
  ASSUME Orderly, QuestionOK
  PROVE  MenuReported
<1> SUFFICES ASSUME AtRest, menu.id # 0
             PROVE  menu.id \in heldQuestions \/ (state = "escalated" /\ ~baselined)
  BY DEF MenuReported
<1>1. agenda = << >> /\ jobs = << >> /\ life = "serving" /\ state # "error"
  BY DEF AtRest
<1>2. state # "stopped"
  BY <1>1 DEF Orderly, StoppedOK, Foremost
<1> QED
  BY <1>1, <1>2 DEF QuestionOK, Accounted, Raised, Foremost, Stranded, Fallen, Regrounding

\* Whatever fails, the master at rest shows the question of the claimed menu, unless the
\* session failed with the menu open and has escalated a failed verification since: a
\* refusal drops the id with the question, a withdrawal never takes the question of a
\* menu claimed since, and a new task given with the menu open fails
\* (_raise_question, _claim_menu, _check_menu_answered).
THEOREM MenuQuestionReported == Spec => []MenuReported
<1>1. Init => RetractOK /\ QuestionOK
  <2> SUFFICES ASSUME Init PROVE RetractOK /\ QuestionOK
    OBVIOUS
  <2>1. menu.id = 0 /\ nextId = 1 /\ jobs = << >>
    BY DEF Init, NoMenu
  <2>2. agenda \in Seq(Withdrawable)
    <3>1. PICK k \in Launches : agenda = LaunchAgenda(k)
      BY DEF Init
    <3>2. /\ Step("bind", 0) \in Withdrawable /\ Step("ground", 0) \in Withdrawable
          /\ Step("serve", 0) \in Withdrawable
      <4>1. \A o \in {"bind", "ground", "serve"} : Step(o, 0) \in StepType
        BY StepTypes, PlainOps
      <4> QED
        BY <4>1 DEF Withdrawable, Step
    <3> QED
      BY <3>1, <3>2 DEF LaunchAgenda
  <2> QED
    BY <2>1, <2>2, Gathered DEF RetractOK, QuestionOK
<1>3. IInv /\ RetractOK /\ [Next]_vars => RetractOK'
  BY RetractKeeps
<1>4. IInv /\ Orderly /\ RetractOK /\ QuestionOK /\ [Next]_vars => QuestionOK'
  <2> SUFFICES ASSUME IInv, Orderly, RetractOK, QuestionOK, [Next]_vars PROVE QuestionOK'
    OBVIOUS
  <2>1. CASE Main
    BY <2>1, MainAccounts
  <2>2. CASE Master \/ Questions \/ Session
    BY <2>2, HandlersAccount
  <2>3. CASE UNCHANGED vars
    <3>1. UNCHANGED <<menu, heldQuestions, jobs, agenda, state, baselined, life>>
      BY <2>3 DEF vars, mainVars, escVars, masterVars
    <3> QED
      BY <3>1 DEF QuestionOK, Accounted, Raised, Stranded, Fallen, Still, Foremost, Regrounding
  <2> QED
    BY <2>1, <2>2, <2>3 DEF Next
<1>5. Orderly /\ QuestionOK => MenuReported
  BY AccountedAtRest
<1> QED
  BY <1>1, <1>3, <1>4, <1>5, Inductive, AlwaysOrderly, PTL DEF Spec

-----------------------------------------------------------------------------
(* What the master holds.                                                  *)

\* The report of the end of escalation e is what the main task is coming to.
Withdrawing(e) ==
  \/ agenda # << >> /\ agenda[1] = Step("escalation_retract", e)
  \/ agenda = <<Step("budget_update", 0), Step("drive", 0), Step("decision_delivered", e)>>
  \/ agenda = <<Step("drive", 0), Step("decision_delivered", e)>>
  \/ agenda = <<Step("decision_delivered", e)>>

\* The master holds the live escalation and what is being withdrawn, nothing more;
\* an escalation on its way may yet be refused, and a fatal error clears the list.
HeldOK ==
  \/ Foremost("escalation") \/ Foremost("fatal_error")
  \/ held \subseteq {active}
  \/ \E e \in Ids : Withdrawing(e) /\ held \subseteq {active, e}

\* The live escalation is with the master or on its way, or the session failed
\* or ended.
LiveOK ==
  active # 0 =>
    \/ active \in held \/ state \in {"error", "stopped"}
    \/ life = "exited" \/ Foremost("exit")
    \/ Foremost("escalation")

\* What is withdrawn is live no more, what is raised is live and comes first.
StepsOK ==
  \A i \in DOMAIN agenda :
    /\ agenda[i].op \in Withdrawals => agenda[i].arg # active
    /\ agenda[i].op = "escalation" => i = 1 /\ agenda[i].arg = active

Agreed == HeldOK /\ LiveOK /\ StepsOK

\* At rest nothing is on its way.
LEMMA AgreedAtRest ==
  ASSUME IInv, Orderly, Agreed
  PROVE  MasterAgrees
<1> SUFFICES ASSUME AtRest PROVE held = {active} \ {0}
  BY DEF MasterAgrees
<1>1. agenda = << >> /\ jobs = << >> /\ life = "serving" /\ state # "error"
  BY DEF AtRest
<1>2. ~ \E e \in Ids : Withdrawing(e)
  BY <1>1 DEF Withdrawing
<1>3. held \subseteq {active}
  BY <1>1, <1>2 DEF Agreed, HeldOK, Foremost
<1>4. state # "stopped"
  BY <1>1 DEF Orderly, StoppedOK, Foremost
<1>5. active # 0 => active \in held
  BY <1>1, <1>4 DEF Agreed, LiveOK, Foremost
<1>6. 0 \notin held
  BY DEF IInv, TypeOK, Ids
<1> QED
  BY <1>3, <1>5, <1>6

-----------------------------------------------------------------------------
(* Handlers.                                                               *)


\* Handlers leave the agenda, the live escalation and the master's list alone.
LEMMA HandlersAgree ==
  ASSUME IInv, Agreed, Master \/ Questions \/ Session
  PROVE  Agreed'
<1>1. /\ UNCHANGED <<life, agenda, active, held>>
      /\ state' = state \/ state' = "stopped" \/ state = "completed"
  BY HandlerFrame DEF IInv
<1> QED
  BY <1>1 DEF Agreed, HeldOK, LiveOK, StepsOK, Foremost, Withdrawing

-----------------------------------------------------------------------------
(* The main task.                                                          *)

\* Steps that neither raise nor withdraw an escalation.
Tame(q) == \A i \in DOMAIN q : q[i].op \notin Withdrawals \cup {"escalation"}

\* An agenda of such steps.
LEMMA TameAlone ==
  ASSUME Tame(agenda')
  PROVE  StepsOK'
BY DEF Tame, StepsOK

\* Steps that withdraw no live escalation.
Fits(q, live) ==
  \A i \in DOMAIN q :
    /\ q[i].op # "escalation"
    /\ q[i].op \in Withdrawals => q[i].arg # live

\* Steps that withdraw what is not live, before the rest of the job.
LEMMA FitAhead ==
  ASSUME IInv, StepsOK, agenda # << >>, NEW q \in Seq(StepType), Fits(q, active'),
         agenda' = q \o Rest, active' \in {0, active}
  PROVE  StepsOK'
<1>1. agenda \in Seq(StepType) /\ Rest \in Seq(StepType)
  BY Ahead DEF IInv, TypeOK
<1>2. \A i \in DOMAIN Rest : /\ i + 1 \in DOMAIN agenda /\ i + 1 # 1
                             /\ Rest[i] = agenda[i + 1] /\ Rest[i] \in StepType
  BY <1>1 DEF Rest
<1>3. ASSUME NEW i \in DOMAIN Rest
      PROVE  /\ Rest[i].op \in Withdrawals => Rest[i].arg # active'
             /\ Rest[i].op # "escalation"
  <2>1. Rest[i].op \in AboutEscalation => Rest[i].arg \in Ids
    BY <1>2, StepParts
  <2>2. 0 \notin Ids /\ Withdrawals \subseteq AboutEscalation
    BY DEF Ids, Withdrawals, AboutEscalation
  <2> QED
    BY <1>2, <2>1, <2>2 DEF StepsOK
<1>4. ASSUME NEW i \in DOMAIN agenda'
      PROVE  (i \in DOMAIN q /\ agenda'[i] = q[i]) \/ \E j \in DOMAIN Rest : agenda'[i] = Rest[j]
  <2>1. CASE i \in DOMAIN q
    BY <1>1, <2>1
  <2>2. CASE i \notin DOMAIN q
    <3>1. i - Len(q) \in DOMAIN Rest /\ agenda'[i] = Rest[i - Len(q)]
      BY <1>1, <2>2
    <3> QED
      BY <3>1
  <2> QED
    BY <2>1, <2>2
<1>5. ASSUME NEW i \in DOMAIN agenda'
      PROVE  /\ agenda'[i].op # "escalation"
             /\ agenda'[i].op \in Withdrawals => agenda'[i].arg # active'
  <2>1. CASE i \in DOMAIN q /\ agenda'[i] = q[i]
    BY <2>1 DEF Fits
  <2>2. ASSUME NEW j \in DOMAIN Rest, agenda'[i] = Rest[j]
        PROVE  /\ agenda'[i].op # "escalation"
               /\ agenda'[i].op \in Withdrawals => agenda'[i].arg # active'
    BY <1>3, <2>2
  <2> QED
    BY <1>4, <2>1, <2>2
<1> QED
  BY <1>5 DEF StepsOK

LEMMA TameAhead ==
  ASSUME IInv, StepsOK, agenda # << >>, NEW q \in Seq(StepType), Tame(q),
         agenda' = q \o Rest, active' \in {0, active}
  PROVE  StepsOK'
<1>1. Fits(q, active')
  BY DEF Fits, Tame
<1> QED
  BY <1>1, FitAhead

\* _fatal leaves nothing but the report.
LEMMA FatalTame ==
  ASSUME Fatal
  PROVE  StepsOK' /\ Foremost("fatal_error")' /\ state' = "error"
<1>1. Foremost("fatal_error")' /\ state' = "error"
  BY DEF Fatal, Foremost, Step
<1>2. StepsOK'
  BY <1>1 DEF Fatal, StepsOK, Step, Withdrawals
<1> QED
  BY <1>1, <1>2

\* Reports the master's list waits for.
Pending == {"escalation", "fatal_error", "escalation_retract", "budget_update", "drive",
            "decision_delivered"}

\* Unless such a report is about to be sent, the master holds the live escalation
\* or nothing.
LEMMA Settled ==
  ASSUME HeldOK, agenda # << >> => agenda[1].op \notin Pending
  PROVE  held \subseteq {active}
<1>1. ASSUME NEW e \in Ids, Withdrawing(e) PROVE agenda # << >> /\ agenda[1].op \in Pending
  <2>1. /\ Step("escalation_retract", e).op = "escalation_retract"
        /\ Step("budget_update", 0).op = "budget_update" /\ Step("drive", 0).op = "drive"
        /\ Step("decision_delivered", e).op = "decision_delivered"
    BY DEF Step
  <2>2. \/ agenda # << >> /\ agenda[1] = Step("escalation_retract", e)
        \/ agenda # << >> /\ agenda[1] = Step("budget_update", 0)
        \/ agenda # << >> /\ agenda[1] = Step("drive", 0)
        \/ agenda # << >> /\ agenda[1] = Step("decision_delivered", e)
    BY <1>1 DEF Withdrawing
  <2> QED
    BY <2>1, <2>2 DEF Pending
<1>2. ~Foremost("escalation") /\ ~Foremost("fatal_error")
  BY DEF Foremost, Pending
<1> QED
  BY <1>1, <1>2 DEF HeldOK

\* A step of the main task that leaves the escalation and the list alone.
LEMMA CarriesOn ==
  ASSUME Agreed, Live, active' = active, held' = held,
         agenda # << >> => agenda[1].op \notin Pending \cup {"exit"},
         state' \in {state, "error"} \/ active = 0
  PROVE  HeldOK' /\ LiveOK'
<1>1. held \subseteq {active}
  BY Settled DEF Agreed
<1>2. HeldOK'
  BY <1>1 DEF HeldOK
<1>3. LiveOK'
  BY DEF Agreed, LiveOK, Live, Foremost, Pending
<1> QED
  BY <1>2, <1>3

\* The launch, and jobs that raise nothing and end nothing.
LEMMA PlainAgree ==
  ASSUME IInv, Agreed, Bind \/ Ground \/ Grounded \/ Approved \/ Serve \/ MenuAnswered \/ Classify
                       \/ Deliver \/ SendPrompt \/ TypingFails \/ VerifyMissing \/ ReportFatal
  PROVE  HeldOK' /\ LiveOK' /\ StepsOK'
<1>1. /\ active' = active /\ held' = held /\ agenda # << >>
      /\ agenda[1].op \in {"bind", "ground", "grounding", "approval", "serve", "menu_answered",
                           "classify", "recover", "deliver", "send_prompt", "verify_missing",
                           "fatal", "out_of_band"} \cup Typings
  BY DEF Bind, Ground, Grounded, Approved, Serve, MenuAnswered, Classify, Deliver, SendPrompt,
         TypingFails, VerifyMissing, ReportFatal, Reads, At, escVars, masterVars
<1>2. agenda[1].op \notin Pending \cup {"exit"} /\ Live
  BY <1>1 DEF Pending, Typings, Live, Bind, Ground, Grounded, Approved, Serve, MenuAnswered,
              Classify, Deliver, SendPrompt, TypingFails, VerifyMissing, ReportFatal, Reads, At
<1>3. state' \in {state, "error"} \/ active = 0
  <2>1. agenda[1].op \in {"ground", "grounding"} => active = 0
    BY <1>1 DEF IInv, TypeOK, AgendaOK, ResolvedOK, NeedsResolved
  <2>2. state = "driving" => active = 0
    BY DEF IInv, DrivingMeansResolved
  <2> QED
    BY <2>1, <2>2 DEF Bind, Ground, Grounded, Approved, Serve, MenuAnswered, Classify,
       MayClassify, ACTIVE_STATES, Deliver, SendPrompt, TypingFails, VerifyMissing, ReportFatal,
       At, Fatal
<1>4. HeldOK' /\ LiveOK'
  BY <1>1, <1>2, <1>3, CarriesOn
<1>5. Rest \in Seq(StepType) /\ Rest = << >> \o Rest /\ StepsOK /\ Tame(<< >>)
  <2>1. Rest \in Seq(StepType)
    BY <1>1, Ahead DEF IInv
  <2> QED
    BY <2>1 DEF Agreed, Tame
<1>6. StepsOK'
  <2>1. CASE Fatal
    BY <2>1, FatalTame
  <2>2. CASE agenda' = Rest
    BY <1>1, <1>5, <2>2, Sequences, TameAhead
  <2>3. CASE Ground
    <3>1. agenda' = <<Step("grounding", 0)>> \o Rest /\ Tame(<<Step("grounding", 0)>>)
      BY <2>3 DEF Ground, Tame, Step, Withdrawals
    <3>2. <<Step("grounding", 0)>> \in Seq(StepType)
      BY StepTypes, PlainOps
    <3> QED
      BY <1>1, <1>5, <3>1, <3>2, TameAhead
  <2>4. CASE Grounded /\ ~Fatal
    <3> DEFINE q == <<Step("prompt_proposal", 0), Step("approval", 0)>>
    <3>1. agenda' = q \o Rest /\ Tame(q)
      BY <2>4 DEF Grounded, Tame, Step, Withdrawals
    <3>2. q \in Seq(StepType)
      BY StepTypes, PlainOps, Sequences
    <3> HIDE DEF q
    <3> QED
      BY <1>1, <1>5, <3>1, <3>2, TameAhead
  <2>5. CASE Approved /\ ~Fatal
    <3>1. agenda' = <<Step("type_opening", 0)>> \o Rest /\ Tame(<<Step("type_opening", 0)>>)
      BY <2>5 DEF Approved, Tame, Step, Withdrawals
    <3>2. <<Step("type_opening", 0)>> \in Seq(StepType)
      BY StepTypes, PlainOps
    <3> QED
      BY <1>1, <1>5, <3>1, <3>2, TameAhead
  <2>6. CASE MenuAnswered /\ agenda' # Rest
    <3> DEFINE p == <<Step("pane_retract", menu.id)>>
               q == <<Step("pane_retract", menu.id), Step("contact", 0)>>
    <3>1. \/ agenda' = << >> \o Rest
          \/ menu.id # 0 /\ (agenda' = p \o Rest \/ agenda' = q \o Rest)
      BY <2>6 DEF MenuAnswered
    <3>2. menu.id # 0 => p \in Seq(StepType) /\ q \in Seq(StepType)
      <4>1. menu.id \in Ids \cup {0} /\ Step("contact", 0) \in StepType
        BY StepTypes, PlainOps DEF IInv, TypeOK
      <4>2. menu.id \in Ids => Step("pane_retract", menu.id) \in StepType
        BY StepTypes DEF AboutEscalation
      <4> QED
        BY <4>1, <4>2, Sequences
    <3>3. Tame(p) /\ Tame(q)
      BY DEF Tame, Step, Withdrawals
    <3> HIDE DEF p, q
    <3> QED
      BY <1>1, <1>5, <2>6, <3>1, <3>2, <3>3, TameAhead
  <2>7. CASE Deliver
    <3>1. \/ agenda' = <<Step("undelivered_gone", Arg)>> /\ Arg # active
          \/ agenda' = <<Step("undelivered_live", Arg)>>
          \/ agenda' = <<Step("type_decision", Arg)>>
      BY <2>7 DEF Deliver, IsActive, ReportGone
    <3> QED
      BY <1>1, <3>1 DEF StepsOK, Step, Withdrawals
  <2>8. CASE (Classify \/ SendPrompt \/ TypingFails \/ VerifyMissing) /\ agenda' # Rest /\ ~Fatal
    <3>1. \E o \in {"triage", "prompt_undelivered", "type_prompt", "undelivered_live",
                    "pane_escalation"}, n \in {0, Arg, nextId} : agenda' = <<Step(o, n)>>
      BY <2>8 DEF Classify, SendPrompt, TypingFails, VerifyMissing
    <3>2. Tame(agenda')
      BY <3>1 DEF Tame, Step, Withdrawals
    <3> QED
      BY <3>2, TameAlone
  <2> QED
    BY <2>1, <2>2, <2>3, <2>4, <2>5, <2>6, <2>7, <2>8 DEF Bind, Serve, ReportFatal
<1> QED
  BY <1>4, <1>6

\* The event loop takes a job; the process ends.
LEMMA NextJobAgrees ==
  ASSUME IInv, Agreed, NextJob \/ Exit
  PROVE  HeldOK' /\ LiveOK' /\ StepsOK'
<1>1. active' = active /\ held' = held /\ state' = state
  BY DEF NextJob, Exit, escVars, masterVars
<1>2. CASE life' = "exited"
  <2>1. held \subseteq {active}
    BY <1>2, Settled DEF NextJob, Exit, At, Pending, Agreed
  <2>2. agenda' = << >>
    BY <1>2 DEF NextJob, Exit
  <2> QED
    BY <1>1, <1>2, <2>1, <2>2 DEF Agreed, HeldOK, LiveOK, StepsOK
<1>3. CASE life' # "exited"
  <2>1. /\ life = "serving" /\ agenda = << >> /\ jobs # << >> /\ agenda' = Steps(jobs[1])
    BY <1>3 DEF NextJob, Exit
  <2>2. HeldOK' /\ LiveOK'
    BY <1>1, <2>1, CarriesOn DEF Live
  <2>3. jobs[1] \in Job
    BY <2>1, Gathered DEF IInv, JobsOK
  <2>4. jobs[1].op \notin Withdrawals \cup {"escalation"}
    BY <2>3 DEF Job, JobOps, Withdrawals
  <2>5. Tame(agenda')
    BY <2>1, <2>4 DEF Tame, Steps, Step, Withdrawals
  <2> QED
    BY <2>2, <2>5, TameAlone
<1> QED
  BY <1>2, <1>3

\* The developer's contact is reported, the state is set after a report.
LEMMA ContactAgrees ==
  ASSUME IInv, Agreed, Contact \/ MarkState
  PROVE  HeldOK' /\ LiveOK' /\ StepsOK'
<1>1. /\ active' = active /\ held' = held /\ agenda # << >> /\ Live /\ 1 \in DOMAIN agenda
      /\ agenda[1].op \in {"contact", "drive_contact", "drive", "complete"}
  BY DEF Contact, MarkState, At, escVars, masterVars, IInv, TypeOK
<1>2. agenda[1].op # "contact" => active = 0
  BY <1>1 DEF IInv, AgendaOK, ResolvedOK, NeedsResolved
<1>3. state' = state \/ active = 0
  BY <1>2 DEF Contact, MarkState, At
<1>4. Rest \in Seq(StepType) /\ Rest = << >> \o Rest /\ Tame(<< >>)
  <2>1. Rest \in Seq(StepType)
    BY <1>1, Ahead DEF IInv
  <2> QED
    BY <2>1 DEF Tame
<1>5. StepsOK'
  <2>1. CASE Contact
    <3>1. agenda' = <<Step("budget_update", 0)>> \o Rest /\ Tame(<<Step("budget_update", 0)>>)
      BY <2>1 DEF Contact, Tame, Step, Withdrawals
    <3>2. <<Step("budget_update", 0)>> \in Seq(StepType)
      BY StepTypes, PlainOps
    <3> QED
      BY <1>1, <3>1, <3>2, TameAhead DEF Agreed
  <2>2. CASE MarkState
    <3>1. agenda' = << >> \o Rest
      BY <1>4, <2>2 DEF MarkState
    <3> QED
      BY <1>1, <1>4, <3>1, Sequences, TameAhead DEF Agreed
  <2> QED
    BY <2>1, <2>2
<1>6. CASE agenda[1].op # "drive"
  <2>1. agenda[1].op \notin Pending \cup {"exit"}
    BY <1>1, <1>6 DEF Pending
  <2> QED
    BY <1>1, <1>3, <1>5, <2>1, CarriesOn
<1>7. CASE agenda[1].op = "drive"
  <2>1. agenda' = Rest
    BY <1>7 DEF MarkState, Contact, At
  <2>2. LiveOK'
    BY <1>1, <1>2, <1>7 DEF LiveOK
  <2>3. CASE held \subseteq {active}
    BY <1>1, <1>5, <2>2, <2>3 DEF HeldOK
  <2>4. CASE ~(held \subseteq {active})
    <3>1. PICK e \in Ids : Withdrawing(e) /\ held \subseteq {active, e}
      BY <1>7, <2>4 DEF Agreed, HeldOK, Foremost
    <3>2. agenda = <<Step("drive", 0), Step("decision_delivered", e)>>
      BY <1>7, <3>1 DEF Withdrawing, Step
    <3>3. agenda' = <<Step("decision_delivered", e)>>
      BY <2>1, <3>2 DEF Rest
    <3> QED
      BY <1>1, <1>5, <2>2, <3>1, <3>3 DEF HeldOK, Withdrawing
  <2> QED
    BY <2>3, <2>4
<1> QED
  BY <1>6, <1>7

\* _raise_escalation: what the master then holds will be the new escalation, or the
\* report is refused.
LEMMA RaiseAgrees ==
  ASSUME NEW counted \in BOOLEAN, Raise(counted)
  PROVE  HeldOK' /\ LiveOK' /\ StepsOK'
<1>1. agenda' = <<Step("escalation", nextId)>> /\ active' = nextId
  BY DEF Raise
<1>2. Foremost("escalation")'
  BY <1>1 DEF Foremost, Step
<1>3. StepsOK'
  BY <1>1 DEF StepsOK, Step, Withdrawals
<1> QED
  BY <1>2, <1>3 DEF HeldOK, LiveOK

\* An escalation the developer resolved in the pane is withdrawn.
LEMMA OutOfBandAgrees ==
  ASSUME IInv, Agreed, OutOfBand
  PROVE  HeldOK' /\ LiveOK' /\ StepsOK'
<1>1. /\ held' = held /\ agenda # << >> /\ Live /\ agenda[1].op = "out_of_band"
  BY DEF OutOfBand, At, masterVars
<1>2. agenda[1].op \notin Pending \cup {"exit"}
  BY <1>1 DEF Pending
<1>3. Rest \in Seq(StepType) /\ active \in Ids \cup {0}
  BY <1>1, Ahead DEF IInv, TypeOK
<1>4. CASE agenda' = Rest /\ UNCHANGED <<state, active>>
  <2>1. agenda' = << >> \o Rest /\ Tame(<< >>)
    BY <1>3, <1>4 DEF Tame
  <2> QED
    BY <1>1, <1>2, <1>4, <2>1, CarriesOn, Sequences, TameAhead DEF Agreed
<1>5. CASE ~(agenda' = Rest /\ UNCHANGED <<state, active>>)
  <2> DEFINE q == <<Step("escalation_retract", active), Step("contact", 0)>>
  <2>1. active # 0 /\ active' = 0 /\ agenda' = q \o Rest
    BY <1>5 DEF OutOfBand, EndActive
  <2>2. q \in Seq(StepType)
    <3>1. Step("escalation_retract", active) \in StepType /\ Step("contact", 0) \in StepType
      BY <1>3, <2>1, StepTypes, PlainOps DEF AboutEscalation
    <3> QED
      BY <3>1, Sequences
  <2>3. Fits(q, active')
    BY <2>1 DEF Fits, Step, Withdrawals
  <2>4. agenda' # << >> /\ agenda'[1] = Step("escalation_retract", active)
    BY <1>3, <2>1
  <2> HIDE DEF q
  <2>5. StepsOK'
    BY <1>1, <2>1, <2>2, <2>3, FitAhead DEF Agreed
  <2>6. held \subseteq {active}
    BY <1>2, Settled DEF Agreed
  <2>7. HeldOK'
    BY <1>1, <1>3, <2>1, <2>4, <2>6 DEF HeldOK, Withdrawing
  <2> QED
    BY <2>1, <2>5, <2>7 DEF LiveOK
<1> QED
  BY <1>4, <1>5

\* The pane write succeeds.
LEMMA TypedAgrees ==
  ASSUME IInv, Agreed, Typed
  PROVE  HeldOK' /\ LiveOK' /\ StepsOK'
<1>1. /\ held' = held /\ agenda # << >> /\ Live /\ agenda[1].op \in Typings /\ 1 \in DOMAIN agenda
  BY DEF Typed, masterVars, IInv, TypeOK
<1>2. agenda[1].op \notin Pending \cup {"exit"}
  BY <1>1 DEF Pending, Typings
<1>3. Rest \in Seq(StepType) /\ active \in Ids \cup {0} /\ 0 \notin Ids
  BY <1>1, Ahead DEF IInv, TypeOK, Ids
<1>4. held \subseteq {active}
  BY <1>2, Settled DEF Agreed
<1>5. CASE At("type_opening")
  <2>1. agenda' = << >> \o Rest /\ Tame(<< >>) /\ active' = active
    BY <1>3, <1>5 DEF Typed, At, Tame
  <2>2. active = 0
    BY <1>1, <1>5 DEF At, IInv, AgendaOK, ResolvedOK, NeedsResolved
  <2> QED
    BY <1>1, <1>2, <2>1, <2>2, CarriesOn, Sequences, TameAhead DEF Agreed
<1>6. CASE At("type_answer")
  <2>1. /\ agenda' = <<Step("budget_update", budget + 1)>> /\ active' = active /\ state' = state
    BY <1>6 DEF Typed, At
  <2>2. Tame(agenda')
    BY <2>1 DEF Tame, Step, Withdrawals
  <2> QED
    BY <1>1, <1>2, <2>1, <2>2, CarriesOn, TameAlone
<1>7. CASE At("type_decision")
  <2>1. /\ active' = 0
        /\ agenda' = <<Step("budget_update", 0), Step("drive", 0),
                       Step("decision_delivered", Arg)>>
    BY <1>7 DEF Typed, At, EndActive
  <2>2. Arg = active
    BY <1>1, <1>7 DEF At, Arg, IInv, AgendaOK, DecisionOK
  <2>3. Arg \in Ids
    <3>1. agenda[1] \in StepType /\ agenda[1].op = "type_decision"
      BY <1>1, <1>7, Ahead DEF At, IInv
    <3> QED
      BY <3>1, StepParts DEF Arg, AboutEscalation
  <2>4. StepsOK'
    BY <1>3, <2>1, <2>3 DEF StepsOK, Step, Withdrawals
  <2>5. HeldOK'
    BY <1>1, <1>4, <2>1, <2>2, <2>3 DEF HeldOK, Withdrawing
  <2> QED
    BY <2>1, <2>4, <2>5 DEF LiveOK
<1>8. CASE At("type_prompt")
  <2>1. CASE active # 0
    <3>1. /\ active' = 0
          /\ agenda' = <<Step("escalation_retract", active), Step("drive_contact", 0)>>
      BY <1>8, <2>1 DEF Typed, At, EndActive
    <3>2. StepsOK'
      BY <2>1, <3>1 DEF StepsOK, Step, Withdrawals
    <3>3. HeldOK'
      BY <1>1, <1>3, <1>4, <2>1, <3>1 DEF HeldOK, Withdrawing
    <3> QED
      BY <3>1, <3>2, <3>3 DEF LiveOK
  <2>2. CASE active = 0
    <3>1. active' = active /\ agenda' = <<Step("budget_update", 0)>>
      BY <1>8, <2>2 DEF Typed, At
    <3>2. Tame(agenda')
      BY <3>1 DEF Tame, Step, Withdrawals
    <3> QED
      BY <1>1, <1>2, <2>2, <3>1, <3>2, CarriesOn, TameAlone
  <2> QED
    BY <2>1, <2>2
<1> QED
  BY <1>5, <1>6, <1>7, <1>8 DEF Typed

\* What a verdict leads to.
LEMMA TriagedAgrees ==
  ASSUME IInv, Agreed, NEW v \in Verdicts, Triaged(v)
  PROVE  HeldOK' /\ LiveOK' /\ StepsOK'
<1>1. CASE Raise(TRUE)
  BY <1>1, RaiseAgrees
<1>2. CASE ~Raise(TRUE)
  <2>1. /\ active' = active /\ held' = held /\ agenda # << >> /\ Live
        /\ agenda[1].op = "triage"
    BY <1>2 DEF Triaged, At, escVars, masterVars
  <2>2. agenda[1].op \notin Pending \cup {"exit"}
    BY <2>1 DEF Pending
  <2>3. state' \in {state, "error"}
    BY <1>2 DEF Triaged, Fatal
  <2>4. HeldOK' /\ LiveOK'
    BY <2>1, <2>2, <2>3, CarriesOn
  <2>5. CASE Fatal
    BY <2>4, <2>5, FatalTame
  <2>6. CASE ~Fatal
    <3>1. \/ agenda' = <<Step("type_answer", 0)>> \/ agenda' = << >>
          \/ agenda' = <<Step("completion", 0), Step("complete", 0)>>
      BY <1>2, <2>6 DEF Triaged
    <3>2. Tame(agenda')
      BY <3>1 DEF Tame, Step, Withdrawals
    <3> QED
      BY <2>4, <3>2, TameAlone
  <2> QED
    BY <2>5, <2>6
<1> QED
  BY <1>1, <1>2

\* Every message gets its reply: it is handled, or it is refused.
LEMMA Answered ==
  ASSUME "master" \notin Failures, ToMaster
  PROVE  LET m == agenda[1] IN
         \/ Handled(m) /\ ~Refused(m) /\ agenda' = Rest /\ UNCHANGED <<state, menu>>
         \/ /\ Refused(m) /\ m.op = "pane_escalation" /\ UNCHANGED masterVars
            /\ agenda' = Rest /\ state' = state /\ menu' = DropRefused(m.arg)
         \/ /\ Refused(m) /\ m.op = "escalation" /\ UNCHANGED masterVars
            /\ Fatal /\ UNCHANGED menu
BY DEF ToMaster, Refused

\* What a message leaves.
LEMMA ToMasterAgrees ==
  ASSUME "master" \notin Failures, IInv, Orderly, Agreed, ToMaster
  PROVE  HeldOK' /\ LiveOK' /\ StepsOK'
<1> DEFINE m == agenda[1]
<1>1. /\ active' = active /\ agenda # << >> /\ Live /\ m.op \in Messages /\ 1 \in DOMAIN agenda
  BY DEF ToMaster, escVars, IInv, TypeOK
<1>2. m.op # "exit" /\ m.op # "drive"
  BY <1>1 DEF Messages
<1>3. CASE Fatal
  <2>1. StepsOK' /\ Foremost("fatal_error")' /\ state' = "error"
    BY <1>3, FatalTame
  <2> QED
    BY <2>1 DEF HeldOK, LiveOK
<1>4. CASE ~Fatal
  <2>1. agenda' = Rest /\ state' = state
    BY <1>4, Answered
  <2>2. Rest \in Seq(StepType) /\ agenda' = << >> \o Rest /\ Fits(<< >>, active')
    <3>1. Rest \in Seq(StepType)
      BY <1>1, Ahead DEF IInv
    <3> QED
      BY <2>1, <3>1 DEF Fits
  <2>3. StepsOK'
    BY <1>1, <2>2, Sequences, FitAhead DEF Agreed
  <2>4. CASE m.op = "fatal_error"
    <3>1. held' = {} /\ state' \in {"error", "stopped"}
      BY <1>1, <1>4, <2>1, <2>4, Answered, HandledLists, EndSteps
    <3> QED
      BY <2>3, <3>1 DEF HeldOK, LiveOK
  <2>5. CASE m.op = "session_ended"
    <3>1. held' = {} /\ agenda' = <<Step("exit", 0)>>
      BY <1>1, <1>4, <2>1, <2>5, Answered, HandledLists, EndSteps
    <3>2. Foremost("exit")'
      BY <3>1 DEF Foremost, Step
    <3> QED
      BY <2>3, <3>1, <3>2 DEF HeldOK, LiveOK
  <2>6. CASE m.op = "escalation"
    <3>1. held = {} /\ held' = held \cup {m.arg} /\ m.arg = active
      BY <1>1, <1>4, <2>6, Answered, HandledLists DEF Refused, Agreed, StepsOK
    <3> QED
      BY <1>1, <2>3, <3>1 DEF HeldOK, LiveOK
  <2>7. CASE m.op \in Withdrawals
    <3>1. held' = held \ {m.arg} /\ m.arg # active
      BY <1>1, <1>4, <2>7, Answered, HandledLists DEF Refused, Agreed, StepsOK, Withdrawals
    <3>2. held' \subseteq {active}
      <4>1. CASE held \subseteq {active}
        BY <3>1, <4>1
      <4>2. CASE ~(held \subseteq {active})
        <5>1. PICK e \in Ids : Withdrawing(e) /\ held \subseteq {active, e}
          BY <2>7, <4>2 DEF Agreed, HeldOK, Foremost, Withdrawals
        <5>2. m.arg = e
          BY <2>7, <5>1 DEF Withdrawing, Step, Withdrawals
        <5> QED
          BY <3>1, <5>1, <5>2
      <4> QED
        BY <4>1, <4>2
    <3>3. LiveOK'
      <4>1. m.op \notin {"escalation", "exit"}
        BY <2>7 DEF Withdrawals
      <4> QED
        BY <1>1, <2>1, <3>1, <4>1 DEF Agreed, LiveOK, Live, Foremost
    <3> QED
      BY <1>1, <2>3, <3>2, <3>3 DEF HeldOK
  <2>8. CASE m.op = "budget_update"
    <3>1. held' = held
      BY <1>4, <2>8, Answered, HandledLists DEF Withdrawals
    <3>2. LiveOK'
      BY <1>1, <2>1, <2>8, <3>1 DEF Agreed, LiveOK, Live, Foremost
    <3>3. HeldOK'
      <4>1. CASE held \subseteq {active}
        BY <1>1, <3>1, <4>1 DEF HeldOK
      <4>2. CASE ~(held \subseteq {active})
        <5>1. PICK e \in Ids : Withdrawing(e) /\ held \subseteq {active, e}
          BY <2>8, <4>2 DEF Agreed, HeldOK, Foremost
        <5>2. agenda = <<Step("budget_update", 0), Step("drive", 0), Step("decision_delivered", e)>>
          BY <2>8, <5>1 DEF Withdrawing, Step
        <5>3. agenda' = <<Step("drive", 0), Step("decision_delivered", e)>>
          BY <2>1, <5>2 DEF Rest
        <5> QED
          BY <1>1, <3>1, <5>1, <5>3 DEF HeldOK, Withdrawing
      <4> QED
        BY <4>1, <4>2
    <3> QED
      BY <2>3, <3>2, <3>3
  <2>9. CASE m.op \notin Withdrawals \cup {"fatal_error", "session_ended", "escalation", "budget_update"}
    <3>1. held' = held
      BY <1>4, <2>9, Answered, HandledLists DEF masterVars, Withdrawals
    <3>2. m.op \notin Pending \cup {"exit"}
      BY <1>2, <2>9 DEF Pending, Withdrawals
    <3> QED
      BY <1>1, <2>1, <2>3, <3>1, <3>2, CarriesOn
  <2> QED
    BY <2>4, <2>5, <2>6, <2>7, <2>8, <2>9
<1> QED
  BY <1>3, <1>4

\* A new task, given where no escalation is live.
LEMMA ReactivateAgrees ==
  ASSUME IInv, Agreed, Reactivate, active = 0
  PROVE  HeldOK' /\ LiveOK' /\ StepsOK'
<1>1. /\ active' = 0 /\ held' = held /\ Live /\ agenda[1].op = "reactivate"
      /\ agenda' = <<Step("budget_update", 0), Step("ground", 0)>>
  BY DEF Reactivate, EndActive, At, masterVars
<1>2. held \subseteq {active}
  BY <1>1, Settled DEF Pending, Agreed
<1>3. Tame(agenda')
  BY <1>1 DEF Tame, Step, Withdrawals
<1> QED
  BY <1>1, <1>2, <1>3, TameAlone DEF HeldOK, LiveOK

\* The main task keeps the agreement.
LEMMA MainAgrees ==
  ASSUME "master" \notin Failures, IInv, Orderly, Agreed, Main, Reactivate => active = 0
  PROVE  Agreed'
<1>1. ASSUME VerifyRecorded PROVE HeldOK' /\ LiveOK' /\ StepsOK'
  BY <1>1, RaiseAgrees DEF VerifyRecorded
<1> QED
  BY <1>1, NextJobAgrees, PlainAgree, ContactAgrees, OutOfBandAgrees, TypedAgrees,
     TriagedAgrees, ToMasterAgrees, ReactivateAgrees DEF Main, Agreed

\* The agreement holds when the broker starts ...
LEMMA InitAgrees == Init => Agreed
<1> SUFFICES ASSUME Init PROVE Agreed
  OBVIOUS
<1>1. held = {} /\ active = 0
  BY DEF Init
<1>2. PICK k \in Launches : agenda = LaunchAgenda(k)
  BY DEF Init
<1>3. \A i \in DOMAIN agenda : agenda[i].op \notin Withdrawals \cup {"escalation"}
  BY <1>2 DEF LaunchAgenda, Step, Withdrawals
<1> QED
  BY <1>1, <1>3 DEF Agreed, HeldOK, LiveOK, StepsOK

\* ... and every step keeps it.
LEMMA StepAgrees ==
  ASSUME "master" \notin Failures, IInv, Orderly, Agreed, [Next]_vars,
         [Reactivate => active = 0]_vars
  PROVE  Agreed'
<1>1. CASE Main /\ (Reactivate => active = 0)
  BY <1>1, MainAgrees
<1>2. CASE Master \/ Questions \/ Session
  BY <1>2, HandlersAgree
<1>3. CASE UNCHANGED vars
  <2>1. UNCHANGED <<life, jobs, agenda, state, active, held>>
    BY <1>3 DEF vars, mainVars, escVars, masterVars
  <2> QED
    BY <2>1 DEF Agreed, HeldOK, LiveOK, StepsOK, Foremost, Withdrawing
<1> QED
  BY <1>1, <1>2, <1>3 DEF Next

\* Where every message is answered, and no completed session is given its new task while
\* an escalation is live, the master at rest holds exactly the live escalation, whatever
\* else fails: none is lost (it could not be answered) and none left over (it would
\* refuse the next) (_raise_escalation, _retract_decision, _deliver_decision).
\* _reactivate ends an escalation that a job before it raised without withdrawing it.
THEOREM MasterAgreed ==
  ASSUME "master" \notin Failures
  PROVE  Spec /\ [][Reactivate => active = 0]_vars => []MasterAgrees
<1>1. Init => Agreed
  BY InitAgrees
<1>2. IInv /\ Orderly /\ Agreed /\ [Next]_vars /\ [Reactivate => active = 0]_vars => Agreed'
  BY StepAgrees
<1>3. IInv /\ Orderly /\ Agreed => MasterAgrees
  BY AgreedAtRest
<1> QED
  BY <1>1, <1>2, <1>3, Inductive, AlwaysOrderly, PTL DEF Spec

=============================================================================

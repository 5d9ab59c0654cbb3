---------------------------- MODULE FunctionProofs ----------------------------
(***************************************************************************)
(* Proofs about the functions of HookRelay, AskAnswers, MasterTurn,        *)
(* SessionOutcome, Transcript, Retrieval and EdgeResolution, for every     *)
(* input that FunctionInputs can make of any items: what MCFunctions checks*)
(* of them on small sets.  Where a function takes its input item after     *)
(* item, an invariant of its state is shown to hold after each: the first  *)
(* item at which it would not does not exist (Least).                      *)
(***************************************************************************)
EXTENDS FunctionInputs, Integers, FiniteSets, FiniteSetTheorems, WellFoundedInduction, TLAPS

\* A set of numbers has a least one.
LEMMA Least ==
  ASSUME NEW S, S \subseteq Nat, S # {}
  PROVE  \E x \in S : \A y \in S : x <= y
<1>1. IsWellFoundedOn(OpToRel(<, Nat), Nat)
  BY NatLessThanWellFounded
<1>2. PICK x \in S : \A y \in S : ~ (<<y, x>> \in OpToRel(<, Nat))
  BY <1>1, WFMin
<1>3. \A y \in S : ~ (y < x)
  BY <1>2 DEF OpToRel
<1> QED
  BY <1>3

\* A set of numbers up to n has a greatest one.
LEMMA Greatest ==
  ASSUME NEW n \in Nat, NEW U, U \subseteq 0 .. n, U # {}
  PROVE  \E x \in U : \A y \in U : x >= y
<1> DEFINE D == {n - x : x \in U}
<1>1. D \subseteq Nat /\ D # {}
  <2>1. ASSUME NEW x \in U PROVE n - x \in Nat
    <3>1. x \in 0 .. n
      OBVIOUS
    <3> QED
      BY <3>1
  <2>2. PICK x \in U : TRUE
    OBVIOUS
  <2>3. n - x \in D
    OBVIOUS
  <2> QED
    BY <2>1, <2>3
<1>2. PICK d \in D : \A e \in D : d <= e
  BY <1>1, Least
<1>3. PICK x \in U : d = n - x
  OBVIOUS
<1>4. ASSUME NEW y \in U PROVE x >= y
  <2>1. n - x <= n - y
    BY <1>2, <1>3
  <2>2. x \in 0 .. n /\ y \in 0 .. n
    OBVIOUS
  <2> QED
    BY <2>1, <2>2
<1> QED
  BY <1>4

\* The m elements of S, numbers up to n, in order.
InOrder(at, m, S, n) ==
  /\ at \in [1 .. m -> 1 .. n]
  /\ \A i, j \in 1 .. m : i < j => at[i] < at[j]
  /\ S \subseteq 1 .. n
  /\ \A j \in 1 .. n : j \in S <=> \E i \in 1 .. m : at[i] = j

\* The place of an element, by counting.
LEMMA Counted ==
  ASSUME NEW n \in Nat, NEW m \in Nat, NEW at, NEW S, InOrder(at, m, S, n)
  PROVE  /\ Cardinality(S) = m
         /\ \A i \in 1 .. m : at[i] \in S /\ Cardinality({k \in S : k <= at[i]}) = i
<1> USE DEF InOrder
<1>1. ASSUME NEW i \in 0 .. m
      PROVE  Cardinality({at[x] : x \in 1 .. i}) = i
  <2> DEFINE U == {at[x] : x \in 1 .. i}
             f == [x \in 1 .. i |-> at[x]]
  <2>1. f \in Bijection(1 .. i, U)
    <3>1. \A x, y \in 1 .. i : x # y => at[x] # at[y]
      <4>1. 1 .. i \subseteq 1 .. m
        OBVIOUS
      <4>2. \A x \in 1 .. m : at[x] \in 1 .. n
        OBVIOUS
      <4> QED
        BY <4>1, <4>2
    <3>2. f \in Surjection(1 .. i, U)
      BY DEF Surjection
    <3>3. f \in Injection(1 .. i, U)
      BY <3>1 DEF Injection, IsInjective
    <3> QED
      BY <3>2, <3>3 DEF Bijection
  <2>2. IsFiniteSet(1 .. i) /\ Cardinality(1 .. i) = i
    BY FS_Interval
  <2> QED
    BY <2>1, <2>2, FS_Bijection DEF ExistsBijection
<1>2. \A x \in 1 .. m : at[x] \in 1 .. n
  OBVIOUS
<1>3. S = {at[x] : x \in 1 .. m}
  BY <1>2
<1>4. ASSUME NEW i \in 1 .. m
      PROVE  at[i] \in S /\ Cardinality({k \in S : k <= at[i]}) = i
  <2>1. \A x \in 1 .. m : at[x] <= at[i] <=> x <= i
    <3>1. \A x \in 1 .. m : (x < i => at[x] < at[i]) /\ (i < x => at[i] < at[x])
      OBVIOUS
    <3> QED
      BY <1>2, <3>1
  <2>2. {k \in S : k <= at[i]} = {at[x] : x \in 1 .. i}
    BY <1>3, <2>1
  <2>3. i \in 0 .. m /\ at[i] \in S
    BY <1>3
  <2> QED
    BY <1>1, <2>2, <2>3
<1>5. Cardinality(S) = m
  BY <1>1, <1>3
<1> QED
  BY <1>4, <1>5

-----------------------------------------------------------------------------
(* hook/__main__.py                                                        *)

\* A reply that is read is a line whose parts came one after the other.
LEMMA WholeLine ==
  ASSUME NEW conversation \in Seq({"part", "line", "closed", "silent"}),
         H!ReadsLine(conversation)
  PROVE  \E i \in DOMAIN conversation :
           conversation[i] = "line" /\ \A j \in 1 .. i - 1 : conversation[j] = "part"
<1> DEFINE I == {i \in 1 .. Len(conversation) : conversation[i] # "part"}
           first == H!SelectInSeq(conversation, LAMBDA c : c # "part")
<1>1. I # {} /\ I \subseteq Nat
  BY DEF H!ReadsLine
<1>2. first = H!Min(I)
  BY <1>1 DEF H!SelectInSeq
<1>3. first \in I /\ \A j \in I : first <= j
  BY <1>1, <1>2, Least DEF H!Min
<1>4. first - 1 + 1 = first
  BY <1>1, <1>3
<1>5. conversation[first] = "line"
  BY <1>4 DEF H!ReadsLine
<1> HIDE DEF first
<1> QED
  BY <1>3, <1>5

\* The hook never prints what the broker did not say, and never speaks up by itself.
LEMMA PrintsNothingElse ==
  ASSUME NEW payload, NEW gate \in BOOLEAN,
         NEW conversation \in Seq({"part", "line", "closed", "silent"}), NEW reply
  PROVE  H!PrintsWhatTheBrokerSaid(payload, gate, conversation, reply)
<1> DEFINE sent == H!Sent(payload, gate)
           out  == H!Printed(payload, gate, conversation, reply)
<1> SUFFICES ASSUME out # "nothing"
             PROVE  /\ gate /\ reply.payload
                    /\ \E i \in DOMAIN conversation :
                         conversation[i] = "line" /\ \A j \in 1 .. i - 1 : conversation[j] = "part"
                    /\ \/ /\ out = "allow"
                          /\ payload.event = "PermissionRequest" /\ reply.decision = "allow"
                       \/ /\ out = "answers"
                          /\ payload.tool = "AskUserQuestion" /\ payload.event = "PreToolUse"
                          /\ reply.decision = "answer" /\ reply.updated
  BY DEF H!PrintsWhatTheBrokerSaid
<1>1. /\ H!ReadsLine(conversation) /\ reply.payload
      /\ \/ out = "allow" /\ sent = "permission_request" /\ H!Allows(reply)
         \/ out = "answers" /\ sent = "ask_question" /\ H!Answers(reply)
  BY DEF H!Printed
<1>2. /\ sent # "nothing" => gate
      /\ sent = "permission_request" => payload.event = "PermissionRequest"
      /\ sent = "ask_question" => H!IsAsk(payload)
  BY DEF H!Sent
<1> HIDE DEF sent, out
<1> QED
  BY <1>1, <1>2, WholeLine DEF H!IsAsk, H!Allows, H!Answers

-----------------------------------------------------------------------------
(* session/ask.py                                                          *)

\* The question that a text of the menu names.
LEMMA QuestionNamed ==
  ASSUME NEW menu \in Seq(Question), NEW text \in A!Texts(menu)
  PROVE  A!ByText(menu, text) \in Question /\ A!ByText(menu, text).text = text
<1> DEFINE I == {i \in 1 .. Len(menu) : menu[i].text = text}
           last == A!SelectLastInSeq(menu, LAMBDA q : q.text = text)
<1>1. I # {} /\ I \subseteq 0 .. Len(menu)
  BY DEF A!Texts
<1>2. last = A!Max(I)
  BY <1>1 DEF A!SelectLastInSeq
<1>3. last \in I
  <2> HIDE DEF I, last
  <2>1. Len(menu) \in Nat
    OBVIOUS
  <2>2. \E x \in I : \A y \in I : x >= y
    BY <1>1, <2>1, Greatest
  <2> QED
    BY <1>2, <2>2 DEF A!Max
<1>4. A!ByText(menu, text) = menu[last]
  BY DEF A!ByText
<1> HIDE DEF last
<1> QED
  BY <1>3, <1>4

\* The answer of valid answers to a question.
LEMMA AnswerFound ==
  ASSUME NEW menu \in Seq(Question), NEW answers \in Seq(Answer),
         A!Covers(answers, menu), NEW text \in A!Texts(menu)
  PROVE  LET i == A!SelectInSeq(answers, LAMBDA a : a.question = text)
         IN  i \in DOMAIN answers /\ answers[i].question = text
<1> DEFINE I == {i \in 1 .. Len(answers) : answers[i].question = text}
           first == A!SelectInSeq(answers, LAMBDA a : a.question = text)
<1>1. I # {} /\ I \subseteq Nat
  BY DEF A!Covers
<1>2. first = A!Min(I)
  BY <1>1 DEF A!SelectInSeq
<1>3. first \in I
  BY <1>1, <1>2, Least DEF A!Min
<1>4. first \in DOMAIN answers /\ answers[first].question = text
  <2> HIDE DEF first
  <2> QED
    BY <1>3
<1> QED
  BY <1>4 DEF first

LEMMA NotBlank ==
  ASSUME NEW text \in STRING, text # "" PROVE <<text>> # <<"">>
<1>1. <<text>>[1] = text /\ <<"">>[1] = ""
  OBVIOUS
<1> QED
  BY <1>1

\* What a fitting answer is sent as.
LEMMA WireFits ==
  ASSUME NEW question \in Question, NEW answer \in Answer, A!Fits(answer, question),
         answer.question = question.text,
         NEW reply, answer \in A!ToSet(reply.calls[1].answers)
  PROVE  A!Takes(question, A!WireValue(answer, question), reply)
<1> DEFINE wire == A!WireValue(answer, question)
<1>1. CASE answer.free # ""
  <2>1. wire = [form |-> "text", value |-> <<answer.free>>]
    BY <1>1 DEF A!WireValue
  <2>2. wire.form = "text" /\ wire.value = <<answer.free>> /\ Len(wire.value) = 1
    BY <2>1
  <2>3. wire.value # <<"">>
    BY <1>1, <2>2, NotBlank DEF Answer
  <2> HIDE DEF wire
  <2>4. A!Takes(question, wire, reply)
    BY <2>2, <2>3 DEF A!Takes
  <2> QED
    BY <2>4 DEF wire
<1>2. CASE answer.free = ""
  <2>1. wire = [form |-> IF question.multi THEN "labels" ELSE "text", value |-> answer.selected]
    BY <1>2 DEF A!WireValue
  <2>2. /\ wire.form = IF question.multi THEN "labels" ELSE "text"
        /\ wire.value = answer.selected
    BY <2>1
  <2>3. /\ answer.selected # <<>>
        /\ A!ToSet(answer.selected) \subseteq A!ToSet(question.options)
        /\ \A i, j \in DOMAIN answer.selected : answer.selected[i] = answer.selected[j] => i = j
        /\ ~question.multi => Len(answer.selected) = 1
    BY <1>2 DEF A!Fits
  <2> HIDE DEF wire
  <2>4. A!Takes(question, wire, reply)
    BY <2>2, <2>3 DEF A!Takes
  <2> QED
    BY <2>4 DEF wire
<1> QED
  BY <1>1, <1>2

\* Valid answers of a reply, on the wire.
LEMMA ValidTaken ==
  ASSUME NEW menu \in Seq(Question), NEW reply \in AskReply, Len(reply.calls) = 1,
         A!Valid(reply.calls[1].answers, menu)
  PROVE  LET wire == A!Wire(reply.calls[1].answers, menu) IN
         /\ DOMAIN wire = A!Texts(menu)
         /\ \A text \in A!Texts(menu) : A!Takes(A!ByText(menu, text), wire[text], reply)
<1> DEFINE answers == reply.calls[1].answers
           wire    == A!Wire(answers, menu)
<1>1. answers \in Seq(Answer)
  <2> DEFINE calls == reply.calls
  <2>1. calls \in Seq(AskCall)
    BY DEF AskReply
  <2>2. 1 \in DOMAIN calls
    BY <2>1
  <2> HIDE DEF calls
  <2>3. calls[1] \in AskCall
    BY <2>1, <2>2
  <2>4. calls[1].answers \in Seq(Answer)
    BY <2>3 DEF AskCall
  <2> QED
    BY <2>4 DEF calls
<1>2. DOMAIN wire = A!Texts(menu)
  BY DEF A!Wire
<1>3. ASSUME NEW text \in A!Texts(menu)
      PROVE  A!Takes(A!ByText(menu, text), wire[text], reply)
  <2> DEFINE i == A!SelectInSeq(answers, LAMBDA a : a.question = text)
             q == A!ByText(menu, text)
  <2>1. wire[text] = A!WireValue(answers[i], q)
    BY DEF A!Wire
  <2>2. i \in DOMAIN answers /\ answers[i].question = text
    BY <1>1, AnswerFound DEF A!Valid
  <2>3. q \in Question /\ q.text = text
    BY QuestionNamed
  <2>4. A!Fits(answers[i], A!ByText(menu, answers[i].question))
    BY <2>2 DEF A!Valid
  <2>5. answers[i] \in Answer /\ answers[i] \in A!ToSet(answers)
    <3> HIDE DEF answers, i
    <3> QED
      BY <1>1, <2>2 DEF A!ToSet
  <2> HIDE DEF i, q, wire
  <2>6. A!Takes(q, A!WireValue(answers[i], q), reply)
    BY <2>2, <2>3, <2>4, <2>5, WireFits DEF q
  <2> QED
    BY <2>1, <2>6 DEF q
<1> QED
  BY <1>2, <1>3

\* Nothing that does not fit is ever put into a menu, for any menu and any replies.
LEMMA NothingElseFits ==
  ASSUME NEW menu \in Seq(Question), NEW first \in AskReply, NEW second \in AskReply
  PROVE  A!AnswersFitTheMenu(first, second, menu)
<1> DEFINE d == A!Decide(first, second, menu)
<1>1. ASSUME NEW reply \in AskReply
      PROVE  /\ A!AskOnce(reply) \in {"answer_questions", "escalate", "error"}
             /\ A!AskOnce(reply) # "error" =>
                  /\ ~reply.failed /\ reply.stop = "tool_use" /\ Len(reply.calls) = 1
                  /\ A!AskOnce(reply) = reply.calls[1].name
  BY DEF A!AskOnce, A!Chooses, A!CallsOneTool, A!Usable, A!Tools, AskReply
<1>2. ASSUME NEW reply \in {first, second},
             d = A!Decision(A!AskOnce(reply), A!NoWire), A!AskOnce(reply) # "answer_questions"
      PROVE  A!AnswersFitTheMenu(first, second, menu)
  <2>1. d.kind = A!AskOnce(reply)
    BY <1>2 DEF A!Decision
  <2> HIDE DEF d
  <2>2. reply \in AskReply
    OBVIOUS
  <2> QED
    BY <1>1, <1>2, <2>1, <2>2 DEF A!AnswersFitTheMenu, d
<1>3. ASSUME NEW reply \in {first, second},
             d = A!Decision("answer_questions", A!Wire(reply.calls[1].answers, menu)),
             A!AskOnce(reply) = "answer_questions", A!Valid(reply.calls[1].answers, menu)
      PROVE  A!AnswersFitTheMenu(first, second, menu)
  <2>1. d.kind = "answer_questions" /\ d.wire = A!Wire(reply.calls[1].answers, menu)
    BY <1>3 DEF A!Decision
  <2>2. reply \in AskReply
    OBVIOUS
  <2>3. Len(reply.calls) = 1
    BY <1>1, <1>3, <2>2
  <2> HIDE DEF d
  <2>4. /\ DOMAIN d.wire = A!Texts(menu)
        /\ \A text \in A!Texts(menu) : A!Takes(A!ByText(menu, text), d.wire[text], reply)
    BY <1>3, <2>1, <2>2, <2>3, ValidTaken
  <2> QED
    BY <2>1, <2>4 DEF A!AnswersFitTheMenu, d
<1>4. CASE d = A!Decision("error", A!NoWire)
  <2>1. d.kind = "error"
    BY <1>4 DEF A!Decision
  <2> HIDE DEF d
  <2> QED
    BY <2>1 DEF A!AnswersFitTheMenu, d
<1>5. \/ /\ d = A!Decision(A!AskOnce(first), A!NoWire) /\ A!AskOnce(first) # "answer_questions"
      \/ /\ d = A!Decision("answer_questions", A!Wire(first.calls[1].answers, menu))
         /\ A!AskOnce(first) = "answer_questions" /\ A!Valid(first.calls[1].answers, menu)
      \/ /\ d = A!Decision(A!AskOnce(second), A!NoWire) /\ A!AskOnce(second) # "answer_questions"
      \/ /\ d = A!Decision("answer_questions", A!Wire(second.calls[1].answers, menu))
         /\ A!AskOnce(second) = "answer_questions" /\ A!Valid(second.calls[1].answers, menu)
      \/ d = A!Decision("error", A!NoWire)
  BY DEF A!Decide, A!Retry
<1> HIDE DEF d
<1> QED
  BY <1>2, <1>3, <1>4, <1>5

-----------------------------------------------------------------------------
(* master/llm.py                                                           *)

Roles   == {"developer", "assistant", "tool", "torn"}
Text    == STRING \cup {"", L!NoReply}
LogLine == [role : Roles, text : Text]
Ids     == Seq(Nat \X Nat)
Message == [role : {"user"}, window : Seq(LogLine)] \cup [role : {"assistant"}, uses : Ids]
           \cup [role : {"user"}, results : Ids]
Turn    == [log : Seq(LogLine), running : BOOLEAN, round : Nat, messages : Seq(Message),
            reply : Text, requests : Seq(Seq(Message)), ran : Seq(STRING), unlogged : BOOLEAN]

\* The ids of a round.
RoundIds(round, n) == [i \in 1 .. n |-> <<round, i>>]

\* The list of messages of a turn after some rounds.
Sound(messages, round) ==
  /\ messages \in Seq(Message) /\ Len(messages) = 2 * round + 1
  /\ messages[1].role = "user" /\ messages[Len(messages)].role = "user"
  /\ \A i \in 1 .. Len(messages) :
       \/ messages[i].role = "user"
       \/ \E k \in 0 .. round - 1, n \in Nat :
            /\ i = 2 * k + 2
            /\ messages[i].role = "assistant" /\ messages[i].uses = RoundIds(k, n)
            /\ messages[i + 1].role = "user" /\ messages[i + 1].results = RoundIds(k, n)

\* The log is what was there when the turn began, and the lines of the turn.
AtDeveloper(before) == before # <<>> => before[Len(before)].role = "developer"
NoDeveloper(lines)  == \A i \in 1 .. Len(lines) : lines[i].role # "developer"
Split(log, before, lines) ==
  /\ before \in Seq(LogLine) /\ lines \in Seq(LogLine) /\ log = before \o lines
  /\ AtDeveloper(before) /\ NoDeveloper(lines)

Kept(c) == \E before, lines : Split(c.log, before, lines) /\ L!LinesTell(c, lines)

Asked(c) == \A i \in DOMAIN c.requests :
              \E round \in 0 .. MaxToolRounds - 1 : Sound(c.requests[i], round)

Good(c) ==
  /\ c \in Turn /\ Kept(c) /\ Asked(c)
  /\ c.running => ~c.unlogged /\ c.round < MaxToolRounds /\ Sound(c.messages, c.round)

\* A list of messages that the interface accepts.
LEMMA SoundWellFormed ==
  ASSUME NEW messages, NEW round \in Nat, Sound(messages, round)
  PROVE  L!WellFormed(messages)
<1> DEFINE calls == {i \in DOMAIN messages : messages[i].role = "assistant"}
<1>1. messages \in Seq(Message) /\ Len(messages) = 2 * round + 1
  BY DEF Sound
<1>2. ASSUME NEW i \in calls
      PROVE  \E k \in Nat, n \in Nat :
               /\ i = 2 * k + 2 /\ messages[i].uses = RoundIds(k, n)
               /\ messages[i + 1].role = "user" /\ messages[i + 1].results = messages[i].uses
  <2>1. i \in 1 .. Len(messages) /\ messages[i].role # "user"
    BY <1>1
  <2>2. PICK k \in 0 .. round - 1, n \in Nat :
            /\ i = 2 * k + 2
            /\ messages[i].role = "assistant" /\ messages[i].uses = RoundIds(k, n)
            /\ messages[i + 1].role = "user" /\ messages[i + 1].results = RoundIds(k, n)
    BY <2>1 DEF Sound
  <2> QED
    BY <2>2
<1>3. ASSUME NEW i \in calls, NEW j \in calls, i # j
      PROVE  L!ToSet(messages[i].uses) \cap L!ToSet(messages[j].uses) = {}
  <2>1. PICK k \in Nat, n \in Nat : i = 2 * k + 2 /\ messages[i].uses = RoundIds(k, n)
    BY <1>2
  <2>2. PICK l \in Nat, m \in Nat : j = 2 * l + 2 /\ messages[j].uses = RoundIds(l, m)
    BY <1>2
  <2>3. k # l
    BY <1>3, <2>1, <2>2
  <2>4. \A id \in L!ToSet(RoundIds(k, n)) : id[1] = k
    BY DEF L!ToSet, RoundIds
  <2>5. \A id \in L!ToSet(RoundIds(l, m)) : id[1] = l
    BY DEF L!ToSet, RoundIds
  <2> QED
    BY <2>1, <2>2, <2>3, <2>4, <2>5
<1>4. Head(messages).role = "user" /\ L!Last(messages).role = "user"
  BY <1>1 DEF Sound, L!Last
<1> HIDE DEF calls
<1>5. /\ \A i \in calls : messages[i + 1].role = "user" /\ messages[i + 1].results = messages[i].uses
      /\ \A i, j \in calls : i # j => L!ToSet(messages[i].uses) \cap L!ToSet(messages[j].uses) = {}
  BY <1>2, <1>3
<1> QED
  BY <1>4, <1>5 DEF L!WellFormed, calls

\* Sequences with the same items are the same.
LEMMA SameItems ==
  ASSUME NEW S, NEW a \in Seq(S), NEW b \in Seq(S), Len(a) = Len(b),
         \A i \in 1 .. Len(a) : a[i] = b[i]
  PROVE  a = b
OBVIOUS

LEMMA Associative ==
  ASSUME NEW S, NEW a \in Seq(S), NEW b \in Seq(S), NEW c \in Seq(S)
  PROVE  (a \o b) \o c = a \o (b \o c)
<1>1. (a \o b) \o c \in Seq(S) /\ a \o (b \o c) \in Seq(S)
  OBVIOUS
<1>2. Len((a \o b) \o c) = Len(a \o (b \o c))
  OBVIOUS
<1>3. \A i \in 1 .. Len((a \o b) \o c) : ((a \o b) \o c)[i] = (a \o (b \o c))[i]
  OBVIOUS
<1> QED
  BY <1>1, <1>2, <1>3, SameItems

LEMMA LogJoined ==
  ASSUME NEW a \in Seq(LogLine), NEW b \in Seq(LogLine)
  PROVE  a \o b \in Seq(LogLine) /\ Len(a \o b) = Len(a) + Len(b)
OBVIOUS

LEMMA Single ==
  ASSUME NEW a \in Seq(LogLine), Len(a) = 1, NEW x \in LogLine, a[1] = x
  PROVE  a = <<x>>
<1>1. <<x>> \in Seq(LogLine) /\ Len(<<x>>) = 1 /\ <<x>>[1] = x
  OBVIOUS
<1>2. \A i \in 1 .. Len(a) : a[i] = <<x>>[i]
  OBVIOUS
<1> QED
  BY <1>1, <1>2, SameItems

LEMMA FrontOf ==
  ASSUME NEW a \in Seq(LogLine), NEW x \in LogLine
  PROVE  /\ a \o <<x>> = Append(a, x) /\ Append(a, x) # <<>>
         /\ L!Front(Append(a, x)) = a /\ L!Last(Append(a, x)) = x
<1>1. Append(a, x) \in Seq(LogLine) /\ Len(Append(a, x)) = Len(a) + 1 /\ Len(a) \in Nat
  OBVIOUS
<1>2. a \o <<x>> = Append(a, x)
  <2>1. a \o <<x>> \in Seq(LogLine) /\ Len(a \o <<x>>) = Len(a) + 1
    OBVIOUS
  <2>2. \A i \in 1 .. Len(a) + 1 : (a \o <<x>>)[i] = Append(a, x)[i]
    OBVIOUS
  <2> QED
    BY <1>1, <2>1, <2>2, SameItems
<1>3. SubSeq(Append(a, x), 1, Len(a)) = a
  <2>1. SubSeq(Append(a, x), 1, Len(a)) \in Seq(LogLine) /\ Len(SubSeq(Append(a, x), 1, Len(a))) = Len(a)
    BY <1>1
  <2>2. \A i \in 1 .. Len(a) : SubSeq(Append(a, x), 1, Len(a))[i] = a[i]
    BY <1>1
  <2> QED
    BY <2>1, <2>2, SameItems
<1>4. Append(a, x)[Len(a) + 1] = x
  OBVIOUS
<1> QED
  BY <1>1, <1>2, <1>3, <1>4 DEF L!Front, L!Last

\* The lines of a turn are found from its developer's line.
LEMMA TurnLinesAre ==
  ASSUME NEW log, NEW before, NEW lines, Split(log, before, lines)
  PROVE  L!TurnLines(log) = lines
<1> DEFINE b == Len(before)
           m == Len(lines)
           I == {i \in 1 .. Len(log) : log[i].role = "developer"}
<1>1. before \in Seq(LogLine) /\ lines \in Seq(LogLine) /\ log = before \o lines
  BY DEF Split
<1>2. /\ b \in Nat /\ m \in Nat /\ log \in Seq(LogLine) /\ Len(log) = b + m
      /\ \A i \in 1 .. b : log[i] = before[i]
      /\ \A i \in 1 .. m : log[b + i] = lines[i]
  BY <1>1
<1>3. \A i \in 1 .. m : lines[i].role # "developer"
  BY DEF Split, NoDeveloper
<1>4. b # 0 => before[b].role = "developer"
  BY <1>1 DEF Split, AtDeveloper
<1> HIDE DEF b, m
<1>5. \A i \in 1 .. b + m : i \in 1 .. b \/ \E k \in 1 .. m : i = b + k
  <2> SUFFICES ASSUME NEW i \in 1 .. b + m, i \notin 1 .. b PROVE \E k \in 1 .. m : i = b + k
    OBVIOUS
  <2>1. i - b \in 1 .. m /\ i = b + (i - b)
    BY <1>2
  <2> QED
    BY <2>1
<1>6. I \subseteq 1 .. b /\ (b # 0 => b \in I)
  <2>1. ASSUME NEW i \in I PROVE i \in 1 .. b
    <3>1. i \in 1 .. b + m /\ log[i].role = "developer"
      BY <1>2
    <3>2. CASE \E k \in 1 .. m : i = b + k
      BY <1>2, <1>3, <3>1, <3>2
    <3> QED
      BY <1>5, <3>1, <3>2
  <2>2. b # 0 => b \in I
    BY <1>2, <1>4
  <2> QED
    BY <2>1, <2>2
<1>7. L!SelectLastInSeq(log, LAMBDA row : row.role = "developer") = b
  <2>1. L!SelectLastInSeq(log, LAMBDA row : row.role = "developer") = IF I # {} THEN L!Max(I) ELSE 0
    BY DEF L!SelectLastInSeq
  <2> HIDE DEF I
  <2>2. CASE b = 0
    <3>1. I = {}
      BY <1>6, <2>2
    <3> QED
      BY <2>1, <2>2, <3>1
  <2>3. CASE b # 0
    <3>1. b \in I /\ \A y \in I : b >= y
      BY <1>2, <1>6, <2>3
    <3>2. \A x \in I : (\A y \in I : x >= y) => x = b
      BY <1>2, <1>6, <3>1
    <3>3. L!Max(I) = b
      BY <3>1, <3>2 DEF L!Max
    <3> QED
      BY <2>1, <3>1, <3>3
  <2> QED
    BY <2>2, <2>3
<1>8. SubSeq(log, b + 1, Len(log)) = lines
  <2> DEFINE sub == SubSeq(log, b + 1, b + m)
  <2>1. sub \in Seq(LogLine) /\ Len(sub) = m
    BY <1>2
  <2>2. \A i \in 1 .. m : sub[i] = lines[i]
    <3>1. \A i \in 1 .. m : sub[i] = log[b + i]
      BY <1>2
    <3> QED
      BY <1>2, <3>1
  <2> HIDE DEF sub
  <2>3. sub = lines
    BY <1>1, <2>1, <2>2, SameItems DEF m
  <2> QED
    BY <1>2, <2>3 DEF sub
<1> QED
  BY <1>7, <1>8 DEF L!TurnLines

LEMMA KeptRecorded ==
  ASSUME NEW c \in Turn, Kept(c), c.running => ~c.unlogged
  PROVE  L!Recorded(c)
<1>1. PICK before, lines : Split(c.log, before, lines) /\ L!LinesTell(c, lines)
  BY DEF Kept
<1>2. L!TurnLines(c.log) = lines
  BY <1>1, TurnLinesAre
<1> QED
  BY <1>1, <1>2 DEF L!Recorded

\* While a turn runs its lines are those of its tools.
LEMMA KeptRunning ==
  ASSUME NEW c \in Turn, Kept(c), c.running, ~c.unlogged
  PROVE  \E before : Split(c.log, before, L!Lines(c.ran))
<1>1. PICK before, lines : Split(c.log, before, lines) /\ L!LinesTell(c, lines)
  BY DEF Kept
<1>2. lines = L!Lines(c.ran)
  BY <1>1 DEF L!LinesTell
<1> QED
  BY <1>1, <1>2

\* More lines of the turn.
LEMMA MoreLines ==
  ASSUME NEW log, NEW before, NEW lines, Split(log, before, lines),
         NEW more \in Seq(LogLine), NoDeveloper(more)
  PROVE  Split(log \o more, before, lines \o more)
<1>1. before \in Seq(LogLine) /\ lines \in Seq(LogLine) /\ log = before \o lines /\ AtDeveloper(before)
  BY DEF Split
<1>2. log \o more = before \o (lines \o more) /\ lines \o more \in Seq(LogLine)
  BY <1>1, Associative
<1>3. NoDeveloper(lines \o more)
  <2>1. \A i \in 1 .. Len(lines) : lines[i].role # "developer"
    BY DEF Split, NoDeveloper
  <2>2. \A i \in 1 .. Len(more) : more[i].role # "developer"
    BY DEF NoDeveloper
  <2>3. ASSUME NEW i \in 1 .. Len(lines \o more)
        PROVE  (lines \o more)[i].role # "developer"
    <3>1. CASE i \in 1 .. Len(lines)
      <4>1. (lines \o more)[i] = lines[i]
        BY <1>1, <3>1
      <4> QED
        BY <2>1, <3>1, <4>1
    <3>2. CASE i \notin 1 .. Len(lines)
      <4>1. i - Len(lines) \in 1 .. Len(more) /\ (lines \o more)[i] = more[i - Len(lines)]
        BY <1>1, <3>2
      <4> QED
        BY <2>2, <4>1
    <3> QED
      BY <3>1, <3>2
  <2> QED
    BY <2>3 DEF NoDeveloper
<1> QED
  BY <1>1, <1>2, <1>3 DEF Split

\* The lines of tools.
LEMMA LinesTyped ==
  ASSUME NEW tools \in Seq(STRING)
  PROVE  /\ L!Lines(tools) \in Seq(LogLine) /\ Len(L!Lines(tools)) = Len(tools)
         /\ \A i \in 1 .. Len(tools) : L!Lines(tools)[i] = L!Row("tool", tools[i])
         /\ NoDeveloper(L!Lines(tools))
<1>1. \A i \in 1 .. Len(tools) : /\ L!Row("tool", tools[i]) \in LogLine
                                 /\ L!Row("tool", tools[i]).role = "tool"
  <2>1. ASSUME NEW name \in STRING
        PROVE  L!Row("tool", name) \in LogLine /\ L!Row("tool", name).role = "tool"
    BY DEF L!Row, LogLine, Roles, Text
  <2>2. \A i \in 1 .. Len(tools) : tools[i] \in STRING
    OBVIOUS
  <2> QED
    BY <2>1, <2>2
<1>2. L!Lines(tools) = [i \in 1 .. Len(tools) |-> L!Row("tool", tools[i])]
  BY DEF L!Lines
<1> HIDE DEF L!Row
<1>3. L!Lines(tools) \in Seq(LogLine) /\ Len(L!Lines(tools)) = Len(tools)
  BY <1>1, <1>2
<1>4. \A i \in 1 .. Len(tools) : L!Lines(tools)[i] = L!Row("tool", tools[i])
  BY <1>2
<1>5. "tool" # "developer"
  OBVIOUS
<1> QED
  BY <1>1, <1>3, <1>4, <1>5 DEF NoDeveloper

LEMMA LinesJoined ==
  ASSUME NEW tools \in Seq(STRING), NEW more \in Seq(STRING)
  PROVE  L!Lines(tools \o more) = L!Lines(tools) \o L!Lines(more)
<1> DEFINE all == tools \o more
           a   == L!Lines(tools)
           b   == L!Lines(more)
<1>1. all \in Seq(STRING) /\ Len(all) = Len(tools) + Len(more)
  OBVIOUS
<1>2. /\ \A i \in 1 .. Len(tools) : all[i] = tools[i]
      /\ \A i \in 1 .. Len(more) : all[Len(tools) + i] = more[i]
  OBVIOUS
<1> HIDE DEF all
<1>3. /\ a \in Seq(LogLine) /\ Len(a) = Len(tools)
      /\ \A i \in 1 .. Len(tools) : a[i] = L!Row("tool", tools[i])
  BY LinesTyped
<1>4. /\ b \in Seq(LogLine) /\ Len(b) = Len(more)
      /\ \A i \in 1 .. Len(more) : b[i] = L!Row("tool", more[i])
  BY LinesTyped
<1>5. /\ L!Lines(all) \in Seq(LogLine) /\ Len(L!Lines(all)) = Len(all)
      /\ \A i \in 1 .. Len(all) : L!Lines(all)[i] = L!Row("tool", all[i])
  BY <1>1, LinesTyped
<1> HIDE DEF a, b
<1>6. a \o b \in Seq(LogLine) /\ Len(a \o b) = Len(all)
  <2>1. a \o b \in Seq(LogLine) /\ Len(a \o b) = Len(a) + Len(b)
    BY <1>3, <1>4, LogJoined
  <2> QED
    BY <1>1, <1>3, <1>4, <2>1
<1>7. ASSUME NEW i \in 1 .. Len(all)
      PROVE  L!Lines(all)[i] = (a \o b)[i]
  <2>1. CASE i \in 1 .. Len(tools)
    <3>1. (a \o b)[i] = a[i]
      BY <1>3, <1>4, <2>1
    <3> QED
      BY <1>2, <1>3, <1>5, <2>1, <3>1
  <2>2. CASE i \notin 1 .. Len(tools)
    <3>1. PICK k \in 1 .. Len(more) : i = Len(tools) + k
      <4>1. i - Len(tools) \in 1 .. Len(more) /\ i = Len(tools) + (i - Len(tools))
        BY <1>1, <2>2
      <4> QED
        BY <4>1
    <3>2. (a \o b)[i] = b[k]
      BY <1>3, <1>4, <3>1
    <3>3. all[i] = more[k]
      BY <1>2, <3>1
    <3> QED
      BY <1>4, <1>5, <3>2, <3>3
  <2> QED
    BY <2>1, <2>2
<1>8. L!Lines(all) = a \o b
  <2> DEFINE l == L!Lines(all)
  <2>1. l \in Seq(LogLine) /\ Len(l) = Len(all) /\ \A i \in 1 .. Len(l) : l[i] = (a \o b)[i]
    BY <1>5, <1>7
  <2> HIDE DEF l
  <2>2. l = a \o b
    BY <1>6, <2>1, SameItems
  <2> QED
    BY <2>2 DEF l
<1> QED
  BY <1>8 DEF all, a, b

\* The calls of a round that run are its first ones.
LEMMA RunsFirst ==
  ASSUME NEW calls \in Seq(TurnCall)
  PROVE  /\ L!Runs(calls) \in Seq(TurnCall) /\ Len(L!Runs(calls)) <= Len(calls)
         /\ L!Runs(calls) # calls => Len(L!Runs(calls)) < Len(calls)
<1> DEFINE I == {i \in 1 .. Len(calls) : calls[i].end # "runs"}
           first == L!SelectInSeq(calls, LAMBDA k : k.end # "runs")
<1>1. first \in 0 .. Len(calls)
  <2>1. CASE I = {}
    <3>1. first = 0
      BY <2>1 DEF L!SelectInSeq
    <3> QED
      BY <3>1
  <2>2. CASE I # {}
    <3>1. first = L!Min(I)
      BY <2>2 DEF L!SelectInSeq
    <3>2. I \subseteq Nat
      OBVIOUS
    <3> HIDE DEF first
    <3>3. first \in I
      BY <2>2, <3>1, <3>2, Least DEF L!Min
    <3> QED
      BY <3>3
  <2> QED
    BY <2>1, <2>2
<1>2. L!Runs(calls) = IF first = 0 THEN calls ELSE SubSeq(calls, 1, first - 1)
  BY DEF L!Runs
<1> HIDE DEF first
<1>3. CASE first = 0
  BY <1>2, <1>3
<1>4. CASE first # 0
  <2>1. first - 1 \in 0 .. Len(calls) - 1
    BY <1>1, <1>4
  <2>2. /\ SubSeq(calls, 1, first - 1) \in Seq(TurnCall)
        /\ Len(SubSeq(calls, 1, first - 1)) = first - 1
    BY <2>1
  <2> QED
    BY <1>2, <1>4, <2>1, <2>2
<1> QED
  BY <1>3, <1>4

LEMMA TornTyped == L!Torn \in LogLine /\ L!Torn.role = "torn"
BY DEF L!Torn, L!Row, LogLine, Roles, Text

\* What a round leaves: the tools with a line, and at most one without.
LEMMA RoundParts ==
  ASSUME NEW calls \in Seq(TurnCall)
  PROVE  /\ L!Ran(calls) \in Seq(STRING)
         /\ \/ L!Unwritten(calls) = <<>> /\ L!Cut(calls) = <<>>
            \/ /\ \E name \in STRING : L!Unwritten(calls) = <<name>>
               /\ L!Cut(calls) \in {<<>>, <<L!Torn>>} /\ L!Stops(calls) # "runs"
<1> DEFINE runs == L!Runs(calls)
<1>1. runs \in Seq(TurnCall) /\ Len(runs) <= Len(calls) /\ (runs # calls => Len(runs) < Len(calls))
  BY RunsFirst
<1>2. L!Ran(calls) = [i \in DOMAIN runs |-> calls[i].name]
  BY DEF L!Ran
<1>3. L!Stops(calls) # "runs" => runs # calls
  BY DEF L!Stops
<1> HIDE DEF runs
<1>4. \A i \in 1 .. Len(calls) : calls[i].name \in STRING
  <2> TAKE i \in 1 .. Len(calls)
  <2>1. calls[i] \in TurnCall
    OBVIOUS
  <2> QED
    BY <2>1 DEF TurnCall
<1>5. L!Ran(calls) \in Seq(STRING)
  <2>1. \A i \in 1 .. Len(runs) : calls[i].name \in STRING
    BY <1>1, <1>4
  <2>2. L!Ran(calls) = [i \in 1 .. Len(runs) |-> calls[i].name] /\ Len(runs) \in Nat
    BY <1>1, <1>2
  <2> QED
    BY <2>1, <2>2
<1>6. CASE L!Stops(calls) \in {"torn", "lost"}
  <2>1. L!Stops(calls) # "runs"
    BY <1>6
  <2>2. Len(runs) + 1 \in 1 .. Len(calls)
    BY <1>1, <1>3, <2>1
  <2>3. L!Unwritten(calls) = <<calls[Len(runs) + 1].name>>
    BY <1>6 DEF L!Unwritten, runs
  <2>4. L!Cut(calls) \in {<<>>, <<L!Torn>>}
    BY DEF L!Cut
  <2> QED
    BY <1>4, <1>5, <2>1, <2>2, <2>3, <2>4
<1>7. CASE L!Stops(calls) \notin {"torn", "lost"}
  BY <1>5, <1>7 DEF L!Unwritten, L!Cut
<1> QED
  BY <1>6, <1>7

\* The lines of a round, and the tools that returned in it.
LEMMA RoundLines ==
  ASSUME NEW c \in Turn, Kept(c), c.running, ~c.unlogged, NEW calls \in Seq(TurnCall)
  PROVE  /\ L!Execute(c, calls) \in Turn /\ Kept(L!Execute(c, calls))
         /\ L!Execute(c, calls) =
              [c EXCEPT !.log = L!Execute(c, calls).log, !.ran = L!Execute(c, calls).ran,
                        !.unlogged = L!Execute(c, calls).unlogged]
         /\ L!Stops(calls) = "runs" => ~L!Execute(c, calls).unlogged
<1> DEFINE done  == L!Execute(c, calls)
           names == L!Ran(calls)
           left  == L!Unwritten(calls)
           cut   == L!Cut(calls)
           tools == c.ran \o names
           ran   == tools \o left
           log   == (c.log \o L!Lines(names)) \o cut
<1>1. done = [c EXCEPT !.ran = ran, !.unlogged = (left # <<>>), !.log = log]
  BY DEF L!Execute
<1>2. /\ names \in Seq(STRING)
      /\ \/ left = <<>> /\ cut = <<>>
         \/ /\ \E name \in STRING : left = <<name>>
            /\ cut \in {<<>>, <<L!Torn>>} /\ L!Stops(calls) # "runs"
  BY RoundParts
<1>3. c.log \in Seq(LogLine) /\ c.ran \in Seq(STRING)
  BY DEF Turn
<1> HIDE DEF done, names, left, cut
<1>4. left \in Seq(STRING) /\ cut \in Seq(LogLine) /\ NoDeveloper(cut)
  <2>1. CASE left = <<>> /\ cut = <<>>
    BY <2>1 DEF NoDeveloper
  <2>2. CASE (\E name \in STRING : left = <<name>>) /\ cut \in {<<>>, <<L!Torn>>}
    <3>1. left \in Seq(STRING)
      BY <2>2
    <3> DEFINE row == L!Torn
    <3>2. row \in LogLine /\ row.role # "developer"
      BY TornTyped
    <3> HIDE DEF row
    <3>3. cut = <<>> \/ cut = <<row>>
      BY <2>2 DEF row
    <3>4. <<row>> \in Seq(LogLine) /\ NoDeveloper(<<row>>)
      BY <3>2 DEF NoDeveloper
    <3>5. <<>> \in Seq(LogLine) /\ NoDeveloper(<<>>)
      BY DEF NoDeveloper
    <3> QED
      BY <3>1, <3>3, <3>4, <3>5
  <2> QED
    BY <1>2, <2>1, <2>2
<1>5. /\ L!Lines(names) \in Seq(LogLine) /\ NoDeveloper(L!Lines(names))
      /\ L!Lines(tools) = L!Lines(c.ran) \o L!Lines(names)
      /\ tools \in Seq(STRING)
  BY <1>2, <1>3, LinesTyped, LinesJoined
<1> HIDE DEF tools
<1>6. ran \in Seq(STRING) /\ log \in Seq(LogLine)
  BY <1>3, <1>4, <1>5
<1>7. PICK before : Split(c.log, before, L!Lines(c.ran))
  BY KeptRunning
<1>8. Split(c.log \o L!Lines(names), before, L!Lines(tools))
  BY <1>5, <1>7, MoreLines
<1>9. Split(log, before, L!Lines(tools) \o cut)
  BY <1>4, <1>8, MoreLines
<1>10. L!Lines(tools) \in Seq(LogLine)
  BY <1>5, LinesTyped
<1>11. CASE left = <<>> /\ cut = <<>>
  <2>1. ran = tools /\ L!Lines(tools) \o cut = L!Lines(tools)
    BY <1>5, <1>10, <1>11
  <2>2. done.ran = tools /\ done.log = log /\ done.unlogged = FALSE
    BY <1>1, <1>11, <2>1 DEF Turn
  <2>3. L!LinesTell(done, L!Lines(tools) \o cut)
    BY <2>1, <2>2 DEF L!LinesTell
  <2>4. Kept(done)
    BY <1>9, <2>2, <2>3 DEF Kept
  <2>5. done \in Turn /\ done = [c EXCEPT !.log = done.log, !.ran = done.ran, !.unlogged = done.unlogged]
    <3> HIDE DEF ran, log
    <3> QED
      BY <1>1, <1>6, <1>11 DEF Turn
  <2> QED
    BY <2>2, <2>4, <2>5 DEF done
<1>12. CASE (\E name \in STRING : left = <<name>>) /\ cut \in {<<>>, <<L!Torn>>} /\ L!Stops(calls) # "runs"
  <2>1. PICK name \in STRING : left = <<name>>
    BY <1>12
  <2>2. done.ran = ran /\ done.log = log /\ done.unlogged = TRUE
    <3> HIDE DEF ran, log
    <3> QED
      BY <1>1, <2>1 DEF Turn
  <2> DEFINE row == L!Row("tool", name)
             all == L!Lines(ran)
  <2>3. row \in LogLine /\ L!Lines(<<name>>) = <<row>>
    <3> DEFINE one == <<name>>
    <3>1. one \in Seq(STRING) /\ Len(one) = 1 /\ one[1] = name
      OBVIOUS
    <3> HIDE DEF one
    <3>2. /\ L!Lines(one) \in Seq(LogLine) /\ Len(L!Lines(one)) = Len(one)
          /\ \A i \in 1 .. Len(one) : L!Lines(one)[i] = L!Row("tool", one[i])
      BY <3>1, LinesTyped
    <3>3. L!Lines(one) \in Seq(LogLine) /\ Len(L!Lines(one)) = 1 /\ L!Lines(one)[1] = row
      BY <3>1, <3>2
    <3>4. row \in LogLine
      BY DEF L!Row, LogLine, Roles, Text
    <3> HIDE DEF row
    <3>5. L!Lines(one) = <<row>>
      BY <3>3, <3>4, Single
    <3> QED
      BY <3>4, <3>5 DEF one
  <2> HIDE DEF row
  <2>4. all = L!Lines(tools) \o <<row>>
    BY <1>4, <1>5, <2>1, <2>3, LinesJoined
  <2>5. L!Front(all) = L!Lines(tools)
    <3> DEFINE base == L!Lines(tools)
    <3>1. base \in Seq(LogLine)
      BY <1>10
    <3>2. all = base \o <<row>>
      BY <2>4
    <3> HIDE DEF base, all
    <3>3. L!Front(all) = base
      BY <2>3, <3>1, <3>2, FrontOf
    <3> QED
      BY <3>3 DEF base
  <2>6. ran # <<>>
    BY <1>5, <2>1
  <2>7. L!Lines(tools) \o cut \in {L!Lines(tools), Append(L!Lines(tools), L!Torn)}
    <3>1. CASE cut = <<>>
      BY <1>10, <3>1
    <3>2. CASE cut = <<L!Torn>>
      BY <1>10, <3>2, TornTyped, FrontOf
    <3> QED
      BY <1>12, <3>1, <3>2
  <2>8. L!LinesTell(done, L!Lines(tools) \o cut)
    <3> HIDE DEF ran
    <3> QED
      BY <2>2, <2>5, <2>6, <2>7 DEF L!LinesTell
  <2>9. Kept(done)
    BY <1>9, <2>2, <2>8 DEF Kept
  <2>10. done \in Turn /\ done = [c EXCEPT !.log = done.log, !.ran = done.ran, !.unlogged = done.unlogged]
    <3> HIDE DEF ran, log
    <3> QED
      BY <1>1, <1>6, <2>1 DEF Turn
  <2> QED
    BY <1>12, <2>9, <2>10 DEF done
<1> QED
  BY <1>2, <1>11, <1>12

\* One more round of a turn.
LEMMA MoreMessages ==
  ASSUME NEW messages, NEW round \in Nat, Sound(messages, round), NEW calls \in Seq(TurnCall)
  PROVE  Sound(messages \o L!Exchange(round, calls), round + 1)
<1> DEFINE ids == [i \in DOMAIN calls |-> <<round, i>>]
           one == [role |-> "assistant", uses |-> ids]
           two == [role |-> "user", results |-> ids]
           longer == messages \o <<one, two>>
<1>1. L!Exchange(round, calls) = <<one, two>>
  BY DEF L!Exchange
<1>2. ids = RoundIds(round, Len(calls)) /\ ids \in Ids /\ Len(calls) \in Nat
  <2>1. ids = [i \in 1 .. Len(calls) |-> <<round, i>>] /\ Len(calls) \in Nat
    OBVIOUS
  <2> HIDE DEF ids
  <2>2. \A i \in 1 .. Len(calls) : <<round, i>> \in Nat \X Nat
    OBVIOUS
  <2> QED
    BY <2>1, <2>2 DEF RoundIds, Ids
<1> HIDE DEF ids
<1>3. one \in Message /\ two \in Message
  BY <1>2 DEF Message
<1>4. one.role = "assistant" /\ one.uses = ids /\ two.role = "user" /\ two.results = ids
  OBVIOUS
<1> HIDE DEF one, two
<1>5. messages \in Seq(Message) /\ Len(messages) = 2 * round + 1
  BY DEF Sound
<1>6. /\ longer \in Seq(Message) /\ Len(longer) = 2 * round + 3
      /\ \A i \in 1 .. 2 * round + 1 : longer[i] = messages[i]
      /\ longer[2 * round + 2] = one /\ longer[2 * round + 3] = two
  <2> DEFINE pair == <<one, two>>
             len  == Len(messages)
  <2>1. pair \in Seq(Message) /\ Len(pair) = 2 /\ pair[1] = one /\ pair[2] = two
    BY <1>3
  <2> HIDE DEF pair
  <2>2. longer \in Seq(Message) /\ Len(longer) = len + 2
    BY <1>5, <2>1 DEF longer, pair
  <2>3. /\ \A i \in 1 .. len : longer[i] = messages[i]
        /\ \A i \in 1 .. 2 : longer[len + i] = pair[i]
    BY <1>5, <2>1 DEF longer, pair
  <2> HIDE DEF len, longer
  <2>4. longer[len + 1] = one /\ longer[len + 2] = two
    BY <2>1, <2>3
  <2>5. len = 2 * round + 1
    BY <1>5 DEF len
  <2>6. len + 1 = 2 * round + 2 /\ len + 2 = 2 * round + 3
    BY <2>5
  <2> QED
    BY <2>2, <2>3, <2>4, <2>5, <2>6
<1> HIDE DEF longer
<1>7. ASSUME NEW i \in 1 .. Len(longer), longer[i].role # "user"
      PROVE  \E k \in 0 .. round, n \in Nat :
               /\ i = 2 * k + 2
               /\ longer[i].role = "assistant" /\ longer[i].uses = RoundIds(k, n)
               /\ longer[i + 1].role = "user" /\ longer[i + 1].results = RoundIds(k, n)
  <2>1. CASE i \in 1 .. 2 * round + 1
    <3>1. PICK k \in 0 .. round - 1, n \in Nat :
             /\ i = 2 * k + 2
             /\ messages[i].role = "assistant" /\ messages[i].uses = RoundIds(k, n)
             /\ messages[i + 1].role = "user" /\ messages[i + 1].results = RoundIds(k, n)
      BY <1>5, <1>6, <1>7, <2>1 DEF Sound
    <3>2. i + 1 \in 1 .. 2 * round + 1 /\ k \in 0 .. round
      BY <3>1
    <3>3. longer[i] = messages[i] /\ longer[i + 1] = messages[i + 1]
      BY <1>6, <2>1, <3>2
    <3> QED
      BY <3>1, <3>2, <3>3
  <2>2. CASE i = 2 * round + 2
    <3>1. longer[i] = one /\ longer[i + 1] = two /\ round \in 0 .. round
      BY <1>6, <2>2
    <3> QED
      BY <1>2, <1>4, <2>2, <3>1
  <2>3. CASE i = 2 * round + 3
    BY <1>4, <1>6, <1>7, <2>3
  <2> QED
    BY <1>6, <2>1, <2>2, <2>3
<1>8. longer[1].role = "user" /\ longer[Len(longer)].role = "user"
  BY <1>4, <1>6 DEF Sound
<1>9. Sound(longer, round + 1)
  <2>1. round + 1 - 1 = round /\ 2 * (round + 1) + 1 = 2 * round + 3
    OBVIOUS
  <2> QED
    BY <1>6, <1>7, <1>8, <2>1 DEF Sound
<1> QED
  BY <1>1, <1>9 DEF longer

LEMMA AnswerGood ==
  ASSUME NEW c \in Turn, Kept(c), Asked(c), c.running, ~c.unlogged, NEW text \in Text
  PROVE  Good(L!Answer(c, text))
<1> DEFINE row   == L!Row("assistant", text)
           log   == Append(c.log, row)
           lines == L!Lines(c.ran)
           d     == L!Answer(c, text)
<1>1. row \in LogLine /\ row.role = "assistant"
  BY DEF L!Row, LogLine, Roles
<1>2. d = [c EXCEPT !.running = FALSE, !.log = log]
  BY DEF L!Answer
<1> HIDE DEF row, d
<1>3. c.log \in Seq(LogLine) /\ c.ran \in Seq(STRING) /\ lines \in Seq(LogLine)
  BY LinesTyped DEF Turn
<1>4. log = c.log \o <<row>> /\ log \in Seq(LogLine) /\ <<row>> \in Seq(LogLine)
  BY <1>1, <1>3, FrontOf
<1>5. NoDeveloper(<<row>>)
  BY <1>1 DEF NoDeveloper
<1>6. PICK before : Split(c.log, before, lines)
  BY KeptRunning
<1>7. Split(log, before, lines \o <<row>>)
  BY <1>4, <1>5, <1>6, MoreLines
<1> HIDE DEF log
<1>8. /\ d \in Turn /\ d.running = FALSE /\ d.log = log /\ d.ran = c.ran
      /\ d.requests = c.requests /\ d.unlogged = FALSE
  BY <1>2, <1>4 DEF Turn
<1>9. L!LinesTell(d, lines \o <<row>>)
  <2>1. /\ lines \o <<row>> # <<>> /\ L!Last(lines \o <<row>>) = row
        /\ L!Front(lines \o <<row>>) = lines
    <3> HIDE DEF lines
    <3> QED
      BY <1>1, <1>3, FrontOf
  <2> QED
    BY <1>1, <1>8, <2>1 DEF L!LinesTell
<1>10. Kept(d) /\ Asked(d)
  BY <1>7, <1>8, <1>9 DEF Kept, Asked
<1> QED
  BY <1>8, <1>10 DEF Good, d

LEMMA RaisesGood ==
  ASSUME NEW c \in Turn, Kept(c), Asked(c)
  PROVE  Good(L!Raises(c))
<1> DEFINE d == L!Raises(c)
<1>1. /\ d \in Turn /\ d.running = FALSE /\ d.log = c.log /\ d.ran = c.ran
      /\ d.requests = c.requests /\ d.unlogged = c.unlogged
  BY DEF L!Raises, Turn
<1> HIDE DEF d
<1>2. ASSUME NEW lines, L!LinesTell(c, lines) PROVE L!LinesTell(d, lines)
  BY <1>1, <1>2 DEF L!LinesTell
<1>3. Kept(d) /\ Asked(d)
  BY <1>1, <1>2 DEF Kept, Asked
<1> QED
  BY <1>1, <1>3 DEF Good, d

LEMMA BeginGood ==
  ASSUME MaxToolRounds \in Nat \ {0}, RecentTurns \in Nat \ {0}, NEW c, Good(c)
  PROVE  Good(L!Begin(c))
<1> DEFINE window == L!Window(c.log)
           log  == Append(c.log, L!Row("developer", ""))
           user == [role |-> "user", window |-> window]
           d    == L!Begin(c)
<1>1. c \in Turn /\ Kept(c) /\ Asked(c) /\ c.log \in Seq(LogLine)
  BY DEF Good, Turn
<1>2. window \in Seq(LogLine)
  <2> DEFINE from == IF Len(c.log) < RecentTurns THEN 1 ELSE Len(c.log) - RecentTurns + 1
  <2>1. from \in 1 .. Len(c.log) + 1 /\ Len(c.log) \in Nat
    BY <1>1
  <2> HIDE DEF from
  <2>2. SubSeq(c.log, from, Len(c.log)) \in Seq(LogLine)
    BY <1>1, <2>1
  <2> QED
    BY <2>2 DEF L!Window, from
<1>3. log \in Seq(LogLine) /\ Split(log, log, <<>>)
  <2>1. L!Row("developer", "") \in LogLine /\ L!Row("developer", "").role = "developer"
    BY DEF L!Row, LogLine, Roles, Text
  <2> DEFINE row == L!Row("developer", "")
  <2> HIDE DEF row
  <2>2. log = Append(c.log, row) /\ row \in LogLine /\ row.role = "developer"
    BY <2>1 DEF row
  <2> HIDE DEF log
  <2>3. log \in Seq(LogLine) /\ log[Len(log)] = row /\ log \o <<>> = log
    BY <1>1, <2>2
  <2> QED
    BY <2>2, <2>3 DEF Split, AtDeveloper, NoDeveloper
<1> HIDE DEF window, log
<1>4. user \in Message /\ user.role = "user"
  BY <1>2 DEF Message
<1> HIDE DEF user
<1>5. CASE L!Contains(window, L!Torn)
  BY <1>5 DEF L!Begin, window
<1>6. CASE ~L!Contains(window, L!Torn)
  <2> DEFINE messages == <<user>>
  <2>1. d = [c EXCEPT !.running = TRUE, !.round = 0, !.reply = "", !.ran = <<>>,
                      !.unlogged = FALSE, !.messages = messages, !.log = log]
    BY <1>6 DEF L!Begin, window, log, user
  <2>2. messages \in Seq(Message) /\ "" \in Text
    BY <1>4 DEF Text
  <2> HIDE DEF d, messages
  <2>3. /\ d \in Turn /\ d.round = 0 /\ d.messages = messages /\ d.log = log /\ d.ran = <<>>
        /\ d.requests = c.requests /\ d.unlogged = FALSE
    <3>1. d.round = 0 /\ d.messages = messages /\ d.log = log /\ d.requests = c.requests
      BY <1>1, <2>1 DEF Turn
    <3>2. d.ran = <<>> /\ d.unlogged = FALSE
      BY <1>1, <2>1 DEF Turn
    <3>3. <<>> \in Seq(STRING) /\ 0 \in Nat
      OBVIOUS
    <3>4. d \in Turn
      BY <1>1, <1>3, <2>1, <2>2, <3>3 DEF Turn
    <3> QED
      BY <3>1, <3>2, <3>4
  <2>4. L!LinesTell(d, <<>>)
    BY <2>3 DEF L!LinesTell, L!Lines
  <2>7. Kept(d) /\ Asked(d)
    BY <1>1, <1>3, <2>3, <2>4 DEF Kept, Asked
  <2>5. Sound(<<user>>, 0)
    BY <1>4 DEF Sound
  <2>6. Good(d)
    BY <2>3, <2>5, <2>7 DEF Good, messages
  <2> QED
    BY <2>6 DEF d
<1> QED
  BY <1>5, <1>6

LEMMA RoundGood ==
  ASSUME MaxToolRounds \in Nat \ {0}, NEW c, Good(c), c.running, NEW reply \in TurnReply
  PROVE  Good(L!Round(c, reply))
<1> DEFINE asked == [c EXCEPT !.requests = Append(@, c.messages)]
           done  == L!Execute(asked, reply.calls)
<1>1. /\ c \in Turn /\ Kept(c) /\ Asked(c) /\ ~c.unlogged /\ c.round \in 0 .. MaxToolRounds - 1
      /\ Sound(c.messages, c.round) /\ c.requests \in Seq(Seq(Message))
      /\ c.messages \in Seq(Message)
  BY DEF Good, Turn
<1>2. reply.calls \in Seq(TurnCall) /\ reply.text \in Text
  BY DEF TurnReply, Text
<1>3. /\ asked \in Turn /\ asked.log = c.log /\ asked.ran = c.ran /\ asked.round = c.round
      /\ asked.messages = c.messages /\ asked.requests = Append(c.requests, c.messages)
      /\ asked.running /\ asked.unlogged = c.unlogged
  <2> DEFINE requests == Append(c.requests, c.messages)
  <2>1. requests \in Seq(Seq(Message))
    BY <1>1
  <2>2. asked = [c EXCEPT !.requests = requests]
    OBVIOUS
  <2> HIDE DEF requests, asked
  <2>3. asked \in Turn /\ asked.requests = requests
    BY <1>1, <2>1, <2>2 DEF Turn
  <2>4. /\ asked.log = c.log /\ asked.ran = c.ran /\ asked.round = c.round
        /\ asked.messages = c.messages /\ asked.running = c.running /\ asked.unlogged = c.unlogged
    BY <1>1, <2>2 DEF Turn
  <2> QED
    BY <2>3, <2>4 DEF requests
<1> HIDE DEF asked
<1>4. Kept(asked)
  BY <1>1, <1>3 DEF Kept, L!LinesTell
<1>5. Asked(asked)
  <2> SUFFICES ASSUME NEW i \in DOMAIN asked.requests
               PROVE  \E round \in 0 .. MaxToolRounds - 1 : Sound(asked.requests[i], round)
    BY DEF Asked
  <2>1. CASE i \in DOMAIN c.requests
    <3>1. asked.requests[i] = c.requests[i]
      BY <1>1, <1>3, <2>1
    <3> QED
      BY <1>1, <2>1, <3>1 DEF Asked
  <2>2. CASE i \notin DOMAIN c.requests
    <3>1. asked.requests[i] = c.messages
      BY <1>1, <1>3, <2>2
    <3> QED
      BY <1>1, <3>1
  <2> QED
    BY <2>1, <2>2
<1>6. /\ done \in Turn /\ Kept(done)
      /\ done = [asked EXCEPT !.log = done.log, !.ran = done.ran, !.unlogged = done.unlogged]
      /\ L!Stops(reply.calls) = "runs" => ~done.unlogged
  BY <1>1, <1>2, <1>3, <1>4, RoundLines
<1> HIDE DEF done
<1>7. /\ done.round = c.round /\ done.messages = c.messages /\ done.requests = asked.requests
      /\ done.running
  BY <1>3, <1>6 DEF Turn
<1>8. Asked(done)
  BY <1>5, <1>7 DEF Asked
<1>9. ASSUME ~done.unlogged PROVE Good(L!Continue(done, reply))
  <2> DEFINE said == IF reply.text # "" THEN reply.text ELSE done.reply
             messages == done.messages \o L!Exchange(done.round, reply.calls)
             next == [done EXCEPT !.round = @ + 1, !.reply = said, !.messages = messages]
  <2>1. said \in Text
    BY <1>2, <1>6 DEF Turn
  <2>2. Sound(messages, c.round + 1)
    BY <1>1, <1>2, <1>7, MoreMessages
  <2>3. messages \in Seq(Message)
    BY <2>2 DEF Sound
  <2> HIDE DEF said, messages
  <2>4. /\ next \in Turn /\ next.log = done.log /\ next.ran = done.ran
        /\ next.requests = done.requests /\ next.round = c.round + 1 /\ next.messages = messages
        /\ next.running /\ ~next.unlogged
    <3>1. done.round + 1 = c.round + 1 /\ c.round + 1 \in Nat
      BY <1>1, <1>7
    <3>2. next = [done EXCEPT !.round = c.round + 1, !.reply = said, !.messages = messages]
      BY <3>1
    <3> HIDE DEF next
    <3>3. next \in Turn
      BY <1>6, <2>1, <2>3, <3>1, <3>2 DEF Turn
    <3>4. /\ next.log = done.log /\ next.ran = done.ran /\ next.requests = done.requests
          /\ next.round = c.round + 1 /\ next.messages = messages
          /\ next.running /\ ~next.unlogged
      BY <1>6, <1>7, <1>9, <3>2 DEF Turn
    <3> QED
      BY <3>3, <3>4
  <2>5. L!Continue(done, reply) =
          IF next.round < MaxToolRounds THEN next
          ELSE L!Answer(next, IF said # "" THEN said ELSE L!NoReply)
    BY DEF L!Continue, said, messages
  <2> HIDE DEF next
  <2>6. Kept(next) /\ Asked(next)
    BY <1>6, <1>7, <1>8, <1>9, <2>4 DEF Kept, Asked, L!LinesTell
  <2>7. CASE next.round < MaxToolRounds
    BY <2>2, <2>4, <2>5, <2>6, <2>7 DEF Good
  <2>8. CASE ~(next.round < MaxToolRounds)
    <3> DEFINE text == IF said # "" THEN said ELSE L!NoReply
    <3>1. text \in Text
      BY <2>1 DEF Text
    <3> HIDE DEF text
    <3>2. Good(L!Answer(next, text))
      BY <2>4, <2>6, <3>1, AnswerGood
    <3> QED
      BY <2>5, <2>8, <3>2 DEF text
  <2> QED
    BY <2>7, <2>8
<1>10. Good(L!Raises(asked)) /\ Good(L!Raises(done)) /\ Good(L!Answer(asked, reply.text))
  BY <1>1, <1>2, <1>3, <1>4, <1>5, <1>6, <1>8, RaisesGood, AnswerGood
<1> QED
  BY <1>6, <1>9, <1>10 DEF L!Round, asked, done

LEMMA TakeGood ==
  ASSUME MaxToolRounds \in Nat \ {0}, RecentTurns \in Nat \ {0}, NEW c, Good(c),
         NEW reply \in TurnReply
  PROVE  Good(L!Take(c, reply))
<1> DEFINE open == IF c.running THEN c ELSE L!Begin(c)
<1>1. Good(open)
  BY BeginGood
<1> HIDE DEF open
<1>2. open.running => Good(L!Round(open, reply))
  BY <1>1, RoundGood
<1> QED
  BY <1>1, <1>2 DEF L!Take, open

LEMMA StartGood ==
  Good(L!Start)
<1> DEFINE c == L!Start
<1>1. /\ c \in Turn /\ c.running = FALSE /\ c.log = <<>> /\ c.ran = <<>> /\ c.requests = <<>>
      /\ c.unlogged = FALSE
  BY DEF L!Start, Turn, Text
<1> HIDE DEF c
<1>2. Split(c.log, <<>>, <<>>)
  BY <1>1 DEF Split, AtDeveloper, NoDeveloper
<1>3. Kept(c) /\ Asked(c)
  BY <1>1, <1>2 DEF Kept, Asked, L!LinesTell, L!Lines
<1> QED
  BY <1>1, <1>3 DEF Good, c

\* The conversation is defined, reply after reply.
LEMMA ConversationSteps ==
  ASSUME NEW replies, Len(replies) \in Nat
  PROVE  \E after : /\ after = [n \in 0 .. Len(replies) |->
                               IF n = 0 THEN L!Start ELSE L!Take(after[n - 1], replies[n])]
                   /\ L!Conversation(replies) = after[Len(replies)]
<1> DEFINE IsAfter(f, k) == f = [n \in 0 .. k |-> IF n = 0 THEN L!Start
                                                ELSE L!Take(f[n - 1], replies[n])]
           Missing == {k \in Nat : ~ \E f : IsAfter(f, k)}
           after   == CHOOSE f : IsAfter(f, Len(replies))
<1>1. Missing = {}
  <2>1. SUFFICES ASSUME Missing # {} PROVE FALSE
    OBVIOUS
  <2>2. PICK k \in Missing : \A l \in Missing : k <= l
    BY <2>1, Least
  <2>3. k \in Nat /\ ~ \E f : IsAfter(f, k)
    OBVIOUS
  <2>4. k # 0
    <3>1. IsAfter([n \in 0 .. 0 |-> L!Start], 0)
      OBVIOUS
    <3> QED
      BY <2>3, <3>1
  <2>5. k - 1 \in Nat /\ k - 1 \notin Missing
    <3> HIDE DEF Missing
    <3> QED
      BY <2>2, <2>3, <2>4
  <2>6. PICK g : IsAfter(g, k - 1)
    BY <2>5
  <2> DEFINE h == [n \in 0 .. k |-> IF n = k THEN L!Take(g[k - 1], replies[k]) ELSE g[n]]
  <2>7. ASSUME NEW n \in 0 .. k
        PROVE  h[n] = IF n = 0 THEN L!Start ELSE L!Take(h[n - 1], replies[n])
    <3>1. CASE n = k
      BY <2>3, <2>4, <3>1
    <3>2. CASE n # k
      <4>1. n \in 0 .. k - 1
        BY <2>3, <3>2
      <4>2. g[n] = IF n = 0 THEN L!Start ELSE L!Take(g[n - 1], replies[n])
        BY <2>6, <4>1
      <4>3. h[n] = g[n] /\ (n # 0 => h[n - 1] = g[n - 1])
        BY <2>3, <4>1
      <4> QED
        BY <4>2, <4>3
    <3> QED
      BY <3>1, <3>2
  <2>8. IsAfter(h, k)
    BY <2>7
  <2> QED
    BY <2>3, <2>8
<1>2. IsAfter(after, Len(replies))
  BY <1>1
<1>3. L!Conversation(replies) = after[Len(replies)]
  BY DEF L!Conversation
<1> HIDE DEF after
<1> QED
  BY <1>2, <1>3

\* The log names every tool that returned, but for the last one when its own line could not
\* be written, and the model only gets lists of messages its interface accepts, over any
\* number of replies.
LEMMA TurnsRecorded ==
  ASSUME MaxToolRounds \in Nat \ {0}, RecentTurns \in Nat \ {0}, NEW replies \in Seq(TurnReply)
  PROVE  L!TurnsKeepTheRecord(replies)
<1> DEFINE c == L!Conversation(replies)
<1>1. Len(replies) \in Nat /\ \A n \in 1 .. Len(replies) : replies[n] \in TurnReply
  OBVIOUS
<1>2. PICK after : /\ after = [n \in 0 .. Len(replies) |->
                                 IF n = 0 THEN L!Start ELSE L!Take(after[n - 1], replies[n])]
                   /\ c = after[Len(replies)]
  BY <1>1, ConversationSteps
<1> DEFINE Bad == {n \in 0 .. Len(replies) : ~Good(after[n])}
<1>3. Bad = {}
  <2>1. SUFFICES ASSUME Bad # {} PROVE FALSE
    OBVIOUS
  <2>2. PICK n \in Bad : \A k \in Bad : n <= k
    <3>1. Bad \subseteq Nat
      BY <1>1
    <3> QED
      BY <2>1, <3>1, Least
  <2>3. n \in 0 .. Len(replies) /\ ~Good(after[n])
    OBVIOUS
  <2>4. CASE n = 0
    BY <1>2, <2>3, <2>4, StartGood
  <2>5. CASE n # 0
    <3>1. n - 1 \in 0 .. Len(replies) /\ n \in 1 .. Len(replies)
      BY <1>1, <2>3, <2>5
    <3>2. Good(after[n - 1])
      BY <2>2, <2>3, <3>1
    <3>3. after[n] = L!Take(after[n - 1], replies[n])
      BY <1>2, <2>3, <2>5
    <3> QED
      BY <1>1, <2>3, <3>1, <3>2, <3>3, TakeGood
  <2> QED
    BY <2>4, <2>5
<1>4. Good(c)
  BY <1>1, <1>2, <1>3
<1> HIDE DEF c
<1>5. L!Recorded(c)
  BY <1>4, KeptRecorded DEF Good
<1>6. ASSUME NEW i \in DOMAIN c.requests
      PROVE  L!WellFormed(c.requests[i]) /\ Len(c.requests[i]) <= 2 * MaxToolRounds - 1
  <2>1. PICK round \in 0 .. MaxToolRounds - 1 : Sound(c.requests[i], round)
    BY <1>4 DEF Good, Asked
  <2>2. Len(c.requests[i]) = 2 * round + 1
    BY <2>1 DEF Sound
  <2> QED
    BY <2>1, <2>2, SoundWellFormed
<1> QED
  BY <1>5, <1>6 DEF L!TurnsKeepTheRecord, c

-----------------------------------------------------------------------------
(* master/outcome.py                                                       *)

\* A state of build_outcome, and a line of its history.
IsState(s) == s = [history |-> s.history, pending |-> s.pending, open |-> s.open,
                   headline |-> s.headline, fatal |-> s.fatal]
IsEntry(e) == e = [kind |-> e.kind, label |-> e.label, resolution |-> e.resolution]
IsHistory(history) ==
  /\ Len(history) \in Nat
  /\ history = [h \in 1 .. Len(history) |-> history[h]]
  /\ \A h \in 1 .. Len(history) : IsEntry(history[h])

\* Row i has no end up to row n; or its first one is its Solution.
Unended(rows, i, n) == \A j \in i + 1 .. n : ~O!Ends(rows, i, j)
Ended(rows, i, n, resolution) ==
  \E j \in i + 1 .. n :
    /\ O!Ends(rows, i, j) /\ \A k \in i + 1 .. j - 1 : ~O!Ends(rows, i, k)
    /\ resolution = rows[j].summary

\* The rows up to m have their lines, at these places.
Shown(rows, m, history, at) ==
  /\ IsHistory(history)
  /\ at \in [1 .. Len(history) -> 1 .. m]
  /\ \A h, k \in 1 .. Len(history) : h < k => at[h] < at[k]
  /\ \A i \in 1 .. m : O!MakesLine(rows[i]) <=> \E h \in 1 .. Len(history) : at[h] = i

\* What waits at row n, and what was settled before.
Waits(rows, n, s, at) ==
  /\ s.pending \subseteq 1 .. Len(s.history)
  /\ \A h \in s.pending : O!Opens(rows[at[h]]) /\ Unended(rows, at[h], n)
  /\ \A h \in 1 .. Len(s.history) : h \notin s.pending /\ O!Opens(rows[at[h]])
                                   => Ended(rows, at[h], n, s.history[h].resolution)

\* The escalations that wait, by their ids.
Open(rows, s, at) ==
  /\ s.open = [id \in DOMAIN s.open |-> s.open[id]]
  /\ \A id \in DOMAIN s.open :
       /\ id # NoId /\ s.open[id] \in s.pending
       /\ rows[at[s.open[id]]].kind = "escalation_raised" /\ rows[at[s.open[id]]].id = id
  /\ \A h \in s.pending :
       rows[at[h]].kind = "escalation_raised" /\ rows[at[h]].id # NoId
       => rows[at[h]].id \in DOMAIN s.open /\ s.open[rows[at[h]].id] = h

Told(rows, m, n, s, at) ==
  IsState(s) /\ Shown(rows, m, s.history, at) /\ Waits(rows, n, s, at) /\ Open(rows, s, at)

\* The broker draws a fresh id for every raise.
FreshIds(rows) ==
  \A i, j \in DOMAIN rows :
    /\ rows[i].kind = "escalation_raised" /\ rows[j].kind = "escalation_raised"
    /\ rows[i].id = rows[j].id /\ rows[i].id # NoId
    => i = j

LEMMA ResolvedHistory ==
  ASSUME NEW history, IsHistory(history), NEW X, NEW summary
  PROVE  LET resolved == O!Resolved(history, X, summary) IN
         /\ IsHistory(resolved) /\ Len(resolved) = Len(history)
         /\ \A h \in 1 .. Len(history) :
              resolved[h].resolution = IF h \in X THEN summary ELSE history[h].resolution
<1> DEFINE resolved == O!Resolved(history, X, summary)
<1>1. DOMAIN history = 1 .. Len(history) /\ Len(history) \in Nat
  BY DEF IsHistory
<1>2. resolved = [h \in 1 .. Len(history) |->
                    IF h \in X THEN [history[h] EXCEPT !.resolution = summary] ELSE history[h]]
  BY <1>1 DEF O!Resolved
<1> HIDE DEF resolved
<1>3. ASSUME NEW h \in 1 .. Len(history)
      PROVE  /\ IsEntry(resolved[h])
             /\ resolved[h].resolution = IF h \in X THEN summary ELSE history[h].resolution
  <2>1. IsEntry(history[h])
    BY DEF IsHistory
  <2>2. CASE h \in X
    <3>1. resolved[h] = [history[h] EXCEPT !.resolution = summary]
      BY <1>2, <2>2
    <3> QED
      BY <2>1, <2>2, <3>1 DEF IsEntry
  <2>3. CASE h \notin X
    BY <1>2, <2>1, <2>3
  <2> QED
    BY <2>2, <2>3
<1>4. Len(resolved) = Len(history)
  BY <1>1, <1>2
<1>5. resolved = [h \in 1 .. Len(resolved) |-> resolved[h]]
  BY <1>2, <1>4
<1>6. IsHistory(resolved)
  BY <1>1, <1>3, <1>4, <1>5 DEF IsHistory
<1> QED
  BY <1>3, <1>4, <1>6 DEF resolved

\* Row j settles the lines X, and no other.
Settles(rows, j, s, at, X, t) ==
  /\ IsState(t)
  /\ \A h \in 1 .. Len(s.history) : h \in X <=> h \in s.pending /\ O!Ends(rows, at[h], j)
  /\ t.history = O!Resolved(s.history, X, rows[j].summary)
  /\ t.pending = s.pending \ X
  /\ t.open = [id \in {x \in DOMAIN s.open : s.open[x] \notin X} |-> s.open[id]]

LEMMA RowEnds ==
  ASSUME NEW rows, NEW n \in Nat, NEW s, NEW at, Told(rows, n, n, s, at),
         NEW t, NEW X, Settles(rows, n + 1, s, at, X, t)
  PROVE  Told(rows, n, n + 1, t, at)
<1> USE DEF Settles
<1>1. /\ IsHistory(s.history) /\ IsHistory(t.history) /\ Len(t.history) = Len(s.history)
      /\ Len(s.history) \in Nat
      /\ \A h \in 1 .. Len(s.history) :
           t.history[h].resolution = IF h \in X THEN rows[n + 1].summary
                                     ELSE s.history[h].resolution
  <2> DEFINE history == s.history
             summary == rows[n + 1].summary
             resolved == O!Resolved(history, X, summary)
  <2>1. IsHistory(history) /\ Len(history) \in Nat
    BY DEF Told, Shown, IsHistory
  <2> HIDE DEF history, summary
  <2>2. /\ IsHistory(resolved) /\ Len(resolved) = Len(history)
        /\ \A h \in 1 .. Len(history) :
             resolved[h].resolution = IF h \in X THEN summary ELSE history[h].resolution
    BY <2>1, ResolvedHistory
  <2>3. t.history = resolved
    BY DEF history, summary
  <2> HIDE DEF resolved
  <2> QED
    BY <2>1, <2>2, <2>3 DEF history, summary
<1>2. \A h \in 1 .. Len(s.history) : at[h] \in 1 .. n
  BY DEF Told, Shown
<1>3. Shown(rows, n, t.history, at)
  BY <1>1 DEF Told, Shown
<1>4. ASSUME NEW h \in 1 .. Len(s.history), ~O!Ends(rows, at[h], n + 1), Unended(rows, at[h], n)
      PROVE  Unended(rows, at[h], n + 1)
  <2>1. \A j \in at[h] + 1 .. n + 1 : j = n + 1 \/ j \in at[h] + 1 .. n
    BY <1>2
  <2> QED
    BY <1>4, <2>1 DEF Unended
<1>5. ASSUME NEW h \in 1 .. Len(s.history), O!Ends(rows, at[h], n + 1), Unended(rows, at[h], n)
      PROVE  Ended(rows, at[h], n + 1, rows[n + 1].summary)
  <2>1. n + 1 \in at[h] + 1 .. n + 1 /\ n + 1 - 1 = n
    BY <1>2
  <2> QED
    BY <1>5, <2>1 DEF Unended, Ended
<1>6. ASSUME NEW h \in 1 .. Len(s.history), NEW r, Ended(rows, at[h], n, r)
      PROVE  Ended(rows, at[h], n + 1, r)
  <2>1. at[h] + 1 .. n \subseteq at[h] + 1 .. n + 1
    BY <1>2
  <2> QED
    BY <1>6, <2>1 DEF Ended
<1>7. /\ s.pending \subseteq 1 .. Len(s.history)
      /\ \A h \in s.pending : O!Opens(rows[at[h]]) /\ Unended(rows, at[h], n)
      /\ \A h \in 1 .. Len(s.history) : h \notin s.pending /\ O!Opens(rows[at[h]])
                                       => Ended(rows, at[h], n, s.history[h].resolution)
  BY DEF Told, Waits
<1>8. Waits(rows, n + 1, t, at)
  <2>1. t.pending \subseteq 1 .. Len(t.history)
    BY <1>1, <1>7
  <2>2. \A h \in t.pending : O!Opens(rows[at[h]]) /\ Unended(rows, at[h], n + 1)
    BY <1>4, <1>7
  <2>3. ASSUME NEW h \in 1 .. Len(t.history), h \notin t.pending, O!Opens(rows[at[h]])
        PROVE  Ended(rows, at[h], n + 1, t.history[h].resolution)
    <3>1. CASE h \in X
      <4>1. t.history[h].resolution = rows[n + 1].summary
        BY <1>1, <3>1
      <4> QED
        BY <1>1, <1>5, <1>7, <3>1, <4>1
    <3>2. CASE h \notin X
      <4>1. t.history[h].resolution = s.history[h].resolution /\ h \notin s.pending
        BY <1>1, <2>3, <3>2
      <4> QED
        BY <1>1, <1>6, <1>7, <2>3, <4>1
    <3> QED
      BY <3>1, <3>2
  <2> QED
    BY <2>1, <2>2, <2>3 DEF Waits
<1>9. Open(rows, t, at)
  <2>1. /\ \A id \in DOMAIN s.open :
             /\ id # NoId /\ s.open[id] \in s.pending
             /\ rows[at[s.open[id]]].kind = "escalation_raised" /\ rows[at[s.open[id]]].id = id
        /\ \A h \in s.pending :
             rows[at[h]].kind = "escalation_raised" /\ rows[at[h]].id # NoId
             => rows[at[h]].id \in DOMAIN s.open /\ s.open[rows[at[h]].id] = h
    BY DEF Told, Open
  <2>2. /\ DOMAIN t.open = {x \in DOMAIN s.open : s.open[x] \notin X}
        /\ t.open = [id \in DOMAIN t.open |-> t.open[id]]
        /\ \A id \in DOMAIN t.open : t.open[id] = s.open[id]
    OBVIOUS
  <2> QED
    BY <2>1, <2>2 DEF Open
<1> QED
  BY <1>3, <1>8, <1>9 DEF Told

\* A row that ends nothing.
LEMMA NothingEnds ==
  ASSUME NEW rows, NEW n \in Nat, NEW s, NEW at, Told(rows, n, n, s, at),
         \A h \in s.pending : ~O!Ends(rows, at[h], n + 1),
         NEW t, IsState(t), t.history = s.history, t.pending = s.pending, t.open = s.open
  PROVE  Told(rows, n, n + 1, t, at)
<1>1. /\ IsHistory(s.history) /\ IsState(s)
      /\ s.open = [id \in DOMAIN s.open |-> s.open[id]]
  BY DEF Told, Shown, Open
<1>2. s.history = O!Resolved(s.history, {}, rows[n + 1].summary)
  <2>1. DOMAIN s.history = 1 .. Len(s.history) /\ s.history = [h \in 1 .. Len(s.history) |-> s.history[h]]
    BY <1>1 DEF IsHistory
  <2> QED
    BY <2>1 DEF O!Resolved
<1>3. s.open = [id \in {x \in DOMAIN s.open : s.open[x] \notin {}} |-> s.open[id]]
  BY <1>1
<1>4. s.pending = s.pending \ {}
  OBVIOUS
<1>5. \A h \in 1 .. Len(s.history) : h \in {} <=> h \in s.pending /\ O!Ends(rows, at[h], n + 1)
  OBVIOUS
<1>6. Settles(rows, n + 1, s, at, {}, t)
  BY <1>1, <1>2, <1>3, <1>4, <1>5 DEF Settles
<1> QED
  BY <1>6, RowEnds

\* A line more.
LEMMA LongerHistory ==
  ASSUME NEW history, IsHistory(history), NEW e, IsEntry(e)
  PROVE  LET longer == Append(history, e) IN
         /\ IsHistory(longer) /\ Len(longer) = Len(history) + 1
         /\ longer[Len(history) + 1] = e
         /\ \A h \in 1 .. Len(history) : longer[h] = history[h]
<1> DEFINE S == {history[h] : h \in 1 .. Len(history)} \cup {e}
           longer == Append(history, e)
<1>1. Len(history) \in Nat /\ history = [h \in 1 .. Len(history) |-> history[h]]
  BY DEF IsHistory
<1>2. \A h \in 1 .. Len(history) : history[h] \in S
  OBVIOUS
<1>3. e \in S
  OBVIOUS
<1> HIDE DEF S
<1>4. history \in Seq(S)
  BY <1>1, <1>2
<1>5. /\ longer \in Seq(S) /\ Len(longer) = Len(history) + 1
      /\ longer[Len(history) + 1] = e
      /\ \A h \in 1 .. Len(history) : longer[h] = history[h]
  BY <1>1, <1>3, <1>4
<1> HIDE DEF longer
<1>6. longer = [h \in 1 .. Len(longer) |-> longer[h]]
  BY <1>5
<1>7. \A h \in 1 .. Len(longer) : IsEntry(longer[h])
  <2> TAKE h \in 1 .. Len(longer)
  <2>1. h \in 1 .. Len(history) \/ h = Len(history) + 1
    BY <1>1, <1>5
  <2> QED
    BY <1>5, <2>1 DEF IsHistory
<1>8. IsHistory(longer)
  BY <1>1, <1>5, <1>6, <1>7 DEF IsHistory
<1> QED
  BY <1>5, <1>8 DEF longer

\* Row j adds a line, that waits if the row opens something.
Adds(row, s, t) ==
  /\ IsState(t)
  /\ \E e : IsEntry(e) /\ t.history = Append(s.history, e)
  /\ t.pending = s.pending \cup (IF O!Opens(row) THEN {Len(s.history) + 1} ELSE {})
  /\ t.open = IF row.kind = "escalation_raised" /\ row.id # NoId
              THEN [id \in DOMAIN s.open \cup {row.id} |->
                      IF id = row.id THEN Len(s.history) + 1 ELSE s.open[id]]
              ELSE s.open

LEMMA LineAdded ==
  ASSUME NEW Line, NEW rows \in Seq(Line), FreshIds(rows), NEW n \in Nat, n + 1 \in DOMAIN rows,
         NEW s, NEW at, Told(rows, n, n + 1, s, at),
         O!MakesLine(rows[n + 1]), NEW t, Adds(rows[n + 1], s, t)
  PROVE  \E more : Told(rows, n + 1, n + 1, t, more)
<1> DEFINE len == Len(s.history)
           row == rows[n + 1]
           more == [h \in 1 .. len + 1 |-> IF h = len + 1 THEN n + 1 ELSE at[h]]
<1>1. PICK e : IsEntry(e) /\ t.history = Append(s.history, e)
  BY DEF Adds
<1>2. IsHistory(s.history) /\ len \in Nat
  BY DEF Told, Shown, IsHistory
<1>3. /\ IsHistory(t.history) /\ Len(t.history) = len + 1 /\ t.history[len + 1] = e
      /\ \A h \in 1 .. len : t.history[h] = s.history[h]
  BY <1>1, <1>2, LongerHistory
<1>4. /\ at \in [1 .. len -> 1 .. n]
      /\ \A h, k \in 1 .. len : h < k => at[h] < at[k]
      /\ \A i \in 1 .. n : O!MakesLine(rows[i]) <=> \E h \in 1 .. len : at[h] = i
  BY DEF Told, Shown
<1>5. /\ s.pending \subseteq 1 .. len
      /\ \A h \in s.pending : O!Opens(rows[at[h]]) /\ Unended(rows, at[h], n + 1)
      /\ \A h \in 1 .. len : h \notin s.pending /\ O!Opens(rows[at[h]])
                               => Ended(rows, at[h], n + 1, s.history[h].resolution)
  BY DEF Told, Waits
<1>6. /\ s.open = [id \in DOMAIN s.open |-> s.open[id]]
      /\ \A id \in DOMAIN s.open :
           /\ id # NoId /\ s.open[id] \in s.pending
           /\ rows[at[s.open[id]]].kind = "escalation_raised" /\ rows[at[s.open[id]]].id = id
      /\ \A h \in s.pending :
           rows[at[h]].kind = "escalation_raised" /\ rows[at[h]].id # NoId
           => rows[at[h]].id \in DOMAIN s.open /\ s.open[rows[at[h]].id] = h
  BY DEF Told, Open
<1> HIDE DEF len
<1>7. /\ more[len + 1] = n + 1 /\ len + 1 \in 1 .. len + 1
      /\ \A h \in 1 .. len : more[h] = at[h] /\ at[h] \in 1 .. n
      /\ \A h \in 1 .. len + 1 : h \in 1 .. len \/ h = len + 1
  BY <1>2, <1>4
<1>8. more \in [1 .. len + 1 -> 1 .. n + 1]
  BY <1>2, <1>4
<1> HIDE DEF more, row
<1>9. Shown(rows, n + 1, t.history, more)
  <2>1. ASSUME NEW h \in 1 .. len + 1, NEW k \in 1 .. len + 1, h < k
        PROVE  more[h] < more[k]
    <3>1. h \in 1 .. len
      BY <1>2, <1>7, <2>1
    <3>2. CASE k \in 1 .. len
      BY <1>4, <1>7, <2>1, <3>1, <3>2
    <3>3. CASE k = len + 1
      <4>1. more[k] = n + 1 /\ more[h] \in 1 .. n
        BY <1>7, <3>1, <3>3
      <4> QED
        BY <4>1
    <3> QED
      BY <1>7, <3>2, <3>3
  <2>2. ASSUME NEW i \in 1 .. n + 1
        PROVE  O!MakesLine(rows[i]) <=> \E h \in 1 .. len + 1 : more[h] = i
    <3>1. CASE i = n + 1
      BY <1>7, <3>1
    <3>2. CASE i # n + 1
      <4>1. i \in 1 .. n
        BY <3>2
      <4>2. 1 .. len \subseteq 1 .. len + 1
        BY <1>2
      <4>3. \A h \in 1 .. len + 1 : more[h] = i => h \in 1 .. len
        BY <1>7, <3>2
      <4> QED
        BY <1>4, <1>7, <4>1, <4>2, <4>3
    <3> QED
      BY <3>1, <3>2
  <2> QED
    BY <1>3, <1>8, <2>1, <2>2 DEF Shown
<1>10. Unended(rows, n + 1, n + 1)
  BY DEF Unended
<1>11. t.pending = s.pending \cup (IF O!Opens(row) THEN {len + 1} ELSE {})
  BY DEF Adds, len, row
<1>12. \A h \in t.pending : h \in s.pending \/ (h = len + 1 /\ O!Opens(row))
  BY <1>11
<1>13. Waits(rows, n + 1, t, more)
  <2>1. t.pending \subseteq 1 .. Len(t.history)
    BY <1>2, <1>3, <1>5, <1>12
  <2>2. ASSUME NEW h \in t.pending PROVE O!Opens(rows[more[h]]) /\ Unended(rows, more[h], n + 1)
    <3>1. CASE h \in s.pending
      BY <1>5, <1>7, <3>1
    <3>2. CASE h = len + 1 /\ O!Opens(row)
      BY <1>7, <1>10, <3>2 DEF row
    <3> QED
      BY <1>12, <3>1, <3>2
  <2>3. ASSUME NEW h \in 1 .. Len(t.history), h \notin t.pending, O!Opens(rows[more[h]])
        PROVE  Ended(rows, more[h], n + 1, t.history[h].resolution)
    <3>1. CASE h \in 1 .. len
      BY <1>3, <1>5, <1>7, <1>11, <2>3, <3>1
    <3>2. CASE h = len + 1
      BY <1>7, <1>11, <2>3, <3>2 DEF row
    <3> QED
      BY <1>3, <1>7, <3>1, <3>2
  <2> QED
    BY <2>1, <2>2, <2>3 DEF Waits
<1>14. Open(rows, t, more)
  <2>1. CASE row.kind = "escalation_raised" /\ row.id # NoId
    <3>1. t.open = [id \in DOMAIN s.open \cup {row.id} |->
                     IF id = row.id THEN len + 1 ELSE s.open[id]]
      BY <2>1 DEF Adds, len, row
    <3>2. O!Opens(row) /\ len + 1 \in t.pending
      BY <1>11, <2>1 DEF O!Opens
    <3>3. /\ DOMAIN t.open = DOMAIN s.open \cup {row.id}
          /\ t.open = [id \in DOMAIN t.open |-> t.open[id]]
          /\ t.open[row.id] = len + 1
          /\ \A id \in DOMAIN s.open : id # row.id => t.open[id] = s.open[id]
      BY <3>1
    <3>4. \A h \in s.pending : at[h] \in DOMAIN rows /\ at[h] # n + 1
      BY <1>5, <1>7
    <3>5. \A h \in s.pending : rows[at[h]].kind = "escalation_raised" => rows[at[h]].id # row.id
      BY <2>1, <3>4 DEF FreshIds, row
    <3>6. ASSUME NEW id \in DOMAIN t.open
          PROVE  /\ id # NoId /\ t.open[id] \in t.pending
                 /\ rows[more[t.open[id]]].kind = "escalation_raised"
                 /\ rows[more[t.open[id]]].id = id
      <4>1. CASE id = row.id
        BY <1>7, <2>1, <3>2, <3>3, <4>1 DEF row
      <4>2. CASE id # row.id
        <5>1. id \in DOMAIN s.open /\ t.open[id] = s.open[id]
          BY <3>3, <4>2
        <5>2. s.open[id] \in s.pending /\ more[s.open[id]] = at[s.open[id]]
          BY <1>5, <1>6, <1>7, <5>1
        <5> QED
          BY <1>6, <1>11, <5>1, <5>2
      <4> QED
        BY <4>1, <4>2
    <3>7. ASSUME NEW h \in t.pending, rows[more[h]].kind = "escalation_raised",
                 rows[more[h]].id # NoId
          PROVE  rows[more[h]].id \in DOMAIN t.open /\ t.open[rows[more[h]].id] = h
      <4>1. CASE h \in s.pending
        <5>1. more[h] = at[h]
          BY <1>5, <1>7, <4>1
        <5>2. rows[at[h]].id \in DOMAIN s.open /\ s.open[rows[at[h]].id] = h
          BY <1>6, <3>7, <4>1, <5>1
        <5>3. rows[at[h]].id # row.id
          BY <3>5, <3>7, <4>1, <5>1
        <5> QED
          BY <3>3, <5>1, <5>2, <5>3
      <4>2. CASE h = len + 1
        BY <1>7, <3>3, <4>2 DEF row
      <4> QED
        BY <1>12, <4>1, <4>2
    <3> QED
      BY <3>3, <3>6, <3>7 DEF Open
  <2>2. CASE ~(row.kind = "escalation_raised" /\ row.id # NoId)
    <3>1. t.open = s.open
      BY <2>2 DEF Adds, row
    <3>2. \A h \in s.pending : more[h] = at[h] /\ h \in t.pending
      BY <1>5, <1>7, <1>11
    <3>3. ASSUME NEW h \in t.pending, rows[more[h]].kind = "escalation_raised",
                 rows[more[h]].id # NoId
          PROVE  h \in s.pending
      BY <1>7, <1>12, <2>2, <3>3 DEF row
    <3> QED
      BY <1>6, <3>1, <3>2, <3>3 DEF Open
  <2> QED
    BY <2>1, <2>2
<1>15. IsState(t)
  BY DEF Adds
<1> QED
  BY <1>9, <1>13, <1>14, <1>15 DEF Told

\* A row without a line.
LEMMA NoLine ==
  ASSUME NEW rows, NEW n \in Nat, NEW s, NEW at, Told(rows, n, n + 1, s, at),
         ~O!MakesLine(rows[n + 1])
  PROVE  Told(rows, n + 1, n + 1, s, at)
<1>1. /\ IsHistory(s.history)
      /\ at \in [1 .. Len(s.history) -> 1 .. n]
      /\ \A h, k \in 1 .. Len(s.history) : h < k => at[h] < at[k]
      /\ \A i \in 1 .. n : O!MakesLine(rows[i]) <=> \E h \in 1 .. Len(s.history) : at[h] = i
  BY DEF Told, Shown
<1>2. \A h \in 1 .. Len(s.history) : at[h] \in 1 .. n
  BY <1>1
<1>3. at \in [1 .. Len(s.history) -> 1 .. n + 1]
  BY <1>1
<1>4. \A i \in 1 .. n + 1 : O!MakesLine(rows[i]) <=> \E h \in 1 .. Len(s.history) : at[h] = i
  <2> TAKE i \in 1 .. n + 1
  <2>1. i = n + 1 \/ i \in 1 .. n
    OBVIOUS
  <2>2. i = n + 1 => \A h \in 1 .. Len(s.history) : at[h] # i
    BY <1>2
  <2> QED
    BY <1>1, <2>1, <2>2
<1>5. Shown(rows, n + 1, s.history, at)
  BY <1>1, <1>3, <1>4 DEF Shown
<1> QED
  BY <1>5 DEF Told

\* A kept action settles everything.
LEMMA AllSettled ==
  ASSUME NEW rows, NEW n \in Nat, NEW s, NEW at, Told(rows, n, n, s, at),
         O!KeptAction(rows[n + 1])
  PROVE  /\ Told(rows, n, n + 1, O!Kept(s, rows[n + 1]), at)
         /\ IsState(O!Kept(s, rows[n + 1]))
<1> DEFINE row == rows[n + 1]
           t   == O!Resolve(s, row.summary)
<1>1. t = O!Kept(s, row)
  BY DEF O!Kept, O!KeptAction
<1>2. /\ IsState(s) /\ s.pending \subseteq 1 .. Len(s.history)
      /\ \A id \in DOMAIN s.open : s.open[id] \in s.pending
  BY DEF Told, Waits, Open
<1>3. /\ IsState(t) /\ t.history = O!Resolved(s.history, s.pending, row.summary)
      /\ t.pending = {} /\ t.open = [id \in {} |-> 0]
  <2> DEFINE history == O!Resolved(s.history, s.pending, row.summary)
             open == [id \in {} |-> 0]
  <2>1. t = [s EXCEPT !.history = history, !.pending = {}, !.open = open]
    BY <1>2 DEF O!Resolve, IsState
  <2> HIDE DEF history, open, t
  <2>2. IsState(t) /\ t.history = history /\ t.pending = {} /\ t.open = open
    BY <1>2, <2>1 DEF IsState
  <2> QED
    BY <2>2 DEF history, open
<1> HIDE DEF t
<1>4. \A h \in 1 .. Len(s.history) : h \in s.pending <=> h \in s.pending /\ O!Ends(rows, at[h], n + 1)
  BY DEF O!Ends
<1>5. [id \in {x \in DOMAIN s.open : s.open[x] \notin s.pending} |-> s.open[id]] = [id \in {} |-> 0]
  BY <1>2
<1>6. t.pending = s.pending \ s.pending
  BY <1>3
<1>7. Settles(rows, n + 1, s, at, s.pending, t)
  BY <1>3, <1>4, <1>5, <1>6 DEF Settles
<1> QED
  BY <1>1, <1>3, <1>7, RowEnds

\* A retraction settles its own escalation.
LEMMA OneSettled ==
  ASSUME NEW rows, NEW n \in Nat, NEW s, NEW at, Told(rows, n, n, s, at),
         rows[n + 1].kind = "retracted"
  PROVE  Told(rows, n, n + 1, O!Retract(s, rows[n + 1]), at)
<1> DEFINE row == rows[n + 1]
           t   == O!Retract(s, row)
           one == s.open[row.id]
<1>1. /\ IsState(s) /\ s.pending \subseteq 1 .. Len(s.history)
      /\ s.open = [id \in DOMAIN s.open |-> s.open[id]]
      /\ \A id \in DOMAIN s.open :
           /\ id # NoId /\ s.open[id] \in s.pending
           /\ rows[at[s.open[id]]].kind = "escalation_raised" /\ rows[at[s.open[id]]].id = id
      /\ \A h \in s.pending :
           rows[at[h]].kind = "escalation_raised" /\ rows[at[h]].id # NoId
           => rows[at[h]].id \in DOMAIN s.open /\ s.open[rows[at[h]].id] = h
  BY DEF Told, Waits, Open
<1>2. \A h \in s.pending :
        O!Ends(rows, at[h], n + 1) <=> /\ rows[at[h]].kind = "escalation_raised"
                                       /\ rows[at[h]].id # NoId /\ rows[at[h]].id = row.id
  BY DEF O!Ends, O!KeptAction
<1>3. CASE row.id \notin DOMAIN s.open
  <2>1. t = s
    BY <1>3 DEF O!Retract
  <2>2. \A h \in s.pending : ~O!Ends(rows, at[h], n + 1)
    BY <1>1, <1>2, <1>3
  <2> QED
    BY <1>1, <2>1, <2>2, NothingEnds
<1>4. CASE row.id \in DOMAIN s.open
  <2> DEFINE kept == {id \in DOMAIN s.open : s.open[id] \notin {one}}
  <2>1. t = [s EXCEPT !.history = O!Resolved(s.history, {one}, row.summary),
                      !.pending = s.pending \ {one},
                      !.open = [id \in DOMAIN s.open \ {row.id} |-> s.open[id]]]
    BY <1>1, <1>4 DEF O!Retract, IsState
  <2> HIDE DEF t
  <2>2. /\ IsState(t) /\ t.history = O!Resolved(s.history, {one}, row.summary)
        /\ t.pending = s.pending \ {one}
        /\ t.open = [id \in DOMAIN s.open \ {row.id} |-> s.open[id]]
    BY <1>1, <2>1 DEF IsState
  <2>3. kept = DOMAIN s.open \ {row.id}
    BY <1>1, <1>4
  <2>4. t.open = [id \in kept |-> s.open[id]]
    BY <2>2, <2>3
  <2>5. \A h \in 1 .. Len(s.history) : h \in {one} <=> h \in s.pending /\ O!Ends(rows, at[h], n + 1)
    BY <1>1, <1>2, <1>4
  <2>6. Settles(rows, n + 1, s, at, {one}, t)
    BY <2>2, <2>4, <2>5 DEF Settles
  <2> QED
    BY <2>6, RowEnds DEF t
<1> QED
  BY <1>3, <1>4

\* A line is added.
LEMMA EntryAdded ==
  ASSUME NEW s, IsState(s), NEW kind, NEW label
  PROVE  LET t == O!Add(s, O!Entry(kind, label)) IN
         /\ IsState(t) /\ IsEntry(O!Entry(kind, label))
         /\ t.history = Append(s.history, O!Entry(kind, label))
         /\ t.pending = s.pending /\ t.open = s.open
<1> DEFINE e == O!Entry(kind, label)
           t == O!Add(s, e)
           history == Append(s.history, e)
<1>1. IsEntry(e)
  BY DEF O!Entry, IsEntry
<1>2. t = [s EXCEPT !.history = history]
  BY DEF O!Add, IsState
<1> HIDE DEF e, t, history
<1>3. IsState(t) /\ t.history = history /\ t.pending = s.pending /\ t.open = s.open
  BY <1>2 DEF IsState
<1> QED
  BY <1>1, <1>3 DEF e, t, history

\* build_outcome, one row.
LEMMA RowTold ==
  ASSUME NEW Line, NEW rows \in Seq(Line), FreshIds(rows), NEW n \in Nat, n + 1 \in DOMAIN rows,
         NEW s, NEW at, Told(rows, n, n, s, at)
  PROVE  \E more : Told(rows, n + 1, n + 1, O!Account(s, rows[n + 1]), more)
<1> DEFINE row == rows[n + 1]
           t   == O!Account(s, row)
<1>1. IsState(s)
  BY DEF Told
<1>2. ASSUME ~O!KeptAction(row), row.kind # "retracted"
      PROVE  Told(rows, n, n + 1, s, at)
  <2>1. \A h \in s.pending : ~O!Ends(rows, at[h], n + 1)
    BY <1>2 DEF O!Ends
  <2> QED
    BY <1>1, <2>1, NothingEnds
<1>3. ASSUME NEW u, Told(rows, n, n + 1, u, at), O!MakesLine(row), Adds(row, u, t)
      PROVE  \E more : Told(rows, n + 1, n + 1, t, more)
  BY <1>3, LineAdded
<1>4. CASE row.kind = "answered"
  <2>1. CASE row.summary = ""
    <3>1. t = s
      BY <1>4, <2>1 DEF O!Account
    <3>2. ~O!KeptAction(row) /\ ~O!MakesLine(row)
      BY <1>4, <2>1 DEF O!KeptAction, O!MakesLine, O!Shown
    <3> QED
      BY <1>2, <1>4, <3>1, <3>2, NoLine
  <2>2. CASE row.summary # ""
    <3> DEFINE u == O!Kept(s, row)
    <3>1. t = O!Add(u, O!Entry("action", row.summary))
      BY <1>4, <2>2 DEF O!Account
    <3>2. O!KeptAction(row) /\ O!MakesLine(row) /\ ~O!Opens(row)
      BY <1>4, <2>2 DEF O!KeptAction, O!MakesLine, O!Opens
    <3>3. Told(rows, n, n + 1, u, at) /\ IsState(u)
      BY <3>2, AllSettled
    <3> HIDE DEF u, t
    <3>4. Adds(row, u, t)
      BY <1>4, <3>1, <3>2, <3>3, EntryAdded DEF Adds
    <3> QED
      BY <1>3, <3>2, <3>3, <3>4 DEF t
  <2> QED
    BY <2>1, <2>2
<1>5. CASE row.kind = "completed"
  <2> DEFINE u == O!Kept(s, row)
             e == O!Entry("terminal", "Task completed")
             v == O!Add(u, e)
  <2>1. t = [v EXCEPT !.headline = IF row.headline = "" THEN @ ELSE row.headline]
    BY <1>5 DEF O!Account
  <2>2. O!MakesLine(row) /\ ~O!Opens(row)
    BY <1>5 DEF O!MakesLine, O!Opens, O!Shown
  <2>3. Told(rows, n, n + 1, u, at) /\ IsState(u)
    <3>1. CASE row.summary = ""
      <4>1. u = s /\ ~O!KeptAction(row)
        BY <3>1 DEF O!Kept, O!KeptAction
      <4> QED
        BY <1>1, <1>2, <1>5, <4>1
    <3>2. CASE row.summary # ""
      BY <1>5, <3>2, AllSettled DEF O!KeptAction
    <3> QED
      BY <3>1, <3>2
  <2> HIDE DEF u
  <2>4. /\ IsState(v) /\ IsEntry(e) /\ v.history = Append(u.history, e)
        /\ v.pending = u.pending /\ v.open = u.open
    BY <2>3, EntryAdded
  <2> HIDE DEF t, v, e
  <2>5. /\ IsState(t) /\ t.history = v.history /\ t.pending = v.pending /\ t.open = v.open
    BY <2>1, <2>4 DEF IsState
  <2>6. Adds(row, u, t)
    BY <1>5, <2>2, <2>4, <2>5 DEF Adds
  <2> QED
    BY <1>3, <2>2, <2>3, <2>6 DEF t
<1>6. CASE row.kind = "escalation_raised"
  <2> DEFINE e == O!Entry("escalation", row.summary)
             v == O!Add(s, e)
  <2>1. t = [v EXCEPT !.pending = @ \cup {O!Next1(s)},
                      !.open = IF row.id = NoId THEN @
                               ELSE [id \in DOMAIN @ \cup {row.id} |->
                                       IF id = row.id THEN O!Next1(s) ELSE @[id]]]
    BY <1>6 DEF O!Account
  <2>2. O!MakesLine(row) /\ O!Opens(row) /\ ~O!KeptAction(row)
    BY <1>6 DEF O!MakesLine, O!Opens, O!Shown, O!KeptAction
  <2>3. Told(rows, n, n + 1, s, at)
    BY <1>2, <1>6, <2>2
  <2>4. /\ IsState(v) /\ IsEntry(e) /\ v.history = Append(s.history, e)
        /\ v.pending = s.pending /\ v.open = s.open
    BY <1>1, EntryAdded
  <2> HIDE DEF t, v, e
  <2>5. /\ IsState(t) /\ t.history = v.history /\ t.pending = v.pending \cup {Len(s.history) + 1}
        /\ t.open = IF row.id = NoId THEN v.open
                    ELSE [id \in DOMAIN v.open \cup {row.id} |->
                            IF id = row.id THEN Len(s.history) + 1 ELSE v.open[id]]
    BY <2>1, <2>4 DEF IsState, O!Next1
  <2>6. Adds(row, s, t)
    BY <1>6, <2>2, <2>4, <2>5 DEF Adds
  <2> QED
    BY <1>3, <2>2, <2>3, <2>6 DEF t
<1>7. CASE row.kind = "retracted"
  <2>1. t = O!Retract(s, row)
    BY <1>7 DEF O!Account
  <2>2. ~O!MakesLine(row)
    BY <1>7 DEF O!MakesLine, O!Shown
  <2>3. Told(rows, n, n + 1, O!Retract(s, row), at)
    BY <1>7, OneSettled
  <2> QED
    BY <2>1, <2>2, <2>3, NoLine
<1>8. CASE row.kind = "developer_prompt"
  <2> DEFINE e == O!Entry("developer", "Developer instruction")
             v == O!Add(s, e)
  <2>1. t = [v EXCEPT !.pending = @ \cup {O!Next1(s)}]
    BY <1>8 DEF O!Account
  <2>2. O!MakesLine(row) /\ O!Opens(row) /\ ~O!KeptAction(row)
    BY <1>8 DEF O!MakesLine, O!Opens, O!Shown, O!KeptAction
  <2>3. Told(rows, n, n + 1, s, at)
    BY <1>2, <1>8, <2>2
  <2>4. /\ IsState(v) /\ IsEntry(e) /\ v.history = Append(s.history, e)
        /\ v.pending = s.pending /\ v.open = s.open
    BY <1>1, EntryAdded
  <2> HIDE DEF t, v, e
  <2>5. /\ IsState(t) /\ t.history = v.history /\ t.pending = v.pending \cup {Len(s.history) + 1}
        /\ t.open = v.open
    BY <2>1, <2>4 DEF IsState, O!Next1
  <2>6. Adds(row, s, t)
    BY <1>8, <2>2, <2>4, <2>5 DEF Adds
  <2> QED
    BY <1>3, <2>2, <2>3, <2>6 DEF t
<1>9. CASE row.kind = "reactivated"
  <2> DEFINE e == O!Entry("reactivated", "New task")
             v == O!Add(s, e)
  <2>1. t = v
    BY <1>9 DEF O!Account
  <2>2. O!MakesLine(row) /\ ~O!Opens(row) /\ ~O!KeptAction(row)
    BY <1>9 DEF O!MakesLine, O!Opens, O!Shown, O!KeptAction
  <2>3. Told(rows, n, n + 1, s, at)
    BY <1>2, <1>9, <2>2
  <2>4. /\ IsState(v) /\ IsEntry(e) /\ v.history = Append(s.history, e)
        /\ v.pending = s.pending /\ v.open = s.open
    BY <1>1, EntryAdded
  <2> HIDE DEF t, v, e
  <2>5. Adds(row, s, t)
    BY <1>9, <2>1, <2>2, <2>4 DEF Adds
  <2> QED
    BY <1>3, <2>2, <2>3, <2>5 DEF t
<1>10. CASE row.kind \notin {"answered", "completed", "escalation_raised", "retracted",
                             "developer_prompt", "reactivated"}
  <2>1. t = IF row.kind = "error" THEN [s EXCEPT !.fatal = @ + 1] ELSE s
    BY <1>10 DEF O!Account
  <2>2. ~O!MakesLine(row) /\ ~O!KeptAction(row)
    BY <1>10 DEF O!MakesLine, O!Shown, O!KeptAction
  <2> HIDE DEF t
  <2>3. IsState(t) /\ t.history = s.history /\ t.pending = s.pending /\ t.open = s.open
    BY <1>1, <2>1 DEF IsState
  <2>4. \A h \in s.pending : ~O!Ends(rows, at[h], n + 1)
    BY <1>10, <2>2 DEF O!Ends
  <2>5. Told(rows, n, n + 1, t, at)
    BY <2>3, <2>4, NothingEnds
  <2> QED
    BY <2>2, <2>5, NoLine DEF t
<1> QED
  BY <1>4, <1>5, <1>6, <1>7, <1>8, <1>9, <1>10

LEMMA BeginTold ==
  ASSUME NEW rows
  PROVE  \E at : Told(rows, 0, 0, O!Begin, at)
<1> DEFINE s == O!Begin
<1>1. IsState(s) /\ s.history = <<>> /\ s.pending = {} /\ s.open = [id \in {} |-> 0]
  BY DEF O!Begin, IsState
<1> HIDE DEF s
<1>2. IsHistory(<<>>)
  BY DEF IsHistory
<1>3. Shown(rows, 0, s.history, <<>>)
  BY <1>1, <1>2 DEF Shown
<1>4. Waits(rows, 0, s, <<>>) /\ Open(rows, s, <<>>)
  BY <1>1 DEF Waits, Open
<1> QED
  BY <1>1, <1>3, <1>4 DEF Told, s

\* The outcome is put together row after row.
LEMMA OutcomeSteps ==
  ASSUME NEW rows, Len(rows) \in Nat, NEW state
  PROVE  \E after : /\ after = [n \in 0 .. Len(rows) |->
                               IF n = 0 THEN O!Begin ELSE O!Account(after[n - 1], rows[n])]
                   /\ O!BuildOutcome(state, rows).history =
                        O!Resolved(after[Len(rows)].history, after[Len(rows)].pending, O!NoFollowUp)
<1> DEFINE IsAfter(f, k) == f = [n \in 0 .. k |-> IF n = 0 THEN O!Begin
                                                ELSE O!Account(f[n - 1], rows[n])]
           Missing == {k \in Nat : ~ \E f : IsAfter(f, k)}
           after   == CHOOSE f : IsAfter(f, Len(rows))
<1>1. Missing = {}
  <2>1. SUFFICES ASSUME Missing # {} PROVE FALSE
    OBVIOUS
  <2>2. PICK k \in Missing : \A l \in Missing : k <= l
    BY <2>1, Least
  <2>3. k \in Nat /\ ~ \E f : IsAfter(f, k)
    OBVIOUS
  <2>4. k # 0
    <3>1. IsAfter([n \in 0 .. 0 |-> O!Begin], 0)
      OBVIOUS
    <3> QED
      BY <2>3, <3>1
  <2>5. k - 1 \in Nat /\ k - 1 \notin Missing
    <3> HIDE DEF Missing
    <3> QED
      BY <2>2, <2>3, <2>4
  <2>6. PICK g : IsAfter(g, k - 1)
    BY <2>5
  <2> DEFINE h == [n \in 0 .. k |-> IF n = k THEN O!Account(g[k - 1], rows[k]) ELSE g[n]]
  <2>7. ASSUME NEW n \in 0 .. k
        PROVE  h[n] = IF n = 0 THEN O!Begin ELSE O!Account(h[n - 1], rows[n])
    <3>1. CASE n = k
      BY <2>3, <2>4, <3>1
    <3>2. CASE n # k
      <4>1. n \in 0 .. k - 1
        BY <2>3, <3>2
      <4>2. g[n] = IF n = 0 THEN O!Begin ELSE O!Account(g[n - 1], rows[n])
        BY <2>6, <4>1
      <4>3. h[n] = g[n] /\ (n # 0 => h[n - 1] = g[n - 1])
        BY <2>3, <4>1
      <4> QED
        BY <4>2, <4>3
    <3> QED
      BY <3>1, <3>2
  <2>8. IsAfter(h, k)
    BY <2>7
  <2> QED
    BY <2>3, <2>8
<1>2. IsAfter(after, Len(rows))
  BY <1>1
<1>3. O!BuildOutcome(state, rows).history =
        O!Resolved(after[Len(rows)].history, after[Len(rows)].pending, O!NoFollowUp)
  BY DEF O!BuildOutcome
<1> HIDE DEF after
<1> QED
  BY <1>2, <1>3

LEMMA SolutionOfEnded ==
  ASSUME NEW rows, Len(rows) \in Nat, NEW i \in 1 .. Len(rows), NEW resolution,
         Ended(rows, i, Len(rows), resolution)
  PROVE  resolution = O!Solution(rows, i)
<1> DEFINE later == {j \in i + 1 .. Len(rows) : O!Ends(rows, i, j)}
<1>1. PICK j \in i + 1 .. Len(rows) :
        /\ O!Ends(rows, i, j) /\ \A k \in i + 1 .. j - 1 : ~O!Ends(rows, i, k)
        /\ resolution = rows[j].summary
  BY DEF Ended
<1>2. j \in later /\ later \subseteq i + 1 .. Len(rows)
  BY <1>1
<1>3. \A k \in later : j <= k
  <2> TAKE k \in later
  <2>1. k \in i + 1 .. Len(rows) /\ O!Ends(rows, i, k)
    OBVIOUS
  <2> QED
    BY <1>1, <2>1
<1> HIDE DEF later
<1>4. (CHOOSE x \in later : \A k \in later : x <= k) = j
  <2> DEFINE x == CHOOSE x \in later : \A k \in later : x <= k
  <2>1. x \in later /\ \A k \in later : x <= k
    BY <1>2, <1>3
  <2> HIDE DEF x
  <2>2. x <= j /\ j <= x /\ x \in Int /\ j \in Int
    BY <1>2, <1>3, <2>1
  <2> QED
    BY <2>2 DEF x
<1> QED
  BY <1>1, <1>2, <1>4 DEF O!Solution, later

LEMMA SolutionOfUnended ==
  ASSUME NEW rows, NEW i, Unended(rows, i, Len(rows))
  PROVE  O!Solution(rows, i) = O!NoFollowUp
BY DEF Unended, O!Solution

LEMMA SameCount == ASSUME NEW S PROVE O!Cardinality(S) = Cardinality(S)
  BY DEF Cardinality, O!Cardinality

\* Every escalation and instruction of a decision log of any length gets its own Solution.
LEMMA SolutionsAreTheirs ==
  ASSUME NEW Line, NEW lines \in Seq(Line), FreshIds(lines)
  PROVE  O!SolutionsMatch(lines)
<1> DEFINE read     == O!ReadRows(lines)
           out      == O!BuildOutcome("stopped", read.rows).history
           shown    == {i \in DOMAIN lines : O!MakesLine(lines[i])}
           place(i) == O!Cardinality({k \in shown : k <= i})
<1> SUFFICES ASSUME ~read.fatal
             PROVE  /\ Len(out) = O!Cardinality(shown)
                    /\ \A i \in shown : O!Opens(lines[i]) => out[place(i)].resolution = O!Solution(lines, i)
  BY DEF O!SolutionsMatch
<1>1. read.rows = lines
  BY DEF O!ReadRows
<1>2. Len(lines) \in Nat /\ DOMAIN lines = 1 .. Len(lines)
  OBVIOUS
<1> HIDE DEF read
<1>3. PICK after : /\ after = [n \in 0 .. Len(lines) |->
                                 IF n = 0 THEN O!Begin ELSE O!Account(after[n - 1], lines[n])]
                   /\ out = O!Resolved(after[Len(lines)].history, after[Len(lines)].pending, O!NoFollowUp)
  <2>1. out = O!BuildOutcome("stopped", lines).history
    BY <1>1
  <2> HIDE DEF out
  <2> QED
    BY <1>2, <2>1, OutcomeSteps
<1> HIDE DEF out
<1> DEFINE Bad == {n \in 0 .. Len(lines) : ~ \E at : Told(lines, n, n, after[n], at)}
<1>4. Bad = {}
  <2>1. SUFFICES ASSUME Bad # {} PROVE FALSE
    OBVIOUS
  <2>2. PICK n \in Bad : \A k \in Bad : n <= k
    <3>1. Bad \subseteq Nat
      BY <1>2
    <3> QED
      BY <2>1, <3>1, Least
  <2>3. n \in 0 .. Len(lines) /\ ~ \E at : Told(lines, n, n, after[n], at)
    OBVIOUS
  <2>4. CASE n = 0
    BY <1>3, <2>3, <2>4, BeginTold
  <2>5. CASE n # 0
    <3>1. n - 1 \in 0 .. Len(lines) /\ n \in DOMAIN lines /\ n - 1 \in Nat /\ n - 1 + 1 = n
      BY <1>2, <2>3, <2>5
    <3>2. n - 1 \notin Bad
      <4> HIDE DEF Bad
      <4> QED
        BY <2>2, <2>3, <3>1
    <3>3. PICK at : Told(lines, n - 1, n - 1, after[n - 1], at)
      BY <3>1, <3>2
    <3>4. after[n] = O!Account(after[n - 1], lines[n])
      BY <1>3, <2>3, <2>5
    <3>5. \E more : Told(lines, n, n, O!Account(after[n - 1], lines[n]), more)
      BY <3>1, <3>3, RowTold
    <3> QED
      BY <2>3, <3>4, <3>5
  <2> QED
    BY <2>4, <2>5
<1> DEFINE N == Len(lines)
           s == after[N]
<1>5. PICK at : Told(lines, N, N, s, at)
  BY <1>2, <1>4
<1> HIDE DEF Bad, N, s
<1>6. /\ IsHistory(s.history) /\ Len(s.history) \in Nat
      /\ at \in [1 .. Len(s.history) -> 1 .. N]
      /\ \A h, k \in 1 .. Len(s.history) : h < k => at[h] < at[k]
      /\ \A i \in 1 .. N : O!MakesLine(lines[i]) <=> \E h \in 1 .. Len(s.history) : at[h] = i
  BY <1>5 DEF Told, Shown, IsHistory
<1>7. /\ Len(out) = Len(s.history)
      /\ \A h \in 1 .. Len(s.history) :
           out[h].resolution = IF h \in s.pending THEN O!NoFollowUp ELSE s.history[h].resolution
  <2> DEFINE history == s.history
             pending == s.pending
             resolved == O!Resolved(history, pending, O!NoFollowUp)
  <2>1. out = resolved
    BY <1>3 DEF s, N
  <2>2. IsHistory(history)
    BY <1>6
  <2> HIDE DEF history, pending
  <2>3. /\ Len(resolved) = Len(history)
        /\ \A h \in 1 .. Len(history) :
             resolved[h].resolution = IF h \in pending THEN O!NoFollowUp ELSE history[h].resolution
    BY <2>2, ResolvedHistory
  <2> HIDE DEF resolved
  <2> QED
    BY <2>1, <2>3 DEF history, pending
<1>8. shown \subseteq 1 .. N /\ N \in Nat /\ \A j \in 1 .. N : j \in shown <=> O!MakesLine(lines[j])
  BY <1>2 DEF N
<1> HIDE DEF shown
<1>9. /\ Cardinality(shown) = Len(s.history)
      /\ \A h \in 1 .. Len(s.history) :
           at[h] \in shown /\ Cardinality({k \in shown : k <= at[h]}) = h
  <2> DEFINE len == Len(s.history)
  <2>1. /\ len \in Nat /\ at \in [1 .. len -> 1 .. N]
        /\ \A h, k \in 1 .. len : h < k => at[h] < at[k]
        /\ \A j \in 1 .. N : j \in shown <=> \E h \in 1 .. len : at[h] = j
    BY <1>6, <1>8
  <2> HIDE DEF len
  <2>2. InOrder(at, len, shown, N)
    BY <1>8, <2>1 DEF InOrder
  <2>3. /\ Cardinality(shown) = len
        /\ \A h \in 1 .. len : at[h] \in shown /\ Cardinality({k \in shown : k <= at[h]}) = h
    BY <1>8, <2>1, <2>2, Counted
  <2> QED
    BY <2>3 DEF len
<1>10. ASSUME NEW i \in shown, O!Opens(lines[i])
       PROVE  out[place(i)].resolution = O!Solution(lines, i)
  <2>1. PICK h \in 1 .. Len(s.history) : at[h] = i
    BY <1>6, <1>8
  <2>2. place(i) = h
    BY <1>9, <2>1, SameCount
  <2> HIDE DEF place
  <2>3. CASE h \in s.pending
    <3>1. Unended(lines, i, N)
      BY <1>5, <2>1, <2>3 DEF Told, Waits
    <3> QED
      BY <1>7, <2>2, <2>3, <3>1, SolutionOfUnended DEF N
  <2>4. CASE h \notin s.pending
    <3>1. Ended(lines, i, N, s.history[h].resolution)
      BY <1>5, <1>10, <2>1, <2>4 DEF Told, Waits
    <3>2. i \in 1 .. N
      BY <1>8
    <3> QED
      BY <1>2, <1>7, <2>2, <2>4, <3>1, <3>2, SolutionOfEnded DEF N
  <2> QED
    BY <2>3, <2>4
<1> QED
  BY <1>7, <1>9, <1>10, SameCount

-----------------------------------------------------------------------------
(* transcript/adapter.py                                                   *)

LEMMA SeqIsSeq ==
  ASSUME NEW S, NEW q \in Seq(S) PROVE IsSeq(q)
BY DEF IsSeq

LEMMA IsSeqOf ==
  ASSUME NEW q, IsSeq(q), NEW S, \A i \in 1 .. Len(q) : q[i] \in S PROVE q \in Seq(S)
BY DEF IsSeq

\* Two sequences, one after the other.
LEMMA Joined ==
  ASSUME NEW p, IsSeq(p), NEW q, IsSeq(q)
  PROVE  /\ IsSeq(p \o q) /\ Len(p \o q) = Len(p) + Len(q)
         /\ \A i \in 1 .. Len(p) : (p \o q)[i] = p[i]
         /\ \A i \in 1 .. Len(q) : (p \o q)[Len(p) + i] = q[i]
<1> DEFINE S == {p[i] : i \in 1 .. Len(p)} \cup {q[i] : i \in 1 .. Len(q)}
<1>1. \A i \in 1 .. Len(p) : p[i] \in S
  OBVIOUS
<1>2. \A i \in 1 .. Len(q) : q[i] \in S
  OBVIOUS
<1> HIDE DEF S
<1>3. p \in Seq(S) /\ q \in Seq(S)
  BY <1>1, <1>2, IsSeqOf
<1>4. p \o q \in Seq(S)
  BY <1>3
<1>5. IsSeq(p \o q)
  BY <1>4, SeqIsSeq
<1>6. /\ Len(p \o q) = Len(p) + Len(q)
      /\ \A i \in 1 .. Len(p) : (p \o q)[i] = p[i]
      /\ \A i \in 1 .. Len(q) : (p \o q)[Len(p) + i] = q[i]
  BY <1>3
<1> QED
  BY <1>5, <1>6

LEMMA EmptyIsSeq == IsSeq(<<>>) /\ Len(<<>>) = 0
BY DEF IsSeq

AreSeqs(seqs) == IsSeq(seqs) /\ \A n \in 1 .. Len(seqs) : IsSeq(seqs[n])

\* Sequences flattened, one after the other.
IsFlattened(flat, seqs) ==
  /\ flat[0] = <<>> /\ \A n \in 0 .. Len(seqs) : IsSeq(flat[n])
  /\ \A n \in 1 .. Len(seqs) : flat[n] = flat[n - 1] \o seqs[n]
  /\ T!FlattenSeq(seqs) = flat[Len(seqs)]

LEMMA FlattenSteps ==
  ASSUME NEW seqs, AreSeqs(seqs)
  PROVE  \E flat : IsFlattened(flat, seqs)
<1> DEFINE N == Len(seqs)
           IsFlat(f, k) == f = [n \in 1 .. k |-> IF n = 1 THEN seqs[n] ELSE f[n - 1] \o seqs[n]]
           Missing == {k \in Nat : ~ \E f : IsFlat(f, k)}
           flatten == CHOOSE f : IsFlat(f, N)
           flat    == [n \in 0 .. N |-> IF n = 0 THEN <<>> ELSE flatten[n]]
<1> USE DEF AreSeqs
<1>1. Missing = {}
  <2>1. SUFFICES ASSUME Missing # {} PROVE FALSE
    OBVIOUS
  <2>2. PICK k \in Missing : \A l \in Missing : k <= l
    BY <2>1, Least
  <2>3. k \in Nat /\ ~ \E f : IsFlat(f, k)
    OBVIOUS
  <2>4. k # 0
    <3>1. IsFlat([n \in 1 .. 0 |-> seqs[n]], 0)
      OBVIOUS
    <3> QED
      BY <2>3, <3>1
  <2>5. k - 1 \in Nat /\ k - 1 \notin Missing
    <3> HIDE DEF Missing
    <3> QED
      BY <2>2, <2>3, <2>4
  <2>6. PICK g : IsFlat(g, k - 1)
    BY <2>5
  <2> DEFINE h == [n \in 1 .. k |-> IF n = k THEN (IF k = 1 THEN seqs[k] ELSE g[k - 1] \o seqs[k])
                                   ELSE g[n]]
  <2>7. ASSUME NEW n \in 1 .. k
        PROVE  h[n] = IF n = 1 THEN seqs[n] ELSE h[n - 1] \o seqs[n]
    <3>1. CASE n = k
      BY <2>3, <2>4, <3>1
    <3>2. CASE n # k
      <4>1. n \in 1 .. k - 1
        BY <2>3, <3>2
      <4>2. g[n] = IF n = 1 THEN seqs[n] ELSE g[n - 1] \o seqs[n]
        BY <2>6, <4>1
      <4>3. h[n] = g[n] /\ (n # 1 => h[n - 1] = g[n - 1])
        BY <2>3, <4>1
      <4> QED
        BY <4>2, <4>3
    <3> QED
      BY <3>1, <3>2
  <2>8. IsFlat(h, k)
    BY <2>7
  <2> QED
    BY <2>3, <2>8
<1>2. N \in Nat
  BY DEF IsSeq
<1>3. IsFlat(flatten, N)
  BY <1>1, <1>2
<1>4. T!FlattenSeq(seqs) = IF N = 0 THEN seqs ELSE flatten[N]
  BY DEF T!FlattenSeq
<1> HIDE DEF flatten
<1>5. \A n \in 1 .. N : flatten[n] = IF n = 1 THEN seqs[n] ELSE flatten[n - 1] \o seqs[n]
  BY <1>3
<1>6. flat[0] = <<>> /\ \A n \in 1 .. N : flat[n] = flatten[n]
  BY <1>2
<1> HIDE DEF flat, N
<1>7. ASSUME NEW n \in 1 .. N PROVE flat[n] = flat[n - 1] \o seqs[n]
  <2>1. CASE n = 1
    <3>1. flat[1] = seqs[1] /\ flat[0] = <<>>
      BY <1>5, <1>6, <2>1
    <3>2. IsSeq(seqs[1])
      BY <2>1 DEF N
    <3>3. <<>> \o seqs[1] = seqs[1]
      <4>1. PICK q : q = seqs[1] /\ IsSeq(q)
        BY <3>2
      <4>2. q \in Seq({q[i] : i \in 1 .. Len(q)})
        BY <4>1, IsSeqOf
      <4>3. <<>> \o q = q
        BY <4>2
      <4> QED
        BY <4>1, <4>3
    <3>4. flat[1] = flat[0] \o seqs[1]
      BY <3>1, <3>3
    <3>5. n - 1 = 0
      BY <2>1
    <3> QED
      BY <2>1, <3>4, <3>5
  <2>2. CASE n # 1
    <3>1. n - 1 \in 1 .. N
      BY <1>2, <2>2
    <3> QED
      BY <1>5, <1>6, <2>2, <3>1
  <2> QED
    BY <2>1, <2>2
<1>8. ASSUME NEW n \in 0 .. N PROVE IsSeq(flat[n])
  <2> DEFINE Bad == {m \in 0 .. N : ~IsSeq(flat[m])}
  <2>1. Bad = {}
    <3>1. SUFFICES ASSUME Bad # {} PROVE FALSE
      OBVIOUS
    <3>2. Bad \subseteq Nat
      BY <1>2
    <3>3. PICK k \in Bad : \A m \in Bad : k <= m
      BY <3>1, <3>2, Least
    <3>4. k \in 0 .. N /\ ~IsSeq(flat[k])
      OBVIOUS
    <3>5. k # 0
      BY <1>6, <3>4, EmptyIsSeq
    <3>6. k - 1 \in 0 .. N /\ k \in 1 .. N /\ k - 1 \notin Bad
      <4> HIDE DEF Bad
      <4> QED
        BY <1>2, <3>3, <3>4, <3>5
    <3>7. IsSeq(flat[k - 1]) /\ IsSeq(seqs[k])
      BY <3>6 DEF N
    <3>8. IsSeq(flat[k - 1] \o seqs[k])
      BY <3>7, Joined
    <3> QED
      BY <1>7, <3>4, <3>6, <3>8
  <2> QED
    BY <2>1
<1>9. T!FlattenSeq(seqs) = flat[N]
  <2>1. CASE N = 0
    <3>1. seqs = <<>>
      BY <2>1 DEF N, IsSeq
    <3> QED
      BY <1>4, <1>6, <2>1, <3>1
  <2>2. CASE N # 0
    BY <1>2, <1>4, <1>6, <2>2
  <2> QED
    BY <2>1, <2>2
<1>10. IsFlattened(flat, seqs)
  BY <1>6, <1>7, <1>8, <1>9 DEF N, IsFlattened
<1> QED
  BY <1>10

LEMMA Flattened ==
  ASSUME NEW seqs, AreSeqs(seqs)
  PROVE  IsSeq(T!FlattenSeq(seqs))
<1>1. PICK flat : IsFlattened(flat, seqs)
  BY FlattenSteps
<1>2. Len(seqs) \in 0 .. Len(seqs)
  BY DEF AreSeqs, IsSeq
<1> QED
  BY <1>1, <1>2 DEF IsFlattened

\* p is the beginning of q.
Begins(p, q) == Len(p) <= Len(q) /\ \A i \in 1 .. Len(p) : q[i] = p[i]

\* Where each of the sequences starts in the whole, start[n - 1] for the n-th.
AreStarts(start, seqs, whole) ==
  /\ IsSeq(whole) /\ start[0] = 0 /\ start[Len(seqs)] = Len(whole)
  /\ \A n \in 0 .. Len(seqs) : start[n] \in 0 .. Len(whole)
  /\ \A n \in 1 .. Len(seqs) :
       /\ start[n] = start[n - 1] + Len(seqs[n])
       /\ \A k \in 1 .. Len(seqs[n]) : whole[start[n - 1] + k] = seqs[n][k]

LEMMA FlattenStarts ==
  ASSUME NEW seqs, AreSeqs(seqs)
  PROVE  \E start : AreStarts(start, seqs, T!FlattenSeq(seqs))
<1>1. PICK flat : IsFlattened(flat, seqs)
  BY FlattenSteps
<1> DEFINE N == Len(seqs)
           start == [n \in 0 .. N |-> Len(flat[n])]
           Bad == {m \in 0 .. N : \E n \in 0 .. m : ~Begins(flat[n], flat[m])}
<1>2. N \in Nat /\ \A n \in 1 .. N : IsSeq(seqs[n])
  BY DEF AreSeqs, IsSeq
<1>3. \A n \in 0 .. N : IsSeq(flat[n]) /\ Len(flat[n]) \in Nat
  BY <1>1 DEF IsFlattened, IsSeq
<1> HIDE DEF N
<1>4. ASSUME NEW n \in 1 .. N
      PROVE  /\ n - 1 \in 0 .. N /\ Len(seqs[n]) \in Nat
             /\ Len(flat[n]) = Len(flat[n - 1]) + Len(seqs[n])
             /\ \A i \in 1 .. Len(flat[n - 1]) : flat[n][i] = flat[n - 1][i]
             /\ \A k \in 1 .. Len(seqs[n]) : flat[n][Len(flat[n - 1]) + k] = seqs[n][k]
  <2>1. n - 1 \in 0 .. N
    BY <1>2
  <2>2. IsSeq(flat[n - 1]) /\ IsSeq(seqs[n])
    BY <1>2, <1>3, <2>1
  <2>3. flat[n] = flat[n - 1] \o seqs[n]
    BY <1>1 DEF IsFlattened, N
  <2>4. Len(seqs[n]) \in Nat
    BY <2>2 DEF IsSeq
  <2>5. PICK p, q : p = flat[n - 1] /\ q = seqs[n]
    OBVIOUS
  <2>6. IsSeq(p) /\ IsSeq(q)
    BY <2>2, <2>5
  <2>7. /\ Len(p \o q) = Len(p) + Len(q)
        /\ \A i \in 1 .. Len(p) : (p \o q)[i] = p[i]
        /\ \A i \in 1 .. Len(q) : (p \o q)[Len(p) + i] = q[i]
    BY <2>6, Joined
  <2> QED
    BY <2>1, <2>3, <2>4, <2>5, <2>7
<1>5. Bad = {}
  <2>1. SUFFICES ASSUME Bad # {} PROVE FALSE
    OBVIOUS
  <2>2. Bad \subseteq Nat
    BY <1>2
  <2>3. PICK m \in Bad : \A l \in Bad : m <= l
    BY <2>1, <2>2, Least
  <2>4. PICK n \in 0 .. m : ~Begins(flat[n], flat[m])
    OBVIOUS
  <2>5. m \in 0 .. N
    OBVIOUS
  <2>6. n # m
    BY <1>3, <2>4, <2>5 DEF Begins
  <2>7. m \in 1 .. N /\ n \in 0 .. m - 1 /\ n \in 0 .. N
    BY <1>2, <2>5, <2>6
  <2>8. m - 1 \notin Bad
    <3> HIDE DEF Bad
    <3> QED
      BY <2>2, <2>3
  <2>9. Begins(flat[n], flat[m - 1])
    BY <1>2, <2>7, <2>8
  <2>10. Begins(flat[n], flat[m])
    <3>1. /\ m - 1 \in 0 .. N /\ Len(seqs[m]) \in Nat
          /\ Len(flat[m]) = Len(flat[m - 1]) + Len(seqs[m])
          /\ \A i \in 1 .. Len(flat[m - 1]) : flat[m][i] = flat[m - 1][i]
      BY <1>4, <2>7
    <3>2. Len(flat[n]) \in Nat /\ Len(flat[m - 1]) \in Nat
      BY <1>3, <2>7, <3>1
    <3>3. PICK a, b, c, d : /\ a = Len(flat[n]) /\ b = Len(flat[m - 1])
                           /\ c = Len(seqs[m]) /\ d = Len(flat[m])
      OBVIOUS
    <3>4. a \in Nat /\ b \in Nat /\ c \in Nat /\ a <= b /\ d = b + c
      BY <2>9, <3>1, <3>2, <3>3 DEF Begins
    <3>5. a <= d /\ \A i \in 1 .. a : i \in 1 .. b
      BY <3>4
    <3>6. \A i \in 1 .. a : flat[m][i] = flat[n][i]
      BY <2>9, <3>1, <3>3, <3>5 DEF Begins
    <3> QED
      BY <3>3, <3>5, <3>6 DEF Begins
  <2> QED
    BY <2>4, <2>10
<1>6. T!FlattenSeq(seqs) = flat[N] /\ flat[0] = <<>> /\ N \in 0 .. N
  BY <1>1, <1>2 DEF IsFlattened, N
<1>7. \A n \in 0 .. N : Begins(flat[n], flat[N])
  BY <1>2, <1>5, <1>6
<1>8. start[0] = 0 /\ \A n \in 0 .. N : start[n] = Len(flat[n]) /\ start[n] \in 0 .. Len(flat[N])
  BY <1>2, <1>3, <1>6, <1>7, EmptyIsSeq DEF Begins
<1> HIDE DEF start
<1>9. ASSUME NEW n \in 1 .. N
      PROVE  /\ start[n] = start[n - 1] + Len(seqs[n])
             /\ \A k \in 1 .. Len(seqs[n]) : flat[N][start[n - 1] + k] = seqs[n][k]
  <2>1. n \in 0 .. N /\ n - 1 \in 0 .. N
    BY <1>2
  <2>2. start[n] = Len(flat[n]) /\ start[n - 1] = Len(flat[n - 1])
    BY <1>8, <2>1
  <2>3. Begins(flat[n], flat[N])
    BY <1>7, <2>1
  <2>4. /\ Len(seqs[n]) \in Nat /\ Len(flat[n - 1]) \in Nat
        /\ Len(flat[n]) = Len(flat[n - 1]) + Len(seqs[n])
        /\ \A k \in 1 .. Len(seqs[n]) : flat[n][Len(flat[n - 1]) + k] = seqs[n][k]
    BY <1>3, <1>4, <2>1
  <2>5. ASSUME NEW k \in 1 .. Len(seqs[n])
        PROVE  flat[N][Len(flat[n - 1]) + k] = seqs[n][k]
    <3>1. PICK a, b, c : a = Len(flat[n - 1]) /\ b = Len(seqs[n]) /\ c = Len(flat[n])
      OBVIOUS
    <3>2. a \in Nat /\ b \in Nat /\ c = a + b /\ k \in 1 .. b
      BY <2>4, <3>1
    <3>3. a + k \in 1 .. c
      BY <3>2
    <3>4. Len(flat[n - 1]) + k \in 1 .. Len(flat[n])
      BY <3>1, <3>3
    <3> QED
      BY <2>3, <2>4, <3>4 DEF Begins
  <2> QED
    BY <2>2, <2>4, <2>5
<1>10. AreStarts(start, seqs, flat[N])
  BY <1>3, <1>6, <1>8, <1>9 DEF AreStarts, N
<1> QED
  BY <1>6, <1>10

LEMMA MapIfIsSeq ==
  ASSUME NEW test, NEW event PROVE IsSeq(T!MapIf(test, event))
BY DEF T!MapIf, IsSeq

LEMMA BlocksFlattened ==
  ASSUME NEW blocks, IsSeq(blocks), NEW seqs, seqs = [i \in DOMAIN blocks |-> seqs[i]],
         \A i \in DOMAIN blocks : IsSeq(seqs[i])
  PROVE  IsSeq(T!FlattenSeq(seqs))
<1>1. DOMAIN blocks = 1 .. Len(blocks) /\ Len(blocks) \in Nat
  BY DEF IsSeq
<1>2. IsSeq(seqs) /\ Len(seqs) = Len(blocks)
  BY <1>1 DEF IsSeq
<1>3. AreSeqs(seqs)
  BY <1>1, <1>2 DEF AreSeqs
<1> QED
  BY <1>3, Flattened

LEMMA MapLineIsSeq ==
  ASSUME NEW line, line.shape = "object", IsLine(line)
  PROVE  IsSeq(T!MapLine(line))
<1>1. IsSeq(line.blocks)
  BY DEF IsLine
<1>2. IsSeq(T!MapAssistant(line))
  <2> DEFINE seqs == [i \in DOMAIN line.blocks |->
                LET b == line.blocks[i] IN
                IF b.type = "tool_use" THEN T!MapToolUse(b)
                ELSE T!MapIf(b.type = "text", T!Event("assistant_text", NoId, FALSE, NoAnswers, TRUE))]
  <2>1. T!MapAssistant(line) = T!FlattenSeq(seqs)
    BY DEF T!MapAssistant
  <2>2. \A i \in DOMAIN line.blocks : IsSeq(seqs[i])
    BY MapIfIsSeq DEF T!MapToolUse
  <2>3. seqs = [i \in DOMAIN line.blocks |-> seqs[i]]
    OBVIOUS
  <2> HIDE DEF seqs
  <2> QED
    BY <1>1, <2>1, <2>2, <2>3, BlocksFlattened
<1>3. IsSeq(T!MapUser(line))
  <2>1. CASE line.text # "none"
    BY <2>1, MapIfIsSeq DEF T!MapUser
  <2>2. CASE line.text = "none"
    <3> DEFINE seqs == [i \in DOMAIN line.blocks |->
                  LET b == line.blocks[i] IN
                  T!MapIf(b.type = "tool_result",
                          T!Event("tool_result", b.id, b.error \/ line.rejected, line.answers, TRUE))]
    <3>1. T!MapUser(line) = T!FlattenSeq(seqs)
      BY <2>2 DEF T!MapUser
    <3>2. \A i \in DOMAIN line.blocks : IsSeq(seqs[i])
      BY MapIfIsSeq
    <3>3. seqs = [i \in DOMAIN line.blocks |-> seqs[i]]
      OBVIOUS
    <3> HIDE DEF seqs
    <3> QED
      BY <1>1, <3>1, <3>2, <3>3, BlocksFlattened
  <2> QED
    BY <2>1, <2>2
<1> QED
  BY <1>2, <1>3, EmptyIsSeq DEF T!MapLine

\* The events of the first n items.
EventsTold(items, n, events) ==
  /\ IsSeq(events)
  /\ \E at : /\ InOrder(at, Len(events), {i \in 1 .. n : T!Kept(items, i)}, n)
             /\ \A h \in 1 .. Len(events) : T!IsEventOf(events[h], items, at[h])

\* The calls that wait after the first n items.
PendingTold(items, n, pending) ==
  /\ pending = [id \in DOMAIN pending |-> pending[id]]
  /\ \A id \in DOMAIN pending : \E j \in 1 .. n :
       /\ T!WaitsBefore(items, n + 1, j) /\ items[j].id = id
       /\ pending[id] = T!AnswerTo(items[j].kind)
  /\ \A j \in 1 .. n : T!WaitsBefore(items, n + 1, j) => items[j].id \in DOMAIN pending

\* The reader has read the first n items, and no line that is not JSON.
IsReader(s) ==
  s = [events |-> s.events, pending |-> s.pending, lines |-> s.lines, unknown |-> s.unknown,
       skipped |-> s.skipped, fatal |-> s.fatal]
ReaderTold(items, n, s) ==
  /\ IsReader(s) /\ s.fatal = FALSE
  /\ EventsTold(items, n, s.events) /\ PendingTold(items, n, s.pending)

LEMMA Appended ==
  ASSUME NEW q, IsSeq(q), NEW e
  PROVE  /\ IsSeq(Append(q, e)) /\ Len(Append(q, e)) = Len(q) + 1
         /\ \A i \in 1 .. Len(q) : Append(q, e)[i] = q[i]
         /\ Append(q, e)[Len(q) + 1] = e
<1> DEFINE S == {q[i] : i \in 1 .. Len(q)} \cup {e}
<1>1. \A i \in 1 .. Len(q) : q[i] \in S
  OBVIOUS
<1>2. e \in S
  OBVIOUS
<1> HIDE DEF S
<1>3. q \in Seq(S)
  BY <1>1, IsSeqOf
<1>4. Append(q, e) \in Seq(S)
  BY <1>2, <1>3
<1>5. IsSeq(Append(q, e))
  BY <1>4, SeqIsSeq
<1> QED
  BY <1>2, <1>3, <1>5

LEMMA EventDropped ==
  ASSUME NEW items, NEW n \in Nat, NEW events, EventsTold(items, n, events), ~T!Kept(items, n + 1)
  PROVE  EventsTold(items, n + 1, events)
<1>1. PICK at : /\ InOrder(at, Len(events), {i \in 1 .. n : T!Kept(items, i)}, n)
                /\ \A h \in 1 .. Len(events) : T!IsEventOf(events[h], items, at[h])
  BY DEF EventsTold
<1>2. Len(events) \in Nat /\ IsSeq(events)
  BY DEF EventsTold, IsSeq
<1> DEFINE S == {i \in 1 .. n : T!Kept(items, i)}
<1>3. {i \in 1 .. n + 1 : T!Kept(items, i)} = S
  OBVIOUS
<1>4. n + 1 \notin S /\ S \subseteq 1 .. n
  OBVIOUS
<1> HIDE DEF S
<1>5. InOrder(at, Len(events), S, n)
  BY <1>1 DEF S
<1>6. InOrder(at, Len(events), S, n + 1)
  <2> DEFINE m == Len(events)
  <2>1. m \in Nat
    BY <1>2
  <2>2. /\ at \in [1 .. m -> 1 .. n] /\ \A i, j \in 1 .. m : i < j => at[i] < at[j]
        /\ \A j \in 1 .. n : j \in S <=> \E i \in 1 .. m : at[i] = j
    BY <1>5 DEF InOrder
  <2> HIDE DEF m
  <2>3. at \in [1 .. m -> 1 .. n + 1] /\ S \subseteq 1 .. n + 1
    BY <2>2, <1>4
  <2>4. \A j \in 1 .. n + 1 : j \in S <=> \E i \in 1 .. m : at[i] = j
    <3> TAKE j \in 1 .. n + 1
    <3>1. CASE j = n + 1
      <4>1. \A i \in 1 .. m : at[i] \in 1 .. n
        BY <2>2
      <4> QED
        BY <1>4, <3>1, <4>1
    <3>2. CASE j # n + 1
      <4>1. j \in 1 .. n
        BY <3>2
      <4> QED
        BY <2>2, <4>1
    <3> QED
      BY <3>1, <3>2
  <2>5. InOrder(at, m, S, n + 1)
    BY <2>2, <2>3, <2>4 DEF InOrder
  <2> QED
    BY <2>5 DEF m
<1> QED
  BY <1>1, <1>2, <1>3, <1>6 DEF EventsTold

LEMMA EventAdded ==
  ASSUME NEW items, NEW n \in Nat, NEW events, EventsTold(items, n, events), T!Kept(items, n + 1),
         NEW event, T!IsEventOf(event, items, n + 1)
  PROVE  EventsTold(items, n + 1, Append(events, event))
<1>1. PICK at : /\ InOrder(at, Len(events), {i \in 1 .. n : T!Kept(items, i)}, n)
                /\ \A h \in 1 .. Len(events) : T!IsEventOf(events[h], items, at[h])
  BY DEF EventsTold
<1> DEFINE S == {i \in 1 .. n : T!Kept(items, i)}
           U == {i \in 1 .. n + 1 : T!Kept(items, i)}
           m == Len(events)
           longer == [i \in 1 .. m + 1 |-> IF i = m + 1 THEN n + 1 ELSE at[i]]
<1>2. m \in Nat /\ IsSeq(events)
  BY DEF EventsTold, IsSeq
<1>3. S \subseteq 1 .. n /\ U = S \cup {n + 1}
  OBVIOUS
<1> HIDE DEF S, U
<1>4. InOrder(at, m, S, n)
  BY <1>1 DEF S
<1>5. /\ IsSeq(Append(events, event)) /\ Len(Append(events, event)) = m + 1
      /\ \A i \in 1 .. m : Append(events, event)[i] = events[i]
      /\ Append(events, event)[m + 1] = event
  BY <1>2, Appended
<1>6. \A h \in 1 .. m : T!IsEventOf(events[h], items, at[h])
  BY <1>1
<1> HIDE DEF m
<1>7. /\ at \in [1 .. m -> 1 .. n] /\ \A i, j \in 1 .. m : i < j => at[i] < at[j]
      /\ \A j \in 1 .. n : j \in S <=> \E i \in 1 .. m : at[i] = j
  BY <1>4 DEF InOrder
<1>8. longer[m + 1] = n + 1 /\ \A i \in 1 .. m : longer[i] = at[i] /\ at[i] \in 1 .. n
  BY <1>2, <1>7
<1>9. longer \in [1 .. m + 1 -> 1 .. n + 1]
  BY <1>2, <1>7
<1> HIDE DEF longer
<1>10. \A i \in 1 .. m + 1 : i \in 1 .. m \/ i = m + 1
  BY <1>2
<1>11. \A i, j \in 1 .. m + 1 : i < j => longer[i] < longer[j]
  <2> TAKE i, j \in 1 .. m + 1
  <2> HAVE i < j
  <2>1. i \in 1 .. m
    BY <1>2
  <2> QED
    BY <1>7, <1>8, <1>10, <2>1
<1>12. \A j \in 1 .. n + 1 : j \in U <=> \E i \in 1 .. m + 1 : longer[i] = j
  <2> TAKE j \in 1 .. n + 1
  <2>1. CASE j = n + 1
    BY <1>2, <1>3, <1>8, <2>1
  <2>2. CASE j # n + 1
    <3>1. j \in 1 .. n
      BY <2>2
    <3>2. j \in U <=> j \in S
      BY <1>3, <2>2
    <3>3. (\E i \in 1 .. m + 1 : longer[i] = j) <=> \E i \in 1 .. m : at[i] = j
      BY <1>2, <1>8, <1>10, <2>2
    <3> QED
      BY <1>7, <3>1, <3>2, <3>3
  <2> QED
    BY <2>1, <2>2
<1>13. U \subseteq 1 .. n + 1
  BY <1>3
<1>14. InOrder(longer, m + 1, U, n + 1)
  BY <1>9, <1>11, <1>12, <1>13 DEF InOrder
<1>15. \A h \in 1 .. m + 1 : T!IsEventOf(Append(events, event)[h], items, longer[h])
  <2> TAKE h \in 1 .. m + 1
  <2>1. CASE h = m + 1
    BY <1>5, <1>8, <2>1
  <2>2. CASE h # m + 1
    <3>1. h \in 1 .. m
      BY <1>10, <2>2
    <3> QED
      BY <1>5, <1>6, <1>8, <3>1
  <2> QED
    BY <2>1, <2>2
<1> QED
  BY <1>5, <1>14, <1>15 DEF EventsTold, U

\* What still waits after one item more.
LEMMA WaitsOn ==
  ASSUME NEW items, NEW n \in Nat, NEW j \in 1 .. n
  PROVE  T!WaitsBefore(items, n + 2, j)
         <=> T!WaitsBefore(items, n + 1, j) /\ ~T!SettlesCall(items[n + 1], items[j].id)
<1>1. (j + 1 .. (n + 2) - 1) = (j + 1 .. (n + 1) - 1) \cup {n + 1}
  OBVIOUS
<1> DEFINE K == j + 1 .. (n + 1) - 1
           settles(k) == T!SettlesCall(items[k], items[j].id)
           open == items[j].kind \in T!Calls /\ items[j].valid
<1>2. T!WaitsBefore(items, n + 1, j) <=> open /\ \A k \in K : ~settles(k)
  BY DEF T!WaitsBefore
<1>3. T!WaitsBefore(items, n + 2, j) <=> open /\ \A k \in K \cup {n + 1} : ~settles(k)
  BY <1>1 DEF T!WaitsBefore
<1> HIDE DEF K, open
<1> QED
  BY <1>2, <1>3

LEMMA NewWaits ==
  ASSUME NEW items, NEW n \in Nat
  PROVE  T!WaitsBefore(items, n + 2, n + 1)
         <=> items[n + 1].kind \in T!Calls /\ items[n + 1].valid
<1>1. (n + 1 + 1 .. (n + 2) - 1) = {}
  OBVIOUS
<1> QED
  BY <1>1 DEF T!WaitsBefore

\* An item that settles no waiting call and is none itself.
LEMMA PendingKept ==
  ASSUME NEW items, NEW n \in Nat, NEW pending, PendingTold(items, n, pending),
         \A id \in DOMAIN pending : ~T!SettlesCall(items[n + 1], id),
         ~(items[n + 1].kind \in T!Calls /\ items[n + 1].valid)
  PROVE  PendingTold(items, n + 1, pending)
<1>1. n + 1 + 1 = n + 2
  OBVIOUS
<1>2. ASSUME NEW id \in DOMAIN pending
      PROVE  \E j \in 1 .. n + 1 : /\ T!WaitsBefore(items, n + 2, j) /\ items[j].id = id
                                   /\ pending[id] = T!AnswerTo(items[j].kind)
  <2>1. PICK j \in 1 .. n : /\ T!WaitsBefore(items, n + 1, j) /\ items[j].id = id
                            /\ pending[id] = T!AnswerTo(items[j].kind)
    BY DEF PendingTold
  <2>2. T!WaitsBefore(items, n + 2, j)
    BY <2>1, WaitsOn
  <2>3. j \in 1 .. n + 1
    OBVIOUS
  <2> QED
    BY <2>1, <2>2, <2>3
<1>3. ASSUME NEW j \in 1 .. n + 1, T!WaitsBefore(items, n + 2, j)
      PROVE  items[j].id \in DOMAIN pending
  <2>1. j # n + 1
    BY <1>3, NewWaits
  <2>2. j \in 1 .. n
    BY <2>1
  <2> QED
    BY <1>3, <2>2, WaitsOn DEF PendingTold
<1> QED
  BY <1>1, <1>2, <1>3 DEF PendingTold

\* A result of a waiting call.
LEMMA PendingPopped ==
  ASSUME NEW items, NEW n \in Nat, NEW pending, PendingTold(items, n, pending),
         items[n + 1].kind = "tool_result"
  PROVE  PendingTold(items, n + 1, T!Popped(pending, items[n + 1].id))
<1> DEFINE e == items[n + 1]
           popped == T!Popped(pending, e.id)
<1>1. n + 1 + 1 = n + 2
  OBVIOUS
<1>2. popped = [i \in DOMAIN pending \ {e.id} |-> pending[i]]
  BY DEF T!Popped
<1>3. DOMAIN popped = DOMAIN pending \ {e.id} /\ \A id \in DOMAIN popped : popped[id] = pending[id]
  BY <1>2
<1>4. popped = [id \in DOMAIN popped |-> popped[id]]
  BY <1>2
<1>5. \A id : T!SettlesCall(e, id) <=> e.id = id
  BY DEF T!SettlesCall
<1>6. e.kind \notin T!Calls
  BY DEF T!Calls
<1> HIDE DEF popped
<1>7. ASSUME NEW id \in DOMAIN popped
      PROVE  \E j \in 1 .. n + 1 : /\ T!WaitsBefore(items, n + 2, j) /\ items[j].id = id
                                   /\ popped[id] = T!AnswerTo(items[j].kind)
  <2>1. id \in DOMAIN pending /\ id # e.id /\ popped[id] = pending[id]
    BY <1>3
  <2>2. PICK j \in 1 .. n : /\ T!WaitsBefore(items, n + 1, j) /\ items[j].id = id
                            /\ pending[id] = T!AnswerTo(items[j].kind)
    BY <2>1 DEF PendingTold
  <2>3. T!WaitsBefore(items, n + 2, j)
    BY <1>5, <2>1, <2>2, WaitsOn
  <2>4. j \in 1 .. n + 1
    OBVIOUS
  <2> QED
    BY <2>1, <2>2, <2>3, <2>4
<1>8. ASSUME NEW j \in 1 .. n + 1, T!WaitsBefore(items, n + 2, j)
      PROVE  items[j].id \in DOMAIN popped
  <2>1. j # n + 1
    BY <1>6, <1>8, NewWaits
  <2>2. j \in 1 .. n
    BY <2>1
  <2>3. T!WaitsBefore(items, n + 1, j) /\ items[j].id # e.id
    BY <1>5, <1>8, <2>2, WaitsOn
  <2> QED
    BY <1>3, <2>2, <2>3 DEF PendingTold
<1>9. PendingTold(items, n + 1, popped)
  BY <1>1, <1>4, <1>7, <1>8 DEF PendingTold
<1> QED
  BY <1>9 DEF popped

\* A question or a plan that fits its schema.
LEMMA PendingAdded ==
  ASSUME NEW items, NEW n \in Nat, NEW pending, PendingTold(items, n, pending),
         items[n + 1].kind \in T!Calls, items[n + 1].valid
  PROVE  PendingTold(items, n + 1, T!Waiting(pending, items[n + 1].id, T!AnswerTo(items[n + 1].kind)))
<1> DEFINE e == items[n + 1]
           more == T!Waiting(pending, e.id, T!AnswerTo(e.kind))
<1>1. n + 1 + 1 = n + 2 /\ n + 1 \in 1 .. n + 1
  OBVIOUS
<1>2. more = [i \in DOMAIN pending \cup {e.id} |-> IF i = e.id THEN T!AnswerTo(e.kind) ELSE pending[i]]
  BY DEF T!Waiting
<1>3. /\ DOMAIN more = DOMAIN pending \cup {e.id} /\ more[e.id] = T!AnswerTo(e.kind)
      /\ \A id \in DOMAIN more : id # e.id => id \in DOMAIN pending /\ more[id] = pending[id]
  BY <1>2
<1>4. more = [id \in DOMAIN more |-> more[id]]
  BY <1>2
<1>5. \A id : T!SettlesCall(e, id) <=> e.id = id
  BY DEF T!SettlesCall
<1>6. T!WaitsBefore(items, n + 2, n + 1)
  BY NewWaits
<1> HIDE DEF more
<1>7. ASSUME NEW id \in DOMAIN more
      PROVE  \E j \in 1 .. n + 1 : /\ T!WaitsBefore(items, n + 2, j) /\ items[j].id = id
                                   /\ more[id] = T!AnswerTo(items[j].kind)
  <2>1. CASE id = e.id
    BY <1>1, <1>3, <1>6, <2>1
  <2>2. CASE id # e.id
    <3>1. id \in DOMAIN pending /\ more[id] = pending[id]
      BY <1>3, <2>2
    <3>2. PICK j \in 1 .. n : /\ T!WaitsBefore(items, n + 1, j) /\ items[j].id = id
                              /\ pending[id] = T!AnswerTo(items[j].kind)
      BY <3>1 DEF PendingTold
    <3>3. T!WaitsBefore(items, n + 2, j)
      BY <1>5, <2>2, <3>2, WaitsOn
    <3>4. j \in 1 .. n + 1
      OBVIOUS
    <3> QED
      BY <3>1, <3>2, <3>3, <3>4
  <2> QED
    BY <2>1, <2>2
<1>8. ASSUME NEW j \in 1 .. n + 1, T!WaitsBefore(items, n + 2, j)
      PROVE  items[j].id \in DOMAIN more
  <2>1. CASE j = n + 1
    BY <1>3, <2>1
  <2>2. CASE j # n + 1
    <3>1. j \in 1 .. n
      BY <2>2
    <3>2. items[j].id \in DOMAIN pending
      BY <1>8, <3>1, WaitsOn DEF PendingTold
    <3> QED
      BY <1>3, <3>2
  <2> QED
    BY <2>1, <2>2
<1>9. PendingTold(items, n + 1, more)
  BY <1>1, <1>4, <1>7, <1>8 DEF PendingTold
<1> QED
  BY <1>9 DEF more

\* One item taken.
LEMMA TakeTold ==
  ASSUME NEW items, NEW n \in Nat, NEW s, ReaderTold(items, n, s)
  PROVE  /\ ReaderTold(items, n + 1, T!Take(s, items[n + 1]))
         /\ T!Take(s, items[n + 1]).lines = s.lines
<1> DEFINE e == items[n + 1]
           t == T!Take(s, e)
<1>1. IsReader(s) /\ s.fatal = FALSE /\ EventsTold(items, n, s.events) /\ PendingTold(items, n, s.pending)
  BY DEF ReaderTold
<1>2. CASE e.kind = "tool_result"
  <2>1. t = T!TakeResult(s, e) /\ e.kind \notin T!Calls
    BY <1>2 DEF T!Take, T!Calls
  <2>2. \A id : T!SettlesCall(e, id) <=> e.id = id
    BY <1>2 DEF T!SettlesCall
  <2>3. CASE e.id \notin DOMAIN s.pending
    <3>1. t = s
      BY <2>1, <2>3 DEF T!TakeResult
    <3>2. ~T!Kept(items, n + 1)
      <4>1. ASSUME NEW j \in 1 .. (n + 1) - 1, T!Answers(items, n + 1, j) PROVE FALSE
        <5>1. items[j].id = e.id /\ T!WaitsBefore(items, n + 1, j) /\ j \in 1 .. n
          BY <4>1 DEF T!Answers
        <5> QED
          BY <1>1, <2>3, <5>1 DEF PendingTold
      <4> QED
        BY <1>2, <4>1 DEF T!Kept
    <3>3. EventsTold(items, n + 1, s.events)
      BY <1>1, <3>2, EventDropped
    <3>4. PendingTold(items, n + 1, s.pending)
      BY <1>1, <2>1, <2>2, <2>3, PendingKept
    <3> HIDE DEF t
    <3> QED
      BY <1>1, <3>1, <3>3, <3>4 DEF ReaderTold, t
  <2>4. CASE e.id \in DOMAIN s.pending
    <3> DEFINE x == [e EXCEPT !.kind = s.pending[e.id]]
    <3>1. t = [s EXCEPT !.events = Append(s.events, x), !.pending = T!Popped(s.pending, e.id)]
      BY <2>1, <2>4 DEF T!TakeResult
    <3>2. PICK j \in 1 .. n : /\ T!WaitsBefore(items, n + 1, j) /\ items[j].id = e.id
                              /\ s.pending[e.id] = T!AnswerTo(items[j].kind)
      BY <1>1, <2>4 DEF PendingTold
    <3>3. T!Answers(items, n + 1, j) /\ j \in 1 .. (n + 1) - 1
      BY <1>2, <3>2 DEF T!Answers
    <3>4. T!Kept(items, n + 1) /\ T!IsEventOf(x, items, n + 1)
      BY <1>2, <3>2, <3>3 DEF T!Kept, T!IsEventOf
    <3> HIDE DEF x
    <3>5. EventsTold(items, n + 1, Append(s.events, x))
      BY <1>1, <3>4, EventAdded
    <3>6. PendingTold(items, n + 1, T!Popped(s.pending, e.id))
      BY <1>1, <1>2, PendingPopped
    <3>7. PICK events, pending : events = Append(s.events, x) /\ pending = T!Popped(s.pending, e.id)
      OBVIOUS
    <3>8. t = [s EXCEPT !.events = events, !.pending = pending]
      BY <3>1, <3>7
    <3> HIDE DEF t
    <3>9. /\ IsReader(t) /\ t.fatal = FALSE /\ t.events = events /\ t.pending = pending
          /\ t.lines = s.lines
      BY <1>1, <3>8 DEF IsReader
    <3>10. ReaderTold(items, n + 1, t)
      BY <3>5, <3>6, <3>7, <3>9 DEF ReaderTold
    <3> QED
      BY <3>9, <3>10 DEF t
  <2> QED
    BY <2>3, <2>4
<1>3. CASE e.kind # "tool_result" /\ ~e.valid
  <2>1. t = [s EXCEPT !.skipped = s.skipped + 1]
    BY <1>3 DEF T!Take, T!TakeOther
  <2>2. ~T!Kept(items, n + 1)
    BY <1>3 DEF T!Kept
  <2>3. EventsTold(items, n + 1, s.events)
    BY <1>1, <2>2, EventDropped
  <2>4. \A id : ~T!SettlesCall(e, id)
    BY <1>3 DEF T!SettlesCall
  <2>5. PendingTold(items, n + 1, s.pending)
    BY <1>1, <1>3, <2>4, PendingKept
  <2>6. PICK skipped : t = [s EXCEPT !.skipped = skipped]
    BY <2>1
  <2> HIDE DEF t
  <2>7. /\ IsReader(t) /\ t.fatal = FALSE /\ t.events = s.events /\ t.pending = s.pending
        /\ t.lines = s.lines
    BY <1>1, <2>6 DEF IsReader
  <2>8. ReaderTold(items, n + 1, t)
    BY <2>3, <2>5, <2>7 DEF ReaderTold
  <2> QED
    BY <2>7, <2>8 DEF t
<1>4. CASE e.kind # "tool_result" /\ e.valid
  <2>1. T!Kept(items, n + 1) /\ T!IsEventOf(e, items, n + 1)
    BY <1>4 DEF T!Kept, T!IsEventOf
  <2>2. EventsTold(items, n + 1, Append(s.events, e))
    BY <1>1, <2>1, EventAdded
  <2>3. CASE e.kind \in T!Calls
    <3>1. t = [s EXCEPT !.events = Append(s.events, e),
                        !.pending = T!Waiting(s.pending, e.id, T!AnswerTo(e.kind))]
      <4>1. PICK u : u = [s EXCEPT !.events = Append(s.events, e)]
        OBVIOUS
      <4>2. u.pending = s.pending
        BY <1>1, <4>1 DEF IsReader
      <4>3. t = CASE e.kind = "ask_user_question" ->
                       [u EXCEPT !.pending = T!Waiting(u.pending, e.id, "ask_user_answer")]
                  [] e.kind = "exit_plan_mode" ->
                       [u EXCEPT !.pending = T!Waiting(u.pending, e.id, "exit_plan_result")]
                  [] OTHER -> u
        BY <1>4, <4>1 DEF T!Take, T!TakeOther
      <4>4. t = [u EXCEPT !.pending = T!Waiting(u.pending, e.id, T!AnswerTo(e.kind))]
        BY <2>3, <4>3 DEF T!AnswerTo, T!Calls
      <4> HIDE DEF t, e
      <4> QED
        BY <1>1, <4>1, <4>2, <4>4 DEF IsReader
    <3>2. PendingTold(items, n + 1, T!Waiting(s.pending, e.id, T!AnswerTo(e.kind)))
      BY <1>1, <1>4, <2>3, PendingAdded
    <3>3. PICK events, pending : /\ events = Append(s.events, e)
                                 /\ pending = T!Waiting(s.pending, e.id, T!AnswerTo(e.kind))
      OBVIOUS
    <3>4. t = [s EXCEPT !.events = events, !.pending = pending]
      BY <3>1, <3>3
    <3> HIDE DEF t
    <3>5. /\ IsReader(t) /\ t.fatal = FALSE /\ t.events = events /\ t.pending = pending
          /\ t.lines = s.lines
      BY <1>1, <3>4 DEF IsReader
    <3>6. ReaderTold(items, n + 1, t)
      BY <2>2, <3>2, <3>3, <3>5 DEF ReaderTold
    <3> QED
      BY <3>5, <3>6 DEF t
  <2>4. CASE e.kind \notin T!Calls
    <3>1. t = [s EXCEPT !.events = Append(s.events, e)]
      BY <1>4, <2>4 DEF T!Take, T!TakeOther, T!Calls
    <3>2. \A id : ~T!SettlesCall(e, id)
      BY <1>4, <2>4 DEF T!SettlesCall
    <3>3. PendingTold(items, n + 1, s.pending)
      BY <1>1, <2>4, <3>2, PendingKept
    <3>4. PICK events : events = Append(s.events, e)
      OBVIOUS
    <3>5. t = [s EXCEPT !.events = events]
      BY <3>1, <3>4
    <3> HIDE DEF t
    <3>6. /\ IsReader(t) /\ t.fatal = FALSE /\ t.events = events /\ t.pending = s.pending
          /\ t.lines = s.lines
      BY <1>1, <3>5 DEF IsReader
    <3>7. ReaderTold(items, n + 1, t)
      BY <2>2, <3>3, <3>4, <3>6 DEF ReaderTold
    <3> QED
      BY <3>6, <3>7 DEF t
  <2> QED
    BY <2>3, <2>4
<1> QED
  BY <1>2, <1>3, <1>4

\* The items of a line, taken one after the other.
IsTaking(took, s, items) ==
  /\ took[0] = s /\ T!TakeAll(s, items) = took[Len(items)]
  /\ \A k \in 1 .. Len(items) : took[k] = T!Take(took[k - 1], items[k])

LEMMA TakeSteps ==
  ASSUME NEW s, NEW items, IsSeq(items)
  PROVE  \E took : IsTaking(took, s, items)
<1> DEFINE N == Len(items)
           IsTook(f, k) == f = [n \in 0 .. k |-> IF n = 0 THEN s ELSE T!Take(f[n - 1], items[n])]
           Missing == {k \in Nat : ~ \E f : IsTook(f, k)}
           took == CHOOSE f : IsTook(f, N)
<1>1. N \in Nat
  BY DEF IsSeq
<1>2. Missing = {}
  <2>1. SUFFICES ASSUME Missing # {} PROVE FALSE
    OBVIOUS
  <2>2. PICK k \in Missing : \A l \in Missing : k <= l
    BY <2>1, Least
  <2>3. k \in Nat /\ ~ \E f : IsTook(f, k)
    OBVIOUS
  <2>4. k # 0
    <3>1. IsTook([n \in 0 .. 0 |-> s], 0)
      OBVIOUS
    <3> QED
      BY <2>3, <3>1
  <2>5. k - 1 \in Nat /\ k - 1 \notin Missing
    <3> HIDE DEF Missing
    <3> QED
      BY <2>2, <2>3, <2>4
  <2>6. PICK g : IsTook(g, k - 1)
    BY <2>5
  <2> DEFINE h == [n \in 0 .. k |-> IF n = k THEN T!Take(g[k - 1], items[k]) ELSE g[n]]
  <2>7. ASSUME NEW n \in 0 .. k
        PROVE  h[n] = IF n = 0 THEN s ELSE T!Take(h[n - 1], items[n])
    <3>1. CASE n = k
      BY <2>3, <2>4, <3>1
    <3>2. CASE n # k
      <4>1. n \in 0 .. k - 1
        BY <2>3, <3>2
      <4>2. g[n] = IF n = 0 THEN s ELSE T!Take(g[n - 1], items[n])
        BY <2>6, <4>1
      <4>3. h[n] = g[n] /\ (n # 0 => h[n - 1] = g[n - 1])
        BY <2>3, <4>1
      <4> QED
        BY <4>2, <4>3
    <3> QED
      BY <3>1, <3>2
  <2>8. IsTook(h, k)
    BY <2>7
  <2> QED
    BY <2>3, <2>8
<1>3. IsTook(took, N)
  BY <1>1, <1>2
<1>4. T!TakeAll(s, items) = took[N]
  BY DEF T!TakeAll
<1> HIDE DEF took
<1>5. took[0] = s /\ \A k \in 1 .. N : took[k] = T!Take(took[k - 1], items[k])
  BY <1>1, <1>3
<1>6. IsTaking(took, s, items)
  BY <1>4, <1>5 DEF IsTaking
<1> QED
  BY <1>6

\* The whole holds the items after its first `base` ones.
HoldsAt(whole, base, items) == \A k \in 1 .. Len(items) : whole[base + k] = items[k]

LEMMA TakeAllTold ==
  ASSUME NEW whole, NEW base \in Nat, NEW s, ReaderTold(whole, base, s), NEW items, IsSeq(items),
         HoldsAt(whole, base, items)
  PROVE  /\ ReaderTold(whole, base + Len(items), T!TakeAll(s, items))
         /\ T!TakeAll(s, items).lines = s.lines
<1> DEFINE N == Len(items)
<1>1. N \in Nat
  BY DEF IsSeq
<1>2. PICK took : IsTaking(took, s, items)
  BY TakeSteps
<1> DEFINE Reached(k) == ReaderTold(whole, base + k, took[k]) /\ took[k].lines = s.lines
           Bad     == {k \in 0 .. N : ~Reached(k)}
<1>3. Bad = {}
  <2>1. SUFFICES ASSUME Bad # {} PROVE FALSE
    OBVIOUS
  <2>2. Bad \subseteq Nat
    BY <1>1
  <2>3. PICK k \in Bad : \A l \in Bad : k <= l
    BY <2>1, <2>2, Least
  <2>4. k \in 0 .. N /\ ~Reached(k)
    OBVIOUS
  <2>5. k # 0
    BY <1>2, <2>4 DEF IsTaking
  <2>6. k - 1 \in 0 .. N /\ k \in 1 .. N /\ k - 1 \notin Bad
    <3> HIDE DEF Bad
    <3> QED
      BY <1>1, <2>3, <2>4, <2>5
  <2>7. Reached(k - 1)
    BY <2>6
  <2>8. took[k] = T!Take(took[k - 1], whole[base + k])
    BY <1>2, <2>6 DEF IsTaking, HoldsAt
  <2>9. PICK m \in Nat : m = base + (k - 1)
    BY <2>6
  <2>10. m + 1 = base + k
    BY <2>6, <2>9
  <2>11. ReaderTold(whole, m, took[k - 1])
    BY <2>7, <2>9
  <2>12. /\ ReaderTold(whole, m + 1, T!Take(took[k - 1], whole[m + 1]))
         /\ T!Take(took[k - 1], whole[m + 1]).lines = took[k - 1].lines
    BY <2>11, TakeTold
  <2> QED
    BY <2>4, <2>7, <2>8, <2>10, <2>12
<1>4. N \in 0 .. N /\ T!TakeAll(s, items) = took[N]
  BY <1>1, <1>2 DEF IsTaking
<1>5. Reached(N)
  BY <1>3, <1>4
<1> QED
  BY <1>4, <1>5

\* The events and the waiting calls of nothing.
LEMMA StartTold ==
  ASSUME NEW items
  PROVE  ReaderTold(items, 0, T!Start) /\ T!Start.lines = 0 /\ T!Start.fatal = FALSE
<1>1. IsReader(T!Start) /\ T!Start.fatal = FALSE /\ T!Start.lines = 0
  BY DEF T!Start, IsReader
<1>2. EventsTold(items, 0, T!Start.events)
  <2> DEFINE S == {i \in 1 .. 0 : T!Kept(items, i)}
             at == [i \in 1 .. 0 |-> i]
  <2>1. T!Start.events = <<>>
    BY DEF T!Start
  <2>2. S = {}
    OBVIOUS
  <2> HIDE DEF S
  <2>3. InOrder(at, 0, S, 0)
    BY <2>2 DEF InOrder
  <2> HIDE DEF at
  <2>4. \A h \in 1 .. 0 : T!IsEventOf(T!Start.events[h], items, at[h])
    OBVIOUS
  <2> QED
    BY <2>1, <2>3, <2>4, EmptyIsSeq DEF EventsTold, S
<1>3. PendingTold(items, 0, T!Start.pending)
  <2>1. T!Start.pending = [id \in {} |-> NoId]
    BY DEF T!Start
  <2> QED
    BY <2>1 DEF PendingTold
<1> QED
  BY <1>1, <1>2, <1>3 DEF ReaderTold

\* What one line holds.
LineItems(line) == IF line.shape = "object" THEN T!MapLine(line) ELSE <<>>

\* The first n lines are read: they hold the first `held` items of the whole.
LinesTold(lines, n, whole, held, s) ==
  /\ IsReader(s)
  /\ IF \E m \in 1 .. n : lines[m].shape = "malformed" THEN s.fatal = TRUE
     ELSE /\ ReaderTold(whole, held, s) /\ s.lines \in Nat
          /\ s.lines = 0 <=> \A m \in 1 .. n : lines[m].shape = "blank"

LEMMA LineItemsIsSeq ==
  ASSUME NEW line, IsLine(line) PROVE IsSeq(LineItems(line))
BY MapLineIsSeq, EmptyIsSeq DEF LineItems

LEMMA LineTold ==
  ASSUME NEW lines, NEW n \in Nat, NEW whole, NEW held \in Nat, NEW s,
         LinesTold(lines, n, whole, held, s), IsLine(lines[n + 1]),
         HoldsAt(whole, held, LineItems(lines[n + 1]))
  PROVE  LinesTold(lines, n + 1, whole, held + Len(LineItems(lines[n + 1])),
                   T!ReadLine(s, lines[n + 1]))
<1> DEFINE line == lines[n + 1]
           items == LineItems(line)
           more == held + Len(items)
           t == T!ReadLine(s, line)
           broken(m) == \E l \in 1 .. m : lines[l].shape = "malformed"
           blank(m) == \A l \in 1 .. m : lines[l].shape = "blank"
<1>1. broken(n + 1) <=> broken(n) \/ line.shape = "malformed"
  OBVIOUS
<1>2. blank(n + 1) <=> blank(n) /\ line.shape = "blank"
  OBVIOUS
<1>3. IsReader(s)
  BY DEF LinesTold
<1>4. IsSeq(items)
  BY LineItemsIsSeq
<1>5. line.shape \in {"blank", "malformed", "value", "object"}
  BY DEF IsLine
<1>6. ASSUME line.shape # "object" PROVE items = <<>> /\ more = held
  BY <1>6, EmptyIsSeq DEF LineItems
<1>7. CASE broken(n)
  <2>1. s.fatal = TRUE
    BY <1>7 DEF LinesTold
  <2>2. t = s
    BY <2>1 DEF T!ReadLine
  <2>3. broken(n + 1)
    BY <1>1, <1>7
  <2> HIDE DEF t, more
  <2> QED
    BY <1>3, <2>1, <2>2, <2>3 DEF LinesTold, t, more
<1>8. CASE ~broken(n)
  <2>1. ReaderTold(whole, held, s) /\ s.lines \in Nat /\ (s.lines = 0 <=> blank(n))
    BY <1>8 DEF LinesTold
  <2>2. s.fatal = FALSE
    BY <2>1 DEF ReaderTold
  <2>3. CASE line.shape = "blank"
    <3>1. t = s
      BY <2>3 DEF T!ReadLine
    <3>2. ~broken(n + 1) /\ (blank(n + 1) <=> blank(n))
      BY <1>1, <1>2, <1>8, <2>3
    <3>3. more = held
      BY <1>6, <2>3
    <3> HIDE DEF t, more, items, line
    <3>4. LinesTold(lines, n + 1, whole, more, t)
      BY <1>3, <2>1, <3>1, <3>2, <3>3 DEF LinesTold
    <3> QED
      BY <3>4 DEF t, more, items, line
  <2>4. CASE line.shape = "malformed"
    <3>1. t = [s EXCEPT !.fatal = TRUE]
      BY <2>2, <2>4 DEF T!ReadLine
    <3>2. broken(n + 1)
      BY <1>1, <2>4
    <3> HIDE DEF t, more, items, line
    <3>3. IsReader(t) /\ t.fatal = TRUE
      BY <1>3, <3>1 DEF IsReader
    <3>4. LinesTold(lines, n + 1, whole, more, t)
      BY <3>2, <3>3 DEF LinesTold
    <3> QED
      BY <3>4 DEF t, more, items, line
  <2>5. CASE line.shape \in {"value", "object"}
    <3> DEFINE u == [s EXCEPT !.lines = s.lines + 1]
    <3>1. ~broken(n + 1) /\ ~blank(n + 1)
      BY <1>1, <1>2, <1>8, <2>5
    <3>2. /\ IsReader(u) /\ u.fatal = FALSE /\ u.events = s.events /\ u.pending = s.pending
          /\ u.lines = s.lines + 1
      BY <1>3, <2>2 DEF IsReader
    <3>3. ReaderTold(whole, held, u) /\ u.lines \in Nat /\ u.lines # 0
      <4> HIDE DEF u
      <4> QED
        BY <2>1, <3>2 DEF ReaderTold
    <3>4. t = IF line.shape = "value" THEN [u EXCEPT !.unknown = u.unknown + 1]
              ELSE IF T!MapLine(line) = <<>>
              THEN IF line.type \in {"assistant", "user"} THEN u ELSE [u EXCEPT !.unknown = u.unknown + 1]
              ELSE T!TakeAll(u, T!MapLine(line))
      BY <2>2, <2>5 DEF T!ReadLine
    <3> DEFINE v == [u EXCEPT !.unknown = u.unknown + 1]
    <3> HIDE DEF u
    <3>5. /\ IsReader(v) /\ v.fatal = FALSE /\ v.events = u.events /\ v.pending = u.pending
          /\ v.lines = u.lines
      BY <3>2 DEF IsReader
    <3>6. ReaderTold(whole, held, v)
      <4> HIDE DEF v
      <4> QED
        BY <3>3, <3>5 DEF ReaderTold
    <3>7. ReaderTold(whole, more, t) /\ t.lines = u.lines
      <4>1. CASE items = <<>>
        <5>1. t = u \/ t = v
          BY <2>5, <3>4, <4>1 DEF LineItems
        <5>2. more = held
          BY <4>1, EmptyIsSeq
        <5> HIDE DEF t, more, v, items
        <5> QED
          BY <3>3, <3>5, <3>6, <5>1, <5>2
      <4>2. CASE items # <<>>
        <5>1. t = T!TakeAll(u, items)
          BY <2>5, <3>4, <4>2 DEF LineItems
        <5>2. HoldsAt(whole, held, items)
          OBVIOUS
        <5> HIDE DEF t, items
        <5>3. /\ ReaderTold(whole, held + Len(items), T!TakeAll(u, items))
              /\ T!TakeAll(u, items).lines = u.lines
          BY <1>4, <3>3, <5>2, TakeAllTold
        <5> QED
          BY <5>1, <5>3
      <4> QED
        BY <4>1, <4>2
    <3> HIDE DEF t, more, items, line
    <3>8. IsReader(t)
      BY <3>7 DEF ReaderTold
    <3>9. LinesTold(lines, n + 1, whole, more, t)
      BY <3>1, <3>3, <3>7, <3>8 DEF LinesTold
    <3> QED
      BY <3>9 DEF t, more, items, line
  <2> QED
    BY <1>5, <2>3, <2>4, <2>5
<1> QED
  BY <1>7, <1>8

\* The lines, read one after the other.
IsReading(after, lines) ==
  /\ after[0] = T!Start
  /\ \A n \in 1 .. Len(lines) : after[n] = T!ReadLine(after[n - 1], lines[n])
  /\ LET s == after[Len(lines)] IN
     T!ReadCleaned(lines) = [s EXCEPT !.fatal = s.fatal \/ (s.lines > 0 /\ s.events = <<>>)]

LEMMA ReadSteps ==
  ASSUME NEW lines, IsSeq(lines)
  PROVE  \E after : IsReading(after, lines)
<1> DEFINE N == Len(lines)
           IsRead(f, k) == f = [n \in 0 .. k |-> IF n = 0 THEN T!Start ELSE T!ReadLine(f[n - 1], lines[n])]
           Missing == {k \in Nat : ~ \E f : IsRead(f, k)}
           after == CHOOSE f : IsRead(f, N)
<1>1. N \in Nat
  BY DEF IsSeq
<1>2. Missing = {}
  <2>1. SUFFICES ASSUME Missing # {} PROVE FALSE
    OBVIOUS
  <2>2. PICK k \in Missing : \A l \in Missing : k <= l
    BY <2>1, Least
  <2>3. k \in Nat /\ ~ \E f : IsRead(f, k)
    OBVIOUS
  <2>4. k # 0
    <3>1. IsRead([n \in 0 .. 0 |-> T!Start], 0)
      OBVIOUS
    <3> QED
      BY <2>3, <3>1
  <2>5. k - 1 \in Nat /\ k - 1 \notin Missing
    <3> HIDE DEF Missing
    <3> QED
      BY <2>2, <2>3, <2>4
  <2>6. PICK g : IsRead(g, k - 1)
    BY <2>5
  <2> DEFINE h == [n \in 0 .. k |-> IF n = k THEN T!ReadLine(g[k - 1], lines[k]) ELSE g[n]]
  <2>7. ASSUME NEW n \in 0 .. k
        PROVE  h[n] = IF n = 0 THEN T!Start ELSE T!ReadLine(h[n - 1], lines[n])
    <3>1. CASE n = k
      BY <2>3, <2>4, <3>1
    <3>2. CASE n # k
      <4>1. n \in 0 .. k - 1
        BY <2>3, <3>2
      <4>2. g[n] = IF n = 0 THEN T!Start ELSE T!ReadLine(g[n - 1], lines[n])
        BY <2>6, <4>1
      <4>3. h[n] = g[n] /\ (n # 0 => h[n - 1] = g[n - 1])
        BY <2>3, <4>1
      <4> QED
        BY <4>2, <4>3
    <3> QED
      BY <3>1, <3>2
  <2>8. IsRead(h, k)
    BY <2>7
  <2> QED
    BY <2>3, <2>8
<1>3. IsRead(after, N)
  BY <1>1, <1>2
<1>4. LET s == after[N] IN
      T!ReadCleaned(lines) = [s EXCEPT !.fatal = s.fatal \/ (s.lines > 0 /\ s.events = <<>>)]
  BY DEF T!ReadCleaned
<1> HIDE DEF after
<1>5. after[0] = T!Start /\ \A n \in 1 .. N : after[n] = T!ReadLine(after[n - 1], lines[n])
  BY <1>1, <1>3
<1>6. IsReading(after, lines)
  BY <1>4, <1>5 DEF IsReading
<1> QED
  BY <1>6

\* What the lines hold together, and where each line's items start.
AreLines(lines) == IsSeq(lines) /\ \A n \in 1 .. Len(lines) : IsLine(lines[n])

LEMMA ItemsStart ==
  ASSUME NEW lines, AreLines(lines)
  PROVE  \E start : AreStarts(start, [n \in DOMAIN lines |-> LineItems(lines[n])], T!Items(lines))
<1> DEFINE seqs == [n \in DOMAIN lines |-> LineItems(lines[n])]
<1>1. DOMAIN lines = 1 .. Len(lines) /\ Len(lines) \in Nat
  BY DEF AreLines, IsSeq
<1>2. T!Items(lines) = T!FlattenSeq(seqs)
  BY DEF T!Items, LineItems
<1>3. IsSeq(seqs) /\ Len(seqs) = Len(lines)
  BY <1>1 DEF IsSeq
<1>4. \A n \in 1 .. Len(seqs) : IsSeq(seqs[n])
  BY <1>1, <1>3, LineItemsIsSeq DEF AreLines
<1> HIDE DEF seqs
<1>5. AreSeqs(seqs)
  BY <1>3, <1>4 DEF AreSeqs
<1>6. \E start : AreStarts(start, seqs, T!FlattenSeq(seqs))
  BY <1>5, FlattenStarts
<1> QED
  BY <1>2, <1>6 DEF seqs

LEMMA FileTold ==
  ASSUME NEW lines, AreLines(lines)
  PROVE  \E s : /\ LinesTold(lines, Len(lines), T!Items(lines), Len(T!Items(lines)), s)
                /\ T!ReadCleaned(lines)
                   = [s EXCEPT !.fatal = s.fatal \/ (s.lines > 0 /\ s.events = <<>>)]
<1> DEFINE N == Len(lines)
           whole == T!Items(lines)
           seqs == [n \in DOMAIN lines |-> LineItems(lines[n])]
<1>1. IsSeq(lines) /\ N \in Nat /\ DOMAIN lines = 1 .. N
  BY DEF AreLines, IsSeq
<1>2. PICK start : AreStarts(start, seqs, whole)
  BY ItemsStart
<1>3. PICK after : IsReading(after, lines)
  BY <1>1, ReadSteps
<1>4. Len(seqs) = N /\ \A n \in 1 .. N : seqs[n] = LineItems(lines[n])
  BY <1>1
<1> HIDE DEF seqs, whole
<1>5. /\ start[0] = 0 /\ start[N] = Len(whole) /\ \A n \in 0 .. N : start[n] \in Nat
      /\ \A n \in 1 .. N : /\ start[n] = start[n - 1] + Len(LineItems(lines[n]))
                           /\ HoldsAt(whole, start[n - 1], LineItems(lines[n]))
  <2>1. IsSeq(whole) /\ Len(whole) \in Nat
    BY <1>2 DEF AreStarts, IsSeq
  <2>2. /\ start[0] = 0 /\ start[N] = Len(whole)
        /\ \A n \in 0 .. N : start[n] \in 0 .. Len(whole)
        /\ \A n \in 1 .. N : /\ start[n] = start[n - 1] + Len(seqs[n])
                             /\ \A k \in 1 .. Len(seqs[n]) : whole[start[n - 1] + k] = seqs[n][k]
    BY <1>2, <1>4 DEF AreStarts
  <2>3. \A n \in 0 .. N : start[n] \in Nat
    BY <2>1, <2>2
  <2>4. ASSUME NEW n \in 1 .. N
        PROVE  /\ start[n] = start[n - 1] + Len(LineItems(lines[n]))
               /\ HoldsAt(whole, start[n - 1], LineItems(lines[n]))
    <3>1. PICK items : items = LineItems(lines[n])
      OBVIOUS
    <3>2. seqs[n] = items
      BY <1>4, <3>1
    <3>3. start[n] = start[n - 1] + Len(items)
      BY <2>2, <3>2
    <3>4. HoldsAt(whole, start[n - 1], items)
      BY <2>2, <3>2 DEF HoldsAt
    <3> QED
      BY <3>1, <3>3, <3>4
  <2> QED
    BY <2>2, <2>3, <2>4
<1> DEFINE Reached(n) == LinesTold(lines, n, whole, start[n], after[n])
           Bad == {n \in 0 .. N : ~Reached(n)}
<1>6. Bad = {}
  <2>1. SUFFICES ASSUME Bad # {} PROVE FALSE
    OBVIOUS
  <2>2. Bad \subseteq Nat
    BY <1>1
  <2>3. PICK k \in Bad : \A l \in Bad : k <= l
    BY <2>1, <2>2, Least
  <2>4. k \in 0 .. N /\ ~Reached(k)
    OBVIOUS
  <2>5. k # 0
    <3>1. after[0] = T!Start
      BY <1>3 DEF IsReading
    <3>2. ReaderTold(whole, 0, T!Start) /\ T!Start.lines = 0
      BY StartTold
    <3>3. ~ (\E m \in 1 .. 0 : lines[m].shape = "malformed") /\ \A m \in 1 .. 0 : lines[m].shape = "blank"
      OBVIOUS
    <3>4. LinesTold(lines, 0, whole, 0, T!Start)
      BY <3>2, <3>3 DEF LinesTold, ReaderTold
    <3>5. Reached(0)
      BY <1>5, <3>1, <3>4
    <3> QED
      BY <2>4, <3>5
  <2>6. k - 1 \in 0 .. N /\ k \in 1 .. N /\ k - 1 \notin Bad
    <3> HIDE DEF Bad
    <3> QED
      BY <1>1, <2>3, <2>4, <2>5
  <2>7. Reached(k - 1)
    BY <2>6
  <2>8. after[k] = T!ReadLine(after[k - 1], lines[k])
    BY <1>3, <2>6 DEF IsReading
  <2>9. PICK m, held, s : m = k - 1 /\ held = start[k - 1] /\ s = after[k - 1]
    OBVIOUS
  <2>10. m \in Nat /\ m + 1 = k /\ held \in Nat
    BY <1>5, <2>6, <2>9
  <2>11. LinesTold(lines, m, whole, held, s) /\ IsLine(lines[m + 1])
    BY <2>6, <2>7, <2>9, <2>10 DEF AreLines
  <2>12. HoldsAt(whole, held, LineItems(lines[m + 1]))
    BY <1>5, <2>6, <2>9, <2>10
  <2>13. LinesTold(lines, m + 1, whole, held + Len(LineItems(lines[m + 1])), T!ReadLine(s, lines[m + 1]))
    BY <2>10, <2>11, <2>12, LineTold
  <2>14. start[k] = held + Len(LineItems(lines[m + 1])) /\ after[k] = T!ReadLine(s, lines[m + 1])
    BY <1>5, <2>6, <2>8, <2>9, <2>10
  <2>15. Reached(k)
    BY <2>10, <2>13, <2>14
  <2> QED
    BY <2>4, <2>15
<1>7. Reached(N)
  BY <1>1, <1>6
<1>8. LinesTold(lines, N, whole, Len(whole), after[N])
  BY <1>5, <1>7
<1> QED
  BY <1>3, <1>8 DEF IsReading, whole

LEMMA SameSize == ASSUME NEW S PROVE T!Cardinality(S) = Cardinality(S)
BY DEF Cardinality, T!Cardinality

\* Of every file, of any length: the events are its texts, its prompts and its calls that
\* fit their schema as they are, and each result of a call that still waits, once, as the
\* answer of that call's kind; a line that is not JSON, and lines without an event, are
\* fatal (read_cleaned_with_report, adapter.py:48-126).
LEMMA EventsAreTheLines ==
  ASSUME NEW lines, AreLines(lines)
  PROVE  T!EventsAreTheFile(lines)
<1> DEFINE N == Len(lines)
           items == T!Items(lines)
           n == Len(items)
           kept == {i \in DOMAIN items : T!Kept(items, i)}
           place(i) == T!Cardinality({k \in kept : k <= i})
           r == T!ReadCleaned(lines)
           broken == \E m \in DOMAIN lines : lines[m].shape = "malformed"
<1>1. DOMAIN lines = 1 .. N /\ N \in Nat
  BY DEF AreLines, IsSeq
<1>2. IsSeq(items)
  <2>1. PICK start : AreStarts(start, [m \in DOMAIN lines |-> LineItems(lines[m])], items)
    BY ItemsStart
  <2> QED
    BY <2>1 DEF AreStarts
<1>3. DOMAIN items = 1 .. n /\ n \in Nat
  BY <1>2 DEF IsSeq
<1>4. PICK s : LinesTold(lines, N, items, n, s)
               /\ r = [s EXCEPT !.fatal = s.fatal \/ (s.lines > 0 /\ s.events = <<>>)]
  BY FileTold
<1> HIDE DEF items, N, r
<1>5. IsReader(s)
  BY <1>4 DEF LinesTold
<1>6. r.fatal = (s.fatal \/ (s.lines > 0 /\ s.events = <<>>)) /\ r.events = s.events
  <2>1. PICK f : f = (s.fatal \/ (s.lines > 0 /\ s.events = <<>>))
    OBVIOUS
  <2>2. r = [s EXCEPT !.fatal = f]
    BY <1>4, <2>1
  <2>3. r.fatal = f /\ r.events = s.events
    BY <1>5, <2>2 DEF IsReader
  <2> QED
    BY <2>1, <2>3
<1>7. CASE broken
  <2>1. s.fatal = TRUE
    BY <1>1, <1>4, <1>7 DEF LinesTold
  <2>2. r.fatal
    BY <1>6, <2>1
  <2> QED
    BY <1>7, <2>2 DEF T!EventsAreTheFile, r
<1>8. CASE ~broken
  <2>1. ReaderTold(items, n, s) /\ s.lines \in Nat /\ (s.lines = 0 <=> \A m \in 1 .. N : lines[m].shape = "blank")
    BY <1>1, <1>4, <1>8 DEF LinesTold
  <2>2. EventsTold(items, n, s.events) /\ s.fatal = FALSE
    BY <2>1 DEF ReaderTold
  <2>3. kept = {i \in 1 .. n : T!Kept(items, i)}
    BY <1>3
  <2> HIDE DEF kept
  <2>4. PICK at : /\ InOrder(at, Len(s.events), kept, n)
                  /\ \A h \in 1 .. Len(s.events) : T!IsEventOf(s.events[h], items, at[h])
    BY <2>2, <2>3 DEF EventsTold
  <2>5. Len(s.events) \in Nat /\ IsSeq(s.events)
    BY <2>2 DEF EventsTold, IsSeq
  <2>6. PICK m : m = Len(s.events)
    OBVIOUS
  <2>7. /\ Cardinality(kept) = m
        /\ \A i \in 1 .. m : at[i] \in kept /\ Cardinality({k \in kept : k <= at[i]}) = i
    BY <1>3, <2>4, <2>5, <2>6, Counted
  <2>8. Len(r.events) = T!Cardinality(kept)
    BY <1>6, <2>6, <2>7, SameSize
  <2>9. ASSUME NEW i \in kept
        PROVE  T!IsEventOf(r.events[place(i)], items, i)
    <3>1. kept \subseteq 1 .. n
      BY <2>3
    <3>2. PICK h \in 1 .. m : at[h] = i
      BY <2>4, <2>6, <3>1 DEF InOrder
    <3>3. Cardinality({k \in kept : k <= i}) = h
      BY <2>7, <3>2
    <3>4. place(i) = h
      BY <3>3, SameSize
    <3> QED
      BY <1>6, <2>4, <2>6, <3>2, <3>4
  <2>10. r.fatal <=> r.events = <<>> /\ \E k \in DOMAIN lines : lines[k].shape # "blank"
    <3>1. s.lines > 0 <=> \E k \in DOMAIN lines : lines[k].shape # "blank"
      BY <1>1, <2>1
    <3> QED
      BY <1>6, <2>2, <3>1
  <2>11. T!EventsAreTheFile(lines)
    BY <1>8, <2>8, <2>9, <2>10 DEF T!EventsAreTheFile, kept, r, items
  <2> QED
    BY <2>11
<1> QED
  BY <1>7, <1>8

\* What holds of 0, and of a number if of the one before, holds up to n.
LEMMA UpTo ==
  ASSUME NEW n \in Nat, NEW Up, 0 \in Up, \A i \in 1 .. n : i - 1 \in Up => i \in Up
  PROVE  0 .. n \subseteq Up
<1> DEFINE Bad == {i \in 0 .. n : i \notin Up}
<1>1. Bad = {}
  <2>1. SUFFICES ASSUME Bad # {} PROVE FALSE
    OBVIOUS
  <2>2. Bad \subseteq Nat
    OBVIOUS
  <2>3. PICK k \in Bad : \A l \in Bad : k <= l
    BY <2>1, <2>2, Least
  <2>4. k \in 1 .. n /\ k \notin Up
    OBVIOUS
  <2>5. k - 1 \in 0 .. n /\ k - 1 \notin Bad
    <3> HIDE DEF Bad
    <3> QED
      BY <2>3, <2>4
  <2>6. k - 1 \in Up
    BY <2>5
  <2> QED
    BY <2>4, <2>6
<1> QED
  BY <1>1

\* A function of the numbers up to n, each value made of the one before.
IsStep(step, D, n) == step \in [D \X (1 .. n) -> D]
IsIterate(f, D, base, n, step) ==
  f \in [0 .. n -> D] /\ f[0] = base /\ \A i \in 1 .. n : f[i] = step[<<f[i - 1], i>>]

LEMMA Iterated ==
  ASSUME NEW D, NEW base \in D, NEW n \in Nat, NEW step, IsStep(step, D, n)
  PROVE  \E f : IsIterate(f, D, base, n, step)
<1> USE DEF IsStep
<1> DEFINE Is(f, k) == /\ f \in [0 .. k -> D] /\ f[0] = base
                       /\ \A i \in 1 .. k : f[i] = step[<<f[i - 1], i>>]
           Missing == {k \in 0 .. n : ~ \E f : Is(f, k)}
<1>1. Missing = {}
  <2>1. SUFFICES ASSUME Missing # {} PROVE FALSE
    OBVIOUS
  <2>2. Missing \subseteq Nat
    OBVIOUS
  <2>3. PICK k \in Missing : \A l \in Missing : k <= l
    BY <2>1, <2>2, Least
  <2>4. k \in 0 .. n /\ ~ \E f : Is(f, k)
    OBVIOUS
  <2>5. k # 0
    <3>1. Is([i \in 0 .. 0 |-> base], 0)
      OBVIOUS
    <3> QED
      BY <2>4, <3>1
  <2>6. k - 1 \in 0 .. n /\ k - 1 \notin Missing /\ k \in 1 .. n
    <3> HIDE DEF Missing
    <3> QED
      BY <2>3, <2>4, <2>5
  <2>7. PICK g : Is(g, k - 1)
    BY <2>6
  <2> DEFINE h == [i \in 0 .. k |-> IF i = k THEN step[<<g[k - 1], k>>] ELSE g[i]]
  <2>8. g[k - 1] \in D /\ k - 1 \in 0 .. k - 1
    BY <2>6, <2>7
  <2>9. step[<<g[k - 1], k>>] \in D
    BY <2>6, <2>8
  <2>10. h \in [0 .. k -> D] /\ h[0] = base
    <3>1. \A i \in 0 .. k : i # k => i \in 0 .. k - 1
      BY <2>4
    <3> QED
      BY <2>6, <2>7, <2>9, <3>1
  <2>11. ASSUME NEW i \in 1 .. k
         PROVE  h[i] = step[<<h[i - 1], i>>]
    <3>1. CASE i = k
      <4>1. k - 1 \in 0 .. k /\ k - 1 # k /\ k \in 0 .. k
        BY <2>6
      <4>2. h[k] = step[<<g[k - 1], k>>] /\ h[k - 1] = g[k - 1]
        BY <4>1
      <4> HIDE DEF h
      <4> QED
        BY <3>1, <4>2
    <3>2. CASE i # k
      <4>1. i \in 1 .. k - 1 /\ i - 1 \in 0 .. k /\ i - 1 # k /\ i \in 0 .. k
        BY <2>6, <3>2
      <4>2. h[i] = g[i] /\ h[i - 1] = g[i - 1]
        BY <3>2, <4>1
      <4>3. g[i] = step[<<g[i - 1], i>>]
        BY <2>7, <4>1
      <4> HIDE DEF h
      <4> QED
        BY <4>2, <4>3
    <3> QED
      BY <3>1, <3>2
  <2>12. Is(h, k)
    BY <2>10, <2>11
  <2> QED
    BY <2>4, <2>12
<1>2. PICK f : Is(f, n)
  BY <1>1
<1> QED
  BY <1>2 DEF IsIterate

-----------------------------------------------------------------------------
(* index/retrieval.py                                                      *)

\* The pairs of S that are in order make a strict order of S.
IsOrder(S, before) ==
  /\ \A x \in S : <<x, x>> \notin before
  /\ \A x, y \in S : x # y => <<x, y>> \in before \/ <<y, x>> \in before
  /\ \A x, y, z \in S : <<x, y>> \in before /\ <<y, z>> \in before => <<x, z>> \in before

\* q lists S, each element once.
Lists(q, S) ==
  /\ IsSeq(q) /\ Len(q) = Cardinality(S)
  /\ \A i \in 1 .. Len(q) : q[i] \in S
  /\ \A x \in S : \E i \in 1 .. Len(q) : q[i] = x
  /\ \A i, j \in 1 .. Len(q) : q[i] = q[j] => i = j

LEMMA SameListing == ASSUME NEW S PROVE R!Cardinality(S) = Cardinality(S)
BY DEF R!Cardinality, Cardinality

\* Counting what comes before gives each element its place.
LEMMA SortedLists ==
  ASSUME NEW S, IsFiniteSet(S), NEW before, IsOrder(S, before)
  PROVE  /\ Lists(R!Sorted(S, before), S)
         /\ \A i, j \in 1 .. Cardinality(S) :
              i < j => <<R!Sorted(S, before)[i], R!Sorted(S, before)[j]>> \in before
<1> DEFINE n == Cardinality(S)
           Below(x) == {y \in S : <<y, x>> \in before}
           place == [x \in S |-> Cardinality(Below(x)) + 1]
           q == R!Sorted(S, before)
<1> USE DEF IsOrder
<1>1. n \in Nat
  BY FS_CardinalityType
<1>2. ASSUME NEW x \in S
      PROVE  /\ IsFiniteSet(Below(x)) /\ Cardinality(Below(x)) \in Nat
             /\ place[x] \in 1 .. n
  <2>1. IsFiniteSet(S \ {x}) /\ Cardinality(S \ {x}) = n - 1
    BY FS_RemoveElement
  <2>2. Below(x) \in SUBSET (S \ {x})
    OBVIOUS
  <2>3. IsFiniteSet(Below(x)) /\ Cardinality(Below(x)) <= n - 1
    <3> HIDE DEF Below
    <3>1. IsFiniteSet(Below(x)) /\ Cardinality(Below(x)) <= Cardinality(S \ {x})
      BY <2>1, <2>2, FS_Subset
    <3> QED
      BY <2>1, <3>1
  <2>4. Cardinality(Below(x)) \in Nat
    BY <2>3, FS_CardinalityType
  <2> QED
    BY <1>1, <2>3, <2>4
<1>3. ASSUME NEW x \in S, NEW y \in S, <<x, y>> \in before
      PROVE  place[x] < place[y]
  <2>1. Below(x) \in SUBSET Below(y) /\ x \in Below(y) /\ x \notin Below(x)
    BY <1>3
  <2>2. Cardinality(Below(x)) <= Cardinality(Below(y)) /\ Cardinality(Below(x)) # Cardinality(Below(y))
    BY <1>2, <2>1, FS_Subset
  <2> HIDE DEF Below
  <2>3. place[x] = Cardinality(Below(x)) + 1 /\ place[y] = Cardinality(Below(y)) + 1
    OBVIOUS
  <2> QED
    BY <1>2, <2>2, <2>3
<1>4. \A x, y \in S : place[x] = place[y] => x = y
  <2>1. SUFFICES ASSUME NEW x \in S, NEW y \in S, place[x] = place[y], x # y PROVE FALSE
    OBVIOUS
  <2>2. place[x] < place[y] \/ place[y] < place[x]
    BY <1>3, <2>1
  <2>3. place[x] \in 1 .. n /\ place[y] \in 1 .. n
    BY <1>2
  <2> HIDE DEF place
  <2> QED
    BY <2>1, <2>2, <2>3
<1> HIDE DEF Below
<1>5. place \in [S -> 1 .. n]
  <2>1. \A x \in S : Cardinality(Below(x)) + 1 \in 1 .. n
    BY <1>2
  <2> QED
    BY <2>1
<1>6. ASSUME NEW i \in 1 .. n PROVE \E x \in S : place[x] = i
  <2>1. place \in Injection(S, 1 .. n)
    <3> HIDE DEF place
    <3> QED
      BY <1>4, <1>5 DEF Injection, IsInjective
  <2>2. IsFiniteSet(1 .. n) /\ Cardinality(1 .. n) = n
    BY <1>1, FS_Interval
  <2>3. place \in Surjection(S, 1 .. n)
    BY <2>1, <2>2, FS_Injection
  <2> QED
    BY <2>3 DEF Surjection
<1>7. q = [i \in 1 .. n |-> CHOOSE x \in S : R!Cardinality(Below(x)) = i - 1]
  BY SameListing DEF R!Sorted, Below
<1>8. ASSUME NEW i \in 1 .. n PROVE q[i] \in S /\ place[q[i]] = i
  <2>1. PICK x \in S : Cardinality(Below(x)) = i - 1
    <3>1. PICK x \in S : place[x] = i
      BY <1>6
    <3>2. Cardinality(Below(x)) \in Nat /\ i = Cardinality(Below(x)) + 1
      BY <1>2, <3>1
    <3> QED
      BY <3>2
  <2>2. q[i] = CHOOSE y \in S : R!Cardinality(Below(y)) = i - 1
    BY <1>7
  <2>3. q[i] \in S /\ Cardinality(Below(q[i])) = i - 1
    <3> HIDE DEF q
    <3> QED
      BY <2>1, <2>2, SameListing
  <2>4. i - 1 + 1 = i
    OBVIOUS
  <2> HIDE DEF q
  <2> QED
    BY <2>3, <2>4
<1> HIDE DEF q, place
<1>9. IsSeq(q) /\ Len(q) = n
  <2>1. PICK f : f = q
    OBVIOUS
  <2>2. DOMAIN f = 1 .. n /\ \A i \in 1 .. n : f[i] \in S
    BY <1>7, <1>8, <2>1
  <2>3. f = [i \in 1 .. n |-> f[i]]
    BY <1>7, <2>1
  <2>4. f \in Seq(S) /\ Len(f) = n
    BY <1>1, <2>2, <2>3
  <2> QED
    BY <2>1, <2>4, SeqIsSeq
<1>10. \A x \in S : \E i \in 1 .. n : q[i] = x
  BY <1>4, <1>5, <1>8
<1>11. ASSUME NEW i \in 1 .. n, NEW j \in 1 .. n, i < j PROVE <<q[i], q[j]>> \in before
  <2>1. q[i] \in S /\ q[j] \in S /\ place[q[i]] = i /\ place[q[j]] = j
    BY <1>8
  <2>2. ~ (<<q[j], q[i]>> \in before) /\ q[i] # q[j]
    BY <1>3, <1>11, <2>1
  <2> QED
    BY <2>1, <2>2
<1>12. \A i, j \in 1 .. n : q[i] = q[j] => i = j
  BY <1>8
<1>13. Lists(q, S)
  BY <1>8, <1>9, <1>10, <1>12 DEF Lists
<1> QED
  BY <1>11, <1>13 DEF q

\* Places come in order.
LEMMA PlacesListed ==
  ASSUME NEW I, IsFiniteSet(I), I \subseteq Nat
  PROVE  /\ Lists(R!Places(I), I)
         /\ \A i, j \in 1 .. Cardinality(I) : i < j => R!Places(I)[i] < R!Places(I)[j]
<1> DEFINE before == {p \in I \X I : p[1] < p[2]}
<1>1. \A x, y \in I : <<x, y>> \in before <=> x < y
  OBVIOUS
<1>2. \A x, y \in I : x \in Nat /\ y \in Nat
  OBVIOUS
<1>3. R!Places(I) = R!Sorted(I, before)
  BY DEF R!Places
<1> HIDE DEF before
<1>4. IsOrder(I, before)
  BY <1>1, <1>2 DEF IsOrder
<1>5. /\ Lists(R!Places(I), I)
      /\ \A i, j \in 1 .. Cardinality(I) :
           i < j => <<R!Places(I)[i], R!Places(I)[j]>> \in before
  BY <1>3, <1>4, SortedLists
<1>6. \A i \in 1 .. Cardinality(I) : R!Places(I)[i] \in I
  BY <1>5 DEF Lists
<1> QED
  BY <1>1, <1>5, <1>6

\* The seeds are some of the embedded names, as similar as they are.
IsSeeding(seeds, vectors) ==
  /\ seeds \in [DOMAIN seeds -> Int] /\ DOMAIN seeds \subseteq DOMAIN vectors
  /\ \A n \in DOMAIN seeds : seeds[n] = vectors[n]

LEMMA SeedsTaken ==
  ASSUME NEW vectors, IsEmbedded(vectors)
  PROVE  IsSeeding(R!Seeds(vectors), vectors)
<1> DEFINE names == DOMAIN vectors
           Nearer(a, b) == \/ vectors[a] > vectors[b]
                           \/ vectors[a] = vectors[b] /\ Precedes(a, b)
           before == {p \in names \X names : Nearer(p[1], p[2])}
           ranked == R!Sorted(names, before)
           top    == {ranked[i] : i \in {j \in DOMAIN ranked : j <= TopK}}
<1>1. \A x, y \in names : <<x, y>> \in before <=> Nearer(x, y)
  OBVIOUS
<1>2. \A x \in names : vectors[x] \in Int
  BY DEF IsEmbedded
<1>3. Orders(names) /\ IsFiniteSet(names)
  BY DEF IsEmbedded
<1>4. R!Seeds(vectors) = [n \in top |-> vectors[n]]
  BY DEF R!Seeds
<1> HIDE DEF before
<1>5. IsOrder(names, before)
  <2>1. \A x \in names : ~Nearer(x, x)
    BY <1>2, <1>3 DEF Orders
  <2>2. \A x, y \in names : x # y => Nearer(x, y) \/ Nearer(y, x)
    BY <1>2, <1>3 DEF Orders
  <2>3. \A x, y, z \in names : Nearer(x, y) /\ Nearer(y, z) => Nearer(x, z)
    BY <1>2, <1>3 DEF Orders
  <2> HIDE DEF Nearer
  <2> QED
    BY <1>1, <2>1, <2>2, <2>3 DEF IsOrder
<1>6. Lists(ranked, names)
  BY <1>3, <1>5, SortedLists
<1> HIDE DEF ranked, names
<1>7. \A j \in DOMAIN ranked : ranked[j] \in names
  BY <1>6 DEF Lists, IsSeq
<1>8. top \subseteq names
  BY <1>7
<1> HIDE DEF top
<1> QED
  BY <1>2, <1>4, <1>8 DEF IsSeeding, names

\* The kept edges are those that pull a node in, each once.
LEMMA EdgesListed ==
  ASSUME NEW index, IsFiniteSet(index.edges), Orders(index.edges), NEW seeds
  PROVE  Lists(R!KeptEdges(index, seeds), {e \in index.edges : R!Neighbor(e, seeds) # {}})
<1> DEFINE kept   == {e \in index.edges : R!Neighbor(e, seeds) # {}}
           before == {p \in kept \X kept : Precedes(p[1], p[2])}
<1>1. \A x, y \in kept : <<x, y>> \in before <=> Precedes(x, y)
  OBVIOUS
<1>2. R!KeptEdges(index, seeds) = R!Sorted(kept, before)
  BY DEF R!KeptEdges
<1>3. kept \subseteq index.edges /\ IsFiniteSet(kept)
  BY FS_Subset
<1> HIDE DEF before
<1> HIDE DEF kept
<1>4. IsOrder(kept, before)
  BY <1>1, <1>3 DEF IsOrder, Orders
<1>5. Lists(R!KeptEdges(index, seeds), kept)
  BY <1>2, <1>3, <1>4, SortedLists
<1> QED
  BY <1>5 DEF kept

LEMMA LargerOf ==
  ASSUME NEW a \in Int, NEW b \in Int
  PROVE  R!Max({a, b}) \in {a, b} /\ R!Max({a, b}) >= a /\ R!Max({a, b}) >= b
<1>1. \E x \in {a, b} : \A y \in {a, b} : x >= y
  OBVIOUS
<1>2. R!Max({a, b}) \in {a, b} /\ \A y \in {a, b} : R!Max({a, b}) >= y
  BY <1>1 DEF R!Max
<1> QED
  BY <1>2

\* The seed at the other end of an edge that pulls a node in.
Anchor(edge, seeds) == IF edge.source \in seeds THEN edge.source ELSE edge.target

\* What an edge pulls in from outside the seeds, its anchor does.
LEMMA Anchored ==
  ASSUME NEW edge, NEW seeds, NEW n, n \notin seeds, n \in R!Neighbor(edge, seeds)
  PROVE  /\ R!Neighbor(edge, seeds) = {n} /\ Anchor(edge, seeds) \in seeds
         /\ \A s \in seeds : {edge.source, edge.target} = {s, n} <=> s = Anchor(edge, seeds)
<1>1. CASE edge.source \in seeds /\ edge.kind \in {"calls", "inherits", "references_type"}
  <2>1. edge.target = n /\ R!Neighbor(edge, seeds) = {n}
    BY <1>1 DEF R!Neighbor
  <2> QED
    BY <1>1, <2>1 DEF Anchor
<1>2. CASE ~ (edge.source \in seeds /\ edge.kind \in {"calls", "inherits", "references_type"})
  <2>1. edge.source = n /\ edge.target \in seeds /\ R!Neighbor(edge, seeds) = {n}
    BY <1>2 DEF R!Neighbor
  <2> QED
    BY <2>1 DEF Anchor
<1> QED
  BY <1>1, <1>2

\* One turn of the loop of _expand.
Visited(rank, edge, seeds) ==
  LET neighbor == CHOOSE n \in R!Neighbor(edge, DOMAIN seeds) : TRUE
      anchor   == IF edge.source \in DOMAIN seeds THEN edge.source ELSE edge.target
  IN  IF neighbor \in DOMAIN seeds THEN rank ELSE R!Pull(rank, neighbor, seeds[anchor])

\* What the ranks are after k edges.
RanksSo(rank, edges, k, seeds) ==
  LET S == DOMAIN seeds
  IN  /\ rank \in [DOMAIN rank -> Int] /\ S \subseteq DOMAIN rank
      /\ \A s \in S : rank[s] = seeds[s]
      /\ \A n \in DOMAIN rank \ S :
           \E j \in 1 .. k : n \in R!Neighbor(edges[j], S) /\ rank[n] = seeds[Anchor(edges[j], S)]
      /\ \A j \in 1 .. k : \A n \in R!Neighbor(edges[j], S) \ S :
           n \in DOMAIN rank /\ seeds[Anchor(edges[j], S)] <= rank[n]

\* An edge keeps the ranks as they should be.
LEMMA VisitRanks ==
  ASSUME NEW seeds, seeds \in [DOMAIN seeds -> Int], NEW edges, NEW k \in Nat, k # 0,
         R!Neighbor(edges[k], DOMAIN seeds) # {},
         NEW rank, RanksSo(rank, edges, k - 1, seeds)
  PROVE  /\ RanksSo(Visited(rank, edges[k], seeds), edges, k, seeds)
         /\ DOMAIN Visited(rank, edges[k], seeds) \subseteq
              DOMAIN rank \cup R!Neighbor(edges[k], DOMAIN seeds)
<1> DEFINE S == DOMAIN seeds
<1>1. PICK edge : edge = edges[k]
  OBVIOUS
<1>2. PICK n : n = CHOOSE m \in R!Neighbor(edge, S) : TRUE
  OBVIOUS
<1>3. n \in R!Neighbor(edge, S)
  BY <1>1, <1>2
<1>4. PICK r : r = Visited(rank, edge, seeds)
  OBVIOUS
<1>5. 1 .. k = 1 .. (k - 1) \cup {k}
  OBVIOUS
<1>6. R!Neighbor(edge, S) = {n}
  BY <1>3 DEF R!Neighbor
<1>7. /\ rank \in [DOMAIN rank -> Int] /\ S \subseteq DOMAIN rank
      /\ \A s \in S : rank[s] = seeds[s]
      /\ \A m \in DOMAIN rank \ S :
           \E j \in 1 .. k - 1 : m \in R!Neighbor(edges[j], S) /\ rank[m] = seeds[Anchor(edges[j], S)]
      /\ \A j \in 1 .. k - 1 : \A m \in R!Neighbor(edges[j], S) \ S :
           m \in DOMAIN rank /\ seeds[Anchor(edges[j], S)] <= rank[m]
  BY DEF RanksSo
<1>8. CASE n \in S
  <2>1. r = rank
    BY <1>2, <1>4, <1>8 DEF Visited
  <2>2. \A m \in DOMAIN rank \ S :
          \E j \in 1 .. k : m \in R!Neighbor(edges[j], S) /\ rank[m] = seeds[Anchor(edges[j], S)]
    BY <1>5, <1>7
  <2>3. \A j \in 1 .. k : \A m \in R!Neighbor(edges[j], S) \ S :
          m \in DOMAIN rank /\ seeds[Anchor(edges[j], S)] <= rank[m]
    BY <1>1, <1>5, <1>6, <1>7, <1>8
  <2>4. RanksSo(rank, edges, k, seeds)
    BY <1>7, <2>2, <2>3 DEF RanksSo
  <2> QED
    BY <1>1, <1>4, <2>1, <2>4
<1>9. CASE n \notin S
  <2>1. PICK score : score = seeds[Anchor(edge, S)]
    OBVIOUS
  <2>2. Anchor(edge, S) \in S
    BY <1>3, <1>9, Anchored
  <2>3. score \in Int
    BY <2>1, <2>2
  <2>4. r = R!Pull(rank, n, score)
    BY <1>2, <1>4, <1>9, <2>1 DEF Visited, Anchor
  <2>5. /\ DOMAIN r = DOMAIN rank \cup {n}
        /\ r = [m \in DOMAIN r |-> r[m]]
        /\ \A m \in DOMAIN rank : m # n => r[m] = rank[m]
        /\ n \in DOMAIN rank => r[n] = R!Max({rank[n], score})
        /\ n \notin DOMAIN rank => r[n] = score
    BY <2>4 DEF R!Pull
  <2>6. /\ r[n] \in Int /\ score <= r[n]
        /\ n \in DOMAIN rank => r[n] \in {rank[n], score} /\ rank[n] <= r[n]
        /\ n \notin DOMAIN rank => r[n] = score
    <3>1. CASE n \in DOMAIN rank
      <4>1. rank[n] \in Int
        BY <1>7, <3>1
      <4>2. PICK a : a = rank[n]
        OBVIOUS
      <4>3. r[n] = R!Max({a, score}) /\ a \in Int
        BY <2>5, <3>1, <4>1, <4>2
      <4>4. r[n] \in {a, score} /\ r[n] >= a /\ r[n] >= score
        BY <2>3, <4>3, LargerOf
      <4> QED
        BY <2>3, <3>1, <4>2, <4>3, <4>4
    <3>2. CASE n \notin DOMAIN rank
      BY <2>3, <2>5, <3>2
    <3> QED
      BY <3>1, <3>2
  <2>7. r \in [DOMAIN r -> Int] /\ S \subseteq DOMAIN r
    <3>1. \A m \in DOMAIN r : r[m] \in Int
      BY <1>7, <2>5, <2>6
    <3> QED
      BY <1>7, <2>5, <3>1
  <2>8. \A s \in S : r[s] = seeds[s]
    BY <1>7, <1>9, <2>5
  <2>9. ASSUME NEW m \in DOMAIN r \ S
        PROVE  \E j \in 1 .. k : m \in R!Neighbor(edges[j], S) /\ r[m] = seeds[Anchor(edges[j], S)]
    <3>1. CASE m \in DOMAIN rank /\ r[m] = rank[m]
      BY <1>5, <1>7, <3>1
    <3>2. CASE ~ (m \in DOMAIN rank /\ r[m] = rank[m])
      <4>1. m = n /\ r[m] = score
        BY <2>5, <2>6, <3>2
      <4>2. k \in 1 .. k
        OBVIOUS
      <4> QED
        BY <1>1, <1>3, <2>1, <4>1, <4>2
    <3> QED
      BY <3>1, <3>2
  <2>10. ASSUME NEW j \in 1 .. k, NEW m \in R!Neighbor(edges[j], S) \ S
         PROVE  m \in DOMAIN r /\ seeds[Anchor(edges[j], S)] <= r[m]
    <3>1. CASE j = k
      BY <1>1, <1>6, <2>1, <2>5, <2>6, <3>1
    <3>2. CASE j # k
      <4>1. j \in 1 .. k - 1
        BY <3>2
      <4>2. m \in DOMAIN rank /\ seeds[Anchor(edges[j], S)] <= rank[m]
        BY <1>7, <4>1
      <4>3. Anchor(edges[j], S) \in S
        BY Anchored
      <4>4. seeds[Anchor(edges[j], S)] \in Int /\ rank[m] \in Int /\ r[m] \in Int
        BY <1>7, <2>5, <2>7, <4>2, <4>3
      <4>5. rank[m] <= r[m]
        BY <2>5, <2>6, <4>2, <4>4
      <4> QED
        BY <2>5, <4>2, <4>4, <4>5
    <3> QED
      BY <3>1, <3>2
  <2>11. RanksSo(r, edges, k, seeds)
    BY <2>7, <2>8, <2>9, <2>10 DEF RanksSo
  <2> QED
    BY <1>1, <1>4, <1>6, <2>5, <2>11
<1> QED
  BY <1>8, <1>9

\* The ranks after the last edge.
LEMMA RankedSo ==
  ASSUME NEW seeds, seeds \in [DOMAIN seeds -> Int], NEW edges, IsSeq(edges),
         \A j \in 1 .. Len(edges) : R!Neighbor(edges[j], DOMAIN seeds) # {}
  PROVE  RanksSo(R!Ranked(edges, seeds), edges, Len(edges), seeds)
<1> DEFINE n == Len(edges)
           S == DOMAIN seeds
           N == S \cup UNION {R!Neighbor(edges[j], S) : j \in 1 .. n}
           D == UNION {[X -> Int] : X \in SUBSET N}
           step == [p \in D \X (1 .. n) |->
                      IF Visited(p[1], edges[p[2]], seeds) \in D
                      THEN Visited(p[1], edges[p[2]], seeds) ELSE seeds]
           IsRank(f) == f = [i \in 0 .. n |->
                               IF i = 0 THEN seeds ELSE Visited(f[i - 1], edges[i], seeds)]
           rank == CHOOSE f : IsRank(f)
<1>1. n \in Nat
  BY DEF IsSeq
<1>2. \A r, X : r \in [X -> Int] /\ X \subseteq N => r \in D
  OBVIOUS
<1>3. seeds \in D
  BY <1>2
<1>4. IsStep(step, D, n)
  BY <1>3 DEF IsStep
<1>5. \A r \in D, i \in 1 .. n :
        Visited(r, edges[i], seeds) \in D => step[<<r, i>>] = Visited(r, edges[i], seeds)
  OBVIOUS
<1>6. \A i \in 1 .. n : R!Neighbor(edges[i], S) \subseteq N
  OBVIOUS
<1>7. RanksSo(seeds, edges, 0, seeds)
  BY DEF RanksSo
<1> HIDE DEF step, D, N
<1>8. PICK f \in [0 .. n -> D] : f[0] = seeds /\ \A i \in 1 .. n : f[i] = step[<<f[i - 1], i>>]
  <2> HIDE DEF n
  <2>1. PICK f : IsIterate(f, D, seeds, n, step)
    BY <1>1, <1>3, <1>4, Iterated
  <2> QED
    BY <2>1 DEF IsIterate
<1>9. ASSUME NEW i \in 1 .. n, NEW r \in D, RanksSo(r, edges, i - 1, seeds), DOMAIN r \subseteq N
      PROVE  /\ RanksSo(Visited(r, edges[i], seeds), edges, i, seeds)
             /\ Visited(r, edges[i], seeds) \in D /\ DOMAIN Visited(r, edges[i], seeds) \subseteq N
  <2>1. i \in Nat /\ i # 0
    BY <1>1
  <2>2. PICK t : t = Visited(r, edges[i], seeds)
    OBVIOUS
  <2>3. RanksSo(t, edges, i, seeds) /\ DOMAIN t \subseteq DOMAIN r \cup R!Neighbor(edges[i], S)
    BY <1>9, <2>1, <2>2, VisitRanks
  <2>4. DOMAIN t \subseteq N /\ t \in [DOMAIN t -> Int]
    BY <1>6, <1>9, <2>3 DEF RanksSo
  <2>5. t \in D
    BY <1>2, <2>4
  <2> QED
    BY <2>2, <2>3, <2>4, <2>5
<1> DEFINE Done == {i \in 0 .. n : RanksSo(f[i], edges, i, seeds) /\ DOMAIN f[i] \subseteq N}
<1>10. 0 .. n \subseteq Done
  <2>1. 0 \in Done
    BY <1>1, <1>7, <1>8 DEF N
  <2>2. ASSUME NEW i \in 1 .. n, i - 1 \in Done PROVE i \in Done
    <3>1. i - 1 \in 0 .. n /\ i \in 0 .. n /\ f[i - 1] \in D
      BY <1>1, <1>8
    <3>2. RanksSo(f[i - 1], edges, i - 1, seeds) /\ DOMAIN f[i - 1] \subseteq N
      BY <2>2
    <3>3. f[i] = Visited(f[i - 1], edges[i], seeds)
      BY <1>5, <1>8, <1>9, <3>1, <3>2
    <3>4. RanksSo(f[i], edges, i, seeds) /\ DOMAIN f[i] \subseteq N
      BY <1>9, <3>1, <3>2, <3>3
    <3> QED
      BY <3>1, <3>4
  <2> HIDE DEF Done
  <2> QED
    BY <1>1, <2>1, <2>2, UpTo
<1>11. \A i \in 0 .. n : RanksSo(f[i], edges, i, seeds) /\ DOMAIN f[i] \subseteq N
  BY <1>10
<1>12. ASSUME NEW i \in 1 .. n PROVE f[i] = Visited(f[i - 1], edges[i], seeds)
  <2>1. i - 1 \in 0 .. n /\ f[i - 1] \in D
    BY <1>1, <1>8
  <2>2. RanksSo(f[i - 1], edges, i - 1, seeds) /\ DOMAIN f[i - 1] \subseteq N
    BY <1>11, <2>1
  <2> QED
    BY <1>5, <1>8, <1>9, <2>1, <2>2
<1>13. IsRank(f)
  <2>1. \A i \in 0 .. n : f[i] = IF i = 0 THEN seeds ELSE Visited(f[i - 1], edges[i], seeds)
    BY <1>8, <1>12
  <2> QED
    BY <1>8, <2>1
<1>14. IsRank(rank)
  BY <1>13
<1>15. R!Ranked(edges, seeds) = rank[n]
  BY DEF R!Ranked, Visited
<1> HIDE DEF rank
<1>16. \A i \in 0 .. n : rank[i] = f[i]
  <2> DEFINE I == {i \in 0 .. n : rank[i] = f[i]}
  <2>1. 0 \in I
    BY <1>1, <1>8, <1>14
  <2>2. ASSUME NEW i \in 1 .. n, i - 1 \in I PROVE i \in I
    <3>1. rank[i] = Visited(rank[i - 1], edges[i], seeds)
      BY <1>1, <1>14
    <3> QED
      BY <1>1, <1>12, <2>2, <3>1
  <2> HIDE DEF I
  <2>3. 0 .. n \subseteq I
    BY <1>1, <2>1, <2>2, UpTo
  <2> QED
    BY <2>3 DEF I
<1>17. n \in 0 .. n
  BY <1>1
<1> QED
  BY <1>11, <1>15, <1>16, <1>17

\* An index that can be searched.
IsIndex(index) ==
  /\ index.exists = TRUE /\ IsEmbedded(index.vectors) /\ IsIndexed(index.symbols)
  /\ IsFiniteSet(index.edges) /\ Orders(index.edges)

RankIn(index, seeds) == R!Ranked(R!KeptEdges(index, DOMAIN seeds), seeds)

ContextOf(symbol, rank, seeds) ==
  [name |-> symbol.name, kind |-> symbol.kind, rank |-> rank[symbol.name],
   seed |-> symbol.name \in DOMAIN seeds]

\* The neighbourhood of the seeds lists the symbols found, seeds first.
IsExpanded(ordered, index, seeds) ==
  LET rank == RankIn(index, seeds)
  IN  /\ Lists(ordered, {s \in index.symbols : s.name \in DOMAIN rank})
      /\ R!Expand(index, seeds).symbols =
           [i \in 1 .. Len(ordered) |-> ContextOf(ordered[i], rank, seeds)]
      /\ \A i, j \in 1 .. Len(ordered) :
           i < j /\ ordered[j].name \in DOMAIN seeds => ordered[i].name \in DOMAIN seeds

LEMMA KeptRanks ==
  ASSUME NEW index, IsIndex(index), NEW seeds, seeds \in [DOMAIN seeds -> Int]
  PROVE  LET edges == R!KeptEdges(index, DOMAIN seeds)
         IN  /\ Lists(edges, {e \in index.edges : R!Neighbor(e, DOMAIN seeds) # {}})
             /\ RanksSo(RankIn(index, seeds), edges, Len(edges), seeds)
<1> DEFINE edges == R!KeptEdges(index, DOMAIN seeds)
<1>1. Lists(edges, {e \in index.edges : R!Neighbor(e, DOMAIN seeds) # {}})
  BY EdgesListed DEF IsIndex
<1> HIDE DEF edges
<1>2. IsSeq(edges) /\ \A j \in 1 .. Len(edges) : R!Neighbor(edges[j], DOMAIN seeds) # {}
  BY <1>1 DEF Lists
<1>3. RanksSo(R!Ranked(edges, seeds), edges, Len(edges), seeds)
  BY <1>2, RankedSo
<1> QED
  BY <1>1, <1>3 DEF edges, RankIn

LEMMA Expanded ==
  ASSUME NEW index, IsIndex(index), NEW seeds, seeds \in [DOMAIN seeds -> Int]
  PROVE  \E ordered : IsExpanded(ordered, index, seeds)
<1> DEFINE S == DOMAIN seeds
           rank  == RankIn(index, seeds)
           found == {s \in index.symbols : s.name \in DOMAIN rank}
           First(a, b) ==
             IF (a.name \in S) # (b.name \in S) THEN a.name \in S
             ELSE IF rank[a.name] # rank[b.name] THEN rank[a.name] > rank[b.name]
             ELSE Precedes(a.name, b.name)
           before  == {p \in found \X found : First(p[1], p[2])}
           ordered == R!Sorted(found, before)
<1>1. \A x, y \in found : <<x, y>> \in before <=> First(x, y)
  OBVIOUS
<1>2. R!Expand(index, seeds).symbols =
        [i \in DOMAIN ordered |-> ContextOf(ordered[i], rank, seeds)]
  BY DEF R!Expand, RankIn, ContextOf
<1>3. \A s \in found : rank[s.name] \in Int
  <2>1. rank \in [DOMAIN rank -> Int]
    BY KeptRanks DEF RanksSo
  <2> HIDE DEF rank
  <2> QED
    BY <2>1
<1>4. IsFiniteSet(found)
  BY FS_Subset DEF IsIndex, IsIndexed
<1>5. found \subseteq index.symbols
  OBVIOUS
<1> HIDE DEF before, found, rank
<1>6. /\ \A s \in found : ~Precedes(s.name, s.name)
      /\ \A s, t \in found : s # t => Precedes(s.name, t.name) \/ Precedes(t.name, s.name)
      /\ \A s, t, u \in found :
           Precedes(s.name, t.name) /\ Precedes(t.name, u.name) => Precedes(s.name, u.name)
  BY <1>5 DEF IsIndex, IsIndexed, Orders, NamesOf
<1>7. IsOrder(found, before)
  <2>1. \A x \in found : ~First(x, x)
    BY <1>3, <1>6
  <2>2. \A x, y \in found : x # y => First(x, y) \/ First(y, x)
    <3>1. SUFFICES ASSUME NEW x \in found, NEW y \in found, x # y
                   PROVE  First(x, y) \/ First(y, x)
      OBVIOUS
    <3>2. rank[x.name] \in Int /\ rank[y.name] \in Int
      BY <1>3
    <3>3. Precedes(x.name, y.name) \/ Precedes(y.name, x.name)
      BY <1>6, <3>1
    <3> QED
      BY <3>2, <3>3
  <2>3. \A x, y, z \in found : First(x, y) /\ First(y, z) => First(x, z)
    <3>1. SUFFICES ASSUME NEW x \in found, NEW y \in found, NEW z \in found,
                          First(x, y), First(y, z)
                   PROVE  First(x, z)
      OBVIOUS
    <3>2. PICK a \in Int, b \in Int, c \in Int :
            a = rank[x.name] /\ b = rank[y.name] /\ c = rank[z.name]
      BY <1>3
    <3>3. Precedes(x.name, y.name) /\ Precedes(y.name, z.name) => Precedes(x.name, z.name)
      BY <1>6
    <3> QED
      BY <3>1, <3>2, <3>3
  <2> HIDE DEF First
  <2> QED
    BY <1>1, <2>1, <2>2, <2>3 DEF IsOrder
<1>8. /\ Lists(ordered, found)
      /\ \A i, j \in 1 .. Cardinality(found) : i < j => <<ordered[i], ordered[j]>> \in before
  BY <1>4, <1>7, SortedLists
<1> HIDE DEF ordered
<1>9. DOMAIN ordered = 1 .. Len(ordered) /\ Len(ordered) = Cardinality(found)
  BY <1>8 DEF Lists, IsSeq
<1>10. ASSUME NEW i \in 1 .. Len(ordered), NEW j \in 1 .. Len(ordered), i < j, ordered[j].name \in S
       PROVE  ordered[i].name \in S
  <2>1. ordered[i] \in found /\ ordered[j] \in found
    BY <1>8 DEF Lists
  <2>2. First(ordered[i], ordered[j])
    BY <1>1, <1>8, <1>9, <1>10, <2>1
  <2> QED
    BY <1>10, <2>2
<1>11. R!Expand(index, seeds).symbols =
         [i \in 1 .. Len(ordered) |-> ContextOf(ordered[i], rank, seeds)]
  BY <1>2, <1>9
<1>12. IsExpanded(ordered, index, seeds)
  BY <1>8, <1>10, <1>11 DEF IsExpanded, found, rank
<1> QED
  BY <1>12

\* What retrieval gives, its seeds expanded.
LEMMA Retrieved ==
  ASSUME NEW index, IsIndex(index)
  PROVE  R!Retrieve(index, "vector") =
           [error |-> FALSE, context |-> R!Expand(index, R!Seeds(index.vectors))]
BY DEF R!Retrieve, IsIndex, IsEmbedded

LEMMA RanksAreBest ==
  ASSUME NEW index, IsIndex(index)
  PROVE  R!RanksByBestSeed(index)
<1> DEFINE seeds == R!Seeds(index.vectors)
           S     == DOMAIN seeds
           edges == R!KeptEdges(index, S)
           rank  == RankIn(index, seeds)
           symbols == R!Expand(index, seeds).symbols
           Pulling(n) == {s \in S : \E e \in index.edges : {e.source, e.target} = {s, n}
                                                        /\ n \in R!Neighbor(e, S)}
<1>1. seeds \in [S -> Int]
  BY SeedsTaken DEF IsSeeding, IsIndex
<1>2. R!Retrieve(index, "vector").context.symbols = symbols
  BY Retrieved
<1> HIDE DEF seeds
<1>3. /\ Lists(edges, {e \in index.edges : R!Neighbor(e, S) # {}})
      /\ RanksSo(rank, edges, Len(edges), seeds)
  BY <1>1, KeptRanks
<1>4. PICK ordered : IsExpanded(ordered, index, seeds)
  BY <1>1, Expanded
<1>5. /\ symbols = [i \in 1 .. Len(ordered) |-> ContextOf(ordered[i], rank, seeds)]
      /\ \A i \in 1 .. Len(ordered) : ordered[i].name \in DOMAIN rank
  BY <1>4 DEF IsExpanded, Lists
<1> HIDE DEF edges, rank, symbols
<1>6. ASSUME NEW i \in DOMAIN symbols PROVE R!BestSeed(index, seeds, symbols[i])
  <2>1. PICK n : n = ordered[i].name
    OBVIOUS
  <2>2. /\ symbols[i].name = n /\ symbols[i].rank = rank[n] /\ symbols[i].seed = (n \in S)
        /\ n \in DOMAIN rank
    BY <1>5, <2>1 DEF ContextOf
  <2>3. PICK s : s = symbols[i]
    OBVIOUS
  <2>4. n \in S => s.rank = seeds[s.name]
    BY <1>3, <2>2, <2>3 DEF RanksSo
  <2>5. ASSUME n \notin S
        PROVE  /\ \A t \in Pulling(n) : seeds[t] <= rank[n]
               /\ \E t \in Pulling(n) : seeds[t] = rank[n]
    <3>1. PICK j \in 1 .. Len(edges) :
            n \in R!Neighbor(edges[j], S) /\ rank[n] = seeds[Anchor(edges[j], S)]
      BY <1>3, <2>2, <2>5 DEF RanksSo
    <3>2. edges[j] \in index.edges
      BY <1>3 DEF Lists
    <3>3. /\ Anchor(edges[j], S) \in S
          /\ {edges[j].source, edges[j].target} = {Anchor(edges[j], S), n}
      BY <2>5, <3>1, Anchored
    <3>4. Anchor(edges[j], S) \in Pulling(n)
      BY <3>1, <3>2, <3>3
    <3>5. ASSUME NEW t \in Pulling(n) PROVE seeds[t] <= rank[n]
      <4>1. PICK e \in index.edges : {e.source, e.target} = {t, n} /\ n \in R!Neighbor(e, S)
        OBVIOUS
      <4>2. t \in S
        OBVIOUS
      <4>3. t = Anchor(e, S)
        BY <2>5, <4>1, <4>2, Anchored
      <4>4. PICK k \in 1 .. Len(edges) : edges[k] = e
        BY <1>3, <4>1 DEF Lists
      <4> QED
        BY <1>3, <2>5, <4>1, <4>3, <4>4 DEF RanksSo
    <3> QED
      BY <3>1, <3>4, <3>5
  <2> HIDE DEF S
  <2>6. IF s.seed THEN s.rank = seeds[s.name]
        ELSE /\ \A t \in Pulling(s.name) : seeds[t] <= s.rank
             /\ \E t \in Pulling(s.name) : seeds[t] = s.rank
    BY <2>2, <2>3, <2>4, <2>5
  <2>7. R!BestSeed(index, seeds, s)
    BY <2>6 DEF R!BestSeed, S
  <2> QED
    BY <2>3, <2>7
<1> QED
  BY <1>2, <1>6 DEF R!RanksByBestSeed, seeds

-----------------------------------------------------------------------------
(* index/render.py: the budget                                             *)

\* The beginning of a sequence.
LEMMA Beginning ==
  ASSUME NEW q, IsSeq(q), NEW k \in 0 .. Len(q)
  PROVE  /\ IsSeq(SubSeq(q, 1, k)) /\ Len(SubSeq(q, 1, k)) = k
         /\ \A i \in 1 .. k : SubSeq(q, 1, k)[i] = q[i]
<1> DEFINE S == {q[i] : i \in 1 .. Len(q)}
<1>1. q \in Seq(S)
  BY IsSeqOf
<1> HIDE DEF S
<1>2. Len(q) \in Nat
  BY DEF IsSeq
<1>3. /\ SubSeq(q, 1, k) \in Seq(S) /\ Len(SubSeq(q, 1, k)) = k
      /\ \A i \in 1 .. k : SubSeq(q, 1, k)[i] = q[i]
  BY <1>1, <1>2
<1> QED
  BY <1>3, SeqIsSeq

LEMMA SameSeqs ==
  ASSUME NEW p, IsSeq(p), NEW q, IsSeq(q), Len(p) = Len(q), \A i \in 1 .. Len(q) : p[i] = q[i]
  PROVE  p = q
BY DEF IsSeq

LEMMA WholeBeginning ==
  ASSUME NEW q, IsSeq(q)
  PROVE  SubSeq(q, 1, Len(q)) = q
<1>1. Len(q) \in 0 .. Len(q)
  BY DEF IsSeq
<1>2. PICK p : p = SubSeq(q, 1, Len(q))
  OBVIOUS
<1>3. IsSeq(p) /\ Len(p) = Len(q) /\ \A i \in 1 .. Len(q) : p[i] = q[i]
  BY <1>1, <1>2, Beginning
<1> QED
  BY <1>2, <1>3, SameSeqs

\* Without its last element.
LEMMA LastRemoved ==
  ASSUME NEW q, IsSeq(q), NEW k \in 1 .. Len(q)
  PROVE  R!RemoveAt(SubSeq(q, 1, k), k) = SubSeq(q, 1, k - 1)
<1> DEFINE S == {q[i] : i \in 1 .. Len(q)}
<1>1. q \in Seq(S)
  BY IsSeqOf
<1> HIDE DEF S
<1>2. Len(q) \in Nat /\ k \in 0 .. Len(q) /\ k - 1 \in 0 .. k /\ k - 1 \in 0 .. Len(q)
  BY DEF IsSeq
<1>3. PICK p : p \in Seq(S) /\ p = SubSeq(q, 1, k)
  <2>1. SubSeq(q, 1, k) \in Seq(S)
    BY <1>1, <1>2
  <2> QED
    BY <2>1
<1>4. Len(p) = k /\ \A i \in 1 .. k : p[i] = q[i]
  BY <1>1, <1>2, <1>3
<1>5. R!RemoveAt(p, k) = SubSeq(p, 1, k - 1) \o SubSeq(p, k + 1, Len(p))
  BY DEF R!RemoveAt
<1>6. SubSeq(p, k + 1, Len(p)) = <<>>
  BY <1>2, <1>4
<1>7. PICK r : r \in Seq(S) /\ r = SubSeq(p, 1, k - 1)
  <2>1. SubSeq(p, 1, k - 1) \in Seq(S)
    BY <1>2, <1>3, <1>4
  <2> QED
    BY <2>1
<1>8. R!RemoveAt(p, k) = r
  <2>1. r \o <<>> = r
    BY <1>7
  <2>2. R!RemoveAt(p, k) = r \o <<>>
    BY <1>5, <1>6, <1>7
  <2> QED
    BY <2>1, <2>2
<1>9. Len(r) = k - 1 /\ \A i \in 1 .. k - 1 : r[i] = q[i]
  <2>1. Len(r) = k - 1 /\ \A i \in 1 .. k - 1 : r[i] = p[i]
    BY <1>2, <1>4, <1>7
  <2> QED
    BY <1>2, <1>4, <2>1
<1>10. PICK t : t = SubSeq(q, 1, k - 1)
  OBVIOUS
<1>11. IsSeq(t) /\ Len(t) = k - 1 /\ \A i \in 1 .. k - 1 : t[i] = q[i]
  BY <1>2, <1>10, Beginning
<1>12. IsSeq(r) /\ Len(r) = Len(t) /\ \A i \in 1 .. Len(t) : r[i] = t[i]
  BY <1>7, <1>9, <1>11, SeqIsSeq
<1>13. r = t
  BY <1>11, <1>12, SameSeqs
<1> QED
  BY <1>3, <1>8, <1>10, <1>13

\* The first `seeds` symbols are the seeds.
SeedsFirst(symbols, seeds) ==
  /\ IsSeq(symbols) /\ seeds \in 0 .. Len(symbols)
  /\ \A i \in 1 .. Len(symbols) : symbols[i].seed <=> i <= seeds

LEMMA CheapestIsLast ==
  ASSUME NEW symbols, NEW seeds, SeedsFirst(symbols, seeds), NEW k \in seeds .. Len(symbols)
  PROVE  R!Cheapest(SubSeq(symbols, 1, k)) = IF k = seeds THEN 0 ELSE k
<1>1. PICK p : p = SubSeq(symbols, 1, k)
  OBVIOUS
<1>2. k \in 0 .. Len(symbols) /\ seeds \in Nat /\ k \in Nat /\ seeds <= k
  BY DEF SeedsFirst, IsSeq
<1>3. Len(p) = k /\ \A i \in 1 .. k : p[i].seed <=> i <= seeds
  BY <1>1, <1>2, Beginning DEF SeedsFirst
<1> DEFINE I == {i \in 1 .. Len(p) : ~p[i].seed}
<1>4. I = seeds + 1 .. k
  BY <1>2, <1>3
<1>5. R!Cheapest(p) = IF I # {} THEN R!Max(I) ELSE 0
  BY DEF R!Cheapest, R!SelectLastInSeq
<1> HIDE DEF I
<1>6. k # seeds => R!Max(I) = k
  <2>1. SUFFICES ASSUME k # seeds PROVE R!Max(I) = k
    OBVIOUS
  <2>2. k \in I /\ \A y \in I : k >= y
    BY <1>2, <1>4, <2>1
  <2>3. R!Max(I) \in I /\ \A y \in I : R!Max(I) >= y
    BY <2>2 DEF R!Max
  <2>4. R!Max(I) >= k /\ k >= R!Max(I) /\ R!Max(I) \in Int
    BY <1>2, <1>4, <2>2, <2>3
  <2> QED
    BY <1>2, <2>4
<1> QED
  BY <1>1, <1>2, <1>4, <1>5, <1>6

\* One turn of the loop of fit_to_budget.
Fitted(context, symbols) == [context EXCEPT !.symbols = symbols]
TooLong(context, symbols) == Len(R!Render(Fitted(context, symbols))) > Budget
Dropped(context, symbols) ==
  IF TooLong(context, symbols) /\ R!Cheapest(symbols) # 0
  THEN R!RemoveAt(symbols, R!Cheapest(symbols)) ELSE symbols

\* After i turns the first k symbols are left.
FitSo(context, symbols, seeds, i, k) ==
  /\ k \in seeds .. Len(symbols)
  /\ k < Len(symbols) => TooLong(context, SubSeq(symbols, 1, k + 1))
  /\ k = Len(symbols) - i \/ k = seeds \/ ~TooLong(context, SubSeq(symbols, 1, k))

LEMMA DropOne ==
  ASSUME NEW context, NEW symbols, NEW seeds, SeedsFirst(symbols, seeds),
         NEW k \in seeds .. Len(symbols)
  PROVE  IF TooLong(context, SubSeq(symbols, 1, k)) /\ k # seeds
         THEN Dropped(context, SubSeq(symbols, 1, k)) = SubSeq(symbols, 1, k - 1)
         ELSE Dropped(context, SubSeq(symbols, 1, k)) = SubSeq(symbols, 1, k)
<1>1. R!Cheapest(SubSeq(symbols, 1, k)) = IF k = seeds THEN 0 ELSE k
  BY CheapestIsLast
<1>2. k # seeds => k # 0 /\ k \in 1 .. Len(symbols)
  BY DEF SeedsFirst, IsSeq
<1>3. k # seeds => R!RemoveAt(SubSeq(symbols, 1, k), k) = SubSeq(symbols, 1, k - 1)
  BY <1>2, LastRemoved DEF SeedsFirst
<1> QED
  BY <1>1, <1>2, <1>3 DEF Dropped

LEMMA FitStep ==
  ASSUME NEW context, NEW symbols, NEW seeds, SeedsFirst(symbols, seeds),
         NEW i \in 1 .. Len(symbols), NEW j, j = i - 1,
         NEW k, FitSo(context, symbols, seeds, j, k)
  PROVE  \E l : FitSo(context, symbols, seeds, i, l)
                /\ Dropped(context, SubSeq(symbols, 1, k)) = SubSeq(symbols, 1, l)
<1>1. /\ k \in seeds .. Len(symbols)
      /\ k < Len(symbols) => TooLong(context, SubSeq(symbols, 1, k + 1))
      /\ k = Len(symbols) - (i - 1) \/ k = seeds \/ ~TooLong(context, SubSeq(symbols, 1, k))
  BY DEF FitSo
<1>2. Len(symbols) \in Nat /\ seeds \in Nat /\ k \in Nat /\ seeds <= k /\ k <= Len(symbols)
  BY <1>1 DEF SeedsFirst, IsSeq
<1>3. CASE TooLong(context, SubSeq(symbols, 1, k)) /\ k # seeds
  <2>1. Dropped(context, SubSeq(symbols, 1, k)) = SubSeq(symbols, 1, k - 1)
    <3>1. PICK l \in seeds .. Len(symbols) : l = k
      BY <1>1
    <3>2. Dropped(context, SubSeq(symbols, 1, l)) = SubSeq(symbols, 1, l - 1)
      BY <1>3, <3>1, DropOne
    <3> QED
      BY <3>1, <3>2
  <2>2. k - 1 \in seeds .. Len(symbols) /\ k - 1 + 1 = k /\ k - 1 = Len(symbols) - i
    BY <1>1, <1>2, <1>3
  <2>3. FitSo(context, symbols, seeds, i, k - 1)
    BY <1>3, <2>2 DEF FitSo
  <2> QED
    BY <2>1, <2>3
<1>4. CASE ~ (TooLong(context, SubSeq(symbols, 1, k)) /\ k # seeds)
  <2>1. Dropped(context, SubSeq(symbols, 1, k)) = SubSeq(symbols, 1, k)
    <3>1. PICK l \in seeds .. Len(symbols) : l = k
      BY <1>1
    <3>2. Dropped(context, SubSeq(symbols, 1, l)) = SubSeq(symbols, 1, l)
      BY <1>4, <3>1, DropOne
    <3> QED
      BY <3>1, <3>2
  <2>2. FitSo(context, symbols, seeds, i, k)
    BY <1>1, <1>4 DEF FitSo
  <2> QED
    BY <2>1, <2>2
<1> QED
  BY <1>3, <1>4

\* What fit_to_budget leaves.
LEMMA FitLeaves ==
  ASSUME NEW context, NEW seeds, SeedsFirst(context.symbols, seeds)
  PROVE  \E k : /\ FitSo(context, context.symbols, seeds, Len(context.symbols), k)
                /\ R!Fit(context) = Fitted(context, SubSeq(context.symbols, 1, k))
<1>1. PICK symbols : symbols = context.symbols
  OBVIOUS
<1>2. SeedsFirst(symbols, seeds)
  BY <1>1
<1> DEFINE n == Len(symbols)
           D == {SubSeq(symbols, 1, k) : k \in seeds .. n}
           step == [p \in D \X (1 .. n) |-> Dropped(context, p[1])]
           IsKept(f) == f = [i \in 0 .. n |-> IF i = 0 THEN symbols ELSE Dropped(context, f[i - 1])]
           kept == CHOOSE f : IsKept(f)
<1>3. n \in Nat /\ seeds \in 0 .. n /\ n \in seeds .. n
  BY <1>2 DEF SeedsFirst, IsSeq
<1>4. symbols = SubSeq(symbols, 1, n)
  BY <1>2, WholeBeginning DEF SeedsFirst
<1>5. ASSUME NEW q \in D PROVE Dropped(context, q) \in D
  <2>1. PICK k \in seeds .. n : q = SubSeq(symbols, 1, k)
    OBVIOUS
  <2>2. k # seeds => k - 1 \in seeds .. n
    BY <1>3
  <2>3. PICK l \in seeds .. n : Dropped(context, q) = SubSeq(symbols, 1, l)
    BY <1>2, <2>1, <2>2, DropOne
  <2> QED
    BY <2>3
<1>6. \A q \in D, i \in 1 .. n : step[<<q, i>>] = Dropped(context, q)
  OBVIOUS
<1>7. IsStep(step, D, n)
  BY <1>5 DEF IsStep
<1>8. symbols \in D
  BY <1>3, <1>4
<1> HIDE DEF step, D
<1>9. PICK f : IsIterate(f, D, symbols, n, step)
  <2> HIDE DEF n
  <2> QED
    BY <1>3, <1>7, <1>8, Iterated
<1>10. IsKept(f)
  <2>1. \A i \in 0 .. n : f[i] = IF i = 0 THEN symbols ELSE Dropped(context, f[i - 1])
    <3>1. SUFFICES ASSUME NEW i \in 1 .. n PROVE f[i] = Dropped(context, f[i - 1])
      BY <1>9 DEF IsIterate
    <3>2. i - 1 \in 0 .. n /\ f[i - 1] \in D
      BY <1>3, <1>9 DEF IsIterate
    <3> QED
      BY <1>6, <1>9, <3>2 DEF IsIterate
  <2> QED
    BY <1>9, <2>1 DEF IsIterate
<1>11. IsKept(kept)
  BY <1>10
<1>12. R!Fit(context) = Fitted(context, kept[n])
  BY <1>1 DEF R!Fit, Fitted, Dropped, TooLong
<1> HIDE DEF kept
<1> DEFINE Fits(i) == \E k : FitSo(context, symbols, seeds, i, k) /\ kept[i] = SubSeq(symbols, 1, k)
           Done == {i \in 0 .. n : Fits(i)}
<1>13. 0 \in Done
  <2>1. FitSo(context, symbols, seeds, 0, n)
    BY <1>3 DEF FitSo
  <2>2. kept[0] = SubSeq(symbols, 1, n)
    BY <1>3, <1>4, <1>11
  <2>3. Fits(0)
    BY <1>3, <2>1, <2>2
  <2>4. 0 \in 0 .. n
    BY <1>3
  <2> HIDE DEF Fits
  <2> QED
    BY <2>3, <2>4
<1>14. ASSUME NEW i \in 1 .. n, i - 1 \in Done PROVE i \in Done
  <2>1. PICK k : FitSo(context, symbols, seeds, i - 1, k) /\ kept[i - 1] = SubSeq(symbols, 1, k)
    BY <1>14
  <2>2. kept[i] = Dropped(context, kept[i - 1])
    BY <1>3, <1>11
  <2>3. PICK j : j = i - 1
    OBVIOUS
  <2>4. FitSo(context, symbols, seeds, j, k)
    BY <2>1, <2>3
  <2>5. PICK l : /\ FitSo(context, symbols, seeds, i, l)
                 /\ Dropped(context, SubSeq(symbols, 1, k)) = SubSeq(symbols, 1, l)
    BY <1>2, <2>3, <2>4, FitStep
  <2>6. kept[i] = SubSeq(symbols, 1, l)
    BY <2>1, <2>2, <2>5
  <2>7. Fits(i)
    BY <2>5, <2>6
  <2>8. i \in 0 .. n
    BY <1>3
  <2> HIDE DEF Fits
  <2> QED
    BY <2>7, <2>8
<1>15. n \in Done
  <2> HIDE DEF Done
  <2>1. 0 .. n \subseteq Done
    BY <1>3, <1>13, <1>14, UpTo
  <2> QED
    BY <1>3, <2>1
<1> QED
  BY <1>1, <1>12, <1>15

-----------------------------------------------------------------------------
(* index/render.py: the block                                              *)

\* Line i is the heading of the name; the lines have one such heading; they have none.
HeadsAt(lines, name, i) == lines[i].what = "symbol" /\ lines[i].name = name
Never(lines, name) == \A i \in 1 .. Len(lines) : ~HeadsAt(lines, name, i)
Once(lines, name) ==
  \E i \in 1 .. Len(lines) :
    HeadsAt(lines, name, i) /\ \A j \in 1 .. Len(lines) : HeadsAt(lines, name, j) => j = i

\* A line of p \o q is one of p or one of q.
LEMMA JoinedLines ==
  ASSUME NEW p, IsSeq(p), NEW q, IsSeq(q), NEW name
  PROVE  /\ IsSeq(p \o q)
         /\ Never(p, name) /\ Never(q, name) => Never(p \o q, name)
         /\ Once(p, name) /\ Never(q, name) => Once(p \o q, name)
         /\ Never(p, name) /\ Once(q, name) => Once(p \o q, name)
<1>1. PICK r : r = p \o q
  OBVIOUS
<1>2. /\ IsSeq(r) /\ Len(r) = Len(p) + Len(q)
      /\ \A i \in 1 .. Len(p) : r[i] = p[i]
      /\ \A i \in 1 .. Len(q) : r[Len(p) + i] = q[i]
  BY <1>1, Joined
<1>3. Len(p) \in Nat /\ Len(q) \in Nat
  BY DEF IsSeq
<1>4. ASSUME NEW i \in 1 .. Len(p) PROVE i \in 1 .. Len(r) /\ (HeadsAt(r, name, i) <=> HeadsAt(p, name, i))
  BY <1>2, <1>3 DEF HeadsAt
<1>5. ASSUME NEW i \in 1 .. Len(q)
      PROVE  Len(p) + i \in 1 .. Len(r) /\ (HeadsAt(r, name, Len(p) + i) <=> HeadsAt(q, name, i))
  BY <1>2, <1>3 DEF HeadsAt
<1>6. ASSUME NEW j \in 1 .. Len(r)
      PROVE  j \in 1 .. Len(p) \/ \E i \in 1 .. Len(q) : j = Len(p) + i
  <2>1. CASE j <= Len(p)
    BY <1>3, <2>1
  <2>2. CASE j > Len(p)
    <3>1. j - Len(p) \in 1 .. Len(q) /\ j = Len(p) + (j - Len(p))
      BY <1>2, <1>3, <2>2
    <3> QED
      BY <3>1
  <2> QED
    BY <1>3, <2>1, <2>2
<1>7. ASSUME Never(p, name), Never(q, name) PROVE Never(r, name)
  BY <1>4, <1>5, <1>6, <1>7 DEF Never
<1>8. ASSUME Once(p, name), Never(q, name) PROVE Once(r, name)
  <2>1. PICK i \in 1 .. Len(p) :
          HeadsAt(p, name, i) /\ \A j \in 1 .. Len(p) : HeadsAt(p, name, j) => j = i
    BY <1>8 DEF Once
  <2>2. i \in 1 .. Len(r) /\ HeadsAt(r, name, i)
    BY <1>4, <2>1
  <2>3. ASSUME NEW j \in 1 .. Len(r), HeadsAt(r, name, j) PROVE j = i
    BY <1>4, <1>5, <1>6, <1>8, <2>1, <2>3 DEF Never
  <2> QED
    BY <2>2, <2>3 DEF Once
<1>9. ASSUME Never(p, name), Once(q, name) PROVE Once(r, name)
  <2>1. PICK i \in 1 .. Len(q) :
          HeadsAt(q, name, i) /\ \A j \in 1 .. Len(q) : HeadsAt(q, name, j) => j = i
    BY <1>9 DEF Once
  <2>2. Len(p) + i \in 1 .. Len(r) /\ HeadsAt(r, name, Len(p) + i)
    BY <1>5, <2>1
  <2>3. ASSUME NEW j \in 1 .. Len(r), HeadsAt(r, name, j) PROVE j = Len(p) + i
    <3>1. ~(j \in 1 .. Len(p))
      BY <1>4, <1>9, <2>3 DEF Never
    <3>2. PICK l \in 1 .. Len(q) : j = Len(p) + l
      BY <1>6, <3>1
    <3>3. HeadsAt(q, name, l)
      BY <1>5, <2>3, <3>2
    <3> QED
      BY <2>1, <3>2, <3>3
  <2> QED
    BY <2>2, <2>3 DEF Once
<1> QED
  BY <1>1, <1>2, <1>7, <1>8, <1>9

LEMMA SameFlat == ASSUME NEW seqs PROVE R!FlattenSeq(seqs) = T!FlattenSeq(seqs)
BY DEF R!FlattenSeq, T!FlattenSeq

\* The lines of the parts, one part after the other.
LEMMA FlatNever ==
  ASSUME NEW parts, AreSeqs(parts), NEW name, \A k \in 1 .. Len(parts) : Never(parts[k], name)
  PROVE  IsSeq(R!FlattenSeq(parts)) /\ Never(R!FlattenSeq(parts), name)
<1>1. PICK flat : IsFlattened(flat, parts)
  BY FlattenSteps
<1>2. PICK n \in Nat : n = Len(parts)
  BY DEF AreSeqs, IsSeq
<1> DEFINE Up == {i \in 0 .. n : Never(flat[i], name)}
<1>3. 0 \in Up
  BY <1>1, EmptyIsSeq DEF IsFlattened, Never
<1>4. ASSUME NEW i \in 1 .. n, i - 1 \in Up PROVE i \in Up
  <2>1. i - 1 \in 0 .. n /\ i \in 0 .. n
    OBVIOUS
  <2>2. flat[i] = flat[i - 1] \o parts[i] /\ IsSeq(flat[i - 1]) /\ IsSeq(parts[i])
    BY <1>1, <1>2, <2>1 DEF IsFlattened, AreSeqs
  <2>3. Never(flat[i - 1], name) /\ Never(parts[i], name)
    BY <1>2, <1>4
  <2>4. Never(flat[i - 1] \o parts[i], name)
    BY <2>2, <2>3, JoinedLines
  <2> QED
    BY <2>1, <2>2, <2>4
<1>5. n \in Up
  <2> HIDE DEF Up
  <2>1. 0 .. n \subseteq Up
    BY <1>3, <1>4, UpTo
  <2> QED
    BY <2>1
<1> QED
  BY <1>1, <1>2, <1>5, SameFlat DEF IsFlattened

LEMMA FlatOnce ==
  ASSUME NEW parts, AreSeqs(parts), NEW name, NEW k \in 1 .. Len(parts), Once(parts[k], name),
         \A l \in 1 .. Len(parts) : l # k => Never(parts[l], name)
  PROVE  IsSeq(R!FlattenSeq(parts)) /\ Once(R!FlattenSeq(parts), name)
<1>1. PICK flat : IsFlattened(flat, parts)
  BY FlattenSteps
<1>2. PICK n \in Nat : n = Len(parts)
  BY DEF AreSeqs, IsSeq
<1> DEFINE Up == {i \in 0 .. n : IF i < k THEN Never(flat[i], name) ELSE Once(flat[i], name)}
<1>3. 0 \in Up
  BY <1>1, <1>2, EmptyIsSeq DEF IsFlattened, Never
<1>4. ASSUME NEW i \in 1 .. n, i - 1 \in Up PROVE i \in Up
  <2>1. i - 1 \in 0 .. n /\ i \in 0 .. n
    OBVIOUS
  <2>2. flat[i] = flat[i - 1] \o parts[i] /\ IsSeq(flat[i - 1]) /\ IsSeq(parts[i])
    BY <1>1, <1>2, <2>1 DEF IsFlattened, AreSeqs
  <2>3. IF i - 1 < k THEN Never(flat[i - 1], name) ELSE Once(flat[i - 1], name)
    BY <1>4
  <2>4. IF i = k THEN Once(parts[i], name) ELSE Never(parts[i], name)
    BY <1>2
  <2>5. IF i < k THEN Never(flat[i], name) ELSE Once(flat[i], name)
    <3>1. CASE i < k
      <4>1. Never(flat[i - 1], name) /\ Never(parts[i], name)
        BY <1>2, <2>3, <2>4, <3>1
      <4>2. Never(flat[i - 1] \o parts[i], name)
        BY <2>2, <4>1, JoinedLines
      <4> QED
        BY <2>2, <3>1, <4>2
    <3>2. CASE i = k
      <4>1. Never(flat[i - 1], name) /\ Once(parts[i], name)
        BY <1>2, <2>3, <2>4, <3>2
      <4>2. Once(flat[i - 1] \o parts[i], name)
        BY <2>2, <4>1, JoinedLines
      <4> QED
        BY <1>2, <2>2, <3>2, <4>2
    <3>3. CASE i > k
      <4>1. Once(flat[i - 1], name) /\ Never(parts[i], name)
        BY <1>2, <2>3, <2>4, <3>3
      <4>2. Once(flat[i - 1] \o parts[i], name)
        BY <2>2, <4>1, JoinedLines
      <4> QED
        BY <1>2, <2>2, <3>3, <4>2
    <3> QED
      BY <1>2, <3>1, <3>2, <3>3
  <2> QED
    BY <2>1, <2>5
<1>5. n \in Up
  <2> HIDE DEF Up
  <2>1. 0 .. n \subseteq Up
    BY <1>3, <1>4, UpTo
  <2> QED
    BY <2>1
<1>6. Once(flat[n], name) /\ IsSeq(flat[n])
  BY <1>1, <1>2, <1>5 DEF IsFlattened
<1> QED
  BY <1>1, <1>2, <1>6, SameFlat DEF IsFlattened

LEMMA OneLine ==
  ASSUME NEW what, NEW name, NEW nested, NEW other
  PROVE  LET lines == <<R!Line(what, name, nested)>>
         IN  /\ IsSeq(lines)
             /\ IF what = "symbol" /\ name = other THEN Once(lines, other) ELSE Never(lines, other)
<1>1. PICK line : line = R!Line(what, name, nested)
  OBVIOUS
<1>2. line.what = what /\ line.name = name
  BY <1>1 DEF R!Line
<1>3. IsSeq(<<line>>) /\ Len(<<line>>) = 1 /\ <<line>>[1] = line
  BY DEF IsSeq
<1>4. HeadsAt(<<line>>, other, 1) <=> what = "symbol" /\ name = other
  BY <1>2, <1>3 DEF HeadsAt
<1>5. IF what = "symbol" /\ name = other THEN Once(<<line>>, other) ELSE Never(<<line>>, other)
  BY <1>3, <1>4 DEF Once, Never
<1> QED
  BY <1>1, <1>3, <1>5

LEMMA LabelHeadsNothing ==
  ASSUME NEW label, label # "symbol", NEW names, NEW name, NEW nested, NEW other
  PROVE  IsSeq(R!LabelLine(label, names, name, nested))
         /\ Never(R!LabelLine(label, names, name, nested), other)
<1>1. IsSeq(<<>>) /\ Never(<<>>, other)
  BY EmptyIsSeq DEF Never
<1> QED
  BY <1>1, OneLine DEF R!LabelLine

\* A symbol's lines have its heading and no other.
LEMMA SymbolHeads ==
  ASSUME NEW context, NEW symbol, NEW nested, NEW name
  PROVE  LET lines == R!SymbolLines(context, symbol, nested)
         IN  /\ IsSeq(lines)
             /\ IF symbol.name = name THEN Once(lines, name) ELSE Never(lines, name)
<1> DEFINE q == symbol.name
           Out(kind) == {e \in context.edges : e.kind = kind /\ e.source = q}
           In(kind)  == {e \in context.edges : e.kind = kind /\ e.target = q}
           Of(label, names) == R!LabelLine(label, names, q, nested)
<1>1. PICK a, b, c, d, e :
        /\ a = Of("calls", Out("calls")) /\ b = Of("called by", In("calls"))
        /\ c = Of("owner", In("defines")) /\ d = Of("bases", Out("inherits"))
        /\ e = Of("types", Out("references_type"))
  OBVIOUS
<1>2. R!SymbolLines(context, symbol, nested) =
        <<R!Line("symbol", q, nested)>> \o a \o b \o c \o d \o e
  BY <1>1 DEF R!SymbolLines
<1>3. /\ IsSeq(a) /\ Never(a, name) /\ IsSeq(b) /\ Never(b, name) /\ IsSeq(c) /\ Never(c, name)
      /\ IsSeq(d) /\ Never(d, name) /\ IsSeq(e) /\ Never(e, name)
  <2> HIDE DEF Out, In, q
  <2> QED
    BY <1>1, LabelHeadsNothing
<1> DEFINE Right(lines) ==
      IsSeq(lines) /\ IF q = name THEN Once(lines, name) ELSE Never(lines, name)
<1>4. PICK l0 : l0 = <<R!Line("symbol", q, nested)>>
  OBVIOUS
<1>5. Right(l0)
  BY <1>4, OneLine
<1>6. ASSUME NEW p, Right(p), NEW t, IsSeq(t), Never(t, name) PROVE Right(p \o t)
  BY <1>6, JoinedLines
<1> HIDE DEF Right
<1>7. Right(l0 \o a \o b \o c \o d \o e)
  BY <1>3, <1>5, <1>6
<1> QED
  BY <1>2, <1>4, <1>7 DEF Right

\* Symbols in the order of the block, one of each name; a name has its file.
AreShown(symbols) ==
  /\ IsSeq(symbols)
  /\ \A i, j \in 1 .. Len(symbols) : symbols[i].name = symbols[j].name => i = j
  /\ \A i \in 1 .. Len(symbols) :
       symbols[i].name = [file |-> symbols[i].name.file, inner |-> symbols[i].name.inner]

\* The symbol at m is headed in the block of the one at i.
HeadedIn(symbols, here, i, m) ==
  \/ i = m
  \/ /\ symbols[i].kind = "class" /\ m \in R!Nested(symbols, here)
     /\ R!Owner(symbols[m].name) = {symbols[i].name}

LEMMA PlacesAre ==
  ASSUME NEW n \in Nat, NEW I, I \subseteq 1 .. n
  PROVE  /\ Lists(R!Places(I), I) /\ DOMAIN R!Places(I) = 1 .. Len(R!Places(I))
         /\ Len(R!Places(I)) \in Nat
<1>1. IsFiniteSet(1 .. n)
  BY FS_Interval
<1>2. IsFiniteSet(I) /\ I \subseteq Nat
  <2>1. I \in SUBSET (1 .. n)
    OBVIOUS
  <2>2. IsFiniteSet(I)
    BY <1>1, <2>1, FS_Subset
  <2> QED
    BY <2>2
<1>3. Lists(R!Places(I), I)
  BY <1>2, PlacesListed
<1> QED
  BY <1>3 DEF Lists, IsSeq

LEMMA PartsAre ==
  ASSUME NEW n \in Nat, NEW parts, parts = [k \in 1 .. n |-> parts[k]],
         \A k \in 1 .. n : IsSeq(parts[k])
  PROVE  AreSeqs(parts) /\ Len(parts) = n
<1>1. Len(parts) = n
  OBVIOUS
<1> QED
  BY <1>1 DEF AreSeqs, IsSeq

LEMMA BlockHeads ==
  ASSUME NEW context, NEW symbols, symbols = context.symbols, AreShown(symbols),
         NEW here, here \subseteq 1 .. Len(symbols), NEW i \in here \ R!Nested(symbols, here),
         NEW m \in 1 .. Len(symbols)
  PROVE  /\ IsSeq(R!Block(context, here, i))
         /\ IF HeadedIn(symbols, here, i, m)
            THEN Once(R!Block(context, here, i), symbols[m].name)
            ELSE Never(R!Block(context, here, i), symbols[m].name)
<1> DEFINE n == Len(symbols)
           name == symbols[m].name
           I == {j \in R!Nested(symbols, here) : R!Owner(symbols[j].name) = {symbols[i].name}}
           places == R!Places(I)
           parts == [k \in DOMAIN places |-> R!SymbolLines(context, symbols[places[k]], TRUE)]
           head == R!SymbolLines(context, symbols[i], FALSE)
           tail == IF symbols[i].kind # "class" THEN <<>> ELSE R!FlattenSeq(parts)
<1>1. n \in Nat /\ i \in 1 .. n
  BY DEF AreShown, IsSeq
<1>2. \A j, k \in 1 .. n : symbols[j].name = symbols[k].name => j = k
  BY DEF AreShown
<1>3. I \subseteq R!Nested(symbols, here) /\ R!Nested(symbols, here) \subseteq here
  BY DEF R!Nested
<1>4. R!Block(context, here, i) = head \o tail
  BY DEF R!Block
<1>5. IsSeq(head) /\ IF i = m THEN Once(head, name) ELSE Never(head, name)
  <2>1. symbols[i].name = name <=> i = m
    BY <1>1, <1>2
  <2> HIDE DEF name
  <2> QED
    BY <2>1, SymbolHeads
<1>6. I \subseteq 1 .. n
  BY <1>3
<1>7. m \in I <=> m \in R!Nested(symbols, here) /\ R!Owner(name) = {symbols[i].name}
  OBVIOUS
<1>8. i \notin I
  BY <1>3
<1> HIDE DEF I, head
<1>9. /\ Lists(places, I) /\ DOMAIN places = 1 .. Len(places) /\ Len(places) \in Nat
  BY <1>1, <1>6, PlacesAre
<1>10. /\ parts = [k \in 1 .. Len(places) |-> parts[k]]
       /\ \A k \in 1 .. Len(places) : parts[k] = R!SymbolLines(context, symbols[places[k]], TRUE)
  BY <1>9
<1> HIDE DEF parts, places
<1>11. ASSUME NEW k \in 1 .. Len(places)
       PROVE  /\ IsSeq(parts[k])
              /\ IF places[k] = m THEN Once(parts[k], name) ELSE Never(parts[k], name)
  <2>1. places[k] \in 1 .. n
    BY <1>6, <1>9 DEF Lists
  <2>2. symbols[places[k]].name = name <=> places[k] = m
    BY <1>2, <2>1
  <2>3. parts[k] = R!SymbolLines(context, symbols[places[k]], TRUE)
    BY <1>10
  <2> HIDE DEF name
  <2> QED
    BY <2>2, <2>3, SymbolHeads
<1>12. AreSeqs(parts) /\ Len(parts) = Len(places)
  BY <1>9, <1>10, <1>11, PartsAre
<1>13. /\ IsSeq(R!FlattenSeq(parts))
       /\ IF m \in I THEN Once(R!FlattenSeq(parts), name) ELSE Never(R!FlattenSeq(parts), name)
  <2> HIDE DEF name
  <2>1. CASE m \in I
    <3>1. PICK k \in 1 .. Len(places) : places[k] = m
      BY <1>9, <2>1 DEF Lists
    <3>2. Once(parts[k], name) /\ \A l \in 1 .. Len(parts) : l # k => Never(parts[l], name)
      BY <1>9, <1>11, <1>12, <3>1 DEF Lists
    <3> QED
      BY <1>12, <2>1, <3>2, FlatOnce
  <2>2. CASE m \notin I
    <3>1. \A k \in 1 .. Len(parts) : Never(parts[k], name)
      BY <1>9, <1>11, <1>12, <2>2 DEF Lists
    <3> QED
      BY <1>12, <2>2, <3>1, FlatNever
  <2> QED
    BY <2>1, <2>2
<1>14. /\ IsSeq(tail)
       /\ IF symbols[i].kind = "class" /\ m \in I THEN Once(tail, name) ELSE Never(tail, name)
  BY <1>13, EmptyIsSeq DEF Never
<1>15. HeadedIn(symbols, here, i, m) <=> i = m \/ (symbols[i].kind = "class" /\ m \in I)
  BY <1>7 DEF HeadedIn
<1> HIDE DEF tail, name
<1>16. PICK p, q : p = head /\ q = tail
  OBVIOUS
<1>17. /\ IsSeq(p \o q)
       /\ IF i = m \/ (symbols[i].kind = "class" /\ m \in I)
          THEN Once(p \o q, name) ELSE Never(p \o q, name)
  BY <1>5, <1>8, <1>14, <1>16, JoinedLines
<1> QED
  BY <1>4, <1>15, <1>16, <1>17 DEF name

HereIn(symbols, file) == {i \in 1 .. Len(symbols) : symbols[i].name.file = file}

\* A file's lines head a symbol of it unless it is a method of what is no class.
Wrong(symbols, m) ==
  /\ symbols[m].kind = "method"
  /\ \E j \in 1 .. Len(symbols) :
       R!Owner(symbols[m].name) = {symbols[j].name} /\ symbols[j].kind # "class"

LEMMA WrongIsMisplaced ==
  ASSUME NEW symbols, IsSeq(symbols), NEW m \in 1 .. Len(symbols)
  PROVE  R!Misplaced(symbols, symbols[m]) <=> Wrong(symbols, m)
<1>1. R!ToSet(symbols) = {symbols[i] : i \in 1 .. Len(symbols)}
  <2>1. DOMAIN symbols = 1 .. Len(symbols)
    BY DEF IsSeq
  <2> QED
    BY <2>1 DEF R!ToSet
<1> QED
  BY <1>1 DEF R!Misplaced, Wrong

\* A member and what it hangs on are in one file.
LEMMA OwnersFile ==
  ASSUME NEW symbols, AreShown(symbols), NEW i \in 1 .. Len(symbols), NEW j \in 1 .. Len(symbols),
         R!Owner(symbols[i].name) = {symbols[j].name}
  PROVE  symbols[j].name.file = symbols[i].name.file
<1>1. PICK a : a = symbols[i].name
  OBVIOUS
<1>2. a = [file |-> a.file, inner |-> a.inner]
  BY <1>1 DEF AreShown
<1>3. PICK inner : [a EXCEPT !.inner = inner] = symbols[j].name
  BY <1>1 DEF R!Owner
<1>4. [a EXCEPT !.inner = inner].file = a.file
  BY <1>2
<1> QED
  BY <1>1, <1>3, <1>4

\* The one place of a file that heads the symbol at m, if any does.
LEMMA HeadedOnce ==
  ASSUME NEW symbols, AreShown(symbols), NEW file, NEW m \in 1 .. Len(symbols)
  PROVE  LET here == HereIn(symbols, file)
             top  == here \ R!Nested(symbols, here)
         IN  IF m \in here /\ ~Wrong(symbols, m)
             THEN \E i \in top : /\ HeadedIn(symbols, here, i, m)
                                 /\ \A j \in top : HeadedIn(symbols, here, j, m) => j = i
             ELSE \A j \in top : ~HeadedIn(symbols, here, j, m)
<1> DEFINE here == HereIn(symbols, file)
           nested == R!Nested(symbols, here)
           top == here \ nested
           n == Len(symbols)
<1>1. here \subseteq 1 .. n
  BY DEF HereIn
<1>2. DOMAIN symbols = 1 .. n
  BY DEF AreShown, IsSeq
<1>3. nested = {i \in here : /\ symbols[i].kind = "method"
                             /\ \E j \in 1 .. n : R!Owner(symbols[i].name) = {symbols[j].name}}
  BY <1>2 DEF R!Nested
<1>4. \A i, j \in 1 .. n : symbols[i].name = symbols[j].name => i = j
  BY DEF AreShown
<1>5. ASSUME NEW j \in 1 .. n
      PROVE  HeadedIn(symbols, here, j, m) <=>
               \/ j = m
               \/ symbols[j].kind = "class" /\ m \in nested /\ R!Owner(symbols[m].name) = {symbols[j].name}
  BY DEF HeadedIn
<1> HIDE DEF nested
<1>6. CASE m \in here /\ m \notin nested
  <2>1. ~Wrong(symbols, m)
    BY <1>3, <1>6 DEF Wrong
  <2>2. HeadedIn(symbols, here, m, m) /\ \A j \in top : HeadedIn(symbols, here, j, m) => j = m
    BY <1>1, <1>5, <1>6
  <2> HIDE DEF here
  <2> QED
    BY <1>6, <2>1, <2>2 DEF here, nested
<1>7. CASE m \in nested
  <2>1. m \in here /\ symbols[m].kind = "method"
    BY <1>3, <1>7
  <2>2. PICK o \in 1 .. n : R!Owner(symbols[m].name) = {symbols[o].name}
    BY <1>3, <1>7
  <2>3. \A j \in 1 .. n : R!Owner(symbols[m].name) = {symbols[j].name} => j = o
    BY <1>4, <2>2
  <2>4. symbols[o].name.file = symbols[m].name.file
    BY <2>2, OwnersFile
  <2>5. o \in here
    BY <2>1, <2>4 DEF HereIn
  <2>6. ASSUME NEW j \in top
        PROVE  HeadedIn(symbols, here, j, m) <=> j = o /\ symbols[j].kind = "class"
    <3>1. j # m /\ j \in 1 .. n
      BY <1>1, <1>7
    <3> QED
      BY <1>5, <1>7, <2>2, <2>3, <3>1
  <2>7. Wrong(symbols, m) <=> symbols[o].kind # "class"
    BY <2>1, <2>2, <2>3 DEF Wrong
  <2>8. symbols[o].kind = "class" => o \in top
    BY <1>3, <2>5
  <2> HIDE DEF here
  <2> QED
    BY <2>1, <2>6, <2>7, <2>8 DEF here, nested
<1>8. CASE m \notin here
  <2>1. m \notin nested
    BY <1>3, <1>8
  <2>2. \A j \in top : ~HeadedIn(symbols, here, j, m)
    BY <1>1, <1>5, <1>8, <2>1
  <2> HIDE DEF here
  <2> QED
    BY <1>8, <2>2 DEF here, nested
<1> QED
  BY <1>6, <1>7, <1>8

LEMMA FileHeads ==
  ASSUME NEW context, NEW symbols, symbols = context.symbols, AreShown(symbols), NEW file,
         NEW m \in 1 .. Len(symbols)
  PROVE  /\ IsSeq(R!FileLines(context, file))
         /\ IF m \in HereIn(symbols, file) /\ ~Wrong(symbols, m)
            THEN Once(R!FileLines(context, file), symbols[m].name)
            ELSE Never(R!FileLines(context, file), symbols[m].name)
<1> DEFINE n == Len(symbols)
           name == symbols[m].name
           here == HereIn(symbols, file)
           top == here \ R!Nested(symbols, here)
           places == R!Places(top)
           parts == [k \in DOMAIN places |-> R!Block(context, here, places[k])]
           imports == IF file \in context.imports THEN <<R!Line("imports", file, FALSE)>> ELSE <<>>
           head == <<R!Line("file", file, FALSE)>>
           shown == m \in here /\ ~Wrong(symbols, m)
<1>1. n \in Nat /\ DOMAIN symbols = 1 .. n
  BY DEF AreShown, IsSeq
<1>2. here = {i \in DOMAIN context.symbols : context.symbols[i].name.file = file}
  BY <1>1 DEF HereIn
<1>3. here \subseteq 1 .. n
  BY DEF HereIn
<1> HIDE DEF here
<1>4. R!FileLines(context, file) = head \o imports \o R!FlattenSeq(parts)
  BY <1>2 DEF R!FileLines
<1>5. IsSeq(head) /\ Never(head, name) /\ IsSeq(imports) /\ Never(imports, name)
  <2> HIDE DEF name
  <2>1. "file" # "symbol" /\ "imports" # "symbol"
    OBVIOUS
  <2>2. IsSeq(head) /\ Never(head, name)
    BY <2>1, OneLine
  <2>3. IsSeq(<<R!Line("imports", file, FALSE)>>) /\ Never(<<R!Line("imports", file, FALSE)>>, name)
    BY <2>1, OneLine
  <2>4. IsSeq(<<>>) /\ Never(<<>>, name)
    BY EmptyIsSeq DEF Never
  <2> QED
    BY <2>2, <2>3, <2>4
<1>6. top \subseteq 1 .. n
  BY <1>3
<1>7. IF shown THEN \E i \in top : /\ HeadedIn(symbols, here, i, m)
                                   /\ \A j \in top : HeadedIn(symbols, here, j, m) => j = i
      ELSE \A j \in top : ~HeadedIn(symbols, here, j, m)
  BY HeadedOnce DEF here
<1>8. ASSUME NEW i \in top
      PROVE  /\ IsSeq(R!Block(context, here, i))
             /\ IF HeadedIn(symbols, here, i, m)
                THEN Once(R!Block(context, here, i), name) ELSE Never(R!Block(context, here, i), name)
  <2>1. i \in here \ R!Nested(symbols, here)
    BY <1>8
  <2> QED
    BY <1>3, <2>1, BlockHeads
<1> HIDE DEF top, head, imports, name
<1>9. /\ Lists(places, top) /\ DOMAIN places = 1 .. Len(places) /\ Len(places) \in Nat
  BY <1>1, <1>6, PlacesAre
<1>10. /\ parts = [k \in 1 .. Len(places) |-> parts[k]]
       /\ \A k \in 1 .. Len(places) : parts[k] = R!Block(context, here, places[k])
  BY <1>9
<1> HIDE DEF parts, places
<1>11. ASSUME NEW k \in 1 .. Len(places)
       PROVE  /\ IsSeq(parts[k])
              /\ IF HeadedIn(symbols, here, places[k], m) THEN Once(parts[k], name) ELSE Never(parts[k], name)
  <2>1. places[k] \in top
    BY <1>9 DEF Lists
  <2>2. parts[k] = R!Block(context, here, places[k])
    BY <1>10
  <2> QED
    BY <1>8, <2>1, <2>2
<1>12. AreSeqs(parts) /\ Len(parts) = Len(places)
  BY <1>9, <1>10, <1>11, PartsAre
<1> HIDE DEF shown
<1>13. /\ IsSeq(R!FlattenSeq(parts))
       /\ IF shown THEN Once(R!FlattenSeq(parts), name) ELSE Never(R!FlattenSeq(parts), name)
  <2>1. CASE shown
    <3>1. PICK i \in top : /\ HeadedIn(symbols, here, i, m)
                           /\ \A j \in top : HeadedIn(symbols, here, j, m) => j = i
      BY <1>7, <2>1
    <3>2. PICK k \in 1 .. Len(places) : places[k] = i
      BY <1>9, <3>1 DEF Lists
    <3>3. Once(parts[k], name)
      BY <1>11, <3>1, <3>2
    <3>4. ASSUME NEW l \in 1 .. Len(parts), l # k PROVE Never(parts[l], name)
      <4>1. places[l] \in top /\ places[l] # i
        BY <1>9, <1>12, <3>2, <3>4 DEF Lists
      <4>2. ~HeadedIn(symbols, here, places[l], m)
        BY <3>1, <4>1
      <4> QED
        BY <1>11, <1>12, <4>2
    <3> QED
      BY <1>12, <2>1, <3>3, <3>4, FlatOnce
  <2>2. CASE ~shown
    <3>1. ASSUME NEW k \in 1 .. Len(parts) PROVE Never(parts[k], name)
      <4>1. places[k] \in top
        BY <1>9, <1>12 DEF Lists
      <4>2. ~HeadedIn(symbols, here, places[k], m)
        BY <1>7, <2>2, <4>1
      <4> QED
        BY <1>11, <1>12, <4>2
    <3> QED
      BY <1>12, <2>2, <3>1, FlatNever
  <2> QED
    BY <2>1, <2>2
<1>14. PICK p, q, r : p = head /\ q = imports /\ r = R!FlattenSeq(parts)
  OBVIOUS
<1>15. IsSeq(p \o q) /\ Never(p \o q, name)
  BY <1>5, <1>14, JoinedLines
<1>16. /\ IsSeq(p \o q \o r)
       /\ IF shown THEN Once(p \o q \o r, name) ELSE Never(p \o q \o r, name)
  BY <1>13, <1>14, <1>15, JoinedLines
<1> QED
  BY <1>4, <1>14, <1>16 DEF name, shown, here

\* The block heads every symbol once, but a misplaced method never.
LEMMA RenderHeads ==
  ASSUME NEW context, NEW symbols, symbols = context.symbols, AreShown(symbols),
         NEW m \in 1 .. Len(symbols)
  PROVE  /\ IsSeq(R!Render(context))
         /\ IF Wrong(symbols, m) THEN Never(R!Render(context), symbols[m].name)
            ELSE Once(R!Render(context), symbols[m].name)
<1> DEFINE n == Len(symbols)
           name == symbols[m].name
           File(i) == symbols[i].name.file
           F == {i \in 1 .. n : \A j \in 1 .. i - 1 : File(j) # File(i)}
           files == R!Places(F)
           parts == [k \in DOMAIN files |-> R!FileLines(context, symbols[files[k]].name.file)]
<1>1. n \in Nat /\ DOMAIN symbols = 1 .. n
  BY DEF AreShown, IsSeq
<1>2. F = {i \in DOMAIN symbols : \A j \in 1 .. i - 1 : symbols[j].name.file # symbols[i].name.file}
  BY <1>1
<1>3. F \subseteq 1 .. n
  OBVIOUS
<1>4. \A i, j \in F : File(i) = File(j) => i = j
  <2>1. SUFFICES ASSUME NEW i \in F, NEW j \in F, i < j, File(i) = File(j) PROVE FALSE
    BY <1>1, <1>3
  <2>2. i \in 1 .. j - 1
    BY <1>1, <1>3, <2>1
  <2> QED
    BY <2>1, <2>2
<1>5. \E i \in F : File(i) = File(m)
  <2> DEFINE S == {i \in 1 .. n : File(i) = File(m)}
  <2>1. S \subseteq Nat /\ m \in S
    OBVIOUS
  <2>2. PICK i \in S : \A j \in S : i <= j
    <3> HIDE DEF S
    <3> QED
      BY <2>1, Least
  <2>3. ASSUME NEW j \in 1 .. i - 1 PROVE File(j) # File(i)
    <3>1. j \in 1 .. n /\ ~(i <= j)
      BY <1>1, <2>2
    <3> HIDE DEF File
    <3> QED
      BY <2>2, <3>1
  <2> QED
    BY <2>2, <2>3
<1> HIDE DEF F
<1>6. R!Render(context) = R!FlattenSeq(parts)
  BY <1>2 DEF R!Render
<1>7. /\ Lists(files, F) /\ DOMAIN files = 1 .. Len(files) /\ Len(files) \in Nat
  BY <1>1, <1>3, PlacesAre
<1>8. /\ parts = [k \in 1 .. Len(files) |-> parts[k]]
      /\ \A k \in 1 .. Len(files) : parts[k] = R!FileLines(context, File(files[k]))
  BY <1>7
<1> HIDE DEF parts, files, File, name
<1>9. ASSUME NEW k \in 1 .. Len(files)
      PROVE  /\ IsSeq(parts[k])
             /\ IF File(m) = File(files[k]) /\ ~Wrong(symbols, m)
                THEN Once(parts[k], name) ELSE Never(parts[k], name)
  <2>1. PICK file : file = File(files[k])
    OBVIOUS
  <2>2. m \in HereIn(symbols, file) <=> File(m) = file
    BY DEF HereIn, File
  <2>3. /\ IsSeq(R!FileLines(context, file))
        /\ IF m \in HereIn(symbols, file) /\ ~Wrong(symbols, m)
           THEN Once(R!FileLines(context, file), name)
           ELSE Never(R!FileLines(context, file), name)
    BY FileHeads DEF name
  <2> QED
    BY <1>8, <2>1, <2>2, <2>3
<1>10. AreSeqs(parts) /\ Len(parts) = Len(files)
  BY <1>7, <1>8, <1>9, PartsAre
<1>11. CASE Wrong(symbols, m)
  <2>1. \A k \in 1 .. Len(parts) : Never(parts[k], name)
    BY <1>9, <1>10, <1>11
  <2> QED
    BY <1>6, <1>10, <1>11, <2>1, FlatNever DEF name
<1>12. CASE ~Wrong(symbols, m)
  <2>1. PICK i \in F : File(i) = File(m)
    BY <1>5
  <2>2. PICK k \in 1 .. Len(files) : files[k] = i
    BY <1>7 DEF Lists
  <2>3. Once(parts[k], name)
    BY <1>9, <1>12, <2>1, <2>2
  <2>4. ASSUME NEW l \in 1 .. Len(parts), l # k PROVE Never(parts[l], name)
    <3>1. files[l] \in F /\ files[l] # i
      BY <1>7, <1>10, <2>2, <2>4 DEF Lists
    <3>2. File(files[l]) # File(m)
      BY <1>4, <2>1, <3>1
    <3> QED
      BY <1>9, <1>10, <3>2
  <2> QED
    BY <1>6, <1>10, <1>12, <2>3, <2>4, FlatOnce DEF name
<1> QED
  BY <1>11, <1>12

\* The neighbourhood is a list of symbols with the seeds first.
LEMMA ExpandedShown ==
  ASSUME NEW index, IsIndex(index), NEW seeds, seeds \in [DOMAIN seeds -> Int]
  PROVE  /\ AreShown(R!Expand(index, seeds).symbols)
         /\ \E k : SeedsFirst(R!Expand(index, seeds).symbols, k)
<1> DEFINE S == DOMAIN seeds
           rank == RankIn(index, seeds)
           symbols == R!Expand(index, seeds).symbols
<1>1. PICK ordered : IsExpanded(ordered, index, seeds)
  BY Expanded
<1>2. PICK n \in Nat : n = Len(ordered)
  BY <1>1 DEF IsExpanded, Lists, IsSeq
<1>3. /\ symbols = [i \in 1 .. n |-> ContextOf(ordered[i], rank, seeds)]
      /\ \A i \in 1 .. n : ordered[i] \in index.symbols
      /\ \A i, j \in 1 .. n : ordered[i] = ordered[j] => i = j
      /\ \A i, j \in 1 .. n : i < j /\ ordered[j].name \in S => ordered[i].name \in S
  BY <1>1, <1>2 DEF IsExpanded, Lists
<1> HIDE DEF rank, symbols
<1>4. \A i \in 1 .. n : symbols[i].name = ordered[i].name /\ symbols[i].seed = (ordered[i].name \in S)
  BY <1>3 DEF ContextOf
<1>5. IsSeq(symbols) /\ Len(symbols) = n
  <2>1. Len(symbols) = n
    BY <1>2, <1>3
  <2> QED
    BY <1>2, <1>3, <2>1 DEF IsSeq
<1>6. /\ \A s, t \in index.symbols : s.name = t.name => s = t
      /\ \A s \in index.symbols : s.name = [file |-> s.name.file, inner |-> s.name.inner]
  BY DEF IsIndex, IsIndexed
<1>7. AreShown(symbols)
  <2>1. \A i, j \in 1 .. n : symbols[i].name = symbols[j].name => i = j
    BY <1>3, <1>4, <1>6
  <2>2. ASSUME NEW i \in 1 .. n
        PROVE  symbols[i].name = [file |-> symbols[i].name.file, inner |-> symbols[i].name.inner]
    <3>1. PICK a : a = ordered[i].name
      OBVIOUS
    <3>2. a = [file |-> a.file, inner |-> a.inner]
      BY <1>3, <1>6, <3>1
    <3>3. symbols[i].name = a
      BY <1>4, <3>1
    <3> QED
      BY <3>2, <3>3
  <2> QED
    BY <1>5, <2>1, <2>2 DEF AreShown
<1>8. \E k \in 0 .. n : \A i \in 1 .. n : ordered[i].name \in S <=> i <= k
  <2> DEFINE U == {0} \cup {i \in 1 .. n : ordered[i].name \in S}
  <2>1. U \subseteq 0 .. n /\ U # {}
    BY <1>2
  <2>2. PICK k \in U : \A i \in U : k >= i
    <3> HIDE DEF U
    <3> QED
      BY <1>2, <2>1, Greatest
  <2>3. k \in 0 .. n
    BY <2>1
  <2>4. ASSUME NEW i \in 1 .. n, ordered[i].name \in S PROVE i <= k
    BY <2>2, <2>3, <2>4
  <2>5. ASSUME NEW i \in 1 .. n, i <= k PROVE ordered[i].name \in S
    <3>1. k \in 1 .. n /\ ordered[k].name \in S
      BY <2>2, <2>3, <2>5
    <3> QED
      BY <1>3, <2>5, <3>1
  <2> HIDE DEF U
  <2> QED
    BY <2>3, <2>4, <2>5
<1>9. PICK k \in 0 .. n : \A i \in 1 .. n : ordered[i].name \in S <=> i <= k
  BY <1>8
<1>10. SeedsFirst(symbols, k)
  BY <1>4, <1>5, <1>9 DEF SeedsFirst
<1> QED
  BY <1>7, <1>10 DEF symbols

LEMMA SeedsCounted ==
  ASSUME NEW symbols, NEW k, SeedsFirst(symbols, k)
  PROVE  R!Cardinality({i \in DOMAIN symbols : symbols[i].seed}) = k
<1>1. k \in Nat /\ k <= Len(symbols) /\ Len(symbols) \in Nat /\ DOMAIN symbols = 1 .. Len(symbols)
  BY DEF SeedsFirst, IsSeq
<1>2. {i \in DOMAIN symbols : symbols[i].seed} = 1 .. k
  BY <1>1 DEF SeedsFirst
<1>3. Cardinality(1 .. k) = k
  <2>1. Cardinality(1 .. k) = IF 1 > k THEN 0 ELSE k - 1 + 1
    BY <1>1, FS_Interval
  <2> QED
    BY <1>1, <2>1
<1> QED
  BY <1>2, <1>3, SameListing

LEMMA HeadingsCounted ==
  ASSUME NEW block, IsSeq(block), NEW symbol
  PROVE  /\ Once(block, symbol.name) => R!Headings(block, symbol) = 1
         /\ Never(block, symbol.name) => R!Headings(block, symbol) = 0
<1> DEFINE I == {i \in 1 .. Len(block) : HeadsAt(block, symbol.name, i)}
<1>1. R!Headings(block, symbol) = Cardinality(I)
  <2>1. DOMAIN block = 1 .. Len(block)
    BY DEF IsSeq
  <2> QED
    BY <2>1, SameListing DEF R!Headings, HeadsAt
<1>2. ASSUME Once(block, symbol.name) PROVE Cardinality(I) = 1
  <2>1. PICK i : I = {i}
    BY <1>2 DEF Once
  <2> QED
    BY <2>1, FS_Singleton
<1>3. ASSUME Never(block, symbol.name) PROVE Cardinality(I) = 0
  <2>1. I = {}
    BY <1>3 DEF Never
  <2> QED
    BY <2>1, FS_EmptySet
<1> QED
  BY <1>1, <1>2, <1>3

LEMMA BeginningShown ==
  ASSUME NEW symbols, AreShown(symbols), NEW k \in 0 .. Len(symbols)
  PROVE  AreShown(SubSeq(symbols, 1, k)) /\ Len(SubSeq(symbols, 1, k)) = k
<1>1. PICK p : p = SubSeq(symbols, 1, k)
  OBVIOUS
<1>2. IsSeq(p) /\ Len(p) = k /\ \A i \in 1 .. k : p[i] = symbols[i]
  BY <1>1, Beginning DEF AreShown
<1>3. \A i \in 1 .. k : i \in 1 .. Len(symbols)
  BY DEF AreShown, IsSeq
<1>4. AreShown(p)
  BY <1>2, <1>3 DEF AreShown
<1> QED
  BY <1>1, <1>2, <1>4

\* The block a context is fitted to.
LEMMA FittedBlock ==
  ASSUME NEW context, NEW seeds, SeedsFirst(context.symbols, seeds), AreShown(context.symbols),
         "symbols" \in DOMAIN context, context = [f \in DOMAIN context |-> context[f]]
  PROVE  /\ R!LeastDropped(context, R!Fit(context))
         /\ \A s \in R!ToSet(R!Fit(context).symbols) :
              R!Headings(R!Render(R!Fit(context)), s) =
                IF R!Misplaced(R!Fit(context).symbols, s) THEN 0 ELSE 1
<1> DEFINE n == Len(context.symbols)
<1>1. PICK k : /\ FitSo(context, context.symbols, seeds, n, k)
               /\ R!Fit(context) = Fitted(context, SubSeq(context.symbols, 1, k))
  BY FitLeaves
<1>2. n \in Nat /\ seeds \in 0 .. n /\ k \in seeds .. n /\ k \in 0 .. n
  BY <1>1 DEF SeedsFirst, IsSeq, FitSo
<1>3. PICK symbols : symbols = SubSeq(context.symbols, 1, k)
  OBVIOUS
<1>4. AreShown(symbols) /\ Len(symbols) = k
  BY <1>2, <1>3, BeginningShown
<1>5. PICK fitted : fitted = Fitted(context, symbols)
  OBVIOUS
<1>6. fitted = R!Fit(context) /\ fitted.symbols = symbols
  BY <1>1, <1>3, <1>5 DEF Fitted
<1>7. ASSUME NEW m \in 1 .. k
      PROVE  /\ IsSeq(R!Render(fitted))
             /\ IF Wrong(symbols, m) THEN Never(R!Render(fitted), symbols[m].name)
                ELSE Once(R!Render(fitted), symbols[m].name)
  BY <1>4, <1>6, RenderHeads
<1>8. Len(R!Render(fitted)) <= Budget \/ k = seeds
  <2>1. CASE k = seeds
    BY <2>1
  <2>2. CASE k # seeds
    <3>1. 1 \in 1 .. k /\ k # 0
      BY <1>2, <2>2
    <3>2. Len(R!Render(fitted)) \in Nat
      BY <1>7, <3>1 DEF IsSeq
    <3>3. ~ (Len(R!Render(fitted)) > Budget)
      <4>1. ~TooLong(context, symbols)
        BY <1>1, <1>2, <1>3, <2>2, <3>1 DEF FitSo
      <4> QED
        BY <1>5, <4>1 DEF TooLong
    <3> QED
      BY <3>2, <3>3, FunctionsAssumption
  <2> QED
    BY <2>1, <2>2
<1>9. k < n => Len(R!Render([context EXCEPT !.symbols = SubSeq(@, 1, k + 1)])) > Budget
  <2>1. k < n => TooLong(context, SubSeq(context.symbols, 1, k + 1))
    BY <1>1 DEF FitSo
  <2>2. [context EXCEPT !.symbols = SubSeq(@, 1, k + 1)]
        = Fitted(context, SubSeq(context.symbols, 1, k + 1))
    BY DEF Fitted
  <2> QED
    BY <2>1, <2>2 DEF TooLong
<1>10. R!Cardinality({i \in DOMAIN context.symbols : context.symbols[i].seed}) = seeds
  BY SeedsCounted
<1>11. k >= seeds
  BY <1>2
<1>12. R!LeastDropped(context, fitted)
  BY <1>3, <1>4, <1>6, <1>8, <1>9, <1>10, <1>11 DEF R!LeastDropped
<1>13. ASSUME NEW s \in R!ToSet(symbols)
       PROVE  R!Headings(R!Render(fitted), s) = IF R!Misplaced(symbols, s) THEN 0 ELSE 1
  <2>1. PICK m \in 1 .. k : s = symbols[m]
    <3>1. DOMAIN symbols = 1 .. k
      BY <1>4 DEF AreShown, IsSeq
    <3> QED
      BY <3>1 DEF R!ToSet
  <2>2. R!Misplaced(symbols, s) <=> Wrong(symbols, m)
    BY <1>4, <2>1, WrongIsMisplaced DEF AreShown
  <2>3. /\ IsSeq(R!Render(fitted))
        /\ IF Wrong(symbols, m) THEN Never(R!Render(fitted), s.name) ELSE Once(R!Render(fitted), s.name)
    BY <1>7, <2>1
  <2> QED
    BY <2>2, <2>3, HeadingsCounted
<1> QED
  BY <1>6, <1>12, <1>13

LEMMA BlocksAreFit ==
  ASSUME NEW index, IsIndex(index), NEW reply
  PROVE  R!BlockFits(index, reply)
<1> DEFINE seeds == R!Seeds(index.vectors)
           context == R!Expand(index, seeds)
<1>1. seeds \in [DOMAIN seeds -> Int]
  BY SeedsTaken DEF IsSeeding, IsIndex
<1> HIDE DEF seeds
<1>2. AreShown(context.symbols) /\ \E k : SeedsFirst(context.symbols, k)
  BY <1>1, ExpandedShown
<1>3. "symbols" \in DOMAIN context /\ context = [f \in DOMAIN context |-> context[f]]
  BY DEF R!Expand
<1>4. R!Retrieve(index, "vector") = [error |-> FALSE, context |-> context]
  BY Retrieved DEF seeds
<1> HIDE DEF context
<1>5. /\ R!LeastDropped(context, R!Fit(context))
      /\ \A s \in R!ToSet(R!Fit(context).symbols) :
           R!Headings(R!Render(R!Fit(context)), s) =
             IF R!Misplaced(R!Fit(context).symbols, s) THEN 0 ELSE 1
  BY <1>2, <1>3, FittedBlock
<1>6. PICK g : g = R!GroundIntent(index, "vector", reply)
  OBVIOUS
<1>7. g = IF R!Propose(reply) = "error" THEN [error |-> TRUE]
          ELSE [error |-> FALSE, fitted |-> R!Fit(context), block |-> R!Render(R!Fit(context))]
  <2>1. PICK found : found = R!Retrieve(index, "vector")
    OBVIOUS
  <2>2. found.error = FALSE /\ found.context = context
    BY <1>4, <2>1
  <2>3. g = IF found.error \/ R!Propose(reply) = "error" THEN [error |-> TRUE]
            ELSE [error |-> FALSE, fitted |-> R!Fit(found.context),
                  block |-> R!Render(R!Fit(found.context))]
    BY <1>6, <2>1 DEF R!GroundIntent
  <2> QED
    BY <2>2, <2>3
<1>8. ~g.error => g.fitted = R!Fit(context) /\ g.block = R!Render(R!Fit(context))
  BY <1>7
<1> QED
  BY <1>4, <1>5, <1>6, <1>8 DEF R!BlockFits

-----------------------------------------------------------------------------
(* EdgeResolution: what self is asked for is looked for breadth first, one *)
(* step along the inherits edges after the other.                          *)

-----------------------------------------------------------------------------
(* index/edge_resolution.py                                                *)

Distinct(q) == \A i, j \in 1 .. Len(q) : q[i] = q[j] => i = j
In(x, q) == \E i \in 1 .. Len(q) : q[i] = x

\* What the first k of the classes make of those seen.
AddedSo(seen, classes, k, s) ==
  /\ Distinct(s) /\ Len(seen) <= Len(s)
  /\ \A i \in 1 .. Len(seen) : s[i] = seen[i]
  /\ \A l \in 1 .. k : In(classes[l], s)
  /\ \A i \in Len(seen) + 1 .. Len(s) : \E l \in 1 .. k : s[i] = classes[l]

LEMMA AddedOne ==
  ASSUME NEW Q, NEW seen \in Seq(Q), NEW classes \in Seq(Q), NEW k \in 1 .. Len(classes),
         NEW j, j = k - 1, NEW s \in Seq(Q), AddedSo(seen, classes, j, s)
  PROVE  /\ E!AddNew(s, classes[k]) \in Seq(Q)
         /\ AddedSo(seen, classes, k, E!AddNew(s, classes[k]))
<1>1. PICK c \in Q : c = classes[k]
  OBVIOUS
<1>2. E!ToSet(s) = {s[i] : i \in 1 .. Len(s)}
  BY DEF E!ToSet
<1>3. \A l \in 1 .. k : l = k \/ l \in 1 .. j
  OBVIOUS
<1>4. \A l \in 1 .. j : l \in 1 .. k
  OBVIOUS
<1>5. CASE In(c, s)
  <2>1. E!AddNew(s, c) = s
    BY <1>2, <1>5 DEF E!AddNew, In
  <2>2. AddedSo(seen, classes, k, s)
    BY <1>1, <1>3, <1>4, <1>5 DEF AddedSo
  <2> QED
    BY <1>1, <2>1, <2>2
<1>6. CASE ~In(c, s)
  <2>1. E!AddNew(s, c) = Append(s, c)
    BY <1>2, <1>6 DEF E!AddNew, In
  <2>2. PICK t : t = Append(s, c) /\ t \in Seq(Q)
    <3>1. Append(s, c) \in Seq(Q)
      OBVIOUS
    <3> QED
      BY <3>1
  <2>3. PICK n \in Nat, m \in Nat : n = Len(s) /\ m = Len(seen)
    OBVIOUS
  <2>4. Len(t) = n + 1 /\ t[n + 1] = c /\ \A i \in 1 .. n : t[i] = s[i]
    BY <2>2, <2>3
  <2>5. m <= n
    BY <2>3 DEF AddedSo
  <2>6. Distinct(t)
    <3>1. \A i, l \in 1 .. n : s[i] = s[l] => i = l
      BY <2>3 DEF AddedSo, Distinct
    <3>2. \A i \in 1 .. n : t[i] # c
      BY <1>6, <2>3, <2>4 DEF In
    <3>3. \A i \in 1 .. Len(t) : i = n + 1 \/ i \in 1 .. n
      BY <2>4
    <3> QED
      BY <2>4, <3>1, <3>2, <3>3 DEF Distinct
  <2>7. \A i \in 1 .. m : t[i] = seen[i]
    BY <2>3, <2>4, <2>5 DEF AddedSo
  <2>8. ASSUME NEW l \in 1 .. k PROVE In(classes[l], t)
    <3>1. CASE l = k
      BY <1>1, <2>4, <3>1 DEF In
    <3>2. CASE l \in 1 .. j
      <4>1. PICK i \in 1 .. n : s[i] = classes[l]
        BY <2>3, <3>2 DEF AddedSo, In
      <4>2. t[i] = classes[l] /\ i \in 1 .. Len(t)
        BY <2>4, <4>1
      <4> QED
        BY <4>2 DEF In
    <3> QED
      BY <1>3, <3>1, <3>2
  <2>9. ASSUME NEW i \in m + 1 .. n + 1 PROVE \E l \in 1 .. k : t[i] = classes[l]
    <3>1. CASE i = n + 1
      BY <1>1, <2>4, <3>1
    <3>2. CASE i \in m + 1 .. n
      <4>1. PICK l \in 1 .. j : s[i] = classes[l]
        BY <2>3, <3>2 DEF AddedSo
      <4> QED
        BY <1>4, <2>3, <2>4, <3>2, <4>1
    <3> QED
      BY <2>3, <3>1, <3>2
  <2>10. AddedSo(seen, classes, k, t)
    BY <2>3, <2>4, <2>5, <2>6, <2>7, <2>8, <2>9 DEF AddedSo
  <2> QED
    BY <1>1, <2>1, <2>2, <2>10
<1> QED
  BY <1>5, <1>6

LEMMA AddedAll ==
  ASSUME NEW Q, NEW seen \in Seq(Q), Distinct(seen), NEW classes \in Seq(Q)
  PROVE  /\ E!AddAll(seen, classes) \in Seq(Q)
         /\ AddedSo(seen, classes, Len(classes), E!AddAll(seen, classes))
<1> DEFINE D == Seq(Q)
           step == [p \in D \X (1 .. Len(classes)) |-> E!AddNew(p[1], classes[p[2]])]
           IsAdded(f) ==
             f = [i \in 0 .. Len(classes) |-> IF i = 0 THEN seen ELSE E!AddNew(f[i - 1], classes[i])]
           added == CHOOSE f : IsAdded(f)
<1>1. PICK n \in Nat : n = Len(classes)
  OBVIOUS
<1>2. ASSUME NEW s \in D, NEW k \in 1 .. n PROVE E!AddNew(s, classes[k]) \in D
  <2>1. classes[k] \in Q
    BY <1>1
  <2> QED
    BY <2>1 DEF E!AddNew
<1>3. \A s \in D, k \in 1 .. n : step[<<s, k>>] = E!AddNew(s, classes[k])
  BY <1>1
<1>4. step \in [D \X (1 .. n) -> D]
  BY <1>1, <1>2
<1> HIDE DEF step, D
<1>5. PICK f : IsIterate(f, D, seen, n, step)
  BY <1>1, <1>4, Iterated DEF IsStep, D
<1>6. IsAdded(f)
  <2>1. \A i \in 0 .. n : f[i] = IF i = 0 THEN seen ELSE E!AddNew(f[i - 1], classes[i])
    <3>1. SUFFICES ASSUME NEW i \in 1 .. n PROVE f[i] = E!AddNew(f[i - 1], classes[i])
      BY <1>5 DEF IsIterate
    <3>2. i - 1 \in 0 .. n /\ f[i - 1] \in D
      BY <1>5 DEF IsIterate
    <3> QED
      BY <1>3, <1>5, <3>2 DEF IsIterate
  <2> QED
    BY <1>1, <1>5, <2>1 DEF IsIterate
<1>7. IsAdded(added)
  BY <1>6
<1>8. E!AddAll(seen, classes) = added[n]
  BY <1>1 DEF E!AddAll
<1> HIDE DEF added
<1> DEFINE Up == {i \in 0 .. n : added[i] \in Seq(Q) /\ AddedSo(seen, classes, i, added[i])}
<1>9. 0 \in Up
  <2>1. added[0] = seen
    BY <1>1, <1>7
  <2> QED
    BY <2>1 DEF AddedSo
<1>10. ASSUME NEW i \in 1 .. n, i - 1 \in Up PROVE i \in Up
  <2>1. added[i] = E!AddNew(added[i - 1], classes[i]) /\ i \in 0 .. n
    BY <1>1, <1>7
  <2>2. PICK j, s : j = i - 1 /\ s = added[i - 1]
    OBVIOUS
  <2>3. s \in Seq(Q) /\ AddedSo(seen, classes, j, s)
    BY <1>10, <2>2
  <2>4. E!AddNew(s, classes[i]) \in Seq(Q) /\ AddedSo(seen, classes, i, E!AddNew(s, classes[i]))
    BY <1>1, <2>2, <2>3, AddedOne
  <2> QED
    BY <2>1, <2>2, <2>4
<1>11. n \in Up
  <2> HIDE DEF Up
  <2>1. 0 .. n \subseteq Up
    BY <1>9, <1>10, UpTo
  <2> QED
    BY <2>1
<1> QED
  BY <1>1, <1>8, <1>11

\* Classes with their bases, each a class too.
AreBases(bases) ==
  IsFiniteSet(DOMAIN bases) /\ \A q \in DOMAIN bases : bases[q] \in Seq(DOMAIN bases)

\* The queue after its first i classes: each class comes after one it is a base of, and
\* what has an earlier parent comes earlier.
Base(bases, b, q) == In(b, E!BasesOf(bases, q))
Closed(bases, i, s) ==
  \A j \in 1 .. Len(s) : j <= i => \A b \in DOMAIN bases : Base(bases, b, s[j]) => In(b, s)
Parented(bases, i, s) ==
  \A m \in 1 .. Len(s) :
    m = 1 \/ \E j \in 1 .. Len(s) : j < m /\ j <= i /\ Base(bases, s[m], s[j])
Ordered(bases, i, s) ==
  \A m, l, j \in 1 .. Len(s) :
    m < l /\ j <= i /\ Base(bases, s[l], s[j])
      => m = 1 \/ \E k \in 1 .. Len(s) : k <= j /\ Base(bases, s[m], s[k])
QueuedSo(bases, class, i, s) ==
  /\ s \in Seq(DOMAIN bases \cup {class}) /\ Distinct(s) /\ 1 <= Len(s) /\ s[1] = class
  /\ Closed(bases, i, s) /\ Parented(bases, i, s) /\ Ordered(bases, i, s)

LEMMA BasesAre ==
  ASSUME NEW bases, AreBases(bases), NEW q
  PROVE  /\ E!BasesOf(bases, q) \in Seq(DOMAIN bases)
         /\ \A b : Base(bases, b, q) => b \in DOMAIN bases /\ q \in DOMAIN bases
<1>1. PICK s : s = E!BasesOf(bases, q)
  OBVIOUS
<1>2. s \in Seq(DOMAIN bases)
  <2>1. CASE q \in DOMAIN bases
    BY <1>1, <2>1 DEF E!BasesOf, AreBases
  <2>2. CASE q \notin DOMAIN bases
    <3>1. s = <<>>
      BY <1>1, <2>2 DEF E!BasesOf
    <3>2. <<>> \in Seq(DOMAIN bases)
      OBVIOUS
    <3> QED
      BY <3>1, <3>2
  <2> QED
    BY <2>1, <2>2
<1>3. q \notin DOMAIN bases => Len(s) = 0
  BY <1>1 DEF E!BasesOf
<1> QED
  BY <1>1, <1>2, <1>3 DEF Base, In

LEMMA QueueGrows ==
  ASSUME NEW bases, AreBases(bases), NEW class, NEW i \in Nat \ {0}, NEW j, j = i - 1,
         NEW s, QueuedSo(bases, class, j, s)
  PROVE  QueuedSo(bases, class, i, IF i > Len(s) THEN s ELSE E!AddAll(s, E!BasesOf(bases, s[i])))
<1> DEFINE Q == DOMAIN bases
           U == Q \cup {class}
<1>1. PICK n \in Nat : n = Len(s) /\ 1 <= n /\ s \in Seq(U)
  BY DEF QueuedSo
<1>2. CASE i > n
  <2>1. \A k \in 1 .. n : k <= i /\ k <= j
    BY <1>2
  <2>2. Closed(bases, i, s) /\ Parented(bases, i, s) /\ Ordered(bases, i, s)
    BY <1>1, <2>1 DEF QueuedSo, Closed, Parented, Ordered
  <2> QED
    BY <1>1, <1>2, <2>2 DEF QueuedSo
<1>3. CASE i <= n
  <2> DEFINE classes == E!BasesOf(bases, s[i])
             t == E!AddAll(s, classes)
  <2>1. classes \in Seq(Q) /\ classes \in Seq(U)
    <3>1. classes \in Seq(Q)
      BY BasesAre
    <3> HIDE DEF classes
    <3> QED
      BY <3>1
  <2>2. t \in Seq(U) /\ AddedSo(s, classes, Len(classes), t)
    <3> HIDE DEF classes, U
    <3> QED
      BY <1>1, <2>1, AddedAll DEF QueuedSo
  <2>3. \A b : In(b, classes) <=> Base(bases, b, s[i])
    BY DEF Base
  <2> HIDE DEF t, classes, U
  <2>4. PICK m \in Nat : m = Len(t) /\ n <= m
    BY <1>1, <2>2 DEF AddedSo
  <2>5. /\ Distinct(t) /\ \A k \in 1 .. n : t[k] = s[k]
        /\ \A b : Base(bases, b, s[i]) => In(b, t)
        /\ \A k \in 1 .. m : k \in 1 .. n \/ (k > n /\ Base(bases, t[k], s[i]))
    <3>1. \A b : Base(bases, b, s[i]) => In(b, t)
      BY <2>2, <2>3 DEF AddedSo, In
    <3>2. ASSUME NEW k \in 1 .. m, k \notin 1 .. n PROVE k > n /\ Base(bases, t[k], s[i])
      <4>1. k \in n + 1 .. m
        BY <1>1, <3>2
      <4>2. PICK l \in 1 .. Len(classes) : t[k] = classes[l]
        BY <1>1, <2>2, <2>4, <4>1 DEF AddedSo
      <4> QED
        BY <1>1, <2>3, <4>1, <4>2 DEF In
    <3> QED
      BY <1>1, <2>2, <3>1, <3>2 DEF AddedSo
  <2>6. i \in 1 .. n /\ i \in 1 .. m /\ \A k \in 1 .. n : k \in 1 .. m
    BY <1>3, <2>4
  <2>7. \A b : In(b, s) => In(b, t)
    BY <1>1, <2>4, <2>5, <2>6 DEF In
  <2>8. \A k \in 1 .. m : k <= i => k \in 1 .. n /\ t[k] = s[k] /\ (k = i \/ k <= j)
    BY <1>3, <2>4, <2>5
  <2>9. Closed(bases, i, t)
    <3> SUFFICES ASSUME NEW k \in 1 .. m, k <= i, NEW b \in Q, Base(bases, b, t[k]) PROVE In(b, t)
      BY <2>4 DEF Closed
    <3>1. CASE k = i
      BY <2>5, <2>8, <3>1
    <3>2. CASE k <= j
      BY <1>1, <2>7, <2>8, <3>2 DEF QueuedSo, Closed
    <3> QED
      BY <2>8, <3>1, <3>2
  <2>10. ASSUME NEW k \in 1 .. m, k # 1
         PROVE  \E l \in 1 .. m : l < k /\ l <= i /\ Base(bases, t[k], t[l])
    <3>1. CASE k \in 1 .. n
      <4>1. PICK l \in 1 .. n : l < k /\ l <= j /\ Base(bases, s[k], s[l])
        BY <1>1, <2>10, <3>1 DEF QueuedSo, Parented
      <4>2. l \in 1 .. m /\ t[l] = s[l] /\ t[k] = s[k] /\ l <= i
        BY <2>5, <2>6, <3>1, <4>1
      <4> QED
        BY <4>1, <4>2
    <3>2. CASE k > n /\ Base(bases, t[k], s[i])
      BY <1>3, <2>5, <2>6, <3>2
    <3> QED
      BY <2>5, <3>1, <3>2
  <2>11. Parented(bases, i, t)
    BY <2>4, <2>10 DEF Parented
  <2>12. ASSUME NEW k \in 1 .. m, NEW l \in 1 .. m, NEW p \in 1 .. m, k < l, p <= i,
                Base(bases, t[l], t[p]), k # 1
         PROVE  \E r \in 1 .. m : r <= p /\ Base(bases, t[k], t[r])
    <3>1. p \in 1 .. n /\ t[p] = s[p] /\ (p = i \/ p <= j)
      BY <2>8, <2>12
    <3>2. CASE p = i
      <4>1. PICK r \in 1 .. m : r <= i /\ Base(bases, t[k], t[r])
        BY <2>10, <2>12
      <4> QED
        BY <3>2, <4>1
    <3>3. CASE p <= j
      <4>1. In(t[l], s)
        <5>1. t[l] \in Q
          BY <2>12, BasesAre
        <5> QED
          BY <1>1, <2>12, <3>1, <3>3, <5>1 DEF QueuedSo, Closed
      <4>2. l \in 1 .. n
        <5>1. PICK r \in 1 .. n : s[r] = t[l]
          BY <1>1, <4>1 DEF In
        <5>2. t[r] = t[l] /\ r \in 1 .. m
          BY <2>5, <2>6, <5>1
        <5>3. r = l
          BY <2>4, <2>5, <5>2 DEF Distinct
        <5> QED
          BY <5>1, <5>3
      <4>3. k \in 1 .. n
        BY <2>12, <4>2
      <4>4. t[l] = s[l] /\ t[k] = s[k]
        BY <2>5, <4>2, <4>3
      <4>5. Base(bases, s[l], s[p])
        BY <2>12, <3>1, <4>4
      <4>6. PICK r \in 1 .. n : r <= p /\ Base(bases, s[k], s[r])
        BY <1>1, <2>12, <3>1, <3>3, <4>2, <4>3, <4>5 DEF QueuedSo, Ordered
      <4> QED
        BY <2>5, <2>6, <4>4, <4>6
    <3> QED
      BY <3>1, <3>2, <3>3
  <2>13. Ordered(bases, i, t)
    BY <2>4, <2>12 DEF Ordered
  <2>14. QueuedSo(bases, class, i, t)
    <3>1. 1 <= Len(t) /\ t[1] = class
      BY <1>1, <2>4, <2>5 DEF QueuedSo
    <3> QED
      BY <2>2, <2>5, <2>9, <2>11, <2>13, <3>1 DEF QueuedSo, U
  <2> QED
    BY <1>1, <1>3, <2>14 DEF t, classes
<1> QED
  BY <1>1, <1>2, <1>3

\* The hierarchy is the queue when all of it was visited.
LEMMA HierarchyQueued ==
  ASSUME NEW bases, AreBases(bases), NEW class
  PROVE  \E i \in Nat : /\ QueuedSo(bases, class, i, E!Hierarchy(bases, class))
                        /\ Len(E!Hierarchy(bases, class)) <= i \/ class \notin DOMAIN bases
<1> DEFINE Q == DOMAIN bases
           U == Q \cup {class}
           D == Seq(U)
           n == Cardinality(Q)
           Visit(s, i) == IF i > Len(s) THEN s ELSE E!AddAll(s, E!BasesOf(bases, s[i]))
           Up(f, k) == \A i \in 0 .. k : QueuedSo(bases, class, i, f[i])
           IsVisited(f) == f = [i \in 0 .. n |-> IF i = 0 THEN <<class>> ELSE Visit(f[i - 1], i)]
           visited == CHOOSE f : IsVisited(f)
           K == {s \in D : Distinct(s) /\ 1 <= Len(s) /\ s[1] = class}
           step == [p \in K \X (1 .. n) |-> Visit(p[1], p[2])]
<1>1. n \in Nat
  BY FS_CardinalityType DEF AreBases
<1>2. <<class>> \in K
  BY DEF Distinct
<1>3. ASSUME NEW s \in K, NEW i \in 1 .. n PROVE Visit(s, i) \in K
  <2>1. CASE i > Len(s)
    BY <2>1
  <2>2. CASE ~(i > Len(s))
    <3> DEFINE classes == E!BasesOf(bases, s[i])
    <3>1. classes \in Seq(U)
      <4>1. classes \in Seq(Q)
        BY BasesAre
      <4> HIDE DEF classes
      <4> QED
        BY <4>1
    <3> HIDE DEF classes, U
    <3>2. PICK t : t = E!AddAll(s, classes)
      OBVIOUS
    <3>3. t \in Seq(U) /\ AddedSo(s, classes, Len(classes), t)
      BY <3>1, <3>2, AddedAll
    <3>4. PICK l \in Nat, m \in Nat : l = Len(s) /\ m = Len(t) /\ 1 <= l
      BY <3>3
    <3>5. t \in K
      BY <3>3, <3>4 DEF AddedSo
    <3>6. Visit(s, i) = t
      BY <2>2, <3>2 DEF classes
    <3> QED
      BY <3>5, <3>6
  <2> QED
    BY <2>1, <2>2
<1>4. \A s \in K, i \in 1 .. n : step[<<s, i>>] = Visit(s, i)
  OBVIOUS
<1>5. step \in [K \X (1 .. n) -> K]
  <2> HIDE DEF Visit, K
  <2> QED
    BY <1>3
<1> HIDE DEF step, K
<1>6. PICK f : IsIterate(f, K, <<class>>, n, step)
  <2> HIDE DEF n
  <2> QED
    BY <1>1, <1>2, <1>5, Iterated DEF IsStep
<1> HIDE DEF Visit
<1>7. IsVisited(f)
  <2> HIDE DEF n
  <2>1. ASSUME NEW i \in 0 .. n PROVE f[i] = IF i = 0 THEN <<class>> ELSE Visit(f[i - 1], i)
    <3>1. CASE i = 0
      BY <1>6, <3>1 DEF IsIterate
    <3>2. CASE i \in 1 .. n
      <4>1. i - 1 \in 0 .. n /\ f[i - 1] \in K
        BY <1>1, <1>6, <3>2 DEF IsIterate
      <4>2. f[i] = Visit(f[i - 1], i)
        BY <1>4, <1>6, <3>2, <4>1 DEF IsIterate
      <4> QED
        BY <3>2, <4>2
    <3> QED
      BY <1>1, <3>1, <3>2
  <2> QED
    BY <1>6, <2>1 DEF IsIterate
<1>8. IsVisited(visited)
  BY <1>7
<1>9. E!Hierarchy(bases, class) = visited[n]
  <2>1. E!Cardinality(DOMAIN bases) = n
    BY DEF E!Cardinality, Cardinality
  <2> QED
    BY <2>1 DEF E!Hierarchy, Visit
<1> HIDE DEF visited, n
<1> DEFINE Done == {i \in 0 .. n : QueuedSo(bases, class, i, visited[i])}
<1>10. 0 \in Done
  <2>1. visited[0] = <<class>>
    BY <1>1, <1>8
  <2>2. PICK s : s = <<class>>
    OBVIOUS
  <2>3. s \in Seq(U) /\ Len(s) = 1 /\ s[1] = class
    BY <2>2
  <2>4. QueuedSo(bases, class, 0, s)
    BY <2>3 DEF QueuedSo, Distinct, Closed, Parented, Ordered
  <2> QED
    BY <1>1, <2>1, <2>2, <2>4
<1>11. ASSUME NEW i \in 1 .. n, i - 1 \in Done PROVE i \in Done
  <2>1. PICK j, s : j = i - 1 /\ s = visited[i - 1]
    OBVIOUS
  <2>2. QueuedSo(bases, class, j, s)
    BY <1>11, <2>1
  <2>3. QueuedSo(bases, class, i, Visit(s, i))
    BY <1>1, <2>1, <2>2, QueueGrows DEF Visit
  <2>4. visited[i] = Visit(s, i) /\ i \in 0 .. n
    BY <1>1, <1>8, <2>1
  <2> QED
    BY <2>3, <2>4
<1>12. n \in Done
  <2> HIDE DEF Done
  <2>1. 0 .. n \subseteq Done
    BY <1>1, <1>10, <1>11, UpTo
  <2> QED
    BY <1>1, <2>1
<1>13. PICK h : h = E!Hierarchy(bases, class)
  OBVIOUS
<1>14. QueuedSo(bases, class, n, h)
  BY <1>9, <1>12, <1>13
<1>15. ASSUME class \in Q PROVE Len(h) <= n
  <2>1. h \in Seq(Q) /\ Len(h) \in Nat
    <3>1. Q \cup {class} = Q
      BY <1>15
    <3> QED
      BY <1>14, <3>1 DEF QueuedSo
  <2>2. h \in Injection(1 .. Len(h), Q)
    BY <1>14, <2>1 DEF QueuedSo, Distinct, Injection, IsInjective
  <2>3. IsFiniteSet(1 .. Len(h)) /\ Cardinality(1 .. Len(h)) = Len(h)
    <3>1. Cardinality(1 .. Len(h)) = IF 1 > Len(h) THEN 0 ELSE Len(h) - 1 + 1
      BY <2>1, FS_Interval
    <3> QED
      BY <2>1, <3>1, FS_Interval
  <2>4. Cardinality(1 .. Len(h)) <= Cardinality(Q)
    BY <2>2, <2>3, FS_Injection DEF AreBases
  <2> QED
    BY <2>3, <2>4 DEF n
<1> QED
  BY <1>1, <1>13, <1>14, <1>15

\* Once all are visited, nothing is missing, and the queue is in the order of the steps.
LEMMA HierarchyClosed ==
  ASSUME NEW bases, AreBases(bases), NEW class
  PROVE  LET h == E!Hierarchy(bases, class)
         IN  /\ h \in Seq(DOMAIN bases \cup {class}) /\ Distinct(h) /\ 1 <= Len(h) /\ h[1] = class
             /\ Closed(bases, Len(h), h) /\ Parented(bases, Len(h), h) /\ Ordered(bases, Len(h), h)
<1>1. PICK h : h = E!Hierarchy(bases, class)
  OBVIOUS
<1>2. PICK i \in Nat : QueuedSo(bases, class, i, h) /\ (Len(h) <= i \/ class \notin DOMAIN bases)
  BY <1>1, HierarchyQueued
<1>3. PICK n \in Nat : n = Len(h)
  BY <1>2 DEF QueuedSo
<1>4. CASE n <= i
  <2>1. \A k \in 1 .. n : k <= i /\ k <= n
    BY <1>4
  <2> QED
    BY <1>1, <1>2, <1>3, <2>1 DEF QueuedSo, Closed, Parented, Ordered
<1>5. CASE class \notin DOMAIN bases
  <2>1. \A m \in 1 .. n : m = 1
    <3> DEFINE S == {m \in 1 .. n : m # 1}
    <3>1. SUFFICES ASSUME S # {} PROVE FALSE
      OBVIOUS
    <3>2. S \subseteq Nat
      OBVIOUS
    <3>3. PICK m \in S : \A l \in S : m <= l
      <4> HIDE DEF S
      <4> QED
        BY <3>1, <3>2, Least
    <3>4. PICK j \in 1 .. n : j < m /\ Base(bases, h[m], h[j])
      BY <1>2, <1>3 DEF QueuedSo, Parented
    <3>5. j = 1
      BY <3>3, <3>4
    <3> QED
      BY <1>2, <1>5, <3>4, <3>5, BasesAre DEF QueuedSo
  <2>2. \A b : ~Base(bases, b, class)
    BY <1>5, BasesAre
  <2>3. \A m \in 1 .. n : h[m] = class
    BY <1>2, <2>1 DEF QueuedSo
  <2> QED
    BY <1>1, <1>2, <1>3, <2>1, <2>2, <2>3 DEF QueuedSo, Closed, Parented, Ordered
<1> QED
  BY <1>2, <1>3, <1>4, <1>5

\* The inherits edges are the bases, which are symbols.
AreInherits(edges, bases, symbols) ==
  /\ AreBases(bases) /\ IsFiniteSet(symbols)
  /\ \A q, b : (\E e \in edges : e.kind = "inherits" /\ e.source = q /\ e.target = b)
                 <=> Base(bases, b, q)
  /\ \A q, b : Base(bases, b, q) => b \in {s.name : s \in symbols}

IsReached(reached, bases, class, far) ==
  /\ reached[0] = {class}
  /\ \A i \in 1 .. far : \A b :
       b \in reached[i] <=> b \in reached[i - 1] \/ \E q \in reached[i - 1] : Base(bases, b, q)

LEMMA ReachedSteps ==
  ASSUME NEW edges, NEW bases, NEW symbols, AreInherits(edges, bases, symbols), NEW class,
         NEW far \in Nat
  PROVE  IsReached(E!Reached(edges, class, far), bases, class, far)
<1> DEFINE D == SUBSET ({class} \cup {e.target : e \in edges})
           More(names) == names \cup {e.target : e \in {f \in edges : f.kind = "inherits" /\ f.source \in names}}
           step == [p \in D \X (1 .. far) |-> More(p[1])]
           IsSteps(f) == f = [i \in 0 .. far |-> IF i = 0 THEN {class} ELSE More(f[i - 1])]
           reached == CHOOSE f : IsSteps(f)
<1>1. \A names \in D : More(names) \in D
  OBVIOUS
<1>2. \A names \in D, i \in 1 .. far : step[<<names, i>>] = More(names)
  OBVIOUS
<1>3. {class} \in D
  OBVIOUS
<1>4. \A names, b : b \in More(names) <=> b \in names \/ \E q \in names : Base(bases, b, q)
  <2>1. SUFFICES ASSUME NEW names, NEW b
                 PROVE  b \in More(names) <=> b \in names \/ \E q \in names : Base(bases, b, q)
    OBVIOUS
  <2>2. b \in More(names) <=> b \in names \/ \E e \in edges : e.kind = "inherits" /\ e.source \in names /\ e.target = b
    OBVIOUS
  <2>3. \A q : (\E e \in edges : e.kind = "inherits" /\ e.source = q /\ e.target = b) <=> Base(bases, b, q)
    BY DEF AreInherits
  <2> HIDE DEF More
  <2> QED
    BY <2>2, <2>3
<1> HIDE DEF D, More
<1>5. step \in [D \X (1 .. far) -> D]
  BY <1>1
<1> HIDE DEF step
<1>6. PICK f : IsIterate(f, D, {class}, far, step)
  BY <1>3, <1>5, Iterated DEF IsStep
<1>7. IsSteps(f)
  <2>1. ASSUME NEW i \in 0 .. far PROVE f[i] = IF i = 0 THEN {class} ELSE More(f[i - 1])
    <3>1. CASE i = 0
      BY <1>6, <3>1 DEF IsIterate
    <3>2. CASE i \in 1 .. far
      <4>1. i - 1 \in 0 .. far /\ f[i - 1] \in D
        BY <1>6, <3>2 DEF IsIterate
      <4>2. f[i] = More(f[i - 1])
        BY <1>2, <1>6, <3>2, <4>1 DEF IsIterate
      <4> QED
        BY <3>2, <4>2
    <3> QED
      BY <3>1, <3>2
  <2> QED
    BY <1>6, <2>1 DEF IsIterate
<1>8. IsSteps(reached)
  BY <1>7
<1>9. E!Reached(edges, class, far) = reached
  BY DEF E!Reached, More
<1> HIDE DEF reached
<1>10. reached[0] = {class} /\ \A i \in 1 .. far : reached[i] = More(reached[i - 1])
  <2>1. 0 \in 0 .. far
    OBVIOUS
  <2>2. reached[0] = {class}
    BY <1>8, <2>1
  <2>3. ASSUME NEW i \in 1 .. far PROVE reached[i] = More(reached[i - 1])
    <3>1. i \in 0 .. far /\ i # 0
      OBVIOUS
    <3> QED
      BY <1>8, <3>1
  <2> QED
    BY <2>2, <2>3
<1> QED
  BY <1>4, <1>9, <1>10 DEF IsReached

\* What is reached in so many steps is a beginning of the queue.
LEMMA Levels ==
  ASSUME NEW bases, AreBases(bases), NEW class, NEW far \in Nat,
         NEW reached, IsReached(reached, bases, class, far)
  PROVE  LET h == E!Hierarchy(bases, class)
         IN  \A k \in 0 .. far :
               /\ \A b \in reached[k] : In(b, h)
               /\ \A i, j \in 1 .. Len(h) : i < j /\ h[j] \in reached[k] => h[i] \in reached[k]
               /\ \A i \in 1 .. Len(h) : i <= k + 1 => h[i] \in reached[k]
<1>1. PICK h : h = E!Hierarchy(bases, class)
  OBVIOUS
<1>2. PICK n \in Nat : n = Len(h)
  BY <1>1, HierarchyClosed
<1>3. /\ Distinct(h) /\ 1 <= n /\ h[1] = class
      /\ Closed(bases, n, h) /\ Parented(bases, n, h) /\ Ordered(bases, n, h)
  BY <1>1, <1>2, HierarchyClosed
<1> DEFINE Up == {k \in 0 .. far :
             /\ \A b \in reached[k] : In(b, h)
             /\ \A i, j \in 1 .. n : i < j /\ h[j] \in reached[k] => h[i] \in reached[k]
             /\ \A i \in 1 .. n : i <= k + 1 => h[i] \in reached[k]}
<1>4. 0 \in Up
  <2>1. reached[0] = {class}
    BY DEF IsReached
  <2>2. In(class, h) /\ \A j \in 1 .. n : h[j] = class => j = 1
    BY <1>2, <1>3 DEF In, Distinct
  <2>3. \A i, j \in 1 .. n : i < j => j # 1
    OBVIOUS
  <2>4. \A i \in 1 .. n : i <= 0 + 1 => i = 1
    OBVIOUS
  <2> QED
    BY <1>3, <2>1, <2>2, <2>3, <2>4
<1>5. ASSUME NEW k \in 1 .. far, k - 1 \in Up PROVE k \in Up
  <2>1. PICK U, W : U = reached[k - 1] /\ W = reached[k]
    OBVIOUS
  <2>2. \A b : b \in W <=> b \in U \/ \E q \in U : Base(bases, b, q)
    BY <2>1 DEF IsReached
  <2>3. /\ \A b \in U : In(b, h)
        /\ \A i, j \in 1 .. n : i < j /\ h[j] \in U => h[i] \in U
        /\ \A i \in 1 .. n : i <= k => h[i] \in U
    BY <1>5, <2>1
  <2>4. class \in U
    BY <1>2, <1>3, <2>3
  <2>5. ASSUME NEW b \in W PROVE In(b, h)
    <3>1. CASE b \in U
      BY <2>3, <3>1
    <3>2. CASE \E q \in U : Base(bases, b, q)
      <4>1. PICK q \in U : Base(bases, b, q)
        BY <3>2
      <4>2. PICK j \in 1 .. n : h[j] = q
        BY <1>2, <2>3 DEF In
      <4>3. b \in DOMAIN bases
        BY <4>1, BasesAre
      <4>4. j <= n
        BY <4>2
      <4> QED
        BY <1>2, <1>3, <4>1, <4>2, <4>3, <4>4 DEF Closed
    <3> QED
      BY <2>2, <3>1, <3>2
  <2>6. ASSUME NEW i \in 1 .. n, NEW j \in 1 .. n, i < j, h[j] \in W PROVE h[i] \in W
    <3>1. CASE h[j] \in U
      BY <2>2, <2>3, <2>6, <3>1
    <3>2. CASE \E q \in U : Base(bases, h[j], q)
      <4>1. PICK q \in U : Base(bases, h[j], q)
        BY <3>2
      <4>2. PICK l \in 1 .. n : h[l] = q
        BY <1>2, <2>3 DEF In
      <4>3. i = 1 \/ \E m \in 1 .. n : m <= l /\ Base(bases, h[i], h[m])
        <5>1. l <= n
          BY <4>2
        <5> QED
          BY <1>2, <1>3, <2>6, <4>1, <4>2, <5>1 DEF Ordered
      <4>4. CASE i = 1
        BY <1>3, <2>2, <2>4, <4>4
      <4>5. CASE \E m \in 1 .. n : m <= l /\ Base(bases, h[i], h[m])
        <5>1. PICK m \in 1 .. n : m <= l /\ Base(bases, h[i], h[m])
          BY <4>5
        <5>2. h[m] \in U
          <6>1. m = l \/ m < l
            BY <5>1
          <6> QED
            BY <2>3, <4>2, <6>1
        <5> QED
          BY <2>2, <5>1, <5>2
      <4> QED
        BY <4>3, <4>4, <4>5
    <3> QED
      BY <2>2, <2>6, <3>1, <3>2
  <2>7. ASSUME NEW i \in 1 .. n, i <= k + 1 PROVE h[i] \in W
    <3>1. CASE i <= k
      BY <2>2, <2>3, <3>1
    <3>2. CASE i = k + 1
      <4>1. i # 1
        BY <3>2
      <4>2. PICK j \in 1 .. n : j < i /\ Base(bases, h[i], h[j])
        BY <1>2, <1>3, <4>1 DEF Parented
      <4>3. h[j] \in U
        BY <2>3, <3>2, <4>2
      <4> QED
        BY <2>2, <4>2, <4>3
    <3> QED
      BY <2>7, <3>1, <3>2
  <2> QED
    BY <2>1, <2>5, <2>6, <2>7
<1>6. 0 .. far \subseteq Up
  <2> HIDE DEF Up
  <2> QED
    BY <1>4, <1>5, UpTo
<1> QED
  BY <1>1, <1>2, <1>6

\* All but the first are symbols.
LEMMA HierarchyShort ==
  ASSUME NEW edges, NEW bases, NEW symbols, AreInherits(edges, bases, symbols), NEW class
  PROVE  Len(E!Hierarchy(bases, class)) <= Cardinality(symbols) + 1 /\ Cardinality(symbols) \in Nat
<1>0. AreBases(bases)
  BY DEF AreInherits
<1>1. PICK h : h = E!Hierarchy(bases, class)
  OBVIOUS
<1>2. PICK n \in Nat : n = Len(h) /\ Distinct(h) /\ 1 <= n /\ Parented(bases, n, h)
  <2>1. /\ h \in Seq(DOMAIN bases \cup {class}) /\ Distinct(h) /\ 1 <= Len(h)
        /\ Parented(bases, Len(h), h)
    BY <1>0, <1>1, HierarchyClosed
  <2> QED
    BY <2>1
<1> DEFINE f == [i \in 1 .. n - 1 |-> CHOOSE s \in symbols : s.name = h[i + 1]]
<1>3. ASSUME NEW i \in 1 .. n - 1 PROVE f[i] \in symbols /\ f[i].name = h[i + 1]
  <2>1. i + 1 \in 1 .. n /\ i + 1 # 1
    OBVIOUS
  <2>2. \E s \in symbols : s.name = h[i + 1]
    <3>1. PICK j \in 1 .. n : Base(bases, h[i + 1], h[j])
      BY <1>2, <2>1 DEF Parented
    <3> QED
      BY <3>1 DEF AreInherits
  <2> QED
    BY <2>2
<1>4. f \in Injection(1 .. n - 1, symbols)
  <2>1. f \in [1 .. n - 1 -> symbols]
    BY <1>3
  <2>2. \A i, j \in 1 .. n - 1 : f[i] = f[j] => i = j
    <3>1. \A i, j \in 1 .. n - 1 : f[i] = f[j] => h[i + 1] = h[j + 1]
      BY <1>3
    <3>2. \A i, j \in 1 .. n - 1 : h[i + 1] = h[j + 1] => i = j
      BY <1>2 DEF Distinct
    <3> QED
      BY <3>1, <3>2
  <2> HIDE DEF f
  <2> QED
    BY <2>1, <2>2 DEF Injection, IsInjective
<1>5. IsFiniteSet(1 .. n - 1) /\ Cardinality(1 .. n - 1) = n - 1
  <2>1. Cardinality(1 .. n - 1) = IF 1 > n - 1 THEN 0 ELSE n - 1 - 1 + 1
    BY FS_Interval
  <2> QED
    BY <1>2, <2>1, FS_Interval
<1> HIDE DEF f
<1>6. IsFiniteSet(symbols)
  BY DEF AreInherits
<1>7. n - 1 <= Cardinality(symbols) /\ Cardinality(symbols) \in Nat
  BY <1>4, <1>5, <1>6, FS_Injection, FS_CardinalityType
<1> QED
  BY <1>1, <1>2, <1>7

\* The first definition in the queue is the nearest.
MemberOf(c, member) == E!QName(c.file, c.inner \o member)
DefinesIt(symbols, c, member) == E!Is(symbols, MemberOf(c, member), E!CallTargets)

LEMMA FirstIsNearest ==
  ASSUME NEW edges, NEW bases, NEW symbols, AreInherits(edges, bases, symbols), NEW class, NEW member
  PROVE  LET h == E!Hierarchy(bases, class)
             definers == {i \in 1 .. Len(h) : DefinesIt(symbols, h[i], member)}
         IN  /\ definers = {} => E!NearestDefinition(symbols, edges, class, member, E!NoTarget)
             /\ \A i \in definers :
                  (\A j \in definers : i <= j)
                    => E!NearestDefinition(symbols, edges, class, member, MemberOf(h[i], member))
<1>0. AreBases(bases)
  BY DEF AreInherits
<1>1. PICK h : h = E!Hierarchy(bases, class)
  OBVIOUS
<1>2. PICK far \in Nat : far = Cardinality(symbols) /\ Len(h) <= far + 1
  BY <1>1, HierarchyShort
<1>3. PICK n \in Nat : n = Len(h)
  <2>1. h \in Seq(DOMAIN bases \cup {class})
    BY <1>0, <1>1, HierarchyClosed
  <2> QED
    BY <2>1
<1>4. PICK reached : reached = E!Reached(edges, class, far)
  OBVIOUS
<1>5. IsReached(reached, bases, class, far)
  BY <1>4, ReachedSteps
<1>6. \A k \in 0 .. far :
        /\ \A b \in reached[k] : In(b, h)
        /\ \A i, j \in 1 .. n : i < j /\ h[j] \in reached[k] => h[i] \in reached[k]
        /\ \A i \in 1 .. n : i <= k + 1 => h[i] \in reached[k]
  BY <1>0, <1>1, <1>3, <1>5, Levels
<1> DEFINE Definitions(k) == {q \in {E!QName(c.file, c.inner \o member) : c \in reached[k]} :
                                E!Is(symbols, q, E!CallTargets)}
           definers == {i \in 1 .. n : DefinesIt(symbols, h[i], member)}
           Nearest(target) ==
             IF Definitions(far) = {} THEN target = E!NoTarget
             ELSE \E k \in 0 .. far : target \in Definitions(k) /\ (k > 0 => Definitions(k - 1) = {})
<1>7. \A target : E!NearestDefinition(symbols, edges, class, member, target) <=> Nearest(target)
  <2>1. E!Cardinality(symbols) = far
    BY <1>2 DEF E!Cardinality, Cardinality
  <2> QED
    BY <1>4, <2>1 DEF E!NearestDefinition
<1>8. \A k, q : q \in Definitions(k)
                  <=> \E c \in reached[k] : q = MemberOf(c, member) /\ DefinesIt(symbols, c, member)
  BY DEF MemberOf, DefinesIt
<1> HIDE DEF Definitions
<1>9. \A i \in 1 .. n : h[i] \in reached[far]
  BY <1>2, <1>3, <1>6
<1>10. ASSUME definers = {} PROVE Nearest(E!NoTarget)
  <2>1. ASSUME NEW c \in reached[far], DefinesIt(symbols, c, member) PROVE FALSE
    <3>1. PICK i \in 1 .. n : h[i] = c
      BY <1>3, <1>6 DEF In
    <3> QED
      BY <1>10, <2>1, <3>1
  <2>2. Definitions(far) = {}
    BY <1>8, <2>1
  <2> QED
    BY <2>2
<1>11. ASSUME NEW i \in definers, \A j \in definers : i <= j PROVE Nearest(MemberOf(h[i], member))
  <2>1. i \in 1 .. n /\ DefinesIt(symbols, h[i], member)
    OBVIOUS
  <2>2. MemberOf(h[i], member) \in Definitions(far)
    BY <1>8, <1>9, <2>1
  <2> DEFINE K == {k \in 0 .. far : h[i] \in reached[k]}
  <2>3. K \subseteq Nat /\ K # {}
    BY <1>9, <2>1
  <2>4. PICK k \in K : \A l \in K : k <= l
    <3> HIDE DEF K
    <3> QED
      BY <2>3, Least
  <2>5. MemberOf(h[i], member) \in Definitions(k)
    BY <1>8, <2>1, <2>4
  <2>6. ASSUME k > 0 PROVE Definitions(k - 1) = {}
    <3>1. k - 1 \in 0 .. far /\ h[i] \notin reached[k - 1]
      BY <2>4, <2>6
    <3>2. ASSUME NEW c \in reached[k - 1], DefinesIt(symbols, c, member) PROVE FALSE
      <4>1. PICK j \in 1 .. n : h[j] = c
        BY <1>3, <1>6, <3>1 DEF In
      <4>2. i <= j
        BY <1>11, <3>2, <4>1
      <4>3. i = j \/ i < j
        BY <2>1, <4>2
      <4> QED
        BY <1>6, <2>1, <3>1, <3>2, <4>1, <4>3
    <3> QED
      BY <1>8, <3>2
  <2>7. k \in 0 .. far
    BY <2>4
  <2> QED
    BY <2>2, <2>5, <2>6, <2>7
<1> QED
  BY <1>1, <1>3, <1>7, <1>10, <1>11

LEMMA ListedInOrder ==
  ASSUME NEW refs, IsFiniteSet(refs), Orders(refs)
  PROVE  LET q == E!InOrder(refs)
         IN  /\ q \in [1 .. Cardinality(refs) -> refs]
             /\ \A r \in refs : \E i \in 1 .. Cardinality(refs) : q[i] = r
<1> DEFINE before == {p \in refs \X refs : Precedes(p[1], p[2])}
           Is(q) == \A i, j \in DOMAIN q : i < j => Precedes(q[i], q[j])
<1>1. PICK n \in Nat : n = Cardinality(refs)
  BY FS_CardinalityType
<1>2. \A x, y \in refs : <<x, y>> \in before <=> Precedes(x, y)
  OBVIOUS
<1> HIDE DEF before
<1>3. IsOrder(refs, before)
  BY <1>2 DEF IsOrder, Orders
<1>4. PICK l : l = R!Sorted(refs, before)
  OBVIOUS
<1>5. Lists(l, refs) /\ \A i, j \in 1 .. n : i < j => <<l[i], l[j]>> \in before
  BY <1>1, <1>3, <1>4, SortedLists
<1>6. l \in [1 .. n -> refs] /\ Is(l)
  <2>1. l \in [1 .. n -> refs]
    BY <1>1, <1>5 DEF Lists, IsSeq
  <2>2. \A i, j \in 1 .. n : i < j => Precedes(l[i], l[j])
    BY <1>2, <1>5, <2>1
  <2> QED
    BY <2>1, <2>2
<1>7. PICK q : q = E!InOrder(refs)
  OBVIOUS
<1>8. q \in [1 .. n -> refs] /\ Is(q)
  <2>1. E!Cardinality(refs) = n
    BY <1>1 DEF E!Cardinality, Cardinality
  <2>2. q = CHOOSE p \in [1 .. n -> refs] : Is(p)
    BY <1>7, <2>1 DEF E!InOrder
  <2> HIDE DEF Is
  <2> QED
    BY <1>6, <2>2
<1>9. \A i, j \in 1 .. n : q[i] = q[j] => i = j
  <2>1. \A i, j \in 1 .. n : i < j => q[i] # q[j]
    BY <1>8 DEF Orders
  <2> QED
    BY <2>1
<1>10. IsFiniteSet(1 .. n) /\ Cardinality(1 .. n) = n
  <2>1. Cardinality(1 .. n) = IF 1 > n THEN 0 ELSE n - 1 + 1
    BY FS_Interval
  <2> QED
    BY <2>1, FS_Interval
<1>11. q \in Surjection(1 .. n, refs)
  <2>1. q \in Injection(1 .. n, refs)
    BY <1>8, <1>9 DEF Injection, IsInjective
  <2> QED
    BY <1>1, <1>10, <2>1, FS_Injection
<1> QED
  BY <1>1, <1>7, <1>8, <1>11 DEF Surjection

\* What a base, or the type of an annotation, resolves to.
TypeOf(symbols, files, imports, r) ==
  E!Resolve(symbols, files, imports, [q \in {} |-> <<>>], r, E!TypeTargets, FALSE)

LEMMA TypesResolve ==
  ASSUME NEW symbols, NEW files, NEW imports, NEW bases, NEW r
  PROVE  /\ E!Resolve(symbols, files, imports, bases, r, E!TypeTargets, FALSE)
              = TypeOf(symbols, files, imports, r)
         /\ TypeOf(symbols, files, imports, r) # E!NoTarget
              => TypeOf(symbols, files, imports, r) \in {s.name : s \in symbols}
<1> DEFINE file == r.source.file
           own == E!QName(file, r.target)
           imported == {E!ViaImport(symbols, files, i, Tail(r.target)) :
                          i \in {j \in imports : j.file = file /\ j.local = Head(r.target)}}
           found == IF E!Is(symbols, own, E!TypeTargets) THEN own
                    ELSE IF \E q \in imported : E!Is(symbols, q, E!TypeTargets)
                    THEN CHOOSE q \in imported : E!Is(symbols, q, E!TypeTargets)
                    ELSE E!NoTarget
<1>1. DOMAIN <<>> = {}
  OBVIOUS
<1>2. \A any : E!Resolve(symbols, files, imports, any, r, E!TypeTargets, FALSE) = found
  BY <1>1 DEF E!Resolve
<1> HIDE DEF imported, own
<1>3. found # E!NoTarget => E!Is(symbols, found, E!TypeTargets)
  OBVIOUS
<1> HIDE DEF found
<1>4. \A q : E!Is(symbols, q, E!TypeTargets) => q \in {s.name : s \in symbols}
  BY DEF E!Is
<1> QED
  BY <1>2, <1>3, <1>4 DEF TypeOf

\* The references of an index.
AreRefs(symbols, refs) == IsFiniteSet(symbols) /\ IsFiniteSet(refs) /\ Orders(refs)

\* r makes b a base of q.
MakesBase(symbols, files, imports, r, q, b) ==
  /\ r.kind = "base" /\ r.source = q /\ b = TypeOf(symbols, files, imports, r)
  /\ b # E!NoTarget

LEMMA BasesResolve ==
  ASSUME NEW symbols, NEW files, NEW imports, NEW refs, AreRefs(symbols, refs)
  PROVE  LET bases == E!Bases(symbols, files, imports, refs)
         IN  /\ AreBases(bases)
             /\ \A q, b : Base(bases, b, q)
                            <=> \E r \in refs : MakesBase(symbols, files, imports, r, q, b)
             /\ \A q, b : Base(bases, b, q) => b \in {s.name : s \in symbols}
<1> DEFINE names == {s.name : s \in symbols}
           Q == names \cup {r.source : r \in refs}
           Target(r) == TypeOf(symbols, files, imports, r)
           Of(q) == {r \in refs : r.kind = "base" /\ r.source = q /\ Target(r) # E!NoTarget}
           sorted(q) == E!InOrder(Of(q))
           bases == E!Bases(symbols, files, imports, refs)
           ListOf(q) == [i \in DOMAIN sorted(q) |-> Target(sorted(q)[i])]
<1>1. bases = [q \in Q |-> ListOf(q)]
  BY DEF E!Bases, TypeOf
<1>2. \A r : Target(r) # E!NoTarget => Target(r) \in names
  BY TypesResolve
<1>3. ASSUME NEW q
      PROVE  /\ ListOf(q) \in Seq(names)
             /\ \A b : In(b, ListOf(q)) <=> \E r \in refs : MakesBase(symbols, files, imports, r, q, b)
  <2>1. IsFiniteSet(Of(q)) /\ Orders(Of(q))
    <3>1. IsFiniteSet(refs) /\ Orders(refs)
      BY DEF AreRefs
    <3>2. Of(q) \subseteq refs
      OBVIOUS
    <3> HIDE DEF Of
    <3>3. Of(q) \in SUBSET refs
      BY <3>2
    <3>4. IsFiniteSet(Of(q))
      BY <3>1, <3>3, FS_Subset
    <3>5. Orders(Of(q))
      BY <3>1, <3>2 DEF Orders
    <3> QED
      BY <3>4, <3>5
  <2>2. PICK n \in Nat : n = Cardinality(Of(q))
    <3> HIDE DEF Of
    <3> QED
      BY <2>1, FS_CardinalityType
  <2>3. PICK l : l = sorted(q)
    OBVIOUS
  <2>4. l \in [1 .. n -> Of(q)] /\ \A r \in Of(q) : \E i \in 1 .. n : l[i] = r
    <3> HIDE DEF Of
    <3> QED
      BY <2>1, <2>2, <2>3, ListedInOrder
  <2>5. PICK t : t = ListOf(q)
    OBVIOUS
  <2>6. t = [i \in 1 .. n |-> Target(l[i])]
    BY <2>3, <2>4, <2>5
  <2>7. \A i \in 1 .. n : l[i] \in refs /\ MakesBase(symbols, files, imports, l[i], q, Target(l[i]))
    BY <2>4 DEF MakesBase
  <2>8. \A r \in refs : \A b : MakesBase(symbols, files, imports, r, q, b) => r \in Of(q) /\ b = Target(r)
    BY DEF MakesBase
  <2> HIDE DEF sorted, Of, ListOf
  <2>9. \A i \in 1 .. n : Target(l[i]) \in names
    BY <1>2, <2>7 DEF MakesBase
  <2> HIDE DEF Target, names
  <2>10. t \in Seq(names) /\ Len(t) = n
    BY <2>6, <2>9
  <2>11. \A i \in 1 .. n : t[i] = Target(l[i])
    BY <2>6
  <2>12. ASSUME NEW b
         PROVE  In(b, t) <=> \E r \in refs : MakesBase(symbols, files, imports, r, q, b)
    <3>1. ASSUME In(b, t) PROVE \E r \in refs : MakesBase(symbols, files, imports, r, q, b)
      <4>1. PICK i \in 1 .. n : t[i] = b
        BY <2>10, <3>1 DEF In
      <4> QED
        BY <2>7, <2>11, <4>1
    <3>2. ASSUME NEW r \in refs, MakesBase(symbols, files, imports, r, q, b) PROVE In(b, t)
      <4>1. PICK i \in 1 .. n : l[i] = r
        BY <2>4, <2>8, <3>2
      <4>2. t[i] = b
        BY <2>8, <2>11, <3>2, <4>1
      <4> QED
        BY <2>10, <4>2 DEF In
    <3> QED
      BY <3>1, <3>2
  <2> QED
    BY <2>5, <2>10, <2>12
<1> HIDE DEF bases, ListOf, Target
<1>4. DOMAIN bases = Q /\ \A q \in Q : bases[q] = ListOf(q)
  BY <1>1
<1>5. IsFiniteSet(Q)
  <2>1. IsFiniteSet(symbols) /\ IsFiniteSet(refs)
    BY DEF AreRefs
  <2>2. IsFiniteSet(names)
    <3>1. [s \in symbols |-> s.name] \in Surjection(symbols, names)
      BY DEF Surjection
    <3> HIDE DEF names
    <3> QED
      BY <2>1, <3>1, FS_Surjection
  <2>3. IsFiniteSet({r.source : r \in refs})
    <3> DEFINE sources == {r.source : r \in refs}
    <3>1. [r \in refs |-> r.source] \in Surjection(refs, sources)
      BY DEF Surjection
    <3> HIDE DEF sources
    <3>2. IsFiniteSet(sources)
      BY <2>1, <3>1, FS_Surjection
    <3> QED
      BY <3>2 DEF sources
  <2> HIDE DEF names
  <2> QED
    BY <2>2, <2>3, FS_Union
<1>6. AreBases(bases)
  <2>1. ASSUME NEW q \in Q PROVE bases[q] \in Seq(Q)
    <3>1. PICK t : t = bases[q]
      OBVIOUS
    <3>2. t \in Seq(names)
      BY <1>3, <1>4, <3>1
    <3>3. names \subseteq Q
      OBVIOUS
    <3> HIDE DEF Q, names
    <3>4. t \in Seq(Q)
      BY <3>2, <3>3
    <3> QED
      BY <3>1, <3>4
  <2> HIDE DEF Q
  <2> QED
    BY <1>4, <1>5, <2>1 DEF AreBases
<1>7. ASSUME NEW q, NEW b
      PROVE  Base(bases, b, q) <=> \E r \in refs : MakesBase(symbols, files, imports, r, q, b)
  <2>1. CASE q \in Q
    <3>1. E!BasesOf(bases, q) = ListOf(q)
      BY <1>4, <2>1 DEF E!BasesOf
    <3> QED
      BY <1>3, <3>1 DEF Base
  <2>2. CASE q \notin Q
    <3>1. ~Base(bases, b, q)
      BY <1>4, <1>6, <2>2, BasesAre
    <3>2. ~ \E r \in refs : MakesBase(symbols, files, imports, r, q, b)
      BY <2>2 DEF MakesBase
    <3> QED
      BY <3>1, <3>2
  <2> QED
    BY <2>1, <2>2
<1>8. \A q, b : Base(bases, b, q) => b \in names
  BY <1>2, <1>7 DEF MakesBase, Target
<1> QED
  BY <1>6, <1>7, <1>8 DEF bases

\* What a call resolves to.
CallOf(symbols, files, imports, bases, r) ==
  E!Resolve(symbols, files, imports, bases, r, E!CallTargets, TRUE)
MakesCall(symbols, files, imports, bases, r, q, b) ==
  /\ r.kind = "call" /\ r.source = q /\ b = CallOf(symbols, files, imports, bases, r)
  /\ b # E!NoTarget

LEMMA EdgesResolve ==
  ASSUME NEW symbols, NEW files, NEW imports, NEW refs
  PROVE  LET edges == E!ResolveEdges(symbols, files, imports, refs)
             bases == E!Bases(symbols, files, imports, refs)
         IN  /\ \A q, b : (\E e \in edges : e.kind = "inherits" /\ e.source = q /\ e.target = b)
                            <=> \E r \in refs : MakesBase(symbols, files, imports, r, q, b)
             /\ \A q, b : (\E e \in edges : e.kind = "calls" /\ e.source = q /\ e.target = b)
                            <=> \E r \in refs : MakesCall(symbols, files, imports, bases, r, q, b)
<1>1. PICK bases : bases = E!Bases(symbols, files, imports, refs)
  OBVIOUS
<1> DEFINE Edge(source, target, kind) == [source |-> source, target |-> target, kind |-> kind]
           Type(r) == TypeOf(symbols, files, imports, r)
           Call(r) == CallOf(symbols, files, imports, bases, r)
           Of(r) == IF r.kind = "call" THEN Edge(r.source, Call(r), "calls")
                    ELSE Edge(r.source, Type(r), IF r.kind = "base" THEN "inherits" ELSE "references_type")
           importing == {Edge(E!QName(i.file, <<>>), E!ViaImport(symbols, files, i, <<>>), "imports") : i \in imports}
           defining == {Edge(E!QName(s.name.file, E!Outer(s.name.inner)), s.name, "defines") :
                          s \in {t \in symbols : Len(t.name.inner) > 1}}
           edges == {e \in {Of(r) : r \in refs} \cup importing \cup defining : e.target # E!NoTarget}
<1>2. E!ResolveEdges(symbols, files, imports, refs) = edges
  <2>1. \A r : E!Resolve(symbols, files, imports, bases, r, E!TypeTargets, FALSE) = Type(r)
    BY TypesResolve
  <2>2. \A r : E!Resolve(symbols, files, imports, bases, r, E!CallTargets, TRUE) = Call(r)
    BY DEF CallOf
  <2> HIDE DEF Type, Call
  <2> QED
    BY <1>1, <2>1, <2>2 DEF E!ResolveEdges
<1>3. \A e \in importing : e.kind = "imports"
  OBVIOUS
<1>4. \A e \in defining : e.kind = "defines"
  OBVIOUS
<1>5. \A r : /\ Of(r).source = r.source
             /\ Of(r).kind = "calls" <=> r.kind = "call"
             /\ Of(r).kind = "inherits" <=> r.kind = "base"
             /\ r.kind = "call" => Of(r).target = Call(r)
             /\ r.kind # "call" => Of(r).target = Type(r)
  <2> HIDE DEF Type, Call
  <2> QED
    OBVIOUS
<1> HIDE DEF importing, defining, Of
<1>6. \A e : e \in edges /\ e.kind \in {"inherits", "calls"}
               <=> e.kind \in {"inherits", "calls"} /\ e.target # E!NoTarget /\ \E r \in refs : e = Of(r)
  BY <1>3, <1>4
<1> HIDE DEF edges, Type, Call
<1>7. \A q, b : (\E e \in edges : e.kind = "inherits" /\ e.source = q /\ e.target = b)
                  <=> \E r \in refs : MakesBase(symbols, files, imports, r, q, b)
  <2>1. \A r, q, b : MakesBase(symbols, files, imports, r, q, b)
                       <=> Of(r).kind = "inherits" /\ Of(r).source = q /\ Of(r).target = b /\ b # E!NoTarget
    BY <1>5 DEF MakesBase, Type
  <2> QED
    BY <1>6, <2>1
<1>8. \A q, b : (\E e \in edges : e.kind = "calls" /\ e.source = q /\ e.target = b)
                  <=> \E r \in refs : MakesCall(symbols, files, imports, bases, r, q, b)
  <2>1. \A r, q, b : MakesCall(symbols, files, imports, bases, r, q, b)
                       <=> Of(r).kind = "calls" /\ Of(r).source = q /\ Of(r).target = b /\ b # E!NoTarget
    BY <1>5 DEF MakesCall, Call
  <2> QED
    BY <1>6, <2>1
<1> QED
  BY <1>1, <1>2, <1>7, <1>8

\* A call of a member of self resolves to the first definition in the queue.
LEMMA CallResolved ==
  ASSUME NEW symbols, NEW files, NEW imports, NEW refs, NEW bases, AreBases(bases),
         NEW r \in E!SelfCalls(symbols, imports, refs)
  PROVE  LET h == E!Hierarchy(bases, E!QName(r.source.file, E!OwnerInner(symbols, r.source)))
             definers == {i \in 1 .. Len(h) : DefinesIt(symbols, h[i], Tail(r.target))}
             call == CallOf(symbols, files, imports, bases, r)
         IN  \/ definers = {} /\ call = E!NoTarget
             \/ \E i \in definers : /\ \A j \in definers : i <= j
                                    /\ call = MemberOf(h[i], Tail(r.target))
<1>1. PICK class : class = E!QName(r.source.file, E!OwnerInner(symbols, r.source))
  OBVIOUS
<1>2. PICK h : h = E!Hierarchy(bases, class)
  OBVIOUS
<1>3. PICK n \in Nat : n = Len(h) /\ DOMAIN h = 1 .. n
  <2>1. h \in Seq(DOMAIN bases \cup {class})
    BY <1>2, HierarchyClosed
  <2> QED
    BY <2>1
<1> DEFINE Member(i) == MemberOf(h[i], Tail(r.target))
           definers == {i \in 1 .. n : DefinesIt(symbols, h[i], Tail(r.target))}
<1>4. CallOf(symbols, files, imports, bases, r)
        = IF definers # {} THEN Member(E!Min(definers)) ELSE E!NoTarget
  <2> DEFINE file == r.source.file
             imported == {E!ViaImport(symbols, files, i, Tail(r.target)) :
                            i \in {j \in imports : j.file = file /\ j.local = Head(r.target)}}
  <2>1. /\ Len(r.target) # 1 /\ Head(r.target) \in E!SelfNames(file)
        /\ E!OwnerInner(symbols, r.source) # <<>>
        /\ ~E!Is(symbols, E!QName(file, r.target), E!CallTargets)
        /\ {j \in imports : j.file = file /\ j.local = Head(r.target)} = {}
    BY DEF E!SelfCalls
  <2>2. imported = {}
    BY <2>1
  <2>3. {i \in DOMAIN h : E!Is(symbols, E!QName(h[i].file, h[i].inner \o Tail(r.target)), E!CallTargets)}
          = definers
    BY <1>3 DEF DefinesIt, MemberOf
  <2>4. ~ \E q \in imported : E!Is(symbols, q, E!CallTargets)
    BY <2>2
  <2> HIDE DEF imported, definers
  <2> QED
    BY <1>1, <1>2, <2>1, <2>3, <2>4 DEF CallOf, E!Resolve, MemberOf, imported
<1>5. ASSUME definers # {}
      PROVE  E!Min(definers) \in definers /\ \A j \in definers : E!Min(definers) <= j
  <2>1. definers \subseteq Nat
    OBVIOUS
  <2> HIDE DEF definers
  <2>2. \E i \in definers : \A j \in definers : i <= j
    BY <1>5, <2>1, Least
  <2> QED
    BY <2>2 DEF E!Min
<1> HIDE DEF definers
<1>6. \/ definers = {} /\ CallOf(symbols, files, imports, bases, r) = E!NoTarget
      \/ \E i \in definers : /\ \A j \in definers : i <= j
                             /\ CallOf(symbols, files, imports, bases, r) = Member(i)
  BY <1>4, <1>5
<1> QED
  BY <1>1, <1>2, <1>3, <1>6 DEF definers

\* The calls of self in what any references resolve to.
LEMMA NearestReached ==
  ASSUME NEW symbols, NEW files, NEW imports, NEW refs, AreRefs(symbols, refs)
  PROVE  E!SelfCallsReachNearest(symbols, files, imports, refs)
<1>1. PICK bases : bases = E!Bases(symbols, files, imports, refs)
  OBVIOUS
<1>2. PICK edges : edges = E!ResolveEdges(symbols, files, imports, refs)
  OBVIOUS
<1>3. AreInherits(edges, bases, symbols)
  <2>1. /\ AreBases(bases)
        /\ \A q, b : Base(bases, b, q)
                       <=> \E r \in refs : MakesBase(symbols, files, imports, r, q, b)
        /\ \A q, b : Base(bases, b, q) => b \in {s.name : s \in symbols}
    BY <1>1, BasesResolve
  <2>2. \A q, b : (\E e \in edges : e.kind = "inherits" /\ e.source = q /\ e.target = b)
                    <=> \E r \in refs : MakesBase(symbols, files, imports, r, q, b)
    BY <1>2, EdgesResolve
  <2>3. \A q, b : (\E e \in edges : e.kind = "inherits" /\ e.source = q /\ e.target = b)
                    <=> Base(bases, b, q)
    BY <2>1, <2>2
  <2> QED
    BY <2>1, <2>3 DEF AreInherits, AreRefs
<1>4. \A q, b : (\E e \in edges : e.kind = "calls" /\ e.source = q /\ e.target = b)
                  <=> \E r \in refs : MakesCall(symbols, files, imports, bases, r, q, b)
  BY <1>1, <1>2, EdgesResolve
<1> DEFINE Targets(source) == {e.target : e \in {f \in edges : f.kind = "calls" /\ f.source = source}}
<1>5. \A q, b : b \in Targets(q) <=> \E r \in refs : MakesCall(symbols, files, imports, bases, r, q, b)
  <2>1. \A q, b : b \in Targets(q) <=> \E e \in edges : e.kind = "calls" /\ e.source = q /\ e.target = b
    OBVIOUS
  <2> QED
    BY <1>4, <2>1
<1> HIDE DEF Targets
<1>6. ASSUME NEW r \in E!SelfCalls(symbols, imports, refs)
      PROVE  \E t \in Targets(r.source) \cup {E!NoTarget} :
               /\ E!NearestDefinition(symbols, edges,
                    E!QName(r.source.file, E!OwnerInner(symbols, r.source)), Tail(r.target), t)
               /\ (\A c \in refs : c.kind = "call" /\ c.source = r.source => c = r)
                    => Targets(r.source) \subseteq {t}
  <2>1. PICK t : t = CallOf(symbols, files, imports, bases, r)
    OBVIOUS
  <2>2. r \in refs /\ r.kind = "call"
    BY DEF E!SelfCalls
  <2>3. t \in Targets(r.source) \cup {E!NoTarget}
    BY <1>5, <2>1, <2>2 DEF MakesCall
  <2>4. E!NearestDefinition(symbols, edges,
          E!QName(r.source.file, E!OwnerInner(symbols, r.source)), Tail(r.target), t)
    <3>1. PICK class : class = E!QName(r.source.file, E!OwnerInner(symbols, r.source))
      OBVIOUS
    <3>2. PICK member : member = Tail(r.target)
      OBVIOUS
    <3>3. PICK h : h = E!Hierarchy(bases, class)
      OBVIOUS
    <3> DEFINE definers == {i \in 1 .. Len(h) : DefinesIt(symbols, h[i], member)}
    <3>4. \/ definers = {} /\ t = E!NoTarget
          \/ \E i \in definers : (\A j \in definers : i <= j) /\ t = MemberOf(h[i], member)
      BY <1>3, <2>1, <3>1, <3>2, <3>3, CallResolved DEF AreInherits
    <3>5. /\ definers = {} => E!NearestDefinition(symbols, edges, class, member, E!NoTarget)
          /\ \A i \in definers :
               (\A j \in definers : i <= j)
                 => E!NearestDefinition(symbols, edges, class, member, MemberOf(h[i], member))
      BY <1>3, <3>3, FirstIsNearest
    <3> HIDE DEF definers
    <3>6. E!NearestDefinition(symbols, edges, class, member, t)
      BY <3>4, <3>5
    <3> QED
      BY <3>1, <3>2, <3>6
  <2>5. ASSUME \A c \in refs : c.kind = "call" /\ c.source = r.source => c = r
        PROVE  Targets(r.source) \subseteq {t}
    <3>1. ASSUME NEW b \in Targets(r.source) PROVE b = t
      <4>1. PICK c \in refs : MakesCall(symbols, files, imports, bases, c, r.source, b)
        BY <1>5, <3>1
      <4>2. c = r
        BY <2>5, <4>1 DEF MakesCall
      <4> QED
        BY <2>1, <4>1, <4>2 DEF MakesCall
    <3> QED
      BY <3>1
  <2> QED
    BY <2>3, <2>4, <2>5
<1> QED
  BY <1>2, <1>6 DEF E!SelfCallsReachNearest, Targets

-----------------------------------------------------------------------------
(* The functions over every input that FunctionInputs can make.            *)

References == {RefItems[i] : i \in DOMAIN RefItems}
Edges == {EdgeItems[i] : i \in DOMAIN EdgeItems}

InputOK ==
  /\ subject = "transcript" => input \in Seq(TranscriptLine)
  /\ subject = "outcome" => input \in Seq(LogRow) /\ FreshIds(input)
  /\ subject = "ask" => input \in Seq(MenuAnswer)
  /\ subject = "hook" => input \in Seq({"part", "line", "closed", "silent"})
  /\ subject = "turn" => input \in Seq(TurnReplies)
  /\ subject = "edges" => input \in Seq(References)
  /\ subject = "retrieval" => input \in Seq(Edges)

\* One item more.
LEMMA Grown ==
  ASSUME NEW name, NEW bound, NEW items, NEW all, items \subseteq all, input \in Seq(all),
         Grow(name, bound, items)
  PROVE  /\ subject = name /\ subject' = name /\ input' \in Seq(all)
         /\ Len(input') = Len(input) + 1 /\ input'[Len(input) + 1] \in items
         /\ \A i \in DOMAIN input : input'[i] = input[i]
BY DEF Grow

\* The items of every function are its own, and a decision log raises each id once.
LEMMA InputsStayOK == Spec => []InputOK
<1>1. Init => InputOK
  <2> SUFFICES ASSUME Init PROVE InputOK
    OBVIOUS
  <2>1. input = <<>>
    BY DEF Init
  <2>2. DOMAIN input = {}
    BY <2>1
  <2>3. FreshIds(input)
    BY <2>2 DEF FreshIds
  <2> QED
    BY <2>1, <2>3 DEF InputOK
<1>2. InputOK /\ [Next]_vars => InputOK'
  <2> SUFFICES ASSUME InputOK, [Next]_vars PROVE InputOK'
    OBVIOUS
  <2>1. CASE TranscriptGrows
    <3>1. subject = "transcript" /\ input \in Seq(TranscriptLine)
      BY <2>1 DEF TranscriptGrows, Grow, InputOK
    <3>2. subject' = "transcript" /\ input' \in Seq(TranscriptLine)
      BY <2>1, <3>1 DEF TranscriptGrows, Grow
    <3> QED
      BY <3>2 DEF InputOK
  <2>2. CASE OutcomeGrows
    <3> DEFINE items == {r \in LogRow : r.kind # "escalation_raised"
                            \/ \A i \in DOMAIN input : input[i].kind = "escalation_raised" => input[i].id # r.id}
               n == Len(input)
    <3>1. subject = "outcome" /\ input \in Seq(LogRow) /\ FreshIds(input)
      BY <2>2 DEF OutcomeGrows, Grow, InputOK
    <3>2. items \subseteq LogRow /\ Grow("outcome", LogRows, items)
      BY <2>2 DEF OutcomeGrows
    <3>3. input'[n + 1].kind # "escalation_raised"
          \/ \A i \in DOMAIN input : input[i].kind = "escalation_raised" => input[i].id # input'[n + 1].id
      <4>1. input'[n + 1] \in items
        <5> HIDE DEF items
        <5> QED
          BY <3>1, <3>2, Grown
      <4> QED
        BY <4>1
    <3> HIDE DEF items
    <3>4. /\ subject' = "outcome" /\ input' \in Seq(LogRow) /\ Len(input') = n + 1
          /\ \A i \in DOMAIN input : input'[i] = input[i]
      BY <3>1, <3>2, Grown
    <3>5. n \in Nat /\ DOMAIN input = 1 .. n /\ DOMAIN input' = 1 .. n + 1
      BY <3>1, <3>4
    <3>6. FreshIds(input)'
      <4> SUFFICES ASSUME NEW i \in 1 .. n + 1, NEW j \in 1 .. n + 1,
                          input'[i].kind = "escalation_raised", input'[j].kind = "escalation_raised",
                          input'[i].id = input'[j].id, input'[i].id # NoId
                   PROVE  i = j
        BY <3>5 DEF FreshIds
      <4>1. CASE i \in 1 .. n /\ j \in 1 .. n
        BY <3>1, <3>4, <3>5, <4>1 DEF FreshIds
      <4>2. CASE i = n + 1 /\ j \in 1 .. n
        BY <3>3, <3>4, <3>5, <4>2
      <4>3. CASE j = n + 1 /\ i \in 1 .. n
        BY <3>3, <3>4, <3>5, <4>3
      <4> QED
        BY <3>5, <4>1, <4>2, <4>3
    <3> QED
      BY <3>4, <3>6 DEF InputOK
  <2>3. CASE AskGrows
    <3>1. subject = "ask" /\ input \in Seq(MenuAnswer)
      BY <2>3 DEF AskGrows, Grow, InputOK
    <3>2. subject' = "ask" /\ input' \in Seq(MenuAnswer)
      BY <2>3, <3>1 DEF AskGrows, Grow
    <3> QED
      BY <3>2 DEF InputOK
  <2>4. CASE HookGrows
    <3>1. subject = "hook" /\ input \in Seq({"part", "line", "closed", "silent"})
      BY <2>4 DEF HookGrows, Grow, InputOK
    <3>2. subject' = "hook" /\ input' \in Seq({"part", "line", "closed", "silent"})
      BY <2>4, <3>1 DEF HookGrows, Grow
    <3> QED
      BY <3>2 DEF InputOK
  <2>5. CASE TurnsGrow
    <3>1. subject = "turn" /\ input \in Seq(TurnReplies)
      BY <2>5 DEF TurnsGrow, Grow, InputOK
    <3>2. subject' = "turn" /\ input' \in Seq(TurnReplies)
      BY <2>5, <3>1 DEF TurnsGrow, Grow
    <3> QED
      BY <3>2 DEF InputOK
  <2>6. CASE EdgesFound
    <3>1. subject = "retrieval" /\ subject' = "retrieval" /\ input \in Seq(Edges)
      BY <2>6 DEF EdgesFound, GrowOrdered, InputOK
    <3>2. PICK i \in DOMAIN EdgeItems : input' = Append(input, EdgeItems[i])
      BY <2>6 DEF EdgesFound, GrowOrdered
    <3>3. EdgeItems[i] \in Edges
      BY DEF Edges
    <3>4. input' \in Seq(Edges)
      BY <3>1, <3>2, <3>3
    <3> QED
      BY <3>1, <3>4 DEF InputOK
  <2>7. CASE EdgesGrow
    <3>1. subject = "edges" /\ subject' = "edges" /\ input \in Seq(References)
      BY <2>7 DEF EdgesGrow, GrowOrdered, InputOK
    <3>2. PICK i \in DOMAIN RefItems : input' = Append(input, RefItems[i])
      BY <2>7 DEF EdgesGrow, GrowOrdered
    <3>3. RefItems[i] \in References
      BY DEF References
    <3>4. input' \in Seq(References)
      BY <3>1, <3>2, <3>3
    <3> QED
      BY <3>1, <3>4 DEF InputOK
  <2>8. CASE StatementsGrow
    <3>1. subject' = "extraction"
      BY <2>8 DEF StatementsGrow, Grow
    <3> QED
      BY <3>1 DEF InputOK
  <2>9. CASE UNCHANGED vars
    BY <2>9 DEF vars, InputOK, FreshIds
  <2> QED
    BY <2>1, <2>2, <2>3, <2>4, <2>5, <2>6, <2>7, <2>8, <2>9 DEF Next
<1> QED
  BY <1>1, <1>2, PTL DEF Spec

\* The reader's events are the transcript's, of any length and made of any lines.
THEOREM TranscriptsRead == Spec => []EventsAreTheFile
<1>1. InputOK => EventsAreTheFile
  <2> SUFFICES ASSUME input \in Seq(TranscriptLine) PROVE T!EventsAreTheFile(input)
    BY DEF InputOK, EventsAreTheFile
  <2>1. \A n \in 1 .. Len(input) : IsLine(input[n])
    BY ItemsAssumption
  <2>2. AreLines(input)
    BY <2>1, SeqIsSeq DEF AreLines
  <2> QED
    BY <2>2, EventsAreTheLines
<1> QED
  BY <1>1, InputsStayOK, PTL

\* Every escalation and instruction of a decision log of any length gets its Solution.
THEOREM OutcomesMatch == Spec => []SolutionsMatch
<1>1. InputOK => SolutionsMatch
  <2> SUFFICES ASSUME input \in Seq(LogRow), FreshIds(input) PROVE O!SolutionsMatch(input)
    BY DEF InputOK, SolutionsMatch
  <2> QED
    BY SolutionsAreTheirs
<1> QED
  BY <1>1, InputsStayOK, PTL

\* No answer that does not fit is put into the menu, whatever the model replies with.
THEOREM MenusAnswered == Spec => []AnswersFitTheMenu
<1>1. ASSUME input \in Seq(MenuAnswer)
      PROVE  Replies \subseteq AskReply
  <2>1. input \in Seq(Answer) /\ <<>> \in Seq(Answer)
    BY <1>1, ItemsAssumption
  <2>2. \A name \in {"answer_questions", "escalate", "answer"}, valid \in BOOLEAN,
          answers \in Seq(Answer) : Called(name, valid, answers) \in AskReply
    BY DEF Called, AskReply, AskCall, ToolName, Stop
  <2>3. Called("escalate", TRUE, <<>>) \in AskReply /\ Called("answer_questions", TRUE, input) \in AskReply
    BY <2>1, <2>2
  <2>4. ASSUME NEW reply \in AskReply
        PROVE  /\ [reply EXCEPT !.stop = "max_tokens"] \in AskReply
               /\ [reply EXCEPT !.stop = "refusal"] \in AskReply
               /\ [reply EXCEPT !.failed = TRUE] \in AskReply
               /\ [reply EXCEPT !.calls = reply.calls \o reply.calls] \in AskReply
    <3>1. reply.calls \in Seq(AskCall)
      BY DEF AskReply
    <3>2. \A calls \in Seq(AskCall) : calls \o calls \in Seq(AskCall)
      OBVIOUS
    <3>3. reply.calls \o reply.calls \in Seq(AskCall)
      BY <3>1, <3>2
    <3> QED
      BY <3>3 DEF AskReply, Stop
  <2> QED
    BY <2>1, <2>2, <2>3, <2>4 DEF Replies
<1>2. InputOK => AnswersFitTheMenu
  <2> SUFFICES ASSUME input \in Seq(MenuAnswer), NEW first \in Replies, NEW second \in Replies
               PROVE  A!AnswersFitTheMenu(first, second, Menu)
    BY DEF InputOK, AnswersFitTheMenu
  <2> QED
    BY <1>1, ItemsAssumption, NothingElseFits
<1> QED
  BY <1>2, InputsStayOK, PTL

\* The hook prints what the broker said in time, whatever else comes in what order.
THEOREM HookPrints == Spec => []PrintsWhatTheBrokerSaid
<1>1. InputOK => PrintsWhatTheBrokerSaid
  BY PrintsNothingElse DEF InputOK, PrintsWhatTheBrokerSaid
<1> QED
  BY <1>1, InputsStayOK, PTL

\* The log names every tool that returned, but for the last one when its own line could not
\* be written, over any number of replies.
THEOREM TurnsAlwaysRecorded == Spec => []TurnsKeepTheRecord
<1>1. InputOK => TurnsKeepTheRecord
  <2> SUFFICES ASSUME input \in Seq(TurnReplies) PROVE L!TurnsKeepTheRecord(input)
    BY DEF InputOK, TurnsKeepTheRecord
  <2>1. input \in Seq(TurnReply)
    BY ItemsAssumption
  <2> QED
    BY <2>1, FunctionsAssumption, TurnsRecorded
<1> QED
  BY <1>1, InputsStayOK, PTL

\* The edges of the input are finitely many, and in order.
LEMMA IndexSearched ==
  ASSUME input \in Seq(Edges), NEW v \in Vectors
  PROVE  IsIndex(Index(v))
<1> DEFINE found == {input[i] : i \in DOMAIN input}
<1>1. PICK n \in Nat : n = Len(input) /\ DOMAIN input = 1 .. n
  OBVIOUS
<1>2. IsFiniteSet(1 .. n)
  BY FS_Interval
<1>3. IsFiniteSet(found)
  <2>1. input \in Surjection(1 .. n, found)
    BY <1>1 DEF Surjection
  <2> HIDE DEF found
  <2> QED
    BY <1>2, <2>1, FS_Surjection
<1>4. found \subseteq Edges
  BY <1>1
<1>5. Orders(found)
  BY <1>4, IndexAssumption DEF Orders, Edges
<1>6. PICK index : index = Index(v)
  OBVIOUS
<1>7. /\ index.exists = TRUE /\ index.vectors = v /\ index.edges = found
      /\ index.symbols = IndexedSymbols
  BY <1>6 DEF Index
<1> QED
  BY <1>3, <1>5, <1>6, <1>7, IndexAssumption DEF IsIndex

\* Whatever edges of whatever index are found, in whatever number, a symbol ranks as the
\* best of the seeds that pull it in.
THEOREM RanksAlwaysBest == Spec => []RanksByBestSeed
<1>1. InputOK => RanksByBestSeed
  <2> SUFFICES ASSUME input \in Seq(Edges), NEW v \in Vectors PROVE R!RanksByBestSeed(Index(v))
    BY DEF InputOK, RanksByBestSeed
  <2> QED
    BY IndexSearched, RanksAreBest
<1> QED
  BY <1>1, InputsStayOK, PTL

\* Whatever the index, the budget and the number of seeds, the prompt's block loses the
\* tail of the expansion only, no more of it than has to go, and heads each symbol once.
THEOREM BlocksAlwaysFit == Spec => []BlockFits
<1>1. InputOK => BlockFits
  <2> SUFFICES ASSUME input \in Seq(Edges), NEW v \in Vectors PROVE R!BlockFits(Index(v), Proposed)
    BY DEF InputOK, BlockFits
  <2> QED
    BY IndexSearched, BlocksAreFit
<1> QED
  BY <1>1, InputsStayOK, PTL

\* Whatever the references, the symbols, the files and the imports, in whatever number, a
\* call of a member of self reaches the nearest definition, or none if none is in reach.
THEOREM SelfCallsAlwaysNearest == Spec => []SelfCallsReachNearest
<1>1. InputOK => SelfCallsReachNearest
  <2> DEFINE items == {input[i] : i \in DOMAIN input}
             refs == {x \in items : IsRef(x)}
             symbols == Classes \cup (items \ refs)
  <2> SUFFICES ASSUME input \in Seq(References)
               PROVE  E!SelfCallsReachNearest(symbols, Files, Imports, refs)
    BY DEF InputOK, SelfCallsReachNearest
  <2>1. PICK n \in Nat : n = Len(input) /\ DOMAIN input = 1 .. n
    OBVIOUS
  <2>2. IsFiniteSet(items)
    <3>1. input \in Surjection(1 .. n, items)
      BY <2>1 DEF Surjection
    <3> HIDE DEF items
    <3> QED
      BY <3>1, FS_Interval, FS_Surjection
  <2>3. items \subseteq References
    BY <2>1
  <2>4. refs \in SUBSET items /\ items \ refs \in SUBSET items
    OBVIOUS
  <2>5. Orders(refs)
    <3>1. refs \subseteq {r \in References : IsRef(r)}
      BY <2>3
    <3>2. Orders({r \in References : IsRef(r)})
      BY EdgesAssumption DEF References
    <3> HIDE DEF refs, items
    <3> QED
      BY <3>1, <3>2 DEF Orders
  <2> HIDE DEF items, refs
  <2>6. IsFiniteSet(refs) /\ IsFiniteSet(items \ refs)
    BY <2>2, <2>4, FS_Subset
  <2>7. IsFiniteSet(symbols)
    BY <2>6, EdgesAssumption, FS_Union
  <2> HIDE DEF symbols
  <2>8. AreRefs(symbols, refs)
    BY <2>5, <2>6, <2>7 DEF AreRefs
  <2> QED
    BY <2>8, NearestReached
<1> QED
  BY <1>1, InputsStayOK, PTL
=============================================================================

------------------------ MODULE EscalationQueueProofs ------------------------
(***************************************************************************)
(* What the operations of the escalation queue preserve, proved.  Wherever *)
(* a position is looked up, UniqueLive makes the first match the only one. *)
(***************************************************************************)
EXTENDS EscalationQueue, TLAPS

\* Popping an entry (list.pop in queue.py) yields a queue one shorter, whose
\* entries are those before and behind the popped one.
LEMMA PopProperties ==
  ASSUME NEW S, NEW q \in Seq(S), NEW i \in 1 .. Len(q)
  PROVE  /\ Pop(q, i) \in Seq(S)
         /\ Len(Pop(q, i)) = Len(q) - 1
         /\ \A j \in 1 .. Len(q) - 1 : Pop(q, i)[j] = IF j < i THEN q[j] ELSE q[j + 1]
<1> DEFINE n == Len(q) - 1
           f == [j \in 1 .. n |-> IF j < i THEN q[j] ELSE q[j + 1]]
<1>1. Len(q) \in Nat /\ n \in Nat
  OBVIOUS
<1>2. \A j \in 1 .. n : (IF j < i THEN q[j] ELSE q[j + 1]) \in S
  BY <1>1
<1>3. f \in Seq(S) /\ Len(f) = n
  BY <1>1, <1>2
<1> QED
  BY <1>3 DEF Pop

\* What is popped from a queue without duplicates is gone, and everything else
\* is still there.
LEMMA PopUnique ==
  ASSUME NEW S, NEW q \in Seq(S), NEW i \in 1 .. Len(q), UniqueLive(q)
  PROVE  /\ UniqueLive(Pop(q, i))
         /\ IdsOf(Pop(q, i)) = IdsOf(q) \ {q[i].id}
         /\ SessionsOf(Pop(q, i)) = SessionsOf(q) \ {q[i].session}
<1> DEFINE p == Pop(q, i)
           old(j) == IF j < i THEN j ELSE j + 1
<1>1. /\ p \in Seq(S) /\ Len(p) = Len(q) - 1 /\ Len(q) \in Nat
      /\ DOMAIN p = 1 .. Len(q) - 1 /\ DOMAIN q = 1 .. Len(q)
      /\ \A j \in 1 .. Len(q) - 1 : p[j] = IF j < i THEN q[j] ELSE q[j + 1]
  BY PopProperties
<1>2. \A j \in DOMAIN p : old(j) \in DOMAIN q /\ old(j) # i /\ p[j] = q[old(j)]
  <2> HIDE DEF p
  <2> QED
    BY <1>1
<1>3. \A j, k \in DOMAIN p : j # k => old(j) # old(k)
  BY <1>1
<1>4. \A k \in DOMAIN q : k # i => \E j \in DOMAIN p : p[j] = q[k]
  <2> SUFFICES ASSUME NEW k \in DOMAIN q, k # i PROVE \E j \in DOMAIN p : p[j] = q[k]
    OBVIOUS
  <2>1. CASE k < i
    BY <1>1, <1>2, <2>1
  <2>2. CASE k > i
    <3>1. k - 1 \in DOMAIN p /\ old(k - 1) = k
      BY <1>1, <2>2
    <3> QED
      BY <1>2, <3>1
  <2> QED
    BY <1>1, <2>1, <2>2
<1>5. UniqueLive(p)
  BY <1>2, <1>3 DEF UniqueLive
<1>6. \A j \in DOMAIN p : \E k \in DOMAIN q : k # i /\ p[j] = q[k]
  BY <1>2
<1> HIDE DEF p, old
<1>7. IdsOf(p) = IdsOf(q) \ {q[i].id}
  <2>1. ASSUME NEW id \in IdsOf(p) PROVE id \in IdsOf(q) /\ id # q[i].id
    BY <1>1, <1>6, <2>1 DEF IdsOf, UniqueLive
  <2>2. ASSUME NEW id \in IdsOf(q), id # q[i].id PROVE id \in IdsOf(p)
    BY <1>1, <1>4, <2>2 DEF IdsOf
  <2> QED
    BY <2>1, <2>2
<1>8. SessionsOf(p) = SessionsOf(q) \ {q[i].session}
  <2>1. ASSUME NEW s \in SessionsOf(p) PROVE s \in SessionsOf(q) /\ s # q[i].session
    BY <1>1, <1>6, <2>1 DEF SessionsOf, UniqueLive
  <2>2. ASSUME NEW s \in SessionsOf(q), s # q[i].session PROVE s \in SessionsOf(p)
    BY <1>1, <1>4, <2>2 DEF SessionsOf
  <2> QED
    BY <2>1, <2>2
<1> QED
  BY <1>5, <1>7, <1>8 DEF p

\* accept keeps the queue free of duplicates when the session has no live
\* entry and the id is new.
LEMMA AcceptUnique ==
  ASSUME NEW S, NEW q \in Seq(S), NEW p \in S,
         UniqueLive(q), CanAccept(q, p), p.id \notin IdsOf(q)
  PROVE  /\ Accept(q, p) \in Seq(S)
         /\ UniqueLive(Accept(q, p))
         /\ IdsOf(Accept(q, p)) = IdsOf(q) \cup {p.id}
         /\ SessionsOf(Accept(q, p)) = SessionsOf(q) \cup {p.session}
<1> DEFINE a == Append(q, p)
<1>1. /\ a \in Seq(S) /\ Len(q) \in Nat /\ DOMAIN q = 1 .. Len(q)
      /\ DOMAIN a = 1 .. Len(q) + 1 /\ a[Len(q) + 1] = p
      /\ \A j \in DOMAIN q : a[j] = q[j]
  OBVIOUS
<1>2. \A j \in DOMAIN a : j \in DOMAIN q \/ j = Len(q) + 1
  BY <1>1
<1>3. \A j \in DOMAIN q : q[j].session # p.session /\ q[j].id # p.id
  BY DEF CanAccept, SessionsOf, IdsOf
<1>4. UniqueLive(a)
  BY <1>1, <1>2, <1>3 DEF UniqueLive
<1>5. IdsOf(a) = IdsOf(q) \cup {p.id} /\ SessionsOf(a) = SessionsOf(q) \cup {p.session}
  BY <1>1, <1>2 DEF IdsOf, SessionsOf
<1> QED
  BY <1>1, <1>4, <1>5 DEF Accept

\* Without duplicates the loops of queue.py find the entry they look for.
LEMMA Lookup ==
  ASSUME NEW S, NEW q \in Seq(S), UniqueLive(q)
  PROVE  /\ \A id \in IdsOf(q) :
              FirstWithId(q, id) \in 1 .. Len(q) /\ q[FirstWithId(q, id)].id = id
         /\ \A s \in SessionsOf(q) :
              FirstOfSession(q, s) \in 1 .. Len(q) /\ q[FirstOfSession(q, s)].session = s
<1>1. DOMAIN q = 1 .. Len(q) /\ Len(q) \in Nat
  OBVIOUS
<1>2. ASSUME NEW id \in IdsOf(q)
      PROVE  FirstWithId(q, id) \in 1 .. Len(q) /\ q[FirstWithId(q, id)].id = id
  <2>1. PICK i \in DOMAIN q : q[i].id = id
    BY <1>2 DEF IdsOf
  <2>2. \A j \in DOMAIN q : q[j].id = id => i <= j
    BY <1>1, <2>1 DEF UniqueLive
  <2> QED
    BY <1>1, <2>1, <2>2 DEF FirstWithId
<1>3. ASSUME NEW s \in SessionsOf(q)
      PROVE  FirstOfSession(q, s) \in 1 .. Len(q) /\ q[FirstOfSession(q, s)].session = s
  <2>1. PICK i \in DOMAIN q : q[i].session = s
    BY <1>3 DEF SessionsOf
  <2>2. \A j \in DOMAIN q : q[j].session = s => i <= j
    BY <1>1, <2>1 DEF UniqueLive
  <2> QED
    BY <1>1, <2>1, <2>2 DEF FirstOfSession
<1> QED
  BY <1>2, <1>3
\* Withdrawing by id, withdrawing by session and resolving the head remove
\* exactly the entry they name and keep the queue free of duplicates.
LEMMA RemovalsUnique ==
  ASSUME NEW S, NEW q \in Seq(S), UniqueLive(q), NEW id, NEW s
  PROVE  /\ Retract(q, id) \in Seq(S) /\ UniqueLive(Retract(q, id))
         /\ IdsOf(Retract(q, id)) = IdsOf(q) \ {id}
         /\ SessionsOf(Retract(q, id)) \subseteq SessionsOf(q)
         /\ RetractForSession(q, s) \in Seq(S) /\ UniqueLive(RetractForSession(q, s))
         /\ IdsOf(RetractForSession(q, s)) \subseteq IdsOf(q)
         /\ SessionsOf(RetractForSession(q, s)) = SessionsOf(q) \ {s}
         /\ Resolve(q, id) \in Seq(S) /\ UniqueLive(Resolve(q, id))
         /\ IdsOf(Resolve(q, id)) \subseteq IdsOf(q)
         /\ SessionsOf(Resolve(q, id)) \subseteq SessionsOf(q)
<1>1. /\ Retract(q, id) \in Seq(S) /\ UniqueLive(Retract(q, id))
      /\ IdsOf(Retract(q, id)) = IdsOf(q) \ {id}
      /\ SessionsOf(Retract(q, id)) \subseteq SessionsOf(q)
  <2>1. CASE id \in IdsOf(q)
    <3> DEFINE i == FirstWithId(q, id)
    <3>1. i \in 1 .. Len(q) /\ q[i].id = id
      BY <2>1, Lookup
    <3>2. Retract(q, id) = Pop(q, i)
      BY <2>1 DEF Retract
    <3> HIDE DEF i
    <3>3. Pop(q, i) \in Seq(S)
      BY <3>1, PopProperties
    <3>4. /\ UniqueLive(Pop(q, i)) /\ IdsOf(Pop(q, i)) = IdsOf(q) \ {id}
          /\ SessionsOf(Pop(q, i)) = SessionsOf(q) \ {q[i].session}
      BY <3>1, PopUnique, Zenon
    <3> QED
      BY <3>2, <3>3, <3>4
  <2>2. CASE id \notin IdsOf(q)
    BY <2>2 DEF Retract
  <2> QED
    BY <2>1, <2>2
<1>2. /\ RetractForSession(q, s) \in Seq(S) /\ UniqueLive(RetractForSession(q, s))
      /\ IdsOf(RetractForSession(q, s)) \subseteq IdsOf(q)
      /\ SessionsOf(RetractForSession(q, s)) = SessionsOf(q) \ {s}
  <2>1. CASE s \in SessionsOf(q)
    <3> DEFINE i == FirstOfSession(q, s)
    <3>1. i \in 1 .. Len(q) /\ q[i].session = s
      BY <2>1, Lookup
    <3>2. RetractForSession(q, s) = Pop(q, i)
      BY <2>1 DEF RetractForSession
    <3> HIDE DEF i
    <3>3. Pop(q, i) \in Seq(S)
      BY <3>1, PopProperties
    <3>4. /\ UniqueLive(Pop(q, i)) /\ IdsOf(Pop(q, i)) = IdsOf(q) \ {q[i].id}
          /\ SessionsOf(Pop(q, i)) = SessionsOf(q) \ {s}
      BY <3>1, PopUnique, Zenon
    <3> QED
      BY <3>2, <3>3, <3>4
  <2>2. CASE s \notin SessionsOf(q)
    BY <2>2 DEF RetractForSession
  <2> QED
    BY <2>1, <2>2
<1>3. /\ Resolve(q, id) \in Seq(S) /\ UniqueLive(Resolve(q, id))
      /\ IdsOf(Resolve(q, id)) \subseteq IdsOf(q)
      /\ SessionsOf(Resolve(q, id)) \subseteq SessionsOf(q)
  <2>1. CASE IsHead(q, id)
    <3>1. 1 \in 1 .. Len(q)
      BY <2>1 DEF IsHead
    <3>2. Resolve(q, id) = Pop(q, 1)
      BY <2>1 DEF Resolve
    <3>3. Pop(q, 1) \in Seq(S)
      BY <3>1, PopProperties
    <3>4. /\ UniqueLive(Pop(q, 1)) /\ IdsOf(Pop(q, 1)) = IdsOf(q) \ {q[1].id}
          /\ SessionsOf(Pop(q, 1)) = SessionsOf(q) \ {q[1].session}
      BY <3>1, PopUnique, Zenon
    <3> QED
      BY <3>2, <3>3, <3>4
  <2>2. CASE ~ IsHead(q, id)
    BY <2>2 DEF Resolve
  <2> QED
    BY <2>1, <2>2
<1> QED
  BY <1>1, <1>2, <1>3
=============================================================================

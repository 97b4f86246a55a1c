----------------------- MODULE OpenClawAdapterProofs -----------------------
(* Theorems about the OpenClaw adapter, for every set of messages and runs, *)
(* every capacity of the lists and every interleaving of hooks, queue tasks *)
(* and the end of the runtime.                                              *)
EXTENDS OpenClawAdapter, SequenceTheorems, FiniteSetTheorems, TLAPS

\* Every queued task is chained on the one before it, whatever settled promises
\* did to the tail, and the tail is the last of them.
Chain ==
  /\ \A i \in DOMAIN queue : queue[i].ticket \in DOMAIN after
  /\ \A i, j \in DOMAIN queue : j = i + 1 => after[queue[j].ticket] = queue[i].ticket
  /\ \A i \in DOMAIN queue : i = Len(queue) => tail = queue[i].ticket
  /\ \A k \in DOMAIN after : after[k] < k

\* The tasks of the queue follow those executed, in the order of the hooks.
Order ==
  /\ SessionOrder
  /\ \A i, j \in DOMAIN queue : i < j => queue[i].ticket < queue[j].ticket
  /\ \A i \in DOMAIN commands, j \in DOMAIN queue : commands[i].ticket < queue[j].ticket
  /\ \A w \in Writes : w.ticket <= tickets

\* A promise is settled by its one task: it is pending until that task ran and
\* resolved only when the question was executed.
Promises ==
  /\ Len(received) <= MaxReceived
  /\ \A p \in PendingId : p > Len(received) => nodeId[p] = "pending"
  /\ \A i \in DOMAIN queue : queue[i].kind = "question" =>
       /\ queue[i].pending \in 1 .. Len(received)
       /\ nodeId[queue[i].pending] = "pending"
       /\ \A j \in DOMAIN queue :
            queue[j].kind = "question" /\ queue[j].pending = queue[i].pending => i = j
  /\ \A p \in PendingId : nodeId[p] = "resolved" =>
       \E j \in DOMAIN commands : commands[j].kind = "question" /\ commands[j].pending = p
  /\ AnswerAfterQuestion

\* What the list of pending questions says of messages and of answers: an entry
\* is listed once, with the source of its message, and used up by its answer.
Claimed ==
  /\ \A i \in DOMAIN pending :
       /\ pending[i].id \in 1 .. Len(received)
       /\ pending[i].source # NULL => received[pending[i].id] = pending[i].source
       /\ \A j \in DOMAIN pending : pending[i].id = pending[j].id => i = j
  /\ \A a \in Answers :
       /\ a.named \/ a.pending # NULL => a.pending \in 1 .. Len(received)
       /\ a.pending # NULL =>
            \A i \in DOMAIN pending : pending[i].id = a.pending => pending[i].consumed
  /\ OneAnswerPerQuestion
  /\ AnswersItsOwnQuestion

AInv == TypeOK /\ Chain /\ Order /\ Promises /\ Claimed

-----------------------------------------------------------------------------
(* Bounded lists.                                                          *)

Entry == [id : PendingId, source : Identified \cup {NULL}, consumed : BOOLEAN]
Visibility == [run : Run \cup {NULL}, text : {TextOf[p] : p \in Payload} \cup {NULL},
               absent : BOOLEAN, consumed : BOOLEAN]
Proof == [run : Run, consumed : BOOLEAN]

\* Pushing evicts one entry at the front, or none.
Evicts(list, e, pushed) ==
  \E k \in {0, 1} : /\ Len(pushed) = Len(list) + 1 - k
                    /\ \A i \in 1 .. Len(pushed) : pushed[i] = Append(list, e)[i + k]

LEMMA PushProperties ==
  ASSUME NEW S, NEW list \in Seq(S), NEW e \in S, Len(list) <= Capacity
  PROVE  /\ Push(list, e) \in Seq(S) /\ Len(Push(list, e)) <= Capacity
         /\ Evicts(list, e, Push(list, e))
<1> DEFINE grown == Append(list, e)
           cut == SubSeq(grown, Len(grown) - Capacity + 1, Len(grown))
<1>1. grown \in Seq(S) /\ Len(grown) = Len(list) + 1
  BY AppendProperties
<1>2. Capacity \in Nat \ {0} /\ Len(list) \in Nat
  BY AdapterAssumption, LenProperties
<1>3. CASE Len(grown) > Capacity
  <2>1. Len(list) = Capacity /\ Len(grown) = Capacity + 1
    BY <1>1, <1>2, <1>3
  <2>2. \A i \in 2 .. Len(grown) : grown[i] \in S
    BY <1>1, <1>2, <2>1, ElementOfSeq
  <2> DEFINE n == Len(grown)
  <2>3. Len(grown) - Capacity + 1 = 2 /\ n \in Int /\ n = Capacity + 1
    BY <1>2, <2>1
  <2> HIDE DEF grown, n
  <2>4. /\ SubSeq(grown, 2, n) \in Seq(S)
        /\ Len(SubSeq(grown, 2, n)) = IF 2 <= n THEN n - 2 + 1 ELSE 0
        /\ \A i \in 1 .. n - 2 + 1 : SubSeq(grown, 2, n)[i] = grown[2 + i - 1]
    BY <2>2, <2>3, SubSeqProperties DEF n
  <2>5. cut = SubSeq(grown, 2, n) /\ Push(list, e) = cut
    BY <1>3, <2>3 DEF Push, grown, n
  <2> HIDE DEF cut
  <2>6. Len(cut) = Capacity /\ \A i \in 1 .. Capacity : cut[i] = grown[i + 1]
    BY <1>2, <2>3, <2>4, <2>5
  <2> QED
    BY <1>2, <2>1, <2>4, <2>5, <2>6 DEF grown, Evicts
<1>4. CASE ~(Len(grown) > Capacity)
  <2>1. Push(list, e) = grown
    BY <1>4 DEF Push
  <2> HIDE DEF grown
  <2> QED
    BY <1>1, <1>2, <1>4, <2>1 DEF grown, Evicts
<1> QED
  BY <1>3, <1>4

\* Consuming only sets the mark.
LEMMA ConsumeProperties ==
  ASSUME NEW S, NEW list \in Seq(S), NEW indexes,
         \A e \in S : [e EXCEPT !.consumed = TRUE] \in S
  PROVE  /\ Consume(list, indexes) \in Seq(S)
         /\ Len(Consume(list, indexes)) = Len(list)
<1>1. Len(list) \in Nat /\ DOMAIN list = 1 .. Len(list)
  BY LenProperties
<1>2. Consume(list, indexes) \in [1 .. Len(list) -> S]
  BY <1>1, ElementOfSeq DEF Consume
<1>3. Consume(list, indexes) \in Seq(S)
  BY <1>1, <1>2, SeqDef
<1> QED
  BY <1>1, <1>2, <1>3, LenProperties

LEMMA ConsumePending ==
  ASSUME TypeOK, NEW turn
  PROVE  /\ DOMAIN Consume(pending, turn) = DOMAIN pending
         /\ \A i \in DOMAIN pending :
              /\ Consume(pending, turn)[i].id = pending[i].id
              /\ Consume(pending, turn)[i].source = pending[i].source
              /\ pending[i].consumed \/ i \in turn => Consume(pending, turn)[i].consumed
<1>1. pending \in Seq(Entry)
  BY DEF TypeOK, Entry
<1>2. \A i \in DOMAIN pending : pending[i] \in Entry
  BY <1>1, ElementOfSeq, LenProperties
<1> QED
  BY <1>2 DEF Consume, Entry

-----------------------------------------------------------------------------
(* Types.                                                                  *)

LEMMA TaskTypes ==
  /\ \A p \in PendingId, t \in Nat :
       [[kind |-> "question", pending |-> p, payload |-> NULL, named |-> FALSE, ticket |-> 0]
          EXCEPT !.ticket = t] \in Task
  /\ \A p \in PendingId \cup {NULL}, y \in Payload, b \in BOOLEAN, t \in Nat :
       [[kind |-> "answer", pending |-> p, payload |-> y, named |-> b, ticket |-> 0]
          EXCEPT !.ticket = t] \in Task
  BY DEF Task

LEMMA WithoutType ==
  ASSUME TypeOK, NEW i \in DOMAIN queue
  PROVE  /\ queue[i] \in Task /\ Without(i) \in Seq(Task)
         /\ Append(commands, queue[i]) \in Seq(Task)
<1>1. /\ DOMAIN queue = 1 .. Len(queue) /\ Len(queue) \in Nat
      /\ \A j \in 1 .. Len(queue) : queue[j] \in Task
  BY ElementOfSeq, LenProperties DEF TypeOK
<1>2. Len(queue) - 1 \in Nat
  BY <1>1
<1>3. Without(i) \in [1 .. Len(queue) - 1 -> Task]
  BY <1>1 DEF Without
<1>4. Without(i) \in Seq(Task)
  BY <1>2, <1>3, SeqDef
<1> QED
  BY <1>1, <1>4, AppendProperties DEF TypeOK

\* Enqueueing makes the new ticket the tail, chained on the tail before.
LEMMA EnqueueType ==
  ASSUME TypeOK, NEW a, Enqueue(a)
  PROVE  /\ tickets' = tickets + 1 /\ tickets' \in Nat /\ tail' = tickets'
         /\ tail' \in 0 .. tickets' /\ DOMAIN after' \subseteq 1 .. tickets'
         /\ \A k \in DOMAIN after' : after'[k] \in 0 .. tickets'
         /\ tickets' \notin DOMAIN after /\ DOMAIN after' = DOMAIN after \cup {tickets'}
         /\ after'[tickets'] = tail /\ \A k \in DOMAIN after : after'[k] = after[k]
<1>1. tickets \in Nat /\ tail \in 0 .. tickets /\ DOMAIN after \subseteq 1 .. tickets
  BY DEF TypeOK
<1>2. \A k \in DOMAIN after : after[k] \in 0 .. tickets
  BY DEF TypeOK
<1>3. /\ tickets' = tickets + 1 /\ tail' = tickets'
      /\ after' = [k \in DOMAIN after \cup {tickets'} |-> IF k = tickets' THEN tail ELSE after[k]]
  BY DEF Enqueue
<1>4. tickets' \notin DOMAIN after
  BY <1>1, <1>3
<1> QED
  BY <1>1, <1>2, <1>3, <1>4

LEMMA QueueType ==
  ASSUME TypeOK, queue # <<>>
  PROVE  /\ Head(queue) \in Task /\ Tail(queue) \in Seq(Task)
         /\ Append(commands, Head(queue)) \in Seq(Task)
<1>1. Head(queue) \in Task /\ Tail(queue) \in Seq(Task)
  BY HeadTailProperties DEF TypeOK
<1> QED
  BY <1>1, AppendProperties DEF TypeOK

LEMMA TypeStep == ASSUME TypeOK, [Next]_vars PROVE TypeOK'
<1>1. ASSUME NEW r \in Run, BeforeAgentRun(r) PROVE TypeOK'
  <2>1. proactive \in Seq(Proof) /\ Len(proactive) <= Capacity
    BY AdapterAssumption, LenProperties DEF TypeOK, Proof
  <2>2. [run |-> r, consumed |-> FALSE] \in Proof
    BY DEF Proof
  <2>3. proactive' \in Seq(Proof) /\ Len(proactive') <= Capacity
    BY <1>1, <2>1, <2>2, PushProperties DEF BeforeAgentRun
  <2>4. Len(proactive') \in 0 .. Capacity
    BY <2>3, LenProperties, AdapterAssumption
  <2> QED
    BY <1>1, <2>3, <2>4 DEF TypeOK, BeforeAgentRun, Proof, queueVars
<1>2. ASSUME NEW m \in Message, MessageReceived(m) PROVE TypeOK'
  <2> DEFINE source == IF m \in Identified THEN m ELSE NULL
             p == Len(received) + 1
             e == [id |-> p, source |-> source, consumed |-> FALSE]
             q == [[kind |-> "question", pending |-> p, payload |-> NULL, named |-> FALSE,
                    ticket |-> 0] EXCEPT !.ticket = tickets + 1]
  <2>1. p \in PendingId /\ tickets + 1 \in Nat
    BY <1>2, LenProperties, AdapterAssumption DEF TypeOK, MessageReceived, PendingId
  <2>2. q \in Task
    BY <2>1, TaskTypes
  <2>3. e \in Entry
    BY <2>1 DEF Entry
  <2>4. pending \in Seq(Entry) /\ Len(pending) <= Capacity
    BY AdapterAssumption, LenProperties DEF TypeOK, Entry
  <2>5. /\ pending' = Push(pending, e) /\ queue' = Append(queue, q) /\ tickets' = tickets + 1
        /\ received' = Append(received, m)
    BY <1>2 DEF MessageReceived, Enqueue
  <2> HIDE DEF e, q
  <2>6. pending' \in Seq(Entry) /\ Len(pending') <= Capacity
    BY <2>3, <2>4, <2>5, PushProperties
  <2>7. Len(pending') \in 0 .. Capacity
    BY <2>6, LenProperties, AdapterAssumption
  <2>8. queue' \in Seq(Task) /\ received' \in Seq(Message)
    BY <2>2, <2>5, AppendProperties DEF TypeOK
  <2>9. /\ tail' \in 0 .. tickets' /\ DOMAIN after' \subseteq 1 .. tickets'
        /\ \A k \in DOMAIN after' : after'[k] \in 0 .. tickets'
    <3>1. PICK a : Enqueue(a)
      BY <1>2 DEF MessageReceived
    <3> QED
      BY <3>1, EnqueueType
  <2> QED
    BY <1>2, <2>1, <2>5, <2>6, <2>7, <2>8, <2>9 DEF TypeOK, MessageReceived, Entry
<1>3. ASSUME NEW p \in Payload, NEW as \in {"visible", "hidden", "suppressed"}, NEW w \in RunIdGiven,
             ReplyPayloadSending(p, as, w)
      PROVE  TypeOK'
  <2> DEFINE run == IF w THEN p[1] ELSE NULL
             e == [run |-> run, text |-> IF as = "visible" THEN TextOf[p] ELSE NULL,
                   absent |-> ProofOf(run) # {}, consumed |-> FALSE]
  <2>1. shown' \in [Payload -> {NULL, "visible", "hidden", "suppressed"}]
    BY <1>3 DEF ReplyPayloadSending, TypeOK
  <2>2. CASE as = "suppressed"
    BY <1>3, <2>1, <2>2 DEF ReplyPayloadSending, TypeOK, queueVars
  <2>3. CASE as # "suppressed"
    <3>1. e \in Visibility
      BY DEF Visibility, Payload
    <3>2. visibility' = Push(visibility, e) /\ proactive' = Consume(proactive, ProofOf(run))
      BY <1>3, <2>3 DEF ReplyPayloadSending
    <3>3. /\ visibility \in Seq(Visibility) /\ Len(visibility) <= Capacity
          /\ proactive \in Seq(Proof)
      BY AdapterAssumption, LenProperties DEF TypeOK, Visibility, Proof
    <3> HIDE DEF e
    <3>4. visibility' \in Seq(Visibility) /\ Len(visibility') <= Capacity
      BY <3>1, <3>2, <3>3, PushProperties
    <3>5. \A x \in Proof : [x EXCEPT !.consumed = TRUE] \in Proof
      BY DEF Proof
    <3>6. proactive' \in Seq(Proof) /\ Len(proactive') = Len(proactive)
      BY <3>2, <3>3, <3>5, ConsumeProperties
    <3>7. Len(visibility') \in 0 .. Capacity
      BY <3>4, LenProperties, AdapterAssumption
    <3>8. UNCHANGED <<received, pending, sent, queue, tickets, tail, after, nodeId, ready,
                      runtime, commands>>
      BY <1>3 DEF ReplyPayloadSending, queueVars
    <3> QED
      BY <2>1, <3>4, <3>6, <3>7, <3>8 DEF TypeOK, Visibility, Proof
  <2> QED
    BY <2>2, <2>3
<1>4. ASSUME NEW p \in Payload, NEW success \in BOOLEAN, NEW w \in RunIdGiven, NEW t \in ReplyToGiven,
             MessageSent(p, success, w, t)
      PROVE  TypeOK'
  <2>1. /\ pending \in Seq(Entry) /\ visibility \in Seq(Visibility)
        /\ \A i \in DOMAIN pending : pending[i].id \in PendingId
    <3>1. pending \in Seq(Entry) /\ visibility \in Seq(Visibility)
      BY DEF TypeOK, Entry, Visibility
    <3>2. \A i \in DOMAIN pending : pending[i] \in Entry
      BY <3>1, ElementOfSeq, LenProperties
    <3> QED
      BY <3>1, <3>2 DEF Entry
  <2>2. /\ \A x \in Entry : [x EXCEPT !.consumed = TRUE] \in Entry
        /\ \A x \in Visibility : [x EXCEPT !.consumed = TRUE] \in Visibility
    BY DEF Entry, Visibility
  <2>3. /\ \E seen : visibility' = Consume(visibility, seen)
        /\ \E turn : pending' = Consume(pending, turn)
        /\ sent' = sent \cup {p}
        /\ UNCHANGED <<received, proactive, shown, nodeId, ready, runtime, commands>>
    BY <1>4, Zenon DEF MessageSent
  <2>4. visibility' \in Seq(Visibility) /\ Len(visibility') = Len(visibility)
    <3> PICK seen : visibility' = Consume(visibility, seen)
      BY <2>3
    <3> QED
      BY <2>1, <2>2, ConsumeProperties
  <2>5. pending' \in Seq(Entry) /\ Len(pending') = Len(pending)
    <3> PICK turn : pending' = Consume(pending, turn)
      BY <2>3
    <3> QED
      BY <2>1, <2>2, ConsumeProperties
  <2>6. \/ UNCHANGED queueVars
        \/ /\ \E task : Enqueue(task)
           /\ \E a \in Task : queue' = Append(queue, a)
    <3>1. tickets + 1 \in Nat
      BY DEF TypeOK
    <3>3. CASE Enqueue([kind |-> "answer", pending |-> NULL, payload |-> p, named |-> FALSE, ticket |-> 0])
      BY <3>1, <3>3, TaskTypes DEF Enqueue
    <3> DEFINE replyTo == IF t /\ CauseOf[p[1]] \in Identified THEN CauseOf[p[1]] ELSE NULL
    <3> DEFINE named == replyTo # NULL
    <3>4. PendingOf(replyTo) \subseteq DOMAIN pending /\ named \in BOOLEAN
      BY DEF PendingOf, Only, Unconsumed
    <3>5. \/ UNCHANGED queueVars
          \/ Enqueue([kind |-> "answer", pending |-> NULL, payload |-> p, named |-> FALSE, ticket |-> 0])
          \/ \E i \in PendingOf(replyTo) :
               Enqueue([kind |-> "answer", pending |-> pending[i].id, payload |-> p,
                        named |-> named, ticket |-> 0])
      BY <1>4 DEF MessageSent
    <3> HIDE DEF replyTo, named
    <3>6. ASSUME NEW i \in PendingOf(replyTo),
                 Enqueue([kind |-> "answer", pending |-> pending[i].id, payload |-> p,
                          named |-> named, ticket |-> 0])
          PROVE  \E a \in Task : queue' = Append(queue, a)
      <4>1. pending[i].id \in PendingId
        BY <2>1, <3>4
      <4> QED
        BY <3>1, <3>4, <3>6, <4>1, TaskTypes DEF Enqueue
    <3> QED
      BY <3>3, <3>5, <3>6
  <2>7. /\ queue' \in Seq(Task) /\ tickets' \in Nat
        /\ tail' \in 0 .. tickets' /\ DOMAIN after' \subseteq 1 .. tickets'
        /\ \A k \in DOMAIN after' : after'[k] \in 0 .. tickets'
    <3>1. queue \in Seq(Task)
      BY DEF TypeOK
    <3>2. ASSUME NEW a \in Task, queue' = Append(queue, a) PROVE queue' \in Seq(Task)
      BY <3>1, <3>2, AppendProperties
    <3>3. CASE UNCHANGED queueVars
      BY <3>3 DEF TypeOK, queueVars
    <3> QED
      BY <2>6, <3>2, <3>3, EnqueueType
  <2> QED
    BY <2>3, <2>4, <2>5, <2>7 DEF TypeOK, Entry, Visibility
<1>5. ASSUME NEW outcome \in {"ok", "failed"}, ReadySettles(outcome) PROVE TypeOK'
  BY <1>5 DEF TypeOK, ReadySettles, hostVars, queueVars
<1>6. CASE RuntimeCloses
  BY <1>6 DEF TypeOK, RuntimeCloses, hostVars, queueVars
<1>7. ASSUME NEW i \in DOMAIN queue, NEW outcome \in Outcome, QuestionTask(i, outcome) PROVE TypeOK'
  <2>1. queue' \in Seq(Task) /\ commands' \in Seq(Task)
    BY <1>7, WithoutType DEF QuestionTask, TypeOK
  <2>2. nodeId' \in [PendingId -> {"pending", "resolved", "rejected"}]
    BY <1>7 DEF QuestionTask, Settled, TypeOK
  <2>3. runtime' \in {"up", "closed"}
    BY <1>7 DEF QuestionTask, RuntimeAfter, TypeOK
  <2> QED
    BY <1>7, <2>1, <2>2, <2>3 DEF QuestionTask, TypeOK, hostVars
<1>8. ASSUME NEW i \in DOMAIN queue, NEW outcome \in Outcome, AnswerTask(i, outcome) PROVE TypeOK'
  <2>1. queue' \in Seq(Task) /\ commands' \in Seq(Task)
    BY <1>8, WithoutType DEF AnswerTask, TypeOK
  <2>2. runtime' \in {"up", "closed"}
    BY <1>8 DEF AnswerTask, RuntimeAfter, TypeOK
  <2> QED
    BY <1>8, <2>1, <2>2 DEF AnswerTask, TypeOK, hostVars
<1>9. CASE UNCHANGED vars
  BY <1>9 DEF TypeOK, vars
<1>10. ASSUME NEW k \in DOMAIN after, Settle(k) PROVE TypeOK'
  <2>1. /\ tickets' = tickets /\ tail' \in {0, tail}
        /\ DOMAIN after' \subseteq DOMAIN after /\ \A j \in DOMAIN after' : after'[j] = after[j]
    BY <1>10 DEF Settle, Forget
  <2>2. /\ tail' \in 0 .. tickets' /\ DOMAIN after' \subseteq 1 .. tickets'
        /\ \A j \in DOMAIN after' : after'[j] \in 0 .. tickets'
    BY <2>1 DEF TypeOK
  <2> QED
    BY <1>10, <2>2 DEF TypeOK, Settle, hostVars
<1> QED
  BY <1>1, <1>2, <1>3, <1>4, <1>5, <1>6, <1>7, <1>8, <1>9, <1>10 DEF Next, RunTask

LEMMA TypeInit == Init => TypeOK
<1> SUFFICES ASSUME Init PROVE TypeOK
  OBVIOUS
<1>1. 0 \in 0 .. Capacity
  BY AdapterAssumption
<1>2. Len(<<>>) = 0
  BY EmptySeq
<1>3. tail \in 0 .. tickets /\ DOMAIN after = {}
  BY EmptySeq DEF Init
<1> QED
  BY <1>1, <1>2, <1>3, EmptySeq DEF Init, TypeOK

\* The lists, the queue, the promises and the commands keep their shape.
THEOREM AdapterTypeCorrect == Spec => []TypeOK
  BY TypeInit, TypeStep, PTL DEF Spec

-----------------------------------------------------------------------------
(* What a step does to questions, answers and the queue: it adds a question *)
(* with its entry, uses up entries and maybe adds their answer, or runs the *)
(* first task.  The other hooks only touch what these steps leave open.     *)

core == <<received, pending, queue, tickets, nodeId, commands>>

Asks(m, source, q) ==
  /\ Len(received) < MaxReceived
  /\ source \in {m, NULL} /\ source \in Identified \cup {NULL}
  /\ received' = Append(received, m)
  /\ pending' = Push(pending, [id |-> Len(received) + 1, source |-> source, consumed |-> FALSE])
  /\ q \in Task /\ q.kind = "question" /\ q.pending = Len(received) + 1
  /\ q.ticket = tickets + 1 /\ tickets' = tickets + 1
  /\ queue' = Append(queue, q)
  /\ UNCHANGED <<nodeId, commands>>

Uses(turn) ==
  /\ turn \subseteq Unconsumed(pending)
  /\ pending' = Consume(pending, turn)
  /\ UNCHANGED <<received, nodeId, commands>>

\* The answer is anchored at one of the entries it uses up, or at none.
Answering(turn, a) ==
  /\ a \in Task /\ a.kind = "answer"
  /\ a.ticket = tickets + 1 /\ tickets' = tickets + 1
  /\ queue' = Append(queue, a)
  /\ \/ a.pending = NULL /\ ~a.named
     \/ \E i \in turn : /\ a.pending = pending[i].id
                        /\ a.named => /\ pending[i].source = CauseOf[a.payload[1]]
                                      /\ pending[i].source # NULL

Runs ==
  /\ queue # <<>> /\ queue' = Tail(queue)
  /\ UNCHANGED <<received, pending, tickets>>
  /\ commands' \in {commands, Append(commands, Head(queue))}

Settles ==
  /\ Head(queue).kind = "question"
  /\ \E s \in {"resolved", "rejected"} :
       /\ nodeId' = [nodeId EXCEPT ![Head(queue).pending] = s]
       /\ s = "resolved" => commands' = Append(commands, Head(queue))

Anchored ==
  /\ Head(queue).kind = "answer" /\ UNCHANGED nodeId
  /\ commands' = commands \/ AnchorResolved(Head(queue))

CoreTurn ==
  \/ UNCHANGED core
  \/ \E m \in Message, source \in Message \cup {NULL}, q \in Task : Asks(m, source, q)
  \/ \E turn \in SUBSET DOMAIN pending :
       /\ Uses(turn)
       /\ UNCHANGED <<queue, tickets>> \/ \E a \in Task : Answering(turn, a)
  \/ Runs /\ (Settles \/ Anchored)

\* Only the first task may start: the others are chained on one that has not run.
LEMMA FirstRuns ==
  ASSUME TypeOK, Chain, NEW i \in DOMAIN queue, Starts(i)
  PROVE  queue # <<>> /\ queue[i] = Head(queue) /\ Without(i) = Tail(queue)
<1>1. DOMAIN queue = 1 .. Len(queue) /\ Len(queue) \in Nat
  BY LenProperties DEF TypeOK
<1>2. i = 1
  <2> SUFFICES ASSUME i # 1 PROVE FALSE
    OBVIOUS
  <2>0. i - 1 \in DOMAIN queue /\ i = (i - 1) + 1
    BY <1>1
  <2>1. PICK j \in DOMAIN queue : j = i - 1 /\ i = j + 1
    BY <2>0
  <2>2. queue[j].ticket \in DOMAIN after /\ after[queue[i].ticket] = queue[j].ticket
    BY <2>1 DEF Chain
  <2> QED
    BY <2>2 DEF Starts
<1>3. queue # <<>> /\ Head(queue) = queue[1]
  BY <1>1, <1>2, EmptySeq
<1>4. /\ Tail(queue) \in Seq(Task) /\ Len(Tail(queue)) = Len(queue) - 1
      /\ \A j \in 1 .. Len(Tail(queue)) : Tail(queue)[j] = queue[j + 1]
  BY <1>3, HeadTailProperties DEF TypeOK
<1>5. /\ Without(i) \in Seq(Task) /\ DOMAIN Without(i) = 1 .. Len(queue) - 1
      /\ \A j \in 1 .. Len(queue) - 1 : Without(i)[j] = queue[j + 1]
  BY <1>2, WithoutType DEF Without
<1>6. Len(Without(i)) = Len(queue) - 1
  <2> DEFINE rest == Without(i)
  <2>1. rest \in Seq(Task) /\ DOMAIN rest = 1 .. Len(queue) - 1 /\ Len(queue) - 1 \in Nat
    BY <1>1, <1>2, <1>5
  <2> HIDE DEF rest
  <2>2. Len(rest) \in Nat /\ DOMAIN rest = 1 .. Len(rest)
    BY <2>1, LenProperties
  <2>3. 1 .. Len(rest) = 1 .. Len(queue) - 1
    BY <2>1, <2>2
  <2>4. Len(rest) = Len(queue) - 1
    BY <2>1, <2>2, <2>3
  <2> QED
    BY <2>4 DEF rest
<1>7. Without(i) = Tail(queue)
  BY <1>4, <1>5, <1>6, SeqEqual
<1> QED
  BY <1>2, <1>3, <1>7

LEMMA CoreStep == ASSUME TypeOK, Chain, [Next]_vars PROVE CoreTurn
<1>1. ASSUME NEW r \in Run, BeforeAgentRun(r) PROVE UNCHANGED core
  BY <1>1 DEF BeforeAgentRun, core, queueVars
<1>2. ASSUME NEW m \in Message, MessageReceived(m)
      PROVE  \E source \in Message \cup {NULL}, q \in Task : Asks(m, source, q)
  <2> DEFINE source == IF m \in Identified THEN m ELSE NULL
             p == Len(received) + 1
             q == [[kind |-> "question", pending |-> p, payload |-> NULL, named |-> FALSE,
                    ticket |-> 0] EXCEPT !.ticket = tickets + 1]
  <2>1. p \in PendingId /\ tickets + 1 \in Nat
    BY <1>2, LenProperties, AdapterAssumption DEF TypeOK, MessageReceived, PendingId
  <2>2. q \in Task /\ q.kind = "question" /\ q.pending = p /\ q.ticket = tickets + 1
    BY <2>1, TaskTypes
  <2>3. /\ pending' = Push(pending, [id |-> p, source |-> source, consumed |-> FALSE])
        /\ queue' = Append(queue, q) /\ tickets' = tickets + 1
        /\ received' = Append(received, m) /\ Len(received) < MaxReceived
        /\ UNCHANGED <<nodeId, commands>>
    BY <1>2 DEF MessageReceived, Enqueue
  <2>4. source \in {m, NULL} /\ source \in Identified \cup {NULL}
    OBVIOUS
  <2> HIDE DEF q, source
  <2>5. Asks(m, source, q)
    BY <2>2, <2>3, <2>4 DEF Asks
  <2> QED
    BY <2>2, <2>4, <2>5
<1>3. ASSUME NEW p \in Payload, NEW as \in {"visible", "hidden", "suppressed"}, NEW w \in RunIdGiven,
             ReplyPayloadSending(p, as, w)
      PROVE  UNCHANGED core
  BY <1>3 DEF ReplyPayloadSending, core, queueVars
<1>4. ASSUME NEW p \in Payload, NEW success \in BOOLEAN, NEW w \in RunIdGiven, NEW t \in ReplyToGiven,
             MessageSent(p, success, w, t)
      PROVE  \E turn \in SUBSET DOMAIN pending :
               /\ Uses(turn)
               /\ UNCHANGED <<queue, tickets>> \/ \E a \in Task : Answering(turn, a)
  <2> DEFINE run == IF w THEN p[1] ELSE NULL
             replyTo == IF t /\ CauseOf[p[1]] \in Identified THEN CauseOf[p[1]] ELSE NULL
             seen == VisibilityOf(run)
             shownText == {i \in seen : success /\ visibility[i].text = TextOf[p]}
             absent == \E i \in shownText : visibility[i].absent
             turn == IF shownText = {} \/ absent THEN {} ELSE PendingOf(replyTo)
             named == replyTo # NULL
             plain == [kind |-> "answer", pending |-> NULL, payload |-> p, named |-> FALSE, ticket |-> 0]
             anchored(i) == [kind |-> "answer", pending |-> pending[i].id, payload |-> p,
                             named |-> named, ticket |-> 0]
  <2>1. /\ pending' = Consume(pending, turn)
        /\ \/ Enqueue(plain)
           \/ \E i \in turn : Enqueue(anchored(i))
           \/ UNCHANGED <<queue, tickets>>
        /\ UNCHANGED <<received, nodeId, commands>>
    BY <1>4 DEF MessageSent, queueVars
  <2>2. /\ PendingOf(replyTo) \subseteq Unconsumed(pending)
        /\ \A i \in PendingOf(replyTo) : named => pending[i].source = replyTo
    BY DEF PendingOf, Only
  <2>3. named => replyTo = CauseOf[p[1]]
    OBVIOUS
  <2>4. named \in BOOLEAN
    OBVIOUS
  <2>5. turn \subseteq PendingOf(replyTo)
    OBVIOUS
  <2>6. \A i \in DOMAIN pending : pending[i].id \in PendingId
    <3>1. pending \in Seq(Entry)
      BY DEF TypeOK, Entry
    <3>2. \A i \in DOMAIN pending : pending[i] \in Entry
      BY <3>1, ElementOfSeq, LenProperties
    <3> QED
      BY <3>2 DEF Entry
  <2>7. Unconsumed(pending) \subseteq DOMAIN pending /\ tickets + 1 \in Nat
    BY DEF Unconsumed, TypeOK
  <2>8. named => replyTo # NULL
    OBVIOUS
  <2> HIDE DEF turn, named, replyTo
  <2>9. Uses(turn) /\ turn \in SUBSET DOMAIN pending
    BY <2>1, <2>2, <2>5, <2>7 DEF Uses
  <2>10. ASSUME Enqueue(plain) PROVE \E a \in Task : Answering(turn, a)
    <3> DEFINE a == [plain EXCEPT !.ticket = tickets + 1]
    <3>1. a \in Task /\ a.kind = "answer" /\ a.ticket = tickets + 1 /\ a.pending = NULL /\ ~a.named
      BY <2>7, TaskTypes
    <3>2. queue' = Append(queue, a) /\ tickets' = tickets + 1
      BY <2>10 DEF Enqueue
    <3> HIDE DEF a
    <3> QED
      BY <3>1, <3>2 DEF Answering
  <2>11. ASSUME NEW i \in turn, Enqueue(anchored(i)) PROVE \E a \in Task : Answering(turn, a)
    <3> DEFINE a == [anchored(i) EXCEPT !.ticket = tickets + 1]
    <3>1. pending[i].id \in PendingId
      BY <2>6, <2>9
    <3>2. /\ a \in Task /\ a.kind = "answer" /\ a.ticket = tickets + 1
          /\ a.pending = pending[i].id /\ a.named = named /\ a.payload = p
      BY <2>4, <2>7, <3>1, TaskTypes
    <3>3. queue' = Append(queue, a) /\ tickets' = tickets + 1
      BY <2>11 DEF Enqueue
    <3> HIDE DEF a
    <3>4. a.named => pending[i].source = CauseOf[a.payload[1]] /\ pending[i].source # NULL
      BY <2>2, <2>3, <2>5, <2>8, <3>2
    <3> QED
      BY <3>2, <3>3, <3>4 DEF Answering
  <2> QED
    BY <2>1, <2>9, <2>10, <2>11
<1>5. ASSUME NEW outcome \in {"ok", "failed"}, ReadySettles(outcome) PROVE UNCHANGED core
  BY <1>5 DEF ReadySettles, hostVars, queueVars, core
<1>6. CASE RuntimeCloses
  BY <1>6 DEF RuntimeCloses, hostVars, queueVars, core, CoreTurn
<1>7. ASSUME NEW i \in DOMAIN queue, NEW outcome \in Outcome, QuestionTask(i, outcome)
      PROVE  Runs /\ Settles
  <2> DEFINE task == Head(queue)
  <2>0. queue # <<>> /\ queue[i] = task /\ Without(i) = Tail(queue)
    BY <1>7, FirstRuns DEF QuestionTask
  <2>1. Runs
    BY <1>7, <2>0 DEF QuestionTask, Runs, hostVars
  <2>2. /\ task.kind = "question"
        /\ nodeId' = [nodeId EXCEPT ![task.pending] = Settled(outcome)]
        /\ commands' = IF Executes(outcome) THEN Append(commands, task) ELSE commands
    BY <1>7, <2>0 DEF QuestionTask
  <2>3. /\ Settled(outcome) \in {"resolved", "rejected"}
        /\ Settled(outcome) = "resolved" => Executes(outcome)
    BY DEF Settled
  <2> QED
    BY <2>1, <2>2, <2>3 DEF Settles
<1>8. ASSUME NEW i \in DOMAIN queue, NEW outcome \in Outcome, AnswerTask(i, outcome)
      PROVE  Runs /\ Anchored
  <2>1. queue # <<>> /\ queue[i] = Head(queue) /\ Without(i) = Tail(queue)
    BY <1>8, FirstRuns DEF AnswerTask
  <2> QED
    BY <1>8, <2>1 DEF AnswerTask, Runs, Anchored, hostVars
<1>9. CASE UNCHANGED vars
  BY <1>9 DEF vars, core, CoreTurn
<1>10. ASSUME NEW k \in DOMAIN after, Settle(k) PROVE UNCHANGED core
  BY <1>10 DEF Settle, hostVars, core
<1> QED
  BY <1>1, <1>2, <1>3, <1>4, <1>5, <1>6, <1>7, <1>8, <1>9, <1>10 DEF Next, RunTask, CoreTurn

LEMMA Appended ==
  ASSUME NEW S, NEW s \in Seq(S), NEW e \in S
  PROVE  /\ Len(s) \in Nat /\ DOMAIN s = 1 .. Len(s)
         /\ Len(Append(s, e)) = Len(s) + 1
         /\ DOMAIN Append(s, e) = 1 .. Len(s) + 1
         /\ \A i \in DOMAIN s : Append(s, e)[i] = s[i]
         /\ Append(s, e)[Len(s) + 1] = e
<1>1. /\ Append(s, e) \in Seq(S) /\ Len(Append(s, e)) = Len(s) + 1
      /\ \A i \in 1 .. Len(s) : Append(s, e)[i] = s[i]
      /\ Append(s, e)[Len(s) + 1] = e
  BY AppendProperties
<1>2. /\ Len(s) \in Nat /\ DOMAIN s = 1 .. Len(s)
      /\ DOMAIN Append(s, e) = 1 .. Len(Append(s, e))
  BY <1>1, LenProperties
<1> QED
  BY <1>1, <1>2

LEMMA Taken ==
  ASSUME NEW S, NEW s \in Seq(S), s # <<>>
  PROVE  /\ Len(s) \in Nat \ {0} /\ DOMAIN s = 1 .. Len(s)
         /\ DOMAIN Tail(s) = 1 .. Len(s) - 1
         /\ \A i \in DOMAIN Tail(s) : Tail(s)[i] = s[i + 1] /\ i + 1 \in DOMAIN s
         /\ Head(s) = s[1] /\ 1 \in DOMAIN s
<1>1. /\ Tail(s) \in Seq(S) /\ Len(Tail(s)) = Len(s) - 1
      /\ \A i \in 1 .. Len(Tail(s)) : Tail(s)[i] = s[i + 1]
  BY HeadTailProperties
<1>2. Len(s) \in Nat \ {0} /\ DOMAIN s = 1 .. Len(s) /\ DOMAIN Tail(s) = 1 .. Len(Tail(s))
  BY <1>1, LenProperties, EmptySeq
<1>3. Head(s) = s[1]
  OBVIOUS
<1> QED
  BY <1>1, <1>2, <1>3

LEMMA WritesType ==
  ASSUME TypeOK
  PROVE  /\ queue \in Seq(Task) /\ commands \in Seq(Task) /\ Writes \subseteq Task
         /\ tickets \in Nat
<1>1. queue \in Seq(Task) /\ commands \in Seq(Task) /\ tickets \in Nat
  BY DEF TypeOK
<1>2. /\ \A i \in DOMAIN queue : queue[i] \in Task
      /\ \A i \in DOMAIN commands : commands[i] \in Task
  BY <1>1, ElementOfSeq, LenProperties
<1> QED
  BY <1>1, <1>2 DEF Writes

\* What each kind of step does to the set of writes.
LEMMA WritesStep ==
  ASSUME TypeOK
  PROVE  /\ \A a \in Task : queue' = Append(queue, a) /\ UNCHANGED commands => Writes' = Writes \cup {a}
         /\ UNCHANGED <<queue, commands>> => Writes' = Writes
         /\ Runs => Writes' \subseteq Writes
<1>1. ASSUME NEW a \in Task, queue' = Append(queue, a), UNCHANGED commands
      PROVE  Writes' = Writes \cup {a}
  <2>1. /\ DOMAIN queue' = DOMAIN queue \cup {Len(queue) + 1}
        /\ \A i \in DOMAIN queue : queue'[i] = queue[i]
        /\ queue'[Len(queue) + 1] = a
        /\ Len(queue) + 1 \notin DOMAIN queue
    BY <1>1, WritesType, Appended
  <2> QED
    BY <1>1, <2>1 DEF Writes
<1>2. ASSUME Runs PROVE Writes' \subseteq Writes
  <2>1. /\ \A i \in DOMAIN queue' : queue'[i] = queue[i + 1] /\ i + 1 \in DOMAIN queue
        /\ Head(queue) = queue[1] /\ 1 \in DOMAIN queue
    BY <1>2, WritesType, Taken DEF Runs
  <2>2. Head(queue) \in Task
    BY <1>2, QueueType DEF Runs
  <2>3. \A i \in DOMAIN commands' :
          \/ i \in DOMAIN commands /\ commands'[i] = commands[i]
          \/ commands'[i] = Head(queue)
    <3>1. CASE commands' = commands
      BY <3>1
    <3>2. CASE commands' = Append(commands, Head(queue))
      BY <2>2, <3>2, WritesType, Appended
    <3> QED
      BY <1>2, <3>1, <3>2 DEF Runs
  <2> QED
    BY <2>1, <2>3 DEF Writes
<1> QED
  BY <1>1, <1>2 DEF Writes

-----------------------------------------------------------------------------
(* The chain of promises.                                                  *)

LEMMA PendingType ==
  ASSUME TypeOK
  PROVE  /\ pending \in Seq(Entry) /\ Len(pending) \in Nat /\ Len(pending) <= Capacity
         /\ DOMAIN pending = 1 .. Len(pending)
         /\ \A i \in DOMAIN pending : pending[i] \in Entry
<1>1. pending \in Seq(Entry) /\ Len(pending) \in 0 .. Capacity
  BY DEF TypeOK, Entry
<1>2. Len(pending) \in Nat /\ Len(pending) <= Capacity
  BY <1>1, AdapterAssumption
<1> QED
  BY <1>1, <1>2, ElementOfSeq, LenProperties

LEMMA ChainEnqueue ==
  ASSUME TypeOK, Chain, NEW a, Enqueue(a), NEW b \in Task, queue' = Append(queue, b),
         b.ticket = tickets'
  PROVE  Chain'
<1>1. /\ DOMAIN queue = 1 .. Len(queue) /\ Len(queue) \in Nat /\ DOMAIN queue' = 1 .. Len(queue) + 1
      /\ Len(queue') = Len(queue) + 1
      /\ \A i \in DOMAIN queue : queue'[i] = queue[i]
      /\ queue'[Len(queue) + 1] = b
  BY WritesType, Appended
<1>2. /\ tail' = tickets' /\ DOMAIN after' = DOMAIN after \cup {tickets'}
      /\ after'[tickets'] = tail /\ \A k \in DOMAIN after : after'[k] = after[k]
      /\ tickets' = tickets + 1
  BY EnqueueType
<1>3. \A i \in DOMAIN queue' : queue'[i].ticket \in DOMAIN after'
  BY <1>1, <1>2 DEF Chain
<1>4. ASSUME NEW i \in DOMAIN queue', NEW j \in DOMAIN queue', j = i + 1
      PROVE  after'[queue'[j].ticket] = queue'[i].ticket
  <2>1. CASE j \in DOMAIN queue
    <3>1. i \in DOMAIN queue
      BY <1>1, <1>4, <2>1
    <3> QED
      BY <1>1, <1>2, <1>4, <2>1, <3>1 DEF Chain
  <2>2. CASE j \notin DOMAIN queue
    <3>1. j = Len(queue) + 1 /\ i = Len(queue) /\ i \in DOMAIN queue
      BY <1>1, <1>4, <2>2
    <3> QED
      BY <1>1, <1>2, <3>1 DEF Chain
  <2> QED
    BY <2>1, <2>2
<1>5. \A k \in DOMAIN after' : after'[k] < k
  <2>1. tail < tickets'
    BY <1>2 DEF TypeOK
  <2> QED
    BY <1>2, <2>1 DEF Chain
<1> QED
  BY <1>1, <1>2, <1>3, <1>4, <1>5 DEF Chain

\* A task that runs leaves the rest of the chain as it was.
LEMMA ChainRuns ==
  ASSUME TypeOK, Chain, Runs, UNCHANGED <<tail, after>>
  PROVE  Chain'
<1>1. /\ DOMAIN queue = 1 .. Len(queue) /\ Len(queue) \in Nat \ {0}
      /\ DOMAIN queue' = 1 .. Len(queue) - 1
      /\ \A i \in DOMAIN queue' : queue'[i] = queue[i + 1] /\ i + 1 \in DOMAIN queue
  BY WritesType, Taken DEF Runs
<1>2. Len(queue') = Len(queue) - 1
  BY QueueType, <1>1, LenProperties DEF Runs
<1>3. ASSUME NEW i \in DOMAIN queue', NEW j \in DOMAIN queue', j = i + 1
      PROVE  after'[queue'[j].ticket] = queue'[i].ticket
  <2>1. PICK k \in DOMAIN queue, l \in DOMAIN queue : k = i + 1 /\ l = j + 1 /\ l = k + 1
    BY <1>1, <1>3
  <2> QED
    BY <1>1, <2>1 DEF Chain
<1>4. ASSUME NEW i \in DOMAIN queue', i = Len(queue') PROVE tail' = queue'[i].ticket
  <2>1. PICK k \in DOMAIN queue : k = i + 1 /\ k = Len(queue)
    BY <1>1, <1>2, <1>4
  <2> QED
    BY <1>1, <2>1 DEF Chain
<1>5. \A i \in DOMAIN queue' : queue'[i].ticket \in DOMAIN after'
  BY <1>1 DEF Chain
<1> QED
  BY <1>3, <1>4, <1>5 DEF Chain

\* A promise that settles is not a queued task's, so it deletes the tail only
\* when the queue is empty.
LEMMA ChainSettle ==
  ASSUME TypeOK, Chain, NEW k \in DOMAIN after, Settle(k)
  PROVE  Chain'
<1>1. /\ UNCHANGED queue /\ tail' = Forget(k)
      /\ after' = [j \in DOMAIN after \ {k} |-> after[j]]
      /\ \A i \in DOMAIN queue : queue[i].ticket # k
  BY DEF Settle
<1>2. /\ DOMAIN after' = DOMAIN after \ {k}
      /\ \A j \in DOMAIN after' : after'[j] = after[j]
  BY <1>1
<1>3. \A i \in DOMAIN queue : i = Len(queue) => tail' = queue[i].ticket
  BY <1>1 DEF Chain, Forget
<1>4. \A i \in DOMAIN queue : queue[i].ticket \in DOMAIN after'
  BY <1>1, <1>2 DEF Chain
<1> QED
  BY <1>1, <1>2, <1>3, <1>4 DEF Chain

LEMMA ChainStep == ASSUME TypeOK, Chain, [Next]_vars PROVE Chain'
<1>1. ASSUME UNCHANGED queueVars PROVE Chain'
  BY <1>1 DEF Chain, queueVars
<1>2. ASSUME NEW m \in Message, MessageReceived(m) PROVE Chain'
  <2> DEFINE p == Len(received) + 1
             plain == [kind |-> "question", pending |-> p, payload |-> NULL, named |-> FALSE,
                       ticket |-> 0]
             q == [plain EXCEPT !.ticket = tickets + 1]
  <2>1. p \in PendingId /\ tickets + 1 \in Nat
    BY <1>2, LenProperties, AdapterAssumption DEF TypeOK, MessageReceived, PendingId
  <2>2. q \in Task /\ q.ticket = tickets + 1
    BY <2>1, TaskTypes
  <2>3. Enqueue(plain)
    BY <1>2 DEF MessageReceived
  <2>4. queue' = Append(queue, q) /\ tickets' = tickets + 1
    BY <2>3 DEF Enqueue
  <2> HIDE DEF q, plain
  <2> QED
    BY <2>2, <2>3, <2>4, ChainEnqueue
<1>3. ASSUME NEW p \in Payload, NEW success \in BOOLEAN, NEW w \in RunIdGiven, NEW t \in ReplyToGiven,
             MessageSent(p, success, w, t)
      PROVE  Chain'
  <2> DEFINE replyTo == IF t /\ CauseOf[p[1]] \in Identified THEN CauseOf[p[1]] ELSE NULL
             named == replyTo # NULL
             task(pid, b) == [kind |-> "answer", pending |-> pid, payload |-> p, named |-> b,
                              ticket |-> 0]
  <2>1. \/ UNCHANGED queueVars
        \/ Enqueue(task(NULL, FALSE))
        \/ \E i \in PendingOf(replyTo) : Enqueue(task(pending[i].id, named))
    BY <1>3 DEF MessageSent
  <2>2. PendingOf(replyTo) \subseteq DOMAIN pending /\ named \in BOOLEAN
    BY DEF PendingOf, Only, Unconsumed
  <2>3. \A i \in DOMAIN pending : pending[i].id \in PendingId
    BY PendingType DEF Entry
  <2> HIDE DEF replyTo, named
  <2>4. ASSUME NEW pid \in PendingId \cup {NULL}, NEW b \in BOOLEAN, Enqueue(task(pid, b))
        PROVE  Chain'
    <3> DEFINE a == [task(pid, b) EXCEPT !.ticket = tickets + 1]
    <3>0. tickets + 1 \in Nat
      BY DEF TypeOK
    <3>1. a \in Task /\ a.ticket = tickets + 1
      BY <3>0, TaskTypes
    <3>2. queue' = Append(queue, a) /\ tickets' = tickets + 1
      BY <2>4 DEF Enqueue
    <3> HIDE DEF a
    <3> QED
      BY <2>4, <3>1, <3>2, ChainEnqueue
  <2> QED
    BY <1>1, <2>1, <2>2, <2>3, <2>4
<1>4. ASSUME NEW i \in DOMAIN queue, NEW outcome \in Outcome,
             QuestionTask(i, outcome) \/ AnswerTask(i, outcome)
      PROVE  Chain'
  <2>1. Starts(i) /\ queue' = Without(i) /\ UNCHANGED <<hostVars, tickets, tail, after>>
    BY <1>4 DEF QuestionTask, AnswerTask
  <2>2. Runs
    BY <1>4, <2>1, FirstRuns DEF QuestionTask, AnswerTask, Runs, hostVars
  <2> QED
    BY <2>1, <2>2, ChainRuns
<1> QED
  BY <1>1, <1>2, <1>3, <1>4, ChainSettle
  DEF Next, RunTask, vars, queueVars, BeforeAgentRun, ReplyPayloadSending, ReadySettles, RuntimeCloses

-----------------------------------------------------------------------------
(* Order.                                                                  *)

LEMMA OrderEnqueue ==
  ASSUME TypeOK, Order, NEW a \in Task, a.ticket = tickets + 1, tickets' = tickets + 1,
         queue' = Append(queue, a), UNCHANGED commands
  PROVE  Order'
<1>1. /\ DOMAIN queue = 1 .. Len(queue) /\ Len(queue) \in Nat /\ DOMAIN queue' = 1 .. Len(queue) + 1
      /\ \A i \in DOMAIN queue : queue'[i] = queue[i]
      /\ queue'[Len(queue) + 1] = a
  BY WritesType, Appended
<1>2. /\ \A w \in Writes : w.ticket \in Nat /\ w.ticket <= tickets
      /\ tickets \in Nat
  BY WritesType DEF Order, Task
<1>3. \A i, j \in DOMAIN queue' : i < j => queue'[i].ticket < queue'[j].ticket
  <2>1. \A i \in DOMAIN queue : queue[i].ticket < a.ticket
    BY <1>2 DEF Writes
  <2> QED
    BY <1>1, <2>1 DEF Order
<1>4. \A i \in DOMAIN commands', j \in DOMAIN queue' : commands'[i].ticket < queue'[j].ticket
  <2>1. \A i \in DOMAIN commands : commands[i].ticket < a.ticket
    BY <1>2 DEF Writes
  <2> QED
    BY <1>1, <2>1 DEF Order
<1>5. \A w \in Writes' : w.ticket <= tickets'
  <2>1. Writes' = Writes \cup {a}
    BY WritesStep
  <2> QED
    BY <1>2, <2>1
<1> QED
  BY <1>3, <1>4, <1>5 DEF Order, SessionOrder

LEMMA OrderRuns ==
  ASSUME TypeOK, Order, Runs
  PROVE  Order'
<1>1. /\ DOMAIN queue = 1 .. Len(queue) /\ Len(queue) \in Nat
      /\ \A i \in DOMAIN queue' : queue'[i] = queue[i + 1] /\ i + 1 \in DOMAIN queue
      /\ DOMAIN queue' = 1 .. Len(queue) - 1
      /\ Head(queue) = queue[1] /\ 1 \in DOMAIN queue
  BY WritesType, Taken DEF Runs
<1>2. \A i, j \in DOMAIN queue' : i < j => queue'[i].ticket < queue'[j].ticket
  BY <1>1 DEF Order
<1>3. \A i \in DOMAIN commands, j \in DOMAIN queue' : commands[i].ticket < queue'[j].ticket
  BY <1>1 DEF Order
<1>4. \A j \in DOMAIN queue' : Head(queue).ticket < queue'[j].ticket
  BY <1>1 DEF Order
<1>5. \A w \in Writes' : w.ticket <= tickets'
  BY WritesStep DEF Runs, Order
<1>6. CASE commands' = commands
  BY <1>2, <1>3, <1>5, <1>6 DEF Order, SessionOrder
<1>7. CASE commands' = Append(commands, Head(queue))
  <2>1. /\ DOMAIN commands = 1 .. Len(commands) /\ Len(commands) \in Nat
        /\ DOMAIN commands' = 1 .. Len(commands) + 1
        /\ \A i \in DOMAIN commands : commands'[i] = commands[i]
        /\ commands'[Len(commands) + 1] = Head(queue)
    BY <1>7, WritesType, QueueType, Appended DEF Runs
  <2>2. \A i \in DOMAIN commands : commands[i].ticket < Head(queue).ticket
    BY <1>1 DEF Order
  <2>3. \A i, j \in DOMAIN commands' : i < j => commands'[i].ticket < commands'[j].ticket
    BY <2>1, <2>2 DEF Order, SessionOrder
  <2>4. \A i \in DOMAIN commands', j \in DOMAIN queue' : commands'[i].ticket < queue'[j].ticket
    BY <1>3, <1>4, <2>1
  <2> QED
    BY <1>2, <1>5, <2>3, <2>4 DEF Order, SessionOrder
<1> QED
  BY <1>6, <1>7 DEF Runs

LEMMA OrderStep == ASSUME TypeOK, Order, CoreTurn PROVE Order'
<1>1. ASSUME UNCHANGED <<queue, tickets, commands>> PROVE Order'
  BY <1>1 DEF Order, SessionOrder, Writes
<1>2. ASSUME NEW m, NEW source, NEW q \in Task, Asks(m, source, q) PROVE Order'
  BY <1>2, OrderEnqueue DEF Asks
<1>3. ASSUME NEW turn, Uses(turn), UNCHANGED <<queue, tickets>> PROVE Order'
  BY <1>1, <1>3 DEF Uses
<1>4. ASSUME NEW turn, NEW a \in Task, Uses(turn), Answering(turn, a) PROVE Order'
  BY <1>4, OrderEnqueue DEF Uses, Answering
<1> QED
  BY <1>1, <1>2, <1>3, <1>4, OrderRuns DEF CoreTurn, core

-----------------------------------------------------------------------------
(* Promises.                                                               *)

LEMMA Counted ==
  ASSUME TypeOK
  PROVE  /\ Len(received) \in Nat /\ MaxReceived \in Nat
         /\ nodeId \in [PendingId -> {"pending", "resolved", "rejected"}]
         /\ PendingId = 1 .. MaxReceived
  BY LenProperties, AdapterAssumption DEF TypeOK, PendingId

LEMMA PromisesAsks ==
  ASSUME TypeOK, Promises, NEW m \in Message, NEW source, NEW q \in Task, Asks(m, source, q)
  PROVE  Promises'
<1>1. /\ DOMAIN queue = 1 .. Len(queue) /\ Len(queue) \in Nat /\ DOMAIN queue' = 1 .. Len(queue) + 1
      /\ \A i \in DOMAIN queue : queue'[i] = queue[i]
      /\ queue'[Len(queue) + 1] = q
  BY WritesType, Appended DEF Asks
<1>2. Len(received') = Len(received) + 1 /\ Len(received) < MaxReceived
  BY Appended DEF Asks, TypeOK
<1>3. q.kind = "question" /\ q.pending = Len(received) + 1 /\ UNCHANGED <<nodeId, commands>>
  BY DEF Asks
<1>4. nodeId[Len(received) + 1] = "pending"
  BY <1>2, Counted DEF Promises
<1>5. \A i \in DOMAIN queue' : queue'[i].kind = "question" =>
        /\ queue'[i].pending \in 1 .. Len(received')
        /\ nodeId'[queue'[i].pending] = "pending"
        /\ \A j \in DOMAIN queue' :
             queue'[j].kind = "question" /\ queue'[j].pending = queue'[i].pending => i = j
  BY <1>1, <1>2, <1>3, <1>4, Counted DEF Promises
<1>6. \A p \in PendingId : p > Len(received') => nodeId'[p] = "pending"
  BY <1>2, <1>3, Counted DEF Promises
<1> QED
  BY <1>2, <1>3, <1>5, <1>6, Counted DEF Promises, AnswerAfterQuestion

LEMMA PromisesAnswering ==
  ASSUME TypeOK, Promises, NEW turn, NEW a \in Task, Uses(turn), Answering(turn, a)
  PROVE  Promises'
<1>1. /\ DOMAIN queue = 1 .. Len(queue) /\ Len(queue) \in Nat /\ DOMAIN queue' = 1 .. Len(queue) + 1
      /\ \A i \in DOMAIN queue : queue'[i] = queue[i]
      /\ queue'[Len(queue) + 1] = a
  BY WritesType, Appended DEF Answering
<1>2. a.kind = "answer" /\ UNCHANGED <<received, nodeId, commands>>
  BY DEF Uses, Answering
<1>3. \A i \in DOMAIN queue' : queue'[i].kind = "question" => i \in DOMAIN queue /\ queue'[i] = queue[i]
  BY <1>1, <1>2
<1>4. \A i \in DOMAIN queue' : queue'[i].kind = "question" =>
        /\ queue'[i].pending \in 1 .. Len(received')
        /\ nodeId'[queue'[i].pending] = "pending"
        /\ \A j \in DOMAIN queue' :
             queue'[j].kind = "question" /\ queue'[j].pending = queue'[i].pending => i = j
  BY <1>2, <1>3 DEF Promises
<1> QED
  BY <1>2, <1>4 DEF Promises, AnswerAfterQuestion

LEMMA PromisesRuns ==
  ASSUME TypeOK, Promises, Runs, Settles \/ Anchored
  PROVE  Promises'
<1> DEFINE h == Head(queue)
           n == Len(commands) + 1
<1>1. /\ DOMAIN queue = 1 .. Len(queue) /\ Len(queue) \in Nat
      /\ \A i \in DOMAIN queue' : queue'[i] = queue[i + 1] /\ i + 1 \in DOMAIN queue
      /\ DOMAIN queue' = 1 .. Len(queue) - 1
      /\ h = queue[1] /\ 1 \in DOMAIN queue
  BY WritesType, Taken DEF Runs
<1>2. h \in Task /\ UNCHANGED received
  BY QueueType DEF Runs
<1>3. /\ DOMAIN commands = 1 .. Len(commands) /\ Len(commands) \in Nat
      /\ commands' = commands \/ commands' = Append(commands, h)
      /\ DOMAIN commands \subseteq DOMAIN commands'
      /\ \A i \in DOMAIN commands : commands'[i] = commands[i]
      /\ \A i \in DOMAIN commands' : i \in DOMAIN commands \/ (i = n /\ commands'[n] = h /\ n \in DOMAIN commands')
      /\ commands' = Append(commands, h) => n \in DOMAIN commands' /\ commands'[n] = h
  <2>1. commands \in Seq(Task) /\ (commands' = commands \/ commands' = Append(commands, h))
    BY WritesType DEF Runs
  <2>2. DOMAIN commands = 1 .. Len(commands) /\ Len(commands) \in Nat
    BY <2>1, LenProperties
  <2> HIDE DEF h
  <2>3. CASE commands' = Append(commands, h)
    <3>1. /\ DOMAIN commands' = 1 .. n /\ commands'[n] = h
          /\ \A i \in DOMAIN commands : commands'[i] = commands[i]
      BY <1>2, <2>1, <2>3, Appended
    <3> QED
      BY <2>1, <2>2, <3>1
  <2>4. CASE commands' = commands /\ commands' # Append(commands, h)
    BY <2>1, <2>2, <2>4
  <2> QED
    BY <2>1, <2>3, <2>4
<1> HIDE DEF h, n
<1>4. CASE Settles
  <2> PICK s \in {"resolved", "rejected"} :
         /\ nodeId' = [nodeId EXCEPT ![h.pending] = s]
         /\ s = "resolved" => commands' = Append(commands, h)
    BY <1>4 DEF Settles, h
  <2>1. /\ h.kind = "question" /\ h.pending \in 1 .. Len(received) /\ nodeId[h.pending] = "pending"
        /\ h.pending \in PendingId
    BY <1>1, <1>4, Counted DEF Settles, Promises, h
  <2>2. /\ nodeId'[h.pending] = s
        /\ \A p \in PendingId : p # h.pending => nodeId'[p] = nodeId[p]
    BY <2>1, Counted
  <2>3. \A i \in DOMAIN queue' : queue'[i].kind = "question" => queue'[i].pending # h.pending
    BY <1>1, <2>1 DEF Promises
  <2>4. \A i \in DOMAIN queue' : queue'[i].kind = "question" =>
          /\ queue'[i].pending \in 1 .. Len(received')
          /\ nodeId'[queue'[i].pending] = "pending"
          /\ \A j \in DOMAIN queue' :
               queue'[j].kind = "question" /\ queue'[j].pending = queue'[i].pending => i = j
    <3>1. \A i \in DOMAIN queue' : queue'[i].kind = "question" =>
            /\ queue'[i].pending \in 1 .. Len(received) /\ queue'[i].pending \in PendingId
            /\ nodeId[queue'[i].pending] = "pending"
      BY <1>1, Counted DEF Promises
    <3>2. \A i, j \in DOMAIN queue' :
            queue'[i].kind = "question" /\ queue'[j].kind = "question"
              /\ queue'[j].pending = queue'[i].pending => i = j
      <4>1. \A i, j \in DOMAIN queue :
              queue[i].kind = "question" /\ queue[j].kind = "question"
                /\ queue[j].pending = queue[i].pending => i = j
        BY DEF Promises
      <4>2. \A i, j \in DOMAIN queue' : i + 1 = j + 1 => i = j
        BY <1>1
      <4> QED
        BY <1>1, <4>1, <4>2
    <3> QED
      BY <1>2, <2>2, <2>3, <3>1, <3>2
  <2>5. \A p \in PendingId : p > Len(received') => nodeId'[p] = "pending"
    BY <1>2, <2>1, <2>2, Counted DEF Promises
  <2>6. \A p \in PendingId : nodeId'[p] = "resolved" =>
          \E j \in DOMAIN commands' : commands'[j].kind = "question" /\ commands'[j].pending = p
    <3> SUFFICES ASSUME NEW p \in PendingId, nodeId'[p] = "resolved"
                 PROVE  \E j \in DOMAIN commands' : commands'[j].kind = "question" /\ commands'[j].pending = p
      OBVIOUS
    <3>1. CASE p = h.pending
      BY <1>3, <2>1, <2>2, <3>1
    <3>2. CASE p # h.pending
      BY <1>3, <2>2, <3>2 DEF Promises
    <3> QED
      BY <3>1, <3>2
  <2>7. AnswerAfterQuestion'
    <3> SUFFICES ASSUME NEW i \in DOMAIN commands', commands'[i].kind = "answer", commands'[i].pending # NULL
                 PROVE  \E j \in 1 .. i - 1 : /\ commands'[j].kind = "question"
                                              /\ commands'[j].pending = commands'[i].pending
                                              /\ nodeId'[commands'[j].pending] = "resolved"
      BY DEF AnswerAfterQuestion
    <3>1. i \in DOMAIN commands /\ commands'[i] = commands[i]
      BY <1>3, <2>1
    <3>2. PICK j \in 1 .. i - 1 : /\ commands[j].kind = "question"
                                  /\ commands[j].pending = commands[i].pending
                                  /\ nodeId[commands[j].pending] = "resolved"
      BY <3>1 DEF Promises, AnswerAfterQuestion
    <3>3. j \in DOMAIN commands /\ commands'[j] = commands[j]
      BY <1>3, <3>1
    <3>4. commands[i].pending \in PendingId
      <4>1. commands[i] \in Task
        BY <3>1, WritesType DEF Writes
      <4> QED
        BY <3>1, <4>1 DEF Task
    <3>5. nodeId'[commands[j].pending] = "resolved"
      BY <2>1, <2>2, <3>2, <3>4
    <3> QED
      BY <3>1, <3>2, <3>3, <3>5
  <2> QED
    BY <1>2, <2>4, <2>5, <2>6, <2>7 DEF Promises
<1>5. CASE Anchored
  <2>1. h.kind = "answer" /\ UNCHANGED nodeId /\ (commands' = commands \/ AnchorResolved(h))
    BY <1>5 DEF Anchored, h
  <2>2. \A i \in DOMAIN queue' : queue'[i].kind = "question" =>
          /\ queue'[i].pending \in 1 .. Len(received')
          /\ nodeId'[queue'[i].pending] = "pending"
    BY <1>1, <1>2, <2>1 DEF Promises
  <2>3. \A i, j \in DOMAIN queue' :
          queue'[i].kind = "question" /\ queue'[j].kind = "question"
            /\ queue'[j].pending = queue'[i].pending => i = j
    <3>1. \A i, j \in DOMAIN queue :
            queue[i].kind = "question" /\ queue[j].kind = "question"
              /\ queue[j].pending = queue[i].pending => i = j
      BY DEF Promises
    <3>2. \A i, j \in DOMAIN queue' : i + 1 = j + 1 => i = j
      BY <1>1
    <3> QED
      BY <1>1, <3>1, <3>2
  <2>4. \A p \in PendingId : nodeId'[p] = "resolved" =>
          \E j \in DOMAIN commands' : commands'[j].kind = "question" /\ commands'[j].pending = p
    BY <1>3, <2>1 DEF Promises
  <2>5. AnswerAfterQuestion'
    <3> SUFFICES ASSUME NEW i \in DOMAIN commands', commands'[i].kind = "answer", commands'[i].pending # NULL
                 PROVE  \E j \in 1 .. i - 1 : /\ commands'[j].kind = "question"
                                              /\ commands'[j].pending = commands'[i].pending
                                              /\ nodeId'[commands'[j].pending] = "resolved"
      BY DEF AnswerAfterQuestion
    <3>1. CASE i \in DOMAIN commands
      <4>1. PICK j \in 1 .. i - 1 : /\ commands[j].kind = "question"
                                    /\ commands[j].pending = commands[i].pending
                                    /\ nodeId[commands[j].pending] = "resolved"
        BY <1>3, <3>1 DEF Promises, AnswerAfterQuestion
      <4>2. j \in DOMAIN commands
        BY <1>3, <3>1
      <4> QED
        BY <1>3, <2>1, <3>1, <4>1, <4>2
    <3>2. CASE i \notin DOMAIN commands
      <4>1. i = n /\ commands'[i] = h
        BY <1>3, <3>2
      <4>2. commands' # commands
        BY <3>2
      <4>3. h.pending # NULL /\ nodeId[h.pending] = "resolved" /\ h.pending \in PendingId
        BY <1>2, <2>1, <4>1, <4>2 DEF AnchorResolved, Task
      <4>4. PICK j \in DOMAIN commands : commands[j].kind = "question" /\ commands[j].pending = h.pending
        BY <4>3 DEF Promises
      <4>5. j \in 1 .. i - 1 /\ commands'[j] = commands[j]
        BY <1>3, <4>1 DEF n
      <4> QED
        BY <2>1, <4>1, <4>3, <4>4, <4>5
    <3> QED
      BY <3>1, <3>2
  <2> QED
    BY <1>2, <2>1, <2>2, <2>3, <2>4, <2>5 DEF Promises
<1> QED
  BY <1>4, <1>5

LEMMA PromisesStep == ASSUME TypeOK, Promises, CoreTurn PROVE Promises'
<1>1. ASSUME UNCHANGED <<received, queue, nodeId, commands>> PROVE Promises'
  BY <1>1 DEF Promises, AnswerAfterQuestion
<1>2. ASSUME NEW turn, Uses(turn), UNCHANGED <<queue, tickets>> PROVE Promises'
  BY <1>1, <1>2 DEF Uses
<1>3. ASSUME NEW m \in Message, NEW source, NEW q \in Task, Asks(m, source, q) PROVE Promises'
  BY <1>3, PromisesAsks
<1>4. ASSUME NEW turn, NEW a \in Task, Uses(turn), Answering(turn, a) PROVE Promises'
  BY <1>4, PromisesAnswering
<1>5. ASSUME Runs, Settles \/ Anchored PROVE Promises'
  BY <1>5, PromisesRuns
<1> QED
  BY <1>1, <1>2, <1>3, <1>4, <1>5 DEF CoreTurn, core

-----------------------------------------------------------------------------
(* Claims.                                                                 *)

LEMMA ClaimedAsks ==
  ASSUME TypeOK, Promises, Claimed,
         NEW m \in Message, NEW source \in Message \cup {NULL}, NEW q \in Task, Asks(m, source, q)
  PROVE  Claimed'
<1> DEFINE p == Len(received) + 1
           e == [id |-> p, source |-> source, consumed |-> FALSE]
           n == Len(pending)
<1>1. /\ Len(received) \in Nat /\ DOMAIN received = 1 .. Len(received)
      /\ Len(received') = p
      /\ \A i \in 1 .. Len(received) : received'[i] = received[i]
      /\ received'[p] = m
  BY Appended DEF Asks, TypeOK
<1>2. p \in PendingId /\ e \in Entry
  <2>1. Len(received) < MaxReceived /\ source \in Identified \cup {NULL}
    BY DEF Asks
  <2>2. p \in PendingId
    BY <1>1, <2>1, Counted
  <2> QED
    BY <2>1, <2>2 DEF Entry
<1>3. e.id = p /\ e.source = source /\ source \in {m, NULL}
  BY DEF Asks
<1>4. pending' = Push(pending, e)
  BY DEF Asks
<1> HIDE DEF e, p, n
<1>5. PICK k \in {0, 1} :
        /\ pending' \in Seq(Entry) /\ Len(pending') = n + 1 - k
        /\ \A i \in 1 .. Len(pending') : pending'[i] = Append(pending, e)[i + k]
  <2>1. pending \in Seq(Entry) /\ Len(pending) <= Capacity /\ e \in Entry
    BY <1>2, PendingType
  <2>2. pending' \in Seq(Entry) /\ Evicts(pending, e, pending')
    BY <1>4, <2>1, PushProperties
  <2> QED
    BY <2>2 DEF Evicts, n
<1>6. /\ n \in Nat /\ DOMAIN pending = 1 .. n
      /\ \A i \in 1 .. n : Append(pending, e)[i] = pending[i]
      /\ Append(pending, e)[n + 1] = e
  BY <1>2, PendingType, Appended DEF n
<1>7. DOMAIN pending' = 1 .. n + 1 - k
  BY <1>5, LenProperties
\* An entry of the new list is an old one or the new one.
<1>8. \A i \in DOMAIN pending' :
        \/ i + k \in DOMAIN pending /\ pending'[i] = pending[i + k]
        \/ i + k = n + 1 /\ pending'[i] = e
  BY <1>5, <1>6, <1>7
<1>9. \A i \in DOMAIN pending : pending[i].id \in 1 .. Len(received)
  BY DEF Claimed
<1>10. \A i \in DOMAIN pending' :
         /\ pending'[i].id \in 1 .. Len(received')
         /\ pending'[i].source # NULL => received'[pending'[i].id] = pending'[i].source
  BY <1>1, <1>3, <1>8, <1>9 DEF Claimed, p
<1>11. \A i, j \in DOMAIN pending' : pending'[i].id = pending'[j].id => i = j
  <2>1. \A i, j \in DOMAIN pending : pending[i].id = pending[j].id => i = j
    BY DEF Claimed
  <2>2. \A i \in DOMAIN pending : pending[i].id # p
    BY <1>1, <1>9 DEF p
  <2>3. \A i, j \in DOMAIN pending' : i + k = j + k => i = j
    BY <1>5, <1>6, <1>7
  <2> QED
    BY <1>3, <1>8, <2>1, <2>2, <2>3
<1>12. Answers' = Answers
  <2>1. Writes' = Writes \cup {q} /\ q.kind = "question"
    BY WritesStep DEF Asks
  <2> QED
    BY <2>1 DEF Answers
<1>13. \A a \in Answers :
         /\ a.named \/ a.pending # NULL => /\ a.pending \in 1 .. Len(received')
                                           /\ received'[a.pending] = received[a.pending]
         /\ a.pending # NULL =>
              \A i \in DOMAIN pending' : pending'[i].id = a.pending => pending'[i].consumed
  <2>1. \A a \in Answers :
          /\ a.named \/ a.pending # NULL => a.pending \in 1 .. Len(received)
          /\ a.pending # NULL =>
               \A i \in DOMAIN pending : pending[i].id = a.pending => pending[i].consumed
    BY DEF Claimed
  <2>2. \A a \in Answers : a.named \/ a.pending # NULL => a.pending # p
    BY <1>1, <2>1 DEF p
  <2> QED
    BY <1>1, <1>3, <1>8, <2>1, <2>2 DEF p
<1>14. AnswersItsOwnQuestion'
  BY <1>12, <1>13 DEF Claimed, AnswersItsOwnQuestion
<1> QED
  BY <1>10, <1>11, <1>12, <1>13, <1>14 DEF Claimed, OneAnswerPerQuestion

LEMMA ClaimedUses ==
  ASSUME TypeOK, Claimed, NEW turn \in SUBSET DOMAIN pending, Uses(turn),
         UNCHANGED <<queue, tickets>> \/ \E a \in Task : Answering(turn, a)
  PROVE  Claimed'
<1>1. /\ DOMAIN pending' = DOMAIN pending
      /\ \A i \in DOMAIN pending :
           /\ pending'[i].id = pending[i].id /\ pending'[i].source = pending[i].source
           /\ pending[i].consumed \/ i \in turn => pending'[i].consumed
      /\ UNCHANGED <<received, commands>>
  BY ConsumePending DEF Uses
<1>2. \A i \in turn : ~pending[i].consumed
  BY DEF Uses, Unconsumed
<1>3. /\ \A i \in DOMAIN pending :
           /\ pending[i].id \in 1 .. Len(received)
           /\ pending[i].source # NULL => received[pending[i].id] = pending[i].source
      /\ \A i, j \in DOMAIN pending : pending[i].id = pending[j].id => i = j
      /\ \A a \in Answers :
           /\ a.named \/ a.pending # NULL => a.pending \in 1 .. Len(received)
           /\ a.pending # NULL =>
                \A i \in DOMAIN pending : pending[i].id = a.pending => pending[i].consumed
      /\ OneAnswerPerQuestion /\ AnswersItsOwnQuestion
  BY DEF Claimed
<1>4. CASE UNCHANGED <<queue, tickets>>
  <2>1. Answers' = Answers
    BY <1>1, <1>4 DEF Answers, Writes
  <2> QED
    BY <1>1, <1>3, <2>1 DEF Claimed, OneAnswerPerQuestion, AnswersItsOwnQuestion
<1>5. ASSUME NEW a \in Task, Answering(turn, a) PROVE Claimed'
  <2>1. Answers' = Answers \cup {a}
    <3>1. Writes' = Writes \cup {a} /\ a.kind = "answer"
      BY <1>5, <1>1, WritesStep DEF Answering
    <3> QED
      BY <3>1 DEF Answers
  <2>2. \/ a.pending = NULL /\ ~a.named
        \/ \E i \in turn : /\ a.pending = pending[i].id
                           /\ a.named => /\ pending[i].source = CauseOf[a.payload[1]]
                                         /\ pending[i].source # NULL
    BY <1>5 DEF Answering
  <2>3. CASE a.pending = NULL /\ ~a.named
    BY <1>1, <1>3, <2>1, <2>3 DEF Claimed, OneAnswerPerQuestion, AnswersItsOwnQuestion
  <2>4. ASSUME NEW i \in turn, a.pending = pending[i].id,
               a.named => pending[i].source = CauseOf[a.payload[1]] /\ pending[i].source # NULL
        PROVE  Claimed'
    <3>1. /\ a.pending \in 1 .. Len(received)
          /\ a.named => CauseOf[a.payload[1]] = received[a.pending]
      BY <1>3, <2>4
    <3>2. \A j \in DOMAIN pending : pending[j].id = a.pending => pending'[j].consumed
      BY <1>1, <1>3, <2>4
    <3>3. \A b \in Answers : a.pending # NULL /\ b.pending = a.pending => FALSE
      BY <1>2, <1>3, <2>4
    <3>4. OneAnswerPerQuestion'
      BY <1>3, <2>1, <3>3 DEF OneAnswerPerQuestion
    <3>5. AnswersItsOwnQuestion'
      BY <1>1, <1>3, <2>1, <3>1 DEF AnswersItsOwnQuestion
    <3> QED
      BY <1>1, <1>3, <2>1, <3>1, <3>2, <3>4, <3>5 DEF Claimed
  <2> QED
    BY <2>2, <2>3, <2>4
<1> QED
  BY <1>4, <1>5

LEMMA ClaimedStep == ASSUME TypeOK, Promises, Claimed, CoreTurn PROVE Claimed'
<1>1. ASSUME UNCHANGED <<received, pending>>, Writes' \subseteq Writes PROVE Claimed'
  BY <1>1 DEF Claimed, Answers, OneAnswerPerQuestion, AnswersItsOwnQuestion
<1>2. ASSUME UNCHANGED core PROVE Claimed'
  BY <1>1, <1>2 DEF core, Writes
<1>3. ASSUME NEW m \in Message, NEW source \in Message \cup {NULL}, NEW q \in Task, Asks(m, source, q)
      PROVE  Claimed'
  BY <1>3, ClaimedAsks
<1>4. ASSUME NEW turn \in SUBSET DOMAIN pending, Uses(turn),
             UNCHANGED <<queue, tickets>> \/ \E a \in Task : Answering(turn, a)
      PROVE  Claimed'
  BY <1>4, ClaimedUses
<1>5. ASSUME Runs PROVE Claimed'
  BY <1>1, <1>5, WritesStep DEF Runs
<1> QED
  BY <1>2, <1>3, <1>4, <1>5 DEF CoreTurn

-----------------------------------------------------------------------------
(* The text a user saw.  Visible payloads of a text pay for its answers; an *)
(* entry that is still open has been paid for and not been used.            *)

VisibleAs(text) == {p \in Payload : shown[p] = "visible" /\ TextOf[p] = text}
OpenAs(text) == {i \in Unconsumed(visibility) : visibility[i].text = text}
SavedAs(text) == {a \in Answers : TextOf[a.payload] = text}

Covers(saved, open, visible) ==
  /\ IsFiniteSet(saved) /\ IsFiniteSet(open) /\ IsFiniteSet(visible)
  /\ Cardinality(saved) + Cardinality(open) <= Cardinality(visible)

Backed ==
  \A text \in {TextOf[p] : p \in Payload} : Covers(SavedAs(text), OpenAs(text), VisibleAs(text))

LEMMA CoversLess ==
  ASSUME NEW A, NEW B, NEW C, Covers(A, B, C), NEW A2 \in SUBSET A, NEW B2 \in SUBSET B
  PROVE  Covers(A2, B2, C)
<1>1. /\ IsFiniteSet(A2) /\ IsFiniteSet(B2)
      /\ Cardinality(A2) <= Cardinality(A) /\ Cardinality(B2) <= Cardinality(B)
  BY FS_Subset DEF Covers
<1>2. /\ Cardinality(A) \in Nat /\ Cardinality(B) \in Nat /\ Cardinality(C) \in Nat
      /\ Cardinality(A2) \in Nat /\ Cardinality(B2) \in Nat
  BY <1>1, FS_CardinalityType DEF Covers
<1> QED
  BY <1>1, <1>2 DEF Covers

\* An answer uses an open entry up.
LEMMA CoversSpent ==
  ASSUME NEW A, NEW B, NEW C, Covers(A, B, C), NEW a, NEW i \in B
  PROVE  Covers(A \cup {a}, B \ {i}, C)
<1>1. /\ IsFiniteSet(A \cup {a}) /\ Cardinality(A \cup {a}) <= Cardinality(A) + 1
      /\ IsFiniteSet(B \ {i}) /\ Cardinality(B \ {i}) = Cardinality(B) - 1
      /\ Cardinality(A) \in Nat /\ Cardinality(B) \in Nat /\ Cardinality(C) \in Nat
  <2>1. Cardinality(A) \in Nat /\ Cardinality(B) \in Nat /\ Cardinality(C) \in Nat
    BY FS_CardinalityType DEF Covers
  <2>2. IsFiniteSet(A \cup {a}) /\ Cardinality(A \cup {a}) <= Cardinality(A) + 1
    <3>1. IsFiniteSet(A \cup {a})
          /\ Cardinality(A \cup {a}) \in {Cardinality(A), Cardinality(A) + 1}
      BY FS_AddElement DEF Covers
    <3> QED
      BY <2>1, <3>1
  <2>3. IsFiniteSet(B \ {i}) /\ Cardinality(B \ {i}) = Cardinality(B) - 1
    BY FS_RemoveElement DEF Covers
  <2> QED
    BY <2>1, <2>2, <2>3
<1>2. Cardinality(A \cup {a}) \in Nat
  BY <1>1, FS_CardinalityType
<1> QED
  BY <1>1, <1>2 DEF Covers

\* Entries that moved in the list are as many; one may be new for a new payload.
LEMMA CoversMoved ==
  ASSUME NEW A, NEW B, NEW C, Covers(A, B, C), NEW B2, ExistsInjection(B2, B)
  PROVE  Covers(A, B2, C)
<1>1. IsFiniteSet(B2) /\ Cardinality(B2) <= Cardinality(B)
  <2> PICK f : f \in Injection(B2, B)
    BY DEF ExistsInjection
  <2> QED
    BY FS_Injection DEF Covers
<1>2. /\ Cardinality(A) \in Nat /\ Cardinality(B) \in Nat /\ Cardinality(C) \in Nat
      /\ Cardinality(B2) \in Nat
  BY <1>1, FS_CardinalityType DEF Covers
<1> QED
  BY <1>1, <1>2 DEF Covers

LEMMA CoversEarned ==
  ASSUME NEW A, NEW B, NEW C, Covers(A, B, C), NEW x, NEW p, p \notin C
  PROVE  Covers(A, B \cup {x}, C \cup {p})
<1>1. IsFiniteSet(B \cup {x}) /\ Cardinality(B \cup {x}) \in {Cardinality(B), Cardinality(B) + 1}
  BY FS_AddElement DEF Covers
<1>2. IsFiniteSet(C \cup {p}) /\ Cardinality(C \cup {p}) = Cardinality(C) + 1
  BY FS_AddElement DEF Covers
<1>3. Cardinality(A) \in Nat /\ Cardinality(B) \in Nat /\ Cardinality(C) \in Nat
  BY FS_CardinalityType DEF Covers
<1> QED
  BY <1>1, <1>2, <1>3 DEF Covers

LEMMA VisibilityType ==
  ASSUME TypeOK
  PROVE  /\ visibility \in Seq(Visibility) /\ Len(visibility) \in Nat /\ Len(visibility) <= Capacity
         /\ DOMAIN visibility = 1 .. Len(visibility)
         /\ \A i \in DOMAIN visibility : visibility[i] \in Visibility
<1>1. visibility \in Seq(Visibility) /\ Len(visibility) \in 0 .. Capacity
  BY DEF TypeOK, Visibility
<1>2. Len(visibility) \in Nat /\ Len(visibility) <= Capacity
  BY <1>1, AdapterAssumption
<1> QED
  BY <1>1, <1>2, ElementOfSeq, LenProperties

LEMMA OpenAfterConsume ==
  ASSUME TypeOK, NEW seen, visibility' = Consume(visibility, seen), NEW text
  PROVE  OpenAs(text)' \subseteq OpenAs(text) \ seen
<1>1. /\ DOMAIN visibility' = DOMAIN visibility
      /\ \A i \in DOMAIN visibility :
           /\ visibility'[i].text = visibility[i].text
           /\ visibility[i].consumed \/ i \in seen => visibility'[i].consumed
  BY VisibilityType DEF Consume, Visibility
<1> QED
  BY <1>1 DEF OpenAs, Unconsumed

\* Pushing an entry renumbers the open ones and may add its own.
LEMMA OpenAfterPush ==
  ASSUME TypeOK, NEW e \in Visibility, visibility' = Push(visibility, e), NEW text
  PROVE  /\ ExistsInjection(OpenAs(text)', OpenAs(text) \cup {Len(visibility) + 1})
         /\ e.text # text => ExistsInjection(OpenAs(text)', OpenAs(text))
<1> DEFINE n == Len(visibility)
<1>1. visibility' \in Seq(Visibility) /\ Evicts(visibility, e, visibility')
  BY VisibilityType, PushProperties
<1>2. /\ n \in Nat /\ DOMAIN visibility = 1 .. n
      /\ \A i \in DOMAIN visibility : Append(visibility, e)[i] = visibility[i]
      /\ Append(visibility, e)[n + 1] = e
  BY VisibilityType, Appended
<1> HIDE DEF n
<1>3. PICK k \in {0, 1} :
        /\ Len(visibility') = n + 1 - k
        /\ \A i \in 1 .. Len(visibility') : visibility'[i] = Append(visibility, e)[i + k]
  BY <1>1 DEF Evicts, n
<1>4. DOMAIN visibility' = 1 .. n + 1 - k
  BY <1>1, <1>3, LenProperties
<1>5. \A j \in DOMAIN visibility' :
        \/ j + k \in DOMAIN visibility /\ visibility'[j] = visibility[j + k]
        \/ j + k = n + 1 /\ visibility'[j] = e
  BY <1>2, <1>3, <1>4
<1> DEFINE f == [j \in OpenAs(text)' |-> j + k]
<1>6. \A j \in OpenAs(text)' : /\ j \in DOMAIN visibility'
                               /\ j + k \in OpenAs(text) \/ (j + k = n + 1 /\ e.text = text)
  BY <1>5 DEF OpenAs, Unconsumed
<1>7. \A i, j \in OpenAs(text)' : i + k = j + k => i = j
  BY <1>2, <1>3, <1>4, <1>6
<1>8. f \in Injection(OpenAs(text)', OpenAs(text) \cup {n + 1})
  BY <1>6, <1>7 DEF Injection, IsInjective
<1>9. e.text # text => f \in Injection(OpenAs(text)', OpenAs(text))
  BY <1>6, <1>7 DEF Injection, IsInjective
<1> QED
  BY <1>8, <1>9 DEF n, ExistsInjection

LEMMA BackedShows ==
  ASSUME TypeOK, Backed, NEW p \in Payload, NEW as \in {"visible", "hidden", "suppressed"},
         NEW w \in RunIdGiven, ReplyPayloadSending(p, as, w)
  PROVE  Backed'
<1> SUFFICES ASSUME NEW text \in {TextOf[q] : q \in Payload}
             PROVE  Covers(SavedAs(text)', OpenAs(text)', VisibleAs(text)')
  BY DEF Backed
<1> DEFINE run == IF w THEN p[1] ELSE NULL
           e == [run |-> run, text |-> IF as = "visible" THEN TextOf[p] ELSE NULL,
                 absent |-> ProofOf(run) # {}, consumed |-> FALSE]
<1>1. Covers(SavedAs(text), OpenAs(text), VisibleAs(text))
  BY DEF Backed
<1>2. SavedAs(text)' = SavedAs(text)
  BY DEF ReplyPayloadSending, SavedAs, Answers, Writes, queueVars
<1>3. /\ VisibleAs(text)' = IF as = "visible" /\ TextOf[p] = text THEN VisibleAs(text) \cup {p}
                            ELSE VisibleAs(text)
      /\ p \notin VisibleAs(text)
  <2>1. /\ shown' = [shown EXCEPT ![p] = as] /\ shown[p] = NULL
        /\ shown \in [Payload -> {NULL, "visible", "hidden", "suppressed"}]
    BY DEF ReplyPayloadSending, Announceable, TypeOK
  <2>2. shown[p] # "visible"
    BY <2>1, AdapterAssumption
  <2> QED
    BY <2>1, <2>2 DEF VisibleAs
<1>4. CASE as = "suppressed"
  <2>1. OpenAs(text)' = OpenAs(text)
    BY <1>4 DEF ReplyPayloadSending, OpenAs, Unconsumed
  <2> QED
    BY <1>1, <1>2, <1>3, <1>4, <2>1
<1>5. CASE as # "suppressed"
  <2>1. e \in Visibility
    BY DEF Visibility, Payload
  <2>2. visibility' = Push(visibility, e)
    BY <1>5 DEF ReplyPayloadSending
  <2>3. e.text = text => as = "visible" /\ TextOf[p] = text
    BY AdapterAssumption
  <2> HIDE DEF e
  <2>4. /\ ExistsInjection(OpenAs(text)', OpenAs(text) \cup {Len(visibility) + 1})
        /\ e.text # text => ExistsInjection(OpenAs(text)', OpenAs(text))
    BY <2>1, <2>2, OpenAfterPush
  <2>5. CASE as = "visible" /\ TextOf[p] = text
    <3>1. Covers(SavedAs(text), OpenAs(text) \cup {Len(visibility) + 1}, VisibleAs(text) \cup {p})
      BY <1>1, <1>3, CoversEarned
    <3>2. Covers(SavedAs(text), OpenAs(text)', VisibleAs(text) \cup {p})
      BY <2>4, <3>1, CoversMoved
    <3> QED
      BY <1>2, <1>3, <2>5, <3>2
  <2>6. CASE ~(as = "visible" /\ TextOf[p] = text)
    <3>1. Covers(SavedAs(text), OpenAs(text)', VisibleAs(text))
      BY <1>1, <2>3, <2>4, <2>6, CoversMoved
    <3> QED
      BY <1>2, <1>3, <2>6, <3>1
  <2> QED
    BY <2>5, <2>6
<1> QED
  BY <1>4, <1>5

\* A message_sent uses entries up; with an answer, one of them is an open entry
\* of the answer's text.
LEMMA SentStep ==
  ASSUME TypeOK, NEW p \in Payload, NEW success \in BOOLEAN, NEW w \in RunIdGiven,
         NEW t \in ReplyToGiven, MessageSent(p, success, w, t)
  PROVE  \E seen :
           /\ visibility' = Consume(visibility, seen)
           /\ UNCHANGED <<shown, commands>>
           /\ \/ UNCHANGED queue
              \/ \E a \in Task, i \in seen :
                   /\ a.kind = "answer" /\ a.payload = p /\ queue' = Append(queue, a)
                   /\ i \in OpenAs(TextOf[p])
<1> DEFINE run == IF w THEN p[1] ELSE NULL
           replyTo == IF t /\ CauseOf[p[1]] \in Identified THEN CauseOf[p[1]] ELSE NULL
           seen == VisibilityOf(run)
           shownText == {i \in seen : success /\ visibility[i].text = TextOf[p]}
           absent == \E i \in shownText : visibility[i].absent
           turn == IF shownText = {} \/ absent THEN {} ELSE PendingOf(replyTo)
           named == replyTo # NULL
           task(pid, b) == [kind |-> "answer", pending |-> pid, payload |-> p, named |-> b, ticket |-> 0]
<1>1. /\ visibility' = Consume(visibility, seen)
      /\ UNCHANGED <<shown, commands>>
      /\ \/ absent /\ Enqueue(task(NULL, FALSE))
         \/ \E i \in turn : Enqueue(task(pending[i].id, named))
         \/ UNCHANGED queue
  BY DEF MessageSent, queueVars
<1>2. absent \/ turn # {} => \E i \in shownText : TRUE
  OBVIOUS
<1>3. \A i \in shownText : i \in seen /\ i \in OpenAs(TextOf[p])
  BY DEF VisibilityOf, Only, OpenAs
<1>4. turn \subseteq DOMAIN pending
  BY DEF PendingOf, Only, Unconsumed
<1>5. named \in BOOLEAN
  OBVIOUS
<1>6. \A i \in DOMAIN pending : pending[i].id \in PendingId
  BY PendingType DEF Entry
<1>7. tickets + 1 \in Nat
  BY DEF TypeOK
<1> HIDE DEF absent, turn, named, seen, shownText
<1>8. ASSUME NEW pid \in PendingId \cup {NULL}, NEW b \in BOOLEAN, Enqueue(task(pid, b)),
             absent \/ turn # {}
      PROVE  \E a \in Task, i \in seen :
               /\ a.kind = "answer" /\ a.payload = p /\ queue' = Append(queue, a)
               /\ i \in OpenAs(TextOf[p])
  <2> DEFINE a == [task(pid, b) EXCEPT !.ticket = tickets + 1]
  <2>1. a \in Task /\ a.kind = "answer" /\ a.payload = p
    BY <1>7, TaskTypes
  <2>2. queue' = Append(queue, a)
    BY <1>8 DEF Enqueue
  <2> HIDE DEF a
  <2> QED
    BY <1>2, <1>3, <1>8, <2>1, <2>2
<1>9. CASE UNCHANGED queue
  BY <1>1, <1>9
<1>10. CASE absent /\ Enqueue(task(NULL, FALSE))
  BY <1>1, <1>8, <1>10
<1>11. ASSUME NEW i \in turn, Enqueue(task(pending[i].id, named))
       PROVE  \E a \in Task, j \in seen :
                /\ a.kind = "answer" /\ a.payload = p /\ queue' = Append(queue, a)
                /\ j \in OpenAs(TextOf[p])
  <2>1. pending[i].id \in PendingId \cup {NULL} /\ turn # {}
    BY <1>4, <1>6
  <2> QED
    BY <1>5, <1>8, <1>11, <2>1
<1> QED
  BY <1>1, <1>9, <1>10, <1>11

LEMMA BackedSent ==
  ASSUME TypeOK, Backed, NEW p \in Payload, NEW success \in BOOLEAN, NEW w \in RunIdGiven,
         NEW t \in ReplyToGiven, MessageSent(p, success, w, t)
  PROVE  Backed'
<1> SUFFICES ASSUME NEW text \in {TextOf[q] : q \in Payload}
             PROVE  Covers(SavedAs(text)', OpenAs(text)', VisibleAs(text)')
  BY DEF Backed
<1> PICK seen :
      /\ visibility' = Consume(visibility, seen)
      /\ UNCHANGED <<shown, commands>>
      /\ \/ UNCHANGED queue
         \/ \E a \in Task, i \in seen :
              /\ a.kind = "answer" /\ a.payload = p /\ queue' = Append(queue, a)
              /\ i \in OpenAs(TextOf[p])
  BY SentStep
<1>1. Covers(SavedAs(text), OpenAs(text), VisibleAs(text))
  BY DEF Backed
<1>2. VisibleAs(text)' = VisibleAs(text)
  BY DEF VisibleAs
<1>3. OpenAs(text)' \subseteq OpenAs(text) \ seen
  BY OpenAfterConsume
<1>4. CASE UNCHANGED queue
  <2>1. SavedAs(text)' = SavedAs(text)
    BY <1>4 DEF SavedAs, Answers, Writes
  <2> QED
    BY <1>1, <1>2, <1>3, <2>1, CoversLess
<1>5. ASSUME NEW a \in Task, NEW i \in seen, a.kind = "answer", a.payload = p,
             queue' = Append(queue, a), i \in OpenAs(TextOf[p])
      PROVE  Covers(SavedAs(text)', OpenAs(text)', VisibleAs(text)')
  <2>1. Writes' = Writes \cup {a}
    BY <1>5, WritesStep
  <2>2. CASE TextOf[p] = text
    <3>1. SavedAs(text)' \subseteq SavedAs(text) \cup {a}
      BY <2>1 DEF SavedAs, Answers
    <3>2. OpenAs(text)' \subseteq OpenAs(text) \ {i} /\ i \in OpenAs(text)
      BY <1>3, <1>5, <2>2
    <3>3. Covers(SavedAs(text) \cup {a}, OpenAs(text) \ {i}, VisibleAs(text))
      BY <1>1, <3>2, CoversSpent
    <3> QED
      BY <1>2, <3>1, <3>2, <3>3, CoversLess
  <2>3. CASE TextOf[p] # text
    <3>1. SavedAs(text)' = SavedAs(text)
      BY <1>5, <2>1, <2>3 DEF SavedAs, Answers
    <3> QED
      BY <1>1, <1>2, <1>3, <3>1, CoversLess
  <2> QED
    BY <2>2, <2>3
<1> QED
  BY <1>4, <1>5

\* Every other step shows nothing and saves no new answer.
LEMMA BackedOther ==
  ASSUME TypeOK, Backed, UNCHANGED <<shown, visibility>>, Answers' \subseteq Answers
  PROVE  Backed'
<1> SUFFICES ASSUME NEW text \in {TextOf[q] : q \in Payload}
             PROVE  Covers(SavedAs(text)', OpenAs(text)', VisibleAs(text)')
  BY DEF Backed
<1>1. Covers(SavedAs(text), OpenAs(text), VisibleAs(text))
  BY DEF Backed
<1>2. /\ VisibleAs(text)' = VisibleAs(text) /\ OpenAs(text)' = OpenAs(text)
      /\ SavedAs(text)' \subseteq SavedAs(text)
  BY DEF VisibleAs, OpenAs, Unconsumed, SavedAs
<1> QED
  BY <1>1, <1>2, CoversLess

LEMMA BackedStep == ASSUME TypeOK, Chain, Backed, [Next]_vars PROVE Backed'
<1>1. ASSUME UNCHANGED <<shown, visibility, queue, commands>> PROVE Backed'
  BY <1>1, BackedOther DEF Answers, Writes
<1>2. ASSUME NEW m \in Message, MessageReceived(m) PROVE Backed'
  <2>1. PICK q : q.kind = "question" /\ q \in Task /\ queue' = Append(queue, q)
    <3> DEFINE q == [[kind |-> "question", pending |-> Len(received) + 1, payload |-> NULL,
                      named |-> FALSE, ticket |-> 0] EXCEPT !.ticket = tickets + 1]
    <3>1. Len(received) + 1 \in PendingId /\ tickets + 1 \in Nat
      BY <1>2, Counted DEF TypeOK, MessageReceived
    <3>2. q \in Task /\ q.kind = "question"
      BY <3>1, TaskTypes
    <3>3. queue' = Append(queue, q)
      BY <1>2 DEF MessageReceived, Enqueue
    <3> HIDE DEF q
    <3> QED
      BY <3>2, <3>3
  <2>2. UNCHANGED <<shown, visibility, commands>>
    BY <1>2 DEF MessageReceived
  <2>3. Writes' = Writes \cup {q}
    BY <2>1, <2>2, WritesStep
  <2> QED
    BY <2>1, <2>2, <2>3, BackedOther DEF Answers
<1>3. ASSUME NEW p \in Payload, NEW as \in {"visible", "hidden", "suppressed"}, NEW w \in RunIdGiven,
             ReplyPayloadSending(p, as, w)
      PROVE  Backed'
  BY <1>3, BackedShows
<1>4. ASSUME NEW p \in Payload, NEW success \in BOOLEAN, NEW w \in RunIdGiven, NEW t \in ReplyToGiven,
             MessageSent(p, success, w, t)
      PROVE  Backed'
  BY <1>4, BackedSent
<1>5. ASSUME NEW i \in DOMAIN queue, NEW outcome \in Outcome,
             QuestionTask(i, outcome) \/ AnswerTask(i, outcome)
      PROVE  Backed'
  <2>1. Runs /\ UNCHANGED <<shown, visibility>>
    <3>1. queue # <<>> /\ queue[i] = Head(queue) /\ Without(i) = Tail(queue)
      BY <1>5, FirstRuns DEF QuestionTask, AnswerTask
    <3> QED
      BY <1>5, <3>1 DEF QuestionTask, AnswerTask, Runs, hostVars
  <2>2. Writes' \subseteq Writes
    BY <2>1, WritesStep
  <2> QED
    BY <2>1, <2>2, BackedOther DEF Answers
<1>6. ASSUME NEW r \in Run, BeforeAgentRun(r) PROVE Backed'
  BY <1>1, <1>6 DEF BeforeAgentRun, queueVars
<1>7. ASSUME NEW outcome \in {"ok", "failed"}, ReadySettles(outcome) PROVE Backed'
  BY <1>1, <1>7 DEF ReadySettles, hostVars, queueVars
<1>8. CASE RuntimeCloses
  BY <1>1, <1>8 DEF RuntimeCloses, hostVars, queueVars
<1>9. CASE UNCHANGED vars
  BY <1>1, <1>9 DEF vars
<1>10. ASSUME NEW k \in DOMAIN after, Settle(k) PROVE Backed'
  BY <1>1, <1>10 DEF Settle, hostVars
<1> QED
  BY <1>2, <1>3, <1>4, <1>5, <1>6, <1>7, <1>8, <1>9, <1>10 DEF Next, RunTask

LEMMA BackedInit == Init => Backed
<1> SUFFICES ASSUME Init PROVE Backed
  OBVIOUS
<1>1. /\ DOMAIN queue = {} /\ DOMAIN commands = {} /\ DOMAIN visibility = {}
      /\ \A p \in Payload : shown[p] # "visible"
  BY EmptySeq, AdapterAssumption DEF Init
<1>2. \A text : SavedAs(text) = {} /\ OpenAs(text) = {} /\ VisibleAs(text) = {}
  BY <1>1 DEF SavedAs, Answers, Writes, OpenAs, Unconsumed, VisibleAs
<1>3. Covers({}, {}, {})
  BY FS_EmptySet DEF Covers
<1> QED
  BY <1>2, <1>3 DEF Backed

-----------------------------------------------------------------------------
(* Theorems.                                                               *)

LEMMA AdapterInit == Init => Chain /\ Order /\ Promises /\ Claimed
<1> SUFFICES ASSUME Init PROVE Chain /\ Order /\ Promises /\ Claimed
  OBVIOUS
<1>1. /\ DOMAIN queue = {} /\ DOMAIN commands = {} /\ DOMAIN pending = {}
      /\ Len(received) = 0 /\ \A p \in PendingId : nodeId[p] = "pending"
  BY EmptySeq DEF Init
<1>2. Writes = {} /\ Answers = {}
  BY <1>1 DEF Writes, Answers
<1>3. 0 <= MaxReceived
  BY AdapterAssumption
<1>4. Order
  BY <1>1, <1>2 DEF Order, SessionOrder
<1>5. Promises
  <2>1. \A p \in PendingId : nodeId[p] # "resolved"
    BY <1>1
  <2> QED
    BY <1>1, <1>3, <2>1 DEF Promises, AnswerAfterQuestion
<1>6. Claimed
  BY <1>1, <1>2 DEF Claimed, OneAnswerPerQuestion, AnswersItsOwnQuestion
<1>7. Chain
  BY <1>1, EmptySeq DEF Chain, Init
<1> QED
  BY <1>4, <1>5, <1>6, <1>7

\* The parts hold together: queued tasks are chained on each other, tasks
\* follow commands, promises are settled by their one task, and entries are
\* used up by their one answer.
THEOREM AdapterInvariant == Spec => []AInv
<1>1. Init => AInv
  BY TypeInit, AdapterInit DEF AInv
<1>2. AInv /\ [Next]_vars => AInv'
  BY TypeStep, ChainStep, CoreStep, OrderStep, PromisesStep, ClaimedStep DEF AInv
<1> QED
  BY <1>1, <1>2, PTL DEF Spec

\* The runtime executes a session's writes in the order of their hooks, none
\* twice, wherever the promises of finished tasks settle among later hooks:
\* a task is chained on every unfinished one because the tail outlives the
\* settling of any promise but its own.
THEOREM WritesInOrder == Spec => []SessionOrder
<1>1. AInv => SessionOrder
  BY DEF AInv, Order
<1> QED
  BY <1>1, AdapterInvariant, PTL

\* No answer is sent before its question was executed and came back.
THEOREM QuestionsComeFirst == Spec => []AnswerAfterQuestion
<1>1. AInv => AnswerAfterQuestion
  BY DEF AInv, Promises
<1> QED
  BY <1>1, AdapterInvariant, PTL

\* A pending question is given to one answer, for every capacity of the lists.
THEOREM ClaimedOnce == Spec => []OneAnswerPerQuestion
<1>1. AInv => OneAnswerPerQuestion
  BY DEF AInv, Claimed
<1> QED
  BY <1>1, AdapterInvariant, PTL

\* An answer that names a message is given to that message's question, for
\* every capacity of the lists and any number of redeliveries.
THEOREM NamedAnswersFit == Spec => []AnswersItsOwnQuestion
<1>1. AInv => AnswersItsOwnQuestion
  BY DEF AInv, Claimed
<1> QED
  BY <1>1, AdapterInvariant, PTL

\* Answers never outnumber the visible payloads of their text, for any number of
\* runs, payloads of one text and evictions.
THEOREM OnlyShownIsSaved == Spec => []ShownTextOnly
<1>1. Spec => []Backed
  <2>1. AInv /\ Backed /\ [Next]_vars => Backed'
    BY BackedStep DEF AInv
  <2> QED
    BY <2>1, BackedInit, AdapterInvariant, PTL DEF Spec
<1>2. Backed => ShownTextOnly
  <2> SUFFICES ASSUME Backed, NEW text \in {TextOf[p] : p \in Payload}
               PROVE  Cardinality(SavedAs(text)) <= Cardinality(VisibleAs(text))
    BY DEF ShownTextOnly, SavedAs, VisibleAs
  <2>1. Covers(SavedAs(text), OpenAs(text), VisibleAs(text))
    BY DEF Backed
  <2>2. /\ Cardinality(SavedAs(text)) \in Nat /\ Cardinality(OpenAs(text)) \in Nat
        /\ Cardinality(VisibleAs(text)) \in Nat
    BY <2>1, FS_CardinalityType DEF Covers
  <2> QED
    BY <2>1, <2>2 DEF Covers
<1> QED
  BY <1>1, <1>2, PTL

-----------------------------------------------------------------------------
(* The queue does not block itself.                                        *)

Asking(p, j) == queue[j].kind = "question" /\ queue[j].pending = p

\* A pending promise has its question in the queue, and an answer that waits
\* for one stands behind that question.
Waits ==
  /\ \A p \in 1 .. Len(received) : nodeId[p] = "pending" => \E j \in DOMAIN queue : Asking(p, j)
  /\ \A i \in DOMAIN queue :
       queue[i].kind = "answer" /\ queue[i].pending # NULL /\ nodeId[queue[i].pending] = "pending" =>
         \E j \in 1 .. i - 1 : Asking(queue[i].pending, j)

\* The first task never waits for a promise that only a task behind it would
\* settle, be it its question's or the one it is chained on, and an empty queue
\* leaves no promise pending.
NothingSticks ==
  /\ \A i, j \in DOMAIN queue : i = 1 => after[queue[i].ticket] # queue[j].ticket
  /\ queue # <<>> /\ Head(queue).kind = "answer" => AnchorSettled(Head(queue))
  /\ queue = <<>> => \A p \in 1 .. Len(received) : nodeId[p] # "pending"

LEMMA WaitsEnqueues ==
  ASSUME TypeOK, Waits, NEW a \in Task, queue' = Append(queue, a), UNCHANGED nodeId,
         \A p \in 1 .. Len(received') :
           p \in 1 .. Len(received) \/ (a.kind = "question" /\ a.pending = p),
         a.kind = "answer" /\ a.pending # NULL => a.pending \in 1 .. Len(received)
  PROVE  Waits'
<1>1. /\ DOMAIN queue = 1 .. Len(queue) /\ Len(queue) \in Nat /\ DOMAIN queue' = 1 .. Len(queue) + 1
      /\ \A i \in DOMAIN queue : queue'[i] = queue[i]
      /\ queue'[Len(queue) + 1] = a
  BY WritesType, Appended
<1>2. \A p, j : j \in DOMAIN queue /\ Asking(p, j) => j \in DOMAIN queue' /\ Asking(p, j)'
  BY <1>1 DEF Asking
<1>3. ASSUME NEW p \in 1 .. Len(received'), nodeId'[p] = "pending"
      PROVE  \E j \in DOMAIN queue' : Asking(p, j)'
  <2>1. CASE p \in 1 .. Len(received)
    BY <1>2, <1>3, <2>1 DEF Waits
  <2>2. CASE a.kind = "question" /\ a.pending = p
    <3>1. PICK j \in DOMAIN queue' : j = Len(queue) + 1
      BY <1>1
    <3>2. Asking(p, j)'
      BY <1>1, <2>2, <3>1 DEF Asking
    <3> QED
      BY <3>2
  <2> QED
    BY <2>1, <2>2
<1>4. ASSUME NEW i \in DOMAIN queue', NEW p, p = queue'[i].pending, queue'[i].kind = "answer",
             p # NULL, nodeId'[p] = "pending"
      PROVE  \E j \in 1 .. i - 1 : Asking(p, j)'
  <2>1. CASE i \in DOMAIN queue
    <3>1. PICK j \in 1 .. i - 1 : Asking(p, j)
      BY <1>1, <1>4, <2>1 DEF Waits
    <3>2. j \in DOMAIN queue
      BY <1>1, <2>1
    <3> QED
      BY <1>2, <3>1, <3>2
  <2>2. CASE i \notin DOMAIN queue
    <3>1. i = Len(queue) + 1 /\ queue'[i] = a
      BY <1>1, <2>2
    <3>2. p \in 1 .. Len(received) /\ nodeId[p] = "pending"
      BY <1>4, <3>1
    <3>3. PICK j \in DOMAIN queue : Asking(p, j)
      BY <3>2 DEF Waits
    <3>4. j \in 1 .. i - 1 /\ Asking(p, j)'
      BY <1>1, <1>2, <3>1, <3>3
    <3> QED
      BY <3>4
  <2> QED
    BY <2>1, <2>2
<1> QED
  BY <1>3, <1>4 DEF Waits, Asking

LEMMA WaitsRuns ==
  ASSUME TypeOK, Promises, Waits, Runs, Settles \/ Anchored
  PROVE  Waits'
<1> DEFINE h == Head(queue)
<1>1. /\ DOMAIN queue = 1 .. Len(queue) /\ Len(queue) \in Nat
      /\ DOMAIN queue' = 1 .. Len(queue) - 1
      /\ \A i \in DOMAIN queue' : queue'[i] = queue[i + 1] /\ i + 1 \in DOMAIN queue
      /\ h = queue[1] /\ 1 \in DOMAIN queue
  BY WritesType, Taken DEF Runs
<1>2. UNCHANGED received /\ \A i \in DOMAIN queue : queue[i] \in Task
  BY QueueType DEF Runs
<1> HIDE DEF h
\* Whoever is still pending does not wait for the task that ran.
<1>3. \A p \in PendingId : nodeId'[p] = "pending" =>
        nodeId[p] = "pending" /\ ~(h.kind = "question" /\ h.pending = p)
  <2>1. CASE Settles
    <3>1. PICK r \in {"resolved", "rejected"} : nodeId' = [nodeId EXCEPT ![h.pending] = r]
      BY <2>1 DEF Settles, h
    <3> QED
      BY <3>1, Counted
  <2>2. CASE Anchored
    BY <2>2 DEF Anchored, h
  <2> QED
    BY <2>1, <2>2
<1>4. ASSUME NEW p \in PendingId, nodeId'[p] = "pending", NEW j \in DOMAIN queue, Asking(p, j)
      PROVE  \E k \in DOMAIN queue' : k = j - 1 /\ Asking(p, k)'
  <2>1. j # 1
    BY <1>1, <1>3, <1>4 DEF Asking
  <2>2. PICK k \in DOMAIN queue' : k = j - 1 /\ k + 1 = j
    BY <1>1, <2>1
  <2>3. queue'[k] = queue[j]
    BY <1>1, <2>2
  <2> QED
    BY <1>4, <2>2, <2>3 DEF Asking
<1>5. ASSUME NEW p \in 1 .. Len(received'), nodeId'[p] = "pending"
      PROVE  \E j \in DOMAIN queue' : Asking(p, j)'
  <2>1. p \in PendingId /\ p \in 1 .. Len(received)
    BY <1>2, <1>5, Counted DEF Promises
  <2>2. PICK j \in DOMAIN queue : Asking(p, j)
    BY <1>3, <1>5, <2>1 DEF Waits
  <2> QED
    BY <1>4, <1>5, <2>1, <2>2
<1>6. ASSUME NEW i \in DOMAIN queue', NEW p, p = queue'[i].pending, queue'[i].kind = "answer",
             p # NULL, nodeId'[p] = "pending"
      PROVE  \E j \in 1 .. i - 1 : Asking(p, j)'
  <2>1. i + 1 \in DOMAIN queue /\ queue[i + 1] = queue'[i] /\ p \in PendingId
    BY <1>1, <1>2, <1>6 DEF Task
  <2>2. nodeId[p] = "pending"
    BY <1>3, <1>6, <2>1
  <2>3. PICK j \in 1 .. (i + 1) - 1 : Asking(p, j)
    BY <1>6, <2>1, <2>2 DEF Waits
  <2>4. j \in DOMAIN queue
    BY <1>1, <2>1
  <2>5. PICK k \in DOMAIN queue' : k = j - 1 /\ Asking(p, k)'
    BY <1>4, <1>6, <2>1, <2>3, <2>4
  <2>6. k \in 1 .. i - 1
    BY <1>1, <2>3, <2>5
  <2> QED
    BY <2>5, <2>6
<1> QED
  BY <1>5, <1>6 DEF Waits, Asking

LEMMA WaitsStep == ASSUME TypeOK, Promises, Claimed, Waits, CoreTurn PROVE Waits'
<1>1. ASSUME UNCHANGED <<received, queue, nodeId>> PROVE Waits'
  BY <1>1 DEF Waits, Asking
<1>2. ASSUME NEW turn, Uses(turn), UNCHANGED <<queue, tickets>> PROVE Waits'
  BY <1>1, <1>2 DEF Uses
<1>3. ASSUME NEW m \in Message, NEW source, NEW q \in Task, Asks(m, source, q) PROVE Waits'
  <2>1. Len(received') = Len(received) + 1 /\ Len(received) \in Nat
    BY <1>3, Appended DEF Asks, TypeOK
  <2>2. \A p \in 1 .. Len(received') : p \in 1 .. Len(received) \/ (q.kind = "question" /\ q.pending = p)
    BY <1>3, <2>1 DEF Asks
  <2> QED
    BY <1>3, <2>2, WaitsEnqueues DEF Asks
<1>4. ASSUME NEW turn, NEW a \in Task, Uses(turn), Answering(turn, a) PROVE Waits'
  <2>1. a.pending # NULL => a.pending \in 1 .. Len(received)
    BY <1>4 DEF Answering, Uses, Unconsumed, Claimed
  <2> QED
    BY <1>4, <2>1, WaitsEnqueues DEF Answering, Uses
<1>5. ASSUME Runs, Settles \/ Anchored PROVE Waits'
  BY <1>5, WaitsRuns
<1> QED
  BY <1>1, <1>2, <1>3, <1>4, <1>5 DEF CoreTurn, core

\* No session blocks itself: an answer that waits for its question stands
\* behind it in the queue, so the first task can always run, and a promise is
\* never left without the task that settles it (SessionSerialQueue, nodeId).
THEOREM QueueNeverSticks == Spec => []NothingSticks
<1>1. Init => Waits
  <2> SUFFICES ASSUME Init PROVE Waits
    OBVIOUS
  <2>1. DOMAIN queue = {} /\ Len(received) = 0
    BY EmptySeq DEF Init
  <2> QED
    BY <2>1 DEF Waits
<1>2. AInv /\ Waits /\ [Next]_vars => Waits'
  BY CoreStep, WaitsStep DEF AInv
<1>3. AInv /\ Waits => NothingSticks
  <2> SUFFICES ASSUME AInv, Waits PROVE NothingSticks
    OBVIOUS
  <2>1. TypeOK /\ queue \in Seq(Task)
    BY WritesType DEF AInv
  <2>2. ASSUME queue # <<>>, Head(queue).kind = "answer"
        PROVE  AnchorSettled(Head(queue))
    <3>1. Head(queue) = queue[1] /\ 1 \in DOMAIN queue
      BY <2>1, <2>2, Taken
    <3> QED
      BY <2>2, <3>1 DEF Waits, AnchorSettled
  <2>3. ASSUME queue = <<>>, NEW p \in 1 .. Len(received)
        PROVE  nodeId[p] # "pending"
    <3>1. DOMAIN queue = {}
      BY <2>3, EmptySeq
    <3> QED
      BY <3>1 DEF Waits
  <2>4. ASSUME NEW i \in DOMAIN queue, NEW j \in DOMAIN queue, i = 1
        PROVE  after[queue[i].ticket] # queue[j].ticket
    <3>1. queue[i] \in Task /\ queue[j] \in Task /\ j >= i
      BY <2>1, <2>4, ElementOfSeq, LenProperties
    <3>2. queue[i].ticket <= queue[j].ticket
      BY <2>1, <2>4, <3>1, LenProperties DEF AInv, Order, Task
    <3>3. after[queue[i].ticket] < queue[i].ticket /\ after[queue[i].ticket] \in Nat
      BY DEF AInv, Chain, TypeOK
    <3> QED
      BY <3>1, <3>2, <3>3 DEF Task
  <2> QED
    BY <2>2, <2>3, <2>4 DEF NothingSticks
<1> QED
  BY <1>1, <1>2, <1>3, AdapterInvariant, PTL DEF Spec
=============================================================================

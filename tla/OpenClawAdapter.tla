--------------------------- MODULE OpenClawAdapter ---------------------------
(***************************************************************************)
(* The OpenClaw plugin's adapter (openclaw-plugin/src/plugin-core.ts) for  *)
(* one session.  Host hooks arrive in any order and only touch in-memory   *)
(* lists and the session's serial queue; queued tasks later send commands  *)
(* to the runtime.  The three lists are bounded, their entries are marked  *)
(* consumed and never removed except from the front.                       *)
(*                                                                         *)
(* The host side is what the typed hooks allow: a run is started by a user *)
(* message or by a cron/heartbeat trigger, emits payloads in order, each   *)
(* announced by reply_payload_sending and then by message_sent, with or    *)
(* without a run id and a reply-to id.                                     *)
(***************************************************************************)
EXTENDS Naturals, Sequences, FiniteSets

CONSTANTS
  Message,          \* user messages of the session
  Identified,       \* the messages that carry a source message id
  Run,              \* agent runs
  CauseOf,          \* the message a run answers, or Proactive
  TextOf,           \* the visible text of a payload
  RunIdGiven,       \* subset of BOOLEAN: may outbound hooks carry the run id
  ReplyToGiven,     \* subset of BOOLEAN: may message_sent carry replyToId
  PayloadsPerRun,   \* bound on the payloads of one run
  MaxReceived,      \* bound on message_received events
  Capacity,         \* length of the bounded lists: 64 in the code
  Proactive, NULL

Payload == Run \X (1 .. PayloadsPerRun)
PendingId == 1 .. MaxReceived

ASSUME AdapterAssumption ==
  /\ Identified \subseteq Message
  /\ CauseOf \in [Run -> Message \cup {Proactive}] /\ Proactive \notin Message
  /\ DOMAIN TextOf = Payload /\ \A p \in Payload : TextOf[p] # NULL
  /\ RunIdGiven \subseteq BOOLEAN /\ ReplyToGiven \subseteq BOOLEAN
  /\ {PayloadsPerRun, MaxReceived, Capacity} \subseteq Nat \ {0}
  /\ NULL \notin {"visible", "hidden", "suppressed"}

VARIABLES
  received,     \* messages of the accepted message_received events, in order:
                \* position p is the pending question p
  pending,      \* pendingBySession: [id, source, consumed]
  visibility,   \* visibilityBySession: [run, text, absent, consumed]
  proactive,    \* proactiveBySession: [run, consumed]
  shown,        \* payload -> how reply_payload_sending announced it, or NULL
  sent,         \* payloads whose message_sent has arrived
  queue,        \* write tasks of the session that have not run, as enqueued;
                \* named is a ghost: the task's message_sent had a reply-to id
  tickets,      \* tasks enqueued so far
  tail,         \* tails: the promise of the session's last task, by ticket, or 0
  after,        \* unsettled promise -> the promise its task is chained on, or 0
  nodeId,       \* pending id -> state of its nodeId promise
  ready,        \* readyPromise with the harness state: memoised either way
  runtime,      \* "up", or "closed" for good after a timeout or exit
  commands      \* write commands the runtime executed, in order

vars == <<received, pending, visibility, proactive, shown, sent, queue, tickets,
          tail, after, nodeId, ready, runtime, commands>>

hostVars == <<received, pending, visibility, proactive, shown, sent>>
queueVars == <<queue, tickets, tail, after>>

-----------------------------------------------------------------------------
(* Bounded lists of consumable entries.                                    *)

Push(list, entry) ==
  LET grown == Append(list, entry) IN
  IF Len(grown) > Capacity THEN SubSeq(grown, Len(grown) - Capacity + 1, Len(grown)) ELSE grown

Unconsumed(list) == {i \in DOMAIN list : ~list[i].consumed}

Only(indexes) == IF Cardinality(indexes) = 1 THEN indexes ELSE {}

Consume(list, indexes) ==
  [i \in DOMAIN list |-> IF i \in indexes THEN [list[i] EXCEPT !.consumed = TRUE] ELSE list[i]]

\* Mutant of VisibilityOf: an entry can be claimed again.
VisibilityOfTwice(run) ==
  Only({i \in DOMAIN visibility : run = NULL \/ visibility[i].run = run})

\* claimVisibility: the one unconsumed entry of the run, or of the session.
VisibilityOf(run) ==
  Only({i \in Unconsumed(visibility) : run = NULL \/ visibility[i].run = run})

\* Mutants of PendingOf: an unknown reply-to id falls back to the only
\* candidate, or a candidate can be claimed again.
PendingOfAnyway(replyTo) ==
  LET exact == {i \in Unconsumed(pending) : pending[i].source = replyTo} IN
  IF replyTo = NULL \/ exact = {} THEN Only(Unconsumed(pending))
  ELSE {i \in exact : \A j \in exact : i <= j}

PendingOfTwice(replyTo) ==
  IF replyTo = NULL THEN Only(DOMAIN pending)
  ELSE LET exact == {i \in DOMAIN pending : pending[i].source = replyTo} IN
       {i \in exact : \A j \in exact : i <= j}

\* claimPending: the first unconsumed entry of the reply-to id, or the only one.
PendingOf(replyTo) ==
  IF replyTo = NULL THEN Only(Unconsumed(pending))
  ELSE LET exact == {i \in Unconsumed(pending) : pending[i].source = replyTo} IN
       {i \in exact : \A j \in exact : i <= j}

\* claimProactiveRun.
ProofOf(run) ==
  IF run = NULL THEN {} ELSE Only({i \in Unconsumed(proactive) : proactive[i].run = run})

\* SessionSerialQueue.enqueue: the task is chained on the promise the session's
\* tail holds, or starts at once when there is none, and becomes the tail.
Enqueue(task) ==
  LET next == tickets + 1 IN
  /\ tickets' = next
  /\ queue' = Append(queue, [task EXCEPT !.ticket = next])
  /\ after' = [k \in DOMAIN after \cup {next} |-> IF k = next THEN tail ELSE after[k]]
  /\ tail' = next

-----------------------------------------------------------------------------
(* Hooks.                                                                  *)

\* onBeforeAgentRun: a cron or heartbeat run leaves one proof.
BeforeAgentRun(r) ==
  /\ CauseOf[r] = Proactive
  /\ \A i \in DOMAIN proactive : proactive[i].run # r
  /\ proactive' = Push(proactive, [run |-> r, consumed |-> FALSE])
  /\ UNCHANGED <<received, pending, visibility, shown, sent, queueVars, nodeId,
                 ready, runtime, commands>>

\* onMessageReceived: a message whose source id is still listed is a redelivery.
MessageReceived(m) ==
  LET source == IF m \in Identified THEN m ELSE NULL
      p == Len(received) + 1 IN
  /\ Len(received) < MaxReceived
  /\ source # NULL => \A i \in DOMAIN pending : pending[i].source # source
  /\ received' = Append(received, m)
  /\ pending' = Push(pending, [id |-> p, source |-> source, consumed |-> FALSE])
  /\ Enqueue([kind |-> "question", pending |-> p, payload |-> NULL, named |-> FALSE,
              ticket |-> 0])
  /\ UNCHANGED <<visibility, proactive, shown, sent, nodeId, ready, runtime, commands>>

\* The run of a payload has begun, and its earlier payloads were announced.
Announceable(p) ==
  /\ shown[p] = NULL
  /\ CauseOf[p[1]] = Proactive \/ \E i \in DOMAIN received : received[i] = CauseOf[p[1]]
  /\ CauseOf[p[1]] = Proactive => \E i \in DOMAIN proactive : proactive[i].run = p[1]
  /\ \A i \in 1 .. PayloadsPerRun : i < p[2] => shown[<<p[1], i>>] # NULL

\* onReplyPayloadSending: "visible" text, "hidden" speech of a media payload,
\* or a "suppressed" payload (reasoning, commentary, status, ...).
ReplyPayloadSending(p, as, withRunId) ==
  LET run == IF withRunId THEN p[1] ELSE NULL IN
  /\ Announceable(p)
  /\ shown' = [shown EXCEPT ![p] = as]
  /\ IF as = "suppressed" THEN UNCHANGED <<visibility, proactive>>
     ELSE /\ visibility' = Push(visibility,
               [run |-> run, text |-> IF as = "visible" THEN TextOf[p] ELSE NULL,
                absent |-> ProofOf(run) # {}, consumed |-> FALSE])
          /\ proactive' = Consume(proactive, ProofOf(run))
  /\ UNCHANGED <<received, pending, sent, queueVars, nodeId, ready, runtime, commands>>

\* onMessageSent: the visibility is consumed before the delivery is looked at.
MessageSent(p, success, withRunId, withReplyTo) ==
  LET run == IF withRunId THEN p[1] ELSE NULL
      replyTo == IF withReplyTo /\ CauseOf[p[1]] \in Identified THEN CauseOf[p[1]] ELSE NULL
      seen == VisibilityOf(run)
      shownText == {i \in seen : success /\ visibility[i].text = TextOf[p]}
      absent == \E i \in shownText : visibility[i].absent
      turn == IF shownText = {} \/ absent THEN {} ELSE PendingOf(replyTo) IN
  /\ shown[p] # NULL /\ p \notin sent
  /\ sent' = sent \cup {p}
  /\ visibility' = Consume(visibility, seen)
  /\ pending' = Consume(pending, turn)
  /\ \/ /\ absent
        /\ Enqueue([kind |-> "answer", pending |-> NULL, payload |-> p, named |-> FALSE, ticket |-> 0])
     \/ \E i \in turn :
          Enqueue([kind |-> "answer", pending |-> pending[i].id, payload |-> p,
                   named |-> replyTo # NULL, ticket |-> 0])
     \/ ~absent /\ turn = {} /\ UNCHANGED queueVars
  /\ UNCHANGED <<received, proactive, shown, nodeId, ready, runtime, commands>>

-----------------------------------------------------------------------------
(* The serial queue and the runtime behind it.                             *)

\* ensureReady: HarnessStateStore.ensure settles once and is never tried again.
ReadySettles(outcome) ==
  /\ ready = "unknown"
  /\ ready' = outcome
  /\ UNCHANGED <<hostVars, queueVars, nodeId, runtime, commands>>

\* The runtime may close at any time; nothing restarts it.
RuntimeCloses ==
  /\ runtime = "up"
  /\ runtime' = "closed"
  /\ UNCHANGED <<hostVars, queueVars, nodeId, ready, commands>>

\* What one command can come back as: executed, refused by the runtime, or
\* executed with the answer lost to a timeout, which closes the client.
Outcome == {"done", "refused", "lost"}

Executes(outcome) == ready = "ok" /\ runtime = "up" /\ outcome \in {"done", "lost"}

RuntimeAfter(outcome) ==
  runtime' = IF ready = "ok" /\ runtime = "up" /\ outcome = "lost" THEN "closed" ELSE runtime

\* await pending.nodeId: an answer waits for its question's promise, and is
\* sent when that resolved.
AnchorSettled(task) == task.pending # NULL => nodeId[task.pending] # "pending"

\* Mutant of AnchorResolved: the answer is sent whatever became of its question.
AnchorIgnored(task) == TRUE

AnchorResolved(task) == task.pending # NULL => nodeId[task.pending] = "resolved"

\* previous.catch().then(task): a task starts when the promise it is chained on
\* has settled, whichever way that one's task ended.
Starts(i) == after[queue[i].ticket] \notin DOMAIN after

Without(i) == [j \in 1 .. Len(queue) - 1 |-> IF j < i THEN queue[j] ELSE queue[j + 1]]

\* Mutant of Forget: a settled promise deletes the tail, whoever the tail is.
ForgetAny(k) == 0

\* The finally: the tail is deleted only while it is still the settled promise.
Forget(k) == IF tail = k THEN 0 ELSE tail

\* The promise of a task that has run settles.
Settle(k) ==
  /\ k \in DOMAIN after /\ \A i \in DOMAIN queue : queue[i].ticket # k
  /\ tail' = Forget(k)
  /\ after' = [j \in DOMAIN after \ {k} |-> after[j]]
  /\ UNCHANGED <<hostVars, queue, tickets, nodeId, ready, runtime, commands>>

\* Mutant of Settled: an unavailable runtime leaves the promise unsettled.
SettledWhenExecuted(outcome) ==
  IF Executes(outcome) THEN IF outcome = "done" THEN "resolved" ELSE "rejected" ELSE "pending"

\* What becomes of a question's nodeId promise.
Settled(outcome) == IF Executes(outcome) /\ outcome = "done" THEN "resolved" ELSE "rejected"

\* enqueueQuestion's task; record_reply follows a recorded question and its
\* own result is only logged.
QuestionTask(i, outcome) ==
  LET task == queue[i] IN
  /\ Starts(i) /\ task.kind = "question"
  /\ ready # "unknown"
  /\ queue' = Without(i)
  /\ nodeId' = [nodeId EXCEPT ![task.pending] = Settled(outcome)]
  /\ commands' = IF Executes(outcome) THEN Append(commands, task) ELSE commands
  /\ RuntimeAfter(outcome)
  /\ UNCHANGED <<hostVars, tickets, tail, after, ready>>

\* onMessageSent's task: it sends nothing when the anchor was rejected.
AnswerTask(i, outcome) ==
  LET task == queue[i] IN
  /\ Starts(i) /\ task.kind = "answer"
  /\ ready # "unknown" /\ AnchorSettled(task)
  /\ queue' = Without(i)
  /\ commands' = IF AnchorResolved(task) /\ Executes(outcome) THEN Append(commands, task)
                 ELSE commands
  /\ IF AnchorResolved(task) THEN RuntimeAfter(outcome) ELSE UNCHANGED runtime
  /\ UNCHANGED <<hostVars, tickets, tail, after, nodeId, ready>>

RunTask ==
  \E i \in DOMAIN queue, outcome \in Outcome : QuestionTask(i, outcome) \/ AnswerTask(i, outcome)

-----------------------------------------------------------------------------
Init ==
  /\ received = <<>> /\ pending = <<>> /\ visibility = <<>> /\ proactive = <<>>
  /\ shown = [p \in Payload |-> NULL]
  /\ sent = {}
  /\ queue = <<>> /\ tickets = 0 /\ tail = 0 /\ after = <<>>
  /\ nodeId = [p \in PendingId |-> "pending"]
  /\ ready = "unknown" /\ runtime = "up" /\ commands = <<>>

Next ==
  \/ \E r \in Run : BeforeAgentRun(r)
  \/ \E m \in Message : MessageReceived(m)
  \/ \E p \in Payload, as \in {"visible", "hidden", "suppressed"}, w \in RunIdGiven :
       ReplyPayloadSending(p, as, w)
  \/ \E p \in Payload, success \in BOOLEAN, w \in RunIdGiven, t \in ReplyToGiven :
       MessageSent(p, success, w, t)
  \/ \E outcome \in {"ok", "failed"} : ReadySettles(outcome)
  \/ RuntimeCloses
  \/ RunTask
  \/ \E k \in DOMAIN after : Settle(k)

\* A request is answered or times out, so a started task always comes to an end.
Spec ==
  /\ Init /\ [][Next]_vars
  /\ WF_vars(RunTask)
  /\ WF_vars(\E k \in DOMAIN after : Settle(k))
  /\ WF_vars(\E outcome \in {"ok", "failed"} : ReadySettles(outcome))

-----------------------------------------------------------------------------
(* Properties.                                                             *)

Task == [kind : {"question", "answer"}, pending : PendingId \cup {NULL},
         payload : Payload \cup {NULL}, named : BOOLEAN, ticket : Nat]

\* Shape of the adapter's lists, queue and promises.
TypeOK ==
  /\ received \in Seq(Message) /\ sent \subseteq Payload
  /\ pending \in Seq([id : PendingId, source : Identified \cup {NULL}, consumed : BOOLEAN])
  /\ visibility \in Seq([run : Run \cup {NULL}, text : {TextOf[p] : p \in Payload} \cup {NULL},
                         absent : BOOLEAN, consumed : BOOLEAN])
  /\ proactive \in Seq([run : Run, consumed : BOOLEAN])
  /\ {Len(pending), Len(visibility), Len(proactive)} \subseteq 0 .. Capacity
  /\ shown \in [Payload -> {NULL, "visible", "hidden", "suppressed"}]
  /\ queue \in Seq(Task) /\ commands \in Seq(Task) /\ tickets \in Nat
  /\ tail \in 0 .. tickets /\ DOMAIN after \subseteq 1 .. tickets
  /\ \A k \in DOMAIN after : after[k] \in 0 .. tickets
  /\ nodeId \in [PendingId -> {"pending", "resolved", "rejected"}]
  /\ ready \in {"unknown", "ok", "failed"} /\ runtime \in {"up", "closed"}

\* Every write the adapter has decided on: executed or still queued.
Writes == {commands[i] : i \in DOMAIN commands} \cup {queue[i] : i \in DOMAIN queue}
Answers == {w \in Writes : w.kind = "answer"}

\* The runtime receives the writes of a session in the order their hooks
\* fired, each at most once, although every promise tidies up the shared tail
\* when it settles: a hook never chains its task on a forgotten tail while an
\* earlier task has not run.
SessionOrder ==
  \A i, j \in DOMAIN commands : i < j => commands[i].ticket < commands[j].ticket

\* An answer reaches the runtime only after its question did and came back
\* with a node id: a rejected or lost question takes its answer with it.
AnswerAfterQuestion ==
  \A i \in DOMAIN commands :
    commands[i].kind = "answer" /\ commands[i].pending # NULL =>
      \E j \in 1 .. i - 1 : /\ commands[j].kind = "question"
                            /\ commands[j].pending = commands[i].pending
                            /\ nodeId[commands[j].pending] = "resolved"

\* A pending question is given to one answer only, whatever combination of
\* run ids, reply-to ids and redeliveries claims it.
OneAnswerPerQuestion ==
  \A a, b \in Answers : a.pending # NULL /\ a.pending = b.pending => a = b

\* Each recorded answer uses up a payload the user saw: there are never more
\* answers of a text than visible payloads with it.
ShownTextOnly ==
  \A text \in {TextOf[p] : p \in Payload} :
    Cardinality({a \in Answers : TextOf[a.payload] = text})
      <= Cardinality({p \in Payload : shown[p] = "visible" /\ TextOf[p] = text})

\* An answer whose message_sent named a message is attached to that message's
\* question or to none, whatever less exact events, redeliveries, evictions
\* and payloads of the same text did to the lists before.
AnswersItsOwnQuestion ==
  \A a \in Answers : a.named => CauseOf[a.payload[1]] = received[a.pending]

\* The visible text of a cron or heartbeat run, proven by before_agent_run,
\* is never saved as the answer to a user's question: "Missing or ambiguous
\* correlation is skipped instead of guessed" (README.md).
ProactiveNeverAnswersUser ==
  \A a \in Answers : CauseOf[a.payload[1]] = Proactive => a.pending = NULL

\* No write waits for ever: when messages stop, the session's queue drains, its
\* tail is deleted from the map and the promise of every received message is settled, whatever the runtime did.
\* The queue never waits for a promise that a later task would have to settle.
QueueDrains ==
  <>[](queue = <<>> /\ tail = 0 /\ \A p \in 1 .. Len(received) : nodeId[p] # "pending")
=============================================================================

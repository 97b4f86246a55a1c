--------------------------- MODULE HermesProvider ---------------------------
(***************************************************************************)
(* The memory provider of the Hermes host and its runtime client           *)
(* (integrations/hermes/partner_mem/__init__.py and runtime_client.py).    *)
(* The host's own thread initialises the provider, hands it finished turns *)
(* and shuts it down; tool calls come from threads of their own; a daemon  *)
(* thread writes the turns.  All of them share one client: a lock, a child *)
(* runtime, and a queue of the lines the child printed.  Whoever holds the *)
(* lock takes the next line for its own answer.  The client never restarts *)
(* the child and never repeats a request.                                  *)
(*                                                                         *)
(* The wait for an answer ends after eight seconds; the write before it    *)
(* has no limit.  A line that does not fit into the pipe of a child that   *)
(* does not read keeps its thread, and the lock with it, for good.         *)
(***************************************************************************)
EXTENDS Naturals, Sequences

CONSTANTS
  Session,    \* conversations of the host
  Tool,       \* threads that make one tool call each
  MaxTurns,   \* bound on the turns handed to sync_turn
  NULL

Turn == 1 .. MaxTurns
Thread == {"host", "writer"} \cup Tool
Content == {"both", "question", "answer"}   \* which texts of a turn are not blank
Command == [by : Thread, kind : {"register", "tool", "question", "answer"},
            turn : {0} \cup Turn, conversation : Session]
Line == [command : Command, ok : BOOLEAN]   \* what the child prints

ASSUME HermesAssumption ==
  /\ Session # {} /\ MaxTurns \in Nat
  /\ {"host", "writer"} \cap Tool = {} /\ NULL \notin Thread \cup Line
  /\ NULL \notin Nat

VARIABLES
  at,          \* thread -> what it is doing; "lock", "writing" and "answer" are
               \* inside request, the last two behind the lock
  command,     \* thread -> the command it wants answered
  attached,    \* the provider holds the client
  harness,     \* the provider holds a harness id
  shut,        \* shutdown was called (_closed of the provider)
  session,     \* current session id of the provider
  jobs,        \* queued jobs, and the NULL that ends the writer
  turns,       \* turns synced so far: content and conversation
  done,        \* turns the writer has finished with, however it ended
  lock,        \* the thread that holds the client's lock, or NULL
  closed,      \* _closed of the client
  child,       \* "none", "running", "dying" (terminated) or "gone"
  stdin,       \* commands the child has not read
  serving,     \* the command the child has handled and not answered, or NULL
  stdout,      \* answered commands, with ok or not, that no thread has taken
  stored,      \* write commands committed, in order
  refused      \* ghost: write commands answered with an error

clientVars == <<lock, closed, child, stdin, stdout>>
childVars == <<serving, stored, refused>>
providerVars == <<attached, harness, shut, session, jobs, turns, done>>
vars == <<at, command, clientVars, childVars, providerVars>>

Goto(t, place) == at' = [at EXCEPT ![t] = place]

-----------------------------------------------------------------------------
(* What each thread does when its request has ended.                       *)

\* Mutant of Recovers: an exception ends the writer thread.
RecoversNever == "ended"

Recovers == "idle"

Finish(turn, place) ==
  Goto("writer", place) /\ done' = done \cup {turn} /\ UNCHANGED <<command, harness>>

\* The rest of a turn: its answer is sent in the same job, with the node id of
\* the question.
SendAnswer ==
  /\ command' = [command EXCEPT !["writer"].kind = "answer"]
  /\ Goto("writer", "lock")
  /\ UNCHANGED <<done, harness>>

HasAnswer(c) == c.kind = "question" /\ turns[c.turn].content = "both"

\* request returned: the writer goes on, initialize keeps the id or fails to
\* write the state file, a tool call returns.
Returns(t) ==
  LET c == command[t] IN
  IF t = "writer" THEN IF HasAnswer(c) THEN SendAnswer ELSE Finish(c.turn, "idle")
  ELSE /\ Goto(t, IF t = "host" THEN "up" ELSE "over")
       /\ harness' \in (IF t = "host" THEN {TRUE, FALSE} ELSE {harness})
       /\ UNCHANGED <<command, done>>

\* Mutant of Raises: the answer is sent whatever became of the question.
RaisesAndAnswers(t) ==
  IF t = "writer" /\ HasAnswer(command[t]) THEN SendAnswer
  ELSE IF t = "writer" THEN Finish(command[t].turn, Recovers)
  ELSE Goto(t, IF t = "host" THEN "up" ELSE "over") /\ UNCHANGED <<command, done, harness>>

\* request raised: the writer drops the job, initialize raises without an id, a
\* tool call returns an error envelope.
Raises(t) ==
  IF t = "writer" THEN Finish(command[t].turn, Recovers)
  ELSE Goto(t, IF t = "host" THEN "up" ELSE "over") /\ UNCHANGED <<command, done, harness>>

-----------------------------------------------------------------------------
(* The client: request and close.                                          *)

\* Mutant of LockIsFree: request takes no lock.
LockIsFreeAlways == TRUE

LockIsFree == lock = NULL

\* The lock is taken and the child started by the first request.
TakeLock(t) ==
  /\ at[t] = "lock" /\ LockIsFree
  /\ ~closed /\ child \in {"none", "running"}
  /\ lock' = t
  /\ child' = "running"
  /\ Goto(t, "writing")
  /\ UNCHANGED <<command, closed, stdin, stdout, childVars, providerVars>>

\* The client is closed, or cannot start the child or finds it gone and closes.
LockRefused(t) ==
  /\ at[t] = "lock" /\ LockIsFree
  /\ closed \/ child # "running"
  /\ closed' = TRUE
  /\ Raises(t)
  /\ UNCHANGED <<lock, child, stdin, stdout, childVars, attached, shut, session, jobs, turns>>

\* write and flush return: the pipe has taken the whole line.
Write(t) ==
  /\ at[t] = "writing" /\ child # "gone"
  /\ stdin' = Append(stdin, command[t])
  /\ Goto(t, "answer")
  /\ UNCHANGED <<command, lock, closed, child, stdout, childVars, providerVars>>

\* The next line is the answer, and its error is no reason to close.
TakeLine(t) ==
  /\ at[t] = "answer" /\ stdout # <<>>
  /\ stdout' = Tail(stdout)
  /\ lock' = NULL
  /\ IF Head(stdout).ok THEN Returns(t) ELSE Raises(t)
  /\ UNCHANGED <<closed, child, stdin, childVars, attached, shut, session, jobs, turns>>

\* Mutants of CloseAfter: a timeout fails its request only; the lock is kept.
CloseAfterNothing == lock' = NULL /\ UNCHANGED <<closed, child>>

CloseAfterKeeping ==
  /\ closed' = TRUE
  /\ child' = IF child = "running" THEN "dying" ELSE child
  /\ UNCHANGED lock

CloseAfter ==
  /\ closed' = TRUE
  /\ child' = IF child = "running" THEN "dying" ELSE child
  /\ lock' = NULL

\* A write to a child that is gone; or eight seconds without a line, the end of
\* the child's output or a line that makes no sense: closed for good, the child
\* terminated.
GiveUp(t) ==
  /\ \/ at[t] = "writing" /\ child = "gone"
     \/ at[t] = "answer" /\ stdout = <<>>
  /\ CloseAfter
  /\ Raises(t)
  /\ UNCHANGED <<stdin, stdout, childVars, attached, shut, session, jobs, turns>>

-----------------------------------------------------------------------------
(* The child runtime.                                                      *)

Alive == child \in {"running", "dying"}

\* It reads one line and commits or refuses before it answers.
Serve(ok) ==
  /\ Alive /\ serving = NULL /\ stdin # <<>>
  /\ LET c == Head(stdin)
         write == c.kind \in {"question", "answer"} IN
     /\ stdin' = Tail(stdin)
     /\ serving' = [command |-> c, ok |-> ok]
     /\ stored' = IF write /\ ok THEN Append(stored, c) ELSE stored
     /\ refused' = IF write /\ ~ok THEN refused \cup {c} ELSE refused
  /\ UNCHANGED <<at, command, lock, closed, child, stdout, providerVars>>

Answer ==
  /\ Alive /\ serving # NULL
  /\ stdout' = Append(stdout, serving)
  /\ serving' = NULL
  /\ UNCHANGED <<at, command, lock, closed, child, stdin, stored, refused, providerVars>>

ChildExits ==
  /\ Alive
  /\ child' = "gone"
  /\ UNCHANGED <<at, command, lock, closed, stdin, stdout, childVars, providerVars>>

-----------------------------------------------------------------------------
(* The provider: initialize, sync_turn, the writer, tool calls, shutdown.  *)

\* The id comes from the state file, from a registration, or not at all: then
\* initialize raises and the provider keeps its client.
Initialize ==
  /\ at["host"] = "new"
  /\ attached' = TRUE
  /\ \/ Goto("host", "up") /\ harness' \in BOOLEAN
     \/ Goto("host", "lock") /\ UNCHANGED harness
  /\ UNCHANGED <<command, clientVars, childVars, shut, session, jobs, turns, done>>

\* on_session_switch; or a repeated initialize, which does nothing else.
SwitchSession(s) ==
  /\ at["host"] = "up" /\ session # s
  /\ session' = s
  /\ UNCHANGED <<at, command, clientVars, childVars, attached, harness, shut, jobs, turns, done>>

SyncTurn(content) ==
  /\ at["host"] = "up" /\ ~shut /\ Len(turns) < MaxTurns
  /\ turns' = Append(turns, [content |-> content, conversation |-> session])
  /\ jobs' = Append(jobs, Len(turns) + 1)
  /\ UNCHANGED <<at, command, clientVars, childVars, attached, harness, shut, session, done>>

\* Mutant of Conversation: the writer asks for the session when it writes.
ConversationNow(turn) == session

Conversation(turn) == turns[turn].conversation

\* _write_turn up to its first request; without client or id the job is dropped.
TakeJob ==
  /\ at["writer"] = "idle" /\ jobs # <<>> /\ Head(jobs) # NULL
  /\ jobs' = Tail(jobs)
  /\ LET turn == Head(jobs) IN
     IF attached /\ harness
     THEN /\ command' = [command EXCEPT !["writer"] =
               [by |-> "writer", turn |-> turn, conversation |-> Conversation(turn),
                kind |-> IF turns[turn].content = "answer" THEN "answer" ELSE "question"]]
          /\ Goto("writer", "lock")
          /\ UNCHANGED <<done, harness>>
     ELSE Finish(turn, Recovers)
  /\ UNCHANGED <<clientVars, childVars, attached, shut, session, turns>>

WriterEnds ==
  /\ at["writer"] = "idle" /\ jobs # <<>> /\ Head(jobs) = NULL
  /\ jobs' = Tail(jobs)
  /\ Goto("writer", "ended")
  /\ UNCHANGED <<command, clientVars, childVars, attached, harness, shut, session, turns, done>>

CallTool(t) ==
  /\ at[t] = "idle"
  /\ Goto(t, IF attached /\ harness THEN "lock" ELSE "over")
  /\ UNCHANGED <<command, clientVars, childVars, providerVars>>

Shutdown ==
  /\ at["host"] = "up"
  /\ shut' = TRUE
  /\ jobs' = Append(jobs, NULL)
  /\ Goto("host", "joining")
  /\ UNCHANGED <<command, clientVars, childVars, attached, harness, session, turns, done>>

\* The writer ended, or one second passed.
Joined ==
  /\ at["host"] = "joining"
  /\ attached' = FALSE
  /\ Goto("host", "closing")
  /\ UNCHANGED <<command, clientVars, childVars, harness, shut, session, jobs, turns, done>>

\* close waits for the lock, and terminates the child after releasing it.
Close ==
  /\ at["host"] = "closing" /\ LockIsFree
  /\ CloseAfter
  /\ Goto("host", "down")
  /\ UNCHANGED <<command, stdin, stdout, childVars, providerVars>>

-----------------------------------------------------------------------------
AnySession == CHOOSE s \in Session : TRUE

Init ==
  /\ at = [t \in Thread |-> IF t = "host" THEN "new" ELSE "idle"]
  /\ command = [t \in Thread |->
       [by |-> t, kind |-> IF t = "host" THEN "register" ELSE "tool", turn |-> 0,
        conversation |-> AnySession]]
  /\ attached = FALSE /\ harness = FALSE /\ shut = FALSE /\ session = AnySession
  /\ jobs = <<>> /\ turns = <<>> /\ done = {}
  /\ lock = NULL /\ closed = FALSE /\ child = "none"
  /\ stdin = <<>> /\ serving = NULL /\ stdout = <<>>
  /\ stored = <<>> /\ refused = {}

Request(t) == TakeLock(t) \/ LockRefused(t) \/ TakeLine(t) \/ GiveUp(t)
Writer == TakeJob \/ WriterEnds

Next ==
  \/ \E t \in Thread : Request(t) \/ Write(t)
  \/ \E ok \in BOOLEAN : Serve(ok)
  \/ Answer \/ ChildExits
  \/ Initialize \/ Shutdown \/ Joined \/ Close
  \/ \E s \in Session : SwitchSession(s)
  \/ \E content \in Content : SyncTurn(content)
  \/ Writer
  \/ \E t \in Tool : CallTool(t)

\* Threads run: who finds the lock free takes it, a wait for a line or for the
\* writer ends by its timer, and a write to a child that is gone fails.  The
\* child promises nothing, and so a write to it need not return.
Spec ==
  /\ Init /\ [][Next]_vars
  /\ \A t \in Thread : WF_vars(Request(t))
  /\ WF_vars(Writer) /\ WF_vars(Joined) /\ WF_vars(Close)

-----------------------------------------------------------------------------
(* Properties.                                                             *)

\* Where a thread is behind the client's lock.
Inside == {"writing", "answer"}

\* Shape of the state; the thread that writes or waits for an answer holds the
\* lock.
TypeOK ==
  /\ at \in [Thread -> {"new", "idle", "up", "lock", "writing", "answer", "joining",
                        "closing", "down", "over", "ended"}]
  /\ command \in [Thread -> Command]
  /\ {attached, harness, shut, closed} \subseteq BOOLEAN /\ session \in Session
  /\ jobs \in Seq(Turn \cup {NULL}) /\ done \subseteq Turn
  /\ turns \in Seq([content : Content, conversation : Session])
  /\ {t \in Thread : at[t] \in Inside} = {lock} \ {NULL}
  /\ child \in {"none", "running", "dying", "gone"}
  /\ {stdin, stored} \subseteq Seq(Command) /\ refused \subseteq Command
  /\ serving = NULL \/ serving \in Line
  /\ stdout \in Seq(Line)

Before(c, d) == c.turn < d.turn \/ (c.turn = d.turn /\ c.kind = "question" /\ d.kind = "answer")

StoredSide(turn, kind) == \E i \in DOMAIN stored : stored[i].turn = turn /\ stored[i].kind = kind

\* The runtime stores turns in the order they were finished, each side at most
\* once, and an answer only behind its question: "one non-retryable job"
\* (docs/engineering/PR11), however requests of other threads, timeouts and
\* the shutdown fall in between.
TurnOrder ==
  /\ \A i, j \in DOMAIN stored : i < j => Before(stored[i], stored[j])
  /\ \A n \in DOMAIN turns :
       turns[n].content = "both" /\ StoredSide(n, "answer") => StoredSide(n, "question")

\* A turn is saved in the conversation it was spoken in, though the session
\* may be switched while its job waits.
SavedWhereSpoken ==
  \A i \in DOMAIN stored : stored[i].conversation = turns[stored[i].turn].conversation

\* The line a thread takes answers its own command, though no line names its
\* thread: the client takes the next one, and would close itself for good if
\* it were a late answer to a request given up, or another thread's.
OwnAnswers ==
  \A t \in Thread : at[t] = "answer" /\ stdout # <<>> => Head(stdout).command = command[t]

\* A question stays without its answer only at the end: when an answer got
\* lost, not refused, nothing behind it is ever stored, so history has no
\* silent holes in the middle.
HalfTurnsAreLast ==
  \A i \in DOMAIN stored :
    LET n == stored[i].turn IN
    /\ turns[n].content = "both" /\ StoredSide(n, "question")
    /\ \E j \in DOMAIN stored : stored[j].turn > n
    => \/ StoredSide(n, "answer")
       \/ \E c \in refused : c.turn = n /\ c.kind = "answer"

\* A thread is in the write that has no limit.  Each request writes once, so who
\* is found in it again and again never got out of it.
InWrite == \E t \in Thread : at[t] = "writing"

\* Every turn handed over is dealt with, unless a line gets stuck: no failure
\* stops the writer while jobs are left.
TurnsSettle == \A n \in Turn : (Len(turns) >= n) ~> (n \in done \/ InWrite)

\* Nobody hangs on the client, unless a line gets stuck: shutdown returns, and
\* a tool call comes back to the model with a result or an error envelope,
\* though the child may take lines and stay silent, and the writer or another
\* tool may hold the lock.
ThreadsComeBack ==
  /\ shut ~> (at["host"] = "down" \/ InWrite)
  /\ \A t \in Tool : at[t] \in {"lock", "answer"} ~> (at[t] = "over" \/ InWrite)

\* The host gets out of shutdown whatever became of the writes: "limited
\* cleanup of process resources; it must not block the host's exit without
\* limit for writes that are not finished" (docs/engineering/PR11, in Chinese).
\* The code does not keep to it: close waits for the lock, and the lock for a
\* write without a limit.
ShutdownReturns == shut ~> at["host"] = "down"
=============================================================================

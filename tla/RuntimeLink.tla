----------------------------- MODULE RuntimeLink -----------------------------
(***************************************************************************)
(* One OpenClaw host process and its child runtime: RuntimeClient          *)
(* (openclaw-plugin/src/runtime-client.ts) on one side of two pipes and    *)
(* serveJsonLines (src/runtime/jsonl-server.ts) on the other.  Requests    *)
(* are numbered in the order send is called.  The server awaits each       *)
(* request before it reads the next; a write is handled at once, a tool    *)
(* may wait for the embedding endpoint.  The client never restarts the     *)
(* child and never sends a request twice.                                  *)
(***************************************************************************)
EXTENDS Naturals, Sequences

CONSTANTS
  MaxRequests,   \* bound on the calls of send
  NULL

ASSUME LinkAssumption == MaxRequests \in Nat \ {0} /\ NULL \notin Nat

RequestId == 1 .. MaxRequests
Host == MaxRequests + 1       \* closedBy: the plugin's cleanup
Protocol == MaxRequests + 2   \* closedBy: a line that is not JSON

VARIABLES
  sent,        \* calls of send so far
  kind,        \* request -> "write" or "tool"
  closedBy,    \* closed: the request that timed out, Host or Protocol, or NULL
  exitSeen,    \* the exit event has been delivered to the client
  pending,     \* requests in the client's map, each with its timer
  outcome,     \* request -> what its promise came to
  linesRead,   \* lines of stdout the client has read
  child,       \* "none", "running", "dying" (killed by close) or "gone"
  written,     \* requests that reached the child's stdin, in order
  taken,       \* lines of stdin the server has read
  serving,     \* requests the server is handling
  committed,   \* requests whose transaction committed, in order
  responses    \* requests answered on stdout, in order

vars == <<sent, kind, closedBy, exitSeen, pending, outcome, linesRead,
          child, written, taken, serving, committed, responses>>

callVars == <<sent, kind, written>>
serverVars == <<taken, serving, committed, responses>>

-----------------------------------------------------------------------------
(* The client.                                                             *)

Settle(ids, how) ==
  outcome' = [n \in RequestId |-> IF n \in ids THEN how ELSE outcome[n]]

\* Mutant of Rejected: close clears the map and rejects only its cause.
RejectedCause(by) == {by} \cap pending

\* The promises close rejects: every one in the map.
Rejected(by) == pending

\* close: closed for ever, the map cleared and the child killed.
CloseBy(by) ==
  /\ closedBy' = by
  /\ Settle(Rejected(by), "rejected")
  /\ pending' = {}
  /\ child' = IF child = "running" THEN "dying" ELSE child

\* send: the first call spawns the child, and no later one does.
Send(k) ==
  LET n == sent + 1 IN
  /\ sent < MaxRequests
  /\ sent' = n
  /\ kind' = [kind EXCEPT ![n] = k]
  /\ \/ /\ closedBy = NULL /\ child # "gone"
        /\ child' = "running"
        /\ pending' = pending \cup {n}
        /\ written' = Append(written, n)
        /\ UNCHANGED outcome
     \/ /\ closedBy = NULL /\ child = "gone"   \* the pipe still looks writable
        /\ pending' = pending \cup {n}
        /\ UNCHANGED <<child, written, outcome>>
     \/ /\ closedBy # NULL \/ child = "gone"
        /\ Settle({n}, "rejected")
        /\ UNCHANGED <<child, written, pending>>
  /\ UNCHANGED <<closedBy, exitSeen, linesRead, serverVars>>

\* The write callback: a broken pipe rejects that request only.
WriteFails(n) ==
  /\ n \in pending
  /\ \A i \in DOMAIN written : written[i] # n
  /\ pending' = pending \ {n}
  /\ Settle({n}, "rejected")
  /\ UNCHANGED <<callVars, closedBy, exitSeen, linesRead, child, serverVars>>

\* Mutant of TimesOut: the request is sent again instead.
TimesOutRetrying(n) ==
  /\ n \in pending /\ child = "running" /\ Len(written) < MaxRequests
  /\ written' = Append(written, n)
  /\ UNCHANGED <<sent, kind, closedBy, exitSeen, pending, outcome, linesRead, child, serverVars>>

\* The 30 s timer of the oldest request closes the client for all of them:
\* timers of one length fire in the order they were set.
TimesOut(n) ==
  /\ n \in pending /\ \A m \in pending : n <= m
  /\ CloseBy(n)
  /\ UNCHANGED <<callVars, exitSeen, linesRead, serverVars>>

\* The plugin's lifecycle cleanup, adapter.close; or a line that is not JSON.
HostCloses ==
  /\ closedBy = NULL
  /\ \E by \in {Host, Protocol} : (by = Protocol => child = "running") /\ CloseBy(by)
  /\ UNCHANGED <<callVars, exitSeen, linesRead, serverVars>>

\* handleLine: a response is matched by its id; one for a request that is no
\* longer pending is dropped.
ReadLine ==
  /\ closedBy = NULL
  /\ linesRead < Len(responses)
  /\ linesRead' = linesRead + 1
  /\ LET n == responses[linesRead + 1] IN
       /\ Settle({n} \cap pending, "resolved")
       /\ pending' = pending \ {n}
  /\ UNCHANGED <<callVars, closedBy, exitSeen, child, serverVars>>

\* The exit event, delivered once: rejectPending, and the client stays open.
SeeExit ==
  /\ child = "gone" /\ ~exitSeen
  /\ exitSeen' = TRUE
  /\ Settle(pending, "rejected")
  /\ pending' = {}
  /\ UNCHANGED <<callVars, closedBy, linesRead, child, serverVars>>

-----------------------------------------------------------------------------
(* The child.                                                              *)

Alive == child \in {"running", "dying"}

\* Mutant of Idle: the server does not await a request before the next line.
IdleAlways == TRUE

Idle == serving = {}

\* The server reads a line; runtime.handle commits or refuses its transaction
\* before anything is awaited.
Serve(accepted) ==
  /\ Alive /\ Idle /\ taken < Len(written)
  /\ taken' = taken + 1
  /\ serving' = serving \cup {written[taken + 1]}
  /\ committed' = IF accepted THEN Append(committed, written[taken + 1]) ELSE committed
  /\ UNCHANGED <<callVars, closedBy, exitSeen, pending, outcome, linesRead, child, responses>>

\* The handler returns, after the embedding endpoint for a tool that needs it,
\* and its response line is written.
Respond(n) ==
  /\ Alive /\ n \in serving
  /\ serving' = serving \ {n}
  /\ responses' = Append(responses, n)
  /\ UNCHANGED <<callVars, closedBy, exitSeen, pending, outcome, linesRead, child, taken, committed>>

\* The child dies, of the kill or of its own: what it had not read is lost.
Exit ==
  /\ Alive
  /\ child' = "gone"
  /\ UNCHANGED <<callVars, closedBy, exitSeen, pending, outcome, linesRead, serverVars>>

-----------------------------------------------------------------------------
Init ==
  /\ sent = 0 /\ kind = [n \in RequestId |-> "write"]
  /\ closedBy = NULL /\ child = "none" /\ exitSeen = FALSE
  /\ pending = {} /\ outcome = [n \in RequestId |-> "none"]
  /\ written = <<>> /\ taken = 0 /\ serving = {}
  /\ committed = <<>> /\ responses = <<>> /\ linesRead = 0

Next ==
  \/ \E k \in {"write", "tool"} : Send(k)
  \/ \E n \in RequestId : WriteFails(n) \/ TimesOut(n) \/ Respond(n)
  \/ HostCloses \/ ReadLine \/ SeeExit
  \/ \E accepted \in BOOLEAN : Serve(accepted)
  \/ Exit

\* Every timer fires in the end; nothing else is promised by the code.
Spec == Init /\ [][Next]_vars /\ \A n \in RequestId : WF_vars(TimesOut(n))

-----------------------------------------------------------------------------
(* Properties.                                                             *)

\* Shape of the two processes' state; the server handles one request at a time.
TypeOK ==
  /\ sent \in 0 .. MaxRequests /\ kind \in [RequestId -> {"write", "tool"}]
  /\ closedBy \in RequestId \cup {Host, Protocol, NULL}
  /\ exitSeen \in BOOLEAN /\ child \in {"none", "running", "dying", "gone"}
  /\ pending \in SUBSET RequestId
  /\ outcome \in [RequestId -> {"none", "resolved", "rejected"}]
  /\ {written, committed, responses} \subseteq Seq(RequestId)
  /\ taken \in 0 .. Len(written) /\ linesRead \in 0 .. Len(responses)
  /\ serving = {} \/ \E n \in RequestId : serving = {n}

\* The response stream answers the request stream line by line, in its order,
\* however long a tool waits for its embeddings: the client in the Hermes
\* provider takes the next line for its own answer and relies on it.
AnsweredInOrder ==
  /\ Len(responses) <= taken
  /\ \A i \in DOMAIN responses : responses[i] = written[i]

Promise == INSTANCE AtMostOnce WITH
  Call <- RequestId, submitted <- sent, effects <- committed, verdict <- outcome

\* Whatever times out, dies or closes, a call commits at most once and in
\* call order, and a confirmed call leaves nothing before it undecided.
LinkPromise == Promise!Spec

\* No caller waits for ever: every send is answered, times out or is rejected
\* with the client, so no hook task and no tool call can hang a session.
EverySendSettles == \A n \in RequestId : (sent >= n) ~> (outcome[n] # "none")

\* A tool that waits too long for its embeddings fails alone: it takes no
\* write down with it ("must not block other Tools or writes",
\* docs/engineering/PR10_V1_RETRIEVAL_TOOLS.md).
WritesSurviveTools ==
  [][\A tool \in serving :
       kind[tool] = "tool" /\ closedBy = NULL /\ closedBy' = tool =>
         \A n \in 1 .. sent : kind[n] = "write" => outcome'[n] = outcome[n]]_vars
=============================================================================

---------------------------- MODULE HermesProofs ----------------------------
(* Theorems about the Hermes provider, for every number of tool threads,    *)
(* turns and sessions: which answer a thread takes, and what the runtime    *)
(* has stored whatever was given up, refused or shut down in between.       *)
EXTENDS HermesProvider, SequenceTheorems, TLAPS

Place == {"new", "idle", "up", "lock", "writing", "answer", "joining", "closing", "down", "over", "ended"}

\* A command that writes; the one the child has not read; those committed.
Writing(c) == c.kind \in {"question", "answer"}
Unread == {c \in Command : stdin = <<c>> /\ Writing(c)}
Saved == {stored[i] : i \in DOMAIN stored}

\* The writer has a job in hand, and its latest command.
OnTurn == at["writer"] \in {"lock", "writing", "answer"}
Current == command["writer"]

\* One request is under way at most, and it is the one of the lock's holder:
\* who gives a request up closes the client, so nobody waits after it.
Wire ==
  /\ stdin = <<>> \/ \E c \in Command : stdin = <<c>>
  /\ lock # NULL => ~closed
  /\ ~closed /\ lock = NULL => stdin = <<>> /\ serving = NULL /\ stdout = <<>>
  /\ lock # NULL =>
       \/ at[lock] = "writing" /\ stdin = <<>> /\ serving = NULL /\ stdout = <<>>
       \/ /\ at[lock] = "answer" /\ stdin = <<command[lock]>> /\ serving = NULL
          /\ stdout = <<>>
       \/ /\ at[lock] = "answer" /\ stdin = <<>> /\ stdout = <<>>
          /\ serving # NULL /\ serving.command = command[lock]
       \/ /\ at[lock] = "answer" /\ stdin = <<>> /\ serving = NULL
          /\ \E ok \in BOOLEAN : stdout = <<[command |-> command[lock], ok |-> ok]>>

\* Only the writer writes, and what it writes is of the turn in hand or of an
\* earlier one, with that turn's conversation.
OfItsTurn(c) ==
  /\ Writing(c) /\ c.turn \in 1 .. Len(turns) /\ c.turn <= Current.turn
  /\ c.conversation = turns[c.turn].conversation

Spoken ==
  /\ \A t \in Thread \ {"writer"} : ~Writing(command[t])
  /\ Current.turn \in 0 .. Len(turns)
  /\ OnTurn => OfItsTurn(Current)
  /\ \A c \in Unread \cup Saved : OfItsTurn(c)

\* Jobs wait in the order of the turns; the command in hand comes after all
\* that is stored while the client can still send it.
Order ==
  /\ \A i, j \in DOMAIN stored : i < j => Before(stored[i], stored[j])
  /\ \A c \in Unread, d \in Saved : Before(d, c)
  /\ ~closed /\ at["writer"] \in {"lock", "writing"} => \A d \in Saved : Before(d, Current)
  /\ Current.kind = "question" =>
       \A c \in Unread \cup Saved : c.turn = Current.turn => c.kind = "question"
  /\ \A i \in 1 .. Len(jobs) :
       jobs[i] # NULL => jobs[i] \in 1 .. Len(turns) /\ Current.turn < jobs[i]
  /\ \A i, j \in 1 .. Len(jobs) :
       i < j /\ jobs[i] # NULL /\ jobs[j] # NULL => jobs[i] < jobs[j]

\* What the writer will read says what became of its command.
Judged(ok) ==
  IF ok THEN Current \in Saved
  ELSE Current \in refused /\ \A d \in Saved : Before(d, Current)

Verdicts ==
  lock = "writer" =>
    /\ serving # NULL => Judged(serving.ok)
    /\ stdout # <<>> => Judged(Head(stdout).ok)

\* An answer is sent behind its question.
Asked(n) == \E d \in Saved : d.turn = n /\ d.kind = "question"
BehindQuestion(c) == c.kind = "answer" /\ turns[c.turn].content = "both" => Asked(c.turn)

Questions ==
  /\ \A c \in Unread \cup Saved : BehindQuestion(c)
  /\ OnTurn => BehindQuestion(Current)

\* A stored question whose answer was neither stored nor refused: the writer is
\* still at it, or the client is closed and nothing later can be on its way.
Half(n) ==
  /\ n \in 1 .. Len(turns) /\ turns[n].content = "both" /\ Asked(n)
  /\ \A d \in Saved \cup refused : ~(d.turn = n /\ d.kind = "answer")

Halves ==
  \A n \in Turn : Half(n) =>
    /\ \A c \in Unread \cup Saved : c.turn <= n
    /\ closed \/ (OnTurn /\ Current.turn = n)

HInv == TypeOK /\ Wire /\ Spoken /\ Order /\ Verdicts /\ Questions /\ Halves

-----------------------------------------------------------------------------
(* Facts about one state.                                                   *)

LEMMA Types ==
  ASSUME TypeOK
  PROVE  /\ at \in [Thread -> Place] /\ command \in [Thread -> Command]
         /\ attached \in BOOLEAN /\ harness \in BOOLEAN /\ shut \in BOOLEAN /\ closed \in BOOLEAN
         /\ session \in Session /\ done \subseteq Turn
         /\ jobs \in Seq(Turn \cup {NULL}) /\ Len(jobs) \in Nat
         /\ turns \in Seq([content : Content, conversation : Session]) /\ Len(turns) \in Nat
         /\ child \in {"none", "running", "dying", "gone"}
         /\ stdin \in Seq(Command) /\ stored \in Seq(Command) /\ refused \subseteq Command
         /\ serving = NULL \/ serving \in Line
         /\ stdout \in Seq(Line)
  BY LenProperties DEF TypeOK, Place

LEMMA LockHolder ==
  ASSUME TypeOK
  PROVE  /\ lock = NULL \/ (lock \in Thread /\ at[lock] \in Inside)
         /\ \A t \in Thread : at[t] \in Inside => lock = t
  BY HermesAssumption DEF TypeOK

LEMMA Threads == "host" \in Thread /\ "writer" \in Thread /\ NULL \notin Thread /\ Tool \subseteq Thread \ {"host", "writer"}
  BY HermesAssumption DEF Thread

LEMMA SavedTypes ==
  ASSUME TypeOK
  PROVE  Saved \subseteq Command /\ Unread \subseteq Command
<1>1. stored \in Seq(Command)
  BY Types
<1> QED
  BY <1>1 DEF Saved, Unread

LEMMA Comparable ==
  ASSUME NEW c \in Command
  PROVE  c.turn \in Nat /\ c \in [by : {"host", "writer"} \cup Tool, kind : {"register", "tool", "question", "answer"}, turn : {0} \cup Turn, conversation : Session]
  BY HermesAssumption DEF Command, Turn, Thread

\* Who holds the lock after a step, from what the step does to it.
LEMMA LockKept ==
  ASSUME TypeOK, NEW t \in Thread, NEW p \in Place \ Inside, at[t] \notin Inside,
         at' = [at EXCEPT ![t] = p], lock' = lock
  PROVE  /\ at' \in [Thread -> Place]
         /\ {s \in Thread : at'[s] \in Inside} = {lock'} \ {NULL}
<1>1. /\ at' \in [Thread -> Place]
      /\ \A s \in Thread : at'[s] \in Inside <=> at[s] \in Inside
  BY Types
<1> QED
  BY <1>1 DEF TypeOK

LEMMA LockReleased ==
  ASSUME TypeOK, NEW t \in Thread, NEW p \in Place \ Inside, lock \in {NULL, t},
         at' = [at EXCEPT ![t] = p], lock' = NULL
  PROVE  /\ at' \in [Thread -> Place]
         /\ {s \in Thread : at'[s] \in Inside} = {lock'} \ {NULL}
<1>1. at' \in [Thread -> Place] /\ \A s \in Thread : at'[s] \notin Inside
  BY Types, LockHolder, HermesAssumption
<1> QED
  BY <1>1

-----------------------------------------------------------------------------
(* Steps that no command, turn or stream notices.                           *)

LEMMA QuietStep ==
  ASSUME HInv, NEW t \in Thread \ {"writer"}, NEW p \in Place \ Inside,
         \/ UNCHANGED at
         \/ at[t] \notin Inside /\ at' = [at EXCEPT ![t] = p],
         UNCHANGED <<command, stdin, stdout, lock, closed, childVars, turns, done, jobs>>,
         child' \in {"none", "running", "dying", "gone"}, session' \in Session,
         {attached', harness', shut'} \subseteq BOOLEAN
  PROVE  HInv'
<1> USE DEF HInv, childVars
<1>1. at'["writer"] = at["writer"]
  BY Types, Threads
<1>2. /\ at' \in [Thread -> Place]
      /\ {s \in Thread : at'[s] \in Inside} = {lock'} \ {NULL}
  <2>1. CASE UNCHANGED at
    BY <2>1, Types DEF TypeOK
  <2>2. CASE at[t] \notin Inside /\ at' = [at EXCEPT ![t] = p]
    BY <2>2, LockKept
  <2> QED
    BY <2>1, <2>2
<1>3. TypeOK'
  BY <1>2 DEF TypeOK, Place
<1>4. Unread' = Unread /\ Saved' = Saved /\ OnTurn' = OnTurn /\ Current' = Current
  BY <1>1 DEF Unread, Saved, OnTurn, Current
<1>5. Wire'
  <2>1. lock # NULL => at'[lock] = at[lock]
    BY LockHolder, Types
  <2> QED
    BY <2>1 DEF Wire
<1>6. Spoken' /\ Order' /\ Questions'
  BY <1>1, <1>4 DEF Spoken, OfItsTurn, Order, Questions, BehindQuestion, Asked
<1>7. Verdicts' /\ Halves'
  BY <1>4 DEF Verdicts, Judged, Halves, Half, Asked
<1> QED
  BY <1>3, <1>5, <1>6, <1>7


\* close of the provider: the client is closed, and nobody waits for it.
LEMMA CloseStep ==
  ASSUME HInv, Close
  PROVE  HInv'
<1> USE DEF HInv
<1>1. /\ lock = NULL /\ lock' = NULL /\ closed' = TRUE
      /\ child' \in {"none", "running", "dying", "gone"}
      /\ at' = [at EXCEPT !["host"] = "down"]
      /\ UNCHANGED <<command, stdin, stdout, serving, stored, refused, attached, harness, shut,
                     session, jobs, turns, done>>
  BY Types DEF Close, LockIsFree, CloseAfter, Goto, childVars, providerVars
<1>2. /\ at' \in [Thread -> Place] /\ at'["writer"] = at["writer"]
      /\ {s \in Thread : at'[s] \in Inside} = {lock'} \ {NULL}
  BY <1>1, Types, Threads, LockReleased DEF Place, Inside
<1>3. TypeOK'
  BY <1>1, <1>2 DEF TypeOK, Place
<1>4. Unread' = Unread /\ Saved' = Saved /\ OnTurn' = OnTurn /\ Current' = Current
  BY <1>1, <1>2 DEF Unread, Saved, OnTurn, Current
<1>5. Wire' /\ Verdicts'
  BY <1>1, Threads DEF Wire, Verdicts
<1>6. Spoken' /\ Order' /\ Questions'
  BY <1>1, <1>2, <1>4 DEF Spoken, OfItsTurn, Order, Questions, BehindQuestion, Asked
<1>7. Halves'
  BY <1>1, <1>4 DEF Halves, Half, Asked
<1> QED
  BY <1>3, <1>5, <1>6, <1>7

-----------------------------------------------------------------------------
(* Requests.                                                                *)

\* The wire of an open client with a free lock is empty.
LEMMA TakeLockStep ==
  ASSUME HInv, NEW t \in Thread, TakeLock(t)
  PROVE  HInv'
<1> USE DEF HInv
<1>1. /\ at[t] = "lock" /\ lock = NULL /\ closed = FALSE /\ lock' = t /\ child' = "running"
      /\ stdin = <<>> /\ serving = NULL /\ stdout = <<>>
      /\ at' = [at EXCEPT ![t] = "writing"]
      /\ UNCHANGED <<command, closed, stdin, stdout, serving, stored, refused, attached, harness,
                     shut, session, jobs, turns, done>>
  BY Types DEF TakeLock, LockIsFree, Goto, Wire, childVars, providerVars
<1>2. /\ at' \in [Thread -> Place] /\ at'[t] = "writing"
      /\ {s \in Thread : at'[s] \in Inside} = {lock'} \ {NULL}
  <2>1. /\ at' \in [Thread -> Place] /\ at'[t] = "writing"
        /\ \A s \in Thread : at'[s] \in Inside <=> s = t
    BY <1>1, Types, LockHolder, Threads DEF Place, Inside
  <2> QED
    BY <1>1, <2>1, Threads
<1>3. TypeOK'
  BY <1>1, <1>2 DEF TypeOK, Place
<1>4. /\ Saved' = Saved /\ OnTurn' = OnTurn /\ Current' = Current /\ Unread = {} /\ Unread' = {}
  BY <1>1, Types, Threads DEF Unread, Saved, OnTurn, Current
<1>5. Wire'
  BY <1>1, <1>2, Threads DEF Wire
<1>6. at'["writer"] \in {"lock", "writing"} => at["writer"] \in {"lock", "writing"}
  BY <1>1, Types, Threads
<1>7. Spoken'
  BY <1>1, <1>4 DEF Spoken, OfItsTurn
<1>8. Order'
  BY <1>1, <1>4, <1>6 DEF Order
<1>9. Verdicts' /\ Questions'
  BY <1>1, <1>4 DEF Verdicts, Questions, BehindQuestion, Asked
<1>10. Halves'
  BY <1>1, <1>4 DEF Halves, Half, Asked
<1> QED
  BY <1>3, <1>5, <1>7, <1>8, <1>9, <1>10

\* While its holder writes the wire is empty too, so its line is the only one.
LEMMA WriteStep ==
  ASSUME HInv, NEW t \in Thread, Write(t)
  PROVE  HInv'
<1> USE DEF HInv
<1>0. lock = t /\ lock # NULL
  BY LockHolder, Threads DEF Write, Inside
<1>1. /\ at[t] = "writing" /\ closed = FALSE
      /\ stdin = <<>> /\ serving = NULL /\ stdout = <<>>
      /\ stdin' = Append(stdin, command[t])
      /\ at' = [at EXCEPT ![t] = "answer"]
      /\ UNCHANGED <<command, lock, closed, child, stdout, serving, stored, refused, attached,
                     harness, shut, session, jobs, turns, done>>
  BY <1>0, Types DEF Write, Goto, Wire, childVars, providerVars
<1>2. stdin' = <<command[t]>> /\ stdin' \in Seq(Command) /\ command[t] \in Command
  BY <1>1, Types
<1>3. /\ at' \in [Thread -> Place] /\ at'[t] = "answer"
      /\ {s \in Thread : at'[s] \in Inside} = {lock'} \ {NULL}
  <2>1. /\ at' \in [Thread -> Place] /\ at'[t] = "answer"
        /\ \A s \in Thread : at'[s] \in Inside <=> at[s] \in Inside
    BY <1>1, Types DEF Place, Inside
  <2> QED
    BY <1>1, <2>1 DEF TypeOK
<1>4. TypeOK'
  BY <1>1, <1>2, <1>3 DEF TypeOK, Place
<1>5. /\ Saved' = Saved /\ OnTurn' = OnTurn /\ Current' = Current /\ Unread = {}
      /\ \A c \in Unread' : c = command[t] /\ Writing(c)
  BY <1>1, <1>2, Types, Threads DEF Unread, Saved, OnTurn, Current
<1>6. Wire'
  BY <1>0, <1>1, <1>2, <1>3 DEF Wire
<1>7. \A c \in Unread' : t = "writer" /\ c = Current /\ OnTurn
  BY <1>1, <1>5 DEF Spoken, Current, OnTurn
<1>8. Spoken'
  BY <1>1, <1>5, <1>7 DEF Spoken, OfItsTurn
<1>9. Order'
  <2>1. at'["writer"] \in {"lock", "writing"} => at["writer"] \in {"lock", "writing"}
    BY <1>1, Types, Threads
  <2> QED
    BY <1>1, <1>5, <1>7, <2>1, Types, Threads DEF Order
<1>10. Verdicts' /\ Questions'
  BY <1>1, <1>5, <1>7 DEF Verdicts, Questions, BehindQuestion, Asked
<1>11. Halves'
  <2>1. ASSUME NEW n \in Turn, Half(n)
        PROVE  /\ \A c \in Unread' \cup Saved' : c.turn <= n
               /\ closed' \/ (OnTurn' /\ Current'.turn = n)
    <3>1. /\ OnTurn /\ Current.turn = n
          /\ \A c \in Saved : c.turn <= n
      BY <1>1, <2>1 DEF Halves
    <3>2. \A c \in Unread' : c.turn <= n
      BY <1>7, <3>1 DEF Turn
    <3> QED
      BY <1>5, <3>1, <3>2
  <2>2. \A n \in Turn : Half(n)' <=> Half(n)
    BY <1>1, <1>5 DEF Half, Asked
  <2> QED
    BY <2>1, <2>2 DEF Halves
<1> QED
  BY <1>4, <1>6, <1>8, <1>9, <1>10, <1>11

\* The child reads the line: what it commits comes after all it committed.
LEMMA ServeStep ==
  ASSUME HInv, NEW ok \in BOOLEAN, Serve(ok)
  PROVE  HInv'
<1> USE DEF HInv
<1> DEFINE c == Head(stdin)
<1>1. /\ serving = NULL /\ stdin # <<>> /\ stdin' = Tail(stdin)
      /\ serving' = [command |-> c, ok |-> ok]
      /\ stored' = IF Writing(c) /\ ok THEN Append(stored, c) ELSE stored
      /\ refused' = IF Writing(c) /\ ~ok THEN refused \cup {c} ELSE refused
      /\ UNCHANGED <<at, command, lock, closed, child, stdout, attached, harness, shut,
                     session, jobs, turns, done>>
  BY DEF Serve, Writing, providerVars
<1>2. c \in Command /\ stdin = <<c>> /\ stdin' = <<>> /\ Unread' = {}
      /\ (Writing(c) => c \in Unread)
  <2>1. PICK d \in Command : stdin = <<d>>
    BY <1>1 DEF Wire
  <2>2. c = d /\ stdin' = <<>>
    BY <1>1, <2>1
  <2>3. Unread' = {}
    BY <2>2 DEF Unread
  <2> HIDE DEF c
  <2> QED
    BY <2>1, <2>2, <2>3 DEF Unread
<1>3. serving' # NULL /\ serving' \in Line /\ serving'.ok = ok /\ serving'.command = c
  BY <1>1, <1>2, HermesAssumption DEF Line
<1> HIDE DEF c
<1>4. /\ stored' \in Seq(Command) /\ refused' \subseteq Command
      /\ Saved' = Saved \cup (IF Writing(c) /\ ok THEN {c} ELSE {})
      /\ \A i, j \in DOMAIN stored' : i < j =>
           /\ i \in DOMAIN stored /\ stored'[i] = stored[i]
           /\ \/ j \in DOMAIN stored /\ stored'[j] = stored[j]
              \/ stored'[j] = c /\ Writing(c)
  <2>1. stored \in Seq(Command) /\ refused \subseteq Command /\ Len(stored) \in Nat
    BY Types, LenProperties
  <2>2. CASE Writing(c) /\ ok
    <3>1. stored' = Append(stored, c)
      BY <1>1, <2>2
    <3>2. /\ stored' \in Seq(Command) /\ Len(stored') = Len(stored) + 1
          /\ \A i \in 1 .. Len(stored) : stored'[i] = stored[i]
          /\ stored'[Len(stored) + 1] = c
      BY <1>2, <2>1, <3>1, AppendProperties
    <3>3. DOMAIN stored = 1 .. Len(stored) /\ DOMAIN stored' = 1 .. (Len(stored) + 1)
      BY <2>1, <3>2, LenProperties
    <3>4. Saved' = Saved \cup {c}
      BY <2>1, <3>2, <3>3 DEF Saved
    <3> QED
      BY <1>1, <1>2, <2>1, <2>2, <3>2, <3>3, <3>4
  <2>3. CASE ~(Writing(c) /\ ok)
    BY <1>1, <1>2, <2>1, <2>3 DEF Saved
  <2> QED
    BY <2>2, <2>3
<1>5. TypeOK'
  BY <1>1, <1>2, <1>3, <1>4 DEF TypeOK
<1>6. OnTurn' = OnTurn /\ Current' = Current
  BY <1>1 DEF OnTurn, Current
<1>7. Wire'
  BY <1>1, <1>2, <1>3 DEF Wire
<1>8. ~closed => lock \in Thread /\ c = command[lock] /\ at[lock] = "answer"
  BY <1>1, <1>2, LockHolder DEF Wire
<1>9. Spoken'
  BY <1>1, <1>2, <1>4, <1>6 DEF Spoken, OfItsTurn
<1>10. Writing(c) /\ ~closed => lock = "writer" /\ c = Current /\ at["writer"] = "answer" /\ OnTurn
  <2>1. ASSUME Writing(c), ~closed
        PROVE  lock = "writer"
    BY <1>8, <2>1 DEF Spoken
  <2> QED
    BY <1>8, <2>1, LockHolder, Threads DEF Current, OnTurn, Inside
<1>11. Order'
  <2>1. \A i, j \in DOMAIN stored' : i < j => Before(stored'[i], stored'[j])
    <3>1. \A d \in Saved : Writing(c) => Before(d, c)
      BY <1>2 DEF Order
    <3>2. \A i \in DOMAIN stored : stored[i] \in Saved
      BY DEF Saved
    <3> QED
      BY <1>4, <3>1, <3>2 DEF Order
  <2>2. ~closed' /\ at'["writer"] \in {"lock", "writing"} => \A d \in Saved' : Before(d, Current')
    BY <1>1, <1>4, <1>6, <1>10 DEF Order
  <2> QED
    BY <1>1, <1>2, <1>4, <1>6, <2>1, <2>2 DEF Order
<1>12. Verdicts'
  <2>1. lock = "writer" => c = Current /\ Writing(c) /\ ~closed /\ stdout = <<>>
    <3>1. lock = "writer" => lock # NULL /\ ~closed /\ stdin # <<>> /\ OnTurn
      BY <1>1, LockHolder, Threads DEF Wire, OnTurn
    <3> QED
      BY <1>2, <1>8, <3>1 DEF Wire, Current, Spoken, OfItsTurn
  <2>2. lock = "writer" => Judged(ok)'
    <3>1. \A d \in Saved : Writing(c) => Before(d, c)
      BY <1>2 DEF Order
    <3> QED
      BY <1>1, <1>4, <1>6, <2>1, <3>1 DEF Judged
  <2> QED
    BY <1>1, <1>3, <2>1, <2>2 DEF Verdicts
<1>13. Questions'
  BY <1>1, <1>2, <1>4, <1>6 DEF Questions, BehindQuestion, Asked
<1>14. Halves'
  <2>1. ASSUME NEW n \in Turn, Half(n)', Half(n)
        PROVE  /\ \A d \in Unread' \cup Saved' : d.turn <= n
               /\ closed' \/ (OnTurn' /\ Current'.turn = n)
    BY <1>1, <1>2, <1>4, <1>6, <2>1 DEF Halves
  <2>2. ASSUME NEW n \in Turn, Half(n)', ~Half(n)
        PROVE  /\ \A d \in Unread' \cup Saved' : d.turn <= n
               /\ closed' \/ (OnTurn' /\ Current'.turn = n)
    <3>1. Writing(c) /\ ok /\ c.turn = n
      BY <1>1, <1>4, <2>2 DEF Half, Asked
    <3>2. \A d \in Saved : Before(d, c)
      BY <1>2, <3>1 DEF Order
    <3>3. \A d \in Saved' : d.turn <= n
      BY <1>4, <3>1, <3>2, SavedTypes, Comparable DEF Before, Turn
    <3> QED
      BY <1>1, <1>2, <1>6, <1>10, <3>1, <3>3
  <2> QED
    BY <2>1, <2>2 DEF Halves
<1> QED
  BY <1>5, <1>7, <1>9, <1>11, <1>12, <1>13, <1>14

LEMMA AnswerStep ==
  ASSUME HInv, Answer
  PROVE  HInv'
<1> USE DEF HInv
<1>1. /\ serving # NULL /\ stdout' = Append(stdout, serving) /\ serving' = NULL
      /\ UNCHANGED <<at, command, lock, closed, child, stdin, stored, refused, attached, harness,
                     shut, session, jobs, turns, done>>
  BY DEF Answer, providerVars
<1>2. serving \in Line /\ stdout' \in Seq(Line)
  BY <1>1, Types, AppendProperties
<1>3. TypeOK'
  BY <1>1, <1>2 DEF TypeOK
<1>4. lock # NULL => /\ stdin = <<>> /\ serving.command = command[lock]
                     /\ stdout' = <<serving>>
                     /\ serving = [command |-> command[lock], ok |-> serving.ok]
                     /\ serving.ok \in BOOLEAN
  <2>1. ASSUME lock # NULL
        PROVE  stdin = <<>> /\ serving.command = command[lock] /\ stdout = <<>>
    BY <1>1, <2>1 DEF Wire
  <2>2. stdout = <<>> => stdout' = <<serving>>
    BY <1>1
  <2>3. serving = [command |-> serving.command, ok |-> serving.ok] /\ serving.ok \in BOOLEAN
    BY <1>2 DEF Line
  <2> QED
    BY <2>1, <2>2, <2>3
<1>5. Wire'
  BY <1>1, <1>4 DEF Wire
<1>6. Unread' = Unread /\ Saved' = Saved /\ OnTurn' = OnTurn /\ Current' = Current
  BY <1>1 DEF Unread, Saved, OnTurn, Current
<1>7. Spoken' /\ Order' /\ Questions' /\ Halves'
  BY <1>1, <1>6 DEF Spoken, OfItsTurn, Order, Questions, BehindQuestion, Asked, Halves, Half
<1>8. Verdicts'
  <2>1. lock = "writer" => stdout' = <<serving>> /\ Head(stdout') = serving
    BY <1>4, Threads
  <2> QED
    BY <1>1, <1>6, <2>1 DEF Verdicts, Judged
<1> QED
  BY <1>3, <1>5, <1>7, <1>8

\* What the end of a request does to its thread.
LEMMA Ends ==
  ASSUME HInv, NEW t \in Thread, at[t] \in {"lock", "writing", "answer"}, Returns(t) \/ Raises(t)
  PROVE  /\ harness' \in BOOLEAN
         /\ \/ /\ t # "writer" /\ UNCHANGED <<command, done>>
               /\ \E p \in Place \ Inside : at' = [at EXCEPT ![t] = p]
            \/ /\ t = "writer" /\ at' = [at EXCEPT ![t] = "idle"]
               /\ UNCHANGED command /\ done' = done \cup {Current.turn} /\ Current.turn \in Turn
               /\ Returns(t) => ~HasAnswer(Current)
            \/ /\ t = "writer" /\ at' = [at EXCEPT ![t] = "lock"] /\ UNCHANGED done
               /\ command' = [command EXCEPT !["writer"].kind = "answer"]
               /\ Returns(t) /\ HasAnswer(Current)
<1> USE DEF HInv
<1>1. harness \in BOOLEAN
  BY Types
<1>2. CASE t # "writer"
  BY <1>1, <1>2 DEF Returns, Raises, Goto, Place, Inside
<1>3. CASE t = "writer"
  <2>1. Current.turn \in Turn
    <3>1. OfItsTurn(Current) /\ Current \in Command
      BY <1>3, Types, Threads DEF Spoken, OnTurn, Current
    <3> QED
      BY <3>1, Types DEF OfItsTurn, Command
  <2> QED
    BY <1>1, <1>3, <2>1 DEF Returns, Raises, Goto, Finish, SendAnswer, Recovers, Current
<1> QED
  BY <1>2, <1>3

\* A request that closes the client takes its own job with it, and leaves the
\* rest of the wire to nobody.
LEMMA FailStep ==
  ASSUME HInv, NEW t \in Thread, LockRefused(t) \/ GiveUp(t)
  PROVE  HInv'
<1> USE DEF HInv
<1>1. /\ at[t] \in {"lock", "writing", "answer"} /\ lock \in {NULL, t} /\ lock' = NULL /\ closed' = TRUE
      /\ Raises(t) /\ child' \in {"none", "running", "dying", "gone"}
      /\ UNCHANGED <<stdin, stdout, serving, stored, refused, attached, shut, session, jobs, turns>>
  BY Types, LockHolder DEF LockRefused, GiveUp, LockIsFree, CloseAfter, childVars, Inside
<1>2. /\ harness' \in BOOLEAN /\ UNCHANGED command /\ done' \subseteq Turn
      /\ \E p \in Place \ Inside : at' = [at EXCEPT ![t] = p]
      /\ at'["writer"] \in {at["writer"], "idle"}
  <2>1. UNCHANGED command /\ (t = "writer" => at' = [at EXCEPT ![t] = "idle"])
    BY <1>1 DEF Raises, Finish, Recovers, Goto
  <2>2. harness' \in BOOLEAN /\ done' \subseteq Turn
    BY <1>1, Ends, Types
  <2>3. \E p \in Place \ Inside : at' = [at EXCEPT ![t] = p]
    BY <1>1, Ends DEF Place, Inside
  <2>4. at'["writer"] \in {at["writer"], "idle"}
    BY <2>1, <2>3, Types, Threads
  <2> QED
    BY <2>1, <2>2, <2>3, <2>4
<1>3. /\ at' \in [Thread -> Place]
      /\ {s \in Thread : at'[s] \in Inside} = {lock'} \ {NULL}
  BY <1>1, <1>2, LockReleased
<1>4. TypeOK'
  BY <1>1, <1>2, <1>3 DEF TypeOK, Place
<1>5. Unread' = Unread /\ Saved' = Saved /\ Current' = Current /\ (OnTurn' => OnTurn)
  BY <1>1, <1>2 DEF Unread, Saved, OnTurn, Current
<1>6. Wire' /\ Verdicts'
  BY <1>1, <1>2, Threads DEF Wire, Verdicts
<1>7. Spoken'
  BY <1>1, <1>2, <1>5 DEF Spoken, OfItsTurn
<1>8. Order'
  BY <1>1, <1>2, <1>5 DEF Order
<1>9. Questions' /\ Halves'
  BY <1>1, <1>5 DEF Questions, BehindQuestion, Asked, Halves, Half
<1> QED
  BY <1>4, <1>6, <1>7, <1>8, <1>9

\* The line a thread takes is the answer to its own command.
LEMMA OwnLine ==
  ASSUME TypeOK, Wire, NEW t \in Thread, at[t] = "answer", stdout # <<>>
  PROVE  /\ lock = t /\ closed = FALSE /\ stdin = <<>> /\ serving = NULL
         /\ \E ok \in BOOLEAN : stdout = <<[command |-> command[t], ok |-> ok]>>
<1>1. lock = t /\ lock # NULL
  BY LockHolder, Threads DEF Inside
<1>2. closed = FALSE
  BY <1>1, Types DEF Wire
<1> QED
  BY <1>1, <1>2 DEF Wire

LEMMA TakeLineStep ==
  ASSUME HInv, NEW t \in Thread, TakeLine(t)
  PROVE  HInv'
<1> USE DEF HInv
<1>1. PICK ok \in BOOLEAN : stdout = <<[command |-> command[t], ok |-> ok]>>
  BY OwnLine DEF TakeLine
<1>2. /\ at[t] = "answer" /\ lock = t /\ closed = FALSE /\ stdin = <<>> /\ serving = NULL
      /\ stdout' = <<>> /\ lock' = NULL /\ Head(stdout).ok = ok
      /\ (IF ok THEN Returns(t) ELSE Raises(t))
      /\ UNCHANGED <<closed, child, stdin, serving, stored, refused, attached, shut, session,
                     jobs, turns>>
  <2>1. /\ at[t] = "answer" /\ stdout # <<>> /\ stdout' = Tail(stdout) /\ lock' = NULL
        /\ (IF Head(stdout).ok THEN Returns(t) ELSE Raises(t))
        /\ UNCHANGED <<closed, child, stdin, serving, stored, refused, attached, shut, session,
                       jobs, turns>>
    BY DEF TakeLine, childVars
  <2>2. Tail(stdout) = <<>> /\ Head(stdout).ok = ok
    BY <1>1
  <2>3. lock = t /\ closed = FALSE /\ stdin = <<>> /\ serving = NULL
    BY <2>1, OwnLine
  <2> QED
    BY <2>1, <2>2, <2>3
<1>3. Unread = {} /\ Unread' = {} /\ Saved' = Saved
  BY <1>2 DEF Unread, Saved
<1>4. Wire' /\ Verdicts'
  BY <1>2, Threads DEF Wire, Verdicts
<1>5. /\ harness' \in BOOLEAN /\ \E p \in Place \ Inside : at' = [at EXCEPT ![t] = p]
      /\ done' \subseteq Turn
  BY <1>2, Ends, Types DEF Place, Inside
<1>6. /\ at' \in [Thread -> Place]
      /\ {s \in Thread : at'[s] \in Inside} = {lock'} \ {NULL}
  BY <1>2, <1>5, LockReleased
<1>7. ASSUME command' \in [Thread -> Command]
      PROVE  TypeOK'
  BY <1>2, <1>5, <1>6, <1>7 DEF TypeOK, Place
<1>8. CASE t # "writer" /\ UNCHANGED command
  <2>1. OnTurn' = OnTurn /\ Current' = Current /\ at'["writer"] = at["writer"]
    BY <1>5, <1>8, Types, Threads DEF OnTurn, Current
  <2>2. TypeOK'
    BY <1>7, <1>8, Types
  <2>3. Spoken' /\ Order'
    BY <1>2, <1>3, <1>8, <2>1 DEF Spoken, OfItsTurn, Order
  <2>4. Questions' /\ Halves'
    BY <1>2, <1>3, <1>8, <2>1 DEF Questions, BehindQuestion, Asked, Halves, Half
  <2> QED
    BY <1>4, <2>2, <2>3, <2>4
<1>9. CASE /\ t = "writer" /\ at' = [at EXCEPT ![t] = "idle"] /\ UNCHANGED command
           /\ Returns(t) => ~HasAnswer(Current)
  <2>1. OnTurn /\ ~OnTurn' /\ Current' = Current /\ at'["writer"] = "idle"
    BY <1>2, <1>9, Types, Threads DEF OnTurn, Current
  <2>2. TypeOK'
    BY <1>7, <1>9, Types
  <2>3. Spoken' /\ Order'
    BY <1>2, <1>3, <1>9, <2>1 DEF Spoken, OfItsTurn, Order
  <2>4. Questions'
    BY <1>2, <1>3, <2>1 DEF Questions, BehindQuestion, Asked
  <2>5. ASSUME NEW n \in Turn, Half(n)
        PROVE  FALSE
    <3>1. Current.turn = n /\ Writing(Current)
      BY <1>2, <2>1, <2>5 DEF Halves, Spoken, OfItsTurn
    <3>2. Judged(ok)
      BY <1>1, <1>2, <1>9 DEF Verdicts
    <3>3. Current.kind # "answer"
      BY <2>5, <3>1, <3>2 DEF Half, Judged
    <3>4. CASE ok
      BY <1>2, <1>9, <2>5, <3>1, <3>3, <3>4 DEF HasAnswer, Half, Writing
    <3>5. CASE ~ok
      <4>1. PICK d \in Saved : d.turn = n /\ d.kind = "question"
        BY <2>5 DEF Half, Asked
      <4>2. Before(d, Current)
        BY <3>2, <3>5 DEF Judged
      <4> QED
        BY <3>1, <3>3, <4>1, <4>2 DEF Before, Turn
    <3> QED
      BY <3>4, <3>5
  <2>6. Halves'
    BY <1>2, <1>3, <2>5 DEF Halves, Half, Asked
  <2> QED
    BY <1>4, <2>2, <2>3, <2>4, <2>6
<1>10. CASE /\ t = "writer" /\ at' = [at EXCEPT ![t] = "lock"]
            /\ command' = [command EXCEPT !["writer"].kind = "answer"]
            /\ Returns(t) /\ HasAnswer(Current)
  <2>1. OnTurn /\ OnTurn' /\ at'["writer"] = "lock"
    BY <1>2, <1>10, Types, Threads DEF OnTurn
  <2>2. /\ command' \in [Thread -> Command] /\ Current' = [Current EXCEPT !.kind = "answer"]
        /\ \A s \in Thread \ {"writer"} : command'[s] = command[s]
    <3>1. command \in [Thread -> Command] /\ Current \in Command /\ "writer" \in Thread
      BY <1>2, Types, Threads DEF Current
    <3>2. [Current EXCEPT !.kind = "answer"] \in Command
      BY <3>1 DEF Command
    <3>3. command' = [command EXCEPT !["writer"] = [Current EXCEPT !.kind = "answer"]]
      BY <1>10 DEF Current
    <3> QED
      BY <3>1, <3>2, <3>3 DEF Current
  <2>3. /\ Current'.turn = Current.turn /\ Current'.kind = "answer"
        /\ Current'.conversation = Current.conversation
        /\ Current.kind = "question" /\ turns[Current.turn].content = "both"
    <3>1. Current \in Command
      BY Types, Threads DEF Current
    <3> QED
      BY <1>10, <2>2, <3>1 DEF HasAnswer, Command
  <2>4. Current \in Saved
    <3>1. ok
      BY <1>2, <1>10, <2>1, Types DEF Raises, Finish, Recovers, Goto
    <3> QED
      BY <1>1, <1>2, <1>10, <3>1 DEF Verdicts, Judged
  <2>5. TypeOK'
    BY <1>7, <2>2
  <2>6. Spoken'
    BY <1>2, <1>3, <2>1, <2>2, <2>3 DEF Spoken, OfItsTurn, Writing
  <2>7. \A d \in Saved : Before(d, Current')
    <3>1. \A d \in Saved : /\ d.turn <= Current.turn /\ d.turn \in Nat
                           /\ d.turn = Current.turn => d.kind = "question"
      BY <2>3, SavedTypes, Comparable DEF Spoken, OfItsTurn, Order
    <3>2. Current.turn \in Nat
      BY Types, LenProperties DEF Spoken
    <3> QED
      BY <2>3, <3>1, <3>2 DEF Before
  <2>8. Order'
    BY <1>2, <1>3, <2>3, <2>7 DEF Order
  <2>9. Questions'
    BY <1>2, <1>3, <2>1, <2>3, <2>4 DEF Questions, BehindQuestion, Asked
  <2>10. Halves'
    BY <1>2, <1>3, <2>1, <2>3 DEF Halves, Half, Asked
  <2> QED
    BY <1>4, <2>5, <2>6, <2>8, <2>9, <2>10
<1> QED
  BY <1>2, <1>8, <1>9, <1>10, Ends

-----------------------------------------------------------------------------
(* Jobs.                                                                    *)

LEMMA SyncTurnStep ==
  ASSUME HInv, NEW content \in Content, SyncTurn(content)
  PROVE  HInv'
<1> USE DEF HInv
<1> DEFINE n == Len(turns) + 1
           turn == [content |-> content, conversation |-> session]
<1>1. /\ Len(turns) < MaxTurns /\ turns' = Append(turns, turn) /\ jobs' = Append(jobs, n)
      /\ UNCHANGED <<at, command, lock, closed, child, stdin, stdout, serving, stored, refused,
                     attached, harness, shut, session, done>>
  BY DEF SyncTurn, clientVars, childVars
<1>2. /\ turns' \in Seq([content : Content, conversation : Session]) /\ Len(turns') = n
      /\ \A k \in 1 .. Len(turns) : turns'[k] = turns[k]
      /\ n \in Turn /\ Len(turns) \in Nat
  <2>1. turn \in [content : Content, conversation : Session]
    BY Types
  <2> HIDE DEF turn
  <2> QED
    BY <1>1, <2>1, Types, AppendProperties, HermesAssumption DEF Turn
<1>3. /\ jobs' \in Seq(Turn \cup {NULL}) /\ Len(jobs) \in Nat
      /\ Len(jobs') = Len(jobs) + 1 /\ jobs'[Len(jobs) + 1] = n
      /\ \A i \in 1 .. Len(jobs) : jobs'[i] = jobs[i]
  <2> HIDE DEF n
  <2> QED
    BY <1>1, <1>2, Types, AppendProperties
<1>4. TypeOK'
  BY <1>1, <1>2, <1>3 DEF TypeOK
<1>5. Unread' = Unread /\ Saved' = Saved /\ Current' = Current /\ OnTurn' = OnTurn
  BY <1>1 DEF Unread, Saved, OnTurn, Current
<1>6. Wire' /\ Verdicts'
  BY <1>1, <1>5 DEF Wire, Verdicts, Judged
<1>7. \A c : OfItsTurn(c) => OfItsTurn(c)'
  BY <1>2, <1>5 DEF OfItsTurn
<1>8. Spoken'
  BY <1>1, <1>2, <1>5, <1>7 DEF Spoken
<1>9. Order'
  <2>1. \A i \in 1 .. Len(jobs') : i = Len(jobs) + 1 \/ i \in 1 .. Len(jobs)
    BY <1>3
  <2>2. Current.turn < n
    BY <1>2, Types, Threads DEF Spoken, Current
  <2>3. \A i \in 1 .. Len(jobs) : jobs[i] # NULL => jobs[i] < n
    BY <1>2, Types DEF Order
  <2>4. \A i \in 1 .. Len(jobs') :
          jobs'[i] # NULL => jobs'[i] \in 1 .. Len(turns') /\ Current.turn < jobs'[i]
    <3>1. n \in 1 .. Len(turns')
      BY <1>2
    <3>2. \A i \in 1 .. Len(jobs) : jobs[i] # NULL => jobs[i] \in 1 .. Len(turns') /\ Current.turn < jobs[i]
      BY <1>2 DEF Order
    <3> QED
      BY <1>3, <2>1, <2>2, <3>1, <3>2
  <2>5. ASSUME NEW i \in 1 .. Len(jobs'), NEW j \in 1 .. Len(jobs'), i < j,
               jobs'[i] # NULL, jobs'[j] # NULL
        PROVE  jobs'[i] < jobs'[j]
    <3>1. i \in 1 .. Len(jobs)
      BY <1>3, <2>5
    <3>2. CASE j = Len(jobs) + 1
      BY <1>3, <2>3, <2>5, <3>1, <3>2
    <3>3. CASE j \in 1 .. Len(jobs)
      BY <1>3, <2>5, <3>1, <3>3 DEF Order
    <3> QED
      BY <2>1, <3>2, <3>3
  <2> QED
    BY <1>1, <1>5, <2>4, <2>5 DEF Order
<1>10. Questions'
  BY <1>2, <1>5 DEF Questions, BehindQuestion, Asked, Spoken, OfItsTurn
<1>11. Halves'
  <2>1. ASSUME NEW k \in Turn, Half(k)'
        PROVE  Half(k)
    <3>1. k \in 1 .. Len(turns)
      BY <1>5, <2>1 DEF Half, Asked, Spoken, OfItsTurn
    <3> QED
      BY <1>1, <1>2, <1>5, <2>1, <3>1 DEF Half, Asked
  <2> QED
    BY <1>1, <1>5, <2>1 DEF Halves
<1> QED
  BY <1>4, <1>6, <1>8, <1>9, <1>10, <1>11

LEMMA ShutdownStep ==
  ASSUME HInv, Shutdown
  PROVE  HInv'
<1> USE DEF HInv
<1>1. /\ at["host"] = "up" /\ at' = [at EXCEPT !["host"] = "joining"] /\ shut' = TRUE
      /\ jobs' = Append(jobs, NULL)
      /\ UNCHANGED <<command, lock, closed, child, stdin, stdout, serving, stored, refused,
                     attached, harness, session, turns, done>>
  BY DEF Shutdown, Goto, clientVars, childVars
<1>2. /\ at' \in [Thread -> Place] /\ at'["writer"] = at["writer"]
      /\ {s \in Thread : at'[s] \in Inside} = {lock'} \ {NULL}
  BY <1>1, Types, Threads, LockKept DEF Place, Inside
<1>3. /\ jobs' \in Seq(Turn \cup {NULL}) /\ Len(jobs) \in Nat
      /\ Len(jobs') = Len(jobs) + 1 /\ jobs'[Len(jobs) + 1] = NULL
      /\ \A i \in 1 .. Len(jobs) : jobs'[i] = jobs[i]
  BY <1>1, Types, AppendProperties
<1>4. TypeOK'
  BY <1>1, <1>2, <1>3 DEF TypeOK, Place
<1>5. Unread' = Unread /\ Saved' = Saved /\ Current' = Current /\ OnTurn' = OnTurn
  BY <1>1, <1>2 DEF Unread, Saved, OnTurn, Current
<1>6. Wire' /\ Verdicts' /\ Spoken'
  BY <1>1, <1>5 DEF Wire, Verdicts, Judged, Spoken, OfItsTurn
<1>7. Order'
  <2>1. \A i \in 1 .. Len(jobs') : jobs'[i] # NULL => i \in 1 .. Len(jobs) /\ jobs'[i] = jobs[i]
    BY <1>3
  <2> QED
    BY <1>1, <1>2, <1>5, <2>1 DEF Order
<1>8. Questions' /\ Halves'
  BY <1>1, <1>5 DEF Questions, BehindQuestion, Asked, Halves, Half
<1> QED
  BY <1>4, <1>6, <1>7, <1>8

\* What is left of the jobs keeps its order.
LEMMA JobTaken ==
  ASSUME TypeOK, Order, jobs # <<>>, jobs' = Tail(jobs)
  PROVE  /\ jobs' \in Seq(Turn \cup {NULL}) /\ Len(jobs') \in Nat
         /\ Head(jobs) # NULL =>
              Head(jobs) \in 1 .. Len(turns) /\ Current.turn < Head(jobs) /\ Head(jobs) \in Turn
         /\ \A i \in 1 .. Len(jobs') : jobs'[i] # NULL =>
              /\ jobs'[i] \in 1 .. Len(turns) /\ Current.turn < jobs'[i]
              /\ Head(jobs) # NULL => Head(jobs) < jobs'[i]
         /\ \A i, j \in 1 .. Len(jobs') :
              i < j /\ jobs'[i] # NULL /\ jobs'[j] # NULL => jobs'[i] < jobs'[j]
<1>1. jobs \in Seq(Turn \cup {NULL}) /\ Len(jobs) \in Nat /\ Len(jobs) # 0
  BY Types, EmptySeq, LenProperties
<1>2. /\ jobs' \in Seq(Turn \cup {NULL}) /\ Len(jobs') = Len(jobs) - 1
      /\ \A i \in 1 .. Len(jobs') : i + 1 \in 1 .. Len(jobs) /\ jobs'[i] = jobs[i + 1]
      /\ Head(jobs) = jobs[1] /\ 1 \in 1 .. Len(jobs) /\ jobs[1] \in Turn \cup {NULL}
  BY <1>1, HeadTailProperties, ElementOfSeq
<1>3. \A i \in 1 .. Len(jobs) :
        jobs[i] # NULL => jobs[i] \in 1 .. Len(turns) /\ Current.turn < jobs[i]
  BY DEF Order
<1>4. \A i, j \in 1 .. Len(jobs) :
        i < j /\ jobs[i] # NULL /\ jobs[j] # NULL => jobs[i] < jobs[j]
  BY DEF Order
<1>5. \A i \in 1 .. Len(jobs') : jobs'[i] # NULL /\ jobs[1] # NULL => jobs[1] < jobs'[i]
  BY <1>1, <1>2, <1>4
<1>6. \A i, j \in 1 .. Len(jobs') :
        i < j /\ jobs'[i] # NULL /\ jobs'[j] # NULL => jobs'[i] < jobs'[j]
  BY <1>1, <1>2, <1>4
<1> QED
  BY <1>1, <1>2, <1>3, <1>5, <1>6

LEMMA WriterEndsStep ==
  ASSUME HInv, WriterEnds
  PROVE  HInv'
<1> USE DEF HInv
<1>1. /\ at["writer"] = "idle" /\ at' = [at EXCEPT !["writer"] = "ended"]
      /\ jobs # <<>> /\ jobs' = Tail(jobs)
      /\ UNCHANGED <<command, lock, closed, child, stdin, stdout, serving, stored, refused,
                     attached, harness, shut, session, turns, done>>
  BY DEF WriterEnds, Goto, clientVars, childVars
<1>2. /\ at' \in [Thread -> Place] /\ at'["writer"] = "ended"
      /\ {s \in Thread : at'[s] \in Inside} = {lock'} \ {NULL}
  BY <1>1, Types, Threads, LockKept DEF Place, Inside
<1>3. TypeOK'
  BY <1>1, <1>2, JobTaken DEF TypeOK, Place
<1>4. Unread' = Unread /\ Saved' = Saved /\ Current' = Current /\ ~OnTurn' /\ ~OnTurn
  BY <1>1, <1>2 DEF Unread, Saved, OnTurn, Current
<1>5. Wire' /\ Verdicts' /\ Spoken'
  BY <1>1, <1>4 DEF Wire, Verdicts, Judged, Spoken, OfItsTurn
<1>6. Order'
  BY <1>1, <1>2, <1>4, JobTaken DEF Order
<1>7. Questions' /\ Halves'
  BY <1>1, <1>4 DEF Questions, BehindQuestion, Asked, Halves, Half
<1> QED
  BY <1>3, <1>5, <1>6, <1>7

LEMMA TakeJobStep ==
  ASSUME HInv, TakeJob
  PROVE  HInv'
<1> USE DEF HInv
<1> DEFINE n == Head(jobs)
<1>1. /\ at["writer"] = "idle" /\ jobs # <<>> /\ n # NULL /\ jobs' = Tail(jobs)
      /\ UNCHANGED <<lock, closed, child, stdin, stdout, serving, stored, refused,
                     attached, shut, session, turns>>
  BY DEF TakeJob, clientVars, childVars
<1>2. /\ n \in Turn /\ n \in 1 .. Len(turns) /\ Current.turn < n
      /\ turns[n] \in [content : Content, conversation : Session]
  BY <1>1, JobTaken, Types, ElementOfSeq
<1> HIDE DEF n
<1>3. lock # "writer" /\ ~OnTurn
  BY <1>1, LockHolder, Threads DEF OnTurn, Inside
<1>4. Unread' = Unread /\ Saved' = Saved
  BY <1>1 DEF Unread, Saved
<1>5. Verdicts'
  BY <1>1, <1>3 DEF Verdicts
<1>6. CASE UNCHANGED <<command, harness>> /\ at' = [at EXCEPT !["writer"] = "idle"] /\ done' = done \cup {n}
  <2>1. at' = at
    BY <1>1, <1>6, Types
  <2>2. OnTurn' = OnTurn /\ Current' = Current
    BY <1>6, <2>1 DEF OnTurn, Current
  <2>3. TypeOK'
    BY <1>1, <1>2, <1>6, <2>1, JobTaken DEF TypeOK
  <2>4. Wire' /\ Spoken'
    BY <1>1, <1>4, <1>6, <2>2 DEF Wire, Spoken, OfItsTurn
  <2>5. Order'
    BY <1>1, <1>4, <2>1, <2>2, JobTaken DEF Order
  <2>6. Questions' /\ Halves'
    BY <1>1, <1>4, <2>2 DEF Questions, BehindQuestion, Asked, Halves, Half
  <2> QED
    BY <1>5, <2>3, <2>4, <2>5, <2>6
<1>7. ASSUME NEW kind \in {"question", "answer"}, kind = "answer" => turns[n].content = "answer",
             command' = [command EXCEPT !["writer"] =
                           [by |-> "writer", turn |-> n, conversation |-> turns[n].conversation,
                            kind |-> kind]],
             at' = [at EXCEPT !["writer"] = "lock"], UNCHANGED <<done, harness>>
      PROVE  HInv'
  <2>1. /\ Current' = [by |-> "writer", turn |-> n, conversation |-> turns[n].conversation, kind |-> kind]
        /\ command' \in [Thread -> Command]
        /\ \A t \in Thread \ {"writer"} : command'[t] = command[t]
    BY <1>2, <1>7, Types, Threads DEF Current, Command
  <2>2. Current'.turn = n /\ Current'.kind = kind /\ Current'.conversation = turns[n].conversation
    BY <2>1
  <2>3. /\ at' \in [Thread -> Place] /\ at'["writer"] = "lock" /\ OnTurn'
        /\ {s \in Thread : at'[s] \in Inside} = {lock'} \ {NULL}
    BY <1>1, <1>7, Types, Threads, LockKept DEF Place, OnTurn, Inside
  <2>4. TypeOK'
    BY <1>1, <1>7, <2>1, <2>3, JobTaken DEF TypeOK, Place
  <2>5. Wire'
    <3>1. lock # NULL => lock \in Thread \ {"writer"} /\ at'[lock] = at[lock]
      BY <1>3, <1>7, LockHolder, Types
    <3> QED
      BY <1>1, <2>1, <3>1 DEF Wire
  <2>6. \A c \in Unread \cup Saved : c.turn < n /\ c.turn \in Nat
    BY <1>2, Types, SavedTypes, Comparable DEF Spoken, OfItsTurn
  <2>7. Spoken'
    BY <1>1, <1>2, <1>4, <2>1, <2>2, <2>3, <2>6 DEF Spoken, OfItsTurn, Writing
  <2>8. Order'
    <3>1. \A d \in Saved : Before(d, Current')
      BY <2>2, <2>6 DEF Before
    <3>2. \A c \in Unread \cup Saved : c.turn # n
      BY <1>2, <2>6
    <3> QED
      BY <1>1, <1>4, <2>2, <3>1, <3>2, JobTaken DEF Order, n
  <2>9. Questions'
    BY <1>1, <1>4, <1>7, <2>2, <2>3 DEF Questions, BehindQuestion, Asked
  <2>10. Halves'
    BY <1>1, <1>3, <1>4 DEF Halves, Half, Asked
  <2> QED
    BY <1>5, <2>4, <2>5, <2>7, <2>8, <2>9, <2>10
<1>8. attached /\ harness =>
        /\ command' = [command EXCEPT !["writer"] =
             [by |-> "writer", turn |-> n, conversation |-> turns[n].conversation,
              kind |-> IF turns[n].content = "answer" THEN "answer" ELSE "question"]]
        /\ at' = [at EXCEPT !["writer"] = "lock"] /\ UNCHANGED <<done, harness>>
  BY DEF TakeJob, Goto, Conversation, n
<1>9. ~(attached /\ harness) =>
        UNCHANGED <<command, harness>> /\ at' = [at EXCEPT !["writer"] = "idle"] /\ done' = done \cup {n}
  BY DEF TakeJob, Goto, Finish, Recovers, n
<1> QED
  BY <1>6, <1>7, <1>8, <1>9

-----------------------------------------------------------------------------
LEMMA StepPreserves ==
  ASSUME HInv, [Next]_vars
  PROVE  HInv'
<1> USE DEF HInv
<1>0. ASSUME UNCHANGED <<at, command, stdin, stdout, lock, closed, childVars, turns, done, jobs>>,
             UNCHANGED <<attached, harness, shut>>, session' \in Session,
             child' \in {"none", "running", "dying", "gone"}
      PROVE  HInv'
  <2>1. "host" \in Thread \ {"writer"} /\ "up" \in Place \ Inside
    BY Threads DEF Place, Inside
  <2>2. {attached', harness', shut'} \subseteq BOOLEAN
    BY <1>0, Types
  <2> QED
    BY <1>0, <2>1, <2>2, QuietStep
<1>1. CASE UNCHANGED vars
  <2>1. /\ UNCHANGED <<at, command, stdin, stdout, lock, closed, childVars, turns, done, jobs>>
        /\ UNCHANGED <<child, session, attached, harness, shut>>
    BY <1>1 DEF vars, clientVars, providerVars
  <2> QED
    BY <1>0, <2>1, Types
<1>2. CASE ChildExits
  <2>1. /\ UNCHANGED <<at, command, stdin, stdout, lock, closed, childVars, turns, done, jobs>>
        /\ UNCHANGED <<session, attached, harness, shut>> /\ child' = "gone"
    BY <1>2 DEF ChildExits, providerVars
  <2> QED
    BY <1>0, <2>1, Types
<1>3. ASSUME NEW s \in Session, SwitchSession(s)
      PROVE  HInv'
  <2>1. /\ UNCHANGED <<at, command, stdin, stdout, lock, closed, childVars, turns, done, jobs>>
        /\ UNCHANGED <<child, attached, harness, shut>> /\ session' = s
    BY <1>3 DEF SwitchSession, clientVars
  <2> QED
    BY <1>0, <2>1, Types
<1>4. ASSUME NEW t \in Thread \ {"writer"}, NEW p \in Place \ Inside, at[t] \notin Inside,
             at' = [at EXCEPT ![t] = p], {attached', harness'} \subseteq BOOLEAN,
             UNCHANGED <<command, clientVars, childVars, shut, session, turns, done, jobs>>
      PROVE  HInv'
  BY <1>4, QuietStep, Types DEF clientVars
<1>5. CASE Initialize
  BY <1>4, <1>5, Types, Threads DEF Initialize, Goto, Place, Inside
<1>6. CASE Joined
  BY <1>4, <1>6, Types, Threads DEF Joined, Goto, Place, Inside
<1>7. ASSUME NEW t \in Tool, CallTool(t)
      PROVE  HInv'
  BY <1>4, <1>7, Types, Threads DEF CallTool, Goto, Place, providerVars, Inside
<1> QED
  BY <1>1, <1>2, <1>3, <1>5, <1>6, <1>7, TakeLockStep, FailStep, WriteStep, TakeLineStep, ServeStep, AnswerStep,
     CloseStep, SyncTurnStep, TakeJobStep, WriterEndsStep, ShutdownStep DEF Next, Request, Writer

LEMMA HermesInvariant == Spec => []HInv
<1>1. Init => HInv
  <2> SUFFICES ASSUME Init PROVE HInv
    OBVIOUS
  <2> USE DEF Init
  <2>1. \A S : <<>> \in Seq(S)
    BY EmptySeq
  <2>2. AnySession \in Session
    BY HermesAssumption DEF AnySession
  <2>3. /\ at \in [Thread -> Place] /\ command \in [Thread -> Command]
        /\ \A t \in Thread : at[t] \in {"new", "idle"} /\ ~Writing(command[t])
        /\ Current.turn = 0 /\ Current.kind = "tool" /\ ~OnTurn
    BY <2>2, Threads DEF Place, Command, Writing, Current, OnTurn
  <2>4. Saved = {} /\ Unread = {} /\ Len(jobs) = 0 /\ Len(turns) = 0
    BY EmptySeq DEF Saved, Unread
  <2>5. TypeOK
    BY <2>1, <2>2, <2>3 DEF TypeOK, Place, Inside
  <2>6. Wire /\ Verdicts
    BY Threads DEF Wire, Verdicts
  <2>7. Spoken /\ Order
    BY <2>3, <2>4 DEF Spoken, Order
  <2>8. Questions /\ Halves
    BY <2>3, <2>4 DEF Questions, Halves, Half, Asked
  <2> QED
    BY <2>5, <2>6, <2>7, <2>8 DEF HInv
<1>2. HInv /\ [Next]_vars => HInv'
  BY StepPreserves
<1> QED
  BY <1>1, <1>2, PTL DEF Spec

-----------------------------------------------------------------------------
\* The provider's, the client's and the child's state keep their shape, and one
\* thread at a time writes a line or waits for an answer, the one that holds the
\* client's lock.
THEOREM HermesTypeCorrect == Spec => []TypeOK
<1>1. HInv => TypeOK
  BY DEF HInv
<1> QED
  BY <1>1, HermesInvariant, PTL

\* Whatever is given up or shut down, the line a thread takes from the shared
\* client answers the command that thread sent.
THEOREM ThreadsTakeOwnAnswers == Spec => []OwnAnswers
<1>1. HInv => OwnAnswers
  <2> SUFFICES ASSUME HInv, NEW t \in Thread, at[t] = "answer", stdout # <<>>
               PROVE  Head(stdout).command = command[t]
    BY DEF OwnAnswers
  <2>1. PICK ok \in BOOLEAN : stdout = <<[command |-> command[t], ok |-> ok]>>
    BY OwnLine DEF HInv
  <2> QED
    BY <2>1
<1> QED
  BY <1>1, HermesInvariant, PTL

\* The runtime stores the turns in their order, each side once, and an answer
\* only behind its question.
THEOREM TurnsStoredInOrder == Spec => []TurnOrder
<1>1. HInv => TurnOrder
  <2> SUFFICES ASSUME HInv, NEW n \in DOMAIN turns,
                      turns[n].content = "both", StoredSide(n, "answer")
               PROVE  StoredSide(n, "question")
    BY DEF HInv, Order, TurnOrder
  <2>1. PICK i \in DOMAIN stored : stored[i].turn = n /\ stored[i].kind = "answer"
    BY DEF StoredSide
  <2>2. Asked(n)
    BY <2>1 DEF HInv, Questions, BehindQuestion, Saved
  <2> QED
    BY <2>2 DEF Asked, Saved, StoredSide
<1> QED
  BY <1>1, HermesInvariant, PTL

\* A turn is saved in the conversation it was spoken in.
THEOREM TurnsStayInTheirSession == Spec => []SavedWhereSpoken
<1>1. HInv => SavedWhereSpoken
  BY DEF HInv, Spoken, OfItsTurn, Saved, SavedWhereSpoken
<1> QED
  BY <1>1, HermesInvariant, PTL

\* A question that stays without its answer, though the answer was not refused,
\* is the last thing stored.
THEOREM NoHolesInTheMiddle == Spec => []HalfTurnsAreLast
<1>1. HInv => HalfTurnsAreLast
  <2> SUFFICES ASSUME HInv, NEW i \in DOMAIN stored, NEW n, n = stored[i].turn,
                      turns[n].content = "both", StoredSide(n, "question"),
                      NEW j \in DOMAIN stored, stored[j].turn > n,
                      ~StoredSide(n, "answer"),
                      ~ \E c \in refused : c.turn = n /\ c.kind = "answer"
               PROVE  FALSE
    BY DEF HalfTurnsAreLast
  <2>1. stored[i] \in Saved /\ stored[j] \in Saved
    BY DEF Saved
  <2>2. n \in 1 .. Len(turns) /\ n \in Turn
    <3>1. stored[i] \in Command /\ n \in 1 .. Len(turns)
      BY <2>1, SavedTypes DEF HInv, Spoken, OfItsTurn
    <3> QED
      BY <3>1, Types DEF HInv, Command
  <2>3. Half(n)
    BY <2>2 DEF Half, Asked, StoredSide, Saved
  <2>4. stored[j].turn <= n
    BY <2>1, <2>2, <2>3 DEF HInv, Halves
  <2> QED
    BY <2>1, <2>2, <2>4, SavedTypes, Comparable DEF HInv, Turn
<1> QED
  BY <1>1, HermesInvariant, PTL

-----------------------------------------------------------------------------
(* No turn is lost on the provider's side.                                 *)

Queued(n) == \E i \in 1 .. Len(jobs) : jobs[i] = n
InHand(n) == OnTurn /\ Current.turn = n

\* Every turn handed over is finished, in the writer's hand or queued.
Accounted == \A n \in 1 .. Len(turns) : n \in done \/ InHand(n) \/ Queued(n)

\* The mark that ends the writer is the last entry of the queue, and nothing
\* is queued behind it: the provider takes no turn once it was shut down.
Ending ==
  /\ \A i \in 1 .. Len(jobs) : jobs[i] = NULL => i = Len(jobs) /\ shut
  /\ shut => at["host"] \in {"joining", "closing", "down"}
  /\ at["writer"] = "ended" => shut /\ jobs = <<>>

NothingDropped ==
  /\ Accounted
  /\ at["writer"] = "ended" => 1 .. Len(turns) \subseteq done

\* Steps that leave the turns where they are, in hand or in the queue.
LEMMA KeepsTurns ==
  ASSUME Accounted, Ending, UNCHANGED <<turns, jobs, done, shut>>,
         Current'.turn = Current.turn, OnTurn => OnTurn',
         at'["writer"] = "ended" => at["writer"] = "ended",
         shut => at'["host"] \in {"joining", "closing", "down"}
  PROVE  Accounted' /\ Ending'
<1>1. Accounted'
  BY DEF Accounted, InHand, Queued
<1>2. Ending'
  BY DEF Ending
<1> QED
  BY <1>1, <1>2

\* A request that ends leaves its turn in hand or finishes it.
LEMMA EndsTurn ==
  ASSUME HInv, Accounted, Ending, NEW t \in Thread, LockRefused(t) \/ TakeLine(t) \/ GiveUp(t)
  PROVE  Accounted' /\ Ending'
<1>1. /\ at[t] \in {"lock", "writing", "answer"} /\ (Returns(t) \/ Raises(t))
      /\ UNCHANGED <<turns, jobs, shut>>
  BY DEF LockRefused, TakeLine, GiveUp
<1>2. at \in [Thread -> Place] /\ command \in [Thread -> Command]
  BY Types DEF HInv
<1>3. ~shut \/ t # "host"
  BY <1>1 DEF Ending
<1>4. CASE t # "writer"
  <2>1. /\ UNCHANGED <<command, done>>
        /\ \E p \in Place \ Inside : at' = [at EXCEPT ![t] = p]
    BY <1>1, <1>4, Ends
  <2>2. at'["writer"] = at["writer"] /\ (shut => at'["host"] = at["host"])
    BY <1>2, <1>3, <1>4, <2>1, Threads
  <2> QED
    BY <1>1, <2>1, <2>2, KeepsTurns DEF Current, OnTurn, Ending
<1>5. CASE t = "writer" /\ at' = [at EXCEPT !["writer"] = "lock"]
  <2>1. UNCHANGED done /\ command' = [command EXCEPT !["writer"].kind = "answer"]
    <3>1. at'["writer"] = "lock"
      BY <1>2, <1>5, Threads
    <3>2. at' # [at EXCEPT !["writer"] = "idle"]
      BY <1>2, <3>1, Threads
    <3> QED
      BY <1>1, <1>5, <3>2, Ends
  <2>2. at'["writer"] = "lock" /\ at'["host"] = at["host"] /\ Current'.turn = Current.turn
    BY <1>2, <1>5, <2>1, Threads DEF Current, Command
  <2> QED
    BY <1>1, <2>1, <2>2, KeepsTurns DEF OnTurn, Ending
<1>6. CASE t = "writer" /\ at' = [at EXCEPT !["writer"] = "idle"] /\ done' = done \cup {Current.turn}
  <2>1. at'["writer"] = "idle" /\ at'["host"] = at["host"]
    BY <1>2, <1>6, Threads
  <2>2. Accounted'
    BY <1>1, <1>6 DEF Accounted, InHand, Queued
  <2>3. Ending'
    BY <1>1, <2>1 DEF Ending
  <2> QED
    BY <2>2, <2>3
<1> QED
  BY <1>1, <1>4, <1>5, <1>6, Ends

LEMMA SyncAccounted ==
  ASSUME HInv, Accounted, Ending, NEW content \in Content, SyncTurn(content)
  PROVE  Accounted' /\ Ending'
<1> DEFINE n == Len(turns) + 1
<1>1. /\ ~shut /\ shut' = shut /\ jobs' = Append(jobs, n) /\ n \in Turn /\ n \in Nat
      /\ turns' = Append(turns, [content |-> content, conversation |-> session])
      /\ UNCHANGED <<at, command, done>>
  BY Types, HermesAssumption DEF SyncTurn, HInv, Turn
<1>2. /\ Len(turns) \in Nat /\ Len(jobs) \in Nat /\ Len(turns') = n /\ Len(jobs') = Len(jobs) + 1
      /\ \A i \in 1 .. Len(jobs) : jobs'[i] = jobs[i]
      /\ jobs'[Len(jobs) + 1] = n
  BY <1>1, Types, AppendProperties DEF HInv
<1> HIDE DEF n
<1>3. Accounted'
  <2> SUFFICES ASSUME NEW m \in 1 .. Len(turns')
               PROVE  m \in done' \/ InHand(m)' \/ Queued(m)'
    BY DEF Accounted
  <2>1. CASE m = n
    BY <1>2, <2>1 DEF Queued
  <2>2. CASE m \in 1 .. Len(turns)
    <3>1. InHand(m) => InHand(m)'
      BY <1>1 DEF InHand, OnTurn, Current
    <3>2. Queued(m) => Queued(m)'
      BY <1>2 DEF Queued
    <3> QED
      BY <1>1, <2>2, <3>1, <3>2 DEF Accounted
  <2> QED
    BY <1>2, <2>1, <2>2 DEF n
<1>4. Ending'
  <2>1. \A i \in 1 .. Len(jobs') : jobs'[i] # NULL
    <3> TAKE i \in 1 .. Len(jobs')
    <3>1. CASE i = Len(jobs) + 1
      BY <1>1, <1>2, <3>1, HermesAssumption
    <3>2. CASE i \in 1 .. Len(jobs)
      BY <1>1, <1>2, <3>2 DEF Ending
    <3> QED
      BY <1>2, <3>1, <3>2
  <2> QED
    BY <1>1, <2>1 DEF Ending
<1> QED
  BY <1>3, <1>4

LEMMA ShutdownAccounted ==
  ASSUME HInv, Accounted, Ending, Shutdown
  PROVE  Accounted' /\ Ending'
<1>1. /\ at["host"] = "up" /\ shut' = TRUE /\ jobs' = Append(jobs, NULL)
      /\ at' = [at EXCEPT !["host"] = "joining"] /\ UNCHANGED <<command, turns, done>>
  BY DEF Shutdown, Goto
<1>2. ~shut /\ at["writer"] # "ended"
  BY <1>1 DEF Ending
<1>3. at'["host"] = "joining" /\ at'["writer"] = at["writer"]
  BY <1>1, Types, Threads DEF HInv
<1>4. /\ Len(jobs) \in Nat /\ Len(jobs') = Len(jobs) + 1
      /\ \A i \in 1 .. Len(jobs) : jobs'[i] = jobs[i]
  BY <1>1, Types, AppendProperties DEF HInv
<1>5. \A m : (InHand(m) => InHand(m)') /\ (Queued(m) => Queued(m)')
  BY <1>1, <1>3, <1>4 DEF InHand, OnTurn, Current, Queued
<1>6. Accounted'
  BY <1>1, <1>5 DEF Accounted
<1>7. \A i \in 1 .. Len(jobs') : jobs'[i] = NULL => i = Len(jobs')
  BY <1>2, <1>4 DEF Ending
<1>8. Ending'
  BY <1>1, <1>2, <1>3, <1>7 DEF Ending
<1> QED
  BY <1>6, <1>8

\* The writer takes the first entry of the queue: a turn, or its end.
LEMMA WriterAccounted ==
  ASSUME HInv, Accounted, Ending, Writer
  PROVE  Accounted' /\ Ending'
<1>0. PICK h : h = Head(jobs)
  OBVIOUS
<1>1. /\ at["writer"] = "idle" /\ jobs # <<>> /\ jobs' = Tail(jobs) /\ UNCHANGED <<turns, shut>>
      /\ \E p \in {"idle", "lock", "ended"} : at' = [at EXCEPT !["writer"] = p]
  BY DEF Writer, TakeJob, WriterEnds, Goto, Finish, Recovers
<1>2. at \in [Thread -> Place] /\ command \in [Thread -> Command] /\ jobs \in Seq(Turn \cup {NULL})
  BY Types DEF HInv
<1>3. /\ Len(jobs) \in Nat \ {0} /\ Len(jobs') = Len(jobs) - 1 /\ h = jobs[1] /\ 1 \in 1 .. Len(jobs)
      /\ \A i \in 1 .. Len(jobs') : jobs'[i] = jobs[i + 1] /\ i + 1 \in 1 .. Len(jobs)
  BY <1>0, <1>1, <1>2, HeadTailProperties, EmptySeq, LenProperties
<1>4. at'["host"] = at["host"] /\ ~OnTurn
  BY <1>1, <1>2, Threads DEF OnTurn
<1>5. \A n : Queued(n) => n = h \/ Queued(n)'
  <2> TAKE n
  <2> SUFFICES ASSUME NEW i \in 1 .. Len(jobs), jobs[i] = n, n # h
               PROVE  Queued(n)'
    BY DEF Queued
  <2>1. i # 1
    BY <1>3
  <2>2. PICK k \in 1 .. Len(jobs') : k + 1 = i
    <3>1. i - 1 \in 1 .. Len(jobs') /\ (i - 1) + 1 = i
      BY <1>3, <2>1
    <3> QED
      BY <3>1
  <2> QED
    BY <1>3, <2>2 DEF Queued
<1>6. \A i \in 1 .. Len(jobs') : jobs'[i] = NULL => i = Len(jobs') /\ shut
  BY <1>3 DEF Ending
<1>7. CASE TakeJob
  <2>1. h # NULL /\ (done' = done \cup {h} \/ (UNCHANGED done /\ InHand(h)'))
    <3>1. h # NULL
      BY <1>0, <1>7 DEF TakeJob
    <3>2. CASE attached /\ harness
      <4>1. /\ UNCHANGED done /\ at' = [at EXCEPT !["writer"] = "lock"]
            /\ command'["writer"].turn = h
        BY <1>0, <1>2, <1>7, <3>2, Threads DEF TakeJob, Goto
      <4>2. at'["writer"] = "lock"
        BY <1>2, <4>1, Threads
      <4> QED
        BY <3>1, <4>1, <4>2 DEF InHand, OnTurn, Current
    <3>3. CASE ~(attached /\ harness)
      BY <1>0, <1>7, <3>1, <3>3 DEF TakeJob, Finish
    <3> QED
      BY <3>2, <3>3
  <2>2. at'["writer"] # "ended"
    BY <1>2, <1>7, Threads DEF TakeJob, Goto, Finish, Recovers
  <2>3. Accounted'
    <3> SUFFICES ASSUME NEW n \in 1 .. Len(turns)
                 PROVE  n \in done' \/ InHand(n)' \/ Queued(n)'
      BY <1>1 DEF Accounted
    <3> QED
      BY <1>1, <1>4, <1>5, <2>1 DEF Accounted, InHand
  <2> QED
    BY <1>1, <1>4, <1>6, <2>2, <2>3 DEF Ending
<1>8. CASE WriterEnds
  <2>1. h = NULL /\ UNCHANGED <<done, command>>
    BY <1>0, <1>8 DEF WriterEnds
  <2>2. Len(jobs) = 1 /\ shut
    BY <1>3, <2>1 DEF Ending
  <2>3. jobs' = <<>>
    BY <1>1, <1>2, <1>3, <2>2, HeadTailProperties, EmptySeq
  <2>4. Accounted'
    <3>1. \A n \in 1 .. Len(turns) : n # h
      BY <2>1, HermesAssumption, Types DEF HInv
    <3> QED
      BY <1>1, <1>4, <1>5, <2>1, <3>1 DEF Accounted, InHand
  <2> QED
    BY <1>1, <1>4, <2>2, <2>3, <2>4, EmptySeq DEF Ending
<1> QED
  BY <1>7, <1>8 DEF Writer

LEMMA AccountedStep ==
  ASSUME HInv, Accounted, Ending, [Next]_vars
  PROVE  Accounted' /\ Ending'
<1>1. at \in [Thread -> Place]
  BY Types DEF HInv
<1>2. ASSUME UNCHANGED <<at, command, turns, jobs, done, shut>>
      PROVE  Accounted' /\ Ending'
  BY <1>2, KeepsTurns DEF Current, OnTurn, Ending
<1>3. ASSUME NEW t \in Thread, NEW p, at' = [at EXCEPT ![t] = p], t # "writer",
             shut => t # "host" \/ p \in {"joining", "closing", "down"},
             UNCHANGED <<command, turns, jobs, done, shut>>
      PROVE  Accounted' /\ Ending'
  <2>1. at'["writer"] = at["writer"] /\ (shut => at'["host"] \in {"joining", "closing", "down"})
    BY <1>1, <1>3, Threads DEF Ending
  <2> QED
    BY <1>3, <2>1, KeepsTurns DEF Current, OnTurn
<1>4. CASE UNCHANGED vars \/ (\E ok \in BOOLEAN : Serve(ok)) \/ Answer \/ ChildExits
           \/ \E s \in Session : SwitchSession(s)
  BY <1>2, <1>4 DEF vars, Serve, Answer, ChildExits, SwitchSession, providerVars
<1>5. ASSUME NEW t \in Thread, TakeLock(t) \/ Write(t)
      PROVE  Accounted' /\ Ending'
  <2>0. PICK p \in Inside : at' = [at EXCEPT ![t] = p]
    BY <1>5 DEF TakeLock, Write, Goto, Inside
  <2>1. at[t] \in {"lock", "writing"} /\ UNCHANGED <<command, turns, jobs, done, shut>>
    BY <1>5 DEF TakeLock, Write, providerVars
  <2>2. CASE t = "writer"
    <3>1. at'["writer"] = p /\ at'["host"] = at["host"]
      BY <1>1, <2>0, <2>2, Threads
    <3> QED
      BY <2>1, <3>1, KeepsTurns DEF Current, OnTurn, Ending, Inside
  <2>3. CASE t # "writer"
    BY <1>3, <2>0, <2>1, <2>3 DEF Ending
  <2> QED
    BY <2>2, <2>3
<1>6. CASE Initialize
  <2>1. /\ at["host"] = "new" /\ \E p \in {"up", "lock"} : at' = [at EXCEPT !["host"] = p]
        /\ UNCHANGED <<command, turns, jobs, done, shut>>
    BY <1>6 DEF Initialize, Goto
  <2> QED
    BY <1>3, <2>1, Threads DEF Ending
<1>7. CASE Joined
  BY <1>3, <1>7, Threads DEF Joined, Goto
<1>8. CASE Close
  BY <1>3, <1>8, Threads DEF Close, Goto, providerVars
<1>9. ASSUME NEW t \in Tool, CallTool(t)
      PROVE  Accounted' /\ Ending'
  BY <1>3, <1>9, Threads DEF CallTool, Goto, providerVars
<1> QED
  BY <1>4, <1>5, <1>6, <1>7, <1>8, <1>9, EndsTurn, SyncAccounted, ShutdownAccounted, WriterAccounted
  DEF Next, Request

\* Whatever fails, a turn handed to sync_turn is finished, in the writer's hand
\* or queued before the end mark, and the writer ends only when all are
\* finished: shutdown drops none that it gave time for (_writer_loop, shutdown).
THEOREM NoTurnIsDropped == Spec => []NothingDropped
<1>1. Init => Accounted /\ Ending
  <2> SUFFICES ASSUME Init PROVE Accounted /\ Ending
    OBVIOUS
  <2>1. Len(turns) = 0 /\ Len(jobs) = 0 /\ ~shut /\ at["writer"] # "ended"
    BY EmptySeq, Threads DEF Init
  <2> QED
    BY <2>1 DEF Accounted, Ending
<1>2. HInv /\ Accounted /\ Ending /\ [Next]_vars => Accounted' /\ Ending'
  BY AccountedStep
<1>3. Accounted /\ Ending => NothingDropped
  <2> SUFFICES ASSUME Accounted, Ending, at["writer"] = "ended", NEW n \in 1 .. Len(turns)
               PROVE  n \in done
    BY DEF NothingDropped
  <2>1. ~OnTurn /\ Len(jobs) = 0
    BY EmptySeq DEF OnTurn, Ending
  <2> QED
    BY <2>1 DEF Accounted, InHand, Queued
<1> QED
  BY <1>1, <1>2, <1>3, HermesInvariant, PTL DEF Spec
=============================================================================

-------------------------- MODULE RuntimeLinkProofs --------------------------
(* Theorems about the link between a host and its runtime, for every number *)
(* of requests, and that it implements AtMostOnce.                          *)
EXTENDS RuntimeLink, SequenceTheorems, TLAPS

\* Requests are written in the order of the calls, read one at a time, and
\* answered in the order they were read.
Streams ==
  /\ \A i \in 1 .. Len(written) : written[i] <= sent
  /\ \A i, j \in 1 .. Len(written) : i < j => written[i] < written[j]
  /\ taken = Len(responses) + (IF serving = {} THEN 0 ELSE 1)
  /\ serving # {} => serving = {written[taken]}
  /\ \A i \in 1 .. Len(responses) : responses[i] = written[i]

\* A request commits only once it has been read, and is confirmed only once
\* its response line has been.
Effects ==
  /\ \A i \in 1 .. Len(committed) : \E k \in 1 .. taken : committed[i] = written[k]
  /\ \A n \in RequestId :
       outcome[n] = "resolved" => \E k \in 1 .. Len(responses) : responses[k] = n

\* What is pending was sent and is undecided.
Undecided ==
  /\ pending \subseteq 1 .. sent
  /\ \A n \in RequestId : n \in pending \/ n > sent => outcome[n] = "none"

LInv == TypeOK /\ Streams /\ Effects /\ Undecided

-----------------------------------------------------------------------------
\* The same, element by element and without arithmetic over sequences.
LEMMA Elements ==
  ASSUME LInv
  PROVE  /\ written \in Seq(RequestId) /\ responses \in Seq(RequestId) /\ committed \in Seq(RequestId)
         /\ Len(written) \in Nat /\ Len(responses) \in Nat /\ Len(committed) \in Nat
         /\ taken \in 0 .. Len(written) /\ Len(responses) <= taken
         /\ \A i \in 1 .. Len(written) : written[i] \in Nat /\ written[i] \in 1 .. sent
         /\ sent \in Nat /\ sent <= MaxRequests
<1>1. /\ written \in Seq(RequestId) /\ responses \in Seq(RequestId) /\ committed \in Seq(RequestId)
      /\ taken \in 0 .. Len(written) /\ sent \in 0 .. MaxRequests
  BY DEF LInv, TypeOK
<1>2. Len(written) \in Nat /\ Len(responses) \in Nat /\ Len(committed) \in Nat
  BY <1>1, LenProperties
<1>3. \A i \in 1 .. Len(written) : written[i] \in RequestId
  BY <1>1, <1>2, ElementOfSeq
<1>4. \A i \in 1 .. Len(written) : written[i] <= sent
  BY DEF LInv, Streams
<1>5. Len(responses) <= taken
  BY <1>1, <1>2 DEF LInv, Streams
<1>6. sent \in Nat /\ sent <= MaxRequests
  BY <1>1, LinkAssumption
<1>7. \A i \in 1 .. Len(written) : written[i] \in Nat /\ written[i] \in 1 .. sent
  BY <1>3, <1>4, <1>6, LinkAssumption DEF RequestId
<1> QED
  BY <1>1, <1>2, <1>5, <1>6, <1>7

LEMMA Appended ==
  ASSUME NEW s \in Seq(RequestId), NEW n \in RequestId
  PROVE  /\ Append(s, n) \in Seq(RequestId) /\ Len(Append(s, n)) = Len(s) + 1
         /\ \A i \in 1 .. Len(s) : Append(s, n)[i] = s[i]
         /\ Append(s, n)[Len(s) + 1] = n
         /\ Len(s) \in Nat
BY AppendProperties, LenProperties

\* A step of the client that rejects some requests, and touches no stream.
LEMMA RejectStep ==
  ASSUME LInv, NEW ids \in SUBSET (1 .. sent), Settle(ids, "rejected"),
         pending' \subseteq pending \ ids,
         UNCHANGED <<callVars, serverVars, linesRead>>,
         closedBy' \in RequestId \cup {Host, Protocol, NULL},
         exitSeen' \in BOOLEAN, child' \in {"none", "running", "dying", "gone"}
  PROVE  LInv'
<1> USE DEF callVars, serverVars
<1>1. outcome' = [n \in RequestId |-> IF n \in ids THEN "rejected" ELSE outcome[n]]
  BY DEF Settle
<1>2. TypeOK'
  BY <1>1 DEF LInv, TypeOK
<1>3. Streams' /\ Effects'
  BY <1>1 DEF LInv, Streams, Effects
<1>4. Undecided'
  BY <1>1, LinkAssumption DEF LInv, TypeOK, Undecided, RequestId
<1> QED
  BY <1>2, <1>3, <1>4 DEF LInv

\* The server's streams do not see the calls beyond what is written.
LEMMA SendStep ==
  ASSUME LInv, NEW k \in {"write", "tool"}, Send(k)
  PROVE  LInv'
<1> DEFINE n == sent + 1
<1>1. /\ sent' = n /\ n \in RequestId /\ sent \in Nat /\ sent' \in 0 .. MaxRequests
      /\ kind' = [kind EXCEPT ![n] = k]
      /\ UNCHANGED <<closedBy, exitSeen, linesRead, taken, serving, committed, responses>>
  BY LinkAssumption DEF Send, serverVars, LInv, TypeOK, RequestId
<1>2. n \notin pending /\ outcome[n] = "none" /\ pending \subseteq 1 .. sent
  BY <1>1 DEF LInv, Undecided, RequestId
<1>3. /\ written \in Seq(RequestId) /\ responses \in Seq(RequestId) /\ committed \in Seq(RequestId)
      /\ taken \in 0 .. Len(written) /\ Len(written) \in Nat /\ Len(responses) \in Nat
      /\ \A i \in 1 .. Len(written) : written[i] \in Nat /\ written[i] < n /\ written[i] <= n
      /\ Len(responses) <= Len(written) /\ n \in Nat
  BY <1>1, Elements
<1>4. CASE /\ child' = "running" /\ pending' = pending \cup {n}
           /\ written' = Append(written, n) /\ UNCHANGED outcome
  <2>1. /\ written' \in Seq(RequestId) /\ Len(written') = Len(written) + 1
        /\ \A i \in 1 .. Len(written) : written'[i] = written[i]
        /\ written'[Len(written) + 1] = n
    BY <1>1, <1>3, <1>4, Appended
  <2>2. TypeOK'
    BY <1>1, <1>3, <1>4, <2>1 DEF LInv, TypeOK
  <2>3. Streams'
    <3> HIDE DEF n
    <3>0. \A i \in 1 .. Len(written') : i = Len(written) + 1 \/ i \in 1 .. Len(written)
      BY <1>3, <2>1
    <3>1. \A i \in 1 .. Len(written') : written'[i] <= n
      BY <1>3, <2>1, <3>0
    <3>2. ASSUME NEW i \in 1 .. Len(written'), NEW j \in 1 .. Len(written'), i < j
          PROVE  written'[i] < written'[j]
      <4>1. i \in 1 .. Len(written)
        BY <1>3, <2>1, <3>2
      <4>2. CASE j = Len(written) + 1
        BY <1>3, <2>1, <4>1, <4>2
      <4>3. CASE j \in 1 .. Len(written)
        BY <2>1, <3>2, <4>1, <4>3 DEF LInv, Streams
      <4> QED
        BY <3>0, <4>2, <4>3
    <3>3. taken = Len(responses) + (IF serving = {} THEN 0 ELSE 1)
      BY DEF LInv, Streams
    <3>4. serving # {} => serving = {written'[taken]}
      <4>1. serving # {} => taken \in 1 .. Len(written) /\ serving = {written[taken]}
        BY <1>3, <3>3 DEF LInv, Streams
      <4> QED
        BY <2>1, <4>1
    <3>5. \A i \in 1 .. Len(responses) : responses[i] = written'[i]
      <4>1. \A i \in 1 .. Len(responses) : i \in 1 .. Len(written) /\ responses[i] = written[i]
        BY <1>3 DEF LInv, Streams
      <4> QED
        BY <2>1, <4>1
    <3> QED
      BY <1>1, <3>1, <3>2, <3>3, <3>4, <3>5 DEF Streams
  <2>4. Effects'
    <3>1. \A j \in 1 .. taken : j \in 1 .. Len(written)
      BY <1>3
    <3> QED
      BY <1>1, <1>4, <2>1, <3>1 DEF LInv, Effects
  <2>5. Undecided'
    BY <1>1, <1>2, <1>4 DEF LInv, Undecided, RequestId
  <2> QED
    BY <2>2, <2>3, <2>4, <2>5 DEF LInv
<1>5. CASE /\ pending' = pending \cup {n} /\ UNCHANGED <<child, written, outcome>>
  <2>1. TypeOK'
    BY <1>1, <1>5 DEF LInv, TypeOK
  <2>2. Streams'
    BY <1>1, <1>3, <1>5 DEF LInv, Streams
  <2>4. Effects'
    BY <1>1, <1>5 DEF LInv, Effects
  <2>3. Undecided'
    BY <1>1, <1>2, <1>5 DEF LInv, Undecided, RequestId
  <2> QED
    BY <2>1, <2>2, <2>3, <2>4 DEF LInv
<1>6. CASE Settle({n}, "rejected") /\ UNCHANGED <<child, written, pending>>
  <2>1. outcome' = [m \in RequestId |-> IF m = n THEN "rejected" ELSE outcome[m]]
    BY <1>6 DEF Settle
  <2>2. TypeOK'
    BY <1>1, <1>6, <2>1 DEF LInv, TypeOK
  <2>3. Streams'
    BY <1>1, <1>3, <1>6 DEF LInv, Streams
  <2>5. Effects'
    BY <1>1, <1>6, <2>1 DEF LInv, Effects
  <2>4. Undecided'
    BY <1>1, <1>2, <1>6, <2>1 DEF LInv, Undecided, RequestId
  <2> QED
    BY <2>2, <2>3, <2>4, <2>5 DEF LInv
<1> QED
  BY <1>4, <1>5, <1>6 DEF Send

LEMMA ReadStep ==
  ASSUME LInv, ReadLine
  PROVE  LInv'
<1> DEFINE n == responses[linesRead + 1]
<1>1. /\ linesRead < Len(responses) /\ linesRead' = linesRead + 1
      /\ outcome' = [m \in RequestId |-> IF m \in {n} \cap pending THEN "resolved" ELSE outcome[m]]
      /\ pending' = pending \ {n}
      /\ UNCHANGED <<callVars, closedBy, exitSeen, child, serverVars>>
  BY DEF ReadLine, Settle
<1>2. /\ responses \in Seq(RequestId) /\ Len(responses) \in Nat /\ linesRead \in 0 .. Len(responses)
      /\ linesRead + 1 \in 1 .. Len(responses)
  BY <1>1, LenProperties DEF LInv, TypeOK
<1>3. TypeOK'
  BY <1>1, <1>2 DEF LInv, TypeOK, callVars, serverVars
<1>4. Streams'
  BY <1>1 DEF LInv, Streams, callVars, serverVars
<1>5. Effects'
  <2>1. \A m \in RequestId : outcome'[m] = "resolved" => \E k \in 1 .. Len(responses) : responses[k] = m
    <3>1. \A m \in RequestId : outcome'[m] = "resolved" => m = n \/ outcome[m] = "resolved"
      BY <1>1
    <3> QED
      BY <1>2, <3>1 DEF LInv, Effects
  <2> QED
    BY <1>1, <2>1 DEF LInv, Effects, callVars, serverVars
<1>6. Undecided'
  <2>1. pending' \subseteq 1 .. sent
    BY <1>1 DEF LInv, Undecided
  <2>2. ASSUME NEW m \in RequestId, m \in pending' \/ m > sent
        PROVE  outcome'[m] = "none"
    <3>1. outcome[m] = "none"
      BY <1>1, <2>2 DEF LInv, Undecided
    <3>2. m \notin {n} \cap pending
      BY <1>1, <2>2, Elements DEF LInv, Undecided, RequestId
    <3> QED
      BY <1>1, <3>1, <3>2
  <2> QED
    BY <1>1, <2>1, <2>2 DEF Undecided, callVars
<1> QED
  BY <1>3, <1>4, <1>5, <1>6 DEF LInv

LEMMA ServeStep ==
  ASSUME LInv, NEW accepted \in BOOLEAN, Serve(accepted)
  PROVE  LInv'
<1> DEFINE n == written[taken + 1]
<1>1. /\ serving = {} /\ taken < Len(written) /\ taken' = taken + 1 /\ serving' = {n}
      /\ committed' \in {committed, Append(committed, n)}
      /\ UNCHANGED <<callVars, closedBy, exitSeen, pending, outcome, linesRead, child, responses>>
  BY DEF Serve, Idle
<1>2. /\ written \in Seq(RequestId) /\ committed \in Seq(RequestId)
      /\ Len(written) \in Nat /\ taken \in Nat /\ taken + 1 \in 1 .. Len(written) /\ n \in RequestId
  BY <1>1, LenProperties DEF LInv, TypeOK
<1>3. /\ committed' \in Seq(RequestId)
      /\ \A i \in 1 .. Len(committed') :
           committed'[i] = n \/ (i \in 1 .. Len(committed) /\ committed'[i] = committed[i])
  <2>1. CASE committed' = committed
    BY <1>2, <2>1
  <2>2. CASE committed' = Append(committed, n)
    <3> HIDE DEF n
    <3>1. /\ committed' \in Seq(RequestId) /\ Len(committed') = Len(committed) + 1
          /\ \A i \in 1 .. Len(committed) : committed'[i] = committed[i]
          /\ committed'[Len(committed) + 1] = n /\ Len(committed) \in Nat
      BY <1>2, <2>2, Appended
    <3>2. ASSUME NEW i \in 1 .. Len(committed')
          PROVE  committed'[i] = n \/ (i \in 1 .. Len(committed) /\ committed'[i] = committed[i])
      <4>1. i = Len(committed) + 1 \/ i \in 1 .. Len(committed)
        BY <3>1
      <4> QED
        BY <3>1, <4>1
    <3> QED
      BY <3>1, <3>2
  <2> QED
    BY <1>1, <2>1, <2>2
<1>4. TypeOK'
  BY <1>1, <1>2, <1>3 DEF LInv, TypeOK, callVars
<1>5. Streams'
  <2>1. taken = Len(responses) /\ Len(responses) \in Nat
    BY <1>1, Elements DEF LInv, Streams
  <2>2. taken' = Len(responses) + 1 /\ serving' # {} /\ serving' = {written[taken']}
    BY <1>1, <2>1
  <2> QED
    BY <1>1, <2>1, <2>2 DEF LInv, Streams, callVars
<1>6. Effects'
  <2>1. ASSUME NEW i \in 1 .. Len(committed')
        PROVE  \E k \in 1 .. taken' : committed'[i] = written[k]
    <3>1. CASE committed'[i] = n
      BY <1>1, <1>2, <3>1
    <3>2. CASE i \in 1 .. Len(committed) /\ committed'[i] = committed[i]
      <4>1. PICK k \in 1 .. taken : committed[i] = written[k]
        BY <3>2 DEF LInv, Effects
      <4>2. k \in 1 .. taken'
        BY <1>1, <1>2
      <4> QED
        BY <3>2, <4>1, <4>2
    <3> QED
      BY <1>3, <3>1, <3>2
  <2>2. \A m \in RequestId :
          outcome'[m] = "resolved" => \E k \in 1 .. Len(responses') : responses'[k] = m
    BY <1>1 DEF LInv, Effects
  <2> QED
    BY <1>1, <2>1, <2>2 DEF Effects, callVars
<1>7. Undecided'
  BY <1>1 DEF LInv, Undecided, callVars
<1> QED
  BY <1>4, <1>5, <1>6, <1>7 DEF LInv

LEMMA RespondStep ==
  ASSUME LInv, NEW n \in RequestId, Respond(n)
  PROVE  LInv'
<1>1. /\ n \in serving /\ serving' = serving \ {n} /\ responses' = Append(responses, n)
      /\ UNCHANGED <<callVars, closedBy, exitSeen, pending, outcome, linesRead, child, taken, committed>>
  BY DEF Respond
<1>2. serving = {n} /\ n = written[taken] /\ taken = Len(responses) + 1
  BY <1>1 DEF LInv, Streams
<1>3. /\ responses' \in Seq(RequestId) /\ Len(responses') = Len(responses) + 1
      /\ \A i \in 1 .. Len(responses) : responses'[i] = responses[i]
      /\ responses'[Len(responses) + 1] = n /\ Len(responses) \in Nat
  BY <1>1, Appended DEF LInv, TypeOK
<1>4. TypeOK'
  BY <1>1, <1>2, <1>3 DEF LInv, TypeOK, callVars
<1>5. Streams'
  <2>1. serving' = {} /\ taken' = Len(responses')
    BY <1>1, <1>2, <1>3
  <2>2. \A i \in 1 .. Len(responses') : responses'[i] = written[i]
    <3>1. \A i \in 1 .. Len(responses') : i = Len(responses) + 1 \/ i \in 1 .. Len(responses)
      BY <1>3
    <3>2. \A i \in 1 .. Len(responses) : responses[i] = written[i]
      BY DEF LInv, Streams
    <3> QED
      BY <1>2, <1>3, <3>1, <3>2
  <2> QED
    BY <1>1, <1>3, <2>1, <2>2 DEF LInv, Streams, callVars
<1>6. Effects'
  BY <1>1, <1>3 DEF LInv, Effects, callVars
<1>7. Undecided'
  BY <1>1 DEF LInv, Undecided, callVars
<1> QED
  BY <1>4, <1>5, <1>6, <1>7 DEF LInv

LEMMA StepPreserves ==
  ASSUME LInv, [Next]_vars
  PROVE  LInv'
<1>1. ASSUME UNCHANGED <<callVars, closedBy, exitSeen, pending, outcome, linesRead, serverVars>>,
             child' \in {"none", "running", "dying", "gone"}
      PROVE  LInv'
  <2>1. TypeOK'
    BY <1>1 DEF LInv, TypeOK, callVars, serverVars
  <2>2. Streams'
    BY <1>1 DEF LInv, Streams, callVars, serverVars
  <2>3. Effects'
    BY <1>1 DEF LInv, Effects, callVars, serverVars
  <2>4. Undecided'
    BY <1>1 DEF LInv, Undecided, callVars
  <2> QED
    BY <2>1, <2>2, <2>3, <2>4 DEF LInv
<1>2. ASSUME NEW n \in RequestId, WriteFails(n)
      PROVE  LInv'
  <2>1. pending \subseteq 1 .. sent /\ closedBy \in RequestId \cup {Host, Protocol, NULL}
        /\ exitSeen \in BOOLEAN /\ child \in {"none", "running", "dying", "gone"}
    BY DEF LInv, TypeOK, Undecided
  <2>2. {n} \in SUBSET (1 .. sent)
    BY <1>2, <2>1 DEF WriteFails
  <2> QED
    BY <1>2, <2>1, <2>2, RejectStep DEF WriteFails
<1>3. ASSUME NEW by \in RequestId \cup {Host, Protocol}, CloseBy(by),
             UNCHANGED <<callVars, exitSeen, linesRead, serverVars>>
      PROVE  LInv'
  <2>1. pending \subseteq 1 .. sent /\ exitSeen \in BOOLEAN
        /\ child \in {"none", "running", "dying", "gone"}
    BY DEF LInv, TypeOK, Undecided
  <2> QED
    BY <1>3, <2>1, RejectStep DEF CloseBy, Rejected
<1>4. (\E n \in RequestId : TimesOut(n)) \/ HostCloses => LInv'
  BY <1>3 DEF TimesOut, HostCloses
<1>5. CASE SeeExit
  <2>1. pending \subseteq 1 .. sent /\ closedBy \in RequestId \cup {Host, Protocol, NULL}
        /\ child \in {"none", "running", "dying", "gone"}
    BY DEF LInv, TypeOK, Undecided
  <2> QED
    BY <1>5, <2>1, RejectStep DEF SeeExit
<1>6. CASE Exit
  BY <1>1, <1>6 DEF Exit
<1>7. CASE UNCHANGED vars
  <2>1. child' \in {"none", "running", "dying", "gone"}
    BY <1>7 DEF vars, LInv, TypeOK
  <2> QED
    BY <1>1, <1>7, <2>1 DEF vars, callVars, serverVars
<1> QED
  BY <1>2, <1>4, <1>5, <1>6, <1>7, SendStep, ReadStep, ServeStep, RespondStep DEF Next
-----------------------------------------------------------------------------
LEMMA LinkInvariant == Spec => []LInv
<1>1. Init => LInv
  <2>1. ASSUME Init PROVE TypeOK
    <3>1. <<>> \in Seq(RequestId) /\ Len(<<>>) = 0
      OBVIOUS
    <3>2. 0 \in 0 .. MaxRequests /\ 0 \in 0 .. 0
      BY LinkAssumption
    <3> QED
      BY <2>1, <3>1, <3>2 DEF Init, TypeOK
  <2>2. ASSUME Init PROVE Streams /\ Effects /\ Undecided
    BY <2>2, LinkAssumption, EmptySeq DEF Init, Streams, Effects, Undecided, RequestId
  <2> QED
    BY <2>1, <2>2 DEF LInv
<1>2. LInv /\ [Next]_vars => LInv'
  BY StepPreserves
<1> QED
  BY <1>1, <1>2, PTL DEF Spec

\* The two processes' state keeps its shape, and serveJsonLines never handles
\* a second request before it has answered the first.
THEOREM LinkTypeCorrect == Spec => []TypeOK
<1>1. LInv => TypeOK
  BY DEF LInv
<1> QED
  BY <1>1, LinkInvariant, PTL

\* The lines the server answers are the lines it was sent, in order, however
\* many requests there are and whatever times out, closes or dies.
THEOREM LinkAnswersInOrder == Spec => []AnsweredInOrder
<1>1. LInv => AnsweredInOrder
  BY Elements, LenProperties DEF LInv, Streams, AnsweredInOrder
<1> QED
  BY <1>1, LinkInvariant, PTL

-----------------------------------------------------------------------------
(* The link implements AtMostOnce.                                          *)

\* A rejection of undecided requests is a step GiveUp of the promise.
LEMMA RejectImplements ==
  ASSUME LInv, NEW ids \in SUBSET (1 .. sent), \A n \in ids \cap RequestId : outcome[n] = "none",
         Settle(ids, "rejected"), UNCHANGED <<sent, committed>>
  PROVE  Promise!GiveUp
<1>1. outcome' = [n \in RequestId |->
                    IF n \in ids /\ outcome[n] = "none" THEN "rejected" ELSE outcome[n]]
  BY DEF Settle
<1> QED
  BY <1>1 DEF Promise!GiveUp, Promise!Reject

\* A call is submitted when it is sent, rejected at once or left undecided.
LEMMA SendImplements ==
  ASSUME LInv, NEW k \in {"write", "tool"}, Send(k)
  PROVE  Promise!Submit
<1> DEFINE n == sent + 1
<1>1. sent' = n /\ n \in RequestId /\ UNCHANGED committed
  BY Elements, LinkAssumption DEF Send, serverVars, RequestId
<1>2. outcome[n] = "none" /\ outcome = [m \in RequestId |-> outcome[m]]
  BY <1>1, Elements DEF LInv, TypeOK, Undecided
<1>3. CASE UNCHANGED outcome
  BY <1>1, <1>2, <1>3 DEF Promise!Submit, Promise!Reject
<1>4. CASE Settle({n}, "rejected")
  <2>1. outcome' = [m \in RequestId |->
                      IF m \in {n} /\ outcome[m] = "none" THEN "rejected" ELSE outcome[m]]
    BY <1>2, <1>4 DEF Settle
  <2> QED
    BY <1>1, <2>1 DEF Promise!Submit, Promise!Reject
<1> QED
  BY <1>3, <1>4 DEF Send

\* A response line confirms the call it answers, if the call is undecided.
LEMMA ReadImplements ==
  ASSUME LInv, ReadLine
  PROVE  (\E n \in RequestId : Promise!Confirm(n)) \/ UNCHANGED <<sent, committed, outcome>>
<1> DEFINE n == responses[linesRead + 1]
<1>1. /\ outcome' = [m \in RequestId |-> IF m \in {n} \cap pending THEN "resolved" ELSE outcome[m]]
      /\ UNCHANGED <<sent, committed>>
  BY DEF ReadLine, Settle, callVars, serverVars
<1>2. outcome = [m \in RequestId |-> outcome[m]]
  BY DEF LInv, TypeOK
<1>3. CASE n \in pending
  <2>1. n \in RequestId /\ n <= sent /\ outcome[n] = "none"
    <3> HIDE DEF n
    <3>1. n \in RequestId /\ n \in 1 .. sent
      BY <1>3 DEF LInv, TypeOK, Undecided
    <3> QED
      BY <1>3, <3>1 DEF LInv, Undecided
  <2>2. outcome' = [outcome EXCEPT ![n] = "resolved"]
    BY <1>1, <1>2, <1>3
  <2> QED
    BY <1>1, <2>1, <2>2 DEF Promise!Confirm
<1>4. CASE n \notin pending
  BY <1>1, <1>2, <1>4
<1> QED
  BY <1>3, <1>4

\* A commit is the effect of the call whose line was read: every earlier
\* effect is of an earlier call, and no later call has been confirmed.
LEMMA ServeImplements ==
  ASSUME LInv, NEW accepted \in BOOLEAN, Serve(accepted)
  PROVE  (\E n \in RequestId : Promise!TakeEffect(n)) \/ UNCHANGED <<sent, committed, outcome>>
<1> DEFINE n == written[taken + 1]
<1>1. /\ taken < Len(written) /\ serving = {} /\ UNCHANGED <<sent, outcome>>
      /\ committed' = Append(committed, n) \/ UNCHANGED committed
  BY DEF Serve, Idle, callVars
<1>2. taken \in Nat /\ taken + 1 \in 1 .. Len(written) /\ taken = Len(responses)
  BY <1>1, Elements DEF LInv, Streams
<1>3. n \in RequestId /\ n \in Nat /\ n <= sent
  <2>1. n \in 1 .. sent /\ sent \in Nat /\ sent <= MaxRequests
    BY <1>2, Elements
  <2> HIDE DEF n
  <2> QED
    BY <2>1, LinkAssumption DEF RequestId
<1>4. \A k \in 1 .. taken : written[k] < n /\ written[k] \in Nat
  BY <1>2, Elements DEF LInv, Streams
<1>5. \A i \in DOMAIN committed : committed[i] < n
  BY <1>4, Elements, LenProperties DEF LInv, Effects
<1>6. ASSUME NEW later \in RequestId, later >= n, outcome[later] = "resolved"
      PROVE  FALSE
  <2>1. PICK k \in 1 .. Len(responses) : responses[k] = later
    BY <1>6 DEF LInv, Effects
  <2>2. later = written[k] /\ k \in 1 .. taken
    BY <1>2, <2>1 DEF LInv, Streams
  <2> QED
    BY <1>3, <1>4, <1>6, <2>2
<1> QED
  BY <1>1, <1>3, <1>5, <1>6 DEF Promise!TakeEffect

\* However many calls there are: a call commits at most once and in the order
\* of the calls, and nothing before a confirmed call is left undecided.
THEOREM LinkImplementsPromise == Spec => LinkPromise
<1>1. Init => Promise!Init
  BY DEF Init, Promise!Init
<1>2. ASSUME LInv, [Next]_vars
      PROVE  [Promise!Next]_<<sent, committed, outcome>>
  <2>1. ASSUME NEW ids \in SUBSET pending, Settle(ids, "rejected"), UNCHANGED <<sent, committed>>
        PROVE  Promise!Next
    <3>1. ids \in SUBSET (1 .. sent) /\ \A n \in ids \cap RequestId : outcome[n] = "none"
      BY <1>2 DEF LInv, Undecided
    <3> QED
      BY <1>2, <2>1, <3>1, RejectImplements DEF Promise!Next
  <2>2. (\E n \in RequestId : WriteFails(n) \/ TimesOut(n)) \/ HostCloses \/ SeeExit
          => Promise!Next
    BY <2>1 DEF WriteFails, TimesOut, HostCloses, SeeExit, CloseBy, Rejected, callVars, serverVars
  <2>3. (\E n \in RequestId : Respond(n)) \/ Exit \/ UNCHANGED vars
          => UNCHANGED <<sent, committed, outcome>>
    BY DEF Respond, Exit, vars, callVars, serverVars
  <2> QED
    BY <1>2, <2>2, <2>3, SendImplements, ReadImplements, ServeImplements DEF Next, Promise!Next
<1> QED
  BY <1>1, <1>2, LinkInvariant, PTL DEF Spec, LinkPromise, Promise!Spec

-----------------------------------------------------------------------------
(* Nobody is forgotten.                                                    *)

\* A send without a result is in the client's map, where its timer, the exit
\* of the child and close find it.
NoneForgotten == \A n \in 1 .. sent : outcome[n] = "none" => n \in pending

\* The client takes a request from its map only with a result.
LEMMA ForgetsNone ==
  ASSUME LInv, NoneForgotten, NEW ids, NEW how \in {"resolved", "rejected"},
         Settle(ids, how), pending \ ids \subseteq pending', sent' = sent
  PROVE  NoneForgotten'
<1>1. 1 .. sent \subseteq RequestId
  BY LinkAssumption DEF LInv, TypeOK, RequestId
<1>2. \A n \in RequestId : outcome'[n] = IF n \in ids THEN how ELSE outcome[n]
  BY DEF Settle
<1> QED
  BY <1>1, <1>2 DEF NoneForgotten

\* Whatever else happens, a send that has no result is in the client's map: a
\* timer, the exit or close ends it, and no send waits for nothing (send,
\* close, handleLine, rejectPending).
THEOREM NoSendIsForgotten == Spec => []NoneForgotten
<1>1. Init => NoneForgotten
  BY DEF Init, NoneForgotten
<1>2. ASSUME LInv, NoneForgotten, [Next]_vars
      PROVE  NoneForgotten'
  <2>1. ASSUME UNCHANGED <<sent, outcome, pending>>
        PROVE  NoneForgotten'
    BY <1>2, <2>1 DEF NoneForgotten
  <2>2. ASSUME NEW k \in {"write", "tool"}, Send(k)
        PROVE  NoneForgotten'
    <3>1. /\ sent' = sent + 1 /\ sent \in Nat /\ sent + 1 <= MaxRequests /\ MaxRequests \in Nat
          /\ sent + 1 \in RequestId
      BY <1>2, <2>2, LinkAssumption DEF Send, LInv, TypeOK, RequestId
    <3>2. \/ pending' = pending \cup {sent + 1} /\ UNCHANGED outcome
          \/ UNCHANGED pending /\ Settle({sent + 1}, "rejected")
      BY <2>2 DEF Send
    <3>3. \A n \in 1 .. sent' : n = sent + 1 \/ n \in 1 .. sent
      BY <3>1
    <3>4. CASE pending' = pending \cup {sent + 1} /\ UNCHANGED outcome
      BY <1>2, <3>3, <3>4 DEF NoneForgotten
    <3>5. CASE UNCHANGED pending /\ Settle({sent + 1}, "rejected")
      <4>1. \A n \in RequestId : outcome'[n] = IF n = sent + 1 THEN "rejected" ELSE outcome[n]
        BY <3>5 DEF Settle
      <4>2. \A n \in 1 .. sent : n \in RequestId
        BY <3>1, LinkAssumption DEF RequestId
      <4> QED
        BY <1>2, <3>1, <3>3, <3>5, <4>1, <4>2 DEF NoneForgotten
    <3> QED
      BY <3>2, <3>4, <3>5
  <2>3. ASSUME NEW n \in RequestId, WriteFails(n)
        PROVE  NoneForgotten'
    BY <1>2, <2>3, ForgetsNone DEF WriteFails, callVars
  <2>4. ASSUME NEW by, CloseBy(by), sent' = sent
        PROVE  NoneForgotten'
    BY <1>2, <2>4, ForgetsNone DEF CloseBy, Rejected
  <2>5. (\E n \in RequestId : TimesOut(n)) \/ HostCloses => NoneForgotten'
    BY <2>4 DEF TimesOut, HostCloses, callVars
  <2>6. CASE SeeExit
    BY <1>2, <2>6, ForgetsNone DEF SeeExit, callVars
  <2>7. CASE ReadLine
    <3> DEFINE n == responses[linesRead + 1]
    <3>1. Settle({n} \cap pending, "resolved") /\ pending' = pending \ {n} /\ sent' = sent
      BY <2>7 DEF ReadLine, callVars
    <3> HIDE DEF n
    <3> QED
      BY <1>2, <3>1, ForgetsNone
  <2>8. (\E n \in RequestId : Respond(n)) \/ (\E accepted \in BOOLEAN : Serve(accepted)) \/ Exit
          \/ UNCHANGED vars => UNCHANGED <<sent, outcome, pending>>
    BY DEF Respond, Serve, Exit, vars, callVars
  <2> QED
    BY <1>2, <2>1, <2>2, <2>3, <2>5, <2>6, <2>7, <2>8 DEF Next
<1> QED
  BY <1>1, <1>2, LinkInvariant, PTL DEF Spec
=============================================================================

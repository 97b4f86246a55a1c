----------------------------- MODULE AtMostOnce -----------------------------
(***************************************************************************)
(* What a caller of the runtime may rely on, without processes, pipes or   *)
(* timers.  A call takes effect at most once and in the order of the       *)
(* calls; a call that is confirmed has had its effect, or never will, and  *)
(* so has every earlier one.  A call that is rejected may still have had   *)
(* its effect, or have it later: the caller is not told.                   *)
(***************************************************************************)
EXTENDS Naturals, Sequences

CONSTANT Call

VARIABLES submitted, effects, verdict

Init == submitted = 0 /\ effects = <<>> /\ verdict = [n \in Call |-> "none"]

\* Some calls are rejected, at once or together with others.
Reject(ids) ==
  verdict' = [n \in Call |-> IF n \in ids /\ verdict[n] = "none" THEN "rejected" ELSE verdict[n]]

Submit ==
  /\ submitted + 1 \in Call
  /\ submitted' = submitted + 1
  /\ Reject({}) \/ Reject({submitted + 1})
  /\ UNCHANGED effects

GiveUp ==
  /\ \E ids \in SUBSET (1 .. submitted) : Reject(ids)
  /\ UNCHANGED <<submitted, effects>>

TakeEffect(n) ==
  /\ n <= submitted
  /\ \A i \in DOMAIN effects : effects[i] < n
  /\ \A later \in Call : later >= n => verdict[later] # "resolved"
  /\ effects' = Append(effects, n)
  /\ UNCHANGED <<submitted, verdict>>

Confirm(n) ==
  /\ n <= submitted /\ verdict[n] = "none"
  /\ verdict' = [verdict EXCEPT ![n] = "resolved"]
  /\ UNCHANGED <<submitted, effects>>

Next == Submit \/ GiveUp \/ \E n \in Call : TakeEffect(n) \/ Confirm(n)

Spec == Init /\ [][Next]_<<submitted, effects, verdict>>
=============================================================================

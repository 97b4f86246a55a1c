---------------------------- MODULE HarnessState ----------------------------
(***************************************************************************)
(* How a host process gets its harness id: HarnessStateStore of the        *)
(* OpenClaw plugin (openclaw-plugin/src/state.ts), which the Hermes        *)
(* provider repeats (_load_or_register_harness).  The id in state.json is  *)
(* reused; without one a harness is registered in the database and its id  *)
(* is written to a temporary file, then renamed to state.json.  A process  *)
(* tries once and remembers how it ended; it may die between any two       *)
(* steps, and the next one starts from the two files it finds.             *)
(***************************************************************************)
EXTENDS Naturals, FiniteSets

CONSTANTS
  Process,     \* host processes configured with the same two paths
  HarnessId,   \* bound: values randomUUID may return
  NULL

ASSUME StateAssumption ==
  /\ NULL \notin HarnessId
  /\ \A instances \in SUBSET HarnessId : instances # NULL

VARIABLES
  state_json,  \* the harness id in state.json, NULL where there is no file
  database,    \* harness_instances of the database, NULL where there is no file
  phase,       \* process -> how far ensure has come
  harness,     \* process -> the id it holds, or NULL
  awaited,     \* process -> something awaits its ready promise
  adopted,     \* ghost: ids some process has been ready with
  overlapped   \* ghost: two processes have run at the same time

vars == <<state_json, database, phase, harness, awaited, adopted, overlapped>>

Phase == {"down", "up", "checking", "registering", "writing", "renaming", "ready",
          "failed", "unhandled"}

Running == {p \in Process : phase[p] # "down"}

-----------------------------------------------------------------------------
(* Processes start, call and die.                                          *)

Launch(p) ==
  /\ phase[p] = "down"
  /\ phase' = [phase EXCEPT ![p] = "up"]
  /\ overlapped' = (overlapped \/ Running # {})
  /\ UNCHANGED <<state_json, database, harness, awaited, adopted>>

\* ensureReady: a write task or a tool call awaits the promise.
EnsureReady(p) ==
  /\ phase[p] # "down" /\ ~awaited[p]
  /\ awaited' = [awaited EXCEPT ![p] = TRUE]
  /\ UNCHANGED <<state_json, database, phase, harness, adopted, overlapped>>

Dies(p) ==
  /\ phase[p] # "down"
  /\ phase' = [phase EXCEPT ![p] = "down"]
  /\ harness' = [harness EXCEPT ![p] = NULL]
  /\ awaited' = [awaited EXCEPT ![p] = FALSE]
  /\ UNCHANGED <<state_json, database, adopted, overlapped>>

\* An operator moves the database away while nothing has it open.
DatabaseLost ==
  /\ Running = {} /\ database # NULL
  /\ database' = NULL
  /\ UNCHANGED <<state_json, phase, harness, awaited, adopted, overlapped>>

-----------------------------------------------------------------------------
(* loadOrRegister.                                                         *)

\* The promise is rejected: memoised, and unhandled where nothing awaits it.
Reject(p) == phase' = [phase EXCEPT ![p] = IF awaited[p] THEN "failed" ELSE "unhandled"]

\* start, from gateway_start or from the first caller, and read: an id, no
\* file, or a file that cannot be read.
Read(p) ==
  /\ phase[p] = "up"
  /\ \/ /\ phase' = [phase EXCEPT ![p] = IF state_json = NULL THEN "registering" ELSE "checking"]
        /\ harness' = [harness EXCEPT ![p] = state_json]
     \/ Reject(p) /\ UNCHANGED harness
  /\ UNCHANGED <<state_json, database, awaited, adopted, overlapped>>

Adopt(p) ==
  /\ phase' = [phase EXCEPT ![p] = "ready"]
  /\ adopted' = adopted \cup {harness[p]}

\* Mutants of Access: a missing database is registered with again, or ignored.
AccessRegistering(p) ==
  IF database = NULL
  THEN phase' = [phase EXCEPT ![p] = "registering"] /\ UNCHANGED adopted ELSE Adopt(p)

AccessIgnored(p) == Adopt(p)

Access(p) == IF database = NULL THEN Reject(p) /\ UNCHANGED adopted ELSE Adopt(p)

CheckDatabase(p) ==
  /\ phase[p] = "checking"
  /\ Access(p)
  /\ UNCHANGED <<state_json, database, harness, awaited, overlapped>>

Fresh(h) == h \notin database \cup adopted /\ \A q \in Process : harness[q] # h

\* The runtime of a registering process creates the file; or one does that
\* such a process, gone by now, has left behind.
CreateDatabase ==
  /\ database = NULL
  /\ state_json = NULL \/ \E p \in Process : phase[p] = "registering"
  /\ database' = {}
  /\ UNCHANGED <<state_json, phase, harness, awaited, adopted, overlapped>>

\* registerHarness: the runtime commits a harness and answers with its id, or
\* the request is refused, times out or loses its runtime.
RegisterHarness(p, h) ==
  /\ phase[p] = "registering"
  /\ database # NULL /\ Fresh(h)
  /\ database' = database \cup {h}
  /\ phase' = [phase EXCEPT ![p] = "writing"]
  /\ harness' = [harness EXCEPT ![p] = h]
  /\ UNCHANGED <<state_json, awaited, adopted, overlapped>>

RegistrationFails(p) ==
  /\ phase[p] = "registering"
  /\ Reject(p)
  /\ UNCHANGED <<state_json, database, harness, awaited, adopted, overlapped>>

\* A registration commits whose process has given up, or died, or is about to.
RegisteredForNobody(h) ==
  /\ database # NULL /\ Fresh(h)
  /\ database' = database \cup {h}
  /\ UNCHANGED <<state_json, phase, harness, awaited, adopted, overlapped>>

\* writeAtomic: the temporary file has a name of its own.
WriteFile(p) ==
  /\ phase[p] = "writing"
  /\ phase' = [phase EXCEPT ![p] = "renaming"] \/ Reject(p)
  /\ UNCHANGED <<state_json, database, harness, awaited, adopted, overlapped>>

Rename(p) ==
  /\ phase[p] = "renaming"
  /\ \/ state_json' = harness[p] /\ Adopt(p)
     \/ Reject(p) /\ UNCHANGED <<state_json, adopted>>
  /\ UNCHANGED <<database, harness, awaited, overlapped>>

-----------------------------------------------------------------------------
Init ==
  /\ state_json = NULL /\ database = NULL
  /\ phase = [p \in Process |-> "down"]
  /\ harness = [p \in Process |-> NULL]
  /\ awaited = [p \in Process |-> FALSE]
  /\ adopted = {}
  /\ overlapped = FALSE

Next ==
  \/ \E p \in Process :
       Launch(p) \/ EnsureReady(p) \/ Dies(p) \/ Read(p) \/ CheckDatabase(p)
         \/ RegistrationFails(p) \/ WriteFile(p) \/ Rename(p)
  \/ \E p \in Process, h \in HarnessId : RegisterHarness(p, h)
  \/ \E h \in HarnessId : RegisteredForNobody(h)
  \/ CreateDatabase \/ DatabaseLost

Spec == Init /\ [][Next]_vars

-----------------------------------------------------------------------------
(* Properties.                                                             *)

\* Shape of the two files and of the processes.
TypeOK ==
  /\ state_json \in HarnessId \cup {NULL}
  /\ database \in {NULL} \cup SUBSET HarnessId
  /\ phase \in [Process -> Phase]
  /\ harness \in [Process -> HarnessId \cup {NULL}]
  /\ awaited \in [Process -> BOOLEAN]
  /\ adopted \in SUBSET HarnessId
  /\ overlapped \in BOOLEAN

\* A process that is ready holds a harness its database knows, so its writes
\* are not refused one by one for ever: whatever was lost or left behind, it
\* found out when it started.
AdoptedIsRegistered ==
  \A p \in Process : phase[p] = "ready" => database # NULL /\ harness[p] \in database

\* The harness id never changes: "the adapter must keep it ... across process
\* restarts" (docs/PRD.md).  While processes follow one another, no crash
\* between registration and rename, lost answer, lost database or runtime left
\* behind makes a later process ready under another id, which would hide
\* everything saved under the first.  Two processes that both start without a
\* state file do replace each other's id.
IdentityKeptAlone == overlapped \/ Cardinality(adopted) <= 1
=============================================================================

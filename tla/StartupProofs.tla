---------------------------- MODULE StartupProofs ----------------------------
(* Theorems about the harness id, for every number of processes and ids:    *)
(* first of HarnessState, then of hosts with the runtimes they start.  The  *)
(* composition is a HarnessState, so what is proved of that module holds    *)
(* with real runtimes opening the file.                                     *)
EXTENDS Startup, FiniteSetTheorems, TLAPS

Registered == {"writing", "renaming", "ready"}

\* What a process holds is in the database, or the database is gone and no
\* process will make another in its place.
Grounded ==
  /\ state_json # NULL /\ database # NULL => state_json \in database
  /\ \A p \in Process :
       /\ phase[p] = "checking" =>
            harness[p] # NULL /\ state_json # NULL /\ (database # NULL => harness[p] \in database)
       /\ phase[p] = "registering" => (state_json # NULL => database # NULL)
       /\ phase[p] \in Registered => database # NULL /\ harness[p] \in database

HInv == TypeOK /\ Grounded

-----------------------------------------------------------------------------
(* Every process finds out what it has lost.                               *)

LEMMA AdoptStep ==
  ASSUME HInv, NEW p \in Process, Adopt(p), database # NULL, harness[p] \in database,
         state_json' \in {state_json, harness[p]}, UNCHANGED <<database, harness, awaited, overlapped>>
  PROVE  HInv'
<1> USE DEF HInv, TypeOK
<1>1. phase' = [phase EXCEPT ![p] = "ready"] /\ adopted' = adopted \cup {harness[p]}
  BY DEF Adopt
<1>2. harness[p] \in HarnessId
  BY StateAssumption
<1>3. TypeOK'
  BY <1>1, <1>2 DEF Phase
<1>4. Grounded'
  <2>1. state_json' # NULL => state_json' \in database
    BY DEF Grounded
  <2>2. ASSUME NEW q \in Process
        PROVE  /\ phase'[q] = "checking" => phase[q] = "checking" /\ state_json' # NULL
               /\ phase'[q] \in Registered => harness[q] \in database
    BY <1>1, <1>2, StateAssumption DEF Grounded, Registered
  <2> QED
    BY <2>1, <2>2 DEF Grounded
<1> QED
  BY <1>3, <1>4

LEMMA RejectStep ==
  ASSUME HInv, NEW p \in Process, Reject(p),
         UNCHANGED <<state_json, database, harness, awaited, adopted, overlapped>>
  PROVE  HInv'
<1>1. /\ phase' \in [Process -> Phase]
      /\ \A q \in Process : phase'[q] \in {phase[q], "failed", "unhandled"}
  BY DEF Reject, HInv, TypeOK, Phase
<1>2. TypeOK'
  BY <1>1 DEF HInv, TypeOK
<1>3. Grounded'
  BY <1>1 DEF HInv, Grounded, Registered
<1> QED
  BY <1>2, <1>3 DEF HInv

\* Starting, dying and awaiting a process leave both files alone.
LEMMA ProcessStep ==
  ASSUME HInv, NEW p \in Process, Launch(p) \/ EnsureReady(p) \/ Dies(p)
  PROVE  HInv'
<1>1. /\ UNCHANGED <<state_json, database, adopted>>
      /\ awaited' \in [Process -> BOOLEAN]
      /\ phase' \in [Process -> Phase]
      /\ harness' \in [Process -> HarnessId \cup {NULL}]
      /\ overlapped' \in BOOLEAN
  BY DEF Launch, EnsureReady, Dies, HInv, TypeOK, Phase
<1>2. \A q \in Process :
        phase'[q] \in {"up", "down"} \/ (phase'[q] = phase[q] /\ harness'[q] = harness[q])
  BY DEF Launch, EnsureReady, Dies, HInv, TypeOK
<1>3. TypeOK'
  BY <1>1 DEF HInv, TypeOK
<1>4. Grounded'
  BY <1>1, <1>2 DEF HInv, Grounded, Registered
<1> QED
  BY <1>3, <1>4 DEF HInv

LEMMA DatabaseLostStep ==
  ASSUME HInv, DatabaseLost
  PROVE  HInv'
<1>1. \A p \in Process : phase[p] = "down"
  BY DEF DatabaseLost, Running
<1>2. TypeOK'
  BY DEF DatabaseLost, HInv, TypeOK
<1>3. Grounded'
  BY <1>1 DEF DatabaseLost, Grounded, Registered
<1> QED
  BY <1>2, <1>3 DEF HInv

LEMMA ReadStep ==
  ASSUME HInv, NEW p \in Process, Read(p)
  PROVE  HInv'
<1>1. CASE Reject(p) /\ UNCHANGED harness
  BY <1>1, RejectStep DEF Read
<1>2. CASE /\ phase' = [phase EXCEPT ![p] = IF state_json = NULL THEN "registering" ELSE "checking"]
           /\ harness' = [harness EXCEPT ![p] = state_json]
  <2>1. UNCHANGED <<state_json, database, awaited, adopted, overlapped>>
    BY DEF Read
  <2>2. TypeOK'
    BY <1>2, <2>1 DEF HInv, TypeOK, Phase
  <2>3. /\ phase'[p] = IF state_json = NULL THEN "registering" ELSE "checking"
        /\ harness'[p] = state_json
        /\ \A q \in Process \ {p} : phase'[q] = phase[q] /\ harness'[q] = harness[q]
    BY <1>2 DEF HInv, TypeOK
  <2>4. Grounded'
    BY <2>1, <2>3 DEF HInv, Grounded, Registered
  <2> QED
    BY <2>2, <2>4 DEF HInv
<1> QED
  BY <1>1, <1>2 DEF Read

\* The database appears only where no state file names a lost one.
LEMMA CreateStep ==
  ASSUME HInv, CreateDatabase
  PROVE  HInv'
<1>1. database = NULL /\ state_json = NULL
  BY DEF CreateDatabase, HInv, Grounded
<1>2. TypeOK'
  BY DEF CreateDatabase, HInv, TypeOK
<1>3. \A p \in Process : phase[p] \notin Registered \cup {"checking"}
  BY <1>1 DEF HInv, Grounded
<1>4. Grounded'
  BY <1>1, <1>3 DEF CreateDatabase, Grounded
<1> QED
  BY <1>2, <1>4 DEF HInv

\* A registration adds to the database, whether its process hears of it or not.
LEMMA RegisterStep ==
  ASSUME HInv, NEW h \in HarnessId, database # NULL, database' = database \cup {h},
         UNCHANGED <<state_json, awaited, adopted, overlapped>>,
         \/ UNCHANGED <<phase, harness>>
         \/ \E p \in Process : phase' = [phase EXCEPT ![p] = "writing"]
                                /\ harness' = [harness EXCEPT ![p] = h]
  PROVE  HInv'
<1>1. database \subseteq HarnessId /\ database' \subseteq HarnessId /\ database' # NULL
  BY StateAssumption DEF HInv, TypeOK
<1>2. /\ phase' \in [Process -> Phase]
      /\ harness' \in [Process -> HarnessId \cup {NULL}]
      /\ \A q \in Process : (phase'[q] = phase[q] /\ harness'[q] = harness[q])
                            \/ (phase'[q] = "writing" /\ harness'[q] = h)
  BY DEF HInv, TypeOK, Phase
<1>3. TypeOK'
  BY <1>1, <1>2 DEF HInv, TypeOK
<1>4. Grounded'
  BY <1>1, <1>2 DEF HInv, Grounded, Registered
<1> QED
  BY <1>3, <1>4 DEF HInv

LEMMA WriteFileStep ==
  ASSUME HInv, NEW p \in Process, WriteFile(p)
  PROVE  HInv'
<1>1. CASE Reject(p)
  BY <1>1, RejectStep DEF WriteFile
<1>2. CASE phase' = [phase EXCEPT ![p] = "renaming"]
  <2>1. /\ UNCHANGED <<state_json, database, harness, awaited, adopted, overlapped>>
        /\ phase[p] = "writing"
    BY DEF WriteFile
  <2>2. /\ phase' \in [Process -> Phase]
        /\ \A q \in Process : phase'[q] = phase[q] \/ (q = p /\ phase'[q] = "renaming")
    BY <1>2 DEF HInv, TypeOK, Phase
  <2>3. TypeOK'
    BY <2>1, <2>2 DEF HInv, TypeOK
  <2>4. Grounded'
    BY <2>1, <2>2 DEF HInv, Grounded, Registered
  <2> QED
    BY <2>3, <2>4 DEF HInv
<1> QED
  BY <1>1, <1>2 DEF WriteFile

LEMMA FinishStep ==
  ASSUME HInv, NEW p \in Process, CheckDatabase(p) \/ Rename(p)
  PROVE  HInv'
<1>1. UNCHANGED <<database, harness, awaited, overlapped>>
  BY DEF CheckDatabase, Rename
<1>2. CASE Reject(p) /\ UNCHANGED <<state_json, adopted>>
  BY <1>1, <1>2, RejectStep
<1>3. CASE Adopt(p) /\ database # NULL /\ harness[p] \in database
             /\ state_json' \in {state_json, harness[p]}
  BY <1>1, <1>3, AdoptStep
<1>4. CASE CheckDatabase(p)
  <2>1. phase[p] = "checking" /\ Access(p) /\ UNCHANGED state_json
    BY <1>4 DEF CheckDatabase
  <2> QED
    BY <1>2, <1>3, <2>1 DEF Access, HInv, Grounded
<1>5. CASE Rename(p)
  <2>1. database # NULL /\ harness[p] \in database
    BY <1>5 DEF Rename, HInv, Grounded, Registered
  <2> QED
    BY <1>2, <1>3, <1>5, <2>1 DEF Rename
<1> QED
  BY <1>4, <1>5

LEMMA StepPreserves ==
  ASSUME HInv, [Next]_vars
  PROVE  HInv'
<1>1. CASE UNCHANGED vars
  BY <1>1 DEF vars, HInv, TypeOK, Grounded
<1>2. ASSUME NEW p \in Process, RegistrationFails(p)
      PROVE  HInv'
  BY <1>2, RejectStep DEF RegistrationFails
<1>3. ASSUME NEW p \in Process, NEW h \in HarnessId, RegisterHarness(p, h)
      PROVE  HInv'
  BY <1>3, RegisterStep DEF RegisterHarness
<1>4. ASSUME NEW h \in HarnessId, RegisteredForNobody(h)
      PROVE  HInv'
  BY <1>4, RegisterStep DEF RegisteredForNobody
<1> QED
  BY <1>1, <1>2, <1>3, <1>4, ProcessStep, ReadStep, FinishStep, WriteFileStep,
     CreateStep, DatabaseLostStep DEF Next

\* What the processes hold and the two files say of each other holds for ever.
THEOREM GroundedInvariant == Spec => []HInv
<1>1. Init => HInv
  BY DEF Init, HInv, TypeOK, Phase, Grounded, Registered
<1>2. HInv /\ [Next]_vars => HInv'
  BY StepPreserves
<1> QED
  BY <1>1, <1>2, PTL DEF Spec

\* The two files and the processes keep their shape.
THEOREM StateTypeCorrect == Spec => []TypeOK
<1>1. HInv => TypeOK
  BY DEF HInv
<1> QED
  BY <1>1, GroundedInvariant, PTL

\* A ready process holds a harness that its database knows, even where
\* processes overlap, crash, lose answers or lose the database.
THEOREM ReadyIsRegistered == Spec => []AdoptedIsRegistered
<1>1. HInv => AdoptedIsRegistered
  BY DEF HInv, Grounded, Registered, AdoptedIsRegistered
<1> QED
  BY <1>1, GroundedInvariant, PTL

-----------------------------------------------------------------------------
(* One process at a time keeps the id.                                     *)

Unregistered == {"registering", "writing", "renaming"}

\* Only the id in state.json was ever adopted, and nobody is replacing it.
OneId ==
  /\ \A p, q \in Process : phase[p] # "down" /\ phase[q] # "down" => p = q
  /\ adopted \subseteq {state_json} /\ (state_json = NULL => adopted = {})
  /\ \A p \in Process :
       /\ phase[p] \in Unregistered => state_json = NULL
       /\ phase[p] = "checking" => harness[p] = state_json

LEMMA OneIdStep ==
  ASSUME HInv, OneId, [Next]_vars, ~overlapped'
  PROVE  OneId'
<1> USE DEF HInv, TypeOK
<1>1. ASSUME NEW p \in Process, Launch(p) \/ EnsureReady(p) \/ Dies(p)
      PROVE  OneId'
  <2>1. UNCHANGED <<state_json, adopted>>
    BY <1>1 DEF Launch, EnsureReady, Dies
  <2>2. ASSUME NEW q \in Process
        PROVE  phase'[q] \in {"up", "down"} \/ (phase'[q] = phase[q] /\ harness'[q] = harness[q])
    BY <1>1 DEF Launch, EnsureReady, Dies
  <2>3. ASSUME NEW q \in Process, NEW s \in Process, phase'[q] # "down", phase'[s] # "down"
        PROVE  q = s
    BY <1>1, <2>3 DEF Launch, EnsureReady, Dies, Running, OneId
  <2> QED
    BY <2>1, <2>2, <2>3 DEF OneId, Unregistered
<1>2. ASSUME NEW p \in Process, Read(p)
      PROVE  OneId'
  <2>1. phase[p] = "up" /\ UNCHANGED <<state_json, adopted>>
    BY <1>2 DEF Read
  <2>2. \A q \in Process \ {p} : phase'[q] = phase[q] /\ harness'[q] = harness[q]
    BY <1>2 DEF Read, Reject
  <2>3. /\ phase'[p] \in {"registering", "checking", "failed", "unhandled"}
        /\ phase'[p] = "registering" => state_json = NULL
        /\ phase'[p] = "checking" => harness'[p] = state_json
    BY <1>2 DEF Read, Reject
  <2> QED
    BY <2>1, <2>2, <2>3 DEF OneId, Unregistered
<1>3. ASSUME NEW p \in Process, phase[p] # "down",
             \A q \in Process \ {p} : phase'[q] = phase[q] /\ harness'[q] = harness[q],
             UNCHANGED <<state_json, adopted>>,
             \/ phase'[p] \in {"failed", "unhandled"}
             \/ phase[p] \in Unregistered /\ phase'[p] \in Unregistered
      PROVE  OneId'
  BY <1>3 DEF OneId, Unregistered
<1>4. ASSUME NEW p \in Process,
             RegistrationFails(p) \/ \E h \in HarnessId : RegisterHarness(p, h)
      PROVE  OneId'
  BY <1>3, <1>4 DEF RegistrationFails, RegisterHarness, Reject, Unregistered
<1>5. ASSUME NEW p \in Process, WriteFile(p)
      PROVE  OneId'
  BY <1>3, <1>5 DEF WriteFile, Reject, Unregistered
<1>6. ASSUME NEW p \in Process, phase[p] # "down", Adopt(p), UNCHANGED harness,
             state_json' = harness[p], harness[p] # NULL, state_json \in {NULL, harness[p]}
      PROVE  OneId'
  <2>1. phase' = [phase EXCEPT ![p] = "ready"] /\ adopted' = adopted \cup {harness[p]}
    BY <1>6 DEF Adopt
  <2>2. adopted' \subseteq {state_json'} /\ state_json' # NULL
    BY <1>6, <2>1 DEF OneId
  <2>3. ASSUME NEW q \in Process
        PROVE  phase'[q] \in {"ready", "down"}
    BY <1>6, <2>1 DEF OneId
  <2>4. ASSUME NEW q \in Process, NEW s \in Process, phase'[q] # "down", phase'[s] # "down"
        PROVE  q = s
    BY <1>6, <2>1, <2>4 DEF OneId
  <2> QED
    BY <2>2, <2>3, <2>4 DEF OneId, Unregistered
<1>7. ASSUME NEW p \in Process, CheckDatabase(p)
      PROVE  OneId'
  <2>1. CASE database = NULL
    BY <1>3, <1>7, <2>1 DEF CheckDatabase, Access, Reject
  <2>2. CASE database # NULL
    BY <1>6, <1>7, <2>2 DEF CheckDatabase, Access, Grounded, OneId
  <2> QED
    BY <2>1, <2>2
<1>8. ASSUME NEW p \in Process, Rename(p)
      PROVE  OneId'
  <2>1. CASE Reject(p) /\ UNCHANGED <<state_json, adopted>>
    BY <1>3, <1>8, <2>1 DEF Rename, Reject
  <2>2. CASE state_json' = harness[p] /\ Adopt(p)
    <3>1. harness[p] # NULL
      BY <1>8, StateAssumption DEF Rename, Grounded, Registered
    <3>2. state_json = NULL
      BY <1>8 DEF Rename, OneId, Unregistered
    <3> QED
      BY <1>6, <1>8, <2>2, <3>1, <3>2 DEF Rename
  <2> QED
    BY <1>8, <2>1, <2>2 DEF Rename
<1>9. CASE DatabaseLost \/ CreateDatabase \/ \E h \in HarnessId : RegisteredForNobody(h)
  BY <1>9 DEF DatabaseLost, CreateDatabase, RegisteredForNobody, OneId
<1>10. CASE UNCHANGED vars
  BY <1>10 DEF vars, OneId
<1> QED
  BY <1>1, <1>2, <1>4, <1>5, <1>7, <1>8, <1>9, <1>10 DEF Next

\* Where processes do not overlap, no crash, lost answer, lost database or
\* runtime left behind makes a process ready under a second id.
THEOREM IdentityKept == Spec => []IdentityKeptAlone
<1> DEFINE Alone == overlapped \/ OneId
<1>1. Init => Alone
  BY DEF Init, OneId, Unregistered
<1>2. HInv /\ Alone /\ [Next]_vars => Alone'
  <2> SUFFICES ASSUME HInv, Alone, [Next]_vars, ~overlapped'
               PROVE  OneId'
    OBVIOUS
  <2>1. ~overlapped
    BY DEF HInv, TypeOK, Next, vars, Launch, EnsureReady, Dies, Read, CheckDatabase,
           RegistrationFails, WriteFile, Rename, RegisterHarness, RegisteredForNobody,
           CreateDatabase, DatabaseLost
  <2> QED
    BY <2>1, OneIdStep
<1>3. Alone => IdentityKeptAlone
  <2> SUFFICES ASSUME OneId
               PROVE  Cardinality(adopted) <= 1
    BY DEF IdentityKeptAlone
  <2>1. adopted = {} \/ adopted = {state_json}
    BY DEF OneId
  <2>2. Cardinality({}) = 0 /\ Cardinality({state_json}) = 1
    BY FS_EmptySet, FS_Singleton
  <2> QED
    BY <2>1, <2>2
<1> QED
  BY <1>1, <1>2, <1>3, GroundedInvariant, PTL DEF Spec

-----------------------------------------------------------------------------
(* Hosts and the runtimes they start.                                      *)

\* No runtime is about to create a file beside a state file whose database is
\* lost.
Linked ==
  /\ at \in [Process -> Open!Statement]
  /\ \A p \in Process : at[p] = "file" => state_json = NULL \/ database # NULL

SInv == HInv /\ Linked

-----------------------------------------------------------------------------
\* No statement of a runtime goes back to the opening of the file.
LEMMA ExecuteStep ==
  ASSUME Linked, NEW p \in Process, Open!Execute(p)
  PROVE  /\ at' \in [Process -> Open!Statement]
         /\ \A q \in Process \ {p} : at'[q] = at[q]
         /\ at'[p] # "file"
BY DEF Linked, Open!Execute, Open!OpenFile, Open!ListTables, Open!CheckFoundation,
       Open!CheckApplied, Open!Begin, Open!Migrate, Open!Refused, Open!AssertTables,
       Open!Continue, Open!Goto, Open!Statement

-----------------------------------------------------------------------------
(* Every step is one of HarnessState, or none.                             *)

LEMMA RuntimeStepMaps ==
  ASSUME SInv, NEW p \in Process, RuntimeStep(p)
  PROVE  [Next]_vars /\ Linked'
<1>1. /\ at' \in [Process -> Open!Statement]
      /\ \A q \in Process \ {p} : at'[q] = at[q]
      /\ at'[p] # "file"
  BY ExecuteStep DEF RuntimeStep, SInv
<1>2. CASE database = NULL /\ at[p] = "file"
  <2>1. /\ database' = {}
        /\ UNCHANGED <<state_json, phase, harness, awaited, adopted, overlapped>>
    BY <1>2 DEF RuntimeStep, FollowFile
  <2>2. state_json = NULL
    BY <1>2 DEF SInv, Linked
  <2>3. CreateDatabase
    BY <1>2, <2>1, <2>2 DEF CreateDatabase
  <2> QED
    BY <1>1, <2>1, <2>2, <2>3 DEF Next, Linked
<1>3. CASE ~(database = NULL /\ at[p] = "file")
  <2>1. UNCHANGED vars
    BY <1>3 DEF RuntimeStep, FollowFile
  <2> QED
    BY <1>1, <2>1 DEF vars, SInv, Linked
<1> QED
  BY <1>2, <1>3

LEMMA StepMaps ==
  ASSUME SInv, [StartupNext]_startupVars
  PROVE  [Next]_vars /\ Linked'
<1>1. ASSUME UNCHANGED openVars, [Next]_vars, database' = NULL <=> database = NULL,
             state_json' = state_json \/ database # NULL
      PROVE  [Next]_vars /\ Linked'
  BY <1>1 DEF openVars, SInv, Linked
<1>2. CASE UNCHANGED startupVars
  BY <1>1, <1>2 DEF startupVars, vars
<1>3. ASSUME NEW p \in Process, LaunchHost(p) \/ HostStep(p) \/ HostDies(p)
      PROVE  [Next]_vars /\ Linked'
  <2>1. UNCHANGED <<openVars, database>> /\ Next
    BY <1>3 DEF LaunchHost, HostStep, HostDies, Next, Launch, EnsureReady, Read, CheckDatabase,
                RegistrationFails, WriteFile, Rename, Dies
  <2>2. state_json' = state_json \/ database # NULL
    BY <1>3 DEF LaunchHost, HostStep, HostDies, Launch, EnsureReady, Read, CheckDatabase,
                RegistrationFails, WriteFile, Rename, Dies, SInv, HInv, Grounded, Registered
  <2> QED
    BY <1>1, <2>1, <2>2
<1>4. ASSUME NEW p \in Process, NEW h \in HarnessId, HostRegisters(p, h) \/ RuntimeRegisters(p, h)
      PROVE  [Next]_vars /\ Linked'
  <2>1. /\ UNCHANGED <<openVars, state_json>> /\ Next
        /\ database # NULL /\ database' = database \cup {h}
    BY <1>4 DEF HostRegisters, RuntimeRegisters, Next, RegisterHarness, RegisteredForNobody
  <2>2. database' # NULL
    BY <2>1, StateAssumption DEF SInv, HInv, TypeOK
  <2> QED
    BY <1>1, <2>1, <2>2
<1>5. ASSUME NEW p \in Process, StartRuntime(p)
      PROVE  [Next]_vars /\ Linked'
  <2>1. /\ UNCHANGED vars
        /\ at[p] = "none" /\ at' = [at EXCEPT ![p] = "file"]
    BY <1>5 DEF StartRuntime, Open!Start, Open!Goto
  <2>2. state_json = NULL \/ database # NULL
    BY <1>5 DEF StartRuntime, Requests, SInv, HInv, Grounded, Registered
  <2> QED
    BY <2>1, <2>2 DEF SInv, Linked, vars, Open!Statement
<1>6. ASSUME NEW p \in Process, RuntimeExits(p)
      PROVE  [Next]_vars /\ Linked'
  <2>1. UNCHANGED vars /\ at' = [at EXCEPT ![p] = "none"]
    BY <1>6 DEF RuntimeExits, Open!Exit, Open!Goto
  <2> QED
    BY <2>1 DEF SInv, Linked, vars, Open!Statement
<1>7. CASE FilesLost
  BY <1>7 DEF FilesLost, DatabaseLost, Open!FileLost, Next, SInv, Linked
<1> QED
  BY <1>2, <1>3, <1>4, <1>5, <1>6, <1>7, RuntimeStepMaps DEF StartupNext

-----------------------------------------------------------------------------
LEMMA StartupInvariant == StartupSpec => []SInv
<1>1. StartupInit => SInv
  <2>1. Init => HInv
    BY DEF Init, HInv, TypeOK, Phase, Grounded, Registered
  <2>2. Init /\ Open!Init => Linked
    BY DEF Init, Open!Init, Linked, Open!Statement
  <2> QED
    BY <2>1, <2>2 DEF StartupInit, SInv
<1>2. SInv /\ [StartupNext]_startupVars => SInv'
  BY StepMaps, StepPreserves DEF SInv
<1> QED
  BY <1>1, <1>2, PTL DEF StartupSpec

\* Runtimes, orphaned ones included, do to the database what HarnessState says:
\* none creates an empty file beside the state file of a lost one.
THEOREM HostsRefineState == StartupSpec => HostsFollowState
<1>1. StartupInit => Init
  BY DEF StartupInit
<1>2. SInv /\ [StartupNext]_startupVars => [Next]_vars
  BY StepMaps
<1> QED
  BY <1>1, <1>2, StartupInvariant, PTL DEF StartupSpec, HostsFollowState, Spec

\* The hosts and their two files keep their shape.
COROLLARY HostsTypeCorrect == StartupSpec => []TypeOK
BY HostsRefineState, StateTypeCorrect, PTL DEF HostsFollowState

\* So a ready host is registered, whatever its runtimes met.
COROLLARY HostsAreRegistered == StartupSpec => []AdoptedIsRegistered
BY HostsRefineState, ReadyIsRegistered, PTL DEF HostsFollowState

\* And hosts that follow one another keep one id.
COROLLARY HostsKeepIdentity == StartupSpec => []IdentityKeptAlone
BY HostsRefineState, IdentityKept, PTL DEF HostsFollowState

-----------------------------------------------------------------------------
(* The runtimes of the hosts open the file as Migrations says.             *)

File == INSTANCE MigrationsProofs WITH Opener <- Process

LEMMA OpenersStep ==
  ASSUME [StartupNext]_startupVars
  PROVE  [Open!Next]_openVars
<1>1. ASSUME NEW p \in Process,
             LaunchHost(p) \/ HostStep(p) \/ HostDies(p)
               \/ \E h \in HarnessId : HostRegisters(p, h) \/ RuntimeRegisters(p, h)
      PROVE  UNCHANGED openVars
  BY <1>1 DEF LaunchHost, HostStep, HostDies, HostRegisters, RuntimeRegisters
<1>2. ASSUME NEW p \in Process, StartRuntime(p) \/ RuntimeStep(p) \/ RuntimeExits(p)
      PROVE  Open!Next
  BY <1>2 DEF StartRuntime, RuntimeStep, RuntimeExits, Open!Next
<1>3. CASE FilesLost
  BY <1>3 DEF FilesLost, Open!Next
<1>4. CASE UNCHANGED startupVars
  BY <1>4 DEF startupVars
<1> QED
  BY <1>1, <1>2, <1>3, <1>4 DEF StartupNext

LEMMA SameSteps == Open!Next => File!Next
BY DEF
         Open!Next, Open!Start, Open!Execute, Open!Exit, Open!FileLost, Open!OpenFile,
         Open!ListTables, Open!CheckFoundation, Open!CheckApplied, Open!Begin,
         Open!Migrate, Open!AssertTables, Open!Goto, Open!Opening, Open!Applied,
         Open!Tables, Open!IsBase, Open!Second, Open!Continue, Open!Locked, Open!Refused,
         Open!Migration,
         File!Next, File!Start, File!Execute, File!Exit, File!FileLost, File!OpenFile,
         File!ListTables, File!CheckFoundation, File!CheckApplied, File!Begin,
         File!Migrate, File!AssertTables, File!Goto, File!Opening, File!Applied,
         File!Tables, File!IsBase, File!Second, File!Continue, File!Locked, File!Refused,
         File!Migration

LEMMA FileInvariant == StartupSpec => [](File!MInv /\ File!Lone)
<1>1. StartupInit => File!MInv /\ File!Lone
  <2>1. StartupInit => File!MInv
    BY File!NothingApplied DEF StartupInit, Open!Init, File!MInv, File!TypeOK, File!Seen,
         File!Statement, File!Migration
  <2>2. StartupInit => File!Lone
    BY DEF StartupInit, Open!Init, File!Lone
  <2> QED
    BY <2>1, <2>2
<1>2. File!MInv /\ File!Lone /\ [StartupNext]_startupVars => (File!MInv /\ File!Lone)'
  <2> SUFFICES ASSUME File!MInv, File!Lone, [StartupNext]_startupVars
               PROVE  File!MInv' /\ File!Lone'
    OBVIOUS
  <2>1. [File!Next]_(File!vars)
    BY OpenersStep, SameSteps DEF openVars, File!vars
  <2> QED
    BY <2>1, File!StepPreserves, File!LoneStep
<1> QED
  BY <1>1, <1>2, PTL DEF StartupSpec

\* What a host starts, and leaves behind when it dies, applies every migration
\* once and in order.
THEOREM StartupInOrder == StartupSpec => []SchemaInOrder
<1>1. ASSUME File!MInv
      PROVE  SchemaInOrder
  <2>1. File!SchemaInOrder
    BY <1>1, File!SeenInOrder
  <2> QED
    BY <2>1 DEF SchemaInOrder, Open!SchemaInOrder, File!SchemaInOrder, Open!IsPrefix, File!IsPrefix
<1> QED
  BY <1>1, FileInvariant, PTL

\* A runtime that answers its host works on the whole schema.
THEOREM StartupCurrent == StartupSpec => []OpenedIsCurrent
<1>1. ASSUME File!MInv
      PROVE  OpenedIsCurrent
  <2>1. File!OpenedIsCurrent
    BY <1>1, File!SeenIsCurrent
  <2> QED
    BY <2>1 DEF OpenedIsCurrent, Open!OpenedIsCurrent, File!OpenedIsCurrent
<1> QED
  BY <1>1, FileInvariant, PTL

\* Only a race fails the runtime of a host, whatever an earlier host or runtime
\* left half done.
THEOREM StartupSucceedsAlone == StartupSpec => []LoneOpenerSucceeds
<1>1. ASSUME File!Lone
      PROVE  LoneOpenerSucceeds
  <2>1. File!LoneOpenerSucceeds
    BY <1>1, File!LoneSucceeds
  <2> QED
    BY <2>1 DEF LoneOpenerSucceeds, Open!LoneOpenerSucceeds, File!LoneOpenerSucceeds
<1> QED
  BY <1>1, FileInvariant, PTL

\* Every statement of a runtime takes its open further, however many runtimes
\* hosts start or leave behind, and only its own end takes it back.
THEOREM RuntimesAdvance ==
  StartupSpec => [][\A p \in File!Opening : File!Forward(p)]_openVars
<1>1. ASSUME File!MInv, File!MInv', [StartupNext]_startupVars
      PROVE  [\A p \in File!Opening : File!Forward(p)]_openVars
  <2>1. CASE Open!Next
    <3>1. File!Next /\ File!TypeOK /\ File!TypeOK'
      BY <1>1, <2>1, SameSteps DEF File!MInv
    <3> QED
      BY <3>1, File!OpenersForward
  <2>2. CASE UNCHANGED openVars
    BY <2>2
  <2> QED
    BY <1>1, <2>1, <2>2, OpenersStep
<1> QED
  BY <1>1, FileInvariant, PTL DEF StartupSpec
=============================================================================

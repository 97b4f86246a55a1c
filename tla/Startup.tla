------------------------------ MODULE Startup ------------------------------
(***************************************************************************)
(* Hosts that get their harness id and the runtimes they start for it, on  *)
(* one state file and one database file: HarnessState and Migrations       *)
(* together.  A host starts one runtime, with its first request, and never *)
(* a second one (startAttempted, openclaw-plugin/src/runtime-client.ts).   *)
(* A runtime opens the database before it reads its first request, so a    *)
(* host that died meanwhile leaves a runtime behind that still migrates    *)
(* and may still register, for nobody.                                     *)
(***************************************************************************)
EXTENDS HarnessState, Sequences

VARIABLES
  schema_migrations, at, migration, alone,   \* of Migrations
  spawned                                    \* hosts that started a runtime

openVars == <<schema_migrations, at, migration, alone>>
startupVars == <<vars, openVars, spawned>>

Open == INSTANCE Migrations WITH Opener <- Process

HasRuntime(p) == at[p] # "none"

\* The file is there once a runtime has opened it; its harness table has no row
\* until a host registers.
FollowFile(p) ==
  IF database = NULL /\ at[p] = "file"
  THEN database' = {} /\ UNCHANGED <<state_json, phase, harness, awaited, adopted, overlapped>>
  ELSE UNCHANGED vars

-----------------------------------------------------------------------------
(* Hosts.                                                                  *)

\* A slot is used again when its runtime has gone, too.
LaunchHost(p) == ~HasRuntime(p) /\ Launch(p) /\ UNCHANGED <<openVars, spawned>>

HostStep(p) ==
  /\ EnsureReady(p) \/ Read(p) \/ CheckDatabase(p) \/ RegistrationFails(p)
       \/ WriteFile(p) \/ Rename(p)
  /\ UNCHANGED <<openVars, spawned>>

HostDies(p) == Dies(p) /\ spawned' = spawned \ {p} /\ UNCHANGED openVars

Answered(p) == at[p] = "open" /\ phase[p] = "registering"

HostRegisters(p, h) == Answered(p) /\ RegisterHarness(p, h) /\ UNCHANGED <<openVars, spawned>>

-----------------------------------------------------------------------------
(* Runtimes.                                                               *)

\* Mutant of Requests: the runtime is started with the plugin.
RequestsAtOnce(p) == phase[p] # "down"

\* The first request: register_harness, or a write or tool of a ready host.
Requests(p) == phase[p] \in {"registering", "ready"}

StartRuntime(p) ==
  /\ Requests(p) /\ p \notin spawned
  /\ Open!Start(p)
  /\ spawned' = spawned \cup {p}
  /\ UNCHANGED vars

RuntimeStep(p) == Open!Execute(p) /\ FollowFile(p) /\ UNCHANGED spawned

\* It ends with its failed open, with its host's end of the pipe, or killed.
RuntimeExits(p) == Open!Exit(p) /\ UNCHANGED <<vars, spawned>>

\* The request is served although its host waits no longer, or will not hear.
RuntimeRegisters(p, h) ==
  /\ at[p] = "open" /\ phase[p] \notin {"ready", "writing", "renaming"}
  /\ RegisteredForNobody(h)
  /\ UNCHANGED <<openVars, spawned>>

FilesLost ==
  /\ DatabaseLost /\ Open!FileLost
  /\ UNCHANGED spawned

-----------------------------------------------------------------------------
StartupInit == Init /\ Open!Init /\ spawned = {}

StartupNext ==
  \/ \E p \in Process :
       LaunchHost(p) \/ HostStep(p) \/ HostDies(p)
         \/ StartRuntime(p) \/ RuntimeStep(p) \/ RuntimeExits(p)
  \/ \E p \in Process, h \in HarnessId : HostRegisters(p, h) \/ RuntimeRegisters(p, h)
  \/ FilesLost

\* A runtime executes its next statement; nothing else is promised.
StartupSpec ==
  /\ StartupInit /\ [][StartupNext]_startupVars
  /\ \A p \in Process : WF_startupVars(RuntimeStep(p))

-----------------------------------------------------------------------------
(* Properties.                                                             *)

\* Runtimes, orphaned ones included, change the database only as HarnessState
\* allows: none puts an empty file where a host would take it for the one its
\* state file belongs to.
HostsFollowState == Spec

SchemaInOrder == Open!SchemaInOrder
OpenedIsCurrent == Open!OpenedIsCurrent
LoneOpenerSucceeds == Open!LoneOpenerSucceeds
OpensEnd == Open!OpensEnd
=============================================================================

----------------------------- MODULE Migrations -----------------------------
(***************************************************************************)
(* How a runtime opens the database file: openPartnerMemDatabase and       *)
(* initializeSchema (src/storage/schema.ts).  Every migration runs in one  *)
(* BEGIN IMMEDIATE transaction, but whether it is needed is asked in       *)
(* statements before that transaction, and nothing in the SQL tolerates a  *)
(* migration that is there already.  Several runtimes may open one file at *)
(* the same time, and each may be killed between any two statements.       *)
(* Failures of the disk are left out: a failed open here is one the code   *)
(* brought about.                                                          *)
(***************************************************************************)
EXTENDS Naturals, Sequences, SequencesExt

CONSTANT Opener   \* runtime processes that open the file

\* 001_v1_foundation, 002_v1_immutability and 003_v1_retrieval_indexes.
Migration == 1 .. 3

VARIABLES
  schema_migrations,   \* migrations committed, in order; none without a file, too
  at,                  \* opener -> the statement it comes to next
  migration,           \* opener -> the migration it asks for or applies
  alone                \* ghost: openers that met no other since they started

vars == <<schema_migrations, at, migration, alone>>

Statement == {"none", "file", "tables", "foundation", "applied", "begin", "sql",
              "assert", "open", "failed"}

Opening == {o \in Opener : at[o] \notin {"none", "open", "failed"}}

Applied(m) == \E i \in DOMAIN schema_migrations : schema_migrations[i] = m

\* The tables of the file: 002 adds triggers only.
Tables == {m \in {1, 3} : Applied(m)}

Goto(o, statement) == at' = [at EXCEPT ![o] = statement]

-----------------------------------------------------------------------------
Start(o) ==
  /\ at[o] = "none"
  /\ Goto(o, "file")
  /\ alone' = IF Opening = {} THEN alone \cup {o} ELSE alone \ Opening
  /\ UNCHANGED <<schema_migrations, migration>>

\* The constructor creates the file; switching to WAL fails where another
\* opener holds the file.
OpenFile(o) ==
  /\ at[o] = "file"
  /\ \/ Goto(o, "tables")
     \/ Opening # {o} /\ Goto(o, "failed")
  /\ UNCHANGED <<schema_migrations, migration, alone>>

\* Mutant of IsBase: a database that is not complete is refused.
IsBaseComplete == Tables = {1, 3}

\* assertCanonicalMigrationBase: the tables of the foundation are there.
IsBase == 1 \in Tables

ListTables(o) ==
  /\ at[o] = "tables"
  /\ \/ Tables = {} /\ Goto(o, "begin") /\ migration' = [migration EXCEPT ![o] = 1]
     \/ Tables # {} /\ Goto(o, IF IsBase THEN "foundation" ELSE "failed") /\ UNCHANGED migration
  /\ UNCHANGED <<schema_migrations, alone>>

\* Mutant of Second: the loop starts behind the second migration.
SecondSkipped == 3

\* MIGRATIONS.slice(1).
Second == 2

CheckFoundation(o) ==
  /\ at[o] = "foundation"
  /\ Goto(o, IF Applied(1) THEN "applied" ELSE "failed")
  /\ migration' = [migration EXCEPT ![o] = Second]
  /\ UNCHANGED <<schema_migrations, alone>>

\* What follows a migration that is there.
Continue(o) ==
  IF migration[o] = 3 THEN Goto(o, "assert") /\ UNCHANGED migration
  ELSE /\ Goto(o, "applied")
       /\ migration' = [migration EXCEPT ![o] = IF @ = 1 THEN Second ELSE @ + 1]

CheckApplied(o) ==
  /\ at[o] = "applied"
  /\ IF Applied(migration[o]) THEN Continue(o) ELSE Goto(o, "begin") /\ UNCHANGED migration
  /\ UNCHANGED <<schema_migrations, alone>>

\* An opener is inside its transaction.
Locked == \E o \in Opener : at[o] = "sql"

\* BEGIN IMMEDIATE: waits for the writer, for five seconds at most.
Begin(o) ==
  /\ at[o] = "begin"
  /\ Goto(o, IF Locked THEN "failed" ELSE "sql")
  /\ UNCHANGED <<schema_migrations, migration, alone>>

\* Mutants of Refused: the transaction is tried again; the statements tolerate
\* what is there.
RefusedRetried(o) ==
  /\ Applied(migration[o])
  /\ Goto(o, "begin") /\ UNCHANGED <<schema_migrations, migration>>

RefusedTolerated(o) ==
  /\ Applied(migration[o])
  /\ schema_migrations' = Append(schema_migrations, migration[o])
  /\ Continue(o)

\* A CREATE or the INSERT of the version meets what another opener committed:
\* ROLLBACK, and the open fails.
Refused(o) ==
  /\ Applied(migration[o])
  /\ Goto(o, "failed") /\ UNCHANGED <<schema_migrations, migration>>

Migrate(o) ==
  /\ at[o] = "sql"
  /\ \/ /\ ~Applied(migration[o])
        /\ schema_migrations' = Append(schema_migrations, migration[o])
        /\ Continue(o)
     \/ Refused(o)
  /\ UNCHANGED alone

\* assertOnlyCanonicalTables.
AssertTables(o) ==
  /\ at[o] = "assert"
  /\ Goto(o, IF Tables = {1, 3} THEN "open" ELSE "failed")
  /\ UNCHANGED <<schema_migrations, migration, alone>>

\* The process ends or is killed; a transaction it was in is rolled back.
Exit(o) ==
  /\ at[o] # "none"
  /\ Goto(o, "none")
  /\ alone' = alone \ {o}
  /\ UNCHANGED <<schema_migrations, migration>>

\* The operator moves the file away while nothing runs.
FileLost ==
  /\ \A o \in Opener : at[o] = "none"
  /\ schema_migrations' = <<>>
  /\ UNCHANGED <<at, migration, alone>>

-----------------------------------------------------------------------------
Init ==
  /\ schema_migrations = <<>>
  /\ at = [o \in Opener |-> "none"]
  /\ migration = [o \in Opener |-> 1]
  /\ alone = {}

\* The statements of one opener.
Execute(o) ==
  OpenFile(o) \/ ListTables(o) \/ CheckFoundation(o) \/ CheckApplied(o)
    \/ Begin(o) \/ Migrate(o) \/ AssertTables(o)

Next == (\E o \in Opener : Start(o) \/ Execute(o) \/ Exit(o)) \/ FileLost

Spec == Init /\ [][Next]_vars /\ \A o \in Opener : WF_vars(Execute(o))

-----------------------------------------------------------------------------
(* Properties.                                                             *)

\* Shape of the file and of its openers; one at most is in a transaction.
TypeOK ==
  /\ schema_migrations \in Seq(Migration)
  /\ at \in [Opener -> Statement]
  /\ migration \in [Opener -> Migration]
  /\ \A o, p \in Opener : at[o] = "sql" /\ at[p] = "sql" => o = p
  /\ alone \in SUBSET Opener

\* However many runtimes open the file and wherever they die, a migration is
\* applied once and after the ones before it.
SchemaInOrder == IsPrefix(schema_migrations, <<1, 2, 3>>)

\* A runtime that is open works on the whole schema, the triggers that no
\* table shows included, whoever else applied it.
OpenedIsCurrent == \A o \in Opener : at[o] = "open" => schema_migrations = <<1, 2, 3>>

\* Only a race fails an open: wherever an earlier runtime was killed, between
\* or inside migrations, one that opens the file alone completes the schema.
\* Nothing in the code retries the open that a race has failed.
LoneOpenerSucceeds == \A o \in Opener : at[o] = "failed" => o \notin alone

\* Every open ends, whatever the others do: openers wait for one transaction
\* at a time and never ask again for what they were refused.
OpensEnd == \A o \in Opener : o \in Opening ~> o \notin Opening
=============================================================================

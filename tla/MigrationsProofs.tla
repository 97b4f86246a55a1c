--------------------------- MODULE MigrationsProofs ---------------------------
(* Theorems about opening the database, for every number of openers.       *)
EXTENDS Migrations, SequenceTheorems, TLAPS

\* The first migrations, in order.
InOrder(s) == s \in Seq(Migration) /\ Len(s) <= 3 /\ \A i \in 1 .. Len(s) : s[i] = i

\* What an opener has seen stays true: migrations are only added, in order,
\* and the file is not lost under an opener.
Seen ==
  /\ InOrder(schema_migrations)
  /\ \A o \in Opener :
       /\ at[o] = "foundation" => Len(schema_migrations) >= 1
       /\ at[o] \in {"applied", "begin", "sql"} => Len(schema_migrations) >= migration[o] - 1
       /\ at[o] \in {"assert", "open"} => Len(schema_migrations) = 3

MInv == TypeOK /\ Seen

-----------------------------------------------------------------------------
LEMMA NothingApplied == InOrder(<<>>) /\ <<>> \in Seq(Migration)
<1>1. <<>> \in Seq(Migration) /\ Len(<<>>) = 0
  OBVIOUS
<1> QED
  BY <1>1 DEF InOrder

LEMMA AppliedAreFirst ==
  ASSUME InOrder(schema_migrations), NEW m \in Migration
  PROVE  /\ Len(schema_migrations) \in 0 .. 3
         /\ Applied(m) <=> m <= Len(schema_migrations)
<1>1. schema_migrations \in Seq(Migration) /\ Len(schema_migrations) <= 3
  BY DEF InOrder
<1>2. Len(schema_migrations) \in Nat /\ DOMAIN schema_migrations = 1 .. Len(schema_migrations)
  BY <1>1, LenProperties
<1>3. Len(schema_migrations) \in 0 .. 3
  BY <1>1, <1>2
<1>4. Applied(m) <=> m \in 1 .. Len(schema_migrations)
  BY <1>2 DEF InOrder, Applied
<1> QED
  BY <1>2, <1>3, <1>4 DEF Migration

LEMMA AppendNext ==
  ASSUME InOrder(schema_migrations), NEW m \in Migration, Len(schema_migrations) = m - 1
  PROVE  InOrder(Append(schema_migrations, m)) /\ Len(Append(schema_migrations, m)) = m
<1> DEFINE s == Append(schema_migrations, m)
<1>1. /\ s \in Seq(Migration) /\ Len(s) = m
      /\ \A i \in 1 .. m - 1 : s[i] = schema_migrations[i]
      /\ s[m] = m
  BY AppendProperties DEF InOrder, Migration
<1>2. \A i \in 1 .. m : s[i] = i
  BY <1>1 DEF InOrder, Migration
<1> HIDE DEF s
<1>3. InOrder(s) /\ Len(s) = m
  BY <1>1, <1>2 DEF InOrder, Migration
<1> QED
  BY <1>3 DEF s

\* A table of the foundation is there when the first migration is, and the
\* tables are complete when the third is.
LEMMA TablesTell ==
  ASSUME InOrder(schema_migrations)
  PROVE  /\ 1 \in Tables <=> Len(schema_migrations) >= 1
         /\ Tables = {1, 3} => Len(schema_migrations) = 3
<1>1. /\ Len(schema_migrations) \in 0 .. 3
      /\ Applied(1) <=> 1 <= Len(schema_migrations)
      /\ Applied(3) <=> 3 <= Len(schema_migrations)
  BY AppliedAreFirst DEF Migration
<1>2. (1 \in Tables <=> Applied(1)) /\ (3 \in Tables <=> Applied(3))
  BY DEF Tables
<1>3. Tables = {1, 3} => 3 \in Tables
  OBVIOUS
<1> QED
  BY <1>1, <1>2, <1>3

-----------------------------------------------------------------------------
\* A step of one opener that leaves the migrations there.
LEMMA MoveStep ==
  ASSUME MInv, NEW o \in Opener, NEW statement \in Statement, Goto(o, statement),
         migration' \in [Opener -> Migration],
         \A q \in Opener \ {o} : migration'[q] = migration[q],
         schema_migrations' = schema_migrations,
         statement = "sql" => ~Locked,
         alone' \in SUBSET Opener,
         statement = "foundation" => Len(schema_migrations) >= 1,
         statement \in {"applied", "begin", "sql"} => Len(schema_migrations) >= migration'[o] - 1,
         statement \in {"assert", "open"} => Len(schema_migrations) = 3
  PROVE  MInv'
<1>1. /\ at' \in [Opener -> Statement]
      /\ at'[o] = statement /\ \A q \in Opener \ {o} : at'[q] = at[q]
  BY DEF MInv, TypeOK, Goto
<1>2. \A p, q \in Opener : at'[p] = "sql" /\ at'[q] = "sql" => p = q
  BY <1>1 DEF MInv, TypeOK, Locked
<1>3. TypeOK'
  BY <1>1, <1>2 DEF MInv, TypeOK
<1>4. Seen'
  BY <1>1 DEF MInv, Seen
<1> QED
  BY <1>3, <1>4 DEF MInv

LEMMA Between ==
  ASSUME NEW m \in 1 .. 3, NEW n \in 0 .. 3, m <= n
  PROVE  n \in m .. 3
OBVIOUS

\* What comes after a migration that is there.
LEMMA ContinueStep ==
  ASSUME MInv, NEW o \in Opener, Continue(o), InOrder(schema_migrations),
         Len(schema_migrations) \in migration[o] .. 3, at[o] \in {"applied", "sql"},
         UNCHANGED <<schema_migrations, alone>>
  PROVE  MInv'
<1>1. migration[o] \in Migration /\ alone \in SUBSET Opener
  BY DEF MInv, TypeOK
<1>2. CASE migration[o] = 3
  <2>1. Goto(o, "assert") /\ UNCHANGED migration
    BY <1>2 DEF Continue
  <2>2. Len(schema_migrations) = 3
    BY <1>2
  <2> QED
    BY <1>1, <2>1, <2>2, MoveStep DEF MInv, TypeOK, Statement
<1>3. CASE migration[o] # 3
  <2>1. /\ Goto(o, "applied")
        /\ migration' = [migration EXCEPT ![o] = IF @ = 1 THEN 2 ELSE @ + 1]
    BY <1>3 DEF Continue, Second
  <2>2. /\ migration'[o] = migration[o] + 1 /\ migration' \in [Opener -> Migration]
        /\ \A q \in Opener \ {o} : migration'[q] = migration[q]
    BY <1>1, <1>3, <2>1 DEF MInv, TypeOK, Migration
  <2>3. Len(schema_migrations) >= migration'[o] - 1
    BY <1>1, <2>2 DEF Migration
  <2> QED
    BY <1>1, <2>1, <2>2, <2>3, MoveStep DEF Statement
<1> QED
  BY <1>2, <1>3

\* The statements that only read.
LEMMA LookStep ==
  ASSUME MInv, NEW o \in Opener,
         ListTables(o) \/ CheckFoundation(o) \/ CheckApplied(o) \/ AssertTables(o)
  PROVE  MInv'
<1>1. /\ UNCHANGED <<schema_migrations, alone>>
      /\ at[o] \in {"tables", "foundation", "applied", "assert"}
  BY DEF ListTables, CheckFoundation, CheckApplied, AssertTables
<1>2. /\ migration \in [Opener -> Migration] /\ migration[o] \in Migration
      /\ alone \in SUBSET Opener
  BY DEF MInv, TypeOK
<1>3. InOrder(schema_migrations)
  BY DEF MInv, Seen
<1>4. /\ Len(schema_migrations) \in 0 .. 3
      /\ Applied(1) <=> 1 <= Len(schema_migrations)
      /\ Applied(migration[o]) <=> migration[o] <= Len(schema_migrations)
  BY <1>2, <1>3, AppliedAreFirst DEF Migration
<1>5. ASSUME NEW statement \in Statement \ {"none", "file", "sql"}, Goto(o, statement),
             \/ UNCHANGED migration
             \/ \E m \in Migration : migration' = [migration EXCEPT ![o] = m],
             statement = "foundation" => Len(schema_migrations) >= 1,
             statement \in {"applied", "begin"} => Len(schema_migrations) >= migration'[o] - 1,
             statement \in {"assert", "open"} => Len(schema_migrations) = 3
      PROVE  MInv'
  <2>1. /\ migration' \in [Opener -> Migration]
        /\ \A q \in Opener \ {o} : migration'[q] = migration[q]
    BY <1>2, <1>5
  <2> QED
    BY <1>1, <1>2, <1>5, <2>1, MoveStep
<1>6. CASE ListTables(o)
  <2>1. CASE Goto(o, "begin") /\ migration' = [migration EXCEPT ![o] = 1]
    <3>1. migration'[o] = 1
      BY <1>2, <2>1
    <3>2. Len(schema_migrations) >= migration'[o] - 1
      BY <1>4, <3>1
    <3> QED
      BY <1>5, <2>1, <3>2 DEF Statement, Migration
  <2>2. CASE Goto(o, IF IsBase THEN "foundation" ELSE "failed") /\ UNCHANGED migration
    <3>1. IsBase => Len(schema_migrations) >= 1
      BY <1>3, TablesTell DEF IsBase
    <3> QED
      BY <1>5, <2>2, <3>1 DEF Statement
  <2> QED
    BY <1>6, <2>1, <2>2 DEF ListTables
<1>7. CASE CheckFoundation(o)
  <2>1. /\ Goto(o, IF Applied(1) THEN "applied" ELSE "failed")
        /\ migration' = [migration EXCEPT ![o] = 2]
    BY <1>7 DEF CheckFoundation, Second
  <2>2. migration'[o] = 2
    BY <1>2, <2>1
  <2>3. Applied(1) => Len(schema_migrations) >= migration'[o] - 1
    BY <1>4, <2>2
  <2> QED
    BY <1>5, <2>1, <2>3 DEF Statement, Migration
<1>8. CASE CheckApplied(o)
  <2>1. CASE Applied(migration[o])
    <3>1. Len(schema_migrations) \in migration[o] .. 3
      <4>1. migration[o] \in 1 .. 3 /\ migration[o] <= Len(schema_migrations)
        BY <1>2, <1>4, <2>1 DEF Migration
      <4>2. Len(schema_migrations) \in 0 .. 3
        BY <1>4
      <4> QED
        BY <4>1, <4>2, Between
    <3>2. Continue(o)
      BY <1>8, <2>1 DEF CheckApplied
    <3> QED
      BY <1>1, <1>3, <1>8, <3>1, <3>2, ContinueStep DEF CheckApplied
  <2>2. CASE ~Applied(migration[o])
    <3>1. Goto(o, "begin") /\ UNCHANGED migration
      BY <1>8, <2>2 DEF CheckApplied
    <3>2. Len(schema_migrations) >= migration'[o] - 1
      BY <1>8, <3>1 DEF CheckApplied, MInv, Seen
    <3> QED
      BY <1>5, <3>1, <3>2 DEF Statement
  <2> QED
    BY <2>1, <2>2
<1>9. CASE AssertTables(o)
  <2>1. Goto(o, IF Tables = {1, 3} THEN "open" ELSE "failed") /\ UNCHANGED migration
    BY <1>9 DEF AssertTables
  <2>2. Tables = {1, 3} => Len(schema_migrations) = 3
    BY <1>3, TablesTell
  <2> QED
    BY <1>5, <2>1, <2>2 DEF Statement
<1> QED
  BY <1>6, <1>7, <1>8, <1>9

\* The transaction: what it appends is the next migration, because the opener
\* has seen the ones before it and this one is not there.
LEMMA MigrateStep ==
  ASSUME MInv, NEW o \in Opener, Migrate(o)
  PROVE  MInv'
<1>1. /\ at[o] = "sql" /\ UNCHANGED alone /\ at \in [Opener -> Statement]
      /\ migration \in [Opener -> Migration] /\ migration[o] \in Migration
      /\ alone \in SUBSET Opener
  BY DEF Migrate, MInv, TypeOK
<1>2. /\ InOrder(schema_migrations)
      /\ Len(schema_migrations) >= migration[o] - 1
  BY <1>1 DEF MInv, Seen
<1>3. /\ Len(schema_migrations) \in 0 .. 3
      /\ Applied(migration[o]) <=> migration[o] <= Len(schema_migrations)
  BY <1>1, <1>2, AppliedAreFirst
<1>4. CASE Refused(o)
  <2>1. Goto(o, "failed") /\ UNCHANGED <<schema_migrations, migration>>
    BY <1>4 DEF Refused
  <2> QED
    BY <1>1, <2>1, MoveStep DEF Statement
<1>5. CASE /\ ~Applied(migration[o])
           /\ schema_migrations' = Append(schema_migrations, migration[o])
           /\ Continue(o)
  <2>1. Len(schema_migrations) = migration[o] - 1
    BY <1>1, <1>2, <1>3, <1>5 DEF Migration
  <2>2. InOrder(schema_migrations') /\ Len(schema_migrations') = migration[o]
    BY <1>1, <1>2, <1>5, <2>1, AppendNext
  <2>3. schema_migrations' \in Seq(Migration)
    BY <2>2 DEF InOrder
  <2>4. /\ at' \in [Opener -> Statement] /\ migration' \in [Opener -> Migration]
        /\ \A q \in Opener \ {o} : at'[q] = at[q] /\ migration'[q] = migration[q]
        /\ \/ at'[o] = "assert" /\ migration[o] = 3
           \/ at'[o] = "applied" /\ migration[o] < 3 /\ migration'[o] = migration[o] + 1
    BY <1>1, <1>5 DEF Continue, Second, Goto, Statement, Migration
  <2>5. \A p, q \in Opener : at'[p] = "sql" /\ at'[q] = "sql" => p = q
    BY <2>4 DEF MInv, TypeOK
  <2>6. TypeOK'
    BY <1>1, <2>3, <2>4, <2>5 DEF MInv, TypeOK
  <2>7. ASSUME NEW q \in Opener \ {o}
        PROVE  /\ at[q] = "foundation" => Len(schema_migrations) >= 1
               /\ at[q] \in {"applied", "begin", "sql"} => Len(schema_migrations) >= migration[q] - 1
               /\ at[q] \in {"assert", "open"} => Len(schema_migrations) = 3
    BY DEF MInv, Seen
  <2>8. Seen'
    <3> DEFINE k == Len(schema_migrations)
               l == Len(schema_migrations')
    <3>1. k \in 0 .. 3 /\ l = k + 1 /\ l \in 1 .. 3 /\ l = migration[o]
      BY <1>1, <1>3, <2>1, <2>2 DEF Migration
    <3>2. ASSUME NEW q \in Opener \ {o}
          PROVE  /\ at'[q] = "foundation" => l >= 1
                 /\ at'[q] \in {"applied", "begin", "sql"} => l >= migration'[q] - 1
                 /\ at'[q] \in {"assert", "open"} => l = 3
      <4>1. migration[q] \in Migration
        BY DEF MInv, TypeOK
      <4> HIDE DEF k, l
      <4>2. /\ at[q] \in {"applied", "begin", "sql"} => k >= migration[q] - 1
            /\ at[q] \in {"assert", "open"} => k = 3
        BY <2>7 DEF k
      <4> QED
        BY <2>4, <3>1, <4>1, <4>2 DEF Migration
    <3> QED
      BY <2>2, <2>4, <3>1, <3>2 DEF Seen, Migration
  <2> QED
    BY <2>6, <2>8 DEF MInv
<1> QED
  BY <1>4, <1>5 DEF Migrate

-----------------------------------------------------------------------------
LEMMA StepPreserves ==
  ASSUME MInv, [Next]_vars
  PROVE  MInv'
<1>1. CASE UNCHANGED vars
  BY <1>1 DEF vars, MInv, TypeOK, Seen, InOrder
<1>2. ASSUME NEW o \in Opener, Start(o)
      PROVE  MInv'
  <2>1. /\ at[o] = "none" /\ Goto(o, "file") /\ UNCHANGED <<schema_migrations, migration>>
        /\ alone' \in SUBSET Opener
    BY <1>2 DEF Start, MInv, TypeOK, Opening
  <2> QED
    BY <2>1, MoveStep DEF MInv, TypeOK, Statement
<1>3. ASSUME NEW o \in Opener, OpenFile(o)
      PROVE  MInv'
  <2>1. /\ at[o] = "file" /\ UNCHANGED <<schema_migrations, migration, alone>>
        /\ Goto(o, "tables") \/ Goto(o, "failed")
    BY <1>3 DEF OpenFile
  <2> QED
    BY <2>1, MoveStep DEF MInv, TypeOK, Statement
<1>4. ASSUME NEW o \in Opener, Begin(o)
      PROVE  MInv'
  <2>1. /\ at[o] = "begin" /\ UNCHANGED <<schema_migrations, migration, alone>>
        /\ Goto(o, IF Locked THEN "failed" ELSE "sql")
    BY <1>4 DEF Begin
  <2>2. /\ Len(schema_migrations) >= migration[o] - 1
        /\ migration \in [Opener -> Migration] /\ alone \in SUBSET Opener
    BY <2>1 DEF MInv, TypeOK, Seen
  <2> QED
    BY <2>1, <2>2, MoveStep DEF Statement
<1>5. ASSUME NEW o \in Opener, Exit(o)
      PROVE  MInv'
  <2>1. /\ Goto(o, "none") /\ UNCHANGED <<schema_migrations, migration>>
        /\ alone' \in SUBSET Opener
    BY <1>5 DEF Exit, MInv, TypeOK
  <2> QED
    BY <2>1, MoveStep DEF MInv, TypeOK, Statement
<1>6. CASE FileLost
  <2>1. /\ \A o \in Opener : at[o] = "none"
        /\ schema_migrations' = <<>> /\ UNCHANGED <<at, migration, alone>>
    BY <1>6 DEF FileLost
  <2> QED
    BY <2>1, NothingApplied DEF MInv, TypeOK, Seen
<1> QED
  BY <1>1, <1>2, <1>3, <1>4, <1>5, <1>6, LookStep, MigrateStep DEF Next, Execute

LEMMA InvariantHolds == Spec => []MInv
<1>1. Init => MInv
  BY NothingApplied DEF Init, MInv, TypeOK, Seen, Statement, Migration
<1>2. MInv /\ [Next]_vars => MInv'
  BY StepPreserves
<1> QED
  BY <1>1, <1>2, PTL DEF Spec

\* The file and its openers keep their shape, and one opener at most is inside
\* a transaction.
THEOREM SchemaTypeCorrect == Spec => []TypeOK
<1>1. MInv => TypeOK
  BY DEF MInv
<1> QED
  BY <1>1, InvariantHolds, PTL

LEMMA HistoryIsPrefix ==
  ASSUME NEW s, InOrder(s)
  PROVE  IsPrefix(s, <<1, 2, 3>>)
<1> DEFINE t == <<1, 2, 3>>
           u == SubSeq(t, 1, Len(s))
<1>1. s \in Seq(Migration) /\ Len(s) \in Nat /\ Len(s) <= 3
  BY LenProperties DEF InOrder
<1>2. t \in Seq(Migration) /\ Len(t) = 3 /\ \A i \in 1 .. 3 : t[i] = i /\ t[i] \in Migration
  BY DEF Migration
<1>3. \A i \in 1 .. Len(s) : s[i] = i /\ i \in 1 .. 3
  BY <1>1 DEF InOrder
<1> HIDE DEF t
<1>4. /\ u \in Seq(Migration) /\ Len(u) = Len(s)
      /\ \A i \in 1 .. Len(s) : u[i] = t[i]
  BY <1>1, <1>2, <1>3, SubSeqProperties
<1> HIDE DEF u
<1>5. s = u
  BY <1>1, <1>2, <1>3, <1>4, SeqEqual
<1>6. SubSeq(s, 1, Len(s)) = s
  BY <1>1, SubSeqFull
<1> QED
  BY <1>1, <1>2, <1>5, <1>6 DEF IsPrefix, u, t

LEMMA SeenInOrder ==
  ASSUME MInv
  PROVE  SchemaInOrder
BY HistoryIsPrefix DEF MInv, Seen, SchemaInOrder

LEMMA SeenIsCurrent ==
  ASSUME MInv
  PROVE  OpenedIsCurrent
<1>1. ASSUME NEW o \in Opener, at[o] = "open"
      PROVE  schema_migrations = <<1, 2, 3>>
  <2>1. InOrder(schema_migrations) /\ Len(schema_migrations) = 3
    BY <1>1 DEF MInv, Seen
  <2>2. \A i \in 1 .. 3 : schema_migrations[i] = <<1, 2, 3>>[i]
    BY <2>1 DEF InOrder
  <2>3. <<1, 2, 3>> \in Seq(Migration) /\ Len(<<1, 2, 3>>) = 3
    BY DEF Migration
  <2> QED
    BY <2>1, <2>2, <2>3, SeqEqual DEF InOrder
<1> QED
  BY <1>1 DEF OpenedIsCurrent

\* However many runtimes open the file and wherever they die, each migration is
\* applied once and after the ones before it.
THEOREM MigrationsInOrder == Spec => []SchemaInOrder
BY SeenInOrder, InvariantHolds, PTL

\* An open runtime works on the whole schema.
THEOREM OpenedOnCurrentSchema == Spec => []OpenedIsCurrent
BY SeenIsCurrent, InvariantHolds, PTL
-----------------------------------------------------------------------------
(* An opener that met no other.                                            *)

\* It is the only one opening, and the migration it is about to apply is not
\* there: nobody committed since it asked.
Lone ==
  \A o \in alone :
    /\ at[o] \notin {"none", "failed"}
    /\ o \in Opening => Opening = {o}
    /\ at[o] \in {"begin", "sql"} => ~Applied(migration[o])

\* Its own statements do not fail and do not ask for what is there.
LEMMA LoneExecutes ==
  ASSUME MInv, NEW o \in Opener, Opening = {o}, Execute(o),
         at[o] \in {"begin", "sql"} => ~Applied(migration[o])
  PROVE  /\ at'[o] \notin {"none", "failed"}
         /\ at'[o] \in {"begin", "sql"} => ~Applied(migration[o])'
<1>1. /\ at \in [Opener -> Statement] /\ migration \in [Opener -> Migration]
      /\ InOrder(schema_migrations)
  BY DEF MInv, TypeOK, Seen
<1>2. /\ Len(schema_migrations) \in 0 .. 3
      /\ Applied(1) <=> 1 <= Len(schema_migrations)
      /\ Applied(3) <=> 3 <= Len(schema_migrations)
  BY <1>1, AppliedAreFirst DEF Migration
<1>3. CASE OpenFile(o)
  BY <1>1, <1>3 DEF OpenFile, Goto
<1>4. CASE ListTables(o)
  <2>1. Tables # {} => IsBase
    BY <1>2 DEF Tables, IsBase
  <2>2. Tables = {} => ~Applied(1)
    BY DEF Tables
  <2> QED
    BY <1>1, <1>4, <2>1, <2>2 DEF ListTables, Goto, Applied
<1>5. CASE CheckFoundation(o)
  <2>1. Applied(1)
    BY <1>2, <1>5 DEF CheckFoundation, MInv, Seen
  <2> QED
    BY <1>1, <1>5, <2>1 DEF CheckFoundation, Goto
<1>6. CASE CheckApplied(o)
  BY <1>1, <1>6 DEF CheckApplied, Continue, Goto, Applied
<1>7. CASE Begin(o)
  <2>1. ~Locked
    BY <1>7 DEF Begin, Locked, Opening
  <2> QED
    BY <1>1, <1>7, <2>1 DEF Begin, Goto, Applied
<1>8. CASE Migrate(o)
  <2>1. Continue(o)
    BY <1>8 DEF Migrate, Refused
  <2> QED
    BY <1>1, <2>1 DEF Continue, Goto
<1>9. CASE AssertTables(o)
  <2>1. Len(schema_migrations) = 3
    BY <1>9 DEF AssertTables, MInv, Seen
  <2>2. Applied(1) /\ Applied(3)
    BY <1>2, <2>1
  <2>3. Tables = {1, 3}
    BY <2>2 DEF Tables
  <2> QED
    BY <1>1, <1>9, <2>3 DEF AssertTables, Goto
<1> QED
  BY <1>3, <1>4, <1>5, <1>6, <1>7, <1>8, <1>9 DEF Execute

\* A statement is executed by one that is opening, and moves nobody else.
LEMMA ExecutesOwn ==
  ASSUME MInv, NEW q \in Opener, Execute(q)
  PROVE  /\ q \in Opening /\ UNCHANGED alone
         /\ \A o \in Opener \ {q} : at'[o] = at[o]
<1>1. at \in [Opener -> Statement]
  BY DEF MInv, TypeOK
<1> QED
  BY <1>1 DEF Execute, OpenFile, ListTables, CheckFoundation, CheckApplied, Begin,
       Migrate, Refused, Continue, AssertTables, Goto, Opening

LEMMA LoneStep ==
  ASSUME MInv, Lone, [Next]_vars
  PROVE  Lone'
<1>1. alone \in SUBSET Opener /\ at \in [Opener -> Statement]
  BY DEF MInv, TypeOK
<1>2. CASE UNCHANGED vars
  BY <1>2 DEF vars, Lone, Opening, Applied
<1>3. ASSUME NEW q \in Opener, Start(q)
      PROVE  Lone'
  <2>1. /\ at[q] = "none" /\ at'[q] = "file"
        /\ \A o \in Opener \ {q} : at'[o] = at[o]
        /\ UNCHANGED <<schema_migrations, migration>>
    BY <1>1, <1>3 DEF Start, Goto
  <2>2. Opening' = Opening \cup {q}
    BY <2>1 DEF Opening
  <2>3. ASSUME NEW o \in alone', o # q
        PROVE  o \in alone /\ o \notin Opening
    BY <1>3, <2>3 DEF Start
  <2>4. q \in alone' => Opening' = {q}
    <3>1. q \notin alone
      BY <2>1 DEF Lone
    <3> QED
      BY <1>3, <2>2, <3>1 DEF Start
  <2>5. ASSUME NEW o \in alone', o # q
        PROVE  /\ at'[o] \notin {"none", "failed", "begin", "sql"}
               /\ o \notin Opening'
    BY <1>1, <2>1, <2>2, <2>3, <2>5 DEF Lone, Opening
  <2> QED
    BY <2>1, <2>4, <2>5 DEF Lone
<1>4. ASSUME NEW q \in Opener, Execute(q)
      PROVE  Lone'
  <2>1. /\ q \in Opening /\ alone' = alone
        /\ \A o \in Opener \ {q} : at'[o] = at[o]
    BY <1>4, ExecutesOwn
  <2>2. ASSUME NEW o \in alone, o # q
        PROVE  at'[o] \notin {"none", "failed", "begin", "sql"} /\ o \notin Opening'
    BY <1>1, <2>1, <2>2 DEF Lone, Opening
  <2>3. ASSUME q \in alone
        PROVE  /\ at'[q] \notin {"none", "failed"}
               /\ at'[q] \in {"begin", "sql"} => ~Applied(migration[q])'
               /\ q \in Opening' => Opening' = {q}
    <3>1. Opening = {q} /\ (at[q] \in {"begin", "sql"} => ~Applied(migration[q]))
      BY <2>1, <2>3 DEF Lone
    <3>2. Opening' \subseteq {q}
      BY <2>1, <3>1 DEF Opening
    <3> QED
      BY <1>4, <3>1, <3>2, LoneExecutes
  <2> QED
    BY <2>1, <2>2, <2>3 DEF Lone
<1>5. ASSUME NEW q \in Opener, Exit(q)
      PROVE  Lone'
  <2>1. /\ at'[q] = "none" /\ \A o \in Opener \ {q} : at'[o] = at[o]
        /\ alone' = alone \ {q} /\ UNCHANGED <<schema_migrations, migration>>
    BY <1>1, <1>5 DEF Exit, Goto
  <2>2. Opening' = Opening \ {q}
    BY <2>1 DEF Opening
  <2> QED
    BY <1>1, <2>1, <2>2 DEF Lone, Applied
<1>6. CASE FileLost
  BY <1>1, <1>6 DEF FileLost, Lone
<1> QED
  BY <1>2, <1>3, <1>4, <1>5, <1>6 DEF Next

LEMMA LoneSucceeds ==
  ASSUME Lone
  PROVE  LoneOpenerSucceeds
BY DEF Lone, LoneOpenerSucceeds

\* Wherever earlier runtimes were killed, one that opens the file alone is not
\* refused: only a race fails an open.
THEOREM OnlyRacesFail == Spec => []LoneOpenerSucceeds
<1>1. Init => Lone
  BY DEF Init, Lone
<1>2. MInv /\ Lone /\ [Next]_vars => Lone'
  BY LoneStep
<1>3. Lone => LoneOpenerSucceeds
  BY LoneSucceeds
<1> QED
  BY <1>1, <1>2, <1>3, InvariantHolds, PTL DEF Spec

-----------------------------------------------------------------------------
(* Opening comes to an end.                                                *)

\* How far an opener is in the longest course it may take.
Position(o) ==
  CASE at[o] = "file" -> 0
    [] at[o] = "tables" -> 1
    [] at[o] = "foundation" -> 2
    [] at[o] = "applied" -> 3 * migration[o]
    [] at[o] = "begin" -> 3 * migration[o] + 1
    [] at[o] = "sql" -> 3 * migration[o] + 2
    [] OTHER -> 12

Advances(o) == o \in Opening' => Position(o) < Position(o)'

LEMMA PositionBounded ==
  ASSUME TypeOK, NEW o \in Opener
  PROVE  Position(o) \in 0 .. 12
<1>1. migration[o] \in 1 .. 3
  BY DEF TypeOK, Migration
<1>2. 3 * migration[o] \in 3 .. 9
  BY <1>1
<1> QED
  BY <1>2 DEF Position

\* What follows a migration is behind all of its statements.
LEMMA ContinueAdvances ==
  ASSUME TypeOK, NEW o \in Opener, Continue(o), at[o] \in {"applied", "sql"}
  PROVE  Advances(o)
<1>1. migration[o] \in 1 .. 3 /\ at \in [Opener -> Statement] /\ migration \in [Opener -> Migration]
  BY DEF TypeOK, Migration
<1>2. Position(o) <= 3 * migration[o] + 2 /\ Position(o) \in Int
  BY <1>1 DEF Position
<1>3. CASE migration[o] = 3
  <2>1. at'[o] = "assert"
    BY <1>1, <1>3 DEF Continue, Goto
  <2>2. Position(o)' = 12
    BY <2>1 DEF Position
  <2> QED
    BY <1>2, <1>3, <2>2 DEF Advances
<1>4. CASE migration[o] # 3
  <2>1. at'[o] = "applied" /\ migration'[o] = migration[o] + 1
    BY <1>1, <1>4 DEF Continue, Goto, Second
  <2>2. Position(o)' = 3 * (migration[o] + 1)
    BY <2>1 DEF Position
  <2> QED
    BY <1>1, <1>2, <2>2 DEF Advances
<1> QED
  BY <1>3, <1>4

LEMMA ExecuteAdvances ==
  ASSUME TypeOK, NEW o \in Opener, Execute(o)
  PROVE  Advances(o)
<1>1. migration[o] \in 1 .. 3 /\ at \in [Opener -> Statement] /\ migration \in [Opener -> Migration]
  BY DEF TypeOK, Migration
<1>2. \A statement : Goto(o, statement) => at'[o] = statement
  BY <1>1 DEF Goto
<1>3. at'[o] \in {"open", "failed", "none"} => Advances(o)
  BY DEF Advances, Opening
<1>4. CASE OpenFile(o)
  <2>1. at[o] = "file" /\ at'[o] \in {"tables", "failed"}
    BY <1>2, <1>4 DEF OpenFile
  <2> QED
    BY <1>3, <2>1 DEF Advances, Position
<1>5. CASE ListTables(o)
  <2>1. /\ at[o] = "tables"
        /\ at'[o] \in {"begin", "foundation", "failed"} /\ (at'[o] = "begin" => migration'[o] = 1)
    BY <1>1, <1>2, <1>5 DEF ListTables
  <2> QED
    BY <1>3, <2>1 DEF Advances, Position
<1>6. CASE CheckFoundation(o)
  <2>1. at[o] = "foundation" /\ at'[o] \in {"applied", "failed"} /\ migration'[o] = 2
    BY <1>1, <1>2, <1>6 DEF CheckFoundation, Second
  <2> QED
    BY <1>3, <2>1 DEF Advances, Position
<1>7. CASE CheckApplied(o)
  <2>1. at[o] = "applied" /\ (Continue(o) \/ (at'[o] = "begin" /\ migration'[o] = migration[o]))
    BY <1>2, <1>7 DEF CheckApplied
  <2>2. CASE at'[o] = "begin" /\ migration'[o] = migration[o]
    BY <1>1, <2>1, <2>2 DEF Advances, Position
  <2> QED
    BY <2>1, <2>2, ContinueAdvances
<1>8. CASE Begin(o)
  <2>1. at[o] = "begin" /\ at'[o] \in {"sql", "failed"} /\ migration'[o] = migration[o]
    BY <1>2, <1>8 DEF Begin
  <2> QED
    BY <1>1, <1>3, <2>1 DEF Advances, Position
<1>9. CASE Migrate(o)
  <2>1. at[o] = "sql" /\ (Continue(o) \/ at'[o] = "failed")
    BY <1>2, <1>9 DEF Migrate, Refused
  <2> QED
    BY <1>3, <2>1, ContinueAdvances
<1>10. CASE AssertTables(o)
  <2>1. at'[o] \in {"open", "failed"}
    BY <1>2, <1>10 DEF AssertTables
  <2> QED
    BY <1>3, <2>1
<1> QED
  BY <1>4, <1>5, <1>6, <1>7, <1>8, <1>9, <1>10 DEF Execute

\* No step takes back an opener that still opens.
Forward(o) ==
  /\ Position(o) \in 0 .. 12
  /\ Execute(o) => Advances(o)
  /\ o \in Opening' => Position(o) <= Position(o)'

LEMMA OpenersForward ==
  ASSUME TypeOK, TypeOK', Next, NEW o \in Opening
  PROVE  Forward(o)
<1>1. o \in Opener /\ at \in [Opener -> Statement] /\ migration \in [Opener -> Migration]
  BY DEF Opening, TypeOK
<1>2. Position(o) \in 0 .. 12
  BY <1>1, PositionBounded
<1>3. Execute(o) => Advances(o)
  BY <1>1, ExecuteAdvances
<1>4. Position(o)' \in 0 .. 12
  <2>1. migration'[o] \in 1 .. 3
    BY <1>1 DEF TypeOK, Migration
  <2>2. 3 * migration'[o] \in 3 .. 9
    BY <2>1
  <2> QED
    BY <2>2 DEF Position
<1>5. ASSUME at'[o] = at[o], migration'[o] = migration[o]
      PROVE  Position(o)' = Position(o)
  BY <1>5 DEF Position
<1>6. \A q \in Opener \ {o} : (Start(q) \/ Execute(q) \/ Exit(q)) =>
        at'[o] = at[o] /\ migration'[o] = migration[o]
  BY <1>1 DEF Start, Execute, Exit, OpenFile, ListTables, CheckFoundation, CheckApplied,
     Begin, Migrate, Refused, Continue, AssertTables, Goto
<1>7. ~Start(o) /\ (Exit(o) => o \notin Opening') /\ ~FileLost
  BY <1>1 DEF Start, Exit, FileLost, Goto, Opening
<1>8. o \in Opening' => Position(o) <= Position(o)'
  BY <1>1, <1>2, <1>3, <1>4, <1>5, <1>6, <1>7 DEF Next, Advances
<1> QED
  BY <1>2, <1>3, <1>8 DEF Forward

\* Every statement an opener executes takes it further and none takes it back,
\* whatever the others do: thirteen at the most end the open, so no number of
\* runtimes can make one ask for ever (initializeSchema).
THEOREM OpenersAdvance == Spec => [][\A o \in Opening : Forward(o)]_vars
<1>1. ASSUME MInv, MInv', [Next]_vars
      PROVE  [\A o \in Opening : Forward(o)]_vars
  BY <1>1, OpenersForward DEF MInv
<1> QED
  BY <1>1, InvariantHolds, PTL DEF Spec
=============================================================================

# Partner-Mem in TLA+

Partner-Mem keeps the conversations of agent hosts ("harnesses") in one SQLite
file. Host adapters watch a session, decide which message is a question and
which visible text is its answer, and send write commands to a runtime process;
the runtime stores turns, never changes what it stored, and serves three search
tools over them. This directory models the parts of that system whose
correctness depends on order, concurrency, failure or history, checks them with
TLC on small instances, and proves the central safety properties with TLAPS for
every value of the constants.

Paths below are relative to the repository.

## 1. Inventory

### Parts and how they talk

```
 host process (OpenClaw)                     host process (Hermes)
   hooks                                       provider callbacks
     |                                           |
 plugin-core.ts  --> SessionSerialQueue      __init__.py --> writer thread
     |               (queue.ts)                  |
 state.ts (state.json)                       _load_or_register_harness
     |                                           |
 runtime-client.ts                           runtime_client.py
     |  JSON lines over stdin/stdout             |
     +--> runtime/jsonl-server.ts  <-------------+   (one child per host process)
              |
          runtime/partner-mem-runtime.ts
              |-- ingest/turn-ingest-service.ts --+
              |-- tools/retrieval-facade.ts       |
              |     |-- keyword search            +--> storage/partner-mem-store.ts
              |     |-- reply graph traversal     |        one SQLite file, WAL,
              |     `-- vector search ------------+        shared by all runtimes
              `-- embedding/*  (HTTP, awaited)
```

| Part | State | Operations | What makes it hard | Correct when |
|---|---|---|---|---|
| **Ingest core** `src/ingest/turn-ingest-service.ts` with the commands of `src/runtime/` | none of its own; the tables | `recordQuestion`, `recordAnswer`, `recordReply`, register harness, identity of `invoke_tool` | three ways to anchor an answer; every command can be a replay of one applied long before; a refused command must leave nothing | a message belongs to one turn, nothing saved changes, a replay is recognised |
| **Store** `src/storage/partner-mem-store.ts`, `migrations/001..003` | turns, mappings, edges, access, full text index, vectors | inserts, one update, triggers | `BEGIN IMMEDIATE` transactions; triggers that rewrite the index, delete a vector row and refuse changes; the first row of a query wins | tables, index and cached vectors agree |
| **Schema** `src/storage/schema.ts` | the table `schema_migrations` | open, check, migrate | two processes open one file and ask before they lock; a crash between migrations; nothing in the SQL tolerates a repetition | migrations run once and in order, whoever is open works on all of them, only a race fails an open |
| **JSON lines server** `src/runtime/jsonl-server.ts` | lines read, the request it handles | read, handle, respond | strictly serial although a tool awaits the network; the process may be killed at any time | answers are in the order of the requests |
| **Runtime client** `openclaw-plugin/src/runtime-client.ts` | pending map, timers, child, closed flag | `send`, timeouts, `close`, exit | a timeout closes it for all; commit and answer can be separated | a call takes effect at most once, and every caller is released |
| **OpenClaw adapter** `openclaw-plugin/src/plugin-core.ts`, `queue.ts` | pending questions, visibilities and proactive proofs per session (64 entries each), the queue, the ready promise | four hooks, queue tasks | events with missing ids, redelivered, reordered; lists that evict; an answer task that waits for its question's promise in the same queue | an answer is saved under the question it answers, in order, once, and the queue drains |
| **Harness state** `openclaw-plugin/src/state.ts` | `state.json` and the harness table | `ensure`: read, check, register, write, rename | a crash between any two; several processes; a database that is gone; a runtime that outlives its host | one harness id for ever, always registered |
| **Hermes provider** `integrations/hermes/partner_mem/` | writer queue, client lock, line queue, harness id, session id | initialize, sync, session switch, shutdown, tool calls | a writer thread and tool calls on one client; the next line is the answer; a bounded shutdown | turns are stored in order and where they were spoken, only the last may miss its answer, every thread comes back unless a write to the child is stuck |
| **Vector search** `src/retrieval/vector-search-service.ts` | rows of `node_vectors`, a search in progress | search, with an await per turn | other runtimes insert, answer and overwrite rows between the awaits | a stale vector is never compared as a current one |
| **Keyword search, graph traversal, authorisation, facade** `src/retrieval/*`, `src/tools/*` | none; the call in progress | search, traverse | several statements outside a transaction while others write; paging over an index that may hold several rows of a turn; depth and limit | nothing that was there is missed, and `truncated` tells whether items were cut |
| **Embedding provider** `src/embedding/*` | none | HTTP request with a 10 s limit | errors and late answers | a vector, an error or a timeout |
| **Build and packaging** `scripts/`, `integrations/hermes/*_artifact.py` | none | build time only | | |

`PROJECT.json` lists the same parts with their status, and the hazards of the
code, each at its line with the properties that would expose it.

## 2. Modules

| Module | Models |
|---|---|
| `TurnIngest` | The ingest core over its tables. One accepted command is one step. |
| `TurnLedger` | What the ingest core promises, abstractly: turns opened once, completed at most once, no message twice. |
| `TurnIngestLedger` | The refinement mapping from `TurnIngest` to `TurnLedger`. |
| `TurnReplay` | What a later replay of any accepted command of `TurnIngest` meets, as action properties. |
| `OpenClawAdapter` | The adapter for one session, its queue, and the runtime as it sees it. |
| `RuntimeLink` | Client, two pipes, server and child process. |
| `AtMostOnce` | What a caller may rely on, abstractly; refined by `RuntimeLink`. |
| `VectorIndex` | Searches of several runtimes over the shared vector table. |
| `HarnessState` | How processes obtain and keep the harness id. |
| `Migrations` | Runtimes that open one database file and bring it to the current schema. |
| `Startup` | `HarnessState` and `Migrations` composed: hosts and the runtimes they start. |
| `HermesProvider` | The Hermes provider, its writer thread, tool threads, locked client and child. |
| `Retrieval` | Keyword search and the walk along replies, statement by statement, beside writers. |
| `TurnIngestProofs`, `OpenClawAdapterProofs`, `RuntimeLinkProofs`, `VectorIndexProofs`, `MigrationsProofs`, `StartupProofs`, `HermesProofs`, `RetrievalProofs` | Theorems and their proofs. |
| `MC*` | Values of the constants for TLC. |

### How the models correspond to the code

**Commands are transactions.** `PartnerMemStore.transaction` wraps every command
in `BEGIN IMMEDIATE`, so a command that is accepted is one atomic step of
`TurnIngest`, and one that throws is no step: its rollback also takes the
identity mappings it had inserted. Which commands are accepted, with which turn,
is the guard of `NewQuestion`, `RepeatQuestion`, `AttachAnswer`, `RepeatAnswer`,
`AnswerWithoutQuestion`, `RecordReply`, `RegisterHarness` and
`ResolveToolIdentity`. The effect of a trigger is part of the action whose
statement fires it (`FtsAfterUpdate`, `MessagesFree`). A formal id is a random
UUID bound for ever to a (harness, kind, source id) triple; the triple stands
for it. Role, author, agent, `visible_at` and `display_order` of one side are
one value of `Meta`: the code compares them together.

**Hooks are atomic, tasks are not.** A hook of the OpenClaw adapter runs without
an `await` up to its `enqueue`, so it is one action that touches the lists and
appends to the queue. A queued task is a later action that sends its command;
between them anything can happen, including the end of the runtime. The list
entries are marked consumed, never removed, except by eviction at the front.

**The serial queue is a chain of promises.** `SessionSerialQueue` keeps no list:
it remembers the last promise of a session in `tails`, chains each task on what it
finds there, and every promise that settles deletes the entry if it is still its
own. In `OpenClawAdapter` a task has a promise (its ticket), `after` holds the
unsettled ones with the one each is chained on, and `tail` is the entry of
`tails`. Any task whose predecessor has settled may run (`Starts`), and `Settle`
comes later than the end of the task, with hooks between them. That the tasks run
one at a time and in order is therefore a result (`SessionOrder`): it fails when a
promise deletes a tail that is not its own.

**A request has four moments.** `RuntimeLink` separates writing the line, the
commit, the response line and its reading, so a kill or a timeout can fall
between any two. `SeeExit` is delivered once and does not set the closed flag,
as in the code: a later `send` meets either a broken pipe (`WriteFails`) or an
immediate rejection.

**A search is interrupted at its awaits.** `VectorIndex` reads the turns once,
then awaits one embedding for the query and one per turn without a usable row.
Between two awaits the other runtimes act. A vector is represented by what it
was computed from (model, text, length), so "the vector of the text that was
read" can be stated.

**Files survive processes.** In `HarnessState` the state file and the database
persist; what a process holds does not. `Dies` is enabled between any two steps.
The Hermes provider repeats the same protocol in `_load_or_register_harness`.

**A replay is a state, not an event.** A command is recognised when the tables
make its guard a repetition of the turn it stored. `AnswerReplayStable` and
`QuestionReplayUntilThreadFilled` say that accepting a command reaches such a
state and that no later step of any command leaves it; no command needs to be
remembered for that.

**Opening is a sequence of statements.** `initializeSchema` asks what is there
in plain statements and applies each missing migration in a `BEGIN IMMEDIATE`
transaction of its own, so `Migrations` has one action per statement, and a kill
or another opener falls between any two. Inside the transaction the SQL meets
what is there (`Refused`): nothing is `IF NOT EXISTS`, and the failed open is not
retried. Migration 002 adds triggers only, so the final table check cannot see
it; that an open database has it is `OpenedIsCurrent`. `HarnessState` alone lets
a database appear where a registering process or one of its leftovers could
create it; `Startup` replaces that guess by the runtimes of `Migrations`, started
once per host with its first request and ended in their own time, and shows
that the guess was right (`HostsFollowState`).

**Threads are interleaved at the lock and at the queue.** In `HermesProvider` a
thread is before the lock, inside `request` writing its line or waiting for one,
or elsewhere. The write has a step of its own that nothing forces to happen: it
runs under the lock, without a limit, and a pipe that is full and not read does
not take the line. The client is closed by the first failure and never restarts
its child. `Joined` is the end of `join(timeout=1.0)`, whatever the writer does;
`Close` still waits for the lock. The answer of a turn is sent in the same job,
with the node id that the question returned.

**Reads are statements too.** The tools run outside a transaction, so in
`Retrieval` a page of keyword matches, the fetch of one row, the edges of one
entry and the look at one edge are separate steps, and turns, answers, replies
and access are stored between them. An entry of the walk carries the row as it
was read. The order of search results (score, then node id) and that of a level
(the host's order) are the order of `Node`: exactly so for queries of one or two
characters, whose score is constant, while the bm25 score of longer ones is taken
to stay as it is during a search. `atStart` remembers what an instant could have
answered.

A search reads rows of `turn_fts`, not turns: `Row`, with `NodeOf` for the turn of
a row. The triggers keep one row per turn (`FtsMirrorsTurns`), but nothing in the
schema does, and the repository's own test adds duplicates, so `CopyRow` adds rows
that repeat a stored turn. Then a page can bring fewer turns than rows, the loop
reads further pages, and rows are added before the offset between them; an answer
replaces all rows of its turn by one (`shrunk`), the one thing that moves rows
towards the front.

## 3. What the runs check

Every passing run completes its whole state space within its bounds.

| Run | Question | Bounds, and why they are enough |
|---|---|---|
| `turns` | Do messages, edges, index and saved data stay consistent under every sequence of commands, is each a step of the ledger, is an accepted command recognised at every later time, can a row cross a harness, and is a mapping ever kept without use? | Two harnesses with the same source ids, two turns, two messages of each harness, two threads, two texts. Two turns are the least at which ownership, edges and conflicting anchors exist; node ids are looked up without a harness, so two of each are what a crossing needs; a second thread and text let every comparison fail, which a replay depends on. Metadata, authors, agents and a third message take the run beyond any useful time; all ten properties are theorems for every set of them. |
| `replay_question` | Is a byte-identical question always recognised? **Violated.** | Two turns, one text, one thread: a question without it, an answer with it. |
| `openclaw_claims` | Is what the adapter sends ordered, anchored, claimed once and given to its own question? Does the queue drain, promises included? | A user run and a cron run with the same text, two messages of which one has no source id, four receptions, lists of length 2: more receptions than a list holds, so eviction happens, and every event may omit its run id or reply-to id. |
| `openclaw_proactive` | Is the text of a cron run ever saved as an answer to the user? **Violated.** | One cron run of two payloads and one pending question. |
| `link_promise` | At most once, in order, and every caller released? | Three calls: one served, one queued, one sent after a failure. |
| `link_slowtool` | Does a slow tool fail alone? **Violated.** | Two calls. |
| `vector_race` | Is a stale vector ever compared as current? Do searches end? | Two runtimes with different models, two turns, two lengths: both can hold an old text while the other attaches an answer. |
| `startup` | Is the harness id kept and registered, and the schema complete, through kills, lost answers, a lost database, runtimes left behind and overlapping starts? Does every open end? | Two hosts with a runtime each, restarted without bound, all three migrations, two harness ids. The second id is what a replacement needs; two runtimes are the least that race, and a third would meet the same locked or migrated file. |
| `hermes` | Do turns arrive in order, whole and where they were spoken, and is every turn settled and does every thread come back, unless a write is stuck? | Two turns, two sessions, one tool thread: a tool request can fall between question and answer, and a second turn shows what follows a lost answer. |
| `hermes_stuck` | Does shutdown always return? **Violated.** | One turn, one tool thread: one line that the child does not read. |
| `retrieval` | Does a search or a walk miss or invent anything, while others write? | The graph of `MCRetrieval`: three turns in a ring of replies, one in a conversation that may be given, one reply on an answer that may come late; five rows, three of them of one turn, so that with a limit of one or two a search reads up to three pages; limits and depths on both sides of what there is. Turns of another harness never match and are left to the theorems. |
| `retrieval_limit` | Is a walk that fills its limit truncated? **Violated.** | The same graph. |

Symmetry is used in `turns` for harnesses, node ids, texts, messages and
threads: sets of model values the module only compares. That run checks
invariants and action properties, no liveness.

`CHECK_DEADLOCK FALSE` is set because the systems really may stop: a host may
send nothing more, and the bounded sets of ids and events are used up.

### Fairness

- `OpenClawAdapter`: weak fairness of the tasks that may start, of the promises
  whose task has ended, and of the ready promise. A task awaits a request, which is answered or ended by the client's
  30 s timer. The one other thing a task awaits is its question's promise, and
  that wait is in the model, as a guard: that it ends is what `QueueDrains` shows,
  not assumed. Host events have no fairness.
- `RuntimeLink`: weak fairness of the timers only. Neither the child nor the
  pipes are assumed to make progress.
- `VectorIndex`: weak fairness of a search's own steps: an embedding request is
  answered or aborted after 10 s. The writers have none.
- `Migrations` and `Startup`: weak fairness of a runtime's next statement, which
  SQLite answers or refuses after `busy_timeout`. Hosts promise nothing, and a
  runtime may be killed at any time.
- `HermesProvider`: weak fairness of taking a free lock, of the wait for a line
  (eight seconds at most), of a write to a child that is gone, of the writer, of
  the one second join and of `close` once the lock is free. The child promises
  nothing, and a write to a live child (`Write`) has no fairness: it returns when
  the pipe has taken the line. `TurnsSettle` and `ThreadsComeBack` therefore say
  "unless a thread is in a write" (`InWrite`); as each thread writes a bounded
  number of lines, to be found there for ever is to be stuck.
- `Retrieval`: weak fairness of the call's next statement. The writers have none.
- `TurnIngest`, `TurnReplay`, `HarnessState` by itself: no fairness; only safety
  is claimed.

### Disagreements between the code and what is said of it

Each is a run whose property quotes a document, test or comment, and which TLC
finds violated; `PROJECT.json` gives the lines.

1. A question recorded without a thread, then answered with one, is refused when
   it is sent again (`replay_question`). `turns` shows that this is the only way:
   `QuestionReplayUntilThreadFilled` and `AnswerReplayStable` hold.
2. The second visible payload of a cron or heartbeat run is saved as the answer
   to the session's only pending question (`openclaw_proactive`).
3. A tool call that lasts longer than the request timeout closes the client and
   rejects the writes queued behind it (`link_slowtool`).
4. The Hermes client writes a request under its lock without a limit, so a child
   that does not read can hold up the writer, every tool call and `shutdown` for
   ever (`hermes_stuck`). `hermes` shows that this is the only way.
5. A walk that returns exactly `limit` turns and has no more says
   `truncated: false` (`retrieval_limit`). `TruncationIsHonest` states the code's
   reading, more than `limit`, which holds.

A failure outside the runs: `gateway_start` creates the ready promise before
anything awaits it (`plugin-core.ts:95`), so a start that fails first is an
unhandled rejection of the host process. `HarnessState` reaches it in two steps
(`Reject`).

A known limit, not a run of its own: two host processes that both start without
a state file each register a harness, and the later rename replaces the earlier
id, although `docs/PRD.md` asks that the id stay. `IdentityKeptAlone` therefore
speaks of hosts that follow one another.

## 4. What is proved

The proofs hold for every number of harnesses, ids, texts, turns, messages,
requests, threads, processes and runtimes, every capacity of the lists, and every
graph, depth and limit of a tool call. They use the named assumptions of each
module (`NullAssumption` and `MetaAssumption` of the ingest core,
`IndexAssumption`, `StateAssumption`, `LinkAssumption`, `HermesAssumption`,
`AdapterAssumption`, `RetrievalAssumption`; `Migrations` and `Startup` add none),
which say that NULL is none of the values it stands beside, that the constants
have their types, that the thread names are distinct, that the ids of turns are
finitely many numbers where turns are ordered and, for `Retrieval`, that rows are
numbered like their turns and that no turn replies to itself (a CHECK of
migration 001). TLC evaluates those assumptions in
the runs. Every module with a proof has its type invariant proved
in it, so that no run repeats it (`turns` is the exception, where a mutant shows
what the types catch).

**Ingest core** (`TurnIngestProofs`). `TypeCorrect` comes first; it needs that
every id a request resolves is a formal id and every stored turn has a text.
Then all commands are reduced to one relation: `StepOnTurns` shows that a step
leaves turns and index alone, inserts one turn, or completes one
(`TurnsStep`). The properties of turns are proved from that relation alone:

- `MessagesOwnedOnce`: a message is in one side of one turn. It is not
  inductive without types; inserts and completions are guarded by the trigger
  against the other rows, the column CHECK against the row itself.
- `IndexIsCurrent`: the full text index equals the set of current texts. Its
  update trigger fires on a change of the texts only, so the proof splits on
  whether the answer changed it.
- `EdgesAreGrounded`: reply edges join stored texts. The lemma behind it,
  `SpokenForever`, is that a text that was stored stays stored.
- `SavedForever`: the action property `WriteOnce`.

`IInv`, the conjunction of these and `TypeOK`, is the inductive invariant.

`ImplementsLedger`: every behaviour of the ingest core is one of `TurnLedger`
when a turn is seen as its two sides. An insert maps to `Open`, a completion to
`Complete`, everything else to a stutter.

`MappingsAlwaysInUse` and `HarnessesStayApart` are proved together. The five
commands that resolve identities share one effect, `IdentityEffect`: they add the
ids of the request, and what they write into a turn carries exactly those. The
first property needs that no command drops an id it added, the second that all
of them name the harness of the request; `SavedForever` keeps both for the turns
that do not change.

`AnswersStayRecognised` and `QuestionsStayRecognised` say that a recognised
replay stays recognised. Recognition itself is five look-ups through the tables,
awkward to preserve; `Recorded` (for answers) and `Held` (for questions) say the
same of the one turn in question. Each is shown equivalent to recognition in one
state, by `MessageOwnership`, and preserved by `SavedForever`. `Held` does not
fix the thread, which an answer may fill: that is the gap finding 1 is about.

**OpenClaw adapter** (`OpenClawAdapterProofs`). `AInv` has three parts beside the
types. `Order`: the queued tasks follow the executed ones in the order of their
hooks. `Chain`: every queued task is chained on the promise of the one before it,
which is unsettled, and the promise of the last is the `tail`, whatever settled
promises did to it; so only the first task can start (`FirstRuns`). `WritesInOrder` follows from both. `Promises`: a question's promise has one task, is
pending until that task ran, and is resolved only if the task's command was
executed; so an answer that found it resolved comes after it
(`QuestionsComeFirst`). `Claimed`: an entry is listed once and, when an answer
holds its id, consumed or evicted, so no second answer finds it (`ClaimedOnce`,
`NamedAnswersFit`). `OnlyShownIsSaved` counts, and needs an invariant of its own:
`Backed` says that for every text the answers saved and the visibilities still
open are together no more than the payloads shown. A hook that saves an answer
consumes an open visibility, one that shows a payload adds one of each, and an
eviction renumbers the list without adding to it. `QueueNeverSticks` is the half
of `QueueDrains` that needs no fairness: by `Waits` a pending promise has its
question in the queue, and an answer that waits for one stands behind it, so the
first task always has what it needs.

**Link** (`RuntimeLinkProofs`). The invariant `LInv` relates the two pipes by
position: requests are written in the order of the calls, the server is at line
`taken`, and the responses are a prefix of what it took (`LinkAnswersInOrder`).
It also says that what is committed was taken and what is resolved was answered.
With that, `LinkImplementsPromise` maps every step of client, server, timers and
kills to a step of `AtMostOnce` or a stutter. `NoSendIsForgotten` stands behind
`EverySendSettles`: a send without a result is in the client's map, where its
timer, the exit of the child and `close` find it.

**Vector search** (`VectorIndexProofs`). `IndexIsHonest` and
`SearchesRankWhatTheyRead`. Neither the rows nor what a search ranks can be
argued alone: a search ranks a stored vector because the row is honest about it.
The invariant `VInv` also says that nothing is ranked or awaited before the
query's length is known, without which a new length would falsify old rankings.
`SearchesAdvance` is the measure behind `SearchesEnd`: what a search has `Taken`
grows with each of its steps, by no more than the turns it read allow, and what
other runtimes write takes nothing away. It needs that an awaited turn is not
ranked yet (`AwaitedOnce`).

**Harness id** (`StartupProofs`, first half). `ReadyIsRegistered` holds even where
processes overlap. Its invariant `Grounded` says that while a state file exists
and its database does not, no process is registering: otherwise a new database
would appear that does not know the id in the file. It is what the guards of
`CreateDatabase` preserve, while a `RegisteredForNobody` only adds to the table.
`IdentityKept` assumes that processes do not overlap and strengthens it by
`OneId`: only the id in the file was ever adopted, and a process registers only
while there is no file.

**Schema** (`MigrationsProofs`). `MigrationsInOrder`, `OpenedOnCurrentSchema` and
`OnlyRacesFail`. The invariant `MInv` adds to the types what an opener has `Seen`:
before each statement, the migrations behind it are committed. The file only grows
while anything is open, so what was seen stays true although others write; that is
why asking before the lock is safe for the data, if not for the open. For an
opener that met no other, `Lone` adds that it is the only one opening and that the
migration it comes to is not there, so nothing it executes can be refused.
`OpenersAdvance` is the measure behind `OpensEnd`: each statement raises the
opener's `Position`, a number up to 12, and no step of another lowers it.

**Startup** (`StartupProofs`). Both invariants and the measure (`RuntimesAdvance`)
carry over to the composition, and `HostsRefineState` shows that every step of
hosts and runtimes is a step of `HarnessState` or leaves it alone. The
strengthening `Linked` says that a runtime that has not come to the file yet
stands beside no state file or a database that is there, so the file it creates is
never taken for the one a state file names.

**Hermes** (`HermesProofs`). `HInv` has a part for each thing that can go wrong
between the threads. `Wire`: at most one request is under way, the one of the
lock's holder, because whoever gives a request up closes the client in the same
step; `OwnAnswers` follows. `Spoken`: only the writer writes, and with the
conversation its turn was queued with (`SavedWhereSpoken`). `Order`: jobs wait in
the order of the turns, and what the writer sends comes after all that is stored
(`TurnOrder`). `HalfTurnsAreLast` needs the rest: the line the writer will read
tells what became of its command (`Verdicts`), an answer goes out behind its
question (`Questions`), and where an answer was lost either the writer still
holds the turn or the client is closed and nothing later can be on its way
(`Halves`). `NoTurnIsDropped` stands behind `TurnsSettle`: a turn handed over is
finished, in the writer's hand or queued (`Accounted`), and the mark that ends
the writer is the last entry of the queue (`Ending`), so the writer ends with no
turn left.

**Retrieval** (`RetrievalProofs`). `RInv` is inductive, and each property follows
from it in one state.

- A search (`SearchesMissNothing`): `SearchInv` follows every match of the
  beginning that is not found yet. It has a row at or behind the offset, on the
  page, or behind a full page, unless the search has found more than it may show
  (`ToCome`), and it comes after all that were found (`Complete`). Between two
  pages rows are only added, unless `shrunk`, and a row that is added before
  another moves it towards the end, never to before the offset (`AheadGrows`); that is
  why reading by OFFSET outside a transaction loses nothing here. `Indexed`, that
  every stored turn has a row, starts the argument.
- A walk: `Levelled` says what `visited`, `found`, `frontier` and `next` hold of
  one another: each node once, a level's entries the end of `found`. `Paths`
  gives every entry a path of stored replies through visited nodes.
- `Upper`: what was visited is within that many replies now. The graph only
  grows, and `Within` is monotone in it.
- `Lower`: what was within reach when the call began has been visited. It needs
  `Began`, a graph that was part of every later one and gave `atStart`, and that
  every edge of it at an expanded node is examined, still in `left`, or led to a
  node that is known.

The distances are numbers, so `Within`, a recursive function, is reasoned about
by induction on levels. It is done without an operator parameter: `Reaches`
takes the least number at which a set of numbers would break off, from the
well-foundedness of `<` on Nat. `AscendingProperties` shows that ranks list a
finite set of numbers in order: a rank is an injection into as many ranks as
there are members, hence a bijection.

### Only model-checked

Liveness (`QueueDrains`, `EverySendSettles`, `SearchesEnd`, `OpensEnd`,
`TurnsSettle`, `ThreadsComeBack`, `CallsEnd`) is out of the prover's reach, as is
ENABLED. For the first five the part that needs no fairness is proved: nothing
waits for what cannot come, or a measure that each step raises. The library's
induction theorems over an operator cannot be used, and neither can RECURSIVE
operators, which no module here has. Every safety property of a passing run, state
and action, is a theorem.

## 5. What is not modelled

- Configuration, tool schemas, the projection of rows into evidence and error
  envelopes: functions of a single request, without state. Parsing, output
  formatting and logging are left out everywhere; a request that parsing refuses
  is a refused command. `get_node` reads one row.
- Failures of the disk while the schema is applied: a failed open in `Migrations`
  is one the code brought about.
- A database path that a second harness shares with the one of the state file:
  hosts of `Startup` share both paths.
- The client of the OpenClaw plugin has no listener for errors of the child's
  stdin (`runtime-client.ts:137`); an error event there that belongs to no write
  in progress would be unhandled in the host process. `RuntimeLink` has the
  failed write, not the event.
- An entry of the adapter's lists that is evicted just before an answer would
  have claimed it: the answer is skipped or unanchored, as if the question had
  never been listed. What an answer does claim is checked.
- Hermes: `sync_turn` from several host threads at once, contexts that disable
  writes, a provider used again after shutdown.
- Distances, Float32 validity and the order of vector results: numeric code.
- Several OpenClaw sessions: their lists and queues are separate and only the
  client is shared, which `RuntimeLink` models.
- Exclusion filters of the adapter: a payload or message they drop is one the
  model's host did not send, or announced as suppressed.
- Build, packaging and smoke scripts.

## 6. Plan

The order was: what is saved (`TurnIngest`, `TurnReplay`), what decides what is
saved (`OpenClawAdapter`), how it gets there (`RuntimeLink`), what is shared
(`VectorIndex`), where identity and schema come from (`HarnessState`,
`Migrations`, `Startup`), the second host (`HermesProvider`), and what is read
back (`Retrieval`). What the prover can reach is proved; what the plan leaves is
listed in section 5. A composed module replaces the runs of its parts where it
asks the same questions, so that each run keeps asking one thing nobody else
asks.

## 7. Running

```
tlasany TurnIngest.tla
tlc -workers 2 -config TurnIngest_turns.cfg MCTurnIngest
tlapm TurnIngestProofs.tla
```

Each run of `PROJECT.json` names its module and configuration. Definitions whose
comment begins "Mutant of" are not part of any specification: each is a
plausible mistake in one definition, and shows that the property beside it in
`PROJECT.json` would notice.

# Fluffle: TLA+ models of the daemon

Fluffle is a local, single-user message system for people and coding agents.
`flf daemon` owns one SQLite file; the CLI, the TUI and external agents talk to it
over HTTP on the loopback. A human message that opens with `@name` makes the daemon
run that agent's command as a child process and put its answer into the thread.

This directory holds models of the parts of the daemon whose correctness depends on
how goroutines, requests, processes and failures interleave, the TLC runs that check
them, and TLAPS proofs of the properties that matter most. Paths below are relative
to the repository's root, which `PROJECT.json` calls `src/`.

## 1. Inventory

| Component | State | Operations | Interacts through | What is hard |
|---|---|---|---|---|
| Session manager, `internal/session/manager.go` | `queued`, `running` (id → cancel function), `closed` under `m.mu`; semaphore `sem`; `wg`; `m.ctx`; `shutdownOnce` | `Start`, `dispatch`/`run` (one goroutine per session), `Cancel`, `Shutdown`, `ShutdownAndWait`, `Reconcile` | the rows in the store, the runner, contexts | every store call is made without the mutex; cancel, shutdown, crash and restart meet a run at every step |
| Session rows, `internal/store/session.go` | `agent_sessions`, `agent_session_events` | `CreateSession`, `MarkSessionRunning` (guarded), `FinishSession` (unguarded), `SetSessionReply`, `AppendSessionEvent`, `ReconcileSessions` | single statements on one connection | which updates look at the status |
| Reply resolution, `manager.go:299-395`, `prompt.go` | the thread's messages | `resolveReply`, `agentPosted`, `postReply` | counts messages that *other processes* posted | a reply is recognised by name, author type and seq alone |
| Stream writer and runner, `stream.go`, `internal/runner` | limiters, buffers, `mu`, one `flushMu` per stream | `Run`, `push`, `Seal`, `write`, `flush`, `flushAll`, `closeAll` | OS pipes, `OnChunk`, event rows | two drains, a ticker and the session's goroutine share the buffers |
| Message store, `internal/store/store.go` | `channels`, `threads`, `messages`, `reactions` | single appends, `AppendBatch`, list queries | one transaction per write | seq assignment, remapping of references, all or nothing |
| HTTP API, `internal/apiserver` | `shutdownFn` | channels, threads, messages, reactions, `/events`, cancel, shutdown, reads | store, manager | author type comes from a header; a message is committed before its sessions start; a client may be gone before its answer |
| CLI commands, `cmd/flf/main.go`, `internal/jsonl` | none | one to four requests each, and a check of every answer | HTTP | between the requests others write; a lost answer leaves the outcome open |
| Daemon life cycle, `cmd/flf/main.go`, `internal/client` | `daemon.json`, `daemon.lock`, the process | `daemonStart`, `daemonStop`, `EnsureDaemon` | files, signals, HTTP probes | several clients spawn and stop daemons at once |
| TUI model, `internal/tui/model.go`, `compose.go` | rows, cursor, selected thread, reply box | `Update` of keys, ticks and responses | asynchronous HTTP responses | responses arrive late and out of order |
| Parsers, TUI rendering, migrations | none, or one file | | | pure functions or one-shot code |

What makes each of them correct:

* *Manager.* No slot is leaked or exceeded; every row a client sees open is somebody's
  to finish; an agent that runs can be canceled; a session finished in the queue never
  runs; shutdown is a barrier for every caller; after a restart nothing is left open;
  a canceled run is silent.
* *Reply resolution.* A run is credited with its agent's messages and nobody else's, an
  answer is not posted twice, and `reply_message_id` is the session's own message.
* *Stream writer and runner.* The transcript is the output, in order, whole but for the
  elided middle, and complete when the reply is collected; a finished command ends its
  session.
* *Message store.* A thread's seqs are 1, 2, 3, ...; a batch is whole or absent; imported
  references keep their targets; a channel's name finds one channel.
* *HTTP API and CLI.* What a command reports is what became of its request; following a
  thread by `--after-seq` loses and repeats nothing; a dump, made of several requests,
  has its references right; sessions start for what people post now, once.
* *Daemon life cycle.* A daemon is spawned only when none was found under the lock;
  what `start` and `stop` report of a process is so; a boot leaves no row of a dead
  daemon open; every command returns.
* *TUI.* The pane never shows one thread under another's title; a reply goes to the
  selected thread; exactly one tick is in flight; the screen catches up.

`PROJECT.json` lists each hazard of the code at its line with the properties that would
catch it.

## 2. Modules

| Module | Models | Builds on |
|---|---|---|
| `AgentSessions` | the manager, its goroutines, requests, faults, crash and restart | |
| `AgentSessionsProps` | its properties and the refinement mapping | extends `AgentSessions`, instantiates `SessionLifecycle` |
| `SessionLifecycle` | the promise: the life of a row, the agents running beside it | |
| `AgentSessions_proofs`, `SessionLifecycle_proofs` | theorems | |
| `ReplyResolution` | several sessions of a thread resolving their replies | |
| `ReplyResolution_proofs` | theorems | |
| `RunTranscript` | one execution from the command's pipes to the event rows | |
| `RunTranscript_proofs` | theorems | |
| `ThreadStore` | the tables of channels, threads, messages and reactions, and the queries and store calls on them, as operators on a database | |
| `ThreadStore_proofs` | lemmas about each of these operators | extends `ThreadStore` |
| `ThreadService` | the commands as clients and the routes as handlers over one database | extends `ThreadStore` |
| `ThreadService_proofs` | theorems | extends `ThreadService`, `ThreadStore_proofs` |
| `DaemonLifecycle` | daemons and the commands that find, start and stop them in one home directory | |
| `DaemonLifecycle_proofs` | theorems | |
| `TuiModel` | `Update` of the terminal interface, its requests and their answers | extends `ThreadStore` |
| `TuiModel_proofs` | theorems | extends `TuiModel`, `ThreadStore_proofs` |
| `MC*` | symmetry sets, initial databases and commands for TLC | |

The models fit together at named seams. `AgentSessions` lets `AgentPosted` answer
anything; `ReplyResolution` says what it answers, and leaves out slots, faults and
shutdown. In both, the run of the command is a step with a beginning and an end;
`RunTranscript` is its inside. `ThreadService` ends where `AgentSessions` begins, with
the call of `Start`, and takes the daemon as up or down; `DaemonLifecycle` says how it
comes up and goes down, with one session per daemon in place of the whole manager.
`TuiModel` reads and appends through the same store operators as `ThreadService`.

### AgentSessions

A session is its row's unique key, trigger and agent. `pc[s]` is where its goroutine
stands: first inside `Start` (`new`, `abort`), then in `dispatch` and `run`. One action
is what the code does between two points at which another goroutine can come in: a
store call, a critical section of `m.mu`, a read of a context, a channel operation, the
WaitGroup. So `Start`'s INSERT (`CreateSession`) and its check of `m.closed`
(`Register`) are two actions, `Cancel` is a read of the row, a lookup of
`m.running`, and a cancel or an update, and `Shutdown` sets `closed`, cancels `m.ctx`,
and sweeps its snapshot row by row, while a second caller waits for
`shutdownOnce`. Terminal updates may fail where `StoreMayFail` says so; the manager
ignores their errors, and `lost` remembers for which rows. `Crash` drops the Manager's
state and keeps the rows and, as orphans, the agents' process groups; `Boot` is
`Reconcile`. Thread content, prompts, transcripts and exit codes are abstracted.

### ReplyResolution

`messages[th]` is the thread; a message is the name and author type the store keeps,
and, for the properties only, the run it comes from and how it was posted. `HumanPosts`
is the append handler with the `Start` it triggers; `AgentPosts` is an agent's process
running `flf message send`, either with the command the prompt spells out (`--agent-id`,
no `--as`: the CLI sends `$USER` as the name, and the handler prefers that name to the
agent id) or in a way that carries the agent's name. `Claims` is the same request from
anybody else: the handler takes an agent's header and name from whoever sends them, from a
shell, from a process that outlives its run, from another agent's `--as`. `Counted` is the SQL of
`CountAgentMessagesAfter`. `CountPosts` stands for the last poll of the grace loop:
polls that count nothing and go on change no state.

### RunTranscript

The k-th piece of a stream is the number k and sizes are counted in pieces, so that the
order and the completeness of the rows can be read off their contents. Goroutines are
the two drains (named for their streams), the flush loop and the session's goroutine
("main"). `flush` is two actions: the buffer is taken under `flushMu` and `mu`, and
`flushMu` is held until the store has the row. `WaitReturns` closes the pipes as
`os/exec` does: whatever a drain has not read by then is gone.

Kills by timeout or cancel are ends of the command (`Exits`). Errors of the store are
left out.

### ThreadStore and ThreadService

A database is a record of tables; a row's id is its index, since nothing is ever deleted.
Each query of `internal/db` and each call of `store.go` is an operator that yields a
code, the database after it, and what it returns. `LegalName` stands for what the name
grammars accept, and a content is one of a few model strings, of which some begin with a
mention and some are blank in Go but not to SQLite's `trim()`.

A client (`cl`) runs a command: its flags and its file are a record of `Commands`, its
place is `step`, the request it is at. `Begin` checks the arguments and parses the file;
`Call` sends the request; `Deliver` checks the answer (the `validate...` functions) and
goes on as the command does, for example in an import from the list of channels to the
new channel, the new thread, and the batch. The handler of a request (`h`) is one
goroutine. Routes of one transaction are one action (`Serve`), since the pool has one
connection; `/events` holds that connection from `BeginBatch` over one `BatchEvent` per
event to `CommitBatch`, and then starts the sessions one at a time before it answers
(`StartSession`). Every error between the commit and the row of a session is swallowed: the
lookup of the message, and what `Start` reads and writes; the answer is OK all the same,
and `lost` remembers the message. `channel create --json` makes a second request to print
its row, and a dump with `--last` or `--after-seq` one more to know the seqs of parents.
`Crash` and `Restart` are the daemon's, `Lose` is an answer a client gives up on, and
`Abandon` is what net/http and database/sql make of that on the other side: the context
ends and the transaction is rolled back.

### DaemonLifecycle

The shared state is `daemon.json` (`file`), the flock (`lock`) and the rows. A daemon goes
through `OpenStore`, `Reconcile`, `Listen`, `Publish`, serves, and after a shutdown
request passes the barrier before `Exit`; `row` and `agent` are its one session, in the
table and in its manager, which differ when another daemon has reconciled the table.
`Start` is two actions, as in `AgentSessions`: `StartInserts` writes the row and
`StartRegisters` asks whether the manager is closed; a shutdown that comes in between exits
cleanly and leaves the row queued (finding 2). `reach`, for one property only, remembers
the daemon a client could have found when it took the spawn lock, and is forgotten when
its probe times out or it goes on without the lock. A client's `stage` tells which of `EnsureDaemonContext`'s calls of `DaemonBaseURLContext`
it is in: the reading of the file and the request to the port are two actions.

### TuiModel

`m` is the model struct, `box` the reply box, and `net` the commands under way and their
messages on the way back, a set in which `nth` tells equal ones apart. Requests are
served, fail, and are handled in any order. The clock is a message like others, which
is how "one tick in flight, always" can be stated. `Text` is what is typed into the box. `Clamp`, `ApplyRows`, `SyncThread` and
`RefetchThread` are the functions of those names.

## 3. Runs

| Run | Instance | Shows |
|---|---|---|
| `sessions_safety` | one trigger with two agents, one slot, one cancel, two shutdowns, store errors, one crash and restart; about 1.1 million states | types, slots, cancelability, no stuck row, the barrier, which final status may replace which, refinement of `SessionLifecycle` |
| `sessions_liveness` | the same without store errors and the second shutdown; 100 thousand states | a closed manager starts no more agents, over the restart too; queued sessions end, canceled runs end canceled and are silent, shutdown returns |
| `replies_resolved` | one thread of at most three messages before the daemon's own, two agents, two sessions, modes cli and auto, one $USER, anybody posting in an agent's name; 1.6 million states up to symmetry | credit, no duplicate, own reply |
| `transcript_kept` | six pieces over two streams, head, tail and flush size 2; 68 thousand states | order, completeness, types, termination |
| `threads_kept` | two clients, three commands in all out of twenty, batches of up to four events, one fault (a crash, a lost answer or a session that could not be started); 1.2 million states up to symmetry | logs, unique names, outcomes, references of imports, cursors, dumps, starts of sessions |
| `one_home` | two clients, three commands, two daemons, one fault; 1.0 million states | recheck under the lock, truth of what is reported, no orphaned row, finality across daemons, return of every command |
| `tui_pane` | two threads, one with a message, lists of up to three rows in a window of one or two, four keys or resizes, a message of others, one failure, four requests under way | window, one tick, pane and selection, catching up |
| `cancel_lost`, `barrier_open_row`, `prompt_command_replies`, `output_lost`, `marker_under_budget` | the smallest instance that shows each | see Findings |

*Why the bounds are enough.* Two sessions and one slot give every contest for the
semaphore: one runs, one waits, and the second run of a slot exists. The goroutines of
two sessions share only counters and maps, so a third would repeat a pair. Two
shutdowns are the winner of `shutdownOnce` and a joiner. Two starts of the daemon are a
life before and after `Reconcile`. For replies, two sessions are two agents on one
trigger, two on two triggers, or one agent twice; three messages are two triggers and
an interloper, and the daemon's own replies come on top; the mode stdout does what auto
does when it counts nothing. For transcripts, six pieces on
one stream pass the head, fill the tail, push out of it, and flush at least twice, and
a read may return any number of pieces, so that it can cross each limit.
The theorems below hold for every value of these constants.

For threads, two clients are every pair of commands in every interleaving of their
requests, and the third command reads, retries or imports what the first two left
(an import of the last export among them). The database starts with a thread of a
message and a reply and with an empty thread, so that ids and seqs of a thread differ.
The imported files have a message without a source seq before those with, a reply to a
source seq that the thread also has, and a reaction. A batch of two mentions and two
reactions refer to messages that are there only if others have written before them, so
that each both fails and succeeds. For daemons, two are an old one and
a new one, and three commands are a stop that races an ensure and one more; a third
daemon would meet only what the second has met. For the interface, heights 1 and 3 give a
terminal too low for keys and a window smaller than the list, four keys are enough to
open a box under one thread and send under another, and four requests are a rows and a
thread request of two selections; a tick or key waits when they are used up.

*Fairness.* The Go scheduler runs what can run: weak fairness per goroutine. A channel
serves waiting senders in order, and a sender that waits keeps being enabled once slots
are free for good, so that weak fairness serves for the semaphore too. Each run has a
finite timeout, hence `ChildEnds` is inside the fair goroutine. Requests, crashes,
restarts and human messages are never owed, nor is the end of the command in
`RunTranscript`: `RunEnds` starts from a dead command. There, `select` with the ticker
and the stop channel both ready chooses at random, so that the stop is taken if it is
offered again and again: strong fairness for `LoopStops` alone. In `DaemonLifecycle` a command that runs goes on
(its polls have deadlines), and nothing is assumed of daemons; `CommandsReturn` says that
a client has no command under way again and again, which is that every command ends. In `TuiModel` requests end
(the client has a timeout) and messages are handled; nothing is assumed of keys. Its
`Fairness` is WF of serving and of handling with the enabling condition written out
(`CanServe`, `CanHandle`), because TLC takes a hundred times as long to evaluate ENABLED
there; that the two agree was checked by TLC on a smaller instance. Deadlock is not checked,
because each system stops: the daemon exits, the thread falls quiet, the run ends.

Each property of a passing run has a *slip*: an operator beside the action it belongs
to that changes it as a plausible bug would, with which TLC finds the property violated.

## 4. Findings

1. **A cancel can be lost** (`cancel_lost`; `manager.go:288`). Cancel looks a queued
   session up in `m.running` before dispatch registers it, then finishes the row
   "canceled", while the agent is spawned and runs to its end; the run's own finish
   replaces "canceled". The same check-then-act has a second outcome after the run has
   ended (`manager.go:295`): the update is by id alone, so a late cancel replaces
   "succeeded". `FinishedStaysFinished` says that nothing else replaces a final status.
2. **The shutdown barrier can leave a row open** (`barrier_open_row`; `manager.go:95`).
   A row inserted by Start and not yet registered is swept by nobody. The next start
   closes it.
3. **The command in the prompt does not count as a reply** (`prompt_command_replies`;
   `cmd/flf/main.go:1119`). It carries `$USER` as its name.
4. **Output can be lost at the end of a run** (`output_lost`;
   `internal/runner/exec.go:87`). `cmd.Wait` closes the pipes before the drains are done.
5. **The elision marker can come where nothing was elided** (`marker_under_budget`;
   `internal/runner/runner.go:59`): when an output exceeds the head and fits into head and
   tail together.

One more has no run of its own: `docs/backend.md:372` describes `daemon stop` as a kill, where
the code first asks for a graceful shutdown. The overlap of two runs of one agent in one
thread is documented as a known limitation (`docs/backend.md:358`), and
`CreditIsTheAgents` is stated up to it: the credit may be another run's of the same
agent. Nor can the manager tell an agent's own message from one that somebody else posts
under the agent's name with the agent's header, with which the run counts as answered.

*Observations of the newer models*, which contradict nothing the repository says, or
only a comment about how much something moves, and so have no run:

* A second daemon is possible in spite of the spawn lock: the lock is let go of when the
  child has been spawned, before it publishes `daemon.json` (`client.go:141`), so that a
  client who rechecks in between spawns another. The second one's Reconcile closes rows of
  sessions the first still has (`ClosedStaysClosed` says that they stay closed).
* `daemon stop` removes `daemon.json` after a wait of up to five seconds, whosever it is by
  then (`main.go:1269`); a daemon started meanwhile is not found any more.
* A content of, say, one newline passes the CLI's `== ""`, the handler and the schema's
  `trim()`, which strips spaces only, but not `validateMessages`, `validateReactions` and
  `validateRows` on the way out: every read, export or inbox that has it in its answer ends
  with DAEMON_ERROR (`main.go:218`).
* A message answered with OK may have started no session: the lookup of its id, and every
  store call of `Start`, fail in silence (`server.go:233`, `sessions.go:65`,
  `manager.go:69-97`). `PostedMeansStarted` excuses that case and no other.
* `thread import` is atomic only in its last request: when the batch is refused, the
  channel and the empty thread stay (`main.go:1016-1025`).
* A reply is sent to the thread selected when the send is handled (`model.go:510`), which
  a rows answer may have changed since the box was opened with a title; a second Enter
  before that sends the text twice (`compose.go:59`).
* `v` twice within a tick leaves the rows reversed under a model that is not: `applyRows`
  reverses only when `reversed` is set (`model.go:312`, `476`). The next tick repairs it.
* The comment in `clamp` says that the window moves as little as the cursor needs
  (`model.go:349`); the code scrolls until the cursor is on the last line (351-353).

## 5. Proofs

All proofs hold for every value of the constants, under the ASSUMEs of the modules: a
positive number of slots and a finite set of sessions; positive tail and flush sizes;
positive bounds of daemons, probes, commands and faults; modes that are the three of the
configuration, and agents and a user with names; legal names that are texts (names.go
refuses the empty one, which the proofs do not need); commands that have the flags and
the files of their type, a batch limit that is positive, and a database to start from
that is `Consistent`, which is what the store leaves behind; a reply text that is not
empty.

The proofs of a module share one shape: an inductive invariant `IInv` that is made of
what is true of the shared state and, for each actor, of what its place in the code says
of that state; one lemma per action, in its own words; and for the steps of *other*
actors one lemma that says what they cannot undo (an append-only thread, a database that
only grows, a lock that is held).

**`AgentSessions_proofs`.** None of the safety properties is inductive. `IInv` adds to
the types:

* `LocalInv`: for each session, what its place in the code says of its row, its entries
  in `m.queued` and `m.running`, and its agent's process;
* `RequestInv`: what a cancel or a shutdown under way has seen and may still rely on, in
  particular that a shutdown in its sweep has closed the manager and canceled `m.ctx`;
* `ReturnedInv`: when a barrier has returned, no goroutine is left to wait for;
* `CountInv`: `sem` and `wg` are the cardinalities of the sets of goroutines that still
  owe a release or a `Done`. This is what turns `wg = 0` into a statement about every
  session, and needs lemmas on how one goroutine's step changes a cardinality
  (`CountMove`, `MoveCounts`).

`CountStep`, `TypeStep`, `LocalStep` and `RequestStep` go through the actions one by one;
from `Invariance` follow `TypeCorrect`, `SlotsAreBounded`, `LiveStaysCancelable`,
`NoRowIsStuck`, `UnstartedNeverRan` and `ShutdownIsBarrier`, and, as action properties,
`FinalStaysFinal`. `CanceledRunStaysSilent`
(`CanceledRunIsSilent`) is of the form "once this, never that": it rests on a predicate of
its own, `Silent`, which a run enters when it is canceled before its reply is due (before
`postReply` reads the context for the last time) and never leaves (`SilentStep`). That
needs of `IInv` only that a goroutine that is done has left a row, so that no Start begins
the session again. `ClosedStartsNothing` (`ClosedStartsNoMore`) has the same form, with
`Late`: the session has a row and is not started, and its goroutine is gone, or the manager
is closed and the goroutine has not entered `m.running`.

**`SessionLifecycle_proofs`.** `ManagerImplementsLifecycle`: under the mapping of
`AgentSessionsProps`, each step of the manager is a step of `SessionLifecycle` or
stutters. The one step that needs the invariant in earnest is the spawn: a slot is free
in the abstract system because the concrete goroutine holds one (`FreeSlot`).

**`ReplyResolution_proofs`.** `IInv` is `Types`, `MessageInv` (what a message says of the
run it comes from: its thread, a seq after that run's trigger, the agent's name or, by the
prompt's command, the user's) and `SessionInv` for each session: where it stands says
whether it has counted a message of its agent (`Credited`), posted its output or linked
it (`OwnOutput`), and what the agent had posted when it exited. Threads only grow
(`Grown`), so that what a session has counted stays counted. `CreditIsOwn` is proved
with the property's own premise, that `$USER` is not an agent's name, and names the
messages that are claimed in the agent's name (`Claims`); finding 3 is what
happens to runs that this leaves uncredited.

**`RunTranscript_proofs`.** `TranscriptStaysInOrder`: rows, the flusher's payload and
the buffer, in this order, are what the runner has emitted. Taking the buffer is sound
because `flushMu` is free, storing because its holder's payload is the oldest part; the
invariant (`Inv`) ties each holder to its place in the code. `TranscriptEndsComplete`
adds to it (`Whole`):

* `Sent`: what has been emitted and what the limiter still keeps, as functions of the
  number of pieces read: while the stream is open, the head has been emitted and the tail
  is the last of the rest; once it is sealed, all is out;
* `Stands`: where a drain, the loop and the session's goroutine stand says which streams
  are sealed and whether the loop can still flush;
* `Holder` and `Flushed`: who may hold a flush lock while `closeAll` goes through the
  streams, and that a stream `closeAll` has passed has nothing in its buffer.

The pieces are numbers, so that these are facts about runs of numbers (`PiecesJoin`,
`PiecesPart`) and about ends of sequences (`LastOfEnds`).

**`ThreadStore_proofs`.** No theorem, only the lemmas the two modules after it need. Of a
call: it leaves a `Consistent` database consistent, adds one row and changes none
(`AppendMessageAdds`, `AddReactionAdds`, `CreateChannelAdds`, ..., with `Extends` for the
sequence of them), where the seq of a new message is one more than the number of messages
its thread has (`LastSeqIsCount`, `CountNext`). Of a query: `Ordered`, which picks the
element with k-1 before it, lists a finite set, each element once and in order
(`OrderedLists`); hence what a list query returns (`ListsAreOfRows`, `ReactionsAreOfRows`,
`NewestFirstLists`), and that the order by seq is that by id within a thread
(`SeqOrderIsIdOrder`), and that a read after a seq is the rest of the thread
(`ReadAfterIsAPage` and, for a seq that is not a message's, `ReadFromIsAPage`, by
`FollowingLists`).

**`ThreadService_proofs`.** For any number of clients and commands, any files, and any
number of faults. `IInv` is

* `Global`: the committed database is consistent; the one of the open transaction is so,
  too, and extends it by just as many rows as the batch has results; nothing is started
  twice; no row is written by two clients;
* for each client `Own`: `Serves` (a handler, also one whose client is gone, works on the
  request its client is at, and its answer is made of rows that are there), `Acts` and
  `Acted` (which rows are its request's, who may have written them, and which of them have
  been started, are still to be, or are `lost` to a failing store), and `Told` (all of the request is written or nothing,
  by what it is told).

That a batch adds as many rows as it has events, and that they are nobody else's, is what
`OutcomesAreTold` needs of it. The steps are one lemma per action; what a client knows
survives the steps of others because the database only grows.

Three properties speak of what is *in* the rows, and of what a client has put together from
several answers. They need a second invariant, `Kept`, proved on top of the first
(`KeptInvariance`):

* for each client `Mine`: `Fetched` (an answer is the rest of the thread after the cursor,
  or its last messages, as they are in the database *now*), `Collected` (the messages a
  dump has so far are consecutive, and before it asks for the reactions it knows the parent
  of each), `Follows` (what was read is the thread from its first message on) and `Imports`
  (an import that has been answered has left its rows);
* `TxKept`, for a batch in its transaction: `map` is what `buildSourceSequenceMap` makes of
  the seqs of the source and the thread's next seq *when the batch began*; the thread has
  grown by exactly the messages the batch has had so far; and each event so far is `Copied`,
  a message to the row the map says and with the parent it says (`Target`), a reaction to a
  row of its own;
* `Resolved`: the last dump, once written, still says what the database says.

The map is made before the first message is appended, and is right only because nobody
else's append can come in between and because each message gets the next seq: that is the
second and third part of `InBatch`, which `BatchEventKept` carries from one event to the
next, and `CommitBatchKept` turns into `Imports`. From `Kept` follow `CursorsReadAll`,
`DumpsResolveParents` and `ImportsKeepReferences`.

**`TuiModel_proofs`.** For any heights, lists, numbers of requests and orders of answers.
`IInv` is `Screen` (`Window`: the cursor is on a row and in the window, which is as full as
can be; every row once; `Pane`), `Net` (what a message on its way brings, and that exactly
one is the tick) and a consistent database. `PaneIsTheSelection` is not inductive: `Pane`
says which thread is loaded, and that its messages are in the pane *or asked for*, and
that while none is loaded the pane is empty or no row is selected.

**`DaemonLifecycle_proofs`.** For any number of commands, daemons, probes and faults.
`IInv` adds to the types:

* `CommandInv`: for each command, what its place in `EnsureDaemonContext`, `daemonStart`
  or `daemonStop` says of the lock and of the pid it holds: what it read in `daemon.json`
  has been published, what it has killed or seen gone is dead, and the daemon that could
  be found when it took the lock is the one its probe will ask or cannot be found now;
* `ProcessInv`: for each daemon, how its session, its row and its end go together, when
  another daemon may have closed the row;
* `FileInv` and `GoneInv`.

The steps of others are dealt with once (`OtherCommand`): they undo nothing a command
knows because a daemon only moves on (`ProcessFrame`) and `daemon.json` is emptied or names
one that had not been published (`FileFrame`). From `Invariance` follow `TypeCorrect`,
`SpawnStaysRechecked`, `ToldStaysTrue` and `NoRowIsOrphaned`, and, as an action property,
`RowsStayClosed`.

*Only model-checked:* liveness (`CanceledRunEndsCanceled`, `QueuedIsFinished`,
`ShutdownReturns`, `RunEnds`, `CommandsReturn`, `FeedCatchesUp`), which is out of TLAPS's
reach. Every invariant and every other action or temporal property of a passing run is a
theorem.

## 6. Not modelled

TUI rendering, the grammars of mentions and names, the agent configuration, repository
inspection and scripts: pure functions or one-shot code without interleavings. The
migrations, of which only the failure is a step of a daemon's start. `flf init`,
`flf agent list`, `flf agent session ...` and `daemon status`: one request or none, that
only reads, or the cancel that `AgentSessions` has. A response cut off in its middle.
Errors of the store other than its constraints, outside `AgentSessions` and the start of
sessions in `ThreadService`. Reuse of process
ids and ports by the operating system.

## 7. Plan

Done, in this order: the session manager (the daemon's core, and where most of its
concurrency is), its abstract specification and proofs; reply resolution; the stream
writer and its proofs; the store, the routes and the commands over it; the life of
daemons and its proofs; the terminal interface; the proofs of reply resolution, of complete
transcripts, of the store and the commands, of cursors, dumps and imports, and of the
interface.

Next:

* Store errors in `RunTranscript`, and sessions of several daemons in `AgentSessions`.

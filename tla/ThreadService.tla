---------------------------- MODULE ThreadService ----------------------------
(* Clients of the daemon and its handlers over one database: the commands   *)
(* of cmd/flf/main.go for channels, threads, messages and reactions, each   *)
(* a series of requests, and the routes of internal/apiserver/server.go.    *)
(*                                                                          *)
(* A command is a process of its own and may be run by several clients at   *)
(* once.  A request is served by one goroutine, whose calls of the store    *)
(* share the one connection of the pool; a batch holds it from BEGIN to     *)
(* COMMIT, event by event.  The daemon may die at any point, and a client   *)
(* may give up on an answer (its timeout) while the handler goes on.        *)
(*                                                                          *)
(* Abstracted: flags, formatting, the envelope of errors, EnsureDaemon      *)
(* (DaemonLifecycle), and what Start does (AgentSessions).                  *)
EXTENDS ThreadStore

CONSTANTS
    Client,
    Nobody,             \* holds no transaction
    Commands,           \* the commands, with their flags and files
    MentionBody,        \* contents that begin with an @name
    BlankBody,          \* of white space that is not spaces, which trim() of SQLite keeps
    InitialDB,          \* a database of an earlier run
    MaxBatchEvents,     \* maxBatchEvents of the server
    MaxCommands,        \* bound: commands begun in all
    MaxFaults           \* bound: crashes of the daemon, answers a client gives up on, and
                        \* sessions that a failing store keeps from being started

\* A line of JSON, with None or 0 for an absent field, and unknown for any
\* other type.
LineType == {None, "message", "reaction", "unknown"}
Line == [type : LineType, seq : Nat, ref : Nat, name : STRING,
         author : {None} \cup AuthorType, body : STRING, at : Nat]

\* by tells how a message or a reaction names its message: by a seq or by an id.
Command == [op : {"listChannels", "newChannel", "listThreads", "newThread", "export", "read",
                  "append", "import", "send", "react", "inbox"},
            agent : BOOLEAN, all : BOOLEAN, channel : STRING, repo : Repo, title : STRING,
            thread : Nat, as : STRING, by : {None, "seq", "id"}, ref : Nat, body : STRING,
            json : BOOLEAN, last : Nat, after : Nat, lines : Seq(Line)]

ASSUME ServiceAssumption == Nobody \notin Client /\ MaxBatchEvents \in Nat \ {0}
ASSUME CommandAssumption == Commands # {} /\ Commands \subseteq Command
ASSUME InitialAssumption == Consistent(InitialDB)

VARIABLES
    db,         \* the database, as committed
    tx,         \* the batch transaction that holds the connection
    h,          \* per client, the handler of its request
    cl,         \* per client, its command and how far it is
    up,         \* the daemon is up
    started,    \* messages whose sessions were started, in order
    lost,       \* messages of which a failing store kept a session from being started
    wrote,      \* per client, the rows its last request committed
    seen,       \* per client, the thread it follows by `agent read --after-seq`, and
                \* the messages this gave it
    exported,   \* what `thread export` or `agent read --json` wrote last
    begun, faults

vars == <<db, tx, h, cl, up, started, lost, wrote, seen, exported, begun, faults>>

NoTx == [owner |-> Nobody, db |-> EmptyDB, map |-> <<>>, results |-> <<>>]
NoHandler == [phase |-> "none", reply |-> [code |-> None, out |-> <<>>], pending |-> {}]
\* code is None while the command runs, and its outcome afterwards
Idle(cmd) == [cmd |-> cmd, step |-> None, code |-> "NONE", waiting |-> FALSE,
              chan |-> 0, thread |-> 0, lines |-> <<>>, msgs |-> <<>>, known |-> <<>>]

Init ==
    /\ db = InitialDB
    /\ tx = NoTx
    /\ h = [c \in Client |-> NoHandler]
    /\ cl \in [Client -> {Idle(CHOOSE k \in Commands : TRUE)}]
    /\ up = TRUE
    /\ started = <<>> /\ lost = {}
    /\ wrote = [c \in Client |-> {}]
    /\ seen = [c \in Client |-> [thread |-> 0, ids |-> <<>>]]
    /\ exported = [thread |-> 0, whole |-> TRUE, lines |-> <<>>]
    /\ begun = 0
    /\ faults = 0

\* What a client has of the thread it reads, of which it follows one at a time,
\* and the last seq of that: what --after-seq gets, 0 if it is not given.
Had(c) == IF seen[c].thread = cl[c].thread THEN seen[c].ids ELSE <<>>
Cursor(c) == IF Had(c) = <<>> THEN 0 ELSE db.messages[Last(Had(c))].seq

----------------------------------------------------------------------------
(* JSON lines [type, seq, ref, name, author, body, at]; None is an absent   *)
(* field, body a message's content or a reaction's emoji.                   *)

ParseLine(l) ==
    [l EXCEPT !.type = IF @ = None THEN "message" ELSE @,
              !.author = IF @ = None THEN "human" ELSE @]

LineOK(l) ==
    /\ l.type \in {None, "message", "reaction"} /\ l.body # None /\ l.name # None
    /\ l.type = "reaction" => l.ref > 0 /\ l.body \notin BlankBody

ParseLines(lines) == [i \in DOMAIN lines |-> ParseLine(lines[i])]

----------------------------------------------------------------------------
(* The handlers.  k is the client's record: its command and what it has     *)
(* learned so far make the request.                                         *)

Orphaned(k) == k.cmd.repo = NoRepo
Import(k) == k.cmd.op = "import"
\* `agent read` without --json and without --last
Following(k) == k.cmd.op = "read" /\ k.cmd.last = 0
\* No part of the thread is asked for.
Whole(k) == k.cmd.last = 0 /\ k.cmd.after = 0
LiveAuthorType(k) == IF k.cmd.agent THEN "agent" ELSE "human"

Http(r, notFound, conflict) ==
    [r EXCEPT !.code = CASE @ = "NotFound" -> notFound
                         [] @ = "Conflict" -> conflict
                         [] @ = "Invalid"  -> "BAD_JSONL"
                         [] OTHER          -> @]

MutationError(r) == Http(r, "THREAD_NOT_FOUND", "BAD_JSONL")

GetChannels(d, k) ==
    Done(d, CASE k.cmd.op = "listChannels" -> ListChannels(d, k.cmd.repo, k.cmd.all)
              [] k.cmd.op = "newChannel"   -> ListChannels(d, NoRepo, TRUE)
              [] OTHER                     -> ListChannels(d, k.cmd.repo, Orphaned(k)))

PostChannel(d, k) ==
    IF k.cmd.agent THEN Fail(d, "AGENT_FORBIDDEN")
    ELSE Http(CreateChannel(d, k.cmd.channel, k.cmd.repo, Orphaned(k)), None, "CHANNEL_EXISTS")

GetThreads(d, k) == Done(d, ListThreads(d, k.chan))

PostThread(d, k) ==
    IF k.cmd.agent THEN Fail(d, "AGENT_FORBIDDEN")
    ELSE Http(CreateThread(d, k.chan, k.cmd.title), "CHANNEL_NOT_FOUND", None)

GetMessages(d, k, cursor) ==
    Done(d, CASE k.step = "all"                   -> ListMessages(d, k.thread)
              [] k.step # "all" /\ Following(k)   -> ListMessagesAfter(d, k.thread, cursor)
              [] OTHER -> IF k.cmd.after > 0 THEN ListMessagesAfter(d, k.thread, k.cmd.after)
                          ELSE IF k.cmd.last > 0 THEN ListMessagesLastN(d, k.thread, k.cmd.last)
                          ELSE ListMessages(d, k.thread))

GetReactions(d, k) == Done(d, ListReactions(d, k.thread))

PostMessage(d, k) ==
    LET a == LiveAuthorType(k)
    IN  MutationError(
            CASE k.cmd.by = "seq" ->
                     AppendMessageByParentSeq(d, k.thread, k.cmd.as, a, k.cmd.body, 0, k.cmd.ref)
              [] k.cmd.by = "id" ->
                     AppendMessage(d, k.thread, k.cmd.as, a, k.cmd.body, 0, k.cmd.ref)
              [] OTHER -> AppendMessage(d, k.thread, k.cmd.as, a, k.cmd.body, 0, 0))

PostReactionBySeq(d, k) ==
    MutationError(AddReactionBySeq(d, k.thread, k.cmd.ref, k.cmd.body, k.cmd.as,
                                   LiveAuthorType(k), 0))

PostReactionByID(d, k) ==
    IF k.cmd.body \in BlankBody THEN Fail(d, "BAD_JSONL")
    ELSE Http(AddReaction(d, k.cmd.ref, k.cmd.body, k.cmd.as, LiveAuthorType(k), 0),
              "MESSAGE_NOT_FOUND", "BAD_JSONL")

GetRows(d) == Done(d, ListRows(d, "message", 100))

\* A live event has the author type of the request and no source seq.
ToEvent(k, l) ==
    [l EXCEPT !.author = IF Import(k) /\ ~k.cmd.agent THEN @ ELSE LiveAuthorType(k),
              !.seq = IF Import(k) THEN @ ELSE 0]

ToEvents(k) == [i \in DOMAIN k.lines |-> ToEvent(k, k.lines[i])]

\* A single transaction, of every route but /events.
Handle(d, k, cursor) ==
    CASE k.step = "channels"          -> GetChannels(d, k)
      [] k.step = "newChannel"        -> PostChannel(d, k)
      [] k.step = "threads"           -> GetThreads(d, k)
      [] k.step = "newThread"         -> PostThread(d, k)
      [] k.step \in {"messages", "all"} -> GetMessages(d, k, cursor)
      [] k.step = "reactions"         -> GetReactions(d, k)
      [] k.step = "rows"              -> GetRows(d)
      [] k.step = "message"           -> PostMessage(d, k)
      [] k.step = "reaction" /\ k.cmd.by = "seq" -> PostReactionBySeq(d, k)
      [] k.step = "reaction" /\ k.cmd.by # "seq" -> PostReactionByID(d, k)

\* A slip in Triggers: imported history starts sessions too.
TriggersOfImports(d, k, from) ==
    {i \in DOMAIN d.messages : /\ ~k.cmd.agent /\ i > from
                               /\ d.messages[i].body \in MentionBody
                               /\ d.messages[i].author # "agent"}

\* The messages after id from that a handler starts sessions for: none of a
\* request that is an agent's or an import.
Triggers(d, k, from) ==
    {i \in DOMAIN d.messages : /\ ~k.cmd.agent /\ ~Import(k) /\ i > from
                               /\ d.messages[i].body \in MentionBody
                               /\ d.messages[i].author # "agent"}

NewRows(d1, d2) == UNION {{<<t, i>> : i \in DOMAIN d2[t] \ DOMAIN d1[t]} : t \in Table}

Answer(c, code, out) ==
    h' = [h EXCEPT ![c] = [NoHandler EXCEPT !.phase = "answered",
                                            !.reply = [code |-> code, out |-> out]]]

\* A slip in Committed: the sessions are left for after the answer.
CommittedAnswersFirst(c, d, out) ==
    /\ db' = d
    /\ wrote' = [wrote EXCEPT ![c] = @ \cup NewRows(db, d)]
    /\ Answer(c, "OK", out)

\* After a commit: the sessions first, then the answer.
Committed(c, d, out) ==
    LET todo == Triggers(d, cl[c], Len(db.messages))
    IN  /\ db' = d
        /\ wrote' = [wrote EXCEPT ![c] = @ \cup NewRows(db, d)]
        /\ h' = [h EXCEPT ![c] = [phase |-> IF todo = {} THEN "answered" ELSE "starting",
                                  reply |-> [code |-> "OK", out |-> out], pending |-> todo]]

Serve(c) ==
    /\ h[c].phase = "sent" /\ tx.owner = Nobody
    /\ cl[c].step # "events"
    /\ LET r == Handle(db, cl[c], Cursor(c))
       IN  IF r.code = "OK" THEN Committed(c, r.db, r.out)
           ELSE Answer(c, r.code, <<>>) /\ UNCHANGED <<db, wrote>>
    /\ UNCHANGED <<tx, cl, up, started, lost, seen, exported, begun, faults>>

\* appendThreadEvents up to AppendBatch's loop
BeginBatch(c) ==
    /\ h[c].phase = "sent" /\ tx.owner = Nobody
    /\ cl[c].step = "events"
    /\ LET events == ToEvents(cl[c])
       IN  IF /\ Len(events) \in 1 .. MaxBatchEvents
              /\ \A i \in DOMAIN events : ValidAppendEvent(events[i])
              /\ SortedSourceSeqs(events)
           THEN /\ tx' = [owner |-> c, db |-> db, results |-> <<>>,
                          map |-> SourceSequenceMap(events, NextMessageSeq(db, cl[c].thread))]
                /\ h' = [h EXCEPT ![c].phase = "tx"]
           ELSE Answer(c, "BAD_JSONL", <<>>) /\ UNCHANGED tx
    /\ UNCHANGED <<db, cl, up, started, lost, wrote, seen, exported, begun, faults>>

\* A slip in BatchEvent: a failed event ends the loop but not the transaction.
BatchEventKeepsPrefix(c) ==
    /\ tx.owner = c /\ Len(tx.results) < Len(cl[c].lines)
    /\ LET e == ToEvents(cl[c])[Len(tx.results) + 1]
           r == AppendEvent(tx.db, cl[c].thread, tx.map, e)
       IN  IF r.code = "OK"
           THEN /\ tx' = [tx EXCEPT !.db = r.db, !.results = Append(@, AppendResult(e, r.out[1]))]
                /\ UNCHANGED <<h, db, wrote>>
           ELSE /\ tx' = NoTx /\ Answer(c, MutationError(r).code, <<>>)
                /\ db' = tx.db
                /\ wrote' = [wrote EXCEPT ![c] = @ \cup NewRows(db, tx.db)]
    /\ UNCHANGED <<cl, up, started, lost, seen, exported, begun, faults>>

\* One event; a failure rolls the whole batch back.
BatchEvent(c) ==
    /\ tx.owner = c /\ Len(tx.results) < Len(cl[c].lines)
    /\ LET e == ToEvents(cl[c])[Len(tx.results) + 1]
           r == AppendEvent(tx.db, cl[c].thread, tx.map, e)
       IN  IF r.code = "OK"
           THEN /\ tx' = [tx EXCEPT !.db = r.db, !.results = Append(@, AppendResult(e, r.out[1]))]
                /\ UNCHANGED h
           ELSE tx' = NoTx /\ Answer(c, MutationError(r).code, <<>>)
    /\ UNCHANGED <<db, cl, up, started, lost, wrote, seen, exported, begun, faults>>

CommitBatch(c) ==
    /\ tx.owner = c /\ Len(tx.results) = Len(cl[c].lines)
    /\ Committed(c, tx.db, tx.results)
    /\ tx' = NoTx
    /\ UNCHANGED <<cl, up, started, lost, seen, exported, begun, faults>>

\* One call of Start, in the order of the messages, before the answer.  When
\* the lookup of the message fails, or what Start reads or writes itself, there
\* is no session; nobody is told, and the answer is OK all the same.
StartSession(c) ==
    /\ h[c].phase = "starting"
    /\ \E i \in h[c].pending :
          /\ \A j \in h[c].pending : i <= j
          /\ \/ started' = Append(started, i) /\ UNCHANGED <<lost, faults>>
             \/ /\ faults < MaxFaults /\ faults' = faults + 1
                /\ lost' = lost \cup {i} /\ UNCHANGED started
          /\ h' = [h EXCEPT ![c].pending = @ \ {i},
                            ![c].phase = IF h[c].pending = {i} THEN "answered" ELSE @]
    /\ UNCHANGED <<db, tx, cl, up, wrote, seen, exported, begun>>

\* A slip in Abandon: the batch is not rolled back when its handler returns.
AbandonHoldsTx(c) ==
    /\ ~cl[c].waiting /\ h[c].phase # "none"
    /\ h' = [h EXCEPT ![c] = NoHandler]
    /\ UNCHANGED <<db, tx, cl, up, started, lost, wrote, seen, exported, begun, faults>>

\* The client is gone and its request's context with it: what the handler has
\* not committed it rolls back, and the lookup before a Start fails.
Abandon(c) ==
    /\ ~cl[c].waiting /\ h[c].phase # "none"
    /\ h' = [h EXCEPT ![c] = NoHandler]
    /\ tx' = IF tx.owner = c THEN NoTx ELSE tx
    /\ UNCHANGED <<db, cl, up, started, lost, wrote, seen, exported, begun, faults>>

Crash ==
    /\ up /\ faults < MaxFaults
    /\ up' = FALSE
    /\ faults' = faults + 1
    /\ h' = [c \in Client |-> NoHandler]
    /\ tx' = NoTx
    /\ UNCHANGED <<db, cl, started, lost, wrote, seen, exported, begun>>

Restart ==
    /\ ~up
    /\ up' = TRUE
    /\ UNCHANGED <<db, tx, h, cl, started, lost, wrote, seen, exported, begun, faults>>

----------------------------------------------------------------------------
(* The commands *)

\* Of a command: whether its arguments will do, and its first request.
Plan(ok, first) == [ok |-> ok, first |-> first]

ChannelListCmd(cmd) == Plan(TRUE, "channels")
ChannelCreateCmd(cmd) == Plan(cmd.channel # None, "newChannel")
ThreadListCmd(cmd) == Plan(cmd.channel # None, "channels")
ThreadNewCmd(cmd) == Plan(cmd.channel # None /\ cmd.title # None, "channels")
\* `thread export`, and `agent read --json` with its flags
ThreadExportCmd(cmd) == Plan(cmd.thread # 0, "messages")
AgentReadCmd(cmd) == Plan(cmd.thread # 0, "messages")
AgentAppendCmd(cmd) == Plan(cmd.thread # 0, "events")
ThreadImportCmd(cmd) ==
    Plan((cmd.thread = 0) = (cmd.channel # None), IF cmd.thread > 0 THEN "events" ELSE "channels")
\* `--reply-to 0` replies to nothing.
MessageSendCmd(cmd) == Plan(cmd.thread # 0 /\ cmd.body # None /\ (cmd.by = "seq" => cmd.ref > 0), "message")
ReactAddCmd(cmd) == Plan(cmd.body # None /\ cmd.ref > 0 /\ (cmd.by = "seq" => cmd.thread # 0), "reaction")
InboxCmd(cmd) == Plan(TRUE, "rows")

PlanOf(cmd) ==
    CASE cmd.op = "listChannels" -> ChannelListCmd(cmd)
      [] cmd.op = "newChannel"   -> ChannelCreateCmd(cmd)
      [] cmd.op = "listThreads"  -> ThreadListCmd(cmd)
      [] cmd.op = "newThread"    -> ThreadNewCmd(cmd)
      [] cmd.op = "export"       -> ThreadExportCmd(cmd)
      [] cmd.op = "read"         -> AgentReadCmd(cmd)
      [] cmd.op = "append"       -> AgentAppendCmd(cmd)
      [] cmd.op = "import"       -> ThreadImportCmd(cmd)
      [] cmd.op = "send"         -> MessageSendCmd(cmd)
      [] cmd.op = "react"        -> ReactAddCmd(cmd)
      [] cmd.op = "inbox"        -> InboxCmd(cmd)

\* A file is parsed whole before the first request; the file of an import may
\* be the last export.
File(cmd) == IF cmd.op = "import" /\ cmd.lines = <<>> THEN exported.lines ELSE cmd.lines

\* The client has no command, and no handler is left of its last one.
Free(c) == cl[c].code # None /\ h[c].phase = "none" /\ begun < MaxCommands

Begin(c, cmd) ==
    /\ cmd.op = "import" /\ cmd.lines = <<>> => exported.thread # 0
    /\ cl' = [cl EXCEPT ![c] =
                [Idle(cmd) EXCEPT
                    !.step = PlanOf(cmd).first, !.thread = cmd.thread,
                    !.lines = ParseLines(File(cmd)),
                    !.code = IF ~PlanOf(cmd).ok THEN "BAD_ARGS"
                             ELSE IF \E i \in DOMAIN File(cmd) : ~LineOK(File(cmd)[i])
                             THEN "BAD_JSONL" ELSE None]]
    /\ wrote' = [wrote EXCEPT ![c] = {}]
    /\ begun' = begun + 1
    /\ UNCHANGED <<db, tx, h, up, started, lost, seen, exported, faults>>

End(c, code) == [cl EXCEPT ![c].code = code, ![c].waiting = FALSE]

\* The next request; without a daemon, the dial fails.
Call(c) ==
    /\ cl[c].code = None /\ ~cl[c].waiting
    /\ IF up THEN /\ cl' = [cl EXCEPT ![c].waiting = TRUE]
                  /\ h' = [h EXCEPT ![c].phase = "sent"]
             ELSE cl' = End(c, "DAEMON_DOWN") /\ UNCHANGED h
    /\ wrote' = [wrote EXCEPT ![c] = {}]
    /\ UNCHANGED <<db, tx, up, started, lost, seen, exported, begun, faults>>

PostStep == {"newChannel", "newThread", "events", "message", "reaction"}

\* No answer; one cut off in its middle, which makes DAEMON_ERROR of a read,
\* is left out.
LostCode(step) == IF step \in PostStep THEN "DELIVERY_UNKNOWN" ELSE "DAEMON_DOWN"

Lose(c) ==
    /\ cl[c].waiting
    /\ up => faults < MaxFaults
    /\ faults' = IF up THEN faults + 1 ELSE faults
    /\ cl' = End(c, LostCode(cl[c].step))
    /\ UNCHANGED <<db, tx, h, up, started, lost, wrote, seen, exported, begun>>

ChannelNamed(list, k) ==
    {i \in DOMAIN list : list[i].name = k.cmd.channel /\ (list[i].repo = NoRepo) = Orphaned(k)}

\* With the list of channels: newThread and listThreads need it there, import
\* creates it, and a creation looks for its row, to print it.
AfterChannels(k, list) ==
    LET found == ChannelNamed(list, k)
    IN  IF k.cmd.op \in {"listChannels", "newChannel"} THEN [k EXCEPT !.code = "OK"]
        ELSE IF found # {}
             THEN [k EXCEPT !.chan = list[CHOOSE i \in found : \A j \in found : i <= j].id,
                            !.step = IF k.cmd.op = "listThreads" THEN "threads" ELSE "newThread"]
        ELSE IF Import(k) THEN [k EXCEPT !.step = "newChannel"]
        ELSE [k EXCEPT !.code = "CHANNEL_NOT_FOUND"]

AfterNewChannel(k, row) ==
    IF Import(k) THEN [k EXCEPT !.chan = row.id, !.step = "newThread"]
    ELSE IF k.cmd.json THEN [k EXCEPT !.step = "channels"]
    ELSE [k EXCEPT !.code = "OK"]

AfterNewThread(k, row) ==
    IF Import(k) THEN [k EXCEPT !.thread = row.id, !.step = "events"]
                 ELSE [k EXCEPT !.code = "OK"]

\* `agent read` is over; a dump asks for all messages if it has only some of
\* them, to know the seqs of parents, and then for the reactions.
AfterMessages(k, rows) ==
    IF k.cmd.op = "read" THEN [k EXCEPT !.code = "OK"]
    ELSE [k EXCEPT !.msgs = rows, !.known = rows,
                   !.step = IF Whole(k) THEN "reactions" ELSE "all"]

AfterAll(k, rows) == [k EXCEPT !.known = @ \o rows, !.step = "reactions"]

ValidChannels(list) == \A i \in DOMAIN list : list[i].id > 0
ValidThreads(list) == \A i \in DOMAIN list : list[i].id > 0 /\ list[i].channel > 0

ValidMessages(list) ==
    \A i \in DOMAIN list :
        /\ list[i].id > 0 /\ list[i].thread > 0 /\ list[i].seq > 0
        /\ list[i].body \notin BlankBody /\ list[i].author \in {"human", "agent"}

ValidReactions(list) ==
    \A i \in DOMAIN list :
        list[i].message_seq > 0 /\ list[i].reaction.emoji \notin BlankBody

\* A row has a name and a content just if it counts messages.
ValidRows(list) ==
    \A i \in DOMAIN list :
        list[i].id > 0 /\ (list[i].count = 0) = (list[i].body \in BlankBody \cup {None})

ValidBatchResults(lines, results) ==
    /\ Len(results) = Len(lines)
    /\ \A i \in DOMAIN results :
        /\ results[i].message > 0
        /\ IF lines[i].type = "reaction" THEN results[i].reaction > 0 ELSE results[i].seq > 0

\* What a creation is acknowledged with.
ValidCreatedID(row) == row.id > 0
ValidAssignedSeq(row) == row.seq > 0
ValidReactionAck(out) == out # <<>>

\* The check a command makes of what it is answered.
Valid(k, out) ==
    CASE k.step = "channels"           -> ValidChannels(out)
      [] k.step = "threads"            -> ValidThreads(out)
      [] k.step \in {"messages", "all"} -> ValidMessages(out)
      [] k.step = "reactions"          -> ValidReactions(out)
      [] k.step = "rows"               -> ValidRows(out)
      [] k.step = "events"             -> ValidBatchResults(k.lines, out)
      [] k.step = "message"            -> ValidAssignedSeq(out[1])
      [] k.step = "reaction"           -> ValidReactionAck(out)
      [] OTHER                         -> ValidCreatedID(out[1])

\* The client after the answer of the request it is at.
Advance(k, out) ==
    CASE k.step = "channels"   -> AfterChannels(k, out)
      [] k.step = "newChannel" -> AfterNewChannel(k, out[1])
      [] k.step = "newThread"  -> AfterNewThread(k, out[1])
      [] k.step = "messages"   -> AfterMessages(k, out)
      [] k.step = "all"        -> AfterAll(k, out)
      [] OTHER                 -> [k EXCEPT !.code = "OK"]

\* A slip in SeqByID: only the dumped messages are looked at.
SeqByIDDumped(k, id) ==
    IF \E i \in DOMAIN k.msgs : k.msgs[i].id = id
    THEN k.msgs[CHOOSE i \in DOMAIN k.msgs : k.msgs[i].id = id].seq ELSE 0

\* 0 for no parent
SeqByID(k, id) ==
    IF \E i \in DOMAIN k.known : k.known[i].id = id
    THEN k.known[CHOOSE i \in DOMAIN k.known : k.known[i].id = id].seq ELSE 0

\* The messages as of one request, the reactions as of a later one.
Dump(k, reactions) ==
    [i \in DOMAIN k.msgs |->
        LET m == k.msgs[i]
        IN  [type |-> "message", seq |-> m.seq, ref |-> SeqByID(k, m.parent),
             name |-> m.name, author |-> m.author, body |-> m.body, at |-> m.at]]
    \o [i \in DOMAIN reactions |->
        LET r == reactions[i].reaction
        IN  [type |-> "reaction", seq |-> 0, ref |-> reactions[i].message_seq,
             name |-> r.name, author |-> r.author, body |-> r.emoji, at |-> r.at]]

Deliver(c) ==
    LET k == cl[c]  a == h[c].reply
        ok == a.code = "OK" /\ Valid(k, a.out)
        k2 == IF ok THEN Advance(k, a.out)
              ELSE [k EXCEPT !.code = IF a.code # "OK" THEN a.code
                                      ELSE IF k.step \in PostStep THEN "DELIVERY_UNKNOWN"
                                      ELSE "DAEMON_ERROR"]
    IN  /\ k.waiting /\ h[c].phase = "answered"
        /\ cl' = [cl EXCEPT ![c] = [k2 EXCEPT !.waiting = FALSE]]
        /\ h' = [h EXCEPT ![c] = NoHandler]
        /\ seen' = IF ok /\ Following(k)
                   THEN [seen EXCEPT ![c] =
                            [thread |-> k.thread,
                             ids |-> Had(c) \o [i \in DOMAIN a.out |-> a.out[i].id]]]
                   ELSE seen
        /\ exported' = IF ok /\ k.step = "reactions"
                       THEN [thread |-> k.thread, whole |-> Whole(k), lines |-> Dump(k, a.out)]
                       ELSE exported
        /\ UNCHANGED <<db, tx, up, started, lost, wrote, begun, faults>>

Next ==
    \/ \E c \in Client :
        \/ Free(c) /\ \E cmd \in Commands : Begin(c, cmd)
        \/ Call(c) \/ Lose(c) \/ Deliver(c)
        \/ Serve(c) \/ BeginBatch(c) \/ BatchEvent(c) \/ CommitBatch(c)
        \/ StartSession(c) \/ Abandon(c)
    \/ Crash
    \/ Restart

Spec == Init /\ [][Next]_vars

----------------------------------------------------------------------------
(* Properties *)

\* The rows have their ids, every reference is to a row that exists, and the
\* transaction is held by a client whose handler is in its batch.
TypeOK ==
    /\ db \in Database /\ Keyed(db)
    /\ \A c \in Client : (tx.owner = c) = (h[c].phase = "tx")
    /\ ~up => \A c \in Client : h[c].phase = "none"

\* Every thread is a log: its messages have the seqs 1, 2, ... in the order
\* in which they were committed, and a parent is an earlier message of the
\* same thread, however appends, batches and imports to several threads
\* interleave (nextMessageSeq, appendMessage).
ThreadsAreLogs == Logs(db)

\* A channel is known by its name within its repository, or among the
\* orphaned ones, so that looking it up by name finds one: also when two
\* imports find it missing and both create it.
ChannelsAreUnique == DistinctChannels(db)

\* The rows the last request of a command writes when it succeeds.
Expected(k) == IF k.step = "events" THEN Len(k.lines)
               ELSE IF k.step \in PostStep THEN 1 ELSE 0

\* What a command reports of its last request is what became of it: OK if all
\* of it is in the database, an error if nothing is, and only
\* DELIVERY_UNKNOWN leaves open whether all or nothing is (apiPost,
\* AppendBatch). An answer of the daemon that the command's own check refuses
\* holds a content of white space that the schema has let in: it makes
\* DAEMON_ERROR of every later read of it (validateMessages).
OutcomeIsTold ==
    \A c \in Client :
        LET k == cl[c]  n == Cardinality(wrote[c])
        IN  /\ k.code = "OK" => n = Expected(k)
            /\ k.code = "DELIVERY_UNKNOWN" => n \in {0, Expected(k)}
            /\ k.code \notin {"OK", "DELIVERY_UNKNOWN", None} => n = 0
            /\ k.code = "DAEMON_ERROR" =>
                   \/ \E i \in DOMAIN db.messages : db.messages[i].body \in BlankBody
                   \/ \E i \in DOMAIN db.reactions : db.reactions[i].emoji \in BlankBody

MessageIds(c) == InIdOrder({i \in DOMAIN db.messages : <<"messages", i>> \in wrote[c]})
MessageLines(lines) == Select(lines, {i \in DOMAIN lines : lines[i].type = "message"})

\* A file that holds every message it refers to.
SelfContained(lines) ==
    \A l \in ToSet(lines) : l.ref # 0 =>
        \E m \in ToSet(MessageLines(lines)) : m.seq = l.ref

\* An import of a self-contained file keeps every reference: the new messages
\* are the file's, in order, each a reply to the copy of the message it
\* replied to, and each reaction is to the copy of its message; whatever the
\* thread held before, and whatever others append meanwhile (AppendBatch,
\* buildSourceSequenceMap).
ImportKeepsReferences ==
    \A c \in Client :
        LET k == cl[c]  ids == MessageIds(c)  ms == MessageLines(k.lines)
            Copy(seq) == IF seq = 0 THEN 0
                         ELSE ids[CHOOSE i \in DOMAIN ms : ms[i].seq = seq]
        IN  Import(k) /\ k.step = "events" /\ k.code = "OK" /\ SelfContained(k.lines) =>
            /\ Len(ids) = Len(ms)
            /\ \A i \in DOMAIN ms :
                   LET m == db.messages[ids[i]]
                   IN  /\ m.thread = k.thread /\ m.body = ms[i].body /\ m.name = ms[i].name
                       /\ m.at = ms[i].at \/ ms[i].at = 0
                       /\ m.parent = Copy(ms[i].ref)
            /\ \A l \in {x \in ToSet(k.lines) : x.type = "reaction"} :
                   \E i \in DOMAIN db.reactions :
                       /\ <<"reactions", i>> \in wrote[c]
                       /\ db.reactions[i].message = Copy(l.ref)
                       /\ db.reactions[i].emoji = l.body

\* Following a thread by --after-seq misses nothing and repeats nothing: what
\* was read so far is the thread up to the cursor, although others append
\* while it is read and answers get lost (listThreadMessages).
CursorReadsAll ==
    \A c \in Client :
        LET s == seen[c]
        IN  s.ids # <<>> =>
                s.ids = InIdOrder({i \in MessagesOf(db, s.thread) :
                                       db.messages[i].seq <= db.messages[Last(s.ids)].seq})

\* A dump names the parent of every message it holds, also one that is not in
\* it, and its messages are consecutive: up to some message of the thread, all
\* of them or as many as were asked for (dumpThreadMessages makes two or three
\* requests, between which others append).
DumpResolvesParents ==
    LET ms == MessageLines(exported.lines)
        Of(seq) == db.messages[MessageIDBySeq(db, exported.thread, seq)]
    IN  \A i \in DOMAIN ms :
            /\ ms[i].seq = ms[1].seq + i - 1
            /\ exported.whole => ms[1].seq = 1
            /\ LET m == Of(ms[i].seq)
               IN  ms[i].ref = IF m.parent = 0 THEN 0 ELSE db.messages[m.parent].seq

\* A session is started for a message at most once, and only for one that a
\* person has posted now: never for an agent's, never for imported history.
\* Nor can an agent's request write as a person, in a batch or an import.
StartsAreLiveHuman ==
    /\ \A i, j \in DOMAIN started : started[i] = started[j] => i = j
    /\ \A c \in Client, i \in DOMAIN db.messages :
           <<"messages", i>> \in wrote[c] =>
               /\ cl[c].cmd.agent => db.messages[i].author = "agent"
               /\ i \in ToSet(started) => ~cl[c].cmd.agent /\ ~Import(cl[c])

\* Who is told that his message was posted can rely on its mentions being
\* acted on, unless the store failed on the way to the session, which he is not
\* told: neither an early answer nor the end of the daemon or of the request
\* loses one under OK.  After a crash between the commit and the start he is
\* told DELIVERY_UNKNOWN (appendThreadMessage, startSessionsForBatch).
PostedMeansStarted ==
    \A c \in Client : cl[c].code = "OK" =>
        \A i \in DOMAIN db.messages :
            /\ <<"messages", i>> \in wrote[c]
            /\ db.messages[i].body \in MentionBody
            /\ db.messages[i].author = "human"
            /\ ~Import(cl[c])
            => i \in ToSet(started) \cup lost
=============================================================================

----------------------------- MODULE ThreadStore -----------------------------
(* The channels, threads, messages and reactions of the database: the       *)
(* queries of internal/db and the calls of internal/store/store.go on them. *)
(*                                                                          *)
(* A database d has a table of rows for each kind; a row's id is its index, *)
(* since ids are AUTOINCREMENT and nothing is ever deleted.  A call yields  *)
(* a result [code, db, out]: the code "OK", the database after it and what  *)
(* it returns, or an error and the database unchanged.                      *)
(*                                                                          *)
(* Abstracted: the metadata of a repository, roles, and the wording of      *)
(* names and contents.  A name stands for everything of a row that the      *)
(* names package, or a CHECK of the schema, may refuse.                     *)
EXTENDS Naturals, Sequences, FiniteSets, SequencesExt

CONSTANTS
    LegalName,      \* what names.Slug and names.Name accept
    NoRepo          \* repo_abs_path IS NULL, which is to say is_orphaned = 1

ASSUME NameAssumption == LegalName \subseteq STRING

Table == {"channels", "threads", "messages", "reactions"}
EmptyDB == [t \in Table |-> <<>>]

\* An absent text
None == ""

Repo == {NoRepo} \cup STRING
AuthorType == {"human", "agent"}
\* CHECK(length(trim(content)) > 0), and the same of an emoji
Content == STRING \ {None}

\* The rows.  parent is an id, 0 for NULL; at is 0 where created_at is "".
ChannelRow == [id : Nat, name : LegalName, repo : Repo, at : Nat]
ThreadRow == [id : Nat, channel : Nat, title : LegalName, at : Nat]
MessageRow == [id : Nat, thread : Nat, seq : Nat, parent : Nat, name : LegalName,
               author : AuthorType, body : Content, at : Nat]
ReactionRow == [id : Nat, message : Nat, emoji : Content, name : LegalName,
                author : AuthorType, at : Nat]

Database == [channels : Seq(ChannelRow), threads : Seq(ThreadRow),
             messages : Seq(MessageRow), reactions : Seq(ReactionRow)]

\* ORDER BY: the elements of S by Before, the pairs of which the first comes
\* first.
Ordered(S, Before) ==
    [k \in 1 .. Cardinality(S) |->
        CHOOSE x \in S : Cardinality({y \in S : <<y, x>> \in Before}) = k - 1]

InIdOrder(S) == Ordered(S, {p \in S \X S : p[1] < p[2]})
RowsAt(rows, ids) == [k \in DOMAIN ids |-> rows[ids[k]]]

\* SELECT, of the rows with the ids in S, ORDER BY id
Select(rows, S) == RowsAt(rows, InIdOrder(S))

Done(d, out) == [code |-> "OK", db |-> d, out |-> out]
Fail(d, code) == [code |-> code, db |-> d, out |-> <<>>]

\* strftime('now'), as a count of the rows: a later row has a later time.
Now(d) == Len(d.channels) + Len(d.threads) + Len(d.messages) + Len(d.reactions) + 1

\* An INSERT that passes its constraints.
Insert(d, table, row) == Done([d EXCEPT ![table] = Append(@, row)], <<row>>)

----------------------------------------------------------------------------
(* Channels and threads *)

\* A slip in UniqueChannel, not part of the model: without the partial index
\* on orphaned channels, NULL paths are all different.
UniqueNamePath(d, ch) ==
    ch.repo = NoRepo \/ \A i \in DOMAIN d.channels :
        ~(d.channels[i].name = ch.name /\ d.channels[i].repo = ch.repo)

\* UNIQUE(name, repo_abs_path) and uniq_orphan_channel_name
UniqueChannel(d, ch) ==
    \A i \in DOMAIN d.channels :
        ~(d.channels[i].name = ch.name /\ d.channels[i].repo = ch.repo)

InsertChannel(d, ch) ==
    IF UniqueChannel(d, ch) THEN Insert(d, "channels", ch) ELSE Fail(d, "Conflict")

CreateChannel(d, name, repo, orphaned) ==
    IF name \in LegalName /\ orphaned = (repo = NoRepo)
    THEN InsertChannel(d, [id |-> Len(d.channels) + 1, name |-> name,
                           repo |-> repo, at |-> Now(d)])
    ELSE Fail(d, "Invalid")

ListChannelsAll(d) == d.channels
ListChannelsByRepo(d, repo) ==
    Select(d.channels, {i \in DOMAIN d.channels : d.channels[i].repo = repo})
ListChannelsNonOrphaned(d) ==
    Select(d.channels, {i \in DOMAIN d.channels : d.channels[i].repo # NoRepo})
ListChannelsByRepoNonOrphaned(d, repo) ==
    Select(d.channels, {i \in DOMAIN d.channels : d.channels[i].repo \in {repo} \ {NoRepo}})

\* repo = NoRepo is the empty path: no filter
ListChannels(d, repo, includeOrphaned) ==
    CASE repo # NoRepo /\ ~includeOrphaned -> ListChannelsByRepoNonOrphaned(d, repo)
      [] repo # NoRepo /\ includeOrphaned  -> ListChannelsByRepo(d, repo)
      [] repo = NoRepo /\ ~includeOrphaned -> ListChannelsNonOrphaned(d)
      [] OTHER                             -> ListChannelsAll(d)

InsertThread(d, th) ==
    IF th.channel \in DOMAIN d.channels THEN Insert(d, "threads", th)
                                        ELSE Fail(d, "NotFound")

CreateThread(d, channel, title) ==
    IF title \in LegalName
    THEN InsertThread(d, [id |-> Len(d.threads) + 1, channel |-> channel,
                          title |-> title, at |-> Now(d)])
    ELSE Fail(d, "Invalid")

ListThreads(d, channel) ==
    Select(d.threads, {i \in DOMAIN d.threads : d.threads[i].channel = channel})

----------------------------------------------------------------------------
(* Messages *)

SeqsOf(d, t) == {m.seq : m \in {x \in ToSet(d.messages) : x.thread = t}}

\* 0 if the thread has no message
LastMessageSeq(d, t) ==
    IF SeqsOf(d, t) = {} THEN 0
    ELSE CHOOSE s \in SeqsOf(d, t) : \A x \in SeqsOf(d, t) : x <= s

\* A slip in NextMessageSeq: the number of messages of the database, not of
\* the thread.
NextMessageSeqGlobal(d, t) == Len(d.messages) + 1

NextMessageSeq(d, t) == LastMessageSeq(d, t) + 1

\* 0 is sql.ErrNoRows
MessageIDBySeq(d, t, seq) ==
    IF \E i \in DOMAIN d.messages : d.messages[i].thread = t /\ d.messages[i].seq = seq
    THEN CHOOSE i \in DOMAIN d.messages :
             d.messages[i].thread = t /\ d.messages[i].seq = seq
    ELSE 0

InsertMessage(d, m) ==
    IF MessageIDBySeq(d, m.thread, m.seq) # 0 THEN Fail(d, "Conflict")
    ELSE IF m.thread \notin DOMAIN d.threads THEN Fail(d, "NotFound")
    ELSE Insert(d, "messages", m)

InsertMessageDefaultCreatedAt(d, m) == InsertMessage(d, [m EXCEPT !.at = Now(d)])

MessageThreadID(d, id) == d.messages[id].thread

AppendMessage(d, t, name, author, body, at, parent) ==
    LET m == [id |-> Len(d.messages) + 1, thread |-> t, seq |-> NextMessageSeq(d, t),
              parent |-> parent, name |-> name, author |-> author, body |-> body, at |-> at]
    IN  IF name \notin LegalName THEN Fail(d, "Invalid")
        ELSE IF parent > 0 /\ parent \notin DOMAIN d.messages THEN Fail(d, "NotFound")
        ELSE IF parent > 0 /\ MessageThreadID(d, parent) # t THEN Fail(d, "Invalid")
        ELSE IF at # 0 THEN InsertMessage(d, m) ELSE InsertMessageDefaultCreatedAt(d, m)

AppendMessageByParentSeq(d, t, name, author, body, at, parentSeq) ==
    LET parent == IF parentSeq = 0 THEN 0 ELSE MessageIDBySeq(d, t, parentSeq)
    IN  IF parentSeq > 0 /\ parent = 0 THEN Fail(d, "NotFound")
        ELSE AppendMessage(d, t, name, author, body, at, parent)

\* The messages with the ids in S, ORDER BY seq
BySeq(d, S) ==
    RowsAt(d.messages,
           Ordered(S, {p \in S \X S : d.messages[p[1]].seq < d.messages[p[2]].seq}))

MessagesOf(d, t) == {i \in DOMAIN d.messages : d.messages[i].thread = t}

ListMessages(d, t) == BySeq(d, MessagesOf(d, t))

\* A slip in ListMessagesAfter: the cursor's own message comes again.
ListMessagesFrom(d, t, seq) == BySeq(d, {i \in MessagesOf(d, t) : d.messages[i].seq >= seq})

ListMessagesAfter(d, t, seq) == BySeq(d, {i \in MessagesOf(d, t) : d.messages[i].seq > seq})

ListMessagesLastN(d, t, n) ==
    LET all == ListMessages(d, t)
    IN  IF Len(all) <= n THEN all ELSE SubSeq(all, Len(all) - n + 1, Len(all))

----------------------------------------------------------------------------
(* Reactions *)

InsertReaction(d, r) ==
    IF r.message \notin DOMAIN d.messages THEN Fail(d, "NotFound")
    ELSE IF \E i \in DOMAIN d.reactions :
              LET x == d.reactions[i]
              IN  x.message = r.message /\ x.emoji = r.emoji /\ x.name = r.name
         THEN Fail(d, "Conflict")
    ELSE Insert(d, "reactions", r)

InsertReactionDefaultCreatedAt(d, r) == InsertReaction(d, [r EXCEPT !.at = Now(d)])

AddReaction(d, message, emoji, name, author, at) ==
    LET r == [id |-> Len(d.reactions) + 1, message |-> message, emoji |-> emoji,
              name |-> name, author |-> author, at |-> at]
    IN  IF name \notin LegalName THEN Fail(d, "Invalid")
        ELSE IF at # 0 THEN InsertReaction(d, r) ELSE InsertReactionDefaultCreatedAt(d, r)

AddReactionBySeq(d, t, seq, emoji, name, author, at) ==
    LET message == MessageIDBySeq(d, t, seq)
    IN  IF message = 0 THEN Fail(d, "NotFound")
        ELSE AddReaction(d, message, emoji, name, author, at)

ListReactions(d, t) ==
    LET S == {i \in DOMAIN d.reactions : MessageThreadID(d, d.reactions[i].message) = t}
        SeqIn(i) == d.messages[d.reactions[i].message].seq
        At(i) == d.reactions[i].at
        Before(i, j) == \/ SeqIn(i) < SeqIn(j)
                        \/ SeqIn(i) = SeqIn(j) /\ At(i) < At(j)
                        \/ SeqIn(i) = SeqIn(j) /\ At(i) = At(j) /\ i < j
        ids == Ordered(S, {p \in S \X S : Before(p[1], p[2])})
    IN  [k \in DOMAIN ids |-> [reaction |-> d.reactions[ids[k]], message_seq |-> SeqIn(ids[k])]]

----------------------------------------------------------------------------
(* A batch: events [type, seq, ref, name, author, body, at], where seq is    *)
(* the source's seq of a message, and ref its parent_seq or a reaction's     *)
(* message_seq, in the source's numbering or in the thread's.                *)

ValidAppendEvent(e) ==
    /\ e.type \in {"message", "reaction"}
    /\ e.type = "reaction" => e.ref > 0

MessagesUpTo(events, i) == Cardinality({j \in 1 .. i : events[j].type = "message"})
Sourced(events) == {i \in DOMAIN events : events[i].type = "message" /\ events[i].seq # 0}

SortedSourceSeqs(events) ==
    \A i, j \in Sourced(events) : i < j => events[i].seq < events[j].seq

\* A slip in SourceSequenceMap: only the messages that have a source seq are
\* counted towards the seqs they will get.
SourceSequenceMapSourcedOnly(events, nextSeq) ==
    LET At(s) == CHOOSE i \in Sourced(events) : events[i].seq = s
    IN  [s \in {events[i].seq : i \in Sourced(events)} |->
            nextSeq + Cardinality({j \in Sourced(events) : j < At(s)})]

\* From a message's seq in the source to the one it will get in the thread.
SourceSequenceMap(events, nextSeq) ==
    LET At(s) == CHOOSE i \in Sourced(events) : events[i].seq = s
    IN  [s \in {events[i].seq : i \in Sourced(events)} |->
            nextSeq + MessagesUpTo(events, At(s)) - 1]

\* A ref that is no seq of the source is taken as one of the thread.
Remap(map, ref) == IF ref \in DOMAIN map THEN map[ref] ELSE ref

\* One event of AppendBatch's loop, in its transaction.
AppendEvent(d, t, map, e) ==
    IF e.type = "message"
    THEN AppendMessageByParentSeq(d, t, e.name, e.author, e.body, e.at, Remap(map, e.ref))
    ELSE AddReactionBySeq(d, t, Remap(map, e.ref), e.body, e.name, e.author, e.at)

\* What the batch tells of an event that became this row; 0 is absent.
AppendResult(e, row) ==
    IF e.type = "message" THEN [seq |-> row.seq, message |-> row.id, reaction |-> 0]
                          ELSE [seq |-> 0, message |-> row.message, reaction |-> row.id]

----------------------------------------------------------------------------
(* The feed, newest first. *)

Newer(a, b) == a.at > b.at \/ (a.at = b.at /\ a.id > b.id)
FirstN(s, n) == SubSeq(s, 1, IF Len(s) < n THEN Len(s) ELSE n)
DefaultRowLimit == 200
MaxRowLimit == 500
ClampLimit(limit) ==
    IF limit = 0 THEN DefaultRowLimit ELSE IF limit > MaxRowLimit THEN MaxRowLimit ELSE limit

NewestFirst(rows) ==
    LET ids == DOMAIN rows
    IN  RowsAt(rows, Ordered(ids, {p \in ids \X ids : Newer(rows[p[1]], rows[p[2]])}))

\* at is the newest message's, or the group's own while it has none.  The
\* content shown is the newest one's in a channel, and the first in a thread.
GroupRow(d, group, thread, S) ==
    LET newest == CHOOSE i \in S : \A j \in S : i = j \/ Newer(d.messages[i], d.messages[j])
        first == CHOOSE i \in S : \A j \in S : d.messages[i].seq <= d.messages[j].seq
    IN  [id |-> group.id, thread |-> thread, count |-> Cardinality(S),
         at |-> IF S = {} THEN group.at ELSE d.messages[newest].at,
         name |-> IF S = {} THEN None ELSE d.messages[newest].name,
         body |-> IF S = {} THEN None ELSE d.messages[IF thread = 0 THEN newest ELSE first].body]

ListMessageRows(d, limit) ==
    LET newest == FirstN(NewestFirst(d.messages), limit)
    IN  [i \in DOMAIN newest |->
            [id |-> newest[i].id, thread |-> newest[i].thread, count |-> 1,
             at |-> newest[i].at, name |-> newest[i].name, body |-> newest[i].body]]

ListThreadRows(d, limit) ==
    FirstN(NewestFirst([t \in DOMAIN d.threads |->
                           GroupRow(d, d.threads[t], t, MessagesOf(d, t))]), limit)

ListChannelRows(d, limit) ==
    FirstN(NewestFirst([c \in DOMAIN d.channels |->
               GroupRow(d, d.channels[c], 0,
                        {i \in DOMAIN d.messages :
                            d.threads[d.messages[i].thread].channel = c})]), limit)

ListRows(d, granularity, limit) ==
    CASE granularity = "message" -> ListMessageRows(d, ClampLimit(limit))
      [] granularity = "thread"  -> ListThreadRows(d, ClampLimit(limit))
      [] granularity = "channel" -> ListChannelRows(d, ClampLimit(limit))

----------------------------------------------------------------------------
(* What a database is like that only the calls above have written. *)

\* The id of a row is its index, and it refers to rows that are there.
Keyed(d) ==
    /\ \A t \in Table : \A i \in DOMAIN d[t] : d[t][i].id = i
    /\ \A i \in DOMAIN d.threads : d.threads[i].channel \in DOMAIN d.channels
    /\ \A i \in DOMAIN d.messages : d.messages[i].thread \in DOMAIN d.threads
    /\ \A i \in DOMAIN d.reactions : d.reactions[i].message \in DOMAIN d.messages

\* The messages of a thread have the seqs 1, 2, ... in the order of their ids,
\* and a parent is an earlier message of the same thread.
Logs(d) ==
    \A i \in DOMAIN d.messages :
        LET m == d.messages[i]
        IN  /\ m.seq = Cardinality({j \in 1 .. i : d.messages[j].thread = m.thread})
            /\ m.parent # 0 => /\ m.parent < i
                               /\ d.messages[m.parent].thread = m.thread

\* A name stands for one channel of a repository, and for one orphaned one.
DistinctChannels(d) ==
    \A i, j \in DOMAIN d.channels :
        i # j => \/ d.channels[i].name # d.channels[j].name
                 \/ d.channels[i].repo # d.channels[j].repo

Consistent(d) == d \in Database /\ Keyed(d) /\ Logs(d) /\ DistinctChannels(d)
=============================================================================

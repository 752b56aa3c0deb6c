------------------------- MODULE ThreadService_proofs -------------------------
(* The safety of ThreadService for any number of clients and any commands:   *)
(* the inductive invariant, and that every step keeps it.                    *)
EXTENDS ThreadService, ThreadStore_proofs

----------------------------------------------------------------------------
(* The inductive invariant *)

Steps == {"channels", "newChannel", "threads", "newThread", "messages", "all",
          "reactions", "rows", "message", "reaction", "events"}
Phases == {"none", "sent", "tx", "starting", "answered"}

\* The codes of the daemon's answers, and those of commands.
Codes == {"OK", "BAD_JSONL", "AGENT_FORBIDDEN", "CHANNEL_EXISTS", "CHANNEL_NOT_FOUND",
          "THREAD_NOT_FOUND", "MESSAGE_NOT_FOUND"}
Outcomes == Codes \cup {None, "NONE", "BAD_ARGS", "DAEMON_DOWN", "DAEMON_ERROR",
                        "DELIVERY_UNKNOWN"}

\* A parsed line, which may still lack a name or a content.
Parsed == [type : LineType \ {None}, seq : Nat, ref : Nat, name : STRING, author : AuthorType,
           body : STRING, at : Nat]

ClientState == [cmd : Command, step : Steps \cup {None}, code : Outcomes, waiting : BOOLEAN,
                chan : Nat, thread : Nat, lines : Seq(Parsed),
                msgs : Seq(MessageRow), known : Seq(MessageRow)]

\* What the daemon's answer to a request is made of.
Answered(d, step, out) ==
    /\ step = "channels" => out \in Seq(ToSet(d.channels))
    /\ step = "threads" => out \in Seq(ToSet(d.threads))
    /\ step \in {"messages", "all"} => out \in Seq(ToSet(d.messages))
    /\ step = "reactions" => out \in Seq([reaction : ToSet(d.reactions), message_seq : Nat \ {0}])
    /\ step = "rows" => \A i \in DOMAIN out :
                            /\ out[i].id > 0 /\ out[i].count = 1
                            /\ \E m \in ToSet(d.messages) : out[i].body = m.body
    /\ step = "newChannel" => out[1] \in ToSet(d.channels)
    /\ step = "newThread" => out[1] \in ToSet(d.threads)
    /\ step = "message" => out[1] \in ToSet(d.messages)
    /\ step = "reaction" => out # <<>>

\* The request of a client: what it asks for has passed the client's checks.
Asks(k) ==
    /\ k.step # None
    /\ k.step \in {"message", "reaction"} => k.cmd.body # None
    /\ k.lines \in Seq(Event)

\* The handler has committed, or has looked up, all that was asked.
Succeeded(c) == h[c].phase \in {"starting", "answered"} /\ h[c].reply.code = "OK"

\* A handler works for the request of its client, also when the client is gone.
Serves(c) ==
    /\ cl[c].waiting => cl[c].code = None
    /\ h[c].phase # "none" /\ ~cl[c].waiting => cl[c].code \in {"DELIVERY_UNKNOWN", "DAEMON_DOWN"}
    /\ cl[c].code = None \/ h[c].phase # "none" => Asks(cl[c])
    /\ h[c].phase = "tx" => cl[c].step = "events"
    /\ Succeeded(c) => Answered(db, cl[c].step, h[c].reply.out)

Handler(x) ==
    /\ DOMAIN x = {"phase", "reply", "pending"}
    /\ x.phase \in Phases
    /\ x.phase \in {"starting", "answered"} => x.reply.code \in Codes
    /\ x.pending \in SUBSET Nat

ClientTypes(c) ==
    /\ cl[c] \in ClientState
    /\ Handler(h[c])

\* The rows there are.
Rows(d) == UNION {{<<t, i>> : i \in DOMAIN d[t]} : t \in Table}

\* The rows of a client's request, and the sessions they have started: none of
\* an agent's, nor of an import.
Acts(c) ==
    /\ wrote[c] \in SUBSET Rows(db)
    /\ h[c].phase \in {"sent", "tx"} => wrote[c] = {}
    /\ h[c].phase = "starting" <=> h[c].pending # {}
    /\ \A i \in h[c].pending : <<"messages", i>> \in wrote[c] /\ i \notin ToSet(started)
    /\ h[c].pending # {} => ~cl[c].cmd.agent /\ ~Import(cl[c]) /\ h[c].reply.code = "OK"
    /\ \A i \in DOMAIN db.messages : <<"messages", i>> \in wrote[c] =>
          /\ cl[c].cmd.agent => db.messages[i].author = "agent"
          /\ i \in ToSet(started) => ~cl[c].cmd.agent /\ ~Import(cl[c])

\* Of a message that mentions someone, a session is started or to be started, or
\* is lost to a failing store.
Acted(c) ==
    /\ cl[c].code = "OK" => h[c].phase = "none"
    /\ cl[c].code = "OK" \/ Succeeded(c) =>
          \A i \in DOMAIN db.messages :
             /\ <<"messages", i>> \in wrote[c]
             /\ db.messages[i].body \in MentionBody
             /\ db.messages[i].author = "human"
             /\ ~Import(cl[c])
             => i \in ToSet(started) \/ i \in lost \/ i \in h[c].pending

\* What a batch tells of an event.
Result == [seq : Nat, message : Nat, reaction : Nat]

TxOK ==
    /\ DOMAIN tx = {"owner", "db", "map", "results"}
    /\ tx.owner \in Client \cup {Nobody}
    /\ \A c \in Client : (tx.owner = c) = (h[c].phase = "tx")
    /\ tx.owner # Nobody =>
         /\ Consistent(tx.db) /\ Extends(db, tx.db)
         /\ SeqMap(tx.map)
         /\ IsFiniteSet(NewRows(db, tx.db))
         /\ tx.results \in Seq(Result)
         /\ Cardinality(NewRows(db, tx.db)) = Len(tx.results)
         /\ \A i \in DOMAIN tx.db.messages \ DOMAIN db.messages :
               cl[tx.owner].cmd.agent => tx.db.messages[i].author = "agent"

Blank(d) == \/ \E i \in DOMAIN d.messages : d.messages[i].body \in BlankBody
            \/ \E i \in DOMAIN d.reactions : d.reactions[i].emoji \in BlankBody

\* Of a request, all is written or nothing.
Told(c) ==
    LET k == cl[c]  n == Cardinality(wrote[c])
    IN  /\ k.waiting \/ k.code # None => n \in {0, Expected(k)}
        /\ Succeeded(c) \/ k.code = "OK" => n = Expected(k)
        /\ h[c].phase = "answered" /\ h[c].reply.code # "OK" => n = 0
        /\ k.code \notin {"OK", "DELIVERY_UNKNOWN", None} => n = 0
        /\ k.code = "DAEMON_DOWN" /\ h[c].phase # "none" => k.step \notin PostStep
        /\ k.code = "DAEMON_ERROR" => Blank(db)

Global ==
    /\ Consistent(db)
    /\ DOMAIN cl = Client /\ DOMAIN h = Client /\ DOMAIN wrote = Client
    /\ TxOK
    /\ ~up => \A c \in Client : h[c].phase = "none"
    /\ exported.lines \in Seq(Line)
    /\ started \in Seq(Nat)
    /\ \A i, j \in DOMAIN started : started[i] = started[j] => i = j
    /\ \A i \in ToSet(started) : i \in DOMAIN db.messages
    /\ \A c1, c2 \in Client : c1 # c2 => wrote[c1] \cap wrote[c2] = {}

Own(c) == ClientTypes(c) /\ Serves(c) /\ Acts(c) /\ Acted(c) /\ Told(c)

IInv == Global /\ \A c \in Client : Own(c)

----------------------------------------------------------------------------
(* Rows and answers as a database grows *)

\* The tables of a database that extends another hold its rows.
LEMMA ExtendsKeepsRows ==
    ASSUME NEW d \in Database, NEW e \in Database, Extends(d, e)
    PROVE  /\ ToSet(d.channels) \in SUBSET ToSet(e.channels)
           /\ ToSet(d.threads) \in SUBSET ToSet(e.threads)
           /\ ToSet(d.messages) \in SUBSET ToSet(e.messages)
           /\ ToSet(d.reactions) \in SUBSET ToSet(e.reactions)
           /\ DOMAIN d.messages \in SUBSET DOMAIN e.messages
           /\ \A i \in DOMAIN d.messages : e.messages[i] = d.messages[i]
           /\ DOMAIN d.reactions \in SUBSET DOMAIN e.reactions
           /\ \A i \in DOMAIN d.reactions : e.reactions[i] = d.reactions[i]
<1>1. \A t \in Table : \A i \in DOMAIN d[t] : i \in DOMAIN e[t] /\ e[t][i] = d[t][i]
  BY DEF Extends
<1>2. /\ \A i \in DOMAIN d.channels : i \in DOMAIN e.channels /\ e.channels[i] = d.channels[i]
      /\ \A i \in DOMAIN d.threads : i \in DOMAIN e.threads /\ e.threads[i] = d.threads[i]
      /\ \A i \in DOMAIN d.messages : i \in DOMAIN e.messages /\ e.messages[i] = d.messages[i]
      /\ \A i \in DOMAIN d.reactions : i \in DOMAIN e.reactions /\ e.reactions[i] = d.reactions[i]
  BY <1>1, TablesAre DEF Table
<1> QED
  BY <1>2 DEF ToSet

\* A sequence of some things is one of more of them.
LEMMA SeqOfMore ==
    ASSUME NEW S, NEW T, S \in SUBSET T
    PROVE  Seq(S) \in SUBSET Seq(T)
OBVIOUS

\* What was answered stays in the database.
LEMMA AnsweredStays ==
    ASSUME NEW d \in Database, NEW e \in Database, Extends(d, e), NEW step, NEW out,
           Answered(d, step, out)
    PROVE  Answered(e, step, out)
<1>1. /\ ToSet(d.channels) \in SUBSET ToSet(e.channels)
      /\ ToSet(d.threads) \in SUBSET ToSet(e.threads)
      /\ ToSet(d.messages) \in SUBSET ToSet(e.messages)
      /\ ToSet(d.reactions) \in SUBSET ToSet(e.reactions)
  BY ExtendsKeepsRows
<1> DEFINE R(x) == [reaction : ToSet(x.reactions), message_seq : Nat \ {0}]
<1>2. R(d) \in SUBSET R(e)
  BY <1>1
<1>3. /\ Seq(ToSet(d.channels)) \in SUBSET Seq(ToSet(e.channels))
      /\ Seq(ToSet(d.threads)) \in SUBSET Seq(ToSet(e.threads))
      /\ Seq(ToSet(d.messages)) \in SUBSET Seq(ToSet(e.messages))
      /\ Seq(R(d)) \in SUBSET Seq(R(e))
  BY <1>1, <1>2, SeqOfMore
<1> QED
  BY <1>1, <1>3, Zenon DEF Answered

\* A row and its table.
LEMMA RowsAre ==
    ASSUME NEW d, NEW e, NEW t, NEW i
    PROVE  /\ <<t, i>> \in Rows(d) <=> t \in Table /\ i \in DOMAIN d[t]
           /\ <<t, i>> \in NewRows(d, e) <=> t \in Table /\ i \in DOMAIN e[t] /\ i \notin DOMAIN d[t]
BY DEF Rows, NewRows

\* A database that extends another has its rows, and new ones.
LEMMA ExtendsRows ==
    ASSUME NEW d, NEW e, Extends(d, e)
    PROVE  /\ Rows(d) \in SUBSET Rows(e)
           /\ NewRows(d, e) \in SUBSET Rows(e)
           /\ NewRows(d, e) \cap Rows(d) = {}
           /\ NewRows(d, d) = {}
BY DEF Extends, Rows, NewRows

\* e is d and one row more; its new rows since d0 are those of d and this one.
OneMore(d0, d, e, table, row) ==
    /\ Extends(d, e)
    /\ e[table][row.id] = row /\ row.id \in DOMAIN e[table]
    /\ row.id \notin DOMAIN d[table]
    /\ NewRows(d0, e) = NewRows(d0, d) \cup {<<table, row.id>>}
    /\ <<table, row.id>> \notin NewRows(d0, d)
    /\ \A t \in Table \ {table} : e[t] = d[t]
    /\ \A i \in DOMAIN e[table] : i \in DOMAIN d[table] \/ i = row.id

\* A row added is one row more.
LEMMA AddedRows ==
    ASSUME NEW d0, NEW d \in Database, Extends(d0, d), NEW table \in Table, NEW row, NEW r,
           Added(d, r, table, row)
    PROVE  OneMore(d0, d, r.db, table, row)
<1> DEFINE n == Len(d[table])
<1>1. PICK e : e = With(d, table, row) /\ r.db = e
  BY DEF Added
<1>2. /\ Extends(d, e) /\ n \in Nat
      /\ DOMAIN d[table] = 1 .. n /\ DOMAIN e[table] = 1 .. n + 1
      /\ e[table][n + 1] = row
      /\ \A t \in Table \ {table} : e[t] = d[t]
  BY <1>1, AddedExtends
<1>3. row.id = n + 1
  BY DEF Added
<1> HIDE DEF n
<1>4. /\ row.id \in DOMAIN e[table] /\ row.id \notin DOMAIN d[table]
      /\ DOMAIN e[table] = DOMAIN d[table] \cup {row.id}
  BY <1>2, <1>3
<1>5. DOMAIN d0[table] \in SUBSET DOMAIN d[table]
  BY DEF Extends
<1>6. NewRows(d0, e) = NewRows(d0, d) \cup {<<table, row.id>>}
  BY <1>2, <1>4, <1>5 DEF NewRows
<1>7. <<table, row.id>> \notin NewRows(d0, d)
  BY <1>4, RowsAre
<1> QED
  BY <1>1, <1>2, <1>3, <1>4, <1>6, <1>7 DEF OneMore

\* The first row of a request is the only one.
LEMMA OneRow ==
    ASSUME NEW d \in Database, NEW table \in Table, NEW row, NEW r, Added(d, r, table, row)
    PROVE  /\ NewRows(d, r.db) = {<<table, row.id>>}
           /\ Cardinality(NewRows(d, r.db)) = 1
<1>1. Extends(d, d)
  BY ExtendsIsAPreorder
<1>2. NewRows(d, d) = {}
  BY <1>1, ExtendsRows
<1>3. OneMore(d, d, r.db, table, row)
  BY <1>1, AddedRows
<1>4. NewRows(d, r.db) = NewRows(d, d) \cup {<<table, row.id>>}
  BY <1>3 DEF OneMore
<1>5. NewRows(d, r.db) = {<<table, row.id>>}
  BY <1>2, <1>4
<1> QED
  BY <1>5, FS_Singleton

----------------------------------------------------------------------------
(* The handlers *)

\* None is not a code of an answer, nor a step.
LEMMA NoneIsOther ==
    /\ None \notin Codes /\ None \notin Steps
    /\ None \notin {"NONE", "BAD_ARGS", "DAEMON_DOWN", "DELIVERY_UNKNOWN", "DAEMON_ERROR"}
BY Zenon DEF None, Steps, Codes

Recoded(r, s, notFound, conflict) ==
    /\ r.db = s.db /\ r.out = s.out
    /\ s.code = "OK" => r.code = "OK"
    /\ s.code = "NotFound" => r.code = notFound
    /\ s.code = "Conflict" => r.code = conflict
    /\ s.code = "Invalid" => r.code = "BAD_JSONL"

\* Http changes the code of an error.
LEMMA HttpChangesTheCode ==
    ASSUME NEW s, NEW codes, Outcome(s, codes), NEW notFound, NEW conflict,
           NEW r, r = Http(s, notFound, conflict)
    PROVE  Recoded(r, s, notFound, conflict)
BY DEF Outcome, Http, Recoded

\* What a route that writes has done: one row more, by the author of the
\* request, or nothing.
Posted(d, r, k) ==
    /\ r.code \in Codes
    /\ r.code = "OK" =>
         /\ Consistent(r.db)
         /\ Answered(r.db, k.step, r.out)
         /\ \E table \in Table, row \in MessageRow \cup ChannelRow \cup ThreadRow \cup ReactionRow :
               /\ Added(d, r, table, row)
               /\ table = "messages" => row.author = LiveAuthorType(k)

\* An error has done nothing.
LEMMA FailPosts ==
    ASSUME NEW d, NEW code \in Codes \ {"OK"}, NEW r, r = Fail(d, code), NEW k
    PROVE  Posted(d, r, k)
BY DEF Fail, Posted

\* A row that a route has added is in its table.
LEMMA AddedIsInTable ==
    ASSUME NEW d \in Database, NEW table \in Table, NEW row, NEW r, Added(d, r, table, row)
    PROVE  r.out[1] = row /\ r.out # <<>> /\ row \in ToSet(r.db[table])
<1>1. Extends(d, d)
  BY ExtendsIsAPreorder
<1>2. OneMore(d, d, r.db, table, row)
  BY <1>1, AddedRows
<1>3. r.db[table][row.id] = row /\ row.id \in DOMAIN r.db[table]
  BY <1>2 DEF OneMore
<1>4. r.out = <<row>>
  BY DEF Added
<1> QED
  BY <1>3, <1>4 DEF ToSet

\* The author type of a request, an agent's if it is one's.
LEMMA LiveAuthorTypeIs ==
    ASSUME NEW k
    PROVE  /\ LiveAuthorType(k) \in AuthorType
           /\ k.cmd.agent => LiveAuthorType(k) = "agent"
BY DEF LiveAuthorType, AuthorType

\* The fields of a client.
LEMMA ClientFields ==
    ASSUME NEW k \in ClientState
    PROVE  /\ k.chan \in Nat /\ k.thread \in Nat /\ k.lines \in Seq(Parsed)
           /\ k.msgs \in Seq(MessageRow) /\ k.known \in Seq(MessageRow)
           /\ k.cmd \in Command /\ k.code \in Outcomes /\ k.step \in Steps \cup {None}
           /\ k.waiting \in BOOLEAN
           /\ k.cmd.repo \in Repo /\ k.cmd.body \in STRING /\ k.cmd.ref \in Nat
           /\ k.cmd.last \in Nat /\ k.cmd.thread \in Nat /\ k.cmd.lines \in Seq(Line)
           /\ k.cmd.agent \in BOOLEAN /\ k.cmd.after \in Nat
<1>1. /\ k.chan \in Nat /\ k.thread \in Nat /\ k.lines \in Seq(Parsed)
      /\ k.msgs \in Seq(MessageRow) /\ k.known \in Seq(MessageRow)
      /\ k.cmd \in Command /\ k.code \in Outcomes /\ k.step \in Steps \cup {None}
      /\ k.waiting \in BOOLEAN
  BY DEF ClientState
<1>2. \A cmd \in Command :
        /\ cmd.repo \in Repo /\ cmd.body \in STRING /\ cmd.ref \in Nat
        /\ cmd.last \in Nat /\ cmd.thread \in Nat /\ cmd.lines \in Seq(Line)
        /\ cmd.agent \in BOOLEAN /\ cmd.after \in Nat
  BY DEF Command
<1> QED
  BY <1>1, <1>2

\* A store call that adds a row, and the error code that the route makes of
\* its errors.
LEMMA AddingPosts ==
    ASSUME NEW d, Consistent(d), NEW k, NEW s, NEW codes, Outcome(s, codes),
           NEW notFound, NEW conflict, NEW r, r = Http(s, notFound, conflict),
           \A code \in codes : \/ code \in {"OK", "Invalid"}
                               \/ code = "NotFound" /\ notFound \in Codes \ {"OK"}
                               \/ code = "Conflict" /\ conflict \in Codes \ {"OK"},
           NEW table \in Table,
           s.code = "OK" =>
             /\ Consistent(s.db)
             /\ \E row \in MessageRow \cup ChannelRow \cup ThreadRow \cup ReactionRow :
                   /\ Added(d, s, table, row)
                   /\ table = "messages" => row.author = LiveAuthorType(k),
           \/ k.step = "newChannel" /\ table = "channels"
           \/ k.step = "newThread" /\ table = "threads"
           \/ k.step = "message" /\ table = "messages"
           \/ k.step = "reaction" /\ table = "reactions"
    PROVE  Posted(d, r, k)
<1>1. Recoded(r, s, notFound, conflict)
  BY HttpChangesTheCode
<1>2. s.code \in codes
  BY DEF Outcome
<1>3. CASE s.code # "OK"
  BY <1>1, <1>2, <1>3 DEF Recoded, Posted, Codes
<1>4. CASE s.code = "OK"
  <2>1. r.code = "OK" /\ r.db = s.db /\ r.out = s.out /\ Consistent(r.db)
    BY <1>1, <1>4 DEF Recoded
  <2>2. PICK row \in MessageRow \cup ChannelRow \cup ThreadRow \cup ReactionRow :
           /\ Added(d, s, table, row)
           /\ table = "messages" => row.author = LiveAuthorType(k)
    BY <1>4
  <2>3. Added(d, r, table, row)
    BY <2>1, <2>2 DEF Added
  <2>4. d \in Database /\ r.db \in Database
    BY <2>1 DEF Consistent
  <2>5. r.out[1] \in ToSet(r.db[table]) /\ r.out # <<>>
    BY <2>3, <2>4, AddedIsInTable
  <2>6. /\ table = "channels" => r.out[1] \in ToSet(r.db.channels)
        /\ table = "threads" => r.out[1] \in ToSet(r.db.threads)
        /\ table = "messages" => r.out[1] \in ToSet(r.db.messages)
    BY <2>4, <2>5, TablesAre
  <2>7. Answered(r.db, k.step, r.out)
    BY <2>5, <2>6 DEF Answered
  <2> QED
    BY <2>1, <2>2, <2>3, <2>7 DEF Posted, Codes
<1> QED
  BY <1>3, <1>4

\* POST of a channel.
LEMMA PostChannelPosts ==
    ASSUME NEW d, Consistent(d), NEW k \in ClientState, k.step = "newChannel",
           NEW r, r = PostChannel(d, k)
    PROVE  Posted(d, r, k)
<1>1. CASE k.cmd.agent
  BY <1>1, FailPosts DEF PostChannel, Codes
<1>2. CASE ~k.cmd.agent
  <2>1. PICK s : s = CreateChannel(d, k.cmd.channel, k.cmd.repo, Orphaned(k))
    OBVIOUS
  <2>2. r = Http(s, None, "CHANNEL_EXISTS")
    BY <1>2, <2>1 DEF PostChannel
  <2>3. /\ Outcome(s, {"OK", "Invalid", "Conflict"})
        /\ s.code = "OK" => /\ Consistent(s.db)
                            /\ \E row \in ChannelRow : Added(d, s, "channels", row)
    BY <2>1, ClientFields, CreateChannelAdds
  <2> QED
    BY <2>2, <2>3, AddingPosts DEF Codes, Table
<1> QED
  BY <1>1, <1>2

\* POST of a thread.
LEMMA PostThreadPosts ==
    ASSUME NEW d, Consistent(d), NEW k \in ClientState, k.step = "newThread",
           NEW r, r = PostThread(d, k)
    PROVE  Posted(d, r, k)
<1>1. CASE k.cmd.agent
  BY <1>1, FailPosts DEF PostThread, Codes
<1>2. CASE ~k.cmd.agent
  <2>1. PICK s : s = CreateThread(d, k.chan, k.cmd.title)
    OBVIOUS
  <2>2. r = Http(s, "CHANNEL_NOT_FOUND", None)
    BY <1>2, <2>1 DEF PostThread
  <2>3. /\ Outcome(s, {"OK", "Invalid", "NotFound"})
        /\ s.code = "OK" => /\ Consistent(s.db)
                            /\ \E row \in ThreadRow : Added(d, s, "threads", row)
    BY <2>1, ClientFields, CreateThreadAdds
  <2> QED
    BY <2>2, <2>3, AddingPosts DEF Codes, Table
<1> QED
  BY <1>1, <1>2

\* A content that is not empty is one.
LEMMA ContentIs ==
    ASSUME NEW body \in STRING, body # None
    PROVE  body \in Content
BY Zenon DEF Content, None

\* POST of a message.
LEMMA PostMessagePosts ==
    ASSUME NEW d, Consistent(d), NEW k \in ClientState, Asks(k), k.step = "message",
           NEW r, r = PostMessage(d, k)
    PROVE  Posted(d, r, k)
<1> DEFINE a == LiveAuthorType(k)
<1>1. /\ k.thread \in Nat /\ k.cmd.ref \in Nat /\ k.cmd.body \in Content
      /\ a \in AuthorType
  BY ClientFields, ContentIs, LiveAuthorTypeIs DEF Asks
<1>2. PICK s :
        s = CASE k.cmd.by = "seq" ->
                     AppendMessageByParentSeq(d, k.thread, k.cmd.as, a, k.cmd.body, 0, k.cmd.ref)
              [] k.cmd.by = "id" ->
                     AppendMessage(d, k.thread, k.cmd.as, a, k.cmd.body, 0, k.cmd.ref)
              [] OTHER -> AppendMessage(d, k.thread, k.cmd.as, a, k.cmd.body, 0, 0)
  OBVIOUS
<1>3. r = Http(s, "THREAD_NOT_FOUND", "BAD_JSONL")
  BY <1>2 DEF PostMessage, MutationError
<1>4. \E parent : NewMessage(d, s, k.thread, parent, k.cmd.as, a, k.cmd.body, 0)
  <2> HIDE DEF a
  <2>1. CASE k.cmd.by = "seq"
    <3>1. s = AppendMessageByParentSeq(d, k.thread, k.cmd.as, a, k.cmd.body, 0, k.cmd.ref)
      BY <1>2, <2>1
    <3> QED
      BY <1>1, <3>1, AppendByParentSeqAdds
  <2>2. CASE k.cmd.by = "id"
    <3>1. s = AppendMessage(d, k.thread, k.cmd.as, a, k.cmd.body, 0, k.cmd.ref)
      BY <1>2, <2>2
    <3> QED
      BY <1>1, <3>1, AppendMessageAdds
  <2>3. CASE k.cmd.by \notin {"seq", "id"}
    <3>1. s = AppendMessage(d, k.thread, k.cmd.as, a, k.cmd.body, 0, 0)
      BY <1>2, <2>3
    <3> QED
      BY <1>1, <3>1, AppendMessageAdds
  <2> QED
    BY <2>1, <2>2, <2>3
<1>5. /\ Outcome(s, {"OK", "Invalid", "NotFound", "Conflict"})
      /\ s.code = "OK" => /\ Consistent(s.db)
                          /\ \E row \in MessageRow : Added(d, s, "messages", row) /\ row.author = a
  BY <1>4 DEF NewMessage
<1> QED
  BY <1>3, <1>5, AddingPosts DEF Codes, Table

\* POST of a reaction, by the seq or by the id of its message.
LEMMA PostReactionPosts ==
    ASSUME NEW d, Consistent(d), NEW k \in ClientState, Asks(k), k.step = "reaction",
           NEW r, r = PostReactionBySeq(d, k) \/ r = PostReactionByID(d, k)
    PROVE  Posted(d, r, k)
<1> DEFINE a == LiveAuthorType(k)
<1>1. k.cmd.ref \in Nat /\ k.cmd.body \in Content /\ a \in AuthorType
  BY ClientFields, ContentIs, LiveAuthorTypeIs DEF Asks
<1>2. CASE r = PostReactionBySeq(d, k)
  <2>1. PICK s : s = AddReactionBySeq(d, k.thread, k.cmd.ref, k.cmd.body, k.cmd.as, a, 0)
    OBVIOUS
  <2>2. r = Http(s, "THREAD_NOT_FOUND", "BAD_JSONL")
    BY <1>2, <2>1 DEF PostReactionBySeq, MutationError
  <2>3. \E message : NewReaction(d, s, message, k.cmd.body, k.cmd.as, a)
    BY <1>1, <2>1, AddReactionBySeqAdds
  <2>4. /\ Outcome(s, {"OK", "Invalid", "NotFound", "Conflict"})
        /\ s.code = "OK" => /\ Consistent(s.db)
                            /\ \E row \in ReactionRow : Added(d, s, "reactions", row)
    BY <2>3 DEF NewReaction
  <2> QED
    BY <2>2, <2>4, AddingPosts DEF Codes, Table
<1>3. CASE r = PostReactionByID(d, k) /\ k.cmd.body \in BlankBody
  BY <1>3, FailPosts DEF PostReactionByID, Codes
<1>4. CASE r = PostReactionByID(d, k) /\ k.cmd.body \notin BlankBody
  <2>1. PICK s : s = AddReaction(d, k.cmd.ref, k.cmd.body, k.cmd.as, a, 0)
    OBVIOUS
  <2>2. r = Http(s, "MESSAGE_NOT_FOUND", "BAD_JSONL")
    BY <1>4, <2>1 DEF PostReactionByID
  <2>3. \E message : NewReaction(d, s, message, k.cmd.body, k.cmd.as, a)
    BY <1>1, <2>1, AddReactionAdds
  <2>4. /\ Outcome(s, {"OK", "Invalid", "NotFound", "Conflict"})
        /\ s.code = "OK" => /\ Consistent(s.db)
                            /\ \E row \in ReactionRow : Added(d, s, "reactions", row)
    BY <2>3 DEF NewReaction
  <2> QED
    BY <2>2, <2>4, AddingPosts DEF Codes, Table
<1> QED
  BY <1>2, <1>3, <1>4

Reads == {"channels", "threads", "messages", "all", "reactions", "rows"}

\* What a route that reads has done: nothing but to answer.
ReadBy(d, r, k) == r.code = "OK" /\ r.db = d /\ Answered(d, k.step, r.out)

\* A route that reads does not write.
LEMMA HandleReads ==
    ASSUME NEW d, Consistent(d), NEW k \in ClientState, NEW cursor,
           k.step \in Reads, NEW r, r = Handle(d, k, cursor)
    PROVE  ReadBy(d, r, k)
<1>1. k.cmd.last \in Nat
  BY ClientFields
<1>2. CASE k.step = "channels"
  <2>1. PICK out :
          out = CASE k.cmd.op = "listChannels" -> ListChannels(d, k.cmd.repo, k.cmd.all)
                  [] k.cmd.op = "newChannel"   -> ListChannels(d, NoRepo, TRUE)
                  [] OTHER                     -> ListChannels(d, k.cmd.repo, Orphaned(k))
    OBVIOUS
  <2>2. r = [code |-> "OK", db |-> d, out |-> out]
    BY <1>2, <2>1 DEF Handle, GetChannels, Done
  <2>3. out \in Seq(ToSet(d.channels))
    BY <2>1, ListsAreOfRows
  <2> QED
    BY <1>2, <2>2, <2>3 DEF ReadBy, Answered
<1>3. CASE k.step = "threads"
  <2>1. r = [code |-> "OK", db |-> d, out |-> ListThreads(d, k.chan)]
    BY <1>3 DEF Handle, GetThreads, Done
  <2>2. ListThreads(d, k.chan) \in Seq(ToSet(d.threads))
    BY ListsAreOfRows
  <2> QED
    BY <1>3, <2>1, <2>2 DEF ReadBy, Answered
<1>4. CASE k.step \in {"messages", "all"}
  <2>1. PICK out :
          out = CASE k.step = "all"                   -> ListMessages(d, k.thread)
                  [] k.step # "all" /\ Following(k)   -> ListMessagesAfter(d, k.thread, cursor)
                  [] OTHER -> IF k.cmd.after > 0 THEN ListMessagesAfter(d, k.thread, k.cmd.after)
                              ELSE IF k.cmd.last > 0 THEN ListMessagesLastN(d, k.thread, k.cmd.last)
                              ELSE ListMessages(d, k.thread)
    OBVIOUS
  <2>2. r = [code |-> "OK", db |-> d, out |-> out]
    BY <1>4, <2>1 DEF Handle, GetMessages, Done
  <2>3. /\ ListMessages(d, k.thread) \in Seq(ToSet(d.messages))
        /\ ListMessagesAfter(d, k.thread, cursor) \in Seq(ToSet(d.messages))
        /\ ListMessagesAfter(d, k.thread, k.cmd.after) \in Seq(ToSet(d.messages))
        /\ ListMessagesLastN(d, k.thread, k.cmd.last) \in Seq(ToSet(d.messages))
    BY <1>1, ListsAreOfRows
  <2>4. out \in Seq(ToSet(d.messages))
    BY <2>1, <2>3
  <2> QED
    BY <1>4, <2>2, <2>4 DEF ReadBy, Answered
<1>5. CASE k.step = "reactions"
  <2>1. r = [code |-> "OK", db |-> d, out |-> ListReactions(d, k.thread)]
    BY <1>5 DEF Handle, GetReactions, Done
  <2>2. ListReactions(d, k.thread) \in Seq([reaction : ToSet(d.reactions), message_seq : Nat \ {0}])
    BY ReactionsAreOfRows
  <2> QED
    BY <1>5, <2>1, <2>2 DEF ReadBy, Answered
<1>6. CASE k.step = "rows"
  <2>1. PICK out : out = ListMessageRows(d, ClampLimit(100))
    OBVIOUS
  <2>2. r = [code |-> "OK", db |-> d, out |-> out]
    BY <1>6, <2>1 DEF Handle, GetRows, ListRows, Done
  <2>3. ClampLimit(100) \in Nat
    BY DEF ClampLimit, DefaultRowLimit, MaxRowLimit
  <2>4. \A i \in DOMAIN out :
            /\ out[i].id > 0 /\ out[i].count = 1
            /\ \E m \in ToSet(d.messages) : out[i].body = m.body
    BY <2>1, <2>3, FeedIsOfRows
  <2> QED
    BY <1>6, <2>2, <2>4 DEF ReadBy, Answered
<1> QED
  BY <1>2, <1>3, <1>4, <1>5, <1>6 DEF Reads

\* A route that writes posts.
LEMMA HandlePosts ==
    ASSUME NEW d, Consistent(d), NEW k \in ClientState, Asks(k), NEW cursor,
           k.step \in {"newChannel", "newThread", "message", "reaction"},
           NEW r, r = Handle(d, k, cursor)
    PROVE  Posted(d, r, k)
<1>1. CASE k.step = "newChannel"
  <2>1. r = PostChannel(d, k)
    BY <1>1 DEF Handle
  <2> QED
    BY <1>1, <2>1, PostChannelPosts
<1>2. CASE k.step = "newThread"
  <2>1. r = PostThread(d, k)
    BY <1>2 DEF Handle
  <2> QED
    BY <1>2, <2>1, PostThreadPosts
<1>3. CASE k.step = "message"
  <2>1. r = PostMessage(d, k)
    BY <1>3 DEF Handle
  <2> QED
    BY <1>3, <2>1, PostMessagePosts
<1>4. CASE k.step = "reaction"
  <2>1. r = PostReactionBySeq(d, k) \/ r = PostReactionByID(d, k)
    BY <1>4 DEF Handle
  <2> QED
    BY <1>4, <2>1, PostReactionPosts
<1> QED
  BY <1>1, <1>2, <1>3, <1>4

\* What the handler of a single transaction has done.
Handled(d, r, k) ==
    /\ r.code \in Codes
    /\ r.code = "OK" =>
         /\ Consistent(r.db) /\ Extends(d, r.db)
         /\ Answered(r.db, k.step, r.out)
         /\ IsFiniteSet(NewRows(d, r.db))
         /\ Cardinality(NewRows(d, r.db)) = Expected(k)
         /\ \A i \in DOMAIN r.db.messages \ DOMAIN d.messages :
               k.cmd.agent => r.db.messages[i].author = "agent"

\* A route that reads has written nothing.
LEMMA ReadsHandled ==
    ASSUME NEW d, Consistent(d), NEW k, k.step \in Reads, NEW r, ReadBy(d, r, k)
    PROVE  Handled(d, r, k)
<1>1. Extends(d, d) /\ NewRows(d, d) = {}
  BY ExtendsIsAPreorder, ExtendsRows
<1>2. IsFiniteSet({}) /\ Cardinality({}) = 0
  BY FS_EmptySet
<1>3. Expected(k) = 0
  BY DEF Expected, PostStep, Reads
<1>4. r.code = "OK" /\ r.db = d /\ Answered(d, k.step, r.out)
  BY DEF ReadBy
<1>5. r.code \in Codes
  BY <1>4 DEF Codes
<1>6. Consistent(r.db) /\ Extends(d, r.db) /\ NewRows(d, r.db) = {}
      /\ Answered(r.db, k.step, r.out)
  BY <1>1, <1>4
<1>7. \A i \in DOMAIN r.db.messages \ DOMAIN d.messages :
               k.cmd.agent => r.db.messages[i].author = "agent"
  BY <1>4
<1> QED
  BY <1>2, <1>3, <1>5, <1>6, <1>7 DEF Handled

\* One that writes has written one row.
LEMMA PostsHandled ==
    ASSUME NEW d, Consistent(d), NEW k,
           k.step \in {"newChannel", "newThread", "message", "reaction"},
           NEW r, Posted(d, r, k)
    PROVE  Handled(d, r, k)
<1>1. r.code \in Codes
  BY DEF Posted
<1>2. CASE r.code # "OK"
  BY <1>1, <1>2 DEF Handled
<1>3. CASE r.code = "OK"
  <2>1. /\ Consistent(r.db)
        /\ Answered(r.db, k.step, r.out)
    BY <1>3 DEF Posted
  <2>2. PICK table \in Table, row \in MessageRow \cup ChannelRow \cup ThreadRow \cup ReactionRow :
               /\ Added(d, r, table, row)
               /\ table = "messages" => row.author = LiveAuthorType(k)
    BY <1>3 DEF Posted
  <2>3. d \in Database /\ r.db \in Database /\ Extends(d, d)
    BY <2>1, ExtendsIsAPreorder DEF Consistent
  <2>4. OneMore(d, d, r.db, table, row)
    BY <2>2, <2>3, AddedRows
  <2>5. /\ NewRows(d, r.db) = {<<table, row.id>>}
        /\ Cardinality(NewRows(d, r.db)) = 1
    BY <2>2, <2>3, OneRow
  <2>6. Extends(d, r.db)
    BY <2>4 DEF OneMore
  <2>7. IsFiniteSet(NewRows(d, r.db))
    BY <2>5, FS_Singleton
  <2>8. Expected(k) = 1
    BY DEF Expected, PostStep
  <2>9. \A i \in DOMAIN r.db.messages \ DOMAIN d.messages :
               k.cmd.agent => r.db.messages[i].author = "agent"
    <3>1. CASE table = "messages"
      <4>1. /\ r.db["messages"][row.id] = row
            /\ \A i \in DOMAIN r.db["messages"] : i \in DOMAIN d["messages"] \/ i = row.id
        BY <2>4, <3>1 DEF OneMore
      <4>2. /\ r.db.messages[row.id] = row
            /\ \A i \in DOMAIN r.db.messages : i \in DOMAIN d.messages \/ i = row.id
        BY <4>1, <2>3, TablesAre
      <4> QED
        BY <2>2, <3>1, <4>2, LiveAuthorTypeIs
    <3>2. CASE table # "messages"
      <4>1. r.db["messages"] = d["messages"]
        BY <2>4, <3>2 DEF OneMore, Table
      <4>2. r.db.messages = d.messages
        BY <4>1, <2>3, TablesAre
      <4> QED
        BY <4>2
    <3> QED
      BY <3>1, <3>2
  <2> QED
    BY <1>1, <2>1, <2>5, <2>6, <2>7, <2>8, <2>9 DEF Handled
<1> QED
  BY <1>2, <1>3

\* Every route of a single transaction.
LEMMA HandleHandles ==
    ASSUME NEW d, Consistent(d), NEW k \in ClientState, Asks(k), NEW cursor,
           k.step # "events", NEW r, r = Handle(d, k, cursor)
    PROVE  Handled(d, r, k)
<1>1. k.step \in Reads \cup {"newChannel", "newThread", "message", "reaction"}
  BY ClientFields DEF Asks, Steps, Reads
<1>2. CASE k.step \in Reads
  <2>1. ReadBy(d, r, k)
    BY <1>2, HandleReads
  <2> QED
    BY <1>2, <2>1, ReadsHandled
<1>3. CASE k.step \in {"newChannel", "newThread", "message", "reaction"}
  <2>1. Posted(d, r, k)
    BY <1>3, HandlePosts
  <2> QED
    BY <1>3, <2>1, PostsHandled
<1> QED
  BY <1>1, <1>2, <1>3

----------------------------------------------------------------------------
(* What a step leaves alone *)

\* A client whose record, handler and rows a step does not touch, while the
\* database grows and sessions start for others' messages.
Untouched(x) ==
    /\ cl'[x] = cl[x] /\ h'[x] = h[x] /\ wrote'[x] = wrote[x]
    /\ Consistent(db') /\ Extends(db, db')
    /\ ToSet(started) \in SUBSET ToSet(started') /\ lost \in SUBSET lost'
    /\ \A i \in ToSet(started') : i \in ToSet(started) \/ <<"messages", i>> \notin wrote[x]

\* A row of the messages has its place in the table, now and later.
LEMMA RowsStay ==
    ASSUME NEW d, NEW e, Consistent(d), Consistent(e), Extends(d, e), NEW rows \in SUBSET Rows(d)
    PROVE  /\ rows \in SUBSET Rows(e)
           /\ \A i : <<"messages", i>> \in rows =>
                /\ i \in DOMAIN d.messages /\ i \in DOMAIN e.messages
                /\ e.messages[i] = d.messages[i]
<1>1. rows \in SUBSET Rows(e)
  BY ExtendsRows
<1>2. ASSUME NEW i, <<"messages", i>> \in rows
      PROVE  i \in DOMAIN d.messages
  <2>1. i \in DOMAIN d["messages"]
    BY <1>2, RowsAre
  <2> QED
    BY <2>1, TablesAre DEF Consistent
<1>3. DOMAIN d.messages \in SUBSET DOMAIN e.messages /\ \A i \in DOMAIN d.messages : e.messages[i] = d.messages[i]
  BY ExtendsKeepsRows DEF Consistent
<1> QED
  BY <1>1, <1>2, <1>3

\* A blank content stays.
LEMMA BlankStays ==
    ASSUME NEW d \in Database, NEW e \in Database, Extends(d, e), Blank(d)
    PROVE  Blank(e)
<1>1. /\ DOMAIN d.messages \in SUBSET DOMAIN e.messages
      /\ \A i \in DOMAIN d.messages : e.messages[i] = d.messages[i]
      /\ DOMAIN d.reactions \in SUBSET DOMAIN e.reactions
      /\ \A i \in DOMAIN d.reactions : e.reactions[i] = d.reactions[i]
  BY ExtendsKeepsRows
<1> QED
  BY <1>1 DEF Blank

\* What holds of a client still does after a step that leaves it alone.
LEMMA UntouchedKeeps ==
    ASSUME Consistent(db), NEW x \in Client, Own(x), Untouched(x)
    PROVE  Own(x)'
<1>1. db \in Database /\ db' \in Database /\ Extends(db, db')
  BY DEF Untouched, Consistent
<1>2. cl'[x] = cl[x] /\ h'[x] = h[x] /\ wrote'[x] = wrote[x]
  BY DEF Untouched
<1>3. ClientTypes(x)'
  BY <1>2 DEF Own, ClientTypes
<1>4. Succeeded(x)' = Succeeded(x)
  BY <1>2 DEF Succeeded
<1>5. Serves(x)'
  <2>1. Succeeded(x)' => Answered(db', cl'[x].step, h'[x].reply.out)
    <3>1. Succeeded(x) => Answered(db, cl[x].step, h[x].reply.out)
      BY DEF Own, Serves
    <3> QED
      BY <1>1, <1>2, <1>4, <3>1, AnsweredStays
  <2>2. Asks(cl[x])' = Asks(cl[x])
    BY <1>2 DEF Asks
  <2> QED
    BY <1>2, <2>1, <2>2 DEF Own, Serves
<1>6. wrote[x] \in SUBSET Rows(db)
  BY DEF Own, Acts
<1>7. /\ wrote[x] \in SUBSET Rows(db')
      /\ \A i : <<"messages", i>> \in wrote[x] =>
                /\ i \in DOMAIN db.messages /\ i \in DOMAIN db'.messages
                /\ db'.messages[i] = db.messages[i]
  BY <1>6, RowsStay DEF Untouched
<1>8. /\ \A i : <<"messages", i>> \in wrote[x] => (i \in ToSet(started') <=> i \in ToSet(started))
      /\ \A i \in lost : i \in lost'
  BY DEF Untouched
<1>9. Import(cl[x])' = Import(cl[x])
  BY <1>2 DEF Import
<1>10. Acts(x)'
  BY <1>2, <1>7, <1>8, <1>9 DEF Own, Acts
<1>11. Acted(x)'
  BY <1>2, <1>4, <1>7, <1>8, <1>9 DEF Own, Acted
<1>12. Blank(db) => Blank(db')
  BY <1>1, BlankStays
<1>13. Expected(cl[x])' = Expected(cl[x])
  BY <1>2 DEF Expected
<1>14. Told(x)'
  BY <1>2, <1>4, <1>12, <1>13 DEF Own, Told
<1> QED
  BY <1>3, <1>5, <1>10, <1>11, <1>14 DEF Own

\* The transaction is left alone by a step that neither touches it nor the
\* database, nor what its owner asked for.
LEMMA TxStays ==
    ASSUME TxOK, tx' = tx, db' = db,
           \A c \in Client : (h'[c].phase = "tx") = (h[c].phase = "tx"),
           tx.owner # Nobody => cl'[tx.owner].cmd = cl[tx.owner].cmd
    PROVE  TxOK'
BY DEF TxOK

\* No transaction is held.
LEMMA NoTxIsOK ==
    ASSUME tx' = NoTx, \A c \in Client : h'[c].phase # "tx"
    PROVE  TxOK'
<1>1. tx'.owner = Nobody /\ DOMAIN tx' = {"owner", "db", "map", "results"}
  BY DEF NoTx
<1> QED
  BY <1>1, ServiceAssumption DEF TxOK

\* What all clients share is left alone by a step that writes no row and
\* starts no session.
LEMMA GlobalStays ==
    ASSUME Global, db' = db, started' = started, TxOK',
           exported'.lines \in Seq(Line),
           DOMAIN cl' = Client, DOMAIN h' = Client, DOMAIN wrote' = Client,
           ~up' => \A c \in Client : h'[c].phase = "none",
           \A c \in Client : wrote'[c] \in SUBSET wrote[c]
    PROVE  Global'
BY DEF Global

\* So are the other clients.
LEMMA OthersStay ==
    ASSUME IInv, NEW x \in Client, db' = db, started' = started, lost' = lost,
           cl'[x] = cl[x], h'[x] = h[x], wrote'[x] = wrote[x]
    PROVE  Own(x)'
<1>1. Consistent(db) /\ Own(x)
  BY DEF IInv, Global
<1>2. Extends(db, db)
  BY ExtendsIsAPreorder
<1>3. Untouched(x)
  BY <1>1, <1>2 DEF Untouched
<1> QED
  BY <1>1, <1>3, UntouchedKeeps

----------------------------------------------------------------------------
(* The steps of the clients *)

\* A line of a file, parsed; one that is well formed makes an event.
LEMMA ParseLineParses ==
    ASSUME NEW l \in Line
    PROVE  /\ ParseLine(l) \in Parsed
           /\ LineOK(l) => ParseLine(l) \in Event
<1> DEFINE p == ParseLine(l)
<1>1. p = [l EXCEPT !.type = IF l.type = None THEN "message" ELSE l.type,
                    !.author = IF l.author = None THEN "human" ELSE l.author]
  BY DEF ParseLine
<1>2. DOMAIN l = {"type", "seq", "ref", "name", "author", "body", "at"}
      /\ l.type \in LineType /\ l.seq \in Nat /\ l.ref \in Nat /\ l.name \in STRING
      /\ l.author \in {None} \cup AuthorType /\ l.body \in STRING /\ l.at \in Nat
  BY DEF Line
<1>3. /\ p.type = IF l.type = None THEN "message" ELSE l.type
      /\ p.author = IF l.author = None THEN "human" ELSE l.author
      /\ p.seq = l.seq /\ p.ref = l.ref /\ p.name = l.name /\ p.body = l.body /\ p.at = l.at
      /\ DOMAIN p = {"type", "seq", "ref", "name", "author", "body", "at"}
  BY <1>1, <1>2
<1>4. p = [type |-> p.type, seq |-> p.seq, ref |-> p.ref, name |-> p.name, author |-> p.author,
           body |-> p.body, at |-> p.at]
  BY <1>1, <1>2, <1>3
<1> HIDE DEF p
<1>5. None \notin {"message", "reaction", "unknown", "human", "agent"}
  BY Zenon DEF None
<1>6. p.type \in LineType \ {None} /\ p.author \in AuthorType
  BY <1>2, <1>3, <1>5 DEF LineType, AuthorType
<1>7. p \in Parsed
  BY <1>2, <1>3, <1>4, <1>6 DEF Parsed
<1>8. ASSUME LineOK(l)
      PROVE  p \in Event
  <2>1. l.type \in {None, "message", "reaction"} /\ l.body # None
    BY <1>8 DEF LineOK
  <2>2. l.body \in Content
    BY <1>2, <2>1, ContentIs
  <2>3. p.type \in {"message", "reaction"}
    BY <1>3, <2>1
  <2> QED
    BY <1>2, <1>3, <1>4, <1>6, <2>2, <2>3 DEF Event
<1> QED
  BY <1>7, <1>8 DEF p

\* A file is lines parsed, and if they are all well formed, events.
LEMMA ParseLinesParses ==
    ASSUME NEW lines \in Seq(Line)
    PROVE  /\ ParseLines(lines) \in Seq(Parsed)
           /\ (\A i \in DOMAIN lines : LineOK(lines[i])) => ParseLines(lines) \in Seq(Event)
<1>1. \A i \in DOMAIN lines : lines[i] \in Line
  OBVIOUS
<1>2. PICK p : p = ParseLines(lines)
  OBVIOUS
<1>3. /\ DOMAIN p = DOMAIN lines
      /\ \A i \in DOMAIN lines : p[i] = ParseLine(lines[i])
      /\ p = [i \in DOMAIN lines |-> p[i]]
  BY <1>2 DEF ParseLines
<1>4. DOMAIN lines = 1 .. Len(lines) /\ Len(lines) \in Nat
  OBVIOUS
<1>5. \A i \in DOMAIN lines : p[i] \in Parsed /\ (LineOK(lines[i]) => p[i] \in Event)
  BY <1>1, <1>3, ParseLineParses
<1>6. p \in Seq(Parsed)
  BY <1>3, <1>4, <1>5
<1>7. ASSUME \A i \in DOMAIN lines : LineOK(lines[i])
      PROVE  p \in Seq(Event)
  BY <1>3, <1>4, <1>5, <1>7
<1> QED
  BY <1>2, <1>6, <1>7

\* The first request of a command, and what it needs for it.
LEMMA PlanIs ==
    ASSUME NEW cmd \in Command
    PROVE  /\ PlanOf(cmd).first \in Steps
           /\ PlanOf(cmd).first \in {"message", "reaction"} /\ PlanOf(cmd).ok => cmd.body # None
<1> DEFINE p == PlanOf(cmd)
<1>1. cmd.op \in {"listChannels", "newChannel", "listThreads", "newThread", "export", "read",
                  "append", "import", "send", "react", "inbox"}
  BY DEF Command
<1>2. CASE cmd.op = "listChannels"
  BY <1>2 DEF PlanOf, Plan, ChannelListCmd, Steps
<1>3. CASE cmd.op = "newChannel"
  BY <1>3 DEF PlanOf, Plan, ChannelCreateCmd, Steps
<1>4. CASE cmd.op = "listThreads"
  BY <1>4 DEF PlanOf, Plan, ThreadListCmd, Steps
<1>5. CASE cmd.op = "newThread"
  BY <1>5 DEF PlanOf, Plan, ThreadNewCmd, Steps
<1>6. CASE cmd.op = "export"
  BY <1>6 DEF PlanOf, Plan, ThreadExportCmd, Steps
<1>7. CASE cmd.op = "read"
  BY <1>7 DEF PlanOf, Plan, AgentReadCmd, Steps
<1>8. CASE cmd.op = "append"
  BY <1>8 DEF PlanOf, Plan, AgentAppendCmd, Steps
<1>9. CASE cmd.op = "import"
  BY <1>9 DEF PlanOf, Plan, ThreadImportCmd, Steps
<1>10. CASE cmd.op = "send"
  BY <1>10 DEF PlanOf, Plan, MessageSendCmd, Steps
<1>11. CASE cmd.op = "react"
  BY <1>11 DEF PlanOf, Plan, ReactAddCmd, Steps
<1>12. CASE cmd.op = "inbox"
  BY <1>12 DEF PlanOf, Plan, InboxCmd, Steps
<1> QED
  BY <1>1, <1>2, <1>3, <1>4, <1>5, <1>6, <1>7, <1>8, <1>9, <1>10, <1>11, <1>12

\* A client that has begun a command.
Begun(cmd, first, lines, code) ==
    [cmd |-> cmd, step |-> first, code |-> code, waiting |-> FALSE, chan |-> 0,
     thread |-> cmd.thread, lines |-> lines, msgs |-> <<>>, known |-> <<>>]

\* It is as Begin makes it.
LEMMA BegunIs ==
    ASSUME NEW cmd, NEW first, NEW lines, NEW code
    PROVE  [Idle(cmd) EXCEPT !.step = first, !.thread = cmd.thread, !.lines = lines, !.code = code]
             = Begun(cmd, first, lines, code)
<1>1. PICK none, w, e : none = None /\ w = FALSE /\ e = <<>>
  OBVIOUS
<1>2. Idle(cmd) =
            [cmd |-> cmd, step |-> none, code |-> "NONE", waiting |-> w, chan |-> 0,
             thread |-> 0, lines |-> e, msgs |-> e, known |-> e]
  BY <1>1 DEF Idle
<1>3. PICK k0 : k0 = [Idle(cmd) EXCEPT !.step = first]
  OBVIOUS
<1>4. k0 = [cmd |-> cmd, step |-> first, code |-> "NONE", waiting |-> w, chan |-> 0,
             thread |-> 0, lines |-> e, msgs |-> e, known |-> e]
  BY <1>2, <1>3
<1>5. PICK k1 : k1 = [k0 EXCEPT !.thread = cmd.thread]
  OBVIOUS
<1>6. k1 = [cmd |-> cmd, step |-> first, code |-> "NONE", waiting |-> w, chan |-> 0,
             thread |-> cmd.thread, lines |-> e, msgs |-> e, known |-> e]
  BY <1>4, <1>5
<1>7. PICK k2 : k2 = [k1 EXCEPT !.lines = lines]
  OBVIOUS
<1>8. k2 = [cmd |-> cmd, step |-> first, code |-> "NONE", waiting |-> w, chan |-> 0,
             thread |-> cmd.thread, lines |-> lines, msgs |-> e, known |-> e]
  BY <1>6, <1>7
<1>9. PICK k3 : k3 = [k2 EXCEPT !.code = code]
  OBVIOUS
<1>10. k3 = [cmd |-> cmd, step |-> first, code |-> code, waiting |-> w, chan |-> 0,
             thread |-> cmd.thread, lines |-> lines, msgs |-> e, known |-> e]
  BY <1>8, <1>9
<1> QED
  BY <1>1, <1>3, <1>5, <1>7, <1>9, <1>10 DEF Begun

\* Begin starts a command, or refuses it.
LEMMA BeginKeeps ==
    ASSUME IInv, NEW c \in Client, NEW cmd \in Commands, Free(c), Begin(c, cmd)
    PROVE  IInv'
<1> DEFINE file == File(cmd)
           code == IF ~PlanOf(cmd).ok THEN "BAD_ARGS"
                   ELSE IF \E i \in DOMAIN file : ~LineOK(file[i]) THEN "BAD_JSONL" ELSE None
           k == Begun(cmd, PlanOf(cmd).first, ParseLines(file), code)
<1>1. /\ Global /\ Own(c) /\ DOMAIN cl = Client /\ DOMAIN wrote = Client
      /\ exported.lines \in Seq(Line)
  BY DEF IInv, Global
<1>2. /\ h[c].phase = "none" /\ h' = h /\ db' = db /\ tx' = tx /\ started' = started /\ lost' = lost
      /\ exported' = exported /\ up' = up
  BY DEF Free, Begin
<1>3. cl' = [cl EXCEPT ![c] = k] /\ wrote' = [wrote EXCEPT ![c] = {}]
  BY BegunIs DEF Begin
<1>4. cmd \in Command
  BY CommandAssumption
<1>5. file \in Seq(Line)
  BY <1>1, <1>4 DEF File, Command
<1>6. /\ PlanOf(cmd).first \in Steps
      /\ PlanOf(cmd).first \in {"message", "reaction"} /\ PlanOf(cmd).ok => cmd.body # None
  BY <1>4, PlanIs
<1>7. /\ ParseLines(file) \in Seq(Parsed)
      /\ (\A i \in DOMAIN file : LineOK(file[i])) => ParseLines(file) \in Seq(Event)
  BY <1>5, ParseLinesParses
<1>8. code \in {"BAD_ARGS", "BAD_JSONL", None}
  OBVIOUS
<1>9. code = None => PlanOf(cmd).ok /\ \A i \in DOMAIN file : LineOK(file[i])
  BY NoneIsOther DEF Codes
<1> HIDE DEF file, code
<1>10. /\ k.cmd = cmd /\ k.step = PlanOf(cmd).first /\ k.code = code /\ k.waiting = FALSE
       /\ k.lines = ParseLines(file)
  BY DEF Begun
<1>11. k \in ClientState
  <2>1. code \in Outcomes /\ cmd.thread \in Nat
    BY <1>4, <1>8 DEF Outcomes, Codes, Command
  <2>2. <<>> \in Seq(MessageRow)
    OBVIOUS
  <2> QED
    BY <1>4, <1>6, <1>7, <2>1, <2>2 DEF Begun, ClientState
<1>12. code = None => Asks(k)
  BY <1>6, <1>7, <1>9, <1>10, NoneIsOther DEF Asks
<1> HIDE DEF k
<1>13. cl'[c] = k /\ h'[c] = h[c] /\ wrote'[c] = {}
  BY <1>1, <1>2, <1>3
<1>14. Own(c)'
  <2>1. ClientTypes(c)'
    BY <1>1, <1>11, <1>13 DEF Own, ClientTypes
  <2>2. ~Succeeded(c)'
    BY <1>2 DEF Succeeded
  <2>3. Serves(c)'
    BY <1>2, <1>10, <1>12, <1>13, <2>2 DEF Serves
  <2>4. code \notin {"OK", "DELIVERY_UNKNOWN", "DAEMON_DOWN", "DAEMON_ERROR"}
    BY <1>8, NoneIsOther DEF Codes
  <2>5. Acts(c)'
    BY <1>1, <1>2, <1>13 DEF Own, Acts
  <2>6. Acted(c)'
    BY <1>2, <1>10, <1>13, <2>2, <2>4 DEF Acted
  <2>7. Cardinality(wrote'[c]) = 0
    BY <1>13, FS_EmptySet
  <2>8. Told(c)'
    BY <1>2, <1>10, <1>13, <2>2, <2>4, <2>7 DEF Told
  <2> QED
    BY <2>1, <2>3, <2>5, <2>6, <2>8 DEF Own
<1>15. \A x \in Client \ {c} : Own(x)'
  <2> TAKE x \in Client \ {c}
  <2>1. cl'[x] = cl[x] /\ h'[x] = h[x] /\ wrote'[x] = wrote[x]
    BY <1>1, <1>2, <1>3
  <2> QED
    BY <1>2, <2>1, OthersStay
<1>16. TxOK'
  <2>1. TxOK /\ tx.owner # c
    BY <1>1, <1>2 DEF Global, TxOK
  <2>2. tx.owner # Nobody => cl'[tx.owner] = cl[tx.owner]
    BY <1>1, <1>3, <2>1 DEF TxOK
  <2> QED
    BY <1>2, <2>1, <2>2, TxStays
<1>17. \A x \in Client : wrote'[x] \in SUBSET wrote[x]
  BY <1>1, <1>3
<1>18. DOMAIN cl' = Client /\ DOMAIN h' = Client /\ DOMAIN wrote' = Client
  BY <1>1, <1>2, <1>3 DEF Global
<1>19. ~up' => \A x \in Client : h'[x].phase = "none"
  BY <1>1, <1>2 DEF Global
<1>20. Global'
  BY <1>1, <1>2, <1>16, <1>17, <1>18, <1>19, GlobalStays
<1> QED
  BY <1>14, <1>15, <1>20 DEF IInv

\* The client's record after a step that changes only where it is in its command.
SameRequest(k2, k) ==
    k2.cmd = k.cmd /\ k2.step = k.step /\ k2.lines = k.lines

\* It asks for the same.
LEMMA SameRequestAsks ==
    ASSUME NEW k, NEW k2, SameRequest(k2, k)
    PROVE  /\ Asks(k) => Asks(k2)
           /\ Expected(k2) = Expected(k)
           /\ Import(k2) = Import(k)
BY DEF SameRequest, Asks, Expected, Import

\* The beginning or the end of a wait.
LEMMA Waits ==
    ASSUME NEW k \in ClientState, NEW w \in BOOLEAN, NEW k2, k2 = [k EXCEPT !.waiting = w]
    PROVE  k2 \in ClientState /\ SameRequest(k2, k) /\ k2.waiting = w /\ k2.code = k.code
BY DEF ClientState, SameRequest

\* The end of a command.
LEMMA Ends ==
    ASSUME NEW k \in ClientState, NEW code \in Outcomes, NEW k2, k2 = [k EXCEPT !.code = code]
    PROVE  k2 \in ClientState /\ SameRequest(k2, k) /\ k2.code = code /\ k2.waiting = k.waiting
BY DEF ClientState, SameRequest

\* The next request is sent, or there is no daemon to send it to.
LEMMA CallKeeps ==
    ASSUME IInv, NEW c \in Client, Call(c)
    PROVE  IInv'
<1>1. /\ Global /\ Own(c) /\ TxOK /\ DOMAIN cl = Client /\ DOMAIN h = Client /\ DOMAIN wrote = Client
      /\ exported.lines \in Seq(Line)
      /\ cl[c] \in ClientState /\ Handler(h[c])
  BY DEF IInv, Global, Own, ClientTypes
<1>2. /\ cl[c].code = None /\ ~cl[c].waiting
      /\ db' = db /\ tx' = tx /\ started' = started /\ lost' = lost /\ exported' = exported /\ up' = up
      /\ wrote' = [wrote EXCEPT ![c] = {}]
  BY DEF Call
<1>3. h[c].phase = "none" /\ Asks(cl[c]) /\ h[c].pending = {}
  BY <1>1, <1>2, NoneIsOther DEF Own, Serves, Acts
<1>4. Cardinality(wrote'[c]) = 0 /\ wrote'[c] = {}
  BY <1>1, <1>2, FS_EmptySet
<1>5. \A x \in Client : wrote'[x] \in SUBSET wrote[x]
  BY <1>1, <1>2
<1>6. tx.owner # c
  BY <1>1, <1>3 DEF TxOK
<1>7. CASE up
  <2>1. /\ cl' = [cl EXCEPT ![c] = [cl[c] EXCEPT !.waiting = TRUE]]
        /\ h' = [h EXCEPT ![c] = [h[c] EXCEPT !.phase = "sent"]]
    BY <1>7 DEF Call
  <2>2. PICK k : k = [cl[c] EXCEPT !.waiting = TRUE]
    OBVIOUS
  <2>3. k \in ClientState /\ SameRequest(k, cl[c]) /\ k.waiting /\ k.code = None
    <3>1. PICK w \in BOOLEAN : w = TRUE
      OBVIOUS
    <3>2. PICK k0 \in ClientState : k0 = cl[c]
      BY <1>1
    <3>3. k = [k0 EXCEPT !.waiting = w]
      BY Zenon, <2>2, <3>1, <3>2
    <3>4. k \in ClientState /\ SameRequest(k, k0) /\ k.waiting = w /\ k.code = k0.code
      BY <3>3, Waits
    <3> QED
      BY <1>2, <3>1, <3>2, <3>4
  <2>4. cl'[c] = k
    BY <1>1, <2>1, <2>2
  <2>5. /\ h'[c].phase = "sent" /\ h'[c].pending = {} /\ h'[c].reply = h[c].reply
        /\ DOMAIN h'[c] = {"phase", "reply", "pending"}
    BY <1>1, <1>3, <2>1 DEF Handler
  <2>6. Own(c)'
    <3>1. ClientTypes(c)'
      BY <2>3, <2>4, <2>5 DEF ClientTypes, Handler, Phases
    <3>2. ~Succeeded(c)'
      BY <2>5 DEF Succeeded
    <3>3. Serves(c)'
      BY <1>3, <2>3, <2>4, <2>5, <3>2, SameRequestAsks DEF Serves
    <3>4. Acts(c)'
      BY <1>4, <2>5 DEF Acts
    <3>5. k.code \notin {"OK", "DELIVERY_UNKNOWN", "DAEMON_DOWN", "DAEMON_ERROR"}
      BY <2>3, NoneIsOther DEF Codes
    <3>6. Acted(c)'
      BY <2>4, <3>2, <3>5 DEF Acted
    <3>7. Told(c)'
      BY <1>4, <2>3, <2>4, <2>5, <3>2, <3>5 DEF Told
    <3> QED
      BY <3>1, <3>3, <3>4, <3>6, <3>7 DEF Own
  <2>7. \A x \in Client \ {c} : Own(x)'
    <3> TAKE x \in Client \ {c}
    <3>1. cl'[x] = cl[x] /\ h'[x] = h[x] /\ wrote'[x] = wrote[x]
      BY <1>1, <1>2, <2>1
    <3> QED
      BY <1>2, <3>1, OthersStay
  <2>8. \A x \in Client : (h'[x].phase = "tx") = (h[x].phase = "tx")
    BY <1>1, <1>3, <2>1, <2>5
  <2>9. tx.owner # Nobody => cl'[tx.owner] = cl[tx.owner]
    BY <1>1, <1>6, <2>1 DEF TxOK
  <2>10. TxOK'
    BY <1>1, <1>2, <2>8, <2>9, TxStays
  <2>11. DOMAIN cl' = Client /\ DOMAIN h' = Client /\ DOMAIN wrote' = Client
    BY <1>1, <1>2, <2>1
  <2>12. Global'
    BY <1>1, <1>2, <1>5, <1>7, <2>10, <2>11, GlobalStays
  <2> QED
    BY <2>6, <2>7, <2>12 DEF IInv
<1>8. CASE ~up
  <2>1. /\ cl' = [cl EXCEPT ![c] = [[cl[c] EXCEPT !.code = "DAEMON_DOWN"] EXCEPT !.waiting = FALSE]]
        /\ h' = h
    BY <1>1, <1>8 DEF Call, End
  <2>2. PICK k1 : k1 = [cl[c] EXCEPT !.code = "DAEMON_DOWN"]
    OBVIOUS
  <2>3. k1 \in ClientState /\ SameRequest(k1, cl[c]) /\ k1.code = "DAEMON_DOWN"
    <3>1. "DAEMON_DOWN" \in Outcomes
      BY DEF Outcomes
    <3> QED
      BY <1>1, <2>2, <3>1, Ends
  <2>4. PICK k : k = [k1 EXCEPT !.waiting = FALSE]
    OBVIOUS
  <2>5. k \in ClientState /\ SameRequest(k, k1) /\ ~k.waiting /\ k.code = "DAEMON_DOWN"
    BY <2>3, <2>4, Waits
  <2>6. cl'[c] = k
    BY <1>1, <2>1, <2>2, <2>4
  <2>7. Own(c)'
    <3>1. ClientTypes(c)'
      BY <1>1, <2>1, <2>5, <2>6 DEF ClientTypes
    <3>2. ~Succeeded(c)'
      BY <1>3, <2>1 DEF Succeeded
    <3>3. Serves(c)'
      BY <1>3, <2>1, <2>5, <2>6, <3>2, NoneIsOther DEF Serves
    <3>4. Acts(c)'
      BY <1>1, <1>3, <1>4, <2>1 DEF Acts, Own
    <3>5. Acted(c)'
      BY <2>5, <2>6, <3>2 DEF Acted
    <3>6. Told(c)'
      BY <1>3, <1>4, <2>1, <2>5, <2>6, <3>2 DEF Told
    <3> QED
      BY <3>1, <3>3, <3>4, <3>5, <3>6 DEF Own
  <2>8. \A x \in Client \ {c} : Own(x)'
    <3> TAKE x \in Client \ {c}
    <3>1. cl'[x] = cl[x] /\ h'[x] = h[x] /\ wrote'[x] = wrote[x]
      BY <1>1, <1>2, <2>1
    <3> QED
      BY <1>2, <3>1, OthersStay
  <2>9. tx.owner # Nobody => cl'[tx.owner] = cl[tx.owner]
    BY <1>1, <1>6, <2>1 DEF TxOK
  <2>10. TxOK'
    BY <1>1, <1>2, <2>1, <2>9, TxStays
  <2>11. DOMAIN cl' = Client /\ DOMAIN h' = Client /\ DOMAIN wrote' = Client
    BY <1>1, <1>2, <2>1
  <2>12. Global'
    <3>1. ~up' => \A x \in Client : h'[x].phase = "none"
      BY <1>1, <1>2, <2>1 DEF Global
    <3> QED
      BY <1>1, <1>2, <1>5, <2>10, <2>11, <3>1, GlobalStays
  <2> QED
    BY <2>7, <2>8, <2>12 DEF IInv
<1> QED
  BY <1>7, <1>8

\* The client gives up on an answer.
LEMMA LoseKeeps ==
    ASSUME IInv, NEW c \in Client, Lose(c)
    PROVE  IInv'
<1> DEFINE code == LostCode(cl[c].step)
<1>1. /\ Global /\ Own(c) /\ TxOK /\ DOMAIN cl = Client /\ DOMAIN h = Client /\ DOMAIN wrote = Client
      /\ exported.lines \in Seq(Line)
      /\ cl[c] \in ClientState /\ Handler(h[c])
  BY DEF IInv, Global, Own, ClientTypes
<1>2. /\ cl[c].waiting
      /\ db' = db /\ tx' = tx /\ started' = started /\ lost' = lost /\ exported' = exported /\ up' = up
      /\ wrote' = wrote /\ h' = h
      /\ cl' = [cl EXCEPT ![c] = [[cl[c] EXCEPT !.code = code] EXCEPT !.waiting = FALSE]]
  BY <1>1 DEF Lose, End
<1>3. cl[c].code = None /\ Asks(cl[c])
  BY <1>1, <1>2 DEF Own, Serves
<1>4. /\ code \in {"DELIVERY_UNKNOWN", "DAEMON_DOWN"}
      /\ code = "DAEMON_DOWN" => cl[c].step \notin PostStep
  BY DEF LostCode
<1> HIDE DEF code
<1>5. PICK k1 : k1 = [cl[c] EXCEPT !.code = code]
  OBVIOUS
<1>6. k1 \in ClientState /\ SameRequest(k1, cl[c]) /\ k1.code = code
  <2>1. code \in Outcomes
    BY <1>4 DEF Outcomes
  <2> QED
    BY <1>1, <1>5, <2>1, Ends
<1>7. PICK k : k = [k1 EXCEPT !.waiting = FALSE]
  OBVIOUS
<1>8. k \in ClientState /\ SameRequest(k, k1) /\ ~k.waiting /\ k.code = code
  BY <1>6, <1>7, Waits
<1>9. cl'[c] = k /\ SameRequest(k, cl[c])
  BY <1>1, <1>2, <1>5, <1>6, <1>7, <1>8 DEF SameRequest
<1>10. /\ Asks(k) /\ Expected(k) = Expected(cl[c]) /\ Import(k) = Import(cl[c])
       /\ k.cmd = cl[c].cmd /\ k.step = cl[c].step
  BY <1>3, <1>9, SameRequestAsks DEF SameRequest
<1>11. Succeeded(c)' = Succeeded(c)
  BY <1>2 DEF Succeeded
<1>12. Own(c)'
  <2>1. ClientTypes(c)'
    BY <1>1, <1>2, <1>8, <1>9 DEF ClientTypes
  <2>2. Serves(c)'
    BY <1>1, <1>2, <1>4, <1>8, <1>9, <1>10, <1>11 DEF Serves, Own
  <2>3. Acts(c)'
    BY <1>1, <1>2, <1>9, <1>10 DEF Acts, Own
  <2>4. code # "OK" /\ code # None /\ code # "DAEMON_ERROR"
    BY <1>4, NoneIsOther
  <2>5. Acted(c)'
    BY <1>1, <1>2, <1>8, <1>9, <1>10, <1>11, <2>4 DEF Acted, Own
  <2>6. Told(c)'
    <3>1. code = "DAEMON_DOWN" => Expected(cl[c]) = 0
      BY <1>4 DEF Expected, PostStep
    <3> QED
      BY <1>1, <1>2, <1>4, <1>8, <1>9, <1>10, <1>11, <2>4, <3>1 DEF Told, Own
  <2> QED
    BY <2>1, <2>2, <2>3, <2>5, <2>6 DEF Own
<1>13. \A x \in Client \ {c} : Own(x)'
  <2> TAKE x \in Client \ {c}
  <2>1. cl'[x] = cl[x] /\ h'[x] = h[x] /\ wrote'[x] = wrote[x]
    BY <1>1, <1>2
  <2> QED
    BY <1>2, <2>1, OthersStay
<1>14. tx.owner # Nobody => cl'[tx.owner].cmd = cl[tx.owner].cmd
  BY <1>1, <1>2, <1>9, <1>10 DEF TxOK
<1>15. TxOK'
  BY <1>1, <1>2, <1>14, TxStays
<1>16. DOMAIN cl' = Client /\ DOMAIN h' = Client /\ DOMAIN wrote' = Client
  BY <1>1, <1>2
<1>17. ~up' => \A x \in Client : h'[x].phase = "none"
  BY <1>1, <1>2 DEF Global
<1>18. \A x \in Client : wrote'[x] \in SUBSET wrote[x]
  BY <1>2
<1>19. Global'
  BY <1>1, <1>2, <1>15, <1>16, <1>17, <1>18, GlobalStays
<1> QED
  BY <1>12, <1>13, <1>19 DEF IInv

----------------------------------------------------------------------------
(* The steps of the handlers *)

\* A message starts a session if a person has posted it now and it mentions
\* someone.
LEMMA TriggersAre ==
    ASSUME NEW d, NEW k, NEW from, NEW i
    PROVE  i \in Triggers(d, k, from) <=>
              /\ i \in DOMAIN d.messages /\ ~k.cmd.agent /\ ~Import(k) /\ i > from
              /\ d.messages[i].body \in MentionBody /\ d.messages[i].author # "agent"
BY DEF Triggers

\* What a commit makes of the database and of its request.
Commits(c, d, out) ==
    /\ Consistent(d) /\ Extends(db, d)
    /\ Answered(d, cl[c].step, out)
    /\ IsFiniteSet(NewRows(db, d)) /\ Cardinality(NewRows(db, d)) = Expected(cl[c])
    /\ \A i \in DOMAIN d.messages \ DOMAIN db.messages :
          cl[c].cmd.agent => d.messages[i].author = "agent"

\* The rows that are new are not those of before.
LEMMA NewMessagesAre ==
    ASSUME NEW d, NEW e, Consistent(d), Consistent(e), Extends(d, e), NEW i
    PROVE  /\ <<"messages", i>> \in NewRows(d, e) <=> i \in DOMAIN e.messages /\ i \notin DOMAIN d.messages
           /\ i \in DOMAIN e.messages => i \in Nat /\ (i > Len(d.messages) <=> i \notin DOMAIN d.messages)
           /\ i \in DOMAIN d.messages => i \in DOMAIN e.messages
<1>1. /\ d.messages \in Seq(MessageRow) /\ e.messages \in Seq(MessageRow)
      /\ d["messages"] = d.messages /\ e["messages"] = e.messages
  BY TablesAre DEF Consistent
<1>2. <<"messages", i>> \in NewRows(d, e) <=> i \in DOMAIN e.messages /\ i \notin DOMAIN d.messages
  BY <1>1, RowsAre DEF Table
<1>3. /\ DOMAIN d.messages = 1 .. Len(d.messages) /\ Len(d.messages) \in Nat
      /\ DOMAIN e.messages = 1 .. Len(e.messages) /\ Len(e.messages) \in Nat
  BY <1>1
<1>4. i \in DOMAIN d.messages => i \in DOMAIN e.messages
  BY <1>1 DEF Extends, Table
<1> QED
  BY <1>2, <1>3, <1>4

\* A client that serves a request has not been told OK yet.
LEMMA ServedIsOpen ==
    ASSUME NEW c \in Client, Serves(c), h[c].phase # "none"
    PROVE  cl[c].code \in {None, "DELIVERY_UNKNOWN", "DAEMON_DOWN"} /\ cl[c].code # "OK"
BY NoneIsOther DEF Serves, Codes

\* A commit.
LEMMA CommittedKeeps ==
    ASSUME IInv, NEW c \in Client, NEW d, NEW out, Committed(c, d, out), Commits(c, d, out),
           h[c].phase \in {"sent", "tx"}, tx.owner \in {c, Nobody},
           tx' = NoTx \/ (tx' = tx /\ tx.owner = Nobody),
           cl' = cl, up' = up, started' = started, lost' = lost, exported' = exported
    PROVE  IInv'
<1> DEFINE todo == Triggers(d, cl[c], Len(db.messages))
<1>1. /\ Global /\ Own(c) /\ TxOK /\ DOMAIN cl = Client /\ DOMAIN h = Client /\ DOMAIN wrote = Client
      /\ exported.lines \in Seq(Line) /\ started \in Seq(Nat)
      /\ cl[c] \in ClientState /\ Handler(h[c]) /\ Consistent(db) /\ Serves(c) /\ Acts(c)
  BY DEF IInv, Global, Own, ClientTypes
<1>2. /\ db' = d
      /\ wrote' = [wrote EXCEPT ![c] = wrote[c] \cup NewRows(db, d)]
      /\ h' = [h EXCEPT ![c] = [phase |-> IF todo = {} THEN "answered" ELSE "starting",
                                reply |-> [code |-> "OK", out |-> out], pending |-> todo]]
  BY <1>1 DEF Committed
<1>3. /\ Consistent(d) /\ Extends(db, d) /\ Answered(d, cl[c].step, out)
      /\ IsFiniteSet(NewRows(db, d)) /\ Cardinality(NewRows(db, d)) = Expected(cl[c])
      /\ \A i \in DOMAIN d.messages \ DOMAIN db.messages :
          cl[c].cmd.agent => d.messages[i].author = "agent"
  BY DEF Commits
<1>4. \A i : i \in todo <=>
              /\ i \in DOMAIN d.messages /\ ~cl[c].cmd.agent /\ ~Import(cl[c])
              /\ i > Len(db.messages)
              /\ d.messages[i].body \in MentionBody /\ d.messages[i].author # "agent"
  BY TriggersAre
<1> HIDE DEF todo
<1>5. \A i : /\ <<"messages", i>> \in NewRows(db, d) <=> i \in DOMAIN d.messages /\ i \notin DOMAIN db.messages
             /\ i \in DOMAIN d.messages => i \in Nat /\ (i > Len(db.messages) <=> i \notin DOMAIN db.messages)
             /\ i \in DOMAIN db.messages => i \in DOMAIN d.messages
  BY <1>1, <1>3, NewMessagesAre
<1>6. wrote[c] = {}
  BY <1>1 DEF Acts
<1>7. /\ wrote'[c] = NewRows(db, d) /\ cl'[c] = cl[c]
      /\ h'[c] = [phase |-> IF todo = {} THEN "answered" ELSE "starting",
                                reply |-> [code |-> "OK", out |-> out], pending |-> todo]
  BY <1>1, <1>2, <1>6
<1>8. /\ h'[c].phase = IF todo = {} THEN "answered" ELSE "starting"
      /\ h'[c].reply.code = "OK" /\ h'[c].reply.out = out /\ h'[c].pending = todo
      /\ DOMAIN h'[c] = {"phase", "reply", "pending"}
  BY <1>7
<1>9. /\ NewRows(db, d) \in SUBSET Rows(d)
      /\ NewRows(db, d) \cap Rows(db) = {}
      /\ Rows(db) \in SUBSET Rows(d)
  BY <1>3, ExtendsRows
<1>10. \A i \in ToSet(started) : i \in DOMAIN db.messages
  BY <1>1 DEF Global
<1>11. up
  BY <1>1 DEF Global
<1>12. Own(c)'
  <2>1. ClientTypes(c)'
    <3>1. todo \in SUBSET Nat
      BY <1>4, <1>5
    <3>2. Handler(h'[c])
      BY <1>8, <3>1 DEF Handler, Phases, Codes
    <3> QED
      BY <1>1, <1>7, <3>2 DEF ClientTypes
  <2>2. Serves(c)'
    <3>1. Asks(cl[c])
      BY <1>1 DEF Serves
    <3>2. Asks(cl[c])'
      BY <1>7, <3>1 DEF Asks
    <3>3. cl[c].waiting => cl[c].code = None
      BY <1>1 DEF Serves
    <3>4. ~cl[c].waiting => cl[c].code \in {"DELIVERY_UNKNOWN", "DAEMON_DOWN"}
      BY <1>1 DEF Serves
    <3>5. Answered(db', cl'[c].step, h'[c].reply.out)
      BY <1>2, <1>3, <1>7, <1>8
    <3> QED
      BY <1>7, <1>8, <3>2, <3>3, <3>4, <3>5 DEF Serves
  <2>3. Import(cl[c])' = Import(cl[c])
    BY <1>7 DEF Import
  <2>4. Acts(c)'
    BY <1>2, <1>3, <1>4, <1>5, <1>7, <1>8, <1>9, <1>10, <2>3 DEF Acts
  <2>5. Acted(c)'
    BY <1>1, <1>2, <1>3, <1>4, <1>5, <1>7, <1>8, <2>3, ServedIsOpen DEF Acted
  <2>6. Told(c)'
    <3>1. Expected(cl[c])' = Expected(cl[c])
      BY <1>7 DEF Expected
    <3>2. cl[c].code \in {None, "DELIVERY_UNKNOWN", "DAEMON_DOWN"} /\ cl[c].code # "OK"
      BY <1>1, ServedIsOpen
    <3>3. cl[c].code = "DAEMON_DOWN" => cl[c].step \notin PostStep
      BY <1>1 DEF Own, Told
    <3>4. cl[c].step \notin PostStep => Expected(cl[c]) = 0
      BY DEF Expected, PostStep
    <3>5. cl[c].code # "DAEMON_ERROR"
      BY <3>2, NoneIsOther
    <3>6. Cardinality(wrote'[c]) = Expected(cl[c])
      BY <1>3, <1>7
    <3> QED
      BY <1>7, <1>8, <3>1, <3>2, <3>3, <3>4, <3>5, <3>6 DEF Told
  <2> QED
    BY <2>1, <2>2, <2>4, <2>5, <2>6 DEF Own
<1>13. \A x \in Client \ {c} : cl'[x] = cl[x] /\ h'[x] = h[x] /\ wrote'[x] = wrote[x]
  BY <1>1, <1>2
<1>14. \A x \in Client \ {c} : Own(x)'
  <2> TAKE x \in Client \ {c}
  <2>1. Untouched(x)
    BY <1>1, <1>2, <1>3, <1>13 DEF Untouched
  <2> QED
    BY <1>1, <2>1, UntouchedKeeps DEF IInv
<1>15. \A x \in Client : h'[x].phase # "tx"
  <2>1. \A x \in Client \ {c} : h[x].phase # "tx"
    BY <1>1, ServiceAssumption DEF TxOK
  <2> QED
    BY <1>8, <1>13, <2>1
<1>16. TxOK'
  <2>1. tx'.owner = Nobody /\ DOMAIN tx' = {"owner", "db", "map", "results"}
    BY <1>1 DEF NoTx, TxOK
  <2> QED
    BY <1>15, <2>1, ServiceAssumption DEF TxOK
<1>17. \A x, y \in Client : x # y => wrote'[x] \cap wrote'[y] = {}
  <2>1. \A x, y \in Client : x # y => wrote[x] \cap wrote[y] = {}
    BY <1>1 DEF Global
  <2>2. \A x \in Client : wrote[x] \in SUBSET Rows(db)
    BY DEF IInv, Own, Acts
  <2> QED
    BY <1>7, <1>9, <1>13, <2>1, <2>2
<1>18. DOMAIN cl' = Client /\ DOMAIN h' = Client /\ DOMAIN wrote' = Client
  BY <1>1, <1>2
<1>19. \A i \in ToSet(started) : i \in DOMAIN d.messages
  BY <1>5, <1>10
<1>20. Global'
  BY <1>1, <1>2, <1>3, <1>11, <1>16, <1>17, <1>18, <1>19 DEF Global
<1> QED
  BY <1>12, <1>14, <1>20 DEF IInv

\* An error is answered, and nothing is written.
LEMMA ErrorKeeps ==
    ASSUME IInv, NEW c \in Client, NEW code \in Codes \ {"OK"}, Answer(c, code, <<>>),
           h[c].phase \in {"sent", "tx"}, tx.owner \in {c, Nobody},
           tx' = NoTx \/ (tx' = tx /\ tx.owner = Nobody),
           db' = db, wrote' = wrote, cl' = cl, up' = up, started' = started, lost' = lost, exported' = exported
    PROVE  IInv'
<1>1. /\ Global /\ Own(c) /\ TxOK /\ DOMAIN cl = Client /\ DOMAIN h = Client /\ DOMAIN wrote = Client
      /\ exported.lines \in Seq(Line)
      /\ cl[c] \in ClientState /\ Handler(h[c]) /\ Serves(c) /\ Acts(c) /\ Told(c)
  BY DEF IInv, Global, Own, ClientTypes
<1>2. PICK a : a = [NoHandler EXCEPT !.phase = "answered", !.reply = [code |-> code, out |-> <<>>]]
  OBVIOUS
<1>3. /\ a.phase = "answered" /\ a.reply.code = code /\ a.pending = {}
      /\ DOMAIN a = {"phase", "reply", "pending"}
  BY <1>2 DEF NoHandler
<1>4. h' = [h EXCEPT ![c] = a] /\ h'[c] = a
  BY <1>1, <1>2 DEF Answer
<1>5. wrote[c] = {}
  BY <1>1 DEF Acts
<1>6. Cardinality(wrote'[c]) = 0
  BY <1>5, FS_EmptySet
<1>7. Own(c)'
  <2>1. ClientTypes(c)'
    BY <1>1, <1>3, <1>4 DEF ClientTypes, Handler, Phases
  <2>2. ~Succeeded(c)'
    BY <1>3, <1>4 DEF Succeeded
  <2>3. Serves(c)'
    <3>1. Asks(cl[c])
      BY <1>1 DEF Serves
    <3>2. Asks(cl[c])'
      BY <3>1 DEF Asks
    <3> QED
      BY <1>1, <1>3, <1>4, <2>2, <3>2 DEF Serves
  <2>4. Acts(c)'
    BY <1>3, <1>4, <1>5 DEF Acts
  <2>5. cl[c].code # "OK" /\ cl[c].code # "DAEMON_ERROR"
    BY <1>1, ServedIsOpen, NoneIsOther
  <2>6. Acted(c)'
    BY <2>2, <2>5 DEF Acted
  <2>7. Told(c)'
    <3>1. cl[c].code = "DAEMON_DOWN" => cl[c].step \notin PostStep
      BY <1>1 DEF Told
    <3> QED
      BY <1>6, <2>2, <2>5, <3>1 DEF Told
  <2> QED
    BY <2>1, <2>3, <2>4, <2>6, <2>7 DEF Own
<1>8. \A x \in Client \ {c} : cl'[x] = cl[x] /\ h'[x] = h[x] /\ wrote'[x] = wrote[x]
  BY <1>1, <1>4
<1>9. \A x \in Client \ {c} : Own(x)'
  BY <1>8, OthersStay
<1>10. TxOK'
  <2>1. tx'.owner = Nobody /\ DOMAIN tx' = {"owner", "db", "map", "results"}
    BY <1>1 DEF NoTx, TxOK
  <2>2. \A x \in Client \ {c} : h[x].phase # "tx"
    BY <1>1, ServiceAssumption DEF TxOK
  <2>3. \A x \in Client : h'[x].phase # "tx"
    BY <1>3, <1>4, <1>8, <2>2
  <2> QED
    BY <2>1, <2>3, ServiceAssumption DEF TxOK
<1>11. up
  BY <1>1 DEF Global
<1>12. DOMAIN cl' = Client /\ DOMAIN h' = Client /\ DOMAIN wrote' = Client
  BY <1>1, <1>4
<1>13. Global'
  BY <1>1, <1>10, <1>11, <1>12, GlobalStays
<1> QED
  BY <1>7, <1>9, <1>13 DEF IInv

\* A request of a single transaction.
LEMMA ServeKeeps ==
    ASSUME IInv, NEW c \in Client, Serve(c)
    PROVE  IInv'
<1>1. Consistent(db) /\ cl[c] \in ClientState /\ Serves(c)
  BY DEF IInv, Global, Own, ClientTypes
<1>2. /\ h[c].phase = "sent" /\ tx.owner = Nobody /\ cl[c].step # "events"
      /\ tx' = tx /\ cl' = cl /\ up' = up /\ started' = started /\ lost' = lost /\ exported' = exported
  BY DEF Serve
<1>3. Asks(cl[c])
  BY <1>1, <1>2 DEF Serves
<1>4. PICK r : r = Handle(db, cl[c], Cursor(c))
  OBVIOUS
<1>5. IF r.code = "OK" THEN Committed(c, r.db, r.out)
      ELSE Answer(c, r.code, <<>>) /\ UNCHANGED <<db, wrote>>
  BY <1>4 DEF Serve
<1>6. Handled(db, r, cl[c])
  BY <1>1, <1>2, <1>3, <1>4, HandleHandles
<1>7. CASE r.code = "OK"
  <2>1. Committed(c, r.db, r.out)
    BY <1>5, <1>7
  <2>2. Commits(c, r.db, r.out)
    BY <1>6, <1>7 DEF Handled, Commits
  <2> QED
    BY <1>2, <2>1, <2>2, CommittedKeeps
<1>8. CASE r.code # "OK"
  <2>1. r.code \in Codes \ {"OK"} /\ Answer(c, r.code, <<>>) /\ db' = db /\ wrote' = wrote
    BY <1>5, <1>6, <1>8 DEF Handled
  <2> QED
    BY <1>2, <2>1, ErrorKeeps
<1> QED
  BY <1>7, <1>8

\* A function on 1 .. n is a sequence.
LEMMA SeqFrom ==
    ASSUME NEW S, NEW n \in Nat, NEW p, p = [i \in 1 .. n |-> p[i]], \A i \in 1 .. n : p[i] \in S
    PROVE  p \in Seq(S) /\ Len(p) = n
OBVIOUS

\* The events of a request: those of an agent's are an agent's.
LEMMA ToEventsAre ==
    ASSUME NEW k, k.lines \in Seq(Event)
    PROVE  /\ ToEvents(k) \in Seq(Event)
           /\ Len(ToEvents(k)) = Len(k.lines)
           /\ k.cmd.agent => \A i \in DOMAIN ToEvents(k) : ToEvents(k)[i].author = "agent"
<1>1. ASSUME NEW l \in Event
      PROVE  ToEvent(k, l) \in Event /\ (k.cmd.agent => ToEvent(k, l).author = "agent")
  <2>1. PICK a : a = IF Import(k) /\ ~k.cmd.agent THEN l.author ELSE LiveAuthorType(k)
    OBVIOUS
  <2>2. PICK s : s = IF Import(k) THEN l.seq ELSE 0
    OBVIOUS
  <2>3. /\ l.author \in AuthorType /\ l.seq \in Nat
    BY DEF Event
  <2>4. a \in AuthorType /\ s \in Nat /\ (k.cmd.agent => a = "agent")
    BY <2>1, <2>2, <2>3, LiveAuthorTypeIs
  <2>5. PICK l1 : l1 = [l EXCEPT !.author = a]
    OBVIOUS
  <2>6. l1 \in Event /\ l1.author = a
    BY <2>4, <2>5 DEF Event
  <2>7. PICK l2 : l2 = [l1 EXCEPT !.seq = s]
    OBVIOUS
  <2>8. l2 \in Event /\ l2.author = a
    BY <2>4, <2>6, <2>7 DEF Event
  <2>9. ToEvent(k, l) = [[l EXCEPT !.author = a] EXCEPT !.seq = s]
    BY <2>1, <2>2 DEF ToEvent
  <2> QED
    BY <2>4, <2>5, <2>7, <2>8, <2>9
<1>2. PICK p : p = ToEvents(k)
  OBVIOUS
<1>3. /\ p = [i \in DOMAIN k.lines |-> p[i]]
      /\ \A i \in DOMAIN k.lines : p[i] = ToEvent(k, k.lines[i])
      /\ DOMAIN p = DOMAIN k.lines
  BY <1>2 DEF ToEvents
<1>4. /\ DOMAIN k.lines = 1 .. Len(k.lines) /\ Len(k.lines) \in Nat
      /\ \A i \in DOMAIN k.lines : k.lines[i] \in Event
  OBVIOUS
<1>5. \A i \in DOMAIN k.lines : p[i] \in Event /\ (k.cmd.agent => p[i].author = "agent")
  <2> TAKE i \in DOMAIN k.lines
  <2>1. k.lines[i] \in Event /\ p[i] = ToEvent(k, k.lines[i])
    BY <1>3, <1>4
  <2> QED
    BY <1>1, <2>1
<1>6. p \in Seq(Event) /\ Len(p) = Len(k.lines)
  <2>1. PICK n \in Nat : n = Len(k.lines)
    BY <1>4
  <2>2. p = [i \in 1 .. n |-> p[i]] /\ \A i \in 1 .. n : p[i] \in Event
    BY <1>3, <1>4, <1>5, <2>1
  <2>3. p \in Seq(Event) /\ Len(p) = n
    BY Zenon, <2>2, SeqFrom
  <2> QED
    BY <2>1, <2>3
<1>7. k.cmd.agent => \A i \in DOMAIN p : p[i].author = "agent"
  BY <1>3, <1>5
<1> QED
  BY Zenon, <1>2, <1>6, <1>7

\* The next seq of a thread.
LEMMA NextSeqIs ==
    ASSUME NEW d, Consistent(d), NEW t
    PROVE  NextMessageSeq(d, t) \in Nat /\ NextMessageSeq(d, t) > 0
<1>1. d \in Database /\ Logs(d) /\ Len(d.messages) \in Nat
  BY TablesAre DEF Consistent
<1>2. LastMessageSeq(d, t) = CountTo(d, t, Len(d.messages))
  BY <1>1, LastSeqIsCount
<1>3. CountTo(d, t, Len(d.messages)) \in Nat
  BY <1>1, Counting
<1> QED
  BY <1>2, <1>3 DEF NextMessageSeq

\* A batch begins, or its events are refused.
LEMMA BeginBatchKeeps ==
    ASSUME IInv, NEW c \in Client, BeginBatch(c)
    PROVE  IInv'
<1> DEFINE events == ToEvents(cl[c])
           map == SourceSequenceMap(events, NextMessageSeq(db, cl[c].thread))
<1>1. /\ Global /\ Own(c) /\ TxOK /\ DOMAIN cl = Client /\ DOMAIN h = Client /\ DOMAIN wrote = Client
      /\ exported.lines \in Seq(Line) /\ Consistent(db)
      /\ cl[c] \in ClientState /\ Handler(h[c]) /\ Serves(c) /\ Acts(c) /\ Told(c) /\ Acted(c)
  BY DEF IInv, Global, Own, ClientTypes
<1>2. /\ h[c].phase = "sent" /\ tx.owner = Nobody /\ cl[c].step = "events"
      /\ db' = db /\ wrote' = wrote
      /\ cl' = cl /\ up' = up /\ started' = started /\ lost' = lost /\ exported' = exported
      /\ \/ /\ tx' = [owner |-> c, db |-> db, results |-> <<>>, map |-> map]
            /\ h' = [h EXCEPT ![c] = [h[c] EXCEPT !.phase = "tx"]]
         \/ Answer(c, "BAD_JSONL", <<>>) /\ tx' = tx
  BY <1>1 DEF BeginBatch
<1>3. Asks(cl[c])
  BY <1>1, <1>2 DEF Serves
<1>4. events \in Seq(Event)
  BY <1>3, ToEventsAre DEF Asks
<1>5. NextMessageSeq(db, cl[c].thread) \in Nat /\ NextMessageSeq(db, cl[c].thread) > 0
  BY <1>1, NextSeqIs
<1>6. SeqMap(map)
  BY <1>4, <1>5, SourceSequenceMapGivesSeqs
<1> HIDE DEF map, events
<1>7. CASE Answer(c, "BAD_JSONL", <<>>) /\ tx' = tx
  <2>1. "BAD_JSONL" \in Codes \ {"OK"}
    BY DEF Codes
  <2> QED
    BY <1>2, <1>7, <2>1, ErrorKeeps
<1>8. CASE /\ tx' = [owner |-> c, db |-> db, results |-> <<>>, map |-> map]
           /\ h' = [h EXCEPT ![c] = [h[c] EXCEPT !.phase = "tx"]]
  <2>1. /\ h'[c].phase = "tx" /\ h'[c].reply = h[c].reply /\ h'[c].pending = h[c].pending
        /\ DOMAIN h'[c] = {"phase", "reply", "pending"}
    BY <1>1, <1>8 DEF Handler
  <2>2. ~Succeeded(c)' /\ ~Succeeded(c)
    BY <1>2, <2>1 DEF Succeeded
  <2>3. Own(c)'
    <3>1. ClientTypes(c)'
      BY <1>1, <1>2, <2>1 DEF ClientTypes, Handler, Phases
    <3>2. Asks(cl[c])'
      BY <1>2, <1>3 DEF Asks
    <3>3. Serves(c)'
      BY <1>1, <1>2, <2>1, <2>2, <3>2 DEF Serves
    <3>4. Import(cl[c])' = Import(cl[c]) /\ Expected(cl[c])' = Expected(cl[c])
      BY <1>2 DEF Import, Expected
    <3>5. Acts(c)'
      BY <1>1, <1>2, <2>1, <3>4 DEF Acts
    <3>6. Acted(c)'
      BY <1>1, <1>2, <2>1, <2>2, <3>4 DEF Acted
    <3>7. Blank(db) = Blank(db')
      BY <1>2
    <3>8. Told(c)'
      BY <1>1, <1>2, <2>1, <2>2, <3>4, <3>7 DEF Told
    <3> QED
      BY <3>1, <3>3, <3>5, <3>6, <3>8 DEF Own
  <2>4. \A x \in Client \ {c} : cl'[x] = cl[x] /\ h'[x] = h[x] /\ wrote'[x] = wrote[x]
    BY <1>1, <1>2, <1>8
  <2>5. \A x \in Client \ {c} : Own(x)'
    BY <1>2, <2>4, OthersStay
  <2>6. TxOK'
    <3>1. /\ tx'.owner = c /\ tx'.db = db /\ tx'.map = map /\ tx'.results = <<>>
          /\ DOMAIN tx' = {"owner", "db", "map", "results"}
      BY <1>8
    <3>2. \A x \in Client : (tx'.owner = x) = (h'[x].phase = "tx")
      BY <1>1, <1>2, <2>1, <2>4, <3>1, ServiceAssumption DEF TxOK
    <3>3. Extends(db, db) /\ NewRows(db, db) = {}
      BY ExtendsIsAPreorder, ExtendsRows
    <3>4. /\ IsFiniteSet(NewRows(db, db)) /\ Cardinality(NewRows(db, db)) = 0
          /\ <<>> \in Seq(Result) /\ Len(<<>>) = 0
      BY <3>3, FS_EmptySet
    <3> QED
      BY <1>1, <1>2, <1>6, <3>1, <3>2, <3>3, <3>4 DEF TxOK
  <2>7. DOMAIN cl' = Client /\ DOMAIN h' = Client /\ DOMAIN wrote' = Client
    BY <1>1, <1>2, <1>8
  <2>8. up
    BY <1>1, <1>2 DEF Global
  <2>9. Global'
    BY <1>1, <1>2, <2>6, <2>7, <2>8, GlobalStays
  <2> QED
    BY <2>3, <2>5, <2>9 DEF IInv
<1> QED
  BY <1>2, <1>7, <1>8

\* What one event of a batch has added to the transaction's database.
EventAdded(d, r, e) ==
    /\ Consistent(r.db)
    /\ AppendResult(e, r.out[1]) \in Result
    /\ \E table \in Table, row \in MessageRow \cup ReactionRow :
          /\ Added(d, r, table, row)
          /\ table = "messages" => row.author = e.author

\* An event adds its message or its reaction, or is refused.
LEMMA EventAdds ==
    ASSUME NEW d, Consistent(d), NEW t \in Nat, NEW map, SeqMap(map), NEW e \in Event,
           NEW r, r = AppendEvent(d, t, map, e)
    PROVE  /\ r.code = "OK" => EventAdded(d, r, e)
           /\ r.code # "OK" => MutationError(r).code \in Codes \ {"OK"}
<1>1. PICK ref : ref = Remap(map, e.ref)
  OBVIOUS
<1>2. /\ e.type = "message" =>
           NewMessage(d, r, t, ParentOf(d, t, ref), e.name, e.author, e.body, e.at)
      /\ e.type # "message" =>
           NewReaction(d, r, MessageIDBySeq(d, t, ref), e.body, e.name, e.author)
  BY <1>1, AppendEventAdds
<1>3. Outcome(r, {"OK", "Invalid", "NotFound", "Conflict"})
  BY <1>2 DEF NewMessage, NewReaction
<1>4. Recoded(MutationError(r), r, "THREAD_NOT_FOUND", "BAD_JSONL")
  BY <1>3, HttpChangesTheCode DEF MutationError
<1>5. r.code # "OK" => MutationError(r).code \in Codes \ {"OK"}
  BY <1>3, <1>4 DEF Recoded, Outcome, Codes
<1>6. CASE r.code = "OK" /\ e.type = "message"
  <2>1. NewMessage(d, r, t, ParentOf(d, t, ref), e.name, e.author, e.body, e.at)
    BY <1>2, <1>6
  <2>2. Consistent(r.db)
    BY <1>6, <2>1 DEF NewMessage
  <2>3. PICK row \in MessageRow : Added(d, r, "messages", row) /\ row.author = e.author
    BY <1>6, <2>1 DEF NewMessage
  <2>4. r.out[1] = row
    BY <2>3 DEF Added
  <2>5. row.seq \in Nat /\ row.id \in Nat
    BY DEF MessageRow
  <2>6. AppendResult(e, r.out[1]) \in Result
    BY <1>6, <2>4, <2>5 DEF AppendResult, Result
  <2> QED
    BY <1>5, <1>6, <2>2, <2>3, <2>6 DEF EventAdded, Table
<1>7. CASE r.code = "OK" /\ e.type # "message"
  <2>1. NewReaction(d, r, MessageIDBySeq(d, t, ref), e.body, e.name, e.author)
    BY <1>2, <1>7
  <2>2. Consistent(r.db)
    BY <1>7, <2>1 DEF NewReaction
  <2>3. PICK row \in ReactionRow : Added(d, r, "reactions", row)
    BY <1>7, <2>1 DEF NewReaction
  <2>4. r.out[1] = row
    BY <2>3 DEF Added
  <2>5. row.message \in Nat /\ row.id \in Nat
    BY DEF ReactionRow
  <2>6. AppendResult(e, r.out[1]) \in Result
    BY <1>7, <2>4, <2>5 DEF AppendResult, Result
  <2> QED
    BY <1>5, <1>7, <2>2, <2>3, <2>6 DEF EventAdded, Table
<1> QED
  BY <1>5, <1>6, <1>7

\* One row more in a transaction is one new row more.
LEMMA OneMoreIsNew ==
    ASSUME NEW d0, NEW d, NEW e, NEW table \in Table, NEW row, OneMore(d0, d, e, table, row),
           Extends(d0, d), IsFiniteSet(NewRows(d0, d))
    PROVE  /\ Extends(d0, e)
           /\ IsFiniteSet(NewRows(d0, e))
           /\ Cardinality(NewRows(d0, e)) = Cardinality(NewRows(d0, d)) + 1
<1>1. /\ NewRows(d0, e) = NewRows(d0, d) \cup {<<table, row.id>>}
      /\ <<table, row.id>> \notin NewRows(d0, d)
      /\ Extends(d, e)
  BY DEF OneMore
<1>2. Extends(d0, e)
  BY <1>1, ExtendsIsAPreorder
<1> QED
  BY <1>1, <1>2, FS_AddElement

\* The messages of e are those of d, and the row if it is one.
MessagesPlus(d, e, table, row) ==
    \A i \in DOMAIN e.messages :
        \/ i \in DOMAIN d.messages /\ e.messages[i] = d.messages[i]
        \/ table = "messages" /\ e.messages[i] = row

\* So are the messages, of which the new one has the row's author.
LEMMA OneMoreMessage ==
    ASSUME NEW d0, NEW d \in Database, NEW e \in Database, NEW table \in Table, NEW row,
           OneMore(d0, d, e, table, row)
    PROVE  MessagesPlus(d, e, table, row)
<1>1. /\ d["messages"] = d.messages /\ e["messages"] = e.messages
  BY TablesAre
<1>2. Extends(d, e)
  BY DEF OneMore
<1>3. \A i \in DOMAIN d.messages : e.messages[i] = d.messages[i]
  BY <1>2, ExtendsKeepsRows
<1>4. CASE table = "messages"
  <2>1. /\ e.messages[row.id] = row
        /\ \A i \in DOMAIN e.messages : i \in DOMAIN d.messages \/ i = row.id
    BY <1>1, <1>4 DEF OneMore
  <2> QED
    BY <1>3, <1>4, <2>1 DEF MessagesPlus
<1>5. CASE table # "messages"
  <2>1. e.messages = d.messages
    BY <1>1, <1>5 DEF OneMore, Table
  <2> QED
    BY <2>1 DEF MessagesPlus
<1> QED
  BY <1>4, <1>5

\* One event of a batch.
LEMMA BatchEventKeeps ==
    ASSUME IInv, NEW c \in Client, BatchEvent(c)
    PROVE  IInv'
<1> DEFINE e == ToEvents(cl[c])[Len(tx.results) + 1]
           r == AppendEvent(tx.db, cl[c].thread, tx.map, e)
<1>1. /\ Global /\ Own(c) /\ TxOK /\ DOMAIN cl = Client /\ DOMAIN h = Client /\ DOMAIN wrote = Client
      /\ exported.lines \in Seq(Line) /\ Consistent(db)
      /\ cl[c] \in ClientState /\ Handler(h[c]) /\ Serves(c)
  BY DEF IInv, Global, Own, ClientTypes
<1>2. /\ tx.owner = c /\ Len(tx.results) < Len(cl[c].lines)
      /\ db' = db /\ wrote' = wrote
      /\ cl' = cl /\ up' = up /\ started' = started /\ lost' = lost /\ exported' = exported
      /\ IF r.code = "OK"
         THEN /\ tx' = [tx EXCEPT !.db = r.db, !.results = Append(@, AppendResult(e, r.out[1]))]
              /\ UNCHANGED h
         ELSE tx' = NoTx /\ Answer(c, MutationError(r).code, <<>>)
  BY DEF BatchEvent
<1>3. h[c].phase = "tx" /\ tx.owner # Nobody
  BY <1>1, <1>2, ServiceAssumption DEF TxOK
<1>4. /\ DOMAIN tx = {"owner", "db", "map", "results"}
      /\ Consistent(tx.db) /\ Extends(db, tx.db)
      /\ SeqMap(tx.map)
      /\ IsFiniteSet(NewRows(db, tx.db))
      /\ tx.results \in Seq(Result)
      /\ Cardinality(NewRows(db, tx.db)) = Len(tx.results)
      /\ \A i \in DOMAIN tx.db.messages \ DOMAIN db.messages :
               cl[c].cmd.agent => tx.db.messages[i].author = "agent"
  BY <1>1, <1>2, <1>3 DEF TxOK
<1>5. Asks(cl[c]) /\ cl[c].thread \in Nat
  BY <1>1, <1>3, ClientFields DEF Serves
<1>6. e \in Event /\ (cl[c].cmd.agent => e.author = "agent")
  <2>1. cl[c].lines \in Seq(Event)
    BY <1>5 DEF Asks
  <2>2. PICK es : es = ToEvents(cl[c])
    OBVIOUS
  <2>3. /\ es \in Seq(Event) /\ Len(es) = Len(cl[c].lines)
        /\ cl[c].cmd.agent => \A i \in DOMAIN es : es[i].author = "agent"
    BY <2>1, <2>2, ToEventsAre
  <2>4. Len(tx.results) \in Nat /\ Len(es) \in Nat
    BY <1>4, <2>3
  <2>5. Len(tx.results) + 1 \in DOMAIN es
    BY <1>2, <2>3, <2>4
  <2> QED
    BY <2>2, <2>3, <2>5
<1> HIDE DEF e
<1>7. /\ r.code = "OK" => EventAdded(tx.db, r, e)
      /\ r.code # "OK" => MutationError(r).code \in Codes \ {"OK"}
  BY <1>4, <1>5, <1>6, EventAdds
<1> HIDE DEF r
<1>8. CASE r.code # "OK"
  <2>1. tx' = NoTx /\ Answer(c, MutationError(r).code, <<>>)
    BY <1>2, <1>8
  <2> QED
    BY <1>2, <1>3, <1>7, <1>8, <2>1, ErrorKeeps
<1>9. CASE r.code = "OK"
  <2>1. PICK res : res = AppendResult(e, r.out[1])
    OBVIOUS
  <2>2. /\ tx' = [tx EXCEPT !.db = r.db, !.results = Append(tx.results, res)]
        /\ h' = h
    BY <1>2, <1>9, <2>1
  <2>3. Consistent(r.db) /\ res \in Result
    BY <1>7, <1>9, <2>1 DEF EventAdded
  <2>4. PICK table \in Table, row \in MessageRow \cup ReactionRow :
          /\ Added(tx.db, r, table, row)
          /\ table = "messages" => row.author = e.author
    BY <1>7, <1>9 DEF EventAdded
  <2>5. tx.db \in Database /\ r.db \in Database
    BY <1>4, <2>3 DEF Consistent
  <2>6. OneMore(db, tx.db, r.db, table, row)
    BY <1>4, <2>4, <2>5, AddedRows
  <2>7. /\ Extends(db, r.db)
        /\ IsFiniteSet(NewRows(db, r.db))
        /\ Cardinality(NewRows(db, r.db)) = Cardinality(NewRows(db, tx.db)) + 1
    BY <1>4, <2>6, OneMoreIsNew
  <2>8. MessagesPlus(tx.db, r.db, table, row)
    BY <2>5, <2>6, OneMoreMessage
  <2>9. /\ tx'.owner = c /\ tx'.db = r.db /\ tx'.map = tx.map
        /\ tx'.results = Append(tx.results, res)
        /\ DOMAIN tx' = {"owner", "db", "map", "results"}
    BY <1>2, <1>4, <2>2
  <2>10. /\ tx'.results \in Seq(Result)
         /\ Len(tx'.results) = Len(tx.results) + 1
    BY <1>4, <2>3, <2>9
  <2>11. TxOK'
    <3>1. \A x \in Client : (tx'.owner = x) = (h'[x].phase = "tx")
      BY <1>1, <1>2, <2>2, <2>9 DEF TxOK
    <3>2. \A i \in DOMAIN r.db.messages \ DOMAIN db.messages :
               cl[c].cmd.agent => r.db.messages[i].author = "agent"
      BY <1>4, <1>6, <2>4, <2>8 DEF MessagesPlus
    <3>3. Cardinality(NewRows(db, r.db)) = Len(tx'.results)
      BY <1>4, <2>7, <2>10
    <3> QED
      BY <1>2, <1>4, <2>3, <2>7, <2>9, <2>10, <3>1, <3>2, <3>3 DEF TxOK
  <2>12. \A x \in Client : Own(x)'
    BY <1>2, <2>2, OthersStay
  <2>13. Global'
    BY <1>1, <1>2, <2>2, <2>11, GlobalStays DEF Global
  <2> QED
    BY <2>12, <2>13 DEF IInv
<1> QED
  BY <1>8, <1>9

\* The batch is committed.
LEMMA CommitBatchKeeps ==
    ASSUME IInv, NEW c \in Client, CommitBatch(c)
    PROVE  IInv'
<1>1. Global /\ TxOK /\ Serves(c)
  BY DEF IInv, Global, Own
<1>2. /\ tx.owner = c /\ Len(tx.results) = Len(cl[c].lines)
      /\ Committed(c, tx.db, tx.results) /\ tx' = NoTx
      /\ cl' = cl /\ up' = up /\ started' = started /\ lost' = lost /\ exported' = exported
  BY DEF CommitBatch
<1>3. h[c].phase = "tx" /\ tx.owner # Nobody
  BY <1>1, <1>2, ServiceAssumption DEF TxOK
<1>4. cl[c].step = "events"
  BY <1>1, <1>3 DEF Serves
<1>5. Answered(tx.db, cl[c].step, tx.results)
  BY <1>4 DEF Answered
<1>6. Expected(cl[c]) = Len(cl[c].lines)
  BY <1>4 DEF Expected
<1>7. Commits(c, tx.db, tx.results)
  BY <1>1, <1>2, <1>3, <1>5, <1>6 DEF Commits, TxOK
<1> QED
  BY <1>2, <1>3, <1>7, CommittedKeeps

\* One session is started, or lost.
LEMMA StartSessionKeeps ==
    ASSUME IInv, NEW c \in Client, StartSession(c)
    PROVE  IInv'
<1>1. /\ Global /\ Own(c) /\ TxOK /\ DOMAIN cl = Client /\ DOMAIN h = Client /\ DOMAIN wrote = Client
      /\ exported.lines \in Seq(Line) /\ Consistent(db) /\ started \in Seq(Nat)
      /\ cl[c] \in ClientState /\ Handler(h[c]) /\ Serves(c) /\ Acts(c) /\ Told(c) /\ Acted(c)
  BY DEF IInv, Global, Own, ClientTypes
<1>2. PICK i \in h[c].pending :
          /\ \/ started' = Append(started, i) /\ lost' = lost
             \/ started' = started /\ lost' = lost \cup {i}
          /\ h' = [h EXCEPT ![c].pending = @ \ {i},
                            ![c].phase = IF h[c].pending = {i} THEN "answered" ELSE @]
  BY DEF StartSession
<1>3. /\ h[c].phase = "starting"
      /\ db' = db /\ tx' = tx /\ wrote' = wrote /\ cl' = cl /\ up' = up /\ exported' = exported
  BY DEF StartSession
<1>4. /\ h'[c].phase = IF h[c].pending = {i} THEN "answered" ELSE "starting"
      /\ h'[c].pending = h[c].pending \ {i}
      /\ h'[c].reply = h[c].reply /\ DOMAIN h'[c] = {"phase", "reply", "pending"}
      /\ DOMAIN h' = Client
      /\ \A x \in Client \ {c} : h'[x] = h[x]
  BY <1>1, <1>2, <1>3 DEF Handler
<1>5. /\ <<"messages", i>> \in wrote[c] /\ i \notin ToSet(started) /\ i \in Nat
      /\ ~cl[c].cmd.agent /\ ~Import(cl[c]) /\ h[c].reply.code = "OK"
  BY <1>1 DEF Acts, Handler
<1>6. ASSUME started' = Append(started, i)
      PROVE  /\ started' \in Seq(Nat)
             /\ ToSet(started') = ToSet(started) \cup {i}
             /\ \A m, n \in DOMAIN started' : started'[m] = started'[n] => m = n
  <2>1. PICK n \in Nat : n = Len(started)
    BY <1>1
  <2>2. /\ DOMAIN started = 1 .. n /\ DOMAIN started' = 1 .. n + 1
        /\ \A m \in 1 .. n : started'[m] = started[m]
        /\ started'[n + 1] = i
        /\ started' \in Seq(Nat)
    BY <1>1, <1>5, <1>6, <2>1
  <2>3. \A m \in 1 .. n + 1 : m \in 1 .. n \/ m = n + 1
    BY <2>1
  <2>4. 1 .. n \in SUBSET 1 .. n + 1 /\ n + 1 \in 1 .. n + 1
    BY <2>1
  <2>5. ToSet(started') = ToSet(started) \cup {i}
    BY <2>2, <2>3, <2>4 DEF ToSet
  <2>6. \A m \in 1 .. n : started[m] # i
    BY <1>5, <2>2 DEF ToSet
  <2>7. \A m1, m2 \in 1 .. n : started[m1] = started[m2] => m1 = m2
    BY <1>1, <2>2 DEF Global
  <2> QED
    BY <2>2, <2>3, <2>5, <2>6, <2>7
<1>6a. /\ started' \in Seq(Nat)
       /\ ToSet(started) \in SUBSET ToSet(started')
       /\ \A j \in ToSet(started') : j \in ToSet(started) \/ j = i
       /\ \A m, n \in DOMAIN started' : started'[m] = started'[n] => m = n
       /\ lost \in SUBSET lost'
       /\ i \in ToSet(started') \/ i \in lost'
  <2>1. CASE started' = Append(started, i) /\ lost' = lost
    BY <1>6, <2>1
  <2>2. CASE started' = started /\ lost' = lost \cup {i}
    BY <1>1, <2>2 DEF Global
  <2> QED
    BY <1>2, <2>1, <2>2
<1>7. Succeeded(c)' /\ Succeeded(c)
  BY <1>3, <1>4, <1>5 DEF Succeeded
<1>8. Import(cl[c])' = Import(cl[c]) /\ Expected(cl[c])' = Expected(cl[c]) /\ Asks(cl[c])' = Asks(cl[c])
  BY <1>3 DEF Import, Expected, Asks
<1>9. Own(c)'
  <2>1. ClientTypes(c)'
    BY <1>1, <1>3, <1>4 DEF ClientTypes, Handler, Phases
  <2>2. Serves(c)'
    BY <1>1, <1>3, <1>4, <1>7, <1>8 DEF Serves
  <2>3. Acts(c)'
    BY <1>1, <1>3, <1>4, <1>5, <1>6a, <1>8 DEF Acts
  <2>4. cl[c].code # "OK"
    BY <1>1, <1>3, ServedIsOpen
  <2>5. Acted(c)'
    BY <1>1, <1>3, <1>4, <1>6a, <1>7, <1>8, <2>4 DEF Acted
  <2>6. Blank(db)' = Blank(db)
    BY <1>3
  <2>7. Told(c)'
    BY <1>1, <1>3, <1>4, <1>5, <1>7, <1>8, <2>6 DEF Told
  <2> QED
    BY <2>1, <2>2, <2>3, <2>5, <2>7 DEF Own
<1>10. Extends(db, db)
  BY ExtendsIsAPreorder
<1>11. \A x \in Client \ {c} : Own(x)'
  <2> TAKE x \in Client \ {c}
  <2>1. <<"messages", i>> \notin wrote[x]
    BY <1>1, <1>5 DEF Global
  <2>2. Untouched(x)
    BY <1>1, <1>3, <1>4, <1>6a, <1>10, <2>1 DEF Untouched
  <2> QED
    BY <1>1, <2>2, UntouchedKeeps DEF IInv
<1>12. TxOK'
  <2>1. \A x \in Client : (h'[x].phase = "tx") = (h[x].phase = "tx")
    BY <1>3, <1>4
  <2> QED
    BY <1>1, <1>3, <2>1, TxStays
<1>13. up
  BY <1>1, <1>3 DEF Global
<1>14. i \in DOMAIN db.messages
  <2>1. wrote[c] \in SUBSET Rows(db)
    BY <1>1 DEF Acts
  <2> QED
    BY <1>1, <1>5, <1>10, <2>1, RowsStay
<1>15. Global'
  BY <1>1, <1>3, <1>4, <1>6a, <1>12, <1>13, <1>14 DEF Global
<1> QED
  BY <1>9, <1>11, <1>15 DEF IInv

\* The handler of a request is gone, and what it has not done with it.
LEMMA DroppedKeeps ==
    ASSUME NEW x \in Client, Own(x), cl'[x] = cl[x], h'[x] = NoHandler, wrote'[x] = wrote[x],
           db' = db, started' = started, lost' = lost
    PROVE  Own(x)'
<1>1. /\ h'[x].phase = "none" /\ h'[x].pending = {}
      /\ DOMAIN h'[x] = {"phase", "reply", "pending"}
  BY DEF NoHandler
<1>2. ClientTypes(x) /\ Serves(x) /\ Acts(x) /\ Acted(x) /\ Told(x)
  BY DEF Own
<1>3. ~Succeeded(x)'
  BY <1>1 DEF Succeeded
<1>4. /\ Import(cl[x])' = Import(cl[x]) /\ Expected(cl[x])' = Expected(cl[x])
      /\ Asks(cl[x])' = Asks(cl[x]) /\ Blank(db)' = Blank(db)
  BY DEF Import, Expected, Asks
<1>5. ClientTypes(x)'
  BY <1>1, <1>2 DEF ClientTypes, Handler, Phases
<1>6. Serves(x)'
  BY <1>1, <1>2, <1>3, <1>4 DEF Serves
<1>7. Acts(x)'
  BY <1>1, <1>2, <1>4 DEF Acts
<1>8. cl[x].code = "OK" => h[x].pending = {}
  BY <1>2 DEF Acts, Acted
<1>9. Acted(x)'
  BY <1>1, <1>2, <1>3, <1>4, <1>8 DEF Acted
<1>10. Told(x)'
  BY <1>1, <1>2, <1>3, <1>4 DEF Told
<1> QED
  BY <1>5, <1>6, <1>7, <1>9, <1>10 DEF Own

\* The handler finds its client gone.
LEMMA AbandonKeeps ==
    ASSUME IInv, NEW c \in Client, Abandon(c)
    PROVE  IInv'
<1>1. /\ Global /\ Own(c) /\ TxOK /\ DOMAIN cl = Client /\ DOMAIN h = Client /\ DOMAIN wrote = Client
      /\ exported.lines \in Seq(Line)
  BY DEF IInv, Global
<1>2. /\ h[c].phase # "none" /\ h' = [h EXCEPT ![c] = NoHandler]
      /\ tx' = IF tx.owner = c THEN NoTx ELSE tx
      /\ db' = db /\ wrote' = wrote /\ cl' = cl /\ up' = up /\ started' = started /\ lost' = lost
      /\ exported' = exported
  BY DEF Abandon
<1>3. h'[c] = NoHandler /\ h'[c].phase # "tx" /\ \A x \in Client \ {c} : h'[x] = h[x]
  BY <1>1, <1>2 DEF NoHandler
<1>4. Own(c)'
  BY <1>1, <1>2, <1>3, DroppedKeeps
<1>5. \A x \in Client \ {c} : Own(x)'
  BY <1>2, <1>3, OthersStay
<1>6. TxOK'
  <2>1. CASE tx.owner = c
    <3>1. \A x \in Client \ {c} : h[x].phase # "tx"
      BY <1>1, <2>1 DEF TxOK
    <3> QED
      BY <1>2, <1>3, <2>1, <3>1, NoTxIsOK
  <2>2. CASE tx.owner # c
    <3>1. h[c].phase # "tx"
      BY <1>1, <2>2 DEF TxOK
    <3>2. \A x \in Client : (h'[x].phase = "tx") = (h[x].phase = "tx")
      BY <1>3, <3>1
    <3> QED
      BY <1>1, <1>2, <2>2, <3>2, TxStays
  <2> QED
    BY <2>1, <2>2
<1>7. up
  BY <1>1, <1>2 DEF Global
<1>8. DOMAIN cl' = Client /\ DOMAIN h' = Client /\ DOMAIN wrote' = Client
  BY <1>1, <1>2
<1>9. Global'
  BY <1>1, <1>2, <1>6, <1>7, <1>8, GlobalStays
<1> QED
  BY <1>4, <1>5, <1>9 DEF IInv

\* The daemon dies, and with it its handlers and their transaction.
LEMMA CrashKeeps ==
    ASSUME IInv, Crash
    PROVE  IInv'
<1>1. /\ Global /\ TxOK /\ DOMAIN cl = Client /\ DOMAIN h = Client /\ DOMAIN wrote = Client
      /\ exported.lines \in Seq(Line)
  BY DEF IInv, Global
<1>2. /\ h' = [c \in Client |-> NoHandler] /\ tx' = NoTx
      /\ db' = db /\ wrote' = wrote /\ cl' = cl /\ started' = started /\ lost' = lost /\ exported' = exported
  BY DEF Crash
<1>3. \A x \in Client : h'[x] = NoHandler /\ h'[x].phase = "none" /\ h'[x].phase # "tx"
  BY <1>2 DEF NoHandler
<1>4. \A x \in Client : Own(x)'
  BY <1>2, <1>3, DroppedKeeps DEF IInv
<1>5. TxOK'
  BY <1>2, <1>3, NoTxIsOK
<1>6. DOMAIN cl' = Client /\ DOMAIN h' = Client /\ DOMAIN wrote' = Client
  BY <1>1, <1>2
<1>7. Global'
  BY <1>1, <1>2, <1>3, <1>5, <1>6, GlobalStays
<1> QED
  BY <1>4, <1>7 DEF IInv

\* It is started again.
LEMMA RestartKeeps ==
    ASSUME IInv, Restart
    PROVE  IInv'
<1>1. /\ Global /\ TxOK /\ DOMAIN cl = Client /\ DOMAIN h = Client /\ DOMAIN wrote = Client
      /\ exported.lines \in Seq(Line)
  BY DEF IInv, Global
<1>2. /\ up' /\ h' = h /\ tx' = tx
      /\ db' = db /\ wrote' = wrote /\ cl' = cl /\ started' = started /\ lost' = lost /\ exported' = exported
  BY DEF Restart
<1>3. \A x \in Client : Own(x)'
  BY <1>2, OthersStay
<1>4. TxOK'
  BY <1>1, <1>2, TxStays
<1>5. Global'
  BY <1>1, <1>2, <1>4, GlobalStays
<1> QED
  BY <1>3, <1>5 DEF IInv

----------------------------------------------------------------------------
(* The answers *)

\* A set of numbers that is not empty has a least one.
LEMMA LeastExists ==
    ASSUME NEW n \in Nat, NEW S \in SUBSET (1 .. n), S # {}
    PROVE  \E i \in S : \A j \in S : i <= j
<1>1. IsFiniteSet(S)
  <2>1. IsFiniteSet(1 .. n)
    BY FS_Interval
  <2> QED
    BY <2>1, FS_Subset
<1>2. S \in SUBSET Nat
  OBVIOUS
<1>3. PICK m \in Nat : m = Cardinality(S)
  BY <1>1, <1>2, InIdOrderLists
<1>4. PICK s : s = InIdOrder(S)
  OBVIOUS
<1>5. /\ s \in [1 .. m -> S]
      /\ \A x \in S : \E k \in 1 .. m : s[k] = x
      /\ \A i, j \in 1 .. m : i < j => s[i] < s[j]
  BY <1>1, <1>2, <1>3, <1>4, InIdOrderLists
<1>6. PICK x \in S : TRUE
  OBVIOUS
<1>7. 1 \in 1 .. m
  BY <1>5, <1>6
<1>8. \A y \in S : s[1] <= y
  <2> TAKE y \in S
  <2>1. PICK k \in 1 .. m : s[k] = y
    BY <1>5
  <2>2. k = 1 \/ 1 < k
    OBVIOUS
  <2>3. s[1] \in Nat /\ s[k] \in Nat
    BY <1>2, <1>5, <1>7
  <2> QED
    BY <1>5, <1>7, <2>1, <2>2, <2>3
<1> QED
  BY <1>5, <1>7, <1>8

\* Rows of the tables are rows.
LEMMA TableRowsAre ==
    ASSUME NEW d \in Database
    PROVE  /\ ToSet(d.channels) \in SUBSET ChannelRow
           /\ ToSet(d.threads) \in SUBSET ThreadRow
           /\ ToSet(d.messages) \in SUBSET MessageRow
           /\ ToSet(d.reactions) \in SUBSET ReactionRow
BY TablesAre, RowsOfATable

\* A client in another place of its command.
SameCommand(k2, k) == k2.cmd = k.cmd /\ k2.lines = k.lines /\ k2.code = k.code

\* It goes to another step.
LEMMA StepChanges ==
    ASSUME NEW k \in ClientState, NEW step \in Steps, NEW k2, k2 = [k EXCEPT !.step = step]
    PROVE  k2 \in ClientState /\ SameCommand(k2, k) /\ k2.step = step
BY DEF ClientState, SameCommand

\* It learns a channel.
LEMMA ChanChanges ==
    ASSUME NEW k \in ClientState, NEW chan \in Nat, NEW k2, k2 = [k EXCEPT !.chan = chan]
    PROVE  k2 \in ClientState /\ SameCommand(k2, k)
BY DEF ClientState, SameCommand

\* It learns a thread.
LEMMA ThreadChanges ==
    ASSUME NEW k \in ClientState, NEW thread \in Nat, NEW k2, k2 = [k EXCEPT !.thread = thread]
    PROVE  k2 \in ClientState /\ SameCommand(k2, k)
BY DEF ClientState, SameCommand

\* It learns the messages of a dump.
LEMMA MsgsChange ==
    ASSUME NEW k \in ClientState, NEW msgs \in Seq(MessageRow), NEW k2, k2 = [k EXCEPT !.msgs = msgs]
    PROVE  k2 \in ClientState /\ SameCommand(k2, k)
BY DEF ClientState, SameCommand

\* It learns messages to name parents by.
LEMMA KnownChanges ==
    ASSUME NEW k \in ClientState, NEW known \in Seq(MessageRow), NEW k2,
           k2 = [k EXCEPT !.known = known]
    PROVE  k2 \in ClientState /\ SameCommand(k2, k)
BY DEF ClientState, SameCommand

\* A client that goes on has a next step and no outcome; one that does not is
\* at the step it was at.
Advanced(k2, k) ==
    /\ k2 \in ClientState
    /\ k2.cmd = k.cmd /\ k2.lines = k.lines
    /\ \/ /\ k2.code = None
          /\ k2.step \in {"channels", "threads", "newThread", "newChannel",
                          "events", "all", "reactions"}
       \/ /\ k2.step = k.step
          /\ k2.code = "OK" \/ (k2.code = "CHANNEL_NOT_FOUND" /\ k.step = "channels")

\* The command is over.
LEMMA OverIsAdvanced ==
    ASSUME NEW k \in ClientState, NEW code \in {"OK", "CHANNEL_NOT_FOUND"},
           code = "OK" \/ k.step = "channels", NEW k2, k2 = [k EXCEPT !.code = code]
    PROVE  Advanced(k2, k)
<1>1. code \in Outcomes
  BY DEF Outcomes, Codes
<1>2. k2 \in ClientState /\ SameRequest(k2, k) /\ k2.code = code
  BY <1>1, Ends
<1> QED
  BY <1>2 DEF Advanced, SameRequest

\* It goes on.
LEMMA OnIsAdvanced ==
    ASSUME NEW k, k.code = None, NEW k1 \in ClientState, SameCommand(k1, k),
           NEW step \in {"channels", "threads", "newThread", "newChannel",
                         "events", "all", "reactions"},
           NEW k2, k2 = [k1 EXCEPT !.step = step]
    PROVE  Advanced(k2, k)
<1>1. step \in Steps
  BY DEF Steps
<1>2. k2 \in ClientState /\ SameCommand(k2, k1) /\ k2.step = step
  BY <1>1, StepChanges
<1> QED
  BY <1>2 DEF Advanced, SameCommand

\* What a command does with the list of channels.
LEMMA ChannelsAdvance ==
    ASSUME NEW d \in Database, NEW k \in ClientState, k.code = None, k.step = "channels",
           NEW list \in Seq(ToSet(d.channels)), NEW k2, k2 = AfterChannels(k, list)
    PROVE  Advanced(k2, k)
<1>0. SameCommand(k, k)
  BY DEF SameCommand
<1>1. PICK found : found = ChannelNamed(list, k)
  OBVIOUS
<1>2. CASE k.cmd.op \in {"listChannels", "newChannel"}
  <2>1. k2 = [k EXCEPT !.code = "OK"]
    BY <1>2 DEF AfterChannels
  <2> QED
    BY <2>1, OverIsAdvanced
<1>3. CASE k.cmd.op \notin {"listChannels", "newChannel"} /\ found # {}
  <2>1. PICK i : i = CHOOSE x \in found : \A j \in found : x <= j
    OBVIOUS
  <2>2. PICK step : step = IF k.cmd.op = "listThreads" THEN "threads" ELSE "newThread"
    OBVIOUS
  <2>3. k2 = [[k EXCEPT !.chan = list[i].id] EXCEPT !.step = step]
    BY <1>1, <1>3, <2>1, <2>2 DEF AfterChannels
  <2>4. found \in SUBSET (1 .. Len(list)) /\ Len(list) \in Nat
    BY <1>1 DEF ChannelNamed
  <2>5. i \in found
    BY <1>3, <2>1, <2>4, LeastExists
  <2>6. list[i] \in ToSet(d.channels)
    BY <2>4, <2>5
  <2>7. list[i].id \in Nat
    BY <2>6, TableRowsAre DEF ChannelRow
  <2>8. PICK k1 : k1 = [k EXCEPT !.chan = list[i].id]
    OBVIOUS
  <2>9. k1 \in ClientState /\ SameCommand(k1, k)
    BY <2>7, <2>8, ChanChanges
  <2> QED
    BY <2>2, <2>3, <2>8, <2>9, OnIsAdvanced
<1>4. CASE k.cmd.op \notin {"listChannels", "newChannel"} /\ found = {} /\ Import(k)
  <2>1. k2 = [k EXCEPT !.step = "newChannel"]
    BY <1>1, <1>4 DEF AfterChannels
  <2> QED
    BY <1>0, <2>1, OnIsAdvanced
<1>5. CASE k.cmd.op \notin {"listChannels", "newChannel"} /\ found = {} /\ ~Import(k)
  <2>1. k2 = [k EXCEPT !.code = "CHANNEL_NOT_FOUND"]
    BY <1>1, <1>5 DEF AfterChannels
  <2> QED
    BY <2>1, OverIsAdvanced
<1> QED
  BY <1>2, <1>3, <1>4, <1>5

\* What it does with the row it has made.
LEMMA NewRowAdvances ==
    ASSUME NEW d \in Database, NEW k \in ClientState, k.code = None, NEW row, NEW k2,
           \/ row \in ToSet(d.channels) /\ k2 = AfterNewChannel(k, row)
           \/ row \in ToSet(d.threads) /\ k2 = AfterNewThread(k, row)
    PROVE  Advanced(k2, k)
<1>1. row.id \in Nat
  BY TableRowsAre DEF ChannelRow, ThreadRow
<1>2. CASE ~Import(k)
  <2>0. SameCommand(k, k)
    BY DEF SameCommand
  <2>1. k2 = [k EXCEPT !.code = "OK"] \/ k2 = [k EXCEPT !.step = "channels"]
    BY <1>2 DEF AfterNewChannel, AfterNewThread
  <2> QED
    BY <2>0, <2>1, OverIsAdvanced, OnIsAdvanced
<1>3. CASE Import(k) /\ k2 = AfterNewChannel(k, row)
  <2>1. k2 = [[k EXCEPT !.chan = row.id] EXCEPT !.step = "newThread"]
    BY <1>3 DEF AfterNewChannel
  <2>2. PICK k1 : k1 = [k EXCEPT !.chan = row.id]
    OBVIOUS
  <2>3. k1 \in ClientState /\ SameCommand(k1, k)
    BY <1>1, <2>2, ChanChanges
  <2> QED
    BY <2>1, <2>2, <2>3, OnIsAdvanced
<1>4. CASE Import(k) /\ k2 = AfterNewThread(k, row)
  <2>1. k2 = [[k EXCEPT !.thread = row.id] EXCEPT !.step = "events"]
    BY <1>4 DEF AfterNewThread
  <2>2. PICK k1 : k1 = [k EXCEPT !.thread = row.id]
    OBVIOUS
  <2>3. k1 \in ClientState /\ SameCommand(k1, k)
    BY <1>1, <2>2, ThreadChanges
  <2> QED
    BY <2>1, <2>2, <2>3, OnIsAdvanced
<1> QED
  BY <1>2, <1>3, <1>4

\* What it does with messages.
LEMMA MessagesAdvance ==
    ASSUME NEW d \in Database, NEW k \in ClientState, k.code = None,
           NEW rows \in Seq(ToSet(d.messages)), NEW k2,
           k2 = AfterMessages(k, rows) \/ k2 = AfterAll(k, rows)
    PROVE  Advanced(k2, k)
<1>1. rows \in Seq(MessageRow)
  BY TableRowsAre, SeqOfMore
<1>2. CASE k2 = AfterMessages(k, rows) /\ k.cmd.op = "read"
  <2>1. k2 = [k EXCEPT !.code = "OK"]
    BY <1>2 DEF AfterMessages
  <2> QED
    BY <2>1, OverIsAdvanced
<1>3. CASE k2 = AfterMessages(k, rows) /\ k.cmd.op # "read"
  <2>1. PICK step : step = IF Whole(k) THEN "reactions" ELSE "all"
    OBVIOUS
  <2>2. k2 = [[[k EXCEPT !.msgs = rows] EXCEPT !.known = rows] EXCEPT !.step = step]
    BY <1>3, <2>1 DEF AfterMessages
  <2>3. PICK k0 : k0 = [k EXCEPT !.msgs = rows]
    OBVIOUS
  <2>4. k0 \in ClientState /\ SameCommand(k0, k)
    BY <1>1, <2>3, MsgsChange
  <2>5. PICK k1 : k1 = [k0 EXCEPT !.known = rows]
    OBVIOUS
  <2>6. k1 \in ClientState /\ SameCommand(k1, k0)
    BY <1>1, <2>4, <2>5, KnownChanges
  <2>7. SameCommand(k1, k)
    BY <2>4, <2>6 DEF SameCommand
  <2>8. k2 = [k1 EXCEPT !.step = step]
    BY <2>2, <2>3, <2>5
  <2> QED
    BY <2>1, <2>6, <2>7, <2>8, OnIsAdvanced
<1>4. CASE k2 = AfterAll(k, rows)
  <2>1. k.known \in Seq(MessageRow)
    BY ClientFields
  <2>2. PICK known : known = k.known \o rows
    OBVIOUS
  <2>3. known \in Seq(MessageRow)
    BY <1>1, <2>1, <2>2
  <2>4. k2 = [[k EXCEPT !.known = known] EXCEPT !.step = "reactions"]
    BY <1>4, <2>2 DEF AfterAll
  <2>5. PICK k1 : k1 = [k EXCEPT !.known = known]
    OBVIOUS
  <2>6. k1 \in ClientState /\ SameCommand(k1, k)
    BY <2>3, <2>5, KnownChanges
  <2> QED
    BY <2>4, <2>5, <2>6, OnIsAdvanced
<1> QED
  BY <1>2, <1>3, <1>4

\* The client after any answer.
LEMMA AdvanceAdvances ==
    ASSUME NEW d \in Database, NEW k \in ClientState, k.code = None, k.step # None,
           NEW out, Answered(d, k.step, out), NEW k2, k2 = Advance(k, out)
    PROVE  Advanced(k2, k)
<1>1. k.step \in Steps
  BY ClientFields
<1>2. CASE k.step = "channels"
  <2>1. out \in Seq(ToSet(d.channels)) /\ k2 = AfterChannels(k, out)
    BY <1>2 DEF Answered, Advance
  <2> QED
    BY <1>2, <2>1, ChannelsAdvance
<1>3. CASE k.step = "newChannel"
  <2>1. out[1] \in ToSet(d.channels) /\ k2 = AfterNewChannel(k, out[1])
    BY <1>3 DEF Answered, Advance
  <2> QED
    BY <2>1, NewRowAdvances
<1>4. CASE k.step = "newThread"
  <2>1. out[1] \in ToSet(d.threads) /\ k2 = AfterNewThread(k, out[1])
    BY <1>4 DEF Answered, Advance
  <2> QED
    BY <2>1, NewRowAdvances
<1>5. CASE k.step \in {"messages", "all"}
  <2>1. out \in Seq(ToSet(d.messages)) /\ (k2 = AfterMessages(k, out) \/ k2 = AfterAll(k, out))
    BY <1>5 DEF Answered, Advance
  <2> QED
    BY <2>1, MessagesAdvance
<1>6. CASE k.step \in {"threads", "reactions", "rows", "message", "reaction", "events"}
  <2>1. k2 = [k EXCEPT !.code = "OK"]
    BY <1>6 DEF Advance
  <2> QED
    BY <2>1, OverIsAdvanced
<1> QED
  BY <1>1, <1>2, <1>3, <1>4, <1>5, <1>6 DEF Steps

\* An element of a sequence.
LEMMA ElementIs ==
    ASSUME NEW S, NEW s \in Seq(S), NEW i \in DOMAIN s
    PROVE  s[i] \in S
OBVIOUS

\* A parent is named by its seq, or by none.
LEMMA SeqByIDIsASeq ==
    ASSUME NEW k \in ClientState, NEW id
    PROVE  SeqByID(k, id) \in Nat
<1>1. k.known \in Seq(MessageRow)
  BY ClientFields
<1>2. \A i \in DOMAIN k.known : k.known[i].seq \in Nat
  <2> TAKE i \in DOMAIN k.known
  <2>1. k.known[i] \in MessageRow
    BY <1>1, ElementIs
  <2> QED
    BY <2>1 DEF MessageRow
<1> QED
  BY <1>2 DEF SeqByID

\* A dump is a file of lines.
LEMMA DumpIsLines ==
    ASSUME NEW d \in Database, NEW k \in ClientState,
           NEW out \in Seq([reaction : ToSet(d.reactions), message_seq : Nat \ {0}])
    PROVE  Dump(k, out) \in Seq(Line)
<1> DEFINE Msg(i) == [type |-> "message", seq |-> k.msgs[i].seq,
                      ref |-> SeqByID(k, k.msgs[i].parent), name |-> k.msgs[i].name,
                      author |-> k.msgs[i].author, body |-> k.msgs[i].body, at |-> k.msgs[i].at]
           Rea(i) == [type |-> "reaction", seq |-> 0, ref |-> out[i].message_seq,
                      name |-> out[i].reaction.name, author |-> out[i].reaction.author,
                      body |-> out[i].reaction.emoji, at |-> out[i].reaction.at]
<1>1. k.msgs \in Seq(MessageRow) /\ ToSet(d.reactions) \in SUBSET ReactionRow
  BY ClientFields, TableRowsAre
<1>2. PICK m, n : m = Len(k.msgs) /\ n = Len(out)
  OBVIOUS
<1>3. DOMAIN k.msgs = 1 .. m /\ DOMAIN out = 1 .. n /\ m \in Nat /\ n \in Nat
  BY <1>1, <1>2
<1>4. PICK ms : ms = [i \in 1 .. m |-> Msg(i)]
  OBVIOUS
<1>5. PICK rs : rs = [i \in 1 .. n |-> Rea(i)]
  OBVIOUS
<1>6. Dump(k, out) = ms \o rs
  BY <1>3, <1>4, <1>5 DEF Dump
<1>7. LegalName \in SUBSET STRING /\ Content \in SUBSET STRING
  BY NameAssumption, Zenon DEF Content
<1>8. \A i \in 1 .. m : Msg(i) \in Line
  <2> TAKE i \in 1 .. m
  <2>1. k.msgs[i] \in MessageRow
    BY <1>1, <1>3
  <2>2. /\ k.msgs[i].seq \in Nat /\ k.msgs[i].name \in STRING /\ k.msgs[i].at \in Nat
        /\ k.msgs[i].author \in AuthorType /\ k.msgs[i].body \in STRING
    BY <1>7, <2>1 DEF MessageRow
  <2>3. SeqByID(k, k.msgs[i].parent) \in Nat
    BY SeqByIDIsASeq
  <2>4. "message" \in LineType
    BY DEF LineType
  <2> QED
    BY <2>2, <2>3, <2>4 DEF Line
<1>9. \A i \in 1 .. n : Rea(i) \in Line
  <2> TAKE i \in 1 .. n
  <2>1. out[i] \in [reaction : ToSet(d.reactions), message_seq : Nat \ {0}]
    BY <1>3, ElementIs, Zenon
  <2>2. out[i].reaction \in ReactionRow /\ out[i].message_seq \in Nat
    BY <1>1, <2>1
  <2>3. /\ out[i].reaction.name \in STRING /\ out[i].reaction.at \in Nat
        /\ out[i].reaction.author \in AuthorType /\ out[i].reaction.emoji \in STRING
    BY <1>7, <2>2 DEF ReactionRow
  <2>4. "reaction" \in LineType
    BY DEF LineType
  <2> QED
    BY <2>2, <2>3, <2>4 DEF Line
<1> HIDE DEF Msg, Rea
<1>10. ms \in Seq(Line) /\ rs \in Seq(Line)
  BY <1>3, <1>4, <1>5, <1>8, <1>9
<1> QED
  BY <1>6, <1>10

\* What the client's check of a read refuses is a blank content.
LEMMA InvalidIsBlank ==
    ASSUME NEW d, Consistent(d), NEW k, k.step \in Reads, NEW out, Answered(d, k.step, out),
           ~Valid(k, out)
    PROVE  Blank(d)
<1>0. d \in Database
  BY DEF Consistent
<1>1. /\ \A m \in ToSet(d.channels) : m.id > 0
      /\ \A m \in ToSet(d.threads) : m.id > 0 /\ m.channel > 0
      /\ \A m \in ToSet(d.messages) :
            /\ m.id > 0 /\ m.thread > 0 /\ m.seq > 0 /\ m.author \in {"human", "agent"}
            /\ m.body \in BlankBody => Blank(d)
      /\ \A m \in ToSet(d.reactions) : m.emoji \in BlankBody => Blank(d)
  <2>1. /\ d.channels \in Seq(ChannelRow) /\ d.threads \in Seq(ThreadRow)
        /\ d.messages \in Seq(MessageRow) /\ d.reactions \in Seq(ReactionRow)
    BY <1>0, TablesAre
  <2>2. /\ \A i \in DOMAIN d.channels : d.channels[i].id = i
        /\ \A i \in DOMAIN d.threads : d.threads[i].id = i /\ d.threads[i].channel \in DOMAIN d.channels
        /\ \A i \in DOMAIN d.messages : d.messages[i].id = i /\ d.messages[i].thread \in DOMAIN d.threads
    BY <1>0, KeyedIs DEF Consistent
  <2>3. /\ \A i \in DOMAIN d.channels : i > 0
        /\ \A i \in DOMAIN d.threads : i > 0
        /\ \A i \in DOMAIN d.messages : i > 0
    BY <2>1
  <2>4. \A i \in DOMAIN d.messages : d.messages[i].seq > 0
    <3> TAKE i \in DOMAIN d.messages
    <3>1. i \in MessagesOf(d, d.messages[i].thread)
      BY DEF MessagesOf
    <3> QED
      BY <3>1, SeqOrderIsIdOrder
  <2>5. \A i \in DOMAIN d.messages : d.messages[i].author \in {"human", "agent"}
    <3> TAKE i \in DOMAIN d.messages
    <3>1. d.messages[i] \in MessageRow
      BY <2>1, ElementIs
    <3> QED
      BY <3>1 DEF MessageRow, AuthorType
  <2>6. /\ \A i \in DOMAIN d.messages : d.messages[i].body \in BlankBody => Blank(d)
        /\ \A i \in DOMAIN d.reactions : d.reactions[i].emoji \in BlankBody => Blank(d)
    BY DEF Blank
  <2> QED
    BY <2>2, <2>3, <2>4, <2>5, <2>6 DEF ToSet
<1>2. CASE k.step = "channels"
  <2>1. out \in Seq(ToSet(d.channels)) /\ ~ValidChannels(out)
    BY <1>2 DEF Answered, Valid
  <2> QED
    BY <1>1, <2>1 DEF ValidChannels
<1>3. CASE k.step = "threads"
  <2>1. out \in Seq(ToSet(d.threads)) /\ ~ValidThreads(out)
    BY <1>3 DEF Answered, Valid
  <2> QED
    BY <1>1, <2>1 DEF ValidThreads
<1>4. CASE k.step \in {"messages", "all"}
  <2>1. out \in Seq(ToSet(d.messages)) /\ ~ValidMessages(out)
    BY <1>4 DEF Answered, Valid
  <2> QED
    BY <1>1, <2>1 DEF ValidMessages
<1>5. CASE k.step = "reactions"
  <2>1. out \in Seq([reaction : ToSet(d.reactions), message_seq : Nat \ {0}]) /\ ~ValidReactions(out)
    BY <1>5 DEF Answered, Valid
  <2>2. PICK i \in DOMAIN out : ~(out[i].message_seq > 0 /\ out[i].reaction.emoji \notin BlankBody)
    BY <2>1 DEF ValidReactions
  <2>3. out[i] \in [reaction : ToSet(d.reactions), message_seq : Nat \ {0}]
    BY <2>1, ElementIs, Zenon
  <2>4. out[i].reaction \in ToSet(d.reactions) /\ out[i].message_seq \in Nat \ {0}
    BY <2>3
  <2> QED
    BY <1>1, <2>2, <2>4
<1>6. CASE k.step = "rows"
  <2>1. ~ValidRows(out) /\ \A i \in DOMAIN out :
                              /\ out[i].id > 0 /\ out[i].count = 1
                              /\ \E m \in ToSet(d.messages) : out[i].body = m.body
    BY <1>6 DEF Answered, Valid
  <2>2. PICK i \in DOMAIN out :
          ~(out[i].id > 0 /\ (out[i].count = 0) = (out[i].body \in BlankBody \cup {None}))
    BY <2>1 DEF ValidRows
  <2>3. PICK m \in ToSet(d.messages) : out[i].body = m.body
    BY <2>1
  <2>4. out[i].id > 0 /\ out[i].count # 0
    BY <2>1
  <2>5. m.body # None
    <3>1. m.body \in Content
      BY <1>0, TableRowsAre DEF MessageRow
    <3> QED
      BY <3>1, Zenon DEF Content, None
  <2>6. m.body \in BlankBody
    BY <2>2, <2>3, <2>4, <2>5
  <2> QED
    BY <1>1, <2>6
<1> QED
  BY <1>2, <1>3, <1>4, <1>5, <1>6 DEF Reads

\* The outcome of a request that has failed, or whose answer is refused.
Refused(k, a) == IF a.code # "OK" THEN a.code
                 ELSE IF k.step \in PostStep THEN "DELIVERY_UNKNOWN" ELSE "DAEMON_ERROR"

\* An answer reaches the client.
LEMMA DeliverKeeps ==
    ASSUME IInv, NEW c \in Client, Deliver(c)
    PROVE  IInv'
<1>1. /\ Global /\ Own(c) /\ TxOK /\ DOMAIN cl = Client /\ DOMAIN h = Client /\ DOMAIN wrote = Client
      /\ exported.lines \in Seq(Line) /\ Consistent(db) /\ db \in Database
      /\ cl[c] \in ClientState /\ Handler(h[c]) /\ Serves(c) /\ Acts(c) /\ Told(c) /\ Acted(c)
  BY DEF IInv, Global, Own, ClientTypes, Consistent
<1>2. PICK k, a : k = cl[c] /\ a = h[c].reply
  OBVIOUS
<1>3. PICK ok \in BOOLEAN : ok = (a.code = "OK" /\ Valid(k, a.out))
  OBVIOUS
<1>4. PICK k2 : k2 = IF ok THEN Advance(k, a.out) ELSE [k EXCEPT !.code = Refused(k, a)]
  OBVIOUS
<1>5. PICK k3 : k3 = [k2 EXCEPT !.waiting = FALSE]
  OBVIOUS
<1>6. /\ k.waiting /\ h[c].phase = "answered"
      /\ cl' = [cl EXCEPT ![c] = k3]
      /\ h' = [h EXCEPT ![c] = NoHandler]
      /\ exported' = IF ok /\ k.step = "reactions"
                     THEN [thread |-> k.thread, whole |-> Whole(k), lines |-> Dump(k, a.out)]
                     ELSE exported
      /\ db' = db /\ tx' = tx /\ up' = up /\ started' = started /\ lost' = lost /\ wrote' = wrote
  BY <1>2, <1>3, <1>4, <1>5, Zenon DEF Deliver, Refused
<1>7. /\ k.code = None /\ Asks(k) /\ k \in ClientState /\ k.step # None
      /\ a.code \in Codes /\ h[c].pending = {}
  BY <1>1, <1>2, <1>6 DEF Serves, Handler, Acts, Asks
<1>8. /\ a.code = "OK" <=> Succeeded(c)
      /\ a.code = "OK" => Answered(db, k.step, a.out) /\ Cardinality(wrote[c]) = Expected(k)
      /\ a.code # "OK" => Cardinality(wrote[c]) = 0
      /\ Cardinality(wrote[c]) \in {0, Expected(k)}
  BY <1>1, <1>2, <1>6 DEF Serves, Told, Succeeded
<1>9. k2 \in ClientState /\ k2.cmd = k.cmd /\ k2.lines = k.lines
      /\ \/ /\ k2.code = None
            /\ k2.step \in {"channels", "threads", "newThread", "newChannel",
                            "events", "all", "reactions"}
         \/ /\ k2.step = k.step
            /\ \/ k2.code = "OK" /\ a.code = "OK"
               \/ k2.code = "CHANNEL_NOT_FOUND" /\ a.code = "OK" /\ k.step = "channels"
               \/ k2.code = a.code /\ a.code # "OK"
               \/ k2.code = "DELIVERY_UNKNOWN"
               \/ /\ k2.code = "DAEMON_ERROR" /\ a.code = "OK" /\ k.step \notin PostStep
                  /\ Blank(db)
  <2>1. CASE ok
    <3>1. Advanced(k2, k)
      BY <1>1, <1>3, <1>4, <1>7, <1>8, <2>1, AdvanceAdvances
    <3> QED
      BY <1>3, <2>1, <3>1 DEF Advanced
  <2>2. CASE ~ok
    <3>1. PICK code : code = Refused(k, a)
      OBVIOUS
    <3>2. code \in Outcomes
      BY <1>7, <3>1 DEF Refused, Outcomes
    <3>3. k2 = [k EXCEPT !.code = code]
      BY <1>4, <2>2, <3>1
    <3>4. k2 \in ClientState /\ SameRequest(k2, k) /\ k2.code = code
      BY <1>7, <3>2, <3>3, Ends
    <3>5. a.code = "OK" /\ k.step \notin PostStep => Blank(db)
      <4> SUFFICES ASSUME a.code = "OK", k.step \notin PostStep PROVE Blank(db)
        OBVIOUS
      <4>1. ~Valid(k, a.out) /\ Answered(db, k.step, a.out)
        BY <1>3, <1>8, <2>2
      <4>2. k.step \in Reads
        BY <1>7, ClientFields DEF Steps, PostStep, Reads
      <4> QED
        BY <1>1, <4>1, <4>2, InvalidIsBlank
    <3> QED
      BY <3>1, <3>4, <3>5 DEF Refused, SameRequest
  <2> QED
    BY <2>1, <2>2
<1>10. k3 \in ClientState /\ SameRequest(k3, k2) /\ k3.waiting = FALSE /\ k3.code = k2.code
  BY <1>5, <1>9, Waits
<1>11. k3.cmd = k.cmd /\ k3.lines = k.lines /\ k3.step = k2.step
  BY <1>9, <1>10 DEF SameRequest
<1>12. /\ cl'[c] = k3 /\ h'[c] = NoHandler /\ wrote'[c] = wrote[c]
       /\ h'[c].phase = "none" /\ h'[c].pending = {}
       /\ DOMAIN h'[c] = {"phase", "reply", "pending"}
  BY <1>1, <1>6 DEF NoHandler
<1>13. ~Succeeded(c)'
  BY <1>12 DEF Succeeded
<1>14. Import(k3) = Import(k)
  BY <1>11 DEF Import
<1>15. Own(c)'
  <2>1. ClientTypes(c)'
    BY <1>10, <1>12 DEF ClientTypes, Handler, Phases
  <2>2. Serves(c)'
    <3>1. k3.code = None => k3.step # None
      <4>1. None \notin {"channels", "threads", "newThread", "newChannel",
                         "events", "all", "reactions"}
        BY NoneIsOther DEF Steps
      <4> QED
        BY <1>7, <1>9, <1>10, <1>11, <4>1
    <3>2. k3.code = None => k3.step \notin {"message", "reaction"}
      BY <1>7, <1>9, <1>10, <1>11, NoneIsOther DEF Codes
    <3>3. k3.code = None => Asks(k3)
      BY <1>7, <1>11, <3>1, <3>2 DEF Asks
    <3> QED
      BY <1>10, <1>12, <1>13, <3>3 DEF Serves
  <2>3. Acts(c)'
    BY <1>1, <1>2, <1>6, <1>11, <1>12, <1>14 DEF Acts
  <2>4. k3.code = "OK" => a.code = "OK"
    BY <1>9, <1>10, NoneIsOther DEF Codes
  <2>5. Acted(c)'
    <3>1. Succeeded(c) => \A i \in DOMAIN db.messages :
             /\ <<"messages", i>> \in wrote[c]
             /\ db.messages[i].body \in MentionBody
             /\ db.messages[i].author = "human"
             /\ ~Import(k)
             => i \in ToSet(started) \cup lost
      BY <1>1, <1>2, <1>7 DEF Acted
    <3> QED
      BY <1>6, <1>8, <1>12, <1>13, <1>14, <2>4, <3>1 DEF Acted
  <2>6. Told(c)'
    <3>1. k3.code # None => Expected(k3) = Expected(k)
      BY <1>9, <1>10, <1>11 DEF Expected
    <3>2. k.step \notin PostStep => Expected(k) = 0
      BY DEF Expected, PostStep
    <3>3. "channels" \notin PostStep
      BY DEF PostStep
    <3>4. /\ None \notin {"OK", "CHANNEL_NOT_FOUND", "DELIVERY_UNKNOWN", "DAEMON_ERROR"}
          /\ a.code # None /\ a.code # "DAEMON_ERROR" /\ a.code # "DELIVERY_UNKNOWN"
      BY <1>7, NoneIsOther DEF Codes
    <3>5. /\ k3.code # None => Cardinality(wrote[c]) \in {0, Expected(k3)}
          /\ k3.code = "OK" => Cardinality(wrote[c]) = Expected(k3)
          /\ k3.code \notin {"OK", "DELIVERY_UNKNOWN", None} => Cardinality(wrote[c]) = 0
          /\ k3.code = "DAEMON_ERROR" => Blank(db)
      BY <1>8, <1>9, <1>10, <3>1, <3>2, <3>3, <3>4
    <3>6. Blank(db)' = Blank(db)
      BY <1>6
    <3> QED
      BY <1>10, <1>12, <1>13, <3>5, <3>6 DEF Told
  <2> QED
    BY <2>1, <2>2, <2>3, <2>5, <2>6 DEF Own
<1>16. \A x \in Client \ {c} : Own(x)'
  <2> TAKE x \in Client \ {c}
  <2>1. cl'[x] = cl[x] /\ h'[x] = h[x] /\ wrote'[x] = wrote[x]
    BY <1>1, <1>6
  <2> QED
    BY <1>6, <2>1, OthersStay
<1>17. TxOK'
  <2>1. tx.owner # c
    BY <1>1, <1>6 DEF TxOK
  <2>2. tx.owner # Nobody => cl'[tx.owner] = cl[tx.owner]
    BY <1>1, <1>6, <2>1 DEF TxOK
  <2>3. \A x \in Client : (h'[x].phase = "tx") = (h[x].phase = "tx")
    BY <1>1, <1>6, <1>12
  <2> QED
    BY <1>1, <1>6, <2>2, <2>3, TxStays
<1>18. exported'.lines \in Seq(Line)
  <2>1. CASE ok /\ k.step = "reactions"
    <3>1. a.out \in Seq([reaction : ToSet(db.reactions), message_seq : Nat \ {0}])
      BY <1>3, <1>8, <2>1 DEF Answered
    <3>2. Dump(k, a.out) \in Seq(Line)
      BY <1>1, <1>7, <3>1, DumpIsLines
    <3> QED
      BY <1>6, <2>1, <3>2
  <2>2. CASE ~(ok /\ k.step = "reactions")
    BY <1>1, <1>6, <2>2
  <2> QED
    BY <2>1, <2>2
<1>19. up
  BY <1>1, <1>6 DEF Global
<1>20. DOMAIN cl' = Client /\ DOMAIN h' = Client /\ DOMAIN wrote' = Client
  BY <1>1, <1>6
<1>21. Global'
  BY <1>1, <1>6, <1>17, <1>18, <1>19, <1>20, GlobalStays
<1> QED
  BY <1>15, <1>16, <1>21 DEF IInv

----------------------------------------------------------------------------
(* The theorems *)

\* An idle client.
LEMMA IdleIs ==
    ASSUME NEW cmd \in Command
    PROVE  /\ Idle(cmd) \in ClientState
           /\ Idle(cmd).code = "NONE" /\ Idle(cmd).waiting = FALSE
<1>1. <<>> \in Seq(Parsed) /\ <<>> \in Seq(MessageRow)
  OBVIOUS
<1>2. PICK none : none = None
  OBVIOUS
<1>3. none \in Steps \cup {None} /\ "NONE" \in Outcomes
  BY <1>2 DEF Outcomes
<1>4. Idle(cmd) = [cmd |-> cmd, step |-> none, code |-> "NONE", waiting |-> FALSE,
                   chan |-> 0, thread |-> 0, lines |-> <<>>, msgs |-> <<>>, known |-> <<>>]
  BY <1>2 DEF Idle
<1> QED
  BY <1>1, <1>3, <1>4 DEF ClientState

\* The invariant holds at first.
LEMMA InitIInv ==
    ASSUME Init
    PROVE  IInv
<1>1. /\ db = InitialDB /\ tx = NoTx /\ h = [c \in Client |-> NoHandler]
      /\ cl \in [Client -> {Idle(CHOOSE k \in Commands : TRUE)}]
      /\ up = TRUE /\ started = <<>> /\ wrote = [c \in Client |-> {}]
      /\ exported.lines = <<>>
  BY DEF Init
<1>2. PICK cmd \in Command : cmd = CHOOSE k \in Commands : TRUE
  BY CommandAssumption
<1>3. \A c \in Client : /\ cl[c] \in ClientState /\ cl[c].code = "NONE" /\ cl[c].waiting = FALSE
                        /\ wrote[c] = {} /\ h[c] = NoHandler
  BY <1>1, <1>2, IdleIs
<1>4. /\ NoHandler.phase = "none" /\ NoHandler.pending = {}
      /\ DOMAIN NoHandler = {"phase", "reply", "pending"}
  BY DEF NoHandler
<1>5. /\ started \in Seq(Nat) /\ ToSet(started) = {} /\ DOMAIN started = {}
      /\ exported.lines \in Seq(Line)
  BY <1>1 DEF ToSet
<1>6. ASSUME NEW c \in Client
      PROVE  Own(c)
  <2>1. /\ cl[c] \in ClientState /\ cl[c].code = "NONE" /\ cl[c].waiting = FALSE
        /\ wrote[c] = {} /\ h[c].phase = "none" /\ h[c].pending = {}
        /\ DOMAIN h[c] = {"phase", "reply", "pending"}
    BY <1>3, <1>4
  <2>2. cl[c].code \notin {None, "OK", "DAEMON_DOWN", "DAEMON_ERROR"}
    BY <2>1, NoneIsOther
  <2>3. ~Succeeded(c)
    BY <2>1 DEF Succeeded
  <2>4. Cardinality(wrote[c]) = 0
    BY <2>1, FS_EmptySet
  <2>5. ClientTypes(c)
    BY <2>1 DEF ClientTypes, Handler, Phases
  <2>6. Serves(c)
    BY <2>1, <2>2, <2>3 DEF Serves
  <2>7. Acts(c)
    BY <2>1 DEF Acts
  <2>8. Acted(c)
    BY <2>2, <2>3 DEF Acted
  <2>9. Told(c)
    BY <2>1, <2>2, <2>3, <2>4 DEF Told
  <2> QED
    BY <2>5, <2>6, <2>7, <2>8, <2>9 DEF Own
<1>7. TxOK
  <2>1. tx.owner = Nobody /\ DOMAIN tx = {"owner", "db", "map", "results"}
    BY <1>1 DEF NoTx
  <2>2. \A c \in Client : h[c].phase # "tx"
    BY <1>3, <1>4
  <2> QED
    BY <2>1, <2>2, ServiceAssumption DEF TxOK
<1>8. Consistent(db)
  BY <1>1, InitialAssumption
<1>9. \A c1, c2 \in Client : c1 # c2 => wrote[c1] \cap wrote[c2] = {}
  BY <1>3
<1>10. Global
  BY <1>1, <1>5, <1>7, <1>8, <1>9 DEF Global
<1> QED
  BY <1>6, <1>10 DEF IInv

\* Nothing changes.
LEMMA StutterKeeps ==
    ASSUME IInv, UNCHANGED vars
    PROVE  IInv'
<1>1. /\ db' = db /\ tx' = tx /\ h' = h /\ cl' = cl /\ up' = up /\ started' = started /\ lost' = lost
      /\ wrote' = wrote /\ exported' = exported
  BY DEF vars
<1>2. /\ Global /\ TxOK /\ DOMAIN cl = Client /\ DOMAIN h = Client /\ DOMAIN wrote = Client
      /\ exported.lines \in Seq(Line)
  BY DEF IInv, Global
<1>3. \A x \in Client : Own(x)'
  BY <1>1, OthersStay
<1>4. TxOK'
  BY <1>1, <1>2, TxStays
<1>5. ~up' => \A x \in Client : h'[x].phase = "none"
  BY <1>1, <1>2 DEF Global
<1>6. Global'
  BY <1>1, <1>2, <1>4, <1>5, GlobalStays
<1> QED
  BY <1>3, <1>6 DEF IInv

\* Every step keeps the invariant.
LEMMA NextIInv ==
    ASSUME IInv, [Next]_vars
    PROVE  IInv'
<1>1. CASE UNCHANGED vars
  BY <1>1, StutterKeeps
<1>2. ASSUME NEW c \in Client, NEW cmd \in Commands, Free(c), Begin(c, cmd)
      PROVE  IInv'
  BY <1>2, BeginKeeps
<1>3. ASSUME NEW c \in Client, Call(c)
      PROVE  IInv'
  BY <1>3, CallKeeps
<1>4. ASSUME NEW c \in Client, Lose(c)
      PROVE  IInv'
  BY <1>4, LoseKeeps
<1>5. ASSUME NEW c \in Client, Deliver(c)
      PROVE  IInv'
  BY <1>5, DeliverKeeps
<1>6. ASSUME NEW c \in Client, Serve(c)
      PROVE  IInv'
  BY <1>6, ServeKeeps
<1>7. ASSUME NEW c \in Client, BeginBatch(c)
      PROVE  IInv'
  BY <1>7, BeginBatchKeeps
<1>8. ASSUME NEW c \in Client, BatchEvent(c)
      PROVE  IInv'
  BY <1>8, BatchEventKeeps
<1>9. ASSUME NEW c \in Client, CommitBatch(c)
      PROVE  IInv'
  BY <1>9, CommitBatchKeeps
<1>10. ASSUME NEW c \in Client, StartSession(c)
       PROVE  IInv'
  BY <1>10, StartSessionKeeps
<1>11. ASSUME NEW c \in Client, Abandon(c)
       PROVE  IInv'
  BY <1>11, AbandonKeeps
<1>12. CASE Crash
  BY <1>12, CrashKeeps
<1>13. CASE Restart
  BY <1>13, RestartKeeps
<1> QED
  BY <1>1, <1>2, <1>3, <1>4, <1>5, <1>6, <1>7, <1>8, <1>9, <1>10, <1>11, <1>12, <1>13 DEF Next

\* The inductive invariant holds throughout, whatever the commands, however
\* many clients run them, and whatever becomes of the daemon.
THEOREM Invariance == Spec => []IInv
<1>1. Init => IInv
  BY InitIInv
<1>2. IInv /\ [Next]_vars => IInv'
  BY NextIInv
<1> QED
  BY <1>1, <1>2, PTL DEF Spec

\* The database stays of its schema, its references are to rows that exist,
\* and the connection is held by the handler that is in its batch (store.go,
\* the constraints of migrations/00001_initial_schema.sql).
THEOREM TypesOK == Spec => []TypeOK
<1>1. IInv => TypeOK
  BY DEF IInv, Global, TxOK, Consistent, TypeOK
<1> QED
  BY <1>1, Invariance, PTL

\* Every thread is a log without gaps or repetitions, and parents are earlier
\* messages of it (nextMessageSeq, appendMessage, AppendBatch).
THEOREM LogsStay == Spec => []ThreadsAreLogs
<1>1. IInv => ThreadsAreLogs
  BY DEF IInv, Global, Consistent, ThreadsAreLogs
<1> QED
  BY <1>1, Invariance, PTL

\* A name stands for one channel (CreateChannel, uniq_orphan_channel_name).
THEOREM NamesAreUnique == Spec => []ChannelsAreUnique
<1>1. IInv => ChannelsAreUnique
  BY DEF IInv, Global, Consistent, ChannelsAreUnique
<1> QED
  BY <1>1, Invariance, PTL

\* What a command reports of its last request is what became of it (apiPost,
\* AppendBatch, validateMessages).
THEOREM OutcomesAreTold == Spec => []OutcomeIsTold
<1>1. ASSUME IInv
      PROVE  OutcomeIsTold
  <2> SUFFICES ASSUME NEW c \in Client
               PROVE  LET k == cl[c]  n == Cardinality(wrote[c])
                      IN  /\ k.code = "OK" => n = Expected(k)
                          /\ k.code = "DELIVERY_UNKNOWN" => n \in {0, Expected(k)}
                          /\ k.code \notin {"OK", "DELIVERY_UNKNOWN", None} => n = 0
                          /\ k.code = "DAEMON_ERROR" => Blank(db)
    BY DEF OutcomeIsTold, Blank
  <2>1. Told(c)
    BY <1>1 DEF IInv, Own
  <2> QED
    BY <2>1, NoneIsOther DEF Told
<1> QED
  BY <1>1, Invariance, PTL

\* Sessions are started once, for what people post now and not for what is
\* imported, and an agent writes as an agent (startSessionForMessage,
\* liveAuthorType).
THEOREM StartsAreOfPeople == Spec => []StartsAreLiveHuman
<1>1. ASSUME IInv
      PROVE  StartsAreLiveHuman
  <2>1. \A i, j \in DOMAIN started : started[i] = started[j] => i = j
    BY <1>1 DEF IInv, Global
  <2>2. \A c \in Client : Acts(c)
    BY <1>1 DEF IInv, Own
  <2> QED
    BY <2>1, <2>2 DEF StartsAreLiveHuman, Acts
<1> QED
  BY <1>1, Invariance, PTL

\* Who is told OK has had his mentions acted on, or lost to a failing store
\* (appendThreadMessage, startSessionsForBatch).
THEOREM PostsAreActedOn == Spec => []PostedMeansStarted
<1>1. ASSUME IInv
      PROVE  PostedMeansStarted
  <2>1. \A c \in Client : Acts(c) /\ Acted(c)
    BY <1>1 DEF IInv, Own
  <2>2. \A c \in Client : cl[c].code = "OK" => h[c].pending = {}
    BY <2>1 DEF Acts, Acted
  <2> QED
    BY <2>1, <2>2 DEF PostedMeansStarted, Acted
<1> QED
  BY <1>1, Invariance, PTL

----------------------------------------------------------------------------
(* What has been read stays so, and what a batch has copied: a second        *)
(* invariant, of IInv and itself.                                            *)

\* The messages s of t are from some message on, or from the first on if whole.
Excerpt(d, t, whole, s) == \E a \in Nat : (whole => a = 0) /\ Page(d, t, a, s)

\* What a client that reads for k has of its thread.
Has(k, s) == IF s.thread = k.thread THEN s.ids ELSE <<>>

\* What a request for messages is answered with.
Fetched(d, k, x, s) ==
    x.phase \in {"starting", "answered"} /\ x.reply.code = "OK" =>
        /\ k.step = "messages" /\ Following(k) =>
              Page(d, k.thread, Len(Has(k, s)), x.reply.out)
        /\ k.step = "messages" /\ ~Following(k) =>
              Excerpt(d, k.thread, Whole(k), x.reply.out)
        /\ k.step = "all" =>
              /\ Page(d, k.thread, 0, x.reply.out)
              /\ \A i \in DOMAIN k.msgs : k.msgs[i].seq <= Len(x.reply.out)

\* The parents of msgs are known.
Parents(msgs, known) ==
    \A i \in DOMAIN msgs : msgs[i].parent # 0 => \E j \in DOMAIN known : known[j].id = msgs[i].parent

\* What a dump has so far.
Collected(d, k) ==
    k.step \in {"all", "reactions"} =>
        /\ Excerpt(d, k.thread, Whole(k), k.msgs)
        /\ k.known \in Seq(ToSet(d.messages))
        /\ k.step = "reactions" => Parents(k.msgs, k.known)

\* The ids are of the messages of t, from the first on.
FirstOf(d, t, ids) ==
    /\ ids \in Seq(DOMAIN d.messages)
    /\ \A i \in DOMAIN ids : d.messages[ids[i]].thread = t /\ d.messages[ids[i]].seq = i

\* So is what a client follows.
Follows(d, s) == FirstOf(d, s.thread, s.ids)

\* The seq of a message's parent, 0 for none.
ParentSeq(d, m) == IF m.parent = 0 THEN 0 ELSE d.messages[m.parent].seq

\* What a dump has written: consecutive messages that there are, with the seqs
\* of their parents.
Resolved(d, x) ==
    LET ms == MessageLines(x.lines)
    IN  \A i \in DOMAIN ms :
            /\ ms[i].seq = ms[1].seq + i - 1
            /\ x.whole => ms[1].seq = 1
            /\ \E j \in MessagesOf(d, x.thread) :
                  d.messages[j].seq = ms[i].seq /\ ms[i].ref = ParentSeq(d, d.messages[j])

\* The messages among some rows, and what stands for one of the lines among them.
MessagesIn(d, w) == {i \in DOMAIN d.messages : <<"messages", i>> \in w}
CopyOf(lines, ids, seq) ==
    LET ms == MessageLines(lines)
    IN  IF seq = 0 THEN 0 ELSE ids[CHOOSE i \in DOMAIN ms : ms[i].seq = seq]

\* m is line l in thread t, a reply to the message with id parent; r is reaction l.
MessageIs(m, t, l, parent) ==
    /\ m.thread = t /\ m.body = l.body /\ m.name = l.name
    /\ m.at = l.at \/ l.at = 0
    /\ m.parent = parent
ReactionIs(r, l, message) == r.message = message /\ r.emoji = l.body

\* The rows w are a copy of the lines in thread t.
Imported(d, w, t, lines) ==
    LET ids == InIdOrder(MessagesIn(d, w))  ms == MessageLines(lines)
    IN  /\ Len(ids) = Len(ms)
        /\ \A i \in DOMAIN ms :
              MessageIs(d.messages[ids[i]], t, ms[i], CopyOf(lines, ids, ms[i].ref))
        /\ \A l \in {x \in ToSet(lines) : x.type = "reaction"} :
              \E i \in DOMAIN d.reactions :
                 <<"reactions", i>> \in w /\ ReactionIs(d.reactions[i], l, CopyOf(lines, ids, l.ref))

Imports(d, k, x, w) ==
    /\ k.code = "OK" \/ (x.phase \in {"starting", "answered"} /\ x.reply.code = "OK")
    /\ Import(k) /\ k.step = "events" /\ SelfContained(k.lines)
    => Imported(d, w, k.thread, k.lines)

\* What is kept of one client.
Mine(d, k, x, w, s) ==
    /\ k.cmd.op = "read" => k.step \in {None, "messages"}
    /\ Fetched(d, k, x, s) /\ Collected(d, k) /\ Follows(d, s) /\ Imports(d, k, x, w)

----------------------------------------------------------------------------
(* As a database grows *)

\* A page stays one.
LEMMA PageStays ==
    ASSUME NEW d, NEW e, Consistent(d), Consistent(e), Extends(d, e), NEW t, NEW a, NEW s,
           Page(d, t, a, s)
    PROVE  Page(e, t, a, s)
<1>1. ToSet(d.messages) \in SUBSET ToSet(e.messages)
  BY ExtendsKeepsRows DEF Consistent
<1>2. s \in Seq(ToSet(e.messages))
  BY <1>1, SeqOfMore DEF Page
<1> QED
  BY <1>2 DEF Page

\* An answer of messages stays what it was.
LEMMA FetchedStays ==
    ASSUME NEW d, NEW e, Consistent(d), Consistent(e), Extends(d, e), NEW k, NEW x, NEW s,
           Fetched(d, k, x, s)
    PROVE  Fetched(e, k, x, s)
<1>1. \A t, a, p : Page(d, t, a, p) => Page(e, t, a, p)
  BY PageStays
<1>2. \A t, n, p : Excerpt(d, t, n, p) => Excerpt(e, t, n, p)
  BY Zenon, <1>1 DEF Excerpt
<1> QED
  BY Zenon, <1>1, <1>2 DEF Fetched

\* What a dump has stays so.
LEMMA CollectedStays ==
    ASSUME NEW d, NEW e, Consistent(d), Consistent(e), Extends(d, e), NEW k, Collected(d, k)
    PROVE  Collected(e, k)
<1>1. \A t, n, p : Excerpt(d, t, n, p) => Excerpt(e, t, n, p)
  BY PageStays DEF Excerpt
<1>2. ToSet(d.messages) \in SUBSET ToSet(e.messages)
  BY ExtendsKeepsRows DEF Consistent
<1>3. k.known \in Seq(ToSet(d.messages)) => k.known \in Seq(ToSet(e.messages))
  BY <1>2, SeqOfMore
<1> QED
  BY Zenon, <1>1, <1>3 DEF Collected

\* What a client follows stays so.
LEMMA FollowsStays ==
    ASSUME NEW d, NEW e, Consistent(d), Consistent(e), Extends(d, e), NEW s, Follows(d, s)
    PROVE  Follows(e, s)
<1>1. /\ DOMAIN d.messages \in SUBSET DOMAIN e.messages
      /\ \A i \in DOMAIN d.messages : e.messages[i] = d.messages[i]
  BY ExtendsKeepsRows DEF Consistent
<1>2. s.ids \in Seq(DOMAIN e.messages)
  BY <1>1, SeqOfMore DEF Follows, FirstOf
<1>3. \A i \in DOMAIN s.ids : s.ids[i] \in DOMAIN d.messages
  BY ElementIs DEF Follows, FirstOf
<1> QED
  BY <1>1, <1>2, <1>3 DEF Follows, FirstOf

\* The parent of a message is an earlier one of its thread.
LEMMA ParentIsThere ==
    ASSUME NEW d, Consistent(d), NEW i \in DOMAIN d.messages, d.messages[i].parent # 0
    PROVE  /\ d.messages[i].parent \in DOMAIN d.messages
           /\ d.messages[i].parent < i
           /\ d.messages[d.messages[i].parent].thread = d.messages[i].thread
<1>1. d.messages \in Seq(MessageRow)
  BY TablesAre DEF Consistent
<1>2. /\ d.messages[i].parent < i
      /\ d.messages[d.messages[i].parent].thread = d.messages[i].thread
  BY LogsIs DEF Consistent
<1>3. DOMAIN d.messages = 1 .. Len(d.messages) /\ Len(d.messages) \in Nat /\ d.messages[i] \in MessageRow
  BY <1>1
<1>4. d.messages[i].parent \in Nat
  BY <1>3 DEF MessageRow
<1> QED
  BY <1>2, <1>3, <1>4

\* The messages among rows that there are stay the same ones.
LEMMA MessagesInStay ==
    ASSUME NEW d, NEW e, Consistent(d), Consistent(e), Extends(d, e), NEW w \in SUBSET Rows(d)
    PROVE  MessagesIn(e, w) = MessagesIn(d, w)
<1>1. \A i : <<"messages", i>> \in w => i \in DOMAIN d.messages /\ i \in DOMAIN e.messages
  BY RowsStay
<1> QED
  BY <1>1 DEF MessagesIn

\* They are listed in order.
LEMMA MessagesInLists ==
    ASSUME NEW d, Consistent(d), NEW w, NEW M, M = MessagesIn(d, w)
    PROVE  /\ M \in SUBSET Nat /\ M \in SUBSET DOMAIN d.messages /\ IsFiniteSet(M)
           /\ \A ids : ids = InIdOrder(M) =>
                 /\ Lists(ids, M, Cardinality(M)) /\ Cardinality(M) \in Nat
                 /\ Len(ids) = Cardinality(M) /\ DOMAIN ids = 1 .. Cardinality(M)
<1>1. d.messages \in Seq(MessageRow)
  BY TablesAre DEF Consistent
<1>2. DOMAIN d.messages = 1 .. Len(d.messages) /\ Len(d.messages) \in Nat
  BY <1>1
<1>3. M \in SUBSET DOMAIN d.messages
  BY DEF MessagesIn
<1>4. M \in SUBSET Nat
  BY <1>2, <1>3
<1>5. IsFiniteSet(M)
  <2>1. PICK n \in Nat : n = Len(d.messages)
    BY <1>2
  <2>2. M \in SUBSET (1 .. n)
    BY <1>2, <1>3, <2>1
  <2>3. IsFiniteSet(1 .. n)
    BY FS_Interval
  <2> QED
    BY <2>2, <2>3, FS_Subset
<1>6. ASSUME NEW ids, ids = InIdOrder(M)
      PROVE  /\ Lists(ids, M, Cardinality(M)) /\ Cardinality(M) \in Nat
             /\ Len(ids) = Cardinality(M) /\ DOMAIN ids = 1 .. Cardinality(M)
  <2>1. PICK n \in Nat : n = Cardinality(M)
    BY <1>5, FS_CardinalityType
  <2>2. Lists(ids, M, n)
    BY <1>4, <1>5, <1>6, <2>1, InIdOrderLists DEF Lists
  <2>3. Len(ids) = n /\ DOMAIN ids = 1 .. n
    BY <2>1, <2>2 DEF Lists
  <2> QED
    BY <2>1, <2>2, <2>3
<1> QED
  BY <1>3, <1>4, <1>5, <1>6

\* Of the lines of a file, those of messages.
LEMMA MessageLinesAre ==
    ASSUME NEW T, NEW lines \in Seq(T), NEW ms, ms = MessageLines(lines)
    PROVE  /\ ms \in Seq(T) /\ Len(ms) \in Nat /\ DOMAIN ms = 1 .. Len(ms)
           /\ \A i \in DOMAIN ms : ms[i].type = "message" /\ ms[i] \in ToSet(lines)
           /\ \A l \in ToSet(lines) : l.type = "message" => l \in ToSet(ms)
<1>0. PICK S : S = {i \in DOMAIN lines : lines[i].type = "message"}
  OBVIOUS
<1>1. ms = Select(lines, S) /\ S \in SUBSET DOMAIN lines
  BY <1>0 DEF MessageLines
<1>2. PICK n : n = Cardinality(S)
  OBVIOUS
<1>3. /\ ms \in Seq(T) /\ Len(ms) = n
      /\ \A k \in 1 .. n : \E i \in S : ms[k] = lines[i]
      /\ \A i \in S : \E k \in 1 .. n : ms[k] = lines[i]
  <2>1. /\ Select(lines, S) \in Seq(T) /\ Len(Select(lines, S)) = Cardinality(S)
        /\ \A k \in 1 .. Cardinality(S) : \E i \in S : Select(lines, S)[k] = lines[i]
        /\ \A i \in S : \E k \in 1 .. Cardinality(S) : Select(lines, S)[k] = lines[i]
    BY Zenon, <1>1, SelectLists
  <2> QED
    BY Zenon, <1>1, <1>2, <2>1
<1>4. Len(ms) \in Nat /\ DOMAIN ms = 1 .. n
  BY <1>3
<1>5. \A i \in DOMAIN ms : ms[i].type = "message" /\ ms[i] \in ToSet(lines)
  BY <1>0, <1>3, <1>4 DEF ToSet
<1>6. ASSUME NEW l \in ToSet(lines), l.type = "message"
      PROVE  l \in ToSet(ms)
  <2>1. PICK i \in S : l = lines[i]
    BY <1>0, <1>6 DEF ToSet
  <2> QED
    BY <1>3, <1>4, <2>1 DEF ToSet
<1> QED
  BY <1>3, <1>4, <1>5, <1>6

\* A copy stays one.
LEMMA ImportedStays ==
    ASSUME NEW d, NEW e, Consistent(d), Consistent(e), Extends(d, e), NEW w \in SUBSET Rows(d),
           NEW T, NEW lines \in Seq(T), NEW t, Imported(d, w, t, lines)
    PROVE  Imported(e, w, t, lines)
<1>1. PICK M : M = MessagesIn(d, w)
  OBVIOUS
<1>2. PICK ids : ids = InIdOrder(M)
  OBVIOUS
<1>3. PICK ms : ms = MessageLines(lines)
  OBVIOUS
<1>4. MessagesIn(e, w) = M
  BY <1>1, MessagesInStay
<1>5. /\ Len(ids) = Len(ms)
      /\ \A i \in DOMAIN ms :
            MessageIs(d.messages[ids[i]], t, ms[i], CopyOf(lines, ids, ms[i].ref))
      /\ \A l \in {x \in ToSet(lines) : x.type = "reaction"} :
            \E i \in DOMAIN d.reactions :
               <<"reactions", i>> \in w /\ ReactionIs(d.reactions[i], l, CopyOf(lines, ids, l.ref))
  BY Zenon, <1>1, <1>2, <1>3 DEF Imported
<1>6. /\ M \in SUBSET DOMAIN d.messages
      /\ Lists(ids, M, Cardinality(M)) /\ DOMAIN ids = 1 .. Len(ids)
  BY <1>1, <1>2, MessagesInLists
<1>7. DOMAIN ms = 1 .. Len(ms)
  BY <1>3, MessageLinesAre
<1>8. ASSUME NEW i \in DOMAIN ms
      PROVE  e.messages[ids[i]] = d.messages[ids[i]]
  <2>1. ids[i] \in M
    BY <1>5, <1>6, <1>7 DEF Lists
  <2> QED
    BY <1>6, <2>1, ExtendsKeepsRows DEF Consistent
<1>9. \A i \in DOMAIN d.reactions : i \in DOMAIN e.reactions /\ e.reactions[i] = d.reactions[i]
  BY ExtendsKeepsRows DEF Consistent
<1>10. \A i \in DOMAIN ms :
          MessageIs(e.messages[ids[i]], t, ms[i], CopyOf(lines, ids, ms[i].ref))
  BY Zenon, <1>5, <1>8
<1>11. \A l \in {x \in ToSet(lines) : x.type = "reaction"} :
          \E i \in DOMAIN e.reactions :
             <<"reactions", i>> \in w /\ ReactionIs(e.reactions[i], l, CopyOf(lines, ids, l.ref))
  BY Zenon, <1>5, <1>9
<1> QED
  BY Zenon, <1>2, <1>3, <1>4, <1>5, <1>10, <1>11 DEF Imported

\* So all of it does, of a client that does not act.
LEMMA MineStays ==
    ASSUME NEW d, NEW e, Consistent(d), Consistent(e), Extends(d, e), NEW k \in ClientState, NEW x,
           NEW w \in SUBSET Rows(d), NEW s, Mine(d, k, x, w, s)
    PROVE  Mine(e, k, x, w, s)
<1>1. k.lines \in Seq(Parsed)
  BY ClientFields
<1>2. Fetched(e, k, x, s) /\ Collected(e, k) /\ Follows(e, s)
  BY FetchedStays, CollectedStays, FollowsStays DEF Mine
<1>3. Imports(e, k, x, w)
  <2>1. Imported(d, w, k.thread, k.lines) => Imported(e, w, k.thread, k.lines)
    BY <1>1, ImportedStays
  <2> QED
    BY <2>1 DEF Mine, Imports
<1> QED
  BY <1>2, <1>3 DEF Mine

\* What has been written stays so.
LEMMA ResolvedStays ==
    ASSUME NEW d, NEW e, Consistent(d), Consistent(e), Extends(d, e), NEW x, Resolved(d, x)
    PROVE  Resolved(e, x)
<1>1. /\ DOMAIN d.messages \in SUBSET DOMAIN e.messages
      /\ \A i \in DOMAIN d.messages : e.messages[i] = d.messages[i]
  BY ExtendsKeepsRows DEF Consistent
<1>2. PICK ms : ms = MessageLines(x.lines)
  OBVIOUS
<1>3. ASSUME NEW j \in MessagesOf(d, x.thread)
      PROVE  /\ j \in MessagesOf(e, x.thread) /\ e.messages[j] = d.messages[j]
             /\ ParentSeq(e, d.messages[j]) = ParentSeq(d, d.messages[j])
  <2>1. j \in DOMAIN d.messages /\ d.messages[j].thread = x.thread
    BY DEF MessagesOf
  <2>2. d.messages[j].parent # 0 => d.messages[j].parent \in DOMAIN d.messages
    BY <2>1, ParentIsThere
  <2>3. ParentSeq(e, d.messages[j]) = ParentSeq(d, d.messages[j])
    BY Zenon, <1>1, <2>2 DEF ParentSeq
  <2> QED
    BY <1>1, <2>1, <2>3 DEF MessagesOf
<1>4. \A i \in DOMAIN ms :
        /\ ms[i].seq = ms[1].seq + i - 1
        /\ x.whole => ms[1].seq = 1
        /\ \E j \in MessagesOf(d, x.thread) :
              d.messages[j].seq = ms[i].seq /\ ms[i].ref = ParentSeq(d, d.messages[j])
  BY Zenon, <1>2 DEF Resolved
<1>5. \A i \in DOMAIN ms :
        /\ ms[i].seq = ms[1].seq + i - 1
        /\ x.whole => ms[1].seq = 1
        /\ \E j \in MessagesOf(e, x.thread) :
              e.messages[j].seq = ms[i].seq /\ ms[i].ref = ParentSeq(e, e.messages[j])
  <2> TAKE i \in DOMAIN ms
  <2>1. PICK j \in MessagesOf(d, x.thread) :
              d.messages[j].seq = ms[i].seq /\ ms[i].ref = ParentSeq(d, d.messages[j])
    BY <1>4
  <2>2. \E j2 \in MessagesOf(e, x.thread) :
              e.messages[j2].seq = ms[i].seq /\ ms[i].ref = ParentSeq(e, e.messages[j2])
    BY <1>3, <2>1
  <2> QED
    BY <1>4, <2>2
<1> QED
  BY Zenon, <1>2, <1>5 DEF Resolved

----------------------------------------------------------------------------
(* A batch and the second invariant *)

\* id is the copy of the event that ref names by its source seq, where the first
\* message of the batch has id n + 1.
Target(events, n, ref, id) ==
    /\ ref = 0 => id = 0
    /\ \A q \in Sourced(events) : events[q].seq = ref => id = n + MessagesUpTo(events, q)

\* Event i of a batch, that was begun on d, has become a row of e.
CopiedMessage(d, e, t, events, i) ==
    LET up_ == MessagesUpTo(events, i)  m == e.messages[Len(d.messages) + up_]
    IN  /\ Len(d.messages) + up_ \in DOMAIN e.messages
        /\ m.seq = LastMessageSeq(d, t) + up_
        /\ MessageIs(m, t, events[i], m.parent)
        /\ Target(events, Len(d.messages), events[i].ref, m.parent)
CopiedReaction(d, e, events, i) ==
    \E r \in DOMAIN e.reactions \ DOMAIN d.reactions :
        /\ ReactionIs(e.reactions[r], events[i], e.reactions[r].message)
        /\ Target(events, Len(d.messages), events[i].ref, e.reactions[r].message)
Copied(d, e, t, events, i) ==
    IF events[i].type = "message" THEN CopiedMessage(d, e, t, events, i)
                                  ELSE CopiedReaction(d, e, events, i)

\* The batch of these events in the transaction x, begun on d.
InBatch(d, x, t, events) ==
    LET j == Len(x.results)
    IN  /\ SortedSourceSeqs(events)
        /\ x.map = SourceSequenceMap(events, NextMessageSeq(d, t))
        /\ j <= Len(events)
        /\ Len(x.db.messages) = Len(d.messages) + MessagesUpTo(events, j)
        /\ LastMessageSeq(x.db, t) = LastMessageSeq(d, t) + MessagesUpTo(events, j)
        /\ \A i \in 1 .. j : Copied(d, x.db, t, events, i)

TxKept == tx.owner # Nobody => InBatch(db, tx, cl[tx.owner].thread, ToEvents(cl[tx.owner]))

Kept ==
    /\ DOMAIN seen = Client
    /\ \A c \in Client : Mine(db, cl[c], h[c], wrote[c], seen[c])
    /\ TxKept
    /\ Resolved(db, exported)

----------------------------------------------------------------------------
(* The steps that read and write nothing *)

\* The handler has done all that was asked.
Ready(x) == x.phase \in {"starting", "answered"} /\ x.reply.code = "OK"

\* A client at the same point.
SameWork(k2, k) ==
    /\ k2.cmd = k.cmd /\ k2.step = k.step /\ k2.thread = k.thread /\ k2.lines = k.lines
    /\ k2.msgs = k.msgs /\ k2.known = k.known

\* What a command reads is in its flags.
LEMMA SameFlags ==
    ASSUME NEW k, NEW k2, k2.cmd = k.cmd
    PROVE  (Following(k2) <=> Following(k)) /\ Whole(k2) = Whole(k)
BY DEF Following, Whole

\* What is kept of a client is so while it waits.
LEMMA MineGoesOn ==
    ASSUME NEW d, NEW k, NEW x, NEW w, NEW s, Mine(d, k, x, w, s),
           NEW k2, SameWork(k2, k), NEW x2, NEW w2,
           Ready(x2) => Ready(x) /\ x2.reply = x.reply,
           k2.code = "OK" \/ Ready(x2) => (k.code = "OK" \/ Ready(x)) /\ w2 = w
    PROVE  Mine(d, k2, x2, w2, s)
<1>1. k2.cmd.op = "read" => k2.step \in {None, "messages"}
  BY DEF Mine, SameWork
<1>2. Fetched(d, k2, x2, s)
  <2>1. Has(k2, s) = Has(k, s)
    BY DEF Has, SameWork
  <2>2. Fetched(d, k, x, s)
    BY DEF Mine
  <2>3. (Following(k2) <=> Following(k)) /\ Whole(k2) = Whole(k)
    BY SameFlags DEF SameWork
  <2> QED
    BY Zenon, <2>1, <2>2, <2>3 DEF Fetched, SameWork, Ready
<1>3. Collected(d, k2)
  <2>1. Whole(k2) = Whole(k)
    BY SameFlags DEF SameWork
  <2> QED
    BY Zenon, <2>1 DEF Mine, Collected, SameWork
<1>4. Follows(d, s)
  BY DEF Mine
<1>5. Imports(d, k2, x2, w2)
  <2>1. Imports(d, k, x, w)
    BY DEF Mine
  <2> QED
    BY Zenon, <2>1 DEF Imports, Import, SameWork, Ready
<1> QED
  BY <1>1, <1>2, <1>3, <1>4, <1>5 DEF Mine

\* The rest of the clients, which do nothing.
OthersRest(c) ==
    \A x \in Client \ {c} :
        cl'[x] = cl[x] /\ h'[x] = h[x] /\ wrote'[x] = wrote[x] /\ seen'[x] = seen[x]

\* The invariant, from what one client does.
LEMMA KeptFrom ==
    ASSUME IInv, IInv', Kept, NEW c \in Client, OthersRest(c), Extends(db, db'),
           DOMAIN seen' = Client, Mine(db', cl'[c], h'[c], wrote'[c], seen'[c]),
           TxKept', Resolved(db', exported') \/ exported' = exported
    PROVE  Kept'
<1>1. Consistent(db) /\ Consistent(db')
  BY DEF IInv, Global
<1>2. ASSUME NEW x \in Client
      PROVE  Mine(db', cl'[x], h'[x], wrote'[x], seen'[x])
  <2>1. CASE x = c
    BY <2>1
  <2>2. CASE x # c
    <3>1. cl'[x] = cl[x] /\ h'[x] = h[x] /\ wrote'[x] = wrote[x] /\ seen'[x] = seen[x]
      BY <2>2 DEF OthersRest
    <3>2. cl[x] \in ClientState /\ wrote[x] \in SUBSET Rows(db)
      BY DEF IInv, Own, ClientTypes, Acts
    <3>3. Mine(db, cl[x], h[x], wrote[x], seen[x])
      BY DEF Kept
    <3>4. PICK k \in ClientState, w \in SUBSET Rows(db) : k = cl[x] /\ w = wrote[x]
      BY <3>2
    <3>5. PICK y, s : y = h[x] /\ s = seen[x]
      OBVIOUS
    <3>6. Mine(db', k, y, w, s)
      BY <1>1, <3>3, <3>4, <3>5, MineStays
    <3> QED
      BY Zenon, <3>1, <3>4, <3>5, <3>6
  <2> QED
    BY <2>1, <2>2
<1>3. Resolved(db', exported')
  <2>1. Resolved(db, exported)
    BY DEF Kept
  <2>2. Resolved(db', exported)
    BY <1>1, <2>1, ResolvedStays
  <2> QED
    BY Zenon, <2>2
<1> QED
  BY Zenon, <1>2, <1>3 DEF Kept

\* A transaction that goes on as it was.
LEMMA TxKeptStays ==
    ASSUME Kept, tx' = tx, db' = db,
           tx.owner # Nobody =>
             /\ cl'[tx.owner].cmd = cl[tx.owner].cmd /\ cl'[tx.owner].lines = cl[tx.owner].lines
             /\ cl'[tx.owner].thread = cl[tx.owner].thread
    PROVE  TxKept'
<1> SUFFICES ASSUME tx.owner # Nobody
             PROVE  InBatch(db, tx, cl'[tx.owner].thread, ToEvents(cl'[tx.owner]))
  BY Zenon DEF TxKept
<1>1. ToEvents(cl'[tx.owner]) = ToEvents(cl[tx.owner])
  BY Zenon DEF ToEvents, ToEvent, Import, LiveAuthorType
<1>2. InBatch(db, tx, cl[tx.owner].thread, ToEvents(cl[tx.owner]))
  BY DEF Kept, TxKept
<1> QED
  BY Zenon, <1>1, <1>2

\* There is none.
LEMMA NoTxIsKept ==
    ASSUME tx' = NoTx
    PROVE  TxKept'
BY DEF TxKept, NoTx

\* A step of one client that leaves the database alone.
LEMMA QuietKept ==
    ASSUME IInv, IInv', Kept, NEW c \in Client, OthersRest(c), db' = db, exported' = exported,
           seen' = seen, SameWork(cl'[c], cl[c]),
           Ready(h'[c]) => Ready(h[c]) /\ h'[c].reply = h[c].reply,
           cl'[c].code = "OK" \/ Ready(h'[c]) =>
             (cl[c].code = "OK" \/ Ready(h[c])) /\ wrote'[c] = wrote[c],
           tx' \in {tx, NoTx}
    PROVE  Kept'
<1>1. Extends(db, db')
  BY ExtendsIsAPreorder
<1>2. Mine(db', cl'[c], h'[c], wrote'[c], seen'[c])
  <2>1. Mine(db, cl[c], h[c], wrote[c], seen[c])
    BY DEF Kept
  <2>2. PICK k, k2, x, x2, w, w2, s :
          /\ k = cl[c] /\ k2 = cl'[c] /\ x = h[c] /\ x2 = h'[c]
          /\ w = wrote[c] /\ w2 = wrote'[c] /\ s = seen[c]
    OBVIOUS
  <2>3. Mine(db, k2, x2, w2, s)
    BY <2>1, <2>2, MineGoesOn
  <2> QED
    BY Zenon, <2>2, <2>3
<1>3. DOMAIN seen' = Client
  BY DEF Kept
<1>4. TxKept'
  <2>1. CASE tx' = NoTx
    BY <2>1, NoTxIsKept
  <2>2. CASE tx' = tx
    <3>1. tx.owner # Nobody => tx.owner \in Client
      BY DEF IInv, Global, TxOK
    <3>2. tx.owner # Nobody =>
             /\ cl'[tx.owner].cmd = cl[tx.owner].cmd /\ cl'[tx.owner].lines = cl[tx.owner].lines
             /\ cl'[tx.owner].thread = cl[tx.owner].thread
      BY Zenon, <3>1 DEF SameWork, OthersRest
    <3> QED
      BY <2>2, <3>2, TxKeptStays
  <2> QED
    BY <2>1, <2>2
<1> QED
  BY <1>1, <1>2, <1>3, <1>4, KeptFrom

\* A request, and the dial that fails.
LEMMA CallKept ==
    ASSUME IInv, IInv', Kept, NEW c \in Client, Call(c)
    PROVE  Kept'
<1>1. /\ cl[c] \in ClientState /\ Handler(h[c]) /\ Serves(c)
      /\ DOMAIN cl = Client /\ DOMAIN h = Client /\ DOMAIN wrote = Client
  BY DEF IInv, Global, Own, ClientTypes
<1>2. /\ cl[c].code = None /\ ~cl[c].waiting
      /\ db' = db /\ tx' = tx /\ exported' = exported /\ seen' = seen
      /\ wrote' = [wrote EXCEPT ![c] = {}]
  BY DEF Call
<1>3. h[c].phase = "none"
  BY <1>1, <1>2, NoneIsOther DEF Serves
<1>4. \/ /\ cl' = [cl EXCEPT ![c] = [cl[c] EXCEPT !.waiting = TRUE]]
         /\ h' = [h EXCEPT ![c] = [h[c] EXCEPT !.phase = "sent"]]
      \/ /\ cl' = [cl EXCEPT ![c] = [[cl[c] EXCEPT !.code = "DAEMON_DOWN"] EXCEPT !.waiting = FALSE]]
         /\ h' = h
  BY <1>1 DEF Call, End
<1>5. OthersRest(c)
  BY <1>1, <1>2, <1>4 DEF OthersRest
<1>6. SameWork(cl'[c], cl[c]) /\ cl'[c].code \in {None, "DAEMON_DOWN"}
  <2>1. PICK k0 \in ClientState : k0 = cl[c]
    BY <1>1
  <2>2. PICK k : k = cl'[c]
    OBVIOUS
  <2>3. \/ k = [k0 EXCEPT !.waiting = TRUE]
        \/ k = [[k0 EXCEPT !.code = "DAEMON_DOWN"] EXCEPT !.waiting = FALSE]
    BY <1>1, <1>4, <2>1, <2>2
  <2>4. k0.code = None
    BY <1>2, <2>1
  <2>5. SameWork(k, k0) /\ k.code \in {None, "DAEMON_DOWN"}
    BY <2>3, <2>4 DEF ClientState, SameWork
  <2> QED
    BY Zenon, <2>1, <2>2, <2>5
<1>7. cl'[c].code # "OK" /\ ~Ready(h'[c])
  <2>1. h'[c].phase \in {"sent", "none"}
    BY <1>1, <1>3, <1>4 DEF Handler
  <2> QED
    BY <1>6, <2>1, NoneIsOther DEF Ready, Codes
<1> QED
  BY Zenon, <1>2, <1>5, <1>6, <1>7, QuietKept

\* An answer that is given up.
LEMMA LoseKept ==
    ASSUME IInv, IInv', Kept, NEW c \in Client, Lose(c)
    PROVE  Kept'
<1> DEFINE code == LostCode(cl[c].step)
<1>1. cl[c] \in ClientState /\ DOMAIN cl = Client
  BY DEF IInv, Global, Own, ClientTypes
<1>2. /\ db' = db /\ tx' = tx /\ exported' = exported /\ seen' = seen
      /\ wrote' = wrote /\ h' = h
      /\ cl' = [cl EXCEPT ![c] = [[cl[c] EXCEPT !.code = code] EXCEPT !.waiting = FALSE]]
  BY <1>1 DEF Lose, End
<1>3. code # "OK"
  BY DEF LostCode
<1> HIDE DEF code
<1>4. OthersRest(c)
  BY <1>1, <1>2 DEF OthersRest
<1>5. SameWork(cl'[c], cl[c]) /\ cl'[c].code # "OK"
  <2>1. PICK k0 \in ClientState : k0 = cl[c]
    BY <1>1
  <2>2. PICK k : k = cl'[c]
    OBVIOUS
  <2>3. k = [[k0 EXCEPT !.code = code] EXCEPT !.waiting = FALSE]
    BY <1>1, <1>2, <2>1, <2>2
  <2>4. SameWork(k, k0) /\ k.code = code
    BY <2>3 DEF ClientState, SameWork
  <2> QED
    BY Zenon, <1>3, <2>1, <2>2, <2>4
<1> QED
  BY Zenon, <1>2, <1>4, <1>5, QuietKept DEF Ready

\* A step of a handler that does not answer OK, nor write.
LEMMA HandlerKept ==
    ASSUME IInv, IInv', Kept, NEW c \in Client, DOMAIN h' = Client,
           \A x \in Client \ {c} : h'[x] = h[x],
           db' = db, cl' = cl, wrote' = wrote, seen' = seen, exported' = exported,
           Ready(h'[c]) => Ready(h[c]) /\ h'[c].reply = h[c].reply,
           tx' \in {tx, NoTx}
    PROVE  Kept'
<1>1. OthersRest(c)
  BY Zenon DEF OthersRest
<1>2. SameWork(cl'[c], cl[c])
  BY DEF SameWork
<1> QED
  BY Zenon, <1>1, <1>2, QuietKept

\* A refusal.
LEMMA ErrorKept ==
    ASSUME IInv, IInv', Kept, NEW c \in Client, NEW code, code # "OK", Answer(c, code, <<>>),
           tx' \in {tx, NoTx},
           db' = db, cl' = cl, wrote' = wrote, seen' = seen, exported' = exported
    PROVE  Kept'
<1>1. PICK x : x = [NoHandler EXCEPT !.phase = "answered", !.reply = [code |-> code, out |-> <<>>]]
  OBVIOUS
<1>2. x.reply.code = code
  BY <1>1 DEF NoHandler
<1>3. DOMAIN h = Client /\ h' = [h EXCEPT ![c] = x]
  BY <1>1 DEF IInv, Global, Answer
<1>4. DOMAIN h' = Client /\ h'[c] = x /\ \A y \in Client \ {c} : h'[y] = h[y]
  BY <1>3
<1>5. ~Ready(h'[c])
  BY <1>2, <1>4 DEF Ready
<1> QED
  BY Zenon, <1>4, <1>5, HandlerKept

\* A start.
LEMMA StartSessionKept ==
    ASSUME IInv, IInv', Kept, NEW c \in Client, StartSession(c)
    PROVE  Kept'
<1>1. DOMAIN h = Client /\ Handler(h[c])
  BY DEF IInv, Global, Own, ClientTypes
<1>2. /\ db' = db /\ tx' = tx /\ cl' = cl /\ wrote' = wrote /\ seen' = seen /\ exported' = exported
      /\ h[c].phase = "starting"
  BY DEF StartSession
<1>3. PICK i \in h[c].pending :
        h' = [h EXCEPT ![c].pending = @ \ {i},
                       ![c].phase = IF h[c].pending = {i} THEN "answered" ELSE @]
  BY DEF StartSession
<1>4. PICK p : p = IF h[c].pending = {i} THEN "answered" ELSE h[c].phase
  OBVIOUS
<1>5. h' = [h EXCEPT ![c] = [h[c] EXCEPT !.pending = h[c].pending \ {i}, !.phase = p]]
  BY <1>1, <1>3, <1>4
<1>6. /\ DOMAIN h' = Client /\ \A x \in Client \ {c} : h'[x] = h[x]
      /\ h'[c].reply = h[c].reply
  BY <1>1, <1>5 DEF Handler
<1>7. Ready(h'[c]) => Ready(h[c])
  BY <1>2, <1>6 DEF Ready
<1> QED
  BY Zenon, <1>2, <1>6, <1>7, HandlerKept

\* A handler that returns as its client is gone.
LEMMA AbandonKept ==
    ASSUME IInv, IInv', Kept, NEW c \in Client, Abandon(c)
    PROVE  Kept'
<1>1. DOMAIN h = Client
  BY DEF IInv, Global
<1>2. /\ db' = db /\ tx' \in {tx, NoTx} /\ cl' = cl /\ wrote' = wrote /\ seen' = seen
      /\ exported' = exported /\ h' = [h EXCEPT ![c] = NoHandler]
  BY DEF Abandon
<1>3. DOMAIN h' = Client /\ h'[c] = NoHandler /\ \A x \in Client \ {c} : h'[x] = h[x]
  BY <1>1, <1>2
<1>4. ~Ready(h'[c])
  BY <1>3 DEF Ready, NoHandler
<1> QED
  BY Zenon, <1>2, <1>3, <1>4, HandlerKept

\* The end of the daemon, its restart and a stuttering step.
LEMMA CrashKept ==
    ASSUME IInv, IInv', Kept, Crash \/ Restart \/ UNCHANGED vars
    PROVE  Kept'
<1>1. /\ db' = db /\ cl' = cl /\ wrote' = wrote /\ seen' = seen /\ exported' = exported
      /\ \/ h' = [c \in Client |-> NoHandler] /\ tx' = NoTx
         \/ h' = h /\ tx' = tx
  BY DEF Crash, Restart, vars
<1>2. ASSUME NEW c \in Client
      PROVE  Mine(db', cl'[c], h'[c], wrote'[c], seen'[c])
  <2>1. Mine(db, cl[c], h[c], wrote[c], seen[c])
    BY DEF Kept
  <2>2. CASE h' = h
    BY Zenon, <1>1, <2>1, <2>2
  <2>3. CASE h' = [x \in Client |-> NoHandler]
    <3>1. ~Ready(h'[c])
      BY <2>3 DEF Ready, NoHandler
    <3>2. PICK k, x, x2, w, s : k = cl[c] /\ x = h[c] /\ x2 = h'[c] /\ w = wrote[c] /\ s = seen[c]
      OBVIOUS
    <3>3. Mine(db, k, x, w, s) /\ ~Ready(x2) /\ SameWork(k, k)
      BY Zenon, <2>1, <3>1, <3>2 DEF SameWork
    <3>4. Mine(db, k, x2, w, s)
      BY Zenon, <3>3, MineGoesOn
    <3> QED
      BY Zenon, <1>1, <3>2, <3>4
  <2> QED
    BY <1>1, <2>2, <2>3
<1>3. TxKept'
  <2>1. CASE tx' = NoTx
    BY <2>1, NoTxIsKept
  <2>2. CASE tx' = tx
    BY <1>1, <2>2, TxKeptStays DEF Kept
  <2> QED
    BY <1>1, <2>1, <2>2
<1> QED
  BY Zenon, <1>1, <1>2, <1>3 DEF Kept

----------------------------------------------------------------------------
(* A command begins, and a request is served *)

\* What a command asks for first.
LEMMA FirstIs ==
    ASSUME NEW cmd \in Command
    PROVE  /\ PlanOf(cmd).first \notin {"all", "reactions"}
           /\ cmd.op = "read" => PlanOf(cmd).first = "messages"
<1>1. cmd.op \in {"listChannels", "newChannel", "listThreads", "newThread", "export", "read",
                  "append", "import", "send", "react", "inbox"}
  BY DEF Command
<1>2. CASE cmd.op \in {"listChannels", "newChannel", "listThreads", "newThread"}
  BY <1>2 DEF PlanOf, Plan, ChannelListCmd, ChannelCreateCmd, ThreadListCmd, ThreadNewCmd
<1>3. CASE cmd.op \in {"export", "read", "append", "import"}
  BY <1>3 DEF PlanOf, Plan, ThreadExportCmd, AgentReadCmd, AgentAppendCmd, ThreadImportCmd
<1>4. CASE cmd.op \in {"send", "react", "inbox"}
  BY <1>4 DEF PlanOf, Plan, MessageSendCmd, ReactAddCmd, InboxCmd
<1> QED
  BY <1>1, <1>2, <1>3, <1>4

\* A command.
LEMMA BeginKept ==
    ASSUME IInv, IInv', Kept, NEW c \in Client, NEW cmd \in Commands, Free(c), Begin(c, cmd)
    PROVE  Kept'
<1> DEFINE file == File(cmd)
           code == IF ~PlanOf(cmd).ok THEN "BAD_ARGS"
                   ELSE IF \E i \in DOMAIN file : ~LineOK(file[i]) THEN "BAD_JSONL" ELSE None
           k == Begun(cmd, PlanOf(cmd).first, ParseLines(file), code)
<1>1. DOMAIN cl = Client /\ DOMAIN wrote = Client /\ DOMAIN seen = Client /\ TxOK
  BY DEF IInv, Global, Kept
<1>2. /\ h[c].phase = "none" /\ h' = h /\ db' = db /\ tx' = tx /\ seen' = seen
      /\ exported' = exported
  BY DEF Free, Begin
<1>3. cl' = [cl EXCEPT ![c] = k] /\ wrote' = [wrote EXCEPT ![c] = {}]
  BY BegunIs DEF Begin
<1>4. code \in {"BAD_ARGS", "BAD_JSONL", None}
  OBVIOUS
<1> HIDE DEF file, code
<1>5. k.cmd = cmd /\ k.step = PlanOf(cmd).first /\ k.code = code
  BY DEF Begun
<1> HIDE DEF k
<1>6. cl'[c] = k /\ OthersRest(c)
  BY <1>1, <1>2, <1>3 DEF OthersRest
<1>7. /\ k.step \notin {"all", "reactions"}
      /\ k.cmd.op = "read" => k.step = "messages"
  BY <1>5, FirstIs, CommandAssumption
<1>8. k.code # "OK"
  BY <1>4, <1>5, NoneIsOther DEF Codes
<1>9. ~Ready(h'[c])
  BY <1>2 DEF Ready
<1>10. Mine(db', cl'[c], h'[c], wrote'[c], seen'[c])
  <2>1. Follows(db', seen'[c])
    BY Zenon, <1>2 DEF Kept, Mine
  <2>2. Fetched(db', k, h'[c], seen'[c])
    BY Zenon, <1>9 DEF Fetched, Ready
  <2>3. Collected(db', k)
    BY Zenon, <1>7 DEF Collected
  <2>4. Imports(db', k, h'[c], wrote'[c])
    BY Zenon, <1>8, <1>9 DEF Imports, Ready
  <2> QED
    BY <1>6, <1>7, <2>1, <2>2, <2>3, <2>4 DEF Mine
<1>11. TxKept'
  <2>1. tx.owner # c
    BY <1>1, <1>2 DEF TxOK
  <2>2. tx.owner # Nobody => cl'[tx.owner] = cl[tx.owner]
    BY <1>1, <1>3, <2>1 DEF TxOK
  <2> QED
    BY <1>2, <2>2, TxKeptStays
<1>12. Extends(db, db')
  BY <1>2, ExtendsIsAPreorder
<1> QED
  BY Zenon, <1>1, <1>2, <1>6, <1>10, <1>11, <1>12, KeptFrom

\* The cursor of a client tells how many messages of the thread it has.
LEMMA CursorIs ==
    ASSUME NEW c \in Client, Consistent(db), Follows(db, seen[c])
    PROVE  /\ Cursor(c) = Len(Has(cl[c], seen[c]))
           /\ Cursor(c) \in 0 .. LastMessageSeq(db, cl[c].thread)
           /\ LastMessageSeq(db, cl[c].thread) \in Nat
<1>1. PICK s : s = Has(cl[c], seen[c])
  OBVIOUS
<1>2. PICK t : t = cl[c].thread
  OBVIOUS
<1>3. Had(c) = s
  BY <1>1 DEF Had, Has
<1>4. /\ s \in Seq(DOMAIN db.messages)
      /\ \A i \in DOMAIN s : db.messages[s[i]].thread = t /\ db.messages[s[i]].seq = i
  <2>1. CASE seen[c].thread = t
    <3>1. s = seen[c].ids
      BY Zenon, <1>1, <1>2, <2>1 DEF Has
    <3> QED
      BY Zenon, <2>1, <3>1 DEF Follows, FirstOf
  <2>2. CASE seen[c].thread # t
    <3>1. s = <<>>
      BY Zenon, <1>1, <1>2, <2>2 DEF Has
    <3>2. <<>> \in Seq(DOMAIN db.messages) /\ DOMAIN <<>> = {}
      OBVIOUS
    <3> QED
      BY <3>1, <3>2
  <2> QED
    BY <2>1, <2>2
<1>5. /\ LastMessageSeq(db, t) \in Nat
      /\ \A i \in MessagesOf(db, t) : db.messages[i].seq \in 1 .. LastMessageSeq(db, t)
  <2>1. PICK M, f, n : M = MessagesOf(db, t) /\ f = InIdOrder(M) /\ n = LastMessageSeq(db, t)
    OBVIOUS
  <2>2. n \in Nat /\ \A i \in M : db.messages[i].seq \in 1 .. n
    BY <2>1, ThreadLists
  <2> QED
    BY Zenon, <2>1, <2>2
<1>6. Len(s) \in Nat /\ DOMAIN s = 1 .. Len(s)
  BY <1>4
<1>7. CASE s = <<>>
  <2>1. Cursor(c) = 0 /\ Len(s) = 0
    BY <1>3, <1>7 DEF Cursor
  <2> QED
    BY <1>1, <1>2, <1>5, <2>1
<1>8. CASE s # <<>>
  <2>1. Len(s) \in DOMAIN s
    BY <1>4, <1>6, <1>8
  <2>2. Cursor(c) = db.messages[s[Len(s)]].seq
    BY <1>3, <1>8 DEF Cursor, Last
  <2>3. Cursor(c) = Len(s)
    BY <1>4, <2>1, <2>2
  <2>4. s[Len(s)] \in MessagesOf(db, t)
    BY <1>4, <2>1, ElementIs DEF MessagesOf
  <2>5. Cursor(c) \in 1 .. LastMessageSeq(db, t)
    BY <1>5, <2>2, <2>4
  <2> QED
    BY <1>1, <1>2, <1>5, <2>3, <2>5
<1> QED
  BY <1>7, <1>8

\* Of a page, no seq is beyond the last.
LEMMA PageIsUpToLast ==
    ASSUME NEW d, Consistent(d), NEW t, NEW a, NEW s, Page(d, t, a, s), NEW i \in DOMAIN s
    PROVE  /\ s[i].seq \in 1 .. LastMessageSeq(d, t)
           /\ \E j \in MessagesOf(d, t) : s[i] = d.messages[j]
<1>1. s[i] \in ToSet(d.messages) /\ s[i].thread = t
  BY ElementIs DEF Page
<1>2. PICK j \in DOMAIN d.messages : s[i] = d.messages[j]
  BY <1>1 DEF ToSet
<1>3. j \in MessagesOf(d, t)
  BY <1>1, <1>2 DEF MessagesOf
<1>4. \A x \in MessagesOf(d, t) : d.messages[x].seq \in 1 .. LastMessageSeq(d, t)
  BY ZenonT(60), ThreadLists
<1> QED
  BY <1>2, <1>3, <1>4

\* What a request for messages is answered with.
LEMMA MessagesFetched ==
    ASSUME NEW d, Consistent(d), NEW k \in ClientState, k.step \in {"messages", "all"},
           k.cmd.op = "read" => k.step = "messages",
           Collected(d, k), NEW s, NEW n, n = Len(Has(k, s)), n \in 0 .. LastMessageSeq(d, k.thread),
           NEW out, out = GetMessages(d, k, n).out, NEW x, x.reply.out = out
    PROVE  Fetched(d, k, x, s)
<1>1. k.cmd.last \in Nat /\ k.cmd.after \in Nat
  BY ClientFields
<1>2. CASE k.step = "all"
  <2>1. out = ListMessages(d, k.thread)
    BY <1>2 DEF GetMessages, Done
  <2>2. Page(d, k.thread, 0, out) /\ Len(out) = LastMessageSeq(d, k.thread)
    BY <2>1, ReadAllIsAPage
  <2>3. ASSUME NEW i \in DOMAIN k.msgs
        PROVE  k.msgs[i].seq <= Len(out)
    <3>1. PICK a \in Nat : Page(d, k.thread, a, k.msgs)
      BY <1>2 DEF Collected, Excerpt
    <3>2. k.msgs[i].seq \in 1 .. LastMessageSeq(d, k.thread)
      BY <3>1, PageIsUpToLast
    <3> QED
      BY <2>2, <3>2
  <2> QED
    BY <1>2, <2>2, <2>3 DEF Fetched
<1>3. CASE k.step = "messages" /\ Following(k)
  <2>1. out = ListMessagesAfter(d, k.thread, n)
    BY <1>3 DEF GetMessages, Done
  <2>2. Page(d, k.thread, n, out)
    BY Zenon, <2>1, ReadAfterIsAPage
  <2> QED
    BY <1>3, <2>2 DEF Fetched
<1>4. CASE k.step = "messages" /\ ~Following(k)
  <2>1. out = IF k.cmd.after > 0 THEN ListMessagesAfter(d, k.thread, k.cmd.after)
              ELSE IF k.cmd.last > 0 THEN ListMessagesLastN(d, k.thread, k.cmd.last)
              ELSE ListMessages(d, k.thread)
    BY <1>4 DEF GetMessages, Done
  <2>2. Excerpt(d, k.thread, Whole(k), out)
    <3>1. CASE k.cmd.after > 0
      <4>1. PICK a \in Nat : a = k.cmd.after
        BY <1>1
      <4>2. out = ListMessagesAfter(d, k.thread, a)
        BY <2>1, <3>1, <4>1
      <4>3. Page(d, k.thread, a, out)
        BY Zenon, <4>2, ReadFromIsAPage
      <4>4. ~Whole(k)
        BY <3>1 DEF Whole
      <4> QED
        BY Zenon, <4>3, <4>4 DEF Excerpt
    <3>2. CASE ~(k.cmd.after > 0) /\ k.cmd.last > 0
      <4>1. \E a \in Nat : Page(d, k.thread, a, out)
        BY <1>1, <2>1, <3>2, ReadLastIsAPage
      <4>2. ~Whole(k)
        BY <3>2 DEF Whole
      <4> QED
        BY Zenon, <4>1, <4>2 DEF Excerpt
    <3>3. CASE ~(k.cmd.after > 0) /\ ~(k.cmd.last > 0)
      <4>1. Page(d, k.thread, 0, out) /\ 0 \in Nat
        BY <2>1, <3>3, ReadAllIsAPage
      <4> QED
        BY Zenon, <4>1 DEF Excerpt
    <3> QED
      BY <3>1, <3>2, <3>3
  <2> QED
    BY <1>4, <2>2 DEF Fetched
<1> QED
  BY <1>2, <1>3, <1>4

\* A request that is not a batch.
LEMMA ServeKept ==
    ASSUME IInv, IInv', Kept, NEW c \in Client, Serve(c)
    PROVE  Kept'
<1>1. /\ Consistent(db) /\ Consistent(db') /\ cl[c] \in ClientState /\ Serves(c)
      /\ DOMAIN h = Client /\ DOMAIN wrote = Client /\ DOMAIN seen = Client
  BY DEF IInv, Global, Own, ClientTypes, Kept
<1>2. /\ h[c].phase = "sent" /\ tx.owner = Nobody /\ cl[c].step # "events"
      /\ tx' = tx /\ cl' = cl /\ seen' = seen /\ exported' = exported
  BY DEF Serve
<1>3. Asks(cl[c])
  BY <1>1, <1>2 DEF Serves
<1>4. PICK r : r = Handle(db, cl[c], Cursor(c))
  OBVIOUS
<1>5. IF r.code = "OK" THEN Committed(c, r.db, r.out)
      ELSE Answer(c, r.code, <<>>) /\ UNCHANGED <<db, wrote>>
  BY <1>4 DEF Serve
<1>6. CASE r.code # "OK"
  <2>1. Answer(c, r.code, <<>>) /\ db' = db /\ wrote' = wrote
    BY <1>5, <1>6
  <2> QED
    BY <1>2, <1>6, <2>1, ErrorKept
<1>7. CASE r.code = "OK"
  <2>1. PICK todo : todo = Triggers(r.db, cl[c], Len(db.messages))
    OBVIOUS
  <2>2. PICK x : x = [phase |-> IF todo = {} THEN "answered" ELSE "starting",
                      reply |-> [code |-> "OK", out |-> r.out], pending |-> todo]
    OBVIOUS
  <2>3. /\ db' = r.db /\ h' = [h EXCEPT ![c] = x]
        /\ wrote' = [wrote EXCEPT ![c] = @ \cup NewRows(db, r.db)]
    BY Zenon, <1>5, <1>7, <2>1, <2>2 DEF Committed
  <2>4. h'[c] = x /\ OthersRest(c)
    BY <1>1, <1>2, <2>3 DEF OthersRest
  <2>5. x.reply.out = r.out
    BY <2>2
  <2>0. PICK s, n : s = seen[c] /\ n = Cursor(c)
    OBVIOUS
  <2>6. PICK k \in ClientState : k = cl[c]
    BY <1>1
  <2>7. /\ k.cmd.op = "read" => k.step \in {None, "messages"}
        /\ Collected(db, k) /\ Follows(db, s)
    BY <2>0, <2>6 DEF Kept, Mine
  <2>8. Extends(db, db')
    <3>1. Handled(db, r, k)
      BY <1>1, <1>2, <1>3, <1>4, <2>0, <2>6, HandleHandles
    <3> QED
      BY <1>7, <2>3, <3>1 DEF Handled
  <2>9. Fetched(db', k, x, s)
    <3>1. CASE k.step \in {"messages", "all"}
      <4>1. /\ n = Len(Has(k, s)) /\ n \in 0 .. LastMessageSeq(db, k.thread)
        <5>1. Follows(db, seen[c])
          BY <2>0, <2>6, <2>7
        <5>2. /\ Cursor(c) = Len(Has(cl[c], seen[c]))
              /\ Cursor(c) \in 0 .. LastMessageSeq(db, cl[c].thread)
          BY Zenon, <1>1, <5>1, CursorIs
        <5> QED
          BY Zenon, <2>0, <2>6, <5>2
      <4>2. r = GetMessages(db, k, n)
        <5>1. r = Handle(db, k, n)
          BY Zenon, <1>4, <2>0, <2>6
        <5> QED
          BY <3>1, <5>1 DEF Handle
      <4>3. k.cmd.op = "read" => k.step = "messages"
        BY <2>7, <3>1, NoneIsOther DEF Steps
      <4>4. r.db = db
        BY <4>2 DEF GetMessages, Done
      <4>5. Fetched(db, k, x, s)
        <5>1. PICK out : out = r.out
          OBVIOUS
        <5>2. out = GetMessages(db, k, n).out /\ x.reply.out = out
          BY Zenon, <2>5, <4>2, <5>1
        <5> QED
          BY <1>1, <2>7, <3>1, <4>1, <4>3, <5>2, MessagesFetched
      <4> QED
        BY <2>3, <4>4, <4>5
    <3>2. CASE k.step \notin {"messages", "all"}
      BY <3>2 DEF Fetched
    <3> QED
      BY <3>1, <3>2
  <2>10. Collected(db', k) /\ Follows(db', s)
    BY <1>1, <2>7, <2>8, CollectedStays, FollowsStays
  <2>11. Imports(db', k, x, wrote'[c])
    BY <1>2, <2>0, <2>6 DEF Imports
  <2>12. Mine(db', k, x, wrote'[c], s)
    BY <2>7, <2>9, <2>10, <2>11 DEF Mine
  <2>13. Mine(db', cl'[c], h'[c], wrote'[c], seen'[c])
    BY Zenon, <1>2, <2>4, <2>0, <2>6, <2>12
  <2>14. TxKept'
    BY <1>2 DEF TxKept
  <2> QED
    BY Zenon, <1>1, <1>2, <2>4, <2>8, <2>13, <2>14, KeptFrom
<1> QED
  BY <1>6, <1>7

----------------------------------------------------------------------------
(* An answer is delivered *)

\* Of a list of messages, each is the row of its id.
LEMMA RowIs ==
    ASSUME NEW d, Consistent(d), NEW s \in Seq(ToSet(d.messages)), NEW i \in DOMAIN s
    PROVE  /\ s[i].id \in DOMAIN d.messages /\ s[i].id \in Nat \ {0}
           /\ s[i] = d.messages[s[i].id]
<1>1. s[i] \in ToSet(d.messages)
  BY ElementIs
<1>2. PICK j \in DOMAIN d.messages : s[i] = d.messages[j]
  BY <1>1 DEF ToSet
<1>3. d.messages[j].id = j
  BY KeyedIs DEF Consistent
<1>4. d.messages \in Seq(MessageRow)
  BY TablesAre DEF Consistent
<1>5. j \in Nat \ {0}
  BY <1>4
<1> QED
  BY <1>2, <1>3, <1>5

\* The messages from the first on hold the parent of each of them.
LEMMA ParentsInPage ==
    ASSUME NEW d, Consistent(d), NEW t, NEW s, Page(d, t, 0, s),
           NEW j \in MessagesOf(d, t), d.messages[j].parent # 0, d.messages[j].seq <= Len(s)
    PROVE  \E q \in DOMAIN s : s[q].id = d.messages[j].parent
<1>1. PICK p : p = d.messages[j].parent
  OBVIOUS
<1>2. j \in DOMAIN d.messages /\ d.messages[j].thread = t
  BY DEF MessagesOf
<1>3. p \in MessagesOf(d, t) /\ p < j
  BY <1>1, <1>2, ParentIsThere DEF MessagesOf
<1>4. /\ d.messages[p].seq \in Nat /\ d.messages[p].seq > 0
      /\ d.messages[j].seq \in Nat
      /\ d.messages[p].seq < d.messages[j].seq
  BY <1>3, SeqOrderIsIdOrder
<1>5. s \in Seq(ToSet(d.messages)) /\ \A i \in DOMAIN s : s[i].thread = t /\ s[i].seq = 0 + i
  BY DEF Page
<1>6. Len(s) \in Nat /\ DOMAIN s = 1 .. Len(s)
  BY <1>5
<1>7. PICK q : q = d.messages[p].seq
  OBVIOUS
<1>8. q \in DOMAIN s
  BY <1>4, <1>6, <1>7
<1>9. s[q].id \in DOMAIN d.messages /\ s[q] = d.messages[s[q].id]
  BY <1>5, <1>8, RowIs
<1>10. s[q].thread = t /\ s[q].seq = q
  BY <1>4, <1>5, <1>7, <1>8
<1>11. s[q].id \in MessagesOf(d, t) /\ d.messages[s[q].id].seq = d.messages[p].seq
  BY <1>7, <1>9, <1>10 DEF MessagesOf
<1>12. s[q].id = p
  BY <1>3, <1>11, SeqIsAKey
<1> QED
  BY <1>1, <1>8, <1>12

\* What comes after an answer.
NextPoint(k2, k, out) ==
    /\ k.step \notin {"channels", "newChannel", "newThread", "messages", "all"}
         => SameWork(k2, k)
    /\ k.step \in {"channels", "newChannel", "newThread"} =>
         /\ k2.cmd = k.cmd /\ k2.step \notin {"all", "reactions"}
         /\ k2.code = "OK" => k2.step # "events"
    /\ k.step = "messages" /\ k.cmd.op = "read" => SameWork(k2, k)
    /\ k.step = "messages" /\ k.cmd.op # "read" =>
         /\ k2.cmd = k.cmd /\ k2.thread = k.thread
         /\ k2.msgs = out /\ k2.known = out
         /\ k2.step = IF Whole(k) THEN "reactions" ELSE "all"
    /\ k.step = "all" =>
         /\ k2.cmd = k.cmd /\ k2.thread = k.thread
         /\ k2.msgs = k.msgs /\ k2.known = k.known \o out
         /\ k2.step = "reactions"

\* Advance makes it so.
LEMMA AdvanceIs ==
    ASSUME NEW k \in ClientState, k.code = None, NEW out, NEW k2, k2 = Advance(k, out)
    PROVE  NextPoint(k2, k, out)
<1>1. CASE k.step \notin {"channels", "newChannel", "newThread", "messages", "all"}
  <2>1. k2 = [k EXCEPT !.code = "OK"]
    BY <1>1 DEF Advance
  <2> QED
    BY <1>1, <2>1 DEF ClientState, SameWork, NextPoint
<1>2. CASE k.step = "channels"
  <2>1. k2 = AfterChannels(k, out)
    BY <1>2 DEF Advance
  <2>2. PICK found : found = ChannelNamed(out, k)
    OBVIOUS
  <2>3. PICK chan : chan = out[CHOOSE i \in found : \A j \in found : i <= j].id
    OBVIOUS
  <2>4. \/ k2 = [k EXCEPT !.code = "OK"]
        \/ k2 = [k EXCEPT !.chan = chan, !.step = "threads"]
        \/ k2 = [k EXCEPT !.chan = chan, !.step = "newThread"]
        \/ k2 = [k EXCEPT !.step = "newChannel"]
        \/ k2 = [k EXCEPT !.code = "CHANNEL_NOT_FOUND"]
    BY ZenonT(60), <2>1, <2>2, <2>3 DEF AfterChannels
  <2>5. k2.cmd = k.cmd /\ k2.step \in {"channels", "threads", "newThread", "newChannel"}
    BY <1>2, <2>4 DEF ClientState
  <2> QED
    BY <1>2, <2>5 DEF NextPoint
<1>3. CASE k.step = "newChannel"
  <2>1. \/ k2 = [k EXCEPT !.chan = out[1].id, !.step = "newThread"]
        \/ k2 = [k EXCEPT !.step = "channels"]
        \/ k2 = [k EXCEPT !.code = "OK"]
    BY <1>3 DEF Advance, AfterNewChannel
  <2>2. k2.cmd = k.cmd /\ k2.step \in {"channels", "newThread", "newChannel"}
    BY <1>3, <2>1 DEF ClientState
  <2> QED
    BY <1>3, <2>2 DEF NextPoint
<1>4. CASE k.step = "newThread"
  <2>1. \/ k2 = [k EXCEPT !.thread = out[1].id, !.step = "events"]
        \/ k2 = [k EXCEPT !.code = "OK"]
    BY <1>4 DEF Advance, AfterNewThread
  <2>2. /\ k2.cmd = k.cmd
        /\ \/ k2.step = "events" /\ k2.code = None
           \/ k2.step = "newThread"
    BY <1>4, <2>1 DEF ClientState
  <2> QED
    BY <1>4, <2>2, NoneIsOther DEF Codes, NextPoint
<1>5. CASE k.step = "messages" /\ k.cmd.op = "read"
  <2>1. k2 = [k EXCEPT !.code = "OK"]
    BY <1>5 DEF Advance, AfterMessages
  <2> QED
    BY <1>5, <2>1 DEF ClientState, SameWork, NextPoint
<1>6. CASE k.step = "messages" /\ k.cmd.op # "read"
  <2>1. PICK step : step = IF Whole(k) THEN "reactions" ELSE "all"
    OBVIOUS
  <2>2. k2 = [k EXCEPT !.msgs = out, !.known = out, !.step = step]
    BY <1>6, <2>1 DEF Advance, AfterMessages
  <2>3. /\ k2.cmd = k.cmd /\ k2.thread = k.thread /\ k2.msgs = out /\ k2.known = out
        /\ k2.step = step
    BY <2>2 DEF ClientState
  <2> QED
    BY <1>6, <2>1, <2>3 DEF NextPoint
<1>7. CASE k.step = "all"
  <2>1. k2 = [k EXCEPT !.known = k.known \o out, !.step = "reactions"]
    BY <1>7 DEF Advance, AfterAll
  <2>2. /\ k2.cmd = k.cmd /\ k2.thread = k.thread /\ k2.msgs = k.msgs
        /\ k2.known = k.known \o out /\ k2.step = "reactions"
    BY <2>1 DEF ClientState
  <2> QED
    BY <1>7, <2>2 DEF NextPoint
<1> QED
  BY Zenon, <1>1, <1>2, <1>3, <1>4, <1>5, <1>6, <1>7 DEF NextPoint

\* A dump has what it asked for.
LEMMA AdvanceCollects ==
    ASSUME NEW d, Consistent(d), NEW k \in ClientState, k.code = None, NEW x, NEW s, Ready(x),
           Fetched(d, k, x, s), Collected(d, k),
           NEW out, out = x.reply.out, NEW k2, k2 = Advance(k, out)
    PROVE  Collected(d, k2)
<1>1. /\ k.step \notin {"channels", "newChannel", "newThread", "messages", "all"}
           => SameWork(k2, k)
      /\ k.step \in {"channels", "newChannel", "newThread"} => k2.step \notin {"all", "reactions"}
      /\ k.step = "messages" /\ k.cmd.op = "read" => SameWork(k2, k)
      /\ k.step = "messages" /\ k.cmd.op # "read" =>
           /\ k2.cmd = k.cmd /\ k2.thread = k.thread
           /\ k2.msgs = out /\ k2.known = out
           /\ k2.step = IF Whole(k) THEN "reactions" ELSE "all"
      /\ k.step = "all" =>
           /\ k2.cmd = k.cmd /\ k2.thread = k.thread
           /\ k2.msgs = k.msgs /\ k2.known = k.known \o out
           /\ k2.step = "reactions"
  <2>1. NextPoint(k2, k, out)
    BY AdvanceIs
  <2> QED
    BY Zenon, <2>1 DEF NextPoint
<1>0. PICK t, msgs : t = k.thread /\ msgs = k.msgs
  OBVIOUS
<1>2. k2.cmd = k.cmd => Whole(k2) = Whole(k)
  BY SameFlags
<1>3. CASE k.step \in {"channels", "newChannel", "newThread"}
  BY Zenon, <1>1, <1>3 DEF Collected
<1>4. CASE SameWork(k2, k)
  BY Zenon, <1>2, <1>4 DEF Collected, SameWork
<1>5. CASE k.step = "messages" /\ k.cmd.op # "read"
  <2>1. Excerpt(d, k.thread, Whole(k), out)
    BY <1>5 DEF Fetched, Following, Ready
  <2>2. PICK a \in Nat : (Whole(k) => a = 0) /\ Page(d, k.thread, a, out)
    BY Zenon, <2>1 DEF Excerpt
  <2>3. out \in Seq(ToSet(d.messages))
    BY Zenon, <2>2 DEF Page
  <2>4. ASSUME k2.step = "reactions"
        PROVE  Parents(out, out)
    <3>1. Whole(k)
      BY Zenon, <1>1, <1>5, <2>4
    <3>2. Page(d, k.thread, 0, out)
      BY <2>2, <3>1
    <3>3. ASSUME NEW i \in DOMAIN out, out[i].parent # 0
          PROVE  \E q \in DOMAIN out : out[q].id = out[i].parent
      <4>1. PICK j \in MessagesOf(d, k.thread) : out[i] = d.messages[j]
        <5>1. Page(d, t, 0, out)
          BY Zenon, <1>0, <3>2
        <5>2. \E j \in MessagesOf(d, t) : out[i] = d.messages[j]
          BY <5>1, PageIsUpToLast
        <5> QED
          BY Zenon, <1>0, <5>2
      <4>2. out[i].seq <= Len(out)
        <5>1. out[i].seq = 0 + i
          BY Zenon, <3>2 DEF Page
        <5> QED
          BY <2>3, <5>1
      <4> QED
        <5>1. /\ Page(d, t, 0, out) /\ j \in MessagesOf(d, t)
              /\ d.messages[j].parent # 0 /\ d.messages[j].seq <= Len(out)
          BY Zenon, <1>0, <3>2, <3>3, <4>1, <4>2
        <5>2. \E q \in DOMAIN out : out[q].id = d.messages[j].parent
          BY <5>1, ParentsInPage
        <5> QED
          BY Zenon, <4>1, <5>2
    <3> QED
      BY Zenon, <3>3 DEF Parents
  <2> QED
    BY Zenon, <1>1, <1>2, <1>5, <2>1, <2>3, <2>4 DEF Collected
<1>6. CASE k.step = "all"
  <2>1. /\ Page(d, k.thread, 0, out)
        /\ \A i \in DOMAIN k.msgs : k.msgs[i].seq <= Len(out)
    BY <1>6 DEF Fetched, Ready
  <2>2. Excerpt(d, k.thread, Whole(k), k.msgs) /\ k.known \in Seq(ToSet(d.messages))
    BY <1>6 DEF Collected
  <2>3. out \in Seq(ToSet(d.messages))
    BY Zenon, <2>1 DEF Page
  <2>4. PICK both : both = k.known \o out
    OBVIOUS
  <2>5. /\ both \in Seq(ToSet(d.messages)) /\ DOMAIN both = 1 .. Len(k.known) + Len(out)
        /\ \A q \in DOMAIN out : Len(k.known) + q \in DOMAIN both /\ both[Len(k.known) + q] = out[q]
    <3>0. PICK T : T = ToSet(d.messages)
      OBVIOUS
    <3>1. PICK a \in Seq(T) : T = ToSet(d.messages) /\ a = k.known
      BY <2>2, <3>0
    <3>2. out \in Seq(T)
      BY Zenon, <2>3, <3>1
    <3>3. both = a \o out
      BY Zenon, <2>4, <3>1
    <3>4. /\ both \in Seq(T) /\ DOMAIN both = 1 .. Len(a) + Len(out)
          /\ \A q \in DOMAIN out : Len(a) + q \in DOMAIN both /\ both[Len(a) + q] = out[q]
      BY <3>2, <3>3
    <3> QED
      BY Zenon, <3>1, <3>4
  <2>6. Parents(k.msgs, both)
    <3>1. ASSUME NEW i \in DOMAIN k.msgs, k.msgs[i].parent # 0
          PROVE  \E q \in DOMAIN both : both[q].id = k.msgs[i].parent
      <4>1. PICK a \in Nat : Page(d, k.thread, a, k.msgs)
        BY Zenon, <2>2 DEF Excerpt
      <4>2. PICK j \in MessagesOf(d, k.thread) : k.msgs[i] = d.messages[j]
        <5>1. Page(d, t, a, msgs) /\ i \in DOMAIN msgs
          BY Zenon, <1>0, <3>1, <4>1
        <5>2. \E j \in MessagesOf(d, t) : msgs[i] = d.messages[j]
          BY <5>1, PageIsUpToLast
        <5> QED
          BY Zenon, <1>0, <5>2
      <4>3. d.messages[j].parent # 0 /\ d.messages[j].seq <= Len(out)
        BY Zenon, <2>1, <3>1, <4>2
      <4>4. PICK q \in DOMAIN out : out[q].id = d.messages[j].parent
        <5>1. Page(d, t, 0, out) /\ j \in MessagesOf(d, t)
          BY Zenon, <1>0, <2>1
        <5> QED
          BY <4>3, <5>1, ParentsInPage
      <4> QED
        BY Zenon, <2>5, <4>2, <4>4
    <3> QED
      BY Zenon, <3>1 DEF Parents
  <2> QED
    BY Zenon, <1>1, <1>2, <1>6, <2>2, <2>4, <2>5, <2>6 DEF Collected
<1> QED
  BY Zenon, <1>1, <1>3, <1>4, <1>5, <1>6

\* What a client follows goes on with what it is given.
LEMMA FollowsMore ==
    ASSUME NEW d, Consistent(d), NEW t, NEW s, FirstOf(d, t, s), NEW out, Page(d, t, Len(s), out),
           NEW more, more = [i \in DOMAIN out |-> out[i].id],
           NEW all, all = s \o more
    PROVE  FirstOf(d, t, all)
<1>0. /\ s \in Seq(DOMAIN d.messages)
      /\ \A i \in DOMAIN s : d.messages[s[i]].thread = t /\ d.messages[s[i]].seq = i
  BY DEF FirstOf
<1>1. /\ out \in Seq(ToSet(d.messages))
      /\ \A i \in DOMAIN out : out[i].thread = t /\ out[i].seq = Len(s) + i
  BY DEF Page
<1>2. PICK m, n : m = Len(s) /\ n = Len(out)
  OBVIOUS
<1>3. m \in Nat /\ n \in Nat /\ DOMAIN s = 1 .. m /\ DOMAIN out = 1 .. n
  BY <1>0, <1>1, <1>2
<1>4. PICK D : D = DOMAIN d.messages
  OBVIOUS
<1>5. \A i \in 1 .. n : /\ more[i] \in D
                        /\ d.messages[more[i]].thread = t /\ d.messages[more[i]].seq = m + i
  <2> TAKE i \in 1 .. n
  <2>1. more[i] = out[i].id
    BY <1>3
  <2>2. out[i].id \in DOMAIN d.messages /\ out[i] = d.messages[out[i].id]
    BY <1>1, <1>3, RowIs
  <2>3. out[i].thread = t /\ out[i].seq = m + i
    BY <1>1, <1>2, <1>3
  <2> QED
    BY Zenon, <1>4, <2>1, <2>2, <2>3
<1>6. s \in Seq(D)
  BY <1>0, <1>4
<1>7. more \in Seq(D) /\ Len(more) = n
  <2> DEFINE Id(i) == out[i].id
  <2>1. more = [i \in 1 .. n |-> Id(i)]
    BY <1>3
  <2>2. \A i \in 1 .. n : Id(i) \in D
    BY <1>5, <2>1
  <2> HIDE DEF Id
  <2>3. PICK f : f = [i \in 1 .. n |-> Id(i)]
    OBVIOUS
  <2>4. f \in Seq(D) /\ Len(f) = n
    <3>1. n \in Nat
      BY <1>3
    <3>2. f \in Seq(D)
      BY <2>2, <2>3, <3>1
    <3>3. DOMAIN f = 1 .. n
      BY <2>3
    <3> QED
      BY <3>1, <3>2, <3>3
  <2> QED
    BY Zenon, <2>1, <2>3, <2>4
<1>8. /\ all \in Seq(D) /\ DOMAIN all = 1 .. m + n
      /\ \A i \in 1 .. m : all[i] = s[i]
      /\ \A i \in 1 .. m + n : i \notin 1 .. m => all[i] = more[i - m] /\ i - m \in 1 .. n
  BY <1>2, <1>3, <1>6, <1>7
<1>9. ASSUME NEW i \in DOMAIN all
      PROVE  d.messages[all[i]].thread = t /\ d.messages[all[i]].seq = i
  <2>1. CASE i \in 1 .. m
    BY <1>0, <1>3, <1>8, <2>1
  <2>2. CASE i \notin 1 .. m
    <3>1. i \in 1 .. m + n
      BY Zenon, <1>8
    <3>2. all[i] = more[i - m] /\ i - m \in 1 .. n
      BY Zenon, <1>8, <2>2, <3>1
    <3>3. m + (i - m) = i
      BY <1>3, <3>1
    <3> QED
      BY Zenon, <1>5, <3>2, <3>3
  <2> QED
    BY <2>1, <2>2
<1> QED
  BY <1>4, <1>8, <1>9 DEF FirstOf

\* A numbering by the numbers themselves.
LEMMA Numbered ==
    ASSUME NEW n \in Nat
    PROVE  InIdOrder(1 .. n) = [i \in 1 .. n |-> i]
<1>1. PICK f, S : f = [i \in 1 .. n |-> i] /\ S = 1 .. n
  OBVIOUS
<1>2. Lists(f, S, n) /\ S \in SUBSET Nat
  BY <1>1 DEF Lists
<1>3. InIdOrder(S) = f
  BY <1>2, InIdOrderIs
<1> QED
  BY Zenon, <1>1, <1>3

\* The lines of messages, if they come first.
LEMMA MessageLinesFirst ==
    ASSUME NEW T, NEW a \in Seq(T), NEW b \in Seq(T),
           \A i \in DOMAIN a : a[i].type = "message", \A i \in DOMAIN b : b[i].type = "reaction",
           NEW lines, lines = a \o b
    PROVE  MessageLines(lines) = a
<1>1. PICK m, n : m = Len(a) /\ n = Len(b)
  OBVIOUS
<1>2. m \in Nat /\ n \in Nat /\ DOMAIN a = 1 .. m /\ DOMAIN b = 1 .. n
  BY <1>1
<1>3. /\ DOMAIN lines = 1 .. m + n
      /\ \A i \in 1 .. m : lines[i] = a[i]
      /\ \A i \in 1 .. m + n : i \notin 1 .. m => lines[i] = b[i - m] /\ i - m \in 1 .. n
  BY <1>1, <1>2
<1>4. {i \in DOMAIN lines : lines[i].type = "message"} = 1 .. m
  <2>1. ASSUME NEW i \in DOMAIN lines
        PROVE  lines[i].type = "message" <=> i \in 1 .. m
    <3>1. CASE i \in 1 .. m
      BY <1>2, <1>3, <3>1
    <3>2. CASE i \notin 1 .. m
      <4>1. lines[i].type = "reaction"
        BY <1>2, <1>3, <2>1, <3>2
      <4> QED
        BY <3>2, <4>1
    <3> QED
      BY <3>1, <3>2
  <2>2. 1 .. m \in SUBSET (1 .. m + n)
    BY <1>2
  <2> QED
    BY <1>3, <2>1, <2>2
<1>5. PICK f : f = [i \in 1 .. m |-> i]
  OBVIOUS
<1>6. MessageLines(lines) = RowsAt(lines, f)
  BY Zenon, <1>2, <1>4, <1>5, Numbered DEF MessageLines, Select
<1>7. RowsAt(lines, f) = [i \in 1 .. m |-> a[i]]
  <2>1. RowsAt(lines, f) = [i \in DOMAIN f |-> lines[f[i]]]
    BY DEF RowsAt
  <2>2. DOMAIN f = 1 .. m /\ \A i \in 1 .. m : f[i] = i /\ lines[f[i]] = a[i]
    BY <1>3, <1>5
  <2> QED
    BY <2>1, <2>2
<1>8. a = [i \in 1 .. m |-> a[i]]
  BY <1>2
<1> QED
  BY Zenon, <1>6, <1>7, <1>8

\* A dump finds the seq of each parent.
LEMMA SeqByIDIs ==
    ASSUME NEW d, Consistent(d), NEW k, k.known \in Seq(ToSet(d.messages)),
           NEW m, m.parent # 0 => \E i \in DOMAIN k.known : k.known[i].id = m.parent,
           NEW p, p = m.parent
    PROVE  SeqByID(k, p) = ParentSeq(d, m)
<1>1. \A i \in DOMAIN k.known : k.known[i].id \in Nat \ {0} /\ k.known[i] = d.messages[k.known[i].id]
  BY RowIs
<1>2. CASE p = 0
  <2>1. ~\E i \in DOMAIN k.known : k.known[i].id = p
    BY <1>1, <1>2
  <2> QED
    BY Zenon, <1>2, <2>1 DEF SeqByID, ParentSeq
<1>3. CASE p # 0
  <2>1. \E i \in DOMAIN k.known : k.known[i].id = p
    BY <1>3
  <2>2. PICK i : i = CHOOSE j \in DOMAIN k.known : k.known[j].id = p
    OBVIOUS
  <2>3. i \in DOMAIN k.known /\ k.known[i].id = p
    BY Zenon, <2>1, <2>2
  <2>4. SeqByID(k, p) = k.known[i].seq
    BY Zenon, <2>1, <2>2 DEF SeqByID
  <2>5. k.known[i] = d.messages[p]
    BY Zenon, <1>1, <2>3
  <2> QED
    BY Zenon, <1>3, <2>4, <2>5 DEF ParentSeq
<1> QED
  BY <1>2, <1>3

\* A dump resolves its parents.
LEMMA DumpResolves ==
    ASSUME NEW d, Consistent(d), NEW k \in ClientState, k.step = "reactions", Collected(d, k),
           NEW out \in Seq([reaction : ToSet(d.reactions), message_seq : Nat \ {0}]),
           NEW x, x.thread = k.thread, x.whole = Whole(k), x.lines = Dump(k, out)
    PROVE  Resolved(d, x)
<1> DEFINE Msg(i) == [type |-> "message", seq |-> k.msgs[i].seq,
                      ref |-> SeqByID(k, k.msgs[i].parent), name |-> k.msgs[i].name,
                      author |-> k.msgs[i].author, body |-> k.msgs[i].body, at |-> k.msgs[i].at]
           Rea(i) == [type |-> "reaction", seq |-> 0, ref |-> out[i].message_seq,
                      name |-> out[i].reaction.name, author |-> out[i].reaction.author,
                      body |-> out[i].reaction.emoji, at |-> out[i].reaction.at]
<1>0. PICK t, msgs : t = k.thread /\ msgs = k.msgs
  OBVIOUS
<1>1. msgs \in Seq(MessageRow)
  BY <1>0, ClientFields
<1>2. PICK m, n : m = Len(msgs) /\ n = Len(out)
  OBVIOUS
<1>3. DOMAIN msgs = 1 .. m /\ DOMAIN out = 1 .. n /\ m \in Nat /\ n \in Nat
  BY <1>1, <1>2
<1>4. PICK ms : ms = [i \in 1 .. m |-> Msg(i)]
  OBVIOUS
<1>5. PICK rs : rs = [i \in 1 .. n |-> Rea(i)]
  OBVIOUS
<1>6. Dump(k, out) = ms \o rs
  BY <1>0, <1>3, <1>4, <1>5 DEF Dump
<1>7. /\ \A i \in 1 .. m : /\ Msg(i).type = "message" /\ Msg(i).seq = msgs[i].seq
                           /\ Msg(i).ref = SeqByID(k, msgs[i].parent)
      /\ \A i \in 1 .. n : Rea(i).type = "reaction"
  BY <1>0
<1> HIDE DEF Msg, Rea
<1>8. /\ ms \in Seq(ToSet(ms) \cup ToSet(rs)) /\ rs \in Seq(ToSet(ms) \cup ToSet(rs))
      /\ DOMAIN ms = 1 .. m /\ DOMAIN rs = 1 .. n
      /\ \A i \in 1 .. m : ms[i] = Msg(i)
      /\ \A i \in 1 .. n : rs[i] = Rea(i)
  <2>1. /\ DOMAIN ms = 1 .. m /\ DOMAIN rs = 1 .. n
        /\ \A i \in 1 .. m : ms[i] = Msg(i)
        /\ \A i \in 1 .. n : rs[i] = Rea(i)
    BY <1>4, <1>5
  <2>2. PICK T : T = ToSet(ms) \cup ToSet(rs)
    OBVIOUS
  <2>3. \A i \in 1 .. m : Msg(i) \in T
    BY <2>1, <2>2 DEF ToSet
  <2>4. \A i \in 1 .. n : Rea(i) \in T
    BY <2>1, <2>2 DEF ToSet
  <2>5. ms \in Seq(T)
    BY <1>3, <1>4, <2>3
  <2>6. rs \in Seq(T)
    BY <1>3, <1>5, <2>4
  <2> QED
    BY Zenon, <2>1, <2>2, <2>5, <2>6
<1>9. MessageLines(x.lines) = ms
  <2>1. PICK T : T = ToSet(ms) \cup ToSet(rs)
    OBVIOUS
  <2>2. ms \in Seq(T) /\ rs \in Seq(T)
    BY Zenon, <1>8, <2>1
  <2>3. \A i \in DOMAIN ms : ms[i].type = "message"
    BY Zenon, <1>7, <1>8
  <2>4. \A i \in DOMAIN rs : rs[i].type = "reaction"
    BY Zenon, <1>7, <1>8
  <2>5. PICK lines : lines = ms \o rs
    OBVIOUS
  <2>6. MessageLines(lines) = ms
    BY Zenon, <2>2, <2>3, <2>4, <2>5, MessageLinesFirst
  <2> QED
    BY Zenon, <1>6, <2>5, <2>6
<1>10. /\ Excerpt(d, t, Whole(k), msgs) /\ k.known \in Seq(ToSet(d.messages))
       /\ Parents(msgs, k.known)
  BY Zenon, <1>0 DEF Collected
<1>11. PICK a \in Nat : (Whole(k) => a = 0) /\ Page(d, t, a, msgs)
  BY Zenon, <1>10 DEF Excerpt
<1>12. \A i \in 1 .. m : msgs[i].seq = a + i
  BY Zenon, <1>3, <1>11 DEF Page
<1>13. ASSUME NEW i \in DOMAIN ms
       PROVE  /\ ms[i].seq = ms[1].seq + i - 1
              /\ x.whole => ms[1].seq = 1
              /\ \E j \in MessagesOf(d, x.thread) :
                    d.messages[j].seq = ms[i].seq /\ ms[i].ref = ParentSeq(d, d.messages[j])
  <2>1. i \in 1 .. m /\ 1 \in 1 .. m
    BY <1>3, <1>8
  <2>2. ms[i].seq = a + i /\ ms[1].seq = a + 1
    BY Zenon, <1>7, <1>8, <1>12, <2>1
  <2>3. ms[i].seq = ms[1].seq + i - 1
    BY <1>3, <2>1, <2>2
  <2>4. x.whole => ms[1].seq = 1
    BY <1>11, <2>2
  <2>5. PICK j \in MessagesOf(d, t) : msgs[i] = d.messages[j]
    <3>1. i \in DOMAIN msgs
      BY <1>3, <2>1
    <3> QED
      BY <1>11, <3>1, PageIsUpToLast
  <2>6. PICK mm, p : mm = d.messages[j] /\ p = mm.parent
    OBVIOUS
  <2>7. mm.parent # 0 => \E q \in DOMAIN k.known : k.known[q].id = mm.parent
    BY Zenon, <1>3, <1>10, <2>1, <2>5, <2>6 DEF Parents
  <2>8. SeqByID(k, p) = ParentSeq(d, mm)
    BY <1>10, <2>6, <2>7, SeqByIDIs
  <2>9. ms[i].ref = SeqByID(k, p)
    BY Zenon, <1>7, <1>8, <2>1, <2>5, <2>6
  <2>10. d.messages[j].seq = ms[i].seq
    BY Zenon, <1>7, <1>8, <2>1, <2>5
  <2> QED
    BY Zenon, <1>0, <2>3, <2>4, <2>6, <2>8, <2>9, <2>10
<1> QED
  BY Zenon, <1>9, <1>13 DEF Resolved

\* What a client is after an answer that it takes.
LEMMA TakesKept ==
    ASSUME NEW d, Consistent(d), NEW k \in ClientState, k.code = None, Asks(k),
           NEW x, Ready(x), NEW w, NEW s, Mine(d, k, x, w, s),
           NEW out, out = x.reply.out, NEW k2, k2 = Advance(k, out),
           NEW s2, Follows(d, s2)
    PROVE  Mine(d, k2, NoHandler, w, s2)
<1>1. NextPoint(k2, k, out)
  BY AdvanceIs
<1>2. k.step # None
  BY DEF Asks
<1>3. /\ k.cmd.op = "read" => k.step = "messages"
      /\ Fetched(d, k, x, s) /\ Collected(d, k) /\ Imports(d, k, x, w)
  BY <1>2 DEF Mine
<1>4. ~Ready(NoHandler)
  BY DEF Ready, NoHandler
<1>5. k2.cmd = k.cmd
  BY Zenon, <1>1 DEF NextPoint, SameWork
<1>6. k2.cmd.op = "read" => k2.step \in {None, "messages"}
  BY Zenon, <1>1, <1>3, <1>5 DEF NextPoint, SameWork
<1>7. Fetched(d, k2, NoHandler, s2)
  BY Zenon, <1>4 DEF Fetched, Ready
<1>8. Collected(d, k2)
  BY <1>3, AdvanceCollects
<1>9. Imports(d, k2, NoHandler, w)
  <2>1. CASE SameWork(k2, k)
    BY Zenon, <1>3, <2>1 DEF Imports, Import, SameWork, Ready
  <2>2. CASE k.step \in {"channels", "newChannel", "newThread"}
    <3>1. k2.code = "OK" => k2.step # "events"
      BY Zenon, <1>1, <2>2 DEF NextPoint
    <3> QED
      BY Zenon, <1>4, <3>1 DEF Imports, Ready
  <2>3. CASE k2.step \in {"all", "reactions"}
    BY <2>3 DEF Imports
  <2>4. \/ SameWork(k2, k) \/ k.step \in {"channels", "newChannel", "newThread"}
        \/ k2.step \in {"all", "reactions"}
    BY Zenon, <1>1 DEF NextPoint
  <2> QED
    BY <2>1, <2>2, <2>3, <2>4
<1> QED
  BY Zenon, <1>6, <1>7, <1>8, <1>9 DEF Mine

\* An answer that is not taken.
LEMMA RefusedKept ==
    ASSUME IInv, IInv', Kept, NEW c \in Client, NEW k3, SameWork(k3, cl[c]), k3.code # "OK",
           cl' = [cl EXCEPT ![c] = k3], h' = [h EXCEPT ![c] = NoHandler],
           db' = db, tx' = tx, wrote' = wrote, seen' = seen, exported' = exported
    PROVE  Kept'
<1>1. DOMAIN cl = Client /\ DOMAIN h = Client
  BY DEF IInv, Global
<1>2. cl'[c] = k3 /\ h'[c] = NoHandler /\ OthersRest(c)
  BY <1>1 DEF OthersRest
<1>3. ~Ready(h'[c])
  BY <1>2 DEF Ready, NoHandler
<1>4. SameWork(cl'[c], cl[c]) /\ cl'[c].code # "OK"
  BY Zenon, <1>2
<1> QED
  BY Zenon, <1>2, <1>3, <1>4, QuietKept

\* What a client follows, after an answer.
LEMMA ReadFollows ==
    ASSUME NEW c \in Client, Consistent(db), NEW k, k = cl[c], Mine(db, k, h[c], wrote[c], seen[c]),
           Ready(h[c]), Following(k), k.step # None,
           NEW out, out = h[c].reply.out,
           NEW s2, s2 = [thread |-> k.thread, ids |-> Had(c) \o [i \in DOMAIN out |-> out[i].id]]
    PROVE  Follows(db, s2)
<1>1. k.step = "messages" /\ Follows(db, seen[c])
  BY DEF Following, Mine
<1>2. PICK t, s : t = k.thread /\ s = Has(k, seen[c])
  OBVIOUS
<1>3. Had(c) = s
  BY <1>2 DEF Had, Has
<1>4. Page(db, t, Len(s), out)
  <2>1. Fetched(db, k, h[c], seen[c])
    BY DEF Mine
  <2> QED
    BY Zenon, <1>1, <1>2, <2>1 DEF Fetched, Ready
<1>5. FirstOf(db, t, s)
  <2>1. CASE seen[c].thread = t
    <3>1. s = seen[c].ids
      BY Zenon, <1>2, <2>1 DEF Has
    <3> QED
      BY Zenon, <1>1, <2>1, <3>1 DEF Follows
  <2>2. CASE seen[c].thread # t
    <3>1. s = <<>>
      BY Zenon, <1>2, <2>2 DEF Has
    <3>2. <<>> \in Seq(DOMAIN db.messages) /\ DOMAIN <<>> = {}
      OBVIOUS
    <3> QED
      BY <3>1, <3>2 DEF FirstOf
  <2> QED
    BY <2>1, <2>2
<1>6. PICK more : more = [i \in DOMAIN out |-> out[i].id]
  OBVIOUS
<1>7. PICK all : all = s \o more
  OBVIOUS
<1>8. s2.thread = t /\ s2.ids = all
  BY <1>2, <1>3, <1>6, <1>7
<1>9. FirstOf(db, t, all)
  <2>1. PICK d : d = db
    OBVIOUS
  <2>2. Consistent(d) /\ FirstOf(d, t, s) /\ Page(d, t, Len(s), out)
    BY Zenon, <1>4, <1>5, <2>1
  <2>3. FirstOf(d, t, all)
    BY <1>6, <1>7, <2>2, FollowsMore
  <2> QED
    BY Zenon, <2>1, <2>3
<1> QED
  BY Zenon, <1>8, <1>9 DEF Follows

\* An answer.
LEMMA DeliverKept ==
    ASSUME IInv, IInv', Kept, NEW c \in Client, Deliver(c)
    PROVE  Kept'
<1>1. /\ DOMAIN cl = Client /\ DOMAIN h = Client /\ DOMAIN seen = Client /\ TxOK
      /\ Consistent(db) /\ cl[c] \in ClientState /\ Handler(h[c]) /\ Serves(c)
  BY DEF IInv, Global, Own, ClientTypes, Kept
<1>2. PICK k, a : k = cl[c] /\ a = h[c].reply
  OBVIOUS
<1>3. PICK ok \in BOOLEAN : ok = (a.code = "OK" /\ Valid(k, a.out))
  OBVIOUS
<1>4. PICK k2 : k2 = IF ok THEN Advance(k, a.out) ELSE [k EXCEPT !.code = Refused(k, a)]
  OBVIOUS
<1>5. PICK k3 : k3 = [k2 EXCEPT !.waiting = FALSE]
  OBVIOUS
<1>6. PICK s2 : s2 = [thread |-> k.thread, ids |-> Had(c) \o [i \in DOMAIN a.out |-> a.out[i].id]]
  OBVIOUS
<1>7. PICK ex : ex = [thread |-> k.thread, whole |-> Whole(k), lines |-> Dump(k, a.out)]
  OBVIOUS
<1>8. /\ k.waiting /\ h[c].phase = "answered"
      /\ cl' = [cl EXCEPT ![c] = k3]
      /\ h' = [h EXCEPT ![c] = NoHandler]
      /\ seen' = IF ok /\ Following(k) THEN [seen EXCEPT ![c] = s2] ELSE seen
      /\ exported' = IF ok /\ k.step = "reactions" THEN ex ELSE exported
      /\ db' = db /\ tx' = tx /\ wrote' = wrote
  BY <1>2, <1>3, <1>4, <1>5, <1>6, <1>7, Zenon DEF Deliver, Refused
<1>9. k.code = None /\ Asks(k) /\ k \in ClientState /\ k.step # None /\ a.code \in Codes
  BY <1>1, <1>2, <1>8 DEF Serves, Handler, Asks
<1>10. CASE ~ok
  <2>1. PICK code : code = Refused(k, a)
    OBVIOUS
  <2>2. code # "OK"
    BY <2>1 DEF Refused
  <2>3. k2 = [k EXCEPT !.code = code] /\ seen' = seen /\ exported' = exported
    BY Zenon, <1>4, <1>8, <1>10, <2>1
  <2>4. SameWork(k3, k) /\ k3.code = code
    BY <1>5, <1>9, <2>3 DEF ClientState, SameWork
  <2>5. SameWork(k3, cl[c]) /\ k3.code # "OK"
    BY Zenon, <1>2, <2>2, <2>4
  <2> QED
    BY Zenon, <1>8, <2>3, <2>5, RefusedKept
<1>11. CASE ok
  <2>1. Ready(h[c]) /\ a.code = "OK"
    BY <1>2, <1>3, <1>8, <1>11 DEF Ready
  <2>2. Answered(db, k.step, a.out)
    BY <1>1, <1>2, <1>8, <2>1 DEF Serves, Succeeded
  <2>3. PICK out : out = a.out
    OBVIOUS
  <2>4. Mine(db, k, h[c], wrote[c], seen[c])
    BY <1>2 DEF Kept
  <2>5. k2 = Advance(k, out)
    BY Zenon, <1>4, <1>11, <2>3
  <2>6. Follows(db, seen'[c])
    <3>1. CASE Following(k)
      <4>1. Follows(db, s2)
        <5>1. out = h[c].reply.out /\ s2 = [thread |-> k.thread, ids |-> Had(c) \o [i \in DOMAIN out |-> out[i].id]]
          BY Zenon, <1>2, <1>6, <2>3
        <5> QED
          BY Zenon, <1>1, <1>2, <1>9, <2>1, <2>4, <3>1, <5>1, ReadFollows
      <4>2. seen'[c] = s2
        BY <1>1, <1>8, <1>11, <3>1
      <4> QED
        BY Zenon, <4>1, <4>2
    <3>2. CASE ~Following(k)
      <4>1. Follows(db, seen[c])
        BY Zenon, <2>4 DEF Mine
      <4> QED
        BY Zenon, <1>8, <3>2, <4>1
    <3> QED
      BY <3>1, <3>2
  <2>7. Mine(db, k2, NoHandler, wrote[c], seen'[c])
    <3>1. PICK d, x, w, s, sn : d = db /\ x = h[c] /\ w = wrote[c] /\ s = seen[c] /\ sn = seen'[c]
      OBVIOUS
    <3>2. /\ Consistent(d) /\ Ready(x) /\ Mine(d, k, x, w, s) /\ out = x.reply.out /\ Follows(d, sn)
      BY Zenon, <1>1, <1>2, <2>1, <2>3, <2>4, <2>6, <3>1
    <3>3. Mine(d, k2, NoHandler, w, sn)
      BY <1>9, <2>5, <3>2, TakesKept
    <3> QED
      BY Zenon, <3>1, <3>3
  <2>8. SameWork(k3, k2) /\ k3.code = k2.code
    <3>1. k2 \in ClientState
      <4>1. db \in Database
        BY <1>1 DEF Consistent
      <4>2. Advanced(k2, k)
        BY <1>9, <2>2, <2>3, <2>5, <4>1, AdvanceAdvances
      <4> QED
        BY <4>2 DEF Advanced
    <3> QED
      BY <1>5, <3>1 DEF ClientState, SameWork
  <2>9. Mine(db, k3, NoHandler, wrote[c], seen'[c])
    <3>1. PICK d, x, w, s : d = db /\ x = NoHandler /\ w = wrote[c] /\ s = seen'[c]
      OBVIOUS
    <3>2. Mine(d, k2, x, w, s)
      BY Zenon, <2>7, <3>1
    <3>3. Mine(d, k3, x, w, s)
      BY <2>8, <3>2, MineGoesOn
    <3> QED
      BY Zenon, <3>1, <3>3
  <2>10. cl'[c] = k3 /\ h'[c] = NoHandler /\ OthersRest(c) /\ DOMAIN seen' = Client
    BY <1>1, <1>8 DEF OthersRest
  <2>11. Mine(db', cl'[c], h'[c], wrote'[c], seen'[c])
    BY Zenon, <1>8, <2>9, <2>10
  <2>12. TxKept'
    <3>1. tx.owner # c
      BY <1>1, <1>8 DEF TxOK
    <3>2. tx.owner # Nobody => cl'[tx.owner] = cl[tx.owner]
      BY <1>1, <1>8, <3>1 DEF TxOK
    <3> QED
      BY <1>8, <3>2, TxKeptStays
  <2>13. Resolved(db', exported') \/ exported' = exported
    <3>1. CASE k.step = "reactions"
      <4>1. out \in Seq([reaction : ToSet(db.reactions), message_seq : Nat \ {0}])
        BY <2>2, <2>3, <3>1 DEF Answered
      <4>2. Collected(db, k)
        BY Zenon, <2>4 DEF Mine
      <4>3. ex.thread = k.thread /\ ex.whole = Whole(k) /\ ex.lines = Dump(k, out)
        BY <1>7, <2>3
      <4>4. Resolved(db, ex)
        BY Zenon, <1>1, <1>9, <3>1, <4>1, <4>2, <4>3, DumpResolves
      <4>5. exported' = ex
        BY Zenon, <1>8, <1>11, <3>1
      <4> QED
        BY Zenon, <1>8, <4>4, <4>5
    <3>2. CASE k.step # "reactions"
      BY Zenon, <1>8, <3>2
    <3> QED
      BY <3>1, <3>2
  <2>14. Extends(db, db')
    BY <1>8, ExtendsIsAPreorder
  <2> QED
    BY Zenon, <2>10, <2>11, <2>12, <2>13, <2>14, KeptFrom
<1> QED
  BY <1>10, <1>11

----------------------------------------------------------------------------
(* A batch *)

\* An event is the line it was made of, but for its author and its seq.
SameEvent(e, l) ==
    e.type = l.type /\ e.ref = l.ref /\ e.name = l.name /\ e.body = l.body /\ e.at = l.at

\* So are all of them.
LEMMA EventsAreLines ==
    ASSUME NEW k, k.lines \in Seq(Event), NEW es, es = ToEvents(k)
    PROVE  /\ es \in Seq(Event) /\ DOMAIN es = DOMAIN k.lines /\ Len(es) = Len(k.lines)
           /\ \A i \in DOMAIN es :
                 SameEvent(es[i], k.lines[i]) /\ (Import(k) => es[i].seq = k.lines[i].seq)
<1>1. ASSUME NEW l \in Event
      PROVE  SameEvent(ToEvent(k, l), l) /\ (Import(k) => ToEvent(k, l).seq = l.seq)
  <2>1. PICK a : a = IF Import(k) /\ ~k.cmd.agent THEN l.author ELSE LiveAuthorType(k)
    OBVIOUS
  <2>2. PICK s : s = IF Import(k) THEN l.seq ELSE 0
    OBVIOUS
  <2>3. PICK l1 : l1 = [l EXCEPT !.author = a]
    OBVIOUS
  <2>4. DOMAIN l1 = DOMAIN l /\ SameEvent(l1, l) /\ l1.seq = l.seq
    BY <2>3 DEF Event, SameEvent
  <2>5. PICK l2 : l2 = [l1 EXCEPT !.seq = s]
    OBVIOUS
  <2>6. SameEvent(l2, l1) /\ l2.seq = s
    BY <2>4, <2>5 DEF Event, SameEvent
  <2>7. ToEvent(k, l) = [[l EXCEPT !.author = a] EXCEPT !.seq = s]
    BY <2>1, <2>2 DEF ToEvent
  <2>8. ToEvent(k, l) = l2
    BY Zenon, <2>3, <2>5, <2>7
  <2> QED
    BY <2>2, <2>4, <2>6, <2>8 DEF SameEvent
<1>2. es \in Seq(Event) /\ Len(es) = Len(k.lines)
  BY ToEventsAre
<1>3. DOMAIN es = DOMAIN k.lines /\ \A i \in DOMAIN k.lines : es[i] = ToEvent(k, k.lines[i])
  BY DEF ToEvents
<1>4. \A i \in DOMAIN k.lines : k.lines[i] \in Event
  OBVIOUS
<1> QED
  BY Zenon, <1>1, <1>2, <1>3, <1>4

\* Counting the messages of a file, line by line.
LEMMA CountingMessages ==
    ASSUME NEW es, NEW n \in Nat
    PROVE  /\ MessagesUpTo(es, n) \in Nat
           /\ MessagesUpTo(es, 0) = 0
           /\ MessagesUpTo(es, n + 1) =
                 MessagesUpTo(es, n) + (IF es[n + 1].type = "message" THEN 1 ELSE 0)
           /\ \A i \in 0 .. n : MessagesUpTo(es, i) <= MessagesUpTo(es, n)
<1> DEFINE Upto(i) == {j \in 1 .. i : es[j].type = "message"}
<1>1. \A i \in Nat : IsFiniteSet(Upto(i)) /\ Cardinality(Upto(i)) \in Nat
  <2> SUFFICES ASSUME NEW i \in Nat
               PROVE  IsFiniteSet(Upto(i)) /\ Cardinality(Upto(i)) \in Nat
    OBVIOUS
  <2>1. IsFiniteSet(1 .. i) /\ Upto(i) \in SUBSET (1 .. i)
    BY FS_Interval
  <2> QED
    BY <2>1, FS_Subset, FS_CardinalityType
<1>2. Cardinality(Upto(0)) = 0
  <2>1. Upto(0) = {}
    OBVIOUS
  <2> QED
    BY <2>1, FS_EmptySet
<1>3. Cardinality(Upto(n + 1)) =
        Cardinality(Upto(n)) + (IF es[n + 1].type = "message" THEN 1 ELSE 0)
  <2>1. CASE es[n + 1].type = "message"
    <3>1. Upto(n + 1) = Upto(n) \cup {n + 1} /\ n + 1 \notin Upto(n)
      BY <2>1
    <3> QED
      BY <1>1, <2>1, <3>1, FS_AddElement
  <2>2. CASE es[n + 1].type # "message"
    <3>1. Upto(n + 1) = Upto(n)
      BY <2>2
    <3>2. Cardinality(Upto(n)) \in Nat
      BY <1>1
    <3> HIDE DEF Upto
    <3> QED
      BY <2>2, <3>1, <3>2
  <2> QED
    BY <2>1, <2>2
<1>4. \A i \in 0 .. n : Cardinality(Upto(i)) <= Cardinality(Upto(n))
  <2> SUFFICES ASSUME NEW i \in 0 .. n
               PROVE  Cardinality(Upto(i)) <= Cardinality(Upto(n))
    OBVIOUS
  <2>1. Upto(i) \in SUBSET Upto(n)
    OBVIOUS
  <2> QED
    BY <1>1, <2>1, FS_Subset
<1> HIDE DEF Upto
<1>5. \A i : MessagesUpTo(es, i) = Cardinality(Upto(i))
  BY DEF MessagesUpTo, Upto
<1>6. MessagesUpTo(es, n) \in Nat /\ MessagesUpTo(es, 0) = 0
  BY <1>1, <1>2, <1>5
<1>7. /\ MessagesUpTo(es, n) = Cardinality(Upto(n))
      /\ MessagesUpTo(es, n + 1) = Cardinality(Upto(n + 1))
  BY <1>5
<1>8. \A i \in 0 .. n : MessagesUpTo(es, i) <= MessagesUpTo(es, n)
  BY <1>4, <1>5
<1> QED
  BY <1>3, <1>6, <1>7, <1>8

\* Up to a message there are more than up to any line before it.
LEMMA LaterIsMore ==
    ASSUME NEW es, NEW i \in Nat, NEW j \in Nat, j < i, es[i].type = "message"
    PROVE  MessagesUpTo(es, j) < MessagesUpTo(es, i)
<1>1. PICK p \in Nat : i = p + 1
  <2>1. i - 1 \in Nat /\ i = (i - 1) + 1
    OBVIOUS
  <2> QED
    BY <2>1
<1>2. j \in 0 .. p
  BY <1>1
<1>3. /\ MessagesUpTo(es, p) \in Nat /\ MessagesUpTo(es, p + 1) = MessagesUpTo(es, p) + 1
      /\ MessagesUpTo(es, j) <= MessagesUpTo(es, p)
  BY <1>1, <1>2, CountingMessages
<1>4. MessagesUpTo(es, j) \in Nat
  BY CountingMessages
<1> QED
  BY <1>1, <1>3, <1>4

\* The map takes the seq of a message of the source to the one its copy gets.
LEMMA MapIs ==
    ASSUME NEW es \in Seq(Event), SortedSourceSeqs(es), NEW n \in Nat,
           NEW map, map = SourceSequenceMap(es, n)
    PROVE  /\ 0 \notin DOMAIN map
           /\ \A q \in Sourced(es) :
                 /\ es[q].seq \in DOMAIN map
                 /\ map[es[q].seq] = n + MessagesUpTo(es, q) - 1
<1> DEFINE At(s) == CHOOSE i \in Sourced(es) : es[i].seq = s
           Seqs == {es[i].seq : i \in Sourced(es)}
<1>1. map = [s \in Seqs |-> n + MessagesUpTo(es, At(s)) - 1]
  BY Zenon DEF SourceSequenceMap
<1>2. DOMAIN map = Seqs
  BY Zenon, <1>1
<1>3. 0 \notin Seqs
  BY DEF Sourced
<1>4. ASSUME NEW q \in Sourced(es)
      PROVE  es[q].seq \in Seqs /\ At(es[q].seq) = q
  <2>1. PICK p : p = At(es[q].seq)
    OBVIOUS
  <2>2. p \in Sourced(es) /\ es[p].seq = es[q].seq
    BY <2>1
  <2>3. /\ p \in Nat /\ q \in Nat /\ es[p].seq \in Nat
    <3>1. p \in DOMAIN es /\ q \in DOMAIN es
      BY <2>2 DEF Sourced
    <3>2. es[p] \in Event
      BY <3>1
    <3>3. es[p].seq \in Nat
      BY <3>2 DEF Event
    <3>4. DOMAIN es \in SUBSET Nat
      OBVIOUS
    <3> QED
      BY <3>1, <3>3, <3>4
  <2>4. /\ p < q => es[p].seq < es[q].seq
        /\ q < p => es[q].seq < es[p].seq
    BY <2>2 DEF SortedSourceSeqs
  <2>5. p = q
    BY <2>2, <2>3, <2>4
  <2> QED
    BY <2>1, <2>5
<1> HIDE DEF At, Seqs
<1>5. \A q \in Sourced(es) : map[es[q].seq] = n + MessagesUpTo(es, q) - 1
  <2> TAKE q \in Sourced(es)
  <2>1. PICK s \in Seqs : s = es[q].seq /\ At(s) = q
    BY <1>4
  <2>2. map[s] = n + MessagesUpTo(es, At(s)) - 1
    BY <1>1
  <2> QED
    BY Zenon, <2>1, <2>2
<1> QED
  BY Zenon, <1>2, <1>3, <1>4, <1>5

\* What an event has been copied to stays so.
LEMMA CopiedStays ==
    ASSUME NEW d, NEW b, NEW e, Consistent(b), Consistent(e), Extends(b, e),
           NEW t, NEW es, NEW i, Copied(d, b, t, es, i)
    PROVE  Copied(d, e, t, es, i)
<1>1. /\ \A x \in DOMAIN b.messages : x \in DOMAIN e.messages /\ e.messages[x] = b.messages[x]
      /\ \A x \in DOMAIN b.reactions : x \in DOMAIN e.reactions /\ e.reactions[x] = b.reactions[x]
  BY ExtendsKeepsRows DEF Consistent
<1>2. ASSUME CopiedMessage(d, b, t, es, i)
      PROVE  CopiedMessage(d, e, t, es, i)
  <2>1. PICK x : x = Len(d.messages) + MessagesUpTo(es, i)
    OBVIOUS
  <2>2. x \in DOMAIN b.messages
    BY Zenon, <1>2, <2>1 DEF CopiedMessage
  <2>3. x \in DOMAIN e.messages /\ e.messages[x] = b.messages[x]
    BY <1>1, <2>2
  <2> QED
    BY Zenon, <1>2, <2>1, <2>3 DEF CopiedMessage
<1>3. ASSUME CopiedReaction(d, b, es, i)
      PROVE  CopiedReaction(d, e, es, i)
  <2>1. PICK x \in DOMAIN b.reactions \ DOMAIN d.reactions :
          /\ ReactionIs(b.reactions[x], es[i], b.reactions[x].message)
          /\ Target(es, Len(d.messages), es[i].ref, b.reactions[x].message)
    BY <1>3 DEF CopiedReaction
  <2>2. x \in DOMAIN e.reactions \ DOMAIN d.reactions /\ e.reactions[x] = b.reactions[x]
    BY <1>1, <2>1
  <2> QED
    BY Zenon, <2>1, <2>2 DEF CopiedReaction
<1> QED
  BY Zenon, <1>2, <1>3 DEF Copied

\* What the batch of es, begun on d, has come to with b after j events.
Come(d, b, t, es, j) ==
    /\ j \in 0 .. Len(es)
    /\ Len(b.messages) = Len(d.messages) + MessagesUpTo(es, j)
    /\ LastMessageSeq(b, t) = LastMessageSeq(d, t) + MessagesUpTo(es, j)
    /\ \A i \in 1 .. j : Copied(d, b, t, es, i)

\* The last seqs are numbers.
LEMMA LastIsANumber ==
    ASSUME NEW d, Consistent(d), NEW t
    PROVE  LastMessageSeq(d, t) \in Nat /\ Len(d.messages) \in Nat /\ DOMAIN d.messages = 1 .. Len(d.messages)
<1>1. d.messages \in Seq(MessageRow)
  BY TablesAre DEF Consistent
<1>2. LastMessageSeq(d, t) \in Nat
  BY ThreadLists
<1> QED
  BY <1>1, <1>2

\* The message that a reference is remapped to, and found by, is the copy of the
\* one that it names in the source: no other message has its seq, and one that
\* is further on in the batch is not there yet.
LEMMA TargetIs ==
    ASSUME NEW d, NEW b, Consistent(d), Consistent(b), NEW t, NEW es \in Seq(Event), NEW j,
           Come(d, b, t, es, j), SortedSourceSeqs(es),
           NEW map, map = SourceSequenceMap(es, NextMessageSeq(d, t)),
           NEW ref \in Nat, NEW s, s = Remap(map, ref),
           NEW id, id = ParentOf(b, t, s), s # 0 => id # 0
    PROVE  Target(es, Len(d.messages), ref, id)
<1>1. PICK L \in Nat, N \in Nat : L = LastMessageSeq(d, t) /\ N = Len(d.messages)
  BY LastIsANumber
<1>2. /\ 0 \notin DOMAIN map
      /\ \A q \in Sourced(es) : es[q].seq \in DOMAIN map /\ map[es[q].seq] = L + MessagesUpTo(es, q)
  <2>1. PICK n \in Nat : n = L + 1
    OBVIOUS
  <2>2. map = SourceSequenceMap(es, n)
    BY Zenon, <1>1, <2>1 DEF NextMessageSeq
  <2>3. /\ 0 \notin DOMAIN map
        /\ \A q \in Sourced(es) : es[q].seq \in DOMAIN map /\ map[es[q].seq] = n + MessagesUpTo(es, q) - 1
    BY <2>2, MapIs
  <2>4. \A q \in Sourced(es) : MessagesUpTo(es, q) \in Nat
    <3>1. \A q \in Sourced(es) : q \in Nat
      BY DEF Sourced
    <3> QED
      BY <3>1, CountingMessages
  <2> QED
    BY <2>1, <2>3, <2>4
<1>3. ASSUME ref = 0
      PROVE  id = 0
  <2>1. s = 0
    BY <1>2, <1>3 DEF Remap
  <2> QED
    BY <2>1 DEF ParentOf
<1>4. ASSUME NEW q \in Sourced(es), es[q].seq = ref
      PROVE  id = N + MessagesUpTo(es, q)
  <2>1. PICK u : u = MessagesUpTo(es, q)
    OBVIOUS
  <2>2. PICK v : v = MessagesUpTo(es, j)
    OBVIOUS
  <2>3. /\ q \in Nat /\ q > 0 /\ es[q].type = "message" /\ q \in DOMAIN es
        /\ j \in Nat
    BY DEF Sourced, Come
  <2>4. u \in Nat /\ v \in Nat /\ u > 0
    <3>1. MessagesUpTo(es, 0) = 0 /\ MessagesUpTo(es, 0) < MessagesUpTo(es, q)
      BY <2>3, LaterIsMore, CountingMessages
    <3>2. u \in Nat /\ v \in Nat
      BY <2>1, <2>2, <2>3, CountingMessages
    <3> QED
      BY <2>1, <3>1, <3>2
  <2>5. s = L + u /\ s # 0
    <3>1. s = L + u
      BY Zenon, <1>2, <1>4, <2>1 DEF Remap
    <3> QED
      BY <2>4, <3>1
  <2>6. id # 0 /\ id = MessageIDBySeq(b, t, s)
    BY <2>5 DEF ParentOf
  <2>7. id \in DOMAIN b.messages /\ b.messages[id].thread = t /\ b.messages[id].seq = s
    BY <2>6, MessageIDBySeqFinds DEF Consistent
  <2>8. id \in MessagesOf(b, t)
    BY <2>7 DEF MessagesOf
  <2>9. s \in 1 .. LastMessageSeq(b, t)
    BY <2>7, <2>8, ThreadLists
  <2>10. LastMessageSeq(b, t) = L + v
    BY Zenon, <1>1, <2>2 DEF Come
  <2>11. u <= v
    BY <2>4, <2>5, <2>9, <2>10
  <2>12. q \in 1 .. j
    <3>1. j < q => v < u
      BY <2>1, <2>2, <2>3, LaterIsMore
    <3> QED
      BY <2>3, <2>4, <2>11, <3>1
  <2>13. CopiedMessage(d, b, t, es, q)
    <3>1. Copied(d, b, t, es, q)
      BY Zenon, <2>12 DEF Come
    <3> QED
      BY Zenon, <2>3, <3>1 DEF Copied
  <2>14. PICK x : x = N + u
    OBVIOUS
  <2>15. x \in DOMAIN b.messages /\ b.messages[x].seq = L + u /\ b.messages[x].thread = t
    BY Zenon, <1>1, <2>1, <2>13, <2>14 DEF CopiedMessage, MessageIs
  <2>16. x \in MessagesOf(b, t)
    BY <2>15 DEF MessagesOf
  <2>17. b.messages[id].seq = b.messages[x].seq
    BY Zenon, <2>5, <2>7, <2>15
  <2>18. id = x
    BY Zenon, <2>8, <2>16, <2>17, SeqIsAKey
  <2> QED
    BY Zenon, <2>1, <2>14, <2>18
<1> QED
  BY Zenon, <1>1, <1>3, <1>4 DEF Target

\* The next event, a message, has been appended.
LEMMA MessageCopies ==
    ASSUME NEW d, NEW b, Consistent(d), Consistent(b), NEW t, NEW es \in Seq(Event), NEW j,
           Come(d, b, t, es, j), NEW i, i = j + 1, i \in DOMAIN es, es[i].type = "message",
           NEW parent, Target(es, Len(d.messages), es[i].ref, parent),
           NEW r, r.code = "OK",
           NewMessage(b, r, t, parent, es[i].name, es[i].author, es[i].body, es[i].at)
    PROVE  Come(d, r.db, t, es, i)
<1>1. PICK e : e = r.db
  OBVIOUS
<1>2. Consistent(e)
  BY <1>1 DEF NewMessage
<1>3. PICK row \in MessageRow :
        /\ Added(b, r, "messages", row)
        /\ row.thread = t /\ row.seq = NextMessageSeq(b, t) /\ row.parent = parent
        /\ row.name = es[i].name /\ row.body = es[i].body
        /\ es[i].at # 0 => row.at = es[i].at
  BY DEF NewMessage
<1>4. PICK n \in Nat : n = Len(b.messages)
  BY LastIsANumber
<1>5. b \in Database /\ e \in Database /\ b["messages"] = b.messages /\ e["messages"] = e.messages
  BY <1>2, TablesAre DEF Consistent
<1>6. /\ Extends(b, e) /\ DOMAIN b.messages = 1 .. n /\ DOMAIN e.messages = 1 .. n + 1
      /\ e.messages[n + 1] = row
  <2>1. e = With(b, "messages", row) /\ "messages" \in Table
    BY <1>1, <1>3 DEF Added, Table
  <2>2. /\ Extends(b, e)
        /\ DOMAIN b["messages"] = 1 .. Len(b["messages"])
        /\ DOMAIN e["messages"] = 1 .. Len(b["messages"]) + 1
        /\ e["messages"][Len(b["messages"]) + 1] = row
    BY <1>5, <2>1, AddedExtends
  <2> QED
    BY Zenon, <1>4, <1>5, <2>2
<1>7. Len(e.messages) = n + 1
  <2>1. DOMAIN e.messages = 1 .. Len(e.messages) /\ Len(e.messages) \in Nat
    BY <1>2, LastIsANumber
  <2> QED
    BY <1>4, <1>6, <2>1
<1>8. PICK v \in Nat, w \in Nat :
        /\ v = MessagesUpTo(es, j) /\ w = MessagesUpTo(es, i)
        /\ w = v + 1 /\ j \in Nat
  <2>1. j \in Nat
    BY DEF Come
  <2>2. /\ MessagesUpTo(es, j) \in Nat
        /\ MessagesUpTo(es, j + 1) = MessagesUpTo(es, j) + 1
    BY <2>1, CountingMessages
  <2> QED
    BY <2>1, <2>2
<1>9. PICK L \in Nat, N \in Nat : L = LastMessageSeq(d, t) /\ N = Len(d.messages)
  BY LastIsANumber
<1>10. n = N + v /\ LastMessageSeq(b, t) = L + v
  BY <1>4, <1>8, <1>9 DEF Come
<1>11. LastMessageSeq(e, t) = L + w
  <2>1. Logs(b) /\ Logs(e)
    BY <1>2 DEF Consistent
  <2>2. LastMessageSeq(b, t) = CountTo(b, t, n) /\ LastMessageSeq(e, t) = CountTo(e, t, n + 1)
    BY Zenon, <1>4, <1>5, <1>7, <2>1, LastSeqIsCount
  <2>3. \A x \in 1 .. n : b.messages[x].thread = e.messages[x].thread
    <3>1. \A x \in DOMAIN b.messages : e.messages[x] = b.messages[x]
      BY <1>2, <1>6, ExtendsKeepsRows DEF Consistent
    <3> QED
      BY <1>6, <3>1
  <2>4. CountTo(b, t, n) = CountTo(e, t, n)
    BY <2>3, SameCount
  <2>5. CountTo(e, t, n + 1) = CountTo(e, t, n) + 1
    BY <1>3, <1>6, CountNext
  <2> QED
    <3>1. LastMessageSeq(e, t) = (L + v) + 1
      BY Zenon, <1>10, <2>2, <2>4, <2>5
    <3> QED
      BY <1>8, <3>1
<1>12. Copied(d, e, t, es, i)
  <2>1. PICK x : x = N + w
    OBVIOUS
  <2>2. x = n + 1 /\ x \in DOMAIN e.messages /\ e.messages[x] = row
    <3>1. x = n + 1
      BY <1>8, <1>10, <2>1
    <3>2. n + 1 \in 1 .. n + 1
      OBVIOUS
    <3> QED
      BY Zenon, <1>6, <3>1, <3>2
  <2>3. row.seq = L + w
    BY <1>3, <1>8, <1>10 DEF NextMessageSeq
  <2>4. MessageIs(row, t, es[i], row.parent)
    BY <1>3 DEF MessageIs
  <2>5. CopiedMessage(d, e, t, es, i)
    BY Zenon, <1>3, <1>8, <1>9, <2>1, <2>2, <2>3, <2>4 DEF CopiedMessage
  <2> QED
    BY <2>5 DEF Copied
<1>13. \A x \in 1 .. j : Copied(d, e, t, es, x)
  BY <1>2, <1>6, CopiedStays DEF Come
<1>14. \A x \in 1 .. i : Copied(d, e, t, es, x)
  BY <1>8, <1>12, <1>13, UpToNext
<1>15. i \in 0 .. Len(es)
  BY <1>8
<1>16. Len(e.messages) = N + w
  BY <1>7, <1>8, <1>10
<1> QED
  BY Zenon, <1>1, <1>8, <1>9, <1>11, <1>14, <1>15, <1>16 DEF Come

\* The next event, a reaction, has been added.
LEMMA ReactionCopies ==
    ASSUME NEW d, NEW b, Consistent(d), Consistent(b), Extends(d, b), NEW t, NEW es \in Seq(Event), NEW j,
           Come(d, b, t, es, j), NEW i, i = j + 1, i \in DOMAIN es, es[i].type # "message",
           NEW message, Target(es, Len(d.messages), es[i].ref, message),
           NEW r, r.code = "OK",
           NewReaction(b, r, message, es[i].body, es[i].name, es[i].author)
    PROVE  Come(d, r.db, t, es, i)
<1>1. PICK e : e = r.db
  OBVIOUS
<1>2. Consistent(e)
  BY <1>1 DEF NewReaction
<1>3. PICK row \in ReactionRow :
        Added(b, r, "reactions", row) /\ row.message = message /\ row.emoji = es[i].body
  BY DEF NewReaction
<1>4. /\ b \in Database /\ e \in Database /\ b["messages"] = b.messages /\ e["messages"] = e.messages
      /\ b["reactions"] = b.reactions /\ e["reactions"] = e.reactions
  BY <1>2, TablesAre DEF Consistent
<1>5. PICK n : n = Len(b.reactions)
  OBVIOUS
<1>6. /\ Extends(b, e) /\ n \in Nat /\ DOMAIN b.reactions = 1 .. n /\ DOMAIN e.reactions = 1 .. n + 1
      /\ e.reactions[n + 1] = row /\ e.messages = b.messages
  <2>1. e = With(b, "reactions", row) /\ "reactions" \in Table /\ "messages" \in Table \ {"reactions"}
    BY <1>1, <1>3 DEF Added, Table
  <2>2. /\ Extends(b, e) /\ Len(b["reactions"]) \in Nat
        /\ DOMAIN b["reactions"] = 1 .. Len(b["reactions"])
        /\ DOMAIN e["reactions"] = 1 .. Len(b["reactions"]) + 1
        /\ e["reactions"][Len(b["reactions"]) + 1] = row
        /\ e["messages"] = b["messages"]
    BY <1>4, <2>1, AddedExtends
  <2>3. e.messages = b.messages
    BY Zenon, <1>4, <2>2
  <2>4. n \in Nat /\ DOMAIN b.reactions = 1 .. n
    BY Zenon, <1>4, <1>5, <2>2
  <2>5. DOMAIN e.reactions = 1 .. n + 1
    BY Zenon, <1>4, <1>5, <2>2
  <2>6. e.reactions[n + 1] = row
    BY Zenon, <1>4, <1>5, <2>2
  <2> QED
    BY Zenon, <2>2, <2>3, <2>4, <2>5, <2>6
<1>7. LastMessageSeq(e, t) = LastMessageSeq(b, t)
  <2>1. e.messages = b.messages
    BY <1>6
  <2>2. SeqsOf(e, t) = SeqsOf(b, t)
    BY <2>1 DEF SeqsOf
  <2> QED
    BY <2>2 DEF LastMessageSeq
<1>8. MessagesUpTo(es, i) = MessagesUpTo(es, j) /\ j \in Nat
  <2>1. j \in Nat
    BY DEF Come
  <2>2. /\ MessagesUpTo(es, j) \in Nat
        /\ MessagesUpTo(es, j + 1) = MessagesUpTo(es, j) + 0
    BY <2>1, CountingMessages
  <2> QED
    BY <2>1, <2>2
<1>9. Copied(d, e, t, es, i)
  <2>1. n + 1 \in DOMAIN e.reactions \ DOMAIN d.reactions
    <3>1. \A x \in DOMAIN d.reactions : x \in DOMAIN b.reactions
      BY ExtendsKeepsRows DEF Consistent
    <3> QED
      BY <1>6, <3>1
  <2>2. ReactionIs(row, es[i], row.message) /\ row.message = message
    BY <1>3 DEF ReactionIs
  <2>3. CopiedReaction(d, e, es, i)
    BY Zenon, <1>6, <2>1, <2>2 DEF CopiedReaction
  <2> QED
    BY <2>3 DEF Copied
<1>10. \A x \in 1 .. j : Copied(d, e, t, es, x)
  BY <1>2, <1>6, CopiedStays DEF Come
<1>11. \A x \in 1 .. i : Copied(d, e, t, es, x)
  BY <1>8, <1>9, <1>10, UpToNext
<1>12. i \in 0 .. Len(es)
  BY <1>8
<1> QED
  BY Zenon, <1>1, <1>6, <1>7, <1>8, <1>11, <1>12 DEF Come

\* One event of a batch goes on with it.
LEMMA EventCopies ==
    ASSUME NEW d, NEW b, Consistent(d), Consistent(b), Extends(d, b), NEW t \in Nat,
           NEW es \in Seq(Event), NEW j, Come(d, b, t, es, j), SortedSourceSeqs(es),
           NEW map, SeqMap(map), map = SourceSequenceMap(es, NextMessageSeq(d, t)),
           NEW i, i = j + 1, i \in DOMAIN es,
           NEW r, r = AppendEvent(b, t, map, es[i]), r.code = "OK"
    PROVE  Come(d, r.db, t, es, i)
<1>1. PICK l \in Event : l = es[i]
  OBVIOUS
<1>2. PICK s : s = Remap(map, l.ref)
  OBVIOUS
<1>3. PICK p : p = ParentOf(b, t, s)
  OBVIOUS
<1>4. l.ref \in Nat
  BY DEF Event
<1>5. r = AppendEvent(b, t, map, l)
  BY Zenon, <1>1
<1>6. /\ l.type = "message" =>
           /\ NewMessage(b, r, t, p, l.name, l.author, l.body, l.at)
           /\ s # 0 => p # 0
      /\ l.type # "message" =>
           /\ NewReaction(b, r, MessageIDBySeq(b, t, s), l.body, l.name, l.author)
           /\ MessageIDBySeq(b, t, s) # 0
  BY <1>2, <1>3, <1>5, AppendEventAdds
<1>7. s # 0 => p # 0
  <2>1. CASE l.type = "message"
    BY <1>6, <2>1
  <2>2. CASE l.type # "message"
    BY <1>3, <1>6, <2>2 DEF ParentOf
  <2> QED
    BY <2>1, <2>2
<1>8. Target(es, Len(d.messages), l.ref, p)
  BY <1>2, <1>3, <1>4, <1>7, TargetIs
<1>9. CASE l.type = "message"
  <2>1. /\ NewMessage(b, r, t, p, es[i].name, es[i].author, es[i].body, es[i].at)
        /\ Target(es, Len(d.messages), es[i].ref, p) /\ es[i].type = "message"
    BY Zenon, <1>1, <1>6, <1>8, <1>9
  <2> QED
    BY <2>1, MessageCopies
<1>10. CASE l.type # "message"
  <2>1. s # 0
    <3>1. PICK x : x = MessageIDBySeq(b, t, s)
      OBVIOUS
    <3>2. x # 0
      BY <1>6, <1>10, <3>1
    <3>3. x \in DOMAIN b.messages /\ b.messages[x].thread = t /\ b.messages[x].seq = s
      BY <3>1, <3>2, MessageIDBySeqFinds DEF Consistent
    <3>4. x \in MessagesOf(b, t)
      BY <3>3 DEF MessagesOf
    <3>5. s \in 1 .. LastMessageSeq(b, t)
      BY <3>3, <3>4, ThreadLists
    <3> QED
      BY <3>5, LastIsANumber
  <2>2. p = MessageIDBySeq(b, t, s)
    BY <1>3, <2>1 DEF ParentOf
  <2>3. /\ NewReaction(b, r, p, es[i].body, es[i].name, es[i].author)
        /\ Target(es, Len(d.messages), es[i].ref, p) /\ es[i].type # "message"
    BY Zenon, <1>1, <1>6, <1>8, <1>10, <2>2
  <2> QED
    BY <2>3, ReactionCopies
<1> QED
  BY <1>9, <1>10

\* How far a batch in a transaction is.
LEMMA InBatchIs ==
    ASSUME NEW d, NEW x, NEW t, NEW es \in Seq(Event), NEW j \in Nat, j = Len(x.results)
    PROVE  InBatch(d, x, t, es) <=>
              /\ SortedSourceSeqs(es)
              /\ x.map = SourceSequenceMap(es, NextMessageSeq(d, t))
              /\ Come(d, x.db, t, es, j)
<1>1. j <= Len(es) <=> j \in 0 .. Len(es)
  OBVIOUS
<1> QED
  BY Zenon, <1>1 DEF InBatch, Come

\* A batch begins.
LEMMA BeginBatchKept ==
    ASSUME IInv, IInv', Kept, NEW c \in Client, BeginBatch(c)
    PROVE  Kept'
<1>1. /\ TxOK /\ DOMAIN h = Client /\ Consistent(db) /\ Handler(h[c]) /\ Serves(c)
      /\ DOMAIN seen = Client
  BY DEF IInv, Global, Own, ClientTypes, Kept
<1>2. PICK es : es = ToEvents(cl[c])
  OBVIOUS
<1>3. PICK map : map = SourceSequenceMap(es, NextMessageSeq(db, cl[c].thread))
  OBVIOUS
<1>4. /\ h[c].phase = "sent" /\ tx.owner = Nobody /\ cl[c].step = "events"
      /\ db' = db /\ wrote' = wrote
      /\ cl' = cl /\ up' = up /\ seen' = seen /\ exported' = exported
      /\ \/ /\ tx' = [owner |-> c, db |-> db, results |-> <<>>, map |-> map]
            /\ SortedSourceSeqs(es)
            /\ h' = [h EXCEPT ![c] = [h[c] EXCEPT !.phase = "tx"]]
         \/ Answer(c, "BAD_JSONL", <<>>) /\ tx' = tx
  BY <1>1, <1>2, <1>3 DEF BeginBatch
<1>5. CASE Answer(c, "BAD_JSONL", <<>>) /\ tx' = tx
  <2>1. PICK code : code = "BAD_JSONL" /\ code # "OK"
    OBVIOUS
  <2> QED
    BY <1>4, <1>5, <2>1, ErrorKept
<1>6. CASE /\ tx' = [owner |-> c, db |-> db, results |-> <<>>, map |-> map]
           /\ SortedSourceSeqs(es)
           /\ h' = [h EXCEPT ![c] = [h[c] EXCEPT !.phase = "tx"]]
  <2>1. h'[c].phase = "tx" /\ \A x \in Client \ {c} : h'[x] = h[x]
    BY <1>1, <1>6 DEF Handler
  <2>2. OthersRest(c)
    BY <1>4, <2>1 DEF OthersRest
  <2>3. Mine(db', cl'[c], h'[c], wrote'[c], seen'[c])
    <3>1. PICK d, k, x, x2, w, s :
            d = db /\ k = cl[c] /\ x = h[c] /\ x2 = h'[c] /\ w = wrote[c] /\ s = seen[c]
      OBVIOUS
    <3>2. Mine(d, k, x, w, s) /\ ~Ready(x2) /\ SameWork(k, k)
      BY <2>1, <3>1 DEF Kept, Ready, SameWork
    <3>3. Mine(d, k, x2, w, s)
      BY Zenon, <3>2, MineGoesOn
    <3> QED
      BY Zenon, <1>4, <3>1, <3>3
  <2>4. TxKept'
    <3>1. tx'.owner = c /\ tx'.db = db /\ tx'.map = map /\ tx'.results = <<>>
      BY <1>6
    <3>2. es \in Seq(Event)
      BY <1>1, <1>2, <1>4, ToEventsAre DEF Serves, Asks
    <3>3. PICK d, y, t : d = db /\ y = tx' /\ t = cl[c].thread
      OBVIOUS
    <3>4. /\ Len(y.results) = 0 /\ y.db = d /\ y.map = SourceSequenceMap(es, NextMessageSeq(d, t))
          /\ Consistent(d)
      <4>1. Len(<<>>) = 0
        OBVIOUS
      <4> QED
        BY Zenon, <1>1, <1>3, <3>1, <3>3, <4>1
    <3>5. Come(d, d, t, es, 0)
      <4>1. MessagesUpTo(es, 0) = 0 /\ 0 \in Nat
        BY CountingMessages
      <4>2. LastMessageSeq(d, t) \in Nat /\ Len(d.messages) \in Nat
        BY <3>4, LastIsANumber
      <4>3. 0 \in 0 .. Len(es)
        BY <3>2
      <4> QED
        BY <4>1, <4>2, <4>3 DEF Come
    <3>6. InBatch(d, y, t, es)
      <4>1. PICK j \in Nat : j = 0
        OBVIOUS
      <4>2. j = Len(y.results) /\ Come(d, y.db, t, es, j)
        BY Zenon, <3>4, <3>5, <4>1
      <4> QED
        BY <1>6, <3>2, <3>4, <4>2, InBatchIs
    <3>7. InBatch(db', tx', cl'[tx'.owner].thread, es)
      BY Zenon, <1>4, <3>1, <3>3, <3>6
    <3>8. ToEvents(cl'[tx'.owner]) = es
      BY Zenon, <1>2, <1>4, <3>1
    <3> QED
      BY Zenon, <3>7, <3>8 DEF TxKept
  <2>5. Extends(db, db')
    BY <1>4, ExtendsIsAPreorder
  <2>6. DOMAIN seen' = Client
    BY <1>1, <1>4
  <2> QED
    BY Zenon, <1>4, <2>2, <2>3, <2>4, <2>5, <2>6, KeptFrom
<1> QED
  BY <1>4, <1>5, <1>6

\* One event of a batch.
LEMMA BatchEventKept ==
    ASSUME IInv, IInv', Kept, NEW c \in Client, BatchEvent(c)
    PROVE  Kept'
<1> DEFINE e == ToEvents(cl[c])[Len(tx.results) + 1]
           r == AppendEvent(tx.db, cl[c].thread, tx.map, e)
<1>1. /\ TxOK /\ DOMAIN h = Client /\ Consistent(db) /\ Serves(c) /\ cl[c] \in ClientState
      /\ DOMAIN seen = Client
  BY DEF IInv, Global, Own, ClientTypes, Kept
<1>2. /\ tx.owner = c /\ Len(tx.results) < Len(cl[c].lines)
      /\ db' = db /\ wrote' = wrote
      /\ cl' = cl /\ seen' = seen /\ exported' = exported
      /\ IF r.code = "OK"
         THEN /\ tx' = [tx EXCEPT !.db = r.db, !.results = Append(@, AppendResult(e, r.out[1]))]
              /\ UNCHANGED h
         ELSE tx' = NoTx /\ Answer(c, MutationError(r).code, <<>>)
  BY DEF BatchEvent
<1>3. h[c].phase = "tx" /\ tx.owner # Nobody
  BY <1>1, <1>2, ServiceAssumption DEF TxOK
<1>4. /\ DOMAIN tx = {"owner", "db", "map", "results"}
      /\ Consistent(tx.db) /\ Extends(db, tx.db) /\ SeqMap(tx.map) /\ tx.results \in Seq(Result)
  BY <1>1, <1>3 DEF TxOK
<1>5. Asks(cl[c]) /\ cl[c].thread \in Nat
  BY <1>1, <1>3, ClientFields DEF Serves
<1>6. PICK es : es = ToEvents(cl[c])
  OBVIOUS
<1>7. PICK j \in Nat : j = Len(tx.results)
  BY <1>4
<1>8. PICK i \in Nat : i = j + 1
  OBVIOUS
<1>9. /\ es \in Seq(Event) /\ i \in DOMAIN es
      /\ es[i] \in Event /\ e = es[i]
  <2>1. es \in Seq(Event) /\ Len(es) = Len(cl[c].lines)
    BY <1>5, <1>6, ToEventsAre DEF Asks
  <2>2. i \in DOMAIN es
    BY <1>2, <1>7, <1>8, <2>1
  <2> QED
    BY <1>6, <1>7, <1>8, <2>1, <2>2
<1>10. InBatch(db, tx, cl[c].thread, es)
  BY Zenon, <1>2, <1>3, <1>6 DEF Kept, TxKept
<1> HIDE DEF e
<1>11. r.code # "OK" => MutationError(r).code \in Codes \ {"OK"}
  <2>1. e \in Event
    BY <1>9
  <2> QED
    BY <1>4, <1>5, <2>1, EventAdds
<1>12. PICK q : q = r
  OBVIOUS
<1> HIDE DEF r
<1>13. CASE q.code # "OK"
  <2>1. PICK code : code = MutationError(r).code
    OBVIOUS
  <2>2. tx' = NoTx /\ Answer(c, code, <<>>) /\ code # "OK"
    BY <1>2, <1>11, <1>12, <1>13, <2>1
  <2> QED
    BY <1>2, <2>2, ErrorKept
<1>14. CASE q.code = "OK"
  <2>1. PICK res : res = AppendResult(e, r.out[1])
    OBVIOUS
  <2>2. tx' = [tx EXCEPT !.db = q.db, !.results = Append(tx.results, res)] /\ h' = h
    BY <1>2, <1>12, <1>14, <2>1
  <2>3. /\ tx'.owner = c /\ tx'.db = q.db /\ tx'.map = tx.map
        /\ tx'.results = Append(tx.results, res)
    BY <1>2, <1>4, <2>2
  <2>4. Len(tx'.results) = i
    <3>1. PICK p : p = tx.results
      OBVIOUS
    <3>2. p \in Seq(Result)
      BY <1>4, <3>1
    <3>3. p \in Seq(Result \cup {res})
      BY <3>2
    <3>4. Len(Append(p, res)) = Len(p) + 1
      BY <3>3
    <3> QED
      BY Zenon, <1>7, <1>8, <2>3, <3>1, <3>4
  <2>5. TxKept'
    <3>0. PICK t \in Nat : t = cl[c].thread
      BY <1>5
    <3>1. PICK d, b, map, y, y2 : d = db /\ b = tx.db /\ map = tx.map /\ y = tx /\ y2 = tx'
      OBVIOUS
    <3>2. /\ Consistent(d) /\ Consistent(b) /\ Extends(d, b) /\ SeqMap(map) /\ InBatch(d, y, t, es)
      BY Zenon, <1>1, <1>4, <1>10, <3>0, <3>1
    <3>3. /\ SortedSourceSeqs(es) /\ map = SourceSequenceMap(es, NextMessageSeq(d, t))
          /\ Come(d, b, t, es, j)
      <4>1. j = Len(y.results)
        BY <1>7, <3>1
      <4>2. y.map = SourceSequenceMap(es, NextMessageSeq(d, t)) /\ Come(d, y.db, t, es, j) /\ SortedSourceSeqs(es)
        BY <1>9, <3>2, <4>1, InBatchIs
      <4> QED
        BY Zenon, <3>1, <4>2
    <3>4. q = AppendEvent(b, t, map, es[i])
      BY Zenon, <1>9, <1>12, <3>0, <3>1 DEF r
    <3>5. Come(d, q.db, t, es, i)
      BY <1>8, <1>9, <1>14, <3>2, <3>3, <3>4, EventCopies
    <3>6. /\ i = Len(y2.results) /\ y2.db = q.db /\ y2.map = map
      BY Zenon, <2>3, <2>4, <3>1
    <3>7. InBatch(d, y2, t, es)
      <4>1. Come(d, y2.db, t, es, i) /\ y2.map = SourceSequenceMap(es, NextMessageSeq(d, t))
        BY Zenon, <3>3, <3>5, <3>6
      <4> QED
        BY <1>9, <3>3, <3>6, <4>1, InBatchIs
    <3>8. InBatch(db', tx', cl'[tx'.owner].thread, es)
      BY Zenon, <1>2, <2>3, <3>0, <3>1, <3>7
    <3>9. ToEvents(cl'[tx'.owner]) = es
      BY Zenon, <1>2, <1>6, <2>3
    <3> QED
      BY Zenon, <3>8, <3>9 DEF TxKept
  <2>6. OthersRest(c)
    BY Zenon, <1>2, <2>2 DEF OthersRest
  <2>7. Mine(db', cl'[c], h'[c], wrote'[c], seen'[c])
    <3>1. Mine(db, cl[c], h[c], wrote[c], seen[c])
      BY DEF Kept
    <3> QED
      BY Zenon, <1>2, <2>2, <3>1
  <2>8. Extends(db, db')
    BY <1>2, ExtendsIsAPreorder
  <2>9. DOMAIN seen' = Client
    BY <1>1, <1>2
  <2> QED
    BY Zenon, <1>2, <2>5, <2>6, <2>7, <2>8, <2>9, KeptFrom
<1> QED
  BY <1>12, <1>13, <1>14

\* Where the messages are among the lines of a file.
MessagePlaces(lines) == {i \in DOMAIN lines : lines[i].type = "message"}

\* The messages among the lines of a file, in their order, and how many lines
\* up to each are messages.
LEMMA LinesCount ==
    ASSUME NEW k, k.lines \in Seq(Event), NEW es, es = ToEvents(k),
           NEW ms, ms = MessageLines(k.lines), NEW S, S = MessagePlaces(k.lines),
           NEW g, g = InIdOrder(S), NEW n, n = Cardinality(S)
    PROVE  /\ n \in Nat /\ Lists(g, S, n) /\ n = MessagesUpTo(es, Len(es))
           /\ \A p \in 1 .. n : MessagesUpTo(es, g[p]) = p
           /\ DOMAIN ms = 1 .. n /\ \A p \in 1 .. n : ms[p] = k.lines[g[p]]
<1>0. S = {i \in DOMAIN k.lines : k.lines[i].type = "message"}
  BY DEF MessagePlaces
<1>1. PICK lines \in Seq(Event) : lines = k.lines
  OBVIOUS
<1>2. DOMAIN lines = 1 .. Len(lines) /\ Len(lines) \in Nat
  BY <1>1
<1>3. /\ DOMAIN es = DOMAIN lines /\ Len(es) = Len(lines)
      /\ \A i \in DOMAIN lines : es[i].type = lines[i].type
  BY <1>1, EventsAreLines DEF SameEvent
<1>4. S \in SUBSET (1 .. Len(lines)) /\ S \in SUBSET Nat /\ IsFiniteSet(S)
  <2>1. PICK m \in Nat : m = Len(lines)
    BY <1>2
  <2>2. S \in SUBSET (1 .. m) /\ S \in SUBSET Nat
    BY <1>0, <1>1, <1>2, <2>1
  <2>3. IsFiniteSet(1 .. m)
    BY FS_Interval
  <2> QED
    BY <2>1, <2>2, <2>3, FS_Subset
<1>5. n \in Nat /\ Lists(g, S, n)
  <2>1. /\ n \in Nat /\ g \in [1 .. n -> S]
        /\ \A x \in S : \E i \in 1 .. n : g[i] = x
        /\ \A i, j \in 1 .. n : i < j => g[i] < g[j]
    <3>1. /\ Cardinality(S) \in Nat
          /\ InIdOrder(S) \in [1 .. Cardinality(S) -> S]
          /\ \A x \in S : \E i \in 1 .. Cardinality(S) : InIdOrder(S)[i] = x
          /\ \A i, j \in 1 .. Cardinality(S) : i < j => InIdOrder(S)[i] < InIdOrder(S)[j]
      <4>1. PICK T \in SUBSET Nat : T = S
        BY <1>4
      <4>2. IsFiniteSet(T)
        BY <1>4, <4>1
      <4>3. /\ Cardinality(T) \in Nat
            /\ InIdOrder(T) \in [1 .. Cardinality(T) -> T]
            /\ \A x \in T : \E i \in 1 .. Cardinality(T) : InIdOrder(T)[i] = x
            /\ \A i, j \in 1 .. Cardinality(T) : i < j => InIdOrder(T)[i] < InIdOrder(T)[j]
        BY ZenonT(30), <4>2, InIdOrderLists
      <4> QED
        BY Zenon, <4>1, <4>3
    <3> QED
      BY ZenonT(30), <3>1
  <2> QED
    BY Zenon, <2>1 DEF Lists
<1>6. n = MessagesUpTo(es, Len(es))
  <2>1. S = {j \in 1 .. Len(es) : es[j].type = "message"}
    BY <1>0, <1>1, <1>2, <1>3
  <2> QED
    BY <2>1 DEF MessagesUpTo
<1>7. ASSUME NEW p \in 1 .. n
      PROVE  MessagesUpTo(es, g[p]) = p
  <2>1. PICK x \in S : x = g[p]
    BY <1>5 DEF Lists
  <2>2. Cardinality(Below(S, x)) = p - 1
    <3>1. \A q \in 1 .. n : Cardinality(Below(S, g[q])) = q - 1
      BY <1>4, <1>5, PlacesCount
    <3> QED
      BY Zenon, <2>1, <3>1
  <2>3. x \in 1 .. Len(lines) /\ x \in Nat /\ S = {j \in 1 .. Len(lines) : es[j].type = "message"}
    BY <1>0, <1>1, <1>2, <1>3, <1>4
  <2>4. {j \in 1 .. x : es[j].type = "message"} = Below(S, x) \cup {x} /\ x \notin Below(S, x)
    BY <1>2, <2>3 DEF Below
  <2>5. IsFiniteSet(Below(S, x))
    <3>1. Below(S, x) \in SUBSET S
      BY DEF Below
    <3> QED
      BY <1>4, <3>1, FS_Subset
  <2>6. Cardinality(Below(S, x) \cup {x}) = Cardinality(Below(S, x)) + 1
    BY <2>4, <2>5, FS_AddElement
  <2>7. MessagesUpTo(es, x) = Cardinality(Below(S, x)) + 1
    BY Zenon, <2>4, <2>6 DEF MessagesUpTo
  <2>8. MessagesUpTo(es, x) = p
    BY <2>2, <2>7
  <2> QED
    BY Zenon, <2>1, <2>8
<1>8. DOMAIN ms = 1 .. n /\ \A p \in 1 .. n : ms[p] = k.lines[g[p]]
  <2>1. ms = [p \in DOMAIN g |-> k.lines[g[p]]]
    BY Zenon, <1>0 DEF MessageLines, Select, RowsAt
  <2>2. DOMAIN g = 1 .. n
    BY <1>5 DEF Lists
  <2> QED
    BY Zenon, <2>1, <2>2
<1> QED
  BY Zenon, <1>5, <1>6, <1>7, <1>8

\* The new messages of a batch have the ids that follow those there were.
LEMMA NewIdsAre ==
    ASSUME NEW d, NEW b, Consistent(d), Consistent(b), Extends(d, b), NEW N \in Nat, N = Len(d.messages),
           NEW n \in Nat, Len(b.messages) = N + n, NEW ids, ids = InIdOrder(MessagesIn(b, NewRows(d, b)))
    PROVE  Len(ids) = n /\ DOMAIN ids = 1 .. n /\ \A p \in 1 .. n : ids[p] = N + p
<1>1. PICK M : M = MessagesIn(b, NewRows(d, b))
  OBVIOUS
<1>2. DOMAIN d.messages = 1 .. N /\ DOMAIN b.messages = 1 .. N + n
  BY LastIsANumber
<1>3. M = {i \in DOMAIN b.messages : i \notin DOMAIN d.messages}
  BY <1>1, NewMessagesAre DEF MessagesIn
<1>4. M = N + 1 .. N + n
  BY <1>2, <1>3
<1>5. PICK f : f = [p \in 1 .. n |-> N + p]
  OBVIOUS
<1>6. Lists(f, M, n) /\ M \in SUBSET Nat
  <2>1. f \in [1 .. n -> M]
    BY <1>4, <1>5
  <2>2. \A x \in M : \E p \in 1 .. n : f[p] = x
    <3> TAKE x \in M
    <3>1. x - N \in 1 .. n /\ f[x - N] = N + (x - N)
      BY <1>4, <1>5
    <3>2. N + (x - N) = x
      BY <1>4
    <3> QED
      BY <3>1, <3>2
  <2>3. \A i, j \in 1 .. n : i < j => f[i] < f[j]
    BY <1>5
  <2>4. M \in SUBSET Nat
    BY <1>4
  <2> QED
    BY <2>1, <2>2, <2>3, <2>4 DEF Lists
<1>7. ids = f
  BY Zenon, <1>1, <1>6, InIdOrderIs
<1>8. f \in Seq(Nat) /\ Len(f) = n
  BY <1>5
<1> QED
  BY <1>5, <1>7, <1>8

\* What stands for a line of a file, where the copies of its messages have the
\* ids from N + 1 on, is the copy of it.
LEMMA CopyIs ==
    ASSUME NEW k, k.lines \in Seq(Event), Import(k), NEW es, es = ToEvents(k),
           NEW ms, ms = MessageLines(k.lines), NEW N, NEW ids,
           \A p \in DOMAIN ms : ids[p] = N + p,
           NEW ref, ref # 0 => \E m \in ToSet(ms) : m.seq = ref,
           NEW id, Target(es, N, ref, id)
    PROVE  id = CopyOf(k.lines, ids, ref)
<1>1. CASE ref = 0
  BY <1>1 DEF Target, CopyOf
<1>2. CASE ref # 0
  <2>1. PICK S : S = MessagePlaces(k.lines)
    OBVIOUS
  <2>2. PICK g, n : g = InIdOrder(S) /\ n = Cardinality(S)
    OBVIOUS
  <2>3. /\ n \in Nat /\ Lists(g, S, n)
        /\ \A p \in 1 .. n : MessagesUpTo(es, g[p]) = p
        /\ DOMAIN ms = 1 .. n /\ \A p \in 1 .. n : ms[p] = k.lines[g[p]]
    BY <2>1, <2>2, LinesCount
  <2>4. S = {i \in DOMAIN k.lines : k.lines[i].type = "message"}
    BY <2>1 DEF MessagePlaces
  <2>5. PICK p : p = CHOOSE i \in DOMAIN ms : ms[i].seq = ref
    OBVIOUS
  <2>6. p \in DOMAIN ms /\ ms[p].seq = ref
    <3>1. \E i \in DOMAIN ms : ms[i].seq = ref
      BY <1>2 DEF ToSet
    <3> QED
      BY <2>5, <3>1
  <2>7. PICK q \in S : q = g[p]
    BY <2>3, <2>6 DEF Lists
  <2>8. q \in Sourced(es) /\ es[q].seq = ref
    <3>1. /\ DOMAIN es = DOMAIN k.lines
          /\ \A i \in DOMAIN es : es[i].type = k.lines[i].type /\ es[i].seq = k.lines[i].seq
      BY EventsAreLines DEF SameEvent
    <3>2. q \in DOMAIN es /\ es[q].type = "message" /\ es[q].seq = ref
      BY <2>3, <2>4, <2>6, <2>7, <3>1
    <3> QED
      BY <1>2, <3>2 DEF Sourced
  <2>9. MessagesUpTo(es, q) = p
    BY Zenon, <2>3, <2>6, <2>7
  <2>10. id = N + p
    BY Zenon, <2>8, <2>9 DEF Target
  <2>11. CopyOf(k.lines, ids, ref) = ids[p]
    BY Zenon, <1>2, <2>5 DEF CopyOf
  <2> QED
    BY Zenon, <2>6, <2>10, <2>11
<1> QED
  BY <1>1, <1>2

\* A batch that has come to its end is a copy of its file.
LEMMA BatchImports ==
    ASSUME NEW d, NEW b, Consistent(d), Consistent(b), Extends(d, b), NEW t,
           NEW k, k.lines \in Seq(Event), Import(k), SelfContained(k.lines),
           NEW es, es = ToEvents(k), NEW j, j = Len(k.lines), Come(d, b, t, es, j)
    PROVE  Imported(b, NewRows(d, b), t, k.lines)
<1>1. PICK lines \in Seq(Event) : lines = k.lines
  OBVIOUS
<1>2. PICK ms : ms = MessageLines(lines)
  OBVIOUS
<1>3. PICK S : S = MessagePlaces(k.lines)
  OBVIOUS
<1>4. PICK g, n : g = InIdOrder(S) /\ n = Cardinality(S)
  OBVIOUS
<1>5. /\ n \in Nat /\ Lists(g, S, n) /\ n = MessagesUpTo(es, Len(es))
      /\ \A p \in 1 .. n : MessagesUpTo(es, g[p]) = p
      /\ DOMAIN ms = 1 .. n /\ \A p \in 1 .. n : ms[p] = k.lines[g[p]]
  BY <1>1, <1>2, <1>3, <1>4, LinesCount
<1>6. /\ DOMAIN es = DOMAIN lines /\ Len(es) = Len(lines)
      /\ \A i \in DOMAIN es : SameEvent(es[i], lines[i])
  BY <1>1, EventsAreLines
<1>7. ms \in Seq(Event) /\ DOMAIN ms = 1 .. n /\ \A p \in 1 .. n : ms[p] = lines[g[p]]
  <2>1. ms \in Seq(Event)
    BY <1>2, MessageLinesAre
  <2> QED
    BY Zenon, <1>1, <1>5, <2>1
<1>8. PICK N \in Nat : N = Len(d.messages)
  BY LastIsANumber
<1>9. PICK ids : ids = InIdOrder(MessagesIn(b, NewRows(d, b)))
  OBVIOUS
<1>10. Len(ids) = n /\ \A p \in 1 .. n : ids[p] = N + p
  <2>1. Len(b.messages) = N + n
    BY Zenon, <1>1, <1>5, <1>6, <1>8 DEF Come
  <2> QED
    BY <1>5, <1>8, <1>9, <2>1, NewIdsAre
<1>11. Len(ms) = n
  BY <1>5, <1>7
<1>12. ASSUME NEW l \in ToSet(lines), NEW id, Target(es, N, l.ref, id)
       PROVE  id = CopyOf(lines, ids, l.ref)
  <2>1. l.ref # 0 => \E m \in ToSet(ms) : m.seq = l.ref
    BY Zenon, <1>1, <1>2 DEF SelfContained
  <2>2. PICK ref : ref = l.ref
    OBVIOUS
  <2>3. /\ ms = MessageLines(k.lines) /\ \A p \in DOMAIN ms : ids[p] = N + p
        /\ ref # 0 => \E m \in ToSet(ms) : m.seq = ref
        /\ Target(es, N, ref, id)
    BY Zenon, <1>1, <1>2, <1>7, <1>10, <1>12, <2>1, <2>2
  <2>4. id = CopyOf(k.lines, ids, ref)
    BY <2>3, CopyIs
  <2> QED
    BY Zenon, <1>1, <2>2, <2>4
<1>13. \A i \in DOMAIN lines : Copied(d, b, t, es, i)
  <2>1. DOMAIN lines = 1 .. j
    BY <1>1
  <2> QED
    BY Zenon, <2>1 DEF Come
<1>14. ASSUME NEW p \in DOMAIN ms
       PROVE  MessageIs(b.messages[ids[p]], t, ms[p], CopyOf(lines, ids, ms[p].ref))
  <2>1. PICK i \in S : i = g[p]
    BY <1>5, <1>7 DEF Lists
  <2>2. i \in DOMAIN lines /\ lines[i].type = "message" /\ ms[p] = lines[i]
    BY <1>1, <1>3, <1>7, <2>1 DEF MessagePlaces
  <2>3. es[i].type = "message" /\ SameEvent(es[i], lines[i])
    BY <1>6, <2>2 DEF SameEvent
  <2>4. CopiedMessage(d, b, t, es, i)
    BY Zenon, <1>13, <2>2, <2>3 DEF Copied
  <2>5. MessagesUpTo(es, i) = p
    BY Zenon, <1>5, <1>7, <2>1
  <2>6. PICK x, m : x = N + p /\ m = b.messages[x]
    OBVIOUS
  <2>7. MessageIs(m, t, es[i], m.parent) /\ Target(es, N, es[i].ref, m.parent)
    BY Zenon, <1>8, <2>4, <2>5, <2>6 DEF CopiedMessage
  <2>8. lines[i] \in ToSet(lines) /\ Target(es, N, lines[i].ref, m.parent)
    BY Zenon, <2>2, <2>3, <2>7 DEF SameEvent, ToSet
  <2>9. m.parent = CopyOf(lines, ids, lines[i].ref)
    BY Zenon, <1>12, <2>8
  <2>10. MessageIs(m, t, lines[i], CopyOf(lines, ids, lines[i].ref))
    BY Zenon, <2>3, <2>7, <2>9 DEF MessageIs, SameEvent
  <2>11. ids[p] = x
    BY Zenon, <1>7, <1>10, <2>6
  <2> QED
    BY Zenon, <2>2, <2>6, <2>10, <2>11
<1>15. ASSUME NEW l \in ToSet(lines), l.type = "reaction"
       PROVE  \E r \in DOMAIN b.reactions :
                 /\ <<"reactions", r>> \in NewRows(d, b)
                 /\ ReactionIs(b.reactions[r], l, CopyOf(lines, ids, l.ref))
  <2>1. PICK i \in DOMAIN lines : l = lines[i]
    BY <1>15 DEF ToSet
  <2>2. es[i].type # "message" /\ SameEvent(es[i], l)
    BY <1>6, <1>15, <2>1 DEF SameEvent
  <2>3. CopiedReaction(d, b, es, i)
    BY Zenon, <1>13, <2>2 DEF Copied
  <2>4. PICK r \in DOMAIN b.reactions \ DOMAIN d.reactions :
          /\ ReactionIs(b.reactions[r], es[i], b.reactions[r].message)
          /\ Target(es, N, es[i].ref, b.reactions[r].message)
    BY Zenon, <1>8, <2>3 DEF CopiedReaction
  <2>5. b.reactions[r].message = CopyOf(lines, ids, l.ref)
    BY Zenon, <1>12, <2>2, <2>4 DEF SameEvent
  <2>6. ReactionIs(b.reactions[r], l, CopyOf(lines, ids, l.ref))
    BY Zenon, <2>2, <2>4, <2>5 DEF ReactionIs, SameEvent
  <2>7. <<"reactions", r>> \in NewRows(d, b)
    <3>1. d["reactions"] = d.reactions /\ b["reactions"] = b.reactions /\ "reactions" \in Table
      BY TablesAre DEF Consistent, Table
    <3> QED
      BY <2>4, <3>1, RowsAre
  <2> QED
    BY <2>4, <2>6, <2>7
<1>16. Imported(b, NewRows(d, b), t, lines)
  <2>1. \A l \in {x \in ToSet(lines) : x.type = "reaction"} :
          \E r \in DOMAIN b.reactions :
             <<"reactions", r>> \in NewRows(d, b) /\ ReactionIs(b.reactions[r], l, CopyOf(lines, ids, l.ref))
    BY <1>15
  <2> QED
    BY Zenon, <1>2, <1>9, <1>10, <1>11, <1>14, <2>1 DEF Imported
<1> QED
  BY Zenon, <1>1, <1>16

\* A batch is committed.
LEMMA CommitBatchKept ==
    ASSUME IInv, IInv', Kept, NEW c \in Client, CommitBatch(c)
    PROVE  Kept'
<1>1. /\ TxOK /\ DOMAIN h = Client /\ DOMAIN wrote = Client /\ Consistent(db)
      /\ Serves(c) /\ Acts(c) /\ DOMAIN seen = Client
  BY DEF IInv, Global, Own, Kept
<1>2. /\ tx.owner = c /\ Len(tx.results) = Len(cl[c].lines)
      /\ Committed(c, tx.db, tx.results) /\ tx' = NoTx
      /\ cl' = cl /\ seen' = seen /\ exported' = exported
  BY DEF CommitBatch
<1>3. h[c].phase = "tx" /\ tx.owner # Nobody
  BY <1>1, <1>2, ServiceAssumption DEF TxOK
<1>4. PICK k : k = cl[c]
  OBVIOUS
<1>5. k.step = "events" /\ k.lines \in Seq(Event) /\ wrote[c] = {}
  BY <1>1, <1>3, <1>4 DEF Serves, Asks, Acts
<1>6. PICK d, b, t : d = db /\ b = tx.db /\ t = k.thread
  OBVIOUS
<1>7. Consistent(d) /\ Consistent(b) /\ Extends(d, b) /\ tx.results \in Seq(Result)
  BY <1>1, <1>3, <1>6 DEF TxOK
<1>8. PICK w : w = NewRows(d, b)
  OBVIOUS
<1>9. PICK todo : todo = Triggers(b, k, Len(d.messages))
  OBVIOUS
<1>10. PICK x : x = [phase |-> IF todo = {} THEN "answered" ELSE "starting",
                     reply |-> [code |-> "OK", out |-> tx.results], pending |-> todo]
  OBVIOUS
<1>11. /\ db' = b /\ h' = [h EXCEPT ![c] = x] /\ wrote' = [wrote EXCEPT ![c] = wrote[c] \cup w]
  BY Zenon, <1>2, <1>4, <1>6, <1>8, <1>9, <1>10 DEF Committed
<1>12. h'[c] = x /\ wrote'[c] = w /\ OthersRest(c)
  BY <1>1, <1>2, <1>5, <1>11 DEF OthersRest
<1>13. PICK s : s = seen[c]
  OBVIOUS
<1>14. Mine(d, k, h[c], wrote[c], s)
  BY <1>4, <1>6, <1>13 DEF Kept
<1>15. Import(k) /\ SelfContained(k.lines) => Imported(b, w, t, k.lines)
  <2> SUFFICES ASSUME Import(k), SelfContained(k.lines)
               PROVE  Imported(b, w, t, k.lines)
    OBVIOUS
  <2>1. PICK es : es = ToEvents(k)
    OBVIOUS
  <2>2. PICK y : y = tx
    OBVIOUS
  <2>3. InBatch(d, y, t, es)
    BY Zenon, <1>2, <1>3, <1>4, <1>6, <2>1, <2>2 DEF Kept, TxKept
  <2>4. PICK j \in Nat : j = Len(y.results)
    BY <1>7, <2>2
  <2>5. es \in Seq(Event)
    BY <1>5, <2>1, ToEventsAre
  <2>6. Come(d, y.db, t, es, j)
    BY <2>3, <2>4, <2>5, InBatchIs
  <2>7. j = Len(k.lines) /\ Come(d, b, t, es, j)
    BY Zenon, <1>2, <1>4, <1>6, <2>2, <2>4, <2>6
  <2>8. Imported(b, NewRows(d, b), t, k.lines)
    BY <1>5, <1>7, <2>1, <2>7, BatchImports
  <2> QED
    BY Zenon, <1>8, <2>8
<1>16. Mine(b, k, x, w, s)
  <2>1. (k.cmd.op = "read" => k.step \in {None, "messages"}) /\ Collected(d, k) /\ Follows(d, s)
    BY Zenon, <1>14 DEF Mine
  <2>2. Fetched(b, k, x, s)
    BY <1>5 DEF Fetched
  <2>3. Collected(b, k) /\ Follows(b, s)
    BY <1>7, <2>1, CollectedStays, FollowsStays
  <2>4. Imports(b, k, x, w)
    BY Zenon, <1>6, <1>15 DEF Imports
  <2> QED
    BY Zenon, <2>1, <2>2, <2>3, <2>4 DEF Mine
<1>17. Mine(db', cl'[c], h'[c], wrote'[c], seen'[c])
  BY Zenon, <1>2, <1>4, <1>11, <1>12, <1>13, <1>16
<1>18. TxKept'
  BY <1>2, NoTxIsKept
<1>19. Extends(db, db')
  BY Zenon, <1>6, <1>7, <1>11
<1>20. DOMAIN seen' = Client
  BY <1>1, <1>2
<1> QED
  BY Zenon, <1>2, <1>12, <1>17, <1>18, <1>19, <1>20, KeptFrom

----------------------------------------------------------------------------
(* The second invariant *)

\* It holds at first: nothing has been read, written or begun.
LEMMA InitKept ==
    ASSUME Init
    PROVE  Kept
<1>1. /\ db = InitialDB /\ tx = NoTx /\ h = [c \in Client |-> NoHandler]
      /\ cl \in [Client -> {Idle(CHOOSE k \in Commands : TRUE)}]
      /\ seen = [c \in Client |-> [thread |-> 0, ids |-> <<>>]]
      /\ exported = [thread |-> 0, whole |-> TRUE, lines |-> <<>>]
  BY DEF Init
<1>2. ASSUME NEW c \in Client
      PROVE  Mine(db, cl[c], h[c], wrote[c], seen[c])
  <2>1. PICK k, x, s : k = cl[c] /\ x = h[c] /\ s = seen[c]
    OBVIOUS
  <2>2. k.step = None /\ k.code = "NONE"
    <3>1. k \in {Idle(CHOOSE z \in Commands : TRUE)}
      BY <1>1, <2>1
    <3>2. k = Idle(CHOOSE z \in Commands : TRUE)
      BY <3>1
    <3> QED
      BY Zenon, <3>2 DEF Idle
  <2>3. x.phase = "none"
    BY <1>1, <2>1 DEF NoHandler
  <2>4. s.ids = <<>>
    BY <1>1, <2>1
  <2>5. Follows(db, s)
    BY <2>4 DEF Follows, FirstOf
  <2>6. Fetched(db, k, x, s) /\ Imports(db, k, x, wrote[c])
    BY <2>2, <2>3 DEF Fetched, Imports
  <2>7. Collected(db, k)
    BY <2>2, NoneIsOther DEF Collected, Steps
  <2>8. Mine(db, k, x, wrote[c], s)
    BY Zenon, <2>2, <2>5, <2>6, <2>7 DEF Mine
  <2> QED
    BY Zenon, <2>1, <2>8
<1>3. DOMAIN seen = Client
  BY <1>1
<1>4. TxKept
  BY <1>1 DEF TxKept, NoTx
<1>5. Resolved(db, exported)
  <2>1. exported.lines \in Seq(Line) /\ exported.lines = <<>>
    BY <1>1
  <2>2. PICK ls, ms : ls = exported.lines /\ ms = MessageLines(ls)
    OBVIOUS
  <2>3. DOMAIN ms = 1 .. Len(ms) /\ \A i \in DOMAIN ms : ms[i] \in ToSet(ls)
    BY <2>1, <2>2, MessageLinesAre
  <2>4. ToSet(ls) = {}
    BY <2>1, <2>2 DEF ToSet
  <2>5. DOMAIN ms = {}
    BY <2>3, <2>4
  <2> QED
    BY Zenon, <2>2, <2>5 DEF Resolved
<1> QED
  BY Zenon, <1>2, <1>3, <1>4, <1>5 DEF Kept

\* Every step keeps it.
LEMMA NextKept ==
    ASSUME IInv, IInv', Kept, [Next]_vars
    PROVE  Kept'
<1>1. ASSUME NEW c \in Client, Free(c), NEW cmd \in Commands, Begin(c, cmd)
      PROVE  Kept'
  BY <1>1, BeginKept
<1>2. ASSUME NEW c \in Client, Call(c) \/ Lose(c) \/ Deliver(c) \/ Serve(c)
      PROVE  Kept'
  BY <1>2, CallKept, LoseKept, DeliverKept, ServeKept
<1>3. ASSUME NEW c \in Client, BeginBatch(c) \/ BatchEvent(c) \/ CommitBatch(c)
      PROVE  Kept'
  BY <1>3, BeginBatchKept, BatchEventKept, CommitBatchKept
<1>4. ASSUME NEW c \in Client, StartSession(c) \/ Abandon(c)
      PROVE  Kept'
  BY <1>4, StartSessionKept, AbandonKept
<1>5. Crash \/ Restart \/ UNCHANGED vars => Kept'
  BY CrashKept
<1> QED
  BY <1>1, <1>2, <1>3, <1>4, <1>5 DEF Next

\* The first messages of a thread are those up to the last of them.
LEMMA FirstAreUpTo ==
    ASSUME NEW d, Consistent(d), NEW t, NEW ids, FirstOf(d, t, ids), ids # <<>>
    PROVE  ids = InIdOrder({i \in MessagesOf(d, t) :
                               d.messages[i].seq <= d.messages[Last(ids)].seq})
<1>1. PICK n \in Nat : n = Len(ids)
  BY DEF FirstOf
<1>2. /\ n > 0 /\ DOMAIN ids = 1 .. n /\ ids \in [1 .. n -> DOMAIN d.messages]
      /\ \A i \in 1 .. n : ids[i] \in MessagesOf(d, t) /\ d.messages[ids[i]].seq = i
  BY <1>1 DEF FirstOf, MessagesOf
<1>3. d.messages[Last(ids)].seq = n
  <2>1. Last(ids) = ids[n]
    BY <1>1 DEF Last
  <2> QED
    BY <1>2, <2>1
<1>4. PICK S : S = {i \in MessagesOf(d, t) : d.messages[i].seq <= n}
  OBVIOUS
<1>5. PICK M, f, m : M = MessagesOf(d, t) /\ f = InIdOrder(M) /\ m = LastMessageSeq(d, t)
  OBVIOUS
<1>6. /\ M \in SUBSET Nat /\ m \in Nat /\ \A i \in M : d.messages[i].seq \in 1 .. m
  BY <1>5, ThreadLists
<1>7. \A i, j \in M : d.messages[i].seq < d.messages[j].seq <=> i < j
  BY <1>5, SeqOrderIsIdOrder
<1>8. \A i, j \in M : d.messages[i].seq = d.messages[j].seq => i = j
  BY <1>5, SeqIsAKey
<1>9. Lists(ids, S, n) /\ S \in SUBSET Nat
  <2>1. \A i \in 1 .. n : ids[i] \in S
    BY <1>2, <1>4
  <2>2. ids \in [1 .. n -> S]
    BY <1>2, <2>1
  <2>3. ASSUME NEW x \in S
        PROVE  \E i \in 1 .. n : ids[i] = x
    <3>1. PICK q : q = d.messages[x].seq
      OBVIOUS
    <3>2. x \in M /\ q \in 1 .. n
      BY <1>4, <1>5, <1>6, <3>1
    <3>3. ids[q] \in M /\ d.messages[ids[q]].seq = q
      BY <1>2, <1>5, <3>2
    <3>4. ids[q] = x
      BY Zenon, <1>8, <3>1, <3>2, <3>3
    <3> QED
      BY <3>2, <3>4
  <2>4. \A i, j \in 1 .. n : i < j => ids[i] < ids[j]
    BY <1>2, <1>5, <1>7
  <2>5. S \in SUBSET Nat
    BY <1>4, <1>5, <1>6
  <2> QED
    BY <2>2, <2>3, <2>4, <2>5 DEF Lists
<1>10. ids = InIdOrder(S)
  BY <1>9, InIdOrderIs
<1> QED
  BY Zenon, <1>3, <1>4, <1>10

\* So it holds throughout.
THEOREM KeptInvariance == Spec => [](IInv /\ Kept)
<1>1. Init => Kept
  BY InitKept
<1>2. IInv /\ IInv' /\ Kept /\ [Next]_vars => Kept'
  BY NextKept
<1> QED
  BY <1>1, <1>2, Invariance, PTL DEF Spec

\* A thread is followed without a gap or a repetition (listThreadMessages,
\* --after-seq).
THEOREM CursorsReadAll == Spec => []CursorReadsAll
<1>1. ASSUME IInv, Kept
      PROVE  CursorReadsAll
  <2>1. ASSUME NEW c \in Client, NEW s, s = seen[c], s.ids # <<>>
        PROVE  s.ids = InIdOrder({i \in MessagesOf(db, s.thread) :
                                      db.messages[i].seq <= db.messages[Last(s.ids)].seq})
    <3>1. PICK d, t, ids : d = db /\ t = s.thread /\ ids = s.ids
      OBVIOUS
    <3>2. Consistent(d) /\ FirstOf(d, t, ids)
      <4>1. Follows(db, s)
        BY <1>1, <2>1 DEF Kept, Mine
      <4>2. Consistent(db)
        BY <1>1 DEF IInv, Global
      <4> QED
        BY Zenon, <3>1, <4>1, <4>2 DEF Follows
    <3>3. ids # <<>>
      BY <2>1, <3>1
    <3>4. ids = InIdOrder({i \in MessagesOf(d, t) : d.messages[i].seq <= d.messages[Last(ids)].seq})
      BY <3>2, <3>3, FirstAreUpTo
    <3> QED
      BY Zenon, <3>1, <3>4
  <2> QED
    BY <2>1 DEF CursorReadsAll
<1> QED
  BY <1>1, KeptInvariance, PTL

\* A dump's messages are consecutive, and it names the parent of each
\* (dumpThreadMessages).
THEOREM DumpsResolveParents == Spec => []DumpResolvesParents
<1>1. ASSUME IInv, Kept
      PROVE  DumpResolvesParents
  <2>1. PICK d, x : d = db /\ x = exported
    OBVIOUS
  <2>2. Consistent(d) /\ Resolved(d, x)
    BY <1>1, <2>1 DEF IInv, Global, Kept
  <2>3. PICK ms : ms = MessageLines(x.lines)
    OBVIOUS
  <2>4. ASSUME NEW i \in DOMAIN ms
        PROVE  /\ ms[i].seq = ms[1].seq + i - 1
               /\ x.whole => ms[1].seq = 1
               /\ ms[i].ref = ParentSeq(d, d.messages[MessageIDBySeq(d, x.thread, ms[i].seq)])
    <3>1. /\ ms[i].seq = ms[1].seq + i - 1
          /\ x.whole => ms[1].seq = 1
      BY <2>2, <2>3, <2>4 DEF Resolved
    <3>2. PICK j \in MessagesOf(d, x.thread) :
            d.messages[j].seq = ms[i].seq /\ ms[i].ref = ParentSeq(d, d.messages[j])
      BY Zenon, <2>2, <2>3, <2>4 DEF Resolved
    <3>3. PICK t, q : t = x.thread /\ q = ms[i].seq
      OBVIOUS
    <3>4. PICK y : y = MessageIDBySeq(d, t, q)
      OBVIOUS
    <3>5. j \in MessagesOf(d, t) /\ d.messages[j].seq = q
      BY Zenon, <3>2, <3>3
    <3>6. y \in MessagesOf(d, t) /\ d.messages[y].seq = q
      BY <3>4, <3>5 DEF MessageIDBySeq, MessagesOf
    <3>7. y = j
      BY <2>2, <3>5, <3>6, SeqIsAKey
    <3> QED
      BY Zenon, <3>1, <3>2, <3>3, <3>4, <3>7
  <2> QED
    BY Zenon, <2>1, <2>3, <2>4 DEF DumpResolvesParents, ParentSeq
<1> QED
  BY <1>1, KeptInvariance, PTL

\* An import of a self-contained file keeps its references (AppendBatch,
\* buildSourceSequenceMap).
THEOREM ImportsKeepReferences == Spec => []ImportKeepsReferences
<1>1. ASSUME IInv, Kept
      PROVE  ImportKeepsReferences
  <2>1. ASSUME NEW c \in Client, Import(cl[c]), cl[c].step = "events", cl[c].code = "OK",
               SelfContained(cl[c].lines)
        PROVE  Imported(db, wrote[c], cl[c].thread, cl[c].lines)
    <3>1. Imports(db, cl[c], h[c], wrote[c])
      BY Zenon, <1>1 DEF Kept, Mine
    <3> QED
      BY Zenon, <2>1, <3>1 DEF Imports
  <2>2. ASSUME NEW c \in Client, Import(cl[c]), cl[c].step = "events", cl[c].code = "OK",
               SelfContained(cl[c].lines)
        PROVE  LET k == cl[c]  ids == MessageIds(c)  ms == MessageLines(k.lines)
               IN  /\ Len(ids) = Len(ms)
                   /\ \A i \in DOMAIN ms :
                         MessageIs(db.messages[ids[i]], k.thread, ms[i], CopyOf(k.lines, ids, ms[i].ref))
                   /\ \A l \in {x \in ToSet(k.lines) : x.type = "reaction"} :
                         \E i \in DOMAIN db.reactions :
                            /\ <<"reactions", i>> \in wrote[c]
                            /\ ReactionIs(db.reactions[i], l, CopyOf(k.lines, ids, l.ref))
    BY Zenon, <2>1, <2>2 DEF Imported, MessageIds, MessagesIn
  <2> QED
    BY Zenon, <2>2 DEF ImportKeepsReferences, MessageIs, ReactionIs, CopyOf
<1> QED
  BY <1>1, KeptInvariance, PTL
=============================================================================

--------------------------- MODULE TuiModel_proofs ---------------------------
(* The inductive invariant of the terminal interface, and the safety          *)
(* properties of TuiModel from it.                                            *)
(*                                                                            *)
(* The window, the clock and the pane each need a fact of the messages that   *)
(* are on their way: rows come with every id once, the messages of a thread   *)
(* are its own, and the tick is a message like others.  The pane needs two    *)
(* more, of the thread that is loaded: its messages are in the pane or asked  *)
(* for, and while none is loaded the pane is empty or no row is selected.     *)
EXTENDS TuiModel, ThreadStore_proofs

Item == [id : Nat, thread : Nat]

Model == [gran : Granularity, reversed : BOOLEAN, rows : Seq(Item), cursor : Nat, scroll : Nat,
          threadID : Nat, thread : Seq(Item), height : Nat]

Request == [kind : {"rows", "thread", "send", "compose", "tick"}, gran : Granularity \cup {None},
            thread : Nat, at : {"asked", "answered", "failed"}, out : Seq(Item), nth : Nat]

\* Each id once
Distinct1(rows) == \A i, j \in DOMAIN rows : rows[i].id = rows[j].id => i = j

\* The cursor is on a row and in the window, which is as full as can be.
Window(k) ==
    /\ k.cursor \in 0 .. Greater(0, Len(k.rows) - 1)
    /\ k.scroll \in 0 .. Greater(0, Len(k.rows) - Visible(k))
    /\ k.scroll <= k.cursor /\ k.cursor < k.scroll + Visible(k)

\* The messages are of thread t, as far as can be seen.
Own(msgs, t) == msgs # <<>> => msgs[1].thread = t

\* What a message brings
Sound(e) ==
    /\ e.kind = "rows" => e.gran \in Granularity /\ Distinct1(e.out)
    /\ e.kind = "thread" => e.thread # 0 /\ Own(e.out, e.thread)
    /\ e.kind = "tick" => e.at # "asked"

Ticks(S) == {e \in S : e.kind = "tick"}

Asking(S, t) == \E e \in S : e.kind = "thread" /\ e.thread = t

\* The pane of a model, with these messages on their way
Pane(k, S) ==
    /\ k.threadID \in {0, SelectedThread(k)}
    /\ k.threadID # 0 => Own(k.thread, k.threadID) \/ Asking(S, k.threadID)
    /\ k.threadID = 0 => k.thread = <<>> \/ SelectedThread(k) = 0

Screen(k, S) == k \in Model /\ Window(k) /\ Distinct1(k.rows) /\ Pane(k, S)

Net(S) ==
    /\ S \in SUBSET Request /\ IsFiniteSet(S)
    /\ \A e \in S : Sound(e)
    /\ \E e : Ticks(S) = {e}

IInv ==
    /\ Screen(m, net)
    /\ Net(net)
    /\ Consistent(d)
    /\ box \in [active : BOOLEAN, blank : BOOLEAN] /\ quitting \in BOOLEAN

----------------------------------------------------------------------------
(* What the daemon answers *)

\* A call that fails leaves the database as it was.
LEMMA FailedAppendLeaves ==
    ASSUME NEW db, NEW t, NEW name, NEW author, NEW body, NEW at, NEW parent,
           NEW r, r = AppendMessage(db, t, name, author, body, at, parent), r.code # "OK"
    PROVE  r.db = db
<1>1. ASSUME NEW code
      PROVE  Fail(db, code).db = db
  BY DEF Fail
<1>2. ASSUME NEW row
      PROVE  InsertMessage(db, row).code = "OK" \/ InsertMessage(db, row).db = db
  <2>1. Insert(db, "messages", row).code = "OK"
    BY DEF Insert, Done
  <2> QED
    BY <1>1, <2>1 DEF InsertMessage
<1>3. ASSUME NEW row
      PROVE  \/ InsertMessageDefaultCreatedAt(db, row).code = "OK"
             \/ InsertMessageDefaultCreatedAt(db, row).db = db
  BY <1>2, Zenon DEF InsertMessageDefaultCreatedAt
<1> QED
  BY <1>1, <1>2, <1>3 DEF AppendMessage

\* So a message of the box, or of others, leaves a consistent database.
LEMMA AppendStaysConsistent ==
    ASSUME NEW db, Consistent(db), NEW t \in Nat, NEW name
    PROVE  Consistent(AppendMessage(db, t, name, "human", Text, 0, 0).db)
<1>0. PICK r : r = AppendMessage(db, t, name, "human", Text, 0, 0)
  OBVIOUS
<1>1. Text \in Content /\ "human" \in AuthorType /\ 0 \in Nat
  BY TextAssumption DEF AuthorType
<1>2. NewMessage(db, r, t, 0, name, "human", Text, 0)
  BY <1>0, <1>1, AppendMessageAdds, Zenon
<1>3. r.code = "OK" => Consistent(r.db)
  BY <1>2 DEF NewMessage
<1>4. r.code # "OK" => r.db = db
  BY <1>0, FailedAppendLeaves
<1> QED
  BY <1>0, <1>3, <1>4

\* The first rows, newest first, have every id once.
LEMMA NewestAreDistinct ==
    ASSUME NEW T, NEW rows \in Seq(T), NEW n \in Nat,
           \A i \in DOMAIN rows : rows[i].at \in Nat /\ rows[i].id = i,
           NEW s, s = FirstN(NewestFirst(rows), n)
    PROVE  /\ s \in Seq(ToSet(rows))
           /\ \A i \in DOMAIN s : s[i].id \in DOMAIN rows /\ s[i] = rows[s[i].id]
           /\ Distinct1(s)
<1> DEFINE all == NewestFirst(rows)
<1>1. /\ all \in Seq(ToSet(rows))
      /\ \A i, j \in DOMAIN all : i < j => Newer(all[i], all[j])
  BY NewestFirstLists
<1>2. /\ s \in Seq(ToSet(rows))
      /\ \A i \in DOMAIN s : i \in DOMAIN all /\ s[i] = all[i]
  BY <1>1, FirstNIsOfRows
<1>3. \A x \in ToSet(rows) : x.id \in DOMAIN rows /\ x = rows[x.id] /\ x.at \in Nat /\ x.id \in Nat
  BY DEF ToSet
<1>4. \A i \in DOMAIN s : s[i] \in ToSet(rows) /\ i \in Nat
  BY <1>2
<1>5. \A i, j \in DOMAIN s : i < j => Newer(s[i], s[j])
  BY <1>1, <1>2
<1>6. ASSUME NEW i \in DOMAIN s, NEW j \in DOMAIN s, s[i].id = s[j].id
      PROVE  i = j
  <2>1. s[i] = s[j] /\ s[i].id \in Nat /\ s[i].at \in Nat
    BY <1>3, <1>4, <1>6
  <2>2. ~Newer(s[i], s[j]) /\ ~Newer(s[j], s[i])
    BY <2>1 DEF Newer
  <2> QED
    BY <1>4, <1>5, <2>2
<1> QED
  BY <1>2, <1>3, <1>4, <1>6 DEF Distinct1

\* Of some messages there is one that is newer than the others.
LEMMA NewestIsThere ==
    ASSUME NEW db, Consistent(db), NEW S \in SUBSET DOMAIN db.messages, S # {},
           NEW newest,
           newest = CHOOSE i \in S : \A j \in S : i = j \/ Newer(db.messages[i], db.messages[j])
    PROVE  newest \in S
<1> DEFINE order == {p \in S \X S : Newer(db.messages[p[1]], db.messages[p[2]])}
<1>1. db \in Database /\ Keyed(db)
  BY DEF Consistent
<1>2. db.messages \in Seq(MessageRow)
  BY <1>1, TablesAre
<1>3. \A i \in S : i \in Nat /\ db.messages[i].id = i /\ db.messages[i].at \in Nat
  <2>1. \A i \in S : i \in Nat /\ db.messages[i] \in MessageRow
    BY <1>2
  <2>2. \A i \in S : db.messages[i].id = i
    BY <1>1, KeyedIs
  <2> QED
    BY <2>1, <2>2 DEF MessageRow
<1>4. \A x, y \in S : <<x, y>> \in order <=> Newer(db.messages[x], db.messages[y])
  OBVIOUS
<1>5. \A x, y \in S : Newer(db.messages[x], db.messages[y]) <=>
         db.messages[x].at > db.messages[y].at \/ (db.messages[x].at = db.messages[y].at /\ x > y)
  BY <1>3 DEF Newer
<1> HIDE DEF order
<1>6. Orders(order, S)
  <2>1. \A x \in S : <<x, x>> \notin order
    BY <1>3, <1>4, <1>5
  <2>2. \A x, y \in S : x # y => <<x, y>> \in order \/ <<y, x>> \in order
    BY <1>3, <1>4, <1>5
  <2>3. ASSUME NEW x \in S, NEW y \in S, NEW z \in S,
               <<x, y>> \in order, <<y, z>> \in order
        PROVE  <<x, z>> \in order
    <3> DEFINE a == db.messages[x].at  b == db.messages[y].at  c == db.messages[z].at
    <3>1. (a > b \/ (a = b /\ x > y)) /\ (b > c \/ (b = c /\ y > z))
      BY <1>4, <1>5, <2>3
    <3>2. a \in Nat /\ b \in Nat /\ c \in Nat /\ x \in Nat /\ y \in Nat /\ z \in Nat
      BY <1>3
    <3>3. a > c \/ (a = c /\ x > z)
      BY <3>1, <3>2
    <3> QED
      BY <1>4, <1>5, <3>3
  <2> QED
    BY <2>1, <2>2, <2>3 DEF Orders
<1>7. IsFiniteSet(S)
  BY <1>2, FS_Interval, FS_Subset
<1> DEFINE ids == Ordered(S, order)
<1>8. /\ Cardinality(S) \in Nat /\ ids \in [1 .. Cardinality(S) -> S]
      /\ \A x \in S : \E k \in 1 .. Cardinality(S) : ids[k] = x
      /\ \A i, j \in 1 .. Cardinality(S) : i < j => <<ids[i], ids[j]>> \in order
  BY <1>6, <1>7, OrderedLists
<1> HIDE DEF ids
<1>9. 1 \in 1 .. Cardinality(S)
  BY <1>8
<1>10. ids[1] \in S /\ \A j \in S : ids[1] = j \/ Newer(db.messages[ids[1]], db.messages[j])
  <2>1. ids[1] \in S
    BY <1>8, <1>9
  <2>2. ASSUME NEW j \in S
        PROVE  ids[1] = j \/ <<ids[1], j>> \in order
    <3>1. PICK k \in 1 .. Cardinality(S) : ids[k] = j
      BY <1>8
    <3>2. k = 1 \/ 1 < k
      OBVIOUS
    <3> QED
      BY <1>8, <1>9, <3>1, <3>2
  <2> QED
    BY <1>4, <2>1, <2>2
<1> QED
  BY <1>10, Zenon

\* A group's row is dated and has the group's id.
LEMMA GroupRowIsDated ==
    ASSUME NEW db, Consistent(db), NEW group, group.at \in Nat, NEW t,
           NEW S \in SUBSET DOMAIN db.messages,
           NEW row, row = GroupRow(db, group, t, S)
    PROVE  row.id = group.id /\ row.thread = t /\ row.at \in Nat
<1> DEFINE newest == CHOOSE i \in S : \A j \in S : i = j \/ Newer(db.messages[i], db.messages[j])
           first == CHOOSE i \in S : \A j \in S : db.messages[i].seq <= db.messages[j].seq
           name == IF S = {} THEN None ELSE db.messages[newest].name
           body == IF S = {} THEN None
                   ELSE db.messages[IF t = 0 THEN newest ELSE first].body
<1>1. row = [id |-> group.id, thread |-> t, count |-> Cardinality(S),
             at |-> IF S = {} THEN group.at ELSE db.messages[newest].at,
             name |-> name, body |-> body]
  BY Zenon DEF GroupRow
<1>2. S # {} => newest \in S
  BY NewestIsThere, Zenon
<1> HIDE DEF newest, name, body
<1>4. \A i \in DOMAIN db.messages : db.messages[i].at \in Nat
  <2>1. db.messages \in Seq(MessageRow)
    BY TablesAre DEF Consistent
  <2>2. \A i \in DOMAIN db.messages : db.messages[i] \in MessageRow
    BY <2>1
  <2> QED
    BY <2>2 DEF MessageRow
<1> QED
  BY <1>1, <1>2, <1>4

\* A list of rows, as the interface has it
IsList(s) ==
    /\ DOMAIN s = 1 .. Len(s) /\ Len(s) \in Nat
    /\ \A i \in DOMAIN s : s[i].id \in Nat /\ s[i].thread \in Nat
    /\ Distinct1(s)

\* The rows are those of the groups, N of them.
OfGroups(db, groups, rows, N) ==
    /\ DOMAIN groups = 1 .. N
    /\ rows = [i \in 1 .. N |-> rows[i]]
    /\ \A i \in 1 .. N : groups[i].id = i /\ groups[i].at \in Nat
    /\ \A i \in 1 .. N : \E t \in Nat : \E S \in SUBSET DOMAIN db.messages :
           rows[i] = GroupRow(db, groups[i], t, S)

\* The feed by groups lists groups, each once.
LEMMA GroupsAreDistinct ==
    ASSUME NEW db, Consistent(db), NEW n \in Nat, NEW groups, NEW N \in Nat,
           NEW rows, OfGroups(db, groups, rows, N)
    PROVE  IsList(FirstN(NewestFirst(rows), n))
<1>0. DOMAIN rows = 1 .. N
  BY DEF OfGroups
<1>1. \A i \in 1 .. N : rows[i].id = i /\ rows[i].thread \in Nat /\ rows[i].at \in Nat
  <2>1. SUFFICES ASSUME NEW i \in 1 .. N
                 PROVE  rows[i].id = i /\ rows[i].thread \in Nat /\ rows[i].at \in Nat
    OBVIOUS
  <2>2. PICK t \in Nat, S \in SUBSET DOMAIN db.messages : rows[i] = GroupRow(db, groups[i], t, S)
    BY DEF OfGroups
  <2>3. groups[i].at \in Nat /\ groups[i].id = i
    BY DEF OfGroups
  <2>4. rows[i].id = groups[i].id /\ rows[i].thread = t /\ rows[i].at \in Nat
    BY <2>2, <2>3, GroupRowIsDated
  <2> QED
    BY <2>3, <2>4
<1> DEFINE T == {rows[i] : i \in 1 .. N}
<1>2. rows \in Seq(T)
  BY DEF OfGroups
<1> DEFINE s == FirstN(NewestFirst(rows), n)
<1> HIDE DEF T
<1>3. /\ s \in Seq(ToSet(rows))
      /\ \A i \in DOMAIN s : s[i].id \in DOMAIN rows /\ s[i] = rows[s[i].id]
      /\ Distinct1(s)
  BY <1>0, <1>1, <1>2, NewestAreDistinct
<1> HIDE DEF s
<1>4. DOMAIN s = 1 .. Len(s) /\ Len(s) \in Nat
  BY <1>3
<1>5. \A i \in DOMAIN s : s[i].id \in 1 .. N /\ s[i].thread \in Nat
  BY <1>0, <1>1, <1>3
<1> QED
  BY <1>3, <1>4, <1>5 DEF IsList, s

\* ListRows lists every row once, in each of its groupings.
LEMMA ListRowsLists ==
    ASSUME NEW db, Consistent(db), NEW g \in Granularity, NEW limit \in Nat
    PROVE  IsList(ListRows(db, g, limit))
<1>1. PICK n \in Nat : n = ClampLimit(limit)
  BY DEF ClampLimit, DefaultRowLimit, MaxRowLimit
<1>2. db \in Database /\ Keyed(db)
  BY DEF Consistent
<1>3. /\ db.messages \in Seq(MessageRow) /\ db.threads \in Seq(ThreadRow)
      /\ db.channels \in Seq(ChannelRow)
  BY <1>2, TablesAre
<1>4. CASE g = "message"
  <2> DEFINE s == FirstN(NewestFirst(db.messages), n)
  <2>1. \A i \in DOMAIN db.messages :
          /\ db.messages[i].at \in Nat /\ db.messages[i].thread \in Nat
          /\ db.messages[i].id = i /\ i \in Nat
    <3>1. \A i \in DOMAIN db.messages : db.messages[i].id = i /\ i \in Nat
      BY <1>2, <1>3, KeyedIs
    <3>2. \A i \in DOMAIN db.messages : db.messages[i] \in MessageRow
      BY <1>3
    <3> QED
      BY <3>1, <3>2 DEF MessageRow
  <2>2. /\ s \in Seq(ToSet(db.messages))
        /\ \A i \in DOMAIN s : s[i].id \in DOMAIN db.messages /\ s[i] = db.messages[s[i].id]
        /\ Distinct1(s)
    BY <1>3, <2>1, NewestAreDistinct
  <2>3. ListRows(db, g, limit) =
          [i \in DOMAIN s |-> [id |-> s[i].id, thread |-> s[i].thread, count |-> 1,
                               at |-> s[i].at, name |-> s[i].name, body |-> s[i].body]]
    BY <1>1, <1>4, Zenon DEF ListRows, ListMessageRows
  <2> HIDE DEF s
  <2>4. DOMAIN s = 1 .. Len(s) /\ Len(s) \in Nat
    BY <2>2
  <2> QED
    BY <2>1, <2>2, <2>3, <2>4 DEF IsList, Distinct1
<1>5. CASE g = "thread"
  <2> DEFINE rows == [t \in DOMAIN db.threads |-> GroupRow(db, db.threads[t], t, MessagesOf(db, t))]
  <2>1. PICK N \in Nat : DOMAIN db.threads = 1 .. N
    BY <1>3
  <2>2. \A i \in 1 .. N : db.threads[i].id = i /\ db.threads[i].at \in Nat
    <3>1. \A i \in 1 .. N : db.threads[i].id = i
      BY <1>2, <2>1, KeyedIs
    <3>2. \A i \in 1 .. N : db.threads[i] \in ThreadRow
      BY <1>3, <2>1
    <3> QED
      BY <3>1, <3>2 DEF ThreadRow
  <2>3. ListRows(db, g, limit) = FirstN(NewestFirst(rows), n)
    BY <1>1, <1>5 DEF ListRows, ListThreadRows
  <2>4. \A i \in 1 .. N : \E t \in Nat : \E S \in SUBSET DOMAIN db.messages :
          rows[i] = GroupRow(db, db.threads[i], t, S)
    <3>1. \A i \in 1 .. N : rows[i] = GroupRow(db, db.threads[i], i, MessagesOf(db, i))
      BY <2>1
    <3>2. \A i \in 1 .. N : i \in Nat /\ MessagesOf(db, i) \in SUBSET DOMAIN db.messages
      BY DEF MessagesOf
    <3> QED
      BY <3>1, <3>2
  <2>5. DOMAIN rows = 1 .. N /\ rows = [i \in 1 .. N |-> rows[i]]
    BY <2>1
  <2> HIDE DEF rows
  <2>6. OfGroups(db, db.threads, rows, N)
    BY <2>1, <2>2, <2>4, <2>5, Zenon DEF OfGroups
  <2>7. IsList(FirstN(NewestFirst(rows), n))
    BY <2>6, GroupsAreDistinct
  <2> QED
    BY <2>3, <2>7
<1>6. CASE g = "channel"
  <2> DEFINE In(c) == {i \in DOMAIN db.messages : db.threads[db.messages[i].thread].channel = c}
             rows == [c \in DOMAIN db.channels |-> GroupRow(db, db.channels[c], 0, In(c))]
  <2>1. PICK N \in Nat : DOMAIN db.channels = 1 .. N
    BY <1>3
  <2>2. \A i \in 1 .. N : db.channels[i].id = i /\ db.channels[i].at \in Nat
    <3>1. \A i \in 1 .. N : db.channels[i].id = i
      BY <1>2, <2>1, KeyedIs
    <3>2. \A i \in 1 .. N : db.channels[i] \in ChannelRow
      BY <1>3, <2>1
    <3> QED
      BY <3>1, <3>2 DEF ChannelRow
  <2>3. ListRows(db, g, limit) = FirstN(NewestFirst(rows), n)
    BY <1>1, <1>6 DEF ListRows, ListChannelRows
  <2>4. \A i \in 1 .. N : \E t \in Nat : \E S \in SUBSET DOMAIN db.messages :
          rows[i] = GroupRow(db, db.channels[i], t, S)
    <3>1. \A i \in 1 .. N : rows[i] = GroupRow(db, db.channels[i], 0, In(i))
      BY <2>1
    <3>2. \A i \in 1 .. N : In(i) \in SUBSET DOMAIN db.messages
      OBVIOUS
    <3> HIDE DEF In, rows
    <3> QED
      BY <3>1, <3>2
  <2>5. DOMAIN rows = 1 .. N /\ rows = [i \in 1 .. N |-> rows[i]]
    BY <2>1
  <2> HIDE DEF rows
  <2>6. OfGroups(db, db.channels, rows, N)
    BY <2>1, <2>2, <2>4, <2>5, Zenon DEF OfGroups
  <2>7. IsList(FirstN(NewestFirst(rows), n))
    BY <2>6, GroupsAreDistinct
  <2> QED
    BY <2>3, <2>7
<1> QED
  BY <1>4, <1>5, <1>6 DEF Granularity

\* The rows that the interface gets, and the messages of a thread.
LEMMA AnswersAreSound ==
    ASSUME Consistent(d), NEW g, NEW t
    PROVE  /\ g \in Granularity => Rows(g) \in Seq(Item) /\ Distinct1(Rows(g))
           /\ Messages(t) \in Seq(Item) /\ Own(Messages(t), t)
<1>1. ASSUME g \in Granularity
      PROVE  Rows(g) \in Seq(Item) /\ Distinct1(Rows(g))
  <2> DEFINE s == ListRows(d, g, RowLimit)
  <2>1. IsList(s)
    BY <1>1, ListRowsLists, TuiAssumption
  <2>2. Rows(g) = [i \in DOMAIN s |-> [id |-> s[i].id, thread |-> s[i].thread]]
    BY Zenon DEF Rows, Ref
  <2> HIDE DEF s
  <2>3. Rows(g) = [i \in 1 .. Len(s) |-> [id |-> s[i].id, thread |-> s[i].thread]]
    BY <2>1, <2>2 DEF IsList
  <2>4. \A i \in 1 .. Len(s) : [id |-> s[i].id, thread |-> s[i].thread] \in Item
    BY <2>1 DEF IsList, Item
  <2>5. Rows(g) \in Seq(Item)
    BY <2>1, <2>3, <2>4 DEF IsList
  <2> QED
    BY <2>1, <2>3, <2>5 DEF IsList, Distinct1
<1>2. Messages(t) \in Seq(Item) /\ Own(Messages(t), t)
  <2> DEFINE S == MessagesOf(d, t)  s == Select(d.messages, S)
  <2>1. d.messages \in Seq(MessageRow) /\ S \in SUBSET DOMAIN d.messages
    BY TablesAre DEF Consistent, MessagesOf
  <2>2. ListMessages(d, t) = s
    BY BySeqIsSelect DEF ListMessages
  <2>3. /\ s \in Seq(MessageRow) /\ Len(s) = Cardinality(S)
        /\ \A k \in 1 .. Cardinality(S) : \E i \in S : s[k] = d.messages[i]
    BY <2>1, SelectLists
  <2>4. Messages(t) = [i \in DOMAIN s |-> [id |-> s[i].id, thread |-> s[i].thread]]
    BY <2>2 DEF Messages, Ref
  <2> HIDE DEF s
  <2>5. DOMAIN s = 1 .. Len(s) /\ Len(s) \in Nat /\ \A i \in 1 .. Len(s) : s[i] \in MessageRow
    BY <2>3
  <2>6. \A i \in 1 .. Len(s) : s[i].thread = t
    BY <2>3 DEF MessagesOf
  <2>7. \A i \in 1 .. Len(s) : [id |-> s[i].id, thread |-> s[i].thread] \in Item
    BY <2>5 DEF MessageRow, Item
  <2>8. Messages(t) = [i \in 1 .. Len(s) |-> [id |-> s[i].id, thread |-> s[i].thread]]
    BY <2>4, <2>5
  <2>9. Messages(t) \in Seq(Item)
    BY <2>5, <2>7, <2>8
  <2>10. Messages(t) # <<>> => Len(s) > 0
    BY <2>5, <2>8
  <2> QED
    BY <2>5, <2>6, <2>8, <2>9, <2>10 DEF Own
<1> QED
  BY <1>1, <1>2

----------------------------------------------------------------------------
(* The list and the pane *)

\* The height of the list, at least a row.
LEMMA VisibleIsPositive ==
    ASSUME NEW k \in Model
    PROVE  Visible(k) \in Nat /\ Visible(k) > 0 /\ Len(k.rows) \in Nat
<1>1. k.height \in Nat /\ k.rows \in Seq(Item)
  BY DEF Model
<1>2. Chrome \in Nat
  BY TuiAssumption
<1> QED
  BY <1>1, <1>2 DEF Visible, Greater

\* The fields that a move of the window leaves alone.
SameBut(c, k) ==
    /\ c.gran = k.gran /\ c.reversed = k.reversed /\ c.rows = k.rows
    /\ c.threadID = k.threadID /\ c.thread = k.thread /\ c.height = k.height

OnARow(k) == k.cursor \in 0 .. Greater(0, Len(k.rows) - 1)

\* clamp brings the cursor onto a row and the row into the window, and leaves a
\* cursor alone that is on a row.
LEMMA ClampFits ==
    ASSUME NEW k \in Model, NEW c, c = Clamp(k)
    PROVE  /\ c \in Model /\ Window(c) /\ SameBut(c, k)
           /\ OnARow(k) => c.cursor = k.cursor
<1> DEFINE n == Len(k.rows)  v == Visible(k)
           cursor == Lesser(Greater(k.cursor, 0), n - 1)
           top == cursor - v + 1
           inList == Lesser(Greater(k.scroll, 0), Greater(0, n - v))
           scroll == Greater(0, Lesser(inList, top))
           final == IF cursor >= scroll + v THEN top ELSE scroll
<1>1. v \in Nat /\ v > 0 /\ n \in Nat /\ k.cursor \in Nat /\ k.scroll \in Nat
  BY VisibleIsPositive DEF Model
<1>2. c = IF n = 0 THEN [k EXCEPT !.cursor = 0, !.scroll = 0]
          ELSE [k EXCEPT !.cursor = cursor, !.scroll = final]
  BY Zenon DEF Clamp
<1>3. ASSUME NEW a \in Nat, NEW b \in Nat, c = [k EXCEPT !.cursor = a, !.scroll = b]
      PROVE  c \in Model /\ SameBut(c, k) /\ c.cursor = a /\ c.scroll = b
  BY <1>3 DEF Model, SameBut
<1>4. \A e : SameBut(e, k) => Len(e.rows) = n /\ Visible(e) = v
  BY DEF SameBut, Visible
<1> HIDE DEF n, v
<1>5. CASE n = 0
  <2>1. c \in Model /\ SameBut(c, k) /\ c.cursor = 0 /\ c.scroll = 0
    BY <1>2, <1>3, <1>5
  <2>2. Len(c.rows) = 0 /\ Visible(c) = v
    BY <1>4, <1>5, <2>1
  <2>3. Window(c)
    BY <1>1, <2>1, <2>2 DEF Window, Greater
  <2>4. OnARow(k) => k.cursor = 0
    BY <1>5 DEF OnARow, Greater, n
  <2> QED
    BY <2>1, <2>3, <2>4
<1>6. CASE n > 0
  <2>1. cursor \in 0 .. n - 1 /\ (k.cursor \in 0 .. n - 1 => cursor = k.cursor)
    BY <1>1, <1>6 DEF Lesser, Greater
  <2>2. inList \in 0 .. Greater(0, n - v)
    BY <1>1 DEF Lesser, Greater
  <2> HIDE DEF cursor, inList
  <2>3. final \in 0 .. Greater(0, n - v) /\ final <= cursor /\ cursor < final + v
    BY <1>1, <1>6, <2>1, <2>2 DEF Lesser, Greater
  <2> HIDE DEF final
  <2>4. cursor \in Nat /\ final \in Nat
    BY <2>1, <2>3
  <2>5. c \in Model /\ SameBut(c, k) /\ c.cursor = cursor /\ c.scroll = final
    <3>1. n # 0
      BY <1>1, <1>6
    <3>2. c = [k EXCEPT !.cursor = cursor, !.scroll = final]
      BY <1>2, <3>1, Zenon
    <3> QED
      BY <1>3, <2>4, <3>2
  <2>6. Len(c.rows) = n /\ Visible(c) = v
    BY <1>4, <2>5
  <2>7. Greater(0, n - 1) = n - 1
    BY <1>1, <1>6 DEF Greater
  <2>8. Window(c)
    BY <2>1, <2>3, <2>5, <2>6, <2>7 DEF Window
  <2>9. OnARow(k) => cursor = k.cursor
    BY <2>1, <2>7 DEF OnARow, n
  <2> QED
    BY <2>5, <2>8, <2>9
<1> QED
  BY <1>1, <1>5, <1>6

\* Of a list without doubles, the reverse is one of the same rows.
LEMMA ReverseShows ==
    ASSUME NEW rows \in Seq(Item), Distinct1(rows), NEW r, r = Reverse(rows)
    PROVE  /\ r \in Seq(Item) /\ Distinct1(r) /\ Len(r) = Len(rows)
           /\ \A i \in DOMAIN rows : \E j \in DOMAIN r : r[j] = rows[i]
<1> DEFINE n == Len(rows)
<1>1. n \in Nat /\ DOMAIN rows = 1 .. n /\ r = [i \in 1 .. n |-> rows[(n - i) + 1]]
  BY DEF Reverse
<1>2. \A i \in 1 .. n : (n - i) + 1 \in 1 .. n /\ n - ((n - i) + 1) + 1 = i
  BY <1>1
<1> HIDE DEF n
<1>3. DOMAIN r = 1 .. n /\ \A i \in 1 .. n : r[i] = rows[(n - i) + 1]
  BY <1>1
<1>4. \A i \in 1 .. n : rows[i] \in Item
  BY <1>1
<1>5. r \in Seq(Item) /\ Len(r) = n
  BY <1>1, <1>2, <1>4
<1>6. ASSUME NEW i \in 1 .. n, NEW j \in 1 .. n, r[i].id = r[j].id
      PROVE  i = j
  <2>1. (n - i) + 1 = (n - j) + 1
    BY <1>1, <1>2, <1>3, <1>6 DEF Distinct1
  <2> QED
    BY <1>1, <2>1
<1>7. \A i \in 1 .. n : r[(n - i) + 1] = rows[i]
  BY <1>2, <1>3
<1> QED
  BY <1>1, <1>2, <1>3, <1>5, <1>6, <1>7 DEF Distinct1, n

\* The row under the cursor, if there is one
HasRow(k) == k.cursor < Len(k.rows)
RowOf(k) == k.rows[k.cursor + 1]

\* The rows that an answer gives, in the order shown
Shown(k, rows) == IF k.reversed THEN Reverse(rows) ELSE rows

\* applyRows shows the rows, with the cursor in the window.
LEMMA ApplyRowsShows ==
    ASSUME NEW k \in Model, NEW rows \in Seq(Item), Distinct1(rows), NEW c, c = ApplyRows(k, rows)
    PROVE  /\ c \in Model /\ Window(c) /\ Distinct1(c.rows)
           /\ c.gran = k.gran /\ c.threadID = k.threadID /\ c.thread = k.thread
           /\ HasRow(k) /\ (\E i \in DOMAIN rows : rows[i] = RowOf(k)) =>
                HasRow(c) /\ RowOf(c) = RowOf(k)
           /\ rows = <<>> => ~HasRow(c)
<1> DEFINE previous == IF k.cursor < Len(k.rows) THEN k.rows[k.cursor + 1].id ELSE 0
           shown == Shown(k, rows)
           at == {i \in DOMAIN shown : shown[i].id = previous}
           first == CHOOSE i \in at : \A j \in at : i <= j
           to == IF at = {} THEN 0 ELSE first - 1
           e == [k EXCEPT !.rows = shown, !.cursor = to]
<1>1. c = Clamp(e)
  BY Zenon DEF ApplyRows, Shown
<1>2. /\ shown \in Seq(Item) /\ Distinct1(shown) /\ Len(shown) = Len(rows)
      /\ \A i \in DOMAIN rows : \E j \in DOMAIN shown : shown[j] = rows[i]
  BY ReverseShows DEF Shown
<1> DEFINE n == Len(shown)
<1> HIDE DEF shown
<1>3. DOMAIN shown = 1 .. n /\ n \in Nat /\ \A i \in 1 .. n : shown[i] \in Item
  BY <1>2
<1>4. \A i, j \in at : i = j
  BY <1>2 DEF Distinct1
<1>5. at # {} => first \in at
  <2>1. \A i \in at : i \in Nat
    BY <1>3
  <2>2. \A i \in at : \A j \in at : i <= j
    BY <1>4, <2>1
  <2> QED
    BY <2>2
<1> HIDE DEF first
<1>6. to \in Nat /\ (n > 0 => to \in 0 .. n - 1) /\ (n = 0 => to = 0)
  BY <1>3, <1>5
<1> HIDE DEF to, at
<1>7. /\ e \in Model /\ e.rows = shown /\ e.cursor = to
      /\ e.gran = k.gran /\ e.threadID = k.threadID /\ e.thread = k.thread
  BY <1>2, <1>6 DEF Model
<1> HIDE DEF e
<1>8. /\ c \in Model /\ Window(c) /\ SameBut(c, e)
      /\ OnARow(e) => c.cursor = e.cursor
  BY <1>1, <1>7, ClampFits
<1>9. OnARow(e)
  BY <1>3, <1>6, <1>7 DEF OnARow, Greater
<1>10. c.rows = shown /\ c.cursor = to
  BY <1>7, <1>8, <1>9 DEF SameBut
<1>11. ASSUME HasRow(k), \E i \in DOMAIN rows : rows[i] = RowOf(k)
       PROVE  HasRow(c) /\ RowOf(c) = RowOf(k)
  <2>1. PICK j \in 1 .. n : shown[j] = RowOf(k)
    BY <1>2, <1>3, <1>11
  <2>2. previous = RowOf(k).id
    BY <1>11 DEF HasRow, RowOf
  <2>3. j \in at
    BY <1>3, <2>1, <2>2 DEF at
  <2>4. to = j - 1
    BY <1>4, <1>5, <2>3 DEF to
  <2> QED
    BY <1>3, <1>10, <2>1, <2>4 DEF HasRow, RowOf
<1>12. rows = <<>> => ~HasRow(c)
  BY <1>2, <1>6, <1>10 DEF HasRow
<1> QED
  BY <1>2, <1>7, <1>8, <1>10, <1>11, <1>12 DEF SameBut

\* The selected thread is that of the row under the cursor.
LEMMA SelectedIs ==
    ASSUME NEW k \in Model
    PROVE  /\ SelectedThread(k) \in Nat
           /\ HasRow(k) => SelectedThread(k) = RowOf(k).thread
           /\ ~HasRow(k) => SelectedThread(k) = 0
<1>1. k.cursor \in Nat /\ k.rows \in Seq(Item)
  BY DEF Model
<1>2. k.cursor < Len(k.rows) => k.rows[k.cursor + 1] \in Item
  BY <1>1
<1> QED
  BY <1>2 DEF SelectedThread, HasRow, RowOf, Item

----------------------------------------------------------------------------
(* The messages on their way *)

\* A set of commands that may be run
Proper(cmd) == cmd \in SUBSET Request /\ IsFiniteSet(cmd) /\ \A e \in cmd : Sound(e)

\* x is e but for what tells it from its equals.
Like(x, e) ==
    /\ x \in Request
    /\ x.kind = e.kind /\ x.gran = e.gran /\ x.thread = e.thread
    /\ x.at = e.at /\ x.out = e.out

\* S is rest with the messages of cmd.
After(S, rest, cmd) ==
    /\ Proper(S)
    /\ rest \subseteq S
    /\ \A x \in S : x \in rest \/ \E e \in cmd : Like(x, e)
    /\ \A e \in cmd : \E x \in S : Like(x, e)

\* A message is numbered: of so many equal ones, one more is not under way yet.
LEMMA FreshIsLike ==
    ASSUME NEW rest, IsFiniteSet(rest), NEW e \in Request
    PROVE  Like(Fresh(rest, e), e)
<1> DEFINE N == Cardinality(rest) + 1
           f == [n \in 1 .. N |-> [e EXCEPT !.nth = n]]
<1>1. Cardinality(rest) \in Nat /\ N \in Nat
  BY FS_CardinalityType
<1>2. IsFiniteSet(1 .. N) /\ Cardinality(1 .. N) = N
  BY <1>1, FS_Interval
<1>3. \A n \in 1 .. N : [e EXCEPT !.nth = n].nth = n
  BY DEF Request
<1>4. \E n \in 1 .. N : f[n] \notin rest
  <2>1. SUFFICES ASSUME \A n \in 1 .. N : f[n] \in rest
                 PROVE  FALSE
    OBVIOUS
  <2>2. f \in [1 .. N -> rest]
    BY <2>1
  <2>3. Cardinality(rest) < Cardinality(1 .. N)
    BY <1>1, <1>2
  <2> HIDE DEF f
  <2>4. \E x, y \in 1 .. N : x # y /\ f[x] = f[y]
    BY <1>2, <2>2, <2>3, FS_PigeonHole
  <2>5. \A n \in 1 .. N : f[n].nth = n
    BY <1>3 DEF f
  <2> QED
    BY <2>4, <2>5
<1>5. \E x \in {[e EXCEPT !.nth = n] : n \in 1 .. Cardinality(rest) + 1} : x \notin rest
  BY <1>4
<1>6. Fresh(rest, e) \in {[e EXCEPT !.nth = n] : n \in 1 .. Cardinality(rest) + 1}
  BY <1>5, Zenon DEF Fresh
<1>7. PICK n \in 1 .. Cardinality(rest) + 1 : Fresh(rest, e) = [e EXCEPT !.nth = n]
  BY <1>6
<1>8. n \in Nat
  BY <1>1
<1> QED
  BY <1>7, <1>8 DEF Like, Request

\* A message like a sound one is sound.
LEMMA LikeIsSound ==
    ASSUME NEW x, NEW e, Like(x, e), Sound(e)
    PROVE  Sound(x)
BY DEF Like, Sound

\* Run puts the commands under way.
LEMMA RunAdds ==
    ASSUME NEW rest, Proper(rest), NEW cmd, Proper(cmd), Run(rest, cmd)
    PROVE  After(net', rest, cmd)
<1>1. \A e \in cmd : Like(Fresh(rest, e), e)
  BY FreshIsLike DEF Proper
<1>2. net' = rest \cup {Fresh(rest, e) : e \in cmd}
  BY DEF Run
<1> DEFINE F == {Fresh(rest, e) : e \in cmd}  f == [e \in cmd |-> Fresh(rest, e)]
<1>3. IsFiniteSet(F)
  <2>1. f \in Surjection(cmd, F)
    BY DEF Surjection
  <2> HIDE DEF f, F
  <2> QED
    BY <2>1, FS_Surjection DEF Proper
<1>4. IsFiniteSet(net')
  BY <1>2, <1>3, FS_Union DEF Proper
<1>5. \A x \in net' : x \in rest \/ \E e \in cmd : x = Fresh(rest, e)
  BY <1>2
<1>6. \A e \in cmd : Fresh(rest, e) \in net'
  BY <1>2
<1>7. \A x \in net' : x \in rest \/ \E e \in cmd : Like(x, e)
  BY <1>1, <1>5
<1>8. \A x \in net' : x \in Request /\ Sound(x)
  <2>1. \A x \in rest : x \in Request /\ Sound(x)
    BY DEF Proper
  <2>2. ASSUME NEW x \in net', NEW e \in cmd, Like(x, e)
        PROVE  x \in Request /\ Sound(x)
    <3>1. Sound(e)
      BY DEF Proper
    <3>2. x \in Request
      BY <2>2 DEF Like
    <3> QED
      BY <2>2, <3>1, <3>2, LikeIsSound
  <2> QED
    BY <1>7, <2>1, <2>2
<1>9. rest \subseteq net'
  BY <1>2
<1> QED
  BY <1>1, <1>4, <1>6, <1>7, <1>8, <1>9 DEF After, Proper

\* Without commands nothing is put under way.
LEMMA NothingAdded ==
    ASSUME NEW rest, Proper(rest), net' = rest
    PROVE  After(net', rest, {})
BY DEF After

\* Messages without a tick leave the clock as it was.
LEMMA ClockStays ==
    ASSUME NEW S, NEW rest, NEW cmd, After(S, rest, cmd), Ticks(cmd) = {}
    PROVE  Ticks(S) = Ticks(rest)
BY DEF After, Ticks, Like

\* The set of commands of a request
LEMMA AskedIsProper ==
    ASSUME NEW kind \in {"rows", "thread", "send"}, NEW g \in Granularity \cup {None}, NEW t \in Nat,
           kind = "rows" => g \in Granularity, kind = "thread" => t # 0
    PROVE  /\ Proper(Asked(kind, g, t))
           /\ Ticks(Asked(kind, g, t)) = {}
           /\ \E e \in Asked(kind, g, t) : e.kind = kind /\ e.thread = t
<1>1. PICK e : e = [kind |-> kind, gran |-> g, thread |-> t, at |-> "asked", out |-> <<>>, nth |-> 1]
  OBVIOUS
<1>2. Asked(kind, g, t) = {e}
  BY <1>1, Zenon DEF Asked
<1>3. PICK out \in Seq(Item) : out = <<>>
  <2>1. <<>> \in Seq(Item)
    OBVIOUS
  <2> QED
    BY <2>1, Zenon
<1>4. e = [kind |-> kind, gran |-> g, thread |-> t, at |-> "asked", out |-> out, nth |-> 1]
  BY <1>1, <1>3
<1>5. e \in Request /\ e.kind = kind /\ e.thread = t /\ e.gran = g /\ e.at = "asked" /\ e.out = out
  BY <1>4 DEF Request
<1>6. Distinct1(out) /\ Own(out, t)
  BY <1>3 DEF Distinct1, Own
<1>7. Sound(e)
  BY <1>5, <1>6 DEF Sound
<1>8. e.kind # "tick"
  BY <1>5
<1> QED
  BY <1>2, <1>5, <1>7, <1>8, FS_Singleton DEF Proper, Ticks

\* A message of the program to itself
LEMMA MessageIsProper ==
    ASSUME NEW kind \in {"compose", "tick"}
    PROVE  Proper({Message(kind)}) /\ Message(kind).kind = kind
<1>1. PICK e : e = [kind |-> kind, gran |-> None, thread |-> 0, at |-> "answered", out |-> <<>>, nth |-> 1]
  OBVIOUS
<1>2. Message(kind) = e
  BY <1>1, Zenon DEF Message
<1>3. PICK out \in Seq(Item) : out = <<>>
  <2>1. <<>> \in Seq(Item)
    OBVIOUS
  <2> QED
    BY <2>1, Zenon
<1>4. e = [kind |-> kind, gran |-> None, thread |-> 0, at |-> "answered", out |-> out, nth |-> 1]
  BY <1>1, <1>3
<1>5. e \in Request /\ e.kind = kind /\ e.at = "answered"
  BY <1>4 DEF Request
<1>6. Sound(e)
  BY <1>5 DEF Sound
<1> QED
  BY <1>2, <1>5, <1>6, FS_Singleton DEF Proper

\* Two sets of commands together
LEMMA TogetherProper ==
    ASSUME NEW a, Proper(a), NEW b, Proper(b)
    PROVE  Proper(a \cup b)
BY FS_Union DEF Proper

\* Nothing is proper.
LEMMA NothingIsProper == Proper({}) /\ Ticks({}) = {}
BY FS_EmptySet DEF Proper, Ticks

\* The commands that fetch and send
LEMMA CommandsAreProper ==
    ASSUME NEW k \in Model, NEW t \in Nat
    PROVE  /\ Proper(FetchRows(k)) /\ Ticks(FetchRows(k)) = {}
           /\ Proper(FetchThread(t)) /\ Ticks(FetchThread(t)) = {}
           /\ t # 0 => Asking(FetchThread(t), t)
           /\ Proper(SendReply(t)) /\ Ticks(SendReply(t)) = {}
<1>1. k.gran \in Granularity
  BY DEF Model
<1>2. Proper(FetchRows(k)) /\ Ticks(FetchRows(k)) = {}
  BY <1>1, AskedIsProper DEF FetchRows
<1>3. Proper(SendReply(t)) /\ Ticks(SendReply(t)) = {}
  BY AskedIsProper DEF SendReply
<1>4. CASE t = 0
  BY <1>2, <1>3, <1>4, NothingIsProper DEF FetchThread
<1>5. CASE t # 0
  <2>1. FetchThread(t) = Asked("thread", None, t)
    BY <1>5 DEF FetchThread
  <2>2. /\ Proper(Asked("thread", None, t)) /\ Ticks(Asked("thread", None, t)) = {}
        /\ \E e \in Asked("thread", None, t) : e.kind = "thread" /\ e.thread = t
    BY <1>5, AskedIsProper
  <2> QED
    BY <1>2, <1>3, <2>1, <2>2, Zenon DEF Asking
<1> QED
  BY <1>4, <1>5

\* A message that is handled leaves the others.
LEMMA NetWithout ==
    ASSUME NEW S, Net(S), NEW e \in S
    PROVE  /\ Proper(S) /\ Proper(S \ {e})
           /\ e.kind # "tick" => Ticks(S \ {e}) = Ticks(S)
           /\ e.kind = "tick" => Ticks(S \ {e}) = {}
           /\ \A t : Asking(S, t) => Asking(S \ {e}, t) \/ (e.kind = "thread" /\ e.thread = t)
<1>1. Proper(S)
  BY DEF Net, Proper
<1>2. Proper(S \ {e})
  BY <1>1, FS_RemoveElement DEF Proper
<1>3. e.kind # "tick" => Ticks(S \ {e}) = Ticks(S)
  BY DEF Ticks
<1>4. e.kind = "tick" => Ticks(S \ {e}) = {}
  <2>1. PICK x : Ticks(S) = {x}
    BY DEF Net
  <2> QED
    BY <2>1 DEF Ticks
<1>5. \A t : Asking(S, t) => Asking(S \ {e}, t) \/ (e.kind = "thread" /\ e.thread = t)
  BY DEF Asking
<1> QED
  BY <1>1, <1>2, <1>3, <1>4, <1>5

\* Messages other than ticks may come and go.
LEMMA NetStays ==
    ASSUME Net(net), NEW rest, Ticks(rest) = Ticks(net), NEW cmd, Ticks(cmd) = {},
           After(net', rest, cmd)
    PROVE  Net(net')
BY ClockStays DEF Net, After, Proper

\* What is asked for stays so as long as its messages are under way.
LEMMA AskingStays ==
    ASSUME NEW S, NEW rest, NEW cmd, After(S, rest, cmd), NEW t,
           Asking(rest, t) \/ Asking(cmd, t)
    PROVE  Asking(S, t)
<1>1. CASE Asking(rest, t)
  BY <1>1 DEF After, Asking
<1>2. CASE Asking(cmd, t)
  <2>1. PICK e \in cmd : e.kind = "thread" /\ e.thread = t
    BY <1>2 DEF Asking
  <2>2. PICK x \in S : Like(x, e)
    BY <2>1 DEF After
  <2> QED
    BY <2>1, <2>2 DEF Asking, Like
<1> QED
  BY <1>1, <1>2

\* A screen stays right while what its pane waits for is under way.
LEMMA ScreenStays ==
    ASSUME NEW k, NEW S, Screen(k, S), NEW T,
           Asking(S, k.threadID) => Asking(T, k.threadID)
    PROVE  Screen(k, T)
BY DEF Screen, Pane

\* syncThread: the selected thread is loaded, and asked for if it was not.
LEMMA SyncKeeps ==
    ASSUME Net(net), Screen(m, net),
           NEW k \in Model, Window(k), Distinct1(k.rows),
           k.threadID = m.threadID, k.thread = m.thread,
           NEW rest, Proper(rest), Ticks(rest) = Ticks(net),
           \A t : Asking(net, t) => Asking(rest, t),
           \E o \in {SyncThread(k)} : m' = o.m /\ Run(rest, o.cmd)
    PROVE  Screen(m', net') /\ Net(net')
<1> DEFINE t == SelectedThread(k)
           cmd == IF t = k.threadID THEN {} ELSE FetchThread(t)
<1>1. m' = [k EXCEPT !.threadID = t] /\ Run(rest, cmd)
  BY DEF SyncThread
<1>2. t \in Nat
  BY SelectedIs
<1>3. Proper(cmd) /\ Ticks(cmd) = {} /\ (t # k.threadID /\ t # 0 => Asking(cmd, t))
  BY <1>2, CommandsAreProper, NothingIsProper
<1>4. /\ m' \in Model /\ m'.threadID = t /\ m'.thread = k.thread
      /\ m'.rows = k.rows /\ m'.cursor = k.cursor /\ m'.scroll = k.scroll /\ m'.height = k.height
  BY <1>1, <1>2 DEF Model
<1>5. SelectedThread(m') = t
  BY <1>4 DEF SelectedThread
<1> HIDE DEF t, cmd
<1>6. After(net', rest, cmd)
  BY <1>1, <1>3, RunAdds
<1>7. Window(m') /\ Distinct1(m'.rows)
  BY <1>4 DEF Window, Visible
<1>8. Net(net')
  BY <1>3, <1>6, NetStays
<1>9. t # 0 => Own(m'.thread, t) \/ Asking(net', t)
  <2>1. CASE t = k.threadID
    <3>1. t # 0 => Own(k.thread, t) \/ Asking(net, t)
      BY <2>1 DEF Screen, Pane
    <3> QED
      BY <1>4, <1>6, <3>1, AskingStays
  <2>2. CASE t # k.threadID
    BY <1>3, <1>6, <2>2, AskingStays
  <2> QED
    BY <2>1, <2>2
<1> QED
  BY <1>4, <1>5, <1>7, <1>8, <1>9 DEF Screen, Pane

\* An answer or a failure takes the place of the request.
LEMMA ReplacedKeeps ==
    ASSUME Net(net), Screen(m, net), UNCHANGED m, NEW e \in net, e.kind # "tick",
           NEW x \in Request, Sound(x), x.kind = e.kind, x.thread = e.thread,
           Run(Without(e), {x})
    PROVE  Screen(m', net') /\ Net(net')
<1>1. Proper({x}) /\ Ticks({x}) = {}
  BY FS_Singleton DEF Proper, Ticks
<1>2. /\ Proper(Without(e)) /\ Ticks(Without(e)) = Ticks(net)
      /\ \A t : Asking(net, t) => Asking(Without(e), t) \/ (e.kind = "thread" /\ e.thread = t)
  BY NetWithout DEF Without
<1>3. After(net', Without(e), {x})
  BY <1>1, <1>2, RunAdds
<1>4. Net(net')
  BY <1>1, <1>2, <1>3, NetStays
<1>5. \A t : e.kind = "thread" /\ e.thread = t => Asking({x}, t)
  BY DEF Asking
<1>6. \A t : Asking(net, t) => Asking(net', t)
  BY <1>2, <1>3, <1>5, AskingStays
<1>7. Screen(m, net')
  BY <1>6, ScreenStays
<1> QED
  BY <1>4, <1>7

----------------------------------------------------------------------------
(* The actions *)

\* Others, agents and people, append.
LEMMA OtherAppendsKeeps ==
    ASSUME IInv, NEW t \in DOMAIN d.threads, OtherAppends(t)
    PROVE  IInv'
<1>1. t \in Nat
  BY TablesAre DEF IInv, Consistent
<1>2. Consistent(d')
  BY <1>1, AppendStaysConsistent DEF IInv, OtherAppends
<1>3. UNCHANGED <<m, box, net, quitting>>
  BY DEF OtherAppends
<1> QED
  BY <1>2, <1>3 DEF IInv

\* A request is answered with rows that are distinct, or with messages that are
\* the thread's own.
LEMMA ServeKeeps ==
    ASSUME IInv, NEW e \in net, Serve(e)
    PROVE  IInv'
<1>1. PICK out :
        /\ out = CASE e.kind = "rows"   -> Rows(e.gran)
                   [] e.kind = "thread" -> Messages(e.thread)
                   [] OTHER             -> <<>>
        /\ Run(Without(e), {[e EXCEPT !.at = "answered", !.out = out]})
  BY Zenon DEF Serve
<1>2. Net(net) /\ Screen(m, net) /\ Consistent(d) /\ e \in Request /\ Sound(e)
  BY DEF IInv, Net
<1>3. e.at = "asked" /\ UNCHANGED <<m, box, quitting>> /\ e.kind # "tick"
  BY <1>2 DEF Serve, Sound
<1>4. /\ out \in Seq(Item)
      /\ e.kind = "rows" => Distinct1(out)
      /\ e.kind = "thread" => Own(out, e.thread)
  <2>1. CASE e.kind = "rows"
    <3>1. out = Rows(e.gran) /\ e.gran \in Granularity
      BY <1>1, <1>2, <2>1 DEF Sound
    <3> QED
      BY <1>2, <2>1, <3>1, AnswersAreSound
  <2>2. CASE e.kind = "thread"
    <3>1. out = Messages(e.thread)
      BY <1>1, <2>2
    <3> QED
      BY <1>2, <2>2, <3>1, AnswersAreSound
  <2>3. CASE e.kind \notin {"rows", "thread"}
    <3>1. out = <<>>
      BY <1>1, <2>3
    <3>2. <<>> \in Seq(Item)
      OBVIOUS
    <3> QED
      BY <2>3, <3>1, <3>2, Zenon
  <2> QED
    BY <2>1, <2>2, <2>3
<1> DEFINE x == [e EXCEPT !.at = "answered", !.out = out]
<1>5. x \in Request /\ x.kind = e.kind /\ x.thread = e.thread /\ x.gran = e.gran /\ x.out = out
  BY <1>2, <1>4 DEF Request
<1>6. Run(Without(e), {x})
  BY <1>1
<1> HIDE DEF x
<1>7. Sound(x)
  BY <1>2, <1>3, <1>4, <1>5 DEF Sound
<1>8. Screen(m', net') /\ Net(net')
  BY <1>2, <1>3, <1>5, <1>6, <1>7, ReplacedKeeps
<1>9. Consistent(d')
  <2>1. e.thread \in Nat
    BY <1>2 DEF Request
  <2>2. Consistent(AppendMessage(d, e.thread, "you", "human", Text, 0, 0).db)
    BY <1>2, <2>1, AppendStaysConsistent
  <2>3. d' = IF e.kind = "send" THEN AppendMessage(d, e.thread, "you", "human", Text, 0, 0).db ELSE d
    BY DEF Serve
  <2> QED
    BY <1>2, <2>2, <2>3
<1> QED
  BY <1>3, <1>8, <1>9 DEF IInv

\* A request may fail.
LEMMA RequestFailsKeeps ==
    ASSUME IInv, NEW e \in net, RequestFails(e)
    PROVE  IInv'
<1>1. PICK out \in Seq(Item) : out = <<>>
  <2>1. <<>> \in Seq(Item)
    OBVIOUS
  <2> QED
    BY <2>1, Zenon
<1> DEFINE x == [e EXCEPT !.at = "failed", !.out = out]
<1>2. Run(Without(e), {x})
  BY <1>1, Zenon DEF RequestFails
<1>3. Net(net) /\ Screen(m, net) /\ Consistent(d) /\ e \in Request /\ Sound(e)
  BY DEF IInv, Net
<1>4. e.kind # "tick" /\ UNCHANGED <<m, box, d, quitting>>
  BY DEF RequestFails
<1>5. x \in Request /\ x.kind = e.kind /\ x.thread = e.thread /\ x.gran = e.gran /\ x.out = out
  BY <1>3 DEF Request
<1> HIDE DEF x
<1>6. Distinct1(out) /\ Own(out, e.thread)
  BY <1>1 DEF Distinct1, Own
<1>7. Sound(x)
  BY <1>3, <1>4, <1>5, <1>6 DEF Sound
<1>8. Screen(m', net') /\ Net(net')
  BY <1>2, <1>3, <1>4, <1>5, <1>7, ReplacedKeeps
<1> QED
  BY <1>3, <1>4, <1>8 DEF IInv

\* Rows are shown, unless they are of another granularity.
LEMMA RowsFetchedKeeps ==
    ASSUME IInv, NEW e \in net, RowsFetched(e)
    PROVE  IInv'
<1>1. Net(net) /\ Screen(m, net) /\ m \in Model /\ e \in Request /\ Sound(e)
  BY DEF IInv, Net, Screen
<1>2. e.kind = "rows" /\ UNCHANGED <<box, d, quitting>>
  BY DEF RowsFetched
<1>3. /\ Proper(Without(e)) /\ Ticks(Without(e)) = Ticks(net)
      /\ \A t : Asking(net, t) => Asking(Without(e), t)
  BY <1>1, <1>2, NetWithout DEF Without
<1>4. CASE m' = m /\ net' = Without(e)
  <2>1. After(net', Without(e), {}) /\ Ticks({}) = {}
    BY <1>3, <1>4, NothingAdded, NothingIsProper
  <2>2. Net(net')
    BY <1>1, <1>3, <2>1, NetStays
  <2>3. Screen(m', net')
    BY <1>1, <1>3, <1>4, ScreenStays
  <2> QED
    BY <1>2, <2>2, <2>3 DEF IInv
<1>5. CASE \E o \in {SyncThread(ApplyRows(m, e.out))} : m' = o.m /\ Run(Without(e), o.cmd)
  <2>1. PICK k : k = ApplyRows(m, e.out)
    OBVIOUS
  <2>2. e.out \in Seq(Item) /\ Distinct1(e.out)
    BY <1>1, <1>2 DEF Request, Sound
  <2>3. /\ k \in Model /\ Window(k) /\ Distinct1(k.rows)
        /\ k.threadID = m.threadID /\ k.thread = m.thread
    BY <1>1, <2>1, <2>2, ApplyRowsShows
  <2>4. \E o \in {SyncThread(k)} : m' = o.m /\ Run(Without(e), o.cmd)
    BY <1>5, <2>1
  <2>5. Screen(m', net') /\ Net(net')
    BY <1>1, <1>3, <2>3, <2>4, SyncKeeps
  <2> QED
    BY <1>2, <2>5 DEF IInv
<1> QED
  BY <1>4, <1>5, Zenon DEF RowsFetched

\* Messages are shown in the pane of their thread and in no other's.
LEMMA ThreadFetchedKeeps ==
    ASSUME IInv, NEW e \in net, ThreadFetched(e)
    PROVE  IInv'
<1>1. /\ Net(net) /\ Screen(m, net) /\ m \in Model /\ Pane(m, net) /\ Window(m) /\ Distinct1(m.rows)
      /\ e \in Request /\ Sound(e)
  BY DEF IInv, Net, Screen
<1>2. e.kind = "thread" /\ UNCHANGED <<box, d, quitting>> /\ net' = Without(e)
  BY DEF ThreadFetched
<1>3. /\ Proper(Without(e)) /\ Ticks(Without(e)) = Ticks(net)
      /\ \A t : Asking(net, t) => Asking(Without(e), t) \/ e.thread = t
  BY <1>1, <1>2, NetWithout DEF Without
<1>4. Net(net')
  <2>1. After(net', Without(e), {}) /\ Ticks({}) = {}
    BY <1>2, <1>3, NothingAdded, NothingIsProper
  <2> QED
    BY <1>1, <1>3, <2>1, NetStays
<1>5. Screen(m', net')
  <2>1. CASE e.thread # m.threadID
    <3>1. m' = m
      BY <2>1 DEF ThreadFetched
    <3> QED
      BY <1>1, <1>2, <1>3, <2>1, <3>1, ScreenStays
  <2>2. CASE e.thread = m.threadID /\ e.at = "failed"
    <3>1. PICK none \in Seq(Item) : none = <<>>
      <4>1. <<>> \in Seq(Item)
        OBVIOUS
      <4> QED
        BY <4>1, Zenon
    <3>2. m' = [m EXCEPT !.thread = none, !.threadID = 0]
      BY <2>2, <3>1 DEF ThreadFetched
    <3>3. /\ m' \in Model /\ m'.threadID = 0 /\ m'.thread = none
          /\ m'.rows = m.rows /\ m'.cursor = m.cursor /\ m'.scroll = m.scroll /\ m'.height = m.height
      BY <1>1, <3>2 DEF Model
    <3>4. Window(m') /\ Distinct1(m'.rows)
      BY <1>1, <3>3 DEF Window, Visible
    <3> QED
      BY <3>1, <3>3, <3>4 DEF Screen, Pane
  <2>3. CASE e.thread = m.threadID /\ e.at # "failed"
    <3>1. m' = [m EXCEPT !.thread = e.out]
      BY <2>3 DEF ThreadFetched
    <3>2. e.out \in Seq(Item) /\ Own(e.out, e.thread) /\ e.thread # 0
      BY <1>1, <1>2 DEF Request, Sound
    <3>3. /\ m' \in Model /\ m'.threadID = m.threadID /\ m'.thread = e.out
          /\ m'.rows = m.rows /\ m'.cursor = m.cursor /\ m'.scroll = m.scroll /\ m'.height = m.height
      BY <1>1, <3>1, <3>2 DEF Model
    <3>4. Window(m') /\ Distinct1(m'.rows) /\ SelectedThread(m') = SelectedThread(m)
      BY <1>1, <3>3 DEF Window, Visible, SelectedThread
    <3> QED
      BY <1>1, <2>3, <3>2, <3>3, <3>4 DEF Screen, Pane
  <2> QED
    BY <2>1, <2>2, <2>3
<1> QED
  BY <1>2, <1>4, <1>5 DEF IInv

\* Commands that are run change nothing of the screen.
LEMMA RanKeeps ==
    ASSUME Net(net), Screen(m, net), UNCHANGED m, NEW rest, Proper(rest), Ticks(rest) = Ticks(net),
           \A t : Asking(net, t) => Asking(rest, t),
           NEW cmd, Proper(cmd), Ticks(cmd) = {}, Run(rest, cmd)
    PROVE  Screen(m', net') /\ Net(net')
<1>1. After(net', rest, cmd)
  BY RunAdds
<1>2. Net(net')
  BY <1>1, NetStays
<1>3. \A t : Asking(net, t) => Asking(net', t)
  BY <1>1, AskingStays
<1>4. Screen(m, net')
  BY <1>3, ScreenStays
<1> QED
  BY <1>2, <1>4

\* The text of the box goes to the thread that is loaded.
LEMMA ComposeSentKeeps ==
    ASSUME IInv, NEW e \in net, ComposeSent(e)
    PROVE  IInv'
<1>1. Net(net) /\ Screen(m, net) /\ m \in Model /\ m.threadID \in Nat
  BY DEF IInv, Screen, Model
<1>2. e.kind = "compose" /\ UNCHANGED <<m, d, quitting>> /\ box' = Closed
  BY DEF ComposeSent
<1>3. /\ Proper(Without(e)) /\ Ticks(Without(e)) = Ticks(net)
      /\ \A t : Asking(net, t) => Asking(Without(e), t)
  BY <1>1, <1>2, NetWithout DEF Without
<1> DEFINE cmd == IF m.threadID = 0 THEN {} ELSE SendReply(m.threadID)
<1>4. Proper(cmd) /\ Ticks(cmd) = {} /\ Run(Without(e), cmd)
  BY <1>1, CommandsAreProper, NothingIsProper DEF ComposeSent
<1> HIDE DEF cmd
<1>5. Screen(m', net') /\ Net(net')
  BY <1>1, <1>2, <1>3, <1>4, RanKeeps
<1> QED
  BY <1>2, <1>5 DEF IInv, Closed

\* A reply that was taken is followed by a refresh.
LEMMA SentKeeps ==
    ASSUME IInv, NEW e \in net, Sent(e)
    PROVE  IInv'
<1>1. Net(net) /\ Screen(m, net) /\ m \in Model /\ m.threadID \in Nat
  BY DEF IInv, Screen, Model
<1>2. e.kind = "send" /\ UNCHANGED <<m, box, d, quitting>>
  BY DEF Sent
<1>3. /\ Proper(Without(e)) /\ Ticks(Without(e)) = Ticks(net)
      /\ \A t : Asking(net, t) => Asking(Without(e), t)
  BY <1>1, <1>2, NetWithout DEF Without
<1> DEFINE cmd == IF e.at = "failed" THEN {} ELSE FetchRows(m) \cup FetchThread(m.threadID)
<1>4. Proper(cmd) /\ Ticks(cmd) = {}
  <2>1. Proper(FetchRows(m) \cup FetchThread(m.threadID))
    BY <1>1, CommandsAreProper, TogetherProper
  <2>2. Ticks(FetchRows(m) \cup FetchThread(m.threadID)) = {}
    BY <1>1, CommandsAreProper DEF Ticks
  <2> QED
    BY <2>1, <2>2, NothingIsProper
<1>5. Run(Without(e), cmd)
  BY DEF Sent
<1> HIDE DEF cmd
<1>6. Screen(m', net') /\ Net(net')
  BY <1>1, <1>2, <1>3, <1>4, <1>5, RanKeeps
<1> QED
  BY <1>2, <1>6 DEF IInv

\* A refresh has one tick.
LEMMA RefreshTicksOnce ==
    ASSUME NEW k \in Model
    PROVE  Proper(Refresh(k)) /\ Ticks(Refresh(k)) = {Message("tick")}
<1> DEFINE a == FetchRows(k)  b == FetchThread(SelectedThread(k))  c == {Message("tick")}
<1>1. Proper(a) /\ Proper(b) /\ Ticks(a) = {} /\ Ticks(b) = {}
  BY SelectedIs, CommandsAreProper
<1>2. Proper(c) /\ Message("tick").kind = "tick"
  BY MessageIsProper
<1>3. Refresh(k) = (a \cup b) \cup c
  BY DEF Refresh, RefetchThread, Clock
<1> HIDE DEF a, b
<1>4. Ticks(c) = c
  BY <1>2 DEF Ticks
<1>5. Ticks((a \cup b) \cup c) = (Ticks(a) \cup Ticks(b)) \cup Ticks(c)
  BY DEF Ticks
<1>6. Proper((a \cup b) \cup c)
  <2>1. Proper(a \cup b)
    BY <1>1, TogetherProper
  <2> QED
    BY <1>2, <2>1, TogetherProper
<1> QED
  BY <1>1, <1>3, <1>4, <1>5, <1>6

\* The commands of Refresh, where no tick is under way, put one there.
LEMMA RefreshArms ==
    ASSUME NEW k \in Model, NEW rest, Proper(rest), Ticks(rest) = {},
           net' = rest \cup {Fresh(rest, e) : e \in Refresh(k)}
    PROVE  Net(net')
<1>1. Proper(Refresh(k)) /\ Ticks(Refresh(k)) = {Message("tick")}
  BY RefreshTicksOnce
<1>2. After(net', rest, Refresh(k))
  BY <1>1, RunAdds DEF Run
<1>3. \A e \in Refresh(k) : Like(Fresh(rest, e), e)
  BY <1>1, FreshIsLike DEF Proper
<1>4. Message("tick") \in Refresh(k)
  BY <1>1 DEF Ticks
<1>5. Ticks(net') = {Fresh(rest, Message("tick"))}
  <2>1. Fresh(rest, Message("tick")) \in Ticks(net')
    BY <1>1, <1>3, <1>4 DEF Ticks, Like
  <2>2. ASSUME NEW x \in Ticks(net')
        PROVE  x = Fresh(rest, Message("tick"))
    <3>1. x \in net' /\ x.kind = "tick" /\ x \notin rest
      BY DEF Ticks
    <3>2. PICK e \in Refresh(k) : x = Fresh(rest, e)
      BY <3>1
    <3>3. e.kind = "tick"
      BY <1>3, <3>1, <3>2 DEF Like
    <3>4. e = Message("tick")
      BY <1>1, <3>3 DEF Ticks
    <3> QED
      BY <3>2, <3>4
  <2> QED
    BY <2>1, <2>2
<1> QED
  BY <1>2, <1>5 DEF Net, After, Proper

\* The tick is followed by the next.
LEMMA TickKeeps ==
    ASSUME IInv, NEW e \in net, Tick(e)
    PROVE  IInv'
<1>1. Net(net) /\ Screen(m, net) /\ m \in Model
  BY DEF IInv, Screen
<1>2. e.kind = "tick" /\ UNCHANGED <<m, box, d, quitting>> /\ Run(Without(e), Refresh(m))
  BY DEF Tick
<1>3. /\ Proper(Without(e)) /\ Ticks(Without(e)) = {}
      /\ \A t : Asking(net, t) => Asking(Without(e), t)
  BY <1>1, <1>2, NetWithout DEF Without
<1>4. Net(net')
  BY <1>1, <1>2, <1>3, RefreshArms DEF Run
<1>5. After(net', Without(e), Refresh(m))
  BY <1>1, <1>2, <1>3, RefreshTicksOnce, RunAdds
<1>6. \A t : Asking(net, t) => Asking(net', t)
  BY <1>3, <1>5, AskingStays
<1>7. Screen(m, net')
  BY <1>1, <1>6, ScreenStays
<1> QED
  BY <1>2, <1>4, <1>7 DEF IInv

\* A move of the cursor is followed by the thread of its row.
LEMMA MovedKeeps ==
    ASSUME Net(net), Screen(m, net), NEW k \in Model, Moved(k), k.rows = m.rows,
           k.threadID = m.threadID, k.thread = m.thread
    PROVE  Screen(m', net') /\ Net(net') /\ UNCHANGED box
<1>1. PICK c : c = Clamp(k)
  OBVIOUS
<1>2. c \in Model /\ Window(c) /\ SameBut(c, k)
  BY <1>1, ClampFits
<1>3. Distinct1(c.rows) /\ c.threadID = m.threadID /\ c.thread = m.thread
  BY <1>2 DEF SameBut, Screen
<1>4. \E o \in {SyncThread(c)} : m' = o.m /\ Run(net, o.cmd)
  BY <1>1 DEF Moved
<1>5. Proper(net)
  BY DEF Net, Proper
<1>6. Screen(m', net') /\ Net(net')
  BY <1>2, <1>3, <1>4, <1>5, SyncKeeps
<1> QED
  BY <1>6 DEF Moved

\* Up, down and enter
LEMMA MovesKeep ==
    ASSUME IInv, Up \/ Down \/ OpenThread
    PROVE  IInv'
<1>1. /\ Net(net) /\ Screen(m, net) /\ m \in Model /\ Consistent(d)
      /\ box \in [active : BOOLEAN, blank : BOOLEAN] /\ quitting \in BOOLEAN
  BY DEF IInv, Screen
<1>2. UNCHANGED <<d, quitting>>
  BY DEF Up, Down, OpenThread, ListKey, Key
<1>3. m.cursor \in Nat /\ Len(m.rows) \in Nat
  BY <1>1 DEF Model
<1>4. ASSUME NEW to \in Nat, Moved([m EXCEPT !.cursor = to])
      PROVE  Screen(m', net') /\ Net(net') /\ UNCHANGED box
  <2>1. PICK k : k = [m EXCEPT !.cursor = to]
    OBVIOUS
  <2>2. k \in Model /\ k.rows = m.rows /\ k.threadID = m.threadID /\ k.thread = m.thread
    BY <1>1, <2>1 DEF Model
  <2>3. Moved(k)
    BY <1>4, <2>1
  <2> QED
    BY <1>1, <2>2, <2>3, MovedKeeps
<1>5. Screen(m', net') /\ Net(net') /\ UNCHANGED box
  <2>1. CASE Up
    <3>1. Moved([m EXCEPT !.cursor = Greater(m.cursor - 1, 0)])
      BY <2>1 DEF Up
    <3>2. Greater(m.cursor - 1, 0) \in Nat
      BY <1>3 DEF Greater
    <3> QED
      BY <1>4, <3>1, <3>2
  <2>2. CASE Down
    <3>1. Moved([m EXCEPT !.cursor = IF m.cursor < Len(m.rows) - 1 THEN m.cursor + 1 ELSE m.cursor])
      BY <2>2 DEF Down
    <3>2. (IF m.cursor < Len(m.rows) - 1 THEN m.cursor + 1 ELSE m.cursor) \in Nat
      BY <1>3
    <3> QED
      BY <1>4, <3>1, <3>2
  <2>3. CASE OpenThread
    BY <1>1, <2>3, MovedKeeps DEF OpenThread
  <2> QED
    BY <2>1, <2>2, <2>3
<1> QED
  BY <1>1, <1>2, <1>5 DEF IInv

\* r opens the box.
LEMMA OpenReplyKeeps ==
    ASSUME IInv, OpenReply
    PROVE  IInv'
<1>1. Net(net) /\ Screen(m, net) /\ m \in Model /\ Window(m) /\ Distinct1(m.rows)
  BY DEF IInv, Screen
<1>2. UNCHANGED <<d, quitting>> /\ box' = [active |-> TRUE, blank |-> TRUE]
  BY DEF OpenReply, ListKey, Key
<1>3. \E o \in {SyncThread(m)} : m' = o.m /\ Run(net, o.cmd)
  BY DEF OpenReply
<1>4. Proper(net)
  BY <1>1 DEF Net, Proper
<1>5. Screen(m', net') /\ Net(net')
  BY <1>1, <1>3, <1>4, SyncKeeps
<1> QED
  BY <1>2, <1>5 DEF IInv

\* g empties the list and the pane.
LEMMA RegroupKeeps ==
    ASSUME IInv, Regroup
    PROVE  IInv'
<1>1. Net(net) /\ m \in Model /\ Proper(net)
  BY DEF IInv, Screen, Net, Proper
<1>2. UNCHANGED <<d, quitting, box>>
  BY DEF Regroup, ListKey, Key
<1>3. PICK none \in Seq(Item) : none = <<>>
  <2>1. <<>> \in Seq(Item)
    OBVIOUS
  <2> QED
    BY <2>1, Zenon
<1>4. PICK g \in Granularity : g = NextGranularity
  BY DEF NextGranularity, Granularity
<1>5. m' = [m EXCEPT !.gran = g, !.rows = none, !.cursor = 0, !.scroll = 0,
                     !.threadID = 0, !.thread = none]
  BY <1>3, <1>4, Zenon DEF Regroup
<1>6. /\ m' \in Model /\ m'.rows = none /\ m'.cursor = 0 /\ m'.scroll = 0
      /\ m'.threadID = 0 /\ m'.thread = none
  BY <1>1, <1>5 DEF Model
<1>7. Len(none) = 0 /\ Distinct1(none)
  BY <1>3 DEF Distinct1
<1>8. Window(m')
  <2>1. Visible(m') \in Nat /\ Visible(m') > 0
    BY <1>6, VisibleIsPositive
  <2> QED
    BY <1>6, <1>7, <2>1 DEF Window, Greater
<1>9. Screen(m', net')
  BY <1>3, <1>6, <1>7, <1>8 DEF Screen, Pane
<1>10. Net(net')
  <2>1. Run(net, FetchRows(m'))
    BY DEF Regroup
  <2>2. Proper(FetchRows(m')) /\ Ticks(FetchRows(m')) = {}
    BY <1>6, CommandsAreProper
  <2>3. After(net', net, FetchRows(m'))
    BY <1>1, <2>1, <2>2, RunAdds
  <2> QED
    BY <1>1, <2>2, <2>3, NetStays
<1> QED
  BY <1>2, <1>9, <1>10 DEF IInv

\* v turns the list around; the row under the cursor stays under it.
LEMMA ReverseOrderKeeps ==
    ASSUME IInv, ReverseOrder
    PROVE  IInv'
<1>1. Net(net) /\ Pane(m, net) /\ m \in Model /\ Window(m) /\ Distinct1(m.rows)
  BY DEF IInv, Screen
<1>2. UNCHANGED <<d, quitting, box, net>>
  BY DEF ReverseOrder, ListKey, Key
<1>3. PICK r \in BOOLEAN : r = ~m.reversed
  OBVIOUS
<1>4. PICK k : k = [m EXCEPT !.reversed = r]
  OBVIOUS
<1>5. m' = ApplyRows(k, m.rows)
  BY <1>3, <1>4 DEF ReverseOrder
<1>6. /\ k \in Model /\ k.rows = m.rows /\ k.cursor = m.cursor
      /\ k.threadID = m.threadID /\ k.thread = m.thread
  BY <1>1, <1>4 DEF Model
<1>7. m.rows \in Seq(Item) /\ m.cursor \in Nat /\ Len(m.rows) \in Nat
  BY <1>1 DEF Model
<1>8. /\ m' \in Model /\ Window(m') /\ Distinct1(m'.rows)
      /\ m'.threadID = k.threadID /\ m'.thread = k.thread
      /\ HasRow(k) /\ (\E i \in DOMAIN m.rows : m.rows[i] = RowOf(k)) =>
           HasRow(m') /\ RowOf(m') = RowOf(k)
      /\ m.rows = <<>> => ~HasRow(m')
  BY <1>1, <1>5, <1>6, <1>7, ApplyRowsShows
<1>9. SelectedThread(m') = SelectedThread(m)
  <2>1. CASE HasRow(m)
    <3>1. HasRow(k) /\ RowOf(k) = RowOf(m)
      BY <1>6, <2>1 DEF HasRow, RowOf
    <3>2. m.cursor + 1 \in DOMAIN m.rows /\ m.rows[m.cursor + 1] = RowOf(k)
      BY <1>6, <1>7, <2>1 DEF HasRow, RowOf
    <3>3. HasRow(m') /\ RowOf(m') = RowOf(m)
      BY <1>8, <3>1, <3>2
    <3> QED
      BY <1>1, <1>8, <2>1, <3>3, SelectedIs
  <2>2. CASE ~HasRow(m)
    <3>1. Len(m.rows) = 0
      BY <1>1, <1>7, <2>2 DEF Window, HasRow, Greater
    <3>2. m.rows = <<>>
      BY <1>7, <3>1
    <3> QED
      BY <1>1, <1>8, <2>2, <3>2, SelectedIs
  <2> QED
    BY <2>1, <2>2
<1>10. Pane(m', net')
  BY <1>1, <1>2, <1>6, <1>8, <1>9 DEF Pane
<1> QED
  BY <1>2, <1>8, <1>10 DEF IInv, Screen

\* The keys of the box
LEMMA BoxKeysKeep ==
    ASSUME IInv, Type \/ SendKey \/ CancelKey
    PROVE  IInv'
<1>1. Net(net) /\ Screen(m, net) /\ Proper(net)
  BY DEF IInv, Net, Proper
<1>2. UNCHANGED <<m, d, quitting>>
  BY DEF Type, SendKey, CancelKey, BoxKey, Key
<1>3. CASE Type
  BY <1>2, <1>3 DEF Type, IInv
<1>4. CASE CancelKey
  BY <1>2, <1>4 DEF CancelKey, IInv, Closed
<1>5. CASE SendKey
  <2>1. Proper(ComposeSend) /\ Ticks(ComposeSend) = {}
    BY MessageIsProper DEF ComposeSend, Ticks
  <2>2. Run(net, ComposeSend) /\ UNCHANGED box
    BY <1>5 DEF SendKey
  <2>3. Screen(m', net') /\ Net(net')
    BY <1>1, <1>2, <2>1, <2>2, RanKeeps
  <2> QED
    BY <1>2, <2>2, <2>3 DEF IInv
<1> QED
  BY <1>3, <1>4, <1>5

\* A new height moves the window and not the cursor.
LEMMA ResizeKeeps ==
    ASSUME IInv, NEW h \in Heights, Resize(h)
    PROVE  IInv'
<1>1. Net(net) /\ Pane(m, net) /\ m \in Model /\ Window(m) /\ Distinct1(m.rows)
  BY DEF IInv, Screen
<1>2. UNCHANGED <<d, quitting, box, net>>
  BY DEF Resize, Key
<1>3. h \in Nat
  BY TuiAssumption
<1>4. PICK k : k = [m EXCEPT !.height = h]
  OBVIOUS
<1>5. m' = Clamp(k)
  BY <1>4 DEF Resize
<1>6. /\ k \in Model /\ k.rows = m.rows /\ k.cursor = m.cursor
      /\ k.threadID = m.threadID /\ k.thread = m.thread
  BY <1>1, <1>3, <1>4 DEF Model
<1>7. m' \in Model /\ Window(m') /\ SameBut(m', k) /\ (OnARow(k) => m'.cursor = k.cursor)
  BY <1>5, <1>6, ClampFits
<1>8. OnARow(k)
  BY <1>1, <1>6 DEF OnARow, Window
<1>9. /\ m'.rows = m.rows /\ m'.cursor = m.cursor
      /\ m'.threadID = m.threadID /\ m'.thread = m.thread
  BY <1>6, <1>7, <1>8 DEF SameBut
<1>10. SelectedThread(m') = SelectedThread(m)
  BY <1>9 DEF SelectedThread
<1>11. Pane(m', net') /\ Distinct1(m'.rows)
  BY <1>1, <1>2, <1>9, <1>10 DEF Pane
<1> QED
  BY <1>2, <1>7, <1>11, <1>1 DEF IInv, Screen

\* At first nothing is shown, and everything is asked for.
LEMMA InitIInv ==
    ASSUME Init
    PROVE  IInv
<1>1. PICK none \in Seq(Item) : none = <<>>
  <2>1. <<>> \in Seq(Item)
    OBVIOUS
  <2> QED
    BY <2>1, Zenon
<1>2. PICK no \in BOOLEAN : no = FALSE
  OBVIOUS
<1>3. m = [gran |-> "message", reversed |-> no, rows |-> none, cursor |-> 0,
           scroll |-> 0, threadID |-> 0, thread |-> none, height |-> 0]
  BY <1>1, <1>2, Zenon DEF Init
<1>4. /\ m \in Model /\ m.rows = none /\ m.cursor = 0 /\ m.scroll = 0
      /\ m.threadID = 0 /\ m.thread = none
  BY <1>3 DEF Model, Granularity
<1>5. Len(none) = 0 /\ Distinct1(none)
  BY <1>1 DEF Distinct1
<1>6. Window(m)
  <2>1. Visible(m) \in Nat /\ Visible(m) > 0
    BY <1>4, VisibleIsPositive
  <2> QED
    BY <1>4, <1>5, <2>1 DEF Window, Greater
<1>7. Screen(m, net)
  BY <1>1, <1>4, <1>5, <1>6 DEF Screen, Pane
<1>8. net = Refresh(m) /\ Proper(Refresh(m)) /\ Ticks(Refresh(m)) = {Message("tick")}
  BY <1>4, RefreshTicksOnce DEF Init
<1>9. Net(net)
  BY <1>8 DEF Net, Proper
<1>10. Consistent(d) /\ box \in [active : BOOLEAN, blank : BOOLEAN] /\ quitting \in BOOLEAN
  BY InitialAssumption DEF Init, Closed
<1> QED
  BY <1>7, <1>9, <1>10 DEF IInv

\* Every step keeps the invariant.
LEMMA NextIInv ==
    ASSUME IInv, [Next]_vars
    PROVE  IInv'
<1>1. CASE UNCHANGED vars
  BY <1>1 DEF IInv, vars
<1>2. CASE \E t \in DOMAIN d.threads : OtherAppends(t)
  BY <1>2, OtherAppendsKeeps
<1>3. CASE Serving
  BY <1>3, ServeKeeps DEF Serving
<1>4. CASE \E e \in net : RequestFails(e)
  BY <1>4, RequestFailsKeeps
<1>5. CASE Handling
  BY <1>5, RowsFetchedKeeps, ThreadFetchedKeeps, ComposeSentKeeps, SentKeeps, TickKeeps
     DEF Handling
<1>6. CASE Up \/ Down \/ OpenThread
  BY <1>6, MovesKeep
<1>7. CASE OpenReply
  BY <1>7, OpenReplyKeeps
<1>8. CASE Regroup
  BY <1>8, RegroupKeeps
<1>9. CASE ReverseOrder
  BY <1>9, ReverseOrderKeeps
<1>10. CASE Type \/ SendKey \/ CancelKey
  BY <1>10, BoxKeysKeep
<1>11. CASE \E h \in Heights : Resize(h)
  BY <1>11, ResizeKeeps
<1>12. CASE Quit
  BY <1>12 DEF Quit, Key, IInv
<1> QED
  BY <1>1, <1>2, <1>3, <1>4, <1>5, <1>6, <1>7, <1>8, <1>9, <1>10, <1>11, <1>12 DEF Next

\* The inductive invariant holds of the screen whatever is typed and however
\* late, reordered or lost the answers are.
THEOREM Invariance == Spec => []IInv
<1>1. Init => IInv
  BY InitIInv
<1>2. IInv /\ [Next]_vars => IInv'
  BY NextIInv
<1> QED
  BY <1>1, <1>2, PTL DEF Spec

\* The cursor is on a row, the row in the window, and the window as full as the
\* list allows, for every height and any list.
THEOREM WindowFits == Spec => []TypeOK
<1>1. IInv => TypeOK
  BY DEF IInv, Screen, Window, Distinct1, Model, TypeOK
<1> QED
  BY <1>1, Invariance, PTL

\* There is always one tick in flight.
THEOREM ClockIsOne == Spec => []OneTick
<1>1. IInv => OneTick
  <2>1. SUFFICES ASSUME IInv
                 PROVE  OneTick
    OBVIOUS
  <2>2. PICK e : Ticks(net) = {e}
    BY <2>1 DEF IInv, Net
  <2> QED
    BY <2>2, FS_Singleton DEF OneTick, Ticks
<1> QED
  BY <1>1, Invariance, PTL

\* The pane and the target of a reply follow the selection.
THEOREM PaneFollows == Spec => []PaneIsTheSelection
<1>1. IInv => PaneIsTheSelection
  BY DEF IInv, Screen, Pane, Own, Asking, Waiting, PaneIsTheSelection
<1> QED
  BY <1>1, Invariance, PTL

=============================================================================

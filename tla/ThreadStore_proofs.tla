-------------------------- MODULE ThreadStore_proofs --------------------------
(* Lemmas about ThreadStore: what the queries return and what a call of the *)
(* store does to a database.                                                *)
EXTENDS ThreadStore, FiniteSetTheorems, SequenceTheorems, TLAPS

----------------------------------------------------------------------------
(* ORDER BY *)

\* Before orders S: any two of its elements, and no element with itself.
Orders(Before, S) ==
    /\ \A x \in S : <<x, x>> \notin Before
    /\ \A x, y \in S : x # y => <<x, y>> \in Before \/ <<y, x>> \in Before
    /\ \A x, y, z \in S : <<x, y>> \in Before /\ <<y, z>> \in Before => <<x, z>> \in Before

\* Ordered lists each element of a finite set once, in the order given.
LEMMA OrderedLists ==
    ASSUME NEW S, IsFiniteSet(S), NEW Before, Orders(Before, S)
    PROVE  /\ Cardinality(S) \in Nat
           /\ Ordered(S, Before) \in [1 .. Cardinality(S) -> S]
           /\ \A x \in S : \E k \in 1 .. Cardinality(S) : Ordered(S, Before)[k] = x
           /\ \A i, j \in 1 .. Cardinality(S) :
                 i < j => <<Ordered(S, Before)[i], Ordered(S, Before)[j]>> \in Before
<1> DEFINE n == Cardinality(S)
           Below(x) == {y \in S : <<y, x>> \in Before}
           rank == [x \in S |-> Cardinality(Below(x)) + 1]
<1>1. n \in Nat
  BY FS_CardinalityType
<1>2. ASSUME NEW x \in S
      PROVE  /\ IsFiniteSet(Below(x)) /\ Cardinality(Below(x)) \in Nat
             /\ Cardinality(Below(x)) < n
  <2>1. Below(x) \in SUBSET S /\ x \notin Below(x)
    BY DEF Orders
  <2>2. /\ IsFiniteSet(Below(x)) /\ Cardinality(Below(x)) <= n
        /\ n = Cardinality(Below(x)) => S = Below(x)
    BY <2>1, FS_Subset
  <2>3. Cardinality(Below(x)) \in Nat
    BY <2>2, FS_CardinalityType
  <2>4. S # Below(x)
    BY <2>1
  <2> QED
    BY <1>1, <2>2, <2>3, <2>4
<1>3. ASSUME NEW x \in S, NEW y \in S, <<x, y>> \in Before
      PROVE  Cardinality(Below(x)) < Cardinality(Below(y))
  <2>1. Below(x) \cup {x} \in SUBSET Below(y)
    BY <1>3 DEF Orders
  <2>2. Cardinality(Below(x) \cup {x}) <= Cardinality(Below(y))
    BY <1>2, <2>1, FS_Subset
  <2>3. x \notin Below(x)
    BY DEF Orders
  <2>4. Cardinality(Below(x) \cup {x}) = Cardinality(Below(x)) + 1
    BY <1>2, <2>3, FS_AddElement
  <2>5. Cardinality(Below(x)) \in Nat /\ Cardinality(Below(y)) \in Nat
    BY <1>2
  <2> HIDE DEF Below
  <2> QED
    BY <2>2, <2>4, <2>5
<1> HIDE DEF Below
<1>4. rank \in [S -> 1 .. n]
  BY <1>1, <1>2
<1>5. ASSUME NEW x \in S, NEW y \in S, rank[x] = rank[y]
      PROVE  x = y
  <2>1. Cardinality(Below(x)) = Cardinality(Below(y))
    BY <1>2, <1>5
  <2>2. Cardinality(Below(x)) \in Nat /\ Cardinality(Below(y)) \in Nat
    BY <1>2
  <2>3. ~(<<x, y>> \in Before) /\ ~(<<y, x>> \in Before)
    BY <1>3, <2>1, <2>2
  <2> QED
    BY <2>3 DEF Orders
<1>6. rank \in Injection(S, 1 .. n)
  BY <1>4, <1>5 DEF Injection, IsInjective
<1>7. IsFiniteSet(1 .. n) /\ Cardinality(1 .. n) = n
  BY <1>1, FS_Interval
<1>8. rank \in Surjection(S, 1 .. n)
  BY <1>6, <1>7, FS_Injection
<1>9. \A k \in 1 .. n : \E x \in S : rank[x] = k
  BY <1>8 DEF Surjection
<1> DEFINE f == Ordered(S, Before)
<1>10. f = [k \in 1 .. n |-> CHOOSE x \in S : Cardinality(Below(x)) = k - 1]
  BY DEF Ordered, Below
<1>11. ASSUME NEW k \in 1 .. n
       PROVE  f[k] \in S /\ rank[f[k]] = k
  <2>1. PICK x \in S : rank[x] = k
    BY <1>9
  <2>2. Cardinality(Below(x)) = k - 1
    BY <1>2, <2>1
  <2>3. f[k] = CHOOSE y \in S : Cardinality(Below(y)) = k - 1
    BY <1>10
  <2>4. f[k] \in S /\ Cardinality(Below(f[k])) = k - 1
    BY <2>2, <2>3
  <2> QED
    BY <1>1, <2>4
<1> HIDE DEF f, rank
<1>12. f \in [1 .. n -> S]
  BY <1>10, <1>11
<1>13. \A x \in S : \E k \in 1 .. n : f[k] = x
  BY <1>4, <1>5, <1>11
<1>14. ASSUME NEW i \in 1 .. n, NEW j \in 1 .. n, i < j
       PROVE  <<f[i], f[j]>> \in Before
  <2>1. f[i] # f[j]
    BY <1>11, <1>14
  <2>2. ~(<<f[j], f[i]>> \in Before)
    <3> SUFFICES ASSUME <<f[j], f[i]>> \in Before PROVE FALSE
      OBVIOUS
    <3>1. Cardinality(Below(f[j])) < Cardinality(Below(f[i]))
      BY <1>3, <1>11
    <3>2. rank[f[j]] = Cardinality(Below(f[j])) + 1 /\ rank[f[i]] = Cardinality(Below(f[i])) + 1
      BY <1>11 DEF rank
    <3> QED
      BY <1>2, <1>11, <1>14, <3>1, <3>2
  <2> QED
    BY <1>11, <2>1, <2>2 DEF Orders
<1> QED
  BY <1>1, <1>12, <1>13, <1>14 DEF f

\* The pairs of numbers of which the first is smaller.
LEMMA IdsAreOrdered ==
    ASSUME NEW S \in SUBSET Nat
    PROVE  Orders({p \in S \X S : p[1] < p[2]}, S)
<1> DEFINE R == {p \in S \X S : p[1] < p[2]}
<1>1. \A x, y \in S : <<x, y>> \in R <=> x < y
  OBVIOUS
<1> HIDE DEF R
<1> QED
  BY <1>1 DEF Orders

\* The ids of a set of rows in their order.
LEMMA InIdOrderLists ==
    ASSUME NEW S \in SUBSET Nat, IsFiniteSet(S)
    PROVE  /\ Cardinality(S) \in Nat
           /\ InIdOrder(S) \in [1 .. Cardinality(S) -> S]
           /\ \A x \in S : \E k \in 1 .. Cardinality(S) : InIdOrder(S)[k] = x
           /\ \A i, j \in 1 .. Cardinality(S) : i < j => InIdOrder(S)[i] < InIdOrder(S)[j]
<1> DEFINE R == {p \in S \X S : p[1] < p[2]}
<1>1. \A x, y \in S : <<x, y>> \in R <=> x < y
  OBVIOUS
<1>2. InIdOrder(S) = Ordered(S, R)
  BY DEF InIdOrder
<1>3. Orders(R, S)
  BY IdsAreOrdered
<1> DEFINE f == Ordered(S, R)
<1> HIDE DEF R
<1>4. /\ Cardinality(S) \in Nat
      /\ f \in [1 .. Cardinality(S) -> S]
      /\ \A x \in S : \E k \in 1 .. Cardinality(S) : f[k] = x
      /\ \A i, j \in 1 .. Cardinality(S) : i < j => <<f[i], f[j]>> \in R
  BY <1>3, OrderedLists
<1> HIDE DEF f
<1>5. \A i, j \in 1 .. Cardinality(S) : i < j => f[i] < f[j]
  BY <1>1, <1>4
<1> QED
  BY <1>2, <1>4, <1>5 DEF f

\* What a SELECT returns is the rows it asks for.
LEMMA SelectLists ==
    ASSUME NEW T, NEW rows \in Seq(T), NEW S \in SUBSET DOMAIN rows
    PROVE  /\ Select(rows, S) \in Seq(T)
           /\ Len(Select(rows, S)) = Cardinality(S)
           /\ \A k \in 1 .. Cardinality(S) : \E i \in S : Select(rows, S)[k] = rows[i]
           /\ \A i \in S : \E k \in 1 .. Cardinality(S) : Select(rows, S)[k] = rows[i]
<1>1. DOMAIN rows = 1 .. Len(rows) /\ Len(rows) \in Nat
  OBVIOUS
<1>2. S \in SUBSET Nat /\ IsFiniteSet(S)
  <2>1. IsFiniteSet(1 .. Len(rows)) /\ S \in SUBSET (1 .. Len(rows))
    BY <1>1, FS_Interval
  <2> QED
    BY <1>1, <2>1, FS_Subset
<1> DEFINE ids == InIdOrder(S)
<1>3. /\ Cardinality(S) \in Nat
      /\ ids \in [1 .. Cardinality(S) -> S]
      /\ \A x \in S : \E k \in 1 .. Cardinality(S) : ids[k] = x
  BY <1>2, InIdOrderLists
<1>4. Select(rows, S) = [k \in 1 .. Cardinality(S) |-> rows[ids[k]]]
  BY <1>3 DEF Select, RowsAt
<1> HIDE DEF ids
<1>5. \A k \in 1 .. Cardinality(S) : rows[ids[k]] \in T
  <2>1. \A k \in 1 .. Cardinality(S) : ids[k] \in DOMAIN rows
    BY Zenon, <1>3
  <2> QED
    BY <2>1
<1>6. Select(rows, S) \in Seq(T) /\ Len(Select(rows, S)) = Cardinality(S)
  BY <1>3, <1>4, <1>5
<1>7. \A k \in 1 .. Cardinality(S) : Select(rows, S)[k] = rows[ids[k]]
  BY <1>4
<1> HIDE <1>4
<1> QED
  BY <1>3, <1>6, <1>7

----------------------------------------------------------------------------
(* A thread as a log *)

\* The messages of t among the first n of the database.
Among(d, t, n) == {j \in 1 .. n : d.messages[j].thread = t}
CountTo(d, t, n) == Cardinality(Among(d, t, n))

\* Counting message by message.
LEMMA Counting ==
    ASSUME NEW d, NEW t, NEW n \in Nat
    PROVE  /\ IsFiniteSet(Among(d, t, n))
           /\ CountTo(d, t, n) \in Nat
           /\ CountTo(d, t, 0) = 0
           /\ CountTo(d, t, n + 1) =
                 CountTo(d, t, n) + (IF d.messages[n + 1].thread = t THEN 1 ELSE 0)
           /\ \A i \in 0 .. n : CountTo(d, t, i) <= CountTo(d, t, n)
<1> DEFINE Upto(i) == Among(d, t, i)
<1> USE DEF Among
<1>1. \A i \in Nat : IsFiniteSet(Upto(i)) /\ Cardinality(Upto(i)) \in Nat
  <2> SUFFICES ASSUME NEW i \in Nat
               PROVE  IsFiniteSet(Upto(i)) /\ Cardinality(Upto(i)) \in Nat
    OBVIOUS
  <2>1. IsFiniteSet(1 .. i) /\ Upto(i) \in SUBSET (1 .. i)
    BY FS_Interval
  <2> QED
    BY <2>1, FS_Subset, FS_CardinalityType
<1>2. Cardinality(Upto(0)) = 0
  <2>1. Upto(0) = {}
    OBVIOUS
  <2> QED
    BY <2>1, FS_EmptySet
<1>3. Cardinality(Upto(n + 1)) =
        Cardinality(Upto(n)) + (IF d.messages[n + 1].thread = t THEN 1 ELSE 0)
  <2>1. CASE d.messages[n + 1].thread = t
    <3>1. Upto(n + 1) = Upto(n) \cup {n + 1} /\ n + 1 \notin Upto(n)
      BY <2>1
    <3> QED
      BY <1>1, <2>1, <3>1, FS_AddElement
  <2>2. CASE d.messages[n + 1].thread # t
    <3>1. Upto(n + 1) = Upto(n)
      BY <2>2
    <3>2. Cardinality(Upto(n)) \in Nat
      BY <1>1
    <3> HIDE DEF Upto, Among
    <3> QED
      BY <2>2, <3>1, <3>2
  <2> QED
    BY <2>1, <2>2
<1>4. \A i \in 0 .. n : Cardinality(Upto(i)) <= Cardinality(Upto(n))
  <2> SUFFICES ASSUME NEW i \in 0 .. n
               PROVE  Cardinality(Upto(i)) <= Cardinality(Upto(n))
    OBVIOUS
  <2>1. Upto(i) \in SUBSET Upto(n)
    OBVIOUS
  <2> QED
    BY <1>1, <2>1, FS_Subset
<1> HIDE DEF Upto, Among
<1>5. \A i : CountTo(d, t, i) = Cardinality(Upto(i))
  BY DEF CountTo, Upto
<1>6. IsFiniteSet(Among(d, t, n))
  BY <1>1 DEF Upto
<1>7. CountTo(d, t, n) \in Nat /\ CountTo(d, t, 0) = 0
  BY <1>1, <1>2, <1>5
<1>8. /\ CountTo(d, t, n) = Cardinality(Upto(n))
      /\ CountTo(d, t, n + 1) = Cardinality(Upto(n + 1))
  BY <1>5
<1>9. \A i \in 0 .. n : CountTo(d, t, i) <= CountTo(d, t, n)
  BY <1>4, <1>5
<1> QED
  BY <1>3, <1>6, <1>7, <1>8, <1>9

\* The last seq of a thread is the number of its messages.
LEMMA LastSeqIsCount ==
    ASSUME NEW d \in Database, Logs(d), NEW t
    PROVE  LastMessageSeq(d, t) = CountTo(d, t, Len(d.messages))
<1> DEFINE n == Len(d.messages)  S == MessagesOf(d, t)  N == CountTo(d, t, n)
<1>1. d.messages \in Seq(MessageRow) /\ n \in Nat /\ DOMAIN d.messages = 1 .. n
  BY DEF Database
<1>2. S = Among(d, t, n) /\ S \in SUBSET Nat
  BY <1>1 DEF MessagesOf, Among
<1>3. IsFiniteSet(S) /\ Cardinality(S) = N /\ N \in Nat
  <2>1. IsFiniteSet(Among(d, t, n)) /\ N \in Nat
    BY <1>1, Counting
  <2> QED
    BY <1>2, <2>1 DEF CountTo
<1>4. SeqsOf(d, t) = {d.messages[i].seq : i \in S}
  BY <1>1 DEF SeqsOf, ToSet, MessagesOf
<1>5. \A i \in S : d.messages[i].seq = CountTo(d, t, i) /\ i \in 1 .. n
  BY <1>1, <1>2 DEF Logs, CountTo, Among
<1>6. \A i \in S : d.messages[i].seq <= N
  <2>1. \A i \in 0 .. n : CountTo(d, t, i) <= CountTo(d, t, n)
    BY <1>1, Counting
  <2> QED
    BY <1>1, <1>5, <2>1
<1>7. CASE S = {}
  <2>1. N = 0
    BY <1>3, <1>7, FS_EmptySet
  <2>2. SeqsOf(d, t) = {}
    BY <1>4, <1>7
  <2> QED
    BY <2>1, <2>2 DEF LastMessageSeq
<1>8. CASE S # {}
  <2> DEFINE L == InIdOrder(S)[N]
  <2>1. N # 0
    BY <1>3, <1>8, FS_EmptySet
  <2>2. /\ InIdOrder(S) \in [1 .. N -> S]
        /\ \A x \in S : \E k \in 1 .. N : InIdOrder(S)[k] = x
        /\ \A i, j \in 1 .. N : i < j => InIdOrder(S)[i] < InIdOrder(S)[j]
    BY <1>2, <1>3, InIdOrderLists
  <2>3. L \in S
    BY <1>3, <2>1, <2>2
  <2>4. ASSUME NEW x \in S
        PROVE  x <= L
    <3>1. PICK k \in 1 .. N : InIdOrder(S)[k] = x
      BY <2>2
    <3>2. k = N \/ InIdOrder(S)[k] < InIdOrder(S)[N]
      BY <1>3, <2>1, <2>2
    <3> QED
      BY <1>2, <2>3, <3>1, <3>2
  <2> HIDE DEF L
  <2>5. S = Among(d, t, L)
    BY <1>1, <1>2, <2>3, <2>4 DEF Among
  <2>6. CountTo(d, t, L) = N
    BY <1>3, <2>5 DEF CountTo
  <2>7. N \in SeqsOf(d, t) /\ \A x \in SeqsOf(d, t) : x \in Nat /\ x <= N
    <3>1. N \in SeqsOf(d, t)
      BY <1>4, <1>5, <2>3, <2>6
    <3>2. \A i \in S : d.messages[i].seq \in Nat
      <4>1. \A i \in S : CountTo(d, t, i) \in Nat
        BY <1>1, <1>5, Counting
      <4> QED
        BY <1>5, <4>1
    <3> QED
      BY <1>4, <1>6, <3>1, <3>2
  <2>8. \A s \in SeqsOf(d, t) : (\A x \in SeqsOf(d, t) : x <= s) => s = N
    BY <1>3, <2>7
  <2> QED
    BY <2>7, <2>8 DEF LastMessageSeq
<1> QED
  BY <1>7, <1>8

----------------------------------------------------------------------------
(* What an INSERT does *)

With(d, table, row) == [d EXCEPT ![table] = Append(@, row)]

\* Before it, after it: what a row added to a table changes.
Grown(d, e, table, row) ==
    /\ e[table] = Append(d[table], row)
    /\ Len(d[table]) \in Nat
    /\ DOMAIN d[table] = 1 .. Len(d[table])
    /\ DOMAIN e[table] = 1 .. Len(d[table]) + 1
    /\ \A i \in 1 .. Len(d[table]) : e[table][i] = d[table][i]
    /\ e[table][Len(d[table]) + 1] = row

\* The tables of a database.
LEMMA TablesAre ==
    ASSUME NEW d \in Database
    PROVE  /\ d.channels \in Seq(ChannelRow) /\ d["channels"] = d.channels
           /\ d.threads \in Seq(ThreadRow) /\ d["threads"] = d.threads
           /\ d.messages \in Seq(MessageRow) /\ d["messages"] = d.messages
           /\ d.reactions \in Seq(ReactionRow) /\ d["reactions"] = d.reactions
BY DEF Database

\* Keyed, table by table.
LEMMA KeyedIs ==
    ASSUME NEW d \in Database
    PROVE  Keyed(d) <=>
               /\ \A i \in DOMAIN d.channels : d.channels[i].id = i
               /\ \A i \in DOMAIN d.threads : d.threads[i].id = i /\ d.threads[i].channel \in DOMAIN d.channels
               /\ \A i \in DOMAIN d.messages : d.messages[i].id = i /\ d.messages[i].thread \in DOMAIN d.threads
               /\ \A i \in DOMAIN d.reactions : d.reactions[i].id = i /\ d.reactions[i].message \in DOMAIN d.messages
<1> DEFINE Ids(t) == \A i \in DOMAIN d[t] : d[t][i].id = i
<1>1. (\A t \in Table : Ids(t)) <=>
        Ids("channels") /\ Ids("threads") /\ Ids("messages") /\ Ids("reactions")
  <2> HIDE DEF Ids
  <2> QED
    BY Zenon DEF Table
<1>2. /\ Ids("channels") <=> \A i \in DOMAIN d.channels : d.channels[i].id = i
      /\ Ids("threads") <=> \A i \in DOMAIN d.threads : d.threads[i].id = i
      /\ Ids("messages") <=> \A i \in DOMAIN d.messages : d.messages[i].id = i
      /\ Ids("reactions") <=> \A i \in DOMAIN d.reactions : d.reactions[i].id = i
  BY TablesAre
<1>3. Keyed(d) <=>
        /\ \A t \in Table : Ids(t)
        /\ \A i \in DOMAIN d.threads : d.threads[i].channel \in DOMAIN d.channels
        /\ \A i \in DOMAIN d.messages : d.messages[i].thread \in DOMAIN d.threads
        /\ \A i \in DOMAIN d.reactions : d.reactions[i].message \in DOMAIN d.messages
  BY Zenon DEF Keyed
<1> HIDE DEF Ids
<1> QED
  BY <1>1, <1>2, <1>3

\* The log condition, message by message.
LEMMA LogsIs ==
    ASSUME NEW d
    PROVE  Logs(d) <=>
               \A i \in DOMAIN d.messages :
                   /\ d.messages[i].seq = CountTo(d, d.messages[i].thread, i)
                   /\ d.messages[i].parent # 0 =>
                        /\ d.messages[i].parent < i
                        /\ d.messages[d.messages[i].parent].thread = d.messages[i].thread
BY Zenon DEF Logs, CountTo, Among

\* A count depends on the messages counted.
LEMMA SameCount ==
    ASSUME NEW d, NEW e, NEW t, NEW n \in Nat,
           \A j \in 1 .. n : d.messages[j].thread = e.messages[j].thread
    PROVE  CountTo(d, t, n) = CountTo(e, t, n)
<1>1. Among(d, t, n) = Among(e, t, n)
  BY DEF Among
<1> QED
  BY <1>1 DEF CountTo

\* The numbers up to the next one.
LEMMA UpToNext ==
    ASSUME NEW n \in Nat
    PROVE  \A i \in 1 .. n + 1 : i \in 1 .. n \/ i = n + 1
OBVIOUS

\* What is appended to a sequence of T stays one.
LEMMA Appended ==
    ASSUME NEW T, NEW s \in Seq(T), NEW x \in T
    PROVE  Append(s, x) \in Seq(T)
BY AppendProperties

\* A sequence with one more element.
LEMMA AppendedAre ==
    ASSUME NEW T, NEW s \in Seq(T), NEW x \in T, NEW a, a = Append(s, x)
    PROVE  /\ Len(s) \in Nat
           /\ DOMAIN s = 1 .. Len(s) /\ DOMAIN a = 1 .. Len(s) + 1
           /\ \A i \in 1 .. Len(s) : a[i] = s[i]
           /\ a[Len(s) + 1] = x
BY AppendProperties

\* A row added to the channels.
LEMMA WithChannel ==
    ASSUME NEW d \in Database, NEW row \in ChannelRow, NEW e, e = With(d, "channels", row)
    PROVE  /\ e \in Database
           /\ Grown(d, e, "channels", row)
           /\ e.threads = d.threads /\ e.messages = d.messages /\ e.reactions = d.reactions
<1> DEFINE s == Append(d.channels, row)
<1>3. d.channels \in Seq(ChannelRow) /\ d["channels"] = d.channels
  BY Zenon, TablesAre
<1>4. s \in Seq(ChannelRow) /\ e = [d EXCEPT !["channels"] = s]
  BY Zenon, <1>3, Appended DEF With
<1>5. /\ e \in Database
      /\ e.channels = s
      /\ e.threads = d.threads /\ e.messages = d.messages /\ e.reactions = d.reactions
  <2> DEFINE A == Seq(ChannelRow)  B == Seq(ThreadRow)  C == Seq(MessageRow)  D == Seq(ReactionRow)
             DB == [channels : A, threads : B, messages : C, reactions : D]
  <2>1. d \in DB /\ s \in A /\ Database = DB
    BY Zenon, <1>4 DEF Database
  <2> HIDE DEF s, A, B, C, D
  <2>2. e \in DB /\ e.channels = s
    BY <1>4, <2>1
  <2>3. e.threads = d.threads /\ e.messages = d.messages /\ e.reactions = d.reactions
    BY <1>4, <2>1
  <2> QED
    BY Zenon, <2>1, <2>2, <2>3
<1>1. e.channels = Append(d.channels, row)
  BY <1>5
<1>2. e.threads = d.threads /\ e.messages = d.messages /\ e.reactions = d.reactions
  BY <1>5
<1>6. /\ Len(d.channels) \in Nat
      /\ DOMAIN d.channels = 1 .. Len(d.channels)
      /\ DOMAIN e.channels = 1 .. Len(d.channels) + 1
      /\ \A i \in 1 .. Len(d.channels) : e.channels[i] = d.channels[i]
      /\ e.channels[Len(d.channels) + 1] = row
  BY <1>1, <1>3, AppendProperties
<1>7. Grown(d, e, "channels", row)
  BY <1>1, <1>6 DEF Grown
<1> QED
  BY <1>2, <1>5, <1>7

\* A row added to the threads.
LEMMA WithThread ==
    ASSUME NEW d \in Database, NEW row \in ThreadRow, NEW e, e = With(d, "threads", row)
    PROVE  /\ e \in Database
           /\ Grown(d, e, "threads", row)
           /\ e.channels = d.channels /\ e.messages = d.messages /\ e.reactions = d.reactions
<1> DEFINE s == Append(d.threads, row)
<1>3. d.threads \in Seq(ThreadRow) /\ d["threads"] = d.threads
  BY Zenon, TablesAre
<1>4. s \in Seq(ThreadRow) /\ e = [d EXCEPT !["threads"] = s]
  BY Zenon, <1>3, Appended DEF With
<1>5. /\ e \in Database
      /\ e.threads = s
      /\ e.channels = d.channels /\ e.messages = d.messages /\ e.reactions = d.reactions
  <2> DEFINE A == Seq(ChannelRow)  B == Seq(ThreadRow)  C == Seq(MessageRow)  D == Seq(ReactionRow)
             DB == [channels : A, threads : B, messages : C, reactions : D]
  <2>1. d \in DB /\ s \in B /\ Database = DB
    BY Zenon, <1>4 DEF Database
  <2> HIDE DEF s, A, B, C, D
  <2>2. e \in DB /\ e.threads = s
    BY <1>4, <2>1
  <2>3. e.channels = d.channels /\ e.messages = d.messages /\ e.reactions = d.reactions
    BY <1>4, <2>1
  <2> QED
    BY Zenon, <2>1, <2>2, <2>3
<1>1. e.threads = Append(d.threads, row)
  BY <1>5
<1>2. e.channels = d.channels /\ e.messages = d.messages /\ e.reactions = d.reactions
  BY <1>5
<1>6. /\ Len(d.threads) \in Nat
      /\ DOMAIN d.threads = 1 .. Len(d.threads)
      /\ DOMAIN e.threads = 1 .. Len(d.threads) + 1
      /\ \A i \in 1 .. Len(d.threads) : e.threads[i] = d.threads[i]
      /\ e.threads[Len(d.threads) + 1] = row
  BY <1>1, <1>3, AppendProperties
<1>7. Grown(d, e, "threads", row)
  BY <1>1, <1>6 DEF Grown
<1> QED
  BY <1>2, <1>5, <1>7

\* A row added to the messages.
LEMMA WithMessage ==
    ASSUME NEW d \in Database, NEW row \in MessageRow, NEW e, e = With(d, "messages", row)
    PROVE  /\ e \in Database
           /\ Grown(d, e, "messages", row)
           /\ e.channels = d.channels /\ e.threads = d.threads /\ e.reactions = d.reactions
<1> DEFINE s == Append(d.messages, row)
<1>3. d.messages \in Seq(MessageRow) /\ d["messages"] = d.messages
  BY Zenon, TablesAre
<1>4. s \in Seq(MessageRow) /\ e = [d EXCEPT !["messages"] = s]
  BY Zenon, <1>3, Appended DEF With
<1>5. /\ e \in Database
      /\ e.messages = s
      /\ e.channels = d.channels /\ e.threads = d.threads /\ e.reactions = d.reactions
  <2> DEFINE A == Seq(ChannelRow)  B == Seq(ThreadRow)  C == Seq(MessageRow)  D == Seq(ReactionRow)
             DB == [channels : A, threads : B, messages : C, reactions : D]
  <2>1. d \in DB /\ s \in C /\ Database = DB
    BY Zenon, <1>4 DEF Database
  <2> HIDE DEF s, A, B, C, D
  <2>2. e \in DB /\ e.messages = s
    BY <1>4, <2>1
  <2>3. e.channels = d.channels /\ e.threads = d.threads /\ e.reactions = d.reactions
    BY <1>4, <2>1
  <2> QED
    BY Zenon, <2>1, <2>2, <2>3
<1>1. e.messages = Append(d.messages, row)
  BY <1>5
<1>2. e.channels = d.channels /\ e.threads = d.threads /\ e.reactions = d.reactions
  BY <1>5
<1>6. /\ Len(d.messages) \in Nat
      /\ DOMAIN d.messages = 1 .. Len(d.messages)
      /\ DOMAIN e.messages = 1 .. Len(d.messages) + 1
      /\ \A i \in 1 .. Len(d.messages) : e.messages[i] = d.messages[i]
      /\ e.messages[Len(d.messages) + 1] = row
  BY <1>1, <1>3, AppendProperties
<1>7. Grown(d, e, "messages", row)
  BY <1>1, <1>6 DEF Grown
<1> QED
  BY <1>2, <1>5, <1>7

\* A row added to the reactions.
LEMMA WithReaction ==
    ASSUME NEW d \in Database, NEW row \in ReactionRow, NEW e, e = With(d, "reactions", row)
    PROVE  /\ e \in Database
           /\ Grown(d, e, "reactions", row)
           /\ e.channels = d.channels /\ e.threads = d.threads /\ e.messages = d.messages
<1> DEFINE s == Append(d.reactions, row)
<1>3. d.reactions \in Seq(ReactionRow) /\ d["reactions"] = d.reactions
  BY Zenon, TablesAre
<1>4. s \in Seq(ReactionRow) /\ e = [d EXCEPT !["reactions"] = s]
  BY Zenon, <1>3, Appended DEF With
<1>5. /\ e \in Database
      /\ e.reactions = s
      /\ e.channels = d.channels /\ e.threads = d.threads /\ e.messages = d.messages
  <2> DEFINE A == Seq(ChannelRow)  B == Seq(ThreadRow)  C == Seq(MessageRow)  D == Seq(ReactionRow)
             DB == [channels : A, threads : B, messages : C, reactions : D]
  <2>1. d \in DB /\ s \in D /\ Database = DB
    BY Zenon, <1>4 DEF Database
  <2> HIDE DEF s, A, B, C, D
  <2>2. e \in DB /\ e.reactions = s
    BY <1>4, <2>1
  <2>3. e.channels = d.channels /\ e.threads = d.threads /\ e.messages = d.messages
    BY <1>4, <2>1
  <2> QED
    BY Zenon, <2>1, <2>2, <2>3
<1>1. e.reactions = Append(d.reactions, row)
  BY <1>5
<1>2. e.channels = d.channels /\ e.threads = d.threads /\ e.messages = d.messages
  BY <1>5
<1>6. /\ Len(d.reactions) \in Nat
      /\ DOMAIN d.reactions = 1 .. Len(d.reactions)
      /\ DOMAIN e.reactions = 1 .. Len(d.reactions) + 1
      /\ \A i \in 1 .. Len(d.reactions) : e.reactions[i] = d.reactions[i]
      /\ e.reactions[Len(d.reactions) + 1] = row
  BY <1>1, <1>3, AppendProperties
<1>7. Grown(d, e, "reactions", row)
  BY <1>1, <1>6 DEF Grown
<1> QED
  BY <1>2, <1>5, <1>7

\* The next message of a thread is one more.
LEMMA CountNext ==
    ASSUME NEW d, NEW t, NEW n \in Nat, d.messages[n + 1].thread = t
    PROVE  CountTo(d, t, n + 1) = CountTo(d, t, n) + 1
<1>1. IsFiniteSet(Among(d, t, n))
  BY Counting
<1>2. Among(d, t, n + 1) = Among(d, t, n) \cup {n + 1} /\ n + 1 \notin Among(d, t, n)
  BY DEF Among
<1> QED
  BY <1>1, <1>2, FS_AddElement DEF CountTo

\* What is said of one table depends on that table alone.
LogRows(ms) ==
    \A i \in DOMAIN ms :
        LET m == ms[i]
        IN  /\ m.seq = Cardinality({j \in 1 .. i : ms[j].thread = m.thread})
            /\ m.parent # 0 => /\ m.parent < i
                               /\ ms[m.parent].thread = m.thread

Distinct(cs) ==
    \A i, j \in DOMAIN cs :
        i # j => \/ cs[i].name # cs[j].name
                 \/ cs[i].repo # cs[j].repo

\* So two databases that share it agree.
LEMMA SameTables ==
    ASSUME NEW d, NEW e
    PROVE  /\ e.messages = d.messages /\ Logs(d) => Logs(e)
           /\ e.channels = d.channels /\ DistinctChannels(d) => DistinctChannels(e)
<1>1. \A x : Logs(x) <=> LogRows(x.messages)
  BY DEF Logs, LogRows
<1>2. \A x : DistinctChannels(x) <=> Distinct(x.channels)
  BY DEF DistinctChannels, Distinct
<1> QED
  BY <1>1, <1>2

\* A new channel of a name that its repository does not have.
LEMMA ChannelAdded ==
    ASSUME NEW d, Consistent(d), NEW row \in ChannelRow,
           row.id = Len(d.channels) + 1, UniqueChannel(d, row),
           NEW e, e = With(d, "channels", row)
    PROVE  Consistent(e)
<1>1. d \in Database /\ Keyed(d) /\ Logs(d) /\ DistinctChannels(d)
  BY DEF Consistent
<1>2. /\ e \in Database
      /\ Grown(d, e, "channels", row)
      /\ e.threads = d.threads /\ e.messages = d.messages /\ e.reactions = d.reactions
  BY <1>1, WithChannel
<1>3. /\ Len(d.channels) \in Nat
      /\ DOMAIN d.channels = 1 .. Len(d.channels)
      /\ DOMAIN e.channels = 1 .. Len(d.channels) + 1
      /\ \A i \in 1 .. Len(d.channels) : e.channels[i] = d.channels[i]
      /\ e.channels[Len(d.channels) + 1] = row
  BY <1>1, <1>2, TablesAre DEF Grown
<1>4. Keyed(e)
  <2>1. ASSUME NEW i \in DOMAIN e.channels
        PROVE  e.channels[i].id = i
    <3>1. i \in 1 .. Len(d.channels) \/ i = Len(d.channels) + 1
      BY Zenon, <1>3, UpToNext
    <3>2. i \in 1 .. Len(d.channels) => d.channels[i].id = i
      BY Zenon, <1>1, <1>3, KeyedIs
    <3> QED
      BY <1>3, <3>1, <3>2
  <2>2. \A i \in DOMAIN e.threads :
          e.threads[i].id = i /\ e.threads[i].channel \in DOMAIN e.channels
    BY <1>1, <1>2, <1>3, KeyedIs
  <2>3. \A i \in DOMAIN e.messages :
          e.messages[i].id = i /\ e.messages[i].thread \in DOMAIN e.threads
    BY <1>1, <1>2, KeyedIs
  <2>4. \A i \in DOMAIN e.reactions :
          e.reactions[i].id = i /\ e.reactions[i].message \in DOMAIN e.messages
    BY <1>1, <1>2, KeyedIs
  <2> QED
    BY <1>2, <2>1, <2>2, <2>3, <2>4, KeyedIs
<1>5. Logs(e)
  BY <1>1, <1>2, SameTables
<1>6. DistinctChannels(e)
  <2> SUFFICES ASSUME NEW i \in DOMAIN e.channels, NEW j \in DOMAIN e.channels, i # j
               PROVE  \/ e.channels[i].name # e.channels[j].name
                      \/ e.channels[i].repo # e.channels[j].repo
    BY DEF DistinctChannels
  <2>1. \A x \in DOMAIN d.channels :
          ~(d.channels[x].name = row.name /\ d.channels[x].repo = row.repo)
    BY DEF UniqueChannel
  <2>2. CASE i \in DOMAIN d.channels /\ j \in DOMAIN d.channels
    BY <1>1, <1>3, <2>2 DEF DistinctChannels
  <2>3. CASE i = Len(d.channels) + 1
    <3>1. j \in DOMAIN d.channels
      BY <1>3, <2>3
    <3>2. e.channels[i] = row /\ e.channels[j] = d.channels[j]
      BY <1>3, <2>3, <3>1
    <3> QED
      BY <2>1, <3>1, <3>2
  <2>4. CASE j = Len(d.channels) + 1
    <3>1. i \in DOMAIN d.channels
      BY <1>3, <2>4
    <3>2. e.channels[j] = row /\ e.channels[i] = d.channels[i]
      BY <1>3, <2>4, <3>1
    <3> QED
      BY <2>1, <3>1, <3>2
  <2>5. /\ i \in DOMAIN d.channels \/ i = Len(d.channels) + 1
        /\ j \in DOMAIN d.channels \/ j = Len(d.channels) + 1
    BY Zenon, <1>3, UpToNext
  <2> QED
    BY Zenon, <2>2, <2>3, <2>4, <2>5
<1> QED
  BY <1>2, <1>4, <1>5, <1>6 DEF Consistent

\* A new thread of a channel.
LEMMA ThreadAdded ==
    ASSUME NEW d, Consistent(d), NEW row \in ThreadRow,
           row.id = Len(d.threads) + 1, row.channel \in DOMAIN d.channels,
           NEW e, e = With(d, "threads", row)
    PROVE  Consistent(e)
<1>1. d \in Database /\ Keyed(d) /\ Logs(d) /\ DistinctChannels(d)
  BY DEF Consistent
<1>2. /\ e \in Database
      /\ Grown(d, e, "threads", row)
      /\ e.channels = d.channels /\ e.messages = d.messages /\ e.reactions = d.reactions
  BY <1>1, WithThread
<1>3. /\ Len(d.threads) \in Nat
      /\ DOMAIN d.threads = 1 .. Len(d.threads)
      /\ DOMAIN e.threads = 1 .. Len(d.threads) + 1
      /\ \A i \in 1 .. Len(d.threads) : e.threads[i] = d.threads[i]
      /\ e.threads[Len(d.threads) + 1] = row
  BY <1>1, <1>2, TablesAre DEF Grown
<1>4. Keyed(e)
  <2>1. \A i \in DOMAIN e.channels : e.channels[i].id = i
    BY <1>1, <1>2, KeyedIs
  <2>2. \A i \in DOMAIN e.threads :
          e.threads[i].id = i /\ e.threads[i].channel \in DOMAIN e.channels
    BY <1>1, <1>2, <1>3, KeyedIs
  <2>3. \A i \in DOMAIN e.messages :
          e.messages[i].id = i /\ e.messages[i].thread \in DOMAIN e.threads
    BY <1>1, <1>2, <1>3, KeyedIs
  <2>4. \A i \in DOMAIN e.reactions :
          e.reactions[i].id = i /\ e.reactions[i].message \in DOMAIN e.messages
    BY <1>1, <1>2, KeyedIs
  <2> QED
    BY <1>2, <2>1, <2>2, <2>3, <2>4, KeyedIs
<1>5. Logs(e)
  BY <1>1, <1>2, SameTables
<1>6. DistinctChannels(e)
  BY <1>1, <1>2, SameTables
<1> QED
  BY <1>2, <1>4, <1>5, <1>6 DEF Consistent

\* The next message of a thread, a reply within it or to nothing.
LEMMA MessageAdded ==
    ASSUME NEW d, Consistent(d), NEW row \in MessageRow,
           row.id = Len(d.messages) + 1, row.thread \in DOMAIN d.threads,
           row.seq = CountTo(d, row.thread, Len(d.messages)) + 1,
           row.parent # 0 => /\ row.parent \in DOMAIN d.messages
                             /\ d.messages[row.parent].thread = row.thread,
           NEW e, e = With(d, "messages", row)
    PROVE  Consistent(e)
<1> DEFINE n == Len(d.messages)
<1>1. d \in Database /\ Keyed(d) /\ Logs(d) /\ DistinctChannels(d)
  BY DEF Consistent
<1>2. /\ e \in Database
      /\ Grown(d, e, "messages", row)
      /\ e.channels = d.channels /\ e.threads = d.threads /\ e.reactions = d.reactions
  BY <1>1, WithMessage
<1>3. /\ n \in Nat
      /\ DOMAIN d.messages = 1 .. n
      /\ DOMAIN e.messages = 1 .. n + 1
      /\ \A i \in 1 .. n : e.messages[i] = d.messages[i]
      /\ e.messages[n + 1] = row
  BY <1>1, <1>2, TablesAre DEF Grown
<1>4. Keyed(e)
  <2>1. \A i \in DOMAIN e.channels : e.channels[i].id = i
    BY <1>1, <1>2, KeyedIs
  <2>2. \A i \in DOMAIN e.threads :
          e.threads[i].id = i /\ e.threads[i].channel \in DOMAIN e.channels
    BY <1>1, <1>2, KeyedIs
  <2>3. \A i \in DOMAIN e.messages :
          e.messages[i].id = i /\ e.messages[i].thread \in DOMAIN e.threads
    <3>1. \A i \in DOMAIN d.messages :
            d.messages[i].id = i /\ d.messages[i].thread \in DOMAIN d.threads
      BY <1>1, KeyedIs
    <3>2. ASSUME NEW i \in 1 .. n
          PROVE  e.messages[i].id = i /\ e.messages[i].thread \in DOMAIN e.threads
      BY <1>2, <1>3, <3>1
    <3>3. e.messages[n + 1].id = n + 1 /\ e.messages[n + 1].thread \in DOMAIN e.threads
      BY <1>2, <1>3
    <3>4. \A i \in DOMAIN e.messages : i \in 1 .. n \/ i = n + 1
      BY Zenon, <1>3, UpToNext
    <3> QED
      BY <3>2, <3>3, <3>4
  <2>4. \A i \in DOMAIN e.reactions :
          e.reactions[i].id = i /\ e.reactions[i].message \in DOMAIN e.messages
    BY <1>1, <1>2, <1>3, KeyedIs
  <2> QED
    BY <1>2, <2>1, <2>2, <2>3, <2>4, KeyedIs
<1>5. Logs(e)
  <2> SUFFICES ASSUME NEW i \in 1 .. n + 1
               PROVE  /\ e.messages[i].seq = CountTo(e, e.messages[i].thread, i)
                      /\ e.messages[i].parent # 0 =>
                           /\ e.messages[i].parent < i
                           /\ e.messages[e.messages[i].parent].thread = e.messages[i].thread
    BY <1>3, LogsIs
  <2>1. ASSUME NEW t, NEW j \in 0 .. n
        PROVE  CountTo(e, t, j) = CountTo(d, t, j)
    <3>1. j \in Nat /\ \A x \in 1 .. j : e.messages[x].thread = d.messages[x].thread
      BY <1>3
    <3> QED
      BY <3>1, SameCount
  <2>2. CASE i \in 1 .. n
    <3>1. e.messages[i] = d.messages[i] /\ d.messages[i] \in MessageRow
      BY <1>1, <1>3, <2>2, TablesAre
    <3>2. /\ d.messages[i].seq = CountTo(d, d.messages[i].thread, i)
          /\ d.messages[i].parent # 0 =>
               /\ d.messages[i].parent < i
               /\ d.messages[d.messages[i].parent].thread = d.messages[i].thread
      BY <1>1, <1>3, <2>2, LogsIs
    <3>3. d.messages[i].parent \in Nat
      BY <3>1 DEF MessageRow
    <3>4. d.messages[i].parent # 0 =>
            e.messages[d.messages[i].parent] = d.messages[d.messages[i].parent]
      <4>1. d.messages[i].parent # 0 => d.messages[i].parent \in 1 .. n
        BY <1>3, <2>2, <3>2, <3>3
      <4> QED
        BY <1>3, <4>1
    <3>5. CountTo(e, d.messages[i].thread, i) = CountTo(d, d.messages[i].thread, i)
      <4>1. i \in 0 .. n
        BY <1>3, <2>2
      <4> QED
        BY Zenon, <2>1, <4>1
    <3> QED
      BY <3>1, <3>2, <3>4, <3>5
  <2>3. CASE i = n + 1
    <3>1. CountTo(e, row.thread, n + 1) = CountTo(e, row.thread, n) + 1
      <4>1. e.messages[n + 1].thread = row.thread
        BY <1>3
      <4> QED
        BY <1>3, <4>1, CountNext
    <3>2. CountTo(e, row.thread, n) = CountTo(d, row.thread, n)
      BY <1>3, <2>1
    <3>3. row.parent # 0 => e.messages[row.parent] = d.messages[row.parent] /\ row.parent < n + 1
      BY <1>3
    <3> QED
      BY <1>3, <2>3, <3>1, <3>2, <3>3
  <2> QED
    BY <1>3, <2>2, <2>3
<1>6. DistinctChannels(e)
  BY <1>1, <1>2, SameTables
<1> QED
  BY <1>2, <1>4, <1>5, <1>6 DEF Consistent

\* A reaction to a message.
LEMMA ReactionAdded ==
    ASSUME NEW d, Consistent(d), NEW row \in ReactionRow,
           row.id = Len(d.reactions) + 1, row.message \in DOMAIN d.messages,
           NEW e, e = With(d, "reactions", row)
    PROVE  Consistent(e)
<1>1. d \in Database /\ Keyed(d) /\ Logs(d) /\ DistinctChannels(d)
  BY DEF Consistent
<1>2. /\ e \in Database
      /\ Grown(d, e, "reactions", row)
      /\ e.channels = d.channels /\ e.threads = d.threads /\ e.messages = d.messages
  BY <1>1, WithReaction
<1>3. /\ Len(d.reactions) \in Nat
      /\ DOMAIN d.reactions = 1 .. Len(d.reactions)
      /\ DOMAIN e.reactions = 1 .. Len(d.reactions) + 1
      /\ \A i \in 1 .. Len(d.reactions) : e.reactions[i] = d.reactions[i]
      /\ e.reactions[Len(d.reactions) + 1] = row
  BY <1>1, <1>2, TablesAre DEF Grown
<1>4. Keyed(e)
  <2>1. \A i \in DOMAIN e.channels : e.channels[i].id = i
    BY <1>1, <1>2, KeyedIs
  <2>2. \A i \in DOMAIN e.threads :
          e.threads[i].id = i /\ e.threads[i].channel \in DOMAIN e.channels
    BY <1>1, <1>2, KeyedIs
  <2>3. \A i \in DOMAIN e.messages :
          e.messages[i].id = i /\ e.messages[i].thread \in DOMAIN e.threads
    BY <1>1, <1>2, KeyedIs
  <2>4. \A i \in DOMAIN e.reactions :
          e.reactions[i].id = i /\ e.reactions[i].message \in DOMAIN e.messages
    <3>1. \A i \in DOMAIN d.reactions :
            d.reactions[i].id = i /\ d.reactions[i].message \in DOMAIN d.messages
      BY <1>1, KeyedIs
    <3>2. ASSUME NEW i \in 1 .. Len(d.reactions)
          PROVE  e.reactions[i].id = i /\ e.reactions[i].message \in DOMAIN e.messages
      BY <1>2, <1>3, <3>1
    <3>3. /\ e.reactions[Len(d.reactions) + 1].id = Len(d.reactions) + 1
          /\ e.reactions[Len(d.reactions) + 1].message \in DOMAIN e.messages
      BY <1>2, <1>3
    <3>4. \A i \in DOMAIN e.reactions : i \in 1 .. Len(d.reactions) \/ i = Len(d.reactions) + 1
      BY Zenon, <1>3, UpToNext
    <3> QED
      BY <3>2, <3>3, <3>4
  <2> QED
    BY <1>2, <2>1, <2>2, <2>3, <2>4, KeyedIs
<1>5. Logs(e)
  BY <1>1, <1>2, SameTables
<1>6. DistinctChannels(e)
  BY <1>1, <1>2, SameTables
<1> QED
  BY <1>2, <1>4, <1>5, <1>6 DEF Consistent

----------------------------------------------------------------------------
(* What a call of the store does *)

\* Every row of d is in e, as it was.
Extends(d, e) ==
    \A t \in Table : \A i \in DOMAIN d[t] : i \in DOMAIN e[t] /\ e[t][i] = d[t][i]

\* The call has added this row, of that id, and nothing else.
Added(d, r, table, row) ==
    /\ r.db = With(d, table, row)
    /\ r.out = <<row>>
    /\ row.id = Len(d[table]) + 1

\* What a call returns, with one of these codes.
Outcome(r, codes) == DOMAIN r = {"code", "db", "out"} /\ r.code \in codes

\* The next message of a thread has been added, with this of it, or an error told.
NewMessage(d, r, t, parent, name, author, body, at) ==
    /\ Outcome(r, {"OK", "Invalid", "NotFound", "Conflict"})
    /\ r.code = "OK" =>
         /\ Consistent(r.db)
         /\ \E row \in MessageRow :
               /\ Added(d, r, "messages", row)
               /\ row.thread = t /\ row.seq = NextMessageSeq(d, t) /\ row.parent = parent
               /\ row.name = name /\ row.author = author /\ row.body = body
               /\ at # 0 => row.at = at

\* A reaction has been added, with this of it, or an error told.
NewReaction(d, r, message, emoji, name, author) ==
    /\ Outcome(r, {"OK", "Invalid", "NotFound", "Conflict"})
    /\ r.code = "OK" =>
         /\ Consistent(r.db)
         /\ \E row \in ReactionRow :
               /\ Added(d, r, "reactions", row)
               /\ row.message = message /\ row.emoji = emoji
               /\ row.name = name /\ row.author = author

\* The message with a seq, 0 for none.
ParentOf(d, t, seq) == IF seq = 0 THEN 0 ELSE MessageIDBySeq(d, t, seq)

\* The time of a row is a number.
LEMMA NowIsANumber ==
    ASSUME NEW d \in Database
    PROVE  Now(d) \in Nat
<1>1. /\ Len(d.channels) \in Nat /\ Len(d.threads) \in Nat
      /\ Len(d.messages) \in Nat /\ Len(d.reactions) \in Nat
  BY TablesAre
<1>2. \A a, b, c, e \in Nat : a + b + c + e + 1 \in Nat
  OBVIOUS
<1> QED
  BY <1>1, <1>2, Zenon DEF Now

\* CreateChannel adds a channel of a name that is free in its repository.
LEMMA CreateChannelAdds ==
    ASSUME NEW d, Consistent(d), NEW name, NEW repo \in Repo, NEW orphaned,
           NEW r, r = CreateChannel(d, name, repo, orphaned)
    PROVE  /\ Outcome(r, {"OK", "Invalid", "Conflict"})
           /\ r.code = "OK" => /\ Consistent(r.db)
                               /\ \E row \in ChannelRow : Added(d, r, "channels", row)
<1> DEFINE row == [id |-> Len(d.channels) + 1, name |-> name, repo |-> repo, at |-> Now(d)]
<1>1. d \in Database
  BY DEF Consistent
<1>2. CASE ~(name \in LegalName /\ orphaned = (repo = NoRepo))
  BY <1>2 DEF CreateChannel, Fail, Outcome
<1>3. CASE name \in LegalName /\ orphaned = (repo = NoRepo)
  <2>1. Len(d.channels) + 1 \in Nat /\ Now(d) \in Nat
    BY <1>1, TablesAre, NowIsANumber
  <2>2. row \in ChannelRow /\ row.id = Len(d.channels) + 1
    BY <1>3, <2>1 DEF ChannelRow
  <2>3. r = InsertChannel(d, row)
    BY <1>3 DEF CreateChannel
  <2> HIDE DEF row
  <2>4. CASE ~UniqueChannel(d, row)
    BY <2>3, <2>4 DEF InsertChannel, Fail, Outcome
  <2>5. CASE UniqueChannel(d, row)
    <3>1. r = Done(With(d, "channels", row), <<row>>)
      BY <2>3, <2>5 DEF InsertChannel, Insert, With
    <3>2. DOMAIN r = {"code", "db", "out"} /\ r.code = "OK" /\ r.db = With(d, "channels", row) /\ r.out = <<row>>
      BY <3>1 DEF Done
    <3>3. Consistent(r.db)
      BY <2>2, <2>5, <3>2, ChannelAdded
    <3>4. Added(d, r, "channels", row)
      BY <1>1, <2>2, <3>2, TablesAre DEF Added
    <3> QED
      BY <2>2, <3>2, <3>3, <3>4 DEF Outcome
  <2> QED
    BY <2>4, <2>5
<1> QED
  BY <1>2, <1>3

\* CreateThread adds a thread of a channel that exists.
LEMMA CreateThreadAdds ==
    ASSUME NEW d, Consistent(d), NEW channel \in Nat, NEW title,
           NEW r, r = CreateThread(d, channel, title)
    PROVE  /\ Outcome(r, {"OK", "Invalid", "NotFound"})
           /\ r.code = "OK" => /\ Consistent(r.db)
                               /\ \E row \in ThreadRow : Added(d, r, "threads", row)
<1> DEFINE row == [id |-> Len(d.threads) + 1, channel |-> channel, title |-> title, at |-> Now(d)]
<1>1. d \in Database
  BY DEF Consistent
<1>2. CASE title \notin LegalName
  BY <1>2 DEF CreateThread, Fail, Outcome
<1>3. CASE title \in LegalName
  <2>1. Len(d.threads) + 1 \in Nat /\ Now(d) \in Nat
    BY <1>1, TablesAre, NowIsANumber
  <2>2. row \in ThreadRow /\ row.id = Len(d.threads) + 1 /\ row.channel = channel
    BY <1>3, <2>1 DEF ThreadRow
  <2>3. r = InsertThread(d, row)
    BY <1>3 DEF CreateThread
  <2> HIDE DEF row
  <2>4. CASE channel \notin DOMAIN d.channels
    BY <2>2, <2>3, <2>4 DEF InsertThread, Fail, Outcome
  <2>5. CASE channel \in DOMAIN d.channels
    <3>1. r = Done(With(d, "threads", row), <<row>>)
      BY <2>2, <2>3, <2>5 DEF InsertThread, Insert, With
    <3>2. DOMAIN r = {"code", "db", "out"} /\ r.code = "OK" /\ r.db = With(d, "threads", row) /\ r.out = <<row>>
      BY <3>1 DEF Done
    <3>3. Consistent(r.db)
      BY <2>2, <2>5, <3>2, ThreadAdded
    <3>4. Added(d, r, "threads", row)
      BY <1>1, <2>2, <3>2, TablesAre DEF Added
    <3> QED
      BY <2>2, <3>2, <3>3, <3>4 DEF Outcome
  <2> QED
    BY <2>4, <2>5
<1> QED
  BY <1>2, <1>3

\* A seq that a thread has is that of one of its messages.
LEMMA MessageIDBySeqFinds ==
    ASSUME NEW d \in Database, NEW t, NEW seq
    PROVE  /\ MessageIDBySeq(d, t, seq) \in Nat
           /\ MessageIDBySeq(d, t, seq) # 0 =>
                /\ MessageIDBySeq(d, t, seq) \in DOMAIN d.messages
                /\ d.messages[MessageIDBySeq(d, t, seq)].thread = t
                /\ d.messages[MessageIDBySeq(d, t, seq)].seq = seq
<1> DEFINE Has(i) == d.messages[i].thread = t /\ d.messages[i].seq = seq
<1>1. DOMAIN d.messages \in SUBSET Nat
  BY TablesAre
<1>2. CASE \E i \in DOMAIN d.messages : Has(i)
  <2>1. MessageIDBySeq(d, t, seq) = CHOOSE i \in DOMAIN d.messages : Has(i)
    BY <1>2 DEF MessageIDBySeq
  <2>2. MessageIDBySeq(d, t, seq) \in DOMAIN d.messages /\ Has(MessageIDBySeq(d, t, seq))
    BY <1>2, <2>1
  <2> QED
    BY <1>1, <2>2
<1>3. CASE ~ \E i \in DOMAIN d.messages : Has(i)
  BY <1>3 DEF MessageIDBySeq
<1> QED
  BY <1>2, <1>3

\* AppendMessage adds the next message of a thread, a reply to one of its own.
LEMMA AppendMessageAdds ==
    ASSUME NEW d, Consistent(d), NEW t \in Nat, NEW name, NEW author \in AuthorType,
           NEW body \in Content, NEW at \in Nat, NEW parent \in Nat,
           NEW r, r = AppendMessage(d, t, name, author, body, at, parent)
    PROVE  NewMessage(d, r, t, parent, name, author, body, at)
<1> DEFINE time == IF at # 0 THEN at ELSE Now(d)
           row == [id |-> Len(d.messages) + 1, thread |-> t, seq |-> NextMessageSeq(d, t),
                   parent |-> parent, name |-> name, author |-> author, body |-> body,
                   at |-> time]
<1>1. d \in Database /\ Logs(d)
  BY DEF Consistent
<1>2. /\ Len(d.messages) + 1 \in Nat /\ time \in Nat
      /\ NextMessageSeq(d, t) = CountTo(d, t, Len(d.messages)) + 1
      /\ NextMessageSeq(d, t) \in Nat
  <2>1. Len(d.messages) \in Nat /\ Now(d) \in Nat
    BY <1>1, TablesAre, NowIsANumber
  <2>2. CountTo(d, t, Len(d.messages)) \in Nat
    BY <2>1, Counting
  <2>3. NextMessageSeq(d, t) = CountTo(d, t, Len(d.messages)) + 1
    BY <1>1, LastSeqIsCount DEF NextMessageSeq
  <2> QED
    BY <2>1, <2>2, <2>3
<1>3. CASE name \notin LegalName
  BY <1>3 DEF AppendMessage, Fail, NewMessage, Outcome
<1>4. CASE parent > 0 /\ parent \notin DOMAIN d.messages
  BY <1>4 DEF AppendMessage, Fail, NewMessage, Outcome
<1>5. CASE parent > 0 /\ MessageThreadID(d, parent) # t
  BY <1>5 DEF AppendMessage, Fail, NewMessage, Outcome
<1>6. CASE /\ name \in LegalName
           /\ parent > 0 => parent \in DOMAIN d.messages /\ MessageThreadID(d, parent) = t
  <2>1. r = InsertMessage(d, row)
    <3> DEFINE m == [id |-> Len(d.messages) + 1, thread |-> t, seq |-> NextMessageSeq(d, t),
                     parent |-> parent, name |-> name, author |-> author, body |-> body,
                     at |-> at]
    <3>1. r = IF at # 0 THEN InsertMessage(d, m) ELSE InsertMessageDefaultCreatedAt(d, m)
      BY <1>6 DEF AppendMessage
    <3>2. at # 0 => m = row
      OBVIOUS
    <3>3. at = 0 => [m EXCEPT !.at = Now(d)] = row
      OBVIOUS
    <3> HIDE DEF m, row
    <3> QED
      BY <3>1, <3>2, <3>3 DEF InsertMessageDefaultCreatedAt
  <2>2. row \in MessageRow
    BY <1>2, <1>6 DEF MessageRow
  <2>3. /\ row.id = Len(d.messages) + 1 /\ row.thread = t /\ row.seq = NextMessageSeq(d, t)
        /\ row.parent = parent /\ row.name = name /\ row.author = author /\ row.body = body
        /\ at # 0 => row.at = at
    OBVIOUS
  <2> HIDE DEF row
  <2>4. CASE MessageIDBySeq(d, row.thread, row.seq) # 0
    BY <2>1, <2>4 DEF InsertMessage, Fail, NewMessage, Outcome
  <2>5. CASE MessageIDBySeq(d, row.thread, row.seq) = 0 /\ row.thread \notin DOMAIN d.threads
    BY <2>1, <2>5 DEF InsertMessage, Fail, NewMessage, Outcome
  <2>6. CASE MessageIDBySeq(d, row.thread, row.seq) = 0 /\ row.thread \in DOMAIN d.threads
    <3>1. r = Done(With(d, "messages", row), <<row>>)
      BY <2>1, <2>6 DEF InsertMessage, Insert, With
    <3>2. DOMAIN r = {"code", "db", "out"} /\ r.code = "OK" /\ r.db = With(d, "messages", row) /\ r.out = <<row>>
      BY <3>1 DEF Done
    <3>3. row.parent # 0 => /\ row.parent \in DOMAIN d.messages
                            /\ d.messages[row.parent].thread = row.thread
      BY <1>6, <2>3 DEF MessageThreadID
    <3>4. row.seq = CountTo(d, row.thread, Len(d.messages)) + 1
      BY <1>2, <2>3
    <3>5. Consistent(r.db)
      BY <2>2, <2>3, <2>6, <3>2, <3>3, <3>4, MessageAdded
    <3>6. Added(d, r, "messages", row)
      BY <1>1, <2>3, <3>2, TablesAre DEF Added
    <3> QED
      BY <2>2, <2>3, <3>2, <3>5, <3>6 DEF NewMessage, Outcome
  <2> QED
    BY <2>4, <2>5, <2>6
<1> QED
  BY <1>3, <1>4, <1>5, <1>6

\* The same by the seq of the message replied to; 0 replies to none.
LEMMA AppendByParentSeqAdds ==
    ASSUME NEW d, Consistent(d), NEW t \in Nat, NEW name, NEW author \in AuthorType,
           NEW body \in Content, NEW at \in Nat, NEW parentSeq \in Nat,
           NEW r, r = AppendMessageByParentSeq(d, t, name, author, body, at, parentSeq)
    PROVE  /\ NewMessage(d, r, t, ParentOf(d, t, parentSeq), name, author, body, at)
           /\ r.code = "OK" /\ parentSeq # 0 => ParentOf(d, t, parentSeq) # 0
<1> DEFINE parent == ParentOf(d, t, parentSeq)
<1>1. parent \in Nat
  BY MessageIDBySeqFinds DEF Consistent, ParentOf
<1>2. r = IF parentSeq > 0 /\ parent = 0 THEN Fail(d, "NotFound")
          ELSE AppendMessage(d, t, name, author, body, at, parent)
  BY Zenon DEF AppendMessageByParentSeq, ParentOf
<1> HIDE DEF parent
<1>3. CASE parentSeq > 0 /\ parent = 0
  <2>1. r.code = "NotFound" /\ DOMAIN r = {"code", "db", "out"}
    BY <1>2, <1>3 DEF Fail
  <2> QED
    BY <2>1 DEF NewMessage, Outcome
<1>4. CASE ~(parentSeq > 0 /\ parent = 0)
  <2>1. r = AppendMessage(d, t, name, author, body, at, parent)
    BY <1>2, <1>4
  <2>2. NewMessage(d, r, t, parent, name, author, body, at)
    BY <1>1, <2>1, AppendMessageAdds
  <2> QED
    BY <1>4, <2>2 DEF parent
<1> QED
  BY <1>3, <1>4

\* AddReaction adds a reaction to a message that exists.
LEMMA AddReactionAdds ==
    ASSUME NEW d, Consistent(d), NEW message \in Nat, NEW emoji \in Content, NEW name,
           NEW author \in AuthorType, NEW at \in Nat,
           NEW r, r = AddReaction(d, message, emoji, name, author, at)
    PROVE  NewReaction(d, r, message, emoji, name, author)
<1> DEFINE time == IF at # 0 THEN at ELSE Now(d)
           row == [id |-> Len(d.reactions) + 1, message |-> message, emoji |-> emoji,
                   name |-> name, author |-> author, at |-> time]
           Twice == \E i \in DOMAIN d.reactions :
                        LET x == d.reactions[i]
                        IN  x.message = row.message /\ x.emoji = row.emoji /\ x.name = row.name
<1>1. d \in Database
  BY DEF Consistent
<1>2. Len(d.reactions) + 1 \in Nat /\ time \in Nat
  BY <1>1, TablesAre, NowIsANumber
<1>3. CASE name \notin LegalName
  BY <1>3 DEF AddReaction, Fail, NewReaction, Outcome
<1>4. CASE name \in LegalName
  <2>1. r = InsertReaction(d, row)
    <3> DEFINE x == [id |-> Len(d.reactions) + 1, message |-> message, emoji |-> emoji,
                     name |-> name, author |-> author, at |-> at]
    <3>1. r = IF at # 0 THEN InsertReaction(d, x) ELSE InsertReactionDefaultCreatedAt(d, x)
      BY <1>4 DEF AddReaction
    <3>2. at # 0 => x = row
      OBVIOUS
    <3>3. at = 0 => [x EXCEPT !.at = Now(d)] = row
      OBVIOUS
    <3> HIDE DEF x, row
    <3> QED
      BY <3>1, <3>2, <3>3 DEF InsertReactionDefaultCreatedAt
  <2>2. row \in ReactionRow
    BY <1>2, <1>4 DEF ReactionRow
  <2>3. /\ row.id = Len(d.reactions) + 1 /\ row.message = message /\ row.emoji = emoji
        /\ row.name = name /\ row.author = author
    OBVIOUS
  <2>4. r = IF row.message \notin DOMAIN d.messages THEN Fail(d, "NotFound")
            ELSE IF Twice THEN Fail(d, "Conflict") ELSE Insert(d, "reactions", row)
    <3> HIDE DEF row
    <3> QED
      BY <2>1, Zenon DEF InsertReaction
  <2> HIDE DEF row, Twice
  <2>5. CASE row.message \notin DOMAIN d.messages \/ Twice
    BY <2>4, <2>5 DEF Fail, NewReaction, Outcome
  <2>6. CASE row.message \in DOMAIN d.messages /\ ~Twice
    <3>1. r = Done(With(d, "reactions", row), <<row>>)
      BY <2>4, <2>6 DEF Insert, With
    <3>2. DOMAIN r = {"code", "db", "out"} /\ r.code = "OK" /\ r.db = With(d, "reactions", row) /\ r.out = <<row>>
      BY <3>1 DEF Done
    <3>3. Consistent(r.db)
      BY <2>2, <2>3, <2>6, <3>2, ReactionAdded
    <3>4. Added(d, r, "reactions", row)
      BY <1>1, <2>3, <3>2, TablesAre DEF Added
    <3> QED
      BY <2>2, <2>3, <3>2, <3>3, <3>4 DEF NewReaction, Outcome
  <2> QED
    BY <2>5, <2>6
<1> QED
  BY <1>3, <1>4

\* The same by the seq of the message reacted to.
LEMMA AddReactionBySeqAdds ==
    ASSUME NEW d, Consistent(d), NEW t, NEW seq, NEW emoji \in Content, NEW name,
           NEW author \in AuthorType, NEW at \in Nat,
           NEW r, r = AddReactionBySeq(d, t, seq, emoji, name, author, at)
    PROVE  /\ NewReaction(d, r, MessageIDBySeq(d, t, seq), emoji, name, author)
           /\ r.code = "OK" => MessageIDBySeq(d, t, seq) # 0
<1> DEFINE message == MessageIDBySeq(d, t, seq)
<1>1. message \in Nat
  BY MessageIDBySeqFinds DEF Consistent
<1>2. CASE message = 0
  <2>1. r.code = "NotFound" /\ DOMAIN r = {"code", "db", "out"}
    BY <1>2 DEF AddReactionBySeq, Fail
  <2> QED
    BY <2>1 DEF NewReaction, Outcome
<1>3. CASE message # 0
  <2>1. r = AddReaction(d, message, emoji, name, author, at)
    BY <1>3 DEF AddReactionBySeq
  <2> HIDE DEF message
  <2>2. NewReaction(d, r, message, emoji, name, author)
    BY <1>1, <2>1, AddReactionAdds
  <2> QED
    BY <1>3, <2>2 DEF message
<1> QED
  BY <1>2, <1>3

\* Whatever the table, a row added to it leaves the others as they were.
LEMMA AddedExtends ==
    ASSUME NEW d \in Database, NEW table \in Table, NEW row, NEW e, e = With(d, table, row)
    PROVE  /\ Extends(d, e)
           /\ Len(d[table]) \in Nat
           /\ DOMAIN d[table] = 1 .. Len(d[table])
           /\ DOMAIN e[table] = 1 .. Len(d[table]) + 1
           /\ e[table][Len(d[table]) + 1] = row
           /\ \A t \in Table \ {table} : e[t] = d[t]
<1>1. PICK R : d[table] \in Seq(R)
  BY TablesAre DEF Table
<1>2. d[table] \in Seq(R \cup {row}) /\ row \in R \cup {row}
  BY <1>1
<1>3. DOMAIN d = Table
  BY DEF Database, Table
<1>4. e[table] = Append(d[table], row) /\ \A t \in Table \ {table} : e[t] = d[t]
  BY <1>3 DEF With
<1>5. /\ Len(d[table]) \in Nat
      /\ DOMAIN d[table] = 1 .. Len(d[table])
      /\ DOMAIN e[table] = 1 .. Len(d[table]) + 1
      /\ \A i \in 1 .. Len(d[table]) : e[table][i] = d[table][i]
      /\ e[table][Len(d[table]) + 1] = row
  <2> DEFINE T == R \cup {row}  s == d[table]  a == e[table]
  <2>1. s \in Seq(T) /\ row \in T /\ a = Append(s, row)
    BY Zenon, <1>2, <1>4
  <2> HIDE DEF T, s, a
  <2>2. /\ Len(s) \in Nat
        /\ DOMAIN s = 1 .. Len(s) /\ DOMAIN a = 1 .. Len(s) + 1
        /\ \A i \in 1 .. Len(s) : a[i] = s[i]
        /\ a[Len(s) + 1] = row
    BY <2>1, AppendedAre
  <2> QED
    BY Zenon, <2>2 DEF s, a
<1>6. Extends(d, e)
  BY <1>4, <1>5 DEF Extends
<1> QED
  BY <1>4, <1>5, <1>6

\* Additions add up.
LEMMA ExtendsIsAPreorder ==
    ASSUME NEW d, NEW e, NEW f
    PROVE  /\ Extends(d, d)
           /\ Extends(d, e) /\ Extends(e, f) => Extends(d, f)
BY DEF Extends

----------------------------------------------------------------------------
(* A batch *)

Event == [type : {"message", "reaction"}, seq : Nat, ref : Nat, name : STRING, author : AuthorType,
          body : Content, at : Nat]

\* A map from seqs of a source to seqs of a thread.
SeqMap(map) == \A s \in DOMAIN map : map[s] \in Nat

\* The map of a batch gives seqs.
LEMMA SourceSequenceMapGivesSeqs ==
    ASSUME NEW events \in Seq(Event), NEW nextSeq \in Nat, nextSeq > 0
    PROVE  SeqMap(SourceSequenceMap(events, nextSeq))
<1> DEFINE At(s) == CHOOSE i \in Sourced(events) : events[i].seq = s
           Seqs == {events[i].seq : i \in Sourced(events)}
<1>1. SourceSequenceMap(events, nextSeq) =
        [s \in Seqs |-> nextSeq + MessagesUpTo(events, At(s)) - 1]
  BY Zenon DEF SourceSequenceMap
<1>2. ASSUME NEW s \in Seqs
      PROVE  MessagesUpTo(events, At(s)) \in Nat
  <2>1. \E i \in Sourced(events) : events[i].seq = s
    BY <1>2
  <2>2. At(s) \in Sourced(events)
    BY <2>1
  <2> HIDE DEF At
  <2>3. At(s) \in 1 .. Len(events)
    BY <2>2 DEF Sourced
  <2> DEFINE i == At(s)  M == {j \in 1 .. i : events[j].type = "message"}
  <2>4. i \in Nat
    BY <2>3
  <2> HIDE DEF i
  <2>5. IsFiniteSet(1 .. i) /\ M \in SUBSET (1 .. i)
    BY <2>4, FS_Interval
  <2>6. Cardinality(M) \in Nat
    BY <2>5, FS_Subset, FS_CardinalityType
  <2> QED
    BY <2>6 DEF MessagesUpTo, i
<1> HIDE DEF At, Seqs
<1>3. \A s \in Seqs : nextSeq + MessagesUpTo(events, At(s)) - 1 \in Nat
  BY <1>2
<1> QED
  BY <1>1, <1>3 DEF SeqMap

\* A reference is remapped to a seq.
LEMMA RemapGivesASeq ==
    ASSUME NEW map, SeqMap(map), NEW ref \in Nat
    PROVE  Remap(map, ref) \in Nat
BY DEF SeqMap, Remap

\* One event of a batch adds its message or its reaction.
LEMMA AppendEventAdds ==
    ASSUME NEW d, Consistent(d), NEW t \in Nat, NEW map, SeqMap(map), NEW e \in Event,
           NEW ref, ref = Remap(map, e.ref),
           NEW r, r = AppendEvent(d, t, map, e)
    PROVE  /\ ref \in Nat
           /\ e.type = "message" =>
                /\ NewMessage(d, r, t, ParentOf(d, t, ref), e.name, e.author, e.body, e.at)
                /\ r.code = "OK" /\ ref # 0 => ParentOf(d, t, ref) # 0
           /\ e.type # "message" =>
                /\ NewReaction(d, r, MessageIDBySeq(d, t, ref), e.body, e.name, e.author)
                /\ r.code = "OK" => MessageIDBySeq(d, t, ref) # 0
<1>1. /\ e.name \in STRING /\ e.author \in AuthorType /\ e.body \in Content
      /\ e.at \in Nat /\ e.ref \in Nat
  BY DEF Event
<1>2. ref \in Nat
  BY <1>1, RemapGivesASeq
<1>3. ASSUME e.type = "message"
      PROVE  /\ NewMessage(d, r, t, ParentOf(d, t, ref), e.name, e.author, e.body, e.at)
             /\ r.code = "OK" /\ ref # 0 => ParentOf(d, t, ref) # 0
  <2>1. r = AppendMessageByParentSeq(d, t, e.name, e.author, e.body, e.at, ref)
    BY <1>3 DEF AppendEvent
  <2> QED
    BY <1>1, <1>2, <2>1, AppendByParentSeqAdds, Zenon
<1>4. ASSUME e.type # "message"
      PROVE  /\ NewReaction(d, r, MessageIDBySeq(d, t, ref), e.body, e.name, e.author)
             /\ r.code = "OK" => MessageIDBySeq(d, t, ref) # 0
  <2>1. r = AddReactionBySeq(d, t, ref, e.body, e.name, e.author, e.at)
    BY <1>4 DEF AppendEvent
  <2> QED
    BY <1>1, <2>1, AddReactionBySeqAdds, Zenon
<1> QED
  BY <1>2, <1>3, <1>4, Zenon

----------------------------------------------------------------------------
(* What a query returns *)

\* The rows of a table are its own.
LEMMA RowsOfATable ==
    ASSUME NEW T, NEW rows \in Seq(T)
    PROVE  /\ rows \in Seq(ToSet(rows))
           /\ ToSet(rows) \in SUBSET T
BY DEF ToSet

\* A SELECT returns rows of the table.
LEMMA SelectIsOfRows ==
    ASSUME NEW T, NEW rows \in Seq(T), NEW S \in SUBSET DOMAIN rows
    PROVE  Select(rows, S) \in Seq(ToSet(rows))
BY RowsOfATable, SelectLists

\* In a thread, the seqs are in the order of the ids.
LEMMA SeqOrderIsIdOrder ==
    ASSUME NEW d, Consistent(d), NEW t, NEW i \in MessagesOf(d, t), NEW j \in MessagesOf(d, t)
    PROVE  /\ d.messages[i].seq \in Nat /\ d.messages[i].seq > 0
           /\ d.messages[i].seq < d.messages[j].seq <=> i < j
<1>1. d \in Database /\ Logs(d)
  BY DEF Consistent
<1>2. DOMAIN d.messages = 1 .. Len(d.messages) /\ Len(d.messages) \in Nat
  BY <1>1, TablesAre
<1>3. ASSUME NEW x \in MessagesOf(d, t)
      PROVE  /\ x \in Nat /\ x > 0 /\ CountTo(d, t, x - 1) \in Nat
             /\ d.messages[x].seq = CountTo(d, t, x - 1) + 1
             /\ d.messages[x].seq = CountTo(d, t, x)
  <2>1. x \in 1 .. Len(d.messages) /\ d.messages[x].thread = t
    BY <1>2 DEF MessagesOf
  <2>2. d.messages[x].seq = CountTo(d, t, x)
    BY <1>1, <1>2, <2>1, LogsIs
  <2> DEFINE p == x - 1
  <2>3. p \in Nat /\ x = p + 1
    BY <1>2, <2>1
  <2> HIDE DEF p
  <2>4. CountTo(d, t, p + 1) = CountTo(d, t, p) + 1
    BY <2>1, <2>3, CountNext
  <2>5. CountTo(d, t, p) \in Nat
    BY <2>3, Counting
  <2>6. p = x - 1
    BY DEF p
  <2> QED
    BY <1>2, <2>1, <2>2, <2>3, <2>4, <2>5, <2>6
<1>4. ASSUME NEW x \in MessagesOf(d, t), NEW y \in MessagesOf(d, t), x < y
      PROVE  d.messages[x].seq < d.messages[y].seq
  <2> DEFINE q == y - 1
  <2>1. x \in Nat /\ y \in Nat
    BY <1>3
  <2>2. q \in Nat /\ x \in 0 .. q
    BY <1>4, <2>1
  <2>3. CountTo(d, t, q) \in Nat /\ d.messages[y].seq = CountTo(d, t, q) + 1
    BY <1>3
  <2>4. CountTo(d, t, x) \in Nat /\ d.messages[x].seq = CountTo(d, t, x)
    BY <1>3, <2>1, Counting
  <2> HIDE DEF q
  <2>5. CountTo(d, t, x) <= CountTo(d, t, q)
    BY <2>2, Counting
  <2> QED
    BY <2>3, <2>4, <2>5
<1>5. d.messages[i].seq \in Nat /\ d.messages[j].seq \in Nat /\ d.messages[i].seq > 0
  BY <1>3
<1>6. i \in Nat /\ j \in Nat
  BY <1>3
<1>7. i < j => d.messages[i].seq < d.messages[j].seq
  BY <1>4
<1>8. j < i => d.messages[j].seq < d.messages[i].seq
  BY <1>4
<1> QED
  BY <1>5, <1>6, <1>7, <1>8

\* So that messages of a thread by seq are messages by id.
LEMMA BySeqIsSelect ==
    ASSUME NEW d, Consistent(d), NEW t, NEW S \in SUBSET MessagesOf(d, t)
    PROVE  BySeq(d, S) = Select(d.messages, S)
<1> DEFINE bySeq == {p \in S \X S : d.messages[p[1]].seq < d.messages[p[2]].seq}
           byId == {p \in S \X S : p[1] < p[2]}
<1>1. ASSUME NEW p \in S \X S
      PROVE  d.messages[p[1]].seq < d.messages[p[2]].seq <=> p[1] < p[2]
  <2>1. p[1] \in MessagesOf(d, t) /\ p[2] \in MessagesOf(d, t)
    OBVIOUS
  <2> QED
    BY <2>1, SeqOrderIsIdOrder
<1>2. bySeq = byId
  BY <1>1
<1>3. BySeq(d, S) = RowsAt(d.messages, Ordered(S, bySeq))
  BY DEF BySeq
<1>4. Select(d.messages, S) = RowsAt(d.messages, Ordered(S, byId))
  BY DEF Select, InIdOrder
<1> QED
  BY <1>2, <1>3, <1>4

\* The lists of channels, threads and messages are of rows of their tables.
LEMMA ListsAreOfRows ==
    ASSUME NEW d, Consistent(d)
    PROVE  /\ \A repo, all : ListChannels(d, repo, all) \in Seq(ToSet(d.channels))
           /\ \A c : ListThreads(d, c) \in Seq(ToSet(d.threads))
           /\ \A t : ListMessages(d, t) \in Seq(ToSet(d.messages))
           /\ \A t, n : ListMessagesAfter(d, t, n) \in Seq(ToSet(d.messages))
           /\ \A t : \A n \in Nat : ListMessagesLastN(d, t, n) \in Seq(ToSet(d.messages))
<1>1. d \in Database
  BY DEF Consistent
<1>2. \A S \in SUBSET DOMAIN d.channels : Select(d.channels, S) \in Seq(ToSet(d.channels))
  BY <1>1, TablesAre, SelectIsOfRows
<1>3. \A S \in SUBSET DOMAIN d.threads : Select(d.threads, S) \in Seq(ToSet(d.threads))
  BY <1>1, TablesAre, SelectIsOfRows
<1>4. \A S \in SUBSET DOMAIN d.messages : Select(d.messages, S) \in Seq(ToSet(d.messages))
  BY <1>1, TablesAre, SelectIsOfRows
<1>5. ASSUME NEW t, NEW S \in SUBSET MessagesOf(d, t)
      PROVE  BySeq(d, S) \in Seq(ToSet(d.messages))
  <2>1. S \in SUBSET DOMAIN d.messages
    BY DEF MessagesOf
  <2> QED
    BY <1>4, <2>1, BySeqIsSelect
<1>6. ASSUME NEW repo, NEW all
      PROVE  ListChannels(d, repo, all) \in Seq(ToSet(d.channels))
  <2>1. d.channels \in Seq(ToSet(d.channels))
    BY <1>1, TablesAre, RowsOfATable
  <2>2. /\ ListChannelsAll(d) \in Seq(ToSet(d.channels))
        /\ ListChannelsByRepo(d, repo) \in Seq(ToSet(d.channels))
        /\ ListChannelsNonOrphaned(d) \in Seq(ToSet(d.channels))
        /\ ListChannelsByRepoNonOrphaned(d, repo) \in Seq(ToSet(d.channels))
    BY <1>2, <2>1 DEF ListChannelsAll, ListChannelsByRepo, ListChannelsNonOrphaned,
                      ListChannelsByRepoNonOrphaned
  <2> QED
    BY <2>2 DEF ListChannels
<1>7. \A c : ListThreads(d, c) \in Seq(ToSet(d.threads))
  BY <1>3 DEF ListThreads
<1>8. \A t : ListMessages(d, t) \in Seq(ToSet(d.messages))
  BY <1>5 DEF ListMessages
<1>9. \A t, n : ListMessagesAfter(d, t, n) \in Seq(ToSet(d.messages))
  BY <1>5 DEF ListMessagesAfter
<1>10. ASSUME NEW t, NEW n \in Nat
       PROVE  ListMessagesLastN(d, t, n) \in Seq(ToSet(d.messages))
  <2> DEFINE all == ListMessages(d, t)
  <2>1. all \in Seq(ToSet(d.messages))
    BY <1>8
  <2>2. ListMessagesLastN(d, t, n) =
          IF Len(all) <= n THEN all ELSE SubSeq(all, Len(all) - n + 1, Len(all))
    BY DEF ListMessagesLastN
  <2> HIDE DEF all
  <2>3. Len(all) > n => SubSeq(all, Len(all) - n + 1, Len(all)) \in Seq(ToSet(d.messages))
    <3> SUFFICES ASSUME Len(all) > n
                 PROVE  SubSeq(all, Len(all) - n + 1, Len(all)) \in Seq(ToSet(d.messages))
      OBVIOUS
    <3>1. Len(all) \in Nat /\ Len(all) - n + 1 \in 1 .. Len(all) + 1
      BY <2>1
    <3> QED
      BY <2>1, <3>1, SubSeqProperties
  <2>4. Len(all) \in Nat
    BY <2>1
  <2>5. CASE Len(all) <= n
    <3>1. ListMessagesLastN(d, t, n) = all
      BY <2>2, <2>5, Zenon
    <3> QED
      BY <2>1, <3>1
  <2>6. CASE ~(Len(all) <= n)
    <3>1. ListMessagesLastN(d, t, n) = SubSeq(all, Len(all) - n + 1, Len(all))
      BY <2>2, <2>6, Zenon
    <3>2. Len(all) > n
      BY <2>4, <2>6
    <3> QED
      BY <2>3, <3>1, <3>2, Zenon
  <2> QED
    BY <2>5, <2>6, Zenon
<1> QED
  BY <1>6, <1>7, <1>8, <1>9, <1>10

\* The list of reactions is of rows of theirs, each with the seq of its message.
LEMMA ReactionsAreOfRows ==
    ASSUME NEW d, Consistent(d), NEW t
    PROVE  ListReactions(d, t) \in Seq([reaction : ToSet(d.reactions), message_seq : Nat \ {0}])
<1> DEFINE S == {i \in DOMAIN d.reactions : MessageThreadID(d, d.reactions[i].message) = t}
           SeqIn(i) == d.messages[d.reactions[i].message].seq
           At(i) == d.reactions[i].at
           Before(i, j) == \/ SeqIn(i) < SeqIn(j)
                           \/ SeqIn(i) = SeqIn(j) /\ At(i) < At(j)
                           \/ SeqIn(i) = SeqIn(j) /\ At(i) = At(j) /\ i < j
           order == {p \in S \X S : Before(p[1], p[2])}
           ids == Ordered(S, order)
<1>1. d \in Database /\ Keyed(d)
  BY DEF Consistent
<1>2. /\ d.reactions \in Seq(ReactionRow) /\ d.messages \in Seq(MessageRow)
      /\ DOMAIN d.reactions = 1 .. Len(d.reactions) /\ Len(d.reactions) \in Nat
      /\ \A i \in DOMAIN d.reactions : d.reactions[i].message \in DOMAIN d.messages
  BY <1>1, TablesAre, KeyedIs
<1>3. ASSUME NEW i \in S
      PROVE  SeqIn(i) \in Nat /\ SeqIn(i) # 0 /\ At(i) \in Nat /\ i \in Nat
  <2>1. i \in DOMAIN d.reactions
    OBVIOUS
  <2>2. d.reactions[i] \in ReactionRow
    BY <1>2, <2>1
  <2>3. d.messages[d.reactions[i].message] \in MessageRow
    BY <1>2, <2>1
  <2>4. d.reactions[i].at \in Nat
    BY <2>2 DEF ReactionRow
  <2>5. d.messages[d.reactions[i].message].seq \in Nat
    BY <2>3 DEF MessageRow
  <2>6. d.messages[d.reactions[i].message].seq # 0
    <3> DEFINE j == d.reactions[i].message
    <3>1. j \in MessagesOf(d, d.messages[j].thread)
      BY <1>2, <2>1 DEF MessagesOf
    <3> HIDE DEF j
    <3>2. d.messages[j].seq \in Nat /\ d.messages[j].seq > 0
      BY <3>1, SeqOrderIsIdOrder
    <3> QED
      BY <3>2 DEF j
  <2> QED
    BY <1>2, <2>1, <2>4, <2>5, <2>6
<1>4. IsFiniteSet(S)
  <2>1. IsFiniteSet(1 .. Len(d.reactions)) /\ S \in SUBSET (1 .. Len(d.reactions))
    BY <1>2, FS_Interval
  <2> QED
    BY <2>1, FS_Subset
<1>5. ListReactions(d, t) =
        [k \in DOMAIN ids |-> [reaction |-> d.reactions[ids[k]], message_seq |-> SeqIn(ids[k])]]
  BY DEF ListReactions
<1> HIDE DEF SeqIn, At
<1>6. \A x, y \in S : <<x, y>> \in order <=> Before(x, y)
  OBVIOUS
<1>7. Orders(order, S)
  <2> HIDE DEF S, order
  <2>1. \A x \in S : <<x, x>> \notin order
    BY <1>3, <1>6
  <2>2. \A x, y \in S : x # y => <<x, y>> \in order \/ <<y, x>> \in order
    BY <1>3, <1>6
  <2>3. ASSUME NEW x \in S, NEW y \in S, NEW z \in S,
               <<x, y>> \in order, <<y, z>> \in order
        PROVE  <<x, z>> \in order
    <3>1. Before(x, y) /\ Before(y, z)
      BY <1>6, <2>3
    <3>2. Before(x, z)
      BY <1>3, <3>1
    <3> QED
      BY <1>6, <3>2
  <2> QED
    BY <2>1, <2>2, <2>3 DEF Orders
<1>8. Cardinality(S) \in Nat /\ ids \in [1 .. Cardinality(S) -> S]
  <2> HIDE DEF order, S
  <2> QED
    BY <1>4, <1>7, OrderedLists
<1>9. \A i \in S : d.reactions[i] \in ToSet(d.reactions)
  BY <1>2 DEF ToSet
<1> HIDE DEF S, order, ids
<1>10. \A k \in 1 .. Cardinality(S) :
          [reaction |-> d.reactions[ids[k]], message_seq |-> SeqIn(ids[k])]
              \in [reaction : ToSet(d.reactions), message_seq : Nat \ {0}]
  BY <1>3, <1>8, <1>9
<1> DEFINE n == Cardinality(S)
           Row(k) == [reaction |-> d.reactions[ids[k]], message_seq |-> SeqIn(ids[k])]
           E == [reaction : ToSet(d.reactions), message_seq : Nat \ {0}]
<1>11. ListReactions(d, t) = [k \in 1 .. n |-> Row(k)]
  BY <1>5, <1>8
<1>12. n \in Nat /\ \A k \in 1 .. n : Row(k) \in E
  BY <1>8, <1>10
<1> HIDE DEF n, Row, E
<1>13. [k \in 1 .. n |-> Row(k)] \in Seq(E)
  BY <1>12
<1> QED
  BY <1>11, <1>13 DEF E

\* The first rows are rows.
LEMMA FirstNIsOfRows ==
    ASSUME NEW T, NEW s \in Seq(T), NEW n \in Nat
    PROVE  /\ FirstN(s, n) \in Seq(T)
           /\ \A i \in DOMAIN FirstN(s, n) : i \in DOMAIN s /\ FirstN(s, n)[i] = s[i]
<1> DEFINE m == IF Len(s) < n THEN Len(s) ELSE n
<1>1. m \in 0 .. Len(s) /\ Len(s) \in Nat
  OBVIOUS
<1>2. FirstN(s, n) = SubSeq(s, 1, m)
  BY Zenon DEF FirstN
<1> HIDE DEF m
<1>3. /\ SubSeq(s, 1, m) \in Seq(T) /\ Len(SubSeq(s, 1, m)) = m
      /\ \A i \in 1 .. m : SubSeq(s, 1, m)[i] = s[1 + i - 1]
  <2>1. 1 \in 1 .. Len(s) + 1 /\ m \in 0 .. Len(s)
    BY <1>1
  <2>2. m = IF 1 <= m THEN m - 1 + 1 ELSE 0
    BY <1>1
  <2> QED
    BY <1>1, <2>1, <2>2, SubSeqProperties
<1> DEFINE f == SubSeq(s, 1, m)
<1>4. f \in Seq(T) /\ Len(f) = m /\ \A i \in 1 .. m : f[i] = s[1 + i - 1]
  BY <1>3
<1> HIDE DEF f
<1>5. DOMAIN f = 1 .. m /\ DOMAIN s = 1 .. Len(s)
  BY <1>1, <1>4
<1>6. \A i \in DOMAIN f : i \in DOMAIN s /\ f[i] = s[i]
  BY <1>1, <1>4, <1>5
<1> QED
  BY <1>2, <1>4, <1>6 DEF f

\* The rows of a table, newest first, are all of its rows, each once.
LEMMA NewestFirstLists ==
    ASSUME NEW T, NEW rows \in Seq(T),
           \A i \in DOMAIN rows : rows[i].at \in Nat /\ rows[i].id = i
    PROVE  /\ NewestFirst(rows) \in Seq(ToSet(rows))
           /\ Len(NewestFirst(rows)) = Len(rows)
           /\ \A i, j \in DOMAIN NewestFirst(rows) :
                 i < j => Newer(NewestFirst(rows)[i], NewestFirst(rows)[j])
<1> DEFINE S == DOMAIN rows  n == Len(rows)
           order == {p \in S \X S : Newer(rows[p[1]], rows[p[2]])}
           ids == Ordered(S, order)
<1>1. S = 1 .. n /\ n \in Nat /\ \A i \in S : rows[i].at \in Nat /\ rows[i].id = i /\ i \in Nat
  OBVIOUS
<1>2. NewestFirst(rows) = RowsAt(rows, ids)
  BY Zenon DEF NewestFirst
<1>3. IsFiniteSet(S) /\ Cardinality(S) = n
  <2>1. \A k \in Nat : IsFiniteSet(1 .. k) /\ Cardinality(1 .. k) = k
    BY FS_Interval
  <2> HIDE DEF S, n
  <2> QED
    BY Zenon, <1>1, <2>1
<1>4. \A x, y \in S : <<x, y>> \in order <=> Newer(rows[x], rows[y])
  OBVIOUS
<1>5. \A x, y \in S : Newer(rows[x], rows[y]) <=>
         rows[x].at > rows[y].at \/ (rows[x].at = rows[y].at /\ x > y)
  BY <1>1 DEF Newer
<1> HIDE DEF S, order, n
<1>6. Orders(order, S)
  <2>1. \A x \in S : <<x, x>> \notin order
    BY <1>1, <1>4, <1>5
  <2>2. \A x, y \in S : x # y => <<x, y>> \in order \/ <<y, x>> \in order
    BY <1>1, <1>4, <1>5
  <2>3. ASSUME NEW x \in S, NEW y \in S, NEW z \in S,
               <<x, y>> \in order, <<y, z>> \in order
        PROVE  <<x, z>> \in order
    <3>1. /\ rows[x].at > rows[y].at \/ (rows[x].at = rows[y].at /\ x > y)
          /\ rows[y].at > rows[z].at \/ (rows[y].at = rows[z].at /\ y > z)
      BY <1>4, <1>5, <2>3
    <3>2. rows[x].at > rows[z].at \/ (rows[x].at = rows[z].at /\ x > z)
      BY <1>1, <3>1
    <3> QED
      BY <1>4, <1>5, <3>2
  <2> QED
    BY <2>1, <2>2, <2>3 DEF Orders
<1>7. /\ ids \in [1 .. n -> S]
      /\ \A i, j \in 1 .. n : i < j => <<ids[i], ids[j]>> \in order
  BY <1>3, <1>6, OrderedLists
<1> HIDE DEF ids
<1>8. NewestFirst(rows) = [k \in 1 .. n |-> rows[ids[k]]]
  BY <1>2, <1>7 DEF RowsAt
<1>9. \A k \in 1 .. n : rows[ids[k]] \in ToSet(rows)
  BY <1>7 DEF ToSet, S
<1>10. NewestFirst(rows) \in Seq(ToSet(rows)) /\ Len(NewestFirst(rows)) = n
  BY <1>1, <1>8, <1>9
<1>11. ASSUME NEW i \in 1 .. n, NEW j \in 1 .. n, i < j
       PROVE  Newer(NewestFirst(rows)[i], NewestFirst(rows)[j])
  <2>1. ids[i] \in S /\ ids[j] \in S /\ <<ids[i], ids[j]>> \in order
    BY <1>7, <1>11
  <2>2. NewestFirst(rows)[i] = rows[ids[i]] /\ NewestFirst(rows)[j] = rows[ids[j]]
    BY <1>8
  <2>3. Newer(rows[ids[i]], rows[ids[j]])
    BY <1>4, <2>1
  <2> QED
    BY <2>2, <2>3
<1>12. DOMAIN NewestFirst(rows) = 1 .. n
  BY <1>8
<1> QED
  BY <1>10, <1>11, <1>12 DEF n

\* The feed of messages is of rows of theirs.
LEMMA FeedIsOfRows ==
    ASSUME NEW d, Consistent(d), NEW limit \in Nat, NEW out, out = ListMessageRows(d, limit)
    PROVE  \A i \in DOMAIN out :
              /\ out[i].id > 0 /\ out[i].count = 1
              /\ \E m \in ToSet(d.messages) : out[i].body = m.body
<1> DEFINE newest == FirstN(NewestFirst(d.messages), limit)
<1>1. d \in Database /\ Keyed(d)
  BY DEF Consistent
<1>2. d.messages \in Seq(MessageRow)
  BY <1>1, TablesAre
<1>3. \A i \in DOMAIN d.messages : d.messages[i].at \in Nat /\ d.messages[i].id = i /\ i > 0
  <2>1. \A i \in DOMAIN d.messages : d.messages[i].id = i /\ i > 0
    BY <1>1, <1>2, KeyedIs
  <2>2. \A m \in MessageRow : m.at \in Nat
    BY DEF MessageRow
  <2>3. \A i \in DOMAIN d.messages : d.messages[i] \in MessageRow
    BY <1>2
  <2> QED
    BY <2>1, <2>2, <2>3
<1>4. NewestFirst(d.messages) \in Seq(ToSet(d.messages))
  BY <1>2, <1>3, NewestFirstLists
<1>5. newest \in Seq(ToSet(d.messages))
  BY <1>4, FirstNIsOfRows
<1>6. out = [i \in DOMAIN newest |->
               [id |-> newest[i].id, thread |-> newest[i].thread, count |-> 1,
                at |-> newest[i].at, name |-> newest[i].name, body |-> newest[i].body]]
  BY Zenon DEF ListMessageRows
<1> HIDE DEF newest
<1>7. \A m \in ToSet(d.messages) : m.id > 0
  BY <1>3 DEF ToSet
<1>8. \A i \in DOMAIN newest : newest[i] \in ToSet(d.messages)
  BY <1>5
<1> QED
  BY <1>6, <1>7, <1>8

----------------------------------------------------------------------------
(* What stands where in a list *)

Below(S, x) == {y \in S : y < x}

\* f lists S, of n numbers, in order.
Lists(f, S, n) ==
    /\ f \in [1 .. n -> S]
    /\ \A x \in S : \E k \in 1 .. n : f[k] = x
    /\ \A i, j \in 1 .. n : i < j => f[i] < f[j]

\* In an ordered list, the k-th element has k - 1 below it.
LEMMA PlacesCount ==
    ASSUME NEW S \in SUBSET Nat, NEW n \in Nat, NEW f, Lists(f, S, n)
    PROVE  /\ IsFiniteSet(S) /\ Cardinality(S) = n
           /\ \A k \in 1 .. n : Cardinality(Below(S, f[k])) = k - 1
<1>1. ASSUME NEW k \in 0 .. n, NEW T, T = {y \in S : \E i \in 1 .. k : y = f[i]}
      PROVE  IsFiniteSet(T) /\ Cardinality(T) = k
  <2> DEFINE g == [i \in 1 .. k |-> f[i]]
  <2>1. k \in Nat /\ \A i \in 1 .. k : i \in 1 .. n
    OBVIOUS
  <2>2. g \in [1 .. k -> T]
    BY <1>1, <2>1 DEF Lists
  <2>3. \A i, j \in 1 .. k : g[i] = g[j] => i = j
    <3> SUFFICES ASSUME NEW i \in 1 .. k, NEW j \in 1 .. k, i < j
                 PROVE  g[i] # g[j]
      BY <2>1
    <3>1. f[i] < f[j] /\ f[i] \in Nat /\ f[j] \in Nat
      BY <2>1 DEF Lists
    <3> QED
      BY <3>1
  <2>4. \A y \in T : \E i \in 1 .. k : g[i] = y
    BY <1>1
  <2> HIDE DEF g
  <2>5. g \in Bijection(1 .. k, T)
    BY <2>2, <2>3, <2>4 DEF Bijection, Injection, Surjection, IsInjective
  <2>6. ExistsBijection(1 .. k, T)
    BY <2>5 DEF ExistsBijection
  <2>7. IsFiniteSet(1 .. k)
    BY <2>1, FS_Interval
  <2>8. IsFiniteSet(T)
    BY <2>6, <2>7, FS_Bijection
  <2> QED
    BY <2>1, <2>6, <2>8, FS_CountingElements
<1>2. IsFiniteSet(S) /\ Cardinality(S) = n
  <2>1. S = {y \in S : \E i \in 1 .. n : y = f[i]}
    BY DEF Lists
  <2> QED
    BY <1>1, <2>1
<1>3. ASSUME NEW k \in 1 .. n
      PROVE  Cardinality(Below(S, f[k])) = k - 1
  <2> DEFINE p == k - 1
  <2>1. p \in 0 .. n /\ \A i : i \in 1 .. p <=> i \in 1 .. n /\ i < k
    OBVIOUS
  <2>2. ASSUME NEW i \in 1 .. n
        PROVE  f[i] < f[k] <=> i < k
    <3>1. f[i] \in Nat /\ f[k] \in Nat
      BY DEF Lists
    <3>2. i < k => f[i] < f[k]
      BY DEF Lists
    <3>3. k < i => f[k] < f[i]
      BY DEF Lists
    <3> QED
      BY <3>1, <3>2, <3>3
  <2>3. Below(S, f[k]) = {y \in S : \E i \in 1 .. p : y = f[i]}
    <3>1. ASSUME NEW y \in S, y < f[k]
          PROVE  \E i \in 1 .. p : y = f[i]
      <4>1. PICK i \in 1 .. n : f[i] = y
        BY DEF Lists
      <4> QED
        BY <2>1, <2>2, <3>1, <4>1
    <3>2. ASSUME NEW i \in 1 .. p
          PROVE  f[i] < f[k]
      BY <2>1, <2>2
    <3> QED
      BY <3>1, <3>2 DEF Below
  <2> QED
    BY <1>1, <2>1, <2>3
<1> QED
  BY <1>2, <1>3

\* A finite set's elements differ in how many are below them.
LEMMA PlaceIsUnique ==
    ASSUME NEW S \in SUBSET Nat, IsFiniteSet(S), NEW x \in S, NEW y \in S,
           Cardinality(Below(S, x)) = Cardinality(Below(S, y))
    PROVE  x = y
<1>1. ASSUME NEW a \in S, NEW b \in S, a < b
      PROVE  Cardinality(Below(S, a)) # Cardinality(Below(S, b))
  <2>1. /\ Below(S, a) \in SUBSET S /\ Below(S, b) \in SUBSET S
        /\ Below(S, a) \in SUBSET Below(S, b) /\ a \in Below(S, b) /\ a \notin Below(S, a)
    <3>1. ~(a < a) /\ \A z \in S : z < a => z < b
      BY <1>1
    <3> QED
      BY Zenon, <1>1, <3>1 DEF Below
  <2>2. IsFiniteSet(Below(S, b))
    BY <2>1, FS_Subset
  <2> QED
    BY <2>1, <2>2, FS_Subset
<1>2. x \in Nat /\ y \in Nat
  OBVIOUS
<1> QED
  BY <1>1, <1>2

\* There is one way to list a set in order.
LEMMA InIdOrderIs ==
    ASSUME NEW S \in SUBSET Nat, NEW n \in Nat, NEW f, Lists(f, S, n)
    PROVE  /\ InIdOrder(S) = f
           /\ IsFiniteSet(S) /\ Cardinality(S) = n
<1>1. /\ IsFiniteSet(S) /\ Cardinality(S) = n
      /\ \A k \in 1 .. n : Cardinality(Below(S, f[k])) = k - 1
  BY PlacesCount
<1>2. PICK g : g = InIdOrder(S)
  OBVIOUS
<1>3. Lists(g, S, n)
  BY <1>1, <1>2, InIdOrderLists DEF Lists
<1>4. \A k \in 1 .. n : Cardinality(Below(S, g[k])) = k - 1
  BY <1>3, PlacesCount
<1>5. ASSUME NEW k \in 1 .. n
      PROVE  f[k] = g[k]
  <2>1. PICK x \in S : x = f[k]
    BY DEF Lists
  <2>2. PICK y \in S : y = g[k]
    BY <1>3 DEF Lists
  <2>3. Cardinality(Below(S, x)) = Cardinality(Below(S, y))
    BY Zenon, <1>1, <1>4, <2>1, <2>2
  <2>4. x = y
    BY Zenon, <1>1, <2>3, PlaceIsUnique
  <2> QED
    BY <2>1, <2>2, <2>4
<1>6. f = g
  <2>1. f \in [1 .. n -> S] /\ g \in [1 .. n -> S]
    BY <1>3 DEF Lists
  <2> QED
    BY <1>5, <2>1
<1> QED
  BY <1>1, <1>2, <1>6

\* The messages of a thread, by their seqs.
LEMMA ThreadLists ==
    ASSUME NEW d, Consistent(d), NEW t, NEW M, M = MessagesOf(d, t),
           NEW f, f = InIdOrder(M), NEW n, n = LastMessageSeq(d, t)
    PROVE  /\ M \in SUBSET Nat /\ M \in SUBSET DOMAIN d.messages
           /\ n \in Nat
           /\ Lists(f, M, n)
           /\ \A k \in 1 .. n : d.messages[f[k]].seq = k
           /\ \A i \in M : d.messages[i].seq \in 1 .. n
<1> DEFINE N == Len(d.messages)
<1>1. d \in Database /\ Logs(d)
  BY DEF Consistent
<1>2. DOMAIN d.messages = 1 .. N /\ N \in Nat
  BY <1>1, TablesAre
<1>3. M = Among(d, t, N)
  BY <1>2 DEF MessagesOf, Among
<1>4. IsFiniteSet(M) /\ Cardinality(M) = n /\ n \in Nat /\ M \in SUBSET (1 .. N) /\ M \in SUBSET Nat
  <2>1. IsFiniteSet(M) /\ CountTo(d, t, N) \in Nat
    BY <1>2, <1>3, Counting
  <2>2. CountTo(d, t, N) = n
    BY <1>1, LastSeqIsCount
  <2> QED
    BY <1>2, <1>3, <2>1, <2>2 DEF CountTo, Among
<1>5. Lists(f, M, n)
  BY <1>4, InIdOrderLists DEF Lists
<1>6. ASSUME NEW k \in 1 .. n
      PROVE  d.messages[f[k]].seq = k
  <2>1. f[k] \in M
    BY <1>5 DEF Lists
  <2> DEFINE x == f[k]
  <2>2. x \in 1 .. N /\ d.messages[x].thread = t
    BY <1>2, <2>1 DEF MessagesOf
  <2>3. d.messages[x].seq = Cardinality(Among(d, t, x))
    BY <1>1, <1>2, <2>2, LogsIs DEF CountTo
  <2>4. Cardinality(Below(M, x)) = k - 1
    BY <1>4, <1>5, PlacesCount
  <2> HIDE DEF x
  <2>5. Among(d, t, x) = Below(M, x) \cup {x} /\ x \notin Below(M, x)
    BY <1>2, <1>3, <2>2 DEF Among, Below
  <2>6. IsFiniteSet(Below(M, x))
    <3>1. Below(M, x) \in SUBSET M
      BY DEF Below
    <3> QED
      BY <1>4, <3>1, FS_Subset
  <2>7. Cardinality(Below(M, x) \cup {x}) = Cardinality(Below(M, x)) + 1
    BY <2>5, <2>6, FS_AddElement
  <2>8. d.messages[x].seq = k
    BY <1>4, <2>3, <2>4, <2>5, <2>7
  <2> QED
    BY <2>8 DEF x
<1>7. ASSUME NEW i \in M
      PROVE  d.messages[i].seq \in 1 .. n
  <2>1. PICK k \in 1 .. n : f[k] = i
    BY <1>5 DEF Lists
  <2> QED
    BY <1>6, <2>1
<1> QED
  BY <1>2, <1>4, <1>5, <1>6, <1>7

\* A message is known by its thread and its seq.
LEMMA SeqIsAKey ==
    ASSUME NEW d, Consistent(d), NEW t, NEW i \in MessagesOf(d, t), NEW j \in MessagesOf(d, t),
           d.messages[i].seq = d.messages[j].seq
    PROVE  i = j
<1>1. DOMAIN d.messages \in SUBSET Nat
  BY TablesAre DEF Consistent
<1>2. i \in Nat /\ j \in Nat
  BY <1>1 DEF MessagesOf
<1>3. d.messages[i].seq < d.messages[j].seq <=> i < j
  BY SeqOrderIsIdOrder
<1>4. d.messages[j].seq < d.messages[i].seq <=> j < i
  BY SeqOrderIsIdOrder
<1>5. d.messages[i].seq \in Nat /\ d.messages[j].seq \in Nat
  BY SeqOrderIsIdOrder
<1> QED
  BY <1>2, <1>3, <1>4, <1>5

\* The messages of a thread that follow a seq it has, or 0, in their order.
LEMMA FollowingLists ==
    ASSUME NEW d, Consistent(d), NEW t, NEW n, n = LastMessageSeq(d, t), NEW a \in 0 .. n,
           NEW S, S = {i \in MessagesOf(d, t) : d.messages[i].seq > a},
           NEW g, g = InIdOrder(S)
    PROVE  /\ n \in Nat /\ S \in SUBSET Nat
           /\ Lists(g, S, n - a)
           /\ \A k \in 1 .. n - a : d.messages[g[k]].seq = a + k
<1> DEFINE M == MessagesOf(d, t)  f == InIdOrder(M)  b == n - a
<1>1. /\ M \in SUBSET Nat /\ n \in Nat
      /\ Lists(f, M, n)
      /\ \A k \in 1 .. n : d.messages[f[k]].seq = k
      /\ \A i \in M : d.messages[i].seq \in 1 .. n
  BY ThreadLists
<1> HIDE DEF M, f
<1>2. a \in Nat /\ b \in Nat /\ \A k \in 1 .. b : a + k \in 1 .. n /\ k \in Nat
  BY <1>1
<1>3. PICK p : p = [k \in 1 .. b |-> f[a + k]]
  OBVIOUS
<1>4. DOMAIN p = 1 .. b /\ \A k \in 1 .. b : p[k] = f[a + k] /\ d.messages[p[k]].seq = a + k /\ p[k] \in M
  <2>1. ASSUME NEW k \in 1 .. b
        PROVE  p[k] = f[a + k] /\ d.messages[p[k]].seq = a + k /\ p[k] \in M
    <3>1. p[k] = f[a + k] /\ a + k \in 1 .. n
      BY <1>2, <1>3
    <3> QED
      BY <1>1, <3>1 DEF Lists
  <2> QED
    BY <1>3, <2>1
<1>5. S \in SUBSET Nat /\ \A x : x \in S <=> x \in M /\ d.messages[x].seq > a
  BY <1>1 DEF M
<1>6. Lists(p, S, b)
  <2>1. \A k \in 1 .. b : p[k] \in S
    <3> TAKE k \in 1 .. b
    <3>1. a + k > a
      BY <1>2
    <3> QED
      BY <1>4, <1>5, <3>1
  <2>2. ASSUME NEW x \in S
        PROVE  \E k \in 1 .. b : p[k] = x
    <3> DEFINE k == d.messages[x].seq - a
    <3>1. x \in M /\ d.messages[x].seq \in 1 .. n /\ d.messages[x].seq > a
      BY <1>1, <1>5
    <3>2. k \in 1 .. b /\ a + k = d.messages[x].seq
      BY <1>1, <1>2, <3>1
    <3> HIDE DEF k
    <3>3. PICK q \in 1 .. n : f[q] = x
      BY <1>1, <3>1 DEF Lists
    <3>4. q = a + k
      BY <1>1, <3>2, <3>3
    <3> QED
      BY <1>4, <3>2, <3>3, <3>4
  <2>3. ASSUME NEW i \in 1 .. b, NEW j \in 1 .. b, i < j
        PROVE  p[i] < p[j]
    <3>1. a + i \in 1 .. n /\ a + j \in 1 .. n /\ a + i < a + j
      BY <1>2, <2>3
    <3>2. f[a + i] < f[a + j]
      BY <1>1, <3>1 DEF Lists
    <3> QED
      BY <1>4, <3>2
  <2>4. p \in [1 .. b -> S]
    BY <1>3, <2>1
  <2> QED
    BY <2>2, <2>3, <2>4 DEF Lists
<1>7. g = p
  BY <1>2, <1>5, <1>6, InIdOrderIs
<1> QED
  BY <1>1, <1>4, <1>5, <1>6, <1>7

\* s is of the messages of t, one after the other from the one after seq a.
Page(d, t, a, s) ==
    /\ s \in Seq(ToSet(d.messages))
    /\ \A i \in DOMAIN s : s[i].thread = t /\ s[i].seq = a + i

\* A read after a seq gives the rest of the thread.
LEMMA ReadAfterIsAPage ==
    ASSUME NEW d, Consistent(d), NEW t, NEW n, n = LastMessageSeq(d, t), NEW a \in 0 .. n,
           NEW out, out = ListMessagesAfter(d, t, a)
    PROVE  Page(d, t, a, out) /\ n \in Nat /\ Len(out) = n - a
<1> DEFINE S == {i \in MessagesOf(d, t) : d.messages[i].seq > a}  g == InIdOrder(S)  b == n - a
<1>1. /\ n \in Nat /\ S \in SUBSET Nat
      /\ Lists(g, S, b)
      /\ \A k \in 1 .. b : d.messages[g[k]].seq = a + k
  BY FollowingLists
<1>2. out = BySeq(d, S) /\ S \in SUBSET MessagesOf(d, t)
  BY DEF ListMessagesAfter
<1>3. out = RowsAt(d.messages, g)
  BY <1>2, BySeqIsSelect DEF Select
<1>4. \A x \in S : x \in DOMAIN d.messages /\ d.messages[x].thread = t
  BY DEF MessagesOf
<1> HIDE DEF S, g
<1>5. DOMAIN g = 1 .. b /\ b \in Nat /\ \A k \in 1 .. b : g[k] \in S
  <2>1. g \in [1 .. b -> S]
    BY Zenon, <1>1 DEF Lists
  <2>2. b \in Nat
    BY <1>1
  <2> HIDE DEF b
  <2> QED
    BY <2>1, <2>2
<1>6. out = [k \in 1 .. b |-> d.messages[g[k]]]
  BY <1>3, <1>5 DEF RowsAt
<1>7. \A k \in 1 .. b : d.messages[g[k]] \in ToSet(d.messages)
  BY <1>4, <1>5 DEF ToSet
<1>8. out \in Seq(ToSet(d.messages)) /\ Len(out) = b
  BY <1>5, <1>6, <1>7
<1>9. \A k \in 1 .. b : out[k].thread = t /\ out[k].seq = a + k
  <2> HIDE DEF b
  <2>1. \A k \in 1 .. b : d.messages[g[k]].seq = a + k
    BY Zenon, <1>1 DEF b
  <2>2. \A k \in 1 .. b : d.messages[g[k]].thread = t
    BY Zenon, <1>4, <1>5
  <2>3. \A k \in 1 .. b : out[k] = d.messages[g[k]]
    BY Zenon, <1>6
  <2> QED
    BY Zenon, <2>1, <2>2, <2>3
<1>10. DOMAIN out = 1 .. b
  BY <1>6
<1> QED
  BY <1>1, <1>8, <1>9, <1>10 DEF Page

\* One after any seq gives what follows it, or nothing.
LEMMA ReadFromIsAPage ==
    ASSUME NEW d, Consistent(d), NEW t, NEW a \in Nat, NEW out, out = ListMessagesAfter(d, t, a)
    PROVE  Page(d, t, a, out)
<1>1. PICK n : n = LastMessageSeq(d, t)
  OBVIOUS
<1>2. n \in Nat /\ \A i \in MessagesOf(d, t) : d.messages[i].seq \in 1 .. n
  BY <1>1, ThreadLists
<1>3. CASE a \in 0 .. n
  BY <1>1, <1>3, ReadAfterIsAPage
<1>4. CASE a \notin 0 .. n
  <2>1. PICK S : S = {i \in MessagesOf(d, t) : d.messages[i].seq > a}
    OBVIOUS
  <2>2. S = {}
    BY <1>2, <1>4, <2>1
  <2>3. PICK g : g = InIdOrder(S)
    OBVIOUS
  <2>4. DOMAIN g = {}
    <3>1. IsFiniteSet(S) /\ Cardinality(S) = 0 /\ S \in SUBSET Nat
      BY <2>2, FS_EmptySet
    <3>2. g \in [1 .. Cardinality(S) -> S]
      BY <2>3, <3>1, InIdOrderLists
    <3> QED
      BY <3>1, <3>2
  <2>5. S \in SUBSET MessagesOf(d, t) /\ out = BySeq(d, S)
    BY <2>1 DEF ListMessagesAfter
  <2>6. out = RowsAt(d.messages, g)
    BY <2>3, <2>5, BySeqIsSelect DEF Select
  <2>7. DOMAIN out = {}
    BY <2>4, <2>6 DEF RowsAt
  <2>8. out \in Seq(ToSet(d.messages))
    BY ListsAreOfRows
  <2> QED
    BY <2>7, <2>8 DEF Page
<1> QED
  BY <1>3, <1>4

\* A read of all gives the thread.
LEMMA ReadAllIsAPage ==
    ASSUME NEW d, Consistent(d), NEW t, NEW out, out = ListMessages(d, t)
    PROVE  Page(d, t, 0, out) /\ Len(out) = LastMessageSeq(d, t)
<1>1. PICK n : n = LastMessageSeq(d, t)
  OBVIOUS
<1>2. n \in Nat /\ \A i \in MessagesOf(d, t) : d.messages[i].seq \in 1 .. n
  BY <1>1, ThreadLists
<1>3. {i \in MessagesOf(d, t) : d.messages[i].seq > 0} = MessagesOf(d, t)
  BY <1>2
<1>4. out = ListMessagesAfter(d, t, 0)
  BY <1>3 DEF ListMessages, ListMessagesAfter
<1>5. 0 \in 0 .. n /\ n - 0 = n
  BY <1>2
<1> QED
  BY <1>1, <1>4, <1>5, ReadAfterIsAPage

\* A read of the last messages gives the end of the thread.
LEMMA ReadLastIsAPage ==
    ASSUME NEW d, Consistent(d), NEW t, NEW last \in Nat,
           NEW out, out = ListMessagesLastN(d, t, last)
    PROVE  \E a \in Nat : Page(d, t, a, out)
<1>1. PICK all : all = ListMessages(d, t)
  OBVIOUS
<1>2. /\ all \in Seq(ToSet(d.messages))
      /\ \A i \in DOMAIN all : all[i].thread = t /\ all[i].seq = 0 + i
  BY <1>1, ReadAllIsAPage DEF Page
<1>3. Len(all) \in Nat /\ DOMAIN all = 1 .. Len(all)
  BY <1>2
<1>4. out = IF Len(all) <= last THEN all ELSE SubSeq(all, Len(all) - last + 1, Len(all))
  BY <1>1 DEF ListMessagesLastN
<1>5. CASE Len(all) <= last
  <2>1. out = all
    BY <1>4, <1>5, Zenon
  <2> QED
    BY <1>1, <2>1, ReadAllIsAPage
<1>6. CASE ~(Len(all) <= last)
  <2> DEFINE a == Len(all) - last  m == Len(all)
  <2>1. a \in Nat /\ a + 1 \in 1 .. m + 1 /\ m \in Nat /\ m - (a + 1) + 1 = last
    BY <1>3, <1>6
  <2>2. out = SubSeq(all, a + 1, m)
    BY <1>4, <1>6, Zenon
  <2> HIDE DEF a
  <2>3. /\ out \in Seq(ToSet(d.messages)) /\ Len(out) = last
        /\ \A i \in 1 .. last : out[i] = all[a + i] /\ a + i \in 1 .. m
    <3>1. out \in Seq(ToSet(d.messages)) /\ Len(out) = last
      BY <1>2, <2>1, <2>2
    <3>2. ASSUME NEW i \in 1 .. last
          PROVE  out[i] = all[a + i] /\ a + i \in 1 .. m
      BY <1>2, <2>1, <2>2, <3>2
    <3> QED
      BY <3>1, <3>2
  <2>4. \A i \in DOMAIN out : out[i].thread = t /\ out[i].seq = a + i
    <3> TAKE i \in DOMAIN out
    <3>1. i \in 1 .. last
      BY <2>3
    <3>2. out[i] = all[a + i] /\ a + i \in DOMAIN all
      BY <1>3, <2>3, <3>1
    <3>3. all[a + i].thread = t /\ all[a + i].seq = 0 + (a + i)
      BY <1>2, <3>2
    <3> QED
      BY <2>1, <3>1, <3>2, <3>3
  <2>5. Page(d, t, a, out)
    BY <2>3, <2>4 DEF Page
  <2> QED
    BY <2>1, <2>5
<1> QED
  BY <1>5, <1>6

=============================================================================

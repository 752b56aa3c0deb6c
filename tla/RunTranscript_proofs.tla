------------------------ MODULE RunTranscript_proofs ------------------------
(* Of RunTranscript, for every size of the limiter and of the buffers and   *)
(* any amount of output: the types, that the transcript is in order, and    *)
(* that it is complete when closeAll returns.                               *)
EXTENDS RunTranscript, TLAPS, SequenceTheorems

----------------------------------------------------------------------------
(* Runs of numbers, and the ends of sequences *)

\* A sequence's pieces after a cut are a sequence of the same set.
LEMMA SubSeqType ==
    ASSUME NEW S, NEW seq \in Seq(S), NEW i \in 1 .. Len(seq) + 1, NEW j \in 0 .. Len(seq)
    PROVE  SubSeq(seq, i, j) \in Seq(S)
OBVIOUS

\* s is a run of the numbers i to j.
Run(s, i, j) ==
    /\ s \in Seq(Nat) /\ Len(s) = j - i + 1
    /\ \A x \in 1 .. Len(s) : s[x] = i + x - 1

\* Pieces i to j are a run of them, and the only one.
LEMMA PiecesAreRun ==
    ASSUME NEW i \in Nat, NEW j \in Nat, i <= j + 1
    PROVE  /\ Run(Pieces(i, j), i, j)
           /\ \A s : Run(s, i, j) => s = Pieces(i, j)
<1> DEFINE n == IF j < i THEN 0 ELSE j - i + 1
<1>1. n \in Nat /\ n = j - i + 1
  OBVIOUS
<1>2. Pieces(i, j) = [k \in 1 .. n |-> i + k - 1]
  BY DEF Pieces
<1>3. \A k \in 1 .. n : i + k - 1 \in Nat
  OBVIOUS
<1> HIDE DEF n
<1>4. Run(Pieces(i, j), i, j)
  BY <1>1, <1>2, <1>3 DEF Run
<1>5. ASSUME NEW s, Run(s, i, j), NEW p, p = Pieces(i, j)
      PROVE  s = p
  <2>1. /\ s \in Seq(Nat) /\ p \in Seq(Nat) /\ Len(s) = Len(p)
        /\ \A x \in 1 .. Len(s) : s[x] = p[x]
    BY <1>4, <1>5 DEF Run
  <2> QED
    BY <2>1, SeqEqual
<1> QED
  BY <1>4, <1>5

\* A run that follows on another makes one run with it.
LEMMA RunsJoin ==
    ASSUME NEW i \in Nat, NEW j \in Nat, NEW k \in Nat, NEW a, NEW b,
           Run(a, i, j), Run(b, j + 1, k)
    PROVE  Run(a \o b, i, k)
<1>1. /\ a \in Seq(Nat) /\ Len(a) = j - i + 1
      /\ b \in Seq(Nat) /\ Len(b) = k - j
  BY DEF Run
<1>2. a \o b \in Seq(Nat) /\ Len(a \o b) = k - i + 1
  BY <1>1
<1>3. ASSUME NEW x \in 1 .. Len(a \o b) PROVE (a \o b)[x] = i + x - 1
  <2>1. CASE x <= Len(a)
    <3>1. (a \o b)[x] = a[x]
      BY <2>1, <1>1
    <3> QED
      BY <2>1, <3>1 DEF Run
  <2>2. CASE x > Len(a)
    <3>1. (a \o b)[x] = b[x - Len(a)] /\ x - Len(a) \in 1 .. Len(b)
      BY <2>2, <1>1, <1>2
    <3>2. b[x - Len(a)] = (j + 1) + (x - Len(a)) - 1
      BY <3>1 DEF Run
    <3> QED
      BY <3>1, <3>2, <1>1, <1>2
  <2> QED
    BY <2>1, <2>2, <1>1, <1>2
<1> QED
  BY <1>2, <1>3 DEF Run

\* A part of a run is one, too.
LEMMA RunPart ==
    ASSUME NEW i \in Nat, NEW j \in Nat, NEW s, Run(s, i, j),
           NEW a \in Nat \ {0}, NEW b \in Nat, a <= b + 1, b <= Len(s)
    PROVE  Run(SubSeq(s, a, b), i + a - 1, i + b - 1)
<1>1. s \in Seq(Nat) /\ Len(s) \in Nat
  BY DEF Run
<1>2. SubSeq(s, a, b) \in Seq(Nat) /\ Len(SubSeq(s, a, b)) = b - a + 1
  BY <1>1
<1>3. ASSUME NEW x \in 1 .. Len(SubSeq(s, a, b))
      PROVE  SubSeq(s, a, b)[x] = i + a - 1 + x - 1
  <2>1. SubSeq(s, a, b)[x] = s[x + a - 1] /\ x + a - 1 \in 1 .. Len(s)
    BY <1>1, <1>2
  <2>2. s[x + a - 1] = i + (x + a - 1) - 1
    BY <2>1 DEF Run
  <2> QED
    BY <2>1, <2>2, <1>2
<1> QED
  BY <1>2, <1>3 DEF Run

\* Pieces that follow on each other.
LEMMA PiecesJoin ==
    ASSUME NEW i \in Nat, NEW j \in Nat, NEW k \in Nat, i <= j + 1, j <= k
    PROVE  Pieces(i, j) \o Pieces(j + 1, k) = Pieces(i, k)
<1>1. Run(Pieces(i, j), i, j)
  BY PiecesAreRun
<1>2. j + 1 \in Nat /\ j + 1 <= k + 1 /\ i <= k + 1
  OBVIOUS
<1>3. Run(Pieces(j + 1, k), j + 1, k)
  BY <1>2, PiecesAreRun
<1>4. Run(Pieces(i, j) \o Pieces(j + 1, k), i, k)
  BY <1>1, <1>3, RunsJoin
<1> QED
  BY <1>2, <1>4, PiecesAreRun

\* The a-th to the b-th of the pieces from i to j are the pieces from u to v.
Cut(i, j, a, b, u, v) ==
    /\ i \in Nat \ {0} /\ j \in Nat /\ i <= j + 1
    /\ a \in Nat \ {0} /\ b \in Nat /\ a <= b + 1 /\ b <= j - i + 1
    /\ u \in Nat /\ u = i + a - 1 /\ v \in Nat /\ v = i + b - 1

\* A part of the pieces from i to j.
LEMMA PiecesPart ==
    ASSUME NEW i, NEW j, NEW a, NEW b, NEW u, NEW v, Cut(i, j, a, b, u, v)
    PROVE  SubSeq(Pieces(i, j), a, b) = Pieces(u, v)
<1> USE DEF Cut
<1>1. Run(Pieces(i, j), i, j)
  BY PiecesAreRun
<1>2. b <= Len(Pieces(i, j))
  BY <1>1 DEF Run
<1>3. Run(SubSeq(Pieces(i, j), a, b), u, v)
  BY <1>1, <1>2, RunPart
<1>4. u <= v + 1
  OBVIOUS
<1> QED
  BY <1>3, <1>4, PiecesAreRun

\* s is the end of x, n elements of it or all.
Ends(s, x, n) ==
    /\ Len(s) = IF Len(x) > n THEN n ELSE Len(x)
    /\ \A k \in 1 .. Len(s) : s[k] = x[Len(x) - Len(s) + k]

\* The last n elements of a sequence, counted from its end.
LEMMA LastOfEnds ==
    ASSUME NEW S, NEW x \in Seq(S), NEW n \in Nat
    PROVE  LastOf(x, n) \in Seq(S) /\ Ends(LastOf(x, n), x, n)
<1>1. ASSUME NEW i \in 1 .. Len(x) + 1, Len(x) - i + 1 = IF Len(x) > n THEN n ELSE Len(x),
             NEW s, s = SubSeq(x, i, Len(x))
      PROVE  s \in Seq(S) /\ Ends(s, x, n)
  <2>1. s \in Seq(S)
    BY <1>1, SubSeqType
  <2>2. Len(s) = Len(x) - i + 1
    BY <1>1
  <2>3. ASSUME NEW k \in 1 .. Len(s) PROVE s[k] = x[k + i - 1]
    BY <1>1, <2>2, <2>3
  <2>4. ASSUME NEW k \in 1 .. Len(s) PROVE k + i - 1 = Len(x) - Len(s) + k
    BY <2>2, <2>4
  <2> QED
    BY <1>1, <2>1, <2>2, <2>3, <2>4 DEF Ends
<1>2. CASE Len(x) > n
  <2>1. LastOf(x, n) = SubSeq(x, Len(x) - n + 1, Len(x)) /\ Len(x) - n + 1 \in 1 .. Len(x) + 1
    BY <1>2 DEF LastOf
  <2>2. Len(x) - (Len(x) - n + 1) + 1 = n
    OBVIOUS
  <2> QED
    BY <1>1, <1>2, <2>1, <2>2
<1>3. CASE ~(Len(x) > n)
  <2>1. LastOf(x, n) = SubSeq(x, 1, Len(x)) /\ 1 \in 1 .. Len(x) + 1
    BY <1>3 DEF LastOf
  <2>2. Len(x) - 1 + 1 = Len(x)
    OBVIOUS
  <2> QED
    BY <1>1, <1>3, <2>1, <2>2
<1> QED
  BY <1>2, <1>3

\* The last n of the last n and what follows are the last n of all.
LEMMA LastOfLast ==
    ASSUME NEW S, NEW x \in Seq(S), NEW y \in Seq(S), NEW n \in Nat
    PROVE  LastOf(LastOf(x, n) \o y, n) = LastOf(x \o y, n)
<1>1. ASSUME NEW l \in Seq(S), Ends(l, x, n), NEW u \in Seq(S), Ends(u, l \o y, n),
             NEW v \in Seq(S), Ends(v, x \o y, n)
      PROVE  u = v
  <2>1. Len(l) = IF Len(x) > n THEN n ELSE Len(x)
    BY <1>1 DEF Ends
  <2>2. l \o y \in Seq(S) /\ Len(l \o y) = Len(l) + Len(y)
    OBVIOUS
  <2>3. x \o y \in Seq(S) /\ Len(x \o y) = Len(x) + Len(y)
    OBVIOUS
  <2>4. Len(u) = IF Len(l) + Len(y) > n THEN n ELSE Len(l) + Len(y)
    BY <1>1, <2>2 DEF Ends
  <2>5. Len(v) = IF Len(x) + Len(y) > n THEN n ELSE Len(x) + Len(y)
    BY <1>1, <2>3 DEF Ends
  <2>6. Len(l) \in Nat /\ Len(x) \in Nat /\ Len(y) \in Nat /\ Len(u) \in Nat
    OBVIOUS
  <2>7. Len(u) = Len(v) /\ Len(u) <= Len(l) + Len(y) /\ Len(l) <= Len(x)
    <3> SUFFICES ASSUME NEW a \in Nat, NEW b \in Nat, NEW c \in Nat, NEW e, NEW f,
                        c = (IF a > n THEN n ELSE a),
                        e = (IF c + b > n THEN n ELSE c + b),
                        f = (IF a + b > n THEN n ELSE a + b)
                 PROVE  e = f /\ e <= c + b /\ c <= a
      BY <2>1, <2>4, <2>5, <2>6
    <3> QED
      OBVIOUS
  <2>8. ASSUME NEW k \in 1 .. Len(u) PROVE u[k] = v[k]
    <3>1. u[k] = (l \o y)[Len(l \o y) - Len(u) + k]
      BY <1>1 DEF Ends
    <3>2. v[k] = (x \o y)[Len(x \o y) - Len(v) + k]
      <4>1. k \in 1 .. Len(v)
        BY <2>7
      <4> QED
        BY <1>1, <4>1 DEF Ends
    <3>3. u[k] = (l \o y)[Len(l) + Len(y) - Len(u) + k]
      <4>1. Len(l \o y) - Len(u) + k = Len(l) + Len(y) - Len(u) + k
        BY <2>2
      <4> QED
        BY <3>1, <4>1, Zenon
    <3>4. v[k] = (x \o y)[Len(x) + Len(y) - Len(u) + k]
      <4>1. Len(x \o y) - Len(v) + k = Len(x) + Len(y) - Len(u) + k
        BY <2>3, <2>7
      <4> QED
        BY <3>2, <4>1, Zenon
    <3>5. CASE k > Len(u) - Len(y)
      <4>1. Len(l) + Len(y) - Len(u) + k \in Len(l) + 1 .. Len(l) + Len(y)
        BY <2>6, <2>7, <3>5
      <4>2. Len(x) + Len(y) - Len(u) + k \in Len(x) + 1 .. Len(x) + Len(y)
        BY <2>6, <2>7, <3>5
      <4>3. (l \o y)[Len(l) + Len(y) - Len(u) + k] = y[Len(l) + Len(y) - Len(u) + k - Len(l)]
        BY <4>1
      <4>4. (x \o y)[Len(x) + Len(y) - Len(u) + k] = y[Len(x) + Len(y) - Len(u) + k - Len(x)]
        BY <4>2
      <4>5. Len(l) + Len(y) - Len(u) + k - Len(l) = Len(x) + Len(y) - Len(u) + k - Len(x)
        BY <2>6
      <4> QED
        BY <3>3, <3>4, <4>3, <4>4, <4>5
    <3>6. CASE k <= Len(u) - Len(y)
      <4>1. Len(l) + Len(y) - Len(u) + k \in 1 .. Len(l)
        BY <2>6, <2>7, <3>6
      <4>2. Len(x) + Len(y) - Len(u) + k \in 1 .. Len(x)
        BY <2>6, <2>7, <3>6
      <4>3. (l \o y)[Len(l) + Len(y) - Len(u) + k] = l[Len(l) + Len(y) - Len(u) + k]
        BY <4>1
      <4>4. (x \o y)[Len(x) + Len(y) - Len(u) + k] = x[Len(x) + Len(y) - Len(u) + k]
        BY <4>2
      <4>5. l[Len(l) + Len(y) - Len(u) + k] = x[Len(x) - Len(l) + (Len(l) + Len(y) - Len(u) + k)]
        BY <1>1, <4>1 DEF Ends
      <4>6. Len(x) - Len(l) + (Len(l) + Len(y) - Len(u) + k) = Len(x) + Len(y) - Len(u) + k
        BY <2>6
      <4> QED
        BY <3>3, <3>4, <4>3, <4>4, <4>5, <4>6
    <3> QED
      BY <3>5, <3>6, <2>6
  <2> QED
    BY <2>7, <2>8, SeqEqual
<1>2. LastOf(x, n) \in Seq(S) /\ Ends(LastOf(x, n), x, n)
  BY LastOfEnds
<1>3. ASSUME NEW z \in Seq(S) PROVE LastOf(z, n) \in Seq(S) /\ Ends(LastOf(z, n), z, n)
  BY LastOfEnds
<1>4. LastOf(x, n) \o y \in Seq(S) /\ x \o y \in Seq(S)
  BY <1>2
<1> QED
  BY <1>1, <1>2, <1>3, <1>4

----------------------------------------------------------------------------
(* The limiter *)

USE SizeAssumption

\* Pieces i to j are numbers of pieces written.
LEMMA PiecesType ==
    ASSUME NEW i \in Nat, NEW j \in Nat, j <= MaxOutput
    PROVE  Pieces(i, j) \in Seq(Piece)
<1> DEFINE n == IF j < i THEN 0 ELSE j - i + 1
<1>1. n \in Nat
  OBVIOUS
<1>2. \A k \in 1 .. n : i + k - 1 \in Piece
  BY DEF Piece
<1>3. Pieces(i, j) = [k \in 1 .. n |-> i + k - 1]
  BY DEF Pieces
<1> QED
  BY <1>1, <1>2, <1>3

\* LastOf cuts a sequence down to at most n elements.
LEMMA LastOfType ==
    ASSUME NEW S, NEW seq \in Seq(S), NEW n \in Nat
    PROVE  LastOf(seq, n) \in Seq(S) /\ Len(LastOf(seq, n)) <= n
<1> DEFINE i == (IF Len(seq) > n THEN Len(seq) - n ELSE 0) + 1
<1>1. i \in 1 .. Len(seq) + 1 /\ Len(seq) - i + 1 <= n
  OBVIOUS
<1>2. SubSeq(seq, i, Len(seq)) \in Seq(S)
  BY <1>1, SubSeqType
<1>3. Len(SubSeq(seq, i, Len(seq))) <= n
  BY <1>1
<1> QED
  BY <1>2, <1>3 DEF LastOf

Limiter == [head : 0 .. headBytes, tail : Seq(Piece), overflow : BOOLEAN]

\* The limiter passes on pieces, and keeps at most tailBytes of them.
LEMMA PushType ==
    ASSUME NEW l \in Limiter, NEW b \in Seq(Piece), Len(l.tail) <= tailBytes
    PROVE  /\ Push(l, b).lim \in Limiter /\ Len(Push(l, b).lim.tail) <= tailBytes
           /\ Push(l, b).out \in Seq(Piece)
<1> DEFINE room == headBytes - l.head
           rest == SubSeq(b, room + 1, Len(b))
<1>1. l.head \in 0 .. headBytes /\ l.tail \in Seq(Piece) /\ l.overflow \in BOOLEAN
  BY DEF Limiter
<1>2. room \in 0 .. headBytes
  BY <1>1
<1>3. \A x \in Seq(Piece), y \in Seq(Piece) :
        KeepTail(x, y) \in Seq(Piece) /\ Len(KeepTail(x, y)) <= tailBytes
  <2> SUFFICES ASSUME NEW x \in Seq(Piece), NEW y \in Seq(Piece)
               PROVE  KeepTail(x, y) \in Seq(Piece) /\ Len(KeepTail(x, y)) <= tailBytes
    OBVIOUS
  <2>1. x \o y \in Seq(Piece)
    OBVIOUS
  <2> QED
    BY <2>1, LastOfType DEF KeepTail
<1>4. CASE l.overflow
  <2> DEFINE new == [l EXCEPT !.tail = KeepTail(@, b)]
  <2>1. Push(l, b) = [lim |-> new, out |-> <<>>]
    BY <1>4 DEF Push
  <2>2. new \in Limiter /\ new.tail = KeepTail(l.tail, b)
    BY <1>1, <1>3 DEF Limiter
  <2> HIDE DEF new
  <2> QED
    BY <2>1, <2>2, <1>1, <1>3
<1>5. CASE ~l.overflow /\ Len(b) <= room
  <2> DEFINE new == [l EXCEPT !.head = @ + Len(b)]
  <2>1. Push(l, b) = [lim |-> new, out |-> b]
    BY <1>5 DEF Push
  <2>3. l.head + Len(b) \in 0 .. headBytes
    BY <1>1, <1>5
  <2>2. new \in Limiter /\ new.tail = l.tail
    BY <1>1, <2>3 DEF Limiter
  <2> HIDE DEF new
  <2> QED
    BY <2>1, <2>2
<1>6. CASE ~l.overflow /\ ~(Len(b) <= room)
  <2> DEFINE new == [head |-> headBytes, overflow |-> TRUE, tail |-> KeepTail(<<>>, rest)]
  <2>1. Push(l, b) = [lim |-> new, out |-> SubSeq(b, 1, room)]
    BY <1>6 DEF Push
  <2>2. room + 1 \in 1 .. Len(b) + 1 /\ 1 \in 1 .. Len(b) + 1 /\ room \in 0 .. Len(b)
    BY <1>2, <1>6
  <2>3. rest \in Seq(Piece) /\ SubSeq(b, 1, room) \in Seq(Piece)
    BY <2>2, SubSeqType
  <2>4. KeepTail(<<>>, rest) \in Seq(Piece) /\ Len(KeepTail(<<>>, rest)) <= tailBytes
    <3> HIDE DEF rest
    <3>1. <<>> \in Seq(Piece)
      OBVIOUS
    <3> QED
      BY <3>1, <2>3, <1>3
  <2>5. new \in Limiter /\ new.tail = KeepTail(<<>>, rest)
    BY <2>4 DEF Limiter
  <2> HIDE DEF new, rest
  <2> QED
    BY <2>1, <2>3, <2>4, <2>5
<1> QED
  BY <1>1, <1>4, <1>5, <1>6

\* What Seal adds consists of pieces and the marker.
LEMMA SealedType ==
    ASSUME NEW l \in Limiter
    PROVE  Sealed(l) \in Seq(Piece)
<1>1. l.tail \in Seq(Piece) /\ ElisionMarker \in Piece
  BY DEF Limiter, Piece, ElisionMarker
<1>2. <<ElisionMarker>> \o l.tail \in Seq(Piece)
  BY <1>1
<1> QED
  BY <1>2 DEF Sealed

\* What is put behind the last part is put behind the whole.
LEMMA AppendBehind ==
    ASSUME NEW S, NEW x \in Seq(S), NEW y \in Seq(S), NEW z \in Seq(S)
    PROVE  x \o (y \o z) = (x \o y) \o z
<1>1. (x \o y) \o z = x \o (y \o z)
  BY ConcatAssociative
<1> QED
  BY <1>1

Shorter(a, b) == IF a < b THEN a ELSE b

\* What is handed over at once of n pieces.
Out(n) == Pieces(1, Shorter(n, headBytes))

\* The limiter after n pieces.
Kept(l, n) ==
    /\ ~l.overflow => l.head = n /\ n <= headBytes
    /\ l.overflow => /\ n > headBytes
                     /\ l.tail = LastOf(Pieces(headBytes + 1, n), tailBytes)

\* A limiter l that has had k pieces takes those from k + 1 to n.
Pushes(l, k, n, p) ==
    /\ l \in Limiter /\ k \in Nat /\ n \in Nat /\ k < n
    /\ Kept(l, k) /\ p = Push(l, Pieces(k + 1, n))

\* It then has had n pieces, and passes on what is due of them.
Pushed(k, n, p) == Kept(p.lim, n) /\ Out(k) \o p.out = Out(n)

\* A push does so, wherever the head's limit lies.
LEMMA PushKeeps ==
    ASSUME NEW l, NEW k, NEW n, NEW p, Pushes(l, k, n, p)
    PROVE  Pushed(k, n, p)
<1> USE DEF Pushes, Pushed
<1> DEFINE b == Pieces(k + 1, n)
           room == headBytes - l.head
<1>1. b \in Seq(Nat) /\ Len(b) = n - k /\ k + 1 \in Nat /\ k + 1 <= n + 1
  <2>1. k + 1 \in Nat /\ k + 1 <= n + 1
    OBVIOUS
  <2>2. Run(b, k + 1, n)
    BY <2>1, PiecesAreRun
  <2> QED
    BY <2>1, <2>2 DEF Run
<1>2. l.head \in 0 .. headBytes /\ l.overflow \in BOOLEAN /\ headBytes \in Nat
  BY DEF Limiter
<1>3. CASE l.overflow
  <2>1. k > headBytes /\ l.tail = LastOf(Pieces(headBytes + 1, k), tailBytes)
    BY <1>3 DEF Kept
  <2>2. p.lim = [l EXCEPT !.tail = KeepTail(@, b)] /\ p.out = <<>>
    BY <1>3 DEF Push
  <2>3. p.lim.overflow /\ p.lim.tail = LastOf(l.tail \o b, tailBytes)
    BY <1>3, <2>2 DEF KeepTail, Limiter
  <2>4. Pieces(headBytes + 1, k) \o b = Pieces(headBytes + 1, n)
    <3>1. headBytes + 1 \in Nat /\ headBytes + 1 <= k + 1 /\ k <= n
      BY <2>1
    <3> QED
      BY <3>1, PiecesJoin
  <2>5. Pieces(headBytes + 1, k) \in Seq(Nat)
    <3>1. headBytes + 1 \in Nat /\ headBytes + 1 <= k + 1
      BY <2>1
    <3>2. Run(Pieces(headBytes + 1, k), headBytes + 1, k)
      BY <3>1, PiecesAreRun
    <3> QED
      BY <3>2 DEF Run
  <2>6. LastOf(LastOf(Pieces(headBytes + 1, k), tailBytes) \o b, tailBytes)
          = LastOf(Pieces(headBytes + 1, k) \o b, tailBytes)
    <3>1. tailBytes \in Nat
      OBVIOUS
    <3> HIDE DEF b
    <3> QED
      BY <1>1, <2>5, <3>1, LastOfLast
  <2>7. p.lim.tail = LastOf(Pieces(headBytes + 1, n), tailBytes)
    BY <2>1, <2>3, <2>4, <2>6
  <2>8. Kept(p.lim, n)
    BY <2>1, <2>3, <2>7 DEF Kept
  <2>9. Out(k) = Out(n) /\ Out(k) = Pieces(1, headBytes)
    BY <2>1 DEF Out, Shorter
  <2>10. Pieces(1, headBytes) \o <<>> = Pieces(1, headBytes)
    <3>1. 1 \in Nat /\ 1 <= headBytes + 1
      OBVIOUS
    <3>2. Run(Pieces(1, headBytes), 1, headBytes)
      BY <3>1, PiecesAreRun
    <3> QED
      BY <3>2, ConcatEmptySeq DEF Run
  <2> QED
    BY <2>2, <2>8, <2>9, <2>10
<1>4. CASE ~l.overflow /\ Len(b) <= room
  <2>1. l.head = k /\ k <= headBytes
    BY <1>4 DEF Kept
  <2>2. p.lim = [l EXCEPT !.head = @ + Len(b)] /\ p.out = b
    BY <1>4 DEF Push
  <2>3. ~p.lim.overflow /\ p.lim.head = k + Len(b)
    BY <1>4, <2>1, <2>2 DEF Limiter
  <2>4. n <= headBytes /\ k + Len(b) = n
    BY <1>1, <1>4, <2>1
  <2>5. Kept(p.lim, n)
    BY <2>3, <2>4 DEF Kept
  <2>6. Out(k) = Pieces(1, k) /\ Out(n) = Pieces(1, n)
    BY <2>1, <2>4 DEF Out, Shorter
  <2>7. Pieces(1, k) \o b = Pieces(1, n)
    <3>1. 1 \in Nat /\ 1 <= k + 1 /\ k <= n
      OBVIOUS
    <3> QED
      BY <3>1, PiecesJoin
  <2> QED
    BY <2>2, <2>5, <2>6, <2>7
<1>5. CASE ~l.overflow /\ ~(Len(b) <= room)
  <2>1. l.head = k /\ k <= headBytes /\ room = headBytes - k
    BY <1>5 DEF Kept
  <2> DEFINE rest == SubSeq(b, room + 1, Len(b))
  <2>2. /\ p.lim = [head |-> headBytes, overflow |-> TRUE, tail |-> KeepTail(<<>>, rest)]
        /\ p.out = SubSeq(b, 1, room)
    BY <1>5 DEF Push
  <2>3. n > headBytes /\ room \in Nat /\ room + 1 \in Nat \ {0} /\ Len(b) = n - k
        /\ room + 1 <= Len(b) + 1 /\ 1 <= room + 1 /\ room <= n - k
        /\ k + 1 \in Nat \ {0} /\ k + 1 <= n + 1 /\ n - k \in Nat
    BY <1>1, <1>5, <2>1
  <2>4. SubSeq(b, 1, room) = Pieces(k + 1, headBytes)
    <3>1. Cut(k + 1, n, 1, room, k + 1, headBytes)
      BY <2>1, <2>3 DEF Cut
    <3> QED
      BY <3>1, PiecesPart
  <2>5. rest = Pieces(headBytes + 1, n)
    <3>1. Cut(k + 1, n, room + 1, Len(b), headBytes + 1, n)
      <4> HIDE DEF b
      <4> QED
        BY <2>1, <2>3 DEF Cut
    <3> QED
      BY <3>1, PiecesPart
  <2>6. Pieces(headBytes + 1, n) \in Seq(Nat)
    <3>1. headBytes + 1 \in Nat /\ headBytes + 1 <= n + 1
      BY <2>3
    <3>2. Run(Pieces(headBytes + 1, n), headBytes + 1, n)
      BY <3>1, PiecesAreRun
    <3> QED
      BY <3>2 DEF Run
  <2>7. <<>> \o Pieces(headBytes + 1, n) = Pieces(headBytes + 1, n)
    BY <2>6, ConcatEmptySeq
  <2>8. p.lim.overflow /\ p.lim.tail = LastOf(Pieces(headBytes + 1, n), tailBytes)
    <3>1. p.lim.overflow /\ p.lim.tail = KeepTail(<<>>, rest)
      <4> HIDE DEF rest, b, room
      <4> QED
        BY <2>2
    <3> HIDE DEF rest
    <3>2. KeepTail(<<>>, rest) = LastOf(<<>> \o rest, tailBytes)
      BY DEF KeepTail
    <3>3. rest = Pieces(headBytes + 1, n)
      BY <2>5 DEF rest
    <3> QED
      BY <2>7, <3>1, <3>2, <3>3, Zenon
  <2>9. Kept(p.lim, n)
    BY <2>3, <2>8 DEF Kept
  <2>10. Out(k) = Pieces(1, k) /\ Out(n) = Pieces(1, headBytes)
    BY <2>1, <2>3 DEF Out, Shorter
  <2>11. Pieces(1, k) \o Pieces(k + 1, headBytes) = Pieces(1, headBytes)
    <3>1. 1 \in Nat /\ 1 <= k + 1 /\ k <= headBytes
      BY <2>1
    <3> QED
      BY <3>1, PiecesJoin
  <2> QED
    BY <2>2, <2>4, <2>9, <2>10, <2>11
<1> QED
  BY <1>2, <1>3, <1>4, <1>5

\* What the limiter hands over of an output of n pieces, in all.
Retained(n) == IF n <= headBytes THEN Pieces(1, n) ELSE Elided(n)

\* What is handed over in all of a stream that is sealed.
LEMMA SealedIsRetained ==
    ASSUME NEW l \in Limiter, NEW n \in Nat, Kept(l, n)
    PROVE  Out(n) \o Sealed(l) = Retained(n)
<1>1. l.overflow \in BOOLEAN /\ headBytes \in Nat
  BY DEF Limiter
<1>2. CASE ~l.overflow
  <2>1. n <= headBytes /\ Sealed(l) = <<>> /\ Retained(n) = Pieces(1, n)
    BY <1>2 DEF Kept, Sealed, Retained
  <2>2. Out(n) = Pieces(1, n)
    BY <2>1, <1>1 DEF Out, Shorter
  <2>3. Pieces(1, n) \in Seq(Nat)
    <3>1. Run(Pieces(1, n), 1, n)
      <4>1. 1 \in Nat /\ 1 <= n + 1
        OBVIOUS
      <4> QED
        BY <4>1, PiecesAreRun
    <3> QED
      BY <3>1 DEF Run
  <2> QED
    BY <2>1, <2>2, <2>3, ConcatEmptySeq
<1>3. CASE l.overflow
  <2>1. n > headBytes /\ l.tail = LastOf(Pieces(headBytes + 1, n), tailBytes)
    BY <1>3 DEF Kept
  <2>2. Out(n) = Pieces(1, headBytes)
    BY <2>1, <1>1 DEF Out, Shorter
  <2>3. Sealed(l) = <<ElisionMarker>> \o LastOf(Pieces(headBytes + 1, n), tailBytes)
    BY <1>3, <2>1 DEF Sealed
  <2>4. Retained(n) = Pieces(1, headBytes) \o <<ElisionMarker>>
                      \o LastOf(Pieces(headBytes + 1, n), tailBytes)
    BY <2>1, <1>1 DEF Retained, Elided
  <2> DEFINE S == Nat
  <2>5. /\ Pieces(1, headBytes) \in Seq(S) /\ <<ElisionMarker>> \in Seq(S)
        /\ LastOf(Pieces(headBytes + 1, n), tailBytes) \in Seq(S)
    <3>1. Run(Pieces(1, headBytes), 1, headBytes)
      <4>1. 1 \in Nat /\ 1 <= headBytes + 1
        OBVIOUS
      <4> QED
        BY <4>1, PiecesAreRun
    <3>2. Run(Pieces(headBytes + 1, n), headBytes + 1, n)
      <4>1. headBytes + 1 \in Nat /\ headBytes + 1 <= n + 1
        BY <2>1
      <4> QED
        BY <4>1, PiecesAreRun
    <3>3. Pieces(headBytes + 1, n) \in Seq(Nat) /\ tailBytes \in Nat
      BY <3>2 DEF Run
    <3> QED
      BY <3>1, <3>3, LastOfEnds DEF Run, ElisionMarker
  <2> HIDE DEF S
  <2>6. Pieces(1, headBytes) \o (<<ElisionMarker>> \o LastOf(Pieces(headBytes + 1, n), tailBytes))
          = Pieces(1, headBytes) \o <<ElisionMarker>> \o LastOf(Pieces(headBytes + 1, n), tailBytes)
    BY <2>5, AppendBehind, SMTT(20)
  <2> QED
    BY <2>2, <2>3, <2>4, <2>6, Zenon
<1> QED
  BY <1>1, <1>2, <1>3

----------------------------------------------------------------------------
(* The order of the transcript *)

Buffers ==
    /\ emitted \in [Stream -> Seq(Piece)] /\ bufs \in [Stream -> Seq(Piece)]
    /\ flushing \in [Stream -> [by : Goroutine \cup {"none"}, payload : Seq(Piece)]]
    /\ events \in [Stream -> Seq(Piece)]
    /\ TranscriptInOrder

\* A write puts the same pieces at the end of what was emitted and of the buffer.
LEMMA WriteKeepsOrder ==
    ASSUME Buffers, NEW g, NEW st \in Stream, NEW out \in Seq(Piece), NEW next,
           Write(g, st, out, next), UNCHANGED <<flushing, events>>
    PROVE  Buffers'
<1> USE DEF Buffers
<1>1. /\ emitted' = [emitted EXCEPT ![st] = @ \o out]
      /\ bufs' = [bufs EXCEPT ![st] = @ \o out]
  BY DEF Write
<1>2. emitted' \in [Stream -> Seq(Piece)] /\ bufs' \in [Stream -> Seq(Piece)]
  BY <1>1
<1>3. ASSUME NEW x \in Stream
      PROVE  (events[x] \o flushing[x].payload \o bufs[x] = emitted[x])'
  <2>1. CASE x = st
    <3> DEFINE ev == events[st]  pl == flushing[st].payload  bu == bufs[st]
    <3>1. ev \in Seq(Piece) /\ pl \in Seq(Piece) /\ bu \in Seq(Piece)
      OBVIOUS
    <3>2. ev \o pl \o bu = emitted[st]
      BY DEF TranscriptInOrder
    <3>3. ev \o pl \o (bu \o out) = (ev \o pl \o bu) \o out
      <4> HIDE DEF ev, pl, bu, Buffers
      <4>1. ev \o pl \in Seq(Piece)
        BY <3>1
      <4>2. (ev \o pl) \o (bu \o out) = ((ev \o pl) \o bu) \o out
        BY <3>1, <4>1, AppendBehind, SMTT(20)
      <4> QED
        BY <4>2
    <3> QED
      BY <2>1, <1>1, <3>2, <3>3
  <2>2. CASE x # st
    BY <2>2, <1>1 DEF TranscriptInOrder
  <2> QED
    BY <2>1, <2>2
<1> QED
  BY <1>2, <1>3 DEF TranscriptInOrder

\* A flusher that holds flushMu moves the whole buffer behind what is stored.
LEMMA TakeKeepsOrder ==
    ASSUME Buffers, NEW g \in Goroutine, NEW st \in Stream,
           TakeBuffer(g, st), UNCHANGED <<emitted, events>>
    PROVE  Buffers'
<1> USE DEF Buffers
<1>1. /\ flushing[st] = Free
      /\ flushing' = [flushing EXCEPT ![st] = [by |-> g, payload |-> bufs[st]]]
      /\ bufs' = [bufs EXCEPT ![st] = <<>>]
  BY DEF TakeBuffer
<1>2. /\ flushing' \in [Stream -> [by : Goroutine \cup {"none"}, payload : Seq(Piece)]]
      /\ bufs' \in [Stream -> Seq(Piece)]
  BY <1>1
<1>3. ASSUME NEW x \in Stream
      PROVE  (events[x] \o flushing[x].payload \o bufs[x] = emitted[x])'
  <2>1. CASE x = st
    <3>1. flushing[st].payload = <<>> /\ flushing'[st].payload = bufs[st] /\ bufs'[st] = <<>>
      BY <1>1 DEF Free
    <3>2. events[st] \o bufs[st] = emitted[st]
      <4>1. events[st] \o <<>> = events[st]
        BY ConcatEmptySeq
      <4> QED
        BY <3>1, <4>1 DEF TranscriptInOrder
    <3>3. events[st] \o bufs[st] \o <<>> = events[st] \o bufs[st]
      <4>1. events[st] \o bufs[st] \in Seq(Piece)
        OBVIOUS
      <4> QED
        BY <4>1, ConcatEmptySeq
    <3> QED
      BY <2>1, <3>1, <3>2, <3>3
  <2>2. CASE x # st
    BY <2>2, <1>1 DEF TranscriptInOrder
  <2> QED
    BY <2>1, <2>2
<1> QED
  BY <1>2, <1>3 DEF TranscriptInOrder

\* The append moves what was taken into the rows and lets the mutex go.
LEMMA AppendKeepsOrder ==
    ASSUME Buffers, NEW g, NEW st \in Stream,
           AppendEvent(g, st), UNCHANGED <<emitted, bufs>>
    PROVE  Buffers'
<1> USE DEF Buffers
<1>1. /\ events' = [events EXCEPT ![st] = @ \o flushing[st].payload]
      /\ flushing' = [flushing EXCEPT ![st] = Free]
  BY DEF AppendEvent
<1>2. /\ events' \in [Stream -> Seq(Piece)]
      /\ flushing' \in [Stream -> [by : Goroutine \cup {"none"}, payload : Seq(Piece)]]
  BY <1>1 DEF Free
<1>3. ASSUME NEW x \in Stream
      PROVE  (events[x] \o flushing[x].payload \o bufs[x] = emitted[x])'
  <2>1. CASE x = st
    <3>1. /\ events'[st] = events[st] \o flushing[st].payload
          /\ flushing'[st].payload = <<>>
      BY <1>1 DEF Free
    <3>2. events'[st] \o <<>> = events'[st]
      BY <1>2, ConcatEmptySeq
    <3> QED
      BY <2>1, <3>1, <3>2 DEF TranscriptInOrder
  <2>2. CASE x # st
    BY <2>2, <1>1 DEF TranscriptInOrder
  <2> QED
    BY <2>1, <2>2
<1> QED
  BY <1>2, <1>3 DEF TranscriptInOrder

----------------------------------------------------------------------------

PCs == {"idle", "flush", "append", "flushall", "wait", "drains", "seal",
        "sealed", "close", "join", "done"}

\* TypeOK without the buffers.
Places ==
    /\ proc \in {"live", "dead"} /\ closed \in BOOLEAN /\ stop \in BOOLEAN
    /\ written \in [Stream -> Nat] /\ taken \in [Stream -> Nat]
    /\ written["stdout"] + written["stderr"] <= MaxOutput
    /\ lim \in [Stream -> Limiter]
    /\ \A st \in Stream : taken[st] <= written[st] /\ Len(lim[st].tail) <= tailBytes
    /\ pc \in [Goroutine -> PCs]
    /\ todo \in [{"loop", "main"} -> SUBSET Stream]

\* The types, and the transcript in order
Inv == Places /\ Buffers

\* Inv is what the runs check of types and order.
LEMMA InvIsBoth == Inv <=> TypeOK /\ TranscriptInOrder
BY DEF Inv, Places, Buffers, TypeOK, Limiter, PCs

\* It holds of a command that has just been started.
LEMMA InitInv == Init => Inv
<1> SUFFICES ASSUME Init PROVE Inv
  OBVIOUS
<1> USE DEF Init
<1>1. Places
  <2>1. lim \in [Stream -> Limiter]
    BY DEF Limiter
  <2>2. pc \in [Goroutine -> PCs]
    BY DEF PCs
  <2>3. \A st \in Stream : taken[st] <= written[st] /\ Len(lim[st].tail) <= tailBytes
    OBVIOUS
  <2>4. written["stdout"] + written["stderr"] <= MaxOutput
    BY DEF Stream
  <2> QED
    BY <2>1, <2>2, <2>3, <2>4 DEF Places
<1>2. Buffers
  <2>1. flushing \in [Stream -> [by : Goroutine \cup {"none"}, payload : Seq(Piece)]]
    BY DEF Free
  <2>2. \A st \in Stream : events[st] \o flushing[st].payload \o bufs[st] = emitted[st]
    BY ConcatEmptySeq DEF Free
  <2> QED
    BY <2>1, <2>2 DEF Buffers, TranscriptInOrder
<1> QED
  BY <1>1, <1>2 DEF Inv

\* Buffers depends on nothing but the buffers.
LEMMA BuffersStutter ==
    ASSUME Buffers, UNCHANGED <<emitted, bufs, flushing, events>>
    PROVE  Buffers'
BY DEF Buffers, TranscriptInOrder

\* A stream's name is its drain's.
LEMMA StreamsAreGoroutines == \A st \in Stream : st \in Goroutine
BY DEF Goroutine

\* The two goroutines that are not drains.
LEMMA MainIsGoroutine == "main" \in Goroutine /\ "loop" \in Goroutine
BY DEF Goroutine

\* Every step keeps types and order.
LEMMA NextInv == Inv /\ [Next]_vars => Inv'
<1> SUFFICES ASSUME Inv, [Next]_vars PROVE Inv'
  OBVIOUS
<1> USE StreamsAreGoroutines, MainIsGoroutine
<1>0. Places /\ Buffers
  BY DEF Inv
<1>t. ASSUME NEW g \in Goroutine, NEW at \in PCs, Goto(g, at)
      PROVE  pc' \in [Goroutine -> PCs]
  BY <1>0, <1>t DEF Goto, Places
<1>1. ASSUME NEW st \in Stream, Writes(st)
      PROVE  Inv'
  <2>1. Places'
    <3>1. written' = [written EXCEPT ![st] = @ + 1] /\ written["stdout"] + written["stderr"] < MaxOutput
      BY <1>1 DEF Writes
    <3>2. UNCHANGED <<proc, taken, closed, lim, pc, todo, stop>>
      BY <1>1 DEF Writes
    <3> QED
      BY <1>0, <3>1, <3>2 DEF Places, Stream
  <2>2. Buffers'
    BY <1>0, <1>1, BuffersStutter DEF Writes
  <2> QED
    BY <2>1, <2>2 DEF Inv
<1>2. CASE Exits
  <2>1. Places'
    BY <1>0, <1>2 DEF Exits, Places
  <2>2. Buffers'
    BY <1>0, <1>2, BuffersStutter DEF Exits
  <2> QED
    BY <2>1, <2>2 DEF Inv
<1>3. CASE WaitReturns
  <2>1. pc' \in [Goroutine -> PCs]
    BY <1>3, <1>t DEF WaitReturns, PCs
  <2>2. Places'
    BY <1>0, <1>3, <2>1 DEF WaitReturns, Places
  <2>3. Buffers'
    BY <1>0, <1>3, BuffersStutter DEF WaitReturns
  <2> QED
    BY <2>2, <2>3 DEF Inv
<1>4. ASSUME NEW st \in Stream, DrainReads(st)
      PROVE  Inv'
  <2>1. PICK n \in taken[st] + 1 .. written[st] :
          LET p == Push(lim[st], Pieces(taken[st] + 1, n))
          IN  /\ taken' = [taken EXCEPT ![st] = n]
              /\ lim' = [lim EXCEPT ![st] = p.lim]
              /\ Write(st, st, p.out, "idle")
    BY <1>4 DEF DrainReads
  <2> DEFINE b == Pieces(taken[st] + 1, n)
             p == Push(lim[st], b)
  <2>2. UNCHANGED <<proc, written, closed, flushing, events, todo, stop>>
    BY <1>4 DEF DrainReads
  <2>3. /\ taken[st] \in Nat /\ written[st] \in Nat /\ n \in Nat /\ n <= written[st]
        /\ written[st] <= MaxOutput /\ lim[st] \in Limiter /\ Len(lim[st].tail) <= tailBytes
    BY <1>0 DEF Places, Stream
  <2>4. b \in Seq(Piece)
    <3>1. taken[st] + 1 \in Nat /\ n \in Nat /\ n <= MaxOutput
      BY <2>3
    <3> QED
      BY <3>1, PiecesType
  <2>5. p.lim \in Limiter /\ Len(p.lim.tail) <= tailBytes /\ p.out \in Seq(Piece)
    <3> HIDE DEF b
    <3> QED
      BY <2>3, <2>4, PushType
  <2>6. /\ taken' = [taken EXCEPT ![st] = n] /\ lim' = [lim EXCEPT ![st] = p.lim]
        /\ Write(st, st, p.out, "idle")
    BY <2>1
  <2> HIDE DEF p, b
  <2>7. Buffers'
    BY <1>0, <2>2, <2>5, <2>6, WriteKeepsOrder
  <2>8. pc' \in [Goroutine -> PCs]
    BY <1>0, <2>6 DEF Write, Goto, Places, PCs
  <2>9. taken' \in [Stream -> Nat] /\ \A x \in Stream : taken'[x] <= written'[x]
    BY <1>0, <2>2, <2>3, <2>6 DEF Places
  <2>10. lim' \in [Stream -> Limiter] /\ \A x \in Stream : Len(lim'[x].tail) <= tailBytes
    BY <1>0, <2>5, <2>6 DEF Places
  <2>11. Places'
    BY <1>0, <2>2, <2>8, <2>9, <2>10 DEF Places
  <2> QED
    BY <2>7, <2>11 DEF Inv
<1>5. ASSUME NEW st \in Stream, DrainEnds(st)
      PROVE  Inv'
  <2>1. pc' \in [Goroutine -> PCs]
    BY <1>5, <1>t DEF DrainEnds, PCs
  <2>2. Places'
    BY <1>0, <1>5, <2>1 DEF DrainEnds, Places, runnerVars
  <2>3. Buffers'
    BY <1>0, <1>5, BuffersStutter DEF DrainEnds, runnerVars
  <2> QED
    BY <2>2, <2>3 DEF Inv
<1>6. ASSUME NEW st \in Stream, DrainFlushes(st)
      PROVE  Inv'
  <2>1. UNCHANGED <<runnerVars, todo, stop>>
    BY <1>6 DEF DrainFlushes
  <2>2. pc' \in [Goroutine -> PCs]
    BY <1>6, <1>t DEF DrainFlushes, PCs
  <2>3. Places'
    BY <1>0, <2>1, <2>2 DEF Places, runnerVars
  <2>4. ASSUME TakeBuffer(st, st) /\ UNCHANGED events PROVE Buffers'
    BY <1>0, <2>1, <2>4, TakeKeepsOrder DEF runnerVars
  <2>5. ASSUME UNCHANGED <<bufs, flushing, events>> PROVE Buffers'
    BY <1>0, <2>1, <2>5, BuffersStutter DEF runnerVars
  <2>6. ASSUME AppendEvent(st, st) /\ UNCHANGED bufs PROVE Buffers'
    BY <1>0, <2>1, <2>6, AppendKeepsOrder DEF runnerVars
  <2>7. Buffers'
    BY <1>6, <2>4, <2>5, <2>6 DEF DrainFlushes
  <2> QED
    BY <2>3, <2>7 DEF Inv
<1>7. ASSUME NEW g \in {"loop", "main"}, FlushAll(g)
      PROVE  Inv'
  <2>1. UNCHANGED <<runnerVars, stop>>
    BY <1>7 DEF FlushAll
  <2>2. PICK st \in todo[g] :
          \/ /\ TakeBuffer(g, st) /\ Goto(g, "append") /\ UNCHANGED <<events, todo>>
          \/ /\ todo' = [todo EXCEPT ![g] = @ \ {st}]
             /\ UNCHANGED <<bufs, flushing, events, pc>>
          \/ /\ AppendEvent(g, st) /\ todo' = [todo EXCEPT ![g] = @ \ {st}]
             /\ Goto(g, "flushall") /\ UNCHANGED bufs
    BY <1>7 DEF FlushAll
  <2>3. st \in Stream /\ g \in Goroutine
    BY <1>0 DEF Places
  <2>4. pc' \in [Goroutine -> PCs]
    BY <1>0, <1>t, <2>2, <2>3 DEF Places, PCs
  <2>5. todo' \in [{"loop", "main"} -> SUBSET Stream]
    BY <1>0, <2>2 DEF Places
  <2>6. Places'
    BY <1>0, <2>1, <2>4, <2>5 DEF Places, runnerVars
  <2>7. ASSUME TakeBuffer(g, st) /\ UNCHANGED events PROVE Buffers'
    BY <1>0, <2>1, <2>3, <2>7, TakeKeepsOrder DEF runnerVars
  <2>8. ASSUME UNCHANGED <<bufs, flushing, events>> PROVE Buffers'
    BY <1>0, <2>1, <2>8, BuffersStutter DEF runnerVars
  <2>9. ASSUME AppendEvent(g, st) /\ UNCHANGED bufs PROVE Buffers'
    BY <1>0, <2>1, <2>3, <2>9, AppendKeepsOrder DEF runnerVars
  <2>10. Buffers'
    BY <2>2, <2>7, <2>8, <2>9
  <2> QED
    BY <2>6, <2>10 DEF Inv
<1>8. CASE LoopTicks \/ LoopSleeps \/ LoopStops \/ DrainsJoined \/ CloseStops
           \/ CloseFlushes \/ CloseReturns
  <2> USE DEF LoopTicks, LoopSleeps, LoopStops, DrainsJoined, CloseStops, CloseFlushes, CloseReturns
  <2>1. pc' \in [Goroutine -> PCs]
    BY <1>8, <1>t DEF PCs
  <2>2. UNCHANGED <<runnerVars, bufs, flushing, events>> /\ stop' \in {stop, TRUE}
    BY <1>8
  <2>3. todo' \in [{"loop", "main"} -> SUBSET Stream]
    BY <1>0, <1>8 DEF Places
  <2>4. Places'
    BY <1>0, <2>1, <2>2, <2>3 DEF Places, runnerVars
  <2>5. Buffers'
    BY <1>0, <2>2, BuffersStutter DEF runnerVars
  <2> QED
    BY <2>4, <2>5 DEF Inv
<1>9. CASE Seal
  <2> DEFINE st == IF "stdout" \in todo["main"] THEN "stdout" ELSE "stderr"
             out == Sealed(lim[st])
             next == IF st = "stdout" THEN "seal" ELSE "close"
  <2>1. /\ Write("main", st, out, next)
        /\ todo' = [todo EXCEPT !["main"] = @ \ {st}]
        /\ UNCHANGED <<proc, written, taken, closed, lim, flushing, events, stop>>
    BY <1>9 DEF Seal
  <2>2. st \in Stream /\ next \in PCs
    BY DEF Stream, PCs
  <2>3. out \in Seq(Piece)
    BY <1>0, <2>2, SealedType DEF Places
  <2> HIDE DEF st, out, next
  <2>4. Buffers'
    BY <1>0, <2>1, <2>2, <2>3, WriteKeepsOrder
  <2>5. pc' \in [Goroutine -> PCs]
    BY <1>0, <2>1, <2>2 DEF Write, Goto, Places, PCs
  <2>6. todo' \in [{"loop", "main"} -> SUBSET Stream]
    BY <1>0, <2>1 DEF Places
  <2>7. Places'
    BY <1>0, <2>1, <2>5, <2>6 DEF Places
  <2> QED
    BY <2>4, <2>7 DEF Inv
<1>10. CASE SealFlushes
  <2> DEFINE st == IF "stderr" \in todo["main"] THEN "stdout" ELSE "stderr"
             next == IF st = "stdout" THEN "seal" ELSE "close"
  <2>1. /\ \/ TakeBuffer("main", st) /\ Goto("main", "sealed") /\ UNCHANGED events
           \/ Goto("main", next) /\ UNCHANGED <<bufs, flushing, events>>
           \/ AppendEvent("main", st) /\ Goto("main", next) /\ UNCHANGED bufs
        /\ UNCHANGED <<runnerVars, todo, stop>>
    BY <1>10 DEF SealFlushes
  <2>2. st \in Stream /\ next \in PCs /\ "sealed" \in PCs
    BY DEF Stream, PCs
  <2> HIDE DEF st, next
  <2>3. pc' \in [Goroutine -> PCs]
    BY <1>t, <2>1, <2>2
  <2>4. Places'
    BY <1>0, <2>1, <2>3 DEF Places, runnerVars
  <2>5. ASSUME TakeBuffer("main", st) /\ UNCHANGED events PROVE Buffers'
    BY <1>0, <2>1, <2>2, <2>5, TakeKeepsOrder DEF runnerVars
  <2>6. ASSUME UNCHANGED <<bufs, flushing, events>> PROVE Buffers'
    BY <1>0, <2>1, <2>6, BuffersStutter DEF runnerVars
  <2>7. ASSUME AppendEvent("main", st) /\ UNCHANGED bufs PROVE Buffers'
    BY <1>0, <2>1, <2>2, <2>7, AppendKeepsOrder DEF runnerVars
  <2>8. Buffers'
    BY <2>1, <2>5, <2>6, <2>7
  <2> QED
    BY <2>4, <2>8 DEF Inv
<1>11. CASE UNCHANGED vars
  <2>1. Places'
    BY <1>0, <1>11 DEF Places, vars, runnerVars
  <2>2. Buffers'
    BY <1>0, <1>11, BuffersStutter DEF vars, runnerVars
  <2> QED
    BY <2>1, <2>2 DEF Inv
<1> QED
  BY <1>1, <1>2, <1>3, <1>4, <1>5, <1>6, <1>7, <1>8, <1>9, <1>10, <1>11
     DEF Next, Main, Loop, Drain

----------------------------------------------------------------------------
(* The transcript is complete *)

\* closeAll has begun its last flush.
Closing == pc["main"] \in {"flushall", "append", "done"}

IsSealed(st) ==
    \/ Closing \/ pc["main"] \in {"close", "join"}
    \/ pc["main"] \in {"seal", "flush", "sealed"} /\ st \notin todo["main"]

\* The limiter has kept what it should of the pieces taken, and the rest has been
\* handed over: the tail only when the stream has been sealed.
Sent(st) ==
    /\ Kept(lim[st], taken[st])
    /\ emitted[st] = IF IsSealed(st) THEN Out(taken[st]) \o Sealed(lim[st]) ELSE Out(taken[st])

\* Where the goroutines can be, one beside the other.
Stands ==
    /\ \A st \in Stream : pc[st] \in {"idle", "flush", "append", "done"}
    /\ pc["loop"] \in {"idle", "flushall", "append", "done"}
    /\ pc["main"] \in {"wait", "drains"} \/ \A st \in Stream : pc[st] = "done"
    /\ Closing => pc["loop"] = "done"
    /\ pc["main"] \in {"flush", "sealed"} => "stdout" \notin todo["main"]
    /\ pc["main"] = "done" => todo["main"] = {}

\* Where g stands while it holds flushMu of st.
Holds(st, g, at) ==
    /\ g \in Stream => g = st /\ at = "append"
    /\ g = "loop" => at = "append"
    /\ g = "main" => at \in {"append", "sealed"}

\* Who holds a flushMu stands where it should, and holds no other.
Holder(st) ==
    LET g == flushing[st].by
    IN  IF g = "none" THEN flushing[st] = Free
        ELSE /\ Holds(st, g, pc[g])
             /\ \A x \in Stream : flushing[x].by = g => x = st

\* What the last flush has dealt with is empty, and stays so.
Flushed(st) ==
    Closing => /\ st \in todo["main"] \/ flushing[st] = Free
               /\ st \notin todo["main"] \/ flushing[st].by = "main" => bufs[st] = <<>>

Whole == Stands /\ \A st \in Stream : Sent(st) /\ Holder(st) /\ Flushed(st)

\* The inductive invariant
IInv == Inv /\ Whole

\* Goroutine g has gone to `at`, the others are where they were.
Moved(g, at) == pc'[g] = at /\ \A x \in Goroutine \ {g} : pc'[x] = pc[x]

\* So it is after Goto.
LEMMA GotoMoves ==
    ASSUME Places, NEW g \in Goroutine, NEW at, Goto(g, at)
    PROVE  Moved(g, at)
BY DEF Places, Goto, Moved

\* While a drain runs, the session's goroutine waits for it.
LEMMA DrainRuns ==
    ASSUME Stands, NEW st \in Stream, pc[st] # "done"
    PROVE  pc["main"] \in {"wait", "drains"} /\ ~Closing /\ \A x \in Stream : ~IsSealed(x)
BY DEF Stands, Closing, IsSealed

\* While the loop runs, the last flush has not begun.
LEMMA LoopRuns ==
    ASSUME Stands, pc["loop"] # "done"
    PROVE  ~Closing
BY DEF Stands

\* A drain that runs may go anywhere a drain can be.
LEMMA DrainStands ==
    ASSUME Stands, NEW st \in Stream, pc[st] # "done",
           NEW at \in {"idle", "flush", "append", "done"}, Moved(st, at), UNCHANGED todo
    PROVE  Stands' /\ ~Closing' /\ \A x \in Stream : ~IsSealed(x)'
<1>1. pc["main"] \in {"wait", "drains"}
  BY DrainRuns
<1>2. pc'["main"] = pc["main"] /\ pc'["loop"] = pc["loop"]
  BY DEF Moved, Goroutine, Stream
<1>3. \A x \in Stream : pc'[x] \in {"idle", "flush", "append", "done"}
  BY DEF Moved, Goroutine, Stands
<1>4. pc["loop"] \in {"idle", "flushall", "append", "done"}
  BY DEF Stands
<1> QED
  BY <1>1, <1>2, <1>3, <1>4 DEF Stands, Closing, IsSealed

\* So may the loop.
LEMMA LoopStands ==
    ASSUME Stands, pc["loop"] # "done",
           NEW at \in {"idle", "flushall", "append", "done"}, Moved("loop", at),
           todo'["main"] = todo["main"]
    PROVE  Stands' /\ ~Closing' /\ \A x \in Stream : IsSealed(x)' = IsSealed(x)
<1>1. ~Closing
  BY LoopRuns
<1>2. pc'["main"] = pc["main"] /\ pc'["loop"] = at /\ \A x \in Stream : pc'[x] = pc[x]
  BY DEF Moved, Goroutine, Stream
<1> QED
  BY <1>1, <1>2 DEF Stands, Closing, IsSealed

\* A step of the session's goroutine leaves the others where they are.
LEMMA MainMoves ==
    ASSUME NEW at, Moved("main", at)
    PROVE  pc'["main"] = at /\ pc'["loop"] = pc["loop"] /\ \A x \in Stream : pc'[x] = pc[x]
BY DEF Moved, Goroutine, Stream

\* Nothing becomes of what is kept and sent where only others are at work.
LEMMA SentFrame ==
    ASSUME NEW st \in Stream, Sent(st), IsSealed(st)' = IsSealed(st),
           lim'[st] = lim[st], taken'[st] = taken[st], emitted'[st] = emitted[st]
    PROVE  Sent(st)'
BY DEF Sent

\* A goroutine that holds no mutex may go where it likes.
LEMMA HolderFrame ==
    ASSUME Buffers, \A x \in Stream : Holder(x), UNCHANGED flushing,
           NEW g \in Goroutine, NEW at, Moved(g, at), pc[g] \notin {"append", "sealed"},
           NEW st \in Stream
    PROVE  Holder(st)'
<1>1. flushing[st].by \in Goroutine \cup {"none"} /\ Holder(st)
  BY DEF Buffers
<1>2. flushing[st].by = "none" \/ (flushing[st].by # g /\ pc'[flushing[st].by] = pc[flushing[st].by])
  BY <1>1 DEF Holder, Holds, Moved, Goroutine
<1> QED
  BY <1>1, <1>2 DEF Holder

\* Who takes a buffer, holding no mutex, holds that one.
LEMMA HolderTakes ==
    ASSUME Buffers, \A x \in Stream : Holder(x),
           NEW g \in Goroutine, NEW at, Moved(g, at), pc[g] \notin {"append", "sealed"},
           at = "append" \/ (g = "main" /\ at = "sealed"),
           NEW y \in Stream, TakeBuffer(g, y), g \in Stream => g = y,
           NEW st \in Stream
    PROVE  Holder(st)'
<1>1. /\ flushing' = [flushing EXCEPT ![y] = [by |-> g, payload |-> bufs[y]]]
      /\ flushing[y] = Free
  BY DEF TakeBuffer
<1>2. \A x \in Stream : flushing[x].by # g
  <2>1. SUFFICES ASSUME NEW x \in Stream, flushing[x].by = g PROVE FALSE
    OBVIOUS
  <2>2. Holder(x) /\ g # "none"
    BY DEF Goroutine, Stream
  <2> QED
    BY <2>1, <2>2 DEF Holder, Holds, Goroutine
<1>3. \A x \in Stream : flushing'[x] = IF x = y THEN [by |-> g, payload |-> bufs[y]] ELSE flushing[x]
  BY <1>1 DEF Buffers
<1>4. flushing'[y].by = g /\ \A x \in Stream : x # y => flushing'[x] = flushing[x]
  BY <1>3
<1>5. CASE st = y
  <2>1. g # "none" /\ pc'[g] = at /\ \A x \in Stream : flushing'[x].by = g => x = st
    BY <1>2, <1>4, <1>5 DEF Moved, Goroutine, Stream
  <2> QED
    BY <1>4, <1>5, <2>1 DEF Holder, Holds, Stream
<1>6. CASE st # y
  <2>1. flushing[st].by \in Goroutine \cup {"none"} /\ Holder(st) /\ flushing[st].by # g
    BY <1>2 DEF Buffers
  <2>2. flushing'[st] = flushing[st]
    BY <1>4, <1>6
  <2>3. flushing[st].by = "none" \/ pc'[flushing[st].by] = pc[flushing[st].by]
    BY <2>1 DEF Moved
  <2>4. \A x \in Stream : flushing'[x].by = flushing[st].by => flushing[x].by = flushing[st].by
    BY <1>4, <2>1
  <2> QED
    BY <2>1, <2>2, <2>3, <2>4 DEF Holder
<1> QED
  BY <1>5, <1>6

\* Who has stored what it took holds no mutex any more, wherever it goes.
LEMMA HolderAppends ==
    ASSUME Buffers, \A x \in Stream : Holder(x),
           NEW g \in Goroutine, NEW at, Moved(g, at),
           NEW y \in Stream, AppendEvent(g, y),
           NEW st \in Stream
    PROVE  Holder(st)'
<1>1. /\ flushing' = [flushing EXCEPT ![y] = Free]
      /\ flushing[y].by = g
  BY DEF AppendEvent
<1>2. flushing'[y] = Free /\ \A x \in Stream : x # y => flushing'[x] = flushing[x]
  BY <1>1 DEF Buffers
<1>3. Free.by = "none"
  BY DEF Free
<1>4. g # "none"
  BY DEF Goroutine, Stream
<1>5. CASE st = y
  BY <1>2, <1>3, <1>5 DEF Holder, Stream
<1>6. CASE st # y
  <2>1. flushing[st].by \in Goroutine \cup {"none"} /\ Holder(st) /\ Holder(y)
    BY DEF Buffers
  <2>2. flushing[st].by # g
    BY <1>1, <1>4, <1>6, <2>1 DEF Holder
  <2>3. flushing'[st] = flushing[st]
    BY <1>2, <1>6
  <2>4. flushing[st].by = "none" \/ pc'[flushing[st].by] = pc[flushing[st].by]
    BY <2>1, <2>2 DEF Moved
  <2>5. flushing[st].by # "none" =>
          \A x \in Stream : flushing'[x].by = flushing[st].by => flushing[x].by = flushing[st].by
    BY <1>2, <1>3
  <2> QED
    BY <2>1, <2>3, <2>4, <2>5 DEF Holder
<1> QED
  BY <1>5, <1>6

\* Steps of the command change none of it.
LEMMA SilentStep ==
    ASSUME Whole, UNCHANGED <<taken, lim, emitted, bufs, flushing, pc, todo>>
    PROVE  Whole'
<1>1. Stands' /\ (Closing' <=> Closing)
  BY DEF Whole, Stands, Closing
<1>2. ASSUME NEW st \in Stream PROVE Sent(st)' /\ Holder(st)' /\ Flushed(st)'
  <2>1. Sent(st)'
    BY DEF Whole, Sent, IsSealed, Closing
  <2>2. Holder(st)'
    BY DEF Whole, Holder
  <2>3. Flushed(st)'
    BY <1>1 DEF Whole, Flushed
  <2> QED
    BY <2>1, <2>2, <2>3
<1> QED
  BY <1>1, <1>2 DEF Whole

\* A drain reads: what the limiter passes on is what was missing.
LEMMA DrainReadsStep ==
    ASSUME Inv, Whole, NEW st \in Stream, DrainReads(st)
    PROVE  Whole'
<1>0. Places /\ Buffers /\ st \in Goroutine /\ pc[st] = "idle"
  BY DEF Inv, Goroutine, DrainReads
<1>1. PICK n \in taken[st] + 1 .. written[st] :
        LET p == Push(lim[st], Pieces(taken[st] + 1, n))
        IN  /\ taken' = [taken EXCEPT ![st] = n]
            /\ lim' = [lim EXCEPT ![st] = p.lim]
            /\ Write(st, st, p.out, "idle")
  BY DEF DrainReads
<1>2. ASSUME NEW p, p = Push(lim[st], Pieces(taken[st] + 1, n)),
             NEW at, at = (IF Len(bufs[st]) + Len(p.out) >= StreamFlushBytes /\ p.out # <<>>
                           THEN "flush" ELSE "idle")
      PROVE  Whole'
  <2>1. /\ taken' = [taken EXCEPT ![st] = n] /\ lim' = [lim EXCEPT ![st] = p.lim]
        /\ emitted' = [emitted EXCEPT ![st] = @ \o p.out]
        /\ Goto(st, at) /\ UNCHANGED <<flushing, todo>>
    BY <1>1, <1>2 DEF Write, DrainReads
  <2>2. Moved(st, at) /\ at \in {"idle", "flush", "append", "done"}
    BY <1>0, <1>2, <2>1, GotoMoves
  <2>3. Stands' /\ ~Closing' /\ \A x \in Stream : ~IsSealed(x)'
    BY <1>0, <2>1, <2>2, DrainStands DEF Whole
  <2>4. \A x \in Stream : ~IsSealed(x)
    BY <1>0, DrainRuns DEF Whole
  <2>5. ASSUME NEW x \in Stream PROVE Sent(x)'
    <3>1. CASE x = st
      <4>1. /\ taken[st] \in Nat /\ n \in Nat /\ taken[st] < n /\ lim[st] \in Limiter
        BY <1>0 DEF Places
      <4>2. Kept(lim[st], taken[st]) /\ emitted[st] = Out(taken[st])
        BY <2>4 DEF Whole, Sent
      <4>3. Kept(p.lim, n) /\ Out(taken[st]) \o p.out = Out(n)
        <5>1. Pushes(lim[st], taken[st], n, p)
          BY <1>2, <4>1, <4>2 DEF Pushes
        <5>2. Pushed(taken[st], n, p)
          BY <5>1, PushKeeps
        <5> QED
          BY <5>2 DEF Pushed
      <4>4. taken'[st] = n /\ lim'[st] = p.lim /\ emitted'[st] = emitted[st] \o p.out
        BY <1>0, <2>1 DEF Places, Buffers
      <4> QED
        BY <2>3, <3>1, <4>2, <4>3, <4>4 DEF Sent
    <3>2. CASE x # st
      <4>1. taken'[x] = taken[x] /\ lim'[x] = lim[x] /\ emitted'[x] = emitted[x]
        BY <1>0, <2>1, <3>2 DEF Places, Buffers
      <4> QED
        BY <2>3, <2>4, <4>1 DEF Whole, Sent
    <3> QED
      BY <3>1, <3>2
  <2>6. ASSUME NEW x \in Stream PROVE Holder(x)'
    BY <1>0, <2>1, <2>2, HolderFrame DEF Whole
  <2>7. ASSUME NEW x \in Stream PROVE Flushed(x)'
    BY <2>3 DEF Flushed
  <2> QED
    BY <2>3, <2>5, <2>6, <2>7 DEF Whole
<1> QED
  BY <1>2

\* A drain's end and its flushes leave what has been sent.
LEMMA DrainGoes ==
    ASSUME Inv, Whole, NEW st \in Stream, DrainEnds(st) \/ DrainFlushes(st)
    PROVE  Whole'
<1>0. Places /\ Buffers /\ st \in Goroutine /\ pc[st] # "done"
  BY DEF Inv, Goroutine, DrainEnds, DrainFlushes
<1>1. UNCHANGED <<taken, lim, emitted, todo>>
  BY DEF DrainEnds, DrainFlushes, runnerVars
<1>2. PICK at \in {"idle", "flush", "append", "done"} :
        /\ Goto(st, at)
        /\ \/ UNCHANGED flushing /\ pc[st] \notin {"append", "sealed"}
           \/ TakeBuffer(st, st) /\ at = "append" /\ pc[st] \notin {"append", "sealed"}
           \/ AppendEvent(st, st)
  BY DEF DrainEnds, DrainFlushes
<1>3. Moved(st, at)
  BY <1>0, <1>2, GotoMoves
<1>4. Stands' /\ ~Closing' /\ \A x \in Stream : ~IsSealed(x)'
  BY <1>0, <1>1, <1>3, DrainStands DEF Whole
<1>5. \A x \in Stream : ~IsSealed(x)
  BY <1>0, DrainRuns DEF Whole
<1>6. ASSUME NEW x \in Stream PROVE Sent(x)'
  BY <1>1, <1>4, <1>5 DEF Whole, Sent
<1>7. ASSUME NEW x \in Stream PROVE Holder(x)'
  <2>1. CASE UNCHANGED flushing /\ pc[st] \notin {"append", "sealed"}
    BY <1>0, <1>3, <2>1, HolderFrame DEF Whole
  <2>2. CASE TakeBuffer(st, st) /\ at = "append" /\ pc[st] \notin {"append", "sealed"}
    BY <1>0, <1>3, <2>2, HolderTakes DEF Whole
  <2>3. CASE AppendEvent(st, st)
    BY <1>0, <1>3, <2>3, HolderAppends DEF Whole
  <2> QED
    BY <1>2, <2>1, <2>2, <2>3
<1>8. ASSUME NEW x \in Stream PROVE Flushed(x)'
  BY <1>4 DEF Flushed
<1> QED
  BY <1>4, <1>6, <1>7, <1>8 DEF Whole

\* The loop, ticking or told to stop, changes nothing of what has been sent.
LEMMA LoopStep ==
    ASSUME Inv, Whole, Loop \/ LoopStops
    PROVE  Whole'
<1>0. Places /\ Buffers /\ "loop" \in Goroutine /\ "loop" \notin Stream
  BY DEF Inv, Goroutine, Stream
<1>1. UNCHANGED <<taken, lim, emitted>> /\ pc["loop"] # "done"
  BY DEF Loop, LoopTicks, LoopSleeps, LoopStops, FlushAll, runnerVars
<1>2. todo'["main"] = todo["main"]
  <2>1. todo' = todo \/ \E s : todo' = [todo EXCEPT !["loop"] = s]
    BY DEF Loop, LoopTicks, LoopSleeps, LoopStops, FlushAll
  <2> QED
    BY <1>0, <2>1 DEF Places
<1>3. PICK at \in {"idle", "flushall", "append", "done"} :
        /\ Moved("loop", at)
        /\ \/ UNCHANGED flushing /\ pc["loop"] \notin {"append", "sealed"}
           \/ /\ \E y \in Stream : TakeBuffer("loop", y)
              /\ at = "append" /\ pc["loop"] \notin {"append", "sealed"}
           \/ \E y \in Stream : AppendEvent("loop", y)
  <2>1. CASE LoopTicks \/ LoopSleeps \/ LoopStops
    <3>1. \E at \in {"idle", "flushall", "append", "done"} :
            Goto("loop", at) /\ UNCHANGED flushing /\ pc["loop"] \notin {"append", "sealed"}
      BY <2>1 DEF LoopTicks, LoopSleeps, LoopStops
    <3> QED
      BY <1>0, <3>1, GotoMoves
  <2>2. CASE FlushAll("loop")
    <3>1. PICK y \in todo["loop"] :
            \/ pc["loop"] = "flushall" /\ TakeBuffer("loop", y) /\ Goto("loop", "append")
            \/ pc["loop"] = "flushall" /\ UNCHANGED <<flushing, pc>>
            \/ AppendEvent("loop", y) /\ Goto("loop", "flushall")
      BY <2>2 DEF FlushAll
    <3>2. y \in Stream
      BY <1>0 DEF Places
    <3>3. CASE pc["loop"] = "flushall" /\ TakeBuffer("loop", y) /\ Goto("loop", "append")
      BY <1>0, <3>2, <3>3, GotoMoves
    <3>4. CASE pc["loop"] = "flushall" /\ UNCHANGED <<flushing, pc>>
      <4>1. Moved("loop", "flushall")
        BY <3>4 DEF Moved
      <4> QED
        BY <3>4, <4>1
    <3>5. CASE AppendEvent("loop", y) /\ Goto("loop", "flushall")
      BY <1>0, <3>2, <3>5, GotoMoves
    <3> QED
      BY <3>1, <3>3, <3>4, <3>5
  <2> QED
    BY <2>1, <2>2 DEF Loop
<1>4. Stands' /\ ~Closing' /\ \A x \in Stream : IsSealed(x)' = IsSealed(x)
  BY <1>1, <1>2, <1>3, LoopStands DEF Whole
<1>5. ASSUME NEW x \in Stream PROVE Sent(x)'
  BY <1>1, <1>4 DEF Whole, Sent
<1>6. ASSUME NEW x \in Stream PROVE Holder(x)'
  <2>1. CASE UNCHANGED flushing /\ pc["loop"] \notin {"append", "sealed"}
    BY <1>0, <1>3, <2>1, HolderFrame DEF Whole
  <2>2. ASSUME NEW y \in Stream, TakeBuffer("loop", y), at = "append",
               pc["loop"] \notin {"append", "sealed"}
        PROVE  Holder(x)'
    BY <1>0, <1>3, <2>2, HolderTakes DEF Whole
  <2>3. ASSUME NEW y \in Stream, AppendEvent("loop", y) PROVE Holder(x)'
    BY <1>0, <1>3, <2>3, HolderAppends DEF Whole
  <2> QED
    BY <1>3, <2>1, <2>2, <2>3
<1>7. ASSUME NEW x \in Stream PROVE Flushed(x)'
  BY <1>4 DEF Flushed
<1> QED
  BY <1>4, <1>5, <1>6, <1>7 DEF Whole

\* The session's goroutine goes on without a word of output.
LEMMA MainGoes ==
    ASSUME Inv, Whole,
           WaitReturns \/ DrainsJoined \/ CloseStops \/ CloseFlushes \/ CloseReturns
    PROVE  Whole'
<1>0. Places /\ Buffers /\ "main" \in Goroutine /\ todo["main"] \in SUBSET Stream
  BY DEF Inv, Goroutine, Places
<1>1. /\ UNCHANGED <<taken, lim, emitted, bufs, flushing>>
      /\ pc["main"] \notin {"append", "sealed"}
  BY DEF WaitReturns, DrainsJoined, CloseStops, CloseFlushes, CloseReturns, runnerVars
<1>2. PICK at : Goto("main", at)
  BY DEF WaitReturns, DrainsJoined, CloseStops, CloseFlushes, CloseReturns
<1>3. Moved("main", at) /\ pc'["main"] = at /\ pc'["loop"] = pc["loop"]
      /\ \A x \in Stream : pc'[x] = pc[x]
  BY <1>0, <1>2, GotoMoves, MainMoves
<1>4. ASSUME NEW x \in Stream PROVE Holder(x)'
  BY <1>0, <1>1, <1>3, HolderFrame DEF Whole
<1>5. Stands' /\ \A x \in Stream : IsSealed(x)' = IsSealed(x) /\ Flushed(x)'
  <2> USE DEF Stands, Closing, IsSealed, Flushed
  <2>1. CASE WaitReturns
    <3>1. pc["main"] = "wait" /\ pc'["main"] = "drains"
      BY <1>0, <2>1 DEF WaitReturns, Goto, Places
    <3> QED
      BY <1>3, <3>1 DEF Whole
  <2>2. CASE DrainsJoined
    <3>1. /\ pc["main"] = "drains" /\ pc'["main"] = "seal" /\ todo'["main"] = Stream
          /\ \A x \in Stream : pc[x] = "done"
      BY <1>0, <2>2 DEF DrainsJoined, Goto, Places
    <3> QED
      BY <1>3, <3>1 DEF Whole
  <2>3. CASE CloseStops
    <3>1. pc["main"] = "close" /\ pc'["main"] = "join"
      BY <1>0, <2>3 DEF CloseStops, Goto, Places
    <3> QED
      BY <1>3, <3>1 DEF Whole
  <2>4. CASE CloseFlushes
    <3>1. /\ pc["main"] = "join" /\ pc'["main"] = "flushall" /\ pc["loop"] = "done"
          /\ todo'["main"] = Stream
      BY <1>0, <2>4 DEF CloseFlushes, Goto, Places
    <3>2. \A x \in Stream : flushing[x].by # "main"
      BY <3>1 DEF Whole, Holder, Holds
    <3> QED
      BY <1>1, <1>3, <3>1, <3>2 DEF Whole
  <2>5. CASE CloseReturns
    <3>1. /\ pc["main"] = "flushall" /\ pc'["main"] = "done" /\ todo["main"] = {}
          /\ UNCHANGED todo
      BY <1>0, <2>5 DEF CloseReturns, Goto, Places
    <3> QED
      BY <1>1, <1>3, <3>1 DEF Whole
  <2> QED
    BY <2>1, <2>2, <2>3, <2>4, <2>5
<1>6. ASSUME NEW x \in Stream PROVE Sent(x)'
  BY <1>1, <1>5 DEF Whole, Sent
<1> QED
  BY <1>4, <1>5, <1>6 DEF Whole

\* A stream is sealed: its marker and its tail are handed over.
LEMMA SealStep ==
    ASSUME Inv, Whole, Seal
    PROVE  Whole'
<1>0. Places /\ Buffers /\ "main" \in Goroutine /\ todo["main"] \in SUBSET Stream
      /\ pc["main"] = "seal" /\ todo["main"] # {}
      /\ UNCHANGED <<taken, lim, flushing>>
  BY DEF Inv, Goroutine, Places, Seal
<1>1. ASSUME NEW st \in Stream, st = (IF "stdout" \in todo["main"] THEN "stdout" ELSE "stderr"),
             NEW out, out = Sealed(lim[st]),
             NEW at, at = (IF Len(bufs[st]) + Len(out) >= StreamFlushBytes /\ out # <<>>
                           THEN "flush" ELSE IF st = "stdout" THEN "seal" ELSE "close")
      PROVE  Whole'
  <2>1. /\ emitted' = [emitted EXCEPT ![st] = @ \o out]
        /\ Goto("main", at)
        /\ todo' = [todo EXCEPT !["main"] = @ \ {st}]
    BY <1>1 DEF Seal, Write
  <2>2. Moved("main", at) /\ pc'["main"] = at /\ pc'["loop"] = pc["loop"]
        /\ \A x \in Stream : pc'[x] = pc[x]
    BY <1>0, <2>1, GotoMoves, MainMoves
  <2>3. at \in {"flush", "seal", "close"} /\ (at = "seal" => st = "stdout")
    BY <1>1
  <2>4. todo'["main"] = todo["main"] \ {st} /\ st \in todo["main"]
        /\ "stdout" \notin todo'["main"]
    BY <1>0, <1>1, <2>1 DEF Places, Stream
  <2>5. at = "close" => st = "stderr"
    BY <1>1 DEF Stream
  <2>6. Stands' /\ ~Closing'
    BY <1>0, <2>2, <2>3, <2>4 DEF Whole, Stands, Closing
  <2>7. ~IsSealed(st) /\ IsSealed(st)' /\ \A x \in Stream : x # st => IsSealed(x)' = IsSealed(x)
    <3>1. ~Closing
      BY <1>0 DEF Closing
    <3>2. CASE at \in {"flush", "seal"}
      BY <1>0, <2>2, <2>4, <2>6, <3>1, <3>2 DEF IsSealed
    <3>3. CASE at = "close"
      <4>1. \A x \in Stream : x # st => x \notin todo["main"]
        BY <1>1, <2>5, <3>3 DEF Stream
      <4> QED
        BY <1>0, <2>2, <2>4, <2>6, <3>1, <3>3, <4>1 DEF IsSealed
    <3> QED
      BY <2>3, <3>2, <3>3
  <2>8. ASSUME NEW x \in Stream PROVE Sent(x)'
    <3>1. CASE x = st
      <4>1. emitted[st] = Out(taken[st]) /\ emitted'[st] = emitted[st] \o out
        BY <1>0, <2>1, <2>7 DEF Whole, Sent, Buffers
      <4> QED
        BY <1>0, <1>1, <2>7, <3>1, <4>1 DEF Whole, Sent
    <3>2. CASE x # st
      <4>1. emitted'[x] = emitted[x]
        BY <1>0, <2>1, <3>2 DEF Buffers
      <4> QED
        BY <1>0, <2>7, <3>2, <4>1 DEF Whole, Sent
    <3> QED
      BY <3>1, <3>2
  <2>9. ASSUME NEW x \in Stream PROVE Holder(x)'
    BY <1>0, <2>2, HolderFrame DEF Whole
  <2>10. ASSUME NEW x \in Stream PROVE Flushed(x)'
    BY <2>6 DEF Flushed
  <2> QED
    BY <2>6, <2>8, <2>9, <2>10 DEF Whole
<1> QED
  BY <1>1 DEF Stream

\* The flush of a sealed stream.
LEMMA SealFlushesStep ==
    ASSUME Inv, Whole, SealFlushes
    PROVE  Whole'
<1>0. Places /\ Buffers /\ "main" \in Goroutine /\ "main" \notin Stream
      /\ todo["main"] \in SUBSET Stream /\ pc["main"] \in {"flush", "sealed"}
      /\ UNCHANGED <<taken, lim, emitted, todo>>
  BY DEF Inv, Goroutine, Stream, Places, SealFlushes, runnerVars
<1>1. PICK st \in Stream, at \in {"sealed", "seal", "close"} :
        /\ Goto("main", at) /\ (at = "close" => "stderr" \notin todo["main"])
        /\ \/ UNCHANGED flushing /\ pc["main"] \notin {"append", "sealed"}
           \/ TakeBuffer("main", st) /\ at = "sealed" /\ pc["main"] \notin {"append", "sealed"}
           \/ AppendEvent("main", st)
  <2>1. ASSUME NEW st \in Stream, st = (IF "stderr" \in todo["main"] THEN "stdout" ELSE "stderr"),
               NEW next, next = (IF st = "stdout" THEN "seal" ELSE "close")
        PROVE  \E at \in {"sealed", "seal", "close"} :
                 /\ Goto("main", at) /\ (at = "close" => "stderr" \notin todo["main"])
                 /\ \/ UNCHANGED flushing /\ pc["main"] \notin {"append", "sealed"}
                    \/ TakeBuffer("main", st) /\ at = "sealed" /\ pc["main"] \notin {"append", "sealed"}
                    \/ AppendEvent("main", st)
    <3>1. \/ pc["main"] = "flush" /\ TakeBuffer("main", st) /\ Goto("main", "sealed")
          \/ pc["main"] = "flush" /\ Goto("main", next) /\ UNCHANGED flushing
          \/ AppendEvent("main", st) /\ Goto("main", next)
      BY <2>1 DEF SealFlushes
    <3>2. next \in {"seal", "close"} /\ (next = "close" => "stderr" \notin todo["main"])
      BY <2>1
    <3> QED
      BY <3>1, <3>2
  <2> QED
    BY <2>1 DEF Stream
<1>2. Moved("main", at) /\ pc'["main"] = at /\ pc'["loop"] = pc["loop"]
      /\ \A x \in Stream : pc'[x] = pc[x]
  BY <1>0, <1>1, GotoMoves, MainMoves
<1>3. "stdout" \notin todo["main"]
  BY <1>0 DEF Whole, Stands
<1>4. Stands' /\ ~Closing'
  BY <1>0, <1>1, <1>2, <1>3 DEF Whole, Stands, Closing
<1>5. ASSUME NEW x \in Stream PROVE IsSealed(x)' = IsSealed(x)
  <2>1. ~Closing
    BY <1>0 DEF Closing
  <2>2. CASE at = "close"
    <3>1. x \notin todo["main"]
      BY <1>1, <1>3, <2>2 DEF Stream
    <3> QED
      BY <1>0, <1>2, <1>4, <2>1, <2>2, <3>1 DEF IsSealed
  <2>3. CASE at # "close"
    BY <1>0, <1>1, <1>2, <1>4, <2>1, <2>3 DEF IsSealed
  <2> QED
    BY <2>2, <2>3
<1>6. ASSUME NEW x \in Stream PROVE Sent(x)'
  BY <1>0, <1>5 DEF Whole, Sent
<1>7. ASSUME NEW x \in Stream PROVE Holder(x)'
  <2>1. CASE UNCHANGED flushing /\ pc["main"] \notin {"append", "sealed"}
    BY <1>0, <1>2, <2>1, HolderFrame DEF Whole
  <2>2. CASE TakeBuffer("main", st) /\ at = "sealed" /\ pc["main"] \notin {"append", "sealed"}
    BY <1>0, <1>2, <2>2, HolderTakes DEF Whole
  <2>3. CASE AppendEvent("main", st)
    BY <1>0, <1>2, <2>3, HolderAppends DEF Whole
  <2> QED
    BY <1>1, <2>1, <2>2, <2>3
<1>8. ASSUME NEW x \in Stream PROVE Flushed(x)'
  BY <1>4 DEF Flushed
<1> QED
  BY <1>4, <1>6, <1>7, <1>8 DEF Whole

\* The last flush empties a stream, and nobody fills it again.
LEMMA LastFlushStep ==
    ASSUME Inv, Whole, FlushAll("main")
    PROVE  Whole'
<1>0. Places /\ Buffers /\ "main" \in Goroutine /\ "main" \notin Stream
      /\ todo["main"] \in SUBSET Stream /\ pc["main"] \in {"flushall", "append"}
      /\ UNCHANGED <<taken, lim, emitted>>
  BY DEF Inv, Goroutine, Stream, Places, FlushAll, runnerVars
<1>1. PICK st \in Stream :
        /\ st \in todo["main"]
        /\ \/ /\ pc["main"] = "flushall" /\ TakeBuffer("main", st) /\ Goto("main", "append")
              /\ UNCHANGED todo
           \/ /\ pc["main"] = "flushall" /\ NothingToFlush(st)
              /\ todo' = [todo EXCEPT !["main"] = @ \ {st}]
              /\ UNCHANGED <<bufs, flushing, pc>>
           \/ /\ AppendEvent("main", st) /\ Goto("main", "flushall") /\ UNCHANGED bufs
              /\ todo' = [todo EXCEPT !["main"] = @ \ {st}]
  BY <1>0 DEF FlushAll
<1>2. PICK at \in {"flushall", "append"} : Moved("main", at) /\ (UNCHANGED pc \/ Goto("main", at))
  BY <1>0, <1>1, GotoMoves DEF Moved
<1>3. pc'["main"] = at /\ pc'["loop"] = pc["loop"] /\ \A x \in Stream : pc'[x] = pc[x]
  BY <1>2, MainMoves
<1>4. Closing /\ Closing'
  BY <1>0, <1>3 DEF Closing
<1>5. Stands'
  BY <1>0, <1>3, <1>4 DEF Whole, Stands, Closing
<1>6. ASSUME NEW x \in Stream PROVE Sent(x)'
  BY <1>0, <1>4 DEF Whole, Sent, IsSealed
<1>7. ASSUME NEW x \in Stream PROVE Holder(x)' /\ Flushed(x)'
  <2>1. CASE /\ pc["main"] = "flushall" /\ TakeBuffer("main", st) /\ Goto("main", "append")
             /\ UNCHANGED todo
    <3>1. Moved("main", "append")
      BY <1>0, <2>1, GotoMoves
    <3>2. Holder(x)'
      BY <1>0, <2>1, <3>1, HolderTakes DEF Whole
    <3>3. bufs'[st] = <<>> /\ \A y \in Stream : y # st => bufs'[y] = bufs[y] /\ flushing'[y] = flushing[y]
      BY <1>0, <2>1 DEF TakeBuffer, Buffers
    <3>4. Flushed(x)'
      BY <1>1, <1>4, <2>1, <3>3 DEF Whole, Flushed
    <3> QED
      BY <3>2, <3>4
  <2>2. CASE /\ pc["main"] = "flushall" /\ NothingToFlush(st)
             /\ todo' = [todo EXCEPT !["main"] = @ \ {st}]
             /\ UNCHANGED <<bufs, flushing, pc>>
    <3>1. Moved("main", "flushall")
      BY <2>2 DEF Moved
    <3>2. Holder(x)'
      BY <1>0, <2>2, <3>1, HolderFrame DEF Whole
    <3>3. todo'["main"] = todo["main"] \ {st}
      BY <1>0, <2>2 DEF Places
    <3>4. Flushed(x)'
      BY <1>4, <2>2, <3>3 DEF Whole, Flushed, NothingToFlush
    <3> QED
      BY <3>2, <3>4
  <2>3. CASE /\ AppendEvent("main", st) /\ Goto("main", "flushall") /\ UNCHANGED bufs
             /\ todo' = [todo EXCEPT !["main"] = @ \ {st}]
    <3>1. Moved("main", "flushall")
      BY <1>0, <2>3, GotoMoves
    <3>2. Holder(x)'
      BY <1>0, <2>3, <3>1, HolderAppends DEF Whole
    <3>3. todo'["main"] = todo["main"] \ {st}
      BY <1>0, <2>3 DEF Places
    <3>4. /\ flushing[st].by = "main" /\ flushing'[st] = Free
          /\ \A y \in Stream : y # st => flushing'[y] = flushing[y]
      BY <1>0, <2>3 DEF AppendEvent, Buffers
    <3>5. Flushed(x)'
      BY <1>4, <2>3, <3>3, <3>4 DEF Whole, Flushed
    <3> QED
      BY <3>2, <3>5
  <2> QED
    BY <1>1, <2>1, <2>2, <2>3
<1> QED
  BY <1>5, <1>6, <1>7 DEF Whole

\* Nothing has been sent yet, and nobody holds a mutex.
LEMMA InitWhole == Init => Whole
<1> SUFFICES ASSUME Init PROVE Whole
  OBVIOUS
<1> USE DEF Init
<1>1. /\ pc["main"] = "wait" /\ pc["loop"] = "idle" /\ \A st \in Stream : pc[st] = "idle"
  BY DEF Goroutine, Stream
<1>2. Stands /\ ~Closing /\ \A st \in Stream : ~IsSealed(st)
  BY <1>1 DEF Stands, Closing, IsSealed
<1>3. ASSUME NEW st \in Stream PROVE Sent(st)
  <2>1. lim[st] = [head |-> 0, tail |-> <<>>, overflow |-> FALSE] /\ taken[st] = 0 /\ emitted[st] = <<>>
    OBVIOUS
  <2>2. Kept(lim[st], 0)
    BY <2>1 DEF Kept
  <2>3. Out(0) = <<>>
    BY DEF Out, Shorter, Pieces
  <2> QED
    BY <1>2, <2>1, <2>2, <2>3 DEF Sent
<1>4. ASSUME NEW st \in Stream PROVE Holder(st) /\ Flushed(st)
  BY <1>2 DEF Holder, Flushed, Free
<1> QED
  BY <1>2, <1>3, <1>4 DEF Whole

\* Every step keeps what is known of the limiter, the mutexes and the last flush.
LEMMA NextWhole == Inv /\ Whole /\ [Next]_vars => Whole'
<1> SUFFICES ASSUME Inv, Whole, [Next]_vars PROVE Whole'
  OBVIOUS
<1>1. ASSUME NEW st \in Stream, Writes(st) PROVE Whole'
  BY <1>1, SilentStep DEF Writes
<1>2. CASE Exits
  BY <1>2, SilentStep DEF Exits
<1>3. ASSUME NEW st \in Stream, Drain(st) PROVE Whole'
  BY <1>3, DrainReadsStep, DrainGoes DEF Drain
<1>4. CASE Loop \/ LoopStops
  BY <1>4, LoopStep
<1>5. CASE Main
  BY <1>5, MainGoes, SealStep, SealFlushesStep, LastFlushStep DEF Main
<1>6. CASE UNCHANGED vars
  BY <1>6, SilentStep DEF vars, runnerVars
<1> QED
  BY <1>1, <1>2, <1>3, <1>4, <1>5, <1>6 DEF Next

\* When closeAll has returned, the rows hold what the limiter keeps of all that was
\* read.
LEMMA WholeMeansComplete ==
    ASSUME Inv, Whole
    PROVE  TranscriptIsComplete
<1> SUFFICES ASSUME pc["main"] = "done", NEW st \in Stream
             PROVE  \/ taken[st] <= headBytes + tailBytes /\ events[st] = Pieces(1, taken[st])
                    \/ taken[st] > headBytes /\ events[st] = Elided(taken[st])
  BY DEF TranscriptIsComplete
<1>1. Places /\ Buffers
  BY DEF Inv
<1>2. Closing /\ IsSealed(st) /\ todo["main"] = {}
  BY DEF Whole, Stands, Closing, IsSealed
<1>3. flushing[st] = Free /\ bufs[st] = <<>>
  BY <1>2 DEF Whole, Flushed
<1>4. events[st] = emitted[st]
  <2>1. events[st] \o <<>> \o <<>> = emitted[st]
    <3>1. events[st] \o flushing[st].payload \o bufs[st] = emitted[st]
      BY <1>1 DEF Buffers, TranscriptInOrder
    <3>2. flushing[st].payload = <<>>
      BY <1>3 DEF Free
    <3> QED
      BY <1>3, <3>1, <3>2, Zenon
  <2>2. events[st] \in Seq(Piece)
    BY <1>1 DEF Buffers
  <2>3. events[st] \o <<>> = events[st]
    BY <2>2, ConcatEmptySeq
  <2> QED
    BY <2>1, <2>3
<1>5. emitted[st] = Out(taken[st]) \o Sealed(lim[st]) /\ Kept(lim[st], taken[st])
  BY <1>2 DEF Whole, Sent
<1>6. lim[st] \in Limiter /\ taken[st] \in Nat
  BY <1>1 DEF Places
<1>7. events[st] = Retained(taken[st])
  BY <1>4, <1>5, <1>6, SealedIsRetained
<1>8. headBytes \in Nat /\ tailBytes \in Nat
  BY SizeAssumption
<1> QED
  BY <1>6, <1>7, <1>8 DEF Retained

----------------------------------------------------------------------------

\* Whatever the sizes and the output, the inductive invariant holds.
THEOREM Invariance == Spec => []IInv
<1>1. Init => IInv
  BY InitInv, InitWhole DEF IInv
<1>2. IInv /\ [Next]_vars => IInv'
  BY NextInv, NextWhole DEF IInv
<1> QED
  BY <1>1, <1>2, PTL DEF Spec

\* Every variable has its type, and the limiter keeps no more than its head and its
\* tail (limiter.push).
THEOREM TypeCorrect == Spec => []TypeOK
<1>1. IInv => TypeOK
  BY InvIsBoth DEF IInv
<1> QED
  BY <1>1, Invariance, PTL

\* Rows, what a flusher has taken and the buffer are what the runner handed over, in
\* order and with nothing lost on the way (streamWriter.write and flush).
THEOREM TranscriptStaysInOrder == Spec => []TranscriptInOrder
<1>1. IInv => TranscriptInOrder
  BY InvIsBoth DEF IInv
<1> QED
  BY <1>1, Invariance, PTL

\* When closeAll has returned, the rows hold all that the drains have read or, when
\* that is too long, its head, the marker and its tail, whoever flushed them
\* (limiter.push, limiter.Seal, closeAll).
THEOREM TranscriptEndsComplete == Spec => []TranscriptIsComplete
<1>1. IInv => TranscriptIsComplete
  BY WholeMeansComplete DEF IInv
<1> QED
  BY <1>1, Invariance, PTL
=============================================================================

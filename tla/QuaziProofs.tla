----------------------------- MODULE QuaziProofs -----------------------------
(***************************************************************************)
(* The firmware implements Idle and Ble: each of its steps is, for the     *)
(* power states, a step of Idle, and for the connection manager, a step of *)
(* Ble, or it leaves them alone.                                           *)
(***************************************************************************)
EXTENDS SysWorkQProofs, Quazi

-----------------------------------------------------------------------------
(* The works of a set that wait in a queue *)

\* f is the function by which Only is defined, up to its argument n; Added
\* is what it does with the work w.
Added(chosen, w, S) == IF w \in S THEN Append(chosen, w) ELSE chosen

Selects(f, q, S, n) ==
    f = [i \in 0 .. n |-> IF i = 0 THEN <<>> ELSE Added(f[i - 1], q[i], S)]

LEMMA AddedType ==
    ASSUME NEW W, NEW chosen \in Seq(W), NEW w \in W, NEW S
    PROVE  Added(chosen, w, S) \in Seq(W)
  BY DEF Added

\* There is such a function, ...
LEMMA SelectsExists ==
    ASSUME NEW W, NEW q \in Seq(W), NEW S
    PROVE  \E f \in [0 .. Len(q) -> Seq(W)] : Selects(f, q, S, Len(q))
  <1> DEFINE J == {n \in Nat : n <= Len(q) => \E f \in [0 .. n -> Seq(W)] : Selects(f, q, S, n)}
  <1>1. 0 \in J
    <2> DEFINE f == [i \in 0 .. 0 |-> <<>>]
    <2>1. f \in [0 .. 0 -> Seq(W)] /\ Selects(f, q, S, 0)
      BY DEF Selects
    <2> QED
      BY <2>1
  <1>2. ASSUME NEW n \in Nat, n \in J PROVE n + 1 \in J
    <2>1. SUFFICES ASSUME n + 1 <= Len(q)
                   PROVE  \E f \in [0 .. n + 1 -> Seq(W)] : Selects(f, q, S, n + 1)
      OBVIOUS
    <2>2. PICK f \in [0 .. n -> Seq(W)] : Selects(f, q, S, n)
      BY <1>2, <2>1
    <2>3. q[n + 1] \in W /\ f[n] \in Seq(W)
      BY <2>1
    <2> DEFINE last == Added(f[n], q[n + 1], S)
               g == [i \in 0 .. n + 1 |-> IF i = n + 1 THEN last ELSE f[i]]
    <2>4. last \in Seq(W)
      BY <2>3, AddedType
    <2>5. g \in [0 .. n + 1 -> Seq(W)]
      BY <2>4
    <2>6. \A i \in 0 .. n : f[i] = IF i = 0 THEN <<>> ELSE Added(f[i - 1], q[i], S)
      BY <2>2 DEF Selects
    <2>7. \A i \in 0 .. n + 1 : g[i] = IF i = 0 THEN <<>> ELSE Added(g[i - 1], q[i], S)
      BY <2>6
    <2>8. Selects(g, q, S, n + 1)
      BY <2>5, <2>7 DEF Selects
    <2> HIDE DEF g
    <2> QED
      BY <2>5, <2>8
  <1> HIDE DEF J
  <1>3. Nat \subseteq J
    BY <1>1, <1>2, SetInduction
  <1> QED
    BY <1>3 DEF J

\* ... and only one, ...
LEMMA SelectsUnique ==
    ASSUME NEW q, NEW S, NEW n \in Nat, NEW f, Selects(f, q, S, n), NEW g, Selects(g, q, S, n)
    PROVE  f = g
  <1> DEFINE J == {i \in Nat : i <= n => f[i] = g[i]}
  <1>1. /\ \A i \in 0 .. n : f[i] = IF i = 0 THEN <<>> ELSE Added(f[i - 1], q[i], S)
        /\ \A i \in 0 .. n : g[i] = IF i = 0 THEN <<>> ELSE Added(g[i - 1], q[i], S)
    BY DEF Selects
  <1>2. 0 \in J
    BY <1>1
  <1>3. ASSUME NEW i \in Nat, i \in J PROVE i + 1 \in J
    BY <1>1, <1>3
  <1> HIDE DEF J
  <1>4. Nat \subseteq J
    BY <1>2, <1>3, SetInduction
  <1>5. \A i \in 0 .. n : f[i] = g[i]
    BY <1>4 DEF J
  <1>6. f = [i \in 0 .. n |-> f[i]] /\ g = [i \in 0 .. n |-> g[i]]
    BY DEF Selects
  <1> QED
    BY <1>5, <1>6

\* ... so that Only is its last value.
LEMMA OnlyIs ==
    ASSUME NEW W, NEW q \in Seq(W), NEW S, NEW f, Selects(f, q, S, Len(q))
    PROVE  Only(q, S) = f[Len(q)]
  <1>1. \A g : Selects(g, q, S, Len(q)) => g = f
    BY SelectsUnique
  <1> QED
    BY <1>1 DEF Only, Selects, Added

\* What waits in the empty queue, in a queue with one work more, and of
\* which type it is.
LEMMA OnlyEmpty == ASSUME NEW S PROVE Only(<<>>, S) = <<>>
  <1> DEFINE f == [i \in 0 .. 0 |-> <<>>]
  <1>1. Selects(f, <<>>, S, 0)
    BY DEF Selects
  <1>2. <<>> \in Seq({}) /\ Len(<<>>) = 0
    OBVIOUS
  <1>3. Only(<<>>, S) = f[0]
    BY <1>1, <1>2, OnlyIs
  <1> QED
    BY <1>3

LEMMA OnlyAppend ==
    ASSUME NEW W, NEW q \in Seq(W), NEW w \in W, NEW S
    PROVE  /\ Only(q, S) \in Seq(W)
           /\ Only(Append(q, w), S) = Added(Only(q, S), w, S)
  <1> DEFINE r == Append(q, w)
             n == Len(q)
  <1>1. /\ r \in Seq(W) /\ Len(r) = n + 1 /\ n \in Nat
        /\ r[n + 1] = w /\ \A i \in 1 .. n : r[i] = q[i]
    OBVIOUS
  <1> HIDE DEF r
  <1>2. PICK f \in [0 .. n + 1 -> Seq(W)] : Selects(f, r, S, n + 1)
    <2>1. \E f \in [0 .. Len(r) -> Seq(W)] : Selects(f, r, S, Len(r))
      BY <1>1, SelectsExists
    <2> QED
      BY <1>1, <2>1
  <1>3. \A i \in 0 .. n + 1 : f[i] = IF i = 0 THEN <<>> ELSE Added(f[i - 1], r[i], S)
    BY <1>2 DEF Selects
  <1> DEFINE g == [i \in 0 .. n |-> f[i]]
  <1>4. Selects(g, q, S, n)
    <2>1. \A i \in 0 .. n : g[i] = IF i = 0 THEN <<>> ELSE Added(g[i - 1], q[i], S)
      BY <1>1, <1>3
    <2> QED
      BY <2>1 DEF Selects
  <1>5. Only(q, S) = f[n]
    BY <1>1, <1>4, OnlyIs
  <1>6. Only(r, S) = f[n + 1]
    BY <1>1, <1>2, OnlyIs
  <1>7. f[n + 1] = Added(f[n], w, S)
    BY <1>1, <1>3
  <1>8. f[n] \in Seq(W)
    BY <1>1, <1>2
  <1> QED
    BY <1>5, <1>6, <1>7, <1>8 DEF r

LEMMA OnlyType ==
    ASSUME NEW W, NEW q \in Seq(W), NEW S
    PROVE  Only(q, S) \in Seq(W)
  <1>1. CASE W = {}
    BY <1>1, OnlyEmpty
  <1>2. CASE W # {}
    BY <1>2, OnlyAppend
  <1> QED
    BY <1>1, <1>2

\* Every queue but the empty one is a shorter one with a work appended.
LEMMA IsAppended ==
    ASSUME NEW W, NEW q \in Seq(W), NEW n \in Nat, Len(q) = n + 1
    PROVE  \E p \in Seq(W), w \in W : q = Append(p, w) /\ Len(p) = n
  <1> DEFINE p == SubSeq(q, 1, n)
  <1>1. p \in Seq(W) /\ Len(p) = n /\ q[n + 1] \in W /\ q = Append(p, q[n + 1])
    OBVIOUS
  <1> QED
    BY <1>1

\* The works of two queues, one behind the other.
LEMMA OnlyConcat ==
    ASSUME NEW W, NEW s \in Seq(W), NEW t \in Seq(W), NEW S
    PROVE  Only(s \o t, S) = Only(s, S) \o Only(t, S)
  <1> DEFINE J == {n \in Nat : \A u \in Seq(W) :
                      Len(u) = n => Only(s \o u, S) = Only(s, S) \o Only(u, S)}
  <1>1. 0 \in J
    <2> SUFFICES ASSUME NEW u \in Seq(W), Len(u) = 0
                 PROVE  Only(s \o u, S) = Only(s, S) \o Only(u, S)
      OBVIOUS
    <2>1. u = <<>> /\ s \o u = s
      OBVIOUS
    <2>2. Only(u, S) = <<>>
      BY <2>1, OnlyEmpty
    <2>3. Only(s, S) \in Seq(W)
      BY OnlyType
    <2> QED
      BY <2>1, <2>2, <2>3
  <1>2. ASSUME NEW n \in Nat, n \in J PROVE n + 1 \in J
    <2> SUFFICES ASSUME NEW u \in Seq(W), Len(u) = n + 1
                 PROVE  Only(s \o u, S) = Only(s, S) \o Only(u, S)
      OBVIOUS
    <2>1. PICK p \in Seq(W), w \in W : u = Append(p, w) /\ Len(p) = n
      BY IsAppended
    <2>2. ASSUME NEW a \in Seq(W), NEW b \in Seq(W)
          PROVE  a \o Append(b, w) = Append(a \o b, w)
      OBVIOUS
    <2>3. s \o u = Append(s \o p, w) /\ s \o p \in Seq(W)
      BY <2>1, <2>2
    <2>4. Only(s \o p, S) = Only(s, S) \o Only(p, S)
      BY <1>2, <2>1
    <2>5. Only(s, S) \in Seq(W) /\ Only(p, S) \in Seq(W)
      BY OnlyType
    <2>6. ASSUME NEW a \in Seq(W) PROVE Only(Append(a, w), S) = Added(Only(a, S), w, S)
      BY OnlyAppend
    <2>7. /\ Only(s \o u, S) = Added(Only(s, S) \o Only(p, S), w, S)
          /\ Only(u, S) = Added(Only(p, S), w, S)
      <3>1. Only(Append(s \o p, w), S) = Added(Only(s \o p, S), w, S)
        BY <2>3, <2>6
      <3>2. Only(Append(p, w), S) = Added(Only(p, S), w, S)
        BY <2>1, <2>6
      <3> QED
        BY <2>1, <2>3, <2>4, <3>1, <3>2
    <2> QED
      BY <2>2, <2>5, <2>7 DEF Added
  <1> HIDE DEF J
  <1>3. Nat \subseteq J
    BY <1>1, <1>2, SetInduction
  <1>4. Len(t) \in J
    BY <1>3
  <1> QED
    BY <1>4 DEF J

\* A queue of one work.
LEMMA OnlyOne ==
    ASSUME NEW W, NEW w \in W, NEW S
    PROVE  Only(<<w>>, S) = IF w \in S THEN <<w>> ELSE <<>>
  <1>1. <<>> \in Seq(W) /\ <<w>> = Append(<<>>, w)
    OBVIOUS
  <1> QED
    <2>1. Only(Append(<<>>, w), S) = Added(Only(<<>>, S), w, S)
      BY <1>1, OnlyAppend
    <2> QED
      BY <1>1, <2>1, OnlyEmpty DEF Added

\* A work waits among those of S if it is one of them and waits.
LEMMA OnlyContains ==
    ASSUME NEW W, NEW q \in Seq(W), NEW S
    PROVE  \A w : Contains(Only(q, S), w) <=> w \in S /\ Contains(q, w)
  <1> DEFINE P(u) == \A w : Contains(Only(u, S), w) <=> w \in S /\ Contains(u, w)
             J == {n \in Nat : \A u \in Seq(W) : Len(u) = n => P(u)}
  <1>1. 0 \in J
    <2> SUFFICES ASSUME NEW u \in Seq(W), Len(u) = 0 PROVE P(u)
      OBVIOUS
    <2>1. u = <<>> /\ Only(u, S) = <<>>
      BY OnlyEmpty
    <2> QED
      BY <2>1 DEF Contains
  <1>2. ASSUME NEW n \in Nat, n \in J PROVE n + 1 \in J
    <2> SUFFICES ASSUME NEW u \in Seq(W), Len(u) = n + 1 PROVE P(u)
      OBVIOUS
    <2>1. PICK p \in Seq(W), v \in W : u = Append(p, v) /\ Len(p) = n
      BY IsAppended
    <2>2. P(p)
      BY <1>2, <2>1
    <2>3. ASSUME NEW a \in Seq(W)
          PROVE  \A w : Contains(Append(a, v), w) <=> Contains(a, w) \/ w = v
      <3> DEFINE r == Append(a, v)
      <3>1. Len(r) = Len(a) + 1 /\ r[Len(a) + 1] = v /\ \A i \in 1 .. Len(a) : r[i] = a[i]
        OBVIOUS
      <3>2. Len(a) \in Nat
        OBVIOUS
      <3> HIDE DEF r
      <3>3. ASSUME NEW w PROVE Contains(r, w) <=> Contains(a, w) \/ w = v
        <4>1. Contains(r, w) => Contains(a, w) \/ w = v
          BY <3>1, <3>2 DEF Contains
        <4>2. Contains(a, w) \/ w = v => Contains(r, w)
          BY <3>1, <3>2 DEF Contains
        <4> QED
          BY <4>1, <4>2
      <3> QED
        BY <3>3 DEF r
    <2>4. Only(p, S) \in Seq(W)
      BY OnlyType
    <2>5. Only(u, S) = Added(Only(p, S), v, S)
      BY <2>1, OnlyAppend
    <2> QED
      BY <2>1, <2>2, <2>3, <2>4, <2>5 DEF Added
  <1> HIDE DEF J
  <1>3. Nat \subseteq J
    BY <1>1, <1>2, SetInduction
  <1>4. Len(q) \in J
    BY <1>3
  <1> QED
    BY <1>4 DEF J

-----------------------------------------------------------------------------
(* What the operations on the queue do to the works of a set *)

\* Submit adds a work of S, and no other.
LEMMA OnlySubmit ==
    ASSUME NEW W, NEW q \in Seq(W), NEW w \in W, NEW S
    PROVE  Only(Submit(q, w), S) = IF w \in S THEN Submit(Only(q, S), w) ELSE Only(q, S)
  <1>1. Contains(Only(q, S), w) <=> w \in S /\ Contains(q, w)
    BY OnlyContains
  <1>2. Only(Append(q, w), S) = Added(Only(q, S), w, S)
    BY OnlyAppend
  <1> QED
    BY <1>1, <1>2 DEF Submit, Added

\* A work of S that is taken is the first of those of S; taking another
\* leaves them alone.
LEMMA OnlyTaken ==
    ASSUME NEW W, NEW q \in Seq(W), NEW w, Runs(q, w), NEW S
    PROVE  /\ w \in S => Runs(Only(q, S), w) /\ Only(Tail(q), S) = Tail(Only(q, S))
           /\ w \notin S => Only(Tail(q), S) = Only(q, S)
  <1>1. w \in W /\ <<w>> \in Seq(W) /\ Tail(q) \in Seq(W) /\ q = <<w>> \o Tail(q)
    BY DEF Runs
  <1>2. Only(q, S) = Only(<<w>>, S) \o Only(Tail(q), S)
    <2> DEFINE one == <<w>>
               rest == Tail(q)
    <2>1. one \in Seq(W) /\ rest \in Seq(W) /\ q = one \o rest
      BY <1>1
    <2> HIDE DEF one, rest
    <2>2. Only(one \o rest, S) = Only(one, S) \o Only(rest, S)
      BY <2>1, OnlyConcat
    <2> QED
      BY <2>1, <2>2 DEF one, rest
  <1>3. Only(<<w>>, S) = IF w \in S THEN <<w>> ELSE <<>>
    BY <1>1, OnlyOne
  <1>4. Only(Tail(q), S) \in Seq(W)
    BY <1>1, OnlyType
  <1> DEFINE r == Only(Tail(q), S)
  <1> HIDE DEF r
  <1>5. CASE w \in S
    <2>1. r \in Seq(W) /\ Only(q, S) = <<w>> \o r
      BY <1>2, <1>3, <1>4, <1>5 DEF r
    <2>2. Runs(<<w>> \o r, w) /\ Tail(<<w>> \o r) = r
      BY <1>1, <2>1 DEF Runs
    <2> QED
      BY <1>5, <2>1, <2>2 DEF r
  <1>6. CASE w \notin S
    <2>1. r \in Seq(W) /\ Only(q, S) = <<>> \o r
      BY <1>2, <1>3, <1>4, <1>6 DEF r
    <2> QED
      BY <1>6, <2>1 DEF r
  <1> QED
    BY <1>5, <1>6

\* Where the first w is in a queue, ...
LEMMA FirstPlace ==
    ASSUME NEW W, NEW q \in Seq(W), NEW w, Contains(q, w)
    PROVE  \E a, b \in Seq(W) : ~Contains(a, w) /\ q = (a \o <<w>>) \o b
  <1> DEFINE K == {i \in 1 .. Len(q) : q[i] = w}
  <1>1. K # {} /\ K \subseteq Nat
    BY DEF Contains
  <1>2. PICK n \in K : \A m \in K : n <= m
    BY <1>1, Smallest
  <1> DEFINE a == SubSeq(q, 1, n - 1)
             b == SubSeq(q, n + 1, Len(q))
  <1>3. /\ a \in Seq(W) /\ Len(a) = n - 1
        /\ \A j \in 1 .. n - 1 : a[j] = q[j]
    OBVIOUS
  <1>4. /\ b \in Seq(W) /\ Len(b) = Len(q) - n
        /\ \A j \in 1 .. Len(q) - n : b[j] = q[n + j]
    OBVIOUS
  <1>5. ~Contains(a, w)
    BY <1>2, <1>3 DEF Contains
  <1>6. n \in 1 .. Len(q) /\ q[n] = w /\ <<w>> \in Seq(W)
    OBVIOUS
  <1> HIDE DEF a, b, K
  <1> DEFINE c == a \o <<w>>
  <1>7. /\ c \in Seq(W) /\ Len(c) = n
        /\ \A j \in 1 .. n : c[j] = q[j]
    BY <1>3, <1>6
  <1> HIDE DEF c
  <1>8. /\ c \o b \in Seq(W) /\ Len(c \o b) = Len(q)
        /\ \A j \in 1 .. Len(q) : (c \o b)[j] = IF j <= n THEN c[j] ELSE b[j - n]
    <2>1. /\ c \o b \in Seq(W) /\ Len(c \o b) = Len(c) + Len(b)
          /\ \A j \in 1 .. Len(c) + Len(b) :
                (c \o b)[j] = IF j <= Len(c) THEN c[j] ELSE b[j - Len(c)]
      BY <1>4, <1>7, ConcatProperties
    <2>2. Len(c) = n /\ Len(c) + Len(b) = Len(q)
      BY <1>4, <1>6, <1>7
    <2> QED
      BY <2>1, <2>2
  <1>9. \A j \in 1 .. Len(q) : (c \o b)[j] = q[j]
    <2> SUFFICES ASSUME NEW j \in 1 .. Len(q) PROVE (c \o b)[j] = q[j]
      OBVIOUS
    <2>1. CASE j <= n
      BY <1>6, <1>7, <1>8, <2>1
    <2>2. CASE ~(j <= n)
      BY <1>4, <1>6, <1>8, <2>2
    <2> QED
      BY <2>1, <2>2
  <1>10. q = c \o b
    BY <1>8, <1>9, SeqEqual
  <1> QED
    BY <1>3, <1>4, <1>5, <1>10 DEF c

\* ... is where Cancel takes it out.
LEMMA CancelFirst ==
    ASSUME NEW W, NEW a \in Seq(W), NEW b \in Seq(W), NEW w \in W, ~Contains(a, w)
    PROVE  Cancel((a \o <<w>>) \o b, w) = a \o b
  <1> DEFINE c == a \o <<w>>
             r == c \o b
             n == Len(a) + 1
             K == {i \in 1 .. Len(r) : r[i] = w}
  <1>1. /\ c \in Seq(W) /\ Len(c) = n /\ c[n] = w /\ n \in Nat
        /\ \A j \in 1 .. n - 1 : c[j] = a[j]
    OBVIOUS
  <1> HIDE DEF c
  <1>2. /\ r \in Seq(W) /\ Len(r) = n + Len(b)
        /\ \A j \in 1 .. n + Len(b) : r[j] = IF j <= n THEN c[j] ELSE b[j - n]
    <2>1. /\ c \o b \in Seq(W) /\ Len(c \o b) = Len(c) + Len(b)
          /\ \A j \in 1 .. Len(c) + Len(b) :
                (c \o b)[j] = IF j <= Len(c) THEN c[j] ELSE b[j - Len(c)]
      BY <1>1, ConcatProperties
    <2> QED
      BY <1>1, <2>1
  <1>3. Len(b) \in Nat
    OBVIOUS
  <1> HIDE DEF r
  <1>4. n \in K /\ \A m \in K : n <= m
    <2>1. n \in K
      BY <1>1, <1>2, <1>3
    <2>2. ASSUME NEW m \in K, m < n PROVE FALSE
      <3>1. m \in 1 .. n - 1 /\ a[m] = w
        BY <1>1, <1>2, <1>3, <2>2
      <3> QED
        BY <3>1 DEF Contains
    <2> QED
      BY <1>1, <2>1, <2>2
  <1>5. Min(K) = n
    <2>1. \A m \in K : (\A k \in K : m <= k) => m = n
      BY <1>2, <1>3, <1>4
    <2> QED
      BY <1>4, <2>1 DEF Min
  <1>6. Cancel(r, w) = RemoveAt(r, n)
    BY <1>4, <1>5 DEF Cancel, RemoveFirst, SelectInSeq
  <1>7. SubSeq(r, 1, n - 1) = a
    BY <1>1, <1>2, <1>3
  <1>8. SubSeq(r, n + 1, Len(r)) = b
    BY <1>1, <1>2, <1>3
  <1> QED
    BY <1>6, <1>7, <1>8 DEF RemoveAt, r, c

\* Cancelling a work of S is seen in S, cancelling another is not.
LEMMA OnlyCancel ==
    ASSUME NEW W, NEW q \in Seq(W), NEW w \in W, NEW S
    PROVE  Only(Cancel(q, w), S) = IF w \in S THEN Cancel(Only(q, S), w) ELSE Only(q, S)
  <1>1. Contains(Only(q, S), w) <=> w \in S /\ Contains(q, w)
    BY OnlyContains
  <1>2. CASE ~Contains(q, w)
    <2>1. ASSUME NEW r, ~Contains(r, w) PROVE Cancel(r, w) = r
      BY <2>1 DEF Cancel, RemoveFirst, Contains
    <2> QED
      BY <1>1, <1>2, <2>1
  <1>3. CASE Contains(q, w)
    <2>1. PICK a, b \in Seq(W) : ~Contains(a, w) /\ q = (a \o <<w>>) \o b
      BY <1>3, FirstPlace
    <2>2. Cancel(q, w) = a \o b
      BY <2>1, CancelFirst
    <2>3. <<w>> \in Seq(W) /\ a \o <<w>> \in Seq(W)
      OBVIOUS
    <2> DEFINE x == Only(a, S)
               y == Only(b, S)
    <2>4. x \in Seq(W) /\ y \in Seq(W)
      BY OnlyType
    <2>5. Only(a \o b, S) = x \o y
      BY OnlyConcat
    <2>6. Only(q, S) = (x \o Only(<<w>>, S)) \o y
      <3> DEFINE one == <<w>>
                 c == a \o one
      <3>1. one \in Seq(W) /\ c \in Seq(W) /\ q = c \o b
        BY <2>1, <2>3
      <3> HIDE DEF one
      <3>2. Only(c, S) = x \o Only(one, S)
        BY <3>1, OnlyConcat
      <3> HIDE DEF c
      <3>3. Only(c \o b, S) = Only(c, S) \o y
        BY <3>1, OnlyConcat
      <3> QED
        BY <3>1, <3>2, <3>3 DEF one
    <2>7. ~Contains(x, w)
      BY <2>1, OnlyContains
    <2> HIDE DEF x, y
    <2>8. CASE w \in S
      <3>1. Only(q, S) = (x \o <<w>>) \o y
        BY <2>6, <2>8, OnlyOne
      <3>2. Cancel((x \o <<w>>) \o y, w) = x \o y
        BY <2>4, <2>7, CancelFirst
      <3> QED
        BY <2>2, <2>5, <2>8, <3>1, <3>2
    <2>9. CASE w \notin S
      <3>1. Only(q, S) = (x \o <<>>) \o y
        BY <2>6, <2>9, OnlyOne
      <3>2. x \o <<>> = x
        BY <2>4
      <3> QED
        BY <2>2, <2>5, <2>9, <3>1, <3>2
    <2> QED
      BY <2>8, <2>9
  <1> QED
    BY <1>2, <1>3

-----------------------------------------------------------------------------
(* The two components' names for the same things *)

\* Every work of the queue is one of idle.c and main.c, or one of ble.c.
Works == I!IdleWorks \cup B!BleWorks

QueueOK == queue \in Seq(Works)

\* The work queue has the same operations in every instance.
LEMMA SameSubmit ==
    ASSUME NEW q, NEW w
    PROVE  /\ I!Submit(q, w) = Submit(q, w) /\ Power!Submit(q, w) = Submit(q, w)
           /\ B!Submit(q, w) = Submit(q, w) /\ Connection!Submit(q, w) = Submit(q, w)
  BY DEF Submit, I!Submit, Power!Submit, B!Submit, Connection!Submit,
         Contains, I!Contains, Power!Contains, B!Contains, Connection!Contains

LEMMA SameRuns ==
    ASSUME NEW q, NEW w
    PROVE  /\ I!Runs(q, w) <=> Runs(q, w)
           /\ Power!Runs(q, w) <=> Runs(q, w)
           /\ B!Runs(q, w) <=> Runs(q, w)
           /\ Connection!Runs(q, w) <=> Runs(q, w)
  BY DEF Runs, I!Runs, Power!Runs, B!Runs, Connection!Runs

LEMMA SameContains ==
    ASSUME NEW q, NEW w
    PROVE  /\ B!Contains(q, w) <=> Contains(q, w)
           /\ Connection!Contains(q, w) <=> Contains(q, w)
  BY DEF Contains, B!Contains, Connection!Contains

LEMMA SameCancel ==
    ASSUME NEW q, NEW w
    PROVE  B!Cancel(q, w) = Cancel(q, w) /\ Connection!Cancel(q, w) = Cancel(q, w)
  <1>1. B!Cancel(q, w) = Cancel(q, w)
    BY DEF Cancel, RemoveFirst, SelectInSeq, RemoveAt, Min,
           B!Cancel, B!RemoveFirst, B!SelectInSeq, B!RemoveAt, B!Min
  <1>2. Connection!Cancel(q, w) = Cancel(q, w)
    BY DEF Cancel, RemoveFirst, SelectInSeq, RemoveAt, Min,
           Connection!Cancel, Connection!RemoveFirst, Connection!SelectInSeq,
           Connection!RemoveAt, Connection!Min
  <1> QED
    BY <1>1, <1>2

\* Idle sees the matrix as the firmware has it, ...
LEMMA SameMatrix ==
    /\ Power!IrqPending <=> I!IrqPending
    /\ Power!ReleaseMatrix <=> I!ReleaseMatrix
    /\ \A struck : Power!ArmMatrix(struck) <=> I!ArmMatrix(struck)
    /\ \A level : Power!StopsLoop(level) <=> I!StopsLoop(level)
    /\ Power!RestartsLoop <=> I!RestartsLoop
  <1>1. Power!IrqPending <=> I!IrqPending
    BY DEF I!IrqPending, I!Raising, Power!IrqPending, Power!Raising
  <1>2. Power!ReleaseMatrix <=> I!ReleaseMatrix
    BY DEF I!ReleaseMatrix, Power!ReleaseMatrix
  <1>3. \A struck : Power!ArmMatrix(struck) <=> I!ArmMatrix(struck)
    <2>1. I!Raising = Power!Raising /\ I!Rows = Power!Rows /\ I!Cols = Power!Cols
      BY DEF I!Raising, Power!Raising, I!Rows, Power!Rows, I!Cols, Power!Cols
    <2>2. \A from : I!ArmRows(from) = Power!ArmRows(from) /\ I!ArmCols(from) = Power!ArmCols(from)
      BY <2>1 DEF I!ArmRows, Power!ArmRows, I!ArmCols, Power!ArmCols
    <2> QED
      BY <2>1, <2>2 DEF I!ArmMatrix, Power!ArmMatrix
  <1>4. \A level : Power!StopsLoop(level) <=> I!StopsLoop(level)
    BY DEF I!StopsLoop, Power!StopsLoop, I!IDLE_MATRIX, Power!IDLE_MATRIX
  <1>5. Power!RestartsLoop <=> I!RestartsLoop
    BY DEF I!RestartsLoop, Power!RestartsLoop, I!IDLE_MATRIX, Power!IDLE_MATRIX
  <1> QED
    BY <1>1, <1>2, <1>3, <1>4, <1>5

\* ... and scans it in the same way.
LEMMA SameScan ==
    /\ Power!Keys = I!Keys
    /\ \A seen, irq : Power!ScanFound(seen, irq) <=> I!ScanFound(seen, irq)
    /\ \A seen : Power!Processed(seen) = I!Processed(seen)
  <1>1. Power!Keys = I!Keys
    BY DEF I!Keys, I!Rows, I!Cols, Power!Keys, Power!Rows, Power!Cols
  <1>2. Power!Raising = I!Raising /\ Power!Reads = I!Reads
    BY <1>1 DEF I!Raising, I!Reads, Power!Raising, Power!Reads
  <1>3. \A S : Power!Min(S) = I!Min(S)
    BY DEF I!Min, Power!Min
  <1>4. \A seen, irq : Power!ScanFound(seen, irq) <=> I!ScanFound(seen, irq)
    BY <1>2, <1>3 DEF I!ScanFound, Power!ScanFound
  <1>5. \A S : Power!First(S) = I!First(S)
    BY DEF I!First, Power!First
  <1>6. \A seen : Power!Processed(seen) = I!Processed(seen)
    BY <1>5 DEF I!Processed, Power!Processed
  <1> QED
    BY <1>1, <1>4, <1>6

-----------------------------------------------------------------------------
(* The queue of the firmware, seen by each component *)

\* The works of the power states, as seen by Idle and by Ble.
LEMMA IdleSubmit ==
    ASSUME NEW q \in Seq(Works), NEW w \in I!IdleWorks
    PROVE  /\ Submit(q, w) \in Seq(Works)
           /\ Only(Submit(q, w), I!IdleWorks) = Submit(Only(q, I!IdleWorks), w)
           /\ Only(Submit(q, w), B!BleWorks) = Only(q, B!BleWorks)
  <1>1. w \in Works /\ w \notin B!BleWorks
    BY DEF Works, I!IdleWorks, B!BleWorks
  <1> QED
    BY <1>1, OnlySubmit, SubmitType

LEMMA BleSubmit ==
    ASSUME NEW q \in Seq(Works), NEW w \in B!BleWorks
    PROVE  /\ Submit(q, w) \in Seq(Works)
           /\ Only(Submit(q, w), I!IdleWorks) = Only(q, I!IdleWorks)
           /\ Only(Submit(q, w), B!BleWorks) = Submit(Only(q, B!BleWorks), w)
  <1>1. w \in Works /\ w \notin I!IdleWorks
    BY DEF Works, I!IdleWorks, B!BleWorks
  <1> QED
    BY <1>1, OnlySubmit, SubmitType

\* A work of the power states is taken, ...
LEMMA IdleTaken ==
    ASSUME QueueOK, NEW w \in I!IdleWorks, Runs(queue, w)
    PROVE  /\ Tail(queue) \in Seq(Works)
           /\ Runs(Only(queue, I!IdleWorks), w)
           /\ Only(Tail(queue), I!IdleWorks) = Tail(Only(queue, I!IdleWorks))
           /\ Only(Tail(queue), B!BleWorks) = Only(queue, B!BleWorks)
  <1>1. w \notin B!BleWorks
    BY DEF I!IdleWorks, B!BleWorks
  <1> QED
    BY <1>1, OnlyTaken, RunsType DEF QueueOK

\* ... or one of ble.c.
LEMMA BleTaken ==
    ASSUME QueueOK, NEW w \in B!BleWorks, Runs(queue, w)
    PROVE  /\ Tail(queue) \in Seq(Works)
           /\ Runs(Only(queue, B!BleWorks), w)
           /\ Only(Tail(queue), B!BleWorks) = Tail(Only(queue, B!BleWorks))
           /\ Only(Tail(queue), I!IdleWorks) = Only(queue, I!IdleWorks)
  <1>1. w \notin I!IdleWorks
    BY DEF I!IdleWorks, B!BleWorks
  <1> QED
    BY <1>1, OnlyTaken, RunsType DEF QueueOK

\* The interrupt strikes during a work of the power states, or does not.
LEMMA InterruptedOnly ==
    ASSUME QueueOK, NEW w \in I!IdleWorks, Runs(queue, w), NEW irq \in BOOLEAN
    PROVE  /\ I!Interrupted(irq) \in Seq(Works)
           /\ Only(I!Interrupted(irq), I!IdleWorks) = Power!Interrupted(irq)
           /\ Only(I!Interrupted(irq), B!BleWorks) = Only(queue, B!BleWorks)
  <1> DEFINE t == Tail(queue)
  <1>1. /\ t \in Seq(Works)
        /\ Only(t, I!IdleWorks) = Tail(Only(queue, I!IdleWorks))
        /\ Only(t, B!BleWorks) = Only(queue, B!BleWorks)
    BY IdleTaken
  <1>2. I!Interrupted(irq) = IF irq THEN Submit(t, "idle_leave") ELSE t
    BY SameSubmit DEF I!Interrupted
  <1>3. Power!Interrupted(irq) = IF irq THEN Submit(Only(t, I!IdleWorks), "idle_leave")
                                 ELSE Only(t, I!IdleWorks)
    BY <1>1, SameSubmit DEF Power!Interrupted
  <1>4. "idle_leave" \in I!IdleWorks
    BY DEF I!IdleWorks
  <1> HIDE DEF t
  <1> QED
    BY <1>1, <1>2, <1>3, <1>4, IdleSubmit

\* The calls of ble.c, with whatever of the power states waits between
\* its works.
LEMMA CallsOnly ==
    ASSUME NEW q \in Seq(Works), NEW w \in B!BleWorks
    PROVE  /\ B!DisconnectThen(q, w) \in Seq(Works)
           /\ Only(B!DisconnectThen(q, w), I!IdleWorks) = Only(q, I!IdleWorks)
           /\ Only(B!DisconnectThen(q, w), B!BleWorks)
                 = Connection!DisconnectThen(Only(q, B!BleWorks), w)
  <1> DEFINE r == Submit(q, "disconnect")
  <1>1. "disconnect" \in B!BleWorks
    BY DEF B!BleWorks
  <1>2. /\ r \in Seq(Works)
        /\ Only(r, I!IdleWorks) = Only(q, I!IdleWorks)
        /\ Only(r, B!BleWorks) = Submit(Only(q, B!BleWorks), "disconnect")
    BY <1>1, BleSubmit
  <1>3. Contains(Only(q, B!BleWorks), w) <=> Contains(q, w)
    BY OnlyContains
  <1>4. B!DisconnectThen(q, w) = IF Contains(q, w) THEN q ELSE Submit(r, w)
    BY SameSubmit, SameContains DEF B!DisconnectThen
  <1>5. Connection!DisconnectThen(Only(q, B!BleWorks), w)
           = IF Contains(q, w) THEN Only(q, B!BleWorks) ELSE Submit(Only(r, B!BleWorks), w)
    BY <1>2, <1>3, SameSubmit, SameContains DEF Connection!DisconnectThen
  <1> HIDE DEF r
  <1>6. /\ Submit(r, w) \in Seq(Works)
        /\ Only(Submit(r, w), I!IdleWorks) = Only(r, I!IdleWorks)
        /\ Only(Submit(r, w), B!BleWorks) = Submit(Only(r, B!BleWorks), w)
    BY <1>2, BleSubmit
  <1> QED
    BY <1>2, <1>4, <1>5, <1>6

LEMMA ConnectOnly ==
    ASSUME NEW q \in Seq(Works), NEW p
    PROVE  /\ B!ConnectQueue(p, q) \in Seq(Works)
           /\ Only(B!ConnectQueue(p, q), I!IdleWorks) = Only(q, I!IdleWorks)
           /\ Only(B!ConnectQueue(p, q), B!BleWorks)
                 = Connection!ConnectQueue(p, Only(q, B!BleWorks))
  <1>1. "directed_adv" \in B!BleWorks
    BY DEF B!BleWorks
  <1> QED
    BY <1>1, CallsOnly DEF B!ConnectQueue, Connection!ConnectQueue

LEMMA PairOnly ==
    ASSUME NEW q \in Seq(Works)
    PROVE  /\ B!PairQueue(q) \in Seq(Works)
           /\ Only(B!PairQueue(q), I!IdleWorks) = Only(q, I!IdleWorks)
           /\ Only(B!PairQueue(q), B!BleWorks) = Connection!PairQueue(Only(q, B!BleWorks))
  <1>1. "pairing_adv" \in B!BleWorks
    BY DEF B!BleWorks
  <1> QED
    BY <1>1, CallsOnly DEF B!PairQueue, Connection!PairQueue

LEMMA DisconnectOnly ==
    ASSUME NEW q \in Seq(Works)
    PROVE  /\ B!DisconnectQueue(q) \in Seq(Works)
           /\ Only(B!DisconnectQueue(q), I!IdleWorks) = Only(q, I!IdleWorks)
           /\ Only(B!DisconnectQueue(q), B!BleWorks)
                 = Connection!DisconnectQueue(Only(q, B!BleWorks))
  <1>1. "disconnect" \in B!BleWorks
    BY DEF B!BleWorks
  <1> QED
    BY <1>1, BleSubmit, SameSubmit DEF B!DisconnectQueue, Connection!DisconnectQueue

\* quazi_idle_enter, called from a callback of ble.c.
LEMMA IdleEnterOnly ==
    ASSUME NEW q \in Seq(Works)
    PROVE  /\ IdleEnter(q) \in Seq(Works)
           /\ Only(IdleEnter(q), I!IdleWorks)
                 = Power!IdleEnterQueue(Power!IDLE_DISCONN, Only(q, I!IdleWorks))
           /\ Only(IdleEnter(q), B!BleWorks) = Only(q, B!BleWorks)
  <1>1. "enter_idle" \in I!IdleWorks
    BY DEF I!IdleWorks
  <1> QED
    BY <1>1, IdleSubmit, SameSubmit
       DEF IdleEnter, I!IdleEnterQueue, Power!IdleEnterQueue, I!IDLE_DISCONN, Power!IDLE_DISCONN

\* connected and connection failures cancel stop_adv_work.
LEMMA StopCancelledOnly ==
    ASSUME QueueOK
    PROVE  /\ B!StopCancelled \in Seq(Works)
           /\ Only(B!StopCancelled, I!IdleWorks) = Only(queue, I!IdleWorks)
           /\ Only(B!StopCancelled, B!BleWorks) = Connection!StopCancelled
  <1>1. "stop_adv" \in Works /\ "stop_adv" \in B!BleWorks /\ "stop_adv" \notin I!IdleWorks
    BY DEF Works, B!BleWorks, I!IdleWorks
  <1> QED
    BY <1>1, CancelType, OnlyCancel, SameCancel
       DEF QueueOK, B!StopCancelled, Connection!StopCancelled

-----------------------------------------------------------------------------
(* The steps, seen by Idle *)

\* A step of Idle, or one that leaves its variables alone; the same of Ble.
PowerStep == [Power!Next]_(Power!vars)
BleStep == [Connection!Next]_(Connection!vars)

\* A step on the side of ble.c starts or ends its activity, or Idle does
\* not see it.
LEMMA PowerKept ==
    ASSUME UNCHANGED idleSide, work_pc' = "check" <=> work_pc = "check",
           Only(queue', I!IdleWorks) = Only(queue, I!IdleWorks)
    PROVE  PowerStep
  <1>1. /\ UNCHANGED <<Power!idleVars, Power!scanVars, Power!mainVars, boot, held>>
        /\ Only(queue, I!IdleWorks)' = Only(queue, I!IdleWorks)
    BY DEF idleSide, Power!idleVars, Power!scanVars, Power!mainVars
  <1>2. CASE ble_active' = ble_active
    BY <1>1, <1>2 DEF PowerStep, Power!vars
  <1>3. CASE ble_active' # ble_active
    <2>1. ble_active' = ~ble_active
      BY <1>3 DEF ble_active, B!QuaziBleIsActive
    <2> QED
      BY <1>1, <2>1 DEF PowerStep, Power!Next, Power!BleChange
  <1> QED
    BY <1>2, <1>3

\* quazi_main_task, whatever its key event asks of ble.c.
LEMMA PowerMainTask ==
    ASSUME QueueOK, NEW irq \in BOOLEAN, NEW after, I!MainTask(irq, after),
           Only(after, I!IdleWorks) = Power!Interrupted(irq),
           ble_active' = ble_active
    PROVE  PowerStep
  <1>1. Power!Take("main")
    <2>1. Runs(queue, "main") /\ work_pc = "idle" /\ ~I!IrqPending
      BY SameRuns DEF I!MainTask, I!Take
    <2>2. Runs(Only(queue, I!IdleWorks), "main")
      BY <2>1, IdleTaken DEF I!IdleWorks
    <2> QED
      BY <2>1, <2>2, SameRuns, SameMatrix DEF Power!Take
  <1>2. \E seen \in SUBSET Power!Keys :
          /\ Power!ScanFound(seen, irq)
          /\ matrix_prev' = Power!Processed(seen)
          /\ key_down' = (seen # {})
          /\ IF irq THEN Power!ReleaseMatrix ELSE rows_driven' = {} /\ UNCHANGED cols_irq
    BY SameScan, SameMatrix DEF I!MainTask
  <1>3. /\ Only(queue, I!IdleWorks)' = Power!Interrupted(irq)
        /\ work_pc' = "check"
        /\ late_scan' = (~main_timer /\ ~irq)
        /\ UNCHANGED <<Power!idleVars, boot, held>>
    BY DEF I!MainTask, I!idleVars, Power!idleVars
  <1>4. Power!MainTask(irq, Power!Interrupted(irq))
    BY <1>1, <1>2, <1>3 DEF Power!MainTask
  <1> QED
    BY <1>4 DEF PowerStep, Power!Next, Power!WorkStep, Power!WorkThread

\* enter_idle.
LEMMA PowerEnterIdle ==
    ASSUME QueueOK, EnterIdle
    PROVE  PowerStep
  <1>1. PICK struck \in BOOLEAN : I!EnterIdle(struck, B!DisconnectQueue(I!Interrupted(struck)))
    BY DEF EnterIdle
  <1>2. Runs(queue, "enter_idle") /\ work_pc = "idle" /\ ~I!IrqPending
    BY <1>1, SameRuns DEF I!EnterIdle, I!Take
  <1>3. "enter_idle" \in I!IdleWorks
    BY DEF I!IdleWorks
  <1>4. Power!Take("enter_idle")
    BY <1>2, <1>3, IdleTaken, SameRuns, SameMatrix DEF Power!Take
  <1>5. Only(queue', I!IdleWorks) = Power!Interrupted(struck)
    <2>1. /\ I!Interrupted(struck) \in Seq(Works)
          /\ Only(I!Interrupted(struck), I!IdleWorks) = Power!Interrupted(struck)
      BY <1>2, <1>3, InterruptedOnly
    <2>2. Only(B!DisconnectQueue(I!Interrupted(struck)), I!IdleWorks)
             = Only(I!Interrupted(struck), I!IdleWorks)
      BY <2>1, DisconnectOnly
    <2> QED
      BY <1>1, <2>1, <2>2 DEF I!EnterIdle
  <1>6. /\ current_idle_level' = next_idle_level
        /\ IF Power!StopsLoop(next_idle_level)
           THEN main_timer' = FALSE /\ Power!ArmMatrix(struck) /\ late_scan' = FALSE
           ELSE struck = FALSE /\ UNCHANGED <<main_timer, Power!scanVars>>
    BY <1>1, SameMatrix DEF I!EnterIdle, I!scanVars, Power!scanVars
  <1>7. IF next_idle_level = Power!IDLE_MATRIX
        THEN next_idle_level' = Power!IDLE_DISCONN /\ enter_idle_delay' = DisconnTicks
        ELSE UNCHANGED <<next_idle_level, enter_idle_delay>>
    BY <1>1 DEF I!EnterIdle, I!IDLE_MATRIX, I!IDLE_DISCONN, Power!IDLE_MATRIX,
                Power!IDLE_DISCONN
  <1>8. UNCHANGED <<Power!mainVars, boot, held>>
    BY <1>1 DEF I!EnterIdle, I!mainVars, Power!mainVars
  <1>9. Power!EnterIdle(struck, Power!Interrupted(struck))
    BY <1>4, <1>5, <1>6, <1>7, <1>8 DEF Power!EnterIdle
  <1>10. ble_active' = ble_active
    BY DEF EnterIdle, bleSide, linkVars, ble_active, B!QuaziBleIsActive
  <1> QED
    BY <1>9, <1>10 DEF PowerStep, Power!Next, Power!WorkStep, Power!WorkThread

\* leave_idle.
LEMMA PowerLeaveIdle ==
    ASSUME QueueOK, LeaveIdle
    PROVE  PowerStep
  <1>1. I!LeaveIdle(B!ConnectQueue(selected_profile, Tail(queue)))
    BY DEF LeaveIdle
  <1>2. Runs(queue, "leave_idle") /\ work_pc = "idle" /\ ~I!IrqPending
    BY <1>1, SameRuns DEF I!LeaveIdle, I!Take
  <1>3. /\ Tail(queue) \in Seq(Works)
        /\ Runs(Only(queue, I!IdleWorks), "leave_idle")
        /\ Only(Tail(queue), I!IdleWorks) = Tail(Only(queue, I!IdleWorks))
    BY <1>2, IdleTaken DEF I!IdleWorks
  <1>4. Power!Take("leave_idle")
    BY <1>2, <1>3, SameRuns, SameMatrix DEF Power!Take
  <1>5. Only(queue', I!IdleWorks) = Tail(Only(queue, I!IdleWorks))
    <2>1. Only(B!ConnectQueue(selected_profile, Tail(queue)), I!IdleWorks)
             = Only(Tail(queue), I!IdleWorks)
      BY <1>3, ConnectOnly
    <2> QED
      BY <1>1, <1>3, <2>1 DEF I!LeaveIdle
  <1>6. /\ current_idle_level' = Power!IDLE_NONE
        /\ main_timer' = (main_timer \/ Power!RestartsLoop)
        /\ UNCHANGED <<next_idle_level, enter_idle_delay, Power!scanVars, Power!mainVars,
                       boot, held>>
    BY <1>1, SameMatrix DEF I!LeaveIdle, I!IDLE_NONE, Power!IDLE_NONE, I!scanVars,
                            Power!scanVars, I!mainVars, Power!mainVars
  <1>7. Power!LeaveIdle(Tail(Only(queue, I!IdleWorks)))
    BY <1>4, <1>5, <1>6 DEF Power!LeaveIdle
  <1>8. ble_active' = ble_active
    BY DEF LeaveIdle, linkVars, ble_active, B!QuaziBleIsActive
  <1> QED
    BY <1>7, <1>8 DEF PowerStep, Power!Next, Power!WorkStep, Power!WorkThread

\* quazi_idle_check, and idle_leave.
LEMMA PowerIdleWork ==
    ASSUME QueueOK, IdleWork
    PROVE  PowerStep
  <1>1. ble_active' = ble_active
    BY DEF IdleWork, bleSide, linkVars, ble_active, B!QuaziBleIsActive
  <1>2. CASE I!IdleCheck
    <2>1. work_pc = "check" /\ ~Power!IrqPending /\ work_pc' = "idle"
      BY <1>2, SameMatrix DEF I!IdleCheck
    <2>2. /\ Only(Submit(queue, "leave_idle"), I!IdleWorks)
                = Submit(Only(queue, I!IdleWorks), "leave_idle")
          /\ Only(Submit(queue, "enter_idle"), I!IdleWorks)
                = Submit(Only(queue, I!IdleWorks), "enter_idle")
      BY IdleSubmit DEF QueueOK, I!IdleWorks
    <2>3. \/ /\ key_down
             /\ Only(queue', I!IdleWorks) = IF current_idle_level # Power!IDLE_NONE
                         THEN Power!Submit(Only(queue, I!IdleWorks), "leave_idle")
                         ELSE Only(queue, I!IdleWorks)
             /\ next_idle_level' = Power!IDLE_MATRIX
             /\ enter_idle_delay' = IdleTicks
          \/ /\ ~key_down /\ ~ble_active
             /\ next_idle_level' = Power!IDLE_DISCONN
             /\ enter_idle_delay' = 0
             /\ Only(queue', I!IdleWorks) = Power!Submit(Only(queue, I!IdleWorks), "enter_idle")
          \/ /\ ~key_down /\ ble_active
             /\ UNCHANGED <<Only(queue, I!IdleWorks), next_idle_level, enter_idle_delay>>
      BY <1>2, <2>2, SameSubmit DEF I!IdleCheck, I!IDLE_NONE, I!IDLE_MATRIX, I!IDLE_DISCONN,
         Power!IDLE_NONE, Power!IDLE_MATRIX, Power!IDLE_DISCONN
    <2>4. UNCHANGED <<main_timer, current_idle_level, Power!scanVars, matrix_prev, key_down,
                      boot, held>>
      BY <1>2 DEF I!IdleCheck, I!scanVars, Power!scanVars
    <2>5. Power!IdleCheck
      BY <2>1, <2>3, <2>4 DEF Power!IdleCheck
    <2> QED
      BY <1>1, <2>5 DEF PowerStep, Power!Next, Power!WorkStep, Power!WorkThread
  <1>3. CASE I!IdleLeave
    <2>1. Runs(queue, "idle_leave") /\ work_pc = "idle" /\ ~I!IrqPending
      BY <1>3, SameRuns DEF I!IdleLeave, I!Take
    <2>2. /\ Tail(queue) \in Seq(Works)
          /\ Runs(Only(queue, I!IdleWorks), "idle_leave")
          /\ Only(Tail(queue), I!IdleWorks) = Tail(Only(queue, I!IdleWorks))
      BY <2>1, IdleTaken DEF I!IdleWorks
    <2>3. Only(queue', I!IdleWorks) = Power!Submit(Tail(Only(queue, I!IdleWorks)), "leave_idle")
      <3>1. Only(Submit(Tail(queue), "leave_idle"), I!IdleWorks)
               = Submit(Only(Tail(queue), I!IdleWorks), "leave_idle")
        BY <2>2, IdleSubmit DEF I!IdleWorks
      <3> QED
        BY <1>3, <2>2, <3>1, SameSubmit DEF I!IdleLeave
    <2>4. UNCHANGED <<Power!idleVars, Power!scanVars, Power!mainVars, boot, held>>
      BY <1>3 DEF I!IdleLeave, I!idleVars, I!scanVars, I!mainVars, Power!idleVars,
                  Power!scanVars, Power!mainVars
    <2>5. Power!IdleLeave
      BY <2>1, <2>2, <2>3, <2>4, SameRuns, SameMatrix DEF Power!IdleLeave, Power!Take
    <2> QED
      BY <1>1, <2>5 DEF PowerStep, Power!Next, Power!WorkStep, Power!WorkThread
  <1> QED
    BY <1>2, <1>3 DEF IdleWork

\* The works of ble.c, its timeout, ...
LEMMA PowerBleWork ==
    ASSUME QueueOK, BleWork
    PROVE  PowerStep
  <1>1. B!WorkThread /\ UNCHANGED idleSide
    BY DEF BleWork
  <1>2. ASSUME NEW w \in B!BleWorks, B!Take(w), queue' = Tail(queue)
        PROVE  Only(queue', I!IdleWorks) = Only(queue, I!IdleWorks)
    BY <1>2, BleTaken, SameRuns DEF B!Take
  <1>3. Only(queue', I!IdleWorks) = Only(queue, I!IdleWorks)
    BY <1>1, <1>2 DEF B!WorkThread, B!StartDirectedAdv, B!StartPairingAdv, B!AdvStarted,
       B!Disconnect, B!UnpairWork, B!StopAdv, B!BleWorks
  <1>4. work_pc # "check" /\ work_pc' # "check"
    BY <1>1 DEF B!WorkThread, B!StartDirectedAdv, B!StartPairingAdv, B!AdvStarted,
       B!Disconnect, B!UnpairWork, B!StopAdv, B!Take, B!Blocked
  <1> QED
    BY <1>1, <1>3, <1>4, PowerKept

LEMMA PowerBleTick ==
    ASSUME QueueOK, BleTick
    PROVE  PowerStep
  <1>1. "stop_adv" \in B!BleWorks
    BY DEF B!BleWorks
  <1>2. Only(queue', I!IdleWorks) = Only(queue, I!IdleWorks)
    BY <1>1, BleSubmit, SameSubmit DEF BleTick, B!Tick, QueueOK
  <1>3. UNCHANGED <<idleSide, work_pc>>
    BY DEF BleTick, B!Tick
  <1> QED
    BY <1>2, <1>3, PowerKept

\* ... and the callbacks that do not ask for a level.
LEMMA PowerOtherCallback ==
    ASSUME QueueOK, OtherCallback
    PROVE  PowerStep
  <1>1. UNCHANGED <<idleSide, work_pc>> /\ queue' \in {queue, B!StopCancelled}
    BY DEF OtherCallback, B!Connected, B!SecurityChanged, B!SecurityFailed, B!PairingComplete
  <1>2. Only(queue', I!IdleWorks) = Only(queue, I!IdleWorks)
    BY <1>1, StopCancelledOnly
  <1> QED
    BY <1>1, <1>2, PowerKept

\* The callbacks that ask for IDLE_DISCONN.
LEMMA PowerGone ==
    ASSUME QueueOK, ~I!IrqPending, I!IdleEnterSets(I!IDLE_DISCONN), UNCHANGED work_pc,
           Only(queue', I!IdleWorks) = Only(IdleEnter(queue), I!IdleWorks)
    PROVE  PowerStep
  <1>1. Only(queue, I!IdleWorks)'
           = Power!IdleEnterQueue(Power!IDLE_DISCONN, Only(queue, I!IdleWorks))
    BY IdleEnterOnly DEF QueueOK
  <1>2. Power!IdleEnterSets(Power!IDLE_DISCONN)
    BY DEF I!IdleEnterSets, Power!IdleEnterSets, I!IDLE_DISCONN, Power!IDLE_DISCONN,
           I!scanVars, Power!scanVars
  <1>3. ble_active' \in BOOLEAN
    BY DEF ble_active, B!QuaziBleIsActive
  <1>4. Power!BleGone
    BY <1>1, <1>2, <1>3, SameMatrix DEF Power!BleGone
  <1> QED
    BY <1>4 DEF PowerStep, Power!Next

LEMMA PowerCallback ==
    ASSUME QueueOK, Callback
    PROVE  PowerStep
  <1>1. CASE ConnectFailed
    <2>1. /\ queue' = IdleEnter(B!StopCancelled) /\ UNCHANGED work_pc
          /\ I!IdleEnterSets(I!IDLE_DISCONN)
      BY <1>1 DEF ConnectFailed, B!ConnectFailed
    <2>2. Only(queue', I!IdleWorks) = Only(IdleEnter(queue), I!IdleWorks)
      BY <2>1, StopCancelledOnly, IdleEnterOnly DEF QueueOK
    <2> QED
      BY <2>1, <2>2, PowerGone DEF Callback
  <1>2. ASSUME NEW c \in Conns, NEW timeout \in BOOLEAN, Disconnected(c, timeout)
        PROVE  PowerStep
    <2>1. UNCHANGED work_pc /\ B!Disconnected(c, timeout, IdleEnter(queue))
      BY <1>2 DEF Disconnected, B!Disconnected
    <2>2. CASE quazi_ble_conn = c /\ ~timeout
      <3>1. queue' = IdleEnter(queue) /\ I!IdleEnterSets(I!IDLE_DISCONN)
        BY <1>2, <2>1, <2>2 DEF Disconnected, B!Disconnected, B!IsCurrent
      <3> QED
        BY <2>1, <3>1, PowerGone DEF Callback
    <2>3. CASE ~(quazi_ble_conn = c /\ ~timeout)
      <3>1. UNCHANGED idleSide /\ queue' \in {queue, Submit(queue, "directed_adv")}
        BY <1>2, <2>1, <2>3, SameSubmit DEF Disconnected, B!Disconnected, B!IsCurrent
      <3>2. "directed_adv" \in B!BleWorks
        BY DEF B!BleWorks
      <3>3. Only(queue', I!IdleWorks) = Only(queue, I!IdleWorks)
        BY <3>1, <3>2, BleSubmit DEF QueueOK
      <3> QED
        BY <2>1, <3>1, <3>3, PowerKept
    <2> QED
      BY <2>2, <2>3
  <1> QED
    BY <1>1, <1>2, PowerOtherCallback DEF Callback

\* Boot, interrupt, time and fingers are those of Idle.
LEMMA PowerBoot ==
    ASSUME QueueOK, Boot
    PROVE  PowerStep
  <1>1. Power!BootDone
    BY SameMatrix DEF Boot, I!BootDone, Power!BootDone, I!booted, Power!booted, I!scanVars,
       I!mainVars, Power!scanVars, Power!mainVars
  <1>2. ble_active' = ble_active
    BY DEF Boot, bleSide, linkVars, ble_active, B!QuaziBleIsActive
  <1> QED
    BY <1>1, <1>2 DEF PowerStep, Power!Next, Power!BootStep

LEMMA PowerIrq ==
    ASSUME QueueOK, GpioIrq
    PROVE  PowerStep
  <1>1. Only(queue', I!IdleWorks) = Power!Submit(Only(queue, I!IdleWorks), "idle_leave")
    BY IdleSubmit, SameSubmit DEF GpioIrq, I!GpioIrq, QueueOK, I!IdleWorks
  <1>2. /\ Power!IrqPending /\ Power!ReleaseMatrix
        /\ UNCHANGED <<Power!idleVars, late_scan, Power!mainVars, boot, held>>
    BY SameMatrix DEF GpioIrq, I!GpioIrq, I!idleVars, I!mainVars, Power!idleVars,
       Power!mainVars
  <1>3. Power!GpioIrq
    BY <1>1, <1>2 DEF Power!GpioIrq
  <1>4. ble_active' = ble_active
    BY DEF GpioIrq, bleSide, linkVars, ble_active, B!QuaziBleIsActive
  <1> QED
    BY <1>3, <1>4 DEF PowerStep, Power!Next, Power!IrqStep

LEMMA PowerTick ==
    ASSUME QueueOK, IdleTick
    PROVE  PowerStep
  <1> DEFINE mine == Only(queue, I!IdleWorks)
             main(q) == IF main_timer /\ boot # "enable" THEN Submit(q, "main") ELSE q
             enter(q) == Submit(q, "enter_idle")
             before == enter(main(queue))
             behind == main(enter(queue))
  <1>1. I!Tick
    BY DEF IdleTick
  <1>2. IF enter_idle_delay = 1
        THEN \/ queue' = before
             \/ queue' = enter(queue)
             \/ ~PromptQueue /\ queue' = behind
        ELSE queue' = main(queue)
    BY <1>1, SameSubmit DEF I!Tick, I!booted
  <1>3. ASSUME NEW q \in Seq(Works)
        PROVE  /\ main(q) \in Seq(Works) /\ Only(main(q), I!IdleWorks) = main(Only(q, I!IdleWorks))
               /\ enter(q) \in Seq(Works)
               /\ Only(enter(q), I!IdleWorks) = enter(Only(q, I!IdleWorks))
    <2>1. "main" \in I!IdleWorks /\ "enter_idle" \in I!IdleWorks
      BY DEF I!IdleWorks
    <2> QED
      BY <2>1, IdleSubmit
  <1>4. queue \in Seq(Works)
    BY DEF QueueOK
  <1> HIDE DEF main, enter
  <1>5. Only(before, I!IdleWorks) = enter(main(mine)) /\ Only(behind, I!IdleWorks) = main(enter(mine))
    BY <1>3, <1>4
  <1>6. IF enter_idle_delay = 1
        THEN \/ Only(queue', I!IdleWorks) = enter(main(mine))
             \/ Only(queue', I!IdleWorks) = enter(mine)
             \/ ~PromptQueue /\ Only(queue', I!IdleWorks) = main(enter(mine))
        ELSE Only(queue', I!IdleWorks) = main(mine)
    BY <1>2, <1>3, <1>4, <1>5
  <1>7. PromptQueue => work_pc = "idle" /\ mine = <<>> /\ ~Power!IrqPending
    BY <1>1, SameMatrix, OnlyEmpty DEF I!Tick
  <1>8. /\ main_timer \/ enter_idle_delay > 0
        /\ enter_idle_delay' = IF enter_idle_delay > 0 THEN enter_idle_delay - 1 ELSE 0
        /\ UNCHANGED <<main_timer, current_idle_level, next_idle_level, Power!scanVars,
                       Power!mainVars, boot, held>>
    BY <1>1 DEF I!Tick, I!scanVars, I!mainVars, Power!scanVars, Power!mainVars
  <1>9. Power!Tick
    BY <1>6, <1>7, <1>8, SameSubmit DEF Power!Tick, Power!booted, main, enter
  <1>10. ble_active' = ble_active
    BY DEF IdleTick, bleSide, linkVars, ble_active, B!QuaziBleIsActive
  <1> QED
    BY <1>9, <1>10 DEF PowerStep, Power!Next, Power!TickStep

LEMMA PowerKey ==
    ASSUME NEW k \in I!Keys, PressKey(k) \/ ReleaseKey(k)
    PROVE  PowerStep
  <1>1. Power!PressKey(k) \/ Power!ReleaseKey(k)
    BY SameMatrix DEF PressKey, ReleaseKey, I!PressKey, I!ReleaseKey, Power!PressKey,
       Power!ReleaseKey, I!idleVars, I!scanVars, I!mainVars, Power!idleVars, Power!scanVars,
       Power!mainVars
  <1>2. ble_active' = ble_active
    BY DEF PressKey, ReleaseKey, bleSide, linkVars, ble_active, B!QuaziBleIsActive
  <1>3. k \in Power!Keys
    BY SameScan
  <1> QED
    BY <1>1, <1>2, <1>3 DEF PowerStep, Power!Next, Power!KeyStep

-----------------------------------------------------------------------------
(* The steps, seen by Ble *)

\* The work that Ble sees running.
BlePc == IF work_pc = "check" THEN "idle" ELSE work_pc

\* A step on the side of idle.c that asks nothing of ble.c.
LEMMA BleKept ==
    ASSUME UNCHANGED <<bleSide, BlePc>>, Only(queue', B!BleWorks) = Only(queue, B!BleWorks)
    PROVE  BleStep
  <1>1. /\ UNCHANGED <<Connection!connVars, Connection!idVars, Connection!advVars, link, bonds>>
        /\ Only(queue, B!BleWorks)' = Only(queue, B!BleWorks)
    BY DEF bleSide, idVars, linkVars, Connection!connVars, Connection!idVars,
           Connection!advVars
  <1> QED
    BY <1>1 DEF BleStep, Connection!vars, BlePc

\* A call of ble.c from a work of the power states.
LEMMA BleCall ==
    ASSUME work_pc = "idle", BlePc' = "idle", UNCHANGED linkVars
    PROVE  Connection!Call
  BY DEF Connection!Call, Connection!NoCallVars, Connection!connVars, Connection!advVars,
         linkVars, BlePc

\* quazi_main_task: the key events.
LEMMA BleMainTask ==
    ASSUME QueueOK, NEW irq \in BOOLEAN, NEW after, I!MainTask(irq, after)
    PROVE  /\ work_pc = "idle" /\ BlePc' = "idle" /\ queue' = after
           /\ I!Interrupted(irq) \in Seq(Works)
           /\ Only(I!Interrupted(irq), B!BleWorks) = Only(queue, B!BleWorks)
  <1>1. work_pc = "idle" /\ work_pc' = "check" /\ queue' = after /\ Runs(queue, "main")
    BY SameRuns DEF I!MainTask, I!Take
  <1>2. "main" \in I!IdleWorks
    BY DEF I!IdleWorks
  <1> QED
    BY <1>1, <1>2, InterruptedOnly DEF BlePc

LEMMA BleKeyEvent ==
    ASSUME QueueOK, MainTask \/ \E p \in Profiles : MainTaskTap(p) \/ MainTaskHold(p)
    PROVE  BleStep
  <1>1. CASE MainTask
    <2>1. PICK irq \in BOOLEAN : I!MainTask(irq, I!Interrupted(irq))
      BY <1>1 DEF MainTask
    <2>2. Only(queue', B!BleWorks) = Only(queue, B!BleWorks) /\ BlePc' = BlePc
      BY <2>1, BleMainTask DEF BlePc
    <2> QED
      BY <1>1, <2>2, BleKept DEF MainTask
  <1>2. ASSUME NEW p \in Profiles, MainTaskTap(p) PROVE BleStep
    <2>1. PICK irq \in BOOLEAN : I!MainTask(irq, B!ConnectQueue(p, I!Interrupted(irq)))
      BY <1>2 DEF MainTaskTap
    <2>2. Only(queue, B!BleWorks)' = Connection!ConnectQueue(p, Only(queue, B!BleWorks))
      BY <2>1, BleMainTask, ConnectOnly
    <2>3. Connection!Call
      BY <1>2, <2>1, BleMainTask, BleCall DEF MainTaskTap
    <2>4. selected_profile' = p /\ Connection!SetConnectId(p)
      BY <1>2 DEF MainTaskTap, B!SetConnectId, Connection!SetConnectId
    <2>5. Connection!TapProfile(p)
      BY <2>2, <2>3, <2>4 DEF Connection!TapProfile
    <2> QED
      BY <2>5 DEF BleStep, Connection!Next, Connection!Calls
  <1>3. ASSUME NEW p \in Profiles, MainTaskHold(p) PROVE BleStep
    <2>1. PICK irq \in BOOLEAN : I!MainTask(irq, B!PairQueue(I!Interrupted(irq)))
      BY <1>3 DEF MainTaskHold
    <2>2. Only(queue, B!BleWorks)' = Connection!PairQueue(Only(queue, B!BleWorks))
      BY <2>1, BleMainTask, PairOnly
    <2>3. Connection!Call
      BY <1>3, <2>1, BleMainTask, BleCall DEF MainTaskHold
    <2>4. selected_profile' = p /\ Connection!SetPairId(p)
      BY <1>3 DEF MainTaskHold, B!SetPairId, Connection!SetPairId
    <2>5. Connection!HoldProfile(p)
      BY <2>2, <2>3, <2>4 DEF Connection!HoldProfile
    <2> QED
      BY <2>5 DEF BleStep, Connection!Next, Connection!Calls
  <1> QED
    BY <1>1, <1>2, <1>3

\* enter_idle disconnects at IDLE_DISCONN.
LEMMA BleEnterIdle ==
    ASSUME QueueOK, EnterIdle
    PROVE  BleStep
  <1>1. PICK struck \in BOOLEAN : I!EnterIdle(struck, B!DisconnectQueue(I!Interrupted(struck)))
    BY DEF EnterIdle
  <1>2. Runs(queue, "enter_idle") /\ work_pc = "idle" /\ work_pc' = "idle"
    BY <1>1, SameRuns DEF I!EnterIdle, I!Take, I!mainVars
  <1>3. /\ I!Interrupted(struck) \in Seq(Works)
        /\ Only(I!Interrupted(struck), B!BleWorks) = Only(queue, B!BleWorks)
    BY <1>2, InterruptedOnly DEF I!IdleWorks
  <1>4. CASE next_idle_level >= I!IDLE_DISCONN
    <2>1. Only(queue, B!BleWorks)' = Connection!DisconnectQueue(Only(queue, B!BleWorks))
      BY <1>1, <1>3, <1>4, DisconnectOnly DEF I!EnterIdle
    <2>2. UNCHANGED <<Connection!idVars, linkVars>>
      BY DEF EnterIdle, bleSide, idVars, Connection!idVars
    <2>3. Connection!ProfileEnterIdle
      BY <1>2, <2>1, <2>2, BleCall DEF Connection!ProfileEnterIdle, BlePc
    <2> QED
      BY <2>3 DEF BleStep, Connection!Next, Connection!Calls
  <1>5. CASE ~(next_idle_level >= I!IDLE_DISCONN)
    <2>1. queue' = I!Interrupted(struck)
      BY <1>1, <1>5 DEF I!EnterIdle
    <2> QED
      BY <1>2, <1>3, <2>1, BleKept DEF EnterIdle, BlePc
  <1> QED
    BY <1>4, <1>5

\* leave_idle reconnects from IDLE_DISCONN on.
LEMMA BleLeaveIdle ==
    ASSUME QueueOK, LeaveIdle
    PROVE  BleStep
  <1>1. I!LeaveIdle(B!ConnectQueue(selected_profile, Tail(queue)))
    BY DEF LeaveIdle
  <1>2. Runs(queue, "leave_idle") /\ work_pc = "idle" /\ work_pc' = "idle"
    BY <1>1, SameRuns DEF I!LeaveIdle, I!Take, I!mainVars
  <1>3. Tail(queue) \in Seq(Works) /\ Only(Tail(queue), B!BleWorks) = Only(queue, B!BleWorks)
    BY <1>2, IdleTaken DEF I!IdleWorks
  <1>4. CASE current_idle_level >= I!IDLE_DISCONN
    <2>1. Only(queue, B!BleWorks)'
             = Connection!ConnectQueue(selected_profile, Only(queue, B!BleWorks))
      BY <1>1, <1>3, <1>4, ConnectOnly DEF I!LeaveIdle
    <2>2. UNCHANGED <<selected_profile, linkVars>> /\ Connection!SetConnectId(selected_profile)
      BY <1>4 DEF LeaveIdle, B!SetConnectId, Connection!SetConnectId
    <2>3. Connection!ProfileLeaveIdle
      BY <1>2, <2>1, <2>2, BleCall DEF Connection!ProfileLeaveIdle, BlePc
    <2> QED
      BY <2>3 DEF BleStep, Connection!Next, Connection!Calls
  <1>5. CASE ~(current_idle_level >= I!IDLE_DISCONN)
    <2>1. queue' = Tail(queue)
      BY <1>1, <1>5 DEF I!LeaveIdle
    <2>2. UNCHANGED bleSide
      BY <1>5 DEF LeaveIdle, bleSide, idVars
    <2> QED
      BY <1>2, <1>3, <2>1, <2>2, BleKept DEF BlePc
  <1> QED
    BY <1>4, <1>5

\* quazi_idle_check and idle_leave ask nothing of ble.c, ...
LEMMA BleIdleWork ==
    ASSUME QueueOK, IdleWork
    PROVE  BleStep
  <1>1. CASE I!IdleCheck
    <2>1. queue' \in {queue, Submit(queue, "leave_idle"), Submit(queue, "enter_idle")}
      BY <1>1, SameSubmit DEF I!IdleCheck
    <2>2. Only(queue', B!BleWorks) = Only(queue, B!BleWorks)
      BY <2>1, IdleSubmit DEF QueueOK, I!IdleWorks
    <2>3. BlePc' = BlePc
      BY <1>1 DEF I!IdleCheck, BlePc
    <2> QED
      BY <2>2, <2>3, BleKept DEF IdleWork
  <1>2. CASE I!IdleLeave
    <2>1. Runs(queue, "idle_leave") /\ queue' = Submit(Tail(queue), "leave_idle")
      BY <1>2, SameRuns, SameSubmit DEF I!IdleLeave, I!Take
    <2>2. Tail(queue) \in Seq(Works) /\ Only(Tail(queue), B!BleWorks) = Only(queue, B!BleWorks)
      BY <2>1, IdleTaken DEF I!IdleWorks
    <2>3. Only(queue', B!BleWorks) = Only(queue, B!BleWorks)
      BY <2>1, <2>2, IdleSubmit DEF I!IdleWorks
    <2>4. BlePc' = BlePc
      BY <1>2 DEF I!IdleLeave, I!mainVars, BlePc
    <2> QED
      BY <2>3, <2>4, BleKept DEF IdleWork
  <1> QED
    BY <1>1, <1>2 DEF IdleWork

\* ... nor do boot, interrupt, time and fingers.
LEMMA BleOutside ==
    ASSUME QueueOK, \/ Boot \/ GpioIrq \/ IdleTick
                    \/ \E k \in I!Keys : PressKey(k) \/ ReleaseKey(k)
    PROVE  BleStep
  <1>1. UNCHANGED <<bleSide, work_pc>>
    BY DEF Boot, GpioIrq, I!GpioIrq, IdleTick, I!Tick, PressKey, I!PressKey, ReleaseKey,
           I!ReleaseKey, I!mainVars
  <1> DEFINE main(q) == IF main_timer /\ boot # "enable" THEN Submit(q, "main") ELSE q
             enter(q) == Submit(q, "enter_idle")
  <1>2. queue' \in {queue, Submit(queue, "idle_leave"), main(queue), enter(queue),
                    enter(main(queue)), main(enter(queue))}
    BY SameSubmit DEF Boot, I!BootDone, GpioIrq, I!GpioIrq, IdleTick, I!Tick, I!booted,
       PressKey, I!PressKey, ReleaseKey, I!ReleaseKey
  <1>3. ASSUME NEW q \in Seq(Works)
        PROVE  /\ main(q) \in Seq(Works) /\ Only(main(q), B!BleWorks) = Only(q, B!BleWorks)
               /\ enter(q) \in Seq(Works) /\ Only(enter(q), B!BleWorks) = Only(q, B!BleWorks)
               /\ Only(Submit(q, "idle_leave"), B!BleWorks) = Only(q, B!BleWorks)
    <2>1. {"main", "enter_idle", "idle_leave"} \subseteq I!IdleWorks
      BY DEF I!IdleWorks
    <2> QED
      BY <2>1, IdleSubmit
  <1>4. queue \in Seq(Works)
    BY DEF QueueOK
  <1> HIDE DEF main, enter
  <1>5. Only(queue', B!BleWorks) = Only(queue, B!BleWorks)
    BY <1>2, <1>3, <1>4
  <1> QED
    BY <1>1, <1>5, BleKept DEF BlePc

\* Ble sees the Bluetooth host as the firmware has it.
LEMMA SameHost ==
    /\ Connection!CanAdvertise <=> B!CanAdvertise
    /\ \A id, p : Connection!Linked(id, p) <=> B!Linked(id, p)
    /\ \A c : /\ Connection!Alive(c) <=> B!Alive(c)
              /\ Connection!Up(c) <=> B!Up(c)
              /\ Connection!Free(c) <=> B!Free(c)
    /\ \A S : Connection!Closing(S) = B!Closing(S)
    /\ \A S : Connection!Unpair(S) <=> B!Unpair(S)
    /\ Connection!NoAdv = B!NoAdv /\ Connection!NoLink = B!NoLink
    /\ Connection!DropConn <=> B!DropConn
    /\ Connection!DoAdvStop <=> B!DoAdvStop
  <1>1. /\ \A c : /\ Connection!Alive(c) <=> B!Alive(c)
                  /\ Connection!Up(c) <=> B!Up(c)
                  /\ Connection!Free(c) <=> B!Free(c)
        /\ Connection!NoAdv = B!NoAdv /\ Connection!NoLink = B!NoLink
    BY DEF Connection!Alive, B!Alive, Connection!Up, B!Up, Connection!Free, B!Free,
           Connection!NoAdv, B!NoAdv, Connection!NoLink, B!NoLink
  <1>2. \A S : Connection!Closing(S) = B!Closing(S)
    BY <1>1 DEF Connection!Closing, B!Closing
  <1>3. \A S : Connection!Unpair(S) <=> B!Unpair(S)
    BY <1>1, <1>2 DEF Connection!Unpair, B!Unpair
  <1>4. /\ Connection!CanAdvertise <=> B!CanAdvertise
        /\ \A id, p : Connection!Linked(id, p) <=> B!Linked(id, p)
    BY <1>1 DEF Connection!CanAdvertise, B!CanAdvertise, Connection!Linked, B!Linked
  <1>5. /\ Connection!DropConn <=> B!DropConn
        /\ Connection!DoAdvStop <=> B!DoAdvStop
    BY <1>1 DEF Connection!DropConn, B!DropConn, Connection!DoAdvStop, B!DoAdvStop
  <1> QED
    BY <1>1, <1>2, <1>3, <1>4, <1>5

\* A work of ble.c is taken.
LEMMA BleTakes ==
    ASSUME QueueOK, NEW w \in B!BleWorks, B!Take(w), queue' = Tail(queue)
    PROVE  /\ Connection!Take(w)
           /\ Only(queue, B!BleWorks)' = Tail(Only(queue, B!BleWorks))
  BY BleTaken, SameRuns DEF B!Take, Connection!Take

LEMMA BleBleWork ==
    ASSUME QueueOK, BleWork
    PROVE  BleStep
  <1>1. {"disconnect", "unpair", "directed_adv", "pairing_adv", "stop_adv"} = B!BleWorks
    BY DEF B!BleWorks
  <1> DEFINE mine == Only(queue, B!BleWorks)
  <1>2. /\ UNCHANGED <<B!connVars>> => UNCHANGED Connection!connVars
        /\ UNCHANGED <<B!idVars>> => UNCHANGED Connection!idVars
        /\ UNCHANGED <<B!advVars>> => UNCHANGED Connection!advVars
    BY DEF B!connVars, Connection!connVars, B!idVars, Connection!idVars, B!advVars,
           Connection!advVars
  <1>3. CASE B!StartDirectedAdv
    <2>1. Connection!Take("directed_adv") /\ mine' = Tail(mine)
      BY <1>1, <1>3, BleTakes DEF B!StartDirectedAdv
    <2>2. work_pc = "idle" /\ work_pc' \in {"idle", "directed_adv"}
      BY <1>3 DEF B!StartDirectedAdv, B!Take
    <2>3. Connection!StartDirectedAdv
      BY <1>2, <1>3, <2>1, <2>2, SameHost DEF B!StartDirectedAdv, Connection!StartDirectedAdv
    <2> QED
      BY <2>3 DEF BleStep, Connection!Next, Connection!WorkThread
  <1>4. CASE B!StartPairingAdv
    <2>1. Connection!Take("pairing_adv") /\ mine' = Tail(mine)
      BY <1>1, <1>4, BleTakes DEF B!StartPairingAdv
    <2>2. work_pc = "idle" /\ work_pc' \in {"idle", "pairing_adv"}
      BY <1>4 DEF B!StartPairingAdv, B!Take
    <2>3. Connection!StartPairingAdv
      BY <1>2, <1>4, <2>1, <2>2, SameHost DEF B!StartPairingAdv, Connection!StartPairingAdv
    <2> QED
      BY <2>3 DEF BleStep, Connection!Next, Connection!WorkThread
  <1>5. CASE B!AdvStarted
    <2>1. /\ work_pc \in {"directed_adv", "pairing_adv"} /\ work_pc' = "idle"
          /\ queue' = queue
      BY <1>5 DEF B!AdvStarted, B!Blocked
    <2>2. Contains(mine, "stop_adv") <=> Contains(queue, "stop_adv")
      BY <1>1, OnlyContains DEF QueueOK
    <2>3. Connection!ScheduleStop = B!ScheduleStop
      BY <2>2, SameContains DEF Connection!ScheduleStop, B!ScheduleStop
    <2>4. Connection!AdvStarted
      BY <1>2, <1>5, <2>1, <2>3 DEF B!AdvStarted, Connection!AdvStarted, Connection!Blocked
    <2> QED
      BY <2>4 DEF BleStep, Connection!Next, Connection!WorkThread
  <1>6. CASE B!Disconnect
    <2>1. Connection!Take("disconnect") /\ mine' = Tail(mine)
      BY <1>1, <1>6, BleTakes DEF B!Disconnect
    <2>2. Connection!Disconnect
      BY <1>2, <1>6, <2>1, SameHost DEF B!Disconnect, Connection!Disconnect
    <2> QED
      BY <2>2 DEF BleStep, Connection!Next, Connection!WorkThread
  <1>7. CASE B!UnpairWork
    <2>1. Connection!Take("unpair") /\ mine' = Tail(mine)
      BY <1>1, <1>7, BleTakes DEF B!UnpairWork
    <2>2. Connection!UnpairWork
      BY <1>2, <1>7, <2>1, SameHost DEF B!UnpairWork, Connection!UnpairWork
    <2> QED
      BY <2>2 DEF BleStep, Connection!Next, Connection!WorkThread
  <1>8. CASE B!StopAdv
    <2>1. Connection!Take("stop_adv") /\ mine' = Tail(mine)
      BY <1>1, <1>8, BleTakes DEF B!StopAdv
    <2>2. Connection!StopAdv
      BY <1>2, <1>8, <2>1, SameHost DEF B!StopAdv, Connection!StopAdv
    <2> QED
      BY <2>2 DEF BleStep, Connection!Next, Connection!WorkThread
  <1> QED
    BY <1>3, <1>4, <1>5, <1>6, <1>7, <1>8 DEF BleWork, B!WorkThread

\* The timeout of stop_adv_work.
LEMMA BleBleTick ==
    ASSUME QueueOK, BleTick
    PROVE  BleStep
  <1>1. Only(queue', B!BleWorks)
           = IF stop_adv_delay = 1 THEN Submit(Only(queue, B!BleWorks), "stop_adv")
             ELSE Only(queue, B!BleWorks)
    BY BleSubmit, SameSubmit DEF BleTick, B!Tick, QueueOK, B!BleWorks
  <1>2. UNCHANGED <<work_pc, Connection!connVars, Connection!idVars>>
    BY DEF BleTick, B!Tick, B!connVars, B!idVars, Connection!connVars, Connection!idVars
  <1>3. Connection!Tick
    BY <1>1, <1>2, SameSubmit DEF BleTick, B!Tick, Connection!Tick
  <1> QED
    BY <1>3 DEF BleStep, Connection!Next

\* The callbacks.
LEMMA BleCallback ==
    ASSUME QueueOK, Callback
    PROVE  BleStep
  <1> DEFINE mine == Only(queue, B!BleWorks)
  <1>1. /\ UNCHANGED <<B!connVars>> => UNCHANGED Connection!connVars
        /\ UNCHANGED <<B!idVars>> => UNCHANGED Connection!idVars
        /\ UNCHANGED <<B!advVars>> => UNCHANGED Connection!advVars
    BY DEF B!connVars, Connection!connVars, B!idVars, Connection!idVars, B!advVars,
           Connection!advVars
  <1>2. CASE ConnectFailed
    <2>1. queue' = IdleEnter(B!StopCancelled) /\ UNCHANGED work_pc
      BY <1>2 DEF ConnectFailed, B!ConnectFailed
    <2>2. mine' = Connection!StopCancelled
      BY <2>1, StopCancelledOnly, IdleEnterOnly
    <2>3. Connection!ConnectFailed(Connection!StopCancelled)
      BY <1>1, <1>2, <2>1, <2>2, SameHost DEF ConnectFailed, B!ConnectFailed, B!Blocked,
         Connection!ConnectFailed, Connection!Blocked
    <2> QED
      BY <2>3 DEF BleStep, Connection!Next, Connection!Callbacks
  <1>3. ASSUME NEW c \in Conns, NEW timeout \in BOOLEAN, Disconnected(c, timeout)
        PROVE  BleStep
    <2>1. B!Disconnected(c, timeout, IdleEnter(queue)) /\ UNCHANGED work_pc /\ work_pc = "idle"
      BY <1>3 DEF Disconnected, B!Disconnected
    <2>2. Only(IdleEnter(queue), B!BleWorks) = mine
      BY IdleEnterOnly DEF QueueOK
    <2>3. Only(Submit(queue, "directed_adv"), B!BleWorks) = Submit(mine, "directed_adv")
      BY BleSubmit DEF QueueOK, B!BleWorks
    <2>4. IF quazi_ble_conn = c
          THEN /\ refs' = [refs EXCEPT ![c] = @ - 1]
               /\ quazi_ble_conn' = NULL
               /\ quazi_ble_link_established' = FALSE
               /\ mine' = IF timeout THEN Submit(mine, "directed_adv") ELSE mine
          ELSE UNCHANGED <<Connection!connVars, mine>>
      BY <1>1, <2>1, <2>2, <2>3, SameSubmit DEF B!Disconnected, B!IsCurrent
    <2>5. /\ Connection!Alive(c) /\ link' = [link EXCEPT ![c] = Connection!NoLink]
          /\ UNCHANGED <<Connection!idVars, Connection!advVars, bonds>>
      BY <1>1, <2>1, SameHost DEF B!Disconnected
    <2>6. Connection!Disconnected(c, timeout, mine)
      BY <2>1, <2>4, <2>5, SameSubmit DEF Connection!Disconnected, Connection!IsCurrent
    <2> QED
      BY <2>6 DEF BleStep, Connection!Next, Connection!Callbacks
  <1>4. ASSUME NEW c \in Conns, NEW p \in Peers, B!Connected(c, p) PROVE BleStep
    <2>1. queue' = B!StopCancelled /\ UNCHANGED work_pc
      BY <1>4 DEF B!Connected
    <2>2. mine' = Connection!StopCancelled
      BY <2>1, StopCancelledOnly
    <2>3. Connection!Connected(c, p)
      BY <1>1, <1>4, <2>1, <2>2, SameHost DEF B!Connected, Connection!Connected
    <2> QED
      BY <2>3 DEF BleStep, Connection!Next, Connection!Callbacks
  <1>5. ASSUME NEW c \in Conns, B!SecurityChanged(c) PROVE BleStep
    <2>1. UNCHANGED <<mine, work_pc>>
      BY <1>5 DEF B!SecurityChanged
    <2>2. Connection!SecurityChanged(c)
      BY <1>1, <1>5, <2>1, SameHost DEF B!SecurityChanged, Connection!SecurityChanged
    <2> QED
      BY <2>2 DEF BleStep, Connection!Next, Connection!Callbacks
  <1>6. ASSUME NEW c \in Conns, B!SecurityFailed(c) PROVE BleStep
    <2>1. UNCHANGED <<mine, work_pc>>
      BY <1>6 DEF B!SecurityFailed
    <2>2. Connection!SecurityFailed(c)
      BY <1>1, <1>6, <2>1, SameHost DEF B!SecurityFailed, Connection!SecurityFailed
    <2> QED
      BY <2>2 DEF BleStep, Connection!Next, Connection!Callbacks
  <1>7. ASSUME NEW c \in Conns, NEW bonded \in BOOLEAN, B!PairingComplete(c, bonded)
        PROVE  BleStep
    <2>1. UNCHANGED <<mine, work_pc>>
      BY <1>7 DEF B!PairingComplete
    <2>2. \A S : Connection!Cardinality(S) = B!Cardinality(S)
      BY DEF Connection!Cardinality, B!Cardinality
    <2>3. \A gone : {d \in Conns : Connection!Alive(d) /\ <<link[d].id, link[d].peer>> \in gone}
                      = {d \in Conns : B!Alive(d) /\ <<link[d].id, link[d].peer>> \in gone}
      BY SameHost
    <2>4. Connection!PairingComplete(c, bonded)
      BY <1>1, <1>7, <2>1, <2>2, <2>3, SameHost
         DEF B!PairingComplete, Connection!PairingComplete
    <2> QED
      BY <2>4 DEF BleStep, Connection!Next, Connection!Callbacks
  <1> QED
    BY <1>2, <1>3, <1>4, <1>5, <1>6, <1>7 DEF Callback, OtherCallback

-----------------------------------------------------------------------------
(* The queue holds works of the two components only *)

\* The works of the power states, with what they ask of ble.c.
LEMMA IdleSideQueue ==
    ASSUME QueueOK, WorkThread, ~BleWork
    PROVE  QueueOK'
  <1>1. CASE \E irq \in BOOLEAN : \E after : I!MainTask(irq, after)
                /\ after \in {I!Interrupted(irq), B!PairQueue(I!Interrupted(irq))}
                             \cup {B!ConnectQueue(p, I!Interrupted(irq)) : p \in Profiles}
    BY <1>1, BleMainTask, ConnectOnly, PairOnly DEF QueueOK
  <1>2. CASE EnterIdle
    <2>1. PICK struck \in BOOLEAN :
             I!EnterIdle(struck, B!DisconnectQueue(I!Interrupted(struck)))
      BY <1>2 DEF EnterIdle
    <2>2. Runs(queue, "enter_idle")
      BY <2>1, SameRuns DEF I!EnterIdle, I!Take
    <2>3. I!Interrupted(struck) \in Seq(Works)
      BY <2>2, InterruptedOnly DEF I!IdleWorks
    <2>4. queue' \in {I!Interrupted(struck), B!DisconnectQueue(I!Interrupted(struck))}
      BY <2>1 DEF I!EnterIdle
    <2> QED
      BY <2>3, <2>4, DisconnectOnly DEF QueueOK
  <1>3. CASE LeaveIdle
    <2>1. I!LeaveIdle(B!ConnectQueue(selected_profile, Tail(queue)))
      BY <1>3 DEF LeaveIdle
    <2>2. Runs(queue, "leave_idle")
      BY <2>1, SameRuns DEF I!LeaveIdle, I!Take
    <2>3. Tail(queue) \in Seq(Works)
      BY <2>2, IdleTaken DEF I!IdleWorks
    <2>4. queue' \in {Tail(queue), B!ConnectQueue(selected_profile, Tail(queue))}
      BY <2>1 DEF I!LeaveIdle
    <2> QED
      BY <2>3, <2>4, ConnectOnly DEF QueueOK
  <1>4. CASE I!IdleCheck
    <2>1. queue' \in {queue, Submit(queue, "leave_idle"), Submit(queue, "enter_idle")}
      BY <1>4, SameSubmit DEF I!IdleCheck
    <2> QED
      BY <2>1, IdleSubmit DEF QueueOK, I!IdleWorks
  <1>5. CASE I!IdleLeave
    <2>1. Runs(queue, "idle_leave") /\ queue' = Submit(Tail(queue), "leave_idle")
      BY <1>5, SameRuns, SameSubmit DEF I!IdleLeave, I!Take
    <2>2. Tail(queue) \in Seq(Works)
      BY <2>1, IdleTaken DEF I!IdleWorks
    <2> QED
      BY <2>1, <2>2, IdleSubmit DEF QueueOK, I!IdleWorks
  <1> QED
    BY <1>1, <1>2, <1>3, <1>4, <1>5 DEF WorkThread, MainTask, MainTaskTap, MainTaskHold, IdleWork

\* The works of ble.c, its timeout and its callbacks.
LEMMA BleSideQueue ==
    ASSUME QueueOK, BleWork \/ BleTick \/ Callback
    PROVE  QueueOK'
  <1>1. CASE BleWork
    <2>1. \/ queue' = queue
          \/ \E w \in B!BleWorks : Runs(queue, w) /\ queue' = Tail(queue)
      BY <1>1, SameRuns DEF BleWork, B!WorkThread, B!StartDirectedAdv, B!StartPairingAdv,
         B!AdvStarted, B!Disconnect, B!UnpairWork, B!StopAdv, B!Take, B!BleWorks
    <2> QED
      BY <2>1, BleTaken DEF QueueOK
  <1>2. CASE BleTick
    <2>1. queue' \in {queue, Submit(queue, "stop_adv")}
      BY <1>2, SameSubmit DEF BleTick, B!Tick
    <2> QED
      BY <2>1, BleSubmit DEF QueueOK, B!BleWorks
  <1>3. CASE Callback
    <2>1. queue' \in {queue, B!StopCancelled, IdleEnter(B!StopCancelled), IdleEnter(queue),
                      Submit(queue, "directed_adv")}
      BY <1>3, SameSubmit DEF Callback, ConnectFailed, B!ConnectFailed, Disconnected,
         B!Disconnected, OtherCallback, B!Connected, B!SecurityChanged, B!SecurityFailed,
         B!PairingComplete
    <2>2. queue \in Seq(Works) /\ B!StopCancelled \in Seq(Works)
      BY StopCancelledOnly DEF QueueOK
    <2>3. IdleEnter(queue) \in Seq(Works) /\ IdleEnter(B!StopCancelled) \in Seq(Works)
      BY <2>2, IdleEnterOnly
    <2>4. Submit(queue, "directed_adv") \in Seq(Works)
      <3>1. "directed_adv" \in B!BleWorks
        BY DEF B!BleWorks
      <3> QED
        BY <2>2, <3>1, BleSubmit
    <2> QED
      BY <2>1, <2>2, <2>3, <2>4 DEF QueueOK
  <1> QED
    BY <1>1, <1>2, <1>3

\* Boot, interrupt, time and fingers.
LEMMA OutsideQueue ==
    ASSUME QueueOK, \/ Boot \/ GpioIrq \/ IdleTick
                    \/ \E k \in I!Keys : PressKey(k) \/ ReleaseKey(k)
    PROVE  QueueOK'
  <1> DEFINE main(q) == IF main_timer /\ boot # "enable" THEN Submit(q, "main") ELSE q
             enter(q) == Submit(q, "enter_idle")
  <1>1. queue' \in {queue, Submit(queue, "idle_leave"), main(queue), enter(queue),
                    enter(main(queue)), main(enter(queue))}
    BY SameSubmit DEF Boot, I!BootDone, GpioIrq, I!GpioIrq, IdleTick, I!Tick, I!booted,
       PressKey, I!PressKey, ReleaseKey, I!ReleaseKey
  <1>2. ASSUME NEW q \in Seq(Works)
        PROVE  /\ main(q) \in Seq(Works) /\ enter(q) \in Seq(Works)
               /\ Submit(q, "idle_leave") \in Seq(Works)
    <2>1. {"main", "enter_idle", "idle_leave"} \subseteq I!IdleWorks
      BY DEF I!IdleWorks
    <2> QED
      BY <2>1, IdleSubmit
  <1>3. queue \in Seq(Works)
    BY DEF QueueOK
  <1> HIDE DEF main, enter
  <1>4. queue' \in Seq(Works)
    BY <1>1, <1>2, <1>3
  <1> QED
    BY <1>4 DEF QueueOK

-----------------------------------------------------------------------------
(* The theorems *)

\* The firmware starts where its components do.
LEMMA InitSteps == Init => QueueOK /\ Power!Init /\ Connection!Init
  <1> SUFFICES ASSUME Init PROVE QueueOK /\ Power!Init /\ Connection!Init
    OBVIOUS
  <1>1. I!IdleInit /\ B!Init
    BY DEF Init
  <1>2. queue = <<>> /\ work_pc = "idle"
    BY <1>1 DEF B!Init
  <1>3. QueueOK
    BY <1>2 DEF QueueOK
  <1>4. Only(queue, I!IdleWorks) = <<>> /\ Only(queue, B!BleWorks) = <<>>
    BY <1>2, OnlyEmpty
  <1>5. Power!IdleInit
    BY <1>1, <1>2, <1>4, SameScan DEF I!IdleInit, Power!IdleInit, I!IDLE_DISCONN,
       Power!IDLE_DISCONN
  <1>6. ble_active = FALSE
    BY <1>1 DEF B!Init, ble_active, B!QuaziBleIsActive
  <1>7. Power!Init
    BY <1>5, <1>6 DEF Power!Init
  <1>8. Connection!Init
    BY <1>1, <1>2, <1>4, SameHost DEF B!Init, Connection!Init
  <1> QED
    BY <1>3, <1>7, <1>8

\* Every step of the firmware is one of each component, or none.
LEMMA NextSteps ==
    ASSUME QueueOK, [Next]_vars
    PROVE  QueueOK' /\ PowerStep /\ BleStep
  <1>1. CASE WorkThread
    <2>1. QueueOK'
      BY <1>1, IdleSideQueue, BleSideQueue
    <2>2. CASE MainTask \/ \E p \in Profiles : MainTaskTap(p) \/ MainTaskHold(p)
      <3>1. BleStep
        BY <2>2, BleKeyEvent
      <3> DEFINE After(irq) == {I!Interrupted(irq), B!PairQueue(I!Interrupted(irq))}
                                 \cup {B!ConnectQueue(p, I!Interrupted(irq)) : p \in Profiles}
      <3>0. PICK irq \in BOOLEAN : \E after \in After(irq) : I!MainTask(irq, after)
        BY <2>2 DEF MainTask, MainTaskTap, MainTaskHold
      <3>2. PICK after \in After(irq) : I!MainTask(irq, after)
        BY <3>0
      <3>3. Runs(queue, "main") /\ "main" \in I!IdleWorks
        BY <3>2, SameRuns DEF I!MainTask, I!Take, I!IdleWorks
      <3>4. /\ I!Interrupted(irq) \in Seq(Works)
            /\ Only(I!Interrupted(irq), I!IdleWorks) = Power!Interrupted(irq)
        BY <3>3, InterruptedOnly
      <3>5. Only(after, I!IdleWorks) = Power!Interrupted(irq)
        BY <3>2, <3>4, ConnectOnly, PairOnly
      <3>6. ble_active' = ble_active
        BY <2>2 DEF MainTask, MainTaskTap, MainTaskHold, bleSide, linkVars, ble_active,
           B!QuaziBleIsActive
      <3> QED
        BY <2>1, <3>1, <3>2, <3>5, <3>6, PowerMainTask
    <2>3. CASE EnterIdle
      BY <2>1, <2>3, PowerEnterIdle, BleEnterIdle
    <2>4. CASE LeaveIdle
      BY <2>1, <2>4, PowerLeaveIdle, BleLeaveIdle
    <2>5. CASE IdleWork
      BY <2>1, <2>5, PowerIdleWork, BleIdleWork
    <2>6. CASE BleWork
      BY <2>1, <2>6, PowerBleWork, BleBleWork
    <2> QED
      BY <1>1, <2>2, <2>3, <2>4, <2>5, <2>6 DEF WorkThread
  <1>2. CASE Callback
    BY <1>2, BleSideQueue, PowerCallback, BleCallback
  <1>3. CASE BleTick
    BY <1>3, BleSideQueue, PowerBleTick, BleBleTick
  <1>4. CASE \/ Boot \/ GpioIrq \/ IdleTick \/ \E k \in I!Keys : PressKey(k) \/ ReleaseKey(k)
    BY <1>4, OutsideQueue, PowerBoot, PowerIrq, PowerTick, PowerKey, BleOutside
  <1>5. CASE UNCHANGED vars
    <2>1. UNCHANGED <<idleSide, bleSide, queue, work_pc>>
      BY <1>5 DEF vars
    <2> QED
      BY <2>1, PowerKept, BleKept DEF QueueOK, BlePc
  <1> QED
    BY <1>1, <1>2, <1>3, <1>4, <1>5 DEF Next

\* The firmware implements Idle: whatever ble.c, profile.c and
\* process_bluetooth.c do to the power states, between the works of idle.c
\* and in its calls and callbacks, Idle allows; so every safety property
\* of Idle holds of the firmware.
THEOREM FirmwareIsIdle == Spec => ImplementsIdle
  <1>1. Init => QueueOK /\ Power!Init
    BY InitSteps
  <1>2. QueueOK /\ [Next]_vars => QueueOK' /\ [Power!Next]_(Power!vars)
    BY NextSteps DEF PowerStep
  <1> QED
    BY <1>1, <1>2, PTL DEF Spec, ImplementsIdle, Power!Spec

\* The firmware implements Ble: what the idle levels and the key events ask
\* of the connection manager, with their own works between its works in
\* the queue, Ble allows.
THEOREM FirmwareIsBle == Spec => ImplementsBle
  <1>1. Init => QueueOK /\ Connection!Init
    BY InitSteps
  <1>2. QueueOK /\ [Next]_vars => QueueOK' /\ [Connection!Next]_(Connection!vars)
    BY NextSteps DEF BleStep
  <1> QED
    BY <1>1, <1>2, PTL DEF Spec, ImplementsBle, Connection!Spec

-----------------------------------------------------------------------------
(* What the firmware inherits: the theorems about Idle and Ble, read about *)
(* the firmware with its one queue.                                        *)

PowerProofs == INSTANCE IdleProofs WITH
    queue <- Only(queue, I!IdleWorks),
    work_pc <- IF work_pc = "check" THEN "check" ELSE "idle"

ConnectionProofs == INSTANCE BleProofs WITH
    queue <- Only(queue, B!BleWorks),
    work_pc <- IF work_pc = "check" THEN "idle" ELSE work_pc

\* The parameters of the firmware are parameters of Idle and of Ble.
LEMMA PowerParameters ==
    /\ MATRIX_ROWS \in Nat \ {0} /\ MATRIX_COLS \in Nat \ {0}
    /\ BootTicks \in Nat \ {0} /\ IdleTicks \in Nat \ {0} /\ DisconnTicks \in Nat \ {0}
    /\ PromptQueue \in BOOLEAN
  BY QuaziAssumption

LEMMA ConnectionParameters ==
    /\ Profiles \subseteq Nat \ {0} /\ 1 \in Profiles
    /\ NULL \notin Conns /\ MaxPaired \in Nat
    /\ StoredBonds \subseteq Profiles \X Peers
    /\ PairingTicks \in Nat \ {0}
  BY QuaziAssumption

\* The module that the proofs are about is the module that the firmware
\* implements.
LEMMA SamePower ==
    /\ PowerProofs!Init <=> Power!Init
    /\ PowerProofs!Next <=> Power!Next
    /\ PowerProofs!vars = Power!vars /\ PowerProofs!vars' = Power!vars'
  BY Zenon
     DEF PowerProofs!Init, PowerProofs!IdleInit, PowerProofs!Next,
         PowerProofs!WorkStep, PowerProofs!WorkThread, PowerProofs!BootStep,
         PowerProofs!IrqStep, PowerProofs!TickStep, PowerProofs!KeyStep,
         PowerProofs!BleChange, PowerProofs!BleGone, PowerProofs!MainTask,
         PowerProofs!IdleCheck, PowerProofs!EnterIdle, PowerProofs!LeaveIdle,
         PowerProofs!IdleLeave, PowerProofs!BootDone, PowerProofs!GpioIrq,
         PowerProofs!Tick, PowerProofs!PressKey, PowerProofs!ReleaseKey,
         PowerProofs!IdleEnterQueue, PowerProofs!IdleEnterSets, PowerProofs!Take,
         PowerProofs!Runs, PowerProofs!Submit, PowerProofs!Contains,
         PowerProofs!Interrupted, PowerProofs!IrqPending, PowerProofs!Raising,
         PowerProofs!ScanFound, PowerProofs!Reads, PowerProofs!Min,
         PowerProofs!ReleaseMatrix, PowerProofs!First, PowerProofs!Processed,
         PowerProofs!ArmRows, PowerProofs!ArmCols, PowerProofs!ArmMatrix,
         PowerProofs!booted, PowerProofs!StopsLoop,
         PowerProofs!RestartsLoop, PowerProofs!Keys, PowerProofs!Rows,
         PowerProofs!Cols, PowerProofs!IDLE_NONE, PowerProofs!IDLE_MATRIX,
         PowerProofs!IDLE_DISCONN, PowerProofs!idleVars, PowerProofs!scanVars,
         PowerProofs!mainVars, PowerProofs!vars, Power!Init, Power!IdleInit,
         Power!Next, Power!WorkStep, Power!WorkThread, Power!BootStep, Power!IrqStep,
         Power!TickStep, Power!KeyStep, Power!BleChange, Power!BleGone,
         Power!MainTask, Power!IdleCheck, Power!EnterIdle, Power!LeaveIdle,
         Power!IdleLeave, Power!BootDone, Power!GpioIrq, Power!Tick, Power!PressKey,
         Power!ReleaseKey, Power!IdleEnterQueue, Power!IdleEnterSets, Power!Take,
         Power!Runs, Power!Submit, Power!Contains, Power!Interrupted,
         Power!IrqPending, Power!Raising, Power!ScanFound, Power!Reads, Power!Min,
         Power!ReleaseMatrix, Power!First, Power!Processed, Power!booted,
         Power!ArmRows, Power!ArmCols,
         Power!ArmMatrix, Power!StopsLoop, Power!RestartsLoop, Power!Keys,
         Power!Rows, Power!Cols, Power!IDLE_NONE, Power!IDLE_MATRIX,
         Power!IDLE_DISCONN, Power!idleVars, Power!scanVars, Power!mainVars,
         Power!vars

LEMMA SameConnection ==
    /\ ConnectionProofs!Init <=> Connection!Init
    /\ ConnectionProofs!Next <=> Connection!Next
    /\ ConnectionProofs!vars = Connection!vars /\ ConnectionProofs!vars' = Connection!vars'
  BY Zenon
     DEF ConnectionProofs!Init, ConnectionProofs!Next, ConnectionProofs!WorkThread,
         ConnectionProofs!Calls, ConnectionProofs!Callbacks, ConnectionProofs!Tick,
         ConnectionProofs!StartDirectedAdv, ConnectionProofs!StartPairingAdv,
         ConnectionProofs!AdvStarted, ConnectionProofs!Disconnect,
         ConnectionProofs!UnpairWork, ConnectionProofs!StopAdv,
         ConnectionProofs!TapProfile, ConnectionProofs!HoldProfile,
         ConnectionProofs!HoldClear, ConnectionProofs!ProfileLeaveIdle,
         ConnectionProofs!ProfileEnterIdle, ConnectionProofs!Connected,
         ConnectionProofs!Disconnected, ConnectionProofs!SecurityChanged,
         ConnectionProofs!SecurityFailed, ConnectionProofs!PairingComplete,
         ConnectionProofs!ConnectFailed, ConnectionProofs!StopCancelled,
         ConnectionProofs!IsCurrent, ConnectionProofs!Call,
         ConnectionProofs!NoCallVars, ConnectionProofs!SetConnectId,
         ConnectionProofs!SetPairId, ConnectionProofs!SetUnpairId,
         ConnectionProofs!ConnectQueue, ConnectionProofs!PairQueue,
         ConnectionProofs!UnpairQueue, ConnectionProofs!DisconnectQueue,
         ConnectionProofs!DisconnectThen, ConnectionProofs!ScheduleStop,
         ConnectionProofs!DoAdvStop, ConnectionProofs!DropConn,
         ConnectionProofs!CanAdvertise, ConnectionProofs!Linked,
         ConnectionProofs!Free, ConnectionProofs!Up, ConnectionProofs!Alive,
         ConnectionProofs!Closing, ConnectionProofs!Unpair, ConnectionProofs!NoAdv,
         ConnectionProofs!NoLink, ConnectionProofs!Blocked, ConnectionProofs!Take,
         ConnectionProofs!Runs, ConnectionProofs!Submit, ConnectionProofs!Contains,
         ConnectionProofs!Cancel, ConnectionProofs!RemoveFirst,
         ConnectionProofs!SelectInSeq, ConnectionProofs!RemoveAt,
         ConnectionProofs!Min, ConnectionProofs!Cardinality, ConnectionProofs!idVars,
         ConnectionProofs!connVars, ConnectionProofs!advVars, ConnectionProofs!vars,
         Connection!Init, Connection!Next, Connection!WorkThread, Connection!Calls,
         Connection!Callbacks, Connection!Tick, Connection!StartDirectedAdv,
         Connection!StartPairingAdv, Connection!AdvStarted, Connection!Disconnect,
         Connection!UnpairWork, Connection!StopAdv, Connection!TapProfile,
         Connection!HoldProfile, Connection!HoldClear, Connection!ProfileLeaveIdle,
         Connection!ProfileEnterIdle, Connection!Connected, Connection!Disconnected,
         Connection!SecurityChanged, Connection!SecurityFailed,
         Connection!PairingComplete, Connection!ConnectFailed,
         Connection!StopCancelled, Connection!IsCurrent, Connection!Call,
         Connection!NoCallVars, Connection!SetConnectId, Connection!SetPairId,
         Connection!SetUnpairId, Connection!ConnectQueue, Connection!PairQueue,
         Connection!UnpairQueue, Connection!DisconnectQueue,
         Connection!DisconnectThen, Connection!ScheduleStop, Connection!DoAdvStop,
         Connection!DropConn, Connection!CanAdvertise, Connection!Linked,
         Connection!Free, Connection!Up, Connection!Alive, Connection!Closing,
         Connection!Unpair, Connection!NoAdv, Connection!NoLink, Connection!Blocked,
         Connection!Take, Connection!Runs, Connection!Submit, Connection!Contains,
         Connection!Cancel, Connection!RemoveFirst, Connection!SelectInSeq,
         Connection!RemoveAt, Connection!Min, Connection!Cardinality,
         Connection!idVars, Connection!connVars, Connection!advVars, Connection!vars

\* The queue of the firmware holds the works that it is proved to hold.
LEMMA QueueInvariance == Spec => []QueueOK
  <1>1. Init => QueueOK
    BY InitSteps
  <1>2. QueueOK /\ [Next]_vars => QueueOK'
    BY NextSteps
  <1> QED
    BY <1>1, <1>2, PTL DEF Spec

\* The firmware behaves as the power states that IdleProofs is about.
LEMMA FirmwarePower == Spec => PowerProofs!Spec
  <1>1. Spec => ImplementsIdle
    BY FirmwareIsIdle
  <1>2. Power!Init => PowerProofs!Init
    BY SamePower
  <1>3. [Power!Next]_(Power!vars) => [PowerProofs!Next]_(PowerProofs!vars)
    BY SamePower
  <1> QED
    BY <1>1, <1>2, <1>3, PTL DEF ImplementsIdle, Power!Spec, PowerProofs!Spec

\* The firmware behaves as the connection manager that BleProofs is about.
LEMMA FirmwareConnection == Spec => ConnectionProofs!Spec
  <1>1. Spec => ImplementsBle
    BY FirmwareIsBle
  <1>2. Connection!Init => ConnectionProofs!Init
    BY SameConnection
  <1>3. [Connection!Next]_(Connection!vars) => [ConnectionProofs!Next]_(ConnectionProofs!vars)
    BY SameConnection
  <1> QED
    BY <1>1, <1>2, <1>3, PTL DEF ImplementsBle, Connection!Spec, ConnectionProofs!Spec

\* However the works of ble.c, its callbacks and the keys BT_<p> come between
\* the works of idle.c, a keyboard that is awake scans its matrix.
THEOREM FirmwareScans == Spec => []I!LoopRunsWhenAwake
  <1>1. PowerProofs!LoopRunsWhenAwake => I!LoopRunsWhenAwake
    BY DEF PowerProofs!LoopRunsWhenAwake, I!LoopRunsWhenAwake, PowerProofs!IDLE_NONE,
           I!IDLE_NONE
  <1> QED
    BY <1>1, PowerParameters, FirmwarePower, PowerProofs!AwakeScans, PTL

\* ... and rows that are driven are watched.
THEOREM FirmwareWatches == Spec => []I!DrivenRowsAreWatched
  <1>1. PowerProofs!DrivenRowsAreWatched => I!DrivenRowsAreWatched
    BY DEF PowerProofs!DrivenRowsAreWatched, I!DrivenRowsAreWatched, PowerProofs!Cols,
           I!Cols
  <1> QED
    BY <1>1, PowerParameters, FirmwarePower, PowerProofs!DrivenIsWatched, PTL

\* Every press that quazi_main_task hands to the key processing is one of a
\* key that is held.
THEOREM FirmwareNoPhantom == Spec => I!NoPhantomKey
  <1>1. UNCHANGED PowerProofs!vars => matrix_prev' = matrix_prev
    BY DEF PowerProofs!vars, PowerProofs!mainVars
  <1>2. [matrix_prev' \ matrix_prev \subseteq held]_(PowerProofs!vars)
          => [matrix_prev' \ matrix_prev \subseteq held]_(I!vars)
    BY <1>1
  <1> QED
    BY <1>2, PowerParameters, FirmwarePower, PowerProofs!NoPhantomPress, PTL
       DEF PowerProofs!NoPhantomKey, I!NoPhantomKey

\* When the main loop is stopped and the whole queue, the works of ble.c
\* included, is empty, the matrix is armed, unless a scan that was left over
\* from before the loop was stopped has turned the rows off; whatever the
\* works of ble.c make the others wait.
THEOREM FirmwareListens == Spec => []I!StoppedIsArmed
  <1>1. PowerProofs!StoppedIsArmed => I!StoppedIsArmed
    BY OnlyEmpty
       DEF PowerProofs!StoppedIsArmed, PowerProofs!Quiescent, PowerProofs!Rows,
           PowerProofs!Cols, I!StoppedIsArmed, I!Quiescent, I!Rows, I!Cols
  <1> QED
    BY <1>1, PowerParameters, FirmwarePower, PowerProofs!StoppedListens, PTL

\* What the queue of the connection manager holds is what the queue of the
\* firmware holds.
LEMMA BleContains ==
    ASSUME QueueOK, NEW w \in B!BleWorks
    PROVE  ConnectionProofs!Contains(Only(queue, B!BleWorks), w) <=> B!Contains(queue, w)
  <1>1. Contains(Only(queue, B!BleWorks), w) <=> w \in B!BleWorks /\ Contains(queue, w)
    BY OnlyContains DEF QueueOK
  <1>2. ConnectionProofs!Contains(Only(queue, B!BleWorks), w)
          <=> Contains(Only(queue, B!BleWorks), w)
    BY Zenon DEF ConnectionProofs!Contains, Contains
  <1>3. B!Contains(queue, w) <=> Contains(queue, w)
    BY Zenon DEF B!Contains, Contains
  <1> QED
    BY <1>1, <1>2, <1>3

\* No order of the works, calls and callbacks of the firmware, its power
\* states and key events included, loses or leaks a reference to a
\* connection object, ...
THEOREM FirmwareLeaksNone == Spec => []B!RefsBalanced
  <1>1. ConnectionProofs!RefsBalanced => B!RefsBalanced
    BY DEF ConnectionProofs!RefsBalanced, B!RefsBalanced
  <1> QED
    BY <1>1, ConnectionParameters, FirmwareConnection, ConnectionProofs!NoReferenceLeaks, PTL

\* ... keeps the handle of a connection whose link is gone, ...
THEOREM FirmwareHandleIsLive == Spec => []B!ConnHasLink
  <1>1. ConnectionProofs!ConnHasLink => B!ConnHasLink
    BY DEF ConnectionProofs!ConnHasLink, B!ConnHasLink, ConnectionProofs!Alive, B!Alive
  <1> QED
    BY <1>1, ConnectionParameters, FirmwareConnection, ConnectionProofs!HandleIsLive, PTL

\* ... has the keyboard advertise while it is connected, ...
THEOREM FirmwareAdvertisesAlone == Spec => []B!AdvertisesAlone
  <1>1. ConnectionProofs!AdvertisesAlone => B!AdvertisesAlone
    BY DEF ConnectionProofs!AdvertisesAlone, B!AdvertisesAlone, ConnectionProofs!NoAdv,
           B!NoAdv
  <1> QED
    BY <1>1, ConnectionParameters, FirmwareConnection, ConnectionProofs!AdvertisingAlone, PTL

\* ... or advertise without counting as active, so that quazi_idle_check
\* takes it for disconnected.
THEOREM FirmwareAirIsActive == Spec => []B!AdvertisingIsActive
  <1>1. ConnectionProofs!AdvertisingIsActive => B!AdvertisingIsActive
    BY DEF ConnectionProofs!AdvertisingIsActive, B!AdvertisingIsActive,
           ConnectionProofs!NoAdv, B!NoAdv, ConnectionProofs!Blocked, B!Blocked
  <1> QED
    BY <1>1, ConnectionParameters, FirmwareConnection, ConnectionProofs!AirIsActive, PTL

\* A profile switch by a key BT_<p>, and the reconnection of leave_idle,
\* replace the host that is being called.
THEOREM FirmwareCallsLast == Spec => []B!CallsLastRequested
  <1>1. QueueOK /\ ConnectionProofs!CallsLastRequested => B!CallsLastRequested
    BY BleContains
       DEF ConnectionProofs!CallsLastRequested, B!CallsLastRequested, B!BleWorks
  <1> QED
    BY <1>1, QueueInvariance, ConnectionParameters, FirmwareConnection,
       ConnectionProofs!LastRequestIsCalled, PTL

\* The keyboard is connected to a host that a key event or the power states
\* asked for last, or is about to leave it.
THEOREM FirmwareIsRequested == Spec => []B!ConnIsRequested
  <1>1. QueueOK /\ ConnectionProofs!ConnIsRequested => B!ConnIsRequested
    BY BleContains DEF ConnectionProofs!ConnIsRequested, B!ConnIsRequested, B!BleWorks
  <1> QED
    BY <1>1, QueueInvariance, ConnectionParameters, FirmwareConnection,
       ConnectionProofs!ConnectionIsRequested, PTL

\* The keyboard is discoverable for at most the 180 s of a pairing, also
\* when it goes to sleep and wakes up meanwhile.
THEOREM FirmwarePairingEnds == Spec => []B!PairingAdvIsTimed
  <1>1. QueueOK /\ ConnectionProofs!PairingAdvIsTimed => B!PairingAdvIsTimed
    BY BleContains
       DEF ConnectionProofs!PairingAdvIsTimed, B!PairingAdvIsTimed, B!BleWorks,
           ConnectionProofs!Blocked, B!Blocked
  <1> QED
    BY <1>1, QueueInvariance, ConnectionParameters, FirmwareConnection,
       ConnectionProofs!PairingEnds, PTL
=============================================================================

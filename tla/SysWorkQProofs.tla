--------------------------- MODULE SysWorkQProofs ---------------------------
(***************************************************************************)
(* Lemmas about the work queue: which works wait in it, how often, and     *)
(* which of two comes first.                                               *)
(***************************************************************************)
EXTENDS Integers, SysWorkQ, SequenceTheorems, WellFoundedInduction, TLAPS

\* The work w holds at most one place in q.
Once(q, w) == \A i, j \in 1 .. Len(q) : q[i] = w /\ q[j] = w => i = j

\* Every w in q waits behind a v.
Behind(q, w, v) == \A i \in 1 .. Len(q) : q[i] = w => \E j \in 1 .. i - 1 : q[j] = v

-----------------------------------------------------------------------------
(* Types *)

\* Submitting a work keeps the queue a sequence of works.
LEMMA SubmitType ==
    ASSUME NEW W, NEW q \in Seq(W), NEW w \in W
    PROVE  Submit(q, w) \in Seq(W)
  BY DEF Submit

\* Taking the head of the queue, too.
LEMMA RunsType ==
    ASSUME NEW W, NEW q \in Seq(W), NEW w, Runs(q, w)
    PROVE  Tail(q) \in Seq(W)
  BY DEF Runs

\* A set of natural numbers that is not empty has a smallest element.
LEMMA Smallest ==
    ASSUME NEW I, I \subseteq Nat, I # {}
    PROVE  \E n \in I : \A m \in I : n <= m
  <1> DEFINE R == OpToRel(<, Nat)
  <1>1. IsWellFoundedOn(R, Nat)
    BY NatLessThanWellFounded
  <1> HIDE DEF R
  <1>2. PICK n \in I : \A m \in I : <<m, n>> \notin R
    BY <1>1, WFMin
  <1>3. \A m \in I : ~(m < n)
    BY <1>2 DEF R, OpToRel
  <1> QED
    BY <1>3

\* A set of numbers with 0 and with the next of each has all of them.
LEMMA SetInduction ==
    ASSUME NEW J, 0 \in J, \A n \in Nat : n \in J => n + 1 \in J
    PROVE  Nat \subseteq J
  <1> SUFFICES ASSUME Nat \ J # {} PROVE FALSE
    OBVIOUS
  <1>1. PICK n \in Nat \ J : \A m \in Nat \ J : n <= m
    BY Smallest
  <1>2. n # 0 /\ n - 1 \in Nat /\ ~(n <= n - 1)
    OBVIOUS
  <1>3. n - 1 \in J
    BY <1>1, <1>2
  <1> QED
    BY <1>2, <1>3

\* Cancel removes the first place of w, or finds none.
LEMMA CancelIs ==
    ASSUME NEW W, NEW q \in Seq(W), NEW w
    PROVE  \/ Cancel(q, w) = q
           \/ \E i \in 1 .. Len(q) : q[i] = w /\ Cancel(q, w) = RemoveAt(q, i)
  <1>1. CASE ~ \E i \in 1 .. Len(q) : q[i] = w
    BY <1>1 DEF Cancel, RemoveFirst
  <1>2. CASE \E i \in 1 .. Len(q) : q[i] = w
    <2> DEFINE I == {i \in 1 .. Len(q) : q[i] = w}
    <2>1. I # {} /\ I \subseteq Nat
      BY <1>2
    <2>2. \E n \in I : \A m \in I : n <= m
      BY <2>1, Smallest
    <2>3. Min(I) \in I
      BY <2>2 DEF Min
    <2>4. Cancel(q, w) = RemoveAt(q, Min(I))
      BY <1>2, <2>1 DEF Cancel, RemoveFirst, SelectInSeq
    <2> QED
      BY <2>3, <2>4
  <1> QED
    BY <1>1, <1>2

\* The elements that RemoveAt keeps, and their places.
LEMMA RemoveAtIs ==
    ASSUME NEW W, NEW q \in Seq(W), NEW i \in 1 .. Len(q)
    PROVE  /\ RemoveAt(q, i) \in Seq(W)
           /\ Len(RemoveAt(q, i)) = Len(q) - 1
           /\ \A j \in 1 .. Len(q) - 1 :
                 RemoveAt(q, i)[j] = IF j < i THEN q[j] ELSE q[j + 1]
  <1> DEFINE a == SubSeq(q, 1, i - 1)
             b == SubSeq(q, i + 1, Len(q))
  <1>1. /\ a \in Seq(W) /\ Len(a) = i - 1
        /\ \A j \in 1 .. i - 1 : a[j] = q[j]
    OBVIOUS
  <1>2. /\ b \in Seq(W) /\ Len(b) = Len(q) - i
        /\ \A j \in 1 .. Len(q) - i : b[j] = q[i + j]
    OBVIOUS
  <1>3. RemoveAt(q, i) = a \o b
    BY DEF RemoveAt
  <1> HIDE DEF a, b
  <1>4. /\ a \o b \in Seq(W) /\ Len(a \o b) = Len(a) + Len(b)
        /\ \A j \in 1 .. Len(a) + Len(b) :
              (a \o b)[j] = IF j <= Len(a) THEN a[j] ELSE b[j - Len(a)]
    BY <1>1, <1>2, ConcatProperties
  <1>5. Len(a \o b) = Len(q) - 1
    BY <1>1, <1>2, <1>4
  <1>6. ASSUME NEW j \in 1 .. Len(q) - 1
        PROVE  (a \o b)[j] = IF j < i THEN q[j] ELSE q[j + 1]
    <2>1. CASE j < i
      BY <1>1, <1>2, <1>4, <2>1
    <2>2. CASE ~(j < i)
      <3>1. (a \o b)[j] = b[j - (i - 1)]
        BY <1>1, <1>2, <1>4, <2>2
      <3>2. j - (i - 1) \in 1 .. Len(q) - i /\ i + (j - (i - 1)) = j + 1
        BY <2>2
      <3> QED
        BY <1>2, <2>2, <3>1, <3>2
    <2> QED
      BY <2>1, <2>2
  <1> QED
    BY <1>3, <1>4, <1>5, <1>6

\* Cancelling a work keeps the queue a sequence of works.
LEMMA CancelType ==
    ASSUME NEW W, NEW q \in Seq(W), NEW w
    PROVE  Cancel(q, w) \in Seq(W)
  BY CancelIs, RemoveAtIs

-----------------------------------------------------------------------------
(* A work holds at most one place *)

\* Submitting any work to the queue does not queue a work twice.
LEMMA SubmitOnce ==
    ASSUME NEW W, NEW q \in Seq(W), NEW w, NEW v \in W, Once(q, w)
    PROVE  Once(Submit(q, v), w)
  <1>1. CASE Contains(q, v)
    BY <1>1 DEF Submit
  <1>2. CASE ~Contains(q, v)
    BY <1>2 DEF Submit, Contains, Once
  <1> QED
    BY <1>1, <1>2

\* Nor does running the head, ...
LEMMA TailOnce ==
    ASSUME NEW W, NEW q \in Seq(W), NEW w, q # <<>>, Once(q, w)
    PROVE  Once(Tail(q), w)
  BY DEF Once

\* ... and a work that has been taken no longer waits.
LEMMA TailLacks ==
    ASSUME NEW W, NEW q \in Seq(W), NEW w, Runs(q, w), Once(q, w)
    PROVE  ~Contains(Tail(q), w)
  BY DEF Once, Runs, Contains

\* Nor does cancelling.
LEMMA CancelOnce ==
    ASSUME NEW W, NEW q \in Seq(W), NEW w, NEW v, Once(q, w)
    PROVE  Once(Cancel(q, v), w)
  <1>1. ASSUME NEW i \in 1 .. Len(q) PROVE Once(RemoveAt(q, i), w)
    <2> DEFINE r == RemoveAt(q, i)
    <2> HIDE DEF r
    <2>1. /\ r \in Seq(W) /\ Len(r) = Len(q) - 1
          /\ \A j \in 1 .. Len(q) - 1 : r[j] = IF j < i THEN q[j] ELSE q[j + 1]
      BY RemoveAtIs DEF r
    <2>2. Once(r, w)
      <3> SUFFICES ASSUME NEW j \in 1 .. Len(r), NEW k \in 1 .. Len(r), r[j] = w, r[k] = w
                   PROVE  j = k
        BY DEF Once
      <3> DEFINE at(n) == IF n < i THEN n ELSE n + 1
      <3>1. at(j) \in 1 .. Len(q) /\ at(k) \in 1 .. Len(q) /\ q[at(j)] = w /\ q[at(k)] = w
        BY <2>1
      <3>2. at(j) = at(k)
        BY <3>1 DEF Once
      <3> QED
        BY <3>2
    <2> QED
      BY <2>2 DEF r
  <1> QED
    BY <1>1, CancelIs

-----------------------------------------------------------------------------
(* One work waits behind another *)

\* A submitted work other than w changes nothing for w, ...
LEMMA SubmitBehind ==
    ASSUME NEW W, NEW q \in Seq(W), NEW w, NEW v, NEW u \in W, u # w, Behind(q, w, v)
    PROVE  Behind(Submit(q, u), w, v)
  <1>1. CASE Contains(q, u)
    BY <1>1 DEF Submit
  <1>2. CASE ~Contains(q, u)
    <2> DEFINE r == Append(q, u)
    <2>1. Len(r) = Len(q) + 1 /\ r[Len(q) + 1] = u /\ \A i \in 1 .. Len(q) : r[i] = q[i]
      OBVIOUS
    <2> HIDE DEF r
    <2>2. Behind(r, w, v)
      <3> SUFFICES ASSUME NEW i \in 1 .. Len(r), r[i] = w
                   PROVE  \E j \in 1 .. i - 1 : r[j] = v
        BY DEF Behind
      <3>1. i \in 1 .. Len(q) /\ q[i] = w
        BY <2>1
      <3>2. PICK j \in 1 .. i - 1 : q[j] = v
        BY <3>1 DEF Behind
      <3> QED
        BY <2>1, <3>1, <3>2
    <2> QED
      BY <1>2, <2>2 DEF Submit, r
  <1> QED
    BY <1>1, <1>2

\* ... and w itself goes behind a v that already waits.
LEMMA SubmitItBehind ==
    ASSUME NEW W, NEW q \in Seq(W), NEW w \in W, NEW v, Behind(q, w, v), Contains(q, v)
    PROVE  Behind(Submit(q, w), w, v)
  <1>1. CASE Contains(q, w)
    BY <1>1 DEF Submit
  <1>2. CASE ~Contains(q, w)
    <2> DEFINE r == Append(q, w)
    <2>1. Len(r) = Len(q) + 1 /\ r[Len(q) + 1] = w /\ \A i \in 1 .. Len(q) : r[i] = q[i]
      OBVIOUS
    <2> HIDE DEF r
    <2>2. PICK j \in 1 .. Len(q) : q[j] = v
      BY DEF Contains
    <2>3. Behind(r, w, v)
      <3> SUFFICES ASSUME NEW i \in 1 .. Len(r), r[i] = w
                   PROVE  \E k \in 1 .. i - 1 : r[k] = v
        BY DEF Behind
      <3>1. CASE i = Len(q) + 1
        BY <2>1, <2>2, <3>1
      <3>2. CASE i \in 1 .. Len(q)
        BY <1>2, <2>1, <3>2 DEF Contains
      <3> QED
        BY <2>1, <3>1, <3>2
    <2> QED
      BY <1>2, <2>3 DEF Submit, r
  <1> QED
    BY <1>1, <1>2

\* Taking one work leaves the others in the queue.
LEMMA TailContains ==
    ASSUME NEW W, NEW q \in Seq(W), NEW w, NEW u, Runs(q, u), u # w, Contains(q, w)
    PROVE  Contains(Tail(q), w)
  <1>1. PICK i \in 1 .. Len(q) : q[i] = w
    BY DEF Contains
  <1>2. i # 1
    BY <1>1 DEF Runs
  <1>3. i - 1 \in 1 .. Len(Tail(q)) /\ Tail(q)[i - 1] = w
    BY <1>1, <1>2 DEF Runs
  <1> QED
    BY <1>3 DEF Contains

\* So does cancelling one.
LEMMA CancelContains ==
    ASSUME NEW W, NEW q \in Seq(W), NEW w, NEW v, v # w, Contains(q, w)
    PROVE  Contains(Cancel(q, v), w)
  <1>1. PICK k \in 1 .. Len(q) : q[k] = w
    BY DEF Contains
  <1>2. ASSUME NEW i \in 1 .. Len(q), q[i] = v PROVE Contains(RemoveAt(q, i), w)
    <2> DEFINE r == RemoveAt(q, i)
    <2> HIDE DEF r
    <2>1. /\ r \in Seq(W) /\ Len(r) = Len(q) - 1
          /\ \A j \in 1 .. Len(q) - 1 : r[j] = IF j < i THEN q[j] ELSE q[j + 1]
      BY RemoveAtIs DEF r
    <2>2. k # i
      BY <1>1, <1>2
    <2>3. CASE k < i
      BY <1>1, <2>1, <2>3 DEF Contains, r
    <2>4. CASE k > i
      <3>1. k - 1 \in 1 .. Len(r) /\ r[k - 1] = w
        BY <1>1, <2>1, <2>4
      <3> QED
        BY <3>1 DEF Contains, r
    <2> QED
      BY <2>2, <2>3, <2>4
  <1> QED
    BY <1>2, CancelIs

\* A work that waits behind another is not run, ...
LEMMA BehindWaits ==
    ASSUME NEW W, NEW q \in Seq(W), NEW w, NEW v, Behind(q, w, v)
    PROVE  ~Runs(q, w)
  BY DEF Behind, Runs

\* ... and still waits behind it when a third work has been taken.
LEMMA TailBehind ==
    ASSUME NEW W, NEW q \in Seq(W), NEW w, NEW v, NEW u, Runs(q, u), u # v, Behind(q, w, v)
    PROVE  Behind(Tail(q), w, v)
  <1> DEFINE r == Tail(q)
  <1>1. Len(r) = Len(q) - 1 /\ \A i \in 1 .. Len(r) : r[i] = q[i + 1]
    BY DEF Runs
  <1> HIDE DEF r
  <1>2. Behind(r, w, v)
    <2> SUFFICES ASSUME NEW i \in 1 .. Len(r), r[i] = w
                 PROVE  \E j \in 1 .. i - 1 : r[j] = v
      BY DEF Behind
    <2>1. i + 1 \in 1 .. Len(q) /\ q[i + 1] = w
      BY <1>1
    <2>2. PICK j \in 1 .. i : q[j] = v
      BY <2>1 DEF Behind
    <2>3. j # 1
      BY <2>2 DEF Runs
    <2>4. j - 1 \in 1 .. i - 1 /\ r[j - 1] = q[j]
      BY <1>1, <2>2, <2>3
    <2> QED
      BY <2>2, <2>4
  <1> QED
    BY <1>2 DEF r

\* What Submit leaves in the queue.
LEMMA SubmitContains ==
    ASSUME NEW W, NEW q \in Seq(W), NEW w \in W
    PROVE  /\ Contains(Submit(q, w), w)
           /\ \A v : Contains(q, v) => Contains(Submit(q, w), v)
  <1>1. CASE Contains(q, w)
    BY <1>1 DEF Submit
  <1>2. CASE ~Contains(q, w)
    <2> DEFINE r == Append(q, w)
    <2>1. Len(r) = Len(q) + 1 /\ r[Len(q) + 1] = w /\ \A i \in 1 .. Len(q) : r[i] = q[i]
      OBVIOUS
    <2> HIDE DEF r
    <2>2. Contains(r, w) /\ \A v : Contains(q, v) => Contains(r, v)
      BY <2>1 DEF Contains
    <2> QED
      BY <1>2, <2>2 DEF Submit, r
  <1> QED
    BY <1>1, <1>2
=============================================================================

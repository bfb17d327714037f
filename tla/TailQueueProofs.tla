-------------------------- MODULE TailQueueProofs --------------------------
(***************************************************************************)
(* The tail queues keep their pointers, for any number of queues and       *)
(* elements: LinksAgree and LoopVisitsAll hold in every state.  What every *)
(* macro needs, and keeps, is that no element is in two places: then the   *)
(* cells whose pointers it assigns are those of the places it means to     *)
(* change, and of no other.                                                *)
(***************************************************************************)
EXTENDS TailQueue, DataLemmas

\* Where the elements of InsertAt(q, i + 1, e) are.
Inserted(q, i, e, r) ==
  /\ Len(r) = Len(q) + 1
  /\ \A j \in 1 .. i : r[j] = q[j]
  /\ r[i + 1] = e
  /\ \A j \in i + 1 .. Len(q) : r[j + 1] = q[j]

LEMMA InsertAtIs ==
  ASSUME NEW T, NEW q \in Seq(T), NEW i \in 0 .. Len(q), NEW e \in T,
         NEW r, r = InsertAt(q, i + 1, e)
  PROVE  r \in Seq(T) /\ Inserted(q, i, e, r)
<1> DEFINE u == SubSeq(q, 1, i)
           w == SubSeq(q, i + 1, Len(q))
           n == Len(q)
           m == n - i
<1>1. n \in Nat /\ i \in Nat /\ m \in Nat /\ i + m = n /\ i <= n
  OBVIOUS
<1>2. u \in Seq(T) /\ Len(u) = i /\ \A j \in 1 .. i : u[j] = q[j]
  OBVIOUS
<1>3. w \in Seq(T) /\ Len(w) = m /\ \A j \in 1 .. m : w[j] = q[i + j]
  <2> HIDE DEF m
  <2>1. /\ SubSeq(q, i + 1, i + m) \in Seq(T) /\ Len(SubSeq(q, i + 1, i + m)) = m
        /\ \A j \in 1 .. m : SubSeq(q, i + 1, i + m)[j] = q[i + j]
    BY <1>1, SliceElements
  <2>2. Len(q) = i + m
    BY <1>1
  <2>3. QED
    BY <2>1, <2>2
<1>4. r = (u \o <<e>>) \o w
  <2>1. (i + 1) - 1 = i
    OBVIOUS
  <2>2. QED
    BY <2>1 DEF InsertAt
<1> HIDE DEF u, w
<1> DEFINE v == u \o <<e>>
<1>5. v \in Seq(T) /\ Len(v) = i + 1 /\ v[i + 1] = e /\ \A j \in 1 .. i : v[j] = u[j]
  BY <1>1, <1>2
<1>6. /\ r \in Seq(T) /\ Len(r) = Len(v) + Len(w)
      /\ \A j \in 1 .. Len(v) : r[j] = v[j]
      /\ \A j \in 1 .. Len(w) : r[Len(v) + j] = w[j]
  <2>1. r = v \o w
    BY <1>4 DEF v
  <2> HIDE DEF v
  <2>2. v \in Seq(T) /\ w \in Seq(T)
    BY <1>3, <1>5
  <2>3. /\ v \o w \in Seq(T) /\ Len(v \o w) = Len(v) + Len(w)
        /\ \A j \in 1 .. Len(v) : (v \o w)[j] = v[j]
        /\ \A j \in 1 .. Len(w) : (v \o w)[Len(v) + j] = w[j]
    BY <2>2, ConcatElements
  <2>4. QED
    BY <2>1, <2>3
<1> HIDE DEF v
<1>7. Len(r) = n + 1 /\ \A j \in 1 .. i : r[j] = q[j]
  BY <1>1, <1>2, <1>3, <1>5, <1>6
<1>8. r[i + 1] = e
  BY <1>1, <1>5, <1>6
<1>9. ASSUME NEW j \in i + 1 .. n PROVE r[j + 1] = q[j]
  <2>1. j - i \in 1 .. m /\ (i + 1) + (j - i) = j + 1 /\ i + (j - i) = j
    BY <1>1
  <2>2. r[(i + 1) + (j - i)] = w[j - i]
    BY <1>3, <1>5, <1>6, <2>1
  <2>3. w[j - i] = q[i + (j - i)]
    BY <1>3, <2>1
  <2>4. QED
    BY <2>1, <2>2, <2>3
<1>10. QED
  BY <1>6, <1>7, <1>8, <1>9 DEF Inserted

\* Where the elements of RemoveAt(q, i) are.
Removed(q, i, r) ==
  /\ Len(r) = Len(q) - 1
  /\ \A j \in 1 .. i - 1 : r[j] = q[j]
  /\ \A j \in i .. Len(q) - 1 : r[j] = q[j + 1]

LEMMA RemoveAtIs ==
  ASSUME NEW T, NEW q \in Seq(T), NEW i \in 1 .. Len(q), NEW r, r = RemoveAt(q, i)
  PROVE  r \in Seq(T) /\ Removed(q, i, r)
<1> DEFINE u == SubSeq(q, 1, i - 1)
           w == SubSeq(q, i + 1, Len(q))
           n == Len(q)
           m == n - i
<1>1. n \in Nat /\ i \in Nat /\ m \in Nat /\ i + m = n /\ i <= n /\ i >= 1
  OBVIOUS
<1>2. u \in Seq(T) /\ Len(u) = i - 1 /\ \A j \in 1 .. i - 1 : u[j] = q[j]
  OBVIOUS
<1>3. w \in Seq(T) /\ Len(w) = m /\ \A j \in 1 .. m : w[j] = q[i + j]
  <2> HIDE DEF m
  <2>1. /\ SubSeq(q, i + 1, i + m) \in Seq(T) /\ Len(SubSeq(q, i + 1, i + m)) = m
        /\ \A j \in 1 .. m : SubSeq(q, i + 1, i + m)[j] = q[i + j]
    BY <1>1, SliceElements
  <2>2. Len(q) = i + m
    BY <1>1
  <2>3. QED
    BY <2>1, <2>2
<1>4. r = u \o w
  BY DEF RemoveAt
<1> HIDE DEF u, w
<1>5. /\ r \in Seq(T) /\ Len(r) = Len(u) + Len(w)
      /\ \A j \in 1 .. Len(u) : r[j] = u[j]
      /\ \A j \in 1 .. Len(w) : r[Len(u) + j] = w[j]
  <2>1. u \in Seq(T) /\ w \in Seq(T)
    BY <1>2, <1>3
  <2>2. /\ u \o w \in Seq(T) /\ Len(u \o w) = Len(u) + Len(w)
        /\ \A j \in 1 .. Len(u) : (u \o w)[j] = u[j]
        /\ \A j \in 1 .. Len(w) : (u \o w)[Len(u) + j] = w[j]
    BY <2>1, ConcatElements
  <2>3. QED
    BY <1>4, <2>2
<1>6. Len(r) = n - 1 /\ \A j \in 1 .. i - 1 : r[j] = q[j]
  BY <1>1, <1>2, <1>3, <1>5
<1>7. ASSUME NEW j \in i .. n - 1 PROVE r[j] = q[j + 1]
  <2> DEFINE k == j - i + 1
  <2>1. k \in 1 .. m /\ (i - 1) + k = j /\ i + k = j + 1
    BY <1>1
  <2> HIDE DEF k
  <2>2. r[(i - 1) + k] = w[k]
    BY <1>2, <1>3, <1>5, <2>1
  <2>3. w[k] = q[i + k]
    BY <1>3, <2>1
  <2>4. QED
    BY <2>1, <2>2, <2>3
<1>8. QED
  BY <1>5, <1>6, <1>7 DEF Removed

\* a is the end of q.
EndsWith(q, a) ==
  /\ Len(a) <= Len(q)
  /\ \A j \in 1 .. Len(a) : a[j] = q[Len(q) - Len(a) + j]

\* That is what IsSuffix says.
LEMMA EndIsSuffix ==
  ASSUME NEW T, NEW q \in Seq(T), NEW a \in Seq(T), EndsWith(q, a)
  PROVE  IsSuffix(a, q)
<1> DEFINE n  == Len(q)
           m  == Len(a)
           ra == Reverse(a)
           rq == Reverse(q)
<1>1. n \in Nat /\ m \in Nat /\ m <= n
  BY DEF EndsWith
<1>2. ra \in Seq(T) /\ Len(ra) = m /\ \A j \in 1 .. m : ra[j] = a[(m - j) + 1]
  BY DEF Reverse
<1>3. rq \in Seq(T) /\ Len(rq) = n /\ \A j \in 1 .. n : rq[j] = q[(n - j) + 1]
  BY DEF Reverse
<1>4. IsSuffix(a, q) = IsPrefix(ra, rq)
  BY DEF IsSuffix
<1> HIDE DEF ra, rq
<1>5. ASSUME NEW j \in 1 .. m PROVE ra[j] = rq[j]
  <2> DEFINE k == (m - j) + 1
  <2>1. k \in 1 .. m /\ n - m + k = (n - j) + 1 /\ j \in 1 .. n
    BY <1>1
  <2>2. ra[j] = a[k] /\ rq[j] = q[(n - j) + 1]
    BY <1>2, <1>3, <2>1
  <2> HIDE DEF k
  <2>3. a[k] = q[n - m + k]
    BY <2>1 DEF EndsWith
  <2>4. QED
    BY <2>1, <2>2, <2>3
<1> DEFINE x == SubSeq(ra, 1, m)
           y == SubSeq(rq, 1, m)
<1>6. x \in Seq(T) /\ Len(x) = m /\ \A j \in 1 .. m : x[j] = ra[j]
  BY <1>1, <1>2
<1>7. y \in Seq(T) /\ Len(y) = m /\ \A j \in 1 .. m : y[j] = rq[j]
  BY <1>1, <1>3
<1> HIDE DEF x, y
<1>8. x = y
  BY <1>5, <1>6, <1>7, SeqEqual
<1>9. QED
  BY <1>1, <1>2, <1>3, <1>4, <1>8 DEF IsPrefix, x, y
-----------------------------------------------------------------------------
(***************************************************************************)
(* What the pointers of one queue say, for a head h and the sequence q it  *)
(* stands for.                                                             *)
(***************************************************************************)
CellIn(h, q, i) == IF i = 0 THEN h ELSE q[i]

NextIn(q, i) == IF i = Len(q) THEN NULL ELSE q[i + 1]

\* The cell whose second pointer leads to CellIn(h, q, i).
BackIn(h, q, i) == IF i = Len(q) THEN h ELSE q[i + 1]

CellsOf(h, q) == {h} \cup {q[i] : i \in 1 .. Len(q)}

Linked(l, b, h, q) ==
  /\ \A i \in 0 .. Len(q) : l[CellIn(h, q, i)] = NextIn(q, i)
  /\ \A i \in 0 .. Len(q) : b[BackIn(h, q, i)] = CellIn(h, q, i)

\* No element is twice in a queue.
AllDiffer(q) == \A i, j \in 1 .. Len(q) : q[i] = q[j] => i = j

\* The places of a queue have cells of their own.
LEMMA CellsDiffer ==
  ASSUME NEW h \in Heads, NEW q \in Seq(Elements), AllDiffer(q)
  PROVE  /\ \A i, j \in 0 .. Len(q) : CellIn(h, q, i) = CellIn(h, q, j) => i = j
         /\ \A i, j \in 0 .. Len(q) : BackIn(h, q, i) = BackIn(h, q, j) => i = j
         /\ \A i \in 0 .. Len(q) : /\ CellIn(h, q, i) \in CellsOf(h, q)
                                   /\ BackIn(h, q, i) \in CellsOf(h, q)
<1>1. \A i \in 1 .. Len(q) : q[i] \in Elements /\ q[i] # h
  BY QueueAssumption
<1>2. ASSUME NEW i \in 0 .. Len(q), NEW j \in 0 .. Len(q), CellIn(h, q, i) = CellIn(h, q, j)
      PROVE  i = j
  BY <1>1, <1>2 DEF CellIn, AllDiffer
<1>3. ASSUME NEW i \in 0 .. Len(q), NEW j \in 0 .. Len(q), BackIn(h, q, i) = BackIn(h, q, j)
      PROVE  i = j
  <2>1. CASE i = Len(q) \/ j = Len(q)
    BY <1>1, <1>3, <2>1 DEF BackIn
  <2>2. CASE i # Len(q) /\ j # Len(q)
    <3>1. i + 1 \in 1 .. Len(q) /\ j + 1 \in 1 .. Len(q)
      BY <2>2
    <3>2. q[i + 1] = q[j + 1]
      BY <1>3, <2>2 DEF BackIn
    <3>3. i + 1 = j + 1
      BY <3>1, <3>2 DEF AllDiffer
    <3>4. QED
      BY <3>3
  <2>3. QED
    BY <2>1, <2>2
<1>4. ASSUME NEW i \in 0 .. Len(q)
      PROVE  CellIn(h, q, i) \in CellsOf(h, q) /\ BackIn(h, q, i) \in CellsOf(h, q)
  <2>1. i = 0 \/ i \in 1 .. Len(q)
    OBVIOUS
  <2>2. i = Len(q) \/ i + 1 \in 1 .. Len(q)
    OBVIOUS
  <2>3. QED
    BY <2>1, <2>2 DEF CellIn, BackIn, CellsOf
<1>5. QED
  BY <1>2, <1>3, <1>4

\* Assignments to other cells leave a queue linked.
LEMMA OthersStayLinked ==
  ASSUME NEW l, NEW b, NEW l2, NEW b2, NEW h \in Heads, NEW q \in Seq(Elements),
         AllDiffer(q), Linked(l, b, h, q),
         \A c \in CellsOf(h, q) : l2[c] = l[c] /\ b2[c] = b[c]
  PROVE  Linked(l2, b2, h, q)
  BY CellsDiffer DEF Linked

\* What is assigned to the cells S.
Inserts(S, l, b, l2, b2, h, q, i, e) ==
  /\ l2[e] = NextIn(q, i) /\ l2[CellIn(h, q, i)] = e
  /\ \A c \in S \ {e, CellIn(h, q, i)} : l2[c] = l[c]
  /\ b2[e] = CellIn(h, q, i) /\ b2[BackIn(h, q, i)] = e
  /\ \A c \in S \ {e, BackIn(h, q, i)} : b2[c] = b[c]

\* Where the cells of the queue are then.
LEMMA InsertCells ==
  ASSUME NEW h \in Heads, NEW q \in Seq(Elements), AllDiffer(q),
         NEW i \in 0 .. Len(q), NEW e \in Elements, e \notin CellsOf(h, q),
         NEW r, r = InsertAt(q, i + 1, e)
  PROVE  /\ r \in Seq(Elements) /\ Len(r) = Len(q) + 1
         /\ \A j \in 0 .. Len(q) + 1 :
              /\ j <= i => CellIn(h, r, j) = CellIn(h, q, j)
              /\ j = i + 1 => CellIn(h, r, j) = e
              /\ j > i + 1 => CellIn(h, r, j) = CellIn(h, q, j - 1)
              /\ j < i => NextIn(r, j) = NextIn(q, j) /\ BackIn(h, r, j) = BackIn(h, q, j)
              /\ j = i => NextIn(r, j) = e /\ BackIn(h, r, j) = e
              /\ j > i => /\ NextIn(r, j) = NextIn(q, j - 1)
                          /\ BackIn(h, r, j) = BackIn(h, q, j - 1)
         /\ AllDiffer(r)
         /\ CellsOf(h, r) = CellsOf(h, q) \cup {e}
<1> DEFINE n == Len(q)
<1>1. /\ r \in Seq(Elements) /\ Len(r) = n + 1 /\ n \in Nat /\ i \in Nat /\ i <= n
      /\ \A j \in 1 .. i : r[j] = q[j]
      /\ r[i + 1] = e
      /\ \A j \in i + 1 .. n : r[j + 1] = q[j]
  <2>1. n \in Nat /\ i \in Nat /\ i <= n
    OBVIOUS
  <2>2. r \in Seq(Elements) /\ Inserted(q, i, e, r)
    BY InsertAtIs
  <2>3. QED
    BY <2>1, <2>2 DEF Inserted
<1>2. \A j \in 1 .. n : q[j] # e
  BY DEF CellsOf
<1>3. \A j \in i + 2 .. n + 1 : r[j] = q[j - 1]
  <2>1. ASSUME NEW j \in i + 2 .. n + 1 PROVE r[j] = q[j - 1]
    <3>1. j - 1 \in i + 1 .. n /\ (j - 1) + 1 = j
      BY <1>1
    <3>2. QED
      BY <1>1, <3>1
  <2>2. QED
    BY <2>1
<1>4. ASSUME NEW j \in 0 .. n + 1
      PROVE  /\ j <= i => CellIn(h, r, j) = CellIn(h, q, j)
             /\ j = i + 1 => CellIn(h, r, j) = e
             /\ j > i + 1 => CellIn(h, r, j) = CellIn(h, q, j - 1)
             /\ j < i => NextIn(r, j) = NextIn(q, j) /\ BackIn(h, r, j) = BackIn(h, q, j)
             /\ j = i => NextIn(r, j) = e /\ BackIn(h, r, j) = e
             /\ j > i => /\ NextIn(r, j) = NextIn(q, j - 1)
                         /\ BackIn(h, r, j) = BackIn(h, q, j - 1)
  <2>1. /\ j <= i => CellIn(h, r, j) = CellIn(h, q, j)
        /\ j = i + 1 => CellIn(h, r, j) = e
        /\ j > i + 1 => CellIn(h, r, j) = CellIn(h, q, j - 1)
    BY <1>1, <1>3 DEF CellIn
  <2>2. CASE j < i
    <3>1. j + 1 \in 1 .. i /\ j # Len(r) /\ j # Len(q)
      BY <1>1, <2>2
    <3>2. QED
      BY <1>1, <2>1, <2>2, <3>1 DEF NextIn, BackIn
  <2>3. CASE j = i
    BY <1>1, <2>1, <2>3 DEF NextIn, BackIn
  <2>4. CASE j > i
    <3>1. CASE j = n + 1
      BY <1>1, <2>1, <2>4, <3>1 DEF NextIn, BackIn
    <3>2. CASE j # n + 1
      <4>1. j + 1 \in i + 2 .. n + 1 /\ (j + 1) - 1 = j /\ (j - 1) + 1 = j /\ j - 1 # n
        BY <1>1, <2>4, <3>2
      <4>2. r[j + 1] = q[j]
        BY <1>3, <4>1
      <4>3. QED
        BY <1>1, <2>1, <2>4, <3>2, <4>1, <4>2 DEF NextIn, BackIn
    <3>3. QED
      BY <3>1, <3>2
  <2>5. QED
    BY <1>1, <2>1, <2>2, <2>3, <2>4
<1>5. ASSUME NEW j \in 1 .. n + 1, NEW k \in 1 .. n + 1, r[j] = r[k] PROVE j = k
  <2>1. ASSUME NEW m \in 1 .. n + 1
        PROVE  \/ m <= i /\ m \in 1 .. n /\ r[m] = q[m]
               \/ m = i + 1 /\ r[m] = e
               \/ m > i + 1 /\ m - 1 \in 1 .. n /\ r[m] = q[m - 1]
    <3>1. CASE m <= i
      BY <1>1, <3>1
    <3>2. CASE m = i + 1
      BY <1>1, <3>2
    <3>3. CASE m > i + 1
      <4>1. m \in i + 2 .. n + 1 /\ m - 1 \in 1 .. n
        BY <1>1, <3>3
      <4>2. QED
        BY <1>3, <3>3, <4>1
    <3>4. QED
      BY <1>1, <3>1, <3>2, <3>3
  <2>2. \A x, y \in 1 .. n : q[x] = q[y] => x = y
    BY DEF AllDiffer
  <2>3. CASE r[j] = e
    BY <1>1, <1>2, <1>5, <2>1, <2>3
  <2>4. CASE r[j] # e
    <3>1. \/ j <= i /\ j \in 1 .. n /\ r[j] = q[j]
          \/ j > i + 1 /\ j - 1 \in 1 .. n /\ r[j] = q[j - 1]
      BY <2>1, <2>4
    <3>2. \/ k <= i /\ k \in 1 .. n /\ r[k] = q[k]
          \/ k > i + 1 /\ k - 1 \in 1 .. n /\ r[k] = q[k - 1]
      BY <1>5, <2>1, <2>4
    <3>3. \/ j = k
          \/ j <= i /\ k > i + 1 /\ j = k - 1
          \/ j > i + 1 /\ k <= i /\ j - 1 = k
          \/ j > i + 1 /\ k > i + 1 /\ j - 1 = k - 1
      BY <1>5, <2>2, <3>1, <3>2
    <3>4. QED
      BY <1>1, <3>3
  <2>5. QED
    BY <2>3, <2>4
<1>6. CellsOf(h, r) = CellsOf(h, q) \cup {e}
  <2>1. ASSUME NEW c \in CellsOf(h, r) PROVE c \in CellsOf(h, q) \cup {e}
    <3>1. CASE c = h
      BY <3>1 DEF CellsOf
    <3>2. CASE c # h
      <4>1. PICK m \in 1 .. n + 1 : c = r[m]
        BY <1>1, <3>2 DEF CellsOf
      <4>2. \/ m \in 1 .. n /\ r[m] = q[m]
            \/ r[m] = e
            \/ m - 1 \in 1 .. n /\ r[m] = q[m - 1]
        BY <1>1, <1>3
      <4>3. QED
        BY <4>1, <4>2 DEF CellsOf
    <3>3. QED
      BY <3>1, <3>2
  <2>2. ASSUME NEW c \in CellsOf(h, q) PROVE c \in CellsOf(h, r)
    <3>1. CASE c = h
      BY <3>1 DEF CellsOf
    <3>2. CASE c # h
      <4>1. PICK m \in 1 .. n : c = q[m]
        BY <3>2 DEF CellsOf
      <4>2. \/ m \in 1 .. n + 1 /\ r[m] = q[m]
            \/ m + 1 \in 1 .. n + 1 /\ r[m + 1] = q[m]
        BY <1>1
      <4>3. QED
        BY <1>1, <4>1, <4>2 DEF CellsOf
    <3>3. QED
      BY <3>1, <3>2
  <2>3. e \in CellsOf(h, r)
    BY <1>1 DEF CellsOf
  <2>4. QED
    BY <2>1, <2>2, <2>3
<1>7. QED
  BY <1>1, <1>4, <1>5, <1>6 DEF AllDiffer

(***************************************************************************)
(* The four insertions: e comes behind the first i elements.               *)
(***************************************************************************)
LEMMA InsertLinks ==
  ASSUME NEW l, NEW b, NEW l2, NEW b2, NEW h \in Heads, NEW q \in Seq(Elements),
         AllDiffer(q), Linked(l, b, h, q),
         NEW i \in 0 .. Len(q), NEW e \in Elements, e \notin CellsOf(h, q),
         Inserts(CellsOf(h, q), l, b, l2, b2, h, q, i, e),
         NEW r, r = InsertAt(q, i + 1, e)
  PROVE  /\ Linked(l2, b2, h, r) /\ AllDiffer(r)
         /\ CellsOf(h, r) = CellsOf(h, q) \cup {e}
<1> DEFINE n == Len(q)
<1>1. n \in Nat /\ i \in Nat /\ i <= n
  OBVIOUS
<1>2. /\ r \in Seq(Elements) /\ Len(r) = n + 1
      /\ AllDiffer(r) /\ CellsOf(h, r) = CellsOf(h, q) \cup {e}
      /\ \A j \in 0 .. n + 1 :
           /\ j <= i => CellIn(h, r, j) = CellIn(h, q, j)
           /\ j = i + 1 => CellIn(h, r, j) = e
           /\ j > i + 1 => CellIn(h, r, j) = CellIn(h, q, j - 1)
           /\ j < i => NextIn(r, j) = NextIn(q, j) /\ BackIn(h, r, j) = BackIn(h, q, j)
           /\ j = i => NextIn(r, j) = e /\ BackIn(h, r, j) = e
           /\ j > i => /\ NextIn(r, j) = NextIn(q, j - 1)
                       /\ BackIn(h, r, j) = BackIn(h, q, j - 1)
  BY InsertCells
<1>3. ASSUME NEW j \in 0 .. n + 1
      PROVE  l2[CellIn(h, r, j)] = NextIn(r, j) /\ b2[BackIn(h, r, j)] = CellIn(h, r, j)
  <2>1. CASE j < i
    <3>1. j \in 0 .. n /\ j # i
      BY <1>1, <2>1
    <3>2. /\ l2[CellIn(h, q, j)] = l[CellIn(h, q, j)]
          /\ b2[BackIn(h, q, j)] = b[BackIn(h, q, j)]
      <4>1. /\ CellIn(h, q, j) \in CellsOf(h, q) \ {e, CellIn(h, q, i)}
            /\ BackIn(h, q, j) \in CellsOf(h, q) \ {e, BackIn(h, q, i)}
        BY <3>1, CellsDiffer
      <4>2. QED
        BY <4>1 DEF Inserts
    <3>3. QED
      BY <1>1, <1>2, <2>1, <3>1, <3>2 DEF Linked
  <2>2. CASE j = i
    <3>1. l2[CellIn(h, r, j)] = NextIn(r, j)
      BY <1>1, <1>2, <2>2 DEF Inserts
    <3>2. b2[BackIn(h, r, j)] = CellIn(h, r, j)
      BY <1>1, <1>2, <2>2 DEF Inserts
    <3>3. QED
      BY <3>1, <3>2
  <2>3. CASE j = i + 1
    <3>1. j > i /\ j - 1 = i
      BY <1>1, <2>3
    <3>2. QED
      BY <1>2, <2>3, <3>1 DEF Inserts
  <2>4. CASE j > i + 1
    <3>1. j - 1 \in 0 .. n /\ j - 1 # i /\ j > i
      BY <1>1, <2>4
    <3>2. /\ l2[CellIn(h, q, j - 1)] = l[CellIn(h, q, j - 1)]
          /\ b2[BackIn(h, q, j - 1)] = b[BackIn(h, q, j - 1)]
      <4>1. /\ CellIn(h, q, j - 1) \in CellsOf(h, q) \ {e, CellIn(h, q, i)}
            /\ BackIn(h, q, j - 1) \in CellsOf(h, q) \ {e, BackIn(h, q, i)}
        BY <3>1, CellsDiffer
      <4>2. QED
        BY <4>1 DEF Inserts
    <3>3. QED
      BY <1>2, <2>4, <3>1, <3>2 DEF Linked
  <2>5. QED
    BY <1>1, <2>1, <2>2, <2>3, <2>4
<1>4. Linked(l2, b2, h, r)
  BY <1>2, <1>3 DEF Linked
<1>5. QED
  BY <1>2, <1>4

(***************************************************************************)
(* TAILQ_REMOVE: the i-th element leaves.                                  *)
(***************************************************************************)
\* What is assigned to the cells S; what the pointers of the element itself become
\* does not matter.
Removes(S, l, b, l2, b2, h, q, i) ==
  /\ l2[CellIn(h, q, i - 1)] = NextIn(q, i)
  /\ \A c \in S \ {q[i], CellIn(h, q, i - 1)} : l2[c] = l[c]
  /\ b2[BackIn(h, q, i)] = CellIn(h, q, i - 1)
  /\ \A c \in S \ {q[i], BackIn(h, q, i)} : b2[c] = b[c]

\* Where the cells of the queue are then.
LEMMA RemoveCells ==
  ASSUME NEW h \in Heads, NEW q \in Seq(Elements), AllDiffer(q),
         NEW i \in 1 .. Len(q), NEW r, r = RemoveAt(q, i)
  PROVE  /\ r \in Seq(Elements) /\ Len(r) = Len(q) - 1
         /\ \A j \in 0 .. Len(q) - 1 :
              /\ j < i => CellIn(h, r, j) = CellIn(h, q, j)
              /\ j >= i => CellIn(h, r, j) = CellIn(h, q, j + 1)
              /\ j < i - 1 => /\ NextIn(r, j) = NextIn(q, j)
                              /\ BackIn(h, r, j) = BackIn(h, q, j)
              /\ j >= i - 1 => /\ NextIn(r, j) = NextIn(q, j + 1)
                               /\ BackIn(h, r, j) = BackIn(h, q, j + 1)
         /\ AllDiffer(r)
         /\ CellsOf(h, r) \subseteq CellsOf(h, q)
<1> DEFINE n == Len(q)
<1>1. /\ r \in Seq(Elements) /\ Len(r) = n - 1 /\ n \in Nat /\ i \in Nat /\ i <= n /\ i >= 1
      /\ \A j \in 1 .. i - 1 : r[j] = q[j]
      /\ \A j \in i .. n - 1 : r[j] = q[j + 1]
  <2>1. n \in Nat /\ i \in Nat /\ i <= n /\ i >= 1
    OBVIOUS
  <2>2. r \in Seq(Elements) /\ Removed(q, i, r)
    BY RemoveAtIs
  <2>3. QED
    BY <2>1, <2>2 DEF Removed
<1>2. ASSUME NEW j \in 0 .. n - 1
      PROVE  /\ j < i => CellIn(h, r, j) = CellIn(h, q, j)
             /\ j >= i => CellIn(h, r, j) = CellIn(h, q, j + 1)
             /\ j < i - 1 => NextIn(r, j) = NextIn(q, j) /\ BackIn(h, r, j) = BackIn(h, q, j)
             /\ j >= i - 1 => /\ NextIn(r, j) = NextIn(q, j + 1)
                              /\ BackIn(h, r, j) = BackIn(h, q, j + 1)
  <2>1. /\ j < i => CellIn(h, r, j) = CellIn(h, q, j)
        /\ j >= i => CellIn(h, r, j) = CellIn(h, q, j + 1)
    BY <1>1 DEF CellIn
  <2>2. CASE j < i - 1
    <3>1. j + 1 \in 1 .. i - 1 /\ j # Len(r) /\ j # Len(q)
      BY <1>1, <2>2
    <3>2. r[j + 1] = q[j + 1]
      BY <1>1, <3>1
    <3>3. QED
      BY <1>1, <2>1, <2>2, <3>1, <3>2 DEF NextIn, BackIn
  <2>3. CASE j >= i - 1
    <3>1. CASE j = n - 1
      BY <1>1, <2>1, <2>3, <3>1 DEF NextIn, BackIn
    <3>2. CASE j # n - 1
      <4>1. j + 1 \in i .. n - 1 /\ j # Len(r) /\ j + 1 # Len(q)
        BY <1>1, <2>3, <3>2
      <4>2. r[j + 1] = q[(j + 1) + 1]
        BY <1>1, <4>1
      <4>3. QED
        BY <1>1, <2>1, <2>3, <4>1, <4>2 DEF NextIn, BackIn
    <3>3. QED
      BY <3>1, <3>2
  <2>4. QED
    BY <1>1, <2>1, <2>2, <2>3
<1>3. ASSUME NEW m \in 1 .. n - 1
      PROVE  \/ m < i /\ m \in 1 .. n /\ r[m] = q[m]
             \/ m >= i /\ m + 1 \in 1 .. n /\ r[m] = q[m + 1]
  <2>1. CASE m < i
    BY <1>1, <2>1
  <2>2. CASE m >= i
    <3>1. m \in i .. n - 1 /\ m + 1 \in 1 .. n
      BY <1>1, <2>2
    <3>2. QED
      BY <1>1, <2>2, <3>1
  <2>3. QED
    BY <1>1, <2>1, <2>2
<1>4. \A x, y \in 1 .. n : q[x] = q[y] => x = y
  BY DEF AllDiffer
<1>5. ASSUME NEW j \in 1 .. n - 1, NEW k \in 1 .. n - 1, r[j] = r[k] PROVE j = k
  <2>1. \/ j < i /\ j \in 1 .. n /\ r[j] = q[j]
        \/ j >= i /\ j + 1 \in 1 .. n /\ r[j] = q[j + 1]
    BY <1>3
  <2>2. \/ k < i /\ k \in 1 .. n /\ r[k] = q[k]
        \/ k >= i /\ k + 1 \in 1 .. n /\ r[k] = q[k + 1]
    BY <1>3
  <2>3. \/ j = k
        \/ j < i /\ k >= i /\ j = k + 1
        \/ j >= i /\ k < i /\ j + 1 = k
        \/ j >= i /\ k >= i /\ j + 1 = k + 1
    BY <1>4, <1>5, <2>1, <2>2
  <2>4. QED
    BY <1>1, <2>3
<1>6. CellsOf(h, r) \subseteq CellsOf(h, q)
  <2>1. ASSUME NEW c \in CellsOf(h, r) PROVE c \in CellsOf(h, q)
    <3>1. CASE c = h
      BY <3>1 DEF CellsOf
    <3>2. CASE c # h
      <4>1. PICK m \in 1 .. n - 1 : c = r[m]
        BY <1>1, <3>2 DEF CellsOf
      <4>2. PICK k \in 1 .. n : c = q[k]
        BY <1>3, <4>1
      <4>3. QED
        BY <4>2 DEF CellsOf
    <3>3. QED
      BY <3>1, <3>2
  <2>2. QED
    BY <2>1
<1>7. QED
  BY <1>1, <1>2, <1>5, <1>6 DEF AllDiffer

LEMMA RemoveLinks ==
  ASSUME NEW l, NEW b, NEW l2, NEW b2, NEW h \in Heads, NEW q \in Seq(Elements),
         AllDiffer(q), Linked(l, b, h, q), NEW i \in 1 .. Len(q),
         Removes(CellsOf(h, q), l, b, l2, b2, h, q, i),
         NEW r, r = RemoveAt(q, i)
  PROVE  Linked(l2, b2, h, r) /\ AllDiffer(r) /\ CellsOf(h, r) \subseteq CellsOf(h, q)
<1> DEFINE n == Len(q)
<1>1. n \in Nat /\ i \in Nat /\ i <= n /\ i >= 1 /\ i - 1 \in 0 .. n /\ i \in 0 .. n
  OBVIOUS
<1>2. /\ r \in Seq(Elements) /\ Len(r) = n - 1
      /\ AllDiffer(r) /\ CellsOf(h, r) \subseteq CellsOf(h, q)
      /\ \A j \in 0 .. n - 1 :
           /\ j < i => CellIn(h, r, j) = CellIn(h, q, j)
           /\ j >= i => CellIn(h, r, j) = CellIn(h, q, j + 1)
           /\ j < i - 1 => /\ NextIn(r, j) = NextIn(q, j)
                           /\ BackIn(h, r, j) = BackIn(h, q, j)
           /\ j >= i - 1 => /\ NextIn(r, j) = NextIn(q, j + 1)
                            /\ BackIn(h, r, j) = BackIn(h, q, j + 1)
  BY RemoveCells
<1>3. q[i] = CellIn(h, q, i) /\ q[i] = BackIn(h, q, i - 1)
  BY <1>1 DEF CellIn, BackIn
<1>4. ASSUME NEW j \in 0 .. n, j # i, j # i - 1
      PROVE  l2[CellIn(h, q, j)] = NextIn(q, j) /\ b2[BackIn(h, q, j)] = CellIn(h, q, j)
  <2>1. /\ CellIn(h, q, j) \in CellsOf(h, q) \ {q[i], CellIn(h, q, i - 1)}
        /\ BackIn(h, q, j) \in CellsOf(h, q) \ {q[i], BackIn(h, q, i)}
    BY <1>1, <1>3, <1>4, CellsDiffer
  <2>2. QED
    BY <2>1 DEF Linked, Removes
<1>5. ASSUME NEW j \in 0 .. n - 1
      PROVE  l2[CellIn(h, r, j)] = NextIn(r, j) /\ b2[BackIn(h, r, j)] = CellIn(h, r, j)
  <2>1. CASE j < i - 1
    <3>1. j \in 0 .. n /\ j # i /\ j # i - 1 /\ j < i
      BY <1>1, <2>1
    <3>2. QED
      BY <1>2, <1>4, <2>1, <3>1
  <2>2. CASE j = i - 1
    <3>1. j < i /\ j >= i - 1 /\ j + 1 = i
      BY <1>1, <2>2
    <3>2. QED
      BY <1>2, <2>2, <3>1 DEF Removes
  <2>3. CASE j >= i
    <3>1. j + 1 \in 0 .. n /\ j + 1 # i /\ j + 1 # i - 1 /\ j >= i - 1
      BY <1>1, <2>3
    <3>2. QED
      BY <1>2, <1>4, <2>3, <3>1
  <2>4. QED
    BY <1>1, <2>1, <2>2, <2>3
<1>6. Linked(l2, b2, h, r)
  BY <1>2, <1>5 DEF Linked
<1>7. QED
  BY <1>2, <1>6

(***************************************************************************)
(* TAILQ_CONCAT, where the second queue is not empty.                      *)
(***************************************************************************)
\* Where the cells of the joined queue are: r is q with p, which was that of g,
\* behind it.
Joined(h, q, g, p, r) ==
  /\ r \in Seq(Elements) /\ Len(r) = Len(q) + Len(p) /\ Len(p) > 0
  /\ \A j \in 0 .. Len(q) : CellIn(h, r, j) = CellIn(h, q, j)
  /\ \A j \in 0 .. Len(q) - 1 : /\ NextIn(r, j) = NextIn(q, j)
                                /\ BackIn(h, r, j) = BackIn(h, q, j)
  /\ NextIn(r, Len(q)) = p[1] /\ BackIn(h, r, Len(q)) = p[1]
  /\ \A j \in 1 .. Len(p) : /\ CellIn(h, r, Len(q) + j) = CellIn(g, p, j)
                            /\ NextIn(r, Len(q) + j) = NextIn(p, j)
  /\ \A j \in 1 .. Len(p) - 1 : BackIn(h, r, Len(q) + j) = BackIn(g, p, j)
  /\ BackIn(h, r, Len(r)) = h

LEMMA ConcatCells ==
  ASSUME NEW h \in Heads, NEW g \in Heads, g # h, NEW q \in Seq(Elements),
         NEW p \in Seq(Elements), AllDiffer(q), AllDiffer(p), p # << >>,
         CellsOf(h, q) \cap CellsOf(g, p) = {}, NEW r, r = q \o p
  PROVE  /\ Joined(h, q, g, p, r)
         /\ AllDiffer(r)
         /\ \A c \in CellsOf(h, r) : c \in CellsOf(h, q) \/ (c \in CellsOf(g, p) /\ c # g)
<1> DEFINE n == Len(q)
           m == Len(p)
<1>1. /\ r \in Seq(Elements) /\ Len(r) = n + m /\ n \in Nat /\ m \in Nat
      /\ \A j \in 1 .. n : r[j] = q[j]
      /\ \A j \in 1 .. m : r[n + j] = p[j]
  <2>1. /\ q \o p \in Seq(Elements) /\ Len(q \o p) = n + m /\ n \in Nat /\ m \in Nat
        /\ \A j \in 1 .. n : (q \o p)[j] = q[j]
        /\ \A j \in 1 .. m : (q \o p)[n + j] = p[j]
    BY ConcatElements
  <2>2. QED
    BY <2>1
<1>2. m > 0
  BY EmptySeq
<1> HIDE DEF n, m
<1>3. ASSUME NEW j \in 0 .. n PROVE CellIn(h, r, j) = CellIn(h, q, j)
  BY <1>1 DEF CellIn
<1>4. ASSUME NEW j \in 0 .. n - 1
      PROVE  NextIn(r, j) = NextIn(q, j) /\ BackIn(h, r, j) = BackIn(h, q, j)
  <2>1. j + 1 \in 1 .. n /\ j # Len(r) /\ j # n
    BY <1>1
  <2>2. QED
    BY <1>1, <2>1 DEF NextIn, BackIn, n
<1>5. NextIn(r, n) = p[1] /\ BackIn(h, r, n) = p[1]
  <2>1. 1 \in 1 .. m /\ n # Len(r)
    BY <1>1, <1>2
  <2>2. QED
    BY <1>1, <2>1 DEF NextIn, BackIn
<1>6. ASSUME NEW j \in 1 .. m
      PROVE  /\ CellIn(h, r, n + j) = CellIn(g, p, j)
             /\ NextIn(r, n + j) = NextIn(p, j)
             /\ j # m => BackIn(h, r, n + j) = BackIn(g, p, j)
  <2>1. n + j # 0 /\ j # 0 /\ (n + j = Len(r) <=> j = m)
    BY <1>1
  <2>2. CellIn(h, r, n + j) = CellIn(g, p, j)
    BY <1>1, <2>1 DEF CellIn
  <2>3. CASE j = m
    BY <2>1, <2>2, <2>3 DEF NextIn, m
  <2>4. CASE j # m
    <3>1. j + 1 \in 1 .. m /\ (n + j) + 1 = n + (j + 1)
      BY <1>1, <2>4
    <3>2. r[n + (j + 1)] = p[j + 1]
      BY <1>1, <3>1
    <3>3. QED
      BY <2>1, <2>2, <2>4, <3>1, <3>2 DEF NextIn, BackIn, m
  <2>5. QED
    BY <2>3, <2>4
<1>7. BackIn(h, r, Len(r)) = h
  BY DEF BackIn
<1>8. ASSUME NEW k \in 1 .. n + m
      PROVE  \/ k \in 1 .. n /\ r[k] = q[k] /\ r[k] \in CellsOf(h, q)
             \/ k > n /\ k - n \in 1 .. m /\ r[k] = p[k - n] /\ r[k] \in CellsOf(g, p)
  <2>1. CASE k <= n
    <3>1. k \in 1 .. n /\ r[k] = q[k]
      BY <1>1, <2>1
    <3>2. QED
      BY <3>1 DEF CellsOf, n
  <2>2. CASE k > n
    <3>1. k - n \in 1 .. m /\ n + (k - n) = k
      BY <1>1, <2>2
    <3>2. r[k] = p[k - n]
      BY <1>1, <3>1
    <3>3. QED
      BY <2>2, <3>1, <3>2 DEF CellsOf, m
  <2>3. QED
    BY <1>1, <2>1, <2>2
<1>9. AllDiffer(r)
  <2>1. ASSUME NEW j \in 1 .. n + m, NEW k \in 1 .. n + m, r[j] = r[k] PROVE j = k
    <3>1. /\ \A x, y \in 1 .. n : q[x] = q[y] => x = y
          /\ \A x, y \in 1 .. m : p[x] = p[y] => x = y
      BY DEF AllDiffer, n, m
    <3>2. CASE r[j] \in CellsOf(h, q)
      <4>1. j \in 1 .. n /\ k \in 1 .. n /\ q[j] = q[k]
        BY <1>8, <2>1, <3>2
      <4>2. QED
        BY <3>1, <4>1
    <3>3. CASE r[j] \notin CellsOf(h, q)
      <4>1. /\ j - n \in 1 .. m /\ k - n \in 1 .. m /\ p[j - n] = p[k - n]
        BY <1>8, <2>1, <3>3
      <4>2. j - n = k - n
        BY <3>1, <4>1
      <4>3. QED
        BY <1>1, <4>2
    <3>4. QED
      BY <3>2, <3>3
  <2>2. QED
    BY <1>1, <2>1 DEF AllDiffer
<1>10. ASSUME NEW c \in CellsOf(h, r) PROVE c \in CellsOf(h, q) \/ (c \in CellsOf(g, p) /\ c # g)
  <2>1. CASE c = h
    BY <2>1 DEF CellsOf
  <2>2. CASE c # h
    <3>1. PICK k \in 1 .. n + m : c = r[k]
      BY <1>1, <2>2 DEF CellsOf
    <3>2. c # g
      <4>1. c \in Elements
        BY <1>1, <3>1
      <4>2. QED
        BY <4>1, QueueAssumption
    <3>3. QED
      BY <1>8, <3>1, <3>2
  <2>3. QED
    BY <2>1, <2>2
<1>11. \A j \in 1 .. m - 1 : j \in 1 .. m /\ j # m
  BY <1>1
<1>12. QED
  <2>1. Joined(h, q, g, p, r)
    BY <1>1, <1>2, <1>3, <1>4, <1>5, <1>6, <1>7, <1>11 DEF n, m, Joined
  <2>2. QED
    BY <1>9, <1>10, <2>1

LEMMA ConcatLinks ==
  ASSUME NEW l, NEW b, NEW l2, NEW b2, NEW h \in Heads, NEW g \in Heads, g # h,
         NEW q \in Seq(Elements), NEW p \in Seq(Elements),
         AllDiffer(q), AllDiffer(p), Linked(l, b, h, q), Linked(l, b, g, p), p # << >>,
         CellsOf(h, q) \cap CellsOf(g, p) = {},
         l2[b[h]] = l[g],
         \A c \in (CellsOf(h, q) \cup CellsOf(g, p)) \ {b[h], g} : l2[c] = l[c],
         b2[l[g]] = b[h], b2[h] = b[g],
         \A c \in (CellsOf(h, q) \cup CellsOf(g, p)) \ {l[g], h, g} : b2[c] = b[c]
  PROVE  Linked(l2, b2, h, q \o p)
<1> DEFINE n == Len(q)
           m == Len(p)
<1>0. PICK r : r = q \o p
  OBVIOUS
<1>1. /\ r \in Seq(Elements) /\ Len(r) = n + m /\ m > 0
      /\ \A j \in 0 .. n : CellIn(h, r, j) = CellIn(h, q, j)
      /\ \A j \in 0 .. n - 1 : /\ NextIn(r, j) = NextIn(q, j)
                               /\ BackIn(h, r, j) = BackIn(h, q, j)
      /\ NextIn(r, n) = p[1] /\ BackIn(h, r, n) = p[1]
      /\ \A j \in 1 .. m : /\ CellIn(h, r, n + j) = CellIn(g, p, j)
                           /\ NextIn(r, n + j) = NextIn(p, j)
      /\ \A j \in 1 .. m - 1 : BackIn(h, r, n + j) = BackIn(g, p, j)
      /\ BackIn(h, r, Len(r)) = h
  <2>1. Joined(h, q, g, p, r)
    BY <1>0, ConcatCells
  <2>2. QED
    BY <2>1 DEF Joined
<1>2. n \in Nat /\ m \in Nat
  OBVIOUS
<1>3. /\ \A j \in 0 .. n : l[CellIn(h, q, j)] = NextIn(q, j) /\ b[BackIn(h, q, j)] = CellIn(h, q, j)
      /\ \A j \in 0 .. m : l[CellIn(g, p, j)] = NextIn(p, j) /\ b[BackIn(g, p, j)] = CellIn(g, p, j)
  BY DEF Linked
<1>4. /\ \A i, j \in 0 .. n : CellIn(h, q, i) = CellIn(h, q, j) => i = j
      /\ \A i, j \in 0 .. n : BackIn(h, q, i) = BackIn(h, q, j) => i = j
      /\ \A i \in 0 .. n : CellIn(h, q, i) \in CellsOf(h, q) /\ BackIn(h, q, i) \in CellsOf(h, q)
  BY CellsDiffer
<1>5. /\ \A i, j \in 0 .. m : CellIn(g, p, i) = CellIn(g, p, j) => i = j
      /\ \A i, j \in 0 .. m : BackIn(g, p, i) = BackIn(g, p, j) => i = j
      /\ \A i \in 0 .. m : CellIn(g, p, i) \in CellsOf(g, p) /\ BackIn(g, p, i) \in CellsOf(g, p)
  BY CellsDiffer
<1>6. /\ h = CellIn(h, q, 0) /\ h = BackIn(h, q, n)
      /\ g = CellIn(g, p, 0) /\ g = BackIn(g, p, m)
      /\ p[1] = NextIn(p, 0) /\ p[1] = BackIn(g, p, 0)
  BY <1>1, <1>2 DEF CellIn, BackIn, NextIn
<1>7. /\ b[h] = CellIn(h, q, n) /\ l[g] = p[1] /\ b[g] = CellIn(g, p, m)
      /\ n \in 0 .. n /\ 0 \in 0 .. m /\ m \in 0 .. m /\ 0 \in 0 .. n
  <2>1. n \in 0 .. n /\ 0 \in 0 .. m /\ m \in 0 .. m /\ 0 \in 0 .. n
    BY <1>2
  <2>2. QED
    BY <1>3, <1>6, <2>1
<1> HIDE DEF n, m
<1>8. ASSUME NEW j \in 0 .. n + m
      PROVE  l2[CellIn(h, r, j)] = NextIn(r, j) /\ b2[BackIn(h, r, j)] = CellIn(h, r, j)
  <2>1. CASE j < n
    <3>1. j \in 0 .. n /\ j \in 0 .. n - 1 /\ j # n
      BY <1>2, <2>1
    <3>2. /\ CellIn(h, q, j) \in CellsOf(h, q) /\ CellIn(h, q, j) # b[h] /\ CellIn(h, q, j) # g
          /\ BackIn(h, q, j) \in CellsOf(h, q) /\ BackIn(h, q, j) # h
          /\ BackIn(h, q, j) # g /\ BackIn(h, q, j) # l[g]
      BY <1>4, <1>5, <1>6, <1>7, <3>1
    <3>3. /\ l2[CellIn(h, q, j)] = NextIn(q, j)
          /\ b2[BackIn(h, q, j)] = CellIn(h, q, j)
      BY <1>3, <3>1, <3>2
    <3>4. QED
      BY <1>1, <3>1, <3>3
  <2>2. CASE j = n
    BY <1>1, <1>7, <2>2
  <2>3. CASE j > n
    <3> DEFINE k == j - n
    <3>1. k \in 1 .. m /\ k \in 0 .. m /\ k # 0 /\ j = n + k
      BY <1>2, <2>3
    <3> HIDE DEF k
    <3>2. CellIn(g, p, k) \in CellsOf(g, p) /\ CellIn(g, p, k) # b[h] /\ CellIn(g, p, k) # g
      BY <1>4, <1>5, <1>6, <1>7, <3>1
    <3>3. l2[CellIn(g, p, k)] = NextIn(p, k)
      BY <1>3, <3>1, <3>2
    <3>4. l2[CellIn(h, r, j)] = NextIn(r, j)
      BY <1>1, <3>1, <3>3
    <3>5. CASE k = m
      <4>1. j = Len(r)
        BY <1>1, <3>1, <3>5
      <4>2. BackIn(h, r, j) = h /\ CellIn(h, r, j) = CellIn(g, p, m)
        BY <1>1, <3>1, <3>5, <4>1
      <4>3. QED
        BY <1>7, <3>4, <4>2
    <3>6. CASE k # m
      <4>1. k \in 1 .. m - 1
        BY <1>2, <3>1, <3>6
      <4>2. /\ BackIn(g, p, k) \in CellsOf(g, p) /\ BackIn(g, p, k) # l[g]
            /\ BackIn(g, p, k) # h /\ BackIn(g, p, k) # g
        BY <1>4, <1>5, <1>6, <1>7, <3>1, <3>6
      <4>3. b2[BackIn(g, p, k)] = CellIn(g, p, k)
        BY <1>3, <3>1, <4>2
      <4>4. QED
        BY <1>1, <3>1, <3>4, <4>1, <4>3
    <3>7. QED
      BY <3>5, <3>6
  <2>4. QED
    BY <1>2, <2>1, <2>2, <2>3
<1>9. QED
  BY <1>0, <1>1, <1>8 DEF Linked

(***************************************************************************)
(* One half of TAILQ_SWAP: head h takes over the elements of g.            *)
(***************************************************************************)
TakesFrom(l, b, l2, b2, h, g, q) ==
  /\ l2[h] = l[g] /\ \A c \in CellsOf(g, q) \ {g} : l2[c] = l[c]
  /\ b2[h] = (IF l[g] = NULL THEN h ELSE b[g])
  /\ l[g] # NULL => b2[l[g]] = h
  /\ \A c \in CellsOf(g, q) \ {g, l[g]} : b2[c] = b[c]

LEMMA TakesOver ==
  ASSUME NEW l, NEW b, NEW l2, NEW b2, NEW h \in Heads, NEW g \in Heads,
         NEW q \in Seq(Elements), AllDiffer(q), Linked(l, b, g, q),
         TakesFrom(l, b, l2, b2, h, g, q)
  PROVE  /\ Linked(l2, b2, h, q)
         /\ \A c \in CellsOf(h, q) : c = h \/ (c \in CellsOf(g, q) /\ c # g)
<1> DEFINE n == Len(q)
<1>1. n \in Nat /\ 0 \in 0 .. n /\ n \in 0 .. n
  OBVIOUS
<1>2. \A j \in 0 .. n : l[CellIn(g, q, j)] = NextIn(q, j) /\ b[BackIn(g, q, j)] = CellIn(g, q, j)
  BY DEF Linked
<1>3. /\ \A i, j \in 0 .. n : CellIn(g, q, i) = CellIn(g, q, j) => i = j
      /\ \A i, j \in 0 .. n : BackIn(g, q, i) = BackIn(g, q, j) => i = j
      /\ \A i \in 0 .. n : CellIn(g, q, i) \in CellsOf(g, q) /\ BackIn(g, q, i) \in CellsOf(g, q)
  BY CellsDiffer
<1>4. /\ g = CellIn(g, q, 0) /\ g = BackIn(g, q, n)
      /\ h = CellIn(h, q, 0) /\ h = BackIn(h, q, n)
      /\ n # 0 => BackIn(g, q, 0) = q[1] /\ NextIn(q, 0) = q[1] /\ BackIn(h, q, 0) = q[1]
      /\ n = 0 => NextIn(q, 0) = NULL
      /\ \A j \in 0 .. n : j # 0 => CellIn(h, q, j) = CellIn(g, q, j)
      /\ \A j \in 0 .. n : j # n => BackIn(h, q, j) = BackIn(g, q, j)
  BY <1>1 DEF CellIn, BackIn, NextIn
<1>5. /\ l[g] = NextIn(q, 0) /\ b[g] = CellIn(g, q, n)
      /\ n # 0 => l[g] = BackIn(g, q, 0) /\ l[g] # NULL
      /\ n = 0 => l[g] = NULL
  <2>1. l[g] = NextIn(q, 0) /\ b[g] = CellIn(g, q, n)
    BY <1>1, <1>2, <1>4
  <2>2. n # 0 => q[1] \in Elements
    <3>1. n # 0 => 1 \in 1 .. n
      BY <1>1
    <3>2. QED
      BY <3>1
  <2>3. QED
    BY <1>4, <2>1, <2>2, QueueAssumption
<1> HIDE DEF n
<1>6. ASSUME NEW j \in 0 .. n PROVE l2[CellIn(h, q, j)] = NextIn(q, j)
  <2>1. CASE j = 0
    BY <1>4, <1>5, <2>1 DEF TakesFrom
  <2>2. CASE j # 0
    <3>1. CellIn(g, q, j) \in CellsOf(g, q) \ {g}
      BY <1>1, <1>3, <1>4, <2>2
    <3>2. QED
      BY <1>2, <1>4, <2>2, <3>1 DEF TakesFrom
  <2>3. QED
    BY <2>1, <2>2
<1>7. ASSUME NEW j \in 0 .. n PROVE b2[BackIn(h, q, j)] = CellIn(h, q, j)
  <2>1. CASE n = 0
    <3>1. j = 0
      BY <2>1
    <3>2. QED
      BY <1>4, <1>5, <2>1, <3>1 DEF TakesFrom
  <2>2. CASE n # 0 /\ j = 0
    BY <1>4, <1>5, <2>2 DEF TakesFrom
  <2>3. CASE n # 0 /\ j = n
    BY <1>1, <1>4, <1>5, <2>3 DEF TakesFrom
  <2>4. CASE j # 0 /\ j # n
    <3>1. n # 0
      BY <1>1, <2>4
    <3>2. BackIn(g, q, j) \in CellsOf(g, q) \ {g, l[g]}
      BY <1>1, <1>3, <1>4, <1>5, <2>4, <3>1
    <3>3. QED
      BY <1>2, <1>4, <2>4, <3>2 DEF TakesFrom
  <2>5. QED
    BY <2>1, <2>2, <2>3, <2>4
<1>8. \A c \in CellsOf(h, q) : c = h \/ (c \in CellsOf(g, q) /\ c # g)
  <2>1. \A k \in 1 .. Len(q) : q[k] # g
    BY QueueAssumption
  <2>2. QED
    BY <2>1 DEF CellsOf
<1>9. QED
  BY <1>6, <1>7, <1>8 DEF Linked, n
-----------------------------------------------------------------------------
(***************************************************************************)
(* All the queues.  Their cells are apart, so that what is assigned to     *)
(* those of one is nothing to the others.                                  *)
(***************************************************************************)
Links == [Cells -> Elements \cup {NULL, Trash}]
Backs == [Cells -> Cells \cup {Trash}]

PointersOK(l, b, Q) ==
  /\ l \in Links /\ b \in Backs
  /\ Q \in [Heads -> Seq(Elements)]
  /\ \A h \in Heads : AllDiffer(Q[h]) /\ Linked(l, b, h, Q[h])
  /\ \A g, h \in Heads : g # h => CellsOf(g, Q[g]) \cap CellsOf(h, Q[h]) = {}

LEMMA PlacesAreCells ==
  ASSUME NEW h \in Heads, NEW q \in Seq(Elements)
  PROVE  /\ CellsOf(h, q) \subseteq Cells
         /\ \A i \in 0 .. Len(q) :
              CellIn(h, q, i) \in Cells /\ BackIn(h, q, i) \in Cells
         /\ \A i \in 0 .. Len(q) : NextIn(q, i) \in Elements \cup {NULL}
<1>1. \A i \in 1 .. Len(q) : q[i] \in Elements
  OBVIOUS
<1>2. CellsOf(h, q) \subseteq Cells
  BY <1>1 DEF CellsOf, Cells
<1>3. ASSUME NEW i \in 0 .. Len(q)
      PROVE  /\ CellIn(h, q, i) \in Cells /\ BackIn(h, q, i) \in Cells
             /\ NextIn(q, i) \in Elements \cup {NULL}
  <2>1. (i = 0 \/ i \in 1 .. Len(q)) /\ (i = Len(q) \/ i + 1 \in 1 .. Len(q))
    OBVIOUS
  <2>2. QED
    BY <1>1, <2>1 DEF CellIn, BackIn, NextIn, Cells
<1>4. QED
  BY <1>2, <1>3

\* One queue changes, with cells that are not those of another.
OthersAlone(l, b, l2, b2, Q, h, r) ==
  \A g \in Heads \ {h} :
    /\ CellsOf(g, Q[g]) \cap CellsOf(h, r) = {}
    /\ \A c \in CellsOf(g, Q[g]) : l2[c] = l[c] /\ b2[c] = b[c]

LEMMA OneQueueChanges ==
  ASSUME NEW l, NEW b, NEW Q, PointersOK(l, b, Q), NEW l2 \in Links, NEW b2 \in Backs,
         NEW h \in Heads, NEW r \in Seq(Elements), NEW Q2, Q2 = [Q EXCEPT ![h] = r],
         AllDiffer(r), Linked(l2, b2, h, r),
         OthersAlone(l, b, l2, b2, Q, h, r)
  PROVE  PointersOK(l2, b2, Q2)
<1>1. /\ Q2 \in [Heads -> Seq(Elements)] /\ Q2[h] = r
      /\ \A g \in Heads \ {h} : Q2[g] = Q[g] /\ Q[g] \in Seq(Elements)
  BY DEF PointersOK
<1>2. ASSUME NEW g \in Heads PROVE AllDiffer(Q2[g]) /\ Linked(l2, b2, g, Q2[g])
  <2>1. CASE g = h
    BY <1>1, <2>1
  <2>2. CASE g # h
    <3>1. Q[g] \in Seq(Elements) /\ AllDiffer(Q[g]) /\ Linked(l, b, g, Q[g])
      BY <1>1, <2>2 DEF PointersOK
    <3>2. Linked(l2, b2, g, Q[g])
      <4>1. \A c \in CellsOf(g, Q[g]) : l2[c] = l[c] /\ b2[c] = b[c]
        BY <2>2 DEF OthersAlone
      <4>2. QED
        BY <3>1, <4>1, OthersStayLinked
    <3>3. QED
      BY <1>1, <2>2, <3>1, <3>2
  <2>3. QED
    BY <2>1, <2>2
<1>3. ASSUME NEW f \in Heads, NEW g \in Heads, f # g
      PROVE  CellsOf(f, Q2[f]) \cap CellsOf(g, Q2[g]) = {}
  <2>1. CASE f = h
    BY <1>1, <1>3, <2>1 DEF OthersAlone
  <2>2. CASE g = h
    BY <1>1, <1>3, <2>2 DEF OthersAlone
  <2>3. CASE f # h /\ g # h
    BY <1>1, <1>3, <2>3 DEF PointersOK
  <2>4. QED
    BY <2>1, <2>2, <2>3
<1>4. QED
  BY <1>1, <1>2, <1>3 DEF PointersOK

\* An element that is in no queue comes behind the first i of h.
LEMMA InsertKeeps ==
  ASSUME NEW l, NEW b, NEW Q, PointersOK(l, b, Q), NEW l2 \in Links, NEW b2 \in Backs,
         NEW h \in Heads, NEW i \in 0 .. Len(Q[h]), NEW e \in Elements,
         \A g \in Heads : e \notin CellsOf(g, Q[g]),
         Inserts(Cells, l, b, l2, b2, h, Q[h], i, e),
         NEW Q2, Q2 = [Q EXCEPT ![h] = InsertAt(Q[h], i + 1, e)]
  PROVE  PointersOK(l2, b2, Q2)
<1>1. PICK q : q = Q[h]
  OBVIOUS
<1>2. PICK r : r = InsertAt(q, i + 1, e)
  OBVIOUS
<1>3. /\ q \in Seq(Elements) /\ AllDiffer(q) /\ Linked(l, b, h, q)
      /\ i \in 0 .. Len(q) /\ e \notin CellsOf(h, q)
      /\ CellsOf(h, q) \subseteq Cells
  <2>1. q \in Seq(Elements) /\ AllDiffer(q) /\ Linked(l, b, h, q)
    BY <1>1 DEF PointersOK
  <2>2. QED
    BY <1>1, <2>1, PlacesAreCells
<1>4. /\ CellIn(h, q, i) \in CellsOf(h, q) /\ BackIn(h, q, i) \in CellsOf(h, q)
      /\ Len(q) \in Nat
  BY <1>3, CellsDiffer
<1>5. Linked(l2, b2, h, r) /\ AllDiffer(r) /\ CellsOf(h, r) = CellsOf(h, q) \cup {e}
  <2>1. Inserts(CellsOf(h, q), l, b, l2, b2, h, q, i, e)
    BY <1>1, <1>3 DEF Inserts
  <2>2. QED
    BY <1>2, <1>3, <2>1, InsertLinks
<1>6. r \in Seq(Elements)
  BY <1>2, <1>3, InsertAtIs
<1>7. ASSUME NEW g \in Heads \ {h}
      PROVE  /\ CellsOf(g, Q[g]) \cap CellsOf(h, r) = {}
             /\ \A c \in CellsOf(g, Q[g]) : l2[c] = l[c] /\ b2[c] = b[c]
  <2>1. /\ CellsOf(g, Q[g]) \cap CellsOf(h, q) = {} /\ e \notin CellsOf(g, Q[g])
        /\ Q[g] \in Seq(Elements)
    BY <1>1 DEF PointersOK
  <2>2. CellsOf(g, Q[g]) \subseteq Cells
    BY <2>1, PlacesAreCells
  <2>3. QED
    BY <1>1, <1>4, <1>5, <2>1, <2>2 DEF Inserts
<1>8. Q2 = [Q EXCEPT ![h] = r]
  BY <1>1, <1>2
<1>9. QED
  <2>1. OthersAlone(l, b, l2, b2, Q, h, r)
    BY <1>7 DEF OthersAlone
  <2>2. QED
    BY <1>5, <1>6, <1>8, <2>1, OneQueueChanges

\* The i-th element of h leaves; what its own pointers become does not matter.
LEMMA RemoveKeeps ==
  ASSUME NEW l, NEW b, NEW Q, PointersOK(l, b, Q), NEW l2 \in Links, NEW b2 \in Backs,
         NEW h \in Heads, NEW i \in 1 .. Len(Q[h]),
         Removes(Cells, l, b, l2, b2, h, Q[h], i),
         NEW Q2, Q2 = [Q EXCEPT ![h] = RemoveAt(Q[h], i)]
  PROVE  PointersOK(l2, b2, Q2)
<1>1. PICK q : q = Q[h]
  OBVIOUS
<1>2. PICK r : r = RemoveAt(q, i)
  OBVIOUS
<1>3. /\ q \in Seq(Elements) /\ AllDiffer(q) /\ Linked(l, b, h, q)
      /\ i \in 1 .. Len(q) /\ i \in 0 .. Len(q) /\ i - 1 \in 0 .. Len(q)
      /\ CellsOf(h, q) \subseteq Cells
  <2>1. q \in Seq(Elements) /\ AllDiffer(q) /\ Linked(l, b, h, q)
    BY <1>1 DEF PointersOK
  <2>2. i \in 1 .. Len(q) /\ i \in 0 .. Len(q) /\ i - 1 \in 0 .. Len(q)
    BY <1>1, <2>1
  <2>3. QED
    BY <2>1, <2>2, PlacesAreCells
<1>4. /\ CellIn(h, q, i - 1) \in CellsOf(h, q) /\ BackIn(h, q, i) \in CellsOf(h, q)
      /\ q[i] \in CellsOf(h, q)
  BY <1>3, CellsDiffer DEF CellsOf
<1>5. Linked(l2, b2, h, r) /\ AllDiffer(r) /\ CellsOf(h, r) \subseteq CellsOf(h, q)
  <2>1. Removes(CellsOf(h, q), l, b, l2, b2, h, q, i)
    BY <1>1, <1>3 DEF Removes
  <2>2. /\ q \in Seq(Elements) /\ AllDiffer(q) /\ Linked(l, b, h, q)
        /\ i \in 1 .. Len(q)
    BY <1>3
  <2>3. QED
    BY <1>2, <2>1, <2>2, RemoveLinks
<1>6. r \in Seq(Elements)
  BY <1>2, <1>3, RemoveAtIs
<1>7. ASSUME NEW g \in Heads \ {h}
      PROVE  /\ CellsOf(g, Q[g]) \cap CellsOf(h, r) = {}
             /\ \A c \in CellsOf(g, Q[g]) : l2[c] = l[c] /\ b2[c] = b[c]
  <2>1. CellsOf(g, Q[g]) \cap CellsOf(h, q) = {} /\ Q[g] \in Seq(Elements)
    BY <1>1 DEF PointersOK
  <2>2. CellsOf(g, Q[g]) \subseteq Cells
    BY <2>1, PlacesAreCells
  <2>3. QED
    BY <1>1, <1>4, <1>5, <2>1, <2>2 DEF Removes
<1>8. Q2 = [Q EXCEPT ![h] = r]
  BY <1>1, <1>2
<1>9. QED
  <2>1. OthersAlone(l, b, l2, b2, Q, h, r)
    BY <1>7 DEF OthersAlone
  <2>2. QED
    BY <1>5, <1>6, <1>8, <2>1, OneQueueChanges

\* Two queues change, among the cells that were theirs.
WithinTwo(l, b, l2, b2, Q, h, g, r, s) ==
  /\ CellsOf(h, r) \cap CellsOf(g, s) = {}
  /\ \A c \in CellsOf(h, r) \cup CellsOf(g, s) : c \in CellsOf(h, Q[h]) \cup CellsOf(g, Q[g])
  /\ \A c \in Cells : c \notin CellsOf(h, Q[h]) \cup CellsOf(g, Q[g]) =>
       l2[c] = l[c] /\ b2[c] = b[c]

LEMMA TwoQueuesChange ==
  ASSUME NEW l, NEW b, NEW Q, PointersOK(l, b, Q), NEW l2 \in Links, NEW b2 \in Backs,
         NEW h \in Heads, NEW g \in Heads, g # h,
         NEW r \in Seq(Elements), NEW s \in Seq(Elements),
         NEW Q2, Q2 = [Q EXCEPT ![h] = r, ![g] = s],
         AllDiffer(r), Linked(l2, b2, h, r), AllDiffer(s), Linked(l2, b2, g, s),
         WithinTwo(l, b, l2, b2, Q, h, g, r, s)
  PROVE  PointersOK(l2, b2, Q2)
<1>1. /\ Q2 \in [Heads -> Seq(Elements)] /\ Q2[h] = r /\ Q2[g] = s
      /\ \A f \in Heads \ {h, g} : Q2[f] = Q[f] /\ Q[f] \in Seq(Elements)
  BY DEF PointersOK
<1>2. ASSUME NEW f \in Heads \ {h, g}
      PROVE  /\ CellsOf(f, Q[f]) \subseteq Cells
             /\ CellsOf(f, Q[f]) \cap CellsOf(h, Q[h]) = {}
             /\ CellsOf(f, Q[f]) \cap CellsOf(g, Q[g]) = {}
  BY <1>1, PlacesAreCells DEF PointersOK
<1>3. ASSUME NEW f \in Heads PROVE AllDiffer(Q2[f]) /\ Linked(l2, b2, f, Q2[f])
  <2>1. CASE f \in {h, g}
    BY <1>1, <2>1
  <2>2. CASE f \notin {h, g}
    <3>1. Q[f] \in Seq(Elements) /\ AllDiffer(Q[f]) /\ Linked(l, b, f, Q[f])
      BY <1>1, <2>2 DEF PointersOK
    <3>2. \A c \in CellsOf(f, Q[f]) : l2[c] = l[c] /\ b2[c] = b[c]
      BY <1>2, <2>2 DEF WithinTwo
    <3>3. Linked(l2, b2, f, Q[f])
      BY <3>1, <3>2, OthersStayLinked
    <3>4. QED
      BY <1>1, <2>2, <3>1, <3>3
  <2>3. QED
    BY <2>1, <2>2
<1>4. ASSUME NEW f \in Heads \ {h, g}
      PROVE  CellsOf(f, Q[f]) \cap CellsOf(h, r) = {} /\ CellsOf(f, Q[f]) \cap CellsOf(g, s) = {}
  BY <1>2 DEF WithinTwo
<1>5. ASSUME NEW f \in Heads, NEW k \in Heads, f # k
      PROVE  CellsOf(f, Q2[f]) \cap CellsOf(k, Q2[k]) = {}
  <2>1. CASE f \in {h, g} /\ k \in {h, g}
    BY <1>1, <1>5, <2>1 DEF WithinTwo
  <2>2. CASE f \notin {h, g} /\ k \in {h, g}
    BY <1>1, <1>4, <2>2
  <2>3. CASE f \in {h, g} /\ k \notin {h, g}
    BY <1>1, <1>4, <2>3
  <2>4. CASE f \notin {h, g} /\ k \notin {h, g}
    BY <1>1, <1>5, <2>4 DEF PointersOK
  <2>5. QED
    BY <2>1, <2>2, <2>3, <2>4
<1>6. QED
  BY <1>1, <1>3, <1>5 DEF PointersOK

\* The head of a queue knows its first and its last cell.
LEMMA HeadKnows ==
  ASSUME NEW l, NEW b, NEW h \in Heads, NEW q \in Seq(Elements), Linked(l, b, h, q)
  PROVE  /\ b[h] = CellIn(h, q, Len(q)) /\ b[h] \in CellsOf(h, q) /\ h \in CellsOf(h, q)
         /\ q = << >> => l[h] = NULL /\ b[h] = h
         /\ q # << >> => /\ l[h] = q[1] /\ l[h] \in Elements /\ l[h] # NULL
                         /\ l[h] \in CellsOf(h, q)
<1>1. Len(q) \in Nat /\ 0 \in 0 .. Len(q) /\ Len(q) \in 0 .. Len(q)
  OBVIOUS
<1>2. l[h] = NextIn(q, 0) /\ b[h] = CellIn(h, q, Len(q))
  BY <1>1 DEF Linked, CellIn, BackIn
<1>3. b[h] \in CellsOf(h, q) /\ h \in CellsOf(h, q)
  BY <1>1, <1>2 DEF CellIn, CellsOf
<1>4. CASE q = << >>
  BY <1>2, <1>3, <1>4 DEF NextIn, CellIn
<1>5. CASE q # << >>
  <2>1. Len(q) # 0 /\ 1 \in 1 .. Len(q) /\ q[1] \in Elements
    BY <1>1, <1>5, EmptySeq
  <2>2. l[h] = q[1] /\ q[1] \in CellsOf(h, q)
    BY <1>2, <2>1 DEF NextIn, CellsOf
  <2>3. QED
    BY <1>2, <1>3, <1>5, <2>1, <2>2, QueueAssumption
<1>6. QED
  BY <1>4, <1>5

\* The elements of g go behind those of h.
Concats(l, b, l2, b2, h, g) ==
  /\ l2[b[h]] = l[g] /\ l2[g] = NULL
  /\ \A c \in Cells \ {b[h], g} : l2[c] = l[c]
  /\ b2[l[g]] = b[h] /\ b2[h] = b[g] /\ b2[g] = g
  /\ \A c \in Cells \ {l[g], h, g} : b2[c] = b[c]

LEMMA ConcatKeeps ==
  ASSUME NEW l, NEW b, NEW Q, PointersOK(l, b, Q), NEW l2 \in Links, NEW b2 \in Backs,
         NEW h \in Heads, NEW g \in Heads, g # h, Q[g] # << >>, Concats(l, b, l2, b2, h, g),
         NEW Q2, Q2 = [Q EXCEPT ![h] = Q[h] \o Q[g], ![g] = << >>]
  PROVE  PointersOK(l2, b2, Q2)
<1>1. PICK q : q = Q[h]
  OBVIOUS
<1>2. PICK p : p = Q[g]
  OBVIOUS
<1>3. PICK r : r = q \o p
  OBVIOUS
<1>4. PICK s : s = << >>
  OBVIOUS
<1>5. /\ q \in Seq(Elements) /\ AllDiffer(q) /\ Linked(l, b, h, q) /\ CellsOf(h, q) \subseteq Cells
      /\ p \in Seq(Elements) /\ AllDiffer(p) /\ Linked(l, b, g, p) /\ CellsOf(g, p) \subseteq Cells
      /\ p # << >> /\ CellsOf(h, q) \cap CellsOf(g, p) = {}
  BY <1>1, <1>2, PlacesAreCells DEF PointersOK
<1>6. /\ Joined(h, q, g, p, r) /\ AllDiffer(r)
      /\ \A c \in CellsOf(h, r) : c \in CellsOf(h, q) \/ (c \in CellsOf(g, p) /\ c # g)
  BY <1>3, <1>5, ConcatCells
<1>7. Linked(l2, b2, h, r)
  <2>1. /\ l2[b[h]] = l[g]
        /\ \A c \in (CellsOf(h, q) \cup CellsOf(g, p)) \ {b[h], g} : l2[c] = l[c]
        /\ b2[l[g]] = b[h] /\ b2[h] = b[g]
        /\ \A c \in (CellsOf(h, q) \cup CellsOf(g, p)) \ {l[g], h, g} : b2[c] = b[c]
    BY <1>5 DEF Concats
  <2>2. QED
    BY <1>3, <1>5, <2>1, ConcatLinks
<1>8. /\ s \in Seq(Elements) /\ Len(s) = 0 /\ AllDiffer(s) /\ Linked(l2, b2, g, s)
      /\ CellsOf(g, s) = {g}
  <2>1. s \in Seq(Elements) /\ Len(s) = 0
    BY <1>4
  <2>2. AllDiffer(s) /\ CellsOf(g, s) = {g}
    BY <2>1 DEF AllDiffer, CellsOf
  <2>3. Linked(l2, b2, g, s)
    <3>1. \A i \in 0 .. 0 : CellIn(g, s, i) = g /\ NextIn(s, i) = NULL /\ BackIn(g, s, i) = g
      BY <2>1 DEF CellIn, NextIn, BackIn
    <3>2. l2[g] = NULL /\ b2[g] = g
      BY DEF Concats
    <3>3. QED
      BY <2>1, <3>1, <3>2 DEF Linked
  <2>4. QED
    BY <2>1, <2>2, <2>3
<1>9. WithinTwo(l, b, l2, b2, Q, h, g, r, s)
  <2>1. /\ g \in CellsOf(g, p) /\ h \in CellsOf(h, q)
        /\ b[h] \in CellsOf(h, q) /\ l[g] \in CellsOf(g, p)
    BY <1>5, HeadKnows
  <2>2. QED
    BY <1>1, <1>2, <1>5, <1>6, <1>8, <2>1 DEF WithinTwo, Concats
<1>10. Q2 = [Q EXCEPT ![h] = r, ![g] = s]
  BY <1>1, <1>2, <1>3, <1>4
<1>11. r \in Seq(Elements)
  BY <1>6 DEF Joined
<1>12. QED
  BY <1>6, <1>7, <1>8, <1>9, <1>10, <1>11, TwoQueuesChange

\* The queues h and g exchange their elements.
Swaps(l, b, l2, b2, h, g) ==
  /\ l2[h] = l[g] /\ l2[g] = l[h]
  /\ \A c \in Cells \ {h, g} : l2[c] = l[c]
  /\ b2[h] = (IF l[g] = NULL THEN h ELSE b[g]) /\ (l[g] # NULL => b2[l[g]] = h)
  /\ b2[g] = (IF l[h] = NULL THEN g ELSE b[h]) /\ (l[h] # NULL => b2[l[h]] = g)
  /\ \A c \in Cells \ {h, g, l[h], l[g]} : b2[c] = b[c]

LEMMA SwapKeeps ==
  ASSUME NEW l, NEW b, NEW Q, PointersOK(l, b, Q), NEW l2 \in Links, NEW b2 \in Backs,
         NEW h \in Heads, NEW g \in Heads, g # h, Swaps(l, b, l2, b2, h, g),
         NEW Q2, Q2 = [Q EXCEPT ![h] = Q[g], ![g] = Q[h]]
  PROVE  PointersOK(l2, b2, Q2)
<1>1. PICK q : q = Q[h]
  OBVIOUS
<1>2. PICK p : p = Q[g]
  OBVIOUS
<1>3. /\ q \in Seq(Elements) /\ AllDiffer(q) /\ Linked(l, b, h, q) /\ CellsOf(h, q) \subseteq Cells
      /\ p \in Seq(Elements) /\ AllDiffer(p) /\ Linked(l, b, g, p) /\ CellsOf(g, p) \subseteq Cells
      /\ CellsOf(h, q) \cap CellsOf(g, p) = {}
  BY <1>1, <1>2, PlacesAreCells DEF PointersOK
<1>4. /\ g \in CellsOf(g, p) /\ h \in CellsOf(h, q)
      /\ l[h] # NULL => l[h] \in CellsOf(h, q)
      /\ l[g] # NULL => l[g] \in CellsOf(g, p)
      /\ NULL \notin Cells
  <2>1. NULL \notin Cells
    BY QueueAssumption DEF Cells
  <2>2. /\ h \in CellsOf(h, q)
        /\ l[h] # NULL => l[h] \in CellsOf(h, q)
    BY <1>3, HeadKnows
  <2>3. /\ g \in CellsOf(g, p)
        /\ l[g] # NULL => l[g] \in CellsOf(g, p)
    BY <1>3, HeadKnows
  <2>4. QED
    BY <2>1, <2>2, <2>3
<1>5. /\ Linked(l2, b2, h, p)
      /\ \A c \in CellsOf(h, p) : c = h \/ (c \in CellsOf(g, p) /\ c # g)
  <2>1. TakesFrom(l, b, l2, b2, h, g, p)
    BY <1>3, <1>4 DEF Swaps, TakesFrom
  <2>2. p \in Seq(Elements) /\ AllDiffer(p) /\ Linked(l, b, g, p)
    BY <1>3
  <2>3. Linked(l2, b2, h, p)
    BY <2>1, <2>2, TakesOver
  <2>4. \A c \in CellsOf(h, p) : c = h \/ (c \in CellsOf(g, p) /\ c # g)
    BY <2>1, <2>2, TakesOver
  <2>5. QED
    BY <2>3, <2>4
<1>6. /\ Linked(l2, b2, g, q)
      /\ \A c \in CellsOf(g, q) : c = g \/ (c \in CellsOf(h, q) /\ c # h)
  <2>1. TakesFrom(l, b, l2, b2, g, h, q)
    BY <1>3, <1>4 DEF Swaps, TakesFrom
  <2>2. q \in Seq(Elements) /\ AllDiffer(q) /\ Linked(l, b, h, q)
    BY <1>3
  <2>3. Linked(l2, b2, g, q)
    BY <2>1, <2>2, TakesOver
  <2>4. \A c \in CellsOf(g, q) : c = g \/ (c \in CellsOf(h, q) /\ c # h)
    BY <2>1, <2>2, TakesOver
  <2>5. QED
    BY <2>3, <2>4
<1>7. WithinTwo(l, b, l2, b2, Q, h, g, p, q)
  BY <1>1, <1>2, <1>3, <1>4, <1>5, <1>6 DEF WithinTwo, Swaps
<1>8. Q2 = [Q EXCEPT ![h] = p, ![g] = q]
  BY <1>1, <1>2
<1>9. QED
  BY <1>3, <1>5, <1>6, <1>7, <1>8, TwoQueuesChange

-----------------------------------------------------------------------------
(***************************************************************************)
(* The macros do what the lemmas above ask for.                            *)
(***************************************************************************)
QueuesOK == PointersOK(link, back, queue)

LEMMA OutsideIs ==
  ASSUME NEW e \in Outside
  PROVE  e \in Elements /\ \A g \in Heads : e \notin CellsOf(g, queue[g])
  BY QueueAssumption DEF Outside, Contains, CellsOf

\* The places of a queue, and what their pointers hold.
LEMMA PlaceIs ==
  ASSUME QueuesOK, NEW h \in Heads, NEW i \in 0 .. Len(queue[h])
  PROVE  /\ queue[h] \in Seq(Elements) /\ Len(queue[h]) \in Nat
         /\ CellIn(h, queue[h], i) \in Cells /\ BackIn(h, queue[h], i) \in Cells
         /\ NextIn(queue[h], i) \in Elements \cup {NULL}
         /\ link[CellIn(h, queue[h], i)] = NextIn(queue[h], i)
         /\ back[BackIn(h, queue[h], i)] = CellIn(h, queue[h], i)
         /\ BackIn(h, queue[h], i) = After(h, CellIn(h, queue[h], i))
<1>1. queue[h] \in Seq(Elements) /\ Linked(link, back, h, queue[h])
  BY DEF QueuesOK, PointersOK
<1>2. /\ CellIn(h, queue[h], i) \in Cells /\ BackIn(h, queue[h], i) \in Cells
      /\ NextIn(queue[h], i) \in Elements \cup {NULL}
  BY <1>1, PlacesAreCells
<1>3. /\ link[CellIn(h, queue[h], i)] = NextIn(queue[h], i)
      /\ back[BackIn(h, queue[h], i)] = CellIn(h, queue[h], i)
  BY <1>1 DEF Linked
<1>4. BackIn(h, queue[h], i) = After(h, CellIn(h, queue[h], i))
  <2>1. CASE i = Len(queue[h])
    BY <1>3, <2>1 DEF NextIn, BackIn, After
  <2>2. CASE i # Len(queue[h])
    <3>1. i + 1 \in 1 .. Len(queue[h])
      BY <1>1, <2>2
    <3>2. queue[h][i + 1] # NULL
      BY <1>1, <3>1, QueueAssumption
    <3>3. QED
      BY <1>3, <2>2, <3>2 DEF NextIn, BackIn, After
  <2>3. QED
    BY <2>1, <2>2
<1>5. QED
  BY <1>1, <1>2, <1>3, <1>4

\* An insertion, in whatever order it makes its assignments.
LEMMA InsertStep ==
  ASSUME QueuesOK, NEW h \in Heads, NEW i \in 0 .. Len(queue[h]), NEW e \in Outside,
         link' = [c \in Cells |-> IF c = e THEN NextIn(queue[h], i)
                                  ELSE IF c = CellIn(h, queue[h], i) THEN e ELSE link[c]],
         back' = [c \in Cells |-> IF c = e THEN CellIn(h, queue[h], i)
                                  ELSE IF c = BackIn(h, queue[h], i) THEN e ELSE back[c]],
         Joins(h, i, e)
  PROVE  QueuesOK'
<1>1. /\ e \in Elements /\ e \in Cells
      /\ \A g \in Heads : e \notin CellsOf(g, queue[g])
  BY OutsideIs DEF Cells
<1>2. /\ queue[h] \in Seq(Elements) /\ AllDiffer(queue[h])
      /\ CellIn(h, queue[h], i) \in Cells /\ BackIn(h, queue[h], i) \in Cells
      /\ NextIn(queue[h], i) \in Elements \cup {NULL}
  BY PlaceIs DEF QueuesOK, PointersOK
<1>3. CellIn(h, queue[h], i) # e /\ BackIn(h, queue[h], i) # e
  BY <1>1, <1>2, CellsDiffer
<1>4. link \in Links /\ back \in Backs
  BY DEF QueuesOK, PointersOK
<1>5. link' \in Links
  BY <1>1, <1>2, <1>4 DEF Links
<1>6. back' \in Backs
  BY <1>1, <1>2, <1>4 DEF Backs
<1>7. Inserts(Cells, link, back, link', back', h, queue[h], i, e)
  <2>1. /\ link'[e] = NextIn(queue[h], i) /\ link'[CellIn(h, queue[h], i)] = e
        /\ \A c \in Cells \ {e, CellIn(h, queue[h], i)} : link'[c] = link[c]
    BY <1>1, <1>2, <1>3
  <2>2. /\ back'[e] = CellIn(h, queue[h], i) /\ back'[BackIn(h, queue[h], i)] = e
        /\ \A c \in Cells \ {e, BackIn(h, queue[h], i)} : back'[c] = back[c]
    BY <1>1, <1>2, <1>3
  <2>3. QED
    BY <2>1, <2>2 DEF Inserts
<1>8. queue' = [queue EXCEPT ![h] = InsertAt(queue[h], i + 1, e)]
  BY DEF Joins
<1>9. PointersOK(link, back, queue)
  BY DEF QueuesOK
<1>10. PointersOK(link', back', queue')
  BY <1>1, <1>5, <1>6, <1>7, <1>8, <1>9, InsertKeeps
<1>11. QED
  BY <1>10 DEF QueuesOK

LEMMA InsertHeadKeeps ==
  ASSUME QueuesOK, NEW h \in Heads, NEW e \in Outside, InsertHead(h, e)
  PROVE  QueuesOK'
<1>1. 0 \in 0 .. Len(queue[h]) /\ CellIn(h, queue[h], 0) = h
  BY DEF QueuesOK, PointersOK, CellIn
<1>2. link[h] = NextIn(queue[h], 0) /\ After(h, h) = BackIn(h, queue[h], 0)
  BY <1>1, PlaceIs
<1>3. /\ link \in [Cells -> Elements \cup {NULL, Trash}] /\ back \in [Cells -> Cells \cup {Trash}]
      /\ e \in Cells /\ h \in Cells /\ e # h
  BY OutsideIs, QueueAssumption DEF QueuesOK, PointersOK, Links, Backs, Cells
<1>4. /\ link' = [link EXCEPT ![e] = link[h], ![h] = e]
      /\ back' = [back EXCEPT ![After(h, h)] = e, ![e] = h]
      /\ Joins(h, 0, e)
  BY DEF InsertHead, TAILQ_INSERT_HEAD, LinkAfter
<1>5. link' = [c \in Cells |-> IF c = e THEN NextIn(queue[h], 0)
                               ELSE IF c = CellIn(h, queue[h], 0) THEN e ELSE link[c]]
  BY <1>1, <1>2, <1>3, <1>4
<1>6. back' = [c \in Cells |-> IF c = e THEN CellIn(h, queue[h], 0)
                               ELSE IF c = BackIn(h, queue[h], 0) THEN e ELSE back[c]]
  BY <1>1, <1>2, <1>3, <1>4
<1>7. QED
  BY <1>1, <1>4, <1>5, <1>6, InsertStep

LEMMA InsertAfterKeeps ==
  ASSUME QueuesOK, NEW h \in Heads, NEW e \in Outside, InsertAfter(h, e)
  PROVE  QueuesOK'
<1>1. PICK i \in DOMAIN queue[h] : TAILQ_INSERT_AFTER(h, queue[h][i], e) /\ Joins(h, i, e)
  BY DEF InsertAfter
<1>2. PICK at : at = queue[h][i]
  OBVIOUS
<1>3. i \in 0 .. Len(queue[h]) /\ CellIn(h, queue[h], i) = at
  BY <1>2 DEF QueuesOK, PointersOK, CellIn
<1>4. /\ link[at] = NextIn(queue[h], i) /\ After(h, at) = BackIn(h, queue[h], i)
      /\ at \in Cells
  BY <1>3, PlaceIs
<1>5. /\ link \in [Cells -> Elements \cup {NULL, Trash}] /\ back \in [Cells -> Cells \cup {Trash}]
      /\ e \in Cells
  BY OutsideIs DEF QueuesOK, PointersOK, Links, Backs, Cells
<1>6. at # e
  <2>1. at \in CellsOf(h, queue[h])
    BY <1>2 DEF QueuesOK, PointersOK, CellsOf
  <2>2. QED
    BY <2>1, OutsideIs
<1>7. /\ link' = [link EXCEPT ![e] = link[at], ![at] = e]
      /\ back' = [back EXCEPT ![After(h, at)] = e, ![e] = at]
      /\ Joins(h, i, e)
  BY <1>1, <1>2 DEF TAILQ_INSERT_AFTER, LinkAfter
<1>8. link' = [c \in Cells |-> IF c = e THEN NextIn(queue[h], i)
                               ELSE IF c = CellIn(h, queue[h], i) THEN e ELSE link[c]]
  BY <1>3, <1>4, <1>5, <1>6, <1>7
<1>9. back' = [c \in Cells |-> IF c = e THEN CellIn(h, queue[h], i)
                               ELSE IF c = BackIn(h, queue[h], i) THEN e ELSE back[c]]
  BY <1>3, <1>4, <1>5, <1>7
<1>10. QED
  BY <1>3, <1>7, <1>8, <1>9, InsertStep

LEMMA InsertBeforeKeeps ==
  ASSUME QueuesOK, NEW h \in Heads, NEW e \in Outside, InsertBefore(h, e)
  PROVE  QueuesOK'
<1>1. PICK i \in DOMAIN queue[h] : TAILQ_INSERT_BEFORE(queue[h][i], e) /\ Joins(h, i - 1, e)
  BY DEF InsertBefore
<1>2. PICK k : k = i - 1
  OBVIOUS
<1>3. PICK x : x = queue[h][i]
  OBVIOUS
<1>4. /\ k \in 0 .. Len(queue[h]) /\ k # Len(queue[h]) /\ k + 1 = i
      /\ BackIn(h, queue[h], k) = x /\ NextIn(queue[h], k) = x
  <2>1. queue[h] \in Seq(Elements)
    BY DEF QueuesOK, PointersOK
  <2>2. k \in 0 .. Len(queue[h]) /\ k # Len(queue[h]) /\ k + 1 = i
    BY <1>2, <2>1
  <2>3. QED
    BY <1>3, <2>2 DEF BackIn, NextIn
<1>5. /\ back[x] = CellIn(h, queue[h], k) /\ back[x] \in Cells /\ x \in Cells
  BY <1>4, PlaceIs
<1>6. /\ link \in [Cells -> Elements \cup {NULL, Trash}] /\ back \in [Cells -> Cells \cup {Trash}]
      /\ e \in Cells
  BY OutsideIs DEF QueuesOK, PointersOK, Links, Backs, Cells
<1>7. x # e /\ back[x] # e
  <2>1. queue[h] \in Seq(Elements) /\ AllDiffer(queue[h]) /\ e \notin CellsOf(h, queue[h])
    BY OutsideIs DEF QueuesOK, PointersOK
  <2>2. /\ CellIn(h, queue[h], k) \in CellsOf(h, queue[h])
        /\ BackIn(h, queue[h], k) \in CellsOf(h, queue[h])
    BY <1>4, <2>1, CellsDiffer
  <2>3. QED
    BY <1>4, <1>5, <2>1, <2>2
<1>8. /\ link' = [link EXCEPT ![e] = x, ![back[x]] = e]
      /\ back' = [back EXCEPT ![e] = back[x], ![x] = e]
      /\ Joins(h, k, e)
  BY <1>1, <1>2, <1>3 DEF TAILQ_INSERT_BEFORE
<1>9. link' = [c \in Cells |-> IF c = e THEN NextIn(queue[h], k)
                               ELSE IF c = CellIn(h, queue[h], k) THEN e ELSE link[c]]
  BY <1>4, <1>5, <1>6, <1>7, <1>8
<1>10. back' = [c \in Cells |-> IF c = e THEN CellIn(h, queue[h], k)
                                ELSE IF c = BackIn(h, queue[h], k) THEN e ELSE back[c]]
  BY <1>4, <1>5, <1>6, <1>7, <1>8
<1>11. QED
  BY <1>4, <1>8, <1>9, <1>10, InsertStep

LEMMA InsertTailKeeps ==
  ASSUME QueuesOK, NEW h \in Heads, NEW e \in Outside, InsertTail(h, e)
  PROVE  QueuesOK'
<1>1. PICK n : n = Len(queue[h])
  OBVIOUS
<1>2. /\ n \in 0 .. Len(queue[h])
      /\ BackIn(h, queue[h], n) = h /\ NextIn(queue[h], n) = NULL
  BY <1>1 DEF QueuesOK, PointersOK, BackIn, NextIn
<1>3. back[h] = CellIn(h, queue[h], n) /\ back[h] \in Cells
  BY <1>2, PlaceIs
<1>4. /\ link \in [Cells -> Elements \cup {NULL, Trash}] /\ back \in [Cells -> Cells \cup {Trash}]
      /\ e \in Cells /\ h \in Cells /\ e # h
  BY OutsideIs, QueueAssumption DEF QueuesOK, PointersOK, Links, Backs, Cells
<1>5. back[h] # e
  <2>1. queue[h] \in Seq(Elements) /\ AllDiffer(queue[h]) /\ e \notin CellsOf(h, queue[h])
    BY OutsideIs DEF QueuesOK, PointersOK
  <2>2. CellIn(h, queue[h], n) \in CellsOf(h, queue[h])
    BY <1>2, <2>1, CellsDiffer
  <2>3. QED
    BY <1>3, <2>1, <2>2
<1>6. /\ link' = [link EXCEPT ![e] = NULL, ![back[h]] = e]
      /\ back' = [back EXCEPT ![e] = back[h], ![h] = e]
      /\ Joins(h, n, e)
  BY <1>1 DEF InsertTail, TAILQ_INSERT_TAIL
<1>7. link' = [c \in Cells |-> IF c = e THEN NextIn(queue[h], n)
                               ELSE IF c = CellIn(h, queue[h], n) THEN e ELSE link[c]]
  BY <1>2, <1>3, <1>4, <1>5, <1>6
<1>8. back' = [c \in Cells |-> IF c = e THEN CellIn(h, queue[h], n)
                               ELSE IF c = BackIn(h, queue[h], n) THEN e ELSE back[c]]
  BY <1>2, <1>3, <1>4, <1>6
<1>9. QED
  BY <1>2, <1>6, <1>7, <1>8, InsertStep

LEMMA RemoveStep ==
  ASSUME QueuesOK, NEW h \in Heads, NEW i \in DOMAIN queue[h], RemoveAndFree(h, i)
  PROVE  QueuesOK'
<1>1. PICK k : k = i - 1
  OBVIOUS
<1>2. PICK e : e = queue[h][i]
  OBVIOUS
<1>3. /\ queue[h] \in Seq(Elements) /\ AllDiffer(queue[h])
      /\ i \in 1 .. Len(queue[h]) /\ i \in 0 .. Len(queue[h])
      /\ k \in 0 .. Len(queue[h]) /\ k # Len(queue[h]) /\ k + 1 = i /\ k # i /\ i # 0
  <2>1. queue[h] \in Seq(Elements) /\ AllDiffer(queue[h])
    BY DEF QueuesOK, PointersOK
  <2>2. QED
    BY <1>1, <2>1
<1>4. CellIn(h, queue[h], i) = e /\ BackIn(h, queue[h], k) = e /\ e \in Elements
  BY <1>2, <1>3 DEF CellIn, BackIn
<1>5. /\ back[e] = CellIn(h, queue[h], k) /\ back[e] \in Cells /\ e \in Cells
  BY <1>3, <1>4, PlaceIs
<1>6. /\ link[e] = NextIn(queue[h], i) /\ link[e] \in Elements \cup {NULL}
      /\ After(h, e) = BackIn(h, queue[h], i) /\ After(h, e) \in Cells
  BY <1>3, <1>4, PlaceIs
<1>7. back[e] # e /\ After(h, e) # e
  BY <1>3, <1>4, <1>5, <1>6, CellsDiffer
<1>8. /\ link \in [Cells -> Elements \cup {NULL, Trash}] /\ back \in [Cells -> Cells \cup {Trash}]
  BY DEF QueuesOK, PointersOK, Links, Backs
<1>9. /\ link' = [link EXCEPT ![back[e]] = link[e], ![e] = Trash]
      /\ back' = [back EXCEPT ![After(h, e)] = back[e], ![e] = Trash]
      /\ queue' = [queue EXCEPT ![h] = RemoveAt(queue[h], i)]
  BY <1>2 DEF RemoveAndFree, TAILQ_REMOVE
<1>10. link' \in Links /\ back' \in Backs
  <2>1. link' \in Links
    BY <1>5, <1>6, <1>8, <1>9 DEF Links
  <2>2. back' \in Backs
    BY <1>5, <1>6, <1>8, <1>9 DEF Backs
  <2>3. QED
    BY <2>1, <2>2
<1>11. Removes(Cells, link, back, link', back', h, queue[h], i)
  <2>1. /\ link'[back[e]] = link[e]
        /\ \A c \in Cells \ {e, back[e]} : link'[c] = link[c]
    BY <1>5, <1>7, <1>8, <1>9
  <2>2. /\ back'[After(h, e)] = back[e]
        /\ \A c \in Cells \ {e, After(h, e)} : back'[c] = back[c]
    BY <1>6, <1>7, <1>8, <1>9
  <2>3. QED
    BY <1>1, <1>2, <1>5, <1>6, <2>1, <2>2 DEF Removes
<1>12. PointersOK(link, back, queue)
  BY DEF QueuesOK
<1>13. PointersOK(link', back', queue')
  BY <1>3, <1>9, <1>10, <1>11, <1>12, RemoveKeeps
<1>14. QED
  BY <1>13 DEF QueuesOK

LEMMA ConcatStep ==
  ASSUME QueuesOK, NEW h \in Heads, NEW g \in Heads, g # h, Concat(h, g)
  PROVE  QueuesOK'
<1>1. PICK q : q = queue[h]
  OBVIOUS
<1>2. PICK p : p = queue[g]
  OBVIOUS
<1>3. /\ q \in Seq(Elements) /\ Linked(link, back, h, q)
      /\ p \in Seq(Elements) /\ Linked(link, back, g, p)
      /\ AllDiffer(q) /\ AllDiffer(p) /\ CellsOf(h, q) \cap CellsOf(g, p) = {}
      /\ CellsOf(h, q) \subseteq Cells /\ CellsOf(g, p) \subseteq Cells
  BY <1>1, <1>2, PlacesAreCells DEF QueuesOK, PointersOK
<1>4. /\ link \in [Cells -> Elements \cup {NULL, Trash}] /\ back \in [Cells -> Cells \cup {Trash}]
      /\ queue \in [Heads -> Seq(Elements)]
  BY DEF QueuesOK, PointersOK, Links, Backs
<1>5. queue' = [queue EXCEPT ![h] = q \o p, ![g] = << >>]
  BY <1>1, <1>2 DEF Concat
<1>6. CASE p = << >>
  <2>1. link[g] = NULL
    BY <1>3, <1>6, HeadKnows
  <2>2. link' = link /\ back' = back
    BY <2>1 DEF Concat, TAILQ_CONCAT, TAILQ_EMPTY, memory
  <2>3. q \o p = q
    BY <1>3, <1>6
  <2>4. queue' = queue
    BY <1>1, <1>2, <1>4, <1>5, <1>6, <2>3
  <2>5. QED
    BY <2>2, <2>4 DEF QueuesOK
<1>7. CASE p # << >>
  <2>1. /\ link[g] # NULL /\ link[g] \in Elements
        /\ back[h] \in Cells /\ back[g] \in Cells /\ back[h] # g
        /\ link[g] # h /\ link[g] # g
        /\ h \in Cells /\ g \in Cells
    <3>1. /\ link[g] # NULL /\ link[g] \in Elements
          /\ back[g] \in CellsOf(g, p) /\ g \in CellsOf(g, p)
      BY <1>3, <1>7, HeadKnows
    <3>2. back[h] \in CellsOf(h, q) /\ h \in CellsOf(h, q)
      BY <1>3, HeadKnows
    <3>3. QED
      BY <1>3, <3>1, <3>2, QueueAssumption
  <2>2. /\ link' = [link EXCEPT ![back[h]] = link[g], ![g] = NULL]
        /\ back' = [back EXCEPT ![link[g]] = back[h], ![h] = back[g], ![g] = g]
    BY <2>1 DEF Concat, TAILQ_CONCAT, TAILQ_EMPTY
  <2>3. link[g] \in Cells
    BY <2>1 DEF Cells
  <2>4. link' \in Links
    BY <1>4, <2>1, <2>2 DEF Links
  <2>5. back' \in Backs
    BY <1>4, <2>1, <2>2, <2>3 DEF Backs
  <2>6. Concats(link, back, link', back', h, g)
    <3>1. /\ link'[back[h]] = link[g] /\ link'[g] = NULL
          /\ \A c \in Cells \ {back[h], g} : link'[c] = link[c]
      BY <1>4, <2>1, <2>2
    <3>2. /\ back'[link[g]] = back[h] /\ back'[h] = back[g] /\ back'[g] = g
          /\ \A c \in Cells \ {link[g], h, g} : back'[c] = back[c]
      BY <1>4, <2>1, <2>2, <2>3
    <3>3. QED
      BY <3>1, <3>2 DEF Concats
  <2>7. PointersOK(link, back, queue)
    BY DEF QueuesOK
  <2>8. queue[g] # << >> /\ queue' = [queue EXCEPT ![h] = queue[h] \o queue[g], ![g] = << >>]
    BY <1>1, <1>2, <1>5, <1>7
  <2>9. PointersOK(link', back', queue')
    BY <2>4, <2>5, <2>6, <2>7, <2>8, ConcatKeeps
  <2>10. QED
    BY <2>9 DEF QueuesOK
<1>8. QED
  BY <1>6, <1>7

LEMMA SwapStep ==
  ASSUME QueuesOK, NEW h \in Heads, NEW g \in Heads, h # g, Swap(h, g)
  PROVE  QueuesOK'
<1>1. PICK q : q = queue[h]
  OBVIOUS
<1>2. PICK p : p = queue[g]
  OBVIOUS
<1>3. /\ q \in Seq(Elements) /\ Linked(link, back, h, q)
      /\ p \in Seq(Elements) /\ Linked(link, back, g, p)
      /\ CellsOf(h, q) \cap CellsOf(g, p) = {}
      /\ CellsOf(h, q) \subseteq Cells /\ CellsOf(g, p) \subseteq Cells
  BY <1>1, <1>2, PlacesAreCells DEF QueuesOK, PointersOK
<1>4. /\ link \in [Cells -> Elements \cup {NULL, Trash}] /\ back \in [Cells -> Cells \cup {Trash}]
  BY DEF QueuesOK, PointersOK, Links, Backs
<1>5. /\ link[h] \in Elements \cup {NULL} /\ link[h] # h /\ link[h] # g
      /\ link[h] # NULL => link[h] \in CellsOf(h, q)
      /\ h \in CellsOf(h, q) /\ back[h] \in CellsOf(h, q)
  <2>1. h \in CellsOf(h, q) /\ back[h] \in CellsOf(h, q)
    BY <1>3, HeadKnows
  <2>2. link[h] \in Elements \cup {NULL} /\ (link[h] # NULL => link[h] \in CellsOf(h, q))
    BY <1>3, HeadKnows
  <2>3. link[h] # h /\ link[h] # g
    BY <2>2, QueueAssumption
  <2>4. QED
    BY <2>1, <2>2, <2>3
<1>6. /\ link[g] \in Elements \cup {NULL} /\ link[g] # h /\ link[g] # g
      /\ link[g] # NULL => link[g] \in CellsOf(g, p)
      /\ g \in CellsOf(g, p) /\ back[g] \in CellsOf(g, p)
  <2>1. g \in CellsOf(g, p) /\ back[g] \in CellsOf(g, p)
    BY <1>3, HeadKnows
  <2>2. link[g] \in Elements \cup {NULL} /\ (link[g] # NULL => link[g] \in CellsOf(g, p))
    BY <1>3, HeadKnows
  <2>3. link[g] # h /\ link[g] # g
    BY <2>2, QueueAssumption
  <2>4. QED
    BY <2>1, <2>2, <2>3
<1>7. /\ h \in Cells /\ g \in Cells /\ back[h] \in Cells /\ back[g] \in Cells /\ NULL \notin Cells
      /\ link[h] # NULL => link[h] \in Cells /\ link[h] # link[g]
      /\ link[g] # NULL => link[g] \in Cells
  <2>1. NULL \notin Cells
    BY QueueAssumption DEF Cells
  <2>2. QED
    BY <1>3, <1>5, <1>6, <2>1
<1>8. /\ link' = [link EXCEPT ![h] = link[g], ![g] = link[h]]
      /\ back' = [c \in Cells |->
                    CASE c = h -> LastOf(h, g)
                      [] c = g -> LastOf(g, h)
                      [] c = link[g] -> h
                      [] c = link[h] -> g
                      [] OTHER -> back[c]]
      /\ queue' = [queue EXCEPT ![h] = queue[g], ![g] = queue[h]]
  BY DEF Swap, TAILQ_SWAP
<1>9. link' \in Links
  BY <1>4, <1>5, <1>6, <1>7, <1>8 DEF Links
<1>10. /\ back'[h] = (IF link[g] = NULL THEN h ELSE back[g])
       /\ back'[g] = (IF link[h] = NULL THEN g ELSE back[h])
  BY <1>5, <1>6, <1>7, <1>8 DEF LastOf, TAILQ_EMPTY
<1>11. /\ link[g] # NULL => back'[link[g]] = h
       /\ link[h] # NULL => back'[link[h]] = g
  BY <1>5, <1>6, <1>7, <1>8
<1>12. \A c \in Cells \ {h, g, link[h], link[g]} : back'[c] = back[c]
  BY <1>8
<1>13. back' \in Backs
  <2>1. \A c \in Cells : back'[c] \in Cells \cup {Trash}
    BY <1>4, <1>7, <1>10, <1>11, <1>12
  <2>2. back' = [c \in Cells |-> back'[c]]
    BY <1>8
  <2>3. QED
    BY <2>1, <2>2 DEF Backs
<1>14. Swaps(link, back, link', back', h, g)
  <2>1. /\ link'[h] = link[g] /\ link'[g] = link[h]
        /\ \A c \in Cells \ {h, g} : link'[c] = link[c]
    BY <1>4, <1>7, <1>8
  <2>2. QED
    BY <1>10, <1>11, <1>12, <2>1 DEF Swaps
<1>15. PointersOK(link, back, queue)
  BY DEF QueuesOK
<1>16. PointersOK(link', back', queue')
  BY <1>8, <1>9, <1>13, <1>14, <1>15, SwapKeeps
<1>17. QED
  BY <1>16 DEF QueuesOK
-----------------------------------------------------------------------------
(***************************************************************************)
(* TAILQ_FOREACH_SAFE: what is ahead is the end of the queue, and item and *)
(* tmp are the first two of it.                                            *)
(***************************************************************************)
FirstOf(a) == IF a = << >> THEN NULL ELSE a[1]

LoopAhead(Q, lp, a) ==
  IF lp = NoLoop THEN a = << >>
  ELSE /\ lp \in [head : Heads, item : Elements, tmp : Elements \cup {NULL}]
       /\ a \in Seq(Elements) /\ a # << >> /\ EndsWith(Q[lp.head], a)
       /\ lp.item = a[1] /\ lp.tmp = FirstOf(Tail(a))

LoopOK == LoopAhead(queue, loop, ahead)

\* The first of those ahead has the others behind it in the queue.
LEMMA FirstAhead ==
  ASSUME NEW q \in Seq(Elements), NEW a \in Seq(Elements), a # << >>, EndsWith(q, a)
  PROVE  \E i \in 1 .. Len(q) : /\ q[i] = a[1] /\ a[1] \in Elements
                               /\ NextIn(q, i) = FirstOf(Tail(a))
                               /\ NextIn(q, i) \in Elements \cup {NULL}
<1> DEFINE n == Len(q)
           m == Len(a)
           i == n - m + 1
<1>1. n \in Nat /\ m \in Nat /\ m <= n /\ m > 0
  BY EmptySeq DEF EndsWith
<1>2. \A j \in 1 .. m : a[j] = q[n - m + j] /\ a[j] \in Elements
  BY DEF EndsWith
<1>3. Tail(a) \in Seq(Elements) /\ Len(Tail(a)) = m - 1 /\ (m # 1 => Tail(a)[1] = a[2])
  <2> DEFINE x == Tail(a)
  <2>1. x \in Seq(Elements) /\ Len(x) = m - 1 /\ \A j \in 1 .. m - 1 : x[j] = a[j + 1]
    BY <1>1
  <2> HIDE DEF x
  <2>2. m # 1 => 1 \in 1 .. m - 1 /\ 1 + 1 = 2
    BY <1>1
  <2>3. m # 1 => x[1] = a[2]
    BY <2>1, <2>2
  <2>4. QED
    BY <2>1, <2>3 DEF x
<1>4. Tail(a) = << >> <=> m = 1
  BY <1>1, <1>3, EmptySeq
<1> HIDE DEF n, m
<1>5. i \in 1 .. n /\ (i = n <=> m = 1) /\ 1 \in 1 .. m /\ n - m + 1 = i
  BY <1>1
<1>6. m # 1 => 2 \in 1 .. m /\ n - m + 2 = i + 1
  BY <1>1
<1> HIDE DEF i
<1>7. q[i] = a[1] /\ a[1] \in Elements
  BY <1>2, <1>5
<1>8. m # 1 => a[2] = q[i + 1] /\ a[2] \in Elements
  BY <1>2, <1>6
<1>9. NextIn(q, i) = IF m = 1 THEN NULL ELSE q[i + 1]
  BY <1>5 DEF NextIn, n
<1>10. FirstOf(Tail(a)) = IF m = 1 THEN NULL ELSE a[2]
  BY <1>3, <1>4 DEF FirstOf
<1>11. QED
  BY <1>5, <1>7, <1>8, <1>9, <1>10 DEF n

\* The loop comes to the first of those still ahead.
LEMMA LoopComes ==
  ASSUME NEW l, NEW b, NEW Q, PointersOK(l, b, Q), NEW h \in Heads,
         NEW a \in Seq(Elements), EndsWith(Q[h], a), NEW e, e = FirstOf(a),
         NEW lp, lp = IF e = NULL THEN NoLoop ELSE [head |-> h, item |-> e, tmp |-> l[e]]
  PROVE  LoopAhead(Q, lp, a)
<1>1. PICK q : q = Q[h]
  OBVIOUS
<1>2. q \in Seq(Elements) /\ Linked(l, b, h, q) /\ EndsWith(q, a)
  BY <1>1 DEF PointersOK
<1>3. CASE a = << >>
  BY <1>3 DEF FirstOf, LoopAhead
<1>4. CASE a # << >>
  <2>1. PICK i \in 1 .. Len(q) : /\ q[i] = a[1] /\ a[1] \in Elements
                                 /\ NextIn(q, i) = FirstOf(Tail(a))
                                 /\ NextIn(q, i) \in Elements \cup {NULL}
    BY <1>2, <1>4, FirstAhead
  <2>2. i \in 0 .. Len(q) /\ CellIn(h, q, i) = q[i]
    BY <1>2 DEF CellIn
  <2>3. l[a[1]] = FirstOf(Tail(a)) /\ FirstOf(Tail(a)) \in Elements \cup {NULL}
    BY <1>2, <2>1, <2>2 DEF Linked
  <2>4. e = a[1] /\ e # NULL
    BY <1>4, <2>1, QueueAssumption DEF FirstOf
  <2>5. lp = [head |-> h, item |-> a[1], tmp |-> FirstOf(Tail(a))]
    BY <2>3, <2>4
  <2>6. lp # NoLoop
    BY <2>1, <2>5, QueueAssumption DEF NoLoop
  <2>7. lp.head = h /\ lp.item = a[1] /\ lp.tmp = FirstOf(Tail(a))
    BY <2>5
  <2>8. lp \in [head : Heads, item : Elements, tmp : Elements \cup {NULL}]
    BY <2>1, <2>3, <2>5
  <2>9. QED
    BY <1>4, <2>6, <2>7, <2>8 DEF LoopAhead
<1>5. QED
  BY <1>3, <1>4

\* What is ahead of the item is the end of the queue, with or without the item.
LEMMA TailIsEnd ==
  ASSUME NEW q \in Seq(Elements), NEW a \in Seq(Elements), a # << >>, EndsWith(q, a)
  PROVE  Tail(a) \in Seq(Elements) /\ EndsWith(q, Tail(a))
<1> DEFINE n == Len(q)
           m == Len(a)
           x == Tail(a)
<1>1. n \in Nat /\ m \in Nat /\ m <= n /\ m > 0
  BY EmptySeq DEF EndsWith
<1>2. x \in Seq(Elements) /\ Len(x) = m - 1 /\ \A j \in 1 .. m - 1 : x[j] = a[j + 1]
  BY <1>1
<1>3. \A j \in 1 .. m : a[j] = q[n - m + j]
  BY DEF EndsWith
<1> HIDE DEF x, n, m
<1>4. ASSUME NEW j \in 1 .. m - 1 PROVE x[j] = q[n - (m - 1) + j]
  <2>1. j + 1 \in 1 .. m /\ n - m + (j + 1) = n - (m - 1) + j
    BY <1>1
  <2>2. a[j + 1] = q[n - m + (j + 1)]
    BY <1>3, <2>1
  <2>3. QED
    BY <1>2, <2>1, <2>2
<1>5. EndsWith(q, x)
  BY <1>1, <1>2, <1>4 DEF EndsWith, n
<1>6. QED
  BY <1>2, <1>5 DEF x

LEMMA TailIsEndWithout ==
  ASSUME NEW q \in Seq(Elements), AllDiffer(q), NEW a \in Seq(Elements), a # << >>,
         EndsWith(q, a), NEW i \in 1 .. Len(q), q[i] = a[1],
         NEW r, r = RemoveAt(q, i)
  PROVE  Tail(a) \in Seq(Elements) /\ r \in Seq(Elements) /\ EndsWith(r, Tail(a))
<1> DEFINE n == Len(q)
           m == Len(a)
           x == Tail(a)
<1>1. n \in Nat /\ m \in Nat /\ m <= n /\ m > 0
  BY EmptySeq DEF EndsWith
<1>2. x \in Seq(Elements) /\ Len(x) = m - 1 /\ \A j \in 1 .. m - 1 : x[j] = a[j + 1]
  BY <1>1
<1>3. \A j \in 1 .. m : a[j] = q[n - m + j]
  BY DEF EndsWith
<1>4. r \in Seq(Elements) /\ Removed(q, i, r)
  BY RemoveAtIs
<1>5. i = n - m + 1
  <2>1. 1 \in 1 .. m /\ n - m + 1 \in 1 .. n
    BY <1>1
  <2>2. q[i] = q[n - m + 1]
    BY <1>3, <2>1
  <2>3. QED
    BY <2>1, <2>2 DEF AllDiffer
<1> HIDE DEF x
<1>6. ASSUME NEW j \in 1 .. m - 1 PROVE x[j] = r[(n - 1) - (m - 1) + j]
  <2> DEFINE k == (n - 1) - (m - 1) + j
  <2>1. /\ k \in i .. n - 1 /\ k + 1 = n - m + (j + 1)
        /\ j + 1 \in 1 .. m
    BY <1>1, <1>5
  <2>2. r[k] = q[k + 1]
    BY <1>4, <2>1 DEF Removed
  <2>3. a[j + 1] = q[n - m + (j + 1)]
    BY <1>3, <2>1
  <2>4. x[j] = a[j + 1]
    BY <1>2
  <2>5. QED
    BY <2>1, <2>2, <2>3, <2>4
<1>7. Len(r) = n - 1
  BY <1>4 DEF Removed
<1>8. EndsWith(r, x)
  <2> HIDE DEF n, m
  <2>1. QED
    BY <1>1, <1>2, <1>6, <1>7 DEF EndsWith
<1>9. QED
  BY <1>2, <1>4, <1>8 DEF x
-----------------------------------------------------------------------------
QueueInv == QueuesOK /\ LoopOK

LEMMA QueueInvInit == Init => QueueInv
<1> SUFFICES ASSUME Init PROVE QueueInv
  OBVIOUS
<1>1. /\ link \in Links /\ back \in Backs /\ queue \in [Heads -> Seq(Elements)]
      /\ \A h \in Heads : queue[h] = << >> /\ link[h] = NULL /\ back[h] = h
  BY QueueAssumption DEF Init, Links, Backs, Cells
<1>2. ASSUME NEW h \in Heads PROVE /\ AllDiffer(queue[h]) /\ Linked(link, back, h, queue[h])
                                   /\ CellsOf(h, queue[h]) = {h}
  <2>1. Len(queue[h]) = 0
    BY <1>1
  <2>2. AllDiffer(queue[h]) /\ CellsOf(h, queue[h]) = {h}
    BY <2>1 DEF AllDiffer, CellsOf
  <2>3. \A i \in 0 .. 0 : /\ CellIn(h, queue[h], i) = h /\ NextIn(queue[h], i) = NULL
                         /\ BackIn(h, queue[h], i) = h
    BY <2>1 DEF CellIn, NextIn, BackIn
  <2>4. Linked(link, back, h, queue[h])
    BY <1>1, <2>1, <2>3 DEF Linked
  <2>5. QED
    BY <2>2, <2>4
<1>3. QueuesOK
  BY <1>1, <1>2 DEF QueuesOK, PointersOK
<1>4. LoopOK
  BY DEF Init, LoopOK, LoopAhead
<1>5. QED
  BY <1>3, <1>4 DEF QueueInv

\* What happens when no loop runs starts none.
LEMMA IdleKeeps ==
  ASSUME LoopOK, Idle
  PROVE  LoopOK'
  BY DEF LoopOK, LoopAhead, Idle

LEMMA StartLoopKeeps ==
  ASSUME QueueInv, NEW h \in Heads, StartLoop(h)
  PROVE  QueueInv'
<1>1. link' = link /\ back' = back /\ queue' = queue /\ ahead' = queue[h]
  BY DEF StartLoop, memory
<1>2. PointersOK(link, back, queue)
  BY DEF QueueInv, QueuesOK
<1>3. QueuesOK'
  BY <1>1, <1>2 DEF QueuesOK
<1>4. queue[h] \in Seq(Elements) /\ Linked(link, back, h, queue[h])
  BY <1>2 DEF PointersOK
<1>5. EndsWith(queue[h], queue[h])
  BY <1>4 DEF EndsWith
<1>6. link[h] = FirstOf(queue[h])
  <2>1. PICK q : q = queue[h]
    OBVIOUS
  <2>2. q \in Seq(Elements) /\ Linked(link, back, h, q)
    BY <1>4, <2>1
  <2>3. 0 \in 0 .. Len(q) /\ (q = << >> <=> Len(q) = 0)
    BY <2>2, EmptySeq
  <2>4. link[h] = NextIn(q, 0)
    BY <2>2, <2>3 DEF Linked, CellIn
  <2>5. NextIn(q, 0) = FirstOf(q)
    BY <2>3 DEF NextIn, FirstOf
  <2>6. QED
    BY <2>1, <2>4, <2>5
<1>7. loop' = IF link[h] = NULL THEN NoLoop
              ELSE [head |-> h, item |-> link[h], tmp |-> link[link[h]]]
  BY <1>1 DEF StartLoop, LoopAt, TAILQ_FIRST
<1>8. LoopAhead(queue, loop', queue[h])
  BY <1>2, <1>4, <1>5, <1>6, <1>7, LoopComes
<1>9. QED
  BY <1>1, <1>3, <1>8 DEF QueueInv, LoopOK

\* The loop goes on to the next element, in the queues as its body leaves them.
LEMMA GoOnKeeps ==
  ASSUME LoopOK, loop # NoLoop, GoOn, PointersOK(link', back', queue'),
         Tail(ahead) \in Seq(Elements), EndsWith(queue'[loop.head], Tail(ahead))
  PROVE  LoopOK'
<1>1. loop.head \in Heads /\ loop.tmp = FirstOf(Tail(ahead))
  BY DEF LoopOK, LoopAhead
<1>2. /\ ahead' = Tail(ahead)
      /\ loop' = IF loop.tmp = NULL THEN NoLoop
                 ELSE [head |-> loop.head, item |-> loop.tmp, tmp |-> link'[loop.tmp]]
  BY DEF GoOn, LoopAt, NextItem
<1>3. LoopAhead(queue', loop', Tail(ahead))
  BY <1>1, <1>2, LoopComes
<1>4. QED
  BY <1>2, <1>3 DEF LoopOK

LEMMA KeepItemKeeps ==
  ASSUME QueueInv, KeepItem
  PROVE  QueueInv'
<1>1. link' = link /\ back' = back /\ queue' = queue /\ loop # NoLoop /\ GoOn
  BY DEF KeepItem, memory
<1>2. PointersOK(link, back, queue) /\ LoopOK
  BY DEF QueueInv, QueuesOK
<1>3. /\ loop.head \in Heads /\ ahead \in Seq(Elements) /\ ahead # << >>
      /\ EndsWith(queue[loop.head], ahead) /\ queue[loop.head] \in Seq(Elements)
  BY <1>1, <1>2 DEF LoopOK, LoopAhead, PointersOK
<1>4. Tail(ahead) \in Seq(Elements) /\ EndsWith(queue[loop.head], Tail(ahead))
  BY <1>3, TailIsEnd
<1>5. PointersOK(link', back', queue') /\ EndsWith(queue'[loop.head], Tail(ahead))
  BY <1>1, <1>2, <1>4
<1>6. LoopOK'
  BY <1>1, <1>2, <1>4, <1>5, GoOnKeeps
<1>7. QED
  BY <1>5, <1>6 DEF QueueInv, QueuesOK

LEMMA RemoveItemKeeps ==
  ASSUME QueueInv, RemoveItem
  PROVE  QueueInv'
<1>1. PICK i \in DOMAIN queue[loop.head] :
        queue[loop.head][i] = loop.item /\ RemoveAndFree(loop.head, i)
  BY DEF RemoveItem
<1>2. loop # NoLoop /\ GoOn /\ QueuesOK /\ LoopOK /\ PointersOK(link, back, queue)
  BY DEF RemoveItem, QueueInv, QueuesOK
<1>3. PICK h : h = loop.head
  OBVIOUS
<1>4. /\ h \in Heads /\ ahead \in Seq(Elements) /\ ahead # << >>
      /\ EndsWith(queue[h], ahead) /\ loop.item = ahead[1]
      /\ queue[h] \in Seq(Elements) /\ AllDiffer(queue[h]) /\ queue \in [Heads -> Seq(Elements)]
  BY <1>2, <1>3 DEF LoopOK, LoopAhead, PointersOK
<1>5. i \in 1 .. Len(queue[h]) /\ queue[h][i] = ahead[1]
  BY <1>1, <1>3, <1>4
<1>6. QueuesOK'
  BY <1>1, <1>2, <1>3, <1>4, RemoveStep
<1>7. PICK r : r = RemoveAt(queue[h], i)
  OBVIOUS
<1>8. Tail(ahead) \in Seq(Elements) /\ EndsWith(r, Tail(ahead))
  BY <1>4, <1>5, <1>7, TailIsEndWithout
<1>9. queue'[h] = r
  BY <1>1, <1>3, <1>4, <1>7 DEF RemoveAndFree
<1>10. LoopOK'
  BY <1>2, <1>3, <1>6, <1>8, <1>9, GoOnKeeps DEF QueuesOK
<1>11. QED
  BY <1>6, <1>10 DEF QueueInv

LEMMA QueueInvNext == QueueInv /\ [Next]_vars => QueueInv'
<1> SUFFICES ASSUME QueueInv, [Next]_vars PROVE QueueInv'
  OBVIOUS
<1>0. QueuesOK /\ LoopOK
  BY DEF QueueInv
<1>1. ASSUME NEW h \in Heads, NEW e \in Outside, InsertHead(h, e) PROVE QueueInv'
  BY <1>0, <1>1, InsertHeadKeeps, IdleKeeps DEF InsertHead, QueueInv
<1>2. ASSUME NEW h \in Heads, NEW e \in Outside, InsertTail(h, e) PROVE QueueInv'
  BY <1>0, <1>2, InsertTailKeeps, IdleKeeps DEF InsertTail, QueueInv
<1>3. ASSUME NEW h \in Heads, NEW e \in Outside, InsertAfter(h, e) PROVE QueueInv'
  BY <1>0, <1>3, InsertAfterKeeps, IdleKeeps DEF InsertAfter, QueueInv
<1>4. ASSUME NEW h \in Heads, NEW e \in Outside, InsertBefore(h, e) PROVE QueueInv'
  BY <1>0, <1>4, InsertBeforeKeeps, IdleKeeps DEF InsertBefore, QueueInv
<1>5. ASSUME NEW h \in Heads, NEW i \in DOMAIN queue[h], Idle, RemoveAndFree(h, i)
      PROVE  QueueInv'
  BY <1>0, <1>5, RemoveStep, IdleKeeps DEF QueueInv
<1>6. ASSUME NEW h \in Heads, NEW g \in Heads, h # g, Concat(h, g) PROVE QueueInv'
  BY <1>0, <1>6, ConcatStep, IdleKeeps DEF Concat, QueueInv
<1>7. ASSUME NEW h \in Heads, NEW g \in Heads, h # g, Swap(h, g) PROVE QueueInv'
  BY <1>0, <1>7, SwapStep, IdleKeeps DEF Swap, QueueInv
<1>8. ASSUME UNCHANGED vars PROVE QueueInv'
  BY <1>0, <1>8 DEF vars, QueueInv, QueuesOK, LoopOK
<1>9. QED
  BY <1>1, <1>2, <1>3, <1>4, <1>5, <1>6, <1>7, <1>8, StartLoopKeeps, KeepItemKeeps,
     RemoveItemKeeps DEF Next
-----------------------------------------------------------------------------
(***************************************************************************)
(* What the pointers of a queue lead to, which is LinksAgree.              *)
(***************************************************************************)
LEMMA BackwardsToo ==
  ASSUME QueuesOK, NEW h \in Heads
  PROVE  LastAndPrevFind(h)
<1>1. PICK q : q = queue[h]
  OBVIOUS
<1>2. PICK n : n = Len(q)
  OBVIOUS
<1>3. /\ q \in Seq(Elements) /\ n \in Nat /\ DOMAIN q = 1 .. n
      /\ \A i \in 0 .. n : /\ link[CellIn(h, q, i)] = NextIn(q, i)
                           /\ back[BackIn(h, q, i)] = CellIn(h, q, i)
  BY <1>1, <1>2 DEF QueuesOK, PointersOK, Linked
<1>4. back[h] = CellIn(h, q, n)
  BY <1>2, <1>3 DEF BackIn
<1>5. ASSUME NEW i \in 1 .. n
      PROVE  back[q[i]] = CellIn(h, q, i - 1) /\ link[CellIn(h, q, i - 1)] = q[i]
  <2>1. i - 1 \in 0 .. n /\ i - 1 # n /\ (i - 1) + 1 = i
    BY <1>3
  <2>2. BackIn(h, q, i - 1) = q[i] /\ NextIn(q, i - 1) = q[i]
    BY <1>2, <2>1 DEF BackIn, NextIn
  <2>3. QED
    BY <1>3, <2>1, <2>2
<1>6. link[CellIn(h, q, n)] = NULL
  BY <1>2, <1>3 DEF NextIn
<1>7. CellIn(h, q, 0) = h /\ \A i \in 1 .. n : CellIn(h, q, i) = q[i]
  BY DEF CellIn
<1>8. link[back[back[h]]] = IF q = << >> THEN NULL ELSE Last(q)
  <2>1. CASE n = 0
    <3>1. q = << >> /\ back[h] = h
      BY <1>2, <1>3, <1>4, <1>7, <2>1, EmptySeq
    <3>2. QED
      BY <1>6, <1>7, <2>1, <3>1
  <2>2. CASE n # 0
    <3>1. n \in 1 .. n
      BY <1>3, <2>2
    <3>2. q # << >>
      BY <1>2, <2>2
    <3>3. back[h] = q[n]
      BY <1>4, <1>7, <3>1
    <3>4. link[back[back[h]]] = q[n]
      BY <1>5, <3>1, <3>3
    <3>5. QED
      BY <1>2, <3>2, <3>4 DEF Last
  <2>3. QED
    BY <2>1, <2>2
<1>9. ASSUME NEW i \in 1 .. n
      PROVE  link[back[back[q[i]]]] = IF i = 1 THEN NULL ELSE q[i - 1]
  <2>1. CASE i = 1
    <3>1. back[q[i]] = h
      BY <1>5, <1>7, <2>1
    <3>2. QED
      BY <1>4, <1>6, <2>1, <3>1
  <2>2. CASE i # 1
    <3>1. i - 1 \in 1 .. n
      BY <1>3, <2>2
    <3>2. back[q[i]] = q[i - 1]
      BY <1>5, <1>7, <3>1
    <3>3. link[back[q[i - 1]]] = q[i - 1]
      BY <1>5, <3>1
    <3>4. QED
      BY <2>2, <3>2, <3>3
  <2>3. QED
    BY <2>1, <2>2
<1>10. QED
  BY <1>1, <1>3, <1>8, <1>9 DEF LastAndPrevFind, TAILQ_LAST, TAILQ_PREV

LEMMA QueueInvLinks == QueueInv => LinksAgree
<1> SUFFICES ASSUME QueueInv, NEW h \in Heads
             PROVE  LET n == Len(queue[h])
                    IN  /\ \A i \in 0 .. n :
                             link[Cell(h, i)] = IF i = n THEN NULL ELSE queue[h][i + 1]
                        /\ \A i \in 1 .. n : back[queue[h][i]] = Cell(h, i - 1)
                        /\ back[h] = Cell(h, n)
                        /\ LastAndPrevFind(h)
  BY DEF LinksAgree
<1>1. PICK q : q = queue[h]
  OBVIOUS
<1>2. PICK n : n = Len(q)
  OBVIOUS
<1>3. /\ q \in Seq(Elements) /\ n \in Nat
      /\ \A i \in 0 .. n : /\ link[CellIn(h, q, i)] = NextIn(q, i)
                           /\ back[BackIn(h, q, i)] = CellIn(h, q, i)
  BY <1>1, <1>2 DEF QueueInv, QueuesOK, PointersOK, Linked
<1>4. \A i \in 0 .. n : Cell(h, i) = CellIn(h, q, i)
  BY <1>1 DEF Cell, CellIn
<1>5. \A i \in 0 .. n : link[Cell(h, i)] = IF i = n THEN NULL ELSE q[i + 1]
  BY <1>2, <1>3, <1>4 DEF NextIn
<1>6. ASSUME NEW i \in 1 .. n PROVE back[q[i]] = Cell(h, i - 1)
  <2>1. i - 1 \in 0 .. n /\ i - 1 # n /\ (i - 1) + 1 = i
    BY <1>3
  <2>2. BackIn(h, q, i - 1) = q[i]
    BY <1>2, <2>1 DEF BackIn
  <2>3. QED
    BY <1>3, <1>4, <2>1, <2>2
<1>7. back[h] = Cell(h, n)
  <2>1. n \in 0 .. n /\ BackIn(h, q, n) = h
    BY <1>2, <1>3 DEF BackIn
  <2>2. QED
    BY <1>3, <1>4, <2>1
<1>8. LastAndPrevFind(h)
  BY BackwardsToo DEF QueueInv
<1>9. QED
  BY <1>1, <1>2, <1>5, <1>6, <1>7, <1>8

LEMMA QueueInvLoop == QueueInv => LoopVisitsAll
<1> SUFFICES ASSUME QueueInv PROVE LoopVisitsAll
  OBVIOUS
<1>1. PICK a : a = ahead
  OBVIOUS
<1>2. LoopAhead(queue, loop, a)
  BY <1>1 DEF QueueInv, LoopOK
<1>3. CASE loop = NoLoop
  <2>1. a = << >> /\ loop.item = NULL /\ loop.tmp = NULL
    BY <1>2, <1>3 DEF LoopAhead, NoLoop
  <2>2. 1 \notin DOMAIN a /\ 2 \notin DOMAIN a
    BY <2>1
  <2>3. QED
    BY <1>1, <1>3, <2>1, <2>2 DEF LoopVisitsAll
<1>4. CASE loop # NoLoop
  <2>1. /\ loop.head \in Heads /\ a \in Seq(Elements) /\ a # << >>
        /\ EndsWith(queue[loop.head], a)
        /\ loop.item = a[1] /\ loop.tmp = FirstOf(Tail(a))
    BY <1>2, <1>4 DEF LoopAhead
  <2>2. PICK m : m = Len(a)
    OBVIOUS
  <2>3. m \in Nat /\ m > 0 /\ DOMAIN a = 1 .. m
    BY <2>1, <2>2, EmptySeq
  <2>4. 1 \in DOMAIN a
    BY <2>3
  <2>5. PICK x : x = Tail(a)
    OBVIOUS
  <2>6. x \in Seq(Elements) /\ Len(x) = m - 1 /\ \A j \in 1 .. m - 1 : x[j] = a[j + 1]
    BY <2>1, <2>2, <2>3, <2>5
  <2>7. FirstOf(x) = IF 2 \in DOMAIN a THEN a[2] ELSE NULL
    <3>1. CASE m = 1
      <4>1. x = << >> /\ 2 \notin DOMAIN a
        BY <2>3, <2>6, <3>1, EmptySeq
      <4>2. QED
        BY <4>1 DEF FirstOf
    <3>2. CASE m # 1
      <4>1. 1 \in 1 .. m - 1 /\ 1 + 1 = 2 /\ 2 \in DOMAIN a /\ Len(x) # 0
        BY <2>3, <2>6, <3>2
      <4>2. x # << >> /\ x[1] = a[2]
        BY <2>6, <4>1
      <4>3. QED
        BY <4>1, <4>2 DEF FirstOf
    <3>3. QED
      BY <3>1, <3>2
  <2>8. IsSuffix(a, queue[loop.head])
    <3>1. queue[loop.head] \in Seq(Elements)
      BY <2>1 DEF QueueInv, QueuesOK, PointersOK
    <3>2. QED
      BY <2>1, <3>1, EndIsSuffix
  <2>9. QED
    BY <1>1, <2>1, <2>4, <2>5, <2>7, <2>8 DEF LoopVisitsAll
<1>5. QED
  BY <1>3, <1>4

LEMMA QueueInvHolds == Spec => []QueueInv
  BY QueueInvInit, QueueInvNext, PTL DEF Spec

\* For all queues and elements: the pointers of every queue are those of the
\* sequence it stands for, forward and backward, after any insertion, removal,
\* concatenation and exchange.
THEOREM LinksStay == Spec => []LinksAgree
  BY QueueInvHolds, QueueInvLinks, PTL

\* A TAILQ_FOREACH_SAFE visits each element that was there when it began, whichever
\* of them its body removes and frees.
THEOREM LoopIsComplete == Spec => []LoopVisitsAll
  BY QueueInvHolds, QueueInvLoop, PTL
=============================================================================

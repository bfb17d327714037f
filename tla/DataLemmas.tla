---------------------------- MODULE DataLemmas -----------------------------
(***************************************************************************)
(* What the operators of the community modules do that the modules are     *)
(* built from: Min, FlattenSeq, RemoveFirst and IsSuffix, for every set    *)
(* and every sequence.  All of it rests on one fact, that every set of     *)
(* natural numbers has a least one.                                        *)
(***************************************************************************)
EXTENDS Integers, SequencesExt, SequenceTheorems, WellFoundedInduction, TLAPS

\* Min is one of the numbers, and no other is smaller.
LEMMA MinOfNaturals ==
  ASSUME NEW S, S \subseteq Nat, S # {}
  PROVE  /\ Min(S) \in S
         /\ \A i \in S : Min(S) <= i
<1> DEFINE less == OpToRel(<, Nat)
<1>1. \A x \in Nat, y \in Nat : <<x, y>> \in less <=> x < y
  BY DEF OpToRel
<1>2. IsWellFoundedOn(less, Nat)
  BY NatLessThanWellFounded
<1> HIDE DEF less
<1>3. PICK x \in S : \A y \in S : ~(<<y, x>> \in less)
  BY <1>2, WFMin
<1>4. ASSUME NEW y \in S PROVE x <= y
  <2>1. x \in Nat /\ y \in Nat
    OBVIOUS
  <2>2. ~(y < x)
    BY <1>1, <1>3, <2>1
  <2>3. QED
    BY <2>1, <2>2
<1>5. \E z \in S : \A y \in S : z <= y
  BY <1>4
<1>6. QED
  BY <1>5 DEF Min
-----------------------------------------------------------------------------
(***************************************************************************)
(* Induction, for a set in place of a predicate: were one missing, the     *)
(* least one missing would follow a number that is there.                  *)
(***************************************************************************)
LEMMA NaturalInduction ==
  ASSUME NEW S, 0 \in S, \A n \in Nat : n \in S => n + 1 \in S
  PROVE  Nat \subseteq S
<1> DEFINE missing == {n \in Nat : n \notin S}
<1>1. ASSUME missing # {} PROVE FALSE
  <2>1. missing \subseteq Nat
    OBVIOUS
  <2>2. Min(missing) \in missing /\ \A i \in missing : Min(missing) <= i
    BY <1>1, <2>1, MinOfNaturals
  <2> DEFINE m == Min(missing)
  <2>3. m \in Nat /\ m \notin S /\ m # 0
    BY <2>2
  <2>4. m - 1 \in Nat /\ m - 1 \in S
    BY <2>2, <2>3
  <2>5. (m - 1) + 1 \in S
    BY <2>4
  <2>6. QED
    BY <2>3, <2>5
<1>2. QED
  BY <1>1

(***************************************************************************)
(* FlattenSeq of SequencesExt.  Its recursive function exists, and it is   *)
(* the only one, so that what holds of one with its recursion holds of it. *)
(***************************************************************************)
\* f[i] is the first i pieces of s in a row.
Flattening(s, f) ==
  f = [i \in 1 .. Len(s) |-> IF i = 1 THEN s[i] ELSE f[i - 1] \o s[i]]

\* There is such a function, and it has sequences as values.
LEMMA FlattenExists ==
  ASSUME NEW B, NEW s \in Seq(Seq(B))
  PROVE  \E f \in [1 .. Len(s) -> Seq(B)] : Flattening(s, f)
<1> DEFINE upto(n, f) == \A i \in 1 .. n : f[i] = IF i = 1 THEN s[i] ELSE f[i - 1] \o s[i]
           goes(n) == n <= Len(s) => \E f \in [1 .. n -> Seq(B)] : upto(n, f)
           S == {n \in Nat : goes(n)}
<1>1. goes(0)
  <2> DEFINE none == [i \in 1 .. 0 |-> << >>]
  <2>1. none \in [1 .. 0 -> Seq(B)] /\ upto(0, none)
    OBVIOUS
  <2> HIDE DEF none, upto
  <2>2. QED
    BY <2>1
<1>2. ASSUME NEW n \in Nat, goes(n) PROVE goes(n + 1)
  <2> SUFFICES ASSUME n + 1 <= Len(s)
               PROVE  \E f \in [1 .. n + 1 -> Seq(B)] : upto(n + 1, f)
    OBVIOUS
  <2>2. PICK f \in [1 .. n -> Seq(B)] : upto(n, f)
    <3> HIDE DEF upto
    <3>1. n <= Len(s)
      OBVIOUS
    <3>2. QED
      BY <1>2, <3>1
  <2> DEFINE last == IF n = 0 THEN s[n + 1] ELSE f[n] \o s[n + 1]
             g == [i \in 1 .. n + 1 |-> IF i <= n THEN f[i] ELSE last]
  <2>3. s[n + 1] \in Seq(B)
    OBVIOUS
  <2>4. last \in Seq(B)
    BY <2>2, <2>3
  <2> HIDE DEF last
  <2>5. g \in [1 .. n + 1 -> Seq(B)]
    BY <2>4
  <2>6. ASSUME NEW i \in 1 .. n + 1
        PROVE  g[i] = IF i = 1 THEN s[i] ELSE g[i - 1] \o s[i]
    <3>1. CASE i <= n
      <4>1. i \in 1 .. n /\ g[i] = f[i] /\ (i # 1 => g[i - 1] = f[i - 1])
        BY <3>1
      <4> HIDE DEF g
      <4>2. QED
        BY <2>2, <4>1
    <3>2. CASE i = n + 1
      <4>1. g[i] = last /\ (i # 1 => g[i - 1] = f[n])
        BY <3>2
      <4> HIDE DEF g
      <4>2. QED
        BY <3>2, <4>1 DEF last
    <3>3. QED
      BY <3>1, <3>2
  <2> HIDE DEF g
  <2>7. upto(n + 1, g)
    BY <2>6
  <2> HIDE DEF upto
  <2>8. QED
    BY <2>5, <2>7
<1> HIDE DEF goes
<1>3. Len(s) \in Nat /\ Len(s) \in S
  <2>1. 0 \in S /\ \A n \in Nat : n \in S => n + 1 \in S
    BY <1>1, <1>2
  <2> HIDE DEF S
  <2>2. Nat \subseteq S
    BY <2>1, NaturalInduction
  <2>3. QED
    BY <2>2
<1>4. PICK f \in [1 .. Len(s) -> Seq(B)] : upto(Len(s), f)
  BY <1>3 DEF goes
<1>5. Flattening(s, f)
  BY <1>4 DEF Flattening
<1>6. QED
  BY <1>5

\* FlattenSeq is the last value of every such function.
LEMMA FlattenIs ==
  ASSUME NEW B, NEW s \in Seq(Seq(B)), s # << >>,
         NEW f \in [1 .. Len(s) -> Seq(B)], Flattening(s, f)
  PROVE  FlattenSeq(s) = f[Len(s)]
<1> DEFINE flatten == CHOOSE g : Flattening(s, g)
<1>1. FlattenSeq(s) = flatten[Len(s)]
  <2>1. Len(s) # 0
    OBVIOUS
  <2>2. QED
    BY <2>1 DEF FlattenSeq, Flattening
<1>2. Flattening(s, flatten)
  OBVIOUS
<1> HIDE DEF flatten
<1> DEFINE S == {n \in Nat : n + 1 <= Len(s) => flatten[n + 1] = f[n + 1]}
<1>3. 0 \in S
  BY <1>2 DEF Flattening
<1>4. ASSUME NEW n \in Nat, n \in S PROVE n + 1 \in S
  <2> SUFFICES ASSUME n + 2 <= Len(s) PROVE flatten[n + 2] = f[n + 2]
    OBVIOUS
  <2>1. flatten[n + 1] = f[n + 1]
    BY <1>4
  <2> HIDE DEF S
  <2>2. /\ n + 2 \in 1 .. Len(s) /\ n + 2 # 1 /\ (n + 2) - 1 = n + 1
    OBVIOUS
  <2>3. flatten[n + 2] = flatten[n + 1] \o s[n + 2]
    BY <1>2, <2>2 DEF Flattening
  <2>4. f[n + 2] = f[n + 1] \o s[n + 2]
    BY <2>2 DEF Flattening
  <2>5. QED
    BY <2>1, <2>3, <2>4
<1> HIDE DEF S
<1>5. Nat \subseteq S
  BY <1>3, <1>4, NaturalInduction
<1>6. Len(s) - 1 \in S /\ Len(s) \in Nat
  BY <1>5
<1>7. QED
  BY <1>1, <1>6 DEF S

\* No piece.
LEMMA FlattenEmpty == FlattenSeq(<< >>) = << >>
  BY DEF FlattenSeq

\* One piece.
LEMMA FlattenSingle ==
  ASSUME NEW B, NEW x \in Seq(B)
  PROVE  FlattenSeq(<<x>>) = x
<1> DEFINE s == <<x>>
           f == [i \in 1 .. 1 |-> x]
<1>1. s \in Seq(Seq(B)) /\ s # << >> /\ Len(s) = 1 /\ s[1] = x
  OBVIOUS
<1>2. f \in [1 .. Len(s) -> Seq(B)] /\ f[Len(s)] = x
  BY <1>1
<1>3. Flattening(s, f)
  <2>1. [i \in 1 .. Len(s) |-> IF i = 1 THEN s[i] ELSE f[i - 1] \o s[i]] = f
    BY <1>1
  <2>2. QED
    BY <2>1 DEF Flattening
<1> HIDE DEF s, f
<1>4. FlattenSeq(s) = x
  BY <1>1, <1>2, <1>3, FlattenIs
<1>5. QED
  BY <1>4 DEF s

(***************************************************************************)
(* What is appended to the pieces is appended to the bytes.                *)
(***************************************************************************)
LEMMA FlattenAppend ==
  ASSUME NEW B, NEW s \in Seq(Seq(B)), NEW x \in Seq(B)
  PROVE  /\ FlattenSeq(s) \in Seq(B)
         /\ FlattenSeq(Append(s, x)) = FlattenSeq(s) \o x
<1>1. CASE s = << >>
  <2>1. Append(s, x) = <<x>>
    BY <1>1
  <2>2. << >> \o x = x /\ << >> \in Seq(B)
    OBVIOUS
  <2>3. QED
    BY <1>1, <2>1, <2>2, FlattenEmpty, FlattenSingle
<1>2. CASE s # << >>
  <2> DEFINE t == Append(s, x)
  <2>1. /\ t \in Seq(Seq(B)) /\ t # << >> /\ Len(t) = Len(s) + 1 /\ Len(s) \in Nat \ {0}
        /\ t[Len(s) + 1] = x /\ \A i \in 1 .. Len(s) : t[i] = s[i]
    BY <1>2, AppendProperties, EmptySeq
  <2> HIDE DEF t
  <2>2. PICK f \in [1 .. Len(s) -> Seq(B)] : Flattening(s, f)
    BY FlattenExists
  <2>10. f[Len(s)] \in Seq(B)
    <3>1. Len(s) \in 1 .. Len(s)
      BY <2>1
    <3>2. QED
      BY <3>1
  <2> DEFINE last == f[Len(s)] \o x
             g    == [i \in 1 .. Len(t) |-> IF i <= Len(s) THEN f[i] ELSE last]
  <2>3. last \in Seq(B)
    BY <2>10
  <2> HIDE DEF last
  <2>4. g \in [1 .. Len(t) -> Seq(B)] /\ g[Len(t)] = last
    BY <2>1, <2>3
  <2>5. ASSUME NEW i \in 1 .. Len(t)
        PROVE  g[i] = IF i = 1 THEN t[i] ELSE g[i - 1] \o t[i]
    <3>1. CASE i <= Len(s)
      <4>1. i \in 1 .. Len(s) /\ g[i] = f[i] /\ (i # 1 => g[i - 1] = f[i - 1]) /\ t[i] = s[i]
        BY <2>1, <3>1
      <4> HIDE DEF g
      <4>2. f[i] = IF i = 1 THEN s[i] ELSE f[i - 1] \o s[i]
        BY <2>2, <4>1 DEF Flattening
      <4>3. QED
        BY <4>1, <4>2
    <3>2. CASE i = Len(s) + 1
      <4>1. i # 1 /\ i - 1 = Len(s) /\ g[i] = last /\ g[i - 1] = f[Len(s)] /\ t[i] = x
        BY <2>1, <3>2
      <4>2. QED
        BY <4>1 DEF last
    <3>3. QED
      BY <2>1, <3>1, <3>2
  <2>6. Flattening(t, g)
    <3>1. DOMAIN g = 1 .. Len(t) /\ g = [i \in 1 .. Len(t) |-> g[i]]
      OBVIOUS
    <3> HIDE DEF g
    <3>2. QED
      BY <2>5, <3>1 DEF Flattening
  <2> HIDE DEF g
  <2>7. FlattenSeq(t) = last
    BY <2>1, <2>4, <2>6, FlattenIs
  <2>8. FlattenSeq(s) = f[Len(s)]
    BY <1>2, <2>2, FlattenIs
  <2>9. QED
    BY <2>3, <2>7, <2>8 DEF last, t
<1>3. QED
  BY <1>1, <1>2

\* The first k + 1 pieces are the first k and one more.
LEMMA FlattenFirst ==
  ASSUME NEW B, NEW s \in Seq(Seq(B)), NEW k \in 0 .. Len(s) - 1
  PROVE  /\ FlattenSeq(SubSeq(s, 1, k)) \in Seq(B)
         /\ FlattenSeq(SubSeq(s, 1, k + 1)) = FlattenSeq(SubSeq(s, 1, k)) \o s[k + 1]
<1> DEFINE front == SubSeq(s, 1, k)
           x     == s[k + 1]
<1>1. /\ front \in Seq(Seq(B)) /\ x \in Seq(B)
      /\ SubSeq(s, 1, k + 1) = Append(front, x)
  OBVIOUS
<1> HIDE DEF front, x
<1>2. FlattenSeq(front) \in Seq(B) /\ FlattenSeq(Append(front, x)) = FlattenSeq(front) \o x
  BY <1>1, FlattenAppend
<1>3. QED
  BY <1>1, <1>2 DEF front, x

\* The same of any number of pieces.
LEMMA FlattenConcat ==
  ASSUME NEW B
  PROVE  \A s, t \in Seq(Seq(B)) : FlattenSeq(s \o t) = FlattenSeq(s) \o FlattenSeq(t)
<1> DEFINE cat(u, v) == u \o v
<1>0. \A u, v, w \in Seq(B) : cat(cat(u, v), w) = cat(u, cat(v, w))
  BY ConcatAssociative
<1> HIDE DEF cat
<1> TAKE s \in Seq(Seq(B)), t \in Seq(Seq(B))
<1> DEFINE join(n) == n <= Len(t) => FlattenSeq(s \o SubSeq(t, 1, n))
                                       = FlattenSeq(s) \o FlattenSeq(SubSeq(t, 1, n))
           S == {n \in Nat : join(n)}
<1>1. FlattenSeq(s) \in Seq(B)
  <2>1. << >> \in Seq(B)
    OBVIOUS
  <2>2. QED
    BY <2>1, FlattenAppend
<1>2. join(0)
  <2>1. SubSeq(t, 1, 0) = << >> /\ s \o << >> = s
    OBVIOUS
  <2>2. FlattenSeq(s) \o << >> = FlattenSeq(s)
    BY <1>1
  <2>3. QED
    BY <2>1, <2>2, FlattenEmpty
<1>3. ASSUME NEW n \in Nat, join(n) PROVE join(n + 1)
  <2> SUFFICES ASSUME n + 1 <= Len(t)
               PROVE  FlattenSeq(s \o SubSeq(t, 1, n + 1))
                        = FlattenSeq(s) \o FlattenSeq(SubSeq(t, 1, n + 1))
    OBVIOUS
  <2> DEFINE front == SubSeq(t, 1, n)
             x     == t[n + 1]
  <2>1. /\ front \in Seq(Seq(B)) /\ x \in Seq(B)
        /\ SubSeq(t, 1, n + 1) = Append(front, x)
    OBVIOUS
  <2>2. FlattenSeq(s \o front) = FlattenSeq(s) \o FlattenSeq(front)
    BY <1>3
  <2> HIDE DEF front, x
  <2>3. s \o front \in Seq(Seq(B)) /\ s \o Append(front, x) = Append(s \o front, x)
    <3>1. s \o front \in Seq(Seq(B)) /\ <<x>> \in Seq(Seq(B))
      BY <2>1, ConcatProperties
    <3>2. Append(front, x) = front \o <<x>> /\ Append(s \o front, x) = (s \o front) \o <<x>>
      BY <2>1, <3>1, AppendIsConcat
    <3>3. QED
      <4> DEFINE T == Seq(B)
                 u == <<x>>
      <4>1. s \in Seq(T) /\ front \in Seq(T) /\ u \in Seq(T)
        BY <2>1, <3>1
      <4> HIDE DEF T, u
      <4>2. (s \o front) \o u = s \o (front \o u)
        BY <4>1, ConcatAssociative
      <4>3. QED
        BY <3>1, <3>2, <4>2 DEF u
  <2>4. /\ FlattenSeq(front) \in Seq(B)
        /\ FlattenSeq(Append(front, x)) = FlattenSeq(front) \o x
        /\ FlattenSeq(Append(s \o front, x)) = FlattenSeq(s \o front) \o x
    BY <2>1, <2>3, FlattenAppend
  <2>5. (FlattenSeq(s) \o FlattenSeq(front)) \o x = FlattenSeq(s) \o (FlattenSeq(front) \o x)
    <3>1. FlattenSeq(s) \in Seq(B) /\ FlattenSeq(front) \in Seq(B) /\ x \in Seq(B)
      BY <1>1, <2>1, <2>4
    <3>2. cat(cat(FlattenSeq(s), FlattenSeq(front)), x)
            = cat(FlattenSeq(s), cat(FlattenSeq(front), x))
      BY <1>0, <3>1, Zenon
    <3>3. QED
      BY <3>2 DEF cat
  <2>6. QED
    BY <2>1, <2>2, <2>3, <2>4, <2>5
<1> HIDE DEF join
<1>4. Len(t) \in S
  <2>1. 0 \in S /\ \A n \in Nat : n \in S => n + 1 \in S
    BY <1>2, <1>3
  <2> HIDE DEF S
  <2>2. Nat \subseteq S
    BY <2>1, NaturalInduction
  <2>3. QED
    BY <2>2
<1>5. SubSeq(t, 1, Len(t)) = t
  OBVIOUS
<1>6. join(Len(t)) /\ Len(t) \in Nat
  BY <1>4
<1>7. QED
  <2>1. FlattenSeq(s \o SubSeq(t, 1, Len(t))) = FlattenSeq(s) \o FlattenSeq(SubSeq(t, 1, Len(t)))
    BY <1>6 DEF join
  <2>2. QED
    BY <1>5, <2>1, Zenon

\* What comes last is a suffix.
LEMMA SuffixOfConcat ==
  ASSUME NEW B, NEW s \in Seq(B), NEW t \in Seq(B)
  PROVE  IsSuffix(t, s \o t)
<1> DEFINE w == s \o t
<1>1. /\ w \in Seq(B) /\ Len(w) = Len(s) + Len(t) /\ Len(s) \in Nat /\ Len(t) \in Nat
      /\ \A i \in 1 .. Len(t) : w[Len(s) + i] = t[i]
  OBVIOUS
<1> HIDE DEF w
<1>2. /\ Reverse(t) \in Seq(B) /\ Len(Reverse(t)) = Len(t)
      /\ \A i \in 1 .. Len(t) : Reverse(t)[i] = t[(Len(t) - i) + 1]
      /\ Reverse(w) \in Seq(B) /\ Len(Reverse(w)) = Len(w)
      /\ \A i \in 1 .. Len(w) : Reverse(w)[i] = w[(Len(w) - i) + 1]
  BY <1>1 DEF Reverse
<1>3. \A i \in 1 .. Len(t) : Reverse(w)[i] = Reverse(t)[i]
  <2> SUFFICES ASSUME NEW i \in 1 .. Len(t) PROVE Reverse(w)[i] = Reverse(t)[i]
    OBVIOUS
  <2>1. /\ (Len(t) - i) + 1 \in 1 .. Len(t) /\ i \in 1 .. Len(w)
        /\ (Len(w) - i) + 1 = Len(s) + ((Len(t) - i) + 1)
    BY <1>1
  <2>2. w[(Len(w) - i) + 1] = t[(Len(t) - i) + 1]
    BY <1>1, <2>1
  <2>3. QED
    BY <1>2, <2>1, <2>2
<1>4. SubSeq(Reverse(w), 1, Len(t)) = SubSeq(Reverse(t), 1, Len(t))
  BY <1>1, <1>2, <1>3
<1>5. QED
  BY <1>1, <1>2, <1>4 DEF IsSuffix, IsPrefix, w

\* Where the elements of p \o x are.
LEMMA ConcatElements ==
  ASSUME NEW T, NEW p \in Seq(T), NEW x \in Seq(T)
  PROVE  /\ p \o x \in Seq(T) /\ Len(p \o x) = Len(p) + Len(x)
         /\ Len(p) \in Nat /\ Len(x) \in Nat /\ DOMAIN (p \o x) = 1 .. Len(p) + Len(x)
         /\ \A j \in 1 .. Len(p) : (p \o x)[j] = p[j]
         /\ \A j \in 1 .. Len(x) : (p \o x)[Len(p) + j] = x[j]
  OBVIOUS

\* What is not in the first i elements is in the others.
LEMMA SplitAt ==
  ASSUME NEW T, NEW s \in Seq(T), NEW j \in 0 .. Len(s), NEW i \in 0 .. j
  PROVE  SubSeq(s, 1, j) = SubSeq(s, 1, i) \o SubSeq(s, i + 1, j)
<1> DEFINE cat(u, v) == u \o v
<1>0. \A u, v \in Seq(T) :
        /\ cat(u, v) \in Seq(T) /\ Len(cat(u, v)) = Len(u) + Len(v)
        /\ \A k \in 1 .. Len(u) : cat(u, v)[k] = u[k]
        /\ \A k \in 1 .. Len(v) : cat(u, v)[Len(u) + k] = v[k]
  BY ConcatElements
<1> HIDE DEF cat
<1> DEFINE x == SubSeq(s, 1, i)
           y == SubSeq(s, i + 1, j)
           z == SubSeq(s, 1, j)
<1>1. /\ x \in Seq(T) /\ Len(x) = i /\ \A k \in 1 .. i : x[k] = s[k]
      /\ y \in Seq(T) /\ Len(y) = j - i /\ \A k \in 1 .. j - i : y[k] = s[i + k]
      /\ z \in Seq(T) /\ Len(z) = j /\ \A k \in 1 .. j : z[k] = s[k]
  OBVIOUS
<1> HIDE DEF x, y, z
<1>2. /\ cat(x, y) \in Seq(T) /\ Len(cat(x, y)) = j
      /\ \A k \in 1 .. i : cat(x, y)[k] = x[k]
      /\ \A k \in 1 .. j - i : cat(x, y)[i + k] = y[k]
  <2>1. x \in Seq(T) /\ y \in Seq(T) /\ Len(x) = i /\ Len(y) = j - i /\ i + (j - i) = j
    BY <1>1
  <2>2. /\ cat(x, y) \in Seq(T) /\ Len(cat(x, y)) = Len(x) + Len(y)
        /\ \A k \in 1 .. Len(x) : cat(x, y)[k] = x[k]
        /\ \A k \in 1 .. Len(y) : cat(x, y)[Len(x) + k] = y[k]
    BY <1>0, <2>1
  <2>3. QED
    BY <2>1, <2>2
<1>3. ASSUME NEW k \in 1 .. j PROVE cat(x, y)[k] = z[k]
  <2>1. CASE k <= i
    BY <1>1, <1>2, <2>1
  <2>2. CASE k > i
    <3>1. k - i \in 1 .. j - i /\ i + (k - i) = k
      BY <2>2
    <3>2. cat(x, y)[i + (k - i)] = y[k - i]
      BY <1>2, <3>1
    <3>3. y[k - i] = s[i + (k - i)]
      BY <1>1, <3>1
    <3>4. QED
      BY <1>1, <3>1, <3>2, <3>3
  <2>3. QED
    BY <2>1, <2>2
<1>4. z = cat(x, y)
  BY <1>1, <1>2, <1>3, SeqEqual
<1>5. QED
  BY <1>4 DEF cat, x, y, z

\* A piece is in the bytes where the pieces before it end.
LEMMA FlattenPieces ==
  ASSUME NEW B, NEW s \in Seq(Seq(B)), NEW i \in 1 .. Len(s)
  PROVE  LET start == Len(FlattenSeq(SubSeq(s, 1, i - 1)))
             end   == Len(FlattenSeq(SubSeq(s, 1, i)))
         IN  /\ start \in Nat /\ Len(s[i]) \in Nat /\ end = start + Len(s[i])
             /\ end <= Len(FlattenSeq(s))
             /\ \A k \in 1 .. Len(s[i]) : FlattenSeq(s)[start + k] = s[i][k]
<1> DEFINE front == FlattenSeq(SubSeq(s, 1, i - 1))
           whole == FlattenSeq(SubSeq(s, 1, i))
           rest  == SubSeq(s, i + 1, Len(s))
           x     == s[i]
           flat  == FlattenSeq(s)
           tail  == FlattenSeq(rest)
<1>1. /\ SubSeq(s, 1, i) \in Seq(Seq(B)) /\ rest \in Seq(Seq(B)) /\ x \in Seq(B)
      /\ i - 1 \in 0 .. Len(s) - 1 /\ (i - 1) + 1 = i /\ Len(s) \in 0 .. Len(s) /\ i \in 0 .. Len(s)
      /\ SubSeq(s, 1, Len(s)) = s
  OBVIOUS
<1>2. front \in Seq(B) /\ whole = front \o x
  BY <1>1, FlattenFirst
<1>3. s = SubSeq(s, 1, i) \o rest
  <2> DEFINE T == Seq(B)
  <2>1. s \in Seq(T)
    OBVIOUS
  <2> HIDE DEF T
  <2>2. SubSeq(s, 1, Len(s)) = SubSeq(s, 1, i) \o SubSeq(s, i + 1, Len(s))
    BY <1>1, <2>1, SplitAt
  <2>3. QED
    BY <1>1, <2>2
<1>4. flat = whole \o tail
  <2>1. FlattenSeq(SubSeq(s, 1, i) \o rest) = whole \o FlattenSeq(rest)
    BY <1>1, FlattenConcat
  <2>2. QED
    BY <1>3, <2>1, Zenon
<1>5. tail \in Seq(B)
  <2>1. << >> \in Seq(B)
    OBVIOUS
  <2> HIDE DEF rest
  <2>2. QED
    BY <1>1, <2>1, FlattenAppend
<1> HIDE DEF front, whole, tail, x, flat
<1>6. /\ whole \in Seq(B) /\ Len(whole) = Len(front) + Len(x)
      /\ Len(front) \in Nat /\ Len(x) \in Nat
      /\ \A k \in 1 .. Len(x) : whole[Len(front) + k] = x[k]
  BY <1>1, <1>2, ConcatElements DEF x
<1>7. /\ Len(flat) = Len(whole) + Len(tail) /\ Len(tail) \in Nat
      /\ \A k \in 1 .. Len(whole) : flat[k] = whole[k]
  <2>1. whole \in Seq(B)
    BY <1>6
  <2>2. /\ Len(whole \o tail) = Len(whole) + Len(tail) /\ Len(tail) \in Nat
        /\ \A k \in 1 .. Len(whole) : (whole \o tail)[k] = whole[k]
    BY <1>5, <2>1, ConcatElements
  <2>3. QED
    BY <1>4, <2>2, Zenon
<1>8. ASSUME NEW k \in 1 .. Len(x) PROVE flat[Len(front) + k] = x[k]
  <2>1. Len(front) + k \in 1 .. Len(whole)
    BY <1>6
  <2>2. QED
    BY <1>6, <1>7, <2>1
<1>9. Len(whole) <= Len(flat)
  BY <1>6, <1>7
<1>10. QED
  BY <1>6, <1>8, <1>9 DEF front, whole, x, flat

(***************************************************************************)
(* A loop that adds up the lengths of the pieces: its sum after i rounds.  *)
(***************************************************************************)
Sums(s, f) == f = [i \in 0 .. Len(s) |-> IF i = 0 THEN 0 ELSE f[i - 1] + Len(s[i])]

\* It is the length of the first i pieces in a row.
LEMMA SumsAreLengths ==
  ASSUME NEW B, NEW s \in Seq(Seq(B))
  PROVE  /\ \E f : Sums(s, f)
         /\ \A f : Sums(s, f) =>
              \A i \in 0 .. Len(s) : f[i] = Len(FlattenSeq(SubSeq(s, 1, i)))
<1> DEFINE size(i) == Len(FlattenSeq(SubSeq(s, 1, i)))
           sizes   == [i \in 0 .. Len(s) |-> size(i)]
<1>1. size(0) = 0
  <2>1. SubSeq(s, 1, 0) = << >> /\ Len(<< >>) = 0
    OBVIOUS
  <2>2. FlattenSeq(SubSeq(s, 1, 0)) = << >>
    BY <2>1, FlattenEmpty, Zenon
  <2>3. QED
    BY <2>1, <2>2, Zenon
<1>2. ASSUME NEW i \in 1 .. Len(s) PROVE size(i) = size(i - 1) + Len(s[i])
  BY FlattenPieces
<1> HIDE DEF size
<1>3. Sums(s, sizes)
  <2>1. ASSUME NEW i \in 0 .. Len(s)
        PROVE  size(i) = IF i = 0 THEN 0 ELSE sizes[i - 1] + Len(s[i])
    <3>1. CASE i = 0
      BY <1>1, <3>1
    <3>2. CASE i # 0
      <4>1. i \in 1 .. Len(s) /\ i - 1 \in 0 .. Len(s)
        BY <3>2
      <4>2. QED
        BY <1>2, <3>2, <4>1
    <3>3. QED
      BY <3>1, <3>2
  <2>2. QED
    BY <2>1 DEF Sums
<1> HIDE DEF sizes
<1>4. ASSUME NEW f, Sums(s, f) PROVE \A i \in 0 .. Len(s) : f[i] = sizes[i]
  <2> DEFINE S == {n \in Nat : n <= Len(s) => f[n] = sizes[n]}
  <2>1. ASSUME NEW n \in Nat, n \in S PROVE n + 1 \in S
    <3> SUFFICES ASSUME n + 1 <= Len(s) PROVE f[n + 1] = sizes[n + 1]
      OBVIOUS
    <3>1. n + 1 \in 0 .. Len(s) /\ n + 1 # 0 /\ (n + 1) - 1 = n /\ n <= Len(s)
      OBVIOUS
    <3>2. f[n] = sizes[n]
      BY <2>1, <3>1
    <3> HIDE DEF S
    <3>3. f[n + 1] = f[n] + Len(s[n + 1])
      BY <1>4, <3>1 DEF Sums
    <3>4. sizes[n + 1] = sizes[n] + Len(s[n + 1])
      BY <1>3, <3>1 DEF Sums
    <3>5. QED
      BY <3>2, <3>3, <3>4
  <2>2. 0 \in S
    <3>1. 0 \in 0 .. Len(s)
      OBVIOUS
    <3>2. f[0] = 0
      BY <1>4, <3>1 DEF Sums
    <3>3. sizes[0] = 0
      BY <1>3, <3>1 DEF Sums
    <3>4. QED
      BY <3>2, <3>3
  <2> HIDE DEF S
  <2>3. Nat \subseteq S
    BY <2>1, <2>2, NaturalInduction
  <2>4. QED
    BY <2>3 DEF S
<1>5. QED
  BY <1>3, <1>4 DEF sizes, size

\* Sequences that start alike have the same first elements.
LEMMA SameStart ==
  ASSUME NEW T, NEW s \in Seq(T), NEW t \in Seq(T), NEW i \in Nat,
         i <= Len(s), i <= Len(t), \A j \in 1 .. i : s[j] = t[j]
  PROVE  SubSeq(s, 1, i) = SubSeq(t, 1, i)
  OBVIOUS

\* Where the brackets are does not matter.
Cat(u, v) == u \o v

LEMMA CatAssociative ==
  ASSUME NEW T
  PROVE  \A x, y, z \in Seq(T) : Cat(Cat(x, y), z) = Cat(x, Cat(y, z))
  BY ConcatAssociative DEF Cat

LEMMA Regroup ==
  ASSUME NEW T, NEW w \in Seq(T), NEW p \in Seq(T), NEW a \in Seq(T), NEW b \in Seq(T)
  PROVE  Cat(Cat(w, p), Cat(a, b)) = Cat(Cat(w, Cat(p, a)), b)
<1>1. \A x, y, z \in Seq(T) : Cat(Cat(x, y), z) = Cat(x, Cat(y, z))
  BY CatAssociative
<1>2. Cat(w, p) \in Seq(T)
  BY DEF Cat
<1>3. Cat(Cat(w, p), Cat(a, b)) = Cat(Cat(Cat(w, p), a), b)
  BY <1>1, <1>2
<1>4. Cat(Cat(w, p), a) = Cat(w, Cat(p, a))
  BY <1>1
<1>5. QED
  BY <1>3, <1>4

\* Append as a function.
LEMMA AppendIs ==
  ASSUME NEW T, NEW s \in Seq(T), NEW x \in T
  PROVE  Append(s, x) = [i \in 1 .. Len(s) + 1 |-> IF i <= Len(s) THEN s[i] ELSE x]
<1> DEFINE t == Append(s, x)
           u == [i \in 1 .. Len(s) + 1 |-> IF i <= Len(s) THEN s[i] ELSE x]
<1>1. /\ t \in Seq(T) /\ Len(t) = Len(s) + 1 /\ Len(s) \in Nat
      /\ t[Len(s) + 1] = x /\ \A i \in 1 .. Len(s) : t[i] = s[i]
  OBVIOUS
<1> HIDE DEF t
<1>2. t = [i \in 1 .. Len(s) + 1 |-> t[i]]
  <2>1. t \in [1 .. Len(t) -> T]
    BY <1>1
  <2>2. QED
    BY <1>1, <2>1
<1>3. \A i \in 1 .. Len(s) + 1 : t[i] = IF i <= Len(s) THEN s[i] ELSE x
  BY <1>1
<1>4. t = u
  BY <1>2, <1>3
<1>5. QED
  BY <1>4 DEF t

(***************************************************************************)
(* RemoveFirst of SequencesExt.  From a sequence in which nothing occurs   *)
(* twice the element is gone, and all else is still there, once.           *)
(***************************************************************************)
LEMMA RemoveFirstIs ==
  ASSUME NEW T, NEW s \in Seq(T), NEW e
  PROVE  /\ RemoveFirst(s, e) \in Seq(T)
         /\ IsInjective(s) =>
              /\ IsInjective(RemoveFirst(s, e))
              /\ \A x \in T : Contains(RemoveFirst(s, e), x) <=> Contains(s, x) /\ x # e
<1>1. CASE ~ \E i \in 1 .. Len(s) : s[i] = e
  BY <1>1 DEF RemoveFirst, Contains
<1>2. CASE \E i \in 1 .. Len(s) : s[i] = e
  <2> DEFINE places == {i \in 1 .. Len(s) : s[i] = e}
             k      == Min(places)
             r      == SubSeq(s, 1, k - 1) \o SubSeq(s, k + 1, Len(s))
  <2>1. k \in 1 .. Len(s) /\ s[k] = e
    <3>1. places # {} /\ places \subseteq Nat
      BY <1>2
    <3>2. k \in places
      BY <3>1, MinOfNaturals
    <3>3. QED
      BY <3>2
  <2>2. RemoveFirst(s, e) = r
    <3>1. SelectInSeq(s, LAMBDA v : v = e) = k
      BY <1>2 DEF SelectInSeq
    <3>2. QED
      BY <1>2, <3>1 DEF RemoveFirst, RemoveAt
  <2> HIDE DEF k
  <2>3. /\ r \in Seq(T) /\ Len(r) = Len(s) - 1
        /\ \A i \in 1 .. Len(r) : r[i] = s[IF i < k THEN i ELSE i + 1]
    <3> DEFINE front == SubSeq(s, 1, k - 1)
               back  == SubSeq(s, k + 1, Len(s))
    <3>1. /\ front \in Seq(T) /\ Len(front) = k - 1
          /\ \A i \in 1 .. k - 1 : front[i] = s[i]
      BY <2>1
    <3>2. /\ back \in Seq(T) /\ Len(back) = Len(s) - k
          /\ \A i \in 1 .. Len(s) - k : back[i] = s[k + i]
      BY <2>1
    <3>3. r = front \o back
      OBVIOUS
    <3> HIDE DEF front, back, r
    <3>4. /\ front \o back \in Seq(T) /\ Len(front \o back) = Len(front) + Len(back)
          /\ \A i \in 1 .. Len(front) + Len(back) :
               (front \o back)[i] = IF i <= Len(front) THEN front[i]
                                    ELSE back[i - Len(front)]
      BY <3>1, <3>2, ConcatProperties
    <3>5. Len(s) \in Nat /\ k \in Nat /\ Len(front) + Len(back) = Len(s) - 1
      BY <2>1, <3>1, <3>2
    <3>6. ASSUME NEW i \in 1 .. Len(s) - 1, i >= k PROVE r[i] = s[i + 1]
      <4>1. i - (k - 1) \in 1 .. Len(s) - k /\ k + (i - (k - 1)) = i + 1
        BY <2>1, <3>5, <3>6
      <4>2. r[i] = back[i - (k - 1)]
        BY <3>1, <3>3, <3>4, <3>5, <3>6
      <4>3. QED
        BY <3>2, <4>1, <4>2
    <3>7. ASSUME NEW i \in 1 .. Len(s) - 1, i < k PROVE r[i] = s[i]
      <4>1. i \in 1 .. k - 1
        BY <3>5, <3>7
      <4>2. r[i] = front[i]
        BY <3>1, <3>3, <3>4, <3>5, <4>1
      <4>3. QED
        BY <3>1, <4>1, <4>2
    <3>8. r \in Seq(T) /\ Len(r) = Len(s) - 1
      BY <3>3, <3>4, <3>5
    <3>9. ASSUME NEW i \in 1 .. Len(r) PROVE r[i] = s[IF i < k THEN i ELSE i + 1]
      <4>1. i \in 1 .. Len(s) - 1 /\ (i >= k \/ i < k)
        BY <3>5, <3>8
      <4>2. QED
        BY <3>6, <3>7, <4>1
    <3>10. QED
      BY <3>8, <3>9
  <2> HIDE DEF r
  <2>4. ASSUME IsInjective(s)
        PROVE  IsInjective(r) /\ \A x \in T : Contains(r, x) <=> Contains(s, x) /\ x # e
    <3>1. \A i, j \in 1 .. Len(s) : s[i] = s[j] => i = j
      BY <2>4 DEF IsInjective
    <3>2. IsInjective(r)
      BY <2>1, <2>3, <3>1 DEF IsInjective
    <3>3. ASSUME NEW x \in T
          PROVE  Contains(r, x) <=> Contains(s, x) /\ x # e
      <4>1. ASSUME NEW i \in 1 .. Len(r), r[i] = x PROVE Contains(s, x) /\ x # e
        BY <2>1, <2>3, <3>1, <4>1 DEF Contains
      <4>2. ASSUME NEW i \in 1 .. Len(s), s[i] = x, x # e PROVE Contains(r, x)
        <5>1. CASE i < k
          <6>1. i \in 1 .. Len(r) /\ r[i] = x
            BY <2>1, <2>3, <4>2, <5>1
          <6>2. QED
            BY <6>1 DEF Contains
        <5>2. CASE i > k
          <6>1. i - 1 \in 1 .. Len(r) /\ r[i - 1] = x
            BY <2>1, <2>3, <4>2, <5>2
          <6>2. QED
            BY <6>1 DEF Contains
        <5>3. QED
          BY <2>1, <4>2, <5>1, <5>2
      <4>3. QED
        BY <4>1, <4>2 DEF Contains
    <3>4. QED
      BY <3>2, <3>3
  <2>5. QED
    BY <2>2, <2>3, <2>4
<1>3. QED
  BY <1>1, <1>2

-----------------------------------------------------------------------------
(***************************************************************************)
(* What is read piece by piece from a place on.                            *)
(***************************************************************************)
Trails(flat, from, bytes) ==
  /\ bytes = SubSeq(flat, from + 1, from + Len(bytes))
  /\ bytes = << >> \/ from + Len(bytes) <= Len(flat)

LEMMA SliceElements ==
  ASSUME NEW T, NEW s \in Seq(T), NEW from \in Nat, NEW n \in Nat, from + n <= Len(s)
  PROVE  /\ SubSeq(s, from + 1, from + n) \in Seq(T)
         /\ Len(SubSeq(s, from + 1, from + n)) = n
         /\ \A k \in 1 .. n : SubSeq(s, from + 1, from + n)[k] = s[from + k]
<1> DEFINE l == from + 1
           u == from + n
<1>1. l \in Int /\ u \in Int /\ u - l + 1 = n /\ (l <= u <=> n # 0)
  OBVIOUS
<1>2. \A k \in Int : l + k - 1 = from + k
  OBVIOUS
<1>3. \A i \in l .. u : s[i] \in T
  <2>1. \A i \in l .. u : i \in 1 .. Len(s)
    OBVIOUS
  <2>2. \A i \in 1 .. Len(s) : s[i] \in T
    OBVIOUS
  <2>3. QED
    BY <2>1, <2>2
<1> HIDE DEF l, u
<1>4. /\ SubSeq(s, l, u) \in Seq(T)
      /\ Len(SubSeq(s, l, u)) = IF l <= u THEN u - l + 1 ELSE 0
      /\ \A k \in 1 .. u - l + 1 : SubSeq(s, l, u)[k] = s[l + k - 1]
  BY <1>1, <1>3, SubSeqProperties
<1>5. /\ Len(SubSeq(s, l, u)) = n
      /\ \A k \in 1 .. n : SubSeq(s, l, u)[k] = s[from + k]
  BY <1>1, <1>2, <1>4
<1>6. QED
  BY <1>4, <1>5 DEF l, u

LEMMA TrailEmpty ==
  ASSUME NEW T, NEW flat \in Seq(T), NEW from \in Nat
  PROVE  Trails(flat, from, << >>)
<1>1. Len(<< >>) = 0 /\ from + 0 = from /\ SubSeq(flat, from + 1, from) = << >>
  OBVIOUS
<1>2. QED
  BY <1>1 DEF Trails

LEMMA TrailGrows ==
  ASSUME NEW T, NEW flat \in Seq(T), NEW e \in Seq(T), NEW from \in Nat,
         NEW bytes \in Seq(T), Trails(flat, from, bytes)
  PROVE  Trails(Cat(flat, e), from, bytes)
<1> DEFINE long == Cat(flat, e)
           n    == Len(bytes)
<1>1. /\ long \in Seq(T) /\ Len(long) = Len(flat) + Len(e)
      /\ \A k \in 1 .. Len(flat) : long[k] = flat[k]
  BY ConcatElements DEF Cat
<1>2. CASE bytes = << >>
  BY <1>1, <1>2, TrailEmpty
<1>3. CASE bytes # << >>
  <2>1. n \in Nat /\ from + n <= Len(flat) /\ bytes = SubSeq(flat, from + 1, from + n)
    BY <1>3 DEF Trails
  <2> HIDE DEF long, n
  <2>2. \A k \in 1 .. n : bytes[k] = flat[from + k]
    BY <2>1, SliceElements
  <2>3. /\ SubSeq(long, from + 1, from + n) \in Seq(T)
        /\ Len(SubSeq(long, from + 1, from + n)) = n
        /\ \A k \in 1 .. n : SubSeq(long, from + 1, from + n)[k] = long[from + k]
    BY <1>1, <2>1
  <2>4. \A k \in 1 .. n : from + k \in 1 .. Len(flat)
    BY <2>1
  <2>5. \A k \in 1 .. n : SubSeq(long, from + 1, from + n)[k] = bytes[k]
    BY <1>1, <2>2, <2>3, <2>4
  <2>6. bytes = SubSeq(long, from + 1, from + n)
    <3> DEFINE x == SubSeq(long, from + 1, from + n)
    <3> HIDE DEF x
    <3>1. x \in Seq(T) /\ Len(x) = Len(bytes) /\ \A k \in 1 .. Len(bytes) : x[k] = bytes[k]
      BY <2>3, <2>5 DEF x, n
    <3>2. x = bytes
      BY <3>1, SeqEqual
    <3>3. QED
      BY <3>2 DEF x
  <2>7. from + n <= Len(long)
    BY <1>1, <2>1
  <2>8. QED
    BY <2>6, <2>7 DEF Trails, long, n
<1>4. QED
  BY <1>2, <1>3

LEMMA TrailGoesOn ==
  ASSUME NEW T, NEW flat \in Seq(T), NEW from \in Nat, NEW x \in Seq(T), NEW y \in Seq(T),
         Trails(flat, from, x), Trails(flat, from + Len(x), y)
  PROVE  /\ Trails(flat, from, Cat(x, y)) /\ Cat(x, y) \in Seq(T)
         /\ from + Len(Cat(x, y)) = (from + Len(x)) + Len(y)
<1> DEFINE z == Cat(x, y)
           w == SubSeq(flat, from + 1, from + Len(z))
<1>1. /\ z \in Seq(T) /\ Len(z) = Len(x) + Len(y)
      /\ \A k \in 1 .. Len(x) : z[k] = x[k]
      /\ \A k \in 1 .. Len(y) : z[Len(x) + k] = y[k]
  BY ConcatElements DEF Cat
<1>2. Len(x) \in Nat /\ Len(y) \in Nat
  OBVIOUS
<1>3. CASE y = << >>
  <2>1. z = x
    BY <1>3 DEF Cat
  <2>2. Len(y) = 0
    BY <1>3
  <2>3. Trails(flat, from, z)
    BY <2>1
  <2> HIDE DEF z
  <2>4. QED
    BY <1>1, <1>2, <2>2, <2>3 DEF z
<1>4. CASE y # << >>
  <2>1. (from + Len(x)) + Len(y) <= Len(flat)
        /\ y = SubSeq(flat, (from + Len(x)) + 1, (from + Len(x)) + Len(y))
        /\ x = SubSeq(flat, from + 1, from + Len(x))
    BY <1>4 DEF Trails
  <2>2. \A k \in 1 .. Len(x) : x[k] = flat[from + k]
    BY <1>2, <2>1
  <2>3. \A k \in 1 .. Len(y) : y[k] = flat[(from + Len(x)) + k]
    BY <1>2, <2>1
  <2> HIDE DEF z
  <2>4. from + Len(z) <= Len(flat) /\ Len(z) \in Nat
    BY <1>1, <1>2, <2>1
  <2>5. w \in Seq(T) /\ Len(w) = Len(z) /\ \A k \in 1 .. Len(z) : w[k] = flat[from + k]
    BY <1>1, <2>4
  <2>6. ASSUME NEW k \in 1 .. Len(z) PROVE z[k] = flat[from + k]
    <3>1. CASE k <= Len(x)
      <4>1. k \in 1 .. Len(x)
        BY <1>1, <1>2, <3>1
      <4>2. QED
        BY <1>1, <2>2, <4>1
    <3>2. CASE ~(k <= Len(x))
      <4>1. k - Len(x) \in 1 .. Len(y) /\ Len(x) + (k - Len(x)) = k
            /\ (from + Len(x)) + (k - Len(x)) = from + k
        BY <1>1, <1>2, <3>2
      <4>2. z[k] = y[k - Len(x)] /\ y[k - Len(x)] = flat[from + k]
        BY <1>1, <2>3, <4>1
      <4>3. QED
        BY <4>2
    <3>3. QED
      BY <3>1, <3>2
  <2> HIDE DEF w
  <2>7. z = w
    BY <1>1, <2>5, <2>6, SeqEqual
  <2>8. Trails(flat, from, z)
    BY <2>4, <2>7 DEF Trails, w
  <2>9. from + Len(z) = (from + Len(x)) + Len(y)
    BY <1>1, <1>2
  <2>10. QED
    BY <1>1, <2>8, <2>9 DEF z
<1>5. QED
  BY <1>3, <1>4
=============================================================================

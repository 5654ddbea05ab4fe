--------------------------- MODULE ServerStreamProofs ---------------------------
(***************************************************************************)
(* Proofs about ServerStream for any messages whose lines are lines, any   *)
(* requests and block sizes, and however the network cuts the stream.      *)
(***************************************************************************)
EXTENDS ServerStream, Recursion

-----------------------------------------------------------------------------
(* One sequence after the other.                                            *)

\* Sequences of the same elements are the same.
LEMMA SameSeq ==
  ASSUME NEW U, NEW a \in Seq(U), NEW b \in Seq(U), Len(a) = Len(b),
         \A i \in 1 .. Len(a) : a[i] = b[i]
  PROVE  a = b
  OBVIOUS

\* Two sequences, one after the other.
LEMMA Concat ==
  ASSUME NEW U, NEW a \in Seq(U), NEW b \in Seq(U)
  PROVE  /\ a \o b \in Seq(U) /\ Len(a \o b) = Len(a) + Len(b)
         /\ Len(a) \in Nat /\ Len(b) \in Nat
         /\ \A i \in 1 .. Len(a) : (a \o b)[i] = a[i]
         /\ \A i \in 1 .. Len(b) : (a \o b)[Len(a) + i] = b[i]
  OBVIOUS

\* Three sequences.
LEMMA ConcatAssoc ==
  ASSUME NEW U, NEW a \in Seq(U), NEW b \in Seq(U), NEW c \in Seq(U)
  PROVE  (a \o b) \o c = a \o (b \o c)
  OBVIOUS

\* The empty sequence.
LEMMA ConcatEmpty ==
  ASSUME NEW U, NEW a \in Seq(U)
  PROVE  a \o <<>> = a /\ <<>> \o a = a
  OBVIOUS

\* What follows the same sequence is the same.
LEMMA ConcatCancel ==
  ASSUME NEW U, NEW a \in Seq(U), NEW b \in Seq(U), NEW x \in Seq(U), x \o a = x \o b
  PROVE  a = b
<1>1. Len(a) = Len(b)
  OBVIOUS
<1>2. \A i \in 1 .. Len(a) : a[i] = (x \o a)[Len(x) + i] /\ b[i] = (x \o b)[Len(x) + i]
  BY <1>1
<1> QED
  BY <1>1, <1>2

\* A sequence is its first n elements and the others.
LEMMA ConcatSplit ==
  ASSUME NEW U, NEW a \in Seq(U), NEW n \in 0 .. Len(a)
  PROVE  /\ a = SubSeq(a, 1, n) \o SubSeq(a, n + 1, Len(a))
         /\ SubSeq(a, 1, n) \in Seq(U) /\ Len(SubSeq(a, 1, n)) = n
         /\ SubSeq(a, n + 1, Len(a)) \in Seq(U)
         /\ Len(SubSeq(a, n + 1, Len(a))) = Len(a) - n
<1> DEFINE u == SubSeq(a, 1, n)
           v == SubSeq(a, n + 1, Len(a))
<1>1. u \in Seq(U) /\ Len(u) = n /\ \A i \in 1 .. n : u[i] = a[i]
  OBVIOUS
<1>2. v \in Seq(U) /\ Len(v) = Len(a) - n
  OBVIOUS
<1>3. \A i \in 1 .. Len(a) - n : v[i] = a[n + i]
  OBVIOUS
<1> HIDE DEF u, v
<1>4. a = u \o v
  <2>1. Len(u \o v) = Len(a) /\ u \o v \in Seq(U)
    BY <1>1, <1>2
  <2>2. ASSUME NEW i \in 1 .. Len(a) PROVE (u \o v)[i] = a[i]
    <3>1. CASE i <= n
      BY <1>1, <1>2, <3>1
    <3>2. CASE i > n
      <4>1. i - n \in 1 .. Len(a) - n /\ n + (i - n) = i
        BY <3>2
      <4>2. (u \o v)[i] = v[i - n]
        BY <1>1, <1>2, <3>2
      <4> QED
        BY <1>3, <4>1, <4>2
    <3>3. i \in Nat /\ n \in Nat /\ Len(a) \in Nat
      OBVIOUS
    <3>4. i <= n \/ i > n
      BY <3>3
    <3> QED
      BY <3>1, <3>2, <3>4, Zenon
  <2> QED
    BY <2>1, <2>2, SameSeq
<1> QED
  BY <1>1, <1>2, <1>4 DEF u, v

\* A sequence that is not empty is its head and its tail.
LEMMA ConcatHead ==
  ASSUME NEW U, NEW a \in Seq(U), a # <<>>
  PROVE  /\ a = <<Head(a)>> \o Tail(a)
         /\ Head(a) \in U /\ Tail(a) \in Seq(U)
  OBVIOUS

\* A sequence with one more element.
LEMMA ConcatAppend ==
  ASSUME NEW U, NEW a \in Seq(U), NEW e \in U
  PROVE  Append(a, e) = a \o <<e>> /\ Append(a, e) \in Seq(U)
  OBVIOUS

\* What holds of any sequences of elements of U, as one fact about U.
SequenceLaws(U) ==
  /\ <<>> \in Seq(U)
  /\ \A a, b \in Seq(U) : a \o b \in Seq(U)
  /\ \A a, b, c \in Seq(U) : (a \o b) \o c = a \o (b \o c)
  /\ \A a \in Seq(U) : a \o <<>> = a /\ <<>> \o a = a
  /\ \A a, b, c \in Seq(U) : a \o b = a \o c => b = c

\* It does.
LEMMA SequenceLawsHold ==
  ASSUME NEW U
  PROVE  SequenceLaws(U)
<1>1. \A a, b, c \in Seq(U) : a \o b = a \o c => b = c
  BY ConcatCancel
<1>2. \A a, b, c \in Seq(U) : (a \o b) \o c = a \o (b \o c)
  OBVIOUS
<1>3. \A a, b \in Seq(U) : a \o b \in Seq(U)
  OBVIOUS
<1>4. \A a \in Seq(U) : a \o <<>> = a /\ <<>> \o a = a
  OBVIOUS
<1>5. <<>> \in Seq(U)
  OBVIOUS
<1> QED
  BY <1>1, <1>2, <1>3, <1>4, <1>5 DEF SequenceLaws

\* Something behind a sequence that is cut after n elements.
LEMMA ConcatBehind ==
  ASSUME NEW U, NEW a \in Seq(U), NEW b \in Seq(U), NEW n \in 0 .. Len(a)
  PROVE  a \o b = SubSeq(a, 1, n) \o (SubSeq(a, n + 1, Len(a)) \o b)
<1> DEFINE x == SubSeq(a, 1, n)
           y == SubSeq(a, n + 1, Len(a))
<1>1. a = x \o y
  BY ConcatSplit
<1>2. x \in Seq(U) /\ y \in Seq(U) /\ b \in Seq(U)
  BY ConcatSplit
<1> HIDE DEF x, y
<1>3. (x \o y) \o b = x \o (y \o b)
  <2>1. SequenceLaws(U)
    BY SequenceLawsHold
  <2>2. \A u, v, w \in Seq(U) : (u \o v) \o w = u \o (v \o w)
    BY <2>1, Zenon DEF SequenceLaws
  <2> QED
    BY <1>2, <2>2, ZenonT(30)
<1> QED
  BY <1>1, <1>3 DEF x, y

\* The two sequences again.
LEMMA ConcatParts ==
  ASSUME NEW U, NEW x \in Seq(U), NEW r \in Seq(U)
  PROVE  /\ SubSeq(x \o r, 1, Len(x)) = x
         /\ SubSeq(x \o r, Len(x) + 1, Len(x \o r)) = r
<1> DEFINE w == x \o r
<1>1. /\ w \in Seq(U) /\ Len(w) = Len(x) + Len(r) /\ Len(x) \in Nat /\ Len(r) \in Nat
      /\ \A i \in 1 .. Len(x) : w[i] = x[i]
      /\ \A i \in 1 .. Len(r) : w[Len(x) + i] = r[i]
  BY Concat
<1> HIDE DEF w
<1>2. SubSeq(w, 1, Len(x)) = x
  BY <1>1
<1>3. SubSeq(w, Len(x) + 1, Len(w)) = r
  BY <1>1
<1> QED
  BY <1>2, <1>3 DEF w

\* Two sequences cut after n elements of the first.
LEMMA ConcatCut ==
  ASSUME NEW U, NEW a \in Seq(U), NEW b \in Seq(U), NEW n \in 0 .. Len(a)
  PROVE  /\ SubSeq(a \o b, 1, n) = SubSeq(a, 1, n)
         /\ SubSeq(a \o b, n + 1, Len(a \o b)) = SubSeq(a, n + 1, Len(a)) \o b
<1> DEFINE x == SubSeq(a, 1, n)
           y == SubSeq(a, n + 1, Len(a))
<1>1. a \o b = x \o (y \o b)
  BY ConcatBehind
<1>2. x \in Seq(U) /\ y \in Seq(U) /\ Len(x) = n
  BY ConcatSplit
<1> HIDE DEF x, y
<1>3. y \o b \in Seq(U)
  BY <1>2
<1> DEFINE r == y \o b
<1>4. r \in Seq(U)
  BY <1>3
<1> HIDE DEF r
<1>5. SubSeq(x \o r, 1, Len(x)) = x /\ SubSeq(x \o r, Len(x) + 1, Len(x \o r)) = r
  BY <1>2, <1>4, ConcatParts
<1> QED
  BY <1>1, <1>2, <1>5 DEF x, y, r

\* The first element.
LEMMA FirstOne ==
  ASSUME NEW U, NEW a \in Seq(U), Len(a) >= 1
  PROVE  SubSeq(a, 1, 1) = <<a[1]>>
<1> DEFINE x == SubSeq(a, 1, 1)
           y == SubSeq(a, 1 + 1, Len(a))
<1>1. 1 \in 0 .. Len(a) /\ 1 \in 1 .. Len(a)
  OBVIOUS
<1>2. a = x \o y /\ x \in Seq(U) /\ y \in Seq(U) /\ Len(x) = 1
  BY <1>1, ConcatSplit
<1> HIDE DEF x, y
<1>3. a[1] = x[1]
  <2>1. \A i \in 1 .. Len(x) : (x \o y)[i] = x[i]
    BY <1>2, Concat
  <2> QED
    BY <1>2, <2>1
<1>4. x = <<x[1]>>
  BY <1>2
<1> QED
  BY <1>3, <1>4 DEF x

\* The first of two sequences is a prefix.
LEMMA ConcatPrefix ==
  ASSUME NEW U, NEW a \in Seq(U), NEW b \in Seq(U)
  PROVE  IsPrefix(a, a \o b)
<1>1. Len(a) <= Len(a \o b) /\ a \o b \in Seq(U) /\ Len(a) \in Nat
  OBVIOUS
<1>2. SubSeq(a \o b, 1, Len(a)) = a
  BY ConcatParts
<1>3. SubSeq(a, 1, Len(a)) = a
  OBVIOUS
<1> QED
  BY <1>1, <1>2, <1>3 DEF IsPrefix

\* A sequence of elements of a smaller set.
LEMMA SeqSub ==
  ASSUME NEW U, NEW T, U \subseteq T, NEW a \in Seq(U)
  PROVE  a \in Seq(T)
  OBVIOUS

-----------------------------------------------------------------------------
(* FlattenSeq.                                                              *)

\* f holds FlattenSeq of every prefix of ss.
FlatUpTo(f, ss) ==
  f[0] = <<>> /\ \A i \in 1 .. Len(ss) : f[i] = f[i - 1] \o ss[i]

\* Any two such functions agree.
LEMMA FlatUpToAgree ==
  ASSUME NEW n \in Nat, NEW ss, n <= Len(ss), Len(ss) \in Nat,
         NEW f, NEW g, FlatUpTo(f, ss), FlatUpTo(g, ss)
  PROVE  f[n] = g[n]
<1> DEFINE A == {i \in Nat : i <= n => f[i] = g[i]}
<1>1. 0 \in A
  BY DEF FlatUpTo
<1>2. ASSUME NEW i \in A PROVE i + 1 \in A
  <2> SUFFICES ASSUME i + 1 <= n PROVE f[i + 1] = g[i + 1]
    OBVIOUS
  <2>1. i \in Nat /\ f[i] = g[i] /\ (i + 1) - 1 = i
    OBVIOUS
  <2>2. i + 1 \in 1 .. Len(ss)
    BY <2>1
  <2> QED
    BY <2>1, <2>2 DEF FlatUpTo
<1>3. A = Nat
  <2> HIDE DEF A
  <2>1. A \in SUBSET Nat
    BY DEF A
  <2> QED
    BY <1>1, <1>2, <2>1, NatSetInduction
<1> QED
  BY <1>3

\* There is one, its values are sequences, and FlattenSeq is its last value.
LEMMA FlatFollows ==
  ASSUME NEW U, NEW ss \in Seq(Seq(U))
  PROVE  \E f \in [0 .. Len(ss) -> Seq(U)] : FlatUpTo(f, ss) /\ FlattenSeq(ss) = f[Len(ss)]
<1> DEFINE n == Len(ss)
           step == [p \in (1 .. n) \X Seq(U) |-> p[2] \o ss[p[1]]]
           Up(u) == u = [i \in 1 .. n |-> IF i = 1 THEN ss[i] ELSE u[i - 1] \o ss[i]]
           up == CHOOSE u : Up(u)
<1>1. n \in Nat /\ <<>> \in Seq(U) /\ \A i \in 1 .. n : ss[i] \in Seq(U)
  OBVIOUS
<1>2. step \in [(1 .. n) \X Seq(U) -> Seq(U)]
  <2> SUFFICES ASSUME NEW p \in (1 .. n) \X Seq(U) PROVE p[2] \o ss[p[1]] \in Seq(U)
    OBVIOUS
  <2>1. p[1] \in 1 .. n /\ p[2] \in Seq(U) /\ ss[p[1]] \in Seq(U)
    BY <1>1
  <2> QED
    BY <2>1
<1>3. PICK f \in [0 .. n -> Seq(U)] : Follows(f, n, <<>>, step)
  <2> HIDE DEF step, n
  <2> QED
    BY <1>1, <1>2, RecursionExists
<1>4. \A i \in 1 .. n : f[i] = f[i - 1] \o ss[i]
  <2> SUFFICES ASSUME NEW i \in 1 .. n PROVE f[i] = f[i - 1] \o ss[i]
    OBVIOUS
  <2>1. f[i] = step[<<i, f[i - 1]>>]
    BY <1>3 DEF Follows
  <2>2. f[i - 1] \in Seq(U)
    <3> HIDE DEF n
    <3>1. i - 1 \in 0 .. n
      BY <1>1
    <3> QED
      BY <1>3, <3>1
  <2>3. <<i, f[i - 1]>> \in (1 .. n) \X Seq(U)
    BY <2>2
  <2> QED
    BY <2>1, <2>3
<1>5. f[0] = <<>>
  BY <1>3 DEF Follows
<1>6. FlatUpTo(f, ss)
  BY <1>4, <1>5 DEF FlatUpTo
<1>7. CASE n = 0
  <2>1. FlattenSeq(ss) = <<>>
    <3>1. ss = <<>>
      BY <1>7
    <3> QED
      BY <1>7, <3>1 DEF FlattenSeq
  <2> QED
    BY <1>5, <1>6, <1>7, <2>1
<1>8. CASE n # 0
  <2> DEFINE g == [i \in 1 .. n |-> f[i]]
  <2>1. Up(g)
    <3> HIDE DEF n
    <3>1. ASSUME NEW i \in 1 .. n
          PROVE  f[i] = IF i = 1 THEN ss[i] ELSE g[i - 1] \o ss[i]
      <4>1. CASE i = 1
        <5>1. 1 \in 1 .. n /\ 1 - 1 = 0
          BY <4>1
        <5>2. f[1] = f[1 - 1] \o ss[1] /\ ss[1] \in Seq(U)
          BY <1>1, <1>4, <5>1
        <5>3. f[1] = <<>> \o ss[1]
          BY <1>5, <5>1, <5>2
        <5> QED
          BY <4>1, <5>2, <5>3, ConcatEmpty
      <4>2. CASE i # 1
        <5>1. i - 1 \in 1 .. n
          BY <1>1, <4>2
        <5> QED
          BY <1>4, <4>2, <5>1
      <4> QED
        BY <4>1, <4>2
    <3> QED
      BY <3>1
  <2>2. Up(up)
    <3> HIDE DEF Up, g
    <3> QED
      BY <2>1
  <2> DEFINE h == [i \in 0 .. n |-> IF i = 0 THEN <<>> ELSE up[i]]
  <2>3. FlatUpTo(h, ss)
    <3> HIDE DEF up
    <3>1. h[0] = <<>>
      BY <1>1
    <3>2. ASSUME NEW i \in 1 .. n PROVE h[i] = h[i - 1] \o ss[i]
      <4>1. i \in Nat /\ i - 1 \in 0 .. n /\ i \in 0 .. n /\ i # 0
        BY <1>1
      <4>2. up[i] = IF i = 1 THEN ss[i] ELSE up[i - 1] \o ss[i]
        BY <2>2
      <4>3. h[i] = up[i]
        BY <4>1
      <4>4. CASE i = 1
        <5>1. h[i - 1] = <<>> /\ ss[i] \in Seq(U)
          BY <1>1, <4>1, <4>4
        <5>2. <<>> \o ss[i] = ss[i]
          BY <5>1, ConcatEmpty
        <5> QED
          BY <4>2, <4>3, <4>4, <5>1, <5>2
      <4>5. CASE i # 1
        <5>1. h[i - 1] = up[i - 1]
          BY <4>1, <4>5
        <5> QED
          BY <4>2, <4>3, <4>5, <5>1
      <4> QED
        BY <4>4, <4>5
    <3> QED
      BY <3>1, <3>2 DEF FlatUpTo
  <2>4. h[n] = f[n]
    <3> HIDE DEF h
    <3> QED
      BY <1>1, <1>6, <2>3, FlatUpToAgree
  <2>5. h[n] = up[n]
    <3> HIDE DEF up
    <3> QED
      BY <1>1, <1>8
  <2>6. FlattenSeq(ss) = up[n]
    BY <1>8 DEF FlattenSeq
  <2> HIDE DEF up, h
  <2> QED
    BY <1>6, <2>4, <2>5, <2>6
<1> QED
  BY <1>7, <1>8

\* Its type, and any such function gives it.
LEMMA FlatBy ==
  ASSUME NEW U, NEW ss \in Seq(Seq(U))
  PROVE  /\ FlattenSeq(ss) \in Seq(U)
         /\ \A f : FlatUpTo(f, ss) => FlattenSeq(ss) = f[Len(ss)]
<1>1. PICK g \in [0 .. Len(ss) -> Seq(U)] : FlatUpTo(g, ss) /\ FlattenSeq(ss) = g[Len(ss)]
  BY FlatFollows
<1>2. Len(ss) \in Nat /\ Len(ss) <= Len(ss) /\ Len(ss) \in 0 .. Len(ss)
  OBVIOUS
<1>3. FlattenSeq(ss) \in Seq(U)
  BY <1>1, <1>2
<1>4. ASSUME NEW f, FlatUpTo(f, ss) PROVE FlattenSeq(ss) = f[Len(ss)]
  <2>1. g[Len(ss)] = f[Len(ss)]
    BY <1>1, <1>2, <1>4, FlatUpToAgree
  <2> QED
    BY <1>1, <2>1
<1> QED
  BY <1>3, <1>4

\* The parts of two sequences of parts, one after the other.
LEMMA FlatConcat ==
  ASSUME NEW U, NEW s \in Seq(Seq(U)), NEW t \in Seq(Seq(U))
  PROVE  FlattenSeq(s \o t) = FlattenSeq(s) \o FlattenSeq(t)
<1>1. PICK f \in [0 .. Len(s) -> Seq(U)] : FlatUpTo(f, s) /\ FlattenSeq(s) = f[Len(s)]
  BY FlatFollows
<1>2. PICK g \in [0 .. Len(t) -> Seq(U)] : FlatUpTo(g, t) /\ FlattenSeq(t) = g[Len(t)]
  BY FlatFollows
<1> DEFINE m == Len(s)
           n == Len(t)
           h == [i \in 0 .. m + n |-> IF i <= m THEN f[i] ELSE f[m] \o g[i - m]]
<1>3. /\ m \in Nat /\ n \in Nat /\ s \o t \in Seq(Seq(U)) /\ Len(s \o t) = m + n
      /\ \A i \in 1 .. m : (s \o t)[i] = s[i] /\ s[i] \in Seq(U)
      /\ \A i \in 1 .. n : (s \o t)[m + i] = t[i] /\ t[i] \in Seq(U)
  <2>1. s \o t \in Seq(Seq(U)) /\ m \in Nat /\ n \in Nat
    OBVIOUS
  <2> QED
    BY <2>1, Concat
<1>4. f[m] \in Seq(U) /\ f[0] = <<>> /\ g[0] = <<>> /\ f[m] \o <<>> = f[m]
  <2>1. f[m] \in Seq(U)
    <3> HIDE DEF m
    <3>1. m \in 0 .. m
      BY <1>3
    <3> QED
      BY <3>1 DEF m
  <2> QED
    BY <1>1, <1>2, <2>1, ConcatEmpty DEF FlatUpTo
<1> HIDE DEF m, n
<1>5. h[0] = <<>>
  BY <1>3, <1>4
<1>6. ASSUME NEW i \in 1 .. m + n PROVE h[i] = h[i - 1] \o (s \o t)[i]
  <2>1. /\ i \in Nat /\ i # 0 /\ i \in 0 .. m + n /\ i - 1 \in 0 .. m + n
        /\ (i <= m \/ i > m)
    BY <1>3
  <2>2. CASE i <= m
    <3>1. i \in 1 .. m /\ i - 1 <= m
      BY <1>3, <2>1, <2>2
    <3>2. h[i] = f[i] /\ h[i - 1] = f[i - 1]
      BY <2>1, <2>2, <3>1
    <3>3. f[i] = f[i - 1] \o s[i]
      BY <1>1, <3>1 DEF FlatUpTo, m
    <3> QED
      BY <1>3, <3>1, <3>2, <3>3
  <2>3. CASE i > m
    <3> DEFINE j == i - m
    <3>1. j \in 1 .. n /\ j - 1 \in 0 .. n /\ m + j = i
      BY <1>3, <2>1, <2>3
    <3>2. h[i] = f[m] \o g[j]
      <4>1. ~ (i <= m)
        BY <1>3, <2>1, <2>3
      <4> QED
        BY <2>1, <4>1
    <3>3. g[j] = g[j - 1] \o t[j] /\ g[j - 1] \in Seq(U) /\ t[j] \in Seq(U)
      <4> HIDE DEF j
      <4>1. g[j] = g[j - 1] \o t[j]
        BY <1>2, <3>1 DEF FlatUpTo, n
      <4>2. g[j - 1] \in Seq(U)
        BY <1>2, <3>1 DEF n
      <4> QED
        BY <1>3, <3>1, <4>1, <4>2
    <3>4. h[i - 1] = f[m] \o g[j - 1]
      <4>1. CASE i - 1 <= m
        <5>1. i - 1 = m /\ j - 1 = 0
          BY <1>3, <2>1, <2>3, <4>1
        <5>2. h[i - 1] = f[m]
          BY <2>1, <4>1, <5>1
        <5> QED
          BY <1>4, <5>1, <5>2
      <4>2. CASE i - 1 > m
        <5>1. (i - 1) - m = j - 1 /\ ~ (i - 1 <= m)
          BY <1>3, <2>1, <4>2
        <5> QED
          BY <2>1, <5>1
      <4>3. i - 1 <= m \/ i - 1 > m
        BY <1>3, <2>1
      <4> QED
        BY <4>1, <4>2, <4>3, Zenon
    <3>5. (s \o t)[i] = t[j]
      BY <1>3, <3>1
    <3> HIDE DEF h, j
    <3>6. f[m] \o (g[j - 1] \o t[j]) = (f[m] \o g[j - 1]) \o t[j]
      <4>1. \A a, b, c \in Seq(U) : a \o (b \o c) = (a \o b) \o c
        BY SMTT(30)
      <4> QED
        BY <1>4, <3>3, <4>1, Zenon
    <3> QED
      BY <3>2, <3>3, <3>4, <3>5, <3>6
  <2> QED
    BY <2>1, <2>2, <2>3, Zenon
<1> HIDE DEF h
<1>7. FlatUpTo(h, s \o t)
  BY <1>3, <1>5, <1>6 DEF FlatUpTo
<1>8. FlattenSeq(s \o t) = h[m + n]
  BY <1>3, <1>7, FlatBy
<1>9. h[m + n] = f[m] \o g[n]
  <2>1. CASE n = 0
    <3>1. h[m + n] = f[m]
      BY <1>3, <2>1 DEF h
    <3> QED
      BY <1>4, <2>1, <3>1
  <2>2. CASE n # 0
    <3>1. m + n \in 0 .. m + n /\ ~ (m + n <= m) /\ (m + n) - m = n
      BY <1>3, <2>2
    <3> QED
      BY <3>1 DEF h
  <2> QED
    BY <2>1, <2>2
<1> QED
  BY <1>1, <1>2, <1>8, <1>9 DEF m, n

\* No part, and one part.
LEMMA FlatFew ==
  ASSUME NEW U, NEW e \in Seq(U)
  PROVE  FlattenSeq(<<>>) = <<>> /\ FlattenSeq(<<e>>) = e
<1>1. <<>> \in Seq(Seq(U)) /\ <<e>> \in Seq(Seq(U)) /\ Len(<<>>) = 0 /\ Len(<<e>>) = 1
  OBVIOUS
<1>2. FlattenSeq(<<>>) = <<>>
  <2>1. PICK f \in [0 .. Len(<<>>) -> Seq(U)] : FlatUpTo(f, <<>>) /\ FlattenSeq(<<>>) = f[Len(<<>>)]
    BY <1>1, FlatFollows
  <2> QED
    BY <1>1, <2>1 DEF FlatUpTo
<1>3. FlattenSeq(<<e>>) = e
  <2>1. PICK f \in [0 .. Len(<<e>>) -> Seq(U)] : FlatUpTo(f, <<e>>) /\ FlattenSeq(<<e>>) = f[Len(<<e>>)]
    BY <1>1, FlatFollows
  <2>2. 1 \in 1 .. Len(<<e>>) /\ 1 - 1 = 0 /\ <<e>>[1] = e
    BY <1>1
  <2>3. f[1] = f[0] \o e /\ f[0] = <<>>
    BY <2>1, <2>2 DEF FlatUpTo
  <2> QED
    BY <1>1, <2>1, <2>3, ConcatEmpty
<1> QED
  BY <1>2, <1>3

-----------------------------------------------------------------------------
(* Spelling: every element of a sequence is written as a sequence.          *)

\* The elements of s as e writes them, one after the other.
Spelled(e, s) == FlattenSeq([i \in DOMAIN s |-> e[s[i]]])

\* What holds of the spelling of any elements, as one fact about U and M.
SpellingLaws(U, M) ==
  \A e \in [M -> Seq(U)] :
    /\ \A s, t \in Seq(M) :
         Spelled(e, s) \in Seq(U) /\ Spelled(e, s \o t) = Spelled(e, s) \o Spelled(e, t)
    /\ \A x \in M : Spelled(e, <<x>>) = e[x]
    /\ Spelled(e, <<>>) = <<>>

\* It does.
LEMMA SpellingLawsHold ==
  ASSUME NEW U, NEW M
  PROVE  SpellingLaws(U, M)
<1> SUFFICES ASSUME NEW e \in [M -> Seq(U)]
    PROVE  /\ \A s, t \in Seq(M) :
                Spelled(e, s) \in Seq(U) /\ Spelled(e, s \o t) = Spelled(e, s) \o Spelled(e, t)
           /\ \A x \in M : Spelled(e, <<x>>) = e[x]
           /\ Spelled(e, <<>>) = <<>>
  BY DEF SpellingLaws
<1>1. ASSUME NEW s \in Seq(M), NEW t \in Seq(M)
      PROVE  Spelled(e, s) \in Seq(U) /\ Spelled(e, s \o t) = Spelled(e, s) \o Spelled(e, t)
  <2> DEFINE Sp(u) == [i \in DOMAIN u |-> e[u[i]]]
  <2>1. ASSUME NEW u \in Seq(M)
        PROVE  Sp(u) \in Seq(Seq(U)) /\ Len(Sp(u)) = Len(u) /\ \A i \in 1 .. Len(u) : Sp(u)[i] = e[u[i]]
    <3>1. DOMAIN u = 1 .. Len(u) /\ Len(u) \in Nat /\ \A i \in 1 .. Len(u) : u[i] \in M
      OBVIOUS
    <3>2. Sp(u) \in [1 .. Len(u) -> Seq(U)]
      BY <3>1
    <3> QED
      BY <3>1, <3>2
  <2>2. \A a, b \in Seq(Seq(U)) :
           /\ a \o b \in Seq(Seq(U)) /\ Len(a \o b) = Len(a) + Len(b)
           /\ \A i \in 1 .. Len(a) : (a \o b)[i] = a[i]
           /\ \A i \in 1 .. Len(b) : (a \o b)[Len(a) + i] = b[i]
    BY Concat
  <2>3. Sp(s \o t) = Sp(s) \o Sp(t)
    <3>1. s \o t \in Seq(M) /\ Len(s \o t) = Len(s) + Len(t) /\ Len(s) \in Nat /\ Len(t) \in Nat
      BY Concat
    <3>2. Sp(s) \in Seq(Seq(U)) /\ Sp(t) \in Seq(Seq(U)) /\ Sp(s \o t) \in Seq(Seq(U))
      BY <2>1, <3>1
    <3>3. Len(Sp(s)) = Len(s) /\ Len(Sp(t)) = Len(t) /\ Len(Sp(s \o t)) = Len(s) + Len(t)
      BY <2>1, <3>1
    <3>4. \A i \in 1 .. Len(s) : Sp(s)[i] = e[s[i]]
      BY <2>1
    <3>5. \A i \in 1 .. Len(t) : Sp(t)[i] = e[t[i]]
      BY <2>1
    <3>6. \A i \in 1 .. Len(s) + Len(t) : Sp(s \o t)[i] = e[(s \o t)[i]]
      BY <2>1, <3>1
    <3> HIDE DEF Sp
    <3>7. Sp(s) \o Sp(t) \in Seq(Seq(U)) /\ Len(Sp(s) \o Sp(t)) = Len(s) + Len(t)
      BY <2>2, <3>2, <3>3
    <3>8. ASSUME NEW i \in 1 .. Len(s) + Len(t) PROVE Sp(s \o t)[i] = (Sp(s) \o Sp(t))[i]
      <4>1. i \in Nat /\ (i <= Len(s) \/ i > Len(s))
        BY <3>1
      <4>2. CASE i <= Len(s)
        <5>1. i \in 1 .. Len(s)
          BY <3>1, <4>1, <4>2
        <5>2. (s \o t)[i] = s[i]
          BY <5>1, Concat
        <5>3. (Sp(s) \o Sp(t))[i] = Sp(s)[i]
          BY <2>2, <3>2, <3>3, <5>1
        <5> QED
          BY <3>4, <3>6, <5>1, <5>2, <5>3
      <4>3. CASE i > Len(s)
        <5> DEFINE j == i - Len(s)
        <5>1. j \in 1 .. Len(t) /\ Len(s) + j = i
          BY <3>1, <4>1, <4>3
        <5> HIDE DEF j
        <5>2. (s \o t)[i] = t[j]
          BY <5>1, Concat
        <5>3. (Sp(s) \o Sp(t))[i] = Sp(t)[j]
          <6>1. j \in 1 .. Len(Sp(t)) /\ Len(Sp(s)) + j = i
            BY <3>3, <5>1
          <6>2. \A k \in 1 .. Len(Sp(t)) : (Sp(s) \o Sp(t))[Len(Sp(s)) + k] = Sp(t)[k]
            BY <2>2, <3>2
          <6>3. (Sp(s) \o Sp(t))[Len(Sp(s)) + j] = Sp(t)[j]
            BY <6>1, <6>2
          <6> QED
            BY <6>1, <6>3
        <5> QED
          BY <3>5, <3>6, <5>1, <5>2, <5>3
      <4> QED
        BY <4>1, <4>2, <4>3, Zenon
    <3> QED
      BY <3>2, <3>3, <3>7, <3>8, SameSeq
  <2>4. Sp(s) \in Seq(Seq(U)) /\ Sp(t) \in Seq(Seq(U))
    BY <2>1
  <2>5. /\ Spelled(e, s) = FlattenSeq(Sp(s)) /\ Spelled(e, t) = FlattenSeq(Sp(t))
        /\ Spelled(e, s \o t) = FlattenSeq(Sp(s \o t))
    BY DEF Spelled
  <2> HIDE DEF Sp
  <2>6. FlattenSeq(Sp(s)) \in Seq(U)
    BY <2>4, FlatBy
  <2>7. FlattenSeq(Sp(s) \o Sp(t)) = FlattenSeq(Sp(s)) \o FlattenSeq(Sp(t))
    BY <2>4, FlatConcat
  <2> QED
    BY <2>3, <2>5, <2>6, <2>7
<1>2. ASSUME NEW x \in M PROVE Spelled(e, <<x>>) = e[x]
  <2>1. e[x] \in Seq(U)
    OBVIOUS
  <2>2. [i \in DOMAIN <<x>> |-> e[<<x>>[i]]] = <<e[x]>>
    OBVIOUS
  <2> QED
    BY <2>1, <2>2, FlatFew DEF Spelled
<1>3. Spelled(e, <<>>) = <<>>
  <2>1. [i \in DOMAIN <<>> |-> e[<<>>[i]]] = <<>> /\ <<>> \in Seq(U)
    OBVIOUS
  <2> QED
    BY <2>1, FlatFew DEF Spelled
<1> QED
  BY <1>1, <1>2, <1>3

-----------------------------------------------------------------------------
(* Bytes, lines and messages.                                               *)

\* The texts of lines and bodies, and what a byte is.
Texts == STRING \cup {"newline", "Field", "DataLength", "Data", "EndMessage", ""}
Bytes == Texts \X Nat
FieldSet == {Text("Field")} \cup ({"DataLength"} \X Nat)
MessageSet == [h : Texts, fields : Seq(Bytes), data : Seq(Bytes)]

\* What the node has to write for the messages s.
Written(s) == FlattenSeq([i \in DOMAIN s |-> Encode(s[i])])

\* The bytes of lines.
LEMMA ByteTypes ==
  /\ NL \in Bytes /\ FieldSet \subseteq Bytes /\ \A f \in FieldSet : f # NL
  /\ \A t \in Texts : Text(t) \in Bytes
  /\ \A t \in Texts \ {"newline"} : Text(t) # NL
  /\ \A b \in Bytes : Line(b) \in Seq(Bytes)
  /\ \A h : Terminator(h) \in Bytes /\ Terminator(h) # NL
<1>1. NL \in Bytes /\ \A t \in Texts : Text(t) \in Bytes
  BY DEF NL, Text, Bytes, Texts
<1>2. FieldSet \subseteq Bytes /\ \A f \in FieldSet : f # NL
  <2>1. FieldSet = {<<"Field", 0>>} \cup ({"DataLength"} \X Nat) /\ NL = <<"newline", 0>>
    BY DEF FieldSet, NL, Text
  <2>2. FieldSet \subseteq Bytes
    <3>1. <<"Field", 0>> \in Bytes
      BY DEF Bytes, Texts
    <3>2. {"DataLength"} \X Nat \subseteq Bytes
      BY DEF Bytes, Texts
    <3> QED
      BY <2>1, <3>1, <3>2
  <2>3. ASSUME NEW f \in FieldSet PROVE f # NL
    <3>1. f[1] = "Field" \/ f[1] = "DataLength"
      BY <2>1
    <3>2. NL[1] = "newline"
      BY <2>1
    <3> QED
      BY <3>1, <3>2
  <2> QED
    BY <2>2, <2>3
<1>3. \A t \in Texts \ {"newline"} : Text(t) # NL
  BY DEF NL, Text
<1>4. \A b \in Bytes : Line(b) \in Seq(Bytes)
  BY <1>1 DEF Line
<1>5. ASSUME NEW h PROVE Terminator(h) \in Bytes /\ Terminator(h) # NL
  BY DEF Terminator, NL, Text, Bytes, Texts
<1> QED
  BY <1>1, <1>2, <1>3, <1>4, <1>5

\* Sequences of bytes.
LEMMA ByteSeqs ==
  SequenceLaws(Bytes)
BY SequenceLawsHold

\* They can be put together in any order.
LEMMA ByteAssoc ==
  \A a, b, c \in Seq(Bytes) : (a \o b) \o c = a \o (b \o c)
BY ByteSeqs, Zenon DEF SequenceLaws

\* And stay sequences of bytes.
LEMMA ByteConcat ==
  \A a, b \in Seq(Bytes) : a \o b \in Seq(Bytes)
BY ByteSeqs, Zenon DEF SequenceLaws

\* Nothing is added by the empty one.
LEMMA ByteEmpty ==
  <<>> \in Seq(Bytes) /\ \A a \in Seq(Bytes) : a \o <<>> = a /\ <<>> \o a = a
BY ByteSeqs, Zenon DEF SequenceLaws

\* What comes after the same bytes is the same.
LEMMA ByteCancel ==
  \A a, b, c \in Seq(Bytes) : a \o b = a \o c => b = c
BY ByteSeqs, Zenon DEF SequenceLaws

\* The messages of the node.
LEMMA MessageTypes ==
  ASSUME NEW m \in Messages
  PROVE  /\ m \in MessageSet /\ m.h \in Texts \ {"newline"}
         /\ m.fields \in Seq(FieldSet) /\ m.fields \in Seq(Bytes) /\ m.data \in Seq(Bytes)
<1>1. m \in [h : STRING \ {"newline"},
             fields : Seq({<<"Field", 0>>} \cup ({"DataLength"} \X Nat)),
             data : Seq(STRING \X Nat)]
  BY StreamAssumption
<1>2. {<<"Field", 0>>} \cup ({"DataLength"} \X Nat) = FieldSet
  BY DEF FieldSet, Text
<1>3. m.h \in Texts \ {"newline"} /\ m.fields \in Seq(FieldSet) /\ m.data \in Seq(STRING \X Nat)
  BY <1>1, <1>2 DEF Texts
<1>4. m.fields \in Seq(Bytes) /\ m.data \in Seq(Bytes)
  <2>1. STRING \X Nat \subseteq Bytes
    BY DEF Bytes, Texts
  <2> QED
    BY <1>3, <2>1, ByteTypes, SeqSub
<1>5. m = [h |-> m.h, fields |-> m.fields, data |-> m.data]
  BY <1>1
<1> QED
  BY <1>3, <1>4, <1>5 DEF MessageSet

\* The lines of texts.
LEMMA LinesConcat ==
  ASSUME NEW s \in Seq(Bytes), NEW t \in Seq(Bytes), NEW x \in Bytes
  PROVE  /\ Lines(s) \in Seq(Bytes)
         /\ Lines(s \o t) = Lines(s) \o Lines(t)
         /\ Lines(<<x>>) = Line(x) /\ Lines(<<>>) = <<>>
<1> DEFINE e == [b \in Bytes |-> Line(b)]
<1>1. e \in [Bytes -> Seq(Bytes)]
  BY ByteTypes
<1>2. ASSUME NEW u \in Seq(Bytes) PROVE Lines(u) = Spelled(e, u)
  <2>1. \A i \in DOMAIN u : u[i] \in Bytes
    OBVIOUS
  <2>2. [i \in DOMAIN u |-> Line(u[i])] = [i \in DOMAIN u |-> e[u[i]]]
    BY <2>1
  <2> QED
    BY <2>2 DEF Lines, Spelled
<1>3. e[x] = Line(x)
  OBVIOUS
<1> HIDE DEF e
<1>4. s \o t \in Seq(Bytes) /\ <<x>> \in Seq(Bytes) /\ <<>> \in Seq(Bytes)
  OBVIOUS
<1>5. Spelled(e, s) \in Seq(Bytes) /\ Spelled(e, s \o t) = Spelled(e, s) \o Spelled(e, t)
  <2>1. SpellingLaws(Bytes, Bytes)
    BY SpellingLawsHold
  <2> QED
    BY <1>1, <2>1 DEF SpellingLaws
<1>6. Spelled(e, <<x>>) = e[x] /\ Spelled(e, <<>>) = <<>>
  <2>1. SpellingLaws(Bytes, Bytes)
    BY SpellingLawsHold
  <2> QED
    BY <1>1, <2>1 DEF SpellingLaws
<1>7. Lines(s) = Spelled(e, s) /\ Lines(t) = Spelled(e, t) /\ Lines(s \o t) = Spelled(e, s \o t)
  BY <1>2, <1>4
<1>8. Lines(<<x>>) = Spelled(e, <<x>>) /\ Lines(<<>>) = Spelled(e, <<>>)
  BY <1>2, <1>4
<1> QED
  BY <1>3, <1>5, <1>6, <1>7, <1>8

\* A message as the node writes it.
LEMMA EncodeType ==
  ASSUME NEW m \in MessageSet
  PROVE  /\ m.h \in Texts /\ m.fields \in Seq(Bytes) /\ m.data \in Seq(Bytes)
         /\ Encode(m) \in Seq(Bytes)
         /\ Encode(m) = Line(Text(m.h)) \o (Lines(m.fields) \o (Line(Terminator(m.h)) \o m.data))
<1>1. m.h \in Texts /\ m.fields \in Seq(Bytes) /\ m.data \in Seq(Bytes)
  BY DEF MessageSet
<1> DEFINE a == Line(Text(m.h))
           b == Lines(m.fields)
           c == Line(Terminator(m.h))
           d == m.data
<1>2. a \in Seq(Bytes) /\ c \in Seq(Bytes)
  BY <1>1, ByteTypes
<1>3. b \in Seq(Bytes) /\ d \in Seq(Bytes)
  BY <1>1, LinesConcat, ByteTypes
<1>4. Encode(m) = a \o b \o c \o d
  BY DEF Encode
<1> HIDE DEF a, b, c, d
<1>5. a \o b \in Seq(Bytes) /\ c \o d \in Seq(Bytes)
  BY <1>2, <1>3, ByteConcat
<1>6. (a \o b) \o c \in Seq(Bytes)
  BY <1>2, <1>5
<1>7. ((a \o b) \o c) \o d = (a \o b) \o (c \o d)
  <2> DEFINE ab == a \o b
  <2>1. ab \in Seq(Bytes)
    BY <1>5
  <2> HIDE DEF ab
  <2>2. (ab \o c) \o d = ab \o (c \o d)
    BY <1>2, <1>3, <2>1, ByteAssoc, ZenonT(30)
  <2> QED
    BY <2>2 DEF ab
<1>8. (a \o b) \o (c \o d) = a \o (b \o (c \o d))
  BY <1>2, <1>3, <1>5, ByteAssoc
<1>9. Encode(m) \in Seq(Bytes)
  BY <1>3, <1>4, <1>6, Concat
<1> QED
  BY <1>1, <1>4, <1>7, <1>8, <1>9 DEF a, b, c, d

\* Messages, one after the other.
LEMMA WrittenConcat ==
  ASSUME NEW s \in Seq(MessageSet), NEW t \in Seq(MessageSet), NEW m \in MessageSet
  PROVE  /\ Written(s) \in Seq(Bytes)
         /\ Written(s \o t) = Written(s) \o Written(t)
         /\ Written(<<m>>) = Encode(m) /\ Written(<<>>) = <<>>
<1> DEFINE e == [x \in MessageSet |-> Encode(x)]
<1>1. e \in [MessageSet -> Seq(Bytes)]
  BY EncodeType
<1>2. ASSUME NEW u \in Seq(MessageSet) PROVE Written(u) = Spelled(e, u)
  <2>1. \A i \in DOMAIN u : u[i] \in MessageSet
    OBVIOUS
  <2>2. [i \in DOMAIN u |-> Encode(u[i])] = [i \in DOMAIN u |-> e[u[i]]]
    BY <2>1
  <2> QED
    BY <2>2 DEF Written, Spelled
<1>3. e[m] = Encode(m)
  OBVIOUS
<1> HIDE DEF e
<1>4. s \o t \in Seq(MessageSet) /\ <<m>> \in Seq(MessageSet) /\ <<>> \in Seq(MessageSet)
  OBVIOUS
<1>5. Spelled(e, s) \in Seq(Bytes) /\ Spelled(e, s \o t) = Spelled(e, s) \o Spelled(e, t)
  <2>1. SpellingLaws(Bytes, MessageSet)
    BY SpellingLawsHold
  <2> QED
    BY <1>1, <2>1 DEF SpellingLaws
<1>6. Spelled(e, <<m>>) = e[m] /\ Spelled(e, <<>>) = <<>>
  <2>1. SpellingLaws(Bytes, MessageSet)
    BY SpellingLawsHold
  <2> QED
    BY <1>1, <2>1 DEF SpellingLaws
<1>7. Written(s) = Spelled(e, s) /\ Written(t) = Spelled(e, t) /\ Written(s \o t) = Spelled(e, s \o t)
  BY <1>2, <1>4
<1>8. Written(<<m>>) = Spelled(e, <<m>>) /\ Written(<<>>) = Spelled(e, <<>>)
  BY <1>2, <1>4
<1> QED
  BY <1>3, <1>5, <1>6, <1>7, <1>8

-----------------------------------------------------------------------------
(* readln.                                                                  *)

\* The end of the line is in the buffer, and nothing but bytes comes of it.
LEMMA LineTypes ==
  ASSUME response \in Seq(Bytes), HasLine
  PROVE  /\ LineEnd \in 1 .. Len(response) /\ response[LineEnd] = NL
         /\ \A j \in 1 .. LineEnd - 1 : response[j] # NL
         /\ TheLine \in Seq(Bytes)
         /\ SubSeq(response, LineEnd + 1, Len(response)) \in Seq(Bytes)
<1>1. Len(response) \in Nat /\ DOMAIN response = 1 .. Len(response)
  OBVIOUS
<1> DEFINE T == {i \in Nat : i \in DOMAIN response /\ response[i] = NL}
<1>2. T \in SUBSET Nat /\ T # {}
  BY <1>1 DEF HasLine
<1>3. PICK k \in T : \A y \in T : k <= y
  <2> HIDE DEF T
  <2> QED
    BY <1>2, LeastElement
<1>4. k \in DOMAIN response /\ response[k] = NL /\ \A j \in 1 .. k - 1 : response[j] # NL
  <2>1. k \in Nat /\ k \in DOMAIN response /\ response[k] = NL
    OBVIOUS
  <2>2. ASSUME NEW j \in 1 .. k - 1, response[j] = NL PROVE FALSE
    <3>1. j \in Nat /\ j \in DOMAIN response /\ j < k
      BY <1>1, <2>1
    <3>2. j \in T
      BY <2>2, <3>1
    <3> QED
      BY <1>3, <2>1, <3>1, <3>2
  <2> QED
    BY <2>1, <2>2
<1>5. LineEnd \in DOMAIN response /\ response[LineEnd] = NL
      /\ \A j \in 1 .. LineEnd - 1 : response[j] # NL
  BY <1>4 DEF LineEnd
<1> DEFINE e == LineEnd
<1>6. e \in 1 .. Len(response)
  BY <1>1, <1>5
<1> HIDE DEF e
<1>7. SubSeq(response, 1, e - 1) \in Seq(Bytes) /\ SubSeq(response, e + 1, Len(response)) \in Seq(Bytes)
  <2> HIDE DEF Bytes
  <2>1. e - 1 \in 0 .. Len(response) /\ e \in 0 .. Len(response)
    BY <1>1, <1>6
  <2>2. SubSeq(response, 1, e - 1) \in Seq(Bytes)
    BY <2>1, ConcatSplit
  <2>3. SubSeq(response, e + 1, Len(response)) \in Seq(Bytes)
    BY <2>1, ConcatSplit
  <2> QED
    BY <2>2, <2>3
<1> QED
  BY <1>5, <1>6, <1>7 DEF e, TheLine

\* A line of one text.
LEMMA OneOf ==
  \A s \in Seq(Bytes) : Len(s) = 1 => s[1] \in Bytes
<1> SUFFICES ASSUME NEW s \in Seq(Bytes) PROVE Len(s) = 1 => s[1] \in Bytes
  OBVIOUS
<1>1. \A i \in 1 .. Len(s) : s[i] \in Bytes
  OBVIOUS
<1>2. Len(s) = 1 => 1 \in 1 .. Len(s)
  OBVIOUS
<1> QED
  BY <1>1, <1>2, Zenon

\* The buffer and what follows it are the line of t and then R.
NextIs(t, rest, R) ==
  /\ t \in Bytes /\ t # NL /\ rest \in Seq(Bytes) /\ R \in Seq(Bytes)
  /\ response \o rest = Line(t) \o R

\* Then t is what readln returns, and R stays.
LEMMA LineRead ==
  ASSUME response \in Seq(Bytes), HasLine,
         NEW t, NEW rest, NEW R, NextIs(t, rest, R)
  PROVE  /\ TheLine = <<t>>
         /\ SubSeq(response, LineEnd + 1, Len(response)) \o rest = R
<1>0. /\ t \in Bytes /\ t # NL /\ rest \in Seq(Bytes) /\ R \in Seq(Bytes)
      /\ response \o rest = Line(t) \o R
  BY DEF NextIs
<1>1. Len(response) \in Nat /\ DOMAIN response = 1 .. Len(response)
  OBVIOUS
<1>2. Line(t) \in Seq(Bytes) /\ Len(Line(t)) = 2 /\ Line(t)[1] = t /\ Line(t)[2] = NL
  BY <1>0, ByteTypes DEF Line
<1>3. \A i \in 1 .. Len(response) : (response \o rest)[i] = response[i]
  BY <1>0, Concat
<1>4. \A i \in 1 .. 2 : (Line(t) \o R)[i] = Line(t)[i]
  <2> DEFINE l == Line(t)
  <2>1. l \in Seq(Bytes) /\ Len(l) = 2
    BY <1>2
  <2> HIDE DEF l
  <2>2. \A i \in 1 .. Len(l) : (l \o R)[i] = l[i]
    BY <1>0, <2>1, Concat
  <2> QED
    BY <2>1, <2>2 DEF l
<1>5. PICK i \in 1 .. Len(response) : response[i] = NL
  BY <1>1 DEF HasLine
<1>6. response[1] = t
  <2>1. 1 \in 1 .. Len(response)
    BY <1>1
  <2> QED
    BY <1>0, <1>2, <1>3, <1>4, <2>1
<1>7. Len(response) >= 2
  BY <1>0, <1>1, <1>5, <1>6
<1>8. response[2] = NL
  <2>1. 2 \in 1 .. Len(response)
    BY <1>1, <1>7
  <2> QED
    BY <1>0, <1>2, <1>3, <1>4, <2>1
<1> DEFINE e == LineEnd
<1>9. e \in 1 .. Len(response) /\ response[e] = NL /\ \A j \in 1 .. e - 1 : response[j] # NL
  BY LineTypes
<1> HIDE DEF e
<1>10. e = 2
  <2>1. e # 1
    BY <1>0, <1>6, <1>9
  <2>2. ~ (e > 2)
    BY <1>1, <1>8, <1>9
  <2> QED
    BY <1>1, <1>9, <2>1, <2>2
<1>11. TheLine = <<t>>
  <2>1. TheLine = SubSeq(response, 1, 1)
    BY <1>10 DEF e, TheLine
  <2>2. SubSeq(response, 1, 1) = <<response[1]>>
    BY <1>7, FirstOne
  <2> QED
    BY <1>6, <2>1, <2>2
<1>12. SubSeq(response, 2 + 1, Len(response)) \o rest = R
  <2> DEFINE w == response \o rest
             l == Line(t)
  <2>1. 2 \in 0 .. Len(response)
    BY <1>1, <1>7
  <2>2. SubSeq(w, 2 + 1, Len(w)) = SubSeq(response, 2 + 1, Len(response)) \o rest
    BY <1>0, <2>1, ConcatCut
  <2>3. l \in Seq(Bytes) /\ Len(l) = 2 /\ w = l \o R
    BY <1>0, <1>2
  <2> HIDE DEF w, l
  <2>4. SubSeq(l \o R, Len(l) + 1, Len(l \o R)) = R
    BY <1>0, <2>3, ConcatParts
  <2> QED
    BY <2>2, <2>3, <2>4
<1> QED
  BY <1>10, <1>11, <1>12 DEF e

-----------------------------------------------------------------------------
(* The inductive invariants.                                                *)

\* The bytes that readln and read have not returned yet, and those that were
\* lost when the connection ended.
Ahead(z) == response \o (available \o (wire \o z))

\* Inside a message.
Inside == pc \in {"field", "dispatch", "copy", "block"}

\* The message being read is the first of todo, but for the fields fs and the
\* data ds.
Begun(todo, fs, ds) ==
  /\ todo # <<>>
  /\ message.h = Head(todo).h
  /\ message.fields \o fs = Head(todo).fields
  /\ message.data \o ds = Head(todo).data
  /\ pc # "field" => fs = <<>>
  /\ pc \in {"field", "dispatch"} => message.data = <<>>
  /\ pc \in {"copy", "block"} => message.h = "AllData"
  /\ pc # "field" /\ message.h = "AllData" => bytesToRead = Len(ds)

\* What is to come: the rest of that message and the messages behind it.
Rest(todo, fs, ds) ==
  IF pc = "field"
  THEN Lines(fs) \o (Line(Terminator(message.h)) \o (ds \o Written(Tail(todo))))
  ELSE IF Inside THEN ds \o Written(Tail(todo)) ELSE Written(todo)

\* The messages todo have been sent and not been received, and of the first of
\* them fs and ds are still to come; z was lost when the connection ended.
Reads(todo, fs, ds, z) ==
  /\ todo \in Seq(Messages) /\ sent = received \o todo
  /\ z \in Seq(Bytes) /\ (closed \/ z = <<>>)
  /\ fs \in Seq(FieldSet) /\ ds \in Seq(Bytes)
  /\ Inside => Begun(todo, fs, ds)
  /\ Ahead(z) = Rest(todo, fs, ds)

\* The state of the reading, whatever is read.
PlaceInv ==
  /\ closed \in BOOLEAN /\ derailed \in BOOLEAN
  /\ pc \in {"poll", "header", "field", "dispatch", "copy", "block", "queue",
             "send", "body", "failed"}

SentInv == sent \in Seq(Messages) /\ Len(sent) <= MaxMessages

BufferInv ==
  response \in Seq(Bytes) /\ available \in Seq(Bytes) /\ wire \in Seq(Bytes)

MessageInv ==
  /\ message \in MessageSet /\ message.h \in Headers \cup {""}
  /\ received \in Seq(MessageSet)
  /\ pc = "header" => message = NoMessage

CountInv ==
  /\ bytesToRead \in Nat /\ want \in Nat /\ want <= BlockSize
  /\ pc = "block" => 1 <= want /\ want <= bytesToRead

ReaderInv == PlaceInv /\ SentInv /\ BufferInv /\ MessageInv /\ CountInv

\* What is read is what was sent.
StreamInv ==
  ~derailed /\ pc # "failed" => \E todo, fs, ds, z : Reads(todo, fs, ds, z)

\* What is written are the requests, the last of them perhaps in part.
UpTo(n) == FlattenSeq([i \in 1 .. n |-> Whole(queued[i])])
Part(r, n) == <<RequestHead(r)>> \o [i \in 1 .. n |-> Byte(i)]

WriterInv ==
  /\ queued \in Seq(Requests) /\ Len(queued) <= MaxRequests
  /\ tmp \in Nat /\ done \in 0 .. Len(queued)
  /\ pc \notin {"send", "body", "failed"} => done = Len(queued) /\ out = UpTo(done)
  /\ pc \in {"send", "body"} => queued # <<>> /\ done = Len(queued) - 1
  /\ pc = "send" => out = UpTo(done)
  /\ pc = "body" => tmp <= Request.length /\ out = UpTo(done) \o Part(Request, Request.length - tmp)
  /\ pc = "failed" => IsPrefix(UpTo(done), out) /\ IsPrefix(out, UpTo(Len(queued)))

StreamIInv == ReaderInv /\ StreamInv /\ WriterInv /\ FailsForCause

-----------------------------------------------------------------------------
(* The state of the reading.                                                *)

\* The constants.
LEMMA Constants ==
  /\ MaxMessages \in Nat /\ MaxRequests \in Nat
  /\ ChunkSize \in Nat \ {0} /\ BlockSize \in Nat \ {0}
  /\ \A r \in Requests : r.length \in Nat /\ r.have \in Nat
BY StreamAssumption

\* NoMessage is one.
LEMMA NoMessageType ==
  NoMessage \in MessageSet /\ NoMessage.h = "" /\ NoMessage.fields = <<>> /\ NoMessage.data = <<>>
<1>1. "" \in Texts
  BY DEF Texts
<1> QED
  BY <1>1, ByteEmpty DEF NoMessage, MessageSet

\* It holds at the start.
LEMMA ReaderInit ==
  Init => ReaderInv
<1> SUFFICES ASSUME Init PROVE ReaderInv
  OBVIOUS
<1>1. PlaceInv
  BY DEF Init, PlaceInv
<1>2. SentInv
  BY Constants DEF Init, SentInv
<1>3. BufferInv
  BY ByteEmpty DEF Init, BufferInv
<1>4. MessageInv
  <2>1. <<>> \in Seq(MessageSet)
    OBVIOUS
  <2>2. message = NoMessage /\ received = <<>>
    BY DEF Init
  <2> QED
    BY <2>1, <2>2, NoMessageType DEF MessageInv
<1>5. CountInv
  BY Constants DEF Init, CountInv
<1> QED
  BY <1>1, <1>2, <1>3, <1>4, <1>5 DEF ReaderInv

\* The buffer after n bytes of it were taken.
LEMMA RestTyped ==
  ASSUME NEW b \in Seq(Bytes), NEW n \in 0 .. Len(b)
  PROVE  SubSeq(b, 1, n) \in Seq(Bytes) /\ SubSeq(b, n + 1, Len(b)) \in Seq(Bytes)
<1> HIDE DEF Bytes
<1> QED
  BY ConcatSplit

\* ReadSome takes some of what is available.
LEMMA ReadSomeTakes ==
  ASSUME BufferInv, CountInv, ReadSome
  PROVE  \E n \in 0 .. Len(available) :
           /\ response' = response \o SubSeq(available, 1, n)
           /\ available' = SubSeq(available, n + 1, Len(available))
<1> DEFINE limit == IF InReadln THEN ChunkSize ELSE want
           n == IF Len(available) < limit THEN Len(available) ELSE limit
<1>1. want \in Nat /\ ChunkSize \in Nat /\ Len(available) \in Nat
  BY Constants DEF CountInv, BufferInv
<1>2. limit \in Nat
  BY <1>1
<1>3. n \in 0 .. Len(available)
  <2> HIDE DEF limit
  <2> QED
    BY <1>1, <1>2
<1> QED
  BY <1>3 DEF ReadSome

\* The place in the program.
LEMMA PlaceStep ==
  ASSUME ReaderInv, [Next]_vars
  PROVE  PlaceInv'
<1> USE DEF PlaceInv
<1>0. PlaceInv
  BY DEF ReaderInv
<1>1. ASSUME NEW m \in Messages, NodeSends(m) PROVE PlaceInv'
  BY <1>0, <1>1 DEF NodeSends, reading
<1>2. CASE Arrive
  BY <1>0, <1>2 DEF Arrive, reading
<1>3. CASE Close
  BY <1>0, <1>3 DEF Close, reading
<1>4. CASE Poll
  BY <1>0, <1>4 DEF Poll, inbound
<1>5. CASE ReadSome
  BY <1>0, <1>5 DEF ReadSome
<1>6. CASE ReadFails
  BY <1>0, <1>6 DEF ReadFails, inbound, reading
<1>7. CASE ReadHeader
  BY <1>0, <1>7 DEF ReadHeader, inbound
<1>8. CASE ReadField
  <2>1. pc' \in {"field", "failed", "dispatch"} /\ UNCHANGED <<closed, derailed>>
    BY <1>8 DEF ReadField, inbound
  <2> QED
    BY <1>0, <2>1
<1>9. CASE Dispatch
  BY <1>0, <1>9 DEF Dispatch, inbound
<1>10. CASE CopyNext
  BY <1>0, <1>10 DEF CopyNext, inbound
<1>11. CASE CopyBlock
  BY <1>0, <1>11 DEF CopyBlock, inbound
<1>12. CASE NoRequest
  BY <1>0, <1>12 DEF NoRequest, inbound, reading
<1>13. ASSUME NEW r \in Requests, TakeRequest(r) PROVE PlaceInv'
  BY <1>0, <1>13 DEF TakeRequest, inbound, reading
<1>14. CASE SendHead
  BY <1>0, <1>14 DEF SendHead, inbound, reading
<1>15. CASE SendBlock
  BY <1>0, <1>15 DEF SendBlock, inbound, reading
<1>16. CASE SendDone
  BY <1>0, <1>16 DEF SendDone, inbound, reading
<1>17. CASE SendFails
  BY <1>0, <1>17 DEF SendFails, inbound, reading
<1>18. CASE UNCHANGED vars
  BY <1>0, <1>18 DEF vars, inbound, reading
<1> QED
  BY <1>1, <1>2, <1>3, <1>4, <1>5, <1>6, <1>7, <1>8, <1>9, <1>10, <1>11, <1>12, <1>13,
     <1>14, <1>15, <1>16, <1>17, <1>18
  DEF Next, Manager

\* What leaves the reading alone, whatever it writes.
LEMMA WritingSteps ==
  ASSUME \/ NoRequest \/ (\E r \in Requests : TakeRequest(r))
         \/ SendHead \/ SendBlock \/ SendDone \/ SendFails \/ UNCHANGED vars
  PROVE  /\ UNCHANGED <<sent, closed, wire, available, response, message, bytesToRead, want,
                        received, derailed>>
         /\ pc' # pc => pc \in {"queue", "send", "body"} /\ pc' \in {"poll", "send", "body", "failed"}
  BY DEF NoRequest, TakeRequest, SendHead, SendBlock, SendDone, SendFails, vars, inbound, reading

\* What has been sent, and the bytes on their way.
LEMMA BufferStep ==
  ASSUME ReaderInv, [Next]_vars
  PROVE  SentInv' /\ BufferInv'
<1>0. SentInv /\ BufferInv /\ CountInv
  BY DEF ReaderInv
<1> USE DEF SentInv, BufferInv
<1>1. ASSUME NEW m \in Messages, NodeSends(m) PROVE SentInv' /\ BufferInv'
  <2>1. Encode(m) \in Seq(Bytes)
    BY MessageTypes, EncodeType
  <2>2. wire' \in Seq(Bytes)
    BY <1>0, <1>1, <2>1, ByteConcat DEF NodeSends
  <2>3. sent' \in Seq(Messages) /\ Len(sent') <= MaxMessages
    <3>1. sent' = Append(sent, m) /\ Len(sent) < MaxMessages /\ Len(sent) \in Nat
      BY <1>0, <1>1 DEF NodeSends
    <3> QED
      BY <1>0, <3>1, Constants
  <2> QED
    BY <1>0, <1>1, <2>2, <2>3 DEF NodeSends, reading
<1>2. CASE Arrive
  <2>1. PICK k \in 1 .. Len(wire) :
          available' = available \o SubSeq(wire, 1, k) /\ wire' = SubSeq(wire, k + 1, Len(wire))
    BY <1>2 DEF Arrive
  <2>2. k \in 0 .. Len(wire)
    <3>1. k \in Nat /\ k <= Len(wire) /\ Len(wire) \in Nat
      BY <1>0
    <3> QED
      BY <3>1
  <2>3. available' \in Seq(Bytes) /\ wire' \in Seq(Bytes)
    BY <1>0, <2>1, <2>2, RestTyped, ByteConcat
  <2> QED
    BY <1>0, <1>2, <2>3 DEF Arrive, reading
<1>3. CASE Close
  <2>1. PICK k \in 0 .. Len(wire) : wire' = SubSeq(wire, 1, k)
    BY <1>3 DEF Close, Prefixes
  <2>2. wire' \in Seq(Bytes)
    BY <1>0, <2>1, RestTyped
  <2> QED
    BY <1>0, <1>3, <2>2 DEF Close, reading
<1>4. CASE ReadSome
  <2>1. PICK n \in 0 .. Len(available) :
          response' = response \o SubSeq(available, 1, n)
          /\ available' = SubSeq(available, n + 1, Len(available))
    BY <1>0, <1>4, ReadSomeTakes
  <2>2. response' \in Seq(Bytes) /\ available' \in Seq(Bytes)
    BY <1>0, <2>1, RestTyped, ByteConcat
  <2> QED
    BY <1>0, <1>4, <2>2 DEF ReadSome
<1>5. CASE ReadHeader \/ ReadField
  <2>1. response' \in Seq(Bytes)
    BY <1>0, <1>5, LineTypes DEF ReadHeader, ReadField, TakeLine
  <2>2. UNCHANGED <<sent, available, wire>>
    BY <1>5 DEF ReadHeader, ReadField, inbound
  <2> QED
    BY <1>0, <2>1, <2>2
<1>6. CASE CopyBlock
  <2>1. want \in 0 .. Len(response)
    <3>1. Len(response) \in Nat /\ want \in Nat /\ ~ (Len(response) < want)
      BY <1>0, <1>6 DEF CopyBlock, Missing, CountInv
    <3> QED
      BY <3>1
  <2>2. response' \in Seq(Bytes)
    BY <1>0, <1>6, <2>1, RestTyped DEF CopyBlock
  <2> QED
    BY <1>0, <1>6, <2>2 DEF CopyBlock, inbound
<1>7. CASE Poll \/ ReadFails \/ Dispatch \/ CopyNext
  BY <1>0, <1>7 DEF Poll, ReadFails, Dispatch, CopyNext, inbound, reading
<1>8. CASE \/ NoRequest \/ (\E r \in Requests : TakeRequest(r))
           \/ SendHead \/ SendBlock \/ SendDone \/ SendFails \/ UNCHANGED vars
  BY <1>0, <1>8, WritingSteps
<1> QED
  BY <1>1, <1>2, <1>3, <1>4, <1>5, <1>6, <1>7, <1>8 DEF Next, Manager

\* The message being read, and those that were.
LEMMA MessageStep ==
  ASSUME ReaderInv, [Next]_vars
  PROVE  MessageInv'
<1>0. MessageInv /\ BufferInv /\ CountInv
  BY DEF ReaderInv
<1> USE DEF MessageInv
<1>1. CASE UNCHANGED <<message, received>> /\ (pc' = "header" => pc = "header")
  BY <1>0, <1>1
<1>2. ASSUME NEW m \in Messages, NodeSends(m) PROVE MessageInv'
  BY <1>1, <1>2 DEF NodeSends, reading
<1>3. CASE Arrive
  BY <1>1, <1>3 DEF Arrive, reading
<1>4. CASE Close
  BY <1>1, <1>4 DEF Close, reading
<1>5. CASE Poll
  <2>1. message' = NoMessage /\ UNCHANGED received
    BY <1>5 DEF Poll
  <2> QED
    BY <1>0, <2>1, NoMessageType
<1>6. CASE ReadSome
  BY <1>1, <1>6 DEF ReadSome
<1>7. CASE ReadFails
  BY <1>1, <1>7 DEF ReadFails, reading
<1>8. CASE ReadHeader
  <2>1. TheLine \in Seq(Bytes)
    BY <1>0, <1>8, LineTypes DEF ReadHeader, BufferInv
  <2>2. ASSUME NEW h \in Headers, TheLine = <<Text(h)>>,
               message' = [message EXCEPT !.h = TheLine[1][1]]
        PROVE  message' \in MessageSet /\ message'.h \in Headers \cup {""}
    <3>1. TheLine[1] = Text(h) /\ Text(h)[1] = h /\ Len(TheLine) = 1
      BY <2>2 DEF Text
    <3>2. Text(h) \in Bytes
      <4>1. TheLine[1] \in Bytes
        BY <2>1, <3>1, OneOf
      <4> QED
        BY <3>1, <4>1
    <3>3. h \in Texts
      BY <3>2 DEF Bytes, Text
    <3>4. message' = [message EXCEPT !.h = h]
      BY <2>2, <3>1
    <3> QED
      BY <1>0, <3>3, <3>4 DEF MessageSet
  <2>3. message' \in MessageSet /\ message'.h \in Headers \cup {""}
    BY <1>0, <1>8, <2>2 DEF ReadHeader
  <2>4. UNCHANGED received /\ pc' # "header"
    BY <1>8 DEF ReadHeader
  <2> QED
    BY <1>0, <2>3, <2>4
<1>9. CASE ReadField
  <2>1. TheLine \in Seq(Bytes)
    BY <1>0, <1>9, LineTypes DEF ReadField, BufferInv
  <2>2. ASSUME IsField(TheLine), message' = [message EXCEPT !.fields = Append(@, TheLine[1])]
        PROVE  message' \in MessageSet /\ message'.h \in Headers \cup {""}
    <3>1. TheLine[1] \in Bytes
      BY <2>1, <2>2, OneOf DEF IsField
    <3>2. message.fields \in Seq(Bytes)
      BY <1>0 DEF MessageSet
    <3>3. Append(message.fields, TheLine[1]) \in Seq(Bytes)
      <4> DEFINE x == TheLine[1]
      <4>1. x \in Bytes
        BY <3>1
      <4> HIDE DEF x, Bytes
      <4>2. Append(message.fields, x) \in Seq(Bytes)
        BY <3>2, <4>1
      <4> QED
        BY <4>2 DEF x
    <3> QED
      BY <1>0, <2>2, <3>3 DEF MessageSet
  <2>3. message' \in MessageSet /\ message'.h \in Headers \cup {""}
    BY <1>0, <1>9, <2>2 DEF ReadField
  <2>4. UNCHANGED received /\ pc' # "header"
    BY <1>9 DEF ReadField
  <2> QED
    BY <1>0, <2>3, <2>4
<1>10. CASE Dispatch \/ CopyNext
  <2>1. received' \in Seq(MessageSet)
    <3>1. Append(received, message) \in Seq(MessageSet)
      <4>1. received \in Seq(MessageSet) /\ message \in MessageSet
        BY <1>0
      <4> HIDE DEF MessageInv
      <4> QED
        BY <4>1, ConcatAppend
    <3>2. received' = received \/ received' = Append(received, message)
      BY <1>10 DEF Dispatch, CopyNext
    <3> QED
      BY <1>0, <3>1, <3>2
  <2>2. UNCHANGED message /\ pc' # "header"
    BY <1>10 DEF Dispatch, CopyNext
  <2> QED
    BY <1>0, <2>1, <2>2
<1>11. CASE CopyBlock
  <2>1. want \in 0 .. Len(response)
    <3>1. Len(response) \in Nat /\ want \in Nat /\ ~ (Len(response) < want)
      <4>1. response \in Seq(Bytes) /\ want \in Nat
        BY <1>0 DEF CountInv, BufferInv
      <4>2. ~ (Len(response) < want)
        BY <1>11 DEF CopyBlock, Missing
      <4> QED
        BY <4>1, <4>2
    <3> QED
      BY <3>1
  <2>2. SubSeq(response, 1, want) \in Seq(Bytes)
    BY <1>0, <2>1, RestTyped DEF BufferInv
  <2>3. message.data \in Seq(Bytes)
    BY <1>0 DEF MessageSet
  <2>4. message.data \o SubSeq(response, 1, want) \in Seq(Bytes)
    BY <2>2, <2>3, ByteConcat
  <2>5. message' = [message EXCEPT !.data = message.data \o SubSeq(response, 1, want)]
        /\ UNCHANGED received /\ pc' # "header"
    BY <1>11 DEF CopyBlock
  <2>6. message' \in MessageSet /\ message'.h = message.h
    BY <1>0, <2>4, <2>5 DEF MessageSet
  <2> QED
    BY <1>0, <2>5, <2>6
<1>12. CASE \/ NoRequest \/ (\E r \in Requests : TakeRequest(r))
            \/ SendHead \/ SendBlock \/ SendDone \/ SendFails \/ UNCHANGED vars
  BY <1>1, <1>12, WritingSteps
<1> QED
  BY <1>2, <1>3, <1>4, <1>5, <1>6, <1>7, <1>8, <1>9, <1>10, <1>11, <1>12 DEF Next, Manager

\* What read still has to read.
LEMMA CountStep ==
  ASSUME ReaderInv, [Next]_vars
  PROVE  CountInv'
<1>0. CountInv /\ MessageInv
  BY DEF ReaderInv
<1> USE DEF CountInv
<1>1. CASE UNCHANGED <<bytesToRead, want>> /\ (pc' = "block" => pc = "block")
  BY <1>0, <1>1
<1>2. ASSUME NEW m \in Messages, NodeSends(m) PROVE CountInv'
  BY <1>1, <1>2 DEF NodeSends, reading
<1>3. CASE Arrive
  BY <1>1, <1>3 DEF Arrive, reading
<1>4. CASE Close
  BY <1>1, <1>4 DEF Close, reading
<1>5. CASE Poll \/ ReadSome \/ ReadFails \/ ReadHeader \/ Dispatch
  <2>1. UNCHANGED <<bytesToRead, want>> /\ (pc' = "block" => pc = "block")
    BY <1>5 DEF Poll, ReadSome, ReadFails, ReadHeader, Dispatch, reading
  <2> QED
    BY <1>1, <2>1
<1>6. CASE ReadField
  <2> DEFINE lengths == {f \in ToSet(message.fields) : f[1] = "DataLength"}
  <2>1. bytesToRead' = bytesToRead
        \/ (lengths # {} /\ bytesToRead' = (CHOOSE f \in lengths : TRUE)[2])
    BY <1>6 DEF ReadField
  <2>2. \A f \in lengths : f[2] \in Nat
    <3>1. message.fields \in Seq(Bytes)
      BY <1>0 DEF MessageInv, MessageSet
    <3>2. \A f \in ToSet(message.fields) : f \in Bytes
      BY <3>1 DEF ToSet
    <3> QED
      BY <3>2 DEF Bytes
  <2> HIDE DEF lengths
  <2>3. lengths # {} => (CHOOSE f \in lengths : TRUE) \in lengths
    OBVIOUS
  <2>4. bytesToRead' \in Nat
    BY <1>0, <2>1, <2>2, <2>3
  <2>5. UNCHANGED want /\ pc' # "block"
    BY <1>6 DEF ReadField
  <2> QED
    BY <1>0, <2>4, <2>5
<1>7. CASE CopyNext
  <2>1. CASE bytesToRead > 0
    <3>1. want' = Block(bytesToRead) /\ UNCHANGED bytesToRead
      BY <1>7, <2>1 DEF CopyNext
    <3>2. Block(bytesToRead) \in Nat /\ 1 <= Block(bytesToRead)
          /\ Block(bytesToRead) <= bytesToRead /\ Block(bytesToRead) <= BlockSize
      BY <1>0, <2>1, Constants DEF Block
    <3> QED
      BY <1>0, <3>1, <3>2
  <2>2. CASE ~ (bytesToRead > 0)
    <3>1. UNCHANGED <<bytesToRead, want>> /\ pc' # "block"
      BY <1>7, <2>2 DEF CopyNext
    <3> QED
      BY <1>0, <3>1
  <2> QED
    BY <2>1, <2>2
<1>8. CASE CopyBlock
  <2>1. bytesToRead' = bytesToRead - want /\ UNCHANGED want /\ pc = "block" /\ pc' # "block"
    BY <1>8 DEF CopyBlock
  <2> QED
    BY <1>0, <2>1
<1>9. CASE \/ NoRequest \/ (\E r \in Requests : TakeRequest(r))
           \/ SendHead \/ SendBlock \/ SendDone \/ SendFails \/ UNCHANGED vars
  BY <1>1, <1>9, WritingSteps
<1> QED
  BY <1>2, <1>3, <1>4, <1>5, <1>6, <1>7, <1>8, <1>9 DEF Next, Manager

\* All of it.
LEMMA ReaderStep ==
  ReaderInv /\ [Next]_vars => ReaderInv'
BY PlaceStep, BufferStep, MessageStep, CountStep DEF ReaderInv

-----------------------------------------------------------------------------
(* What is read is what was sent: the invariant of the stream.              *)

\* Messages still to be received.
LEMMA TodoTypes ==
  ASSUME NEW todo \in Seq(Messages)
  PROVE  todo \in Seq(MessageSet) /\ Written(todo) \in Seq(Bytes)
<1>1. Messages \subseteq MessageSet
  BY MessageTypes
<1>2. todo \in Seq(MessageSet)
  BY <1>1, SeqSub
<1>3. NoMessage \in MessageSet
  BY NoMessageType
<1> QED
  BY <1>2, <1>3, WrittenConcat

\* The first of them.
LEMMA TodoHead ==
  ASSUME NEW todo \in Seq(Messages), todo # <<>>
  PROVE  /\ Head(todo) \in Messages /\ Tail(todo) \in Seq(Messages)
         /\ todo = <<Head(todo)>> \o Tail(todo)
         /\ Written(todo) = Encode(Head(todo)) \o Written(Tail(todo))
<1> DEFINE m == Head(todo)
           t == Tail(todo)
<1>1. todo = <<m>> \o t /\ m \in Messages /\ t \in Seq(Messages)
  BY ConcatHead
<1> HIDE DEF m, t
<1>2. m \in MessageSet /\ <<m>> \in Seq(MessageSet) /\ t \in Seq(MessageSet)
  BY <1>1, MessageTypes, TodoTypes
<1>3. Written(<<m>> \o t) = Written(<<m>>) \o Written(t) /\ Written(<<m>>) = Encode(m)
  BY <1>2, WrittenConcat
<1> QED
  BY <1>1, <1>3 DEF m, t

\* A message more.
LEMMA TodoAppend ==
  ASSUME NEW todo \in Seq(Messages), NEW m \in Messages
  PROVE  /\ todo \o <<m>> \in Seq(Messages)
         /\ Written(todo \o <<m>>) = Written(todo) \o Encode(m)
         /\ todo # <<>> => /\ todo \o <<m>> # <<>> /\ Head(todo \o <<m>>) = Head(todo)
                           /\ Tail(todo \o <<m>>) = Tail(todo) \o <<m>>
<1>1. todo \o <<m>> \in Seq(Messages)
  OBVIOUS
<1>2. m \in MessageSet /\ <<m>> \in Seq(MessageSet) /\ todo \in Seq(MessageSet)
  BY MessageTypes, TodoTypes
<1>3. Written(todo \o <<m>>) = Written(todo) \o Written(<<m>>) /\ Written(<<m>>) = Encode(m)
  BY <1>2, WrittenConcat
<1>4. ASSUME todo # <<>>
      PROVE  /\ todo \o <<m>> # <<>> /\ Head(todo \o <<m>>) = Head(todo)
             /\ Tail(todo \o <<m>>) = Tail(todo) \o <<m>>
  <2> DEFINE h == Head(todo)
             t == Tail(todo)
             u == t \o <<m>>
  <2>1. todo = <<h>> \o t /\ h \in Messages /\ t \in Seq(Messages)
    BY <1>4, ConcatHead
  <2> HIDE DEF h, t
  <2>2. (<<h>> \o t) \o <<m>> = <<h>> \o (t \o <<m>>)
    BY <2>1
  <2>3. u \in Seq(Messages)
    BY <2>1
  <2> HIDE DEF u
  <2>4. <<h>> \o u # <<>> /\ Head(<<h>> \o u) = h /\ Tail(<<h>> \o u) = u
    BY <2>1, <2>3
  <2> QED
    BY <2>1, <2>2, <2>4 DEF h, t, u
<1> QED
  BY <1>1, <1>3, <1>4

\* The bytes ahead are bytes.
LEMMA AheadType ==
  ASSUME BufferInv, NEW z \in Seq(Bytes)
  PROVE  /\ Ahead(z) \in Seq(Bytes) /\ wire \o z \in Seq(Bytes)
         /\ available \o (wire \o z) \in Seq(Bytes)
<1>1. wire \o z \in Seq(Bytes)
  BY ByteConcat DEF BufferInv
<1>2. available \o (wire \o z) \in Seq(Bytes)
  BY <1>1, ByteConcat DEF BufferInv
<1>3. response \o (available \o (wire \o z)) \in Seq(Bytes)
  BY <1>2, ByteConcat DEF BufferInv
<1> QED
  BY <1>1, <1>2, <1>3 DEF Ahead

\* Bytes move from one buffer to the one before it.
LEMMA BytesMove ==
  ASSUME NEW a \in Seq(Bytes), NEW b \in Seq(Bytes), NEW w \in Seq(Bytes), NEW n \in 0 .. Len(b)
  PROVE  (a \o SubSeq(b, 1, n)) \o (SubSeq(b, n + 1, Len(b)) \o w) = a \o (b \o w)
<1> DEFINE x == SubSeq(b, 1, n)
           y == SubSeq(b, n + 1, Len(b))
<1>1. x \in Seq(Bytes) /\ y \in Seq(Bytes)
  BY RestTyped
<1>2. b \o w = x \o (y \o w)
  <2> HIDE DEF Bytes
  <2> QED
    BY ConcatBehind
<1> HIDE DEF x, y
<1> DEFINE v == y \o w
<1>3. v \in Seq(Bytes)
  BY <1>1, ByteConcat
<1> HIDE DEF v
<1>4. (a \o x) \o v = a \o (x \o v)
  BY <1>1, <1>3, ByteAssoc, ZenonT(30)
<1> QED
  BY <1>2, <1>4 DEF x, y, v

\* Bytes moved, and nothing else.
LEMMA ReadsMoved ==
  ASSUME NEW todo, NEW fs, NEW ds, NEW z, NEW z2, Reads(todo, fs, ds, z),
         UNCHANGED <<sent, received, pc, message, bytesToRead>>,
         z2 \in Seq(Bytes), closed' \/ z2 = <<>>, Ahead(z2)' = Ahead(z)
  PROVE  Reads(todo, fs, ds, z2)'
  BY DEF Reads, Inside, Begun, Rest

\* Outside messages the place does not matter.
LEMMA ReadsOutside ==
  ASSUME NEW todo, NEW fs, NEW ds, NEW z, Reads(todo, fs, ds, z), ~Inside, ~Inside',
         UNCHANGED <<sent, closed, wire, available, response, received>>
  PROVE  Reads(todo, fs, ds, z)'
<1>1. pc # "field" /\ pc' # "field"
  BY DEF Inside
<1> QED
  BY <1>1 DEF Reads, Rest, Ahead

\* Nothing has been sent at the start.
LEMMA StreamInit ==
  Init => StreamInv
<1> SUFFICES ASSUME Init PROVE Reads(<<>>, <<>>, <<>>, <<>>)
  BY DEF StreamInv
<1>1. <<>> \in Seq(Messages) /\ <<>> \in Seq(FieldSet) /\ <<>> \in Seq(Bytes) /\ <<>> \o <<>> = <<>>
  OBVIOUS
<1>2. Written(<<>>) = <<>>
  <2>1. <<>> \in Seq(MessageSet) /\ NoMessage \in MessageSet
    <3>1. <<>> \in Seq(MessageSet)
      OBVIOUS
    <3> QED
      BY <3>1, NoMessageType
  <2> QED
    BY <2>1, WrittenConcat
<1> QED
  BY <1>1, <1>2 DEF Init, Reads, Inside, Ahead, Rest

\* The node writes a message behind the others.
LEMMA NodeSendsStream ==
  ASSUME ReaderInv, StreamInv, NEW m \in Messages, NodeSends(m)
  PROVE  StreamInv'
<1> SUFFICES ASSUME ~derailed, pc # "failed"
             PROVE  \E todo, fs, ds, z : Reads(todo, fs, ds, z)'
  BY DEF StreamInv, NodeSends, reading
<1>1. PICK todo, fs, ds, z : Reads(todo, fs, ds, z)
  BY DEF StreamInv
<1>2. /\ UNCHANGED <<closed, available, response, pc, message, received, bytesToRead>>
      /\ ~closed /\ sent' = Append(sent, m) /\ wire' = wire \o Encode(m)
  BY DEF NodeSends, reading
<1>3. /\ todo \in Seq(Messages) /\ sent = received \o todo /\ z = <<>>
      /\ fs \in Seq(FieldSet) /\ ds \in Seq(Bytes) /\ Ahead(<<>>) = Rest(todo, fs, ds)
      /\ Inside => Begun(todo, fs, ds)
  BY <1>1, <1>2 DEF Reads
<1> DEFINE new == todo \o <<m>>
           e == Encode(m)
<1>4. new \in Seq(Messages) /\ Written(new) = Written(todo) \o e
  BY <1>3, TodoAppend
<1>5. todo # <<>> => new # <<>> /\ Head(new) = Head(todo) /\ Tail(new) = Tail(todo) \o <<m>>
  BY <1>3, TodoAppend
<1>6. sent' = received' \o new
  <2>1. received \in Seq(MessageSet) /\ todo \in Seq(MessageSet) /\ m \in MessageSet
    BY <1>3, TodoTypes, MessageTypes DEF ReaderInv, MessageInv
  <2>2. Append(received \o todo, m) = received \o (todo \o <<m>>)
    <3>1. Append(received \o todo, m) = (received \o todo) \o <<m>>
      <4>1. received \o todo \in Seq(MessageSet)
        BY <2>1
      <4> QED
        BY <2>1, <4>1, ConcatAppend
    <3>2. (received \o todo) \o <<m>> = received \o (todo \o <<m>>)
      <4>1. <<m>> \in Seq(MessageSet)
        BY <2>1
      <4> QED
        BY <2>1, <4>1, ConcatAssoc
    <3> QED
      BY <3>1, <3>2
  <2> QED
    BY <1>2, <1>3, <2>2
<1>7. e \in Seq(Bytes)
  BY MessageTypes, EncodeType
<1> HIDE DEF new, e
<1>8. Ahead(<<>>)' = Ahead(<<>>) \o e
  <2>1. wire \in Seq(Bytes) /\ available \in Seq(Bytes) /\ response \in Seq(Bytes)
    BY DEF ReaderInv, BufferInv
  <2>2. wire \o e \in Seq(Bytes) /\ wire \o <<>> = wire /\ (wire \o e) \o <<>> = wire \o e
    BY <1>7, <2>1, ByteConcat, ByteEmpty
  <2>3. available \o (wire \o e) = (available \o wire) \o e
    BY <1>7, <2>1, ByteAssoc, ZenonT(30)
  <2> DEFINE aw == available \o wire
  <2>4. aw \in Seq(Bytes)
    BY <2>1, ByteConcat
  <2> HIDE DEF aw
  <2>5. response \o (aw \o e) = (response \o aw) \o e
    BY <1>7, <2>1, <2>4, ByteAssoc, ZenonT(30)
  <2>6. Ahead(<<>>)' = response \o (available \o (wire \o e))
    BY <1>2, <2>2 DEF Ahead, e
  <2>7. Ahead(<<>>) = response \o aw
    BY <2>2 DEF Ahead, aw
  <2> QED
    BY <2>3, <2>5, <2>6, <2>7 DEF aw
<1>9. Rest(new, fs, ds)' = Rest(todo, fs, ds) \o e
  <2>1. CASE ~Inside
    BY <1>2, <1>4, <2>1 DEF Rest, Inside
  <2>2. CASE Inside
    <3> DEFINE w == Written(Tail(todo))
    <3>1. todo # <<>> /\ Tail(todo) \in Seq(Messages)
      BY <1>3, <2>2, TodoHead DEF Begun
    <3>2. Written(Tail(new)) = w \o e
      BY <1>5, <3>1, TodoAppend DEF e
    <3>3. w \in Seq(Bytes)
      BY <3>1, TodoTypes
    <3> HIDE DEF w
    <3>4. ds \o (w \o e) = (ds \o w) \o e
      BY <1>3, <1>7, <3>3, ByteAssoc, ZenonT(30)
    <3>5. CASE pc # "field"
      BY <1>2, <2>2, <3>2, <3>4, <3>5 DEF Rest, Inside, w
    <3>6. CASE pc = "field"
      <4> DEFINE l == Lines(fs)
                 t == Line(Terminator(message.h))
                 dw == ds \o w
                 tdw == t \o dw
      <4>1. l \in Seq(Bytes)
        BY <1>3, SeqSub, ByteTypes, LinesConcat
      <4>2. t \in Seq(Bytes)
        BY ByteTypes
      <4>3. dw \in Seq(Bytes)
        BY <1>3, <3>3, ByteConcat
      <4> HIDE DEF l, t, dw
      <4>4. tdw \in Seq(Bytes)
        BY <4>2, <4>3, ByteConcat
      <4>5. t \o (dw \o e) = tdw \o e
        BY <1>7, <4>2, <4>3, ByteAssoc, ZenonT(30)
      <4> HIDE DEF tdw
      <4>6. l \o (tdw \o e) = (l \o tdw) \o e
        BY <1>7, <4>1, <4>4, ByteAssoc, ZenonT(30)
      <4>7. Rest(new, fs, ds)' = l \o (t \o (ds \o (w \o e)))
        BY <1>2, <3>2, <3>6 DEF Rest, l, t
      <4>8. Rest(todo, fs, ds) = l \o tdw
        BY <3>6 DEF Rest, l, t, tdw, dw, w
      <4> QED
        BY <3>4, <4>5, <4>6, <4>7, <4>8 DEF dw
    <3> QED
      BY <3>5, <3>6
  <2> QED
    BY <2>1, <2>2
<1>10. Inside' => Begun(new, fs, ds)'
  BY <1>2, <1>3, <1>5 DEF Begun, Inside
<1>11. Reads(new, fs, ds, <<>>)'
  BY <1>2, <1>3, <1>4, <1>6, <1>8, <1>9, <1>10, ByteEmpty DEF Reads
<1> QED
  BY <1>11

\* The network and the buffers.
LEMMA MovesStream ==
  ASSUME ReaderInv, StreamInv, Arrive \/ ReadSome \/ Close
  PROVE  StreamInv'
<1>1. UNCHANGED <<sent, pc, message, received, bytesToRead, derailed>>
  BY DEF Arrive, ReadSome, Close, reading
<1> SUFFICES ASSUME ~derailed, pc # "failed"
             PROVE  \E todo, fs, ds, z : Reads(todo, fs, ds, z)'
  BY <1>1 DEF StreamInv
<1>2. PICK todo, fs, ds, z : Reads(todo, fs, ds, z)
  BY DEF StreamInv
<1>3. z \in Seq(Bytes) /\ (closed \/ z = <<>>)
  BY <1>2 DEF Reads
<1>4. wire \in Seq(Bytes) /\ available \in Seq(Bytes) /\ response \in Seq(Bytes)
  BY DEF ReaderInv, BufferInv
<1>5. CASE Arrive
  <2>1. PICK k \in 1 .. Len(wire) :
          available' = available \o SubSeq(wire, 1, k) /\ wire' = SubSeq(wire, k + 1, Len(wire))
    BY <1>5 DEF Arrive
  <2>2. k \in 0 .. Len(wire)
    <3>1. k \in Nat /\ k <= Len(wire) /\ Len(wire) \in Nat
      BY <1>4
    <3> QED
      BY <3>1
  <2>3. available' \o (wire' \o z) = available \o (wire \o z)
    BY <1>3, <1>4, <2>1, <2>2, BytesMove, ZenonT(30)
  <2>4. Ahead(z)' = Ahead(z) /\ closed' = closed
    BY <1>5, <2>3 DEF Ahead, Arrive, reading
  <2>5. Reads(todo, fs, ds, z)'
    BY <1>1, <1>2, <1>3, <2>4, ReadsMoved
  <2> QED
    BY <2>5
<1>6. CASE ReadSome
  <2>1. PICK n \in 0 .. Len(available) :
          response' = response \o SubSeq(available, 1, n)
          /\ available' = SubSeq(available, n + 1, Len(available))
    BY <1>6, ReadSomeTakes DEF ReaderInv
  <2>2. wire \o z \in Seq(Bytes)
    BY <1>3, <1>4, ByteConcat
  <2>3. response' \o (available' \o (wire \o z)) = response \o (available \o (wire \o z))
    BY <1>4, <2>1, <2>2, BytesMove
  <2>4. Ahead(z)' = Ahead(z) /\ closed' = closed
    BY <1>6, <2>3 DEF Ahead, ReadSome
  <2>5. Reads(todo, fs, ds, z)'
    BY <1>1, <1>2, <1>3, <2>4, ReadsMoved
  <2> QED
    BY <2>5
<1>7. CASE Close
  <2>1. PICK k \in 0 .. Len(wire) : wire' = SubSeq(wire, 1, k)
    BY <1>7 DEF Close, Prefixes
  <2>0. PICK z2 : z2 = SubSeq(wire, k + 1, Len(wire))
    OBVIOUS
  <2>2. z = <<>> /\ closed' /\ UNCHANGED <<available, response>>
    BY <1>3, <1>7 DEF Close, reading
  <2>3. wire = wire' \o z2 /\ z2 \in Seq(Bytes)
    BY <1>4, <2>0, <2>1, ConcatSplit, RestTyped
  <2>4. wire \o z = wire' \o z2
    BY <1>4, <2>2, <2>3, ByteEmpty
  <2>5. Ahead(z2)' = Ahead(z)
    BY <2>2, <2>4 DEF Ahead
  <2>6. Reads(todo, fs, ds, z2)'
    BY <1>1, <1>2, <2>2, <2>3, <2>5, ReadsMoved
  <2> QED
    BY <2>6
<1> QED
  BY <1>5, <1>6, <1>7

\* A message and what comes after it, line by line.
LEMMA EncodeThen ==
  ASSUME NEW m \in MessageSet, NEW w \in Seq(Bytes)
  PROVE  /\ Encode(m) \o w
              = Line(Text(m.h)) \o (Lines(m.fields) \o (Line(Terminator(m.h)) \o (m.data \o w)))
         /\ Lines(m.fields) \o (Line(Terminator(m.h)) \o (m.data \o w)) \in Seq(Bytes)
<1> DEFINE a == Line(Text(m.h))
           b == Lines(m.fields)
           c == Line(Terminator(m.h))
           d == m.data
           cd == c \o d
           bcd == b \o cd
           dw == d \o w
           cdw == c \o dw
<1>1. m.h \in Texts /\ m.fields \in Seq(Bytes) /\ d \in Seq(Bytes)
  BY EncodeType
<1>2. a \in Seq(Bytes) /\ c \in Seq(Bytes)
  BY <1>1, ByteTypes
<1>3. b \in Seq(Bytes)
  BY <1>1, LinesConcat, ByteTypes
<1>4. Encode(m) = a \o bcd
  BY EncodeType
<1> HIDE DEF a, b, c, d
<1>5. cd \in Seq(Bytes) /\ dw \in Seq(Bytes)
  BY <1>1, <1>2, ByteConcat
<1>6. (c \o d) \o w = c \o (d \o w)
  BY <1>1, <1>2, ByteAssoc, ZenonT(30)
<1> HIDE DEF cd, dw
<1>7. bcd \in Seq(Bytes) /\ cdw \in Seq(Bytes)
  BY <1>2, <1>3, <1>5, ByteConcat
<1>8. (b \o cd) \o w = b \o (cd \o w)
  BY <1>3, <1>5, ByteAssoc, ZenonT(30)
<1> HIDE DEF bcd, cdw
<1>9. (a \o bcd) \o w = a \o (bcd \o w)
  BY <1>2, <1>7, ByteAssoc, ZenonT(30)
<1>10. b \o cdw \in Seq(Bytes)
  BY <1>3, <1>7, ByteConcat
<1> QED
  BY <1>4, <1>6, <1>8, <1>9, <1>10 DEF a, b, c, d, cd, dw, bcd, cdw

\* The header of the next message, or of one that the factory does not know.
LEMMA HeaderStream ==
  ASSUME ReaderInv, StreamInv, ReadHeader, ~derailed
  PROVE  StreamInv' /\ (pc' = "failed" => \E i \in DOMAIN sent : sent[i].h \notin Headers)
<1>1. /\ pc = "header" /\ HasLine /\ message = NoMessage /\ BufferInv
      /\ received \in Seq(MessageSet)
      /\ response' = SubSeq(response, LineEnd + 1, Len(response))
      /\ UNCHANGED <<sent, closed, wire, available, bytesToRead, received, derailed>>
  BY DEF ReadHeader, TakeLine, inbound, ReaderInv, MessageInv
<1>2. PICK todo, fs, ds, z : Reads(todo, fs, ds, z)
  BY <1>1 DEF StreamInv
<1>3. /\ todo \in Seq(Messages) /\ sent = received \o todo
      /\ z \in Seq(Bytes) /\ (closed \/ z = <<>>) /\ Ahead(z) = Written(todo)
  BY <1>1, <1>2 DEF Reads, Rest, Inside
<1> DEFINE rest == available \o (wire \o z)
<1>4. rest \in Seq(Bytes) /\ response \in Seq(Bytes) /\ Ahead(z) = response \o rest
  BY <1>1, <1>3, AheadType DEF Ahead, BufferInv
<1> HIDE DEF rest
<1>5. todo # <<>>
  <2> SUFFICES ASSUME todo = <<>> PROVE FALSE
    OBVIOUS
  <2>1. Written(todo) = <<>>
    <3>1. <<>> \in Seq(MessageSet)
      OBVIOUS
    <3> QED
      BY <3>1, NoMessageType, WrittenConcat
  <2>2. Len(response \o rest) = Len(response) + Len(rest) /\ Len(response) \in Nat /\ Len(rest) \in Nat
    BY <1>4
  <2>3. Len(response \o rest) = 0
    BY <1>3, <1>4, <2>1
  <2>4. Len(response) = 0
    BY <2>2, <2>3
  <2>5. LineEnd \in 1 .. Len(response)
    BY <1>1, <1>4, LineTypes
  <2> QED
    BY <2>4, <2>5
<1> DEFINE hd == Head(todo)
           w == Written(Tail(todo))
           t == Text(hd.h)
           R == Lines(hd.fields) \o (Line(Terminator(hd.h)) \o (hd.data \o w))
<1>6. /\ hd \in Messages /\ hd \in MessageSet /\ hd.h \in Texts \ {"newline"}
      /\ hd.fields \in Seq(FieldSet) /\ hd.data \in Seq(Bytes)
      /\ w \in Seq(Bytes) /\ Written(todo) = Encode(hd) \o w
  BY <1>3, <1>5, TodoHead, TodoTypes, MessageTypes
<1>7. t \in Bytes /\ t # NL
  BY <1>6, ByteTypes
<1>8. Encode(hd) \o w = Line(t) \o R /\ R \in Seq(Bytes)
  BY <1>6, EncodeThen
<1>9. response \o rest = Line(t) \o R
  BY <1>3, <1>4, <1>6, <1>8
<1>10. TheLine = <<t>> /\ response' \o rest = R
  <2>1. NextIs(t, rest, R)
    BY <1>4, <1>7, <1>8, <1>9 DEF NextIs
  <2> HIDE DEF t, R
  <2> QED
    BY <1>1, <1>4, <2>1, LineRead
<1>11. Ahead(z)' = R
  BY <1>1, <1>10 DEF Ahead, rest
<1>12. CASE hd.h \notin Headers
  <2>1. ~ \E h \in Headers : TheLine = <<Text(h)>>
    BY <1>10, <1>12 DEF Text
  <2>2. pc' = "failed"
    BY <2>1 DEF ReadHeader
  <2>3. \E i \in DOMAIN sent : sent[i].h \notin Headers
    <3>1. todo \in Seq(MessageSet) /\ Len(todo) \in Nat \ {0} /\ todo[1] = hd
      <4>1. Len(todo) # 0
        BY <1>3, <1>5
      <4> QED
        BY <1>3, <1>5, <4>1, TodoTypes
    <3>2. 1 \in 1 .. Len(todo) /\ Len(received) \in Nat /\ Len(received \o todo) = Len(received) + Len(todo)
          /\ DOMAIN (received \o todo) = 1 .. Len(received \o todo)
      BY <1>1, <3>1
    <3>3. (received \o todo)[Len(received) + 1] = todo[1]
      BY <1>1, <3>1, <3>2, Concat
    <3>4. Len(received) + 1 \in DOMAIN sent
      BY <1>3, <3>1, <3>2
    <3> QED
      BY <1>3, <1>12, <3>1, <3>3, <3>4
  <2> QED
    BY <2>2, <2>3 DEF StreamInv
<1>13. CASE hd.h \in Headers
  <2>1. \E h \in Headers : TheLine = <<Text(h)>>
    BY <1>10, <1>13
  <2>2. pc' = "field" /\ message' = [message EXCEPT !.h = TheLine[1][1]]
    BY <2>1 DEF ReadHeader
  <2>3. TheLine[1][1] = hd.h
    BY <1>10 DEF Text
  <2>4. message'.h = hd.h /\ message'.fields = <<>> /\ message'.data = <<>>
    BY <1>1, <2>2, <2>3 DEF NoMessage
  <2>5. <<>> \o hd.fields = hd.fields /\ <<>> \o hd.data = hd.data
    BY <1>6, ByteEmpty, ConcatEmpty
  <2>6. Begun(todo, hd.fields, hd.data)'
    BY <1>5, <2>2, <2>4, <2>5 DEF Begun
  <2>7. Rest(todo, hd.fields, hd.data)' = R
    BY <2>2, <2>4 DEF Rest
  <2>8. Reads(todo, hd.fields, hd.data, z)'
    BY <1>1, <1>3, <1>6, <1>11, <2>6, <2>7 DEF Reads
  <2>9. StreamInv'
    BY <2>8 DEF StreamInv
  <2> QED
    BY <2>2, <2>9
<1> QED
  BY <1>12, <1>13

\* A field is a line that the loop takes for one.
LEMMA FieldLine ==
  ASSUME NEW f \in FieldSet
  PROVE  IsField(<<f>>) /\ ~IsTerminator(<<f>>)
<1>1. f[1] = "Field" \/ f[1] = "DataLength"
  BY DEF FieldSet, Text
<1>2. ASSUME NEW t \in {"Data", "End", "EndMessage"}, <<f>> = <<Text(t)>> PROVE FALSE
  <2>1. f = Text(t)
    BY <1>2
  <2>2. f[1] = t
    BY <2>1 DEF Text
  <2> QED
    BY <1>1, <2>2
<1> QED
  BY <1>1, <1>2 DEF IsField, IsTerminator

\* The node's last line ends the loop.
LEMMA LastLine ==
  IsTerminator(<<Terminator(message.h)>>)
BY DEF IsTerminator, Terminator

\* The announced length is the length of the body.
LEMMA BodyLength ==
  ASSUME NEW m \in Messages, m.h = "AllData"
  PROVE  {f \in ToSet(m.fields) : f[1] = "DataLength"} = {<<"DataLength", Len(m.data)>>}
BY StreamAssumption

\* Only AllData has a body.
LEMMA NoBody ==
  ASSUME NEW m \in Messages, m.h # "AllData"
  PROVE  m.data = <<>>
BY StreamAssumption

\* The next line of a message: a field, or its end.
LEMMA FieldStream ==
  ASSUME ReaderInv, StreamInv, ReadField, ~derailed
  PROVE  StreamInv' /\ pc' # "failed"
<1>1. /\ pc = "field" /\ HasLine /\ BufferInv /\ message \in MessageSet
      /\ response' = SubSeq(response, LineEnd + 1, Len(response))
      /\ UNCHANGED <<sent, closed, wire, available, received, derailed>>
  BY DEF ReadField, TakeLine, inbound, ReaderInv, MessageInv
<1>2. PICK todo, fs, ds, z : Reads(todo, fs, ds, z)
  BY <1>1 DEF StreamInv
<1> DEFINE hd == Head(todo)
           w == Written(Tail(todo))
           dw == ds \o w
           last == Line(Terminator(message.h))
           end == last \o dw
<1>3. /\ todo \in Seq(Messages) /\ sent = received \o todo
      /\ fs \in Seq(FieldSet) /\ ds \in Seq(Bytes)
      /\ z \in Seq(Bytes) /\ (closed \/ z = <<>>)
      /\ todo # <<>> /\ message.h = hd.h /\ message.data = <<>>
      /\ message.fields \o fs = hd.fields /\ message.data \o ds = hd.data
      /\ Ahead(z) = Lines(fs) \o end
  BY <1>1, <1>2 DEF Reads, Rest, Inside, Begun
<1> DEFINE rest == available \o (wire \o z)
<1>4. rest \in Seq(Bytes) /\ response \in Seq(Bytes) /\ Ahead(z) = response \o rest
  BY <1>1, <1>3, AheadType DEF Ahead, BufferInv
<1> HIDE DEF rest
<1>5. hd \in Messages /\ w \in Seq(Bytes)
  BY <1>3, TodoHead, TodoTypes
<1>6. dw \in Seq(Bytes) /\ last \in Seq(Bytes)
  BY <1>3, <1>5, ByteConcat, ByteTypes
<1>7. end \in Seq(Bytes)
  <2> HIDE DEF dw, last
  <2> QED
    BY <1>6, ByteConcat
<1>8. fs \in Seq(Bytes) /\ message.fields \in Seq(Bytes)
  BY <1>1, <1>3, SeqSub, ByteTypes DEF MessageSet
<1> HIDE DEF hd, dw, last, end
<1>9. CASE fs # <<>>
  <2> DEFINE f == Head(fs)
             g == Tail(fs)
             R == Lines(g) \o end
  <2>1. fs = <<f>> \o g /\ f \in FieldSet /\ g \in Seq(FieldSet)
    BY <1>3, <1>9, ConcatHead
  <2> HIDE DEF f, g
  <2>2. f \in Bytes /\ f # NL /\ g \in Seq(Bytes) /\ <<f>> \in Seq(Bytes)
    BY <2>1, ByteTypes, SeqSub
  <2>3. Lines(fs) = Line(f) \o Lines(g) /\ Lines(g) \in Seq(Bytes) /\ Line(f) \in Seq(Bytes)
    <3>1. Lines(<<f>> \o g) = Lines(<<f>>) \o Lines(g) /\ Lines(<<f>>) = Line(f)
      BY <2>2, LinesConcat
    <3>2. Lines(g) \in Seq(Bytes)
      BY <2>2, LinesConcat
    <3> QED
      BY <2>1, <2>2, <3>1, <3>2, ByteTypes
  <2>4. (Line(f) \o Lines(g)) \o end = Line(f) \o (Lines(g) \o end) /\ R \in Seq(Bytes)
    <3> DEFINE a == Line(f)
               b == Lines(g)
    <3>1. a \in Seq(Bytes) /\ b \in Seq(Bytes)
      BY <2>3
    <3> HIDE DEF a, b
    <3>2. (a \o b) \o end = a \o (b \o end)
      BY <1>7, <3>1, ByteAssoc, ZenonT(30)
    <3>3. b \o end \in Seq(Bytes)
      BY <1>7, <3>1, ByteConcat
    <3> QED
      BY <3>2, <3>3 DEF a, b
  <2>5. response \o rest = Line(f) \o R
    BY <1>3, <1>4, <2>3, <2>4
  <2>6. TheLine = <<f>> /\ response' \o rest = R
    <3>1. NextIs(f, rest, R)
      BY <1>4, <2>2, <2>4, <2>5 DEF NextIs
    <3> HIDE DEF R
    <3> QED
      BY <1>1, <1>4, <3>1, LineRead
  <2>7. IsField(TheLine) /\ ~IsTerminator(TheLine) /\ TheLine[1] = f
    BY <2>1, <2>6, FieldLine
  <2>8. message' = [message EXCEPT !.fields = Append(message.fields, f)] /\ pc' = "field"
    BY <2>7 DEF ReadField
  <2>9. message'.h = hd.h /\ message'.data = <<>> /\ message'.fields = Append(message.fields, f)
    BY <1>1, <1>3, <2>8 DEF MessageSet
  <2>10. message'.fields \o g = hd.fields
    <3> DEFINE mf == message.fields
    <3>1. mf \in Seq(Bytes)
      BY <1>8
    <3> HIDE DEF mf
    <3>2. (mf \o <<f>>) \o g = mf \o (<<f>> \o g)
      BY <2>2, <3>1, ByteAssoc, ZenonT(30)
    <3>3. Append(mf, f) = mf \o <<f>>
      BY <2>2, <3>1
    <3> QED
      BY <1>3, <2>1, <2>9, <3>2, <3>3 DEF mf
  <2>11. Begun(todo, g, ds)'
    BY <1>3, <2>8, <2>9, <2>10 DEF Begun, hd
  <2>12. Rest(todo, g, ds)' = R
    BY <1>3, <2>8, <2>9 DEF Rest, end, last, dw
  <2>13. Ahead(z)' = R
    BY <1>1, <2>6 DEF Ahead, rest
  <2>14. Reads(todo, g, ds, z)'
    BY <1>1, <1>3, <2>1, <2>11, <2>12, <2>13 DEF Reads
  <2> QED
    BY <2>8, <2>14 DEF StreamInv
<1>10. CASE fs = <<>>
  <2>1. Lines(fs) \o end = end
    <3>1. Lines(<<>>) = <<>>
      BY ByteTypes, ByteEmpty, LinesConcat
    <3> QED
      BY <1>7, <1>10, <3>1, ByteEmpty
  <2>0. PICK t : t = Terminator(message.h)
    OBVIOUS
  <2>2. t \in Bytes /\ t # NL
    BY <2>0, ByteTypes
  <2>3. response \o rest = Line(t) \o dw
    BY <2>0, <1>3, <1>4, <2>1 DEF end, last
  <2>4. TheLine = <<t>> /\ response' \o rest = dw
    <3>1. NextIs(t, rest, dw)
      BY <1>4, <1>6, <2>2, <2>3 DEF NextIs
    <3> QED
      BY <1>1, <1>4, <3>1, LineRead
  <2>5. IsTerminator(TheLine)
    BY <2>0, <2>4, LastLine
  <2>6. message.fields = hd.fields /\ ds = hd.data
    BY <1>3, <1>8, <1>10, ByteEmpty
  <2> DEFINE lengths == {f \in ToSet(message.fields) : f[1] = "DataLength"}
  <2>7. message.h = "AllData" => lengths = {<<"DataLength", Len(ds)>>}
    BY <1>3, <1>5, <2>6, BodyLength
  <2>8. message' = message /\ pc' = "dispatch"
        /\ (message.h = "AllData" => bytesToRead' = Len(ds))
    <3>1. CASE message.h = "AllData"
      <4>1. lengths # {} /\ (CHOOSE f \in lengths : TRUE) = <<"DataLength", Len(ds)>>
        <5> HIDE DEF lengths
        <5> QED
          BY <2>7, <3>1
      <4>2. message' = message /\ bytesToRead' = (CHOOSE f \in lengths : TRUE)[2] /\ pc' = "dispatch"
        BY <2>5, <3>1, <4>1 DEF ReadField
      <4>3. bytesToRead' = <<"DataLength", Len(ds)>>[2]
        <5> HIDE DEF lengths
        <5> QED
          BY <4>1, <4>2
      <4> QED
        BY <4>2, <4>3
    <3>2. CASE message.h # "AllData"
      BY <2>5, <3>2 DEF ReadField
    <3> QED
      BY <3>1, <3>2
  <2>9. Begun(todo, fs, ds)'
    BY <1>3, <1>10, <2>8 DEF Begun, hd
  <2>10. Rest(todo, fs, ds)' = dw
    BY <2>8 DEF Rest, Inside, dw
  <2>11. Ahead(z)' = dw
    BY <1>1, <2>4 DEF Ahead, rest
  <2>12. Reads(todo, fs, ds, z)'
    BY <1>1, <1>3, <2>9, <2>10, <2>11 DEF Reads
  <2> QED
    BY <2>8, <2>12 DEF StreamInv
<1> QED
  BY <1>9, <1>10

\* A message of which nothing is to come is the message that was sent.
LEMMA ReceiveWhole ==
  ASSUME ReaderInv, NEW todo, NEW fs, NEW ds, NEW z, Reads(todo, fs, ds, z), Inside, pc # "field",
         ds = <<>>, received' = Append(received, message), ~Inside', pc' # "failed",
         UNCHANGED <<sent, closed, wire, available, response>>
  PROVE  /\ todo # <<>> /\ message = Head(todo) /\ Reads(Tail(todo), <<>>, <<>>, z)'
<1> DEFINE hd == Head(todo)
           tl == Tail(todo)
<1>1. /\ todo \in Seq(Messages) /\ sent = received \o todo
      /\ z \in Seq(Bytes) /\ (closed \/ z = <<>>) /\ Ahead(z) = Rest(todo, fs, ds)
      /\ todo # <<>> /\ message.h = hd.h
      /\ message.fields \o fs = hd.fields /\ message.data \o ds = hd.data /\ fs = <<>>
  BY DEF Reads, Begun
<1>2. todo = <<hd>> \o tl /\ hd \in Messages /\ tl \in Seq(Messages)
  BY <1>1, TodoHead
<1>3. Written(tl) \in Seq(Bytes)
  BY <1>2, TodoTypes
<1>4. message \in MessageSet /\ received \in Seq(MessageSet)
  BY DEF ReaderInv, MessageInv
<1>5. message.fields \in Seq(Bytes) /\ message.data \in Seq(Bytes)
  BY <1>4 DEF MessageSet
<1>6. message.fields = hd.fields /\ message.data = hd.data
  BY <1>1, <1>5, ByteEmpty
<1>7. message = hd
  <2>1. hd \in MessageSet
    BY <1>2, MessageTypes
  <2>2. hd = [h |-> hd.h, fields |-> hd.fields, data |-> hd.data]
    BY <2>1 DEF MessageSet
  <2>3. message = [h |-> message.h, fields |-> message.fields, data |-> message.data]
    BY <1>4 DEF MessageSet
  <2> QED
    BY <1>1, <1>6, <2>2, <2>3
<1>8. sent' = received' \o tl
  <2>1. tl \in Seq(MessageSet)
    BY <1>2, TodoTypes
  <2> HIDE DEF hd, tl
  <2>2. received \o (<<message>> \o tl) = (received \o <<message>>) \o tl
    BY <1>4, <2>1
  <2>3. Append(received, message) = received \o <<message>>
    BY <1>4
  <2> QED
    BY <1>1, <1>2, <1>7, <2>2, <2>3
<1>9. Ahead(z)' = Written(tl)
  <2>1. Rest(todo, fs, ds) = Written(tl)
    <3>1. Rest(todo, fs, ds) = <<>> \o Written(tl)
      BY DEF Rest
    <3> QED
      BY <1>3, <3>1, ByteEmpty
  <2> QED
    BY <1>1, <2>1 DEF Ahead
<1>10. Rest(tl, <<>>, <<>>)' = Written(tl)
  BY DEF Rest, Inside
<1>11. Reads(tl, <<>>, <<>>, z)'
  BY <1>1, <1>2, <1>8, <1>9, <1>10, ByteEmpty DEF Reads
<1> QED
  BY <1>1, <1>7, <1>11

\* When a message is handed over, nothing of its body is to come.
LEMMA BodyIsRead ==
  ASSUME ReaderInv, NEW todo, NEW fs, NEW ds, NEW z, Reads(todo, fs, ds, z),
         \/ pc = "dispatch" /\ message.h # "AllData"
         \/ pc = "copy" /\ ~ (bytesToRead > 0)
  PROVE  ds = <<>>
<1>1. Begun(todo, fs, ds) /\ todo \in Seq(Messages) /\ ds \in Seq(Bytes)
  BY DEF Reads, Inside
<1>2. CASE pc = "dispatch" /\ message.h # "AllData"
  <2>1. Head(todo) \in Messages /\ Head(todo).h # "AllData"
    BY <1>1, <1>2, TodoHead DEF Begun
  <2>2. message.data \o ds = <<>> /\ message.data = <<>>
    BY <1>1, <1>2, <2>1, NoBody DEF Begun
  <2> QED
    BY <1>1, <2>2, ByteEmpty
<1>3. CASE pc = "copy" /\ ~ (bytesToRead > 0)
  <2>1. bytesToRead = Len(ds) /\ bytesToRead \in Nat
    BY <1>1, <1>3 DEF Begun, ReaderInv, CountInv
  <2>2. Len(ds) = 0
    BY <1>3, <2>1
  <2> QED
    BY <1>1, <2>2
<1> QED
  BY <1>2, <1>3

\* A message without a body is handed over; the body of another is copied, or
\* nobody claims it.
LEMMA DispatchStream ==
  ASSUME ReaderInv, StreamInv, Dispatch
  PROVE  StreamInv'
<1> SUFFICES ASSUME ~derailed, ~derailed' PROVE \E todo, fs, ds, z : Reads(todo, fs, ds, z)'
  BY DEF StreamInv, Dispatch
<1>1. /\ pc = "dispatch" /\ Inside
      /\ UNCHANGED <<sent, closed, wire, available, response, message, bytesToRead>>
  BY DEF Dispatch, inbound, Inside
<1>2. PICK todo, fs, ds, z : Reads(todo, fs, ds, z)
  BY <1>1 DEF StreamInv
<1>3. Begun(todo, fs, ds) /\ todo \in Seq(Messages) /\ ds \in Seq(Bytes)
  BY <1>1, <1>2 DEF Reads
<1>4. CASE message.h # "AllData"
  <2>1. received' = Append(received, message) /\ pc' = "queue"
    BY <1>4 DEF Dispatch
  <2>2. ds = <<>>
    BY <1>1, <1>2, <1>4, BodyIsRead
  <2>3. Reads(Tail(todo), <<>>, <<>>, z)'
    BY <1>1, <1>2, <2>1, <2>2, ReceiveWhole DEF Inside
  <2> QED
    BY <2>3
<1>5. CASE message.h = "AllData"
  <2>1. pc' = "copy" /\ UNCHANGED received
    BY <1>5 DEF Dispatch
  <2>2. Begun(todo, fs, ds)'
    BY <1>1, <1>3, <1>5, <2>1 DEF Begun
  <2>3. Rest(todo, fs, ds)' = Rest(todo, fs, ds)
    BY <1>1, <2>1 DEF Rest, Inside
  <2>4. Reads(todo, fs, ds, z)'
    BY <1>1, <1>2, <2>1, <2>2, <2>3 DEF Reads, Ahead
  <2> QED
    BY <2>4
<1> QED
  BY <1>4, <1>5

\* The next block of a body, or its end.
LEMMA CopyNextStream ==
  ASSUME ReaderInv, StreamInv, CopyNext
  PROVE  StreamInv'
<1> SUFFICES ASSUME ~derailed PROVE \E todo, fs, ds, z : Reads(todo, fs, ds, z)'
  BY DEF StreamInv, CopyNext
<1>1. /\ pc = "copy" /\ Inside /\ bytesToRead \in Nat
      /\ UNCHANGED <<sent, closed, wire, available, response, message, bytesToRead>>
  BY DEF CopyNext, inbound, Inside, ReaderInv, CountInv
<1>2. PICK todo, fs, ds, z : Reads(todo, fs, ds, z)
  BY <1>1 DEF StreamInv
<1>3. Begun(todo, fs, ds) /\ todo \in Seq(Messages) /\ ds \in Seq(Bytes) /\ bytesToRead = Len(ds)
  BY <1>1, <1>2 DEF Reads, Begun
<1>4. CASE bytesToRead > 0
  <2>1. pc' = "block" /\ UNCHANGED received
    BY <1>4 DEF CopyNext
  <2>2. Begun(todo, fs, ds)'
    BY <1>1, <1>3, <2>1 DEF Begun
  <2>3. Rest(todo, fs, ds)' = Rest(todo, fs, ds)
    BY <1>1, <2>1 DEF Rest, Inside
  <2>4. Reads(todo, fs, ds, z)'
    BY <1>1, <1>2, <2>1, <2>2, <2>3 DEF Reads, Ahead
  <2> QED
    BY <2>4
<1>5. CASE ~ (bytesToRead > 0)
  <2>1. received' = Append(received, message) /\ pc' = "queue"
    BY <1>5 DEF CopyNext
  <2>2. ds = <<>>
    BY <1>1, <1>2, <1>5, BodyIsRead
  <2>3. Reads(Tail(todo), <<>>, <<>>, z)'
    BY <1>1, <1>2, <2>1, <2>2, ReceiveWhole DEF Inside
  <2> QED
    BY <2>3
<1> QED
  BY <1>4, <1>5

\* A block goes from the buffer to the message.
LEMMA CopyBlockStream ==
  ASSUME ReaderInv, StreamInv, CopyBlock
  PROVE  StreamInv'
<1> SUFFICES ASSUME ~derailed PROVE \E todo, fs, ds, z : Reads(todo, fs, ds, z)'
  BY DEF StreamInv, CopyBlock
<1>1. /\ pc = "block" /\ Inside /\ pc' = "copy"
      /\ UNCHANGED <<sent, closed, wire, available, received>>
      /\ message' = [message EXCEPT !.data = message.data \o SubSeq(response, 1, want)]
      /\ response' = SubSeq(response, want + 1, Len(response))
      /\ bytesToRead' = bytesToRead - want
  BY DEF CopyBlock, inbound, Inside
<1>2. PICK todo, fs, ds, z : Reads(todo, fs, ds, z)
  BY <1>1 DEF StreamInv
<1>3. /\ Begun(todo, fs, ds) /\ todo \in Seq(Messages) /\ ds \in Seq(Bytes) /\ z \in Seq(Bytes)
      /\ bytesToRead = Len(ds) /\ message.h = "AllData"
      /\ Ahead(z) = ds \o Written(Tail(todo))
  BY <1>1, <1>2 DEF Reads, Begun, Rest
<1>4. response \in Seq(Bytes) /\ message \in MessageSet /\ want \in Nat /\ want <= bytesToRead
  BY <1>1 DEF ReaderInv, BufferInv, MessageInv, CountInv
<1>5. want \in 0 .. Len(ds) /\ want \in 0 .. Len(response)
  <2>1. ~ (Len(response) < want) /\ Len(response) \in Nat /\ Len(ds) \in Nat
    BY <1>1, <1>3, <1>4 DEF CopyBlock, Missing
  <2> QED
    BY <1>3, <1>4, <2>1
<1> DEFINE w == Written(Tail(todo))
           rest == available \o (wire \o z)
           d1 == SubSeq(ds, 1, want)
<1>6. w \in Seq(Bytes)
  BY <1>3, TodoHead, TodoTypes DEF Begun
<1>7. rest \in Seq(Bytes) /\ Ahead(z) = response \o rest
  BY <1>3, AheadType DEF Ahead, ReaderInv
<1>8. PICK d2 : d2 = SubSeq(ds, want + 1, Len(ds))
  OBVIOUS
<1>9. ds = d1 \o d2 /\ d1 \in Seq(Bytes) /\ d2 \in Seq(Bytes) /\ Len(d2) = Len(ds) - want
  BY <1>3, <1>5, <1>8, ConcatSplit, RestTyped
<1> HIDE DEF w, rest
<1>10. SubSeq(response, 1, want) = d1 /\ response' \o rest = d2 \o w
  <2>1. SubSeq(response \o rest, 1, want) = SubSeq(response, 1, want)
        /\ SubSeq(response \o rest, want + 1, Len(response \o rest)) = response' \o rest
    BY <1>1, <1>4, <1>5, <1>7, ConcatCut
  <2>2. SubSeq(ds \o w, 1, want) = d1
        /\ SubSeq(ds \o w, want + 1, Len(ds \o w)) = d2 \o w
    BY <1>3, <1>5, <1>6, <1>8, ConcatCut
  <2>3. response \o rest = ds \o w
    BY <1>3, <1>7 DEF w
  <2> QED
    BY <2>1, <2>2, <2>3
<1> HIDE DEF d1
<1>11. message'.h = message.h /\ message'.fields = message.fields /\ message'.data = message.data \o d1
  BY <1>1, <1>4, <1>10 DEF MessageSet
<1>12. message'.data \o d2 = Head(todo).data
  <2> DEFINE md == message.data
  <2>1. md \in Seq(Bytes) /\ md \o ds = Head(todo).data
    BY <1>3, <1>4 DEF MessageSet, Begun
  <2> HIDE DEF md
  <2>2. (md \o d1) \o d2 = md \o (d1 \o d2)
    BY <1>9, <2>1, ByteAssoc, ZenonT(30)
  <2> QED
    BY <1>9, <1>11, <2>1, <2>2 DEF md
<1>13. bytesToRead' = Len(d2)
  BY <1>1, <1>3, <1>9
<1>14. Begun(todo, fs, d2)'
  BY <1>1, <1>3, <1>11, <1>12, <1>13 DEF Begun
<1>15. Rest(todo, fs, d2)' = d2 \o w
  BY <1>1 DEF Rest, Inside, w
<1>16. Ahead(z)' = response' \o rest
  BY <1>1 DEF Ahead, rest
<1>17. Reads(todo, fs, d2, z)'
  BY <1>1, <1>2, <1>9, <1>10, <1>14, <1>15, <1>16 DEF Reads
<1> QED
  BY <1>17

\* The other steps of the manager are outside messages.
LEMMA OutsideStream ==
  ASSUME ReaderInv, StreamInv,
         \/ Poll \/ ReadFails \/ NoRequest \/ (\E r \in Requests : TakeRequest(r))
         \/ SendHead \/ SendBlock \/ SendDone \/ SendFails \/ UNCHANGED vars
  PROVE  StreamInv'
<1>1. CASE UNCHANGED vars
  <2>1. UNCHANGED <<sent, closed, wire, available, response, pc, message, bytesToRead, received,
                    derailed>>
    BY <1>1 DEF vars, inbound, reading
  <2> SUFFICES ASSUME ~derailed, pc # "failed" PROVE \E todo, fs, ds, z : Reads(todo, fs, ds, z)'
    BY <2>1 DEF StreamInv
  <2>2. PICK todo, fs, ds, z : Reads(todo, fs, ds, z)
    BY DEF StreamInv
  <2>3. z \in Seq(Bytes) /\ (closed \/ z = <<>>)
    BY <2>2 DEF Reads
  <2>4. Reads(todo, fs, ds, z)'
    BY <2>1, <2>2, <2>3, ReadsMoved DEF Ahead
  <2> QED
    BY <2>4
<1>2. CASE pc' = "failed"
  BY <1>2 DEF StreamInv
<1>3. CASE /\ \/ Poll \/ NoRequest \/ (\E r \in Requests : TakeRequest(r))
              \/ SendHead \/ SendBlock \/ SendDone
           /\ pc' # "failed"
  <2>1. /\ UNCHANGED <<sent, closed, wire, available, response, received, derailed>>
        /\ pc \in {"poll", "queue", "send", "body"}
        /\ pc' \in {"header", "queue", "poll", "send", "body"}
    BY <1>3 DEF Poll, NoRequest, TakeRequest, SendHead, SendBlock, SendDone, inbound, reading
  <2>2. ~Inside /\ ~Inside'
    BY <2>1 DEF Inside
  <2> SUFFICES ASSUME ~derailed PROVE \E todo, fs, ds, z : Reads(todo, fs, ds, z)'
    BY <2>1 DEF StreamInv
  <2>3. PICK todo, fs, ds, z : Reads(todo, fs, ds, z)
    BY <2>1 DEF StreamInv
  <2>4. Reads(todo, fs, ds, z)'
    BY <2>1, <2>2, <2>3, ReadsOutside
  <2> QED
    BY <2>4
<1>4. ReadFails \/ SendFails => pc' = "failed"
  BY DEF ReadFails, SendFails
<1> QED
  BY <1>1, <1>2, <1>3, <1>4

\* Every step keeps the invariant, and what fails has a cause.
LEMMA StreamStep ==
  ReaderInv /\ StreamInv /\ [Next]_vars => StreamInv'
<1> SUFFICES ASSUME ReaderInv, StreamInv, [Next]_vars PROVE StreamInv'
  OBVIOUS
<1>1. CASE ReadHeader
  <2>1. CASE derailed
    <3>1. derailed'
      BY <1>1, <2>1 DEF ReadHeader
    <3> QED
      BY <3>1 DEF StreamInv
  <2>2. CASE ~derailed
    BY <1>1, <2>2, HeaderStream
  <2> QED
    BY <2>1, <2>2
<1>2. CASE ReadField
  <2>1. CASE derailed
    <3>1. derailed'
      BY <1>2, <2>1 DEF ReadField
    <3> QED
      BY <3>1 DEF StreamInv
  <2>2. CASE ~derailed
    BY <1>2, <2>2, FieldStream
  <2> QED
    BY <2>1, <2>2
<1> QED
  BY <1>1, <1>2, NodeSendsStream, MovesStream, DispatchStream, CopyNextStream, CopyBlockStream,
     OutsideStream
  DEF Next, Manager

-----------------------------------------------------------------------------
(* What fails has a cause.                                                  *)

\* One message more has the causes of those before it.
LEMMA CauseStays ==
  ASSUME ReaderInv, NEW m \in Messages, NodeSends(m), NEW i \in DOMAIN sent
  PROVE  i \in DOMAIN sent' /\ sent'[i] = sent[i]
<1>1. sent \in Seq(Messages) /\ sent' = Append(sent, m)
  BY DEF ReaderInv, SentInv, NodeSends
<1> QED
  BY <1>1

\* Every step keeps it.
LEMMA CauseStep ==
  ReaderInv /\ StreamInv /\ WriterInv /\ FailsForCause /\ [Next]_vars => FailsForCause'
<1> SUFFICES ASSUME ReaderInv, StreamInv, WriterInv, FailsForCause, [Next]_vars, pc' = "failed"
             PROVE  \/ closed'
                    \/ derailed'
                    \/ \E i \in DOMAIN sent' : sent'[i].h \notin Headers
                    \/ queued' # <<>> /\ Request'.have < Request'.length
  BY DEF FailsForCause
<1>1. CASE UNCHANGED <<pc, closed, derailed, sent, queued>>
  BY <1>1 DEF FailsForCause, Request
<1>2. ASSUME NEW m \in Messages, NodeSends(m)
      PROVE  \/ closed' \/ derailed'
             \/ \E i \in DOMAIN sent' : sent'[i].h \notin Headers
             \/ queued' # <<>> /\ Request'.have < Request'.length
  <2>1. UNCHANGED <<pc, closed, derailed, queued>>
    BY <1>2 DEF NodeSends, reading, writing
  <2>2. ASSUME NEW i \in DOMAIN sent, sent[i].h \notin Headers
        PROVE  \E k \in DOMAIN sent' : sent'[k].h \notin Headers
    <3>1. i \in DOMAIN sent' /\ sent'[i] = sent[i]
      BY <1>2, CauseStays
    <3> QED
      BY <2>2, <3>1
  <2> QED
    BY <2>1, <2>2 DEF FailsForCause, Request
<1>3. CASE Arrive
  BY <1>1, <1>3 DEF Arrive, reading, writing
<1>4. CASE Close
  BY <1>4 DEF Close
<1>5. CASE ReadFails
  BY <1>5 DEF ReadFails, inbound
<1>6. CASE ReadHeader
  <2>1. UNCHANGED <<sent, derailed>>
    BY <1>6 DEF ReadHeader, inbound
  <2>2. ~derailed => \E i \in DOMAIN sent : sent[i].h \notin Headers
    BY <1>6, HeaderStream
  <2> QED
    BY <2>1, <2>2
<1>7. CASE ReadField
  <2>1. UNCHANGED derailed
    BY <1>7 DEF ReadField
  <2>2. ~derailed => FALSE
    BY <1>7, FieldStream
  <2> QED
    BY <2>1, <2>2
<1>8. CASE SendFails
  BY <1>8 DEF SendFails, inbound
<1>9. CASE SendBlock
  <2>1. pc = "body" /\ tmp > 0 /\ ShortStream /\ UNCHANGED queued
    BY <1>9 DEF SendBlock
  <2>2. /\ queued # <<>> /\ queued \in Seq(Requests) /\ tmp \in Nat /\ tmp <= Request.length
    BY <2>1 DEF WriterInv
  <2>3. Request \in Requests
    <3>1. Len(queued) \in 1 .. Len(queued)
      BY <2>2
    <3> QED
      BY <2>2, <3>1 DEF Request
  <2>4. Request.have \in Nat /\ Request.length \in Nat
    BY <2>3, Constants
  <2>5. Block(tmp) <= tmp /\ Block(tmp) \in Nat
    BY <2>2, Constants DEF Block
  <2>6. Request.have < Request.length
    BY <2>1, <2>2, <2>4, <2>5 DEF ShortStream, Position
  <2>7. Request' = Request
    BY <2>1 DEF Request
  <2> QED
    BY <2>1, <2>2, <2>6, <2>7
<1>10. CASE UNCHANGED vars
  BY <1>1, <1>10 DEF vars, inbound, reading, writing
<1>11. ~ (\/ Poll \/ ReadSome \/ Dispatch \/ CopyNext \/ CopyBlock \/ NoRequest
          \/ (\E r \in Requests : TakeRequest(r)) \/ SendHead \/ SendDone)
  BY DEF Poll, ReadSome, Dispatch, CopyNext, CopyBlock, NoRequest, TakeRequest, SendHead, SendDone,
         Missing, InReadln
<1> QED
  BY <1>2, <1>3, <1>4, <1>5, <1>6, <1>7, <1>8, <1>9, <1>10, <1>11 DEF Next, Manager

-----------------------------------------------------------------------------
(* What is written are the requests.                                        *)

\* A byte of a body and the head of a request.
OutBytes == {"head", "byte"} \X Nat

\* A request in part.
LEMMA PartType ==
  ASSUME NEW r \in Requests, NEW n \in Nat
  PROVE  /\ Part(r, n) \in Seq(OutBytes) /\ Whole(r) = Part(r, r.length)
         /\ Part(r, 0) = <<RequestHead(r)>>
<1>1. RequestHead(r) \in OutBytes
  BY Constants DEF RequestHead, OutBytes
<1>2. [i \in 1 .. n |-> Byte(i)] \in Seq(OutBytes)
  <2>1. \A i \in 1 .. n : Byte(i) \in OutBytes
    BY DEF Byte, OutBytes
  <2>2. [i \in 1 .. n |-> Byte(i)] \in [1 .. n -> OutBytes]
    BY <2>1
  <2> QED
    BY <2>2
<1>3. [i \in 1 .. 0 |-> Byte(i)] = <<>>
  OBVIOUS
<1>4. <<RequestHead(r)>> \in Seq(OutBytes)
  BY <1>1
<1> HIDE DEF OutBytes
<1>5. <<RequestHead(r)>> \o <<>> = <<RequestHead(r)>>
  BY <1>4, ConcatEmpty
<1> QED
  BY <1>2, <1>3, <1>4, <1>5, Concat DEF Part, Whole

\* A block more of the body.
LEMMA PartMore ==
  ASSUME NEW r \in Requests, NEW n \in Nat, NEW k \in Nat
  PROVE  Part(r, n) \o [i \in 1 .. k |-> Byte(n + i)] = Part(r, n + k)
<1> DEFINE a == [i \in 1 .. n |-> Byte(i)]
           b == [i \in 1 .. k |-> Byte(n + i)]
           c == [i \in 1 .. n + k |-> Byte(i)]
           h == <<RequestHead(r)>>
<1>1. a \in Seq(OutBytes) /\ b \in Seq(OutBytes) /\ c \in Seq(OutBytes) /\ h \in Seq(OutBytes)
  <2>1. \A i \in Nat : Byte(i) \in OutBytes
    BY DEF Byte, OutBytes
  <2>2. RequestHead(r) \in OutBytes
    BY Constants DEF RequestHead, OutBytes
  <2>3. a \in [1 .. n -> OutBytes] /\ b \in [1 .. k -> OutBytes] /\ c \in [1 .. n + k -> OutBytes]
    BY <2>1
  <2> QED
    BY <2>2, <2>3
<1>2. Len(a) = n /\ Len(b) = k /\ Len(c) = n + k
  OBVIOUS
<1>3. a \o b = c
  <2>1. a \o b \in Seq(OutBytes) /\ Len(a \o b) = n + k
    BY <1>1, <1>2
  <2>2. ASSUME NEW i \in 1 .. n + k PROVE (a \o b)[i] = c[i]
    <3>1. i \in Nat /\ (i <= n \/ i > n)
      OBVIOUS
    <3>2. CASE i <= n
      <4>1. i \in 1 .. n
        BY <3>1, <3>2
      <4>2. (a \o b)[i] = a[i]
        <5> HIDE DEF a, b
        <5> QED
          BY <1>1, <1>2, <4>1, Concat
      <4> QED
        BY <4>1, <4>2
    <3>3. CASE i > n
      <4> DEFINE j == i - n
      <4>1. j \in 1 .. k /\ n + j = i
        BY <3>1, <3>3
      <4> HIDE DEF j
      <4>2. (a \o b)[n + j] = b[j]
        <5> HIDE DEF a, b
        <5> QED
          BY <1>1, <1>2, <4>1, Concat
      <4>3. b[j] = Byte(n + j)
        BY <4>1
      <4> QED
        BY <4>1, <4>2, <4>3
    <3> QED
      BY <3>1, <3>2, <3>3, Zenon
  <2> HIDE DEF a, b, c
  <2> QED
    BY <1>1, <1>2, <2>1, <2>2, SameSeq
<1> HIDE DEF a, b, c, h
<1>4. (h \o a) \o b = h \o (a \o b)
  <2>1. SequenceLaws(OutBytes)
    BY SequenceLawsHold
  <2>2. \A x, y, w \in Seq(OutBytes) : (x \o y) \o w = x \o (y \o w)
    BY <2>1, Zenon DEF SequenceLaws
  <2> QED
    BY <1>1, <2>2, Zenon
<1> QED
  BY <1>3, <1>4 DEF Part, a, b, c, h

\* The requests up to the n-th, and one more.
LEMMA UpToMore ==
  ASSUME queued \in Seq(Requests), NEW n \in Nat, n < Len(queued)
  PROVE  /\ UpTo(n) \in Seq(OutBytes)
         /\ queued[n + 1] \in Requests
         /\ UpTo(n + 1) = UpTo(n) \o Whole(queued[n + 1])
<1> DEFINE a == [i \in 1 .. n |-> Whole(queued[i])]
           b == [i \in 1 .. n + 1 |-> Whole(queued[i])]
           w == Whole(queued[n + 1])
<1>1. \A i \in 1 .. n + 1 : queued[i] \in Requests
  <2>1. \A i \in 1 .. Len(queued) : queued[i] \in Requests
    OBVIOUS
  <2>2. Len(queued) \in Nat
    OBVIOUS
  <2> QED
    BY <2>1, <2>2
<1>2. \A i \in 1 .. n + 1 : Whole(queued[i]) \in Seq(OutBytes)
  <2>1. \A r \in Requests : Whole(r) \in Seq(OutBytes)
    BY PartType, Constants
  <2> QED
    BY <1>1, <2>1
<1>3. w \in Seq(OutBytes) /\ queued[n + 1] \in Requests
  <2>1. n + 1 \in 1 .. n + 1
    OBVIOUS
  <2> QED
    BY <1>1, <1>2, <2>1
<1>4. a \in Seq(Seq(OutBytes)) /\ Len(a) = n
  <2>1. a \in [1 .. n -> Seq(OutBytes)]
    BY <1>2
  <2> QED
    BY <2>1
<1>5. b = a \o <<w>>
  <2>1. b \in Seq(Seq(OutBytes)) /\ Len(b) = n + 1
    <3>1. b \in [1 .. n + 1 -> Seq(OutBytes)]
      BY <1>2
    <3> QED
      BY <3>1
  <2>2. <<w>> \in Seq(Seq(OutBytes)) /\ Len(<<w>>) = 1 /\ <<w>>[1] = w
    BY <1>3
  <2>3. ASSUME NEW i \in 1 .. n + 1 PROVE (a \o <<w>>)[i] = b[i]
    <3>1. i \in Nat /\ (i <= n \/ i = n + 1)
      OBVIOUS
    <3>2. CASE i <= n
      <4>1. i \in 1 .. n
        BY <3>1, <3>2
      <4>2. (a \o <<w>>)[i] = a[i]
        <5> HIDE DEF a, w
        <5> QED
          BY <1>4, <2>2, <4>1
      <4> QED
        BY <4>1, <4>2
    <3>3. CASE i = n + 1
      <4>1. (a \o <<w>>)[n + 1] = w
        <5> HIDE DEF a, w
        <5> QED
          BY <1>4, <2>2
      <4> QED
        BY <3>3, <4>1
    <3> QED
      BY <3>1, <3>2, <3>3, Zenon
  <2> HIDE DEF a, b, w
  <2>4. a \o <<w>> \in Seq(Seq(OutBytes)) /\ Len(a \o <<w>>) = n + 1
    BY <1>4, <2>2
  <2> DEFINE c == a \o <<w>>
  <2>5. c \in Seq(Seq(OutBytes)) /\ Len(c) = n + 1 /\ \A i \in 1 .. n + 1 : c[i] = b[i]
    BY <2>3, <2>4
  <2> HIDE DEF c
  <2>6. c = b
    BY <2>1, <2>5
  <2> QED
    BY <2>6 DEF c
<1> HIDE DEF a, b, w
<1>6. FlattenSeq(a \o <<w>>) = FlattenSeq(a) \o FlattenSeq(<<w>>) /\ FlattenSeq(<<w>>) = w
  <2>1. <<w>> \in Seq(Seq(OutBytes))
    BY <1>3
  <2> QED
    BY <1>3, <1>4, <2>1, FlatConcat, FlatFew
<1>7. FlattenSeq(a) \in Seq(OutBytes)
  BY <1>4, FlatBy
<1> QED
  BY <1>3, <1>5, <1>6, <1>7 DEF UpTo, a, b, w

\* All requests, and a part of the last one.
LEMMA UpToLast ==
  ASSUME queued \in Seq(Requests), queued # <<>>, NEW n \in Nat, n <= Request.length
  PROVE  /\ Len(queued) \in Nat \ {0} /\ Request \in Requests
         /\ UpTo(Len(queued) - 1) \in Seq(OutBytes)
         /\ UpTo(Len(queued)) = UpTo(Len(queued) - 1) \o Whole(Request)
         /\ IsPrefix(UpTo(Len(queued) - 1), UpTo(Len(queued)))
         /\ LET o == UpTo(Len(queued) - 1) \o Part(Request, n)
            IN  IsPrefix(UpTo(Len(queued) - 1), o) /\ IsPrefix(o, UpTo(Len(queued)))
<1> DEFINE k == Len(queued) - 1
           u == UpTo(k)
           q == Part(Request, n)
           m == Request.length - n
           e == [i \in 1 .. m |-> Byte(n + i)]
<1>1. Len(queued) \in Nat \ {0}
  OBVIOUS
<1>2. k \in Nat /\ k < Len(queued) /\ k + 1 = Len(queued)
  BY <1>1
<1> HIDE DEF k
<1>3. u \in Seq(OutBytes) /\ Request \in Requests /\ UpTo(Len(queued)) = u \o Whole(Request)
  BY <1>2, UpToMore DEF Request
<1>4. Request.length \in Nat
  BY <1>3, Constants
<1>5. m \in Nat /\ n + m = Request.length
  BY <1>4
<1>6. q \in Seq(OutBytes) /\ Whole(Request) = Part(Request, Request.length)
      /\ Whole(Request) \in Seq(OutBytes)
  BY <1>3, <1>4, PartType
<1>7. q \o e = Whole(Request)
  <2> HIDE DEF m
  <2>1. q \o e = Part(Request, n + m)
    BY <1>3, <1>5, PartMore
  <2> QED
    BY <1>5, <1>6, <2>1
<1>8. e \in Seq(OutBytes)
  <2>1. \A i \in 1 .. m : Byte(n + i) \in OutBytes
    BY DEF Byte, OutBytes
  <2>2. e \in [1 .. m -> OutBytes]
    BY <2>1
  <2> HIDE DEF m, e
  <2>3. m \in Nat
    BY <1>5
  <2> QED
    BY <2>2, <2>3
<1> HIDE DEF u, q, m, e
<1>9. IsPrefix(u, u \o Whole(Request)) /\ IsPrefix(u, u \o q)
  BY <1>3, <1>6, ConcatPrefix
<1> DEFINE o == u \o q
<1>10. o \in Seq(OutBytes)
  BY <1>3, <1>6
<1>11. o \o e = u \o (q \o e)
  <2>1. SequenceLaws(OutBytes)
    BY SequenceLawsHold
  <2>2. \A x, y, w \in Seq(OutBytes) : (x \o y) \o w = x \o (y \o w)
    BY <2>1, Zenon DEF SequenceLaws
  <2>3. u \in Seq(OutBytes) /\ q \in Seq(OutBytes)
    BY <1>3, <1>6
  <2> QED
    BY <1>8, <2>2, <2>3, Zenon
<1> HIDE DEF o
<1>12. IsPrefix(o, o \o e)
  BY <1>8, <1>10, ConcatPrefix
<1> QED
  BY <1>1, <1>3, <1>7, <1>9, <1>11, <1>12 DEF o, k, u, q

\* Everything is a prefix of itself.
LEMMA PrefixSelf ==
  ASSUME queued \in Seq(Requests)
  PROVE  IsPrefix(UpTo(Len(queued)), UpTo(Len(queued)))
<1>1. UpTo(Len(queued)) \in Seq(OutBytes)
  <2>1. CASE queued = <<>>
    <3>1. [i \in 1 .. 0 |-> Whole(queued[i])] = <<>> /\ <<>> \in Seq(OutBytes)
      OBVIOUS
    <3>2. FlattenSeq(<<>>) = <<>>
      BY <3>1, FlatFew
    <3> QED
      BY <2>1, <3>1, <3>2 DEF UpTo
  <2>2. CASE queued # <<>>
    <3>1. Len(queued) \in Nat \ {0} /\ Request \in Requests
      <4>1. Len(queued) \in Nat \ {0}
        BY <2>2
      <4>2. Len(queued) \in 1 .. Len(queued)
        BY <4>1
      <4> QED
        BY <4>1, <4>2 DEF Request
    <3>2. 0 <= Request.length /\ Request.length \in Nat
      BY <3>1, Constants
    <3>3. UpTo(Len(queued) - 1) \in Seq(OutBytes)
          /\ UpTo(Len(queued)) = UpTo(Len(queued) - 1) \o Whole(Request)
      BY <2>2, <3>2, UpToLast
    <3>4. Whole(Request) \in Seq(OutBytes)
      BY <3>1, <3>2, PartType
    <3> QED
      BY <3>3, <3>4
  <2> QED
    BY <2>1, <2>2
<1> QED
  BY <1>1 DEF IsPrefix

\* Nothing has been written at the start.
LEMMA WriterInit ==
  Init => WriterInv
<1> SUFFICES ASSUME Init PROVE WriterInv
  OBVIOUS
<1>1. queued = <<>> /\ out = <<>> /\ done = 0 /\ tmp = 0 /\ pc = "poll" /\ Len(queued) = 0
  BY DEF Init
<1>2. UpTo(0) = <<>>
  <2>1. [i \in 1 .. 0 |-> Whole(queued[i])] = <<>> /\ <<>> \in Seq(OutBytes)
    OBVIOUS
  <2> QED
    BY <2>1, FlatFew DEF UpTo
<1>3. queued \in Seq(Requests)
  BY <1>1
<1> QED
  BY <1>1, <1>2, <1>3, Constants DEF WriterInv

\* A step that leaves the writing alone, and does not begin to write.
LEMMA WriterSame ==
  ASSUME WriterInv, UNCHANGED writing,
         pc' = pc \/ (pc \notin {"send", "body", "failed"} /\ pc' \notin {"send", "body"})
  PROVE  WriterInv'
<1>1. UNCHANGED <<queued, done, tmp, out>>
  BY DEF writing
<1>2. \A n : UpTo(n)' = UpTo(n)
  BY <1>1 DEF UpTo
<1>3. Request' = Request
  BY <1>1 DEF Request
<1>4. CASE pc' = pc
  BY <1>1, <1>2, <1>3, <1>4 DEF WriterInv
<1>5. CASE pc \notin {"send", "body", "failed"} /\ pc' \notin {"send", "body"}
  <2>1. /\ queued \in Seq(Requests) /\ Len(queued) <= MaxRequests
        /\ tmp \in Nat /\ done \in 0 .. Len(queued)
        /\ done = Len(queued) /\ out = UpTo(done)
    BY <1>5 DEF WriterInv
  <2>2. IsPrefix(UpTo(Len(queued)), UpTo(Len(queued)))
    BY <2>1, PrefixSelf
  <2> QED
    BY <1>1, <1>2, <1>3, <1>5, <2>1, <2>2 DEF WriterInv
<1> QED
  BY <1>4, <1>5

\* A request is taken.
LEMMA WriterTakes ==
  ASSUME WriterInv, NEW r \in Requests, TakeRequest(r)
  PROVE  WriterInv'
<1>1. /\ pc = "queue" /\ pc' = "send" /\ Len(queued) < MaxRequests
      /\ queued' = Append(queued, r) /\ UNCHANGED <<done, tmp, out>>
  BY DEF TakeRequest
<1>2. /\ queued \in Seq(Requests) /\ tmp \in Nat /\ done = Len(queued) /\ out = UpTo(done)
  BY <1>1 DEF WriterInv
<1>3. /\ queued' \in Seq(Requests) /\ Len(queued') = Len(queued) + 1 /\ Len(queued) \in Nat
      /\ queued' # <<>>
  BY <1>1, <1>2
<1>4. UpTo(done)' = UpTo(done)
  <2>1. \A i \in 1 .. done : queued'[i] = queued[i]
    BY <1>1, <1>2
  <2>2. [i \in 1 .. done |-> Whole(queued'[i])] = [i \in 1 .. done |-> Whole(queued[i])]
    BY <2>1
  <2> QED
    BY <1>1, <2>2 DEF UpTo, Whole, RequestHead, Byte
<1>5. Len(queued') <= MaxRequests
  BY <1>1, <1>3, Constants
<1> QED
  BY <1>1, <1>2, <1>3, <1>4, <1>5 DEF WriterInv

\* The head, a block or the end of a request, or a failure.
LEMMA WriterWrites ==
  ASSUME WriterInv, SendHead \/ SendBlock \/ SendDone \/ SendFails
  PROVE  WriterInv'
<1>1. pc \in {"send", "body"} /\ UNCHANGED queued
  BY DEF SendHead, SendBlock, SendDone, SendFails, writing
<1>2. /\ queued \in Seq(Requests) /\ Len(queued) <= MaxRequests /\ queued # <<>>
      /\ tmp \in Nat /\ done = Len(queued) - 1
  BY <1>1 DEF WriterInv
<1>3. (\A n : UpTo(n)' = UpTo(n)) /\ Request' = Request
  BY <1>1 DEF UpTo, Request
<1>4. Len(queued) \in Nat \ {0} /\ done \in Nat /\ done + 1 = Len(queued)
  BY <1>2
<1>5. Request \in Requests
  <2>1. Len(queued) \in 1 .. Len(queued)
    BY <1>4
  <2> QED
    BY <1>2, <2>1 DEF Request
<1>6. Request.length \in Nat
  BY <1>5, Constants
<1>7. UpTo(Len(queued)) = UpTo(done) \o Whole(Request)
      /\ IsPrefix(UpTo(done), UpTo(Len(queued))) /\ UpTo(done) \in Seq(OutBytes)
  BY <1>2, <1>6, UpToLast
<1>8. ASSUME NEW n \in Nat, n <= Request.length
      PROVE  LET o == UpTo(done) \o Part(Request, n)
             IN  IsPrefix(UpTo(done), o) /\ IsPrefix(o, UpTo(Len(queued)))
  BY <1>2, <1>8, UpToLast
<1>9. CASE SendHead
  <2>1. /\ pc = "send" /\ pc' = "body" /\ tmp' = Request.length /\ UNCHANGED done
        /\ out' = Append(out, RequestHead(Request))
    BY <1>9 DEF SendHead
  <2>2. out = UpTo(done)
    BY <2>1 DEF WriterInv
  <2>3. Part(Request, 0) = <<RequestHead(Request)>> /\ Part(Request, 0) \in Seq(OutBytes)
    BY <1>5, PartType
  <2>4. Append(out, RequestHead(Request)) = UpTo(done) \o Part(Request, 0)
    <3> DEFINE u == UpTo(done)
               h == RequestHead(Request)
    <3>1. u \in Seq(OutBytes) /\ h \in OutBytes
      BY <1>6, <1>7 DEF RequestHead, OutBytes
    <3> HIDE DEF u, h, OutBytes
    <3>2. Append(u, h) = u \o <<h>>
      BY <3>1, ConcatAppend
    <3> QED
      BY <2>2, <2>3, <3>2 DEF u, h
  <2>5. Request.length - tmp' = 0 /\ tmp' \in Nat
    BY <1>6, <2>1
  <2> QED
    BY <1>1, <1>2, <1>3, <1>4, <2>1, <2>4, <2>5, SMTT(30) DEF WriterInv
<1>10. CASE SendBlock
  <2>1. pc = "body" /\ tmp > 0 /\ UNCHANGED done
    BY <1>10 DEF SendBlock
  <2>2. /\ tmp <= Request.length
        /\ out = UpTo(done) \o Part(Request, Request.length - tmp)
    BY <2>1 DEF WriterInv
  <2> DEFINE n == Request.length - tmp
             k == Block(tmp)
  <2>3. n \in Nat /\ n <= Request.length /\ n = Position
    BY <1>2, <1>6, <2>2 DEF Position
  <2>4. k \in Nat /\ k <= tmp
    BY <1>2, Constants DEF Block
  <2>5. CASE ShortStream
    <3>1. pc' = "failed" /\ UNCHANGED <<out, tmp>>
      BY <1>10, <2>5 DEF SendBlock
    <3>2. IsPrefix(UpTo(done), out) /\ IsPrefix(out, UpTo(Len(queued)))
      <4> HIDE DEF n
      <4>1. out = UpTo(done) \o Part(Request, n)
        BY <2>2 DEF n
      <4> QED
        BY <1>8, <2>3, <4>1
    <3> QED
      BY <1>1, <1>2, <1>3, <1>4, <2>1, <3>1, <3>2 DEF WriterInv
  <2>6. CASE ~ShortStream
    <3>1. /\ pc' = "body" /\ tmp' = tmp - k
          /\ out' = out \o [i \in 1 .. k |-> Byte(n + i)]
      BY <1>10, <2>1, <2>3, <2>6 DEF SendBlock
    <3>2. Request.length - tmp' = n + k /\ tmp' \in Nat /\ tmp' <= Request.length
      BY <1>2, <1>6, <2>2, <2>4, <3>1, SMTT(30)
    <3> DEFINE e == [i \in 1 .. k |-> Byte(n + i)]
               q == Part(Request, n)
               u == UpTo(done)
    <3>3. q \o e = Part(Request, n + k)
      <4> HIDE DEF n, k
      <4> QED
        BY <1>5, <2>3, <2>4, PartMore
    <3>4. q \in Seq(OutBytes) /\ u \in Seq(OutBytes) /\ e \in Seq(OutBytes)
      <4>1. q \in Seq(OutBytes)
        <5> HIDE DEF n
        <5> QED
          BY <1>5, <2>3, PartType
      <4>2. \A i \in 1 .. k : Byte(n + i) \in OutBytes
        <5> HIDE DEF n, k
        <5> QED
          BY <2>3, <2>4 DEF Byte, OutBytes
      <4>3. e \in [1 .. k -> OutBytes]
        BY <4>2
      <4> HIDE DEF k, e
      <4>4. e \in Seq(OutBytes)
        BY <2>4, <4>3
      <4> QED
        BY <1>7, <4>1, <4>4
    <3>5. out' = (u \o q) \o e
      BY <2>2, <3>1
    <3> HIDE DEF e, q, u
    <3>6. (u \o q) \o e = u \o (q \o e)
      <4>1. SequenceLaws(OutBytes)
        BY SequenceLawsHold
      <4>2. \A x, y, w \in Seq(OutBytes) : (x \o y) \o w = x \o (y \o w)
        BY <4>1, Zenon DEF SequenceLaws
      <4> QED
        BY <3>4, <4>2, Zenon
    <3>7. out' = UpTo(done) \o Part(Request, Request.length - tmp')
      BY <3>2, <3>3, <3>5, <3>6 DEF u
    <3> QED
      BY <1>1, <1>2, <1>3, <1>4, <2>1, <3>1, <3>2, <3>7 DEF WriterInv
  <2> QED
    BY <2>5, <2>6
<1>11. CASE SendDone
  <2>1. pc = "body" /\ tmp = 0 /\ done' = done + 1 /\ pc' = "poll" /\ UNCHANGED <<tmp, out>>
    BY <1>11 DEF SendDone
  <2>2. out = UpTo(done) \o Part(Request, Request.length - tmp)
    BY <2>1 DEF WriterInv
  <2>3. Request.length - tmp = Request.length
    BY <1>6, <2>1
  <2>4. Whole(Request) = Part(Request, Request.length)
    BY <1>5, <1>6, PartType
  <2>5. out = UpTo(Len(queued))
    BY <1>7, <2>2, <2>3, <2>4
  <2> QED
    BY <1>1, <1>2, <1>3, <1>4, <2>1, <2>5 DEF WriterInv
<1>12. CASE SendFails
  <2>1. pc' = "failed" /\ UNCHANGED <<done, tmp, out>>
    BY <1>12 DEF SendFails, writing
  <2>2. IsPrefix(UpTo(done), out) /\ IsPrefix(out, UpTo(Len(queued)))
    <3>1. CASE pc = "send"
      <4>1. out = UpTo(done) /\ IsPrefix(UpTo(done), UpTo(done))
        BY <1>7, <3>1 DEF WriterInv, IsPrefix
      <4> QED
        BY <1>7, <4>1
    <3>2. CASE pc = "body"
      <4>1. tmp <= Request.length /\ out = UpTo(done) \o Part(Request, Request.length - tmp)
        BY <3>2 DEF WriterInv
      <4> DEFINE n == Request.length - tmp
      <4>2. n \in Nat /\ n <= Request.length
        BY <1>2, <1>6, <4>1
      <4>3. out = UpTo(done) \o Part(Request, n)
        BY <4>1
      <4> HIDE DEF n
      <4> QED
        BY <1>8, <4>2, <4>3
    <3> QED
      BY <1>1, <3>1, <3>2
  <2> QED
    BY <1>1, <1>2, <1>3, <1>4, <2>1, <2>2 DEF WriterInv
<1> QED
  BY <1>9, <1>10, <1>11, <1>12

\* Every step keeps it.
LEMMA WriterStep ==
  ReaderInv /\ WriterInv /\ [Next]_vars => WriterInv'
<1> SUFFICES ASSUME ReaderInv, WriterInv, [Next]_vars PROVE WriterInv'
  OBVIOUS
<1>1. ASSUME NEW m \in Messages, NodeSends(m) PROVE WriterInv'
  BY <1>1, WriterSame DEF NodeSends
<1>2. CASE Arrive \/ Close \/ ReadSome
  BY <1>2, WriterSame DEF Arrive, Close, ReadSome
<1>3. CASE \/ Poll \/ ReadFails \/ ReadHeader \/ ReadField \/ Dispatch \/ CopyNext \/ CopyBlock
           \/ NoRequest
  <2>1. UNCHANGED writing /\ pc \notin {"send", "body", "failed"} /\ pc' \notin {"send", "body"}
    BY <1>3 DEF Poll, ReadFails, ReadHeader, ReadField, Dispatch, CopyNext, CopyBlock, NoRequest,
         Missing, InReadln
  <2> QED
    BY <2>1, WriterSame
<1>4. ASSUME NEW r \in Requests, TakeRequest(r) PROVE WriterInv'
  BY <1>4, WriterTakes
<1>5. CASE SendHead \/ SendBlock \/ SendDone \/ SendFails
  BY <1>5, WriterWrites
<1>6. CASE UNCHANGED vars
  BY <1>6, WriterSame DEF vars
<1> QED
  BY <1>1, <1>2, <1>3, <1>4, <1>5, <1>6 DEF Next, Manager

-----------------------------------------------------------------------------
(* Theorems.                                                                *)

\* The inductive invariant holds at the start.
LEMMA StreamIInvInit ==
  Init => StreamIInv
<1>1. Init => FailsForCause
  BY DEF Init, FailsForCause
<1> QED
  BY <1>1, ReaderInit, StreamInit, WriterInit DEF StreamIInv

\* Every step keeps it.
LEMMA StreamIInvStep ==
  StreamIInv /\ [Next]_vars => StreamIInv'
BY ReaderStep, StreamStep, WriterStep, CauseStep DEF StreamIInv

\* It always holds: what is ahead of the reader is what was sent and has not
\* been received, byte for byte, and what was written are the requests, the
\* last one perhaps in part.
THEOREM StreamInvariant == Spec => []StreamIInv
<1>1. Init => StreamIInv
  BY StreamIInvInit
<1>2. StreamIInv /\ [Next]_vars => StreamIInv'
  BY StreamIInvStep
<1> QED
  BY <1>1, <1>2, PTL DEF Spec

\* Every variable of the connection has its type, and Server::read is never
\* asked for more than a block, nor for more than is left of the body.
THEOREM StreamTypeCorrect == Spec => []TypeOK
<1>1. StreamIInv => TypeOK
  <2> SUFFICES ASSUME StreamIInv PROVE TypeOK
    OBVIOUS
  <2>1. sent \in Seq(Messages) /\ Len(sent) <= MaxMessages
    BY DEF StreamIInv, ReaderInv, SentInv
  <2>2. /\ {closed, derailed} \subseteq BOOLEAN
        /\ pc \in {"poll", "header", "field", "dispatch", "copy", "block", "queue",
                   "send", "body", "failed"}
    BY DEF StreamIInv, ReaderInv, PlaceInv
  <2>3. message.h \in Headers \cup {""}
    BY DEF StreamIInv, ReaderInv, MessageInv
  <2>4. /\ bytesToRead \in Nat /\ want \in 0 .. BlockSize
        /\ pc = "block" => want \in 1 .. bytesToRead
    <3>1. CountInv
      BY DEF StreamIInv, ReaderInv
    <3> QED
      BY <3>1, Constants DEF CountInv
  <2>5. /\ queued \in Seq(Requests) /\ Len(queued) <= MaxRequests
        /\ done \in 0 .. Len(queued) /\ tmp \in Nat
    BY DEF StreamIInv, WriterInv
  <2> QED
    BY <2>1, <2>2, <2>3, <2>4, <2>5 DEF TypeOK
<1> QED
  BY <1>1, StreamInvariant, PTL

\* Reading never fails by itself: when the manager has ended, the connection
\* was closed, or a header unknown to the factory came, or a data stream was
\* too short, or a body was left unread.
THEOREM FailuresHaveCauses == Spec => []FailsForCause
<1>1. StreamIInv => FailsForCause
  BY DEF StreamIInv
<1> QED
  BY <1>1, StreamInvariant, PTL

\* DataMessage::toSocket writes whole messages, and counts one as sent only
\* when all of its body has been written.
THEOREM WritesWholeMessages == Spec => []WholeMessages
<1>1. StreamIInv => WholeMessages
  <2> SUFFICES ASSUME StreamIInv PROVE WholeMessages
    OBVIOUS
  <2>1. WriterInv /\ PlaceInv
    BY DEF StreamIInv, ReaderInv
  <2>2. queued \in Seq(Requests) /\ done \in 0 .. Len(queued) /\ tmp \in Nat
    BY <2>1 DEF WriterInv
  <2>3. pc \notin {"send", "body", "failed"} => out = UpTo(Len(queued)) /\ done = Len(queued)
    BY <2>1 DEF WriterInv
  <2>4. IsPrefix(UpTo(done), out) /\ IsPrefix(out, UpTo(Len(queued)))
    <3>1. CASE pc \notin {"send", "body", "failed"}
      BY <2>2, <2>3, <3>1, PrefixSelf
    <3>2. CASE pc \in {"send", "body"}
      <4>1. queued # <<>> /\ done = Len(queued) - 1
        BY <2>1, <3>2 DEF WriterInv
      <4>2. Request \in Requests
        <5>1. Len(queued) \in Nat \ {0}
          BY <2>2, <4>1
        <5>2. Len(queued) \in 1 .. Len(queued)
          BY <5>1
        <5> QED
          BY <2>2, <5>2 DEF Request
      <4>3. Request.length \in Nat /\ 0 <= Request.length
        BY <4>2, Constants
      <4>4. CASE pc = "send"
        <5>1. out = UpTo(done)
          BY <2>1, <4>4 DEF WriterInv
        <5>2. IsPrefix(UpTo(done), UpTo(Len(queued))) /\ UpTo(done) \in Seq(OutBytes)
          BY <2>2, <4>1, <4>3, UpToLast
        <5>3. IsPrefix(UpTo(done), UpTo(done))
          BY <5>2 DEF IsPrefix
        <5> QED
          BY <5>1, <5>2, <5>3
      <4>5. CASE pc = "body"
        <5> DEFINE n == Request.length - tmp
        <5>1. tmp <= Request.length /\ out = UpTo(done) \o Part(Request, n)
          BY <2>1, <4>5 DEF WriterInv
        <5>2. n \in Nat /\ n <= Request.length
          BY <2>2, <4>3, <5>1
        <5> HIDE DEF n
        <5> QED
          BY <2>2, <4>1, <5>1, <5>2, UpToLast
      <4> QED
        BY <3>2, <4>4, <4>5
    <3>3. CASE pc = "failed"
      BY <2>1, <3>3 DEF WriterInv
    <3> QED
      BY <3>1, <3>2, <3>3
  <2> QED
    BY <2>3, <2>4 DEF WholeMessages, UpTo
<1> QED
  BY <1>1, StreamInvariant, PTL

\* Six sequences of bytes.
SixOf(a, b, c, d, e, z) ==
  /\ a \in Seq(Bytes) /\ b \in Seq(Bytes) /\ c \in Seq(Bytes)
  /\ d \in Seq(Bytes) /\ e \in Seq(Bytes) /\ z \in Seq(Bytes)

\* They are the same put together from either side.
SixAgree(a, b, c, d, e, z) ==
  (a \o b \o c \o d \o e) \o z = a \o (b \o (c \o (d \o (e \o z))))

\* Six sequences, put together from either side.
LEMMA AssocSix ==
  ASSUME NEW a, NEW b, NEW c, NEW d, NEW e, NEW z, SixOf(a, b, c, d, e, z)
  PROVE  a \o b \o c \o d \o e \in Seq(Bytes) /\ SixAgree(a, b, c, d, e, z)
<1>1. /\ a \in Seq(Bytes) /\ b \in Seq(Bytes) /\ c \in Seq(Bytes)
      /\ d \in Seq(Bytes) /\ e \in Seq(Bytes) /\ z \in Seq(Bytes)
  BY DEF SixOf
<1> DEFINE ab == a \o b
           abc == ab \o c
           abcd == abc \o d
           ez == e \o z
           dez == d \o ez
           cdez == c \o dez
<1>2. ab \in Seq(Bytes)
  BY <1>1, ByteConcat
<1>3. ez \in Seq(Bytes)
  BY <1>1, ByteConcat
<1> HIDE DEF ab, ez
<1>4. abc \in Seq(Bytes)
  BY <1>1, <1>2, ByteConcat
<1>5. dez \in Seq(Bytes)
  BY <1>1, <1>3, ByteConcat
<1> HIDE DEF abc, dez
<1>6. abcd \in Seq(Bytes)
  BY <1>1, <1>4, ByteConcat
<1>7. cdez \in Seq(Bytes)
  BY <1>1, <1>5, ByteConcat
<1> HIDE DEF abcd, cdez
<1>8. abcd \o e \in Seq(Bytes)
  BY <1>1, <1>6, ByteConcat
<1>9. (abcd \o e) \o z = abcd \o (e \o z)
  <2>1. e \in Seq(Bytes) /\ z \in Seq(Bytes)
    BY <1>1
  <2> QED
    BY <1>6, <2>1, ByteAssoc, ZenonT(30)
<1>10. (abc \o d) \o ez = abc \o (d \o ez)
  <2>1. d \in Seq(Bytes)
    BY <1>1
  <2> QED
    BY <1>3, <1>4, <2>1, ByteAssoc, ZenonT(30)
<1>11. (ab \o c) \o dez = ab \o (c \o dez)
  <2>1. c \in Seq(Bytes)
    BY <1>1
  <2> QED
    BY <1>2, <1>5, <2>1, ByteAssoc, ZenonT(30)
<1>12. (a \o b) \o cdez = a \o (b \o cdez)
  <2>1. a \in Seq(Bytes) /\ b \in Seq(Bytes)
    BY <1>1
  <2> QED
    BY <1>7, <2>1, ByteAssoc, ZenonT(30)
<1> QED
  BY <1>8, <1>9, <1>10, <1>11, <1>12 DEF SixAgree, ab, abc, abcd, ez, dez, cdez

\* What has been taken of a message and what is ahead are the messages that
\* were sent and not received.
LEMMA TakenAndAhead ==
  ASSUME ReaderInv, pc # "failed", NEW todo, NEW fs, NEW ds, NEW z, Reads(todo, fs, ds, z)
  PROVE  Taken \in Seq(Bytes) /\ Taken \o Ahead(z) = Written(todo)
<1>1. /\ todo \in Seq(Messages) /\ fs \in Seq(FieldSet) /\ ds \in Seq(Bytes)
      /\ Ahead(z) = Rest(todo, fs, ds) /\ message \in MessageSet
      /\ Inside => Begun(todo, fs, ds)
  BY DEF Reads, ReaderInv, MessageInv
<1>2. CASE ~Inside
  <2>1. Taken = <<>> /\ Ahead(z) = Written(todo)
    BY <1>1, <1>2 DEF Taken, Inside, Rest
  <2> QED
    BY <1>1, <2>1, TodoTypes, ByteEmpty
<1>3. CASE Inside
  <2> DEFINE hd == Head(todo)
             w == Written(Tail(todo))
             a == Line(Text(message.h))
             mf == message.fields
             last == Line(Terminator(message.h))
             md == message.data
             dw == ds \o w
             end == last \o dw
  <2>1. /\ todo # <<>> /\ message.h = hd.h /\ mf \o fs = hd.fields /\ md \o ds = hd.data
    BY <1>1, <1>3 DEF Begun
  <2>2. /\ hd \in MessageSet /\ w \in Seq(Bytes) /\ Written(todo) = Encode(hd) \o w
    BY <1>1, <2>1, TodoHead, TodoTypes, MessageTypes
  <2>3. Written(todo) = a \o (Lines(hd.fields) \o (last \o (hd.data \o w)))
    BY <2>1, <2>2, EncodeThen
  <2>4. message.h \in Texts /\ mf \in Seq(Bytes) /\ md \in Seq(Bytes) /\ fs \in Seq(Bytes)
    BY <1>1, SeqSub, ByteTypes, EncodeType
  <2>5. a \in Seq(Bytes) /\ last \in Seq(Bytes) /\ dw \in Seq(Bytes)
    BY <1>1, <2>2, <2>4, ByteTypes, ByteConcat
  <2>6. CASE pc = "field"
    <3> DEFINE f1 == Lines(mf)
               f2 == Lines(fs)
    <3>1. Taken = a \o f1 /\ Ahead(z) = f2 \o end
      BY <1>1, <2>6 DEF Taken, Rest
    <3>2. Lines(hd.fields) = f1 \o f2 /\ f1 \in Seq(Bytes) /\ f2 \in Seq(Bytes)
      <4> HIDE DEF mf
      <4>1. NL \in Bytes
        BY ByteTypes
      <4>2. Lines(mf \o fs) = Lines(mf) \o Lines(fs)
        BY <2>4, <4>1, LinesConcat
      <4>3. Lines(mf) \in Seq(Bytes) /\ Lines(fs) \in Seq(Bytes)
        BY <2>4, <4>1, LinesConcat
      <4> QED
        BY <2>1, <4>2, <4>3
    <3>3. hd.data = ds
      <4>1. md = <<>>
        BY <1>1, <1>3, <2>6 DEF Begun
      <4>2. <<>> \o ds = ds
        BY <1>1, ByteEmpty
      <4> QED
        BY <2>1, <4>1, <4>2
    <3> HIDE DEF a, f1, f2, last, dw
    <3>4. end \in Seq(Bytes)
      BY <2>5, ByteConcat
    <3>5. Written(todo) = a \o ((f1 \o f2) \o end)
      BY <2>3, <3>2, <3>3 DEF dw
    <3> HIDE DEF end
    <3>6. (f1 \o f2) \o end = f1 \o (f2 \o end)
      BY <3>2, <3>4, ByteAssoc, ZenonT(30)
    <3> DEFINE r == f2 \o end
    <3>7. r \in Seq(Bytes)
      BY <3>2, <3>4, ByteConcat
    <3> HIDE DEF r
    <3>8. (a \o f1) \o r = a \o (f1 \o r)
      BY <2>5, <3>2, <3>7, ByteAssoc, ZenonT(30)
    <3>9. a \o f1 \in Seq(Bytes)
      BY <2>5, <3>2, ByteConcat
    <3> QED
      BY <3>1, <3>5, <3>6, <3>8, <3>9 DEF r
  <2>7. CASE pc # "field"
    <3>1. Taken = Encode(message) /\ Ahead(z) = dw /\ fs = <<>>
      BY <1>1, <1>3, <2>7 DEF Taken, Rest, Inside, Begun
    <3>2. Encode(message) \o dw = a \o (Lines(mf) \o (last \o (md \o dw)))
          /\ Encode(message) \in Seq(Bytes)
      <4> HIDE DEF dw
      <4> QED
        BY <1>1, <2>5, EncodeThen, EncodeType
    <3>3. mf = hd.fields
      BY <2>1, <2>4, <3>1, ByteEmpty
    <3>4. md \o dw = hd.data \o w
      <4> HIDE DEF md, w
      <4>1. (md \o ds) \o w = md \o (ds \o w)
        BY <1>1, <2>2, <2>4, ByteAssoc, ZenonT(30)
      <4> QED
        BY <2>1, <4>1
    <3> QED
      BY <2>3, <3>1, <3>2, <3>3, <3>4
  <2> QED
    BY <2>6, <2>7
<1> QED
  BY <1>2, <1>3

\* Nothing is lost, repeated or reordered between the bytes of the socket and
\* the messages, however the network cuts the stream and however far readln
\* and read have filled the buffer.
THEOREM BytesAreConserved == Spec => []BytesConserved
<1>1. StreamIInv => BytesConserved
  <2> SUFFICES ASSUME StreamIInv, ~derailed, pc # "failed"
      PROVE  LET written == FlattenSeq([i \in DOMAIN sent |-> Encode(sent[i])])
                 known == FlattenSeq([i \in DOMAIN received |-> Encode(received[i])])
                          \o Taken \o response \o available \o wire
             IN  IF closed THEN IsPrefix(known, written) ELSE known = written
    BY DEF BytesConserved
  <2> DEFINE known == Written(received) \o Taken \o response \o available \o wire
  <2>1. ReaderInv /\ StreamInv
    BY DEF StreamIInv
  <2>2. PICK todo, fs, ds, z : Reads(todo, fs, ds, z)
    BY <2>1 DEF StreamInv
  <2>3. /\ todo \in Seq(MessageSet) /\ sent = received \o todo
        /\ z \in Seq(Bytes) /\ (closed \/ z = <<>>) /\ received \in Seq(MessageSet)
    BY <2>1, <2>2, TodoTypes DEF Reads, ReaderInv, MessageInv
  <2>4. Written(sent) = Written(received) \o Written(todo) /\ Written(received) \in Seq(Bytes)
    BY <2>3, NoMessageType, WrittenConcat
  <2>5. Taken \in Seq(Bytes) /\ Taken \o Ahead(z) = Written(todo)
    BY <2>1, <2>2, TakenAndAhead
  <2>6. response \in Seq(Bytes) /\ available \in Seq(Bytes) /\ wire \in Seq(Bytes)
    BY <2>1 DEF ReaderInv, BufferInv
  <2>7. known \in Seq(Bytes)
    BY <2>3, <2>4, <2>5, <2>6, AssocSix DEF SixOf
  <2>8. known \o z = Written(received) \o (Taken \o Ahead(z))
    <3> DEFINE r == Written(received)
               t == Taken
    <3>1. r \in Seq(Bytes) /\ t \in Seq(Bytes)
      BY <2>4, <2>5
    <3> HIDE DEF r, t
    <3>2. (r \o t \o response \o available \o wire) \o z
          = r \o (t \o (response \o (available \o (wire \o z))))
      <4>1. SixOf(r, t, response, available, wire, z)
        BY <2>3, <2>6, <3>1 DEF SixOf
      <4>2. SixAgree(r, t, response, available, wire, z)
        BY <4>1, AssocSix
      <4> QED
        BY <4>2, Zenon DEF SixAgree
    <3> QED
      BY <3>2 DEF Ahead, r, t
  <2>9. known \o z = Written(sent)
    BY <2>4, <2>5, <2>8
  <2> HIDE DEF known
  <2>10. IF closed THEN IsPrefix(known, Written(sent)) ELSE known = Written(sent)
    <3>1. IsPrefix(known, known \o z)
      BY <2>3, <2>7, ConcatPrefix
    <3>2. z = <<>> => known \o z = known
      BY <2>7, ByteEmpty
    <3> QED
      BY <2>3, <2>9, <3>1, <3>2
  <2> QED
    BY <2>10 DEF Written, known
<1> QED
  BY <1>1, StreamInvariant, PTL

\* A message handed to doMessage is the next one that was sent.
LEMMA ReceivesNext ==
  ASSUME ReaderInv, StreamInv, ~derailed, Dispatch \/ CopyNext, received' # received
  PROVE  S!Receive
<1>1. /\ received' = Append(received, message) /\ pc' = "queue"
      /\ UNCHANGED <<sent, closed, wire, available, response>>
      /\ \/ pc = "dispatch" /\ message.h # "AllData"
         \/ pc = "copy" /\ ~ (bytesToRead > 0)
  BY DEF Dispatch, CopyNext, inbound
<1>2. PICK todo, fs, ds, z : Reads(todo, fs, ds, z)
  BY <1>1 DEF StreamInv
<1>3. ds = <<>>
  BY <1>1, <1>2, BodyIsRead
<1>4. todo # <<>> /\ message = Head(todo)
  BY <1>1, <1>2, <1>3, ReceiveWhole DEF Inside
<1>5. todo \in Seq(MessageSet) /\ received \in Seq(MessageSet) /\ sent = received \o todo
  BY <1>2, TodoTypes DEF Reads, ReaderInv, MessageInv
<1>6. Len(received) < Len(sent) /\ sent[Len(received) + 1] = message
  <2>1. Len(todo) \in Nat \ {0} /\ todo[1] = message /\ Len(received) \in Nat
    BY <1>4, <1>5
  <2>2. 1 \in 1 .. Len(todo) /\ Len(sent) = Len(received) + Len(todo)
    BY <1>5, <2>1
  <2>3. sent[Len(received) + 1] = todo[1]
    BY <1>5, <2>2, Concat
  <2> QED
    BY <2>1, <2>2, <2>3
<1> QED
  BY <1>1, <1>6 DEF S!Receive

\* The stream of bytes implements the stream of messages, up to the first body
\* that nobody claims: every message that the manager acts on is the next one
\* that the node has sent, whole and as it was sent.
THEOREM StreamImplements == Spec => MessagesAreWhole
<1>1. Init => S!Init
  BY DEF Init, S!Init
<1>2. StreamIInv /\ [Next]_vars => [derailed' \/ S!Next]_(S!vars)
  <2> SUFFICES ASSUME StreamIInv, [Next]_vars, ~derailed'
               PROVE  S!Next \/ UNCHANGED <<sent, received>>
    BY DEF S!vars
  <2>1. ReaderInv /\ StreamInv
    BY DEF StreamIInv
  <2>2. ASSUME NEW m \in Messages, NodeSends(m) PROVE S!Next
    BY <2>2 DEF NodeSends, reading, S!Next, S!Send
  <2>3. CASE Dispatch \/ CopyNext
    <3>1. ~derailed /\ UNCHANGED sent
      BY <2>3 DEF Dispatch, CopyNext, inbound
    <3>2. CASE received' = received
      BY <3>1, <3>2
    <3>3. CASE received' # received
      BY <2>1, <2>3, <3>1, <3>3, ReceivesNext DEF S!Next
    <3> QED
      BY <3>2, <3>3
  <2>4. CASE Arrive \/ Close
    BY <2>4 DEF Arrive, Close, reading
  <2>5. CASE Poll \/ ReadSome \/ ReadFails \/ ReadHeader \/ ReadField \/ CopyBlock
    BY <2>5 DEF Poll, ReadSome, ReadFails, ReadHeader, ReadField, CopyBlock, inbound, reading
  <2>6. CASE \/ NoRequest \/ (\E r \in Requests : TakeRequest(r))
             \/ SendHead \/ SendBlock \/ SendDone \/ SendFails \/ UNCHANGED vars
    BY <2>6, WritingSteps
  <2> QED
    BY <2>2, <2>3, <2>4, <2>5, <2>6 DEF Next, Manager
<1> QED
  BY <1>1, <1>2, StreamInvariant, PTL DEF Spec, MessagesAreWhole

===============================================================================

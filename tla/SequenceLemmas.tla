--------------------------- MODULE SequenceLemmas ---------------------------
(***************************************************************************)
(* Facts about the sequences of the models that their proofs share: a set  *)
(* of numbers has a least element, from which the rest follows by looking  *)
(* at the first index where a fact would fail; what FlattenSeq makes of a  *)
(* sequence of sequences; and sequences whose elements grow.               *)
(***************************************************************************)
EXTENDS SequencesExt, SequenceTheorems, WellFoundedInduction, TLAPS

-----------------------------------------------------------------------------
(* Induction.                                                               *)

Less == {p \in Nat \X Nat : p[1] < p[2]}

LEMMA Least ==
  ASSUME NEW T \in SUBSET Nat, T # {}
  PROVE  \E n \in T : \A k \in T : n <= k
<1>1. IsWellFoundedOn(Less, Nat)
  BY NatLessThanWellFounded DEF OpToRel, Less
<1>2. PICK x \in T : \A y \in T : ~ (<<y, x>> \in Less)
  BY <1>1, WFMin
<1>3. \A y \in T : ~ (y < x)
  BY <1>2 DEF Less
<1> QED
  BY <1>3

-----------------------------------------------------------------------------
(* FlattenSeq.                                                              *)

\* f is the function by which FlattenSeq is defined, for the first n elements of s.
Flattens(f, s, n) ==
  f = [i \in 1 .. n |-> IF i = 1 THEN s[i] ELSE f[i - 1] \o s[i]]

LEMMA FlattensExists ==
  ASSUME NEW s, NEW n \in Nat
  PROVE  \E f : Flattens(f, s, n)
<1> DEFINE T == {k \in Nat : ~ \E f : Flattens(f, s, k)}
<1> SUFFICES ASSUME T # {} PROVE FALSE
  OBVIOUS
<1>1. PICK k \in T : \A j \in T : k <= j
  <2> HIDE DEF T
  <2>1. T \in SUBSET Nat
    BY DEF T
  <2> QED
    BY <2>1, Least
<1>2. CASE k = 0
  <2> DEFINE f == [i \in 1 .. 0 |-> <<>>]
  <2>1. Flattens(f, s, 0)
    BY DEF Flattens
  <2> QED
    BY <1>1, <1>2, <2>1
<1>3. CASE k # 0
  <2>1. k - 1 \in Nat /\ k - 1 \notin T
    BY <1>1, <1>3
  <2>2. PICK f : Flattens(f, s, k - 1)
    BY <2>1
  <2> DEFINE x == IF k = 1 THEN s[k] ELSE f[k - 1] \o s[k]
             g == [i \in 1 .. k |-> IF i = k THEN x ELSE f[i]]
  <2>3. k \in Nat \ {0}
    BY <1>1, <1>3
  <2>4. \A i \in 1 .. k - 1 : f[i] = IF i = 1 THEN s[i] ELSE f[i - 1] \o s[i]
    BY <2>2, <2>3 DEF Flattens
  <2>5. ASSUME NEW i \in 1 .. k
        PROVE  g[i] = IF i = 1 THEN s[i] ELSE g[i - 1] \o s[i]
    <3>1. i # 1 => i - 1 \in 1 .. k /\ i - 1 # k
      BY <2>3
    <3>2. i # k => i \in 1 .. k - 1
      BY <2>3
    <3> HIDE DEF x
    <3>3. g[i] = (IF i = k THEN x ELSE f[i]) /\ (i # 1 => g[i - 1] = f[i - 1])
      BY <3>1
    <3> HIDE DEF g
    <3> QED
      BY <2>4, <3>2, <3>3 DEF x
  <2>6. Flattens(g, s, k)
    <3>1. g = [i \in 1 .. k |-> g[i]]
      OBVIOUS
    <3> HIDE DEF g
    <3> QED
      BY <2>5, <3>1 DEF Flattens
  <2> QED
    BY <1>1, <2>6
<1> QED
  BY <1>2, <1>3

\* f and g have the same first n elements.
Agree(f, g, n) == \A i \in 1 .. n : f[i] = g[i]

\* Two such functions agree as far as their sequences do.
LEMMA FlattensUnique ==
  ASSUME NEW s, NEW t, NEW n \in Nat, NEW m \in Nat, NEW f, NEW g,
         Flattens(f, s, n), Flattens(g, t, m), n <= m, Agree(s, t, n)
  PROVE  Agree(f, g, n)
<1> DEFINE T == {k \in Nat : k \in 1 .. n /\ f[k] # g[k]}
<1> SUFFICES ASSUME T # {} PROVE FALSE
  BY DEF Agree
<1>1. PICK k \in T : \A j \in T : k <= j
  <2> HIDE DEF T
  <2>1. T \in SUBSET Nat
    BY DEF T
  <2> QED
    BY <2>1, Least
<1>2. k \in 1 .. n /\ k \in 1 .. m /\ f[k] # g[k]
  BY <1>1
<1>3. /\ f[k] = IF k = 1 THEN s[k] ELSE f[k - 1] \o s[k]
      /\ g[k] = IF k = 1 THEN t[k] ELSE g[k - 1] \o t[k]
  BY <1>2 DEF Flattens
<1>4. k # 1 => k - 1 \in 1 .. n /\ f[k - 1] = g[k - 1]
  <2>1. k # 1 => k - 1 \in 1 .. n /\ k - 1 \in Nat /\ ~(k <= k - 1)
    BY <1>2
  <2> QED
    BY <1>1, <2>1
<1> QED
  BY <1>2, <1>3, <1>4 DEF Agree

LEMMA FlattenIs ==
  ASSUME NEW S, NEW s \in Seq(S), s # <<>>
  PROVE  \E f : Flattens(f, s, Len(s)) /\ FlattenSeq(s) = f[Len(s)]
<1> DEFINE f == CHOOSE f : Flattens(f, s, Len(s))
<1>1. Len(s) \in Nat /\ Len(s) # 0
  OBVIOUS
<1>2. Flattens(f, s, Len(s))
  BY <1>1, FlattensExists
<1>3. FlattenSeq(s) = f[Len(s)]
  BY <1>1 DEF FlattenSeq, Flattens
<1> QED
  BY <1>2, <1>3

LEMMA FlattenEmpty == FlattenSeq(<<>>) = <<>>
BY DEF FlattenSeq

LEMMA FlattenType ==
  ASSUME NEW S, NEW s \in Seq(Seq(S))
  PROVE  FlattenSeq(s) \in Seq(S)
<1>1. CASE s = <<>>
  <2>1. <<>> \in Seq(S)
    OBVIOUS
  <2> QED
    BY <1>1, <2>1, FlattenEmpty
<1>2. CASE s # <<>>
  <2>1. PICK f : Flattens(f, s, Len(s)) /\ FlattenSeq(s) = f[Len(s)]
    BY <1>2, FlattenIs
  <2> DEFINE T == {k \in Nat : k \in 1 .. Len(s) /\ f[k] \notin Seq(S)}
  <2>2. T = {}
    <3> SUFFICES ASSUME T # {} PROVE FALSE
      OBVIOUS
    <3>1. PICK k \in T : \A j \in T : k <= j
      <4> HIDE DEF T
      <4>1. T \in SUBSET Nat
        BY DEF T
      <4> QED
        BY <4>1, Least
    <3>2. k \in 1 .. Len(s) /\ f[k] \notin Seq(S)
      BY <3>1
    <3>3. f[k] = (IF k = 1 THEN s[k] ELSE f[k - 1] \o s[k]) /\ s[k] \in Seq(S)
      <4>1. s[k] \in Seq(S)
        BY <3>2
      <4> QED
        BY <2>1, <3>2, <4>1 DEF Flattens
    <3>4. k # 1 => f[k - 1] \in Seq(S)
      <4>1. k # 1 => k - 1 \in 1 .. Len(s) /\ k - 1 \in Nat /\ ~(k <= k - 1)
        BY <3>2
      <4> QED
        BY <3>1, <4>1
    <3> QED
      BY <3>2, <3>3, <3>4
  <2>3. Len(s) \in Nat /\ Len(s) \in 1 .. Len(s)
    BY <1>2
  <2> QED
    BY <2>1, <2>2, <2>3
<1> QED
  BY <1>1, <1>2

LEMMA FlattenAppend ==
  ASSUME NEW S, NEW s \in Seq(Seq(S)), NEW x \in Seq(S)
  PROVE  FlattenSeq(Append(s, x)) = FlattenSeq(s) \o x
<1> DEFINE t == Append(s, x)
           n == Len(s)
<1>1. /\ t \in Seq(Seq(S)) /\ t # <<>> /\ Len(t) = n + 1 /\ n \in Nat
      /\ t[n + 1] = x /\ \A i \in 1 .. n : s[i] = t[i]
  BY AppendProperties
<1> HIDE DEF t
<1>2. PICK g : Flattens(g, t, n + 1) /\ FlattenSeq(t) = g[n + 1]
  BY <1>1, FlattenIs
<1>3. g[n + 1] = IF n = 0 THEN x ELSE g[n] \o x
  <2>1. n + 1 \in 1 .. n + 1 /\ (n + 1) - 1 = n /\ (n + 1 = 1 <=> n = 0)
    BY <1>1
  <2> HIDE DEF n
  <2>2. g[n + 1] = IF n + 1 = 1 THEN t[n + 1] ELSE g[(n + 1) - 1] \o t[n + 1]
    BY <1>2, <2>1 DEF Flattens
  <2> QED
    BY <1>1, <2>1, <2>2
<1>4. CASE s = <<>>
  <2>1. n = 0 /\ <<>> \o x = x
    BY <1>4
  <2> QED
    BY <1>2, <1>3, <1>4, <2>1, FlattenEmpty DEF t
<1>5. CASE s # <<>>
  <2>1. PICK f : Flattens(f, s, n) /\ FlattenSeq(s) = f[n]
    BY <1>5, FlattenIs
  <2>2. n # 0 /\ n \in 1 .. n /\ n + 1 \in Nat /\ n <= n + 1
    BY <1>1, <1>5
  <2> HIDE DEF n
  <2>3. Agree(f, g, n)
    <3>1. /\ Flattens(f, s, n) /\ Flattens(g, t, n + 1) /\ n \in Nat /\ n + 1 \in Nat
          /\ n <= n + 1 /\ Agree(s, t, n)
      BY <1>1, <1>2, <2>1, <2>2 DEF Agree
    <3> QED
      BY <3>1, FlattensUnique
  <2> QED
    BY <1>2, <1>3, <2>1, <2>2, <2>3 DEF t, Agree
<1> QED
  BY <1>4, <1>5

\* f is the function for t with h before it.
Prepended(f, h, t, n) == f[1] = h /\ \A i \in 1 .. n : f[i + 1] = f[i] \o t[i]
Prepends(f, h, g, n, S) == \A i \in 1 .. n : g[i] \in Seq(S) /\ f[i + 1] = h \o g[i]
Elements(t, n, S) == \A i \in 1 .. n : t[i] \in S

\* Prepending an element to the sequence prepends it to all that the function gives.
LEMMA FlattensPrepend ==
  ASSUME NEW S, NEW h \in Seq(S), NEW n \in Nat, NEW t, NEW f, NEW g,
         Elements(t, n, Seq(S)), Prepended(f, h, t, n), Flattens(g, t, n)
  PROVE  Prepends(f, h, g, n, S)
<1> DEFINE P(k) == g[k] \in Seq(S) /\ f[k + 1] = h \o g[k]
           T == {k \in Nat : k \in 1 .. n /\ ~P(k)}
<1> SUFFICES ASSUME T # {} PROVE FALSE
  <2>1. T = {} => \A k \in 1 .. n : P(k)
    <3> HIDE DEF P
    <3> QED
      OBVIOUS
  <2> QED
    BY <2>1 DEF Prepends
<1>1. PICK k \in T : \A j \in T : k <= j
  <2> HIDE DEF T
  <2>1. T \in SUBSET Nat
    BY DEF T
  <2> QED
    BY <2>1, Least
<1>2. k \in Nat /\ k \in 1 .. n /\ ~P(k)
  BY <1>1
<1>3. \A j \in Nat : j \in 1 .. n /\ ~P(j) => k <= j
  BY <1>1
<1> HIDE DEF P, T
<1>4. f[k + 1] = f[k] \o t[k] /\ t[k] \in Seq(S) /\ f[1] = h
  BY <1>2 DEF Prepended, Elements
<1>5. g[k] = IF k = 1 THEN t[k] ELSE g[k - 1] \o t[k]
  BY <1>2 DEF Flattens
<1>6. CASE k = 1
  BY <1>2, <1>4, <1>5, <1>6 DEF P
<1>7. CASE k # 1
  <2>1. k - 1 \in 1 .. n /\ k - 1 \in Nat /\ ~(k <= k - 1) /\ (k - 1) + 1 = k
    BY <1>2, <1>7
  <2>2. g[k - 1] \in Seq(S) /\ f[k] = h \o g[k - 1]
    BY <1>3, <2>1 DEF P
  <2>3. PICK a, b : a = g[k - 1] /\ b = t[k]
    OBVIOUS
  <2>4. a \in Seq(S) /\ b \in Seq(S) /\ f[k + 1] = (h \o a) \o b /\ g[k] = a \o b
    BY <1>4, <1>5, <1>7, <2>2, <2>3
  <2>5. (h \o a) \o b = h \o (a \o b) /\ a \o b \in Seq(S)
    <3>1. a \in Seq(S) /\ b \in Seq(S)
      BY <2>4
    <3> QED
      BY <3>1, ConcatAssociative, ConcatProperties
  <2>6. g[k] \in Seq(S) /\ f[k + 1] = h \o g[k]
    <3> HIDE <2>3
    <3> QED
      BY <2>4, <2>5
  <2> QED
    BY <1>2, <2>6 DEF P
<1> QED
  BY <1>6, <1>7

LEMMA FlattenTail ==
  ASSUME NEW S, NEW s \in Seq(Seq(S)), s # <<>>
  PROVE  FlattenSeq(s) = Head(s) \o FlattenSeq(Tail(s))
<1> DEFINE t == Tail(s)
           h == Head(s)
           n == Len(t)
<1>1. /\ t \in Seq(Seq(S)) /\ n \in Nat /\ Len(s) = n + 1 /\ h \in Seq(S) /\ s[1] = h
      /\ \A i \in 1 .. n : t[i] = s[i + 1] /\ t[i] \in Seq(S)
  OBVIOUS
<1>2. PICK f : Flattens(f, s, n + 1) /\ FlattenSeq(s) = f[n + 1]
  BY <1>1, FlattenIs
<1> HIDE DEF t, h, n
<1>3. \A i \in 1 .. n + 1 : f[i] = IF i = 1 THEN s[i] ELSE f[i - 1] \o s[i]
  BY <1>2 DEF Flattens
<1>4. f[1] = h
  BY <1>1, <1>3
<1>5. CASE t = <<>>
  <2>1. n = 0 /\ h \o <<>> = h
    BY <1>1, <1>5 DEF n
  <2>2. FlattenSeq(t) = <<>> /\ f[n + 1] = h
    BY <1>4, <1>5, <2>1, FlattenEmpty
  <2> QED
    BY <1>2, <2>1, <2>2 DEF t, h
<1>6. CASE t # <<>>
  <2>1. PICK g : Flattens(g, t, n) /\ FlattenSeq(t) = g[n]
    BY <1>1, <1>6, FlattenIs DEF n
  <2>2. ASSUME NEW i \in 1 .. n PROVE f[i + 1] = f[i] \o t[i]
    <3>1. i + 1 \in 1 .. n + 1 /\ i + 1 # 1 /\ (i + 1) - 1 = i
      BY <1>1
    <3> QED
      BY <1>1, <1>3, <3>1
  <2>3. Prepends(f, h, g, n, S)
    <3>1. Elements(t, n, Seq(S)) /\ Prepended(f, h, t, n)
      BY <1>1, <1>4, <2>2 DEF Elements, Prepended
    <3>2. h \in Seq(S) /\ n \in Nat
      BY <1>1
    <3> QED
      BY <2>1, <3>1, <3>2, FlattensPrepend
  <2>4. n \in 1 .. n
    BY <1>1, <1>6 DEF n
  <2>5. f[n + 1] = h \o g[n]
    BY <2>3, <2>4 DEF Prepends
  <2> QED
    BY <1>2, <2>1, <2>5 DEF t, h
<1> QED
  BY <1>5, <1>6

-----------------------------------------------------------------------------
(* Sequences of numbers that grow.                                          *)

\* p grows, from above lo up to at most hi.
Ascends(p, lo, hi) ==
  /\ p \in Seq(Nat)
  /\ \A i \in 1 .. Len(p) : lo < p[i] /\ p[i] <= hi
  /\ \A i, j \in 1 .. Len(p) : i < j => p[i] < p[j]

\* p holds every number from above lo up to hi.
Runs(p, lo, hi) ==
  /\ p \in Seq(Nat) /\ lo + Len(p) = hi
  /\ \A i \in 1 .. Len(p) : p[i] = lo + i

LEMMA RunAscends ==
  ASSUME NEW p, NEW lo \in Nat, NEW hi \in Nat, Runs(p, lo, hi)
  PROVE  Ascends(p, lo, hi)
BY DEF Runs, Ascends

LEMMA AscendsMore ==
  ASSUME NEW p, NEW lo \in Nat, NEW hi \in Nat, lo <= hi, Ascends(p, lo, hi)
  PROVE  /\ Ascends(Append(p, hi + 1), lo, hi + 1)
         /\ Runs(p, lo, hi) => Runs(Append(p, hi + 1), lo, hi + 1)
<1> DEFINE q == Append(p, hi + 1)
           n == Len(p)
<1>1. /\ p \in Seq(Nat) /\ n \in Nat /\ hi + 1 \in Nat
  BY DEF Ascends
<1>2. /\ q \in Seq(Nat) /\ Len(q) = n + 1 /\ q[n + 1] = hi + 1
      /\ \A i \in 1 .. n : q[i] = p[i] /\ p[i] \in Nat
  BY <1>1, AppendProperties
<1>3. \A i \in 1 .. n + 1 : i \in 1 .. n \/ i = n + 1
  BY <1>1
<1> HIDE DEF q
<1>4. Ascends(q, lo, hi + 1)
  <2>1. \A i \in 1 .. n : lo < p[i] /\ p[i] <= hi
    BY DEF Ascends
  <2>2. \A i, j \in 1 .. n : i < j => p[i] < p[j]
    BY DEF Ascends
  <2> HIDE DEF n
  <2>3. ASSUME NEW i \in 1 .. n + 1, NEW j \in 1 .. n + 1, i < j PROVE q[i] < q[j]
    <3>1. i \in 1 .. n
      BY <1>1, <2>3
    <3>2. CASE j \in 1 .. n
      BY <1>2, <2>2, <2>3, <3>1, <3>2
    <3>3. CASE j = n + 1
      <4>1. q[j] = hi + 1 /\ q[i] = p[i] /\ p[i] \in Nat /\ p[i] <= hi
        BY <1>2, <2>1, <3>1, <3>3
      <4> QED
        BY <4>1
    <3> QED
      BY <1>3, <3>2, <3>3
  <2>4. ASSUME NEW i \in 1 .. n + 1 PROVE lo < q[i] /\ q[i] <= hi + 1
    <3>1. CASE i \in 1 .. n
      <4>1. lo < p[i] /\ p[i] <= hi /\ q[i] = p[i] /\ p[i] \in Nat
        BY <1>2, <2>1, <3>1
      <4> QED
        BY <4>1
    <3>2. CASE i = n + 1
      BY <1>2, <3>2
    <3> QED
      BY <1>3, <3>1, <3>2
  <2> QED
    BY <1>1, <1>2, <2>3, <2>4 DEF Ascends
<1>5. Runs(p, lo, hi) => Runs(q, lo, hi + 1)
  <2> SUFFICES ASSUME Runs(p, lo, hi) PROVE Runs(q, lo, hi + 1)
    OBVIOUS
  <2>1. lo + n = hi /\ \A i \in 1 .. n : p[i] = lo + i
    BY DEF Runs
  <2> HIDE DEF n
  <2>2. \A i \in 1 .. n + 1 : q[i] = lo + i
    BY <1>1, <1>2, <1>3, <2>1
  <2>3. lo + (n + 1) = hi + 1
    BY <1>1, <2>1
  <2> QED
    BY <1>2, <2>2, <2>3 DEF Runs
<1> QED
  BY <1>4, <1>5 DEF q

\* What is left when a middle part is taken out.
LEMMA AscendsCut ==
  ASSUME NEW a \in Seq(Nat), NEW b \in Seq(Nat), NEW c \in Seq(Nat), NEW lo, NEW hi,
         Ascends((a \o b) \o c, lo, hi)
  PROVE  Ascends(a \o c, lo, hi)
<1> DEFINE p == (a \o b) \o c
           q == a \o c
           k == Len(a)
           l == Len(b)
           n == Len(c)
           up(i) == IF i <= k THEN i ELSE i + l
<1>1. /\ k \in Nat /\ l \in Nat /\ n \in Nat /\ q \in Seq(Nat) /\ Len(q) = k + n
      /\ p \in Seq(Nat) /\ a \o b \in Seq(Nat) /\ Len(a \o b) = k + l
      /\ Len(p) = (k + l) + n
  OBVIOUS
<1>2. \A i \in 1 .. k + n : q[i] = IF i <= k THEN a[i] ELSE c[i - k]
  BY ConcatProperties
<1>3. \A i \in 1 .. k : p[i] = a[i]
  <2>1. \A i \in 1 .. k + l : (a \o b)[i] = IF i <= k THEN a[i] ELSE b[i - k]
    BY ConcatProperties
  <2>2. \A i \in 1 .. (k + l) + n : p[i] = IF i <= k + l THEN (a \o b)[i] ELSE c[i - (k + l)]
    BY <1>1, ConcatProperties
  <2> HIDE DEF k, l, n, p
  <2>3. \A i \in 1 .. k : i \in 1 .. k + l /\ i \in 1 .. (k + l) + n /\ i <= k + l /\ i <= k
    BY <1>1
  <2> QED
    BY <2>1, <2>2, <2>3
<1>4. \A i \in 1 .. n : p[(k + l) + i] = c[i]
  <2>2. \A i \in 1 .. (k + l) + n : p[i] = IF i <= k + l THEN (a \o b)[i] ELSE c[i - (k + l)]
    BY <1>1, ConcatProperties
  <2> HIDE DEF k, l, n, p
  <2>3. \A i \in 1 .. n : /\ (k + l) + i \in 1 .. (k + l) + n /\ ~((k + l) + i <= k + l)
                          /\ ((k + l) + i) - (k + l) = i
    BY <1>1
  <2> QED
    BY <2>2, <2>3
<1>5. /\ \A i \in 1 .. (k + l) + n : lo < p[i] /\ p[i] <= hi
      /\ \A i, j \in 1 .. (k + l) + n : i < j => p[i] < p[j]
  BY <1>1 DEF Ascends
<1> HIDE DEF k, l, n, p, q
<1>6. ASSUME NEW i \in 1 .. k + n
      PROVE  up(i) \in 1 .. (k + l) + n /\ q[i] = p[up(i)]
  <2>1. CASE i <= k
    <3>1. i \in 1 .. k /\ up(i) = i /\ i \in 1 .. (k + l) + n
      BY <1>1, <2>1
    <3> HIDE DEF up
    <3> QED
      BY <1>2, <1>3, <2>1, <3>1
  <2>2. CASE ~(i <= k)
    <3>1. i - k \in 1 .. n /\ (k + l) + (i - k) = i + l /\ i + l \in 1 .. (k + l) + n
      BY <1>1, <2>2
    <3>2. p[(k + l) + (i - k)] = c[i - k]
      BY <1>4, <3>1
    <3> QED
      BY <1>2, <2>2, <3>1, <3>2
  <2> QED
    BY <2>1, <2>2
<1>7. \A i, j \in 1 .. k + n : i < j => up(i) < up(j)
  BY <1>1
<1>8. /\ \A i \in 1 .. k + n : lo < q[i] /\ q[i] <= hi
      /\ \A i, j \in 1 .. k + n : i < j => q[i] < q[j]
  <2> HIDE DEF up
  <2> QED
    BY <1>5, <1>6, <1>7
<1>9. Ascends(q, lo, hi)
  BY <1>1, <1>8 DEF Ascends
<1> QED
  BY <1>9 DEF q

\* The beginning of a growing sequence grows.
LEMMA AscendsFront ==
  ASSUME NEW a \in Seq(Nat), NEW b \in Seq(Nat), NEW lo, NEW hi, Ascends(a \o b, lo, hi)
  PROVE  Ascends(a, lo, hi)
<1>1. (a \o b) \o <<>> = a \o b /\ a \o <<>> = a /\ <<>> \in Seq(Nat)
  <2>1. a \o b \in Seq(Nat)
    OBVIOUS
  <2> QED
    BY <2>1, ConcatEmptySeq
<1> QED
  BY <1>1, AscendsCut

\* The end of a growing sequence grows, from the last element before it.
LEMMA AscendsBack ==
  ASSUME NEW a \in Seq(Nat), NEW b \in Seq(Nat), NEW lo \in Nat, NEW hi \in Nat,
         Ascends(a \o b, lo, hi), Len(a) > 0
  PROVE  /\ a[Len(a)] \in Nat /\ lo < a[Len(a)] /\ a[Len(a)] <= hi
         /\ Ascends(b, a[Len(a)], hi)
         /\ Runs(a \o b, lo, hi) => Runs(b, a[Len(a)], hi)
<1> DEFINE p == a \o b
           k == Len(a)
           n == Len(b)
<1>1. k \in Nat \ {0} /\ n \in Nat /\ p \in Seq(Nat) /\ Len(p) = k + n
  OBVIOUS
<1>2. \A i \in 1 .. k + n : p[i] = IF i <= k THEN a[i] ELSE b[i - k]
  BY ConcatProperties
<1>3. \A i \in 1 .. n : b[i] \in Nat
  OBVIOUS
<1> HIDE DEF p, k, n
<1>4. k \in 1 .. k + n /\ p[k] = a[k]
  BY <1>1, <1>2
<1>5. \A i \in 1 .. n : k + i \in 1 .. k + n /\ p[k + i] = b[i] /\ k < k + i
  <2>1. \A i \in 1 .. n : k + i \in 1 .. k + n /\ k < k + i /\ (k + i) - k = i /\ ~(k + i <= k)
    BY <1>1
  <2> QED
    BY <1>2, <2>1
<1>6. /\ p \in Seq(Nat) /\ \A i \in 1 .. k + n : lo < p[i] /\ p[i] <= hi /\ p[i] \in Nat
      /\ \A i, j \in 1 .. k + n : i < j => p[i] < p[j]
  <2>1. \A i \in 1 .. k + n : p[i] \in Nat
    BY <1>1
  <2>2. Ascends(p, lo, hi)
    BY DEF p
  <2> QED
    BY <1>1, <2>1, <2>2 DEF Ascends
<1>7. a[k] \in Nat /\ lo < a[k] /\ a[k] <= hi
  BY <1>4, <1>6
<1>8. Ascends(b, a[k], hi)
  <2>1. \A i \in 1 .. n : a[k] < b[i] /\ b[i] <= hi
    BY <1>4, <1>5, <1>6
  <2>2. \A i, j \in 1 .. n : i < j => b[i] < b[j]
    <3>1. \A i, j \in 1 .. n : i < j => k + i < k + j
      BY <1>1
    <3> QED
      BY <1>5, <1>6, <3>1
  <2> QED
    BY <2>1, <2>2 DEF Ascends, n
<1>9. ASSUME Runs(p, lo, hi) PROVE Runs(b, a[k], hi)
  <2>1. lo + (k + n) = hi /\ \A i \in 1 .. k + n : p[i] = lo + i
    BY <1>1, <1>9 DEF Runs
  <2>2. a[k] = lo + k
    BY <1>4, <2>1
  <2>3. \A i \in 1 .. n : b[i] = (lo + k) + i
    BY <1>1, <1>5, <2>1
  <2>4. (lo + k) + n = hi
    BY <1>1, <2>1
  <2> QED
    BY <2>2, <2>3, <2>4 DEF Runs, n
<1> QED
  BY <1>7, <1>8, <1>9 DEF p, k

\* The end of a growing sequence grows.
LEMMA AscendsEnd ==
  ASSUME NEW a \in Seq(Nat), NEW b \in Seq(Nat), NEW lo, NEW hi, Ascends(a \o b, lo, hi)
  PROVE  Ascends(b, lo, hi)
<1>1. (<<>> \o a) \o b = a \o b /\ <<>> \o b = b /\ <<>> \in Seq(Nat)
  BY ConcatEmptySeq
<1> QED
  BY <1>1, AscendsCut

-----------------------------------------------------------------------------
(* Cutting and joining.                                                     *)

\* A sequence is cut after its first n elements.
LEMMA CutAfter ==
  ASSUME NEW S, NEW h \in Seq(S), NEW n \in Nat, n <= Len(h)
  PROVE  /\ SubSeq(h, 1, n) \in Seq(S) /\ Len(SubSeq(h, 1, n)) = n
         /\ SubSeq(h, n + 1, Len(h)) \in Seq(S) /\ Len(SubSeq(h, n + 1, Len(h))) = Len(h) - n
         /\ SubSeq(h, 1, n) \o SubSeq(h, n + 1, Len(h)) = h
<1>1. PICK k : k = Len(h)
  OBVIOUS
<1>2. k \in Nat /\ n <= k /\ \A i \in 1 .. k : h[i] \in S
  BY <1>1
<1>3. SubSeq(h, 1, n) \in Seq(S) /\ Len(SubSeq(h, 1, n)) = n
  <2>1. \A i \in 1 .. n : h[i] \in S
    BY <1>2
  <2>2. /\ SubSeq(h, 1, n) \in Seq(S)
        /\ Len(SubSeq(h, 1, n)) = IF 1 <= n THEN n - 1 + 1 ELSE 0
    BY <2>1, SubSeqProperties
  <2> QED
    BY <2>2
<1>4. SubSeq(h, n + 1, k) \in Seq(S) /\ Len(SubSeq(h, n + 1, k)) = k - n
  <2>1. \A i \in n + 1 .. k : h[i] \in S
    BY <1>2
  <2>2. n + 1 \in Int /\ k \in Int
    BY <1>2
  <2>3. /\ SubSeq(h, n + 1, k) \in Seq(S)
        /\ Len(SubSeq(h, n + 1, k)) = IF n + 1 <= k THEN k - (n + 1) + 1 ELSE 0
    BY <2>1, <2>2, SubSeqProperties
  <2> QED
    BY <1>2, <2>3
<1>5. SubSeq(h, 1, n) \o SubSeq(h, n + 1, k) = SubSeq(h, 1, k)
  <2>1. 1 \in 1 .. Len(h) + 1 /\ n \in 1 - 1 .. Len(h) /\ k \in n .. Len(h)
    BY <1>1, <1>2
  <2> QED
    BY <2>1, ConcatAdjacentSubSeq
<1>6. SubSeq(h, 1, k) = h
  BY <1>1, SubSeqFull
<1> QED
  BY <1>1, <1>3, <1>4, <1>5, <1>6

\* Concatenation under a name of its own: rearranging is then plain rewriting.
Join(a, b) == a \o b
Bytes(a) == a \in Seq(Nat)

LEMMA JoinAssociative ==
  ASSUME NEW S, NEW a \in Seq(S), NEW b \in Seq(S), NEW c \in Seq(S)
  PROVE  Join(a, Join(b, c)) = Join(Join(a, b), c) /\ Join(a, b) \in Seq(S)
<1>1. a \o (b \o c) = (a \o b) \o c
  BY ConcatAssociative
<1> QED
  BY <1>1 DEF Join

LEMMA JoinBytes ==
  ASSUME NEW a, NEW b, NEW c, Bytes(a), Bytes(b), Bytes(c)
  PROVE  Join(a, Join(b, c)) = Join(Join(a, b), c) /\ Bytes(Join(a, b))
BY JoinAssociative DEF Bytes

\* What is cut in two and joined elsewhere is joined as before.
LEMMA Rejoin ==
  ASSUME NEW a \in Seq(Nat), NEW b \in Seq(Nat), NEW c \in Seq(Nat), NEW d \in Seq(Nat),
         NEW h, c \o d = h
  PROVE  (a \o (b \o c)) \o d = (a \o b) \o h
<1>1. Bytes(a) /\ Bytes(b) /\ Bytes(c) /\ Bytes(d) /\ Join(c, d) = h
  BY DEF Bytes, Join
<1>2. Join(Join(a, Join(b, c)), d) = Join(Join(a, b), h)
  BY <1>1, JoinBytes
<1> QED
  BY <1>2 DEF Join
=============================================================================

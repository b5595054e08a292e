---------------------------- MODULE DfuLinkProofs ----------------------------
(***************************************************************************)
(* Proofs about the bytes under serial DFU: that SLIP is transparent for   *)
(* every packet, that no buffer overflows, that an attempt takes its       *)
(* course when nothing is lost, that the mode check survives the loss of   *)
(* any one byte, or the command frame that button 2 puts before its first  *)
(* ping, and that no response is accepted for what either left over.       *)
(*                                                                         *)
(* encode_slip and decode_slip are folds over a sequence.  What they do to *)
(* every sequence is proved about the functions by which FlattenSeq and    *)
(* FoldLeft are defined, by looking at the shortest prefix for which it    *)
(* would fail (Least of SequenceLemmas).                                   *)
(***************************************************************************)
EXTENDS DfuLink, SequenceLemmas

-----------------------------------------------------------------------------
(* Encoding.                                                                *)

Codes(s) == [k \in 1 .. Len(s) |-> Code(s[k])]
Flat(s) == FlattenSeq(Codes(s))

LEMMA OneByte ==
  ASSUME NEW S, NEW b \in S
  PROVE  <<b>> \in Seq(S) /\ Len(<<b>>) = 1 /\ <<b>>[1] = b /\ DOMAIN <<b>> = {1}
OBVIOUS

LEMMA TwoBytes ==
  ASSUME NEW S, NEW b \in S, NEW c \in S
  PROVE  /\ <<b, c>> \in Seq(S) /\ Len(<<b, c>>) = 2
         /\ <<b, c>>[1] = b /\ <<b, c>>[2] = c /\ DOMAIN <<b, c>> = {1, 2}
OBVIOUS

LEMMA CodeType ==
  ASSUME NEW b \in Byte
  PROVE  /\ Code(b) \in Seq(Byte) /\ Len(Code(b)) \in {1, 2}
         /\ b = END => Code(b) = <<ESC, ESC_END>>
         /\ b = ESC => Code(b) = <<ESC, ESC_ESC>>
         /\ b \notin {END, ESC} => Code(b) = <<b>>
<1>1. /\ b = END => Code(b) = <<ESC, ESC_END>>
      /\ b = ESC => Code(b) = <<ESC, ESC_ESC>>
      /\ b \notin {END, ESC} => Code(b) = <<b>>
  BY DEF Code, END, ESC
<1>2. {END, ESC, ESC_END, ESC_ESC} \subseteq Byte
  BY DEF Byte, END, ESC, ESC_END, ESC_ESC
<1>3. CASE b = END
  BY <1>1, <1>2, <1>3
<1>4. CASE b = ESC
  BY <1>1, <1>2, <1>4, SMTT(30)
<1>5. CASE b \notin {END, ESC}
  <2>1. Code(b) = <<b>>
    BY <1>1, <1>5, Zenon
  <2> QED
    BY <1>1, <2>1, OneByte
<1> QED
  BY <1>1, <1>3, <1>4, <1>5

LEMMA CodesType ==
  ASSUME NEW s \in Seq(Byte)
  PROVE  Codes(s) \in Seq(Seq(Byte)) /\ Len(Codes(s)) = Len(s)
<1>1. \A k \in 1 .. Len(s) : Code(s[k]) \in Seq(Byte)
  BY CodeType
<1> QED
  BY <1>1 DEF Codes

LEMMA FlatType ==
  ASSUME NEW s \in Seq(Byte)
  PROVE  Flat(s) \in Seq(Byte) /\ Encoded(s) = Append(Flat(s), END)
         /\ Encoded(s) \in Seq(Byte) /\ Len(Encoded(s)) = Len(Flat(s)) + 1
<1>1. Flat(s) \in Seq(Byte)
  BY CodesType, FlattenType DEF Flat
<1>2. Encoded(s) = Flat(s) \o <<END>>
  BY DEF Encoded, Flat, Codes
<1>3. END \in Byte
  BY DEF END, Byte
<1>4. Flat(s) \o <<END>> = Append(Flat(s), END)
  BY <1>1, <1>3
<1> QED
  BY <1>1, <1>2, <1>3, <1>4

LEMMA FlatEmpty == Flat(<<>>) = <<>> /\ Encoded(<<>>) = <<END>>
<1>1. Codes(<<>>) = <<>>
  BY DEF Codes
<1>2. Flat(<<>>) = <<>>
  BY <1>1, FlattenEmpty DEF Flat
<1>3. Encoded(<<>>) = Flat(<<>>) \o <<END>>
  BY DEF Encoded, Flat, Codes
<1> QED
  BY <1>2, <1>3

LEMMA FlatAppend ==
  ASSUME NEW s \in Seq(Byte), NEW b \in Byte
  PROVE  Flat(Append(s, b)) = Flat(s) \o Code(b)
<1>1. Codes(Append(s, b)) = Append(Codes(s), Code(b))
  BY DEF Codes
<1> QED
  BY <1>1, CodesType, CodeType, FlattenAppend DEF Flat

LEMMA EncodedTail ==
  ASSUME NEW s \in Seq(Byte), s # <<>>
  PROVE  Encoded(s) = Code(Head(s)) \o Encoded(Tail(s))
<1>1. /\ Codes(s) \in Seq(Seq(Byte)) /\ Codes(s) # <<>> /\ Tail(s) \in Seq(Byte)
      /\ Head(s) \in Byte
  BY CodesType
<1>2. Head(Codes(s)) = Code(Head(s)) /\ Tail(Codes(s)) = Codes(Tail(s))
  BY DEF Codes
<1>3. Flat(s) = Code(Head(s)) \o Flat(Tail(s))
  BY <1>1, <1>2, FlattenTail DEF Flat
<1>4. /\ Flat(Tail(s)) \in Seq(Byte) /\ Code(Head(s)) \in Seq(Byte) /\ <<END>> \in Seq(Byte)
  <2>1. END \in Byte
    BY DEF END, Byte
  <2> QED
    BY <1>1, <2>1, FlatType, CodeType, OneByte
<1>5. Encoded(s) = Flat(s) \o <<END>> /\ Encoded(Tail(s)) = Flat(Tail(s)) \o <<END>>
  BY DEF Encoded, Flat, Codes
<1> HIDE DEF Flat
<1> QED
  BY <1>3, <1>4, <1>5, ConcatAssociative

\* The first k bytes of s.
LEMMA Prefix ==
  ASSUME NEW s \in Seq(Byte), NEW k \in 0 .. Len(s)
  PROVE  /\ SubSeq(s, 1, k) \in Seq(Byte) /\ Len(SubSeq(s, 1, k)) = k
         /\ k = 0 => SubSeq(s, 1, k) = <<>>
         /\ k = Len(s) => SubSeq(s, 1, k) = s
         /\ k > 0 => SubSeq(s, 1, k) = Append(SubSeq(s, 1, k - 1), s[k]) /\ s[k] \in Byte
OBVIOUS

\* Encoding makes no END but the last one, and no more than twice as many bytes.
FreeOfEnd(s) == \A i \in DOMAIN s : s[i] # END

LEMMA FlatFree ==
  ASSUME NEW s \in Seq(Byte)
  PROVE  FreeOfEnd(Flat(s)) /\ Len(Flat(s)) <= 2 * Len(s)
<1> DEFINE Fine(k) == LET p == SubSeq(s, 1, k) IN FreeOfEnd(Flat(p)) /\ Len(Flat(p)) <= 2 * k
           T == {k \in Nat : k \in 0 .. Len(s) /\ ~Fine(k)}
<1>1. T = {}
  <2> SUFFICES ASSUME T # {} PROVE FALSE
    OBVIOUS
  <2>1. PICK k \in T : \A j \in T : k <= j
    <3> HIDE DEF T
    <3>1. T \in SUBSET Nat
      BY DEF T
    <3> QED
      BY <3>1, Least
  <2>2. k \in 0 .. Len(s) /\ ~Fine(k) /\ k \in Nat
    BY <2>1
  <2>3. k # 0
    <3>1. Fine(0)
      <4>1. SubSeq(s, 1, 0) = <<>>
        OBVIOUS
      <4>2. FreeOfEnd(<<>>) /\ Len(<<>>) <= 2 * 0
        BY DEF FreeOfEnd
      <4> QED
        BY <4>1, <4>2, FlatEmpty
    <3> QED
      BY <2>2, <3>1
  <2>4. k - 1 \in 0 .. Len(s) /\ Fine(k - 1)
    <3>1. k - 1 \in 0 .. Len(s) /\ k - 1 \in Nat /\ ~(k <= k - 1)
      BY <2>2, <2>3
    <3> HIDE DEF Fine
    <3> QED
      BY <2>1, <3>1
  <2> DEFINE p == SubSeq(s, 1, k - 1)
  <2>5. /\ p \in Seq(Byte) /\ s[k] \in Byte /\ SubSeq(s, 1, k) = Append(p, s[k])
    BY <2>2, <2>3, <2>4, Prefix
  <2>6. Flat(SubSeq(s, 1, k)) = Flat(p) \o Code(s[k])
    BY <2>5, FlatAppend
  <2>7. FreeOfEnd(Flat(p)) /\ Len(Flat(p)) <= 2 * (k - 1) /\ Flat(p) \in Seq(Byte)
    BY <2>4, <2>5, FlatType
  <2>8. /\ Code(s[k]) \in Seq(Byte) /\ FreeOfEnd(Code(s[k])) /\ Len(Code(s[k])) <= 2
    <3>1. ESC # END /\ ESC_END # END /\ ESC_ESC # END
      BY DEF END, ESC, ESC_END, ESC_ESC
    <3>2. PICK b \in Byte : b = s[k]
      BY <2>5
    <3>3. CASE b = END \/ b = ESC
      <4>1. Code(b) \in {<<ESC, ESC_END>>, <<ESC, ESC_ESC>>}
        BY <3>3, CodeType
      <4>2. /\ DOMAIN Code(b) = {1, 2} /\ Len(Code(b)) = 2 /\ Code(b) \in Seq(Byte)
            /\ Code(b)[1] = ESC /\ Code(b)[2] \in {ESC_END, ESC_ESC}
        <5>1. ESC \in Byte /\ ESC_END \in Byte /\ ESC_ESC \in Byte
          BY DEF Byte, ESC, ESC_END, ESC_ESC
        <5>2. CASE Code(b) = <<ESC, ESC_END>>
          BY <5>1, <5>2, TwoBytes
        <5>3. CASE Code(b) = <<ESC, ESC_ESC>>
          BY <5>1, <5>3, TwoBytes
        <5> QED
          BY <4>1, <5>2, <5>3
      <4> QED
        BY <3>1, <3>2, <4>2 DEF FreeOfEnd
    <3>4. CASE b # END /\ b # ESC
      <4>1. Code(b) = <<b>>
        BY <3>4, CodeType
      <4> QED
        BY <3>2, <3>4, <4>1, OneByte DEF FreeOfEnd
    <3> QED
      BY <3>3, <3>4
  <2> HIDE DEF p
  <2>9. PICK a, c : a = Flat(p) /\ c = Code(s[k])
    OBVIOUS
  <2>10. a \in Seq(Byte) /\ c \in Seq(Byte) /\ FreeOfEnd(a) /\ FreeOfEnd(c)
         /\ Len(a) <= 2 * (k - 1) /\ Len(c) <= 2
    BY <2>7, <2>8, <2>9
  <2>11. FreeOfEnd(a \o c) /\ Len(a \o c) <= 2 * k
    BY <2>2, <2>10 DEF FreeOfEnd
  <2> QED
    BY <2>2, <2>6, <2>9, <2>11
<1>2. Fine(Len(s))
  <2>1. Len(s) \in Nat /\ Len(s) \in 0 .. Len(s)
    OBVIOUS
  <2> HIDE DEF Fine
  <2> QED
    BY <1>1, <2>1
<1>3. SubSeq(s, 1, Len(s)) = s
  OBVIOUS
<1> QED
  BY <1>2, <1>3

-----------------------------------------------------------------------------
(* Decoding.                                                                *)

Fresh == [data |-> <<>>, esc |-> FALSE, done |-> FALSE]
Dec(s) == FoldLeft(Decode1, Fresh, s)

\* f is the function by which FoldLeft is defined, for the elements of s at D.
FoldsBy(f, s, D) ==
  f = [S \in SUBSET D |->
         IF S = {} THEN Fresh ELSE LET x == Max(S) IN Decode1(f[S \ {x}], s[x])]

LEMMA DecIs ==
  ASSUME NEW s
  PROVE  Dec(s) = (CHOOSE f : FoldsBy(f, s, DOMAIN s))[DOMAIN s]
BY DEF Dec, FoldLeft, MapThenFoldSet, FoldsBy

LEMMA MaxIs ==
  ASSUME NEW n \in Nat, NEW S \in SUBSET (1 .. n), n \in S
  PROVE  Max(S) = n
<1>1. \A y \in S : n >= y
  OBVIOUS
<1>2. Max(S) \in S /\ \A y \in S : Max(S) >= y
  BY <1>1 DEF Max
<1>3. PICK m : m = Max(S)
  OBVIOUS
<1>4. m \in 1 .. n /\ m >= n
  BY <1>2, <1>3
<1> QED
  BY <1>3, <1>4

LEMMA FoldsExists ==
  ASSUME NEW s, NEW n \in Nat
  PROVE  \E f : FoldsBy(f, s, 1 .. n)
<1> DEFINE T == {k \in Nat : ~ \E f : FoldsBy(f, s, 1 .. k)}
<1> SUFFICES ASSUME T # {} PROVE FALSE
  OBVIOUS
<1>1. PICK k \in T : \A j \in T : k <= j
  <2> HIDE DEF T
  <2>1. T \in SUBSET Nat
    BY DEF T
  <2> QED
    BY <2>1, Least
<1>2. CASE k = 0
  <2> DEFINE f == [S \in SUBSET (1 .. 0) |-> Fresh]
  <2>1. \A S \in SUBSET (1 .. 0) : S = {}
    OBVIOUS
  <2>2. f = [S \in SUBSET (1 .. 0) |->
               IF S = {} THEN Fresh ELSE LET x == Max(S) IN Decode1(f[S \ {x}], s[x])]
    BY <2>1
  <2>3. FoldsBy(f, s, 1 .. 0)
    BY <2>2 DEF FoldsBy
  <2> QED
    BY <1>1, <1>2, <2>3
<1>3. CASE k # 0
  <2>1. k - 1 \in Nat /\ k - 1 \notin T /\ k \in Nat \ {0}
    BY <1>1, <1>3
  <2>2. PICK f : FoldsBy(f, s, 1 .. k - 1)
    BY <2>1
  <2> DEFINE g == [S \in SUBSET (1 .. k) |->
                     IF k \in S THEN Decode1(f[S \ {k}], s[k]) ELSE f[S]]
  <2>3. ASSUME NEW S \in SUBSET (1 .. k)
        PROVE  g[S] = IF S = {} THEN Fresh ELSE LET x == Max(S) IN Decode1(g[S \ {x}], s[x])
    <3>1. CASE k \in S
      <4>1. Max(S) = k /\ S # {}
        BY <2>1, <3>1, MaxIs
      <4>2. S \ {k} \in SUBSET (1 .. k) /\ k \notin S \ {k}
        OBVIOUS
      <4>3. g[S \ {k}] = f[S \ {k}]
        BY <4>2
      <4>4. g[S] = Decode1(f[S \ {k}], s[k])
        BY <3>1
      <4> HIDE DEF g
      <4> QED
        BY <4>1, <4>3, <4>4
    <3>2. CASE k \notin S
      <4>1. S \in SUBSET (1 .. k - 1)
        BY <2>1, <3>2
      <4>2. f[S] = IF S = {} THEN Fresh ELSE LET x == Max(S) IN Decode1(f[S \ {x}], s[x])
        BY <2>2, <4>1 DEF FoldsBy
      <4>3. g[S] = f[S]
        BY <3>2
      <4>4. ASSUME NEW x PROVE g[S \ {x}] = f[S \ {x}]
        <5>1. S \ {x} \in SUBSET (1 .. k) /\ k \notin S \ {x}
          BY <3>2
        <5> QED
          BY <5>1
      <4> HIDE DEF g
      <4> QED
        BY <4>2, <4>3, <4>4
    <3> QED
      BY <3>1, <3>2
  <2>4. g = [S \in SUBSET (1 .. k) |-> g[S]]
    OBVIOUS
  <2> HIDE DEF g
  <2>5. FoldsBy(g, s, 1 .. k)
    BY <2>3, <2>4 DEF FoldsBy
  <2> QED
    BY <1>1, <2>5
<1> QED
  BY <1>2, <1>3

\* What such a function is at one of the sets it is defined on.
At(f, s, S) == IF S = {} THEN Fresh ELSE LET x == Max(S) IN Decode1(f[S \ {x}], s[x])

LEMMA FoldsAt ==
  ASSUME NEW f, NEW s, NEW D, FoldsBy(f, s, D), NEW S \in SUBSET D
  PROVE  f[S] = At(f, s, S)
<1>1. \A h, u, E : FoldsBy(h, u, E) => \A R \in SUBSET E : h[R] = At(h, u, R)
  BY DEF FoldsBy, At
<1> QED
  BY <1>1

\* Two such functions agree on what the sequences have in common.
LEMMA FoldsUnique ==
  ASSUME NEW s, NEW t, NEW n \in Nat, NEW m \in Nat, n <= m, NEW f, NEW g,
         FoldsBy(f, s, 1 .. n), FoldsBy(g, t, 1 .. m), Agree(s, t, n)
  PROVE  f[1 .. n] = g[1 .. n]
<1> DEFINE Same(k) == f[1 .. k] = g[1 .. k]
           T == {k \in Nat : k \in 0 .. n /\ ~Same(k)}
<1>1. T = {}
  <2> SUFFICES ASSUME T # {} PROVE FALSE
    OBVIOUS
  <2>1. PICK k \in T : \A j \in T : k <= j
    <3> HIDE DEF T
    <3>1. T \in SUBSET Nat
      BY DEF T
    <3> QED
      BY <3>1, Least
  <2>2. k \in 0 .. n /\ ~Same(k) /\ k \in Nat
    BY <2>1
  <2>3. FoldsBy(f, s, 1 .. n) /\ FoldsBy(g, t, 1 .. m)
    OBVIOUS
  <2>4. 1 .. k \in SUBSET (1 .. n) /\ 1 .. k \in SUBSET (1 .. m)
    BY <2>2
  <2>5. /\ f[1 .. k] = IF 1 .. k = {} THEN Fresh
                       ELSE LET x == Max(1 .. k) IN Decode1(f[(1 .. k) \ {x}], s[x])
        /\ g[1 .. k] = IF 1 .. k = {} THEN Fresh
                       ELSE LET x == Max(1 .. k) IN Decode1(g[(1 .. k) \ {x}], t[x])
    <3>1. f[1 .. k] = At(f, s, 1 .. k) /\ g[1 .. k] = At(g, t, 1 .. k)
      BY <2>3, <2>4, FoldsAt
    <3> QED
      BY <3>1 DEF At
  <2>6. CASE k = 0
    <3>1. 1 .. k = {}
      BY <2>6
    <3> QED
      BY <2>2, <2>5, <3>1
  <2>7. CASE k # 0
    <3>1. k \in 1 .. k /\ 1 .. k # {} /\ (1 .. k) \ {k} = 1 .. k - 1 /\ k \in 1 .. n
      BY <2>2, <2>7
    <3>2. Max(1 .. k) = k
      BY <2>2, <3>1, MaxIs
    <3>3. f[1 .. k - 1] = g[1 .. k - 1]
      <4>1. k - 1 \in 0 .. n /\ k - 1 \in Nat /\ ~(k <= k - 1)
        BY <2>2, <2>7
      <4> HIDE DEF Same
      <4>2. Same(k - 1)
        BY <2>1, <4>1
      <4> QED
        BY <4>2 DEF Same
    <3>4. s[k] = t[k]
      BY <3>1 DEF Agree
    <3>5. f[1 .. k] = Decode1(f[1 .. k - 1], s[k]) /\ g[1 .. k] = Decode1(g[1 .. k - 1], t[k])
      BY <2>5, <3>1, <3>2
    <3> QED
      BY <2>2, <3>3, <3>4, <3>5
  <2> QED
    BY <2>6, <2>7
<1>2. Same(n)
  <2>1. n \in 0 .. n
    OBVIOUS
  <2> HIDE DEF Same
  <2> QED
    BY <1>1, <2>1
<1> QED
  BY <1>2

LEMMA DecEmpty == Dec(<<>>) = Fresh
<1>1. PICK f : FoldsBy(f, <<>>, 1 .. 0)
  <2>1. 0 \in Nat
    OBVIOUS
  <2> QED
    BY <2>1, FoldsExists
<1>2. DOMAIN <<>> = 1 .. 0 /\ 1 .. 0 = {}
  OBVIOUS
<1>3. FoldsBy((CHOOSE h : FoldsBy(h, <<>>, DOMAIN <<>>)), <<>>, DOMAIN <<>>)
  BY <1>1, <1>2
<1> DEFINE h == CHOOSE h : FoldsBy(h, <<>>, DOMAIN <<>>)
<1>4. h[DOMAIN <<>>] = Fresh
  <2> HIDE DEF h
  <2>1. FoldsBy(h, <<>>, DOMAIN <<>>)
    BY <1>3 DEF h
  <2> QED
    BY <1>2, <2>1 DEF FoldsBy
<1> QED
  BY <1>4, DecIs

LEMMA DecAppend ==
  ASSUME NEW s \in Seq(Byte), NEW b \in Byte
  PROVE  Dec(Append(s, b)) = Decode1(Dec(s), b)
<1> DEFINE n == Len(s)
           t == Append(s, b)
<1>1. /\ n \in Nat /\ n + 1 \in Nat /\ n <= n + 1 /\ DOMAIN s = 1 .. n /\ DOMAIN t = 1 .. n + 1
      /\ t[n + 1] = b /\ Agree(s, t, n)
  BY DEF Agree
<1> HIDE DEF n, t
<1> DEFINE f == CHOOSE f : FoldsBy(f, s, 1 .. n)
           g == CHOOSE g : FoldsBy(g, t, 1 .. n + 1)
<1>2. FoldsBy(f, s, 1 .. n)
  BY <1>1, FoldsExists
<1>3. FoldsBy(g, t, 1 .. n + 1)
  BY <1>1, FoldsExists
<1>4. Dec(s) = f[1 .. n] /\ Dec(t) = g[1 .. n + 1]
  BY <1>1, DecIs
<1> HIDE DEF f, g
<1>5. f[1 .. n] = g[1 .. n]
  BY <1>1, <1>2, <1>3, FoldsUnique
<1>6. g[1 .. n + 1] = Decode1(g[1 .. n], b)
  <2>1. /\ n + 1 \in 1 .. n + 1 /\ 1 .. n + 1 # {} /\ (1 .. n + 1) \ {n + 1} = 1 .. n
        /\ 1 .. n + 1 \in SUBSET (1 .. n + 1)
    <3>1. n + 1 \in 1 .. n + 1
      BY <1>1
    <3>2. \A x : x \in 1 .. n <=> x \in 1 .. n + 1 /\ x # n + 1
      BY <1>1
    <3> QED
      BY <3>1, <3>2, Zenon
  <2>2. Max(1 .. n + 1) = n + 1
    BY <1>1, <2>1, MaxIs
  <2>3. g[1 .. n + 1] = IF 1 .. n + 1 = {} THEN Fresh
                        ELSE LET x == Max(1 .. n + 1) IN Decode1(g[(1 .. n + 1) \ {x}], t[x])
    BY <1>3, <2>1 DEF FoldsBy
  <2> QED
    BY <1>1, <2>1, <2>2, <2>3
<1> QED
  BY <1>4, <1>5, <1>6 DEF t

\* The decoder has read p, and an escape byte before the next one if e.
Decoder == [data : Seq(Byte), esc : BOOLEAN, done : BOOLEAN]
Holds(d, p, e) == d \in Decoder /\ d.data = p /\ (d.esc <=> e) /\ ~d.done

\* What decode_slip makes of one byte.
LEMMA DecodeByte ==
  ASSUME NEW p \in Seq(Byte), NEW e \in BOOLEAN, NEW b \in Byte, NEW d, Holds(d, p, e)
  PROVE  /\ b = END => Decode1(d, b).data = p
         /\ b = ESC /\ ~e => Holds(Decode1(d, b), p, TRUE)
         /\ b = ESC_END /\ e => Holds(Decode1(d, b), Append(p, END), FALSE)
         /\ b = ESC_ESC /\ e => Holds(Decode1(d, b), Append(p, ESC), FALSE)
         /\ b \notin {END, ESC} /\ ~e => Holds(Decode1(d, b), Append(p, b), FALSE)
<1>1. /\ END # ESC /\ END # ESC_END /\ END # ESC_ESC /\ ESC # ESC_END /\ ESC # ESC_ESC
      /\ ESC_END # ESC_ESC /\ {END, ESC, ESC_END, ESC_ESC} \subseteq Byte
  BY DEF END, ESC, ESC_END, ESC_ESC, Byte
<1>2. d \in Decoder /\ d.data = p /\ (d.esc <=> e) /\ ~d.done
  BY DEF Holds
<1>3. \A x \in Byte : Append(p, x) \in Seq(Byte)
  OBVIOUS
<1>4. [d EXCEPT !.done = TRUE].data = p
  BY <1>2 DEF Decoder
<1>5. Holds([d EXCEPT !.esc = TRUE], p, TRUE)
  BY <1>2 DEF Holds, Decoder
<1>6. ASSUME NEW q \in Seq(Byte)
      PROVE  Holds([d EXCEPT !.esc = FALSE, !.data = q], q, FALSE)
  BY <1>2 DEF Holds, Decoder
<1>7. ASSUME NEW q \in Seq(Byte)
      PROVE  Holds([d EXCEPT !.data = q], q, e)
  BY <1>2 DEF Holds, Decoder
<1>8. CASE b = END
  <2>1. Decode1(d, b) = [d EXCEPT !.done = TRUE]
    BY <1>1, <1>2, <1>8 DEF Decode1
  <2> QED
    BY <1>1, <1>4, <1>8, <2>1
<1>9. CASE b = ESC
  <2>1. ~e => Decode1(d, b) = [d EXCEPT !.esc = TRUE]
    BY <1>1, <1>2, <1>9 DEF Decode1
  <2> QED
    BY <1>1, <1>5, <1>9, <2>1
<1>10. CASE b = ESC_END
  <2>1. Decode1(d, b) = [d EXCEPT !.esc = FALSE, !.data = Append(p, IF e THEN END ELSE b)]
    BY <1>1, <1>2, <1>10 DEF Decode1
  <2>2. Append(p, IF e THEN END ELSE b) \in Seq(Byte)
    BY <1>1, <1>3
  <2> HIDE DEF Holds
  <2> QED
    BY <1>1, <1>6, <1>10, <2>1, <2>2
<1>11. CASE b = ESC_ESC
  <2>1. Decode1(d, b) = [d EXCEPT !.esc = FALSE, !.data = Append(p, IF e THEN ESC ELSE b)]
    BY <1>1, <1>2, <1>11 DEF Decode1
  <2>2. Append(p, IF e THEN ESC ELSE b) \in Seq(Byte)
    BY <1>1, <1>3
  <2> QED
    BY <1>1, <1>6, <1>11, <2>1, <2>2
<1>12. CASE b \notin {END, ESC, ESC_END, ESC_ESC}
  <2>1. Decode1(d, b) = [d EXCEPT !.data = Append(p, b)]
    BY <1>1, <1>2, <1>12 DEF Decode1
  <2> QED
    BY <1>1, <1>3, <1>7, <1>12, <2>1
<1> QED
  BY <1>8, <1>9, <1>10, <1>11, <1>12

\* The bytes that one byte is encoded as are decoded to it.
LEMMA DecodeCode ==
  ASSUME NEW s \in Seq(Byte), NEW b \in Byte, NEW p \in Seq(Byte),
         Holds(Dec(s), p, FALSE)
  PROVE  Holds(Dec(s \o Code(b)), Append(p, b), FALSE)
<1>1. {END, ESC, ESC_END, ESC_ESC} \subseteq Byte
  BY DEF Byte, END, ESC, ESC_END, ESC_ESC
<1>2. CASE b \notin {END, ESC}
  <2>1. s \o Code(b) = Append(s, b)
    <3>1. Code(b) = <<b>>
      BY <1>2, CodeType
    <3> QED
      BY <3>1
  <2>2. Dec(Append(s, b)) = Decode1(Dec(s), b)
    BY DecAppend
  <2>3. Holds(Decode1(Dec(s), b), Append(p, b), FALSE)
    BY <1>2, DecodeByte
  <2> QED
    BY <2>1, <2>2, <2>3
<1>3. CASE b \in {END, ESC}
  <2>1. PICK c \in Byte : /\ Code(b) = <<ESC, c>>
                          /\ b = END => c = ESC_END
                          /\ b = ESC => c = ESC_ESC
    BY <1>1, <1>3, CodeType
  <2>2. s \o Code(b) = Append(Append(s, ESC), c) /\ Append(s, ESC) \in Seq(Byte)
    BY <1>1, <2>1
  <2>3. Holds(Dec(Append(s, ESC)), p, TRUE)
    <3>1. Dec(Append(s, ESC)) = Decode1(Dec(s), ESC)
      BY <1>1, DecAppend
    <3> QED
      BY <1>1, <3>1, DecodeByte
  <2>4. Dec(Append(Append(s, ESC), c)) = Decode1(Dec(Append(s, ESC)), c)
    BY <2>2, DecAppend
  <2>5. Holds(Decode1(Dec(Append(s, ESC)), c), Append(p, b), FALSE)
    BY <1>3, <2>1, <2>3, DecodeByte
  <2> QED
    BY <2>2, <2>4, <2>5
<1> QED
  BY <1>2, <1>3

LEMMA DecodeFlat ==
  ASSUME NEW s \in Seq(Byte)
  PROVE  Holds(Dec(Flat(s)), s, FALSE)
<1> DEFINE Fine(k) == LET p == SubSeq(s, 1, k) IN
                      Holds(Dec(Flat(p)), p, FALSE)
           T == {k \in Nat : k \in 0 .. Len(s) /\ ~Fine(k)}
<1>1. T = {}
  <2> SUFFICES ASSUME T # {} PROVE FALSE
    OBVIOUS
  <2>1. PICK k \in T : \A j \in T : k <= j
    <3> HIDE DEF T
    <3>1. T \in SUBSET Nat
      BY DEF T
    <3> QED
      BY <3>1, Least
  <2>2. k \in 0 .. Len(s) /\ ~Fine(k) /\ k \in Nat
    BY <2>1
  <2>3. k # 0
    <3>1. SubSeq(s, 1, 0) = <<>>
      OBVIOUS
    <3>2. Fine(0)
      <4>1. Holds(Fresh, <<>>, FALSE)
        BY DEF Fresh, Holds, Decoder
      <4> QED
        BY <3>1, <4>1, FlatEmpty, DecEmpty
    <3> HIDE DEF Fine
    <3> QED
      BY <2>2, <3>2
  <2>4. k - 1 \in 0 .. Len(s) /\ Fine(k - 1)
    <3>1. k - 1 \in 0 .. Len(s) /\ k - 1 \in Nat /\ ~(k <= k - 1)
      BY <2>2, <2>3
    <3> HIDE DEF Fine
    <3> QED
      BY <2>1, <3>1
  <2> DEFINE p == SubSeq(s, 1, k - 1)
  <2>5. /\ p \in Seq(Byte) /\ s[k] \in Byte /\ SubSeq(s, 1, k) = Append(p, s[k])
    BY <2>2, <2>3, <2>4, Prefix
  <2>6. Flat(Append(p, s[k])) = Flat(p) \o Code(s[k])
    BY <2>5, FlatAppend
  <2>7. Holds(Dec(Flat(p)), p, FALSE) /\ Flat(p) \in Seq(Byte)
    BY <2>4, <2>5, FlatType
  <2> HIDE DEF p
  <2>8. Holds(Dec(Flat(Append(p, s[k]))), Append(p, s[k]), FALSE)
    BY <2>5, <2>6, <2>7, DecodeCode
  <2> QED
    BY <2>2, <2>5, <2>8
<1>2. Fine(Len(s))
  <2>1. Len(s) \in Nat /\ Len(s) \in 0 .. Len(s)
    OBVIOUS
  <2> HIDE DEF Fine
  <2> QED
    BY <1>1, <2>1
<1>3. SubSeq(s, 1, Len(s)) = s
  OBVIOUS
<1> QED
  BY <1>2, <1>3

\* SLIP is transparent: decode_slip gives back what slip_encode was given, whatever bytes
\* it is made of.
THEOREM SlipTransparent ==
  ASSUME NEW s \in Seq(Byte)
  PROVE  Decoded(Encoded(s)) = s
<1>1. Flat(s) \in Seq(Byte) /\ Encoded(s) = Append(Flat(s), END) /\ END \in Byte
  BY FlatType DEF END, Byte
<1>2. Dec(Encoded(s)) = Decode1(Dec(Flat(s)), END)
  BY <1>1, DecAppend
<1>3. Dec(Encoded(s)).data = s
  BY <1>1, <1>2, DecodeFlat, DecodeByte
<1> QED
  BY <1>3 DEF Decoded, Dec, Fresh
-----------------------------------------------------------------------------
(* Memory.                                                                  *)

Memory == [1 .. PoolSize -> Byte]

LEMMA MemoryIs ==
  ASSUME NEW f \in Memory, NEW k \in 0 .. PoolSize
  PROVE  /\ f \in Seq(Byte) /\ Len(f) = PoolSize
         /\ SubSeq(f, 1, k) \in Seq(Byte) /\ Len(SubSeq(f, 1, k)) = k
         /\ \A i \in 1 .. k : SubSeq(f, 1, k)[i] = f[i] /\ f[i] \in Byte
<1>1. PoolSize \in Nat
  BY DfuLinkAssumption
<1>2. f \in Seq(Byte) /\ Len(f) = PoolSize
  BY <1>1 DEF Memory
<1> QED
  BY <1>1, <1>2

LEMMA OverlayType ==
  ASSUME NEW f \in Memory, NEW k \in Nat, NEW s \in Seq(Byte)
  PROVE  Overlay(f, k, s) \in Memory
<1>1. PoolSize \in Nat
  BY DfuLinkAssumption
<1>2. 0 \in 0 .. PoolSize
  BY <1>1
<1>3. Len(f) = PoolSize
  BY <1>2, MemoryIs
<1>4. \A x \in 1 .. PoolSize : x \in k + 1 .. k + Len(s) => x - k \in 1 .. Len(s)
  BY <1>1
<1>5. \A i \in 1 .. Len(s) : s[i] \in Byte
  OBVIOUS
<1>6. \A i \in 1 .. PoolSize : f[i] \in Byte
  BY DEF Memory
<1> QED
  BY <1>3, <1>4, <1>5, <1>6 DEF Overlay, Memory

LEMMA OverlayIs ==
  ASSUME NEW f \in Memory, NEW k \in Nat, NEW s \in Seq(Byte), k + Len(s) <= PoolSize
  PROVE  SubSeq(Overlay(f, k, s), 1, k + Len(s)) = SubSeq(f, 1, k) \o s
<1> DEFINE g == Overlay(f, k, s)
           n == k + Len(s)
<1>1. g \in Memory /\ PoolSize \in Nat /\ n \in 0 .. PoolSize /\ k \in 0 .. PoolSize
      /\ k \in Nat /\ Len(s) \in Nat /\ Len(f) = PoolSize
  <2>1. PoolSize \in Nat
    BY DfuLinkAssumption
  <2>2. n \in 0 .. PoolSize /\ k \in 0 .. PoolSize
    BY <2>1
  <2> QED
    BY <2>1, <2>2, OverlayType, MemoryIs
<1>2. \A i \in 1 .. n : g[i] = IF i \in 1 .. k THEN f[i] ELSE s[i - k]
  BY <1>1 DEF Overlay
<1>3. /\ SubSeq(g, 1, n) \in Seq(Byte) /\ Len(SubSeq(g, 1, n)) = n
      /\ \A i \in 1 .. n : SubSeq(g, 1, n)[i] = g[i]
  BY <1>1, MemoryIs
<1>4. /\ SubSeq(f, 1, k) \in Seq(Byte) /\ Len(SubSeq(f, 1, k)) = k
      /\ \A i \in 1 .. k : SubSeq(f, 1, k)[i] = f[i]
  BY <1>1, MemoryIs
<1> DEFINE a == SubSeq(g, 1, n)
           b == SubSeq(f, 1, k)
<1> HIDE DEF g, a, b
<1>5. /\ b \o s \in Seq(Byte) /\ Len(b \o s) = n
      /\ \A i \in 1 .. n : (b \o s)[i] = IF i \in 1 .. k THEN b[i] ELSE s[i - k]
  BY <1>1, <1>4 DEF b
<1>6. Len(a) = Len(b \o s) /\ \A i \in 1 .. Len(a) : a[i] = (b \o s)[i]
  BY <1>2, <1>3, <1>4, <1>5 DEF a, b
<1>7. a = b \o s
  BY <1>3, <1>5, <1>6, SeqEqual DEF a
<1> QED
  BY <1>7 DEF a, b, g

-----------------------------------------------------------------------------
(* Types: every buffer holds what is put into it.                           *)

\* The longest request of a stage.
Longest == [s \in {"check", "setup", "create", "crc"} |->
              IF s = "create" THEN DataLen + 1 ELSE IF s = "crc" THEN 1 ELSE 2]

\* Bytes of the current request, and of those after it, that are still to be sent.
Now == CASE pc = "idle" -> 20
         [] pc = "encode" -> 2 * Longest[stage] + 1
         [] pc = "copy" -> to - from
         [] OTHER -> 0
Later == CASE stage = "check" -> 5 * tries + 2 * DataLen + 6
           [] stage = "setup" -> 2 * DataLen + 6
           [] stage = "create" -> 3
           [] stage = "crc" -> 0
\* With the six bytes of a command frame if there was one.
Allowed == 2 * DataLen + (IF stray THEN 32 ELSE 26)
Budget == slip.at + Len(out) + Now + Later <= Allowed

Shape ==
  /\ pc = "idle" => stage = "check" /\ tries = 0
  /\ pc \notin {"idle", "over"} /\ stage = "check" => tries \in 1 .. 3
  /\ pc \in {"encode", "copy", "wait"} => Len(req) \in 1 .. Longest[stage]
  /\ pc = "encode" => from <= Len(req) /\ to <= 2 * from
  /\ pc = "copy" => from < to

Fits == TypeOK /\ Shape /\ Budget

HostType ==
  /\ pc \in {"idle", "encode", "copy", "wait", "read", "over"}
  /\ stage \in {"check", "setup", "create", "crc"}
  /\ tries \in 0 .. 3 /\ id \in Byte /\ req \in Seq(Byte)
  /\ from \in 0 .. PoolSize /\ to \in 0 .. PoolSize
  /\ verdict \in {"none", "ok", "absent", "fail"}
SharedType ==
  /\ pool \in Memory /\ rxLen \in 0 .. PoolSize /\ len \in 0 .. PoolSize /\ ready \in BOOLEAN
  /\ out \in Seq(Byte)
Decoders == [buf : Memory, at : 0 .. PoolSize, state : {"decoding", "escaped", "clearing"}]
Packets == [op : Byte, arg : Byte, whole : Seq(Byte)]
Transmitters == [buf : Seq(Byte), at : 0 .. PoolSize, len : 0 .. PoolSize]
BootType ==
  /\ slip \in Decoders /\ todo \in Seq(Packets) /\ rsp \in Transmitters
  /\ rsp.at <= rsp.len /\ rsp.len <= Len(rsp.buf)
HistoryType ==
  /\ ctx \in Contexts /\ lost \in 0 .. MaxLost /\ late \in 0 .. MaxLate
  /\ bare \in BOOLEAN /\ stray \in BOOLEAN

LEMMA TypeParts == TypeOK <=> HostType /\ SharedType /\ BootType /\ HistoryType
BY DEF TypeOK, HostType, SharedType, BootType, HistoryType, Memory, Decoders, Packets, Transmitters

LEMMA TypePartsNext == TypeOK' <=> HostType' /\ SharedType' /\ BootType' /\ HistoryType'
BY DEF TypeOK, HostType, SharedType, BootType, HistoryType, Memory, Decoders, Packets, Transmitters

LEMMA Sizes ==
  /\ PoolSize \in Nat /\ DataLen \in Nat \ {0}
  /\ Longest["check"] = 2 /\ Longest["setup"] = 2
  /\ Longest["create"] = DataLen + 1 /\ Longest["crc"] = 1
BY DfuLinkAssumption DEF Longest

LEMMA AllowedIs ==
  /\ Allowed \in Nat /\ Allowed <= 2 * DataLen + 32
  /\ stray' = stray => Allowed' = Allowed
<1>1. stray' = stray => Allowed' = Allowed
  BY DEF Allowed
<1>2. Allowed \in Nat /\ Allowed <= 2 * DataLen + 32
  BY Sizes DEF Allowed
<1> QED
  BY <1>1, <1>2

LEMMA LaterIs == ASSUME HostType PROVE Later \in Nat
BY Sizes DEF Later, HostType

LEMMA Adds ==
  \A a, b, c, d, e, f \in Nat : a + b + c <= f /\ d + e <= c => a + b + d + e <= f
OBVIOUS

LEMMA DataIs ==
  ASSUME NEW d \in Data
  PROVE  d \in Seq(Byte) /\ Len(d) = DataLen
<1>1. DataLen \in Nat /\ DataBytes \subseteq Byte
  BY DfuLinkAssumption
<1> QED
  BY <1>1 DEF Data

LEMMA Requests ==
  /\ \A b \in Byte : <<PING, b>> \in Seq(Byte) /\ Len(<<PING, b>>) = 2
  /\ \A d \in Data : <<CREATE>> \o d \in Seq(Byte) /\ Len(<<CREATE>> \o d) = DataLen + 1
  /\ <<CRC_GET>> \in Seq(Byte) /\ Len(<<CRC_GET>>) = 1
<1>1. PING \in Byte /\ CREATE \in Byte /\ CRC_GET \in Byte
  BY DEF PING, CREATE, CRC_GET, Byte
<1>2. ASSUME NEW d \in Data
      PROVE  <<CREATE>> \o d \in Seq(Byte) /\ Len(<<CREATE>> \o d) = DataLen + 1
  <2>1. <<CREATE>> \in Seq(Byte) /\ Len(<<CREATE>>) = 1
    BY <1>1, OneByte
  <2>2. d \in Seq(Byte) /\ Len(d) = DataLen /\ DataLen \in Nat
    BY DataIs, DfuLinkAssumption
  <2> QED
    BY <2>1, <2>2
<1> QED
  BY <1>1, <1>2, OneByte, TwoBytes

LEMMA NextId == ASSUME NEW n \in Byte PROVE (n + 1) % 256 \in Byte
BY DEF Byte

\* What the caller does after a request leaves every variable of the host in its type,
\* and the requests that follow fit in what is left of the budget.
LEMMA FailedFits ==
  ASSUME Fits, pc \in {"wait", "read"}, Failed, UNCHANGED <<slip, out, stray>>
  PROVE  HostType' /\ Shape' /\ Budget'
<1>1. HostType /\ SharedType /\ BootType /\ Allowed \in Nat /\ Allowed' = Allowed
  BY TypeParts, AllowedIs DEF Fits
<1>2. /\ pc # "idle" /\ pc # "encode" /\ pc # "copy" /\ pc # "over"
      /\ stage = "check" => tries \in 1 .. 3
      /\ slip.at \in Nat /\ Len(out) \in Nat /\ tries \in Nat /\ DataLen \in Nat
  BY <1>1, Sizes DEF Fits, Shape, HostType, SharedType, BootType, Decoders
<1>3. slip.at + Len(out) + Later <= Allowed /\ Later \in Nat
  <2>1. Now = 0
    BY <1>2 DEF Now
  <2>2. Later \in Nat
    BY <1>1, LaterIs
  <2> QED
    BY <1>2, <2>1, <2>2 DEF Fits, Budget
<1>4. CASE stage # "check" \/ tries = 1
  <2>1. /\ pc' = "over" /\ verdict' \in {"absent", "fail"}
        /\ UNCHANGED <<stage, tries, id, req, from, to>>
    BY <1>4 DEF Failed, Over
  <2>2. HostType' /\ Shape'
    BY <1>1, <2>1 DEF HostType, Shape
  <2>3. Now' = 0 /\ Later' = Later
    BY <2>1 DEF Now, Later
  <2> QED
    BY <1>1, <1>2, <1>3, <2>2, <2>3 DEF Budget
<1>5. CASE stage = "check" /\ tries # 1
  <2>1. /\ pc' = "encode" /\ stage' = "check" /\ req' = <<PING, id>> /\ from' = 0 /\ to' = 0
        /\ id' = (id + 1) % 256 /\ tries' = tries - 1 /\ verdict' = verdict
    BY <1>5 DEF Failed, Send
  <2>2. req' \in Seq(Byte) /\ Len(req') = 2 /\ id' \in Byte
    BY <1>1, <2>1, Requests, NextId DEF HostType
  <2>3. tries' \in 1 .. 2 /\ 0 \in 0 .. PoolSize
    BY <1>2, <1>5, <2>1, Sizes
  <2>4. HostType'
    BY <1>1, <2>1, <2>2, <2>3 DEF HostType
  <2>5. Shape'
    BY <2>1, <2>2, <2>3, Sizes DEF Shape
  <2>6. Now' = 5 /\ Later' = 5 * tries' + 2 * DataLen + 6 /\ Later = 5 * tries + 2 * DataLen + 6
    BY <1>5, <2>1, Sizes DEF Now, Later
  <2> QED
    BY <1>1, <1>2, <1>3, <2>1, <2>4, <2>5, <2>6 DEF Budget
<1> QED
  BY <1>4, <1>5

LEMMA SucceededFits ==
  ASSUME Fits, pc \in {"wait", "read"}, Succeeded, UNCHANGED <<slip, out, stray>>
  PROVE  HostType' /\ Shape' /\ Budget'
<1>1. HostType /\ SharedType /\ BootType /\ Allowed \in Nat /\ Allowed' = Allowed
  BY TypeParts, AllowedIs DEF Fits
<1>2. /\ pc # "idle" /\ pc # "encode" /\ pc # "copy" /\ pc # "over"
      /\ stage = "check" => tries \in 1 .. 3
      /\ slip.at \in Nat /\ Len(out) \in Nat /\ tries \in Nat /\ DataLen \in Nat
  BY <1>1, Sizes DEF Fits, Shape, HostType, SharedType, BootType, Decoders
<1>3. slip.at + Len(out) + Later <= Allowed /\ Later \in Nat
  <2>1. Now = 0
    BY <1>2 DEF Now
  <2>2. Later \in Nat
    BY <1>1, LaterIs
  <2> QED
    BY <1>2, <2>1, <2>2 DEF Fits, Budget
<1>4. ASSUME NEW s \in {"setup", "create", "crc"}, NEW r \in Seq(Byte), Send(s, r), id' \in Byte,
             UNCHANGED <<tries, verdict>>, Len(r) \in 1 .. Longest[s]
      PROVE  HostType' /\ Shape' /\ Now' = 2 * Longest[s] + 1
  <2>1. pc' = "encode" /\ stage' = s /\ req' = r /\ from' = 0 /\ to' = 0 /\ 0 \in 0 .. PoolSize
    BY <1>4, Sizes DEF Send
  <2>2. HostType'
    BY <1>1, <1>4, <2>1 DEF HostType
  <2>3. Shape'
    BY <1>4, <2>1 DEF Shape
  <2> QED
    BY <2>1, <2>2, <2>3 DEF Now
<1>5. CASE stage = "check"
  <2>1. Send("setup", <<PING, (id + 1) % 256>>) /\ id' = (id + 1) % 256 /\ UNCHANGED <<tries, verdict>>
    BY <1>5 DEF Succeeded
  <2> DEFINE n == (id + 1) % 256
  <2>2. n \in Byte
    BY <1>1, NextId DEF HostType
  <2> HIDE DEF n
  <2>3. <<PING, n>> \in Seq(Byte) /\ Len(<<PING, n>>) \in 1 .. Longest["setup"]
    BY <2>2, Requests, Sizes
  <2>4. HostType' /\ Shape' /\ Now' = 2 * Longest["setup"] + 1
    BY <1>4, <2>1, <2>2, <2>3 DEF n
  <2>5. Later' = 2 * DataLen + 6 /\ Later = 5 * tries + 2 * DataLen + 6 /\ tries >= 1
    BY <1>2, <1>5, <2>1 DEF Later, Send
  <2>6. Now' = 5
    BY <2>4, Sizes
  <2>7. Now' + Later' <= Later
    BY <1>2, <2>5, <2>6
  <2> QED
    BY <1>1, <1>2, <1>3, <2>4, <2>5, <2>6, <2>7, Adds DEF Budget
<1>6. CASE stage = "setup"
  <2>1. PICK d \in Data : Send("create", <<CREATE>> \o d) /\ UNCHANGED <<tries, id, verdict>>
    BY <1>6 DEF Succeeded
  <2>2. <<CREATE>> \o d \in Seq(Byte) /\ Len(<<CREATE>> \o d) \in 1 .. Longest["create"] /\ id' \in Byte
    BY <1>1, <2>1, Requests, Sizes DEF HostType
  <2>3. HostType' /\ Shape' /\ Now' = 2 * (DataLen + 1) + 1
    BY <1>4, <2>1, <2>2, Sizes
  <2>4. Later' = 3 /\ Later = 2 * DataLen + 6
    BY <1>6, <2>1 DEF Later, Send
  <2> QED
    BY <1>1, <1>2, <1>3, <2>3, <2>4 DEF Budget
<1>7. CASE stage = "create"
  <2>1. Send("crc", <<CRC_GET>>) /\ UNCHANGED <<tries, id, verdict>>
    BY <1>7 DEF Succeeded
  <2>2. <<CRC_GET>> \in Seq(Byte) /\ Len(<<CRC_GET>>) \in 1 .. Longest["crc"] /\ id' \in Byte
    BY <1>1, <2>1, Requests, Sizes DEF HostType
  <2>3. HostType' /\ Shape' /\ Now' = 2 * Longest["crc"] + 1
    BY <1>4, <2>1, <2>2
  <2>4. Later' = 0 /\ Later = 3
    BY <1>7, <2>1 DEF Later, Send
  <2> QED
    BY <1>1, <1>2, <1>3, <2>3, <2>4, Sizes DEF Budget
<1>8. CASE stage = "crc"
  <2>1. pc' = "over" /\ verdict' = "ok" /\ UNCHANGED <<stage, tries, id, req, from, to>>
    BY <1>8 DEF Succeeded, Over
  <2>2. HostType' /\ Shape'
    BY <1>1, <2>1 DEF HostType, Shape
  <2>3. Now' = 0 /\ Later' = Later
    BY <2>1 DEF Now, Later
  <2> QED
    BY <1>1, <1>2, <1>3, <2>2, <2>3 DEF Budget
<1> QED
  BY <1>1, <1>5, <1>6, <1>7, <1>8 DEF HostType

\* Room for the longest response, and for all that the host may send in an attempt when
\* the line loses every END of it, a command frame of six bytes included.  The code has 257
\* bytes, for answers of 8.
Roomy == PoolSize >= 2 * DataLen + 32

LEMMA AllBytes ==
  /\ END \in Byte /\ ESC \in Byte /\ ESC_END \in Byte /\ ESC_ESC \in Byte
  /\ CREATE \in Byte /\ CRC_GET \in Byte /\ PING \in Byte
  /\ RESPONSE \in Byte /\ SUCCESS \in Byte /\ NOT_SUPPORTED \in Byte
BY DEF END, ESC, ESC_END, ESC_ESC, CREATE, CRC_GET, PING, RESPONSE, SUCCESS, NOT_SUPPORTED, Byte

LEMMA FitsInit == ASSUME Init PROVE Fits
<1>1. /\ PoolSize \in Nat /\ 0 \in 0 .. PoolSize /\ 0 \in Byte
      /\ [x \in 1 .. PoolSize |-> 0] \in Memory
  BY Sizes DEF Byte, Memory
<1>2. HostType
  BY <1>1, DfuLinkAssumption DEF Init, HostType
<1>3. SharedType
  <2>1. <<>> \in Seq(Byte)
    OBVIOUS
  <2> QED
    BY <1>1, <2>1 DEF Init, SharedType, Zeros
<1>4. BootType
  <2>1. slip \in Decoders
    <3>1. Overlay(Zeros, 0, PingApp) \in Memory /\ 6 \in 0 .. PoolSize
      <4>1. PingApp \in Seq(Byte)
        BY DEF PingApp, Byte
      <4>2. 0 + Len(PingApp) \in 0 .. PoolSize
        BY DfuLinkAssumption DEF PingApp
      <4> QED
        BY <1>1, <4>1, <4>2, OverlayType, DfuLinkAssumption DEF Zeros
    <3> QED
      BY <1>1, <3>1 DEF Init, Decoders, Zeros
  <2> QED
    BY <1>1, <2>1 DEF Init, BootType, Transmitters
<1>5. HistoryType
  <2>1. 0 \in 0 .. MaxLost /\ 0 \in 0 .. MaxLate
    BY DfuLinkAssumption
  <2>2. ctx \in Contexts /\ stray \in BOOLEAN /\ bare \in BOOLEAN
    BY DEF Init
  <2> QED
    BY <2>1, <2>2 DEF Init, HistoryType
<1>6. Shape
  BY DEF Init, Shape
<1>7. Budget
  <2>1. Now = 20 /\ Later = 2 * DataLen + 6 /\ Len(out) = 0
    BY Sizes DEF Init, Now, Later
  <2>2. slip.at = (IF stray THEN 6 ELSE 0)
    BY DEF Init
  <2> QED
    BY <2>1, <2>2, Sizes DEF Budget, Allowed
<1> QED
  BY <1>2, <1>3, <1>4, <1>5, <1>6, <1>7, TypeParts DEF Fits

LEMMA FitsStart == ASSUME Fits, Start, ctx' = ctx PROVE Fits'
<1>1. HostType /\ SharedType /\ BootType /\ HistoryType
  BY TypeParts DEF Fits
<1>2. /\ pc = "idle" /\ pc' = "encode" /\ stage = "check" /\ stage' = "check" /\ tries = 0
      /\ req' = <<PING, id>> /\ from' = 0 /\ to' = 0 /\ id' = (id + 1) % 256 /\ tries' = 3
      /\ UNCHANGED <<rxVars, out, bootVars, history>>
  BY DEF Fits, Shape, Start, Send
<1>3. req' \in Seq(Byte) /\ Len(req') = 2 /\ id' \in Byte /\ 0 \in 0 .. PoolSize
  BY <1>1, <1>2, Requests, NextId, Sizes DEF HostType
<1>4. HostType' /\ SharedType' /\ BootType' /\ HistoryType'
  BY <1>1, <1>2, <1>3 DEF HostType, SharedType, BootType, HistoryType, rxVars, bootVars, history
<1>5. Shape'
  BY <1>2, <1>3, Sizes DEF Shape
<1>6. Budget'
  <2>1. Now = 20 /\ Later = 2 * DataLen + 6 /\ Now' = 5 /\ Later' = 2 * DataLen + 21
    BY <1>2, Sizes DEF Now, Later
  <2>2. slip' = slip /\ out' = out /\ slip.at \in Nat /\ Len(out) \in Nat /\ stray' = stray
    BY <1>1, <1>2 DEF bootVars, history, SharedType, BootType, Decoders
  <2> QED
    BY <2>1, <2>2, Sizes, AllowedIs DEF Fits, Budget
<1> QED
  BY <1>4, <1>5, <1>6, TypePartsNext DEF Fits

LEMMA FitsEncode == ASSUME Roomy, Fits, Encode, ctx' = ctx PROVE Fits'
<1>1. HostType /\ SharedType /\ BootType /\ HistoryType
  BY TypeParts DEF Fits
<1>2. /\ pc = "encode" /\ UNCHANGED <<stage, tries, id, req, rxLen, len, ready, out, bootVars, history>>
      /\ Len(req) \in 1 .. Longest[stage] /\ from <= Len(req) /\ to <= 2 * from
      /\ stage = "check" => tries \in 1 .. 3
  BY DEF Encode, Fits, Shape
<1>3. from \in Nat /\ to \in Nat /\ DataLen \in Nat /\ PoolSize \in Nat /\ pool \in Memory
      /\ Longest[stage] \in 1 .. DataLen + 1
  BY <1>1, Sizes DEF HostType, SharedType
<1>4. SharedType' /\ BootType' /\ HistoryType' <=> pool' \in Memory
  BY <1>1, <1>2 DEF SharedType, BootType, HistoryType, bootVars, history
<1>5. CASE from < Len(req)
  <2> DEFINE c == Code(req[from + 1])
  <2>1. pool' = Overlay(pool, to, c) /\ to' = to + Len(c) /\ from' = from + 1 /\ pc' = pc
    BY <1>2, <1>5 DEF Encode
  <2>2. c \in Seq(Byte) /\ Len(c) \in {1, 2}
    <3>1. req[from + 1] \in Byte
      BY <1>1, <1>3, <1>5 DEF HostType
    <3> QED
      BY <3>1, CodeType
  <2> HIDE DEF c
  <2>3. pool' \in Memory
    BY <1>3, <2>1, <2>2, OverlayType
  <2>4. to' <= 2 * from' /\ from' <= Len(req) /\ to' \in 0 .. PoolSize /\ from' \in 0 .. PoolSize
    <3>1. from' <= Len(req) /\ Len(req) \in 1 .. DataLen + 1 /\ to' <= 2 * from' /\ from' \in Nat
          /\ to' \in Nat
      <4>1. Len(req) \in 1 .. DataLen + 1
        BY <1>2, <1>3
      <4>2. PICK n : n = Len(c)
        OBVIOUS
      <4>3. n <= 2 /\ n \in Nat
        BY <2>2, <4>2
      <4> QED
        BY <1>2, <1>3, <1>5, <2>1, <4>1, <4>2, <4>3
    <3>2. \A f, t, n \in Nat : f <= n /\ n <= DataLen + 1 /\ t <= 2 * f
                               => f \in 0 .. PoolSize /\ t \in 0 .. PoolSize
      BY Sizes DEF Roomy
    <3>3. PICK n : n = Len(req)
      OBVIOUS
    <3>4. n \in Nat /\ from' <= n /\ n <= DataLen + 1
      BY <1>3, <3>1, <3>3
    <3> QED
      BY <3>1, <3>2, <3>4
  <2>5. HostType'
    BY <1>1, <1>2, <2>1, <2>4 DEF HostType, history
  <2>6. Shape'
    BY <1>2, <2>1, <2>4 DEF Shape
  <2>7. Budget'
    BY <1>2, <2>1 DEF Fits, Budget, Allowed, Now, Later, bootVars, history
  <2> QED
    BY <1>4, <2>3, <2>5, <2>6, <2>7, TypePartsNext DEF Fits
<1>6. CASE ~ (from < Len(req))
  <2>1. pool' = Overlay(pool, to, <<END>>) /\ to' = to + 1 /\ from' = 0 /\ pc' = "copy"
    BY <1>2, <1>6 DEF Encode
  <2>2. pool' \in Memory
    <3>1. <<END>> \in Seq(Byte)
      BY AllBytes, OneByte
    <3> QED
      BY <1>3, <2>1, <3>1, OverlayType
  <2>3. to' <= 2 * Longest[stage] + 1 /\ 0 < to' /\ to' \in 0 .. PoolSize /\ from' \in 0 .. PoolSize
    BY <1>2, <1>3, <1>6, <2>1 DEF Roomy
  <2>4. HostType'
    BY <1>1, <1>2, <2>1, <2>3 DEF HostType, history
  <2>5. Shape'
    BY <1>2, <2>1, <2>3 DEF Shape
  <2>6. Budget'
    <3>1. Now = 2 * Longest[stage] + 1 /\ Now' = to'
      BY <1>2, <2>1, <2>3, <1>3 DEF Now
    <3>2. Later' = Later /\ slip' = slip /\ out' = out /\ stray' = stray
      BY <1>2, <2>1 DEF Later, bootVars, history
    <3>3. slip.at \in Nat /\ Len(out) \in Nat /\ Later \in Nat
      <4>1. Later \in Nat
        BY <1>1, <1>3 DEF Later, HostType
      <4> QED
        BY <1>1, <1>3, <4>1 DEF SharedType, BootType, Decoders
    <3> QED
      BY <1>3, <2>3, <3>1, <3>2, <3>3, AllowedIs, SMTT(30) DEF Fits, Budget
  <2> QED
    BY <1>4, <2>2, <2>4, <2>5, <2>6, TypePartsNext DEF Fits
<1> QED
  BY <1>5, <1>6

LEMMA FitsCopy == ASSUME Fits, Copy, ctx' = ctx PROVE Fits'
<1>1. HostType /\ SharedType /\ BootType /\ HistoryType
  BY TypeParts DEF Fits
<1>2. /\ pc = "copy" /\ out' = Append(out, pool[from + 1]) /\ from' = from + 1
      /\ pc' = (IF from + 1 = to THEN "wait" ELSE "copy")
      /\ UNCHANGED <<stage, tries, id, req, to, rxVars, bootVars, history>>
      /\ Len(req) \in 1 .. Longest[stage] /\ from < to
      /\ stage = "check" => tries \in 1 .. 3
  BY DEF Copy, Fits, Shape
<1>3. from \in 0 .. PoolSize /\ to \in 0 .. PoolSize /\ PoolSize \in Nat /\ pool \in Memory
  BY <1>1, Sizes DEF HostType, SharedType
<1>4. from' \in 0 .. PoolSize /\ from' <= to /\ pool[from + 1] \in Byte
  BY <1>2, <1>3 DEF Memory
<1>5. HostType'
  BY <1>1, <1>2, <1>4 DEF HostType, history
<1>6. out' \in Seq(Byte) /\ Len(out') = Len(out) + 1 /\ Len(out) \in Nat
  BY <1>1, <1>2, <1>4 DEF SharedType
<1>7. SharedType' /\ BootType' /\ HistoryType'
  BY <1>1, <1>2, <1>6 DEF SharedType, BootType, HistoryType, rxVars, bootVars, history
<1>8. Shape'
  BY <1>2, <1>3, <1>4 DEF Shape
<1>9. Budget'
  <2>1. Now = to - from /\ Now' = to - from - 1
    BY <1>2, <1>3 DEF Now
  <2>2. Later' = Later /\ slip' = slip /\ stray' = stray
    BY <1>2 DEF Later, bootVars, history
  <2>3. slip.at \in Nat /\ Later \in Nat
    BY <1>1, Sizes, SMTT(30) DEF BootType, Decoders, Later, HostType
  <2>4. Budget => Budget'
    <3>1. Allowed' = Allowed /\ Allowed \in Nat
      BY <2>2, AllowedIs
    <3>2. PICK a, m, w : a = slip.at /\ m = Later /\ w = Allowed
      OBVIOUS
    <3>3. a \in Nat /\ m \in Nat /\ w \in Nat
      BY <2>3, <3>1, <3>2
    <3>4. a + Len(out) + (to - from) + m <= w <=> a + (Len(out) + 1) + (to - from - 1) + m <= w
      BY <1>3, <1>6, <3>3
    <3> QED
      BY <1>6, <2>1, <2>2, <3>1, <3>2, <3>4 DEF Budget
  <2> QED
    BY <2>4 DEF Fits
<1> QED
  BY <1>5, <1>7, <1>8, <1>9, TypePartsNext DEF Fits
LEMMA FitsRead == ASSUME Fits, Read, ctx' = ctx PROVE Fits'
<1>1. HostType /\ SharedType /\ BootType /\ HistoryType
  BY TypeParts DEF Fits
<1>2. /\ pc = "wait" /\ pc' = "read" /\ req' \in {req, <<>>} /\ rxLen' = 0 /\ len' = 0
      /\ UNCHANGED <<stage, tries, id, from, to, pool, ready, out, bootVars, history>>
      /\ stage = "check" => tries \in 1 .. 3
  BY DEF Fits, Shape, Read
<1>3. HostType'
  <2>1. <<>> \in Seq(Byte)
    OBVIOUS
  <2> QED
    BY <1>1, <1>2, <2>1 DEF HostType, history
<1>4. SharedType' /\ BootType' /\ HistoryType'
  BY <1>1, <1>2, Sizes DEF SharedType, BootType, HistoryType, bootVars, history
<1>5. Shape'
  BY <1>2 DEF Shape
<1>6. Budget'
  BY <1>2 DEF Fits, Budget, Allowed, Now, Later, bootVars, history
<1> QED
  BY <1>3, <1>4, <1>5, <1>6, TypePartsNext DEF Fits

LEMMA FitsReturn == ASSUME Fits, Return, ctx' = ctx PROVE Fits'
<1>1. HostType /\ SharedType /\ BootType /\ HistoryType
  BY TypeParts DEF Fits
<1>2. /\ pc = "read" /\ ready' = FALSE /\ (Failed \/ Succeeded)
      /\ UNCHANGED <<pool, rxLen, len, out, bootVars, lost, late, bare, stray>>
  BY DEF Return
<1>3. HostType' /\ Shape' /\ Budget'
  <2>1. UNCHANGED <<slip, out, stray>>
    BY <1>2 DEF bootVars
  <2> QED
    BY <1>2, <2>1, FailedFits, SucceededFits
<1>4. SharedType' /\ BootType' /\ HistoryType'
  BY <1>1, <1>2 DEF SharedType, BootType, HistoryType, bootVars
<1> QED
  BY <1>3, <1>4, TypePartsNext DEF Fits

LEMMA FitsTimeout == ASSUME Fits, Timeout, ctx' = ctx PROVE Fits'
<1>1. HostType /\ SharedType /\ BootType /\ HistoryType
  BY TypeParts DEF Fits
<1>2. /\ pc = "wait" /\ Failed /\ UNCHANGED <<rxVars, out, bootVars, lost, bare, stray>>
      /\ late' = late \/ (late < MaxLate /\ late' = late + 1)
  BY DEF Timeout
<1>3. HostType' /\ Shape' /\ Budget'
  <2>1. UNCHANGED <<slip, out, stray>>
    BY <1>2 DEF bootVars
  <2> QED
    BY <1>2, <2>1, FailedFits
<1>4. SharedType' /\ BootType'
  BY <1>1, <1>2 DEF SharedType, BootType, bootVars, rxVars
<1>5. HistoryType'
  BY <1>1, <1>2, DfuLinkAssumption DEF HistoryType
<1> QED
  BY <1>3, <1>4, <1>5, TypePartsNext DEF Fits

LEMMA FitsRxByte == ASSUME Fits, RxByte, ctx' = ctx PROVE Fits'
<1>1. HostType /\ SharedType /\ BootType /\ HistoryType
  BY TypeParts DEF Fits
<1> DEFINE b == rsp.buf[rsp.at + 1]
<1>2. /\ rsp.at < rsp.len /\ rxLen < PoolSize /\ rsp' = [rsp EXCEPT !.at = @ + 1]
      /\ pool' = [pool EXCEPT ![rxLen + 1] = b] /\ rxLen' = rxLen + 1
      /\ len' \in {len, rxLen + 1} /\ ready' \in {ready, b = END}
      /\ UNCHANGED <<hostVars, out, slip, todo, given, history>>
  BY DEF RxByte
<1>3. /\ rsp.at \in 0 .. PoolSize /\ rsp.len \in 0 .. PoolSize /\ rsp.len <= Len(rsp.buf)
      /\ rsp.buf \in Seq(Byte) /\ PoolSize \in Nat
  BY <1>1, Sizes DEF BootType, Transmitters
<1>4. b \in Byte
  BY <1>2, <1>3
<1> HIDE DEF b
<1>5. pool' \in Memory /\ rxLen' \in 0 .. PoolSize /\ len' \in 0 .. PoolSize
  BY <1>1, <1>2, <1>4, Sizes DEF SharedType, Memory
<1>6. SharedType'
  BY <1>1, <1>2, <1>5 DEF SharedType
<1>7. rsp' \in Transmitters /\ rsp'.at = rsp.at + 1 /\ rsp'.len = rsp.len /\ rsp'.buf = rsp.buf
  BY <1>1, <1>2, <1>3 DEF BootType, Transmitters
<1>8. BootType'
  BY <1>1, <1>2, <1>3, <1>7 DEF BootType
<1>9. HostType' /\ HistoryType'
  BY <1>1, <1>2 DEF HostType, HistoryType, hostVars, history
<1>10. Shape' /\ Budget'
  BY <1>2 DEF Fits, Shape, Budget, Allowed, Now, Later, hostVars, history
<1> QED
  BY <1>6, <1>8, <1>9, <1>10, TypePartsNext DEF Fits

\* What one byte makes of the decoder of the bootloader.
LEMMA FitsBootByte == ASSUME Roomy, Fits, BootByte, ctx' = ctx PROVE Fits'
<1>1. HostType /\ SharedType /\ BootType /\ HistoryType
  BY TypeParts DEF Fits
<1>2. /\ pc # "copy" /\ out # <<>> /\ out' = Tail(out)
      /\ UNCHANGED <<hostVars, rxVars, rsp, given, history>>
  BY DEF BootByte
<1>3. /\ out \in Seq(Byte) /\ Head(out) \in Byte /\ out' \in Seq(Byte)
      /\ Len(out') = Len(out) - 1 /\ Len(out) \in Nat /\ Len(out) >= 1
  BY <1>1, <1>2 DEF SharedType
<1>4. Now \in Nat /\ Later \in Nat /\ Now' = Now /\ Later' = Later
  <2>1. Now \in Nat
    <3>1. Longest[stage] \in Nat
      BY <1>1, Sizes DEF HostType
    <3>2. pc = "copy" => to - from \in Nat
      BY <1>2
    <3> QED
      BY <3>1, <3>2, <1>2 DEF Now
  <2>2. Later \in Nat
    BY <1>1, Sizes DEF Later, HostType
  <2> QED
    BY <1>2, <2>1, <2>2 DEF Now, Later, hostVars
<1>5. /\ slip.buf \in Memory /\ slip.at \in 0 .. PoolSize /\ slip.at + 1 <= PoolSize
      /\ PoolSize \in Nat
  <2>1. slip.at \in 0 .. PoolSize /\ slip.buf \in Memory /\ PoolSize \in Nat /\ DataLen \in Nat
    BY <1>1, Sizes DEF BootType, Decoders
  <2>2. Allowed \in Nat /\ Allowed <= PoolSize
    BY <2>1, AllowedIs DEF Roomy
  <2>3. PICK a, n, m, w : a = slip.at /\ n = Now /\ m = Later /\ w = Allowed
    OBVIOUS
  <2>4. a + Len(out) + n + m <= w /\ a \in Nat /\ n \in Nat /\ m \in Nat /\ w \in Nat /\ w <= PoolSize
    BY <1>4, <2>1, <2>2, <2>3 DEF Fits, Budget
  <2>5. a + 1 <= PoolSize
    BY <1>3, <2>1, <2>4
  <2> QED
    BY <2>1, <2>3, <2>5
<1>6. \/ /\ todo' = Append(todo, [op |-> slip.buf[1], arg |-> slip.buf[2],
                                   whole |-> SubSeq(slip.buf, 1, slip.at)])
         /\ slip' = [slip EXCEPT !.at = 0]
      \/ todo' = todo /\ \E s \in {"escaped", "clearing"} : slip' = [slip EXCEPT !.state = s]
      \/ todo' = todo /\ \E b \in Byte : Put(b)
      \/ todo' = todo /\ slip' = [slip EXCEPT !.at = 0, !.state = "decoding"]
      \/ todo' = todo /\ slip' = slip
  <2>1. slip.state \in {"decoding", "escaped", "clearing"}
    BY <1>1 DEF BootType, Decoders
  <2>2. ESC # END /\ ESC_END # ESC_ESC
    BY DEF ESC, END, ESC_END, ESC_ESC
  <2> DEFINE b == Head(out)
  <2>3. b \in Byte
    BY <1>3
  <2> HIDE DEF b
  <2>4. CASE slip.state = "decoding"
    <3>1. CASE b = END
      BY <2>2, <2>4, <3>1 DEF BootByte, b
    <3>2. CASE b = ESC
      BY <2>2, <2>4, <3>2 DEF BootByte, Become, b
    <3>3. CASE b \notin {END, ESC}
      <4>1. Put(b) /\ todo' = todo
        BY <2>2, <2>4, <3>3 DEF BootByte, b
      <4> QED
        BY <2>3, <4>1
    <3> QED
      BY <3>1, <3>2, <3>3
  <2>5. CASE slip.state = "escaped"
    <3>1. CASE b = ESC_END
      <4>1. Put(END) /\ todo' = todo
        BY <2>2, <2>5, <3>1 DEF BootByte, b
      <4> QED
        BY <4>1, AllBytes
    <3>2. CASE b = ESC_ESC
      <4>1. Put(ESC) /\ todo' = todo
        BY <2>2, <2>5, <3>2 DEF BootByte, b
      <4> QED
        BY <4>1, AllBytes
    <3>3. CASE b \notin {ESC_END, ESC_ESC}
      BY <2>2, <2>5, <3>3 DEF BootByte, Become, b
    <3> QED
      BY <3>1, <3>2, <3>3
  <2>6. CASE slip.state = "clearing"
    BY <2>6 DEF BootByte
  <2> QED
    BY <2>1, <2>4, <2>5, <2>6
<1>7. slip' \in Decoders /\ slip'.at <= slip.at + 1 /\ slip'.at \in Nat /\ todo' \in Seq(Packets)
  <2>1. slip \in Decoders /\ todo \in Seq(Packets)
    BY <1>1 DEF BootType
  <2>2. CASE /\ todo' = Append(todo, [op |-> slip.buf[1], arg |-> slip.buf[2],
                                       whole |-> SubSeq(slip.buf, 1, slip.at)])
             /\ slip' = [slip EXCEPT !.at = 0]
    <3>1. slip.buf[1] \in Byte /\ slip.buf[2] \in Byte
      BY <1>5, Sizes DEF Roomy, Memory
    <3>2. SubSeq(slip.buf, 1, slip.at) \in Seq(Byte)
      BY <1>5, MemoryIs
    <3>3. [op |-> slip.buf[1], arg |-> slip.buf[2], whole |-> SubSeq(slip.buf, 1, slip.at)] \in Packets
      BY <3>1, <3>2 DEF Packets
    <3>4. slip' \in Decoders /\ slip'.at = 0
      <4>1. 0 \in 0 .. PoolSize
        BY Sizes
      <4> QED
        BY <2>1, <2>2, <4>1 DEF Decoders
    <3> QED
      BY <1>5, <2>1, <2>2, <3>3, <3>4
  <2>3. CASE todo' = todo /\ \E s \in {"escaped", "clearing"} : slip' = [slip EXCEPT !.state = s]
    <3>1. slip' \in Decoders /\ slip'.at = slip.at
      BY <2>1, <2>3 DEF Decoders
    <3> QED
      BY <1>5, <2>1, <2>3, <3>1
  <2>4. CASE todo' = todo /\ \E b \in Byte : Put(b)
    <3>1. PICK b \in Byte : Put(b)
      BY <2>4
    <3>2. [slip.buf EXCEPT ![slip.at + 1] = b] \in Memory
      BY <1>5 DEF Memory
    <3>3. slip' \in Decoders /\ slip'.at = slip.at + 1
      BY <1>5, <3>1, <3>2 DEF Put, Decoders
    <3> QED
      BY <1>5, <2>1, <2>4, <3>3
  <2>5. CASE todo' = todo /\ slip' = [slip EXCEPT !.at = 0, !.state = "decoding"]
    <3>1. slip' \in Decoders /\ slip'.at = 0
      <4>1. 0 \in 0 .. PoolSize
        BY Sizes
      <4> QED
        BY <2>1, <2>5, <4>1 DEF Decoders
    <3> QED
      BY <1>5, <2>1, <2>5, <3>1
  <2>6. CASE todo' = todo /\ slip' = slip
    BY <1>5, <2>1, <2>6
  <2> QED
    BY <1>6, <2>2, <2>3, <2>4, <2>5, <2>6
<1>8. HostType' /\ HistoryType'
  BY <1>1, <1>2 DEF HostType, HistoryType, hostVars, history
<1>9. SharedType' /\ BootType'
  BY <1>1, <1>2, <1>3, <1>7 DEF SharedType, BootType, rxVars
<1>10. Shape'
  BY <1>2 DEF Fits, Shape, hostVars
<1>11. Budget'
  <2>1. PICK a, c, n, m : a = slip.at /\ c = slip'.at /\ n = Now /\ m = Later
    OBVIOUS
  <2>2. /\ a \in Nat /\ c \in Nat /\ n \in Nat /\ m \in Nat /\ c <= a + 1
        /\ a + Len(out) + n + m <= Allowed
    BY <1>4, <1>5, <1>7, <2>1 DEF Fits, Budget
  <2>3. c + (Len(out) - 1) + n + m <= Allowed
    BY <1>3, <2>2, AllowedIs
  <2>4. Allowed' = Allowed
    BY <1>2, AllowedIs DEF history
  <2> QED
    BY <1>3, <1>4, <2>1, <2>3, <2>4 DEF Budget
<1> QED
  BY <1>8, <1>9, <1>10, <1>11, TypePartsNext DEF Fits
LEMMA ResponsesType ==
  ASSUME NEW r \in Packets, NEW p \in Responses(r)
  PROVE  p \in Seq(Byte) /\ Len(p) <= DataLen + 3
<1>1. r.op \in Byte /\ r.arg \in Byte /\ DataLen \in Nat /\ DataLen >= 1
  BY Sizes DEF Packets
<1>2. \A a, b, c \in Byte : <<a, b, c>> \in Seq(Byte) /\ Len(<<a, b, c>>) = 3
  OBVIOUS
<1>3. \A a, b, c, d \in Byte : <<a, b, c, d>> \in Seq(Byte) /\ Len(<<a, b, c, d>>) = 4
  OBVIOUS
<1>4. CASE r.op = PING
  <2>1. p = <<RESPONSE, PING, SUCCESS, r.arg>>
    BY <1>4 DEF Responses, PING, CREATE, CRC_GET
  <2> QED
    BY <1>1, <1>3, <2>1, AllBytes
<1>5. CASE r.op = CREATE
  <2>1. p = <<RESPONSE, CREATE, SUCCESS>>
    BY <1>5 DEF Responses, PING, CREATE, CRC_GET
  <2> QED
    BY <1>1, <1>2, <2>1, AllBytes
<1>6. CASE r.op = CRC_GET
  <2>1. PICK d \in Data : p = <<RESPONSE, CRC_GET, SUCCESS>> \o d
    BY <1>6 DEF Responses, PING, CREATE, CRC_GET
  <2> DEFINE h == <<RESPONSE, CRC_GET, SUCCESS>>
  <2>2. h \in Seq(Byte) /\ Len(h) = 3 /\ d \in Seq(Byte) /\ Len(d) = DataLen
    BY <1>2, AllBytes, DataIs
  <2>3. p = h \o d
    BY <2>1
  <2> HIDE DEF h
  <2>4. h \o d \in Seq(Byte) /\ Len(h \o d) = Len(h) + Len(d)
    BY <2>2, ConcatProperties
  <2> QED
    BY <1>1, <2>2, <2>3, <2>4
<1>7. CASE r.op \notin {PING, CREATE, CRC_GET}
  <2>1. p = <<RESPONSE, r.op, NOT_SUPPORTED>>
    BY <1>7 DEF Responses
  <2> QED
    BY <1>1, <1>2, <2>1, AllBytes
<1> QED
  BY <1>4, <1>5, <1>6, <1>7

LEMMA FitsAnswer == ASSUME Roomy, Fits, Answer, ctx' = ctx PROVE Fits'
<1>1. HostType /\ SharedType /\ BootType /\ HistoryType
  BY TypeParts DEF Fits
<1>2. todo # <<>> /\ todo' = Tail(todo) /\ UNCHANGED <<hostVars, rxVars, out, slip, history>>
  BY DEF Answer
<1>3. PICK p \in Responses(Head(todo)) :
        IF rsp.at = rsp.len
        THEN rsp' = [buf |-> Encoded(p), at |-> 0, len |-> Len(Encoded(p))]
        ELSE rsp' = [rsp EXCEPT !.buf = Encoded(p) \o SubSeq(@, Len(Encoded(p)) + 1, Len(@))]
  BY DEF Answer
<1>4. Head(todo) \in Packets /\ todo' \in Seq(Packets)
  BY <1>1, <1>2 DEF BootType
<1> DEFINE e == Encoded(p)
<1>5. e \in Seq(Byte) /\ Len(e) \in 0 .. PoolSize
  <2>1. p \in Seq(Byte) /\ Len(p) <= DataLen + 3
    BY <1>4, ResponsesType
  <2>2. e \in Seq(Byte) /\ Len(e) = Len(Flat(p)) + 1 /\ Len(Flat(p)) <= 2 * Len(p) /\ Flat(p) \in Seq(Byte)
    BY <2>1, FlatType, FlatFree
  <2>3. PICK n, m : n = Len(p) /\ m = Len(Flat(p))
    OBVIOUS
  <2>4. n \in Nat /\ m \in Nat /\ n <= DataLen + 3 /\ m <= 2 * n /\ Len(e) = m + 1
    BY <2>1, <2>2, <2>3
  <2> HIDE DEF e
  <2> QED
    BY <2>2, <2>4, Sizes DEF Roomy
<1>6. /\ rsp.at \in 0 .. PoolSize /\ rsp.len \in 0 .. PoolSize /\ rsp.len <= Len(rsp.buf)
      /\ rsp.at <= rsp.len /\ rsp.buf \in Seq(Byte) /\ PoolSize \in Nat /\ rsp \in Transmitters
  BY <1>1, Sizes DEF BootType, Transmitters
<1> HIDE DEF e
<1>7. rsp' \in Transmitters /\ rsp'.at <= rsp'.len /\ rsp'.len <= Len(rsp'.buf)
  <2>1. CASE rsp.at = rsp.len
    <3>1. rsp' = [buf |-> e, at |-> 0, len |-> Len(e)]
      BY <1>3, <2>1 DEF e
    <3>2. 0 \in 0 .. PoolSize
      BY Sizes
    <3>3. rsp' \in Transmitters /\ rsp'.at = 0 /\ rsp'.len = Len(e) /\ rsp'.buf = e
      BY <1>5, <3>1, <3>2 DEF Transmitters
    <3> QED
      BY <1>5, <3>3
  <2>2. CASE rsp.at # rsp.len
    <3> DEFINE r == SubSeq(rsp.buf, Len(e) + 1, Len(rsp.buf))
    <3>1. r \in Seq(Byte) /\ Len(r) = IF Len(e) + 1 <= Len(rsp.buf) THEN Len(rsp.buf) - Len(e) ELSE 0
      BY <1>5, <1>6
    <3>2. rsp' = [rsp EXCEPT !.buf = e \o r]
      BY <1>3, <2>2 DEF e
    <3> HIDE DEF r
    <3>3. e \o r \in Seq(Byte) /\ Len(rsp.buf) <= Len(e \o r)
      BY <1>5, <1>6, <3>1
    <3>4. rsp' \in Transmitters /\ rsp'.at = rsp.at /\ rsp'.len = rsp.len /\ rsp'.buf = e \o r
      BY <1>6, <3>2, <3>3 DEF Transmitters
    <3> QED
      BY <1>6, <3>3, <3>4
  <2> QED
    BY <2>1, <2>2
<1>8. HostType' /\ SharedType' /\ HistoryType'
  BY <1>1, <1>2 DEF HostType, SharedType, HistoryType, hostVars, rxVars, history
<1>9. BootType'
  BY <1>1, <1>2, <1>4, <1>7 DEF BootType
<1>10. Shape' /\ Budget'
  BY <1>2 DEF Fits, Shape, Budget, Allowed, Now, Later, hostVars, history
<1> QED
  BY <1>8, <1>9, <1>10, TypePartsNext DEF Fits

LEMMA FitsLoseByte == ASSUME Fits, LoseByte, ctx' = ctx PROVE Fits'
<1>1. HostType /\ SharedType /\ BootType /\ HistoryType
  BY TypeParts DEF Fits
<1>2. /\ lost < MaxLost /\ lost' = lost + 1
      /\ UNCHANGED <<hostVars, rxVars, slip, todo, given, verdict, late, stray>>
  BY DEF LoseByte
<1>3. HistoryType' <=> bare' \in BOOLEAN
  BY <1>1, <1>2, DfuLinkAssumption DEF HistoryType
<1>4. HostType' /\ Shape' /\ Now' = Now /\ Later' = Later
  BY <1>1, <1>2 DEF Fits, HostType, Shape, Now, Later, hostVars
<1>5. CASE pc # "copy" /\ out # <<>> /\ out' = Tail(out) /\ UNCHANGED <<rsp, bare>>
  <2>1. out' \in Seq(Byte) /\ Len(out') = Len(out) - 1 /\ Len(out) \in Nat
    BY <1>1, <1>5 DEF SharedType
  <2>2. SharedType' /\ BootType' /\ HistoryType'
    BY <1>1, <1>2, <1>3, <1>5, <2>1 DEF SharedType, BootType, HistoryType, rxVars
  <2>3. Budget'
    <3>1. Now \in Nat /\ Later \in Nat /\ slip.at \in Nat
      <4>1. Longest[stage] \in Nat
        BY <1>1, Sizes DEF HostType
      <4>2. Now \in Nat
        BY <1>5, <4>1 DEF Now
      <4>3. Later \in Nat
        BY <1>1, Sizes DEF Later, HostType
      <4> QED
        BY <1>1, <4>2, <4>3, Sizes DEF BootType, Decoders
    <3>2. PICK a, n, m : a = slip.at /\ n = Now /\ m = Later
      OBVIOUS
    <3>3. a \in Nat /\ n \in Nat /\ m \in Nat /\ a + Len(out) + n + m <= Allowed
      BY <3>1, <3>2 DEF Fits, Budget
    <3>4. a + (Len(out) - 1) + n + m <= Allowed
      BY <2>1, <3>3, AllowedIs
    <3>5. Allowed' = Allowed
      BY <1>2, AllowedIs
    <3> QED
      BY <1>2, <1>4, <2>1, <3>2, <3>4, <3>5 DEF Budget
  <2> QED
    BY <1>4, <2>2, <2>3, TypePartsNext DEF Fits
<1>6. CASE /\ rsp.at < rsp.len /\ rsp' = [rsp EXCEPT !.at = @ + 1]
           /\ bare' = (bare \/ rsp.buf[rsp.at + 1] = ESC)
           /\ UNCHANGED out
  <2>1. /\ rsp.at \in 0 .. PoolSize /\ rsp.len \in 0 .. PoolSize /\ rsp.len <= Len(rsp.buf)
        /\ rsp.buf \in Seq(Byte) /\ PoolSize \in Nat /\ rsp \in Transmitters
    BY <1>1, Sizes DEF BootType, Transmitters
  <2>2. rsp' \in Transmitters /\ rsp'.at = rsp.at + 1 /\ rsp'.len = rsp.len /\ rsp'.buf = rsp.buf
    BY <1>6, <2>1 DEF Transmitters
  <2>3. BootType'
    BY <1>1, <1>2, <1>6, <2>1, <2>2 DEF BootType
  <2>4. SharedType' /\ HistoryType'
    BY <1>1, <1>2, <1>3, <1>6 DEF SharedType, HistoryType, rxVars
  <2>5. Budget'
    BY <1>2, <1>4, <1>6 DEF Fits, Budget, Allowed
  <2> QED
    BY <1>4, <2>3, <2>4, <2>5, TypePartsNext DEF Fits
<1> QED
  BY <1>5, <1>6 DEF LoseByte

From(s, k) == SubSeq(s, k + 1, Len(s))

LEMMA FromIs ==
  ASSUME NEW s \in Seq(Byte), NEW k \in 0 .. Len(s)
  PROVE  /\ From(s, k) \in Seq(Byte)
         /\ k = 0 => From(s, k) = s
         /\ k = Len(s) => From(s, k) = <<>>
         /\ k < Len(s) => /\ From(s, k) # <<>> /\ Head(From(s, k)) = s[k + 1] /\ s[k + 1] \in Byte
                          /\ Tail(From(s, k)) = From(s, k + 1) /\ k + 1 \in 0 .. Len(s)
<1>1. Len(s) \in Nat /\ k \in Nat /\ k <= Len(s)
  OBVIOUS
<1>2. From(s, k) \in Seq(Byte) /\ Len(From(s, k)) = Len(s) - k
      /\ \A i \in 1 .. Len(s) - k : From(s, k)[i] = s[k + i]
  BY <1>1 DEF From
<1>3. k = 0 => From(s, k) = s
  BY <1>1 DEF From
<1>4. k = Len(s) => From(s, k) = <<>>
  BY <1>1, <1>2
<1>5. ASSUME k < Len(s)
      PROVE  /\ From(s, k) # <<>> /\ Head(From(s, k)) = s[k + 1] /\ s[k + 1] \in Byte
             /\ Tail(From(s, k)) = From(s, k + 1) /\ k + 1 \in 0 .. Len(s)
  <2>1. From(s, k) # <<>> /\ k + 1 \in 1 .. Len(s) /\ k + 1 \in 0 .. Len(s)
    BY <1>1, <1>2, <1>5
  <2>2. Head(From(s, k)) = s[k + 1] /\ s[k + 1] \in Byte
    BY <1>1, <1>2, <1>5, <2>1
  <2>3. Tail(From(s, k)) = From(s, k + 1)
    <3>1. k + 1 \in 1 .. Len(s) /\ Len(s) \in k + 1 .. Len(s)
      BY <1>1, <1>5
    <3> QED
      BY <3>1, HeadTailOfSubSeq DEF From
  <2> QED
    BY <2>1, <2>2, <2>3
<1> QED
  BY <1>2, <1>3, <1>4, <1>5

LEMMA RestIs ==
  ASSUME NEW f \in Seq(Byte), Len(f) = 6, NEW k \in 0 .. 5
  PROVE  /\ Rest(f, k) \in Seq(Byte) /\ Len(Rest(f, k)) = 6 - k
         /\ \A j \in 1 .. 6 - k : Rest(f, k)[j] = f[k + j]
<1>1. k + 1 \in 1 .. 6 /\ k \in Nat
  OBVIOUS
<1>2. ASSUME NEW i \in k + 1 .. 6
      PROVE  f[i] \in Byte
  <2>1. \A s \in Seq(Byte) : \A j \in 1 .. Len(s) : s[j] \in Byte
    OBVIOUS
  <2>2. i \in 1 .. Len(f)
    BY <1>1
  <2> QED
    BY <2>1, <2>2
<1>3. PICK m : m = k + 1
  OBVIOUS
<1>4. m \in Int /\ m <= 6 /\ \A i \in m .. 6 : f[i] \in Byte
  BY <1>1, <1>2, <1>3
<1>5. /\ SubSeq(f, m, 6) \in Seq(Byte) /\ Len(SubSeq(f, m, 6)) = 6 - m + 1
      /\ \A j \in 1 .. 6 - m + 1 : SubSeq(f, m, 6)[j] = f[m + j - 1]
  BY <1>4, SubSeqProperties
<1>6. 6 - m + 1 = 6 - k /\ \A j \in 1 .. 6 - k : m + j - 1 = k + j
  BY <1>1, <1>3
<1> QED
  BY <1>3, <1>5, <1>6 DEF Rest

\* A command frame, or what is left of one.
LEMMA StrayIs ==
  /\ PingApp \in Seq(Byte) /\ EnterBl \in Seq(Byte) /\ Len(PingApp) = 6 /\ Len(EnterBl) = 6
  /\ PingApp \in Strays
  /\ \A f \in {PingApp, EnterBl}, k \in 0 .. 5 :
       Rest(f, k) \in Seq(Byte) /\ Len(Rest(f, k)) \in 1 .. 6 /\ Rest(f, k) \in Strays
<1>1. /\ PingApp \in Seq(Byte) /\ EnterBl \in Seq(Byte) /\ Len(PingApp) = 6 /\ Len(EnterBl) = 6
  BY DEF PingApp, EnterBl, Byte
<1>2. ASSUME NEW f \in Seq(Byte), Len(f) = 6, NEW k \in 0 .. 5
      PROVE  Rest(f, k) \in Seq(Byte) /\ Len(Rest(f, k)) = 6 - k
  BY <1>2, RestIs
<1>3. PingApp \in Strays
  <2>1. Rest(PingApp, 0) = PingApp
    BY <1>1, FromIs DEF Rest, From
  <2>2. Rest(PingApp, 0) \in Strays
    BY DEF Strays
  <2> QED
    BY <2>1, <2>2
<1>4. ASSUME NEW f \in {PingApp, EnterBl}, NEW k \in 0 .. 5
      PROVE  Rest(f, k) \in Seq(Byte) /\ Len(Rest(f, k)) \in 1 .. 6 /\ Rest(f, k) \in Strays
  <2>1. Rest(f, k) \in Strays
    BY DEF Strays
  <2>2. Rest(f, k) \in Seq(Byte) /\ Len(Rest(f, k)) = 6 - k
    BY <1>1, <1>2
  <2> QED
    BY <2>1, <2>2
<1> QED
  BY <1>1, <1>3, <1>4

LEMMA FitsPress == ASSUME Fits, Press, ctx' = ctx PROVE Fits'
<1>1. HostType /\ SharedType /\ BootType /\ HistoryType
  BY TypeParts DEF Fits
<1>2. /\ ~stray /\ stray' = TRUE
      /\ UNCHANGED <<hostVars, rxVars, bootVars, verdict, lost, late, bare>>
  BY DEF Press
<1>3. PICK s \in Seq(Byte) : out' = out \o s /\ Len(s) <= 6
  <2>1. CASE \E f \in {PingApp, EnterBl}, k \in 0 .. 5 : out' = out \o Rest(f, k)
    <3>1. PICK f \in {PingApp, EnterBl}, k \in 0 .. 5 : out' = out \o Rest(f, k)
      BY <2>1
    <3> QED
      <4>1. PICK r : r = Rest(f, k)
        OBVIOUS
      <4>2. r \in Seq(Byte) /\ Len(r) \in 1 .. 6
        BY <4>1, StrayIs
      <4>3. Len(r) <= 6
        <5>1. \A n \in 1 .. 6 : n <= 6
          OBVIOUS
        <5> QED
          BY <4>2, <5>1
      <4> QED
        BY <3>1, <4>1, <4>2, <4>3
  <2>2. CASE out' = out \o PingApp
    BY <2>2, StrayIs, 6 <= 6
  <2> QED
    BY <2>1, <2>2 DEF Press
<1>4. out \in Seq(Byte) /\ out' \in Seq(Byte) /\ Len(out') <= Len(out) + 6 /\ Len(out) \in Nat
      /\ Len(out') \in Nat
  BY <1>1, <1>3 DEF SharedType
<1>5. HostType' /\ SharedType' /\ BootType' /\ HistoryType'
  BY <1>1, <1>2, <1>4 DEF HostType, SharedType, BootType, HistoryType, hostVars, rxVars, bootVars
<1>6. Shape' /\ Now' = Now /\ Later' = Later /\ slip' = slip
  BY <1>2 DEF Fits, Shape, Now, Later, hostVars, bootVars
<1>7. Budget'
  <2>1. Now \in Nat /\ Later \in Nat /\ slip.at \in Nat
    <3>1. Longest[stage] \in Nat
      BY <1>1, Sizes DEF HostType
    <3>2. Now \in Nat
      BY <1>1, <3>1 DEF Now, Fits, Shape, HostType
    <3>3. Later \in Nat
      BY <1>1, Sizes DEF Later, HostType
    <3> QED
      BY <1>1, <3>2, <3>3, Sizes DEF BootType, Decoders
  <2>2. PICK a, n, m : a = slip.at /\ n = Now /\ m = Later
    OBVIOUS
  <2>3. a \in Nat /\ n \in Nat /\ m \in Nat /\ a + Len(out) + n + m <= 2 * DataLen + 26
    BY <1>2, <2>1, <2>2 DEF Fits, Budget, Allowed
  <2>4. a + Len(out') + n + m <= 2 * DataLen + 32
    BY <1>4, <2>3, Sizes
  <2> QED
    BY <1>2, <1>6, <2>2, <2>4 DEF Budget, Allowed
<1> QED
  BY <1>5, <1>6, <1>7, TypePartsNext DEF Fits

LEMMA FitsNext == ASSUME Roomy, Fits, [Next]_vars PROVE Fits'
<1>1. CASE UNCHANGED vars
  <2>1. UNCHANGED <<hostVars, rxVars, out, bootVars, history>> /\ ctx' = ctx
    BY <1>1 DEF vars
  <2>2. TypeOK'
    <3>1. HostType /\ SharedType /\ BootType /\ HistoryType
      BY TypeParts DEF Fits
    <3> QED
      BY <2>1, <3>1, TypePartsNext
      DEF HostType, SharedType, BootType, HistoryType, hostVars, rxVars, bootVars, history
  <2>3. Shape' /\ Budget'
    BY <2>1 DEF Fits, Shape, Budget, Allowed, Now, Later, hostVars, bootVars, history
  <2> QED
    BY <2>2, <2>3 DEF Fits
<1> QED
  BY <1>1, FitsStart, FitsEncode, FitsCopy, FitsRead, FitsReturn, FitsTimeout, FitsRxByte,
     FitsBootByte, FitsAnswer, FitsLoseByte, FitsPress DEF Next

\* Every buffer, length and position stays in its range, in every attempt, whatever the line
\* loses and however late the answers are: no write of the driver or of the bootloader
\* leaves its buffer (dfu_drv.c, slip.c).
THEOREM TypeCorrect ==
  ASSUME Roomy
  PROVE  Spec => []TypeOK
<1>1. Init => Fits
  BY FitsInit
<1>2. Fits /\ [Next]_vars => Fits'
  BY FitsNext
<1>3. Fits => TypeOK
  BY DEF Fits
<1> QED
  BY <1>1, <1>2, <1>3, PTL DEF Spec
-----------------------------------------------------------------------------
(* Requests on their way.                                                   *)

Special == {END, ESC}

LEMMA EncodedHead ==
  ASSUME NEW s \in Seq(Byte)
  PROVE  /\ Encoded(s) \in Seq(Byte) /\ Encoded(s) # <<>>
         /\ s = <<>> => Head(Encoded(s)) = END /\ Tail(Encoded(s)) = <<>>
         /\ s # <<>> /\ Head(s) \notin Special =>
              Head(Encoded(s)) = Head(s) /\ Tail(Encoded(s)) = Encoded(Tail(s))
         /\ s # <<>> /\ Head(s) \in Special =>
              /\ Head(Encoded(s)) = ESC /\ Tail(Encoded(s)) # <<>>
              /\ Head(Tail(Encoded(s))) = (IF Head(s) = END THEN ESC_END ELSE ESC_ESC)
              /\ Tail(Tail(Encoded(s))) = Encoded(Tail(s))
<1>1. Encoded(s) \in Seq(Byte) /\ Encoded(s) # <<>>
  <2>1. PICK n : n = Len(Flat(s))
    OBVIOUS
  <2>2. n \in Nat /\ Len(Encoded(s)) = n + 1 /\ Encoded(s) \in Seq(Byte)
    BY <2>1, FlatType
  <2> QED
    BY <2>2
<1>2. CASE s = <<>>
  <2>1. Encoded(s) = <<END>>
    BY <1>2, FlatEmpty
  <2>2. Head(<<END>>) = END /\ Tail(<<END>>) = <<>>
    OBVIOUS
  <2> QED
    BY <1>1, <1>2, <2>1, <2>2
<1>3. CASE s # <<>>
  <2>1. PICK b, t : b = Head(s) /\ t = Encoded(Tail(s))
    OBVIOUS
  <2>2. b \in Byte /\ t \in Seq(Byte) /\ Encoded(s) = Code(b) \o t
    <3>1. b \in Byte /\ Tail(s) \in Seq(Byte)
      BY <1>3, <2>1
    <3> QED
      BY <1>3, <2>1, <3>1, EncodedTail, FlatType
  <2>3. \A x \in Byte : <<x>> \o t # <<>> /\ Head(<<x>> \o t) = x /\ Tail(<<x>> \o t) = t
    <3>1. ASSUME NEW x \in Byte
          PROVE  <<x>> \o t # <<>> /\ Head(<<x>> \o t) = x /\ Tail(<<x>> \o t) = t
      <4>1. Len(<<x>> \o t) = Len(t) + 1 /\ (<<x>> \o t)[1] = x /\ <<x>> \o t \in Seq(Byte)
        BY <2>2
      <4>2. Tail(<<x>> \o t) = t
        BY <2>2
      <4> QED
        BY <2>2, <4>1, <4>2
    <3> QED
      BY <3>1
  <2>4. CASE b \notin Special
    <3>1. Code(b) = <<b>>
      BY <2>2, <2>4, CodeType DEF Special
    <3> QED
      BY <1>1, <1>3, <2>1, <2>2, <2>3, <2>4, <3>1
  <2>5. CASE b \in Special
    <3>1. PICK c \in Byte : Code(b) = <<ESC, c>> /\ c = (IF b = END THEN ESC_END ELSE ESC_ESC)
      BY <2>2, <2>5, CodeType, AllBytes DEF Special
    <3>2. <<ESC, c>> \o t = <<ESC>> \o (<<c>> \o t) /\ <<c>> \o t \in Seq(Byte)
      <4>1. <<ESC, c>> = <<ESC>> \o <<c>> /\ <<ESC>> \in Seq(Byte) /\ <<c>> \in Seq(Byte)
        BY <3>1, AllBytes
      <4> QED
        BY <2>2, <4>1, ConcatAssociative, ConcatProperties
    <3>3. PICK u : u = <<c>> \o t
      OBVIOUS
    <3>4. u \in Seq(Byte) /\ u # <<>> /\ Head(u) = c /\ Tail(u) = t
      BY <2>3, <3>1, <3>2, <3>3
    <3>5. Head(<<ESC>> \o u) = ESC /\ Tail(<<ESC>> \o u) = u
      BY <3>4, AllBytes
    <3>6. Encoded(s) = <<ESC>> \o u
      BY <2>2, <3>1, <3>2, <3>3
    <3> QED
      BY <1>1, <1>3, <2>1, <2>5, <3>1, <3>4, <3>5, <3>6
  <2> QED
    BY <2>4, <2>5
<1> QED
  BY <1>2, <1>3

\* An encoded packet has one END, its last byte.
LEMMA EndIsLast ==
  ASSUME NEW s \in Seq(Byte)
  PROVE  /\ Len(Encoded(s)) \in Nat /\ Len(Encoded(s)) >= 1
         /\ \A i \in 1 .. Len(Encoded(s)) : Encoded(s)[i] = END <=> i = Len(Encoded(s))
<1>1. PICK f, e : f = Flat(s) /\ e = Encoded(s)
  OBVIOUS
<1>2. f \in Seq(Byte) /\ e = Append(f, END) /\ END \in Byte /\ \A i \in DOMAIN f : f[i] # END
  BY <1>1, FlatType, FlatFree, AllBytes DEF FreeOfEnd
<1>3. Len(e) = Len(f) + 1 /\ Len(f) \in Nat /\ \A i \in 1 .. Len(e) : e[i] = END <=> i = Len(e)
  BY <1>2
<1> QED
  BY <1>1, <1>3

\* The requests of a stage.
Asks(s) ==
  CASE s \in {"check", "setup"} -> {<<PING, b>> : b \in Byte}
    [] s = "create" -> {<<CREATE>> \o d : d \in Data}
    [] s = "crc" -> {<<CRC_GET>>}

LEMMA AsksAre ==
  ASSUME NEW s \in {"check", "setup", "create", "crc"}, NEW r \in Asks(s)
  PROVE  /\ r \in Seq(Byte) /\ Len(r) >= 1 /\ Len(r) <= DataLen + 1 /\ Len(r) \in Nat
         /\ r[1] \in {PING, CREATE, CRC_GET}
         /\ r[1] = PING <=> s \in {"check", "setup"}
         /\ r[1] = PING => Len(r) = 2
         /\ r[1] \notin Special /\ r[1] \notin {ESC_END, ESC_ESC}
<1>1. /\ PING # CREATE /\ PING # CRC_GET /\ DataLen \in Nat /\ DataLen >= 1
      /\ \A b \in {PING, CREATE, CRC_GET} : b \notin Special /\ b \notin {ESC_END, ESC_ESC}
  BY Sizes DEF PING, CREATE, CRC_GET, END, ESC, ESC_END, ESC_ESC, Special
<1>2. CASE s \in {"check", "setup"}
  <2>1. PICK b \in Byte : r = <<PING, b>>
    BY <1>2 DEF Asks
  <2>2. r \in Seq(Byte) /\ Len(r) = 2 /\ r[1] = PING
    BY <2>1, Requests
  <2> QED
    BY <1>1, <1>2, <2>2
<1>3. CASE s = "create"
  <2>1. PICK d \in Data : r = <<CREATE>> \o d
    BY <1>3 DEF Asks
  <2>2. r \in Seq(Byte) /\ Len(r) = DataLen + 1
    BY <2>1, Requests
  <2>3. r[1] = CREATE
    <3>1. d \in Seq(Byte) /\ <<CREATE>> \in Seq(Byte) /\ Len(<<CREATE>>) = 1 /\ <<CREATE>>[1] = CREATE
      BY DataIs, AllBytes, OneByte
    <3> QED
      BY <2>1, <3>1
  <2> QED
    BY <1>1, <1>3, <2>2, <2>3
<1>4. CASE s = "crc"
  <2>1. r = <<CRC_GET>>
    BY <1>4 DEF Asks
  <2>2. r \in Seq(Byte) /\ Len(r) = 1 /\ r[1] = CRC_GET
    BY <2>1, Requests
  <2> QED
    BY <1>1, <1>4, <2>2
<1> QED
  BY <1>2, <1>3, <1>4

\* What encode_slip has written, and what is copied of it.
Encoding ==
  /\ pc = "encode" => out = <<>> /\ SubSeq(pool, 1, to) = Flat(SubSeq(req, 1, from))
  /\ pc = "copy" => /\ to = Len(Encoded(req)) /\ SubSeq(pool, 1, to) = Encoded(req)
                    /\ out = SubSeq(pool, 1, from)

LEMMA EncodePool ==
  ASSUME Roomy, Fits, Fits', Encode, SubSeq(pool, 1, to) = Flat(SubSeq(req, 1, from))
  PROVE  \/ pc' = "encode" /\ SubSeq(pool', 1, to') = Flat(SubSeq(req', 1, from'))
         \/ /\ pc' = "copy" /\ from' = 0 /\ SubSeq(pool', 1, 0) = <<>>
            /\ to' = Len(Encoded(req')) /\ SubSeq(pool', 1, to') = Encoded(req')
<1>1. HostType /\ SharedType
  BY TypeParts DEF Fits
<1>2. /\ pc = "encode" /\ req' = req
      /\ SubSeq(pool, 1, to) = Flat(SubSeq(req, 1, from))
      /\ from <= Len(req) /\ to <= 2 * from
  BY DEF Encode, Fits, Shape
<1>3. /\ req \in Seq(Byte) /\ from \in Nat /\ to \in Nat /\ from \in 0 .. Len(req) /\ pool \in Memory
      /\ PoolSize \in Nat /\ Len(req) \in Nat
  BY <1>1, <1>2, Sizes DEF HostType, SharedType
<1>4. to' \in 0 .. PoolSize
  BY TypePartsNext DEF Fits, HostType
<1>5. CASE from < Len(req)
  <2> DEFINE c == Code(req[from + 1])
  <2>1. pool' = Overlay(pool, to, c) /\ to' = to + Len(c) /\ from' = from + 1 /\ pc' = pc
    BY <1>2, <1>5 DEF Encode
  <2>2. from + 1 \in 0 .. Len(req) /\ from + 1 > 0 /\ from + 1 - 1 = from
    BY <1>3, <1>5
  <2>3. /\ SubSeq(req, 1, from + 1) = Append(SubSeq(req, 1, from), req[from + 1])
        /\ req[from + 1] \in Byte /\ SubSeq(req, 1, from) \in Seq(Byte)
    <3>1. PICK k : k = from + 1
      OBVIOUS
    <3>2. k \in 0 .. Len(req) /\ k > 0 /\ k - 1 = from
      BY <1>3, <2>2, <3>1
    <3>3. SubSeq(req, 1, k) = Append(SubSeq(req, 1, k - 1), req[k]) /\ req[k] \in Byte
      BY <1>3, <3>2, Prefix
    <3>4. SubSeq(req, 1, from) \in Seq(Byte)
      BY <1>3, Prefix
    <3> QED
      BY <3>1, <3>2, <3>3, <3>4
  <2>4. Flat(SubSeq(req, 1, from + 1)) = Flat(SubSeq(req, 1, from)) \o c /\ c \in Seq(Byte)
    BY <2>3, FlatAppend, CodeType
  <2> HIDE DEF c
  <2>5. SubSeq(pool', 1, to') = SubSeq(pool, 1, to) \o c
    <3>1. to + Len(c) <= PoolSize
      BY <1>3, <1>4, <2>1
    <3> QED
      BY <1>3, <2>1, <2>4, <3>1, OverlayIs
  <2> QED
    BY <1>2, <2>1, <2>4, <2>5
<1>6. CASE ~ (from < Len(req))
  <2>1. pool' = Overlay(pool, to, <<END>>) /\ to' = to + 1 /\ from' = 0 /\ pc' = "copy"
    BY <1>2, <1>6 DEF Encode
  <2>2. SubSeq(req, 1, from) = req
    BY <1>3, <1>6
  <2>3. <<END>> \in Seq(Byte) /\ Len(<<END>>) = 1
    BY AllBytes, OneByte
  <2>4. SubSeq(pool', 1, to') = SubSeq(pool, 1, to) \o <<END>>
    <3>1. to + Len(<<END>>) = to' /\ to' <= PoolSize
      BY <1>3, <1>4, <2>1, <2>3
    <3> QED
      BY <1>3, <2>1, <2>3, <3>1, OverlayIs, ZenonT(30)
  <2>5. SubSeq(pool', 1, to') = Encoded(req)
    <3>1. Encoded(req) = Flat(req) \o <<END>>
      BY DEF Encoded, Flat, Codes
    <3> QED
      BY <1>2, <2>2, <2>4, <3>1
  <2>6. Len(SubSeq(pool', 1, to')) = to' /\ SubSeq(pool', 1, 0) = <<>>
    <3>1. pool' \in Memory /\ 0 \in 0 .. PoolSize
      BY TypePartsNext, Sizes DEF Fits, SharedType
    <3>2. SubSeq(pool', 1, 0) = <<>>
      BY SubSeqEmpty
    <3>3. Len(SubSeq(pool', 1, to')) = to'
      BY <1>4, <3>1, MemoryIs
    <3> QED
      BY <3>2, <3>3
  <2> QED
    BY <1>2, <2>1, <2>5, <2>6
<1> QED
  BY <1>5, <1>6

LEMMA EncodeStep ==
  ASSUME Roomy, Fits, Fits', Encoding, Encode
  PROVE  Encoding'
<1>1. pc = "encode" /\ UNCHANGED <<req, out>>
  BY DEF Encode
<1>2. out = <<>> /\ SubSeq(pool, 1, to) = Flat(SubSeq(req, 1, from))
  BY <1>1 DEF Encoding
<1>3. CASE pc' = "encode" /\ SubSeq(pool', 1, to') = Flat(SubSeq(req', 1, from'))
  BY <1>1, <1>2, <1>3 DEF Encoding
<1>4. CASE /\ pc' = "copy" /\ from' = 0 /\ SubSeq(pool', 1, 0) = <<>>
           /\ to' = Len(Encoded(req')) /\ SubSeq(pool', 1, to') = Encoded(req')
  BY <1>1, <1>2, <1>4 DEF Encoding
<1> QED
  BY <1>2, <1>3, <1>4, EncodePool

LEMMA CopyStep ==
  ASSUME Fits, Encoding, Copy
  PROVE  Encoding' /\ (pc' = "wait" => out' = Encoded(req'))
<1>1. HostType /\ SharedType
  BY TypeParts DEF Fits
<1>2. /\ pc = "copy" /\ out' = Append(out, pool[from + 1]) /\ from' = from + 1
      /\ pc' = (IF from + 1 = to THEN "wait" ELSE "copy")
      /\ UNCHANGED <<req, to, pool>> /\ from < to
      /\ to = Len(Encoded(req)) /\ SubSeq(pool, 1, to) = Encoded(req) /\ out = SubSeq(pool, 1, from)
  BY DEF Copy, Encoding, Fits, Shape, rxVars
<1>3. from \in Nat /\ to \in Nat /\ to <= PoolSize /\ PoolSize \in Nat /\ pool \in Memory
  BY <1>1, Sizes DEF HostType, SharedType
<1>4. pool \in Seq(Byte) /\ from + 1 \in 0 .. Len(pool) /\ from + 1 > 0 /\ from + 1 - 1 = from
  <2>1. pool \in Seq(Byte) /\ Len(pool) = PoolSize
    BY <1>3, MemoryIs
  <2> QED
    BY <1>2, <1>3, <2>1
<1>5. SubSeq(pool, 1, from + 1) = Append(SubSeq(pool, 1, from), pool[from + 1])
  <2>1. PICK k : k = from + 1
    OBVIOUS
  <2>2. k \in 0 .. Len(pool) /\ k > 0 /\ k - 1 = from
    BY <1>3, <1>4, <2>1
  <2>3. SubSeq(pool, 1, k) = Append(SubSeq(pool, 1, k - 1), pool[k])
    BY <1>4, <2>2, Prefix
  <2> QED
    BY <2>1, <2>2, <2>3
<1> QED
  BY <1>2, <1>5 DEF Encoding
LEMMA BootCases ==
  ASSUME BootByte
  PROVE  /\ out # <<>> /\ out' = Tail(out) /\ pc # "copy"
         /\ UNCHANGED <<hostVars, rxVars, rsp, given, history>>
         /\ slip.state = "decoding" /\ Head(out) = END =>
              /\ todo' = Append(todo, [op |-> slip.buf[1], arg |-> slip.buf[2],
                                       whole |-> SubSeq(slip.buf, 1, slip.at)])
              /\ slip' = [slip EXCEPT !.at = 0]
         /\ slip.state = "decoding" /\ Head(out) = ESC => Become("escaped") /\ todo' = todo
         /\ slip.state = "decoding" /\ Head(out) \notin Special => Put(Head(out)) /\ todo' = todo
         /\ slip.state = "escaped" /\ Head(out) = ESC_END => Put(END) /\ todo' = todo
         /\ slip.state = "escaped" /\ Head(out) = ESC_ESC => Put(ESC) /\ todo' = todo
         /\ slip.state = "escaped" /\ Head(out) \notin {ESC_END, ESC_ESC} =>
              Become("clearing") /\ todo' = todo
         /\ slip.state = "clearing" =>
              /\ todo' = todo
              /\ slip' = IF Head(out) = END THEN [slip EXCEPT !.at = 0, !.state = "decoding"]
                         ELSE slip
<1>1. ESC # END /\ ESC_END # ESC_ESC
  BY DEF ESC, END, ESC_END, ESC_ESC
<1>2. /\ out # <<>> /\ out' = Tail(out) /\ pc # "copy"
      /\ UNCHANGED <<hostVars, rxVars, rsp, given, history>>
  BY DEF BootByte
<1>3. ASSUME slip.state = "decoding"
      PROVE  /\ Head(out) = END =>
                  /\ todo' = Append(todo, [op |-> slip.buf[1], arg |-> slip.buf[2],
                                           whole |-> SubSeq(slip.buf, 1, slip.at)])
                  /\ slip' = [slip EXCEPT !.at = 0]
             /\ Head(out) = ESC => Become("escaped") /\ todo' = todo
             /\ Head(out) \notin Special => Put(Head(out)) /\ todo' = todo
  BY <1>1, <1>3 DEF BootByte, Special
<1>4. ASSUME slip.state = "escaped"
      PROVE  /\ Head(out) = ESC_END => Put(END) /\ todo' = todo
             /\ Head(out) = ESC_ESC => Put(ESC) /\ todo' = todo
             /\ Head(out) \notin {ESC_END, ESC_ESC} => Become("clearing") /\ todo' = todo
  BY <1>1, <1>4 DEF BootByte
<1>5. ASSUME slip.state = "clearing"
      PROVE  /\ todo' = todo
             /\ slip' = IF Head(out) = END THEN [slip EXCEPT !.at = 0, !.state = "decoding"]
                        ELSE slip
  BY <1>5 DEF BootByte
<1> QED
  BY <1>2, <1>3, <1>4, <1>5

SlipClear == slip.at = 0 /\ slip.state = "decoding"

\* The decoder has the beginning of the request, the rest is on its way.
Whole ==
  /\ slip.at <= Len(req) /\ SubSeq(slip.buf, 1, slip.at) = SubSeq(req, 1, slip.at)
  /\ \/ slip.state = "decoding" /\ out = Encoded(From(req, slip.at))
     \/ /\ slip.state = "escaped" /\ slip.at < Len(req) /\ req[slip.at + 1] \in Special
        /\ out = Tail(Encoded(From(req, slip.at)))

\* A packet that is the request.
Is(x) == x.whole = req /\ x.op = req[1] /\ (Len(req) > 1 => x.arg = req[2])

\* Writing the next byte of s after the first k.
LEMMA Written ==
  ASSUME NEW s \in Seq(Byte), NEW f \in Memory, NEW k \in Nat, k < Len(s), k + 1 <= PoolSize,
         SubSeq(f, 1, k) = SubSeq(s, 1, k)
  PROVE  SubSeq([f EXCEPT ![k + 1] = s[k + 1]], 1, k + 1) = SubSeq(s, 1, k + 1)
<1> DEFINE g == [f EXCEPT ![k + 1] = s[k + 1]]
<1>1. PoolSize \in Nat /\ s[k + 1] \in Byte
  BY Sizes
<1>2. g \in Memory /\ \A i \in 1 .. PoolSize : g[i] = IF i = k + 1 THEN s[k + 1] ELSE f[i]
  BY <1>1 DEF Memory
<1> HIDE DEF g
<1>3. k \in 0 .. PoolSize /\ k + 1 \in 0 .. PoolSize /\ k + 1 \in 0 .. Len(s) /\ k \in 0 .. Len(s)
  BY <1>1
<1>4. /\ SubSeq(g, 1, k + 1) \in Seq(Byte) /\ Len(SubSeq(g, 1, k + 1)) = k + 1
      /\ \A i \in 1 .. k + 1 : SubSeq(g, 1, k + 1)[i] = g[i]
  BY <1>2, <1>3, MemoryIs
<1>5. /\ SubSeq(f, 1, k) \in Seq(Byte) /\ Len(SubSeq(f, 1, k)) = k
      /\ \A i \in 1 .. k : SubSeq(f, 1, k)[i] = f[i]
  BY <1>3, MemoryIs
<1>6. /\ SubSeq(s, 1, k + 1) \in Seq(Byte) /\ Len(SubSeq(s, 1, k + 1)) = k + 1
      /\ \A i \in 1 .. k + 1 : SubSeq(s, 1, k + 1)[i] = s[i]
      /\ \A i \in 1 .. k : SubSeq(s, 1, k)[i] = s[i]
  BY <1>3
<1>7. ASSUME NEW i \in 1 .. k + 1
      PROVE  g[i] = s[i]
  <2>1. i \in 1 .. PoolSize
    BY <1>1
  <2>2. CASE i = k + 1
    BY <1>2, <2>1, <2>2
  <2>3. CASE i # k + 1
    <3>1. i \in 1 .. k
      BY <2>3
    <3> QED
      BY <1>2, <1>5, <1>6, <2>1, <2>3, <3>1
  <2> QED
    BY <2>2, <2>3
<1>8. SubSeq(g, 1, k + 1) = SubSeq(s, 1, k + 1)
  BY <1>4, <1>6, <1>7, SeqEqual
<1> QED
  BY <1>8 DEF g

LEMMA PutIs ==
  ASSUME NEW s \in Seq(Byte), NEW b \in Byte, slip \in Decoders, slip.at < Len(s),
         slip.at + 1 <= PoolSize, SubSeq(slip.buf, 1, slip.at) = SubSeq(s, 1, slip.at),
         b = s[slip.at + 1], Put(b)
  PROVE  /\ slip'.at = slip.at + 1 /\ slip'.state = "decoding"
         /\ SubSeq(slip'.buf, 1, slip'.at) = SubSeq(s, 1, slip'.at)
<1>1. slip' = [buf |-> [slip.buf EXCEPT ![slip.at + 1] = b], at |-> slip.at + 1, state |-> "decoding"]
  BY DEF Put
<1>2. slip.buf \in Memory /\ slip.at \in Nat
  BY Sizes DEF Decoders
<1>3. SubSeq([slip.buf EXCEPT ![slip.at + 1] = b], 1, slip.at + 1) = SubSeq(s, 1, slip.at + 1)
  BY <1>2, Written
<1> QED
  BY <1>1, <1>3

\* The decoder has the beginning of r.
Begins(r) == slip.at <= Len(r) /\ SubSeq(slip.buf, 1, slip.at) = SubSeq(r, 1, slip.at)

\* The rest of it is on its way, encoded, and t behind it.
Sent(r, t) ==
  /\ Begins(r)
  /\ \/ slip.state = "decoding" /\ out = Encoded(From(r, slip.at)) \o t
     \/ /\ slip.state = "escaped" /\ slip.at < Len(r) /\ r[slip.at + 1] \in Special
        /\ out = Tail(Encoded(From(r, slip.at))) \o t

\* The packet that r makes.
Packs(x, r) == x.whole = r /\ x.op = r[1] /\ (Len(r) > 1 => x.arg = r[2])

LEMMA Joined ==
  ASSUME NEW e \in Seq(Byte), NEW t \in Seq(Byte), e # <<>>
  PROVE  e \o t # <<>> /\ Head(e \o t) = Head(e) /\ Tail(e \o t) = Tail(e) \o t
<1>1. PICK b, u : b = Head(e) /\ u = Tail(e)
  OBVIOUS
<1>2. b \in Byte /\ u \in Seq(Byte) /\ e = <<b>> \o u
  BY <1>1
<1>3. e \o t = <<b>> \o (u \o t) /\ u \o t \in Seq(Byte)
  BY <1>2, ConcatAssociative, ConcatProperties, OneByte
<1>4. PICK v : v = u \o t
  OBVIOUS
<1>5. v \in Seq(Byte) /\ <<b>> \o v # <<>> /\ Head(<<b>> \o v) = b /\ Tail(<<b>> \o v) = v
  <2>1. v \in Seq(Byte)
    BY <1>3, <1>4
  <2>2. Len(<<b>> \o v) = Len(v) + 1 /\ (<<b>> \o v)[1] = b /\ <<b>> \o v \in Seq(Byte)
    BY <1>2, <2>1
  <2>3. Tail(<<b>> \o v) = v
    BY <1>2, <2>1
  <2> QED
    BY <1>2, <2>1, <2>2, <2>3
<1> QED
  BY <1>1, <1>3, <1>4, <1>5

LEMMA SentStep ==
  ASSUME Fits, NEW r \in Seq(Byte), NEW t \in Seq(Byte), r # <<>>, Len(r) + 1 <= PoolSize,
         Sent(r, t), BootByte
  PROVE  \/ Sent(r, t)' /\ slip'.at \in Nat /\ todo' = todo
         \/ /\ out' = t /\ SlipClear'
            /\ \E x \in Packets : todo' = Append(todo, x) /\ Packs(x, r)
<1>1. HostType /\ SharedType /\ BootType
  BY TypeParts DEF Fits
<1>2. /\ Len(r) \in Nat /\ Len(r) >= 1
      /\ slip \in Decoders /\ slip.at \in Nat /\ slip.at <= Len(r) /\ slip.at + 1 <= PoolSize
      /\ slip.at \in 0 .. Len(r) /\ PoolSize \in Nat /\ PoolSize >= 2 /\ slip.at \in 0 .. PoolSize
      /\ slip.buf \in Memory
  BY <1>1, Sizes DEF BootType, Decoders, Sent, Begins
<1>3. out # <<>> /\ out' = Tail(out) /\ SubSeq(slip.buf, 1, slip.at) = SubSeq(r, 1, slip.at)
  BY BootCases DEF Sent, Begins
<1> DEFINE k == slip.at
           b == r[k + 1]
           e == Encoded(From(r, k))
<1>4. /\ From(r, k) \in Seq(Byte)
      /\ k = Len(r) => From(r, k) = <<>>
      /\ k < Len(r) => /\ From(r, k) # <<>> /\ Head(From(r, k)) = b /\ b \in Byte
                       /\ Tail(From(r, k)) = From(r, k + 1)
  BY <1>2, FromIs
<1>5. ESC_END # ESC_ESC /\ END \in Special /\ ESC \in Special /\ END # ESC
  BY DEF Special, ESC_END, ESC_ESC, END, ESC
<1>6. e \in Seq(Byte) /\ e # <<>> /\ Tail(e) \in Seq(Byte)
  BY <1>4, EncodedHead
<1>7. ASSUME k < Len(r), Put(b), out' = Encoded(From(r, k + 1)) \o t, todo' = todo
      PROVE  Sent(r, t)' /\ slip'.at \in Nat /\ todo' = todo
  <2>1. /\ slip'.at = k + 1 /\ slip'.state = "decoding"
        /\ SubSeq(slip'.buf, 1, slip'.at) = SubSeq(r, 1, slip'.at)
    BY <1>2, <1>3, <1>4, <1>7, PutIs
  <2>2. slip'.at <= Len(r)
    BY <1>2, <1>7, <2>1
  <2>3. out' = Encoded(From(r, slip'.at)) \o t /\ slip'.at \in Nat
    BY <1>2, <1>7, <2>1
  <2>4. Sent(r, t)'
    BY <2>1, <2>2, <2>3 DEF Sent, Begins
  <2> QED
    BY <1>7, <2>3, <2>4
<1>8. CASE slip.state = "decoding" /\ out = e \o t
  <2>1. Head(out) = Head(e) /\ out' = Tail(e) \o t
    BY <1>3, <1>6, <1>8, Joined
  <2>2. CASE k = Len(r)
    <3>1. Head(out) = END /\ out' = t
      <4>1. Head(e) = END /\ Tail(e) = <<>>
        BY <1>4, <2>2, EncodedHead
      <4>2. <<>> \o t = t
        BY ConcatEmptySeq
      <4> QED
        BY <2>1, <4>1, <4>2
    <3> DEFINE x == [op |-> slip.buf[1], arg |-> slip.buf[2], whole |-> SubSeq(slip.buf, 1, slip.at)]
    <3>2. todo' = Append(todo, x) /\ slip' = [slip EXCEPT !.at = 0]
      BY <1>8, <3>1, BootCases
    <3>3. SlipClear'
      BY <1>2, <1>8, <3>2 DEF SlipClear, Decoders
    <3>4. x.whole = r
      <4>1. SubSeq(r, 1, k) = r
        BY <1>2, <2>2
      <4> QED
        BY <1>3, <4>1
    <3>5. \A i \in 1 .. k : slip.buf[i] = r[i]
      <4>1. \A i \in 1 .. k : SubSeq(slip.buf, 1, k)[i] = slip.buf[i]
        BY <1>2, MemoryIs
      <4> QED
        BY <3>4, <4>1
    <3>6. x.op = r[1] /\ (Len(r) > 1 => x.arg = r[2])
      BY <1>2, <2>2, <3>5
    <3>7. x \in Packets
      BY <1>2, <3>4 DEF Packets, Memory
    <3> HIDE DEF x
    <3> QED
      BY <3>1, <3>2, <3>3, <3>4, <3>6, <3>7 DEF Packs
  <2>3. CASE k < Len(r) /\ b \notin Special
    <3>1. Head(out) = b /\ out' = Encoded(From(r, k + 1)) \o t
      BY <1>4, <2>1, <2>3, EncodedHead
    <3>2. Put(b) /\ todo' = todo
      BY <1>8, <2>3, <3>1, BootCases
    <3> QED
      BY <1>7, <2>3, <3>1, <3>2
  <2>4. CASE k < Len(r) /\ b \in Special
    <3>1. Head(out) = ESC
      BY <1>4, <2>1, <2>4, EncodedHead
    <3>2. slip' = [slip EXCEPT !.state = "escaped"] /\ todo' = todo
      BY <1>8, <3>1, BootCases DEF Become
    <3>3. slip'.at = k /\ slip'.buf = slip.buf /\ slip'.state = "escaped"
      BY <1>2, <3>2 DEF Decoders
    <3> QED
      BY <1>2, <1>3, <2>1, <2>4, <3>2, <3>3 DEF Sent, Begins
  <2> QED
    BY <1>2, <2>2, <2>3, <2>4
<1>9. CASE slip.state = "escaped" /\ k < Len(r) /\ b \in Special /\ out = Tail(e) \o t
  <2>1. /\ Tail(e) # <<>> /\ Head(Tail(e)) = (IF b = END THEN ESC_END ELSE ESC_ESC)
        /\ Tail(Tail(e)) = Encoded(From(r, k + 1))
    BY <1>4, <1>9, EncodedHead
  <2>2. Head(out) = (IF b = END THEN ESC_END ELSE ESC_ESC) /\ out' = Encoded(From(r, k + 1)) \o t
    <3>1. PICK u : u = Tail(e)
      OBVIOUS
    <3>2. u \in Seq(Byte) /\ u # <<>> /\ out = u \o t
      BY <1>6, <1>9, <2>1, <3>1
    <3>3. Head(out) = Head(u) /\ Tail(out) = Tail(u) \o t
      BY <3>2, Joined
    <3> QED
      BY <1>3, <2>1, <3>1, <3>3
  <2>3. Put(b) /\ todo' = todo
    <3>1. CASE b = END
      BY <1>9, <2>2, <3>1, BootCases
    <3>2. CASE b = ESC
      <4>1. Head(out) = ESC_ESC
        BY <1>5, <2>2, <3>2
      <4> QED
        BY <1>9, <3>2, <4>1, BootCases
    <3> QED
      BY <1>9, <3>1, <3>2 DEF Special
  <2> QED
    BY <1>7, <1>9, <2>2, <2>3
<1> QED
  BY <1>8, <1>9 DEF Sent

\* Nothing behind it.
LEMMA NothingBehind ==
  ASSUME NEW r \in Seq(Byte), NEW k \in Nat, k <= Len(r)
  PROVE  /\ Encoded(From(r, k)) \o <<>> = Encoded(From(r, k))
         /\ Tail(Encoded(From(r, k))) \o <<>> = Tail(Encoded(From(r, k)))
<1>1. k \in 0 .. Len(r)
  OBVIOUS
<1>2. PICK e : e = Encoded(From(r, k))
  OBVIOUS
<1>3. e \in Seq(Byte) /\ e # <<>>
  BY <1>1, <1>2, FromIs, EncodedHead
<1> QED
  BY <1>2, <1>3, ConcatEmptySeq

LEMMA WholeStep ==
  ASSUME Roomy, Fits, req \in Asks(stage), Whole, BootByte
  PROVE  \/ Whole' /\ todo' = todo
         \/ /\ out' = <<>> /\ SlipClear'
            /\ \E x \in Packets : todo' = Append(todo, x) /\ Is(x)
<1>1. /\ req \in Seq(Byte) /\ Len(req) + 1 <= PoolSize /\ req # <<>> /\ req' = req
      /\ slip.at \in Nat /\ <<>> \in Seq(Byte)
  <2>1. stage \in {"check", "setup", "create", "crc"} /\ slip.at \in 0 .. PoolSize
    BY TypeParts DEF Fits, HostType, BootType, Decoders
  <2>2. /\ req \in Seq(Byte) /\ Len(req) \in Nat /\ Len(req) >= 1 /\ Len(req) <= DataLen + 1
    BY <2>1, AsksAre
  <2>3. Len(req) + 1 <= PoolSize
    <3>1. PICK n : n = Len(req)
      OBVIOUS
    <3> QED
      BY <2>2, <3>1, Sizes DEF Roomy
  <2>4. req' = req
    BY BootCases DEF hostVars
  <2> QED
    BY <2>1, <2>2, <2>3, <2>4, Sizes
<1>2. Sent(req, <<>>)
  BY <1>1, NothingBehind DEF Whole, Sent, Begins
<1>3. ASSUME Sent(req, <<>>)', slip'.at \in Nat
      PROVE  Whole'
  <2>1. slip'.at \in Nat /\ slip'.at <= Len(req) /\ req' = req
    BY <1>1, <1>3 DEF Sent, Begins
  <2>2. /\ Encoded(From(req, slip'.at)) \o <<>> = Encoded(From(req, slip'.at))
        /\ Tail(Encoded(From(req, slip'.at))) \o <<>> = Tail(Encoded(From(req, slip'.at)))
    BY <1>1, <2>1, NothingBehind
  <2> QED
    BY <1>1, <1>3, <2>2 DEF Whole, Sent, Begins
<1>4. ASSUME NEW x \in Packets, Packs(x, req)
      PROVE  Is(x)
  BY <1>4 DEF Packs, Is
<1>5. \/ Sent(req, <<>>)' /\ slip'.at \in Nat /\ todo' = todo
      \/ out' = <<>> /\ SlipClear' /\ \E x \in Packets : todo' = Append(todo, x) /\ Packs(x, req)
  <2> DEFINE r == req
  <2>1. r \in Seq(Byte) /\ r # <<>> /\ Len(r) + 1 <= PoolSize /\ Sent(r, <<>>) /\ r' = r
    BY <1>1, <1>2
  <2> QED
    BY <1>1, <1>2, SentStep
<1> QED
  BY <1>3, <1>4, <1>5, Zenon
-----------------------------------------------------------------------------
(* An attempt that nothing disturbs.                                        *)

\* A response that the host accepts, and of the length that goes with the request.
Fitting(p) == Accepts(p) /\ (req[1] = CREATE => Len(p) = 3)

Still == todo = <<>> /\ rsp.at = rsp.len /\ SlipClear /\ rxLen = 0 /\ len = 0
Travelling == todo = <<>> /\ rsp.at = rsp.len /\ ~ready /\ rxLen = 0 /\ len = 0 /\ Whole
Arrived ==
  /\ out = <<>> /\ SlipClear /\ rsp.at = rsp.len /\ ~ready /\ rxLen = 0 /\ len = 0
  /\ \E x \in Packets : todo = <<x>> /\ Is(x)
Answered ==
  /\ out = <<>> /\ SlipClear /\ todo = <<>>
  /\ given \in Seq(Byte) /\ Fitting(given) /\ rsp.buf = Encoded(given) /\ rsp.len = Len(rsp.buf)
  /\ rxLen = rsp.at /\ len = rsp.at /\ SubSeq(pool, 1, rsp.at) = SubSeq(rsp.buf, 1, rsp.at)
  /\ ready <=> rsp.at = rsp.len

\* One request at a time, whole at every place of its way, and its answer whole on the way
\* back: nothing is left of a request when the next one begins.
Course ==
  /\ pc \notin {"idle", "over"} => req \in Asks(stage)
  /\ pc # "wait" => Still /\ (ready <=> pc = "read")
  /\ pc \in {"idle", "read", "over"} => out = <<>>
  /\ pc = "wait" => Travelling \/ Arrived \/ Answered
  /\ Encoding
  /\ verdict \in {"none", "ok"}

LEMMA EncodingBegins ==
  ASSUME NEW s, NEW r \in Seq(Byte), Send(s, r), out' = <<>>
  PROVE  Encoding'
<1>1. pc' = "encode" /\ req' = r /\ from' = 0 /\ to' = 0
  BY DEF Send
<1>2. SubSeq(pool', 1, 0) = <<>> /\ SubSeq(r, 1, 0) = <<>>
  BY SubSeqEmpty
<1> QED
  BY <1>1, <1>2, FlatEmpty DEF Encoding

\* The packet of a buffer that holds an encoded response, and nothing else before it.
LEMMA PacketIs ==
  ASSUME NEW p \in Seq(Byte), SubSeq(pool, 1, len) = Encoded(p)
  PROVE  Packet = p
BY SlipTransparent DEF Packet

LEMMA ResponseAccepted ==
  ASSUME NEW x \in Packets, req \in Asks(stage), stage \in {"check", "setup", "create", "crc"},
         Is(x), NEW p \in Responses(x)
  PROVE  p \in Seq(Byte) /\ Fitting(p)
<1>1. /\ x.op = req[1] /\ req[1] \in {PING, CREATE, CRC_GET} /\ (req[1] = PING => x.arg = req[2])
  BY AsksAre DEF Is
<1>2. p \in Seq(Byte)
  BY ResponsesType
<1>3. PING # CREATE /\ PING # CRC_GET /\ CREATE # CRC_GET /\ DataLen \in Nat
  BY Sizes DEF PING, CREATE, CRC_GET
<1>4. CASE req[1] = PING
  <2>1. p = <<RESPONSE, PING, SUCCESS, req[2]>>
    BY <1>1, <1>3, <1>4 DEF Responses
  <2>2. Len(p) = 4 /\ p[1] = RESPONSE /\ p[2] = PING /\ p[3] = SUCCESS /\ p[4] = req[2]
    BY <2>1
  <2> QED
    BY <1>2, <1>3, <1>4, <2>2 DEF Accepts, Fitting
<1>5. CASE req[1] = CREATE
  <2>1. p = <<RESPONSE, CREATE, SUCCESS>>
    BY <1>1, <1>3, <1>5 DEF Responses
  <2>2. Len(p) = 3 /\ p[1] = RESPONSE /\ p[2] = CREATE /\ p[3] = SUCCESS
    BY <2>1
  <2> QED
    BY <1>2, <1>3, <1>5, <2>2 DEF Accepts, Fitting
<1>6. CASE req[1] = CRC_GET
  <2>1. PICK d \in Data : p = <<RESPONSE, CRC_GET, SUCCESS>> \o d
    BY <1>1, <1>3, <1>6 DEF Responses
  <2> DEFINE h == <<RESPONSE, CRC_GET, SUCCESS>>
  <2>2. h \in Seq(Byte) /\ Len(h) = 3 /\ h[1] = RESPONSE /\ h[2] = CRC_GET /\ h[3] = SUCCESS
    BY AllBytes
  <2>3. p = h \o d
    BY <2>1
  <2>4. d \in Seq(Byte) /\ Len(d) = DataLen
    BY DataIs
  <2> HIDE DEF h
  <2>5. Len(h \o d) = Len(h) + Len(d) /\ \A i \in 1 .. 3 : (h \o d)[i] = h[i]
    <3>1. /\ Len(h \o d) = Len(h) + Len(d)
          /\ \A i \in 1 .. Len(h) + Len(d) :
               (h \o d)[i] = IF i <= Len(h) THEN h[i] ELSE d[i - Len(h)]
      BY <2>2, <2>4, ConcatProperties
    <3> QED
      BY <1>3, <2>2, <2>4, <3>1
  <2>6. Len(p) = 3 + DataLen /\ p[1] = RESPONSE /\ p[2] = CRC_GET /\ p[3] = SUCCESS
    BY <1>3, <2>2, <2>3, <2>4, <2>5
  <2> QED
    BY <1>2, <1>3, <1>6, <2>6 DEF Accepts, Fitting
<1> QED
  BY <1>1, <1>4, <1>5, <1>6
\* While the host waits, something is on its way to it.
LEMMA CourseNotQuiet ==
  ASSUME Fits, Course, pc = "wait"
  PROVE  ~Quiet
<1>1. stage \in {"check", "setup", "create", "crc"} /\ req \in Asks(stage)
  BY TypeParts DEF Fits, HostType, Course
<1>2. req \in Seq(Byte) /\ Len(req) \in Nat
  BY <1>1, AsksAre
<1>3. CASE Travelling
  <2>1. slip.at \in 0 .. Len(req)
    BY <1>2, <1>3, TypeParts DEF Travelling, Whole, Fits, BootType, Decoders
  <2>2. From(req, slip.at) \in Seq(Byte)
        /\ (slip.at < Len(req) => From(req, slip.at) # <<>> /\ Head(From(req, slip.at)) = req[slip.at + 1])
    BY <1>2, <2>1, FromIs
  <2>3. out # <<>>
    BY <1>3, <2>2, EncodedHead DEF Travelling, Whole
  <2> QED
    BY <2>3 DEF Quiet
<1>4. CASE Arrived
  BY <1>4 DEF Arrived, Quiet
<1>5. CASE Answered
  BY <1>5 DEF Answered, Quiet
<1> QED
  BY <1>3, <1>4, <1>5 DEF Course

LEMMA CourseBootByte ==
  ASSUME Roomy, Fits, Course, BootByte
  PROVE  Course'
<1>1. /\ stage \in {"check", "setup", "create", "crc"} /\ rsp \in Transmitters
  BY TypeParts DEF Fits, HostType, BootType
<1>2. /\ out # <<>> /\ pc # "copy" /\ UNCHANGED <<hostVars, rxVars, rsp, given, history>>
  BY BootCases
<1>3. pc = "wait" /\ Travelling /\ req \in Asks(stage)
  BY <1>2, TypeParts DEF Course, Encoding, Arrived, Answered, Fits, HostType
<1>4. /\ pc' = "wait" /\ req' = req /\ stage' = stage /\ rsp' = rsp /\ ready' = ready /\ rxLen' = rxLen
      /\ len' = len /\ verdict' = verdict
  BY <1>2, <1>3 DEF hostVars, rxVars, history
<1>5. CASE Whole' /\ todo' = todo
  BY <1>3, <1>4, <1>5 DEF Course, Travelling, Encoding
<1>6. CASE out' = <<>> /\ SlipClear' /\ \E x \in Packets : todo' = Append(todo, x) /\ Is(x)
  <2>1. PICK x \in Packets : todo' = Append(todo, x) /\ Is(x)
    BY <1>6
  <2>2. todo' = <<x>>
    BY <1>3, <2>1 DEF Travelling
  <2>3. Arrived'
    BY <1>3, <1>4, <1>6, <2>1, <2>2 DEF Travelling, Arrived, Is
  <2> QED
    BY <1>3, <1>4, <2>3 DEF Course, Encoding
<1> QED
  BY <1>3, <1>5, <1>6, WholeStep DEF Travelling

LEMMA CourseAnswer ==
  ASSUME Fits, Course, Answer
  PROVE  Course'
<1>1. stage \in {"check", "setup", "create", "crc"} /\ pool \in Memory
  BY TypeParts DEF Fits, HostType, SharedType
<1>2. todo # <<>> /\ todo' = Tail(todo) /\ UNCHANGED <<hostVars, rxVars, out, slip, history>>
  BY DEF Answer
<1>3. pc = "wait" /\ Arrived /\ req \in Asks(stage)
  BY <1>2 DEF Course, Still, Travelling, Answered
<1>4. PICK x \in Packets : todo = <<x>> /\ Is(x)
  BY <1>3 DEF Arrived
<1>5. Head(todo) = x /\ todo' = <<>>
  BY <1>2, <1>4
<1>6. PICK p \in Responses(x) :
        given' = p /\ rsp' = [buf |-> Encoded(p), at |-> 0, len |-> Len(Encoded(p))]
  BY <1>3, <1>5 DEF Answer, Arrived
<1>7. p \in Seq(Byte) /\ Fitting(p)
  BY <1>1, <1>3, <1>4, ResponseAccepted
<1>8. Encoded(p) \in Seq(Byte) /\ Len(Encoded(p)) \in Nat /\ Len(Encoded(p)) >= 1
  BY <1>7, FlatType, EndIsLast
<1>9. SubSeq(pool', 1, 0) = <<>> /\ SubSeq(Encoded(p), 1, 0) = <<>>
  BY SubSeqEmpty
<1>10. rsp'.buf = Encoded(p) /\ rsp'.at = 0 /\ rsp'.len = Len(Encoded(p))
  BY <1>6
<1>11. Fitting(p)'
  BY <1>2, <1>7 DEF Fitting, Accepts, hostVars
<1>12. out' = <<>> /\ SlipClear' /\ rxLen' = 0 /\ len' = 0 /\ ~ready'
  BY <1>2, <1>3 DEF Arrived, SlipClear, rxVars
<1>13. Answered'
  <2>1. Fitting(given)'
    BY <1>6, <1>11 DEF Fitting, Accepts
  <2>2. SubSeq(pool', 1, rsp'.at) = SubSeq(rsp'.buf, 1, rsp'.at)
    BY <1>9, <1>10
  <2>3. rsp'.at # rsp'.len
    BY <1>8, <1>10
  <2> QED
    BY <1>5, <1>6, <1>7, <1>10, <1>12, <2>1, <2>2, <2>3 DEF Answered
<1> QED
  BY <1>2, <1>3, <1>13 DEF Course, Encoding, hostVars, history

\* The response to the last request is on its way, and the whole beginning of it is there.
Coming ==
  /\ todo = <<>> /\ given \in Seq(Byte) /\ rsp.buf = Encoded(given) /\ rsp.len = Len(rsp.buf)
  /\ rxLen = rsp.at /\ len = rsp.at /\ SubSeq(pool, 1, rsp.at) = SubSeq(rsp.buf, 1, rsp.at)
  /\ ready <=> rsp.at = rsp.len

LEMMA ComingRxByte ==
  ASSUME Fits, Coming, RxByte
  PROVE  Coming'
<1>1. pool \in Memory /\ rsp \in Transmitters /\ rsp.at \in Nat /\ rsp.len \in Nat /\ PoolSize \in Nat
  BY TypeParts, Sizes DEF Fits, SharedType, BootType, Transmitters
<1> DEFINE b == rsp.buf[rsp.at + 1]
<1>2. /\ rsp.at < rsp.len /\ rxLen < PoolSize /\ rsp' = [rsp EXCEPT !.at = @ + 1]
      /\ pool' = [pool EXCEPT ![rxLen + 1] = b] /\ rxLen' = rxLen + 1
      /\ ~ready => len' = rxLen + 1 /\ ready' = (b = END)
      /\ UNCHANGED <<hostVars, out, slip, todo, given, history>>
  BY DEF RxByte
<1>3. ~ready
  BY <1>1, <1>2 DEF Coming
<1>4. /\ rsp'.at = rsp.at + 1 /\ rsp'.len = rsp.len /\ rsp'.buf = rsp.buf
  BY <1>1, <1>2 DEF Transmitters
<1>5. /\ given \in Seq(Byte) /\ rsp.buf = Encoded(given) /\ rsp.len = Len(rsp.buf)
      /\ rsp.buf \in Seq(Byte) /\ rxLen = rsp.at
      /\ SubSeq(pool, 1, rsp.at) = SubSeq(rsp.buf, 1, rsp.at)
  BY <1>1 DEF Coming, Transmitters
<1>6. SubSeq(pool', 1, rsp'.at) = SubSeq(rsp'.buf, 1, rsp'.at)
  <2>1. rsp.at < Len(rsp.buf) /\ rsp.at + 1 <= PoolSize
    BY <1>1, <1>2, <1>5
  <2>2. SubSeq([pool EXCEPT ![rsp.at + 1] = rsp.buf[rsp.at + 1]], 1, rsp.at + 1)
          = SubSeq(rsp.buf, 1, rsp.at + 1)
    BY <1>1, <1>5, <2>1, Written
  <2> QED
    BY <1>2, <1>4, <1>5, <2>2
<1>7. ready' <=> rsp'.at = rsp'.len
  <2>1. PICK n : n = rsp.at + 1
    OBVIOUS
  <2>2. n \in 1 .. Len(Encoded(given))
    BY <1>1, <1>2, <1>5, <2>1
  <2>3. Encoded(given)[n] = END <=> n = Len(Encoded(given))
    BY <1>5, <2>2, EndIsLast
  <2> QED
    BY <1>2, <1>3, <1>4, <1>5, <2>1, <2>3
<1> QED
  BY <1>2, <1>3, <1>4, <1>5, <1>6, <1>7 DEF Coming

\* The packet that has arrived is the response.
LEMMA ComingPacket ==
  ASSUME Fits, Coming, ready
  PROVE  Packet = given /\ rsp.at = rsp.len
<1>1. rsp.at = rsp.len /\ rsp.len = Len(rsp.buf) /\ rsp.buf \in Seq(Byte)
  BY TypeParts DEF Coming, Fits, BootType, Transmitters
<1>2. SubSeq(pool, 1, len) = Encoded(given) /\ given \in Seq(Byte)
  BY <1>1 DEF Coming
<1> QED
  BY <1>1, <1>2, PacketIs

LEMMA CourseRxByte ==
  ASSUME Fits, Course, RxByte
  PROVE  Course'
<1>1. /\ rsp.at < rsp.len /\ rsp.at \in Nat /\ rsp.len \in Nat
      /\ UNCHANGED <<hostVars, out, slip, todo, given, history>>
  BY TypeParts, Sizes DEF RxByte, Fits, BootType, Transmitters
<1>2. pc = "wait" /\ Answered
  BY <1>1 DEF Course, Still, Travelling, Arrived
<1>3. Coming
  BY <1>2 DEF Answered, Coming
<1>4. Coming'
  BY <1>3, ComingRxByte
<1>5. Fitting(given)'
  BY <1>1, <1>2 DEF Answered, Fitting, Accepts, hostVars
<1>6. Answered'
  BY <1>1, <1>2, <1>4, <1>5 DEF Answered, Coming, SlipClear
<1> QED
  BY <1>1, <1>2, <1>6 DEF Course, Encoding, hostVars, history

LEMMA CourseRead ==
  ASSUME Fits, Course, Read
  PROVE  Course'
<1>1. /\ pc = "wait" /\ ready /\ pc' = "read" /\ req' = (IF Accepts(Packet) THEN req ELSE <<>>)
      /\ rxLen' = 0 /\ len' = 0
      /\ UNCHANGED <<stage, tries, id, from, to, pool, ready, out, bootVars, history>>
  BY DEF Read
<1>2. Answered /\ req \in Asks(stage)
  BY <1>1 DEF Course, Travelling, Arrived
<1>3. rsp.at = rsp.len /\ SubSeq(pool, 1, len) = SubSeq(rsp.buf, 1, Len(rsp.buf)) /\ rsp.buf \in Seq(Byte)
  BY <1>1, <1>2, TypeParts DEF Answered, Fits, BootType, Transmitters
<1>4. SubSeq(pool, 1, len) = Encoded(given) /\ given \in Seq(Byte) /\ Accepts(given)
  BY <1>2, <1>3 DEF Answered, Fitting
<1>5. req' = req
  BY <1>1, <1>4, PacketIs
<1> QED
  BY <1>1, <1>2, <1>3, <1>5 DEF Course, Answered, Still, Encoding, SlipClear, bootVars, history
LEMMA AskIds == \A b \in Byte : <<PING, b>> \in Asks("check") /\ <<PING, b>> \in Asks("setup")
BY DEF Asks

\* The next request begins with nothing left of the last one.
LEMMA CourseSends ==
  ASSUME NEW s, NEW r \in Asks(s), s \in {"check", "setup", "create", "crc"}, Send(s, r), Still',
         ~ready', out' = <<>>, verdict' \in {"none", "ok"}
  PROVE  Course'
<1>1. pc' = "encode" /\ stage' = s /\ req' = r
  BY DEF Send
<1>2. r \in Seq(Byte)
  BY AsksAre
<1>3. Encoding'
  BY <1>2, EncodingBegins
<1>4. Asks(stage') = Asks(s) /\ req' \in Asks(stage')
  BY <1>1
<1> QED
  BY <1>1, <1>3, <1>4 DEF Course

LEMMA CourseStart ==
  ASSUME Fits, Course, Start
  PROVE  Course' /\ stage' = "check" /\ tries' = 3
<1>1. /\ pc = "idle" /\ verdict = "none" /\ Send("check", <<PING, id>>) /\ tries' = 3
      /\ UNCHANGED <<rxVars, out, bootVars, history>> /\ id \in Byte
  BY TypeParts DEF Start, Fits, HostType
<1>2. Still' /\ ~ready' /\ out' = <<>> /\ verdict' = "none"
  BY <1>1 DEF Course, Still, SlipClear, rxVars, bootVars, history
<1> QED
  BY <1>1, <1>2, AskIds, CourseSends DEF Send

LEMMA CourseReturn ==
  ASSUME Fits, Course, Return
  PROVE  Course' /\ stage' # "check"
<1>1. /\ pc = "read" /\ ready' = FALSE /\ UNCHANGED <<pool, rxLen, len, out, bootVars, lost, late, bare>>
      /\ (IF req = <<>> THEN Failed ELSE Succeeded)
      /\ id \in Byte /\ stage \in {"check", "setup", "create", "crc"}
  BY TypeParts DEF Return, Fits, HostType
<1>2. req \in Asks(stage) /\ Still /\ out = <<>> /\ verdict \in {"none", "ok"}
  BY <1>1 DEF Course
<1>3. req # <<>>
  <2>1. Len(req) >= 1 /\ Len(<<>>) = 0
    BY <1>1, <1>2, AsksAre
  <2> QED
    BY <2>1
<1>4. Still' /\ ~ready' /\ out' = <<>> /\ Succeeded
  BY <1>1, <1>2, <1>3 DEF Still, SlipClear, bootVars
<1>5. CASE stage = "check"
  <2> DEFINE n == (id + 1) % 256
  <2>1. Send("setup", <<PING, n>>) /\ UNCHANGED <<tries, verdict>>
    BY <1>4, <1>5 DEF Succeeded
  <2>2. <<PING, n>> \in Asks("setup")
    BY <1>1, NextId, AskIds
  <2> HIDE DEF n
  <2> QED
    BY <1>2, <1>4, <2>1, <2>2, CourseSends DEF Send
<1>6. CASE stage = "setup"
  <2>1. PICK d \in Data : Send("create", <<CREATE>> \o d) /\ UNCHANGED <<tries, id, verdict>>
    BY <1>4, <1>6 DEF Succeeded
  <2>2. <<CREATE>> \o d \in Asks("create")
    BY DEF Asks
  <2> QED
    BY <1>2, <1>4, <2>1, <2>2, CourseSends DEF Send
<1>7. CASE stage = "create"
  <2>1. Send("crc", <<CRC_GET>>) /\ UNCHANGED <<tries, id, verdict>>
    BY <1>4, <1>7 DEF Succeeded
  <2>2. <<CRC_GET>> \in Asks("crc")
    BY DEF Asks
  <2> QED
    BY <1>2, <1>4, <2>1, <2>2, CourseSends DEF Send
<1>8. CASE stage = "crc"
  <2>1. pc' = "over" /\ verdict' = "ok" /\ UNCHANGED <<stage, tries, id, req, from, to>>
    BY <1>4, <1>8 DEF Succeeded, Over
  <2>2. Course'
    BY <1>4, <2>1 DEF Course, Encoding
  <2> QED
    BY <1>8, <2>1, <2>2
<1> QED
  BY <1>1, <1>5, <1>6, <1>7, <1>8

LEMMA CourseEncode ==
  ASSUME Roomy, Fits, Fits', Course, Encode
  PROVE  Course'
<1>1. /\ pc = "encode" /\ pc' \in {"encode", "copy"}
      /\ UNCHANGED <<stage, tries, id, req, rxLen, len, ready, out, bootVars, history>>
  BY DEF Encode
<1>2. Encoding'
  BY EncodeStep DEF Course
<1> QED
  BY <1>1, <1>2 DEF Course, Still, SlipClear, bootVars, history

LEMMA CourseCopy ==
  ASSUME Fits, Course, Copy
  PROVE  Course'
<1>1. /\ pc = "copy" /\ pc' \in {"copy", "wait"}
      /\ UNCHANGED <<stage, tries, id, req, to, rxVars, bootVars, history>>
      /\ stage \in {"check", "setup", "create", "crc"}
  BY TypeParts DEF Copy, Fits, HostType
<1>2. Encoding' /\ (pc' = "wait" => out' = Encoded(req'))
  BY CopyStep DEF Course
<1>3. req \in Asks(stage) /\ Still /\ ~ready /\ verdict \in {"none", "ok"}
  BY <1>1 DEF Course
<1>4. Still' /\ ~ready' /\ req' = req /\ stage' = stage /\ verdict' = verdict
  BY <1>1, <1>3 DEF Still, SlipClear, rxVars, bootVars, history
<1>5. CASE pc' = "copy"
  BY <1>2, <1>3, <1>4, <1>5 DEF Course
<1>6. CASE pc' = "wait"
  <2>1. req \in Seq(Byte) /\ Len(req) \in Nat
    BY <1>1, <1>3, AsksAre
  <2>2. From(req, 0) = req /\ 0 <= Len(req)
    BY <2>1, FromIs
  <2>3. SubSeq(slip'.buf, 1, 0) = <<>> /\ SubSeq(req, 1, 0) = <<>>
    BY SubSeqEmpty
  <2>4. Whole'
    BY <1>2, <1>4, <1>6, <2>2, <2>3 DEF Whole, Still, SlipClear
  <2>5. Travelling'
    BY <1>4, <2>4 DEF Travelling, Still
  <2> QED
    BY <1>2, <1>3, <1>4, <1>6, <2>5 DEF Course
<1> QED
  BY <1>1, <1>5, <1>6

\* What a step does to an attempt that it does not disturb.
LEMMA CourseNext ==
  ASSUME Roomy, Fits, Course, ctx # "isr",
         [Next]_vars, lost' = lost, late' = late, stray' = stray
  PROVE  /\ Course'
         /\ stage' = "check" => \/ stage = "check" /\ tries' = tries /\ (pc' = "idle" <=> pc = "idle")
                                \/ tries' = 3 /\ Start
<1>1. Fits'
  BY FitsNext
<1>2. ASSUME UNCHANGED vars
      PROVE  Course' /\ stage' = stage /\ tries' = tries /\ pc' = pc
  BY <1>2 DEF vars, hostVars, rxVars, bootVars, history, Course, Still, Travelling, Arrived, Answered,
     Whole, Is, Encoding, SlipClear, Fitting, Accepts
<1>3. CASE Start
  BY <1>3, CourseStart
<1>4. CASE Encode
  BY <1>1, <1>4, CourseEncode DEF Encode
<1>5. CASE Copy
  BY <1>5, CourseCopy DEF Copy
<1>6. CASE Read
  BY <1>6, CourseRead DEF Read
<1>7. CASE Return
  BY <1>7, CourseReturn
<1>8. ~Timeout
  <2>1. late \in Nat
    BY TypeParts DEF Fits, HistoryType
  <2>2. Timeout => pc = "wait" /\ (Quiet \/ late' = late + 1)
    BY DEF Timeout, Served
  <2>3. late' # late + 1
    BY <2>1
  <2> QED
    BY <2>2, <2>3, CourseNotQuiet
<1>9. CASE RxByte
  BY <1>9, CourseRxByte DEF RxByte, hostVars
<1>10. CASE BootByte
  BY <1>10, CourseBootByte, BootCases DEF hostVars
<1>11. CASE Answer
  BY <1>11, CourseAnswer DEF Answer, hostVars
<1>12. ~LoseByte
  <2>1. lost \in Nat
    BY TypeParts DEF Fits, HistoryType
  <2> QED
    BY <2>1 DEF LoseByte
<1>13. ~Press
  BY DEF Press
<1> QED
  BY <1>2, <1>3, <1>4, <1>5, <1>6, <1>7, <1>8, <1>9, <1>10, <1>11, <1>12, <1>13 DEF Next
-----------------------------------------------------------------------------
(* The mode check when the line loses one byte.                             *)

\* The only END of what is on its way is its last byte.
OneEnd == \A i \in 1 .. Len(out) - 1 : out[i] # END

\* The first ping lost a byte, or its response did: then nothing but one packet, or a
\* part of one, is left of it, on one of the two sides.
HurtAsk ==
  /\ todo = <<>> /\ rsp.at = rsp.len /\ ~ready /\ rxLen = 0 /\ len = 0 /\ OneEnd
HurtArrived ==
  /\ out = <<>> /\ SlipClear /\ Len(todo) = 1 /\ rsp.at = rsp.len /\ ~ready /\ rxLen = 0 /\ len = 0
HurtAnswer ==
  /\ out = <<>> /\ SlipClear /\ todo = <<>> /\ (ready => rsp.at = rsp.len)
  /\ \A i \in 1 .. rsp.len - 1 : rsp.buf[i] # END
Hurt ==
  /\ pc \in {"wait", "read"} /\ verdict \in {"none", "ok"}
  /\ pc = "wait" => HurtAsk \/ HurtArrived \/ HurtAnswer
  /\ pc = "read" => out = <<>> /\ Still

\* The second ping meets what is left of the first one.  It is whole on the line; where the
\* decoder still holds bytes of the first, or drops all bytes up to an END, the END of the
\* second ping puts an end to that; where the receive buffer still holds bytes, its response
\* does, because the driver starts anew after every packet it reads.
Passing ==
  \E k \in 0 .. Len(req) :
    \/ slip.state # "escaped" /\ out = Encoded(From(req, k))
    \/ /\ slip.state # "decoding" /\ k < Len(req) /\ req[k + 1] \in Special
       /\ out = Tail(Encoded(From(req, k)))
    \/ k = 0 /\ out = Encoded(req)
NextAsk ==
  /\ todo = <<>> /\ rsp.at = rsp.len /\ ~ready
  /\ (rxLen = 0 /\ len = 0 /\ Passing) \/ Whole
NextArrived == out = <<>> /\ SlipClear /\ Len(todo) = 1 /\ rsp.at = rsp.len /\ ~ready
NextAnswer ==
  /\ out = <<>> /\ SlipClear /\ todo = <<>> /\ (ready <=> rsp.at = rsp.len)
  /\ \A i \in 1 .. rsp.len : rsp.buf[i] = END <=> i = rsp.len
Dropped == out = <<>> /\ Still /\ ~ready
Second ==
  /\ pc \in {"encode", "copy", "wait", "read"} /\ Encoding /\ verdict \in {"none", "ok"}
  /\ pc # "read" => req \in Asks("check")
  /\ pc \in {"encode", "copy"} =>
       todo = <<>> /\ rsp.at = rsp.len /\ ~ready /\ (SlipClear \/ (rxLen = 0 /\ len = 0))
  /\ pc = "wait" => NextAsk \/ NextArrived \/ NextAnswer \/ Dropped
  /\ pc = "read" => out = <<>> /\ Still

\* Where nothing of the ping's own state is left, the next one begins.
LEMMA PingAgain ==
  ASSUME Fits, stage = "check", tries \in 2 .. 3, Failed, UNCHANGED <<out, bootVars, pool, rxLen, len>>, ~ready',
         todo = <<>>, rsp.at = rsp.len, out = <<>>, verdict \in {"none", "ok"}
  PROVE  /\ stage' = "check" /\ tries' = tries - 1 /\ verdict' = verdict /\ pc' # "idle"
         /\ Still => Course'
         /\ SlipClear \/ (rxLen = 0 /\ len = 0) => Second'
<1>1. /\ Send("check", <<PING, id>>) /\ tries' = tries - 1 /\ verdict' = verdict
  BY DEF Failed
<1>2. id \in Byte
  BY TypeParts DEF Fits, HostType
<1>3. <<PING, id>> \in Asks("check") /\ <<PING, id>> \in Seq(Byte)
  BY <1>2, AskIds, Requests
<1>4. pc' = "encode" /\ stage' = "check" /\ req' = <<PING, id>>
  BY <1>1 DEF Send
<1>5. Still => Course'
  <2>1. Still => Still'
    BY DEF Still, SlipClear, bootVars
  <2> QED
    BY <1>1, <1>3, <2>1, CourseSends
<1>6. SlipClear \/ (rxLen = 0 /\ len = 0) => Second'
  <2>1. Encoding'
    BY <1>1, <1>3, EncodingBegins
  <2>2. todo' = <<>> /\ rsp'.at = rsp'.len /\ (SlipClear => SlipClear') /\ rxLen' = rxLen /\ len' = len
    BY DEF SlipClear, bootVars
  <2> QED
    BY <1>1, <1>3, <1>4, <2>1, <2>2 DEF Second
<1> QED
  BY <1>1, <1>4, <1>5, <1>6

LEMMA OneEndTail ==
  ASSUME out \in Seq(Byte), out # <<>>, OneEnd, out' = Tail(out)
  PROVE  OneEnd' /\ (Head(out) = END => out' = <<>>)
<1>1. PICK n : n = Len(out)
  OBVIOUS
<1>2. n \in Nat /\ n >= 1 /\ out' \in Seq(Byte) /\ Len(out') = n - 1
      /\ \A i \in 1 .. n - 1 : out'[i] = out[i + 1] /\ out[i] # END
  BY <1>1 DEF OneEnd
<1>3. OneEnd'
  <2>1. ASSUME NEW i \in 1 .. Len(out') - 1
        PROVE  out'[i] # END
    <3>1. i \in 1 .. n - 1 /\ i + 1 \in 1 .. n - 1
      BY <1>2
    <3> QED
      BY <1>2, <3>1
  <2> QED
    BY <2>1 DEF OneEnd
<1>4. ASSUME Head(out) = END
      PROVE  out' = <<>>
  <2>1. out[1] = END
    BY <1>4
  <2>2. ~ (1 \in 1 .. n - 1)
    BY <1>2, <2>1
  <2>3. n = 1
    BY <1>2, <2>2
  <2> QED
    BY <1>2, <2>3
<1> QED
  BY <1>3, <1>4

LEMMA OneEndEncoded ==
  ASSUME NEW s \in Seq(Byte), out \in {Encoded(s), Tail(Encoded(s))}
  PROVE  OneEnd
<1>1. PICK e : e = Encoded(s)
  OBVIOUS
<1>2. e \in Seq(Byte) /\ Len(e) \in Nat /\ Len(e) >= 1
      /\ \A i \in 1 .. Len(e) : e[i] = END <=> i = Len(e)
  BY <1>1, FlatType, EndIsLast
<1>3. CASE out = e
  BY <1>2, <1>3 DEF OneEnd
<1>4. CASE out = Tail(e)
  <2>1. Len(Tail(e)) = Len(e) - 1 /\ \A i \in 1 .. Len(e) - 1 : Tail(e)[i] = e[i + 1]
    BY <1>2
  <2>2. ASSUME NEW i \in 1 .. Len(Tail(e)) - 1
        PROVE  Tail(e)[i] # END
    <3>1. i \in 1 .. Len(e) - 1 /\ i + 1 \in 1 .. Len(e) /\ i + 1 # Len(e)
      BY <1>2, <2>1
    <3> QED
      BY <1>2, <2>1, <3>1
  <2> QED
    BY <1>4, <2>2 DEF OneEnd
<1> QED
  BY <1>1, <1>3, <1>4

\* The line loses a byte of the first ping, or of its response.
LEMMA HurtBegins ==
  ASSUME Fits, Course, LoseByte
  PROVE  Hurt' /\ UNCHANGED <<pc, stage, tries, verdict>> /\ pc = "wait"
<1>1. /\ out \in Seq(Byte) /\ rsp \in Transmitters /\ rsp.at \in Nat /\ rsp.len \in Nat
      /\ stage \in {"check", "setup", "create", "crc"} /\ slip \in Decoders /\ slip.at \in Nat
      /\ pc \in {"idle", "encode", "copy", "wait", "read", "over"}
  BY TypeParts, Sizes DEF Fits, HostType, SharedType, BootType, Transmitters, Decoders
<1>2. UNCHANGED <<hostVars, rxVars, slip, todo, given, verdict, late>>
  BY DEF LoseByte
<1>3. \/ pc # "copy" /\ out # <<>> /\ out' = Tail(out) /\ rsp' = rsp
      \/ rsp.at < rsp.len /\ rsp' = [rsp EXCEPT !.at = @ + 1] /\ out' = out
  BY DEF LoseByte
<1>4. pc = "wait"
  BY <1>1, <1>3 DEF Course, Still, Encoding
<1>5. req \in Asks(stage) /\ verdict \in {"none", "ok"}
  BY <1>4 DEF Course
<1>6. req \in Seq(Byte) /\ Len(req) \in Nat
  BY <1>1, <1>5, AsksAre
<1>7. CASE Travelling
  <2>1. slip.at \in 0 .. Len(req)
    BY <1>1, <1>6, <1>7 DEF Travelling, Whole
  <2>2. From(req, slip.at) \in Seq(Byte)
    BY <1>6, <2>1, FromIs
  <2>3. OneEnd
    BY <1>7, <2>2, OneEndEncoded DEF Travelling, Whole
  <2>4. out # <<>> /\ out' = Tail(out) /\ rsp' = rsp
    BY <1>1, <1>3, <1>7 DEF Travelling
  <2>5. HurtAsk'
    BY <1>1, <1>2, <1>7, <2>3, <2>4, OneEndTail DEF Travelling, HurtAsk, rxVars
  <2> QED
    BY <1>2, <1>4, <1>5, <2>5 DEF Hurt, hostVars
<1>8. ~Arrived
  BY <1>1, <1>3 DEF Arrived
<1>9. CASE Answered
  <2>1. rsp.at < rsp.len /\ rsp' = [rsp EXCEPT !.at = @ + 1] /\ out' = out
    BY <1>3, <1>9 DEF Answered
  <2>2. rsp'.at = rsp.at + 1 /\ rsp'.len = rsp.len /\ rsp'.buf = rsp.buf
    BY <1>1, <2>1 DEF Transmitters
  <2>3. \A i \in 1 .. rsp.len - 1 : rsp.buf[i] # END
    <3>1. given \in Seq(Byte) /\ rsp.buf = Encoded(given) /\ rsp.len = Len(rsp.buf)
      BY <1>9 DEF Answered
    <3>2. \A i \in 1 .. rsp.len : rsp.buf[i] = END <=> i = rsp.len
      BY <3>1, EndIsLast
    <3> QED
      BY <1>1, <3>2
  <2>4. ~ready
    BY <1>1, <1>9, <2>1 DEF Answered
  <2>5. HurtAnswer'
    BY <1>2, <1>9, <2>1, <2>2, <2>3, <2>4 DEF Answered, HurtAnswer, SlipClear, rxVars
  <2> QED
    BY <1>2, <1>4, <1>5, <2>5 DEF Hurt, hostVars
<1> QED
  BY <1>2, <1>4, <1>7, <1>8, <1>9 DEF Course, hostVars
\* The rest of the first ping: its request or its answer fails, and the second begins.
LEMMA HurtNext ==
  ASSUME Fits, Hurt, stage = "check", tries = 3, ctx # "isr",
         [Next]_vars, lost' = lost, late' = late, stray' = stray
  PROVE  /\ verdict' = verdict
         /\ stage' = "check" =>
              \/ Hurt' /\ tries' = 3
              \/ Second' /\ tries' = 2
<1>1. /\ out \in Seq(Byte) /\ rsp \in Transmitters /\ rsp.at \in Nat /\ rsp.len \in Nat
      /\ slip \in Decoders /\ slip.at \in Nat /\ id \in Byte /\ todo \in Seq(Packets)
      /\ slip.state \in {"decoding", "escaped", "clearing"} /\ rsp.at <= rsp.len
      /\ late \in Nat /\ lost \in Nat
  BY TypeParts, Sizes
  DEF Fits, HostType, SharedType, BootType, HistoryType, Transmitters, Decoders
<1>2. pc \in {"wait", "read"} /\ verdict \in {"none", "ok"}
  BY DEF Hurt
<1>3. ASSUME UNCHANGED vars
      PROVE  Hurt' /\ UNCHANGED <<stage, tries, verdict>>
  BY <1>3 DEF vars, hostVars, rxVars, bootVars, history, Hurt, HurtAsk, HurtArrived, HurtAnswer, OneEnd,
     Still, SlipClear
<1>4. ~Start /\ ~Encode /\ ~Copy
  BY <1>2 DEF Start, Encode, Copy
<1>5. ~LoseByte
  BY <1>1 DEF LoseByte
<1>6. CASE Read
  <2>1. /\ pc = "wait" /\ ready /\ pc' = "read" /\ rxLen' = 0 /\ len' = 0
        /\ UNCHANGED <<stage, tries, out, bootVars, history>>
    BY <1>6 DEF Read
  <2>2. HurtAnswer
    BY <2>1 DEF Hurt, HurtAsk, HurtArrived
  <2>3. out' = <<>> /\ Still'
    BY <2>1, <2>2 DEF HurtAnswer, Still, SlipClear, bootVars
  <2> QED
    BY <1>2, <2>1, <2>3 DEF Hurt, history
<1>7. CASE Return
  <2>1. /\ pc = "read" /\ ~ready' /\ UNCHANGED <<pool, rxLen, len, out, bootVars>>
        /\ (IF req = <<>> THEN Failed ELSE Succeeded)
    BY <1>7 DEF Return
  <2>2. out = <<>> /\ Still
    BY <2>1 DEF Hurt
  <2>3. CASE Failed
    BY <1>2, <2>1, <2>2, <2>3, PingAgain DEF Still
  <2>4. CASE Succeeded
    BY <2>4 DEF Succeeded, Send
  <2> QED
    BY <2>1, <2>3, <2>4
<1>8. CASE Timeout
  <2>1. /\ pc = "wait" /\ Failed /\ UNCHANGED <<rxVars, out, bootVars>> /\ Quiet
    BY <1>1, <1>8 DEF Timeout, Served
  <2>2. HurtAsk \/ HurtAnswer
    BY <1>1, <2>1 DEF Hurt, HurtArrived, Quiet
  <2>3. SlipClear \/ (rxLen = 0 /\ len = 0)
    BY <2>2 DEF HurtAsk, HurtAnswer
  <2>4. out = <<>> /\ todo = <<>> /\ rsp.at = rsp.len /\ ~ready
    BY <2>1 DEF Quiet
  <2>5. UNCHANGED <<out, bootVars, pool, rxLen, len>> /\ ~ready'
    BY <2>1, <2>4 DEF rxVars
  <2> QED
    BY <1>2, <2>1, <2>3, <2>4, <2>5, PingAgain
<1>9. CASE RxByte
  <2> DEFINE b == rsp.buf[rsp.at + 1]
  <2>1. /\ rsp.at < rsp.len /\ rsp' = [rsp EXCEPT !.at = @ + 1]
        /\ ready' => ready \/ b = END
        /\ UNCHANGED <<hostVars, out, slip, todo, history>>
    BY <1>9 DEF RxByte
  <2>2. pc = "wait" /\ HurtAnswer
    BY <1>1, <1>2, <2>1 DEF Hurt, HurtAsk, HurtArrived, Still
  <2>3. ~ready
    BY <1>1, <2>1, <2>2 DEF HurtAnswer
  <2>4. rsp'.at = rsp.at + 1 /\ rsp'.len = rsp.len /\ rsp'.buf = rsp.buf
    BY <1>1, <2>1 DEF Transmitters
  <2>5. b = END => rsp.at + 1 = rsp.len
    <3>1. rsp.at + 1 # rsp.len => rsp.at + 1 \in 1 .. rsp.len - 1
      BY <1>1, <2>1
    <3> QED
      BY <2>2, <3>1 DEF HurtAnswer
  <2>6. HurtAnswer'
    BY <2>1, <2>2, <2>3, <2>4, <2>5 DEF HurtAnswer, SlipClear
  <2> QED
    BY <1>2, <2>1, <2>2, <2>6 DEF Hurt, hostVars, history
<1>10. CASE BootByte
  <2>1. out # <<>> /\ out' = Tail(out) /\ UNCHANGED <<hostVars, rxVars, rsp, given, history>>
    BY <1>10, BootCases
  <2>2. pc = "wait" /\ HurtAsk
    BY <1>2, <2>1 DEF Hurt, HurtArrived, HurtAnswer
  <2>3. OneEnd' /\ (Head(out) = END => out' = <<>>)
    BY <1>1, <2>1, <2>2, OneEndTail DEF HurtAsk
  <2>4. CASE todo' = todo
    <3>1. HurtAsk'
      BY <2>1, <2>2, <2>3, <2>4 DEF HurtAsk, rxVars
    <3> QED
      BY <1>2, <2>1, <2>2, <3>1 DEF Hurt, hostVars, history
  <2>5. CASE slip.state = "decoding" /\ Head(out) = END
    <3>1. \E x : todo' = Append(todo, x)
      BY <1>10, <2>5, BootCases
    <3>2. Len(todo') = 1
      BY <2>2, <3>1 DEF HurtAsk
    <3>3. slip' = [slip EXCEPT !.at = 0]
      BY <1>10, <2>5, BootCases
    <3>4. SlipClear'
      BY <1>1, <2>5, <3>3 DEF SlipClear, Decoders
    <3>5. HurtArrived'
      BY <2>1, <2>2, <2>3, <2>5, <3>2, <3>4 DEF HurtAsk, HurtArrived, rxVars
    <3> QED
      BY <1>2, <2>1, <2>2, <3>5 DEF Hurt, hostVars, history
  <2>6. todo' = todo \/ (slip.state = "decoding" /\ Head(out) = END)
    BY <1>1, <1>10, BootCases DEF Special
  <2> QED
    BY <2>4, <2>5, <2>6
<1>11. CASE Answer
  <2>1. todo # <<>> /\ todo' = Tail(todo) /\ UNCHANGED <<hostVars, rxVars, out, slip, history>>
    BY <1>11 DEF Answer
  <2>2. pc = "wait" /\ HurtArrived
    BY <1>2, <2>1 DEF Hurt, HurtAsk, HurtAnswer, Still
  <2>3. PICK p \in Responses(Head(todo)) :
          rsp' = [buf |-> Encoded(p), at |-> 0, len |-> Len(Encoded(p))]
    BY <1>11, <2>2 DEF Answer, HurtArrived
  <2>4. Head(todo) \in Packets /\ todo' = <<>>
    BY <1>1, <2>1, <2>2 DEF HurtArrived
  <2>5. p \in Seq(Byte)
    BY <2>4, ResponsesType
  <2>6. \A i \in 1 .. Len(Encoded(p)) - 1 : Encoded(p)[i] # END
    <3>1. Len(Encoded(p)) \in Nat /\ \A i \in 1 .. Len(Encoded(p)) : Encoded(p)[i] = END <=> i = Len(Encoded(p))
      BY <2>5, EndIsLast
    <3> QED
      BY <3>1
  <2>7. rsp'.buf = Encoded(p) /\ rsp'.len = Len(Encoded(p)) /\ rsp'.at = 0
    BY <2>3
  <2>8. HurtAnswer'
    BY <2>1, <2>2, <2>4, <2>6, <2>7 DEF HurtArrived, HurtAnswer, SlipClear, rxVars
  <2> QED
    BY <1>2, <2>1, <2>2, <2>8 DEF Hurt, hostVars, history
<1>12. ~Press
  BY DEF Press
<1> QED
  BY <1>3, <1>4, <1>5, <1>6, <1>7, <1>8, <1>9, <1>10, <1>11, <1>12 DEF Next

LEMMA PassingStep ==
  ASSUME Fits, req \in Asks("check"), Passing, BootByte
  PROVE  \/ Passing' /\ todo' = todo
         \/ /\ out' = <<>> /\ SlipClear'
            /\ todo' = todo \/ \E x : todo' = Append(todo, x)
<1>1. /\ slip \in Decoders /\ slip.at \in Nat /\ slip.state \in {"decoding", "escaped", "clearing"}
  BY TypeParts, Sizes DEF Fits, BootType, Decoders
<1>2. /\ req \in Seq(Byte) /\ Len(req) \in Nat /\ Len(req) >= 1
      /\ req[1] \notin Special /\ req[1] \notin {ESC_END, ESC_ESC}
  BY AsksAre
<1>3. out # <<>> /\ out' = Tail(out) /\ req' = req
  BY BootCases DEF hostVars
<1>4. /\ ESC_END # ESC_ESC /\ END \in Special /\ ESC \in Special /\ END # ESC
      /\ ESC_END # END /\ ESC_ESC # END
  BY DEF Special, ESC_END, ESC_ESC, END, ESC
<1>5. PICK k \in 0 .. Len(req) :
        \/ slip.state # "escaped" /\ out = Encoded(From(req, k))
        \/ /\ slip.state # "decoding" /\ k < Len(req) /\ req[k + 1] \in Special
           /\ out = Tail(Encoded(From(req, k)))
        \/ k = 0 /\ out = Encoded(req)
  BY DEF Passing
<1>6. /\ From(req, k) \in Seq(Byte)
      /\ k = 0 => From(req, k) = req
      /\ k = Len(req) => From(req, k) = <<>>
      /\ k < Len(req) => /\ From(req, k) # <<>> /\ Head(From(req, k)) = req[k + 1] /\ req[k + 1] \in Byte
                         /\ Tail(From(req, k)) = From(req, k + 1) /\ k + 1 \in 0 .. Len(req)
  BY <1>2, FromIs
<1>7. ASSUME NEW b, Put(b)
      PROVE  slip'.state = "decoding"
  BY <1>7 DEF Put
<1>8. ASSUME NEW t \in {"decoding", "escaped", "clearing"}, Become(t)
      PROVE  slip'.state = t
  BY <1>1, <1>8 DEF Become, Decoders
<1>9. ASSUME slip.state # "escaped", out = Encoded(From(req, k))
      PROVE  \/ Passing' /\ todo' = todo
             \/ /\ out' = <<>> /\ SlipClear'
                /\ todo' = todo \/ \E x : todo' = Append(todo, x)
  <2>1. CASE k = Len(req)
    <3>1. Head(out) = END /\ out' = <<>>
      BY <1>3, <1>6, <1>9, <2>1, EncodedHead
    <3>2. CASE slip.state = "decoding"
      <4>1. slip' = [slip EXCEPT !.at = 0] /\ \E x : todo' = Append(todo, x)
        BY <3>1, <3>2, BootCases
      <4> QED
        BY <1>1, <3>1, <3>2, <4>1 DEF SlipClear, Decoders
    <3>3. CASE slip.state = "clearing"
      <4>1. slip' = [slip EXCEPT !.at = 0, !.state = "decoding"] /\ todo' = todo
        BY <3>1, <3>3, BootCases
      <4> QED
        BY <1>1, <3>1, <4>1 DEF SlipClear, Decoders
    <3> QED
      BY <1>1, <1>9, <3>2, <3>3
  <2>2. CASE k < Len(req) /\ req[k + 1] \notin Special
    <3>1. Head(out) = req[k + 1] /\ out' = Encoded(From(req, k + 1)) /\ Head(out) # END
      BY <1>3, <1>4, <1>6, <1>9, <2>2, EncodedHead
    <3>2. todo' = todo /\ slip'.state # "escaped"
      <4>1. CASE slip.state = "decoding"
        BY <1>7, <2>2, <3>1, <4>1, BootCases
      <4>2. CASE slip.state = "clearing"
        BY <3>1, <4>2, BootCases
      <4> QED
        BY <1>1, <1>9, <4>1, <4>2
    <3> QED
      BY <1>3, <1>6, <2>2, <3>1, <3>2 DEF Passing
  <2>3. CASE k < Len(req) /\ req[k + 1] \in Special
    <3>1. Head(out) = ESC /\ out' = Tail(Encoded(From(req, k)))
      BY <1>3, <1>6, <1>9, <2>3, EncodedHead
    <3>2. todo' = todo /\ slip'.state # "decoding"
      <4>1. CASE slip.state = "decoding"
        BY <1>8, <3>1, <4>1, BootCases
      <4>2. CASE slip.state = "clearing"
        BY <1>4, <3>1, <4>2, BootCases
      <4> QED
        BY <1>1, <1>9, <4>1, <4>2
    <3> QED
      BY <1>3, <2>3, <3>1, <3>2 DEF Passing
  <2> QED
    BY <1>2, <2>1, <2>2, <2>3
<1>10. CASE /\ slip.state # "decoding" /\ k < Len(req) /\ req[k + 1] \in Special
            /\ out = Tail(Encoded(From(req, k)))
  <2>1. Head(out) \in {ESC_END, ESC_ESC} /\ out' = Encoded(From(req, k + 1)) /\ Head(out) # END
    <3>1. Head(out) \in {ESC_END, ESC_ESC} /\ out' = Encoded(From(req, k + 1))
      BY <1>3, <1>6, <1>10, EncodedHead
    <3> QED
      BY <1>4, <3>1
  <2>2. todo' = todo /\ slip'.state # "escaped"
    <3>1. CASE slip.state = "escaped"
      BY <1>7, <2>1, <3>1, BootCases
    <3>2. CASE slip.state = "clearing"
      BY <2>1, <3>2, BootCases
    <3> QED
      BY <1>1, <1>10, <3>1, <3>2
  <2> QED
    BY <1>3, <1>6, <1>10, <2>1, <2>2 DEF Passing
<1>11. CASE slip.state = "escaped" /\ k = 0 /\ out = Encoded(req)
  <2>1. Head(out) = req[1] /\ out' = Encoded(From(req, 1)) /\ 1 \in 0 .. Len(req)
    <3>1. k < Len(req) /\ req[k + 1] \notin Special /\ k + 1 = 1 /\ out = Encoded(From(req, k))
      BY <1>2, <1>6, <1>11
    <3>2. Head(out) = req[k + 1] /\ out' = Encoded(From(req, k + 1)) /\ k + 1 \in 0 .. Len(req)
      BY <1>3, <1>6, <3>1, EncodedHead
    <3> QED
      BY <3>1, <3>2
  <2>2. todo' = todo /\ slip'.state = "clearing"
    BY <1>2, <1>8, <1>11, <2>1, BootCases
  <2> QED
    BY <1>3, <2>1, <2>2 DEF Passing
<1> QED
  BY <1>1, <1>5, <1>6, <1>9, <1>10, <1>11
\* The second ping: where it fails too, the third begins with nothing left of either.
LEMMA SecondNext ==
  ASSUME Roomy, Fits, Fits', Second, stage = "check", tries = 2, ctx # "isr",
         [Next]_vars, lost' = lost, late' = late, stray' = stray
  PROVE  /\ verdict' = verdict
         /\ stage' = "check" =>
              \/ Second' /\ tries' = 2
              \/ Course' /\ tries' = 1 /\ pc' # "idle"
<1>1. /\ out \in Seq(Byte) /\ rsp \in Transmitters /\ rsp.at \in Nat /\ rsp.len \in Nat
      /\ slip \in Decoders /\ slip.at \in Nat /\ id \in Byte /\ todo \in Seq(Packets)
      /\ slip.state \in {"decoding", "escaped", "clearing"} /\ rsp.at <= rsp.len
      /\ late \in Nat /\ lost \in Nat
  BY TypeParts, Sizes
  DEF Fits, HostType, SharedType, BootType, HistoryType, Transmitters, Decoders
<1>2. /\ pc \in {"encode", "copy", "wait", "read"} /\ Encoding /\ verdict \in {"none", "ok"}
      /\ pc # "read" => req \in Asks("check")
  BY DEF Second
<1>3. ASSUME UNCHANGED vars
      PROVE  Second' /\ UNCHANGED <<stage, tries, verdict>>
  BY <1>3 DEF vars, hostVars, rxVars, bootVars, history, Second, Encoding, NextAsk, NextArrived,
     NextAnswer, Dropped, Passing, Whole, Still, SlipClear
<1>4. ~Start
  BY <1>2 DEF Start
<1>5. ~LoseByte
  BY <1>1 DEF LoseByte
<1>6. CASE Encode
  <2>1. /\ pc = "encode" /\ pc' \in {"encode", "copy"}
        /\ UNCHANGED <<stage, tries, id, req, rxLen, len, ready, out, bootVars, history>>
    BY <1>6 DEF Encode
  <2>2. Encoding'
    BY <1>2, <1>6, EncodeStep
  <2> QED
    BY <1>2, <2>1, <2>2 DEF Second, SlipClear, bootVars, history
<1>7. CASE Copy
  <2>1. /\ pc = "copy" /\ pc' \in {"copy", "wait"}
        /\ UNCHANGED <<stage, tries, id, req, to, rxVars, bootVars, history>>
    BY <1>7 DEF Copy
  <2>2. Encoding' /\ (pc' = "wait" => out' = Encoded(req'))
    BY <1>2, <1>7, CopyStep
  <2>3. /\ todo' = <<>> /\ rsp'.at = rsp'.len /\ ~ready' /\ req' = req /\ rxLen' = rxLen /\ len' = len
        /\ slip' = slip /\ verdict' = verdict /\ (SlipClear \/ (rxLen = 0 /\ len = 0))
    BY <2>1 DEF Second, rxVars, bootVars, history
  <2>4. CASE pc' = "copy"
    BY <1>2, <2>1, <2>2, <2>3, <2>4 DEF Second, SlipClear
  <2>5. CASE pc' = "wait"
    <3>1. req \in Seq(Byte) /\ Len(req) \in Nat /\ 0 \in 0 .. Len(req) /\ From(req, 0) = req
      <4>1. req \in Seq(Byte) /\ Len(req) \in Nat
        BY <1>2, <2>1, AsksAre
      <4>2. 0 \in 0 .. Len(req)
        BY <4>1
      <4> QED
        BY <4>1, <4>2, FromIs
    <3>2. CASE SlipClear
      <4>1. SubSeq(slip'.buf, 1, 0) = <<>> /\ SubSeq(req, 1, 0) = <<>>
        BY SubSeqEmpty
      <4>2. Whole'
        BY <2>2, <2>3, <2>5, <3>1, <3>2, <4>1 DEF Whole, SlipClear
      <4> QED
        BY <1>2, <2>1, <2>2, <2>3, <2>5, <4>2 DEF Second, NextAsk
    <3>3. CASE rxLen = 0 /\ len = 0
      <4>1. Passing'
        BY <2>2, <2>3, <2>5, <3>1 DEF Passing
      <4> QED
        BY <1>2, <2>1, <2>2, <2>3, <2>5, <3>3, <4>1 DEF Second, NextAsk
    <3> QED
      BY <2>3, <3>2, <3>3
  <2> QED
    BY <2>1, <2>3, <2>4, <2>5
<1>8. CASE Read
  <2>1. /\ pc = "wait" /\ ready /\ pc' = "read" /\ rxLen' = 0 /\ len' = 0
        /\ UNCHANGED <<stage, tries, out, bootVars, history>>
    BY <1>8 DEF Read
  <2>2. NextAnswer
    BY <2>1 DEF Second, NextAsk, NextArrived, Dropped
  <2>3. out' = <<>> /\ Still'
    BY <2>1, <2>2 DEF NextAnswer, Still, SlipClear, bootVars
  <2> QED
    BY <1>2, <2>1, <2>3 DEF Second, Encoding, history
<1>9. CASE Return
  <2>1. /\ pc = "read" /\ ~ready' /\ UNCHANGED <<pool, rxLen, len, out, bootVars>>
        /\ (IF req = <<>> THEN Failed ELSE Succeeded)
    BY <1>9 DEF Return
  <2>2. out = <<>> /\ Still
    BY <2>1 DEF Second
  <2>3. CASE Failed
    BY <1>2, <2>1, <2>2, <2>3, PingAgain DEF Still
  <2>4. CASE Succeeded
    BY <2>4 DEF Succeeded, Send
  <2> QED
    BY <2>1, <2>3, <2>4
<1>10. req \in Asks("check") => (NextAsk => out # <<>>)
  <2> SUFFICES ASSUME req \in Asks("check"), NextAsk PROVE out # <<>>
    OBVIOUS
  <2>1. req \in Seq(Byte) /\ Len(req) \in Nat
    BY AsksAre
  <2>2. \A k \in 0 .. Len(req) :
          /\ From(req, k) \in Seq(Byte)
          /\ k < Len(req) => From(req, k) # <<>> /\ Head(From(req, k)) = req[k + 1]
    BY <2>1, FromIs
  <2>3. \A k \in 0 .. Len(req) :
          /\ Encoded(From(req, k)) # <<>>
          /\ k < Len(req) /\ req[k + 1] \in Special => Tail(Encoded(From(req, k))) # <<>>
    BY <2>2, EncodedHead
  <2>4. Encoded(req) # <<>>
    BY <2>1, EncodedHead
  <2>5. CASE Passing
    BY <2>3, <2>4, <2>5 DEF Passing
  <2>6. CASE Whole
    <3>1. slip.at \in 0 .. Len(req)
      BY <1>1, <2>1, <2>6 DEF Whole
    <3> QED
      BY <2>3, <2>6, <3>1 DEF Whole
  <2> QED
    BY <2>5, <2>6 DEF NextAsk
<1>11. CASE Timeout
  <2>1. /\ pc = "wait" /\ Failed /\ UNCHANGED <<rxVars, out, bootVars>> /\ Quiet
    BY <1>1, <1>11 DEF Timeout, Served
  <2>2. Dropped
    BY <1>1, <1>2, <1>10, <2>1 DEF Second, NextArrived, NextAnswer, Quiet
  <2>3. UNCHANGED <<out, bootVars, pool, rxLen, len>> /\ ~ready'
    BY <2>1, <2>2 DEF rxVars, Dropped
  <2> QED
    BY <1>2, <2>1, <2>2, <2>3, PingAgain DEF Dropped, Still
<1>12. CASE RxByte
  <2> DEFINE b == rsp.buf[rsp.at + 1]
  <2>1. /\ rsp.at < rsp.len /\ rsp' = [rsp EXCEPT !.at = @ + 1]
        /\ ~ready => (ready' <=> b = END)
        /\ UNCHANGED <<hostVars, out, slip, todo, history>>
    BY <1>12 DEF RxByte
  <2>2. pc = "wait" /\ NextAnswer
    BY <1>1, <1>2, <2>1 DEF Second, NextAsk, NextArrived, Dropped, Still
  <2>3. ~ready
    BY <1>1, <2>1, <2>2 DEF NextAnswer
  <2>4. rsp'.at = rsp.at + 1 /\ rsp'.len = rsp.len /\ rsp'.buf = rsp.buf
    BY <1>1, <2>1 DEF Transmitters
  <2>5. b = END <=> rsp.at + 1 = rsp.len
    <3>1. rsp.at + 1 \in 1 .. rsp.len
      BY <1>1, <2>1
    <3> QED
      BY <2>2, <3>1 DEF NextAnswer
  <2>6. NextAnswer'
    BY <2>1, <2>2, <2>3, <2>4, <2>5 DEF NextAnswer, SlipClear
  <2> QED
    BY <1>2, <2>1, <2>2, <2>6 DEF Second, Encoding, hostVars, history
<1>13. CASE BootByte
  <2>1. /\ out # <<>> /\ pc # "copy" /\ UNCHANGED <<hostVars, rxVars, rsp, given, history>>
    BY <1>13, BootCases
  <2>2. pc = "wait" /\ NextAsk
    BY <1>2, <2>1 DEF Second, Encoding, NextArrived, NextAnswer, Dropped
  <2>3. req \in Asks("check")
    BY <1>2, <2>2
  <2>4. NextAsk' \/ NextArrived' \/ Dropped'
    <3>1. todo = <<>> /\ rsp'.at = rsp'.len /\ ~ready' /\ rxLen' = rxLen /\ len' = len
      BY <2>1, <2>2 DEF NextAsk, rxVars
    <3>2. CASE Whole
      <4>1. CASE Whole' /\ todo' = todo
        BY <3>1, <4>1 DEF NextAsk
      <4>2. CASE /\ out' = <<>> /\ SlipClear'
                 /\ \E x \in Packets : todo' = Append(todo, x) /\ Is(x)
        <5>1. Len(todo') = 1
          BY <3>1, <4>2
        <5> QED
          BY <3>1, <4>2, <5>1 DEF NextArrived
      <4> QED
        BY <1>13, <2>3, <3>2, <4>1, <4>2, WholeStep
    <3>3. CASE rxLen = 0 /\ len = 0 /\ Passing
      <4>1. CASE Passing' /\ todo' = todo
        BY <3>1, <3>3, <4>1 DEF NextAsk
      <4>2. CASE out' = <<>> /\ SlipClear' /\ todo' = todo
        BY <3>1, <3>3, <4>2 DEF Dropped, Still
      <4>3. CASE out' = <<>> /\ SlipClear' /\ \E x : todo' = Append(todo, x)
        <5>1. Len(todo') = 1
          BY <3>1, <4>3
        <5> QED
          BY <3>1, <4>3, <5>1 DEF NextArrived
      <4> QED
        BY <1>13, <2>3, <3>3, <4>1, <4>2, <4>3, PassingStep
    <3> QED
      BY <2>2, <3>2, <3>3 DEF NextAsk
  <2> QED
    BY <1>2, <2>1, <2>2, <2>3, <2>4 DEF Second, Encoding, hostVars, history
<1>14. CASE Answer
  <2>1. todo # <<>> /\ todo' = Tail(todo) /\ UNCHANGED <<hostVars, rxVars, out, slip, history>>
    BY <1>14 DEF Answer
  <2>2. pc = "wait" /\ NextArrived
    BY <1>2, <2>1 DEF Second, NextAsk, NextAnswer, Dropped, Still
  <2>3. PICK p \in Responses(Head(todo)) :
          rsp' = [buf |-> Encoded(p), at |-> 0, len |-> Len(Encoded(p))]
    BY <1>14, <2>2 DEF Answer, NextArrived
  <2>4. Head(todo) \in Packets /\ todo' = <<>>
    BY <1>1, <2>1, <2>2 DEF NextArrived
  <2>5. p \in Seq(Byte)
    BY <2>4, ResponsesType
  <2>6. /\ Len(Encoded(p)) \in Nat /\ Len(Encoded(p)) >= 1
        /\ \A i \in 1 .. Len(Encoded(p)) : Encoded(p)[i] = END <=> i = Len(Encoded(p))
    BY <2>5, EndIsLast
  <2>7. rsp'.buf = Encoded(p) /\ rsp'.len = Len(Encoded(p)) /\ rsp'.at = 0 /\ rsp'.at # rsp'.len
    BY <2>3, <2>6
  <2>8. NextAnswer'
    BY <2>1, <2>2, <2>4, <2>6, <2>7 DEF NextArrived, NextAnswer, SlipClear, rxVars
  <2> QED
    BY <1>2, <2>1, <2>2, <2>8 DEF Second, Encoding, hostVars, history
<1>15. ~Press
  BY DEF Press
<1> QED
  BY <1>3, <1>4, <1>5, <1>6, <1>7, <1>8, <1>9, <1>11, <1>12, <1>13, <1>14, <1>15 DEF Next

-----------------------------------------------------------------------------
(* A command frame in front of a request, or behind one.                    *)

LEMMA StrayPlain ==
  ASSUME NEW g \in Strays
  PROVE  /\ g \in Seq(Byte) /\ Len(g) \in 1 .. 6 /\ g # <<>>
         /\ \A i \in 1 .. Len(g) : g[i] \notin Special
<1>1. PICK f \in {PingApp, EnterBl}, k \in 0 .. 5 : g = Rest(f, k)
  BY DEF Strays
<1>2. g \in Seq(Byte) /\ Len(g) \in 1 .. 6
  BY <1>1, StrayIs
<1>3. \A i \in 1 .. 6 : PingApp[i] \notin Special /\ EnterBl[i] \notin Special
  BY DEF PingApp, EnterBl, Special, END, ESC
<1>4. f \in Seq(Byte) /\ Len(f) = 6 /\ \A i \in 1 .. 6 : f[i] \notin Special
  <2>1. CASE f = PingApp
    BY <1>3, <2>1, StrayIs
  <2>2. CASE f = EnterBl
    BY <1>3, <2>2, StrayIs
  <2> QED
    BY <2>1, <2>2
<1>5. ASSUME NEW i \in 1 .. Len(g)
      PROVE  g[i] \notin Special
  <2>1. Len(g) = 6 - k /\ \A j \in 1 .. 6 - k : g[j] = f[k + j]
    BY <1>1, <1>4, RestIs
  <2>2. i \in 1 .. 6 - k /\ k + i \in 1 .. 6
    BY <2>1
  <2> QED
    BY <1>4, <2>1, <2>2
<1> QED
  BY <1>2, <1>5

\* The decoder has the beginning of g, what follows is the rest of it and t.
Lead(g, t) == slip.state = "decoding" /\ Begins(g) /\ out = From(g, slip.at) \o t

LEMMA LeadStep ==
  ASSUME Fits, NEW g \in Strays, NEW t \in Seq(Byte), Lead(g, t), slip.at < Len(g), BootByte
  PROVE  Lead(g, t)' /\ todo' = todo
<1>1. /\ slip \in Decoders /\ slip.at \in Nat /\ slip.at \in 0 .. Len(g) /\ slip.at + 1 <= PoolSize
      /\ g \in Seq(Byte) /\ Len(g) \in Nat /\ slip.at + 1 \in 1 .. Len(g)
  <2>1. slip \in Decoders /\ slip.at \in Nat
    BY TypeParts, Sizes DEF Fits, BootType, Decoders
  <2>2. PICK n : n = Len(g)
    OBVIOUS
  <2>3. g \in Seq(Byte) /\ n \in 1 .. 6
    BY <2>2, StrayPlain
  <2>4. PoolSize \in Nat /\ PoolSize >= 6
    BY DfuLinkAssumption
  <2>5. slip.at < n
    BY <2>2
  <2>6. slip.at \in 0 .. n /\ slip.at + 1 \in 1 .. n /\ slip.at + 1 <= PoolSize /\ n \in Nat
    BY <2>1, <2>3, <2>4, <2>5
  <2> QED
    BY <2>1, <2>2, <2>3, <2>6
<1> DEFINE b == g[slip.at + 1]
<1>2. /\ From(g, slip.at) \in Seq(Byte) /\ From(g, slip.at) # <<>> /\ Head(From(g, slip.at)) = b
      /\ Tail(From(g, slip.at)) = From(g, slip.at + 1) /\ b \in Byte
  BY <1>1, FromIs
<1>3. b \notin Special
  BY <1>1, StrayPlain
<1>4. Head(out) = b /\ Tail(out) = From(g, slip.at + 1) \o t
  <2>1. PICK e : e = From(g, slip.at)
    OBVIOUS
  <2>2. e \in Seq(Byte) /\ e # <<>> /\ out = e \o t /\ Head(e) = b /\ Tail(e) = From(g, slip.at + 1)
    BY <1>2, <2>1 DEF Lead
  <2>3. Head(e \o t) = Head(e) /\ Tail(e \o t) = Tail(e) \o t
    BY <2>2, Joined
  <2> QED
    BY <2>2, <2>3
<1>5. Put(b) /\ todo' = todo /\ out' = From(g, slip.at + 1) \o t
  BY <1>3, <1>4, BootCases DEF Lead
<1>6. /\ slip'.at = slip.at + 1 /\ slip'.state = "decoding"
      /\ SubSeq(slip'.buf, 1, slip'.at) = SubSeq(g, 1, slip'.at)
  BY <1>1, <1>2, <1>5, PutIs DEF Lead, Begins
<1>7. slip'.at <= Len(g)
  BY <1>1, <1>6
<1> QED
  BY <1>5, <1>6, <1>7 DEF Lead, Begins

\* Nothing waits in the bootloader's decoder, or on the way to it.
Free == SlipClear /\ out = <<>>

\* Nothing is on its way back to the host, and nothing of it is left; nor in the scheduler.
Calm == rsp.at = rsp.len /\ ~ready /\ rxLen = 0 /\ len = 0
Silent == todo = <<>> /\ Calm

\* The frame g goes out before the request, which becomes one packet with it.
Ahead(g) ==
  \/ Silent /\ Lead(g, Encoded(req))
  \/ Silent /\ Sent(g \o req, <<>>)
  \/ Calm /\ Free /\ \E x \in Packets : todo = <<x>> /\ x.whole = g \o req
  \/ Coming /\ Free

\* It goes out behind the request, and waits for the next one.
Behind(g) ==
  /\ ctx = "thread"
  /\ \/ Silent /\ Sent(req, g)
     \/ Calm /\ Lead(g, <<>>) /\ \E x \in Packets : todo = <<x>> /\ Is(x)
     \/ Coming /\ Lead(g, <<>>) /\ Fitting(given)

Refused == req = <<>> /\ Free
Taken(g) == ctx = "thread" /\ req \in Asks(stage) /\ Lead(g, <<>>)

\* The frame g is on its way, and in the mode check the first ping is still to fail for it.
Strayed(g) ==
  /\ verdict \in {"none", "ok"}
  /\ ctx = "thread" \/ (stage = "check" /\ pc # "over")
  /\ stage = "check" /\ pc # "idle" => tries = 3
  /\ pc \in {"encode", "copy", "wait"} => req \in Asks(stage)
  /\ pc \in {"idle", "encode", "over"} => Silent /\ Lead(g, <<>>)
  /\ pc = "encode" => SubSeq(pool, 1, to) = Flat(SubSeq(req, 1, from))
  /\ pc = "copy" => /\ Silent /\ Lead(g, SubSeq(pool, 1, from))
                    /\ to = Len(Encoded(req)) /\ SubSeq(pool, 1, to) = Encoded(req)
  /\ pc = "wait" => Ahead(g) \/ Behind(g)
  /\ pc = "read" => /\ todo = <<>> /\ rsp.at = rsp.len /\ ready /\ rxLen = 0 /\ len = 0
                    /\ Refused \/ Taken(g)

\* The frame failed a request other than a ping of the mode check.
Ended == pc = "over" /\ stage # "check" /\ out = <<>> /\ todo = <<>> /\ verdict = "fail" /\ ctx = "thread"

LEMMA LeadNothing ==
  ASSUME NEW g \in Strays
  PROVE  /\ g \in Seq(Byte) /\ Len(g) \in Nat /\ 0 <= Len(g) /\ From(g, 0) \o <<>> = g
         /\ From(g, Len(g)) = <<>> /\ From(g, Len(g)) \o <<>> = <<>>
         /\ \A t \in Seq(Byte) : From(g, Len(g)) \o t = t
<1>1. g \in Seq(Byte) /\ Len(g) \in Nat
  BY StrayPlain
<1>2. From(g, 0) = g
  BY <1>1, FromIs
<1>3. From(g, Len(g)) = <<>>
  BY <1>1, FromIs
<1>4. <<>> \in Seq(Byte) /\ \A t \in Seq(Byte) : <<>> \o t = t /\ t \o <<>> = t
  BY ConcatEmptySeq
<1> QED
  BY <1>1, <1>2, <1>3, <1>4

\* The packet that a frame and a request make together fits the decoder.
LEMMA StrayRoom ==
  ASSUME Roomy, NEW g \in Strays, NEW s \in {"check", "setup", "create", "crc"}, NEW r \in Asks(s)
  PROVE  /\ g \o r \in Seq(Byte) /\ g \o r # <<>> /\ Len(g \o r) + 1 <= PoolSize
         /\ Len(g) <= Len(g \o r) /\ SubSeq(g \o r, 1, Len(g)) = g /\ From(g \o r, Len(g)) = r
         /\ r \in Seq(Byte) /\ r # <<>> /\ Len(r) + 1 <= PoolSize
<1>1. g \in Seq(Byte) /\ Len(g) \in 1 .. 6 /\ r \in Seq(Byte) /\ Len(r) \in Nat /\ Len(r) >= 1
      /\ Len(r) <= DataLen + 1
  BY StrayPlain, AsksAre
<1>2. PICK m, n : m = Len(g) /\ n = Len(r)
  OBVIOUS
<1>3. m \in 1 .. 6 /\ n \in Nat /\ n >= 1 /\ n <= DataLen + 1 /\ DataLen \in Nat /\ PoolSize \in Nat
      /\ PoolSize >= 2 * DataLen + 32
  BY <1>1, <1>2, Sizes DEF Roomy
<1>4. m + n + 1 <= PoolSize /\ n + 1 <= PoolSize /\ m <= m + n /\ m + n >= 1
  BY <1>3
<1>5. g \o r \in Seq(Byte) /\ Len(g \o r) = m + n
  BY <1>1, <1>2, ConcatProperties
<1>6. SubSeq(g \o r, 1, Len(g)) = g /\ From(g \o r, Len(g)) = r
  <2>1. SubSeq(g \o r, 1, Len(g)) = g /\ SubSeq(g \o r, Len(g) + 1, Len(g) + Len(r)) = r
    BY <1>1
  <2> QED
    BY <1>2, <1>5, <2>1 DEF From
<1>7. r # <<>> /\ g \o r # <<>>
  BY <1>1, <1>2, <1>4, <1>5
<1> QED
  BY <1>1, <1>2, <1>4, <1>5, <1>6, <1>7

\* What a byte that reaches the bootloader leaves as it is.
LEMMA BootKeeps ==
  ASSUME BootByte
  PROVE  /\ UNCHANGED <<pc, stage, tries, id, req, from, to, pool, rxLen, len, ready, rsp, given, verdict>>
         /\ Calm' = Calm
BY BootCases DEF hostVars, rxVars, history, Calm

LEMMA AheadBootByte ==
  ASSUME Roomy, Fits, NEW g \in Strays, req \in Asks(stage), Ahead(g), BootByte
  PROVE  Ahead(g)'
<1>1. stage \in {"check", "setup", "create", "crc"}
  BY TypeParts DEF Fits, HostType
<1>2. out # <<>> /\ req' = req /\ Calm' = Calm
  BY BootCases, BootKeeps
<1>3. PICK r, e : r = req /\ e = Encoded(req)
  OBVIOUS
<1>4. /\ r \in Seq(Byte) /\ g \o r \in Seq(Byte) /\ g \o r # <<>> /\ Len(g \o r) + 1 <= PoolSize
      /\ Len(g) <= Len(g \o r) /\ SubSeq(g \o r, 1, Len(g)) = g /\ From(g \o r, Len(g)) = r
  BY <1>1, <1>3, StrayRoom
<1>5. e \in Seq(Byte) /\ e \o <<>> = e
  <2>1. e \in Seq(Byte)
    BY <1>3, <1>4, FlatType
  <2> QED
    BY <2>1, ConcatEmptySeq
<1>6. Silent /\ (Lead(g, e) \/ Sent(g \o r, <<>>))
  BY <1>2, <1>3 DEF Ahead, Free, Coming
<1>7. ASSUME Sent(g \o r, <<>>)
      PROVE  Ahead(g)'
  <2>1. PICK q : q = g \o r
    OBVIOUS
  <2>2. <<>> \in Seq(Byte)
    OBVIOUS
  <2>3. \/ Sent(q, <<>>)' /\ todo' = todo
        \/ /\ out' = <<>> /\ SlipClear'
           /\ \E x \in Packets : todo' = Append(todo, x) /\ Packs(x, q)
    BY <1>4, <1>7, <2>1, <2>2, SentStep
  <2>4. CASE Sent(q, <<>>)' /\ todo' = todo
    <3>1. q = g \o req'
      BY <1>2, <1>3, <2>1
    <3>2. Sent(g \o req, <<>>)'
      BY <2>4, <3>1 DEF Sent, Begins
    <3> QED
      BY <1>2, <1>6, <2>4, <3>2 DEF Ahead, Silent
  <2>5. CASE out' = <<>> /\ SlipClear' /\ \E x \in Packets : todo' = Append(todo, x) /\ Packs(x, q)
    <3>1. PICK x \in Packets : todo' = Append(todo, x) /\ x.whole = q
      BY <2>5 DEF Packs
    <3>2. todo' = <<x>> /\ x.whole = g \o req'
      BY <1>2, <1>3, <1>6, <2>1, <3>1 DEF Silent
    <3> QED
      BY <1>2, <1>6, <2>5, <3>2 DEF Ahead, Silent, Free
  <2> QED
    BY <2>3, <2>4, <2>5
<1>8. CASE Lead(g, e) /\ slip.at < Len(g)
  <2>1. Lead(g, e)' /\ todo' = todo
    BY <1>5, <1>8, LeadStep
  <2>2. Lead(g, Encoded(req))'
    BY <1>2, <1>3, <2>1 DEF Lead, Begins
  <2> QED
    BY <1>2, <1>6, <2>1, <2>2 DEF Ahead, Silent
<1>9. CASE Lead(g, e) /\ ~ (slip.at < Len(g))
  <2>1. slip.at = Len(g) /\ slip.at \in Nat
    <3>1. slip.at \in Nat /\ Len(g) \in Nat /\ slip.at <= Len(g)
      BY <1>9, LeadNothing, TypeParts, Sizes DEF Lead, Begins, Fits, BootType, Decoders
    <3> QED
      BY <1>9, <3>1
  <2>2. out = e /\ slip.state = "decoding" /\ SubSeq(slip.buf, 1, slip.at) = SubSeq(g \o r, 1, slip.at)
    <3>1. SubSeq(g, 1, Len(g)) = g
      BY LeadNothing
    <3> QED
      BY <1>4, <1>5, <1>9, <2>1, <3>1, LeadNothing DEF Lead, Begins
  <2>3. out = Encoded(From(g \o r, slip.at)) \o <<>>
    BY <1>3, <1>4, <1>5, <2>1, <2>2
  <2>4. Sent(g \o r, <<>>)
    BY <1>4, <2>1, <2>2, <2>3 DEF Sent, Begins
  <2> QED
    BY <1>7, <2>4
<1> QED
  BY <1>6, <1>7, <1>8, <1>9

LEMMA BehindBootByte ==
  ASSUME Roomy, Fits, NEW g \in Strays, req \in Asks(stage), Behind(g), BootByte, ctx' = ctx
  PROVE  Behind(g)'
<1>1. stage \in {"check", "setup", "create", "crc"}
  BY TypeParts DEF Fits, HostType
<1>2. /\ out # <<>> /\ req' = req /\ Calm' = Calm /\ ctx' = "thread"
      /\ UNCHANGED <<rsp, given, pool, rxLen, len, ready>>
  BY BootCases, BootKeeps DEF Behind
<1>3. PICK r : r = req
  OBVIOUS
<1>4. /\ r \in Seq(Byte) /\ r # <<>> /\ Len(r) + 1 <= PoolSize /\ g \in Seq(Byte)
      /\ 0 <= Len(g) /\ From(g, 0) \o <<>> = g
  BY <1>1, <1>3, StrayRoom, LeadNothing
<1>5. ASSUME Lead(g, <<>>)
      PROVE  Lead(g, <<>>)' /\ todo' = todo
  <2>1. slip.at < Len(g)
    <3>1. slip.at \in Nat /\ Len(g) \in Nat /\ slip.at <= Len(g)
      BY <1>5, LeadNothing, TypeParts, Sizes DEF Lead, Begins, Fits, BootType, Decoders
    <3>2. slip.at # Len(g)
      BY <1>2, <1>5, LeadNothing DEF Lead
    <3> QED
      BY <3>1, <3>2
  <2>2. <<>> \in Seq(Byte)
    OBVIOUS
  <2> QED
    BY <1>5, <2>1, <2>2, LeadStep
<1>6. CASE Silent /\ Sent(req, g)
  <2>1. \/ Sent(r, g)' /\ todo' = todo
        \/ /\ out' = g /\ SlipClear'
           /\ \E x \in Packets : todo' = Append(todo, x) /\ Packs(x, r)
    BY <1>3, <1>4, <1>6, SentStep
  <2>2. CASE Sent(r, g)' /\ todo' = todo
    <3>1. Sent(req, g)'
      BY <1>2, <1>3, <2>2 DEF Sent, Begins
    <3> QED
      BY <1>2, <1>6, <2>2, <3>1 DEF Behind, Silent
  <2>3. CASE out' = g /\ SlipClear' /\ \E x \in Packets : todo' = Append(todo, x) /\ Packs(x, r)
    <3>1. PICK x \in Packets : todo' = Append(todo, x) /\ Packs(x, r)
      BY <2>3
    <3>2. todo' = <<x>> /\ Is(x)'
      BY <1>2, <1>3, <1>6, <3>1 DEF Silent, Packs, Is
    <3>3. Lead(g, <<>>)'
      <4>1. SubSeq(slip'.buf, 1, 0) = <<>> /\ SubSeq(g, 1, 0) = <<>>
        BY SubSeqEmpty
      <4> QED
        BY <1>4, <2>3, <4>1 DEF SlipClear, Lead, Begins
    <3> QED
      BY <1>2, <1>6, <3>2, <3>3 DEF Behind, Silent, Is
  <2> QED
    BY <2>1, <2>2, <2>3
<1>7. CASE Calm /\ Lead(g, <<>>) /\ \E x \in Packets : todo = <<x>> /\ Is(x)
  BY <1>2, <1>5, <1>7 DEF Behind, Is
<1>8. CASE Coming /\ Lead(g, <<>>) /\ Fitting(given)
  BY <1>2, <1>5, <1>8 DEF Behind, Coming, Fitting, Accepts
<1> QED
  BY <1>6, <1>7, <1>8 DEF Behind

LEMMA StrayedBootByte ==
  ASSUME Roomy, Fits, NEW g \in Strays, Strayed(g), BootByte, ctx' = ctx
  PROVE  Strayed(g)'
<1>1. /\ out # <<>> /\ pc # "copy" /\ Calm' = Calm
      /\ UNCHANGED <<pc, stage, tries, req, from, to, pool, rxLen, len, ready, rsp, verdict>>
  BY BootCases, BootKeeps
<1>2. pc \in {"idle", "encode", "copy", "wait", "read", "over"}
  BY TypeParts DEF Fits, HostType
<1>3. ASSUME Lead(g, <<>>)
      PROVE  Lead(g, <<>>)' /\ todo' = todo
  <2>1. slip.at < Len(g)
    <3>1. slip.at \in Nat /\ Len(g) \in Nat /\ slip.at <= Len(g)
      BY <1>3, LeadNothing, TypeParts, Sizes DEF Lead, Begins, Fits, BootType, Decoders
    <3>2. slip.at # Len(g)
      BY <1>1, <1>3, LeadNothing DEF Lead
    <3> QED
      BY <3>1, <3>2
  <2>2. <<>> \in Seq(Byte)
    OBVIOUS
  <2> QED
    BY <1>3, <2>1, <2>2, LeadStep
<1>4. CASE pc \in {"idle", "encode", "over"}
  BY <1>1, <1>3, <1>4 DEF Strayed, Silent
<1>5. CASE pc = "wait"
  <2>1. Ahead(g)' \/ Behind(g)'
    BY <1>5, AheadBootByte, BehindBootByte DEF Strayed
  <2> QED
    BY <1>1, <1>5, <2>1 DEF Strayed
<1>6. CASE pc = "read"
  <2>1. Taken(g)
    BY <1>1, <1>6 DEF Strayed, Refused, Free
  <2>2. Taken(g)' /\ todo' = todo
    BY <1>1, <1>3, <2>1 DEF Taken
  <2> QED
    BY <1>1, <1>6, <2>2 DEF Strayed
<1> QED
  BY <1>1, <1>2, <1>4, <1>5, <1>6

LEMMA StrayedStart ==
  ASSUME Fits, NEW g \in Strays, Strayed(g), Start, ctx' = ctx
  PROVE  Strayed(g)'
<1>1. /\ pc = "idle" /\ Send("check", <<PING, id>>) /\ tries' = 3 /\ stage = "check"
      /\ UNCHANGED <<rxVars, out, bootVars, history>> /\ id \in Byte
  BY TypeParts DEF Start, Fits, HostType, Shape
<1>2. /\ pc' = "encode" /\ stage' = "check" /\ req' = <<PING, id>> /\ from' = 0 /\ to' = 0
      /\ UNCHANGED <<pool, rxLen, len, ready, out, slip, todo, rsp, verdict>>
  BY <1>1 DEF Send, rxVars, bootVars, history
<1>3. Silent' /\ Lead(g, <<>>)'
  BY <1>1, <1>2 DEF Strayed, Silent, Calm, Lead, Begins
<1>4. SubSeq(pool', 1, to') = Flat(SubSeq(req', 1, from'))
  <2>1. SubSeq(pool', 1, 0) = <<>> /\ SubSeq(req', 1, 0) = <<>>
    BY SubSeqEmpty
  <2> QED
    BY <1>2, <2>1, FlatEmpty
<1>5. req' \in Asks(stage')
  BY <1>1, <1>2, AskIds
<1> QED
  BY <1>1, <1>2, <1>3, <1>4, <1>5 DEF Strayed

LEMMA StrayedEncode ==
  ASSUME Roomy, Fits, Fits', NEW g \in Strays, Strayed(g), Encode, ctx' = ctx
  PROVE  Strayed(g)'
<1>1. /\ pc = "encode"
      /\ UNCHANGED <<stage, tries, req, rxLen, len, ready, out, slip, todo, rsp, verdict>>
  BY DEF Encode, bootVars, history
<1>2. Silent' /\ Lead(g, <<>>)'
  BY <1>1 DEF Strayed, Silent, Calm, Lead, Begins
<1>3. CASE pc' = "encode" /\ SubSeq(pool', 1, to') = Flat(SubSeq(req', 1, from'))
  BY <1>1, <1>2, <1>3 DEF Strayed
<1>4. CASE /\ pc' = "copy" /\ from' = 0 /\ SubSeq(pool', 1, 0) = <<>>
           /\ to' = Len(Encoded(req')) /\ SubSeq(pool', 1, to') = Encoded(req')
  <2>1. Lead(g, SubSeq(pool, 1, from))'
    BY <1>2, <1>4 DEF Lead, Begins
  <2> QED
    BY <1>1, <1>2, <1>4, <2>1 DEF Strayed
<1> QED
  BY <1>1, <1>3, <1>4, EncodePool DEF Strayed

LEMMA StrayedCopy ==
  ASSUME Fits, NEW g \in Strays, Strayed(g), Copy, ctx' = ctx
  PROVE  Strayed(g)'
<1>1. /\ pc = "copy" /\ out' = Append(out, pool[from + 1]) /\ from' = from + 1
      /\ pc' = (IF from + 1 = to THEN "wait" ELSE "copy") /\ from < to
      /\ UNCHANGED <<stage, tries, req, to, pool, rxLen, len, ready, slip, todo, rsp, verdict>>
  BY DEF Copy, rxVars, bootVars, history, Fits, Shape
<1>2. /\ Silent /\ Lead(g, SubSeq(pool, 1, from)) /\ to = Len(Encoded(req))
      /\ SubSeq(pool, 1, to) = Encoded(req)
  BY <1>1 DEF Strayed
<1>3. /\ from \in Nat /\ to \in Nat /\ to <= PoolSize /\ PoolSize \in Nat /\ pool \in Memory
      /\ pool \in Seq(Byte) /\ Len(pool) = PoolSize
  BY TypeParts, Sizes, MemoryIs DEF Fits, HostType, SharedType
<1>4. PICK n, c : n = from + 1 /\ c = pool[n]
  OBVIOUS
<1>5. SubSeq(pool, 1, n) = Append(SubSeq(pool, 1, from), c) /\ c \in Byte /\ SubSeq(pool, 1, from) \in Seq(Byte)
  <2>1. n \in 0 .. Len(pool) /\ n > 0 /\ n - 1 = from /\ from \in 0 .. Len(pool)
    BY <1>1, <1>3, <1>4
  <2>2. SubSeq(pool, 1, n) = Append(SubSeq(pool, 1, n - 1), pool[n]) /\ pool[n] \in Byte
    BY <1>3, <2>1, Prefix
  <2>3. SubSeq(pool, 1, from) \in Seq(Byte)
    BY <1>3, <2>1, Prefix
  <2> QED
    BY <1>4, <2>1, <2>2, <2>3
<1>6. out' = From(g, slip.at) \o SubSeq(pool, 1, n)
  <2>1. PICK h, t : h = From(g, slip.at) /\ t = SubSeq(pool, 1, from)
    OBVIOUS
  <2>2. h \in Seq(Byte) /\ t \in Seq(Byte)
    <3>1. slip.at \in Nat /\ g \in Seq(Byte) /\ slip.at \in 0 .. Len(g)
      BY <1>2, LeadNothing, TypeParts, Sizes DEF Lead, Begins, Fits, BootType, Decoders
    <3> QED
      BY <1>5, <2>1, <3>1, FromIs
  <2>3. Append(h \o t, c) = h \o Append(t, c)
    <3>1. h \o t \in Seq(Byte) /\ <<c>> \in Seq(Byte)
      BY <1>5, <2>2, ConcatProperties, OneByte
    <3>2. Append(h \o t, c) = (h \o t) \o <<c>> /\ Append(t, c) = t \o <<c>>
      BY <1>5, <2>2, <3>1, AppendIsConcat
    <3>3. (h \o t) \o <<c>> = h \o (t \o <<c>>)
      BY <2>2, <3>1, ConcatAssociative
    <3> QED
      BY <3>2, <3>3
  <2> QED
    BY <1>1, <1>2, <1>4, <1>5, <2>1, <2>3 DEF Lead
<1>7. Silent' /\ Lead(g, SubSeq(pool, 1, from))'
  BY <1>1, <1>2, <1>4, <1>6 DEF Silent, Calm, Lead, Begins
<1>8. CASE n = to
  <2>1. out' = From(g, slip'.at) \o Encoded(req')
    BY <1>1, <1>2, <1>6, <1>8
  <2>2. Lead(g, Encoded(req))'
    BY <1>7, <2>1 DEF Lead, Begins
  <2>3. Ahead(g)'
    BY <1>7, <2>2 DEF Ahead
  <2> QED
    BY <1>1, <1>4, <1>8, <2>3 DEF Strayed
<1>9. CASE n # to
  BY <1>1, <1>2, <1>4, <1>7, <1>9 DEF Strayed
<1> QED
  BY <1>8, <1>9

LEMMA StrayedAnswer ==
  ASSUME Fits, NEW g \in Strays, Strayed(g), Answer, ctx' = ctx
  PROVE  Strayed(g)'
<1>1. /\ stage \in {"check", "setup", "create", "crc"} /\ pool \in Memory
      /\ pc \in {"idle", "encode", "copy", "wait", "read", "over"}
  BY TypeParts DEF Fits, HostType, SharedType
<1>2. /\ todo # <<>> /\ todo' = Tail(todo)
      /\ UNCHANGED <<pc, stage, tries, id, req, from, to, pool, rxLen, len, ready, out, slip, verdict>>
  BY DEF Answer, hostVars, rxVars, history
<1>3. pc = "wait" /\ req \in Asks(stage) /\ (Ahead(g) \/ Behind(g))
  BY <1>1, <1>2 DEF Strayed, Silent
<1>4. PICK x \in Packets :
        /\ todo = <<x>> /\ Calm
        /\ Free \/ (ctx = "thread" /\ Lead(g, <<>>) /\ Is(x))
  BY <1>2, <1>3 DEF Ahead, Behind, Silent, Coming
<1>5. Head(todo) = x /\ todo' = <<>>
  BY <1>2, <1>4
<1>6. PICK p \in Responses(x) :
        given' = p /\ rsp' = [buf |-> Encoded(p), at |-> 0, len |-> Len(Encoded(p))]
  BY <1>4, <1>5 DEF Answer, Calm
<1>7. p \in Seq(Byte)
  BY ResponsesType
<1>8. Encoded(p) \in Seq(Byte) /\ Len(Encoded(p)) \in Nat /\ Len(Encoded(p)) >= 1
  BY <1>7, FlatType, EndIsLast
<1>9. rsp'.buf = Encoded(p) /\ rsp'.at = 0 /\ rsp'.len = Len(Encoded(p)) /\ rsp'.at # rsp'.len
  BY <1>6, <1>8
<1>10. Coming'
  <2>1. SubSeq(pool', 1, 0) = <<>> /\ SubSeq(Encoded(p), 1, 0) = <<>>
    BY SubSeqEmpty
  <2>2. rxLen' = 0 /\ len' = 0 /\ ~ready'
    BY <1>2, <1>4 DEF Calm
  <2> QED
    BY <1>5, <1>6, <1>7, <1>9, <2>1, <2>2 DEF Coming
<1>11. CASE Free
  <2>1. Free'
    BY <1>2, <1>11 DEF Free, SlipClear
  <2>2. Ahead(g)'
    BY <1>10, <2>1 DEF Ahead
  <2> QED
    BY <1>2, <1>3, <2>2 DEF Strayed
<1>12. CASE ctx = "thread" /\ Lead(g, <<>>) /\ Is(x)
  <2>1. Lead(g, <<>>)'
    BY <1>2, <1>12 DEF Lead, Begins
  <2>2. Fitting(p)
    BY <1>1, <1>3, <1>12, ResponseAccepted
  <2>3. Fitting(given)'
    BY <1>2, <1>6, <2>2 DEF Fitting, Accepts
  <2>4. Behind(g)'
    BY <1>10, <1>12, <2>1, <2>3 DEF Behind
  <2> QED
    BY <1>2, <1>3, <2>4 DEF Strayed
<1> QED
  BY <1>4, <1>11, <1>12

LEMMA StrayedRxByte ==
  ASSUME Fits, NEW g \in Strays, Strayed(g), RxByte, ctx' = ctx
  PROVE  Strayed(g)'
<1>1. /\ rsp.at < rsp.len /\ rsp.at \in Nat /\ rsp.len \in Nat
      /\ UNCHANGED <<pc, stage, tries, req, from, to, out, slip, given, verdict>>
      /\ pc \in {"idle", "encode", "copy", "wait", "read", "over"}
  BY TypeParts, Sizes DEF RxByte, hostVars, history, Fits, HostType, BootType, Transmitters
<1>2. pc = "wait" /\ Coming /\ (Free \/ (ctx = "thread" /\ Lead(g, <<>>) /\ Fitting(given)))
  BY <1>1 DEF Strayed, Silent, Calm, Ahead, Behind
<1>3. Coming'
  BY <1>2, ComingRxByte
<1>4. Free' \/ (ctx' = "thread" /\ Lead(g, <<>>)' /\ Fitting(given)')
  BY <1>1, <1>2 DEF Free, SlipClear, Lead, Begins, Fitting, Accepts
<1>5. Ahead(g)' \/ Behind(g)'
  BY <1>3, <1>4 DEF Ahead, Behind
<1> QED
  BY <1>1, <1>2, <1>5 DEF Strayed

LEMMA StrayedRead ==
  ASSUME Fits, NEW g \in Strays, Strayed(g), Read, ctx' = ctx
  PROVE  Strayed(g)' \/ Course'
<1>1. /\ pc = "wait" /\ ready /\ pc' = "read" /\ req' = (IF Accepts(Packet) THEN req ELSE <<>>)
      /\ rxLen' = 0 /\ len' = 0
      /\ UNCHANGED <<stage, tries, from, to, pool, ready, out, slip, todo, rsp, given, verdict>>
  BY DEF Read, bootVars, history
<1>2. /\ Coming /\ (Free \/ (ctx = "thread" /\ Lead(g, <<>>) /\ Fitting(given)))
      /\ req \in Asks(stage)
  BY <1>1 DEF Strayed, Silent, Calm, Ahead, Behind
<1>3. Packet = given /\ rsp.at = rsp.len /\ todo = <<>>
  BY <1>1, <1>2, ComingPacket DEF Coming
<1>4. CASE Free /\ Accepts(Packet)
  BY <1>1, <1>2, <1>3, <1>4 DEF Free, SlipClear, Course, Still, Encoding, Strayed
<1>5. CASE Free /\ ~Accepts(Packet)
  <2>1. Refused'
    BY <1>1, <1>5 DEF Refused, Free, SlipClear
  <2> QED
    BY <1>1, <1>3, <2>1 DEF Strayed
<1>6. CASE ctx = "thread" /\ Lead(g, <<>>) /\ Fitting(given)
  <2>1. Taken(g)'
    BY <1>1, <1>2, <1>3, <1>6 DEF Taken, Lead, Begins, Fitting
  <2> QED
    BY <1>1, <1>3, <2>1 DEF Strayed
<1> QED
  BY <1>2, <1>4, <1>5, <1>6

\* The next request begins while the frame is on its way.
LEMMA StrayedSends ==
  ASSUME NEW g \in Strays, NEW s, NEW r \in Asks(s), s \in {"setup", "create", "crc"}, Send(s, r),
         Silent', Lead(g, <<>>)', ctx' = "thread", verdict' \in {"none", "ok"}
  PROVE  Strayed(g)'
<1>1. pc' = "encode" /\ stage' = s /\ req' = r /\ from' = 0 /\ to' = 0
  BY DEF Send
<1>2. SubSeq(pool', 1, to') = Flat(SubSeq(req', 1, from'))
  <2>1. SubSeq(pool', 1, 0) = <<>> /\ SubSeq(req', 1, 0) = <<>>
    BY SubSeqEmpty
  <2> QED
    BY <1>1, <2>1, FlatEmpty
<1>3. Asks(stage') = Asks(s) /\ req' \in Asks(stage') /\ stage' # "check"
  BY <1>1
<1> QED
  BY <1>1, <1>2, <1>3 DEF Strayed

LEMMA StrayedReturn ==
  ASSUME Fits, NEW g \in Strays, Strayed(g), Return, ctx' = ctx
  PROVE  Strayed(g)' \/ Course' \/ Ended'
<1>1. /\ pc = "read" /\ ready' = FALSE /\ UNCHANGED <<pool, rxLen, len, out, slip, todo, rsp>>
      /\ (IF req = <<>> THEN Failed ELSE Succeeded)
      /\ id \in Byte /\ stage \in {"check", "setup", "create", "crc"}
  BY TypeParts DEF Return, bootVars, Fits, HostType
<1>2. /\ todo = <<>> /\ rsp.at = rsp.len /\ rxLen = 0 /\ len = 0
      /\ verdict \in {"none", "ok"} /\ (Refused \/ Taken(g))
      /\ ctx = "thread" \/ stage = "check"
      /\ stage = "check" => tries = 3
  BY <1>1 DEF Strayed
<1>3. CASE Refused
  <2>1. Failed /\ out' = <<>>
    BY <1>1, <1>3 DEF Refused, Free
  <2>2. CASE stage = "check"
    <3>1. Send("check", <<PING, id>>) /\ verdict' = verdict
      BY <1>2, <2>1, <2>2 DEF Failed
    <3>2. Still' /\ ~ready'
      BY <1>1, <1>2, <1>3 DEF Refused, Free, SlipClear, Still
    <3> QED
      BY <1>1, <1>2, <2>1, <3>1, <3>2, AskIds, CourseSends
  <2>3. CASE stage # "check"
    <3>1. pc' = "over" /\ verdict' = "fail" /\ stage' = stage
      BY <2>1, <2>3 DEF Failed, Over
    <3> QED
      BY <1>1, <1>2, <2>1, <2>3, <3>1 DEF Ended
  <2> QED
    BY <2>2, <2>3
<1>4. CASE Taken(g)
  <2>1. req # <<>>
    <3>1. Len(req) >= 1 /\ Len(<<>>) = 0
      BY <1>1, <1>4, AsksAre DEF Taken
    <3> QED
      BY <3>1
  <2>2. Succeeded /\ Silent' /\ Lead(g, <<>>)' /\ ctx' = "thread"
    BY <1>1, <1>2, <1>4, <2>1 DEF Taken, Silent, Calm, Lead, Begins
  <2>3. CASE stage = "check"
    <3>1. PICK n : n = (id + 1) % 256
      OBVIOUS
    <3>2. Send("setup", <<PING, n>>) /\ verdict' = verdict
      BY <2>2, <2>3, <3>1 DEF Succeeded
    <3>3. <<PING, n>> \in Asks("setup")
      BY <1>1, <3>1, NextId, AskIds
    <3> QED
      BY <1>2, <2>2, <3>2, <3>3, StrayedSends
  <2>4. CASE stage = "setup"
    <3>1. PICK d \in Data : Send("create", <<CREATE>> \o d) /\ verdict' = verdict
      BY <2>2, <2>4 DEF Succeeded
    <3>2. <<CREATE>> \o d \in Asks("create")
      BY DEF Asks
    <3> QED
      BY <1>2, <2>2, <3>1, <3>2, StrayedSends
  <2>5. CASE stage = "create"
    <3>1. Send("crc", <<CRC_GET>>) /\ verdict' = verdict
      BY <2>2, <2>5 DEF Succeeded
    <3>2. <<CRC_GET>> \in Asks("crc")
      BY DEF Asks
    <3> QED
      BY <1>2, <2>2, <3>1, <3>2, StrayedSends
  <2>6. CASE stage = "crc"
    <3>1. pc' = "over" /\ verdict' = "ok" /\ stage' = "crc"
      BY <2>2, <2>6 DEF Succeeded, Over
    <3> QED
      BY <2>2, <3>1 DEF Strayed
  <2> QED
    BY <1>1, <2>3, <2>4, <2>5, <2>6
<1> QED
  BY <1>2, <1>3, <1>4

\* While the host waits, something is on its way to it.
LEMMA StrayedNotQuiet ==
  ASSUME Fits, NEW g \in Strays, Strayed(g), pc = "wait"
  PROVE  ~Quiet
<1>1. stage \in {"check", "setup", "create", "crc"} /\ req \in Asks(stage) /\ (Ahead(g) \/ Behind(g))
      /\ slip.at \in Nat
  BY TypeParts, Sizes DEF Fits, HostType, Strayed, BootType, Decoders
<1>2. req \in Seq(Byte) /\ g \in Seq(Byte)
  BY <1>1, AsksAre, LeadNothing
<1>3. ASSUME NEW r \in Seq(Byte), NEW t \in Seq(Byte), Sent(r, t)
      PROVE  out # <<>>
  <2>1. PICK k : k = slip.at
    OBVIOUS
  <2>2. k \in 0 .. Len(r)
    BY <1>1, <1>3, <2>1 DEF Sent, Begins
  <2>3. PICK e : e = Encoded(From(r, k))
    OBVIOUS
  <2>4. /\ From(r, k) \in Seq(Byte)
        /\ k < Len(r) => From(r, k) # <<>> /\ Head(From(r, k)) = r[k + 1]
    BY <2>2, FromIs
  <2>5. e \in Seq(Byte) /\ e # <<>> /\ Tail(e) \in Seq(Byte)
    BY <2>3, <2>4, EncodedHead
  <2>6. CASE out = e \o t
    BY <2>5, <2>6, Joined
  <2>7. CASE k < Len(r) /\ r[k + 1] \in Special /\ out = Tail(e) \o t
    <3>1. Tail(e) # <<>>
      BY <2>3, <2>4, <2>7, EncodedHead
    <3>2. PICK u : u = Tail(e)
      OBVIOUS
    <3> QED
      BY <2>5, <2>7, <3>1, <3>2, Joined
  <2> QED
    BY <1>3, <2>1, <2>3, <2>6, <2>7 DEF Sent
<1>4. CASE Lead(g, Encoded(req))
  <2>1. slip.at \in 0 .. Len(g)
    BY <1>1, <1>2, <1>4 DEF Lead, Begins
  <2>2. PICK h, e : h = From(g, slip.at) /\ e = Encoded(req)
    OBVIOUS
  <2>3. h \in Seq(Byte) /\ e \in Seq(Byte) /\ Len(e) >= 1 /\ out = h \o e
    BY <1>2, <1>4, <2>1, <2>2, FromIs, FlatType, EndIsLast DEF Lead
  <2>4. Len(h \o e) = Len(h) + Len(e) /\ Len(h) \in Nat /\ Len(e) \in Nat
    BY <2>3, ConcatProperties
  <2> QED
    BY <2>3, <2>4 DEF Quiet
<1>5. CASE Sent(g \o req, <<>>)
  <2>1. g \o req \in Seq(Byte) /\ <<>> \in Seq(Byte)
    BY <1>2, ConcatProperties
  <2> QED
    BY <1>3, <1>5, <2>1 DEF Quiet
<1>6. CASE Sent(req, g)
  BY <1>2, <1>3, <1>6 DEF Quiet
<1>7. CASE (\E x : todo = <<x>>) \/ Coming
  BY <1>7 DEF Quiet, Coming
<1> QED
  BY <1>1, <1>4, <1>5, <1>6, <1>7 DEF Ahead, Behind

\* The frame of button 2 goes out, during a request or before the first one.
LEMMA StrayedBegins ==
  ASSUME Roomy, Fits, Course, stage = "check" /\ pc # "idle" => tries = 3, Press, ctx' = ctx
  PROVE  \E g \in Strays : Strayed(g)'
<1>1. /\ ctx = "thread" /\ pc \in {"idle", "encode", "wait", "read"}
      /\ UNCHANGED <<hostVars, rxVars, bootVars, verdict>>
      /\ stage \in {"check", "setup", "create", "crc"}
  BY TypeParts DEF Press, Fits, HostType
<1>2. UNCHANGED <<pc, stage, tries, req, from, to, pool, rxLen, len, ready, slip, todo, rsp, given>>
  BY <1>1 DEF hostVars, rxVars, bootVars
<1>3. PICK g \in Strays : out' = out \o g
  BY StrayIs DEF Press
<1>4. /\ g \in Seq(Byte) /\ <<>> \o g = g /\ 0 <= Len(g) /\ From(g, 0) \o <<>> = g
      /\ SubSeq(slip'.buf, 1, 0) = <<>> /\ SubSeq(g, 1, 0) = <<>>
  BY LeadNothing, ConcatEmptySeq, SubSeqEmpty
<1>5. ASSUME SlipClear, out = <<>>
      PROVE  Lead(g, <<>>)'
  BY <1>2, <1>3, <1>4, <1>5 DEF SlipClear, Lead, Begins
<1>6. CASE pc = "idle"
  BY <1>1, <1>2, <1>5, <1>6 DEF Course, Still, Strayed, Silent, Calm
<1>7. CASE pc = "encode"
  BY <1>1, <1>2, <1>5, <1>7 DEF Course, Still, Encoding, Strayed, Silent, Calm
<1>8. CASE pc = "read"
  <2>1. Taken(g)'
    BY <1>1, <1>2, <1>5, <1>8 DEF Course, Still, Taken
  <2> QED
    BY <1>1, <1>2, <1>8, <2>1 DEF Course, Still, Strayed
<1>9. CASE pc = "wait"
  <2>1. CASE Travelling
    <3>1. /\ req \in Seq(Byte) /\ slip.at \in Nat /\ slip.at <= Len(req)
      BY <1>1, <1>9, <2>1, AsksAre, TypeParts, Sizes DEF Course, Travelling, Whole, Fits, BootType, Decoders
    <3>2. Sent(req, g)'
      BY <1>2, <1>3, <2>1 DEF Travelling, Whole, Sent, Begins
    <3>3. Behind(g)'
      BY <1>1, <1>2, <2>1, <3>2 DEF Travelling, Behind, Silent, Calm
    <3> QED
      BY <1>1, <1>2, <1>9, <3>3 DEF Course, Strayed
  <2>2. CASE Arrived
    <3>1. Behind(g)'
      BY <1>1, <1>2, <1>5, <2>2 DEF Arrived, Behind, Calm, Is
    <3> QED
      BY <1>1, <1>2, <1>9, <3>1 DEF Course, Strayed
  <2>3. CASE Answered
    <3>1. Behind(g)'
      BY <1>1, <1>2, <1>5, <2>3 DEF Answered, Behind, Coming, Fitting, Accepts
    <3> QED
      BY <1>1, <1>2, <1>9, <3>1 DEF Course, Strayed
  <2> QED
    BY <1>9, <2>1, <2>2, <2>3 DEF Course
<1> QED
  BY <1>1, <1>6, <1>7, <1>8, <1>9

LEMMA StrayedNext ==
  ASSUME Roomy, Fits, NEW g \in Strays, Strayed(g), stray, ctx # "isr", [Next]_vars,
         lost' = lost, late' = late
  PROVE  Strayed(g)' \/ Course' \/ Ended'
<1>1. Fits'
  BY FitsNext
<1>2. CASE UNCHANGED vars
  <2>1. UNCHANGED <<ctx, pc, stage, tries, req, from, to, pool, rxLen, len, ready, out, slip, todo, rsp,
                    given, verdict>>
    BY <1>2 DEF vars, hostVars, rxVars, bootVars, history
  <2>2. /\ Silent' = Silent /\ Calm' = Calm /\ Free' = Free /\ Coming' = Coming /\ Refused' = Refused
        /\ Fitting(given)' = Fitting(given)
        /\ \A x : Is(x)' = Is(x)
    BY <2>1 DEF Silent, Calm, Free, SlipClear, Coming, Refused, Is, Fitting, Accepts
  <2>4. /\ Sent(g \o req, <<>>)' = Sent(g \o req, <<>>) /\ Sent(req, g)' = Sent(req, g)
        /\ Lead(g, <<>>)' = Lead(g, <<>>) /\ Lead(g, Encoded(req))' = Lead(g, Encoded(req))
        /\ Lead(g, SubSeq(pool, 1, from))' = Lead(g, SubSeq(pool, 1, from))
    BY <2>1 DEF Sent, Lead, Begins
  <2>5. Ahead(g)' = Ahead(g) /\ Behind(g)' = Behind(g) /\ Taken(g)' = Taken(g)
    BY <2>1, <2>2, <2>4 DEF Ahead, Behind, Taken
  <2> QED
    BY <2>1, <2>2, <2>4, <2>5 DEF Strayed
<1>3. [Next]_vars /\ ~ UNCHANGED vars => ctx' = ctx
  BY DEF Next
<1>4. ~Timeout
  <2>1. late \in Nat
    BY TypeParts DEF Fits, HistoryType
  <2>2. Timeout => pc = "wait" /\ (Quiet \/ late' = late + 1)
    BY DEF Timeout, Served
  <2>3. late' # late + 1
    BY <2>1
  <2> QED
    BY <2>2, <2>3, StrayedNotQuiet
<1>5. ~LoseByte
  <2>1. lost \in Nat
    BY TypeParts DEF Fits, HistoryType
  <2>2. LoseByte => lost' = lost + 1
    BY DEF LoseByte
  <2> QED
    BY <2>1, <2>2
<1>6. ~Press
  BY DEF Press
<1> QED
  BY <1>1, <1>2, <1>3, <1>4, <1>5, <1>6, StrayedStart, StrayedEncode, StrayedCopy, StrayedRead,
     StrayedReturn, StrayedRxByte, StrayedBootByte, StrayedAnswer DEF Next

\* What is left of a lost byte, attempt by attempt, when button 2 sends nothing.
Story ==
  late = 0 /\ ~stray =>
    /\ lost = 0 => Course /\ (stage = "check" /\ pc # "idle" => tries = 3)
    /\ lost = 1 /\ stage = "check" =>
         /\ pc # "idle"
         /\ tries = 3 => Hurt
         /\ tries = 2 => Second
         /\ tries = 1 => Course
    /\ verdict = "absent" => lost > 1

\* What a frame of button 2 does when nothing is lost; and in an interrupt that the one of
\* the UART does not interrupt nothing is received.
Aside ==
  /\ ctx # "thread" => stray
  /\ ctx = "isr" => ~ready /\ todo = <<>> /\ stage = "check" /\ pc # "read" /\ verdict # "fail"
  /\ late = 0 /\ lost = 0 /\ stray /\ ctx # "isr" =>
       Course \/ (\E g \in Strays : Strayed(g)) \/ Ended

\* The counters of what disturbs an attempt, and the frame of button 2.
LEMMA HistoryNext ==
  ASSUME Roomy, Fits, [Next]_vars
  PROVE  /\ late \in Nat /\ late' \in Nat /\ lost \in Nat /\ lost' \in Nat
         /\ ctx' = ctx /\ stray \in BOOLEAN
         /\ late' = late \/ late' = late + 1
         /\ lost' = lost \/ (lost' = lost + 1 /\ LoseByte)
         /\ stray' = stray \/ (~stray /\ Press /\ lost' = lost /\ late' = late)
<1>1. Fits'
  BY FitsNext
<1>2. /\ late \in Nat /\ late' \in Nat /\ lost \in Nat /\ lost' \in Nat /\ stray \in BOOLEAN
  BY <1>1, TypeParts, TypePartsNext DEF Fits, HistoryType
<1>3. CASE UNCHANGED vars
  BY <1>2, <1>3 DEF vars, history
<1>4. CASE Start \/ Encode \/ Copy \/ Read \/ Return \/ RxByte \/ BootByte \/ Answer
  <2>1. UNCHANGED <<lost, late, stray>>
    BY <1>4 DEF history, Start, Encode, Copy, Read, Return, RxByte, BootByte, Answer
  <2> QED
    BY <1>2, <1>4, <2>1 DEF Next, vars
<1>5. CASE Timeout
  BY <1>2, <1>5 DEF Timeout, Next, vars
<1>6. CASE LoseByte
  BY <1>2, <1>6 DEF LoseByte, Next, vars
<1>7. CASE Press
  BY <1>2, <1>7 DEF Press, Next, vars
<1> QED
  BY <1>3, <1>4, <1>5, <1>6, <1>7 DEF Next

LEMMA StoryInit == ASSUME Init PROVE Story /\ Aside
<1>1. SubSeq(pool, 1, 0) = <<>>
  BY SubSeqEmpty
<1>2. /\ stray <=> ctx # "thread"
      /\ pc = "idle" /\ stage = "check" /\ tries = 0 /\ ~ready /\ rxLen = 0 /\ len = 0 /\ out = <<>>
      /\ todo = <<>> /\ rsp.at = rsp.len /\ verdict = "none" /\ lost = 0
  BY DEF Init
<1>3. Story
  <2>1. ~stray => slip.at = 0 /\ slip.state = "decoding"
    BY DEF Init
  <2> QED
    BY <1>1, <1>2, <2>1 DEF Story, Course, Still, SlipClear, Encoding
<1>4. ASSUME stray
      PROVE  Strayed(PingApp)
  <2>1. PingApp \in Seq(Byte) /\ Len(PingApp) = 6 /\ PingApp \in Strays
    BY StrayIs
  <2>2. slip.buf = Overlay(Zeros, 0, PingApp) /\ slip.at = 6 /\ slip.state = "decoding"
    BY <1>4 DEF Init
  <2>3. SubSeq(slip.buf, 1, 6) = PingApp
    <3>1. Zeros \in Memory /\ PoolSize \in Nat /\ 0 + Len(PingApp) = 6 /\ 6 <= PoolSize
      BY <2>1, DfuLinkAssumption DEF Zeros, Memory, Byte
    <3>2. SubSeq(Overlay(Zeros, 0, PingApp), 1, 0 + Len(PingApp)) = SubSeq(Zeros, 1, 0) \o PingApp
      BY <2>1, <3>1, OverlayIs
    <3>3. SubSeq(Zeros, 1, 0) = <<>> /\ <<>> \o PingApp = PingApp
      BY <2>1, SubSeqEmpty, ConcatEmptySeq
    <3> QED
      BY <2>2, <3>1, <3>2, <3>3
  <2>4. SubSeq(PingApp, 1, 6) = PingApp /\ From(PingApp, 6) \o <<>> = <<>>
    <3>1. \A g \in Seq(Byte) : SubSeq(g, 1, Len(g)) = g
      OBVIOUS
    <3>2. From(PingApp, Len(PingApp)) \o <<>> = <<>>
      BY <2>1, LeadNothing
    <3> QED
      BY <2>1, <3>1, <3>2
  <2>5. Lead(PingApp, <<>>)
    BY <1>2, <2>1, <2>2, <2>3, <2>4 DEF Lead, Begins
  <2> QED
    BY <1>2, <2>5 DEF Strayed, Silent, Calm
<1>5. Aside
  <2>1. PingApp \in Strays
    BY StrayIs
  <2> QED
    BY <1>2, <1>4, <2>1 DEF Aside
<1> QED
  BY <1>3, <1>5

LEMMA AsideNext == ASSUME Roomy, Fits, Story, Aside, [Next]_vars PROVE Aside'
<1>1. /\ late \in Nat /\ late' \in Nat /\ lost \in Nat /\ lost' \in Nat
      /\ ctx' = ctx /\ stray \in BOOLEAN
      /\ late' = late \/ late' = late + 1
      /\ lost' = lost \/ (lost' = lost + 1 /\ LoseByte)
      /\ stray' = stray \/ (~stray /\ Press /\ lost' = lost /\ late' = late)
  BY HistoryNext
<1>2. ctx' # "thread" => stray'
  BY <1>1 DEF Aside, Press
<1>3. ASSUME ctx = "isr"
      PROVE  ~ready' /\ todo' = <<>> /\ stage' = "check" /\ pc' # "read" /\ verdict' # "fail"
  <2>1. ~ready /\ todo = <<>> /\ stage = "check" /\ pc # "read" /\ verdict # "fail" /\ ~Served
    BY <1>3 DEF Aside, Served
  <2>2. ~Read /\ ~Return /\ ~RxByte /\ ~BootByte /\ ~Answer /\ ~LoseByte /\ ~Press
    BY <1>3, <2>1 DEF Read, Return, RxByte, BootByte, Answer, LoseByte, Press
  <2>3. CASE UNCHANGED vars
    BY <2>1, <2>3 DEF vars, hostVars, rxVars, bootVars, history
  <2>4. CASE Start
    BY <2>1, <2>4 DEF Start, Send, rxVars, bootVars, history
  <2>5. CASE Encode
    BY <2>1, <2>5 DEF Encode, bootVars, history
  <2>6. CASE Copy
    BY <2>1, <2>6 DEF Copy, rxVars, bootVars, history
  <2>7. CASE Timeout
    BY <2>1, <2>7 DEF Timeout, Failed, Over, Send, rxVars, bootVars
  <2> QED
    BY <2>2, <2>3, <2>4, <2>5, <2>6, <2>7 DEF Next
<1>4. ASSUME late' = 0, lost' = 0, stray', ctx # "isr"
      PROVE  Course' \/ (\E g \in Strays : Strayed(g)') \/ Ended'
  <2>1. late = 0 /\ lost = 0 /\ late' = late /\ lost' = lost
    BY <1>1, <1>4
  <2>2. CASE ~stray
    <3>1. Course /\ (stage = "check" /\ pc # "idle" => tries = 3) /\ Press
      BY <1>1, <1>4, <2>1, <2>2 DEF Story
    <3> QED
      BY <1>1, <3>1, StrayedBegins
  <2>3. CASE stray
    <3>1. stray' = stray
      BY <1>4, <2>3
    <3>2. CASE Course
      BY <1>4, <2>1, <3>1, <3>2, CourseNext
    <3>3. CASE \E g \in Strays : Strayed(g)
      <4>1. PICK g \in Strays : Strayed(g)
        BY <3>3
      <4> QED
        BY <1>4, <2>1, <2>3, <4>1, StrayedNext
    <3>4. CASE Ended
      <4>1. pc = "over" /\ out = <<>> /\ todo = <<>> /\ stage # "check"
        BY <3>4 DEF Ended
      <4>2. /\ ~Start /\ ~Encode /\ ~Copy /\ ~Press /\ ~Read /\ ~Return /\ ~Timeout /\ ~BootByte
            /\ ~Answer
        BY <4>1 DEF Start, Encode, Copy, Press, Read, Return, Timeout, BootByte, Answer
      <4>3. UNCHANGED vars \/ RxByte => UNCHANGED <<pc, stage, out, todo, verdict>>
        BY DEF vars, hostVars, bootVars, history, RxByte
      <4>4. ~LoseByte
        <5>1. LoseByte => lost' = lost + 1
          BY DEF LoseByte
        <5> QED
          BY <1>1, <2>1, <5>1
      <4> QED
        BY <1>1, <3>4, <4>2, <4>3, <4>4 DEF Next, Ended
    <3> QED
      BY <1>4, <2>1, <2>3, <3>2, <3>3, <3>4 DEF Aside
  <2> QED
    BY <1>1, <2>2, <2>3
<1> QED
  BY <1>1, <1>2, <1>3, <1>4 DEF Aside

LEMMA StoryNext == ASSUME Roomy, Fits, Story, Aside, [Next]_vars PROVE Story'
<1>1. Fits'
  BY FitsNext
<1>2. /\ late \in Nat /\ late' \in Nat /\ lost \in Nat /\ lost' \in Nat /\ tries \in 0 .. 3
      /\ stage \in {"check", "setup", "create", "crc"}
      /\ stage = "check" /\ pc \notin {"idle", "over"} => tries \in 1 .. 3
  BY <1>1, TypeParts, TypePartsNext DEF Fits, HostType, HistoryType, Shape
<1>3. late' = late \/ late' = late + 1
  BY HistoryNext
<1>4. lost' = lost \/ (lost' = lost + 1 /\ LoseByte)
  BY HistoryNext
<1> SUFFICES ASSUME late' = 0, ~stray'
             PROVE  Story'
  BY DEF Story
<1>5. late = 0 /\ late' = late /\ ~stray /\ stray' = stray /\ ctx # "isr"
  <2>1. late = 0 /\ late' = late
    BY <1>2, <1>3
  <2>2. stray \in BOOLEAN /\ (stray' = stray \/ (~stray /\ Press))
    BY HistoryNext
  <2>3. ~Press
    BY DEF Press
  <2>4. ~stray /\ stray' = stray
    BY <2>2, <2>3
  <2> QED
    BY <2>1, <2>4 DEF Aside
<1>6. CASE lost' = lost
  <2>1. CASE lost = 0
    <3>1. Course /\ (stage = "check" /\ pc # "idle" => tries = 3)
      BY <1>5, <2>1 DEF Story
    <3>2. /\ Course'
          /\ stage' = "check" => \/ stage = "check" /\ tries' = tries /\ (pc' = "idle" <=> pc = "idle")
                                 \/ tries' = 3 /\ Start
      BY <1>5, <1>6, <3>1, CourseNext
    <3> QED
      BY <1>6, <2>1, <3>1, <3>2 DEF Story, Course
  <2>2. CASE lost = 1 /\ stage # "check"
    <3>1. stage' # "check" /\ (verdict' = "absent" => verdict = "absent")
      <4>1. ~Start
        BY <2>2 DEF Start, Fits, Shape
      <4>2. CASE UNCHANGED <<stage, verdict>>
        BY <2>2, <4>2
      <4>3. CASE Failed
        BY <2>2, <4>3 DEF Failed, Over
      <4>4. CASE Succeeded
        BY <1>2, <2>2, <4>4 DEF Succeeded, Over, Send
      <4>5. Return \/ Timeout => Failed \/ Succeeded
        BY DEF Return, Timeout
      <4>7. ~Press
        BY <1>5 DEF Press
      <4>6. UNCHANGED vars \/ Encode \/ Copy \/ Read \/ RxByte \/ BootByte \/ Answer \/ LoseByte
              => UNCHANGED <<stage, verdict>>
        BY DEF vars, hostVars, history, Encode, Copy, Read, RxByte, BootByte, Answer, LoseByte
      <4> QED
        BY <4>1, <4>2, <4>3, <4>4, <4>5, <4>6, <4>7 DEF Next
    <3> QED
      BY <1>5, <1>6, <2>2, <3>1 DEF Story
  <2>3. CASE lost = 1 /\ stage = "check"
    <3>1. pc # "idle" /\ verdict # "absent"
      BY <1>5, <2>3 DEF Story
    <3>2. CASE tries = 3
      <4>1. Hurt
        BY <1>5, <2>3, <3>2 DEF Story
      <4>2. verdict' = verdict /\ (stage' = "check" => (Hurt' /\ tries' = 3) \/ (Second' /\ tries' = 2))
        BY <1>5, <1>6, <2>3, <3>2, <4>1, HurtNext
      <4>3. (Hurt' => pc' # "idle") /\ (Second' => pc' # "idle")
        BY DEF Hurt, Second
      <4> QED
        BY <1>6, <2>3, <3>1, <4>2, <4>3 DEF Story
    <3>3. CASE tries = 2
      <4>1. Second
        BY <1>5, <2>3, <3>3 DEF Story
      <4>2. /\ verdict' = verdict
            /\ stage' = "check" => (Second' /\ tries' = 2) \/ (Course' /\ tries' = 1 /\ pc' # "idle")
        BY <1>1, <1>5, <1>6, <2>3, <3>3, <4>1, SecondNext
      <4>3. Second' => pc' # "idle"
        BY DEF Second
      <4> QED
        BY <1>6, <2>3, <3>1, <4>2, <4>3 DEF Story
    <3>4. CASE tries = 1
      <4>1. Course
        BY <1>5, <2>3, <3>4 DEF Story
      <4>2. /\ Course'
            /\ stage' = "check" => tries' = 1 /\ pc' # "idle"
        BY <1>5, <1>6, <3>1, <3>4, <4>1, CourseNext DEF Start
      <4> QED
        BY <1>6, <2>3, <4>2 DEF Story, Course
    <3>5. CASE tries = 0
      <4>1. pc = "over"
        BY <1>2, <2>3, <3>1, <3>5
      <4>2. ~Start /\ ~Encode /\ ~Copy /\ ~Press /\ ~Read /\ ~Return /\ ~Timeout
        BY <4>1 DEF Start, Encode, Copy, Press, Read, Return, Timeout
      <4>3. UNCHANGED vars \/ RxByte \/ BootByte \/ Answer \/ LoseByte
              => UNCHANGED <<pc, stage, tries, verdict>>
        BY DEF vars, hostVars, history, RxByte, BootByte, Answer, LoseByte
      <4>4. UNCHANGED <<pc, stage, tries, verdict>>
        BY <4>2, <4>3 DEF Next
      <4> QED
        BY <1>6, <2>3, <3>1, <3>5, <4>4 DEF Story
    <3> QED
      BY <1>2, <3>2, <3>3, <3>4, <3>5
  <2>4. CASE lost > 1
    BY <1>6, <2>4 DEF Story
  <2> QED
    BY <1>2, <2>1, <2>2, <2>3, <2>4
<1>7. CASE lost' = lost + 1 /\ LoseByte
  <2>1. verdict' = verdict
    BY <1>7 DEF LoseByte
  <2>2. CASE lost = 0
    <3>1. Course /\ (stage = "check" /\ pc # "idle" => tries = 3)
      BY <1>5, <2>2 DEF Story
    <3>2. Hurt' /\ UNCHANGED <<pc, stage, tries, verdict>> /\ pc = "wait"
      BY <1>7, <3>1, HurtBegins
    <3> QED
      BY <1>7, <2>2, <3>1, <3>2 DEF Story, Course
  <2>3. CASE lost > 0
    BY <1>2, <1>7, <2>3 DEF Story
  <2> QED
    BY <1>2, <2>2, <2>3
<1> QED
  BY <1>4, <1>6, <1>7
LEMMA Always == ASSUME Roomy PROVE Spec => [](Fits /\ Story /\ Aside)
<1>1. Init => Fits /\ Story /\ Aside
  BY FitsInit, StoryInit
<1>2. Fits /\ Story /\ Aside /\ [Next]_vars => (Fits /\ Story /\ Aside)'
  BY FitsNext, StoryNext, AsideNext
<1> QED
  BY <1>1, <1>2, PTL DEF Spec

-----------------------------------------------------------------------------
(* What the loss of a byte does to a packet.                                *)

\* A byte that stands for one byte of data, whatever is before it.
Counts(b) == IF b \in Special THEN 0 ELSE 1

\* What one byte does to any decoder.
LEMMA DecodeAny ==
  ASSUME NEW d \in Decoder, NEW b \in Byte
  PROVE  /\ Decode1(d, b) \in Decoder
         /\ d.done => Decode1(d, b) = d
         /\ Decode1(d, b).data = d.data \/ \E x \in Byte : Decode1(d, b).data = Append(d.data, x)
         /\ b \in Special => Decode1(d, b).data = d.data
         /\ b \notin Special /\ ~d.done => \E x \in Byte : Decode1(d, b).data = Append(d.data, x)
         /\ b \notin {END, ESC, ESC_END, ESC_ESC} /\ ~d.done => Decode1(d, b).data = Append(d.data, b)
<1>1. /\ END # ESC /\ END # ESC_END /\ END # ESC_ESC /\ ESC # ESC_END /\ ESC # ESC_ESC
      /\ ESC_END # ESC_ESC /\ {END, ESC, ESC_END, ESC_ESC} \subseteq Byte
  BY DEF END, ESC, ESC_END, ESC_ESC, Byte
<1>2. PICK q, e : q = d.data /\ e = d.esc
  OBVIOUS
<1>3. q \in Seq(Byte) /\ e \in BOOLEAN /\ \A x \in Byte : Append(q, x) \in Seq(Byte)
  BY <1>2 DEF Decoder
<1>4. [d EXCEPT !.done = TRUE] \in Decoder /\ [d EXCEPT !.done = TRUE].data = q
  BY <1>2 DEF Decoder
<1>5. [d EXCEPT !.esc = TRUE] \in Decoder /\ [d EXCEPT !.esc = TRUE].data = q
  BY <1>2 DEF Decoder
<1>6. ASSUME NEW r \in Seq(Byte)
      PROVE  /\ [d EXCEPT !.esc = FALSE, !.data = r] \in Decoder
             /\ [d EXCEPT !.esc = FALSE, !.data = r].data = r
             /\ [d EXCEPT !.data = r] \in Decoder /\ [d EXCEPT !.data = r].data = r
  BY DEF Decoder
<1>7. CASE d.done
  <2>1. Decode1(d, b) = d
    BY <1>7 DEF Decode1
  <2> QED
    BY <1>7, <2>1
<1>8. CASE ~d.done /\ b = END
  <2>1. Decode1(d, b) = [d EXCEPT !.done = TRUE]
    BY <1>1, <1>8 DEF Decode1
  <2> QED
    BY <1>2, <1>4, <1>8, <2>1 DEF Special
<1>9. CASE ~d.done /\ b = ESC
  <2>1. Decode1(d, b) = [d EXCEPT !.done = TRUE] \/ Decode1(d, b) = [d EXCEPT !.esc = TRUE]
    BY <1>1, <1>9 DEF Decode1
  <2> QED
    BY <1>2, <1>4, <1>5, <1>9, <2>1 DEF Special
<1>10. CASE ~d.done /\ b \in {ESC_END, ESC_ESC}
  <2>1. PICK x \in Byte : Decode1(d, b) = [d EXCEPT !.esc = FALSE, !.data = Append(q, x)]
    <3>1. CASE b = ESC_END
      <4>1. Decode1(d, b) = [d EXCEPT !.esc = FALSE, !.data = Append(q, IF e THEN END ELSE b)]
        BY <1>1, <1>2, <1>10, <3>1 DEF Decode1
      <4> QED
        BY <1>1, <4>1
    <3>2. CASE b = ESC_ESC
      <4>1. Decode1(d, b) = [d EXCEPT !.esc = FALSE, !.data = Append(q, IF e THEN ESC ELSE b)]
        BY <1>1, <1>2, <1>10, <3>2 DEF Decode1
      <4> QED
        BY <1>1, <4>1
    <3> QED
      BY <1>10, <3>1, <3>2
  <2>2. Append(q, x) \in Seq(Byte)
    BY <1>3
  <2>3. Decode1(d, b) \in Decoder /\ Decode1(d, b).data = Append(q, x)
    BY <1>6, <2>1, <2>2
  <2> QED
    BY <1>1, <1>2, <1>10, <2>3 DEF Special
<1>11. CASE ~d.done /\ b \notin {END, ESC, ESC_END, ESC_ESC}
  <2>1. Decode1(d, b) = [d EXCEPT !.data = Append(q, b)]
    BY <1>2, <1>11 DEF Decode1
  <2>2. Decode1(d, b) \in Decoder /\ Decode1(d, b).data = Append(q, b)
    BY <1>3, <1>6, <2>1
  <2> QED
    BY <1>2, <1>11, <2>2 DEF Special
<1> QED
  BY <1>7, <1>8, <1>9, <1>10, <1>11

\* The decoder after the first k bytes of s.
After(s, k) == Dec(SubSeq(s, 1, k))

\* A decoder reads on from where it is.
LEMMA AfterStep ==
  ASSUME NEW s \in Seq(Byte)
  PROVE  /\ After(s, 0) = Fresh /\ Fresh \in Decoder
         /\ \A k \in 1 .. Len(s) : After(s, k) = Decode1(After(s, k - 1), s[k]) /\ s[k] \in Byte
         /\ After(s, Len(s)) = Dec(s)
<1>1. Fresh \in Decoder
  BY DEF Fresh, Decoder
<1>2. After(s, 0) = Fresh
  <2>1. SubSeq(s, 1, 0) = <<>>
    OBVIOUS
  <2> QED
    BY <2>1, DecEmpty DEF After
<1>3. ASSUME NEW k \in 1 .. Len(s)
      PROVE  After(s, k) = Decode1(After(s, k - 1), s[k]) /\ s[k] \in Byte
  <2>1. k \in 0 .. Len(s) /\ k > 0 /\ k - 1 \in 0 .. Len(s)
    OBVIOUS
  <2>2. /\ SubSeq(s, 1, k) = Append(SubSeq(s, 1, k - 1), s[k]) /\ s[k] \in Byte
        /\ SubSeq(s, 1, k - 1) \in Seq(Byte)
    BY <2>1, Prefix
  <2> QED
    BY <2>2, DecAppend DEF After
<1>4. After(s, Len(s)) = Dec(s)
  <2>1. SubSeq(s, 1, Len(s)) = s
    OBVIOUS
  <2> QED
    BY <2>1 DEF After
<1> QED
  BY <1>1, <1>2, <1>3, <1>4

LEMMA AfterType ==
  ASSUME NEW s \in Seq(Byte), NEW k \in 0 .. Len(s)
  PROVE  After(s, k) \in Decoder
<1> DEFINE T == {n \in Nat : n <= Len(s) /\ After(s, n) \notin Decoder}
<1> SUFFICES ASSUME T # {} PROVE FALSE
  <2>1. k \in Nat /\ k <= Len(s)
    OBVIOUS
  <2> QED
    BY <2>1
<1>1. PICK n \in T : \A m \in T : n <= m
  <2> HIDE DEF T
  <2>1. T \in SUBSET Nat
    BY DEF T
  <2> QED
    BY <2>1, Least
<1>2. n \in Nat /\ n <= Len(s) /\ After(s, n) \notin Decoder /\ Len(s) \in Nat
  BY <1>1
<1>3. n # 0
  BY <1>2, AfterStep
<1>4. n \in 1 .. Len(s) /\ n - 1 \in Nat /\ n - 1 <= Len(s) /\ ~(n <= n - 1)
  BY <1>2, <1>3
<1>5. After(s, n - 1) \in Decoder
  BY <1>1, <1>4
<1>6. After(s, n) = Decode1(After(s, n - 1), s[n]) /\ s[n] \in Byte
  BY <1>4, AfterStep
<1> QED
  BY <1>2, <1>5, <1>6, DecodeAny
\* No decoder makes more than one byte of a byte, nor any of an END or an escape byte.
LEMMA AfterGrows ==
  ASSUME NEW s \in Seq(Byte), NEW k \in 1 .. Len(s)
  PROVE  /\ Len(After(s, k - 1).data) \in Nat /\ Len(After(s, k).data) \in Nat
         /\ Len(After(s, k).data) <= Len(After(s, k - 1).data) + Counts(s[k])
         /\ ~After(s, k - 1).done =>
              Len(After(s, k).data) = Len(After(s, k - 1).data) + Counts(s[k])
<1>1. PICK d, e : d = After(s, k - 1) /\ e = After(s, k)
  OBVIOUS
<1>2. d \in Decoder /\ e \in Decoder /\ e = Decode1(d, s[k]) /\ s[k] \in Byte
  <2>1. k - 1 \in 0 .. Len(s) /\ k \in 0 .. Len(s)
    OBVIOUS
  <2> QED
    BY <1>1, <2>1, AfterType, AfterStep
<1>3. PICK p, q : p = d.data /\ q = e.data
  OBVIOUS
<1>4. p \in Seq(Byte) /\ q \in Seq(Byte) /\ Len(p) \in Nat /\ Len(q) \in Nat
  BY <1>2, <1>3 DEF Decoder
<1>5. \A x \in Byte : Len(Append(p, x)) = Len(p) + 1
  BY <1>4
<1>6. CASE s[k] \in Special
  <2>1. q = p /\ Counts(s[k]) = 0
    BY <1>2, <1>3, <1>6, DecodeAny DEF Counts
  <2> QED
    BY <1>1, <1>3, <1>4, <2>1
<1>7. CASE s[k] \notin Special
  <2>1. Counts(s[k]) = 1
    BY <1>7 DEF Counts
  <2>2. q = p \/ \E x \in Byte : q = Append(p, x)
    BY <1>2, <1>3, DecodeAny
  <2>3. ~d.done => \E x \in Byte : q = Append(p, x)
    BY <1>2, <1>3, <1>7, DecodeAny
  <2>4. (Len(q) = Len(p) \/ Len(q) = Len(p) + 1) /\ (~d.done => Len(q) = Len(p) + 1)
    BY <1>5, <2>2, <2>3
  <2> QED
    BY <1>1, <1>3, <1>4, <2>1, <2>4
<1> QED
  BY <1>6, <1>7

\* A decoder that is at the end of a packet stays there.
LEMMA DoneStays ==
  ASSUME NEW s \in Seq(Byte), ~Dec(s).done, NEW k \in 0 .. Len(s)
  PROVE  ~After(s, k).done
<1> DEFINE U == {n \in Nat : n <= Len(s) /\ After(s, Len(s) - n).done}
<1> SUFFICES ASSUME U # {} PROVE FALSE
  <2>1. k \in Nat /\ k <= Len(s) /\ Len(s) \in Nat
    OBVIOUS
  <2>2. Len(s) - k \in Nat /\ Len(s) - k <= Len(s) /\ Len(s) - (Len(s) - k) = k
    BY <2>1
  <2> QED
    BY <2>2
<1>1. PICK n \in U : \A m \in U : n <= m
  <2> HIDE DEF U
  <2>1. U \in SUBSET Nat
    BY DEF U
  <2> QED
    BY <2>1, Least
<1>2. PICK l : l = Len(s)
  OBVIOUS
<1>3. n \in Nat /\ n <= l /\ After(s, l - n).done /\ l \in Nat
  BY <1>1, <1>2
<1>4. n # 0
  BY <1>2, <1>3, AfterStep
<1>5. n - 1 \in Nat /\ n - 1 <= l /\ ~(n <= n - 1) /\ l - n + 1 = l - (n - 1)
      /\ l - n + 1 \in 1 .. l /\ l - n + 1 - 1 = l - n /\ l - n \in 0 .. l
  BY <1>3, <1>4
<1>6. ~After(s, l - (n - 1)).done
  BY <1>1, <1>2, <1>5
<1>7. After(s, l - n + 1) = Decode1(After(s, l - n), s[l - n + 1]) /\ s[l - n + 1] \in Byte
  <2>1. PICK i : i = l - n + 1
    OBVIOUS
  <2>2. i \in 1 .. Len(s) /\ i - 1 = l - n
    BY <1>2, <1>5, <2>1
  <2> QED
    BY <2>1, <2>2, AfterStep
<1>8. After(s, l - n) \in Decoder
  BY <1>2, <1>5, AfterType
<1>9. After(s, l - n + 1) = After(s, l - n)
  BY <1>3, <1>7, <1>8, DecodeAny
<1> QED
  BY <1>3, <1>5, <1>6, <1>9
\* s without its j-th byte.
Without(s, j) == [i \in 1 .. Len(s) - 1 |-> IF i < j THEN s[i] ELSE s[i + 1]]

LEMMA WithoutIs ==
  ASSUME NEW s \in Seq(Byte), NEW j \in 1 .. Len(s)
  PROVE  /\ Without(s, j) \in Seq(Byte) /\ Len(Without(s, j)) = Len(s) - 1
         /\ \A i \in 1 .. Len(s) - 1 : Without(s, j)[i] = IF i < j THEN s[i] ELSE s[i + 1]
         /\ SubSeq(Without(s, j), 1, j - 1) = SubSeq(s, 1, j - 1)
<1>1. PICK n : n = Len(s)
  OBVIOUS
<1>2. n \in Nat /\ n >= 1 /\ j \in 1 .. n
  BY <1>1
<1>3. \A i \in 1 .. n - 1 : (IF i < j THEN s[i] ELSE s[i + 1]) \in Byte
  BY <1>1, <1>2
<1>4. PICK w : w = Without(s, j)
  OBVIOUS
<1>5. w = [i \in 1 .. n - 1 |-> IF i < j THEN s[i] ELSE s[i + 1]]
  BY <1>1, <1>4 DEF Without
<1>6. n - 1 \in Nat /\ w \in Seq(Byte) /\ Len(w) = n - 1
  BY <1>2, <1>3, <1>5
<1>7. \A i \in 1 .. n - 1 : w[i] = IF i < j THEN s[i] ELSE s[i + 1]
  BY <1>5
<1>8. SubSeq(w, 1, j - 1) = SubSeq(s, 1, j - 1)
  <2>1. /\ SubSeq(w, 1, j - 1) \in Seq(Byte) /\ Len(SubSeq(w, 1, j - 1)) = j - 1
        /\ \A i \in 1 .. j - 1 : SubSeq(w, 1, j - 1)[i] = w[i]
    BY <1>2, <1>6
  <2>2. /\ SubSeq(s, 1, j - 1) \in Seq(Byte) /\ Len(SubSeq(s, 1, j - 1)) = j - 1
        /\ \A i \in 1 .. j - 1 : SubSeq(s, 1, j - 1)[i] = s[i]
    BY <1>1, <1>2
  <2>3. \A i \in 1 .. j - 1 : w[i] = s[i]
    BY <1>2, <1>7
  <2> QED
    BY <2>1, <2>2, <2>3, SeqEqual
<1> QED
  BY <1>1, <1>4, <1>6, <1>7, <1>8

\* An encoded packet without one of its bytes, but for the last and the escape bytes, is
\* decoded to fewer bytes than the packet has.
LEMMA Shorter ==
  ASSUME NEW s \in Seq(Byte), NEW j \in 1 .. Len(Encoded(s)) - 1, Encoded(s)[j] # ESC
  PROVE  /\ Decoded(Without(Encoded(s), j)) \in Seq(Byte)
         /\ Len(Decoded(Without(Encoded(s), j))) < Len(s)
<1>1. PICK u, f, n : u = Encoded(s) /\ f = Flat(s) /\ n = Len(f)
  OBVIOUS
<1>2. /\ f \in Seq(Byte) /\ n \in Nat /\ u \in Seq(Byte) /\ u = Append(f, END) /\ END \in Byte
      /\ Len(u) = n + 1 /\ u[n + 1] = END /\ \A i \in 1 .. n : u[i] = f[i] /\ f[i] # END
  <2>1. f \in Seq(Byte) /\ u = Append(f, END) /\ END \in Byte /\ \A i \in DOMAIN f : f[i] # END
    BY <1>1, FlatType, FlatFree, AllBytes DEF FreeOfEnd
  <2> QED
    BY <1>1, <2>1
<1>3. j \in 1 .. n /\ j \in 1 .. Len(u) /\ u[j] # ESC
  BY <1>1, <1>2
<1>4. PICK t : t = Without(u, j)
  OBVIOUS
<1>5. /\ t \in Seq(Byte) /\ Len(t) = n /\ SubSeq(t, 1, j - 1) = SubSeq(u, 1, j - 1)
      /\ \A i \in 1 .. n : t[i] = IF i < j THEN u[i] ELSE u[i + 1]
  <2>1. /\ t \in Seq(Byte) /\ Len(t) = Len(u) - 1 /\ SubSeq(t, 1, j - 1) = SubSeq(u, 1, j - 1)
        /\ \A i \in 1 .. Len(u) - 1 : t[i] = IF i < j THEN u[i] ELSE u[i + 1]
    BY <1>2, <1>3, <1>4, WithoutIs
  <2>2. Len(u) - 1 = n
    BY <1>2
  <2> QED
    BY <2>1, <2>2
<1>6. After(t, j - 1) = After(f, j - 1)
  <2>1. SubSeq(u, 1, j - 1) = SubSeq(f, 1, j - 1)
    BY <1>2, <1>3
  <2> QED
    BY <1>5, <2>1 DEF After
<1>7. \A i \in 0 .. n : ~After(f, i).done
  <2>1. ~Dec(f).done
    BY <1>1, DecodeFlat DEF Holds
  <2> QED
    BY <1>1, <1>2, <2>1, DoneStays
<1> DEFINE A(i) == Len(After(t, i).data)
           B(i) == Len(After(f, i).data)
<1>8. ASSUME NEW i \in 1 .. n
      PROVE  /\ A(i - 1) \in Nat /\ A(i) \in Nat /\ A(i) <= A(i - 1) + Counts(t[i])
             /\ B(i - 1) \in Nat /\ B(i) \in Nat /\ B(i) = B(i - 1) + Counts(f[i])
  <2>1. i \in 1 .. Len(t) /\ i \in 1 .. Len(f) /\ ~After(f, i - 1).done
    <3>1. i - 1 \in 0 .. n
      BY <1>2
    <3> QED
      BY <1>1, <1>5, <1>7, <3>1
  <2> QED
    BY <1>2, <1>5, <2>1, AfterGrows
<1>9. A(j - 1) = B(j - 1)
  BY <1>6
<1> HIDE DEF A, B
<1> DEFINE T == {i \in Nat : j <= i /\ i <= n /\ ~(A(i - 1) < B(i))}
<1>10. T = {}
  <2> SUFFICES ASSUME T # {} PROVE FALSE
    OBVIOUS
  <2>1. PICK i \in T : \A m \in T : i <= m
    <3> HIDE DEF T
    <3>1. T \in SUBSET Nat
      BY DEF T
    <3> QED
      BY <3>1, Least
  <2>2. i \in Nat /\ j <= i /\ i <= n /\ ~(A(i - 1) < B(i)) /\ i \in 1 .. n /\ j \in Nat
    BY <1>2, <1>3, <2>1
  <2>3. CASE i = j
    <3>1. f[j] \notin Special
      BY <1>2, <1>3 DEF Special
    <3>2. Counts(f[j]) = 1
      BY <3>1 DEF Counts
    <3>3. B(j) = B(j - 1) + 1 /\ B(j - 1) \in Nat
      BY <1>3, <1>8, <3>2
    <3> QED
      BY <1>9, <2>2, <2>3, <3>3
  <2>4. CASE i # j
    <3>1. i - 1 \in Nat /\ j <= i - 1 /\ i - 1 <= n /\ ~(i <= i - 1) /\ i - 1 \in 1 .. n
          /\ i - 1 - 1 = i - 2 /\ i - 1 + 1 = i
      BY <1>2, <1>3, <2>2, <2>4
    <3>2. A(i - 2) < B(i - 1)
      BY <2>1, <3>1
    <3>3. t[i - 1] = f[i]
      BY <1>2, <1>5, <2>2, <3>1
    <3>4. A(i - 2) \in Nat /\ A(i - 1) \in Nat /\ A(i - 1) <= A(i - 2) + Counts(f[i])
      <4>1. PICK k : k = i - 1
        OBVIOUS
      <4>2. k \in 1 .. n /\ k - 1 = i - 2 /\ t[k] = f[i]
        BY <3>1, <3>3, <4>1
      <4> QED
        BY <1>8, <4>1, <4>2
    <3>5. B(i - 1) \in Nat /\ B(i) = B(i - 1) + Counts(f[i])
      BY <1>8, <2>2
    <3>6. Counts(f[i]) \in Nat
      BY DEF Counts
    <3> QED
      BY <2>2, <3>2, <3>4, <3>5, <3>6
  <2> QED
    BY <2>3, <2>4
<1>11. A(n - 1) < B(n)
  <2>1. n \in Nat /\ j <= n /\ n <= n
    BY <1>2, <1>3
  <2> QED
    BY <1>10, <2>1
<1>12. B(n) = Len(s)
  BY <1>1, <1>2, AfterStep, DecodeFlat DEF B, Holds
<1>13. n \in 1 .. n /\ t[n] = END
  BY <1>2, <1>3, <1>5
<1>14. A(n) <= A(n - 1) /\ A(n) \in Nat /\ A(n - 1) \in Nat
  <2>1. Counts(t[n]) = 0
    BY <1>13 DEF Counts, Special
  <2> QED
    BY <1>8, <1>13, <2>1
<1>15. After(t, n) = Dec(t) /\ After(t, n) \in Decoder
  <2>1. n \in 0 .. Len(t)
    BY <1>2, <1>5
  <2> QED
    BY <1>5, <2>1, AfterStep, AfterType
<1>16. Decoded(t) = Dec(t).data
  BY DEF Decoded, Dec, Fresh
<1>17. Decoded(t) \in Seq(Byte) /\ Len(Decoded(t)) = A(n)
  BY <1>15, <1>16 DEF A, Decoder
<1>18. Len(s) \in Nat
  OBVIOUS
<1> QED
  BY <1>1, <1>4, <1>11, <1>12, <1>14, <1>17, <1>18

\* The first byte of a packet is the first that is decoded, unless SLIP treats it specially.
LEMMA FirstStays ==
  ASSUME NEW s \in Seq(Byte), Len(s) >= 1, s[1] \notin {END, ESC, ESC_END, ESC_ESC}
  PROVE  Len(Decoded(s)) >= 1 /\ Decoded(s)[1] = s[1] /\ Decoded(s) \in Seq(Byte)
<1> DEFINE P(k) == Len(After(s, k).data) >= 1 /\ After(s, k).data[1] = s[1]
           T == {k \in Nat : 1 <= k /\ k <= Len(s) /\ ~P(k)}
<1>1. PICK l : l = Len(s)
  OBVIOUS
<1>2. l \in Nat /\ l >= 1 /\ s[1] \in Byte /\ 1 \in 1 .. l
  BY <1>1
<1>3. T = {}
  <2> SUFFICES ASSUME T # {} PROVE FALSE
    OBVIOUS
  <2>1. PICK k \in T : \A m \in T : k <= m
    <3> HIDE DEF T
    <3>1. T \in SUBSET Nat
      BY DEF T
    <3> QED
      BY <3>1, Least
  <2>2. k \in Nat /\ 1 <= k /\ k <= l /\ ~P(k) /\ k \in 1 .. l
    BY <1>1, <1>2, <2>1
  <2> HIDE DEF P
  <2>7. k \in Nat /\ 1 <= k /\ k <= l
    BY <2>2
  <2>3. PICK d, e : d = After(s, k - 1) /\ e = After(s, k)
    OBVIOUS
  <2>4. d \in Decoder /\ e = Decode1(d, s[k]) /\ s[k] \in Byte
    <3>1. k - 1 \in 0 .. l
      BY <1>2, <2>7
    <3> QED
      BY <1>1, <2>2, <2>3, <3>1, AfterType, AfterStep
  <2>5. CASE k = 1
    <3>1. d = Fresh
      BY <1>1, <2>3, <2>5, AfterStep
    <3>2. ~d.done /\ d.data = <<>>
      BY <3>1 DEF Fresh
    <3>3. e.data = Append(<<>>, s[1])
      BY <2>4, <2>5, <3>2, DecodeAny
    <3>4. Len(Append(<<>>, s[1])) = 1 /\ Append(<<>>, s[1])[1] = s[1]
      BY <1>2
    <3> QED
      BY <2>2, <2>3, <2>5, <3>3, <3>4 DEF P
  <2>6. CASE k # 1
    <3>1. k - 1 \in Nat /\ 1 <= k - 1 /\ k - 1 <= l /\ ~(k <= k - 1)
      BY <1>2, <2>6, <2>7
    <3>2. P(k - 1)
      BY <1>1, <2>1, <3>1
    <3>3. PICK q : q = d.data
      OBVIOUS
    <3>4. q \in Seq(Byte) /\ Len(q) >= 1 /\ q[1] = s[1]
      BY <2>3, <2>4, <3>2, <3>3 DEF Decoder, P
    <3>5. e.data = q \/ \E x \in Byte : e.data = Append(q, x)
      BY <2>4, <3>3, DecodeAny
    <3>6. \A x \in Byte : Len(Append(q, x)) >= 1 /\ Append(q, x)[1] = q[1]
      BY <3>4
    <3> QED
      BY <2>2, <2>3, <3>4, <3>5, <3>6 DEF P
  <2> QED
    BY <2>5, <2>6
<1>4. P(l)
  <2> HIDE DEF P
  <2> QED
    BY <1>1, <1>2, <1>3
<1>5. After(s, l) = Dec(s) /\ After(s, l) \in Decoder
  <2>1. l \in 0 .. Len(s)
    BY <1>1, <1>2
  <2> QED
    BY <1>1, <2>1, AfterStep, AfterType
<1>6. Decoded(s) = Dec(s).data
  BY DEF Decoded, Dec, Fresh
<1> QED
  BY <1>4, <1>5, <1>6 DEF Decoder
\* What is left of a lost byte, to the end of the attempt.  A response that arrives after it
\* begins the receive buffer (Clean), or lost the byte itself (Shorted), or comes after bytes
\* of an earlier one; then the buffer begins with the request, which was encoded over those
\* (Headed).
Headed == pool[1] = req[1]
Left == rxLen > 0 => Headed
Asked == todo = <<>> /\ rsp.at = rsp.len /\ ~ready /\ OneEnd /\ Left
Received == out = <<>> /\ Len(todo) = 1 /\ rsp.at = rsp.len /\ ~ready /\ Left
Stained == rxLen >= 1 /\ Headed
Clean ==
  /\ given \in Seq(Byte) /\ rsp.buf = Encoded(given) /\ rsp.len = Len(rsp.buf)
  /\ rxLen = rsp.at /\ SubSeq(pool, 1, rxLen) = SubSeq(rsp.buf, 1, rxLen)
ShortOf(j) ==
  /\ SubSeq(pool, 1, rxLen) = SubSeq(Without(rsp.buf, j), 1, rxLen)
  /\ rsp.buf[j] # ESC \/ bare
  /\ ready => j < rsp.len
Shorted ==
  /\ given \in Seq(Byte) /\ Fitting(given) /\ rsp.buf = Encoded(given) /\ rsp.len = Len(rsp.buf)
  /\ rxLen + 1 = rsp.at /\ \E j \in 1 .. rsp.at : ShortOf(j)
Responded ==
  /\ out = <<>> /\ todo = <<>> /\ (ready => rsp.at = rsp.len /\ len = rxLen)
  /\ \A i \in 1 .. rsp.len - 1 : rsp.buf[i] # END
  /\ Stained \/ Clean \/ Shorted
Aftermath ==
  /\ pc # "idle" /\ Encoding
  /\ pc \notin {"over", "read"} => req \in Asks(stage)
  /\ pc \in {"encode", "copy"} => todo = <<>> /\ rsp.at = rsp.len /\ ~ready
  /\ pc = "encode" /\ from > 0 => to > 0 /\ Headed
  /\ pc = "copy" => Headed
  /\ pc = "wait" => Asked \/ Received \/ Responded
  /\ pc = "read" => out = <<>> /\ todo = <<>> /\ rsp.at = rsp.len /\ rxLen = 0

LEMMA AftermathSends ==
  ASSUME NEW s, NEW r \in Asks(s), s \in {"check", "setup", "create", "crc"}, Send(s, r),
         out' = <<>>, todo' = <<>>, rsp'.at = rsp'.len, ~ready'
  PROVE  Aftermath'
<1>1. pc' = "encode" /\ stage' = s /\ req' = r /\ from' = 0
  BY DEF Send
<1>2. r \in Seq(Byte)
  BY AsksAre
<1>3. Encoding'
  BY <1>2, EncodingBegins
<1>4. Asks(stage') = Asks(s) /\ req' \in Asks(stage') /\ ~(from' > 0)
  BY <1>1
<1> QED
  BY <1>1, <1>3, <1>4 DEF Aftermath

\* The first byte that encode_slip writes is the first byte of the request.
LEMMA AftermathEncode ==
  ASSUME Roomy, Fits, Fits', Aftermath, Encode
  PROVE  Aftermath'
<1>1. /\ pc = "encode" /\ pc' \in {"encode", "copy"}
      /\ UNCHANGED <<stage, tries, id, req, rxLen, len, ready, out, bootVars, history>>
  BY DEF Encode
<1>2. Encoding'
  BY EncodeStep DEF Aftermath
<1>3. /\ req \in Asks(stage) /\ todo = <<>> /\ rsp.at = rsp.len /\ ~ready
      /\ from > 0 => to > 0 /\ Headed
  BY <1>1 DEF Aftermath
<1>4. /\ stage \in {"check", "setup", "create", "crc"} /\ pool \in Memory /\ PoolSize \in Nat
      /\ from \in Nat /\ to \in Nat /\ to <= 2 * from /\ PoolSize >= 1 /\ DataLen \in Nat
  BY <1>1, TypeParts, Sizes DEF Fits, HostType, SharedType, Shape, Roomy
<1>5. /\ req \in Seq(Byte) /\ Len(req) \in Nat /\ Len(req) >= 1 /\ req[1] \notin Special
      /\ req[1] \in Byte
  BY <1>3, <1>4, AsksAre
<1>6. Len(pool) = PoolSize /\ 1 \in 1 .. Len(pool)
  <2>1. 0 \in 0 .. PoolSize
    BY <1>4
  <2>2. Len(pool) = PoolSize
    BY <1>4, <2>1, MemoryIs
  <2> QED
    BY <1>4, <2>2
<1>7. CASE from = 0
  <2>1. to = 0 /\ from < Len(req) /\ from + 1 = 1
    BY <1>4, <1>5, <1>7
  <2>2. Code(req[1]) = <<req[1]>>
    BY <1>5, CodeType DEF Special
  <2>3. pool' = Overlay(pool, 0, <<req[1]>>) /\ to' = to + Len(<<req[1]>>) /\ pc' = pc
    BY <2>1, <2>2, <1>1 DEF Encode
  <2>4. Len(<<req[1]>>) = 1 /\ <<req[1]>>[1] = req[1]
    OBVIOUS
  <2>5. pool'[1] = req[1]
    BY <1>6, <2>3, <2>4 DEF Overlay
  <2>6. to' > 0
    BY <2>1, <2>3, <2>4
  <2> QED
    BY <1>1, <1>2, <1>3, <2>3, <2>5, <2>6 DEF Aftermath, Headed, bootVars
<1>8. CASE from > 0
  <2>1. PICK c : pool' = Overlay(pool, to, c)
    BY <1>1 DEF Encode
  <2>2. to > 0 /\ Headed
    BY <1>3, <1>8
  <2>3. pool'[1] = pool[1]
    <3>1. 1 \notin to + 1 .. to + Len(c)
      BY <1>4, <2>2
    <3> QED
      BY <1>6, <2>1, <3>1 DEF Overlay
  <2>4. pc' = "encode" => to' > 0
    <3> SUFFICES ASSUME pc' = "encode" PROVE to' > 0
      OBVIOUS
    <3>1. from < Len(req) /\ to' = to + Len(Code(req[from + 1]))
      BY <1>1 DEF Encode
    <3>2. req[from + 1] \in Byte
      BY <1>4, <1>5, <1>8, <3>1
    <3>3. PICK n : n = Len(Code(req[from + 1]))
      OBVIOUS
    <3>4. n \in {1, 2}
      BY <3>2, <3>3, CodeType
    <3>5. to' = to + n
      BY <3>1, <3>3
    <3>6. n \in Nat /\ n >= 1
      BY <3>4
    <3> QED
      BY <1>4, <3>5, <3>6
  <2> QED
    BY <1>1, <1>2, <1>3, <2>2, <2>3, <2>4 DEF Aftermath, Headed, bootVars
<1> QED
  BY <1>4, <1>7, <1>8

LEMMA AftermathCopy ==
  ASSUME Fits, Aftermath, Copy
  PROVE  Aftermath'
<1>1. /\ pc = "copy" /\ pc' \in {"copy", "wait"}
      /\ UNCHANGED <<stage, tries, id, req, to, rxVars, bootVars, history>>
      /\ stage \in {"check", "setup", "create", "crc"}
  BY TypeParts DEF Copy, Fits, HostType
<1>2. Encoding' /\ (pc' = "wait" => out' = Encoded(req'))
  BY CopyStep DEF Aftermath
<1>3. req \in Asks(stage) /\ todo = <<>> /\ rsp.at = rsp.len /\ ~ready /\ Headed
  BY <1>1 DEF Aftermath
<1>4. req' = req /\ stage' = stage /\ todo' = <<>> /\ rsp'.at = rsp'.len /\ ~ready' /\ Headed'
  BY <1>1, <1>3 DEF Headed, rxVars, bootVars
<1>5. CASE pc' = "copy"
  BY <1>2, <1>3, <1>4, <1>5 DEF Aftermath
<1>6. CASE pc' = "wait"
  <2>1. req \in Seq(Byte)
    BY <1>1, <1>3, AsksAre
  <2>2. PICK e : e = Encoded(req)
    OBVIOUS
  <2>3. Len(e) \in Nat /\ \A i \in 1 .. Len(e) : e[i] = END <=> i = Len(e)
    BY <2>1, <2>2, EndIsLast
  <2>4. \A i \in 1 .. Len(e) - 1 : e[i] # END
    BY <2>3
  <2>5. OneEnd'
    BY <1>2, <1>4, <1>6, <2>2, <2>4 DEF OneEnd
  <2>6. Asked'
    BY <1>4, <2>5 DEF Asked, Left
  <2> QED
    BY <1>2, <1>3, <1>4, <1>6, <2>6 DEF Aftermath
<1> QED
  BY <1>1, <1>5, <1>6
\* A byte of a response is received.
LEMMA AftermathRxByte ==
  ASSUME Fits, Aftermath, RxByte, pc # "over"
  PROVE  Aftermath'
<1>1. /\ pool \in Memory /\ rsp \in Transmitters /\ rsp.at \in Nat /\ rsp.len \in Nat
      /\ PoolSize \in Nat /\ rxLen \in Nat /\ rsp.buf \in Seq(Byte) /\ rsp.len <= Len(rsp.buf)
      /\ pc \in {"idle", "encode", "copy", "wait", "read", "over"}
  BY TypeParts, Sizes DEF Fits, HostType, SharedType, BootType, Transmitters
<1> DEFINE b == rsp.buf[rsp.at + 1]
<1>2. /\ rsp.at < rsp.len /\ rxLen < PoolSize /\ rsp' = [rsp EXCEPT !.at = @ + 1]
      /\ pool' = [pool EXCEPT ![rxLen + 1] = b] /\ rxLen' = rxLen + 1
      /\ ~ready => len' = rxLen + 1 /\ ready' = (b = END)
      /\ UNCHANGED <<hostVars, out, slip, todo, given, history>>
  BY DEF RxByte
<1>3. pc = "wait" /\ Responded
  BY <1>1, <1>2 DEF Aftermath, Asked, Received
<1>4. ~ready
  BY <1>1, <1>2, <1>3 DEF Responded
<1>5. /\ rsp'.at = rsp.at + 1 /\ rsp'.len = rsp.len /\ rsp'.buf = rsp.buf
  BY <1>1, <1>2 DEF Transmitters
<1>6. b = END => rsp.at + 1 = rsp.len
  <2>1. rsp.at + 1 # rsp.len => rsp.at + 1 \in 1 .. rsp.len - 1
    BY <1>1, <1>2
  <2> QED
    BY <1>3, <2>1 DEF Responded
<1>7. ready' => rsp'.at = rsp'.len /\ len' = rxLen'
  BY <1>2, <1>4, <1>5, <1>6
<1>8. req' = req /\ bare' = bare /\ given' = given /\ pc' = pc /\ stage' = stage /\ out' = out
      /\ todo' = todo
  BY <1>2 DEF hostVars, history
<1>9. ASSUME Stained
      PROVE  Stained'
  <2>1. rxLen + 1 # 1
    BY <1>1, <1>9 DEF Stained
  <2>2. pool'[1] = pool[1]
    BY <1>1, <1>2, <2>1 DEF Memory
  <2> QED
    BY <1>1, <1>2, <1>8, <1>9, <2>2 DEF Stained, Headed
<1>10. ASSUME Clean
       PROVE  Clean'
  <2>1. SubSeq([pool EXCEPT ![rxLen + 1] = rsp.buf[rxLen + 1]], 1, rxLen + 1)
          = SubSeq(rsp.buf, 1, rxLen + 1)
    <3>1. rxLen < Len(rsp.buf) /\ rxLen + 1 <= PoolSize /\ SubSeq(pool, 1, rxLen) = SubSeq(rsp.buf, 1, rxLen)
      BY <1>1, <1>2, <1>10 DEF Clean
    <3> QED
      BY <1>1, <3>1, Written
  <2>2. rxLen = rsp.at
    BY <1>10 DEF Clean
  <2>3. SubSeq(pool', 1, rxLen') = SubSeq(rsp'.buf, 1, rxLen')
    BY <1>2, <1>5, <2>1, <2>2
  <2> QED
    BY <1>2, <1>5, <1>8, <1>10, <2>2, <2>3 DEF Clean
<1>11. ASSUME Shorted
       PROVE  Shorted'
  <2>1. PICK j \in 1 .. rsp.at : ShortOf(j)
    BY <1>11 DEF Shorted
  <2>2. rxLen + 1 = rsp.at /\ rsp.len = Len(rsp.buf) /\ j \in 1 .. Len(rsp.buf)
    BY <1>1, <1>2, <1>11, <2>1 DEF Shorted
  <2>3. PICK w : w = Without(rsp.buf, j)
    OBVIOUS
  <2>4. /\ w \in Seq(Byte) /\ Len(w) = Len(rsp.buf) - 1
        /\ \A i \in 1 .. Len(rsp.buf) - 1 : w[i] = IF i < j THEN rsp.buf[i] ELSE rsp.buf[i + 1]
    BY <1>1, <2>2, <2>3, WithoutIs
  <2>5. rxLen < Len(w) /\ rxLen + 1 <= PoolSize /\ rxLen + 1 \in 1 .. Len(rsp.buf) - 1 /\ ~(rxLen + 1 < j)
    BY <1>1, <1>2, <2>1, <2>2, <2>4
  <2>6. w[rxLen + 1] = b
    BY <2>2, <2>4, <2>5
  <2>7. SubSeq(pool, 1, rxLen) = SubSeq(w, 1, rxLen)
    BY <2>1, <2>3 DEF ShortOf
  <2>8. SubSeq([pool EXCEPT ![rxLen + 1] = w[rxLen + 1]], 1, rxLen + 1) = SubSeq(w, 1, rxLen + 1)
    BY <1>1, <2>4, <2>5, <2>7, Written
  <2>9. SubSeq(pool', 1, rxLen') = SubSeq(w, 1, rxLen')
    BY <1>2, <2>6, <2>8
  <2>10. j < rsp.len /\ j \in 1 .. rsp'.at
    BY <1>1, <1>2, <1>5, <2>1
  <2>11. w = Without(rsp'.buf, j)
    BY <1>5, <2>3
  <2>12. ShortOf(j)'
    BY <1>5, <1>8, <2>1, <2>9, <2>10, <2>11 DEF ShortOf
  <2>13. Fitting(given)'
    BY <1>8, <1>11 DEF Shorted, Fitting, Accepts
  <2>14. rxLen' + 1 = rsp'.at
    BY <1>2, <1>5, <2>2
  <2> QED
    BY <1>5, <1>8, <1>11, <2>10, <2>12, <2>13, <2>14 DEF Shorted
<1>12. Stained' \/ Clean' \/ Shorted'
  BY <1>3, <1>9, <1>10, <1>11 DEF Responded
<1>13. Responded'
  BY <1>3, <1>5, <1>7, <1>8, <1>12 DEF Responded
<1> QED
  BY <1>3, <1>8, <1>13 DEF Aftermath, Encoding

\* The bootloader answers what it took for a request.
LEMMA AftermathAnswer ==
  ASSUME Fits, Aftermath, Answer, pc # "over"
  PROVE  Aftermath'
<1>1. /\ todo \in Seq(Packets) /\ rxLen \in Nat
      /\ pc \in {"idle", "encode", "copy", "wait", "read", "over"}
  BY TypeParts, Sizes DEF Fits, HostType, SharedType, BootType
<1>2. todo # <<>> /\ todo' = Tail(todo) /\ UNCHANGED <<hostVars, rxVars, out, slip, history>>
  BY DEF Answer
<1>3. pc = "wait" /\ Received
  BY <1>1, <1>2 DEF Aftermath, Asked, Responded
<1>4. PICK p \in Responses(Head(todo)) :
        given' = p /\ rsp' = [buf |-> Encoded(p), at |-> 0, len |-> Len(Encoded(p))]
  BY <1>3 DEF Answer, Received
<1>5. Head(todo) \in Packets /\ todo' = <<>>
  BY <1>1, <1>2, <1>3 DEF Received
<1>6. p \in Seq(Byte)
  BY <1>5, ResponsesType
<1>7. /\ Len(Encoded(p)) \in Nat /\ Len(Encoded(p)) >= 1
      /\ \A i \in 1 .. Len(Encoded(p)) - 1 : Encoded(p)[i] # END
  <2>1. /\ Len(Encoded(p)) \in Nat /\ Len(Encoded(p)) >= 1
        /\ \A i \in 1 .. Len(Encoded(p)) : Encoded(p)[i] = END <=> i = Len(Encoded(p))
    BY <1>6, EndIsLast
  <2> QED
    BY <2>1
<1>8. rsp'.buf = Encoded(p) /\ rsp'.len = Len(Encoded(p)) /\ rsp'.at = 0
  BY <1>4
<1>9. req' = req /\ pool' = pool /\ rxLen' = rxLen /\ ready' = ready /\ out' = out /\ pc' = pc
      /\ stage' = stage
  BY <1>2 DEF hostVars, rxVars
<1>10. ASSUME rxLen = 0
       PROVE  Clean'
  <2>1. SubSeq(pool', 1, 0) = <<>> /\ SubSeq(Encoded(p), 1, 0) = <<>>
    BY SubSeqEmpty
  <2> QED
    BY <1>4, <1>6, <1>8, <1>9, <1>10, <2>1 DEF Clean
<1>11. ASSUME rxLen > 0
       PROVE  Stained'
  BY <1>1, <1>3, <1>9, <1>11 DEF Received, Left, Stained, Headed
<1>12. Clean' \/ Stained'
  BY <1>1, <1>10, <1>11
<1>13. Responded'
  BY <1>3, <1>5, <1>7, <1>8, <1>9, <1>12 DEF Received, Responded
<1> QED
  BY <1>3, <1>9, <1>13 DEF Aftermath, Encoding

\* The bootloader receives a byte of a request.
LEMMA AftermathBootByte ==
  ASSUME Fits, Aftermath, BootByte, pc # "over"
  PROVE  Aftermath'
<1>1. /\ out \in Seq(Byte) /\ slip.state \in {"decoding", "escaped", "clearing"}
      /\ pc \in {"idle", "encode", "copy", "wait", "read", "over"}
  BY TypeParts DEF Fits, HostType, SharedType, BootType, Decoders
<1>2. out # <<>> /\ out' = Tail(out) /\ pc # "copy"
      /\ UNCHANGED <<hostVars, rxVars, rsp, given, history>>
  BY BootCases
<1>3. pc = "wait" /\ Asked
  BY <1>1, <1>2 DEF Aftermath, Encoding, Received, Responded
<1>4. OneEnd' /\ (Head(out) = END => out' = <<>>)
  BY <1>1, <1>2, <1>3, OneEndTail DEF Asked
<1>5. req' = req /\ pool' = pool /\ rxLen' = rxLen /\ ready' = ready /\ rsp' = rsp /\ pc' = pc
      /\ stage' = stage
  BY <1>2 DEF hostVars, rxVars
<1>6. CASE todo' = todo
  <2>1. Asked'
    BY <1>3, <1>4, <1>5, <1>6 DEF Asked, Left, Headed
  <2> QED
    BY <1>3, <1>5, <2>1 DEF Aftermath, Encoding
<1>7. CASE slip.state = "decoding" /\ Head(out) = END
  <2>1. \E x : todo' = Append(todo, x)
    BY <1>7, BootCases
  <2>2. Len(todo') = 1
    BY <1>3, <2>1 DEF Asked
  <2>3. Received'
    BY <1>3, <1>4, <1>5, <1>7, <2>2 DEF Asked, Received, Left, Headed
  <2> QED
    BY <1>3, <1>5, <2>3 DEF Aftermath, Encoding
<1>8. todo' = todo \/ (slip.state = "decoding" /\ Head(out) = END)
  BY <1>1, BootCases DEF Special
<1> QED
  BY <1>6, <1>7, <1>8
LEMMA AftermathReturn ==
  ASSUME Fits, Aftermath, Return
  PROVE  Aftermath'
<1>1. /\ pc = "read" /\ ready' = FALSE /\ UNCHANGED <<pool, rxLen, len, out, bootVars, lost, late, bare>>
      /\ (IF req = <<>> THEN Failed ELSE Succeeded)
      /\ id \in Byte /\ stage \in {"check", "setup", "create", "crc"}
  BY TypeParts DEF Return, Fits, HostType
<1>2. out' = <<>> /\ todo' = <<>> /\ rsp'.at = rsp'.len /\ ~ready'
  BY <1>1 DEF Aftermath, bootVars
<1>3. CASE Failed
  <2>1. Over("fail") \/ Over("absent") \/ Send("check", <<PING, id>>)
    BY <1>3 DEF Failed
  <2>2. CASE Send("check", <<PING, id>>)
    BY <1>1, <1>2, <2>2, AskIds, AftermathSends
  <2>3. CASE pc' = "over"
    BY <2>3 DEF Aftermath, Encoding
  <2> QED
    BY <2>1, <2>2, <2>3 DEF Over
<1>4. CASE Succeeded
  <2>1. CASE stage = "check"
    <3> DEFINE n == (id + 1) % 256
    <3>1. Send("setup", <<PING, n>>)
      BY <1>4, <2>1 DEF Succeeded
    <3>2. <<PING, n>> \in Asks("setup")
      BY <1>1, NextId, AskIds
    <3> HIDE DEF n
    <3> QED
      BY <1>2, <3>1, <3>2, AftermathSends
  <2>2. CASE stage = "setup"
    <3>1. PICK d \in Data : Send("create", <<CREATE>> \o d)
      BY <1>4, <2>2 DEF Succeeded
    <3>2. <<CREATE>> \o d \in Asks("create")
      BY DEF Asks
    <3> QED
      BY <1>2, <3>1, <3>2, AftermathSends
  <2>3. CASE stage = "create"
    <3>1. Send("crc", <<CRC_GET>>)
      BY <1>4, <2>3 DEF Succeeded
    <3>2. <<CRC_GET>> \in Asks("crc")
      BY DEF Asks
    <3> QED
      BY <1>2, <3>1, <3>2, AftermathSends
  <2>4. CASE stage = "crc"
    <3>1. pc' = "over"
      BY <1>4, <2>4 DEF Succeeded, Over
    <3> QED
      BY <3>1 DEF Aftermath, Encoding
  <2> QED
    BY <1>1, <2>1, <2>2, <2>3, <2>4
<1> QED
  BY <1>1, <1>3, <1>4

LEMMA AftermathNext ==
  ASSUME Roomy, Fits, Aftermath, ctx # "isr",
         [Next]_vars, lost' = lost, late' = late, stray' = stray
  PROVE  Aftermath'
<1>1. Fits' /\ lost \in Nat /\ late \in Nat /\ id \in Byte
  BY FitsNext, TypeParts DEF Fits, HistoryType, HostType
<1>2. CASE UNCHANGED vars
  <2>1. UNCHANGED <<hostVars, rxVars, out, bootVars, history>>
    BY <1>2 DEF vars
  <2>2. (Headed <=> Headed') /\ (Asked => Asked') /\ (Received => Received') /\ (Stained => Stained')
    BY <2>1 DEF hostVars, rxVars, bootVars, Headed, Left, OneEnd, Asked, Received, Stained
  <2>3. Clean => Clean'
    BY <2>1 DEF rxVars, bootVars, Clean
  <2>4. Shorted => Shorted'
    <3>1. (Fitting(given) => Fitting(given)') /\ \A j \in 1 .. rsp.at : ShortOf(j) => ShortOf(j)'
      BY <2>1 DEF hostVars, rxVars, bootVars, history, Fitting, Accepts, ShortOf
    <3> QED
      BY <2>1, <3>1 DEF rxVars, bootVars, Shorted
  <2>5. Responded => Responded'
    BY <2>1, <2>2, <2>3, <2>4 DEF rxVars, bootVars, Responded
  <2>6. Encoding'
    BY <2>1 DEF hostVars, rxVars, Aftermath, Encoding
  <2> QED
    BY <2>1, <2>2, <2>5, <2>6 DEF hostVars, rxVars, bootVars, Aftermath
<1>3. pc # "idle"
  BY DEF Aftermath
<1>4. CASE pc = "over"
  <2>1. ~Start /\ ~Encode /\ ~Copy /\ ~Read /\ ~Return /\ ~Timeout /\ ~Press
    BY <1>4 DEF Start, Encode, Copy, Read, Return, Timeout, Press
  <2>2. RxByte \/ BootByte \/ Answer \/ LoseByte => pc' = "over"
    BY <1>4 DEF RxByte, BootByte, Answer, LoseByte, hostVars
  <2>3. pc' = "over" => Aftermath'
    BY DEF Aftermath, Encoding
  <2> QED
    BY <1>2, <2>1, <2>2, <2>3 DEF Next
<1>5. CASE pc # "over"
  <2>1. ~Start /\ ~LoseByte /\ ~Press
    BY <1>1, <1>3 DEF Start, LoseByte, Press
  <2>2. CASE Read
    <3>1. /\ pc = "wait" /\ ready /\ pc' = "read" /\ rxLen' = 0
          /\ UNCHANGED <<out, bootVars>>
      BY <2>2 DEF Read
    <3>2. Responded
      BY <3>1 DEF Aftermath, Asked, Received
    <3> QED
      BY <3>1, <3>2 DEF Responded, Aftermath, Encoding, bootVars
  <2>3. CASE Timeout
    <3>1. pc = "wait" /\ Failed /\ UNCHANGED <<rxVars, out, bootVars>> /\ Quiet
      BY <1>1, <2>3 DEF Timeout, Served
    <3>2. out' = <<>> /\ todo' = <<>> /\ rsp'.at = rsp'.len /\ ~ready'
      BY <3>1 DEF Quiet, rxVars, bootVars
    <3>3. Over("fail") \/ Over("absent") \/ Send("check", <<PING, id>>)
      BY <3>1 DEF Failed
    <3>4. CASE Send("check", <<PING, id>>)
      BY <1>1, <3>2, <3>4, AskIds, AftermathSends
    <3>5. CASE pc' = "over"
      BY <3>5 DEF Aftermath, Encoding
    <3> QED
      BY <3>3, <3>4, <3>5 DEF Over
  <2>4. CASE Encode
    BY <1>1, <2>4, AftermathEncode
  <2>5. CASE Copy
    BY <2>5, AftermathCopy
  <2>6. CASE Return
    BY <2>6, AftermathReturn
  <2>7. CASE RxByte
    BY <1>5, <2>7, AftermathRxByte
  <2>8. CASE BootByte
    BY <1>5, <2>8, AftermathBootByte
  <2>9. CASE Answer
    BY <1>5, <2>9, AftermathAnswer
  <2> QED
    BY <1>2, <2>1, <2>2, <2>3, <2>4, <2>5, <2>6, <2>7, <2>8, <2>9 DEF Next
<1> QED
  BY <1>4, <1>5

\* The line loses a byte of an attempt that nothing disturbed before.
LEMMA AftermathBegins ==
  ASSUME Fits, Course, LoseByte
  PROVE  Aftermath'
<1>1. /\ out \in Seq(Byte) /\ rsp \in Transmitters /\ rsp.at \in Nat /\ rsp.len \in Nat
      /\ stage \in {"check", "setup", "create", "crc"} /\ slip \in Decoders /\ slip.at \in Nat
      /\ pool \in Memory
  BY TypeParts, Sizes DEF Fits, HostType, SharedType, BootType, Transmitters, Decoders
<1>2. UNCHANGED <<hostVars, rxVars, slip, todo, given, verdict, late>>
  BY DEF LoseByte
<1>3. \/ pc # "copy" /\ out # <<>> /\ out' = Tail(out) /\ rsp' = rsp /\ bare' = bare
      \/ /\ rsp.at < rsp.len /\ rsp' = [rsp EXCEPT !.at = @ + 1] /\ out' = out
         /\ bare' = (bare \/ rsp.buf[rsp.at + 1] = ESC)
  BY DEF LoseByte
<1>4. pc = "wait" /\ req \in Asks(stage)
  BY HurtBegins DEF Course
<1>5. req \in Seq(Byte) /\ Len(req) \in Nat
  BY <1>1, <1>4, AsksAre
<1>6. /\ pc' = "wait" /\ req' = req /\ stage' = stage /\ pool' = pool /\ rxLen' = rxLen /\ len' = len
      /\ ready' = ready /\ todo' = todo /\ given' = given
  BY <1>2, <1>4 DEF hostVars, rxVars
<1>7. Encoding' /\ req' \in Asks(stage')
  BY <1>4, <1>6 DEF Encoding
<1>8. CASE Travelling
  <2>1. slip.at \in 0 .. Len(req)
    BY <1>1, <1>5, <1>8 DEF Travelling, Whole
  <2>2. From(req, slip.at) \in Seq(Byte)
    BY <1>5, <2>1, FromIs
  <2>3. OneEnd
    BY <1>8, <2>2, OneEndEncoded DEF Travelling, Whole
  <2>4. out # <<>> /\ out' = Tail(out) /\ rsp' = rsp
    BY <1>1, <1>3, <1>8 DEF Travelling
  <2>5. OneEnd'
    BY <1>1, <2>3, <2>4, OneEndTail
  <2>6. Asked'
    BY <1>6, <1>8, <2>4, <2>5 DEF Travelling, Asked, Left
  <2> QED
    BY <1>6, <1>7, <2>6 DEF Aftermath
<1>9. ~Arrived
  BY <1>1, <1>3 DEF Arrived
<1>10. CASE Answered
  <2>1. /\ rsp.at < rsp.len /\ rsp' = [rsp EXCEPT !.at = @ + 1] /\ out' = out
        /\ bare' = (bare \/ rsp.buf[rsp.at + 1] = ESC)
    BY <1>3, <1>10 DEF Answered
  <2>2. rsp'.at = rsp.at + 1 /\ rsp'.len = rsp.len /\ rsp'.buf = rsp.buf
    BY <1>1, <2>1 DEF Transmitters
  <2>3. /\ given \in Seq(Byte) /\ rsp.buf = Encoded(given) /\ rsp.len = Len(rsp.buf)
        /\ rxLen = rsp.at /\ SubSeq(pool, 1, rsp.at) = SubSeq(rsp.buf, 1, rsp.at) /\ ~ready
        /\ rsp.buf \in Seq(Byte)
    BY <1>1, <1>10, <2>1 DEF Answered, Transmitters
  <2>4. \A i \in 1 .. rsp.len - 1 : rsp.buf[i] # END
    <3>1. \A i \in 1 .. rsp.len : rsp.buf[i] = END <=> i = rsp.len
      BY <2>3, EndIsLast
    <3> QED
      BY <1>1, <3>1
  <2>5. PICK j : j = rsp.at + 1
    OBVIOUS
  <2>6. j \in 1 .. Len(rsp.buf) /\ j \in 1 .. rsp'.at /\ j - 1 = rsp.at
    BY <1>1, <2>1, <2>2, <2>3, <2>5
  <2>7. SubSeq(Without(rsp.buf, j), 1, j - 1) = SubSeq(rsp.buf, 1, j - 1)
    BY <2>3, <2>6, WithoutIs
  <2>8. ShortOf(j)'
    <3>1. SubSeq(pool', 1, rxLen') = SubSeq(Without(rsp'.buf, j), 1, rxLen')
      BY <1>6, <2>2, <2>3, <2>6, <2>7
    <3>2. rsp'.buf[j] # ESC \/ bare'
      BY <2>1, <2>2, <2>5
    <3> QED
      BY <1>6, <2>3, <3>1, <3>2 DEF ShortOf
  <2>9. Fitting(given)'
    BY <1>6, <1>10 DEF Answered, Fitting, Accepts
  <2>10. Shorted'
    BY <1>6, <2>2, <2>3, <2>6, <2>8, <2>9 DEF Shorted
  <2>11. Responded'
    BY <1>6, <1>10, <2>1, <2>2, <2>3, <2>4, <2>10 DEF Answered, Responded
  <2> QED
    BY <1>6, <1>7, <2>11 DEF Aftermath
<1> QED
  BY <1>4, <1>8, <1>9, <1>10 DEF Course

\* A response that lost a byte, or is not the first in the buffer, is not accepted.
LEMMA AcceptedWhole ==
  ASSUME Roomy, Fits, Aftermath, pc = "wait", ready, Accepts(Packet), ~bare
  PROVE  Packet = given
<1>1. /\ pool \in Memory /\ rsp \in Transmitters /\ rsp.at \in Nat /\ rsp.len \in Nat
      /\ PoolSize \in Nat /\ rxLen \in 0 .. PoolSize /\ rsp.buf \in Seq(Byte)
      /\ stage \in {"check", "setup", "create", "crc"} /\ DataLen \in Nat
  BY TypeParts, Sizes DEF Fits, HostType, SharedType, BootType, Transmitters
<1>2. Responded /\ req \in Asks(stage)
  BY DEF Aftermath, Asked, Received
<1>3. rsp.at = rsp.len /\ len = rxLen
  BY <1>2 DEF Responded
<1>4. req[1] \in {PING, CREATE, CRC_GET} /\ req[1] \notin {END, ESC, ESC_END, ESC_ESC}
  BY <1>1, <1>2, AsksAre DEF Special
<1>5. ~Stained
  <2> SUFFICES ASSUME Stained PROVE FALSE
    OBVIOUS
  <2>1. PICK t : t = SubSeq(pool, 1, rxLen)
    OBVIOUS
  <2>2. t \in Seq(Byte) /\ Len(t) >= 1 /\ t[1] = req[1]
    <3>1. rxLen >= 1 /\ pool[1] = req[1]
      BY DEF Stained, Headed
    <3>2. t \in Seq(Byte) /\ Len(t) = rxLen /\ \A i \in 1 .. rxLen : t[i] = pool[i]
      BY <1>1, <2>1, MemoryIs
    <3> QED
      BY <1>1, <3>1, <3>2
  <2>3. Decoded(t)[1] = req[1]
    BY <1>4, <2>2, FirstStays
  <2>4. Packet[1] = RESPONSE
    BY DEF Accepts
  <2>5. RESPONSE \notin {PING, CREATE, CRC_GET}
    BY DEF RESPONSE, PING, CREATE, CRC_GET
  <2> QED
    BY <1>3, <1>4, <2>1, <2>3, <2>4, <2>5 DEF Packet
<1>6. ASSUME Clean
      PROVE  Packet = given
  <2>1. SubSeq(pool, 1, len) = Encoded(given) /\ given \in Seq(Byte)
    BY <1>1, <1>3, <1>6 DEF Clean
  <2> QED
    BY <2>1, PacketIs
<1>7. ~Shorted
  <2> SUFFICES ASSUME Shorted PROVE FALSE
    OBVIOUS
  <2>1. PICK j \in 1 .. rsp.at : ShortOf(j)
    BY DEF Shorted
  <2>2. /\ given \in Seq(Byte) /\ Fitting(given) /\ rsp.buf = Encoded(given)
        /\ rsp.len = Len(rsp.buf) /\ rxLen + 1 = rsp.len
    BY <1>3 DEF Shorted
  <2>3. j < rsp.len /\ rsp.buf[j] # ESC /\ SubSeq(pool, 1, len) = SubSeq(Without(rsp.buf, j), 1, rxLen)
    BY <1>3, <2>1 DEF ShortOf
  <2>4. j \in 1 .. Len(rsp.buf) /\ j \in 1 .. Len(rsp.buf) - 1 /\ rxLen = Len(rsp.buf) - 1
    BY <1>1, <1>3, <2>1, <2>2, <2>3
  <2>5. Without(rsp.buf, j) \in Seq(Byte) /\ Len(Without(rsp.buf, j)) = rxLen
    BY <1>1, <2>4, WithoutIs
  <2>6. SubSeq(Without(rsp.buf, j), 1, rxLen) = Without(rsp.buf, j)
    BY <2>5
  <2>7. Packet \in Seq(Byte) /\ Len(Packet) < Len(given)
    BY <2>2, <2>3, <2>4, <2>6, Shorter DEF Packet
  <2>8. Len(Packet) \in Nat /\ Len(given) \in Nat
    BY <2>2, <2>7
  <2>9. CASE req[1] = PING
    <3>1. Len(Packet) = 4 /\ Len(given) = 4
      BY <2>2, <2>9 DEF Fitting, Accepts
    <3> QED
      BY <2>7, <3>1
  <2>10. CASE req[1] = CREATE
    <3>1. Len(Packet) >= 3 /\ Len(given) = 3
      BY <2>2, <2>10 DEF Fitting, Accepts
    <3> QED
      BY <2>7, <2>8, <3>1
  <2>11. CASE req[1] = CRC_GET
    <3>1. Len(Packet) = 3 + DataLen /\ Len(given) = 3 + DataLen
      BY <2>2, <2>11 DEF Fitting, Accepts
    <3> QED
      BY <1>1, <2>7, <3>1
  <2> QED
    BY <1>4, <2>9, <2>10, <2>11
<1> QED
  BY <1>2, <1>5, <1>6, <1>7 DEF Responded

\* The story of a lost byte, with what becomes of it in the buffers.
Trace == late = 0 /\ lost = 1 /\ ~stray => Aftermath

LEMMA TraceNext == ASSUME Roomy, Fits, Story, Aside, Trace, [Next]_vars PROVE Trace'
<1>1. /\ late \in Nat /\ late' \in Nat /\ lost \in Nat /\ lost' \in Nat /\ stray \in BOOLEAN
      /\ late' = late \/ late' = late + 1
      /\ lost' = lost \/ (lost' = lost + 1 /\ LoseByte)
      /\ stray' = stray \/ (~stray /\ Press)
  BY HistoryNext
<1> SUFFICES ASSUME late' = 0, lost' = 1, ~stray'
             PROVE  Aftermath'
  BY DEF Trace
<1>2. late = 0 /\ late' = late
  BY <1>1
<1>3. ~stray /\ stray' = stray
  <2>1. ~Press
    BY DEF Press
  <2> QED
    BY <1>1, <2>1
<1>4. ctx # "isr"
  BY <1>3 DEF Aside
<1>5. CASE lost' = lost
  BY <1>2, <1>3, <1>4, <1>5, AftermathNext DEF Trace
<1>6. CASE lost' = lost + 1 /\ LoseByte
  <2>1. lost = 0
    BY <1>1, <1>6
  <2>2. Course
    BY <1>2, <1>3, <2>1 DEF Story
  <2> QED
    BY <1>6, <2>2, AftermathBegins
<1> QED
  BY <1>1, <1>5, <1>6

-----------------------------------------------------------------------------
(* Theorems.                                                                *)

\* What the bootloader takes for a request is the request that dfu_drv_tx was given, whatever
\* bytes it is made of, as long as the line loses nothing and no answer is late: nothing of
\* an earlier request or response is left in the shared buffer, in the decoder or in the
\* receive buffer when the next one is encoded.  Only the frame of button 2 may be before it:
\* the one that waits in the decoder for an attempt in the timer's interrupt, or the one that
\* is sent in a thread's; it is with one request, whole, and with no other.
THEOREM RequestsArrive ==
  ASSUME Roomy
  PROVE  Spec => []RequestIntact
<1>1. Fits /\ Story /\ Aside => RequestIntact
  <2> SUFFICES ASSUME Fits, Story, Aside, lost = 0, late = 0, NEW k \in 1 .. Len(todo)
               PROVE  \/ todo[k].whole = req
                      \/ stray /\ \E g \in Strays : todo[k].whole = g \o req
    BY DEF RequestIntact
  <2>1. todo # <<>> /\ ctx # "isr"
    BY DEF Aside
  <2>2. CASE Course
    <3>1. Arrived
      BY <2>1, <2>2 DEF Course, Still, Travelling, Answered
    <3>2. PICK x \in Packets : todo = <<x>> /\ x.whole = req
      BY <3>1 DEF Arrived, Is
    <3> QED
      BY <3>2
  <2>3. ASSUME stray, NEW g \in Strays, Strayed(g)
        PROVE  todo[k].whole = req \/ todo[k].whole = g \o req
    <3>1. pc \in {"idle", "encode", "copy", "wait", "read", "over"}
      BY TypeParts DEF Fits, HostType
    <3>2. Ahead(g) \/ Behind(g)
      BY <2>1, <2>3, <3>1 DEF Strayed, Silent
    <3>3. PICK x \in Packets : todo = <<x>> /\ (x.whole = req \/ x.whole = g \o req)
      BY <2>1, <3>2 DEF Ahead, Behind, Silent, Coming, Is
    <3>4. k = 1 /\ todo[k] = x
      BY <3>3
    <3> QED
      BY <3>3, <3>4
  <2>4. stray => Course \/ (\E g \in Strays : Strayed(g)) \/ Ended
    BY <2>1 DEF Aside
  <2>5. ~stray => Course
    BY DEF Story
  <2>6. ~Ended
    BY <2>1 DEF Ended
  <2> QED
    BY <2>2, <2>3, <2>4, <2>5, <2>6
<1> QED
  BY <1>1, Always, PTL

\* dfu_host_bl_mode_check never takes a bootloader that answers in time for absent because of
\* one lost byte, whichever byte of a ping or of its response that is: the first ping may
\* fail for it and the second for what is left of the first, the third does not.  Nor because
\* of the frame of button 2 before the first ping, which fails that ping alone; but both
\* together may fail all three, and where the interrupt of the UART is not served they all do.
\* A request fails an attempt only if a byte was lost, an answer was late or button 2 was
\* pressed during it: the frame that waits for an attempt in the timer's interrupt is spent
\* on the mode check.
THEOREM OneLossSurvived ==
  ASSUME Roomy
  PROVE  Spec => []FaultsSurvived
<1>1. Fits /\ Story /\ Aside => FaultsSurvived
  <2> SUFFICES ASSUME Fits, Story, Aside
               PROVE  FaultsSurvived
    OBVIOUS
  <2>1. lost \in Nat /\ late \in Nat
    BY TypeParts DEF Fits, HistoryType
  <2>2. CASE ctx = "isr"
    BY <2>2 DEF Aside, FaultsSurvived, Served
  <2>3. CASE ~stray
    <3>1. lost = 0 /\ late = 0 => verdict # "fail"
      BY <2>3 DEF Story, Course
    <3>2. late = 0 /\ verdict = "absent" => lost > 1
      BY <2>3 DEF Story
    <3> QED
      BY <2>1, <3>1, <3>2 DEF FaultsSurvived
  <2>4. CASE stray /\ ctx # "isr"
    <3>1. lost = 0 /\ late = 0 => verdict # "absent" /\ (verdict = "fail" => ctx = "thread")
      <4> SUFFICES ASSUME lost = 0, late = 0
                   PROVE  verdict # "absent" /\ (verdict = "fail" => ctx = "thread")
        OBVIOUS
      <4>1. CASE Course
        BY <4>1 DEF Course
      <4>2. CASE \E g \in Strays : Strayed(g)
        BY <4>2 DEF Strayed
      <4>3. CASE Ended
        BY <4>3 DEF Ended
      <4> QED
        BY <2>4, <4>1, <4>2, <4>3 DEF Aside
    <3>2. (lost = 0 /\ late = 0) \/ lost > 0 \/ late > 0
      BY <2>1
    <3> QED
      BY <2>4, <3>1, <3>2 DEF FaultsSurvived
  <2> QED
    BY <2>2, <2>3, <2>4
<1> QED
  BY <1>1, Always, PTL

\* A response that the host accepts is the whole last response of the bootloader, as long as
\* no answer was late and either the line lost nothing, whatever button 2 sent, or button 2 sent
\* nothing and the line lost one byte, not the escape byte of a response: what a lost byte
\* leaves in the buffer that requests are encoded into never makes up a response together with
\* what arrives later, and a response without one of its bytes is not taken for another one.
\* With a second loss, or a late answer, it may be: the start ids and the data bytes decide.
THEOREM AcceptedWithOneLoss ==
  ASSUME Roomy
  PROVE  Spec => [](lost <= 1 /\ late = 0 /\ (stray => lost = 0) => AcceptedIsGiven)
<1>1. Init => Trace
  BY DEF Init, Trace
<1>2. Fits /\ Story /\ Aside /\ Trace /\ [Next]_vars => Trace'
  BY TraceNext
<1>3. Fits /\ Story /\ Aside /\ Trace =>
        (lost <= 1 /\ late = 0 /\ (stray => lost = 0) => AcceptedIsGiven)
  <2> SUFFICES ASSUME Fits, Story, Aside, Trace, lost <= 1, late = 0, stray => lost = 0,
                      pc = "wait", ready, Accepts(Packet), ~bare
               PROVE  Packet = given
    BY DEF AcceptedIsGiven
  <2>1. lost \in Nat /\ ctx # "isr"
    BY TypeParts DEF Fits, HistoryType, Aside
  <2>2. CASE lost = 0
    <3>1. Course \/ (\E g \in Strays : Strayed(g)) \/ Ended
      <4>1. CASE stray
        BY <2>1, <2>2, <4>1 DEF Aside
      <4>2. CASE ~stray
        BY <2>2, <4>2 DEF Story
      <4> QED
        BY <4>1, <4>2
    <3>2. Coming
      <4>1. Course => Coming
        BY DEF Course, Travelling, Arrived, Answered, Coming
      <4>2. ASSUME NEW g \in Strays, Strayed(g)
            PROVE  Coming
        BY <4>2 DEF Strayed, Ahead, Behind, Silent, Calm
      <4>3. ~Ended
        BY DEF Ended
      <4> QED
        BY <3>1, <4>1, <4>2, <4>3
    <3> QED
      BY <3>2, ComingPacket
  <2>3. CASE lost = 1
    BY <2>3, AcceptedWhole DEF Trace
  <2> QED
    BY <2>1, <2>2, <2>3
<1> QED
  BY <1>1, <1>2, <1>3, Always, PTL DEF Spec
=============================================================================

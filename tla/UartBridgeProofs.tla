-------------------------- MODULE UartBridgeProofs --------------------------
(***************************************************************************)
(* Proofs about the Bluetooth bridge, for a heap of any finite number of   *)
(* buffers of any size and any number of bytes, pieces and disconnections: *)
(* where the buffers are, what they hold, and the order in which the bytes *)
(* of the UART are forwarded.                                              *)
(***************************************************************************)
EXTENDS UartBridge, SequenceLemmas, FiniteSetTheorems

Flag(p) == IF p THEN 1 ELSE 0

\* How many times the heap and the receiver have buffer b, and how many times the
\* transmitter and the threads do.
Inside(s, b) == Flag(b \in s.free) + Holds(s.buf, b) + Holds(s.next, b) + Times(s.out, b)
Outside(b) == Holds(tx.buf, b) + Holds(bt.buf, b) + Holds(ble, b) + Times(fifoTx, b)

\* What the proof needs of the types.
Fields == {"free", "data", "len", "buf", "next", "told", "on", "req", "out", "retry"}
Shape(s) ==
  /\ DOMAIN s = Fields /\ s.free \subseteq Buffers
  /\ s.buf \in NoBuf /\ s.next \in NoBuf /\ s.out \in Seq(Buffers)

-----------------------------------------------------------------------------
(* Counting.                                                                *)

LEMMA TimesType ==
  ASSUME NEW q \in Seq(Buffers), NEW b
  PROVE  /\ Times(q, b) \in Nat
         /\ IsFiniteSet({i \in DOMAIN q : q[i] = b})
<1>1. DOMAIN q = 1 .. Len(q) /\ Len(q) \in Nat
  OBVIOUS
<1>2. IsFiniteSet(1 .. Len(q))
  BY <1>1, FS_Interval
<1>3. {i \in DOMAIN q : q[i] = b} \in SUBSET (1 .. Len(q))
  BY <1>1
<1>4. IsFiniteSet({i \in DOMAIN q : q[i] = b})
  BY <1>2, <1>3, FS_Subset
<1> QED
  BY <1>4, FS_CardinalityType DEF Times

LEMMA TimesEmpty == \A b : Times(<<>>, b) = 0
<1> SUFFICES ASSUME NEW b PROVE Times(<<>>, b) = 0
  OBVIOUS
<1>1. {i \in DOMAIN <<>> : <<>>[i] = b} = {}
  OBVIOUS
<1> QED
  BY <1>1, FS_EmptySet DEF Times

LEMMA TimesAppend ==
  ASSUME NEW q \in Seq(Buffers), NEW x \in Buffers, NEW b
  PROVE  Times(Append(q, x), b) = Times(q, b) + Holds(x, b)
<1> DEFINE S == {i \in DOMAIN q : q[i] = b}
           T == {i \in DOMAIN Append(q, x) : Append(q, x)[i] = b}
           n == Len(q) + 1
<1>1. /\ DOMAIN q = 1 .. Len(q) /\ Len(q) \in Nat
      /\ DOMAIN Append(q, x) = 1 .. n
      /\ \A i \in 1 .. Len(q) : Append(q, x)[i] = q[i]
      /\ Append(q, x)[n] = x
  OBVIOUS
<1>2. \A i : i \in 1 .. n <=> i \in 1 .. Len(q) \/ i = n
  BY <1>1
<1>3. n \notin S
  BY <1>1
<1>4. T = IF x = b THEN S \cup {n} ELSE S
  BY <1>1, <1>2
<1>5. IsFiniteSet(S) /\ Cardinality(S) \in Nat
  BY TimesType DEF Times
<1>6. Cardinality(S \cup {n}) = Cardinality(S) + 1
  <2> HIDE DEF S, n
  <2> QED
    BY <1>3, <1>5, FS_AddElement
<1>7. Times(q, b) = Cardinality(S) /\ Times(Append(q, x), b) = Cardinality(T)
  BY DEF Times
<1> HIDE DEF S, T, n
<1> QED
  BY <1>4, <1>5, <1>6, <1>7 DEF Holds

LEMMA TimesTail ==
  ASSUME NEW q \in Seq(Buffers), q # <<>>, NEW b
  PROVE  Times(q, b) = Times(Tail(q), b) + Holds(Head(q), b)
<1> DEFINE S == {i \in DOMAIN q : q[i] = b}
           T == {i \in DOMAIN Tail(q) : Tail(q)[i] = b}
           f == [i \in T |-> i + 1]
<1>1. /\ DOMAIN q = 1 .. Len(q) /\ Len(q) \in Nat \ {0} /\ Tail(q) \in Seq(Buffers)
      /\ DOMAIN Tail(q) = 1 .. Len(q) - 1 /\ Head(q) = q[1]
      /\ \A i \in 1 .. Len(q) - 1 : Tail(q)[i] = q[i + 1]
  OBVIOUS
<1>2. \A i \in T : i \in 1 .. Len(q) - 1 /\ i + 1 \in S \ {1}
  BY <1>1
<1>3. \A j \in S \ {1} : j - 1 \in T /\ j = (j - 1) + 1
  BY <1>1
<1>4. ExistsBijection(T, S \ {1})
  <2>1. f \in [T -> S \ {1}]
    BY <1>2
  <2>2. \A i, j \in T : f[i] = f[j] => i = j
    BY <1>2
  <2>3. \A j \in S \ {1} : \E i \in T : f[i] = j
    <3>1. \A j \in S \ {1} : f[j - 1] = j
      BY <1>3
    <3> HIDE DEF f
    <3> QED
      BY <1>3, <3>1
  <2> HIDE DEF f, T, S
  <2> QED
    BY <2>1, <2>2, <2>3
       DEF ExistsBijection, Bijection, Injection, Surjection, IsInjective
<1>5. /\ IsFiniteSet(S) /\ Cardinality(S) \in Nat
      /\ IsFiniteSet(T) /\ Cardinality(T) \in Nat
  BY <1>1, TimesType DEF Times
<1>6. Cardinality(S \ {1}) = Cardinality(T)
  <2> HIDE DEF S, T
  <2> QED
    BY <1>4, <1>5, FS_Bijection
<1>7. Cardinality(S \ {1}) = IF 1 \in S THEN Cardinality(S) - 1 ELSE Cardinality(S)
  <2> HIDE DEF S
  <2> QED
    BY <1>5, FS_RemoveElement
<1>8. 1 \in S <=> Head(q) = b
  BY <1>1
<1>9. Times(q, b) = Cardinality(S) /\ Times(Tail(q), b) = Cardinality(T)
  BY DEF Times
<1> HIDE DEF S, T
<1> QED
  BY <1>5, <1>6, <1>7, <1>8, <1>9 DEF Holds

LEMMA InsideType ==
  ASSUME NEW s, Shape(s), NEW b
  PROVE  Inside(s, b) \in Nat /\ Times(s.out, b) \in Nat
<1>1. Times(s.out, b) \in Nat
  BY TimesType DEF Shape
<1>2. Flag(b \in s.free) \in Nat /\ Holds(s.buf, b) \in Nat /\ Holds(s.next, b) \in Nat
  BY DEF Flag, Holds
<1> QED
  BY <1>1, <1>2 DEF Inside

-----------------------------------------------------------------------------
(* The heap and the receiver.                                               *)

\* A buffer that somebody else had is freed.
LEMMA FreedGives ==
  ASSUME NEW s, Shape(s), NEW x \in Buffers, x \notin s.free
  PROVE  /\ Shape(Freed(s, x))
         /\ \A b \in Buffers : Inside(Freed(s, x), b) = Inside(s, b) + Holds(x, b)
         /\ Freed(s, x).buf = s.buf /\ Freed(s, x).next = s.next
         /\ Freed(s, x).on = s.on /\ Freed(s, x).retry = s.retry
         /\ Freed(s, x).free = s.free \cup {x}
<1> DEFINE t == Freed(s, x)
<1>1. /\ DOMAIN t = Fields /\ t.out = s.out /\ t.free = s.free \cup {x}
      /\ t.buf = s.buf /\ t.next = s.next /\ t.on = s.on /\ t.retry = s.retry
  BY DEF Shape, Fields, Freed
<1>2. \A b \in Buffers : Times(s.out, b) \in Nat
  BY InsideType
<1> HIDE DEF t
<1>3. \A b \in Buffers : Inside(t, b) = Inside(s, b) + Holds(x, b)
  BY <1>1, <1>2 DEF Inside, Flag, Holds
<1>4. Shape(t)
  BY <1>1 DEF Shape
<1> QED
  BY <1>1, <1>3, <1>4 DEF t

\* A buffer that was taken out of a receive slot is queued or freed.
LEMMA ReleasedGives ==
  ASSUME NEW s, Shape(s), NEW x \in NoBuf, x \notin s.free
  PROVE  /\ Shape(Released(s, x))
         /\ \A b \in Buffers : Inside(Released(s, x), b) = Inside(s, b) + Holds(x, b)
         /\ Released(s, x).buf = s.buf /\ Released(s, x).next = s.next
         /\ Released(s, x).on = s.on /\ Released(s, x).retry = s.retry
         /\ Released(s, x).free \subseteq s.free \cup {x}
<1> USE BridgeAssumption DEF NoBuf
<1>1. CASE x = None
  <2>1. Released(s, x) = s
    BY <1>1 DEF Released
  <2>2. \A b \in Buffers : Holds(x, b) = 0 /\ Inside(s, b) \in Nat
    BY <1>1, InsideType DEF Holds
  <2> QED
    BY <2>1, <2>2
<1>2. CASE x # None /\ s.len[x] > 0
  <2> DEFINE t == [s EXCEPT !.out = Append(@, x)]
  <2>1. Released(s, x) = t /\ x \in Buffers
    BY <1>2 DEF Released
  <2>2. /\ DOMAIN t = Fields /\ t.out = Append(s.out, x) /\ t.free = s.free
        /\ t.buf = s.buf /\ t.next = s.next /\ t.on = s.on /\ t.retry = s.retry
    BY DEF Shape, Fields
  <2>3. Append(s.out, x) \in Seq(Buffers)
    BY <2>1 DEF Shape
  <2>4. \A b \in Buffers : Times(t.out, b) = Times(s.out, b) + Holds(x, b)
    BY <2>1, <2>2, TimesAppend DEF Shape
  <2>5. \A b \in Buffers : Times(s.out, b) \in Nat
    BY InsideType
  <2> HIDE DEF t
  <2>6. \A b \in Buffers : Inside(t, b) = Inside(s, b) + Holds(x, b)
    BY <2>2, <2>4, <2>5 DEF Inside, Flag, Holds
  <2>7. Shape(t)
    BY <2>2, <2>3 DEF Shape
  <2> QED
    BY <2>1, <2>2, <2>6, <2>7
<1>3. CASE x # None /\ ~(s.len[x] > 0)
  <2>1. Released(s, x) = Freed(s, x) /\ x \in Buffers
    BY <1>3 DEF Released
  <2> QED
    BY <2>1, FreedGives
<1> QED
  BY <1>1, <1>2, <1>3

Exactly(s, t) == Shape(t) /\ \A b \in Buffers : Inside(t, b) = Inside(s, b)
Within(s, t) == Shape(t) /\ \A b \in Buffers : Inside(t, b) <= Inside(s, b)
Single(s) == \A b \in Buffers : Inside(s, b) <= 1

\* The receiver has stopped for want of a buffer.
Starved(s) == s.free = {} /\ s.buf = None /\ s.next = None /\ ~s.on

LEMMA ExactlyWithin ==
  ASSUME NEW s, Shape(s), NEW t, Exactly(s, t)
  PROVE  Within(s, t)
<1>1. \A b \in Buffers : Inside(s, b) \in Nat
  BY InsideType
<1> QED
  BY <1>1 DEF Exactly, Within

\* The receiver is started: what it still has is forgotten.
LEMMA RestartedGives ==
  ASSUME NEW s, Shape(s)
  PROVE  /\ Within(s, Restarted(s))
         /\ s.buf = None /\ s.next = None => Exactly(s, Restarted(s))
         /\ Restarted(s).retry =>
              /\ s.free = {} /\ Restarted(s).free = {}
              /\ Restarted(s).buf = s.buf /\ Restarted(s).next = s.next
              /\ Restarted(s).on = s.on
<1>1. \A b \in Buffers : Inside(s, b) \in Nat /\ Times(s.out, b) \in Nat
  BY InsideType
<1>2. CASE s.free = {}
  <2> DEFINE t == [s EXCEPT !.retry = TRUE]
  <2>1. Restarted(s) = t
    BY <1>2 DEF Restarted
  <2>2. /\ DOMAIN t = Fields /\ t.out = s.out /\ t.free = s.free
        /\ t.buf = s.buf /\ t.next = s.next /\ t.on = s.on
    BY DEF Shape, Fields
  <2> HIDE DEF t
  <2>3. Exactly(s, t)
    BY <2>2 DEF Exactly, Shape, Inside
  <2> QED
    BY <1>2, <2>1, <2>2, <2>3, ExactlyWithin
<1>3. CASE s.free # {}
  <2> DEFINE x == Malloc(s)
             t == RxEnable([Taken(s, x) EXCEPT !.retry = FALSE], x)
  <2>1. Restarted(s) = t
    BY <1>3 DEF Restarted
  <2>2. x \in s.free /\ x \in Buffers
    BY <1>3 DEF Malloc, Shape
  <2> HIDE DEF x
  <2>3. /\ DOMAIN t = Fields /\ t.out = s.out /\ t.free = s.free \ {x}
        /\ t.buf = None /\ t.next = x /\ t.retry = FALSE
    BY DEF Shape, Fields, RxEnable, Taken
  <2> HIDE DEF t
  <2>4. Shape(t)
    BY <2>2, <2>3 DEF Shape, NoBuf
  <2>5. ASSUME NEW b \in Buffers
        PROVE  Inside(t, b) + Holds(s.buf, b) + Holds(s.next, b) = Inside(s, b)
    <3>1. Holds(t.buf, b) = 0
      BY <2>3, BridgeAssumption DEF Holds
    <3>2. Flag(b \in t.free) + Holds(t.next, b) = Flag(b \in s.free)
      BY <2>2, <2>3 DEF Flag, Holds
    <3>3. /\ Holds(t.next, b) \in Nat /\ Flag(b \in t.free) \in Nat
          /\ Flag(b \in s.free) \in Nat
          /\ Holds(s.buf, b) \in Nat /\ Holds(s.next, b) \in Nat
      BY DEF Flag, Holds
    <3> QED
      BY <1>1, <2>3, <3>1, <3>2, <3>3 DEF Inside
  <2>6. \A b \in Buffers : Inside(t, b) \in Nat
    BY <2>4, InsideType
  <2>7. Within(s, t)
    BY <1>1, <2>4, <2>5, <2>6 DEF Within, Holds
  <2>8. s.buf = None /\ s.next = None => Exactly(s, t)
    BY <1>1, <2>4, <2>5, <2>6, BridgeAssumption DEF Exactly, Holds
  <2> QED
    BY <2>1, <2>3, <2>7, <2>8
<1> QED
  BY <1>2, <1>3

\* The receiver is stopped, and started again while it is wanted.
LEMMA RxDisableGives ==
  ASSUME NEW s, Shape(s), Single(s)
  PROVE  /\ Within(s, RxDisable(s))
         /\ s.buf # None => Exactly(s, RxDisable(s))
         /\ s.buf # None /\ ~s.retry /\ RxDisable(s).retry => Starved(RxDisable(s))
         /\ ~Active => ~RxDisable(s).on /\ RxDisable(s).buf = None
<1>1. \A b \in Buffers : Inside(s, b) \in Nat /\ Times(s.out, b) \in Nat
  BY InsideType
<1> DEFINE off == [s EXCEPT !.on = FALSE]
           out == [off EXCEPT !.buf = None, !.next = None, !.told = 0]
           given == Released(Released(out, s.buf), s.next)
           t == [IF s.buf = None THEN off ELSE given EXCEPT !.req = FALSE]
<1>2. RxDisable(s) = RxDisabled(t)
  BY DEF RxDisable
<1>3. CASE s.buf = None
  <2>1. /\ DOMAIN t = Fields /\ t.out = s.out /\ t.free = s.free
        /\ t.buf = s.buf /\ t.next = s.next /\ ~t.on
    BY <1>3 DEF Shape, Fields
  <2> HIDE DEF t
  <2>2. Shape(t) /\ Exactly(s, t)
    BY <2>1 DEF Exactly, Shape, Inside
  <2>3. Within(t, Restarted(t)) /\ Within(s, t)
    BY <2>2, RestartedGives, ExactlyWithin
  <2>4. Within(s, Restarted(t))
    BY <2>2, <2>3 DEF Exactly, Within
  <2> QED
    BY <1>2, <1>3, <2>1, <2>3, <2>4 DEF RxDisabled
<1>4. CASE s.buf # None
  <2>1. /\ DOMAIN out = Fields /\ out.out = s.out /\ out.free = s.free
        /\ out.buf = None /\ out.next = None /\ ~out.on /\ out.retry = s.retry
    BY DEF Shape, Fields
  <2> DEFINE one == Released(out, s.buf)
  <2> HIDE DEF out
  <2>2. s.buf \in Buffers /\ s.buf \notin s.free /\ s.buf # s.next
    <3>1. s.buf \in Buffers
      BY <1>4 DEF Shape, NoBuf
    <3>2. /\ Holds(s.buf, s.buf) = 1 /\ Inside(s, s.buf) <= 1
          /\ Flag(s.buf \in s.free) \in Nat /\ Holds(s.next, s.buf) \in Nat
      BY <3>1 DEF Holds, Flag, Single
    <3>3. Flag(s.buf \in s.free) = 0 /\ Holds(s.next, s.buf) = 0
      BY <1>1, <3>1, <3>2 DEF Inside
    <3> QED
      BY <3>1, <3>3 DEF Flag, Holds
  <2>3. s.next \notin s.free
    <3>1. CASE s.next = None
      BY <3>1, BridgeAssumption DEF Shape
    <3>2. CASE s.next # None
      <4>1. s.next \in Buffers
        BY <3>2 DEF Shape, NoBuf
      <4>2. /\ Holds(s.next, s.next) = 1 /\ Inside(s, s.next) <= 1
            /\ Flag(s.next \in s.free) \in Nat /\ Holds(s.buf, s.next) \in Nat
        BY <4>1 DEF Holds, Flag, Single
      <4>3. Flag(s.next \in s.free) = 0
        BY <1>1, <4>1, <4>2 DEF Inside
      <4> QED
        BY <4>3 DEF Flag
    <3> QED
      BY <3>1, <3>2
  <2>4. Shape(out)
    BY <2>1 DEF Shape, NoBuf
  <2>5. \A b \in Buffers : Inside(out, b) + Holds(s.buf, b) + Holds(s.next, b) = Inside(s, b)
    <3>1. \A b \in Buffers : Holds(None, b) = 0
      BY BridgeAssumption DEF Holds
    <3>2. \A b \in Buffers : /\ Flag(b \in s.free) \in Nat /\ Holds(s.buf, b) \in Nat
                             /\ Holds(s.next, b) \in Nat
      BY DEF Flag, Holds
    <3> QED
      BY <1>1, <2>1, <3>1, <3>2 DEF Inside
  <2>6. /\ Shape(one)
        /\ \A b \in Buffers : Inside(one, b) = Inside(out, b) + Holds(s.buf, b)
        /\ one.buf = None /\ one.next = None /\ ~one.on /\ one.retry = s.retry
        /\ one.free \subseteq s.free \cup {s.buf}
    BY <2>1, <2>2, <2>4, ReleasedGives DEF Shape
  <2>7. s.next \notin one.free
    BY <2>2, <2>3, <2>6
  <2> HIDE DEF one
  <2>8. /\ Shape(given)
        /\ \A b \in Buffers : Inside(given, b) = Inside(one, b) + Holds(s.next, b)
        /\ given.buf = None /\ given.next = None /\ ~given.on /\ given.retry = s.retry
    BY <2>6, <2>7, ReleasedGives DEF Shape, one
  <2> HIDE DEF given
  <2>9. /\ DOMAIN t = Fields /\ t.out = given.out /\ t.free = given.free
        /\ t.buf = None /\ t.next = None /\ ~t.on /\ t.retry = s.retry
    BY <1>4, <2>8 DEF Shape, Fields
  <2> HIDE DEF t
  <2>10. Shape(t) /\ \A b \in Buffers : Inside(t, b) = Inside(given, b)
    BY <2>8, <2>9 DEF Shape, Inside
  <2>11. Exactly(s, t)
    <3>1. \A b \in Buffers : /\ Inside(out, b) \in Nat /\ Holds(s.buf, b) \in Nat
                             /\ Holds(s.next, b) \in Nat
      BY <2>4, InsideType DEF Holds
    <3> QED
      BY <2>5, <2>6, <2>8, <2>10, <3>1 DEF Exactly
  <2>12. Exactly(t, Restarted(t))
    BY <2>9, <2>10, RestartedGives
  <2>13. Exactly(s, Restarted(t))
    BY <2>11, <2>12 DEF Exactly
  <2>14. Restarted(t).retry => Starved(Restarted(t))
    BY <2>9, <2>10, RestartedGives DEF Starved
  <2> QED
    BY <1>2, <1>4, <2>9, <2>11, <2>13, <2>14, ExactlyWithin DEF RxDisabled
<1> QED
  BY <1>3, <1>4

\* A notification moves no buffer, except that the receiver may be stopped.
LEMMA NotifyGives ==
  ASSUME NEW s, Shape(s), Single(s)
  PROVE  /\ Exactly(s, Notify(s))
         /\ s.buf = None => Notify(s) = s
         /\ ~s.retry /\ Notify(s).retry => Starved(Notify(s))
<1>1. CASE s.buf = None \/ Len(s.data[s.buf]) = s.told
  BY <1>1 DEF Notify, Exactly
<1>2. CASE ~(s.buf = None \/ Len(s.data[s.buf]) = s.told)
  <2> DEFINE all == Len(s.data[s.buf])
             ready == [s EXCEPT !.told = all, !.len[s.buf] = @ + all - s.told]
             asked == [ready EXCEPT !.req = TRUE]
  <2>1. Notify(s) = IF ~s.req /\ s.data[s.buf][ready.len[s.buf]] \in eol
                    THEN RxDisable(asked) ELSE ready
    BY <1>2 DEF Notify
  <2>2. /\ DOMAIN ready = Fields /\ ready.out = s.out /\ ready.free = s.free
        /\ ready.buf = s.buf /\ ready.next = s.next /\ ready.on = s.on
        /\ ready.retry = s.retry
    BY DEF Shape, Fields
  <2>3. /\ DOMAIN asked = Fields /\ asked.out = s.out /\ asked.free = s.free
        /\ asked.buf = s.buf /\ asked.next = s.next /\ asked.on = s.on
        /\ asked.retry = s.retry
    BY <2>2 DEF Shape, Fields
  <2> HIDE DEF ready, asked
  <2>4. Exactly(s, ready)
    BY <2>2 DEF Exactly, Shape, Inside
  <2>5. Shape(asked) /\ Single(asked) /\ Exactly(s, asked)
    BY <2>3 DEF Exactly, Shape, Inside, Single
  <2>6. /\ Exactly(asked, RxDisable(asked))
        /\ ~s.retry /\ RxDisable(asked).retry => Starved(RxDisable(asked))
    BY <1>2, <2>3, <2>5, RxDisableGives
  <2>7. Exactly(s, RxDisable(asked))
    BY <2>5, <2>6 DEF Exactly
  <2> QED
    BY <1>2, <2>1, <2>2, <2>4, <2>6, <2>7
<1> QED
  BY <1>1, <1>2

\* The next buffer becomes the current one, and a new next one is asked for.
LEMMA SwitchGives ==
  ASSUME NEW s, Shape(s), Single(s)
  PROVE  /\ Exactly(s, Switch(s))
         /\ Switch(s).retry = s.retry
         /\ Starved(s) => Starved(Switch(s))
<1> DEFINE moved == [s EXCEPT !.buf = s.next, !.next = None, !.told = 0]
           t == Released(moved, s.buf)
<1>1. Switch(s) = Requested(t)
  BY DEF Switch
<1>2. /\ DOMAIN moved = Fields /\ moved.out = s.out /\ moved.free = s.free
      /\ moved.buf = s.next /\ moved.next = None /\ moved.on = s.on
      /\ moved.retry = s.retry
  BY DEF Shape, Fields
<1> HIDE DEF moved
<1>3. /\ \A b \in Buffers : Inside(s, b) \in Nat /\ Times(s.out, b) \in Nat
      /\ \A b \in Buffers : /\ Flag(b \in s.free) \in Nat /\ Holds(s.buf, b) \in Nat
                            /\ Holds(s.next, b) \in Nat
      /\ \A b \in Buffers : Holds(None, b) = 0
  BY InsideType, BridgeAssumption DEF Flag, Holds
<1>4. /\ Shape(moved)
      /\ \A b \in Buffers : Inside(moved, b) + Holds(s.buf, b) = Inside(s, b)
  <2>1. Shape(moved)
    BY <1>2 DEF Shape, NoBuf
  <2>2. \A b \in Buffers : Holds(moved.next, b) = 0 /\ Holds(moved.buf, b) = Holds(s.next, b)
    BY <1>2, <1>3
  <2> QED
    BY <1>2, <1>3, <2>1, <2>2 DEF Inside
<1>5. s.buf \notin s.free
  <2>1. CASE s.buf = None
    BY <2>1, BridgeAssumption DEF Shape
  <2>2. CASE s.buf # None
    <3>1. s.buf \in Buffers
      BY <2>2 DEF Shape, NoBuf
    <3>2. Holds(s.buf, s.buf) = 1 /\ Inside(s, s.buf) <= 1
      BY <3>1 DEF Holds, Single
    <3>3. Flag(s.buf \in s.free) = 0
      BY <1>3, <3>1, <3>2 DEF Inside
    <3> QED
      BY <3>3 DEF Flag
  <2> QED
    BY <2>1, <2>2
<1>6. /\ Shape(t) /\ \A b \in Buffers : Inside(t, b) = Inside(moved, b) + Holds(s.buf, b)
      /\ t.buf = s.next /\ t.next = None /\ t.on = s.on /\ t.retry = s.retry
      /\ t.free \subseteq s.free \cup {s.buf} /\ (s.buf = None => t = moved)
  BY <1>2, <1>4, <1>5, ReleasedGives DEF Shape, Released
<1> HIDE DEF t
<1>7. Exactly(s, t) /\ Single(t)
  <2>1. \A b \in Buffers : Inside(t, b) = Inside(s, b)
    BY <1>3, <1>4, <1>6
  <2> QED
    BY <1>6, <2>1 DEF Exactly, Single
<1>8. CASE t.free = {}
  <2>1. Switch(s) = t
    BY <1>1, <1>8 DEF Requested
  <2>2. Starved(s) => Starved(t)
    BY <1>6, <1>8 DEF Starved
  <2> QED
    BY <1>6, <1>7, <2>1, <2>2
<1>9. CASE t.free # {}
  <2> DEFINE x == Malloc(t)
             u == [Taken(t, x) EXCEPT !.next = x]
  <2>1. Switch(s) = u
    BY <1>1, <1>6, <1>9 DEF Requested
  <2>2. x \in t.free /\ x \in Buffers
    BY <1>6, <1>9 DEF Malloc, Shape
  <2> HIDE DEF x
  <2>3. /\ DOMAIN u = Fields /\ u.out = t.out /\ u.free = t.free \ {x}
        /\ u.buf = t.buf /\ u.next = x /\ u.on = t.on /\ u.retry = t.retry
    BY <1>6 DEF Shape, Fields, Taken
  <2> HIDE DEF u
  <2>4. ASSUME NEW b \in Buffers PROVE Inside(u, b) = Inside(t, b)
    <3>1. Flag(b \in u.free) + Holds(u.next, b) = Flag(b \in t.free)
      BY <2>2, <2>3 DEF Flag, Holds
    <3>2. /\ Holds(t.next, b) = 0 /\ Times(t.out, b) \in Nat
          /\ Flag(b \in u.free) \in Nat /\ Holds(u.next, b) \in Nat
          /\ Holds(t.buf, b) \in Nat
      BY <1>3, <1>6, InsideType DEF Flag, Holds
    <3> QED
      BY <2>3, <3>1, <3>2 DEF Inside
  <2>5. Shape(u)
    BY <1>6, <2>2, <2>3 DEF Shape, NoBuf
  <2>6. ~Starved(s)
    BY <1>2, <1>6, <1>9 DEF Starved
  <2> QED
    BY <1>6, <1>7, <2>1, <2>3, <2>4, <2>5, <2>6 DEF Exactly
<1> QED
  BY <1>8, <1>9

-----------------------------------------------------------------------------
(* The invariant.                                                           *)

\* Whoever is in the middle of something has a buffer for it.
Placed ==
  /\ Shape(m)
  /\ tx \in [buf : NoBuf, left : Int, on : BOOLEAN] /\ (tx.on => tx.buf # None)
  /\ bt \in [pc : {"idle", "alloc", "send", "enable", "put"}, buf : NoBuf, todo : Int]
  /\ bt.pc \in {"send", "put"} <=> bt.buf # None
  /\ ble \in NoBuf /\ fifoTx \in Seq(Buffers)

\* The interrupt handler is not in its loop while the UART is suspended.
Powered ==
  /\ kind \in {"always", "power"} /\ pw \in {"boot", "off", "enable", "on", "disable"}
  /\ kind = "always" => pw = "on"
  /\ pw \in {"boot", "off"} => ~inRx

\* In the bridge that is always on, the receiver that waits to be started again has
\* nothing that starting it could make it forget.
Restartable ==
  kind = "always" =>
    /\ m.retry => m.buf = None /\ m.next = None /\ ~m.on /\ ~inRx
    /\ inRx => m.buf # None

\* OneOwner, with the owners summed up.
Counted ==
  \A b \in Buffers :
    Inside(m, b) + Outside(b) \in IF kind = "always" THEN {1} ELSE {0, 1}

Inv == Placed /\ Powered /\ Restartable /\ Counted /\ OffWithoutPeer /\ TransmitterDriven

LEMMA OutsideType ==
  ASSUME Placed, NEW b PROVE Outside(b) \in Nat
<1>1. Times(fifoTx, b) \in Nat
  BY TimesType DEF Placed
<1> QED
  BY <1>1 DEF Outside, Holds

LEMMA Owned ==
  ASSUME Placed, Counted, NEW b \in Buffers, Outside(b) > 0
  PROVE  b \notin m.free
<1>1. /\ Outside(b) \in Nat /\ Times(m.out, b) \in Nat
      /\ Inside(m, b) + Outside(b) \in {0, 1} /\ Inside(m, b) \in Nat
  BY OutsideType, InsideType DEF Counted, Placed
<1>2. Inside(m, b) = 0
  BY <1>1
<1>3. /\ Flag(b \in m.free) \in Nat /\ Holds(m.buf, b) \in Nat /\ Holds(m.next, b) \in Nat
  BY DEF Flag, Holds
<1>4. Flag(b \in m.free) = 0
  BY <1>1, <1>2, <1>3 DEF Inside
<1> QED
  BY <1>4 DEF Flag

LEMMA MemorySingle == Placed /\ Counted => Single(m)
<1> SUFFICES ASSUME Placed, Counted, NEW b \in Buffers PROVE Inside(m, b) <= 1
  BY DEF Single
<1>1. Inside(m, b) \in Nat /\ Outside(b) \in Nat
  BY InsideType, OutsideType DEF Placed
<1>2. Inside(m, b) + Outside(b) \in {0, 1}
  BY DEF Counted
<1> QED
  BY <1>1, <1>2

LEMMA InvOneOwner == Inv => OneOwner
<1> SUFFICES ASSUME Inv, NEW b \in Buffers
             PROVE  IF b \in m.free THEN Holders(b) = 0
                    ELSE Holders(b) \in IF kind = "always" THEN {1} ELSE {0, 1}
  BY DEF OneOwner
<1>1. /\ Times(m.out, b) \in Nat /\ Times(fifoTx, b) \in Nat
      /\ Holds(m.buf, b) \in Nat /\ Holds(m.next, b) \in Nat /\ Holds(tx.buf, b) \in Nat
      /\ Holds(bt.buf, b) \in Nat /\ Holds(ble, b) \in Nat
  BY TimesType DEF Inv, Placed, Shape, Holds
<1>2. Flag(b \in m.free) + Holders(b) = Inside(m, b) + Outside(b) /\ Holders(b) \in Nat
  BY <1>1 DEF Inside, Outside, Holders, Flag
<1>3. Inside(m, b) + Outside(b) \in IF kind = "always" THEN {1} ELSE {0, 1}
  BY DEF Inv, Counted
<1> QED
  BY <1>2, <1>3 DEF Flag

LEMMA InitInv == Init => Inv
<1> SUFFICES ASSUME Init PROVE Inv
  OBVIOUS
<1> DEFINE t == CHOOSE b \in Buffers : TRUE
           r == CHOOSE b \in Buffers \ {t} : TRUE
<1>1. t \in Buffers /\ r \in Buffers /\ t # r
  <2>1. Buffers # {} /\ Buffers \ {t} # {}
    <3>1. Cardinality(Buffers) >= 2 /\ IsFiniteSet(Buffers) /\ Cardinality(Buffers) \in Nat
      BY BridgeAssumption, FS_CardinalityType
    <3>2. ASSUME Buffers \ {t} = {} PROVE FALSE
      <4>1. Cardinality(Buffers \ {t}) = 0
        BY <3>2, FS_EmptySet
      <4>2. Cardinality(Buffers \ {t}) >= Cardinality(Buffers) - 1
        <5> HIDE DEF t
        <5> QED
          BY <3>1, FS_RemoveElement
      <4> QED
        BY <3>1, <4>1, <4>2
    <3>3. Buffers # {}
      BY <3>1, FS_EmptySet
    <3> QED
      BY <3>2, <3>3
  <2> QED
    BY <2>1
<1>2. /\ m = [free |-> Buffers \ {t, r},
              data |-> [b \in Buffers |-> IF b = t THEN <<0>> ELSE <<>>],
              len |-> [b \in Buffers |-> IF b = t THEN 1 ELSE 0],
              buf |-> None, next |-> IF kind = "always" THEN r ELSE None, told |-> 0,
              on |-> kind = "always", req |-> FALSE, out |-> <<>>, retry |-> FALSE]
      /\ tx = [buf |-> t, left |-> TxSize, on |-> TRUE]
      /\ fifoTx = <<>> /\ bt = [pc |-> "idle", buf |-> None, todo |-> 0] /\ ble = None
      /\ inRx = FALSE /\ txIrq = TRUE
      /\ pw = (IF kind = "always" THEN "on" ELSE "boot") /\ kind \in {"always", "power"}
  BY BridgeAssumption DEF Init
<1> HIDE DEF t, r
<1>3. /\ DOMAIN m = Fields /\ m.free = Buffers \ {t, r} /\ m.out = <<>> /\ m.buf = None
      /\ m.next = (IF kind = "always" THEN r ELSE None) /\ m.retry = FALSE
      /\ m.on = (kind = "always")
  BY <1>2 DEF Fields
<1>4. Placed
  BY <1>1, <1>2, <1>3, BridgeAssumption DEF Placed, Shape, NoBuf
<1>5. Counted
  <2> SUFFICES ASSUME NEW b \in Buffers
               PROVE  Inside(m, b) + Outside(b) \in IF kind = "always" THEN {1} ELSE {0, 1}
    BY DEF Counted
  <2>1. Times(m.out, b) = 0 /\ Times(fifoTx, b) = 0 /\ Holds(None, b) = 0
    BY <1>2, <1>3, TimesEmpty, BridgeAssumption DEF Holds
  <2>2. Outside(b) = Holds(t, b)
    BY <1>2, <2>1 DEF Outside, Holds
  <2>3. Inside(m, b) = Flag(b \in m.free) + Holds(m.next, b)
    BY <1>3, <2>1 DEF Inside, Flag, Holds
  <2> QED
    BY <1>1, <1>3, <2>2, <2>3, BridgeAssumption DEF Flag, Holds
<1>6. Powered /\ Restartable /\ OffWithoutPeer /\ TransmitterDriven
  BY <1>2, <1>3 DEF Powered, Restartable, OffWithoutPeer, TransmitterDriven, Active
<1> QED
  BY <1>4, <1>5, <1>6 DEF Inv

-----------------------------------------------------------------------------
(* The steps.                                                               *)

\* A step of the receiver leaves the other owners alone.
LEMMA ReceiverCounts ==
  ASSUME Placed, Counted, Powered, Within(m, m'), kind = "always" => Exactly(m, m'),
         UNCHANGED <<kind, txVars, btVars, bleVars>>
  PROVE  Counted' /\ Placed'
<1>1. Shape(m') /\ Placed'
  BY DEF Within, Placed, txVars, btVars, bleVars
<1>2. ASSUME NEW b \in Buffers
      PROVE  Inside(m', b) + Outside(b)' \in IF kind' = "always" THEN {1} ELSE {0, 1}
  <2>1. Outside(b)' = Outside(b) /\ Outside(b) \in Nat
    BY OutsideType DEF Outside, txVars, btVars, bleVars
  <2>2. Inside(m, b) \in Nat /\ Inside(m', b) \in Nat
    BY <1>1, InsideType DEF Placed
  <2>3. /\ Inside(m', b) <= Inside(m, b)
        /\ kind = "always" => Inside(m', b) = Inside(m, b)
        /\ Inside(m, b) + Outside(b) \in IF kind = "always" THEN {1} ELSE {0, 1}
        /\ kind' = kind
    BY DEF Within, Exactly, Counted
  <2> QED
    BY <2>1, <2>2, <2>3
<1>3. Counted'
  BY <1>2 DEF Counted
<1> QED
  BY <1>1, <1>3

LEMMA RxReadyInv ==
  ASSUME Inv, RxReady PROVE Inv'
<1> USE DEF Inv
<1> DEFINE s == IF Room(m) = 0 THEN Switch(Notify(m)) ELSE m
<1>1. /\ UNCHANGED <<kind, pw, txVars, btVars, bleVars>> /\ (inRx \/ m.on)
      /\ pw \notin {"boot", "off"}
  BY DEF RxReady, pwVars, Powered, OffWithoutPeer, Active
<1>2. kind = "always" => ~m.retry
  BY <1>1 DEF Restartable
<1>3. Exactly(m, s) /\ (~m.retry /\ s.retry => Starved(s))
  <2>1. CASE Room(m) = 0
    <3>1. Shape(m) /\ Single(m)
      BY MemorySingle DEF Placed
    <3> DEFINE n == Notify(m)
    <3>2. /\ Exactly(m, n) /\ (~m.retry /\ n.retry => Starved(n))
      BY <3>1, NotifyGives
    <3> HIDE DEF n
    <3>3. Shape(n) /\ Single(n)
      BY <3>1, <3>2 DEF Exactly, Single
    <3>4. /\ Exactly(n, Switch(n)) /\ Switch(n).retry = n.retry
          /\ Starved(n) => Starved(Switch(n))
      BY <3>3, SwitchGives
    <3>5. Exactly(m, Switch(n))
      BY <3>2, <3>4 DEF Exactly
    <3> QED
      BY <2>1, <3>2, <3>4, <3>5 DEF n
  <2>2. CASE Room(m) # 0
    BY <2>2 DEF Exactly, Placed
  <2> QED
    BY <2>1, <2>2
<1>4. /\ DOMAIN m' = Fields /\ m'.free = s.free /\ m'.buf = s.buf /\ m'.next = s.next
      /\ m'.out = s.out /\ m'.retry = s.retry /\ m'.on = s.on
      /\ inRx' => s.buf # None
  <2> DEFINE n == IF Room(s) < Len(hw) THEN Room(s) ELSE Len(hw)
  <2>1. /\ inRx' = (Room(s) # 0 /\ hw # <<>>)
        /\ \/ m' = s
           \/ m' = [s EXCEPT !.data[s.buf] = @ \o SubSeq(hw, 1, n)]
    BY DEF RxReady
  <2>2. s.buf = None => Room(s) = 0
    BY DEF Room
  <2>3. DOMAIN s = Fields
    BY <1>3 DEF Exactly, Shape
  <2>4. inRx' => s.buf # None
    BY <2>1, <2>2
  <2> HIDE DEF s, n
  <2> QED
    BY <2>1, <2>3, <2>4 DEF Fields
<1> HIDE DEF s
<1>5. Exactly(m, m')
  BY <1>3, <1>4 DEF Exactly, Shape, Inside
<1>6. Counted' /\ Placed'
  BY <1>1, <1>5, ReceiverCounts, ExactlyWithin DEF Placed
<1>7. Restartable'
  <2> SUFFICES ASSUME kind = "always"
               PROVE  /\ m'.retry => m'.buf = None /\ m'.next = None /\ ~m'.on /\ ~inRx'
                      /\ inRx' => m'.buf # None
    BY <1>1 DEF Restartable
  <2>1. s.retry => Starved(s)
    BY <1>2, <1>3
  <2> QED
    BY <1>4, <2>1 DEF Starved
<1>8. Powered' /\ OffWithoutPeer' /\ TransmitterDriven'
  BY <1>1 DEF Powered, OffWithoutPeer, TransmitterDriven, Active, txVars, btVars
<1> QED
  BY <1>6, <1>7, <1>8

\* The timer of the receiver, the work item and the switching on and off.
LEMMA RxOtherInv ==
  ASSUME Inv, RxTimeout \/ UartWork \/ UartDisable \/ UartEnable \/ UartByte
  PROVE  Inv'
<1> USE DEF Inv
<1>1. Shape(m) /\ Single(m)
  BY MemorySingle DEF Placed
<1>2. CASE UartByte
  <2>1. UNCHANGED <<kind, pw, m, inRx, tx, txIrq, fifoTx, bt, ble>>
    BY <1>2 DEF UartByte, pwVars, txVars, btVars, bleVars
  <2>2. Placed' /\ Powered' /\ Restartable' /\ OffWithoutPeer' /\ TransmitterDriven'
    BY <2>1 DEF Placed, Powered, Restartable, OffWithoutPeer, TransmitterDriven, Active
  <2>3. Counted'
    BY <2>1 DEF Counted, Outside
  <2> QED
    BY <2>2, <2>3
<1>3. CASE RxTimeout
  <2>1. UNCHANGED <<kind, pw, inRx, txVars, btVars, bleVars>> /\ m' = Notify(m) /\ ~inRx
    BY <1>3 DEF RxTimeout, pwVars
  <2>2. /\ Exactly(m, m') /\ (m.buf = None => m' = m)
        /\ ~m.retry /\ m'.retry => Starved(m')
    BY <1>1, <2>1, NotifyGives
  <2>3. Counted' /\ Placed'
    BY <1>1, <2>1, <2>2, ReceiverCounts, ExactlyWithin
  <2>4. Powered' /\ TransmitterDriven' /\ OffWithoutPeer'
    BY <2>1, <2>2 DEF Powered, TransmitterDriven, OffWithoutPeer, Active, txVars, btVars
  <2>5. Restartable'
    BY <2>1, <2>2 DEF Restartable, Starved
  <2> QED
    BY <2>3, <2>4, <2>5
<1>4. CASE UartWork
  <2>1. UNCHANGED <<kind, pw, inRx, txVars, btVars, bleVars>> /\ m.retry /\ ~inRx
    BY <1>4 DEF UartWork, pwVars, rxVars
  <2>2. CASE Active
    <3>1. m' = Restarted(m)
      BY <1>4, <2>2 DEF UartWork
    <3>2. /\ Within(m, m') /\ (m.buf = None /\ m.next = None => Exactly(m, m'))
          /\ m'.retry => m'.buf = m.buf /\ m'.next = m.next /\ m'.on = m.on
      BY <1>1, <3>1, RestartedGives
    <3>3. kind = "always" => m.buf = None /\ m.next = None /\ ~m.on
      BY <2>1 DEF Restartable
    <3>4. Counted' /\ Placed'
      BY <2>1, <3>2, <3>3, ReceiverCounts
    <3>5. Powered' /\ TransmitterDriven' /\ OffWithoutPeer'
      BY <2>1, <2>2 DEF Powered, TransmitterDriven, OffWithoutPeer, Active, txVars, btVars
    <3>6. Restartable'
      BY <2>1, <3>2, <3>3 DEF Restartable
    <3> QED
      BY <3>4, <3>5, <3>6
  <2>3. CASE ~Active
    <3>1. m' = [m EXCEPT !.retry = FALSE] /\ kind # "always"
      BY <1>4, <2>3 DEF UartWork, Powered, Active
    <3>2. /\ DOMAIN m' = Fields /\ m'.free = m.free /\ m'.buf = m.buf /\ m'.next = m.next
          /\ m'.out = m.out /\ m'.on = m.on
      BY <3>1 DEF Placed, Shape, Fields
    <3>3. Exactly(m, m')
      BY <3>2 DEF Exactly, Shape, Inside, Placed
    <3>4. Counted' /\ Placed'
      BY <1>1, <2>1, <3>3, ReceiverCounts, ExactlyWithin
    <3>5. Powered' /\ TransmitterDriven' /\ OffWithoutPeer' /\ Restartable'
      BY <2>1, <3>1, <3>2
         DEF Powered, TransmitterDriven, OffWithoutPeer, Restartable, Active, txVars, btVars
    <3> QED
      BY <3>4, <3>5
  <2> QED
    BY <2>2, <2>3
<1>5. CASE UartDisable
  <2>1. /\ UNCHANGED <<kind, inRx, txVars, btVars, bleVars>>
        /\ pw = "disable" /\ ~inRx /\ pw' = "off" /\ m' = RxDisable(m)
        /\ kind # "always" /\ ~Active
    BY <1>5 DEF UartDisable, Powered, Active
  <2>2. Within(m, m') /\ ~m'.on /\ m'.buf = None
    BY <1>1, <2>1, RxDisableGives
  <2>3. Counted' /\ Placed'
    BY <2>1, <2>2, ReceiverCounts
  <2>4. Powered' /\ TransmitterDriven' /\ OffWithoutPeer' /\ Restartable'
    BY <2>1, <2>2
       DEF Powered, TransmitterDriven, OffWithoutPeer, Restartable, txVars, btVars
  <2> QED
    BY <2>3, <2>4
<1>6. CASE UartEnable
  <2>1. /\ UNCHANGED <<kind, inRx, txVars, btVars, bleVars>>
        /\ pw = "enable" /\ ~inRx /\ pw' = "on" /\ m' = Restarted(m)
        /\ kind # "always"
    BY <1>6 DEF UartEnable, Powered, rxVars
  <2>2. Within(m, m')
    BY <1>1, <2>1, RestartedGives
  <2>3. Counted' /\ Placed'
    BY <2>1, <2>2, ReceiverCounts
  <2>4. Powered' /\ TransmitterDriven' /\ OffWithoutPeer' /\ Restartable'
    BY <2>1
       DEF Powered, TransmitterDriven, OffWithoutPeer, Restartable, Active, txVars, btVars
  <2> QED
    BY <2>3, <2>4
<1> QED
  BY <1>2, <1>3, <1>4, <1>5, <1>6

\* The transmitter.
LEMMA TxInv ==
  ASSUME Inv, TxReady \/ TxComplete PROVE Inv'
<1> USE DEF Inv
<1>1. CASE TxReady
  <2>1. /\ UNCHANGED <<kind, pw, m, inRx, txIrq, fifoTx, bt, ble>>
        /\ \E n \in 1 .. tx.left : tx' = [tx EXCEPT !.left = @ - n]
    BY <1>1 DEF TxReady, pwVars, rxVars, btVars, bleVars
  <2>2. /\ tx' \in [buf : NoBuf, left : Int, on : BOOLEAN]
        /\ tx'.buf = tx.buf /\ tx'.on = tx.on
    BY <2>1 DEF Placed
  <2>3. Placed' /\ Powered' /\ Restartable' /\ OffWithoutPeer' /\ TransmitterDriven'
    BY <2>1, <2>2
       DEF Placed, Powered, Restartable, OffWithoutPeer, TransmitterDriven, Active
  <2>4. Counted'
    BY <2>1, <2>2 DEF Counted, Outside
  <2> QED
    BY <2>3, <2>4
<1>2. CASE TxComplete
  <2>1. /\ UNCHANGED <<kind, pw, inRx, bt, ble>> /\ m' = Freed(m, tx.buf) /\ TxNext
        /\ tx.buf \in Buffers
    BY <1>2 DEF TxComplete, TxFreed, pwVars, rxVars, btVars, bleVars, Placed, NoBuf
  <2>2. tx.buf \notin m.free
    <3>1. /\ Times(fifoTx, tx.buf) \in Nat /\ Holds(tx.buf, tx.buf) = 1
          /\ Holds(bt.buf, tx.buf) \in Nat /\ Holds(ble, tx.buf) \in Nat
      BY TimesType DEF Placed, Holds
    <3>2. Outside(tx.buf) > 0
      BY <3>1 DEF Outside
    <3> QED
      BY <2>1, <3>2, Owned
  <2>3. /\ Shape(m')
        /\ \A b \in Buffers : Inside(m', b) = Inside(m, b) + Holds(tx.buf, b)
        /\ m'.buf = m.buf /\ m'.next = m.next /\ m'.on = m.on /\ m'.retry = m.retry
    BY <2>1, <2>2, FreedGives DEF Placed
  <2>4. /\ tx' \in [buf : NoBuf, left : Int, on : BOOLEAN] /\ (tx'.on => tx'.buf # None)
        /\ fifoTx' \in Seq(Buffers) /\ (tx'.buf # None => txIrq')
        /\ \A b \in Buffers : Holds(tx'.buf, b) + Times(fifoTx', b) = Times(fifoTx, b)
    <3>1. CASE fifoTx = <<>>
      <4>1. tx' = [buf |-> None, left |-> 0, on |-> FALSE] /\ fifoTx' = fifoTx
        BY <2>1, <3>1 DEF TxNext
      <4>2. \A b \in Buffers : Holds(None, b) = 0 /\ Times(fifoTx, b) = 0
        BY <3>1, TimesEmpty, BridgeAssumption DEF Holds
      <4> QED
        BY <4>1, <4>2 DEF Placed, NoBuf
    <3>2. CASE fifoTx # <<>>
      <4>1. tx' = Sending(Head(fifoTx)) /\ txIrq' = TRUE /\ fifoTx' = Tail(fifoTx)
        BY <2>1, <3>2 DEF TxNext
      <4>2. Head(fifoTx) \in Buffers /\ Tail(fifoTx) \in Seq(Buffers)
        BY <3>2 DEF Placed
      <4>3. \A b \in Buffers : Times(fifoTx, b) = Times(Tail(fifoTx), b) + Holds(Head(fifoTx), b)
        BY <3>2, TimesTail DEF Placed
      <4>4. \A b \in Buffers : Times(Tail(fifoTx), b) \in Nat /\ Holds(Head(fifoTx), b) \in Nat
        BY <4>2, TimesType DEF Holds
      <4> QED
        BY <4>1, <4>2, <4>3, <4>4, BridgeAssumption DEF Sending, NoBuf
    <3> QED
      BY <3>1, <3>2
  <2>5. ASSUME NEW b \in Buffers
        PROVE  Inside(m', b) + Outside(b)' = Inside(m, b) + Outside(b)
    <3>1. /\ Holds(tx.buf, b) \in Nat /\ Holds(bt.buf, b) \in Nat /\ Holds(ble, b) \in Nat
          /\ Times(fifoTx, b) \in Nat /\ Holds(tx'.buf, b) \in Nat
          /\ Times(fifoTx', b) \in Nat /\ Inside(m, b) \in Nat
      BY <2>4, TimesType, InsideType DEF Placed, Holds
    <3> QED
      BY <2>1, <2>3, <2>4, <3>1 DEF Outside
  <2>6. Counted'
    BY <2>1, <2>5 DEF Counted
  <2>7. Placed' /\ Powered' /\ Restartable' /\ OffWithoutPeer' /\ TransmitterDriven'
    BY <2>1, <2>3, <2>4
       DEF Placed, Powered, Restartable, OffWithoutPeer, TransmitterDriven, Active
  <2> QED
    BY <2>6, <2>7
<1> QED
  BY <1>1, <1>2

\* The data of the peer.
LEMMA BtInv ==
  ASSUME Inv, Bt \/ \E n \in 1 .. MaxPieces : BtReceive(n) PROVE Inv'
<1> USE DEF Inv
<1>1. /\ \A b \in Buffers : /\ Holds(tx.buf, b) \in Nat /\ Holds(bt.buf, b) \in Nat
                            /\ Holds(ble, b) \in Nat /\ Times(fifoTx, b) \in Nat
                            /\ Inside(m, b) \in Nat /\ Times(m.out, b) \in Nat
                            /\ Holds(None, b) = 0
  BY TimesType, InsideType, BridgeAssumption DEF Placed, Holds
<1>2. CASE \E n \in 1 .. MaxPieces : BtReceive(n)
  <2>1. PICK n \in 1 .. MaxPieces : BtReceive(n)
    BY <1>2
  <2>2. /\ UNCHANGED <<kind, pw, m, inRx, tx, txIrq, fifoTx, ble>>
        /\ bt.pc = "idle" /\ bt' = [pc |-> "alloc", buf |-> None, todo |-> n]
    BY <2>1 DEF BtReceive, pwVars, rxVars, txVars, bleVars
  <2>3. bt.buf = None
    BY <2>2 DEF Placed
  <2>4. Placed' /\ Powered' /\ Restartable' /\ OffWithoutPeer' /\ TransmitterDriven'
    BY <2>2 DEF Placed, Powered, Restartable, OffWithoutPeer, TransmitterDriven, Active,
                NoBuf
  <2>5. Counted'
    BY <2>2, <2>3 DEF Counted, Outside
  <2> QED
    BY <2>4, <2>5
<1>3. CASE BtAlloc
  <2>1. UNCHANGED <<kind, pw, inRx, tx, txIrq, fifoTx, ble>> /\ bt.pc = "alloc"
    BY <1>3 DEF BtAlloc, pwVars, rxVars, txVars, bleVars
  <2>2. bt.buf = None
    BY <2>1 DEF Placed
  <2>3. CASE m.free = {}
    <3>1. bt' = [pc |-> "idle", buf |-> None, todo |-> 0] /\ m' = m
      BY <1>3, <2>3 DEF BtAlloc
    <3>2. Placed' /\ Powered' /\ Restartable' /\ OffWithoutPeer' /\ TransmitterDriven'
      BY <2>1, <3>1 DEF Placed, Powered, Restartable, OffWithoutPeer, TransmitterDriven,
                        Active, NoBuf
    <3>3. Counted'
      BY <2>1, <2>2, <3>1 DEF Counted, Outside
    <3> QED
      BY <3>2, <3>3
  <2>4. CASE m.free # {}
    <3> DEFINE x == Malloc(m)
    <3>1. /\ m' = [Taken(m, x) EXCEPT !.data[x] = <<pieces + 1>>, !.len[x] = 1]
          /\ bt' = [bt EXCEPT !.pc = "send", !.buf = x]
      BY <1>3, <2>4 DEF BtAlloc
    <3>2. x \in m.free /\ x \in Buffers
      BY <2>4 DEF Malloc, Placed, Shape
    <3> HIDE DEF x
    <3>3. /\ DOMAIN m' = Fields /\ m'.free = m.free \ {x} /\ m'.buf = m.buf
          /\ m'.next = m.next /\ m'.out = m.out /\ m'.on = m.on /\ m'.retry = m.retry
      BY <3>1 DEF Taken, Placed, Shape, Fields
    <3>4. /\ bt' \in [pc : {"send"}, buf : NoBuf, todo : Int] /\ bt'.buf = x
      BY <3>1, <3>2 DEF Placed, NoBuf
    <3>5. ASSUME NEW b \in Buffers
          PROVE  Inside(m', b) + Outside(b)' = Inside(m, b) + Outside(b)
      <4>1. Flag(b \in m'.free) + Holds(x, b) = Flag(b \in m.free)
        BY <3>2, <3>3 DEF Flag, Holds
      <4>2. /\ Flag(b \in m'.free) \in Nat /\ Holds(x, b) \in Nat
            /\ Holds(m.buf, b) \in Nat /\ Holds(m.next, b) \in Nat
        BY DEF Flag, Holds
      <4>3. Inside(m', b) + Holds(x, b) = Inside(m, b)
        BY <1>1, <3>3, <4>1, <4>2 DEF Inside
      <4>4. Outside(b)' = Outside(b) + Holds(x, b)
        BY <1>1, <2>1, <2>2, <3>4, <4>2 DEF Outside
      <4>5. Inside(m', b) \in Nat /\ Outside(b) \in Nat
        BY <3>3, InsideType, OutsideType DEF Shape, Placed
      <4> QED
        BY <4>2, <4>3, <4>4, <4>5
    <3>6. Counted'
      BY <2>1, <3>5 DEF Counted
    <3>7. Placed' /\ Powered' /\ Restartable' /\ OffWithoutPeer' /\ TransmitterDriven'
      <4>1. Shape(m') /\ bt' \in [pc : {"idle", "alloc", "send", "enable", "put"},
                                  buf : NoBuf, todo : Int]
            /\ bt'.pc = "send" /\ bt'.buf # None
        BY <3>2, <3>3, <3>4, BridgeAssumption DEF Shape, Placed
      <4>2. Placed'
        BY <2>1, <4>1 DEF Placed
      <4> QED
        BY <2>1, <3>3, <4>2
           DEF Powered, Restartable, OffWithoutPeer, TransmitterDriven, Active
    <3> QED
      BY <3>6, <3>7
  <2> QED
    BY <2>3, <2>4
<1>4. CASE BtSend
  <2>1. UNCHANGED <<kind, pw, m, inRx, txIrq, fifoTx, ble>> /\ bt.pc = "send"
    BY <1>4 DEF BtSend, pwVars, rxVars, bleVars
  <2>2. bt.buf \in Buffers
    BY <2>1 DEF Placed, NoBuf
  <2>3. CASE tx.buf = None
    <3>1. tx' = Sending(bt.buf) /\ bt' = [bt EXCEPT !.pc = "enable", !.buf = None]
      BY <1>4, <2>3 DEF BtSend
    <3>2. /\ tx' \in [buf : NoBuf, left : Int, on : BOOLEAN] /\ tx'.buf = bt.buf
          /\ bt' \in [pc : {"enable"}, buf : {None}, todo : Int]
      <4>1. /\ tx' \in [buf : NoBuf, left : Int, on : BOOLEAN] /\ tx'.buf = bt.buf
        BY <2>2, <3>1, BridgeAssumption DEF Sending, NoBuf
      <4>2. bt' \in [pc : {"enable"}, buf : {None}, todo : Int]
        BY <3>1 DEF Placed
      <4> QED
        BY <4>1, <4>2
    <3>3. Placed' /\ Powered' /\ Restartable' /\ OffWithoutPeer' /\ TransmitterDriven'
      <4>1. Placed'
        BY <2>1, <2>2, <3>2, BridgeAssumption DEF Placed, NoBuf
      <4> QED
        BY <2>1, <3>2, <4>1
           DEF Powered, Restartable, OffWithoutPeer, TransmitterDriven, Active
    <3>4. \A b \in Buffers : Outside(b)' = Outside(b)
      BY <1>1, <2>1, <2>3, <3>2 DEF Outside
    <3>5. Counted'
      BY <2>1, <3>4 DEF Counted
    <3> QED
      BY <3>3, <3>5
  <2>4. CASE tx.buf # None
    <3>1. bt' = [bt EXCEPT !.pc = "put"] /\ tx' = tx
      BY <1>4, <2>4 DEF BtSend
    <3>2. bt' \in [pc : {"put"}, buf : NoBuf, todo : Int] /\ bt'.buf = bt.buf
      BY <3>1 DEF Placed
    <3>3. Placed' /\ Powered' /\ Restartable' /\ OffWithoutPeer' /\ TransmitterDriven'
      <4>1. Placed'
        BY <2>1, <2>2, <3>1, <3>2, BridgeAssumption DEF Placed
      <4> QED
        BY <2>1, <3>1, <4>1
           DEF Powered, Restartable, OffWithoutPeer, TransmitterDriven, Active
    <3>4. Counted'
      BY <2>1, <3>1, <3>2 DEF Counted, Outside
    <3> QED
      BY <3>3, <3>4
  <2> QED
    BY <2>3, <2>4
<1>5. BtNext \in [pc : {"idle", "alloc"}, buf : {None}, todo : Int]
  BY DEF BtNext, Placed
<1>6. CASE BtEnable
  <2>1. /\ UNCHANGED <<kind, pw, m, inRx, tx, fifoTx, ble>> /\ bt.pc = "enable"
        /\ txIrq' = TRUE /\ bt' = BtNext
    BY <1>6 DEF BtEnable, pwVars, rxVars, bleVars
  <2>2. bt.buf = None /\ bt'.buf = None
    BY <1>5, <2>1 DEF Placed
  <2>3. Placed' /\ Powered' /\ Restartable' /\ OffWithoutPeer' /\ TransmitterDriven'
    BY <1>5, <2>1
       DEF Placed, Powered, Restartable, OffWithoutPeer, TransmitterDriven, Active, NoBuf
  <2>4. Counted'
    BY <2>1, <2>2 DEF Counted, Outside
  <2> QED
    BY <2>3, <2>4
<1>7. CASE BtPut
  <2>1. /\ UNCHANGED <<kind, pw, m, inRx, tx, txIrq, ble>> /\ bt.pc = "put"
        /\ fifoTx' = Append(fifoTx, bt.buf) /\ bt' = BtNext
    BY <1>7 DEF BtPut, pwVars, rxVars, bleVars
  <2>2. bt.buf \in Buffers /\ bt'.buf = None
    BY <1>5, <2>1 DEF Placed, NoBuf
  <2>3. \A b \in Buffers : Times(fifoTx', b) = Times(fifoTx, b) + Holds(bt.buf, b)
    BY <2>1, <2>2, TimesAppend DEF Placed
  <2>4. \A b \in Buffers : Outside(b)' = Outside(b)
    BY <1>1, <2>1, <2>2, <2>3 DEF Outside
  <2>5. Counted'
    BY <2>1, <2>4 DEF Counted
  <2>6. Placed' /\ Powered' /\ Restartable' /\ OffWithoutPeer' /\ TransmitterDriven'
    <3>1. fifoTx' \in Seq(Buffers)
      BY <2>1, <2>2 DEF Placed
    <3> QED
      BY <1>5, <2>1, <3>1
         DEF Placed, Powered, Restartable, OffWithoutPeer, TransmitterDriven, Active, NoBuf
  <2> QED
    BY <2>5, <2>6
<1> QED
  BY <1>2, <1>3, <1>4, <1>6, <1>7 DEF Bt

\* Bluetooth: a buffer is forwarded, the peer comes and goes.
LEMMA BleInv ==
  ASSUME Inv, Ble \/ Disconnected \/ Connected PROVE Inv'
<1> USE DEF Inv
<1>1. CASE BleTake
  <2>1. /\ UNCHANGED <<kind, pw, inRx, tx, txIrq, fifoTx, bt>>
        /\ ble = None /\ m.out # <<>>
        /\ ble' = Head(m.out) /\ m' = [m EXCEPT !.out = Tail(@)]
    BY <1>1 DEF BleTake, pwVars, rxVars, txVars, btVars
  <2>2. /\ DOMAIN m' = Fields /\ m'.free = m.free /\ m'.buf = m.buf /\ m'.next = m.next
        /\ m'.out = Tail(m.out) /\ m'.on = m.on /\ m'.retry = m.retry
    BY <2>1 DEF Placed, Shape, Fields
  <2>3. /\ Head(m.out) \in Buffers /\ Tail(m.out) \in Seq(Buffers)
    BY <2>1 DEF Placed, Shape
  <2>4. ASSUME NEW b \in Buffers
        PROVE  Inside(m', b) + Outside(b)' = Inside(m, b) + Outside(b)
    <3>1. Times(m.out, b) = Times(m'.out, b) + Holds(ble', b)
      BY <2>1, <2>2, TimesTail DEF Placed, Shape
    <3>2. Holds(ble, b) = 0
      BY <2>1, BridgeAssumption DEF Holds
    <3>3. /\ Times(m'.out, b) \in Nat /\ Times(fifoTx, b) \in Nat /\ Holds(ble', b) \in Nat
          /\ Flag(b \in m.free) \in Nat /\ Holds(m.buf, b) \in Nat
          /\ Holds(m.next, b) \in Nat /\ Holds(tx.buf, b) \in Nat /\ Holds(bt.buf, b) \in Nat
      BY <2>2, <2>3, TimesType DEF Placed, Holds, Flag
    <3> QED
      BY <2>1, <2>2, <3>1, <3>2, <3>3 DEF Inside, Outside
  <2>5. Counted'
    BY <2>1, <2>4 DEF Counted
  <2>6. Placed' /\ Powered' /\ Restartable' /\ OffWithoutPeer' /\ TransmitterDriven'
    <3>1. Shape(m') /\ ble' \in NoBuf
      BY <2>1, <2>2, <2>3 DEF Placed, Shape, NoBuf
    <3> QED
      BY <2>1, <2>2, <3>1
         DEF Placed, Powered, Restartable, OffWithoutPeer, TransmitterDriven, Active
  <2> QED
    BY <2>5, <2>6
<1>2. CASE BleSend
  <2>1. /\ UNCHANGED <<kind, pw, inRx, tx, txIrq, fifoTx, bt>>
        /\ ble \in Buffers /\ ble' = None /\ m' = Freed(m, ble)
    BY <1>2 DEF BleSend, pwVars, rxVars, txVars, btVars, Placed, NoBuf
  <2>2. ble \notin m.free
    <3>1. /\ Times(fifoTx, ble) \in Nat /\ Holds(ble, ble) = 1
          /\ Holds(bt.buf, ble) \in Nat /\ Holds(tx.buf, ble) \in Nat
      BY TimesType DEF Placed, Holds
    <3>2. Outside(ble) > 0
      BY <3>1 DEF Outside
    <3> QED
      BY <2>1, <3>2, Owned
  <2>3. /\ Shape(m')
        /\ \A b \in Buffers : Inside(m', b) = Inside(m, b) + Holds(ble, b)
        /\ m'.buf = m.buf /\ m'.next = m.next /\ m'.on = m.on /\ m'.retry = m.retry
    BY <2>1, <2>2, FreedGives DEF Placed
  <2>4. ASSUME NEW b \in Buffers
        PROVE  Inside(m', b) + Outside(b)' = Inside(m, b) + Outside(b)
    <3>1. /\ Holds(tx.buf, b) \in Nat /\ Holds(bt.buf, b) \in Nat /\ Holds(ble, b) \in Nat
          /\ Times(fifoTx, b) \in Nat /\ Inside(m, b) \in Nat /\ Holds(ble', b) = 0
      BY <2>1, TimesType, InsideType, BridgeAssumption DEF Placed, Holds
    <3> QED
      BY <2>1, <2>3, <3>1 DEF Outside
  <2>5. Counted'
    BY <2>1, <2>4 DEF Counted
  <2>6. Placed' /\ Powered' /\ Restartable' /\ OffWithoutPeer' /\ TransmitterDriven'
    BY <2>1, <2>3
       DEF Placed, Powered, Restartable, OffWithoutPeer, TransmitterDriven, Active, NoBuf
  <2> QED
    BY <2>5, <2>6
<1>3. CASE Disconnected \/ Connected
  <2>1. /\ UNCHANGED <<kind, m, inRx, tx, txIrq, fifoTx, bt, ble>> /\ ~inRx
        /\ \/ pw' = "disable" /\ kind = "power"
           \/ pw' = "enable" /\ kind = "power"
           \/ pw' = pw
    BY <1>3 DEF Disconnected, Connected, rxVars, txVars, btVars, Powered
  <2>2. Placed' /\ Powered' /\ Restartable' /\ OffWithoutPeer' /\ TransmitterDriven'
    BY <2>1 DEF Placed, Powered, Restartable, OffWithoutPeer, TransmitterDriven, Active
  <2>3. Counted'
    BY <2>1 DEF Counted, Outside
  <2> QED
    BY <2>2, <2>3
<1> QED
  BY <1>1, <1>2, <1>3 DEF Ble

LEMMA NextInv == Inv /\ [Next]_vars => Inv'
<1>1. ASSUME Inv, UNCHANGED vars PROVE Inv'
  <2>1. UNCHANGED <<kind, pw, m, inRx, tx, txIrq, fifoTx, bt, ble>>
    BY <1>1 DEF vars, pwVars, rxVars, txVars, btVars, bleVars
  <2>2. Placed' /\ Powered' /\ Restartable' /\ OffWithoutPeer' /\ TransmitterDriven'
    BY <1>1, <2>1 DEF Inv, Placed, Powered, Restartable, OffWithoutPeer,
                      TransmitterDriven, Active
  <2>3. Counted'
    BY <1>1, <2>1 DEF Inv, Counted, Outside
  <2> QED
    BY <2>2, <2>3 DEF Inv
<1>2. ASSUME Inv, Next PROVE Inv'
  BY <1>2, RxReadyInv, RxOtherInv, TxInv, BtInv, BleInv DEF Next
<1> QED
  BY <1>1, <1>2

LEMMA Invariance == Spec => []Inv
BY InitInv, NextInv, PTL DEF Spec

\* No buffer of the heap has two owners, and in the bridge that is always on none is
\* ever lost: k_malloc and k_free of main.c are balanced over the slots of
\* uart_async_adapter.c, both queues and both threads, on every path.
THEOREM BuffersOwned == Spec => []OneOwner
BY InvOneOwner, Invariance, PTL

\* The transmitter is never left with a buffer and its interrupt off (tx and on_tx_ready
\* of uart_async_adapter.c), whatever interrupts the thread that starts it.
THEOREM TransmitterIsDriven == Spec => []TransmitterDriven
<1>1. Inv => TransmitterDriven
  BY DEF Inv
<1> QED
  BY <1>1, Invariance, PTL

\* While no peer is connected nothing turns the receiver on behind uart_disable's back
\* (peripheral_uart_test_power/src/main.c).
THEOREM ReceiverOff == Spec => []OffWithoutPeer
<1>1. Inv => OffWithoutPeer
  BY DEF Inv
<1> QED
  BY <1>1, Invariance, PTL

-----------------------------------------------------------------------------
(* What the buffers hold.                                                   *)

\* What buffer b has to forward, what the queue has, what the current buffer holds and
\* all of it.
Part(s, b) == SubSeq(s.data[b], 1, s.len[b])
Parts(s) == [i \in DOMAIN s.out |-> Part(s, s.out[i])]
Queued(s) == FlattenSeq(Parts(s))
Current(s) == IF s.buf = None THEN <<>> ELSE s.data[s.buf]
Stream(s) == Queued(s) \o Current(s)

\* Nothing is counted that is not there, free buffers and the next one are empty, the
\* adapter and uart_cb agree on what was notified, and no empty buffer is queued.
Tidy(s) ==
  /\ s \in Memory /\ Single(s)
  /\ \A b \in Buffers : Len(s.data[b]) <= Size /\ s.len[b] <= Len(s.data[b])
  /\ \A b \in Buffers : b \in s.free \/ b = s.next => s.data[b] = <<>> /\ s.len[b] = 0
  /\ s.buf # None => s.told = s.len[s.buf]
  /\ \A i \in DOMAIN s.out : s.len[s.out[i]] > 0

\* All that was received was notified.
Told(s) == s.buf # None => s.len[s.buf] = Len(s.data[s.buf])

\* Buffers other than those in X hold what they held.
Same(s, t, X) == \A b \in Buffers \ X : t.data[b] = s.data[b] /\ t.len[b] = s.len[b]

LEMMA TidyShape == ASSUME NEW s, Tidy(s) PROVE Shape(s)
BY DEF Tidy, Memory, Shape, Fields

LEMMA PartsType ==
  ASSUME NEW s, Tidy(s)
  PROVE  /\ \A b \in Buffers : Part(s, b) \in Seq(Nat) /\ Len(Part(s, b)) = s.len[b]
         /\ Parts(s) \in Seq(Seq(Nat)) /\ Len(Parts(s)) = Len(s.out)
         /\ Queued(s) \in Seq(Nat) /\ Current(s) \in Seq(Nat) /\ Stream(s) \in Seq(Nat)
<1>1. /\ s.data \in [Buffers -> Seq(Nat)] /\ s.len \in [Buffers -> Nat]
      /\ s.out \in Seq(Buffers) /\ s.buf \in NoBuf
      /\ \A b \in Buffers : s.len[b] <= Len(s.data[b])
  BY DEF Tidy, Memory
<1>2. ASSUME NEW b \in Buffers
      PROVE  Part(s, b) \in Seq(Nat) /\ Len(Part(s, b)) = s.len[b]
  <2>1. s.data[b] \in Seq(Nat) /\ s.len[b] \in Nat /\ s.len[b] <= Len(s.data[b])
    BY <1>1
  <2>2. \A i \in 1 .. s.len[b] : s.data[b][i] \in Nat
    BY <2>1
  <2>3. /\ SubSeq(s.data[b], 1, s.len[b]) \in Seq(Nat)
        /\ Len(SubSeq(s.data[b], 1, s.len[b])) =
             IF 1 <= s.len[b] THEN s.len[b] - 1 + 1 ELSE 0
    BY <2>1, <2>2, SubSeqProperties
  <2> QED
    BY <2>1, <2>3 DEF Part
<1>3. Parts(s) \in Seq(Seq(Nat)) /\ Len(Parts(s)) = Len(s.out)
  <2>1. DOMAIN s.out = 1 .. Len(s.out) /\ Len(s.out) \in Nat
    BY <1>1
  <2>2. \A i \in 1 .. Len(s.out) : Part(s, s.out[i]) \in Seq(Nat)
    BY <1>1, <1>2
  <2> QED
    BY <2>1, <2>2 DEF Parts
<1>4. Queued(s) \in Seq(Nat)
  BY <1>3, FlattenType DEF Queued
<1>5. Current(s) \in Seq(Nat)
  BY <1>1 DEF Current, NoBuf
<1>6. Stream(s) \in Seq(Nat)
  BY <1>4, <1>5 DEF Stream
<1> QED
  BY <1>2, <1>3, <1>4, <1>5, <1>6

LEMMA TimesPositive ==
  ASSUME NEW q \in Seq(Buffers), NEW i \in DOMAIN q
  PROVE  Times(q, q[i]) > 0
<1> DEFINE S == {j \in DOMAIN q : q[j] = q[i]}
<1>1. i \in S
  OBVIOUS
<1>2. IsFiniteSet(S) /\ Times(q, q[i]) = Cardinality(S) /\ Times(q, q[i]) \in Nat
  BY TimesType DEF Times
<1>3. Cardinality(S) # 0
  <2> HIDE DEF S
  <2> QED
    BY <1>1, <1>2, FS_EmptySet
<1> QED
  BY <1>2, <1>3

\* What one place inside has, no other place has.
LEMMA Apart ==
  ASSUME NEW s, Shape(s), Single(s)
  PROVE  /\ s.buf # None => s.buf \notin s.free /\ s.buf # s.next
         /\ s.next # None => s.next \notin s.free
         /\ \A i \in DOMAIN s.out :
              /\ s.out[i] \in Buffers /\ s.out[i] \notin s.free
              /\ s.out[i] # s.buf /\ s.out[i] # s.next
         /\ \A b \in Buffers : Inside(s, b) = 0 =>
              /\ b \notin s.free /\ b # s.buf /\ b # s.next
              /\ \A i \in DOMAIN s.out : s.out[i] # b
<1>1. /\ s.buf \in NoBuf /\ s.next \in NoBuf /\ s.free \subseteq Buffers
      /\ s.out \in Seq(Buffers) /\ \A b \in Buffers : Inside(s, b) <= 1
  BY DEF Shape, Single
<1>2. \A b \in Buffers : /\ Times(s.out, b) \in Nat /\ Flag(b \in s.free) \in {0, 1}
                         /\ Holds(s.buf, b) \in {0, 1} /\ Holds(s.next, b) \in {0, 1}
                         /\ Inside(s, b) \in Nat
  BY InsideType DEF Flag, Holds
<1>3. /\ \A b \in Buffers : Flag(b \in s.free) = 1 <=> b \in s.free
      /\ \A b \in Buffers : Holds(s.buf, b) = 1 <=> b = s.buf
      /\ \A b \in Buffers : Holds(s.next, b) = 1 <=> b = s.next
  BY DEF Flag, Holds
<1>4. \A i \in DOMAIN s.out : s.out[i] \in Buffers /\ Times(s.out, s.out[i]) > 0
  BY <1>1, TimesPositive
<1>5. \A b \in Buffers :
        Flag(b \in s.free) + Holds(s.buf, b) + Holds(s.next, b) + Times(s.out, b)
          = Inside(s, b)
  BY DEF Inside
<1>6. /\ s.buf # None => s.buf \in Buffers
      /\ s.next # None => s.next \in Buffers
  BY <1>1 DEF NoBuf
<1>7. s.buf # None => s.buf \notin s.free /\ s.buf # s.next
  BY <1>1, <1>2, <1>3, <1>5, <1>6
<1>8. s.next # None => s.next \notin s.free
  BY <1>1, <1>2, <1>3, <1>5, <1>6
<1>9. ASSUME NEW i \in DOMAIN s.out
      PROVE  /\ s.out[i] \in Buffers /\ s.out[i] \notin s.free
             /\ s.out[i] # s.buf /\ s.out[i] # s.next
  <2>1. PICK b : b = s.out[i]
    OBVIOUS
  <2>2. b \in Buffers /\ Times(s.out, b) > 0
    BY <1>4, <2>1
  <2>3. b \notin s.free /\ b # s.buf /\ b # s.next
    BY <1>1, <1>2, <1>3, <1>5, <2>2
  <2> QED
    BY <2>1, <2>2, <2>3
<1>10. ASSUME NEW b \in Buffers, Inside(s, b) = 0
       PROVE  /\ b \notin s.free /\ b # s.buf /\ b # s.next
              /\ \A i \in DOMAIN s.out : s.out[i] # b
  <2>1. /\ Flag(b \in s.free) = 0 /\ Holds(s.buf, b) = 0 /\ Holds(s.next, b) = 0
        /\ Times(s.out, b) = 0
    BY <1>2, <1>5, <1>10
  <2>2. \A i \in DOMAIN s.out : s.out[i] # b
    BY <1>4, <2>1
  <2> QED
    BY <1>3, <2>1, <2>2
<1> QED
  BY <1>7, <1>8, <1>9, <1>10

\* The queue holds the same while its buffers do.
LEMMA QueuedSame ==
  ASSUME NEW s, NEW t, NEW X, s.out \in Seq(Buffers), t.out = s.out, Same(s, t, X),
         \A i \in DOMAIN s.out : s.out[i] \notin X
  PROVE  Parts(t) = Parts(s) /\ Queued(t) = Queued(s)
<1>1. \A i \in DOMAIN s.out : s.out[i] \in Buffers \ X
  OBVIOUS
<1>2. \A i \in DOMAIN s.out : Part(t, s.out[i]) = Part(s, s.out[i])
  BY <1>1 DEF Same, Part
<1>3. Parts(t) = Parts(s)
  BY <1>2 DEF Parts
<1> QED
  BY <1>3 DEF Queued

\* The fields of a buffer that is freed; those of the receiver stay.
LEMMA FreedFields ==
  ASSUME NEW s \in Memory, NEW x \in Buffers
  PROVE  /\ Freed(s, x) \in Memory
         /\ Freed(s, x).data = [s.data EXCEPT ![x] = <<>>]
         /\ Freed(s, x).len = [s.len EXCEPT ![x] = 0]
         /\ Freed(s, x).free = s.free \cup {x}
         /\ Freed(s, x).buf = s.buf /\ Freed(s, x).next = s.next
         /\ Freed(s, x).told = s.told /\ Freed(s, x).out = s.out
         /\ Same(s, Freed(s, x), {x})
<1> DEFINE t == Freed(s, x)
<1>1. /\ t.data = [s.data EXCEPT ![x] = <<>>] /\ t.len = [s.len EXCEPT ![x] = 0]
      /\ t.free = s.free \cup {x} /\ t.buf = s.buf /\ t.next = s.next
      /\ t.told = s.told /\ t.out = s.out
  BY DEF Freed, Memory
<1>2. t \in Memory
  <2>1. [s.data EXCEPT ![x] = <<>>] \in [Buffers -> Seq(Nat)]
    <3>1. <<>> \in Seq(Nat)
      OBVIOUS
    <3> QED
      BY <3>1 DEF Memory
  <2>2. [s.len EXCEPT ![x] = 0] \in [Buffers -> Nat]
    BY DEF Memory
  <2>3. s.free \cup {x} \in SUBSET Buffers
    BY DEF Memory
  <2>4. t = [s EXCEPT !.free = s.free \cup {x}, !.data = [s.data EXCEPT ![x] = <<>>],
                      !.len = [s.len EXCEPT ![x] = 0]]
    BY DEF Freed, Memory
  <2> QED
    BY <2>1, <2>2, <2>3, <2>4 DEF Memory
<1> HIDE DEF t
<1>3. Same(s, t, {x})
  BY <1>1 DEF Same, Memory
<1> QED
  BY <1>1, <1>2, <1>3 DEF t

LEMMA FreedTidy ==
  ASSUME NEW s, Tidy(s), NEW x \in Buffers, Inside(s, x) = 0
  PROVE  /\ Tidy(Freed(s, x)) /\ Same(s, Freed(s, x), {x})
         /\ Queued(Freed(s, x)) = Queued(s) /\ Current(Freed(s, x)) = Current(s)
         /\ Freed(s, x).told = s.told
<1> DEFINE t == Freed(s, x)
<1>1. /\ t \in Memory /\ t.free = s.free \cup {x} /\ t.buf = s.buf /\ t.next = s.next
      /\ t.told = s.told /\ t.out = s.out /\ Same(s, t, {x})
      /\ t.data = [s.data EXCEPT ![x] = <<>>] /\ t.len = [s.len EXCEPT ![x] = 0]
  BY FreedFields DEF Tidy
<1>2. Shape(s) /\ Single(s) /\ s \in Memory
  BY TidyShape DEF Tidy
<1>3. /\ x \notin s.free /\ x # s.buf /\ x # s.next
      /\ \A i \in DOMAIN s.out : s.out[i] # x /\ s.out[i] \in Buffers
  BY <1>2, Apart
<1>4. Single(t)
  <2>1. \A b \in Buffers : Inside(t, b) = Inside(s, b) + Holds(x, b)
    BY <1>2, <1>3, FreedGives
  <2>2. \A b \in Buffers : Inside(s, b) \in Nat /\ Inside(s, b) <= 1
    BY <1>2, InsideType DEF Single
  <2> QED
    BY <2>1, <2>2 DEF Single, Holds
<1> HIDE DEF t
<1>5. /\ t.data[x] = <<>> /\ t.len[x] = 0
      /\ \A b \in Buffers : b # x => t.data[b] = s.data[b] /\ t.len[b] = s.len[b]
  BY <1>1, <1>2 DEF Memory
<1>6. Size \in Nat
  BY BridgeAssumption
<1>7. \A b \in Buffers : Len(t.data[b]) <= Size /\ t.len[b] <= Len(t.data[b])
  BY <1>5, <1>6 DEF Tidy
<1>8. \A b \in Buffers : b \in t.free \/ b = t.next => t.data[b] = <<>> /\ t.len[b] = 0
  BY <1>1, <1>5 DEF Tidy
<1>9. t.buf # None => t.told = t.len[t.buf]
  BY <1>1, <1>2, <1>3, <1>5 DEF Tidy, Memory, NoBuf
<1>10. \A i \in DOMAIN t.out : t.len[t.out[i]] > 0
  BY <1>1, <1>3, <1>5 DEF Tidy
<1>11. Tidy(t)
  BY <1>1, <1>4, <1>7, <1>8, <1>9, <1>10 DEF Tidy
<1>12. Queued(t) = Queued(s)
  BY <1>1, <1>2, <1>3, QueuedSame DEF Memory
<1>13. Current(t) = Current(s)
  BY <1>1, <1>2, <1>3, <1>5 DEF Current, Memory, NoBuf
<1> QED
  BY <1>1, <1>11, <1>12, <1>13 DEF t

\* A buffer that was taken out of a receive slot: what it has to forward is queued.
LEMMA ReleasedTidy ==
  ASSUME NEW s, Tidy(s), NEW x \in NoBuf, x # None => Inside(s, x) = 0
  PROVE  /\ Tidy(Released(s, x)) /\ Same(s, Released(s, x), {x})
         /\ Queued(Released(s, x)) =
              Queued(s) \o (IF x = None THEN <<>> ELSE Part(s, x))
         /\ Current(Released(s, x)) = Current(s)
         /\ Released(s, x).told = s.told
<1> DEFINE t == Released(s, x)
<1>1. /\ s \in Memory /\ Shape(s) /\ Single(s)
      /\ Queued(s) \in Seq(Nat) /\ Parts(s) \in Seq(Seq(Nat))
      /\ \A b \in Buffers : Part(s, b) \in Seq(Nat) /\ Len(Part(s, b)) = s.len[b]
  BY TidyShape, PartsType DEF Tidy
<1>2. CASE x = None
  <2>1. t = s
    BY <1>2 DEF Released
  <2>2. Queued(s) \o <<>> = Queued(s)
    BY <1>1
  <2> HIDE DEF t
  <2> QED
    BY <1>2, <2>1, <2>2 DEF Same, t
<1>3. CASE x # None /\ s.len[x] > 0
  <2>1. t = [s EXCEPT !.out = Append(@, x)] /\ x \in Buffers
    BY <1>3 DEF Released, NoBuf
  <2>2. Append(s.out, x) \in Seq(Buffers)
    BY <1>1, <2>1 DEF Memory
  <2>3. /\ t.data = s.data /\ t.len = s.len /\ t.free = s.free /\ t.buf = s.buf
        /\ t.next = s.next /\ t.told = s.told /\ t.out = Append(s.out, x)
        /\ t \in Memory
    BY <1>1, <2>1, <2>2 DEF Memory
  <2>4. Single(t)
    <3>1. \A b \in Buffers : Inside(t, b) = Inside(s, b) + Holds(x, b)
      <4>1. x \notin s.free
        BY <1>1, <1>3, <2>1, Apart
      <4> QED
        BY <1>1, <2>1, <4>1, ReleasedGives
    <3>2. \A b \in Buffers : Inside(s, b) \in Nat /\ Inside(s, b) <= 1
      BY <1>1, InsideType DEF Single
    <3>3. Inside(s, x) = 0
      BY <1>3
    <3> QED
      BY <3>1, <3>2, <3>3 DEF Single, Holds
  <2> HIDE DEF t
  <2>5. /\ Len(t.out) = Len(s.out) + 1 /\ Len(s.out) \in Nat /\ t.out[Len(s.out) + 1] = x
        /\ \A i \in 1 .. Len(s.out) : t.out[i] = s.out[i]
        /\ DOMAIN s.out = 1 .. Len(s.out) /\ DOMAIN t.out = 1 .. Len(s.out) + 1
    BY <1>1, <2>1, <2>3 DEF Memory
  <2>6. \A i \in DOMAIN t.out : t.len[t.out[i]] > 0
    <3>1. \A i \in DOMAIN t.out : i \in DOMAIN s.out \/ i = Len(s.out) + 1
      BY <2>5
    <3>2. \A i \in DOMAIN s.out : s.len[s.out[i]] > 0
      BY DEF Tidy
    <3> QED
      BY <1>3, <2>3, <2>5, <3>1, <3>2
  <2>7. Tidy(t)
    BY <2>3, <2>4, <2>6 DEF Tidy
  <2>8. Parts(t) = Append(Parts(s), Part(s, x))
    <3>1. Parts(t) \in Seq(Seq(Nat)) /\ Len(Parts(t)) = Len(s.out) + 1
      BY <2>5, <2>7, PartsType
    <3>2. /\ Append(Parts(s), Part(s, x)) \in Seq(Seq(Nat))
          /\ Len(Append(Parts(s), Part(s, x))) = Len(s.out) + 1
          /\ Append(Parts(s), Part(s, x))[Len(s.out) + 1] = Part(s, x)
          /\ \A i \in 1 .. Len(s.out) : Append(Parts(s), Part(s, x))[i] = Parts(s)[i]
      <4>1. Len(Parts(s)) = Len(s.out)
        BY PartsType
      <4>2. Part(s, x) \in Seq(Nat)
        BY <1>1, <2>1
      <4> QED
        BY <1>1, <4>1, <4>2, AppendProperties
    <3>3. ASSUME NEW i \in 1 .. Len(s.out) + 1
          PROVE  Parts(t)[i] = Append(Parts(s), Part(s, x))[i]
      <4>1. Parts(t)[i] = Part(t, t.out[i])
        BY <2>5 DEF Parts
      <4>2. Part(t, t.out[i]) = Part(s, t.out[i])
        BY <2>3 DEF Part
      <4>3. CASE i \in 1 .. Len(s.out)
        BY <2>5, <3>2, <4>1, <4>2, <4>3 DEF Parts
      <4>4. CASE i = Len(s.out) + 1
        BY <2>5, <3>2, <4>1, <4>2, <4>4
      <4>5. i \in 1 .. Len(s.out) \/ i = Len(s.out) + 1
        BY <2>5
      <4> QED
        BY <4>3, <4>4, <4>5
    <3> QED
      BY <3>1, <3>2, <3>3, SeqEqual
  <2>9. Queued(t) = Queued(s) \o Part(s, x)
    BY <1>1, <2>1, <2>8, FlattenAppend DEF Queued
  <2>10. Current(t) = Current(s)
    BY <2>3 DEF Current
  <2> QED
    BY <1>3, <2>3, <2>7, <2>9, <2>10 DEF t, Same
<1>4. CASE x # None /\ ~(s.len[x] > 0)
  <2>1. t = Freed(s, x) /\ x \in Buffers
    BY <1>4 DEF Released, NoBuf
  <2>2. s.len[x] = 0
    BY <1>1, <1>4, <2>1 DEF Memory
  <2>3. Queued(s) \o Part(s, x) = Queued(s)
    <3>1. Part(s, x) = <<>>
      BY <1>1, <2>1, <2>2
    <3> QED
      BY <1>1, <3>1
  <2>4. Inside(s, x) = 0
    BY <1>4
  <2> HIDE DEF t
  <2> QED
    BY <1>4, <2>1, <2>3, <2>4, FreedTidy DEF t
<1> QED
  BY <1>2, <1>3, <1>4

\* Starting the receiver leaves the contents of all buffers and the queue.
LEMMA RestartedTidy ==
  ASSUME NEW s, Tidy(s)
  PROVE  /\ Tidy(Restarted(s)) /\ Same(s, Restarted(s), {})
         /\ Queued(Restarted(s)) = Queued(s)
         /\ Current(Restarted(s)) = IF s.free = {} THEN Current(s) ELSE <<>>
         /\ Restarted(s).buf = IF s.free = {} THEN s.buf ELSE None
<1> DEFINE t == Restarted(s)
<1>1. s \in Memory /\ Shape(s) /\ Single(s)
  BY TidyShape DEF Tidy
<1>2. Single(t)
  <2>1. Shape(t) /\ \A b \in Buffers : Inside(t, b) <= Inside(s, b)
    BY <1>1, RestartedGives DEF Within
  <2>2. \A b \in Buffers : /\ Inside(s, b) \in Nat /\ Inside(s, b) <= 1
                           /\ Inside(t, b) \in Nat
    BY <1>1, <2>1, InsideType DEF Single
  <2> HIDE DEF t
  <2> QED
    BY <2>1, <2>2 DEF Single
<1>3. /\ t \in Memory /\ t.data = s.data /\ t.len = s.len /\ t.out = s.out
      /\ t.told = s.told /\ t.free \subseteq s.free
      /\ t.buf = (IF s.free = {} THEN s.buf ELSE None)
      /\ t.next = s.next \/ t.next \in s.free
  <2>1. CASE s.free = {}
    <3>1. t = [s EXCEPT !.retry = TRUE]
      BY <2>1 DEF Restarted
    <3> QED
      BY <1>1, <2>1, <3>1 DEF Memory
  <2>2. CASE s.free # {}
    <3> DEFINE x == Malloc(s)
    <3>1. x \in s.free /\ x \in Buffers
      BY <1>1, <2>2 DEF Malloc, Memory
    <3>2. t = [[[s EXCEPT !.free = s.free \ {x}] EXCEPT !.retry = FALSE]
               EXCEPT !.buf = None, !.next = x, !.on = TRUE]
      BY <1>1, <2>2 DEF Restarted, RxEnable, Taken, Memory
    <3> HIDE DEF x, t
    <3>3. [s EXCEPT !.free = s.free \ {x}] \in Memory
      BY <1>1 DEF Memory
    <3> QED
      BY <1>1, <2>2, <3>1, <3>2, <3>3 DEF Memory, NoBuf
  <2> QED
    BY <2>1, <2>2
<1> HIDE DEF t
<1>4. Tidy(t)
  <2>1. /\ \A b \in Buffers : Len(t.data[b]) <= Size /\ t.len[b] <= Len(t.data[b])
        /\ \A i \in DOMAIN t.out : t.len[t.out[i]] > 0
    BY <1>3 DEF Tidy
  <2>2. \A b \in Buffers : b \in t.free \/ b = t.next => t.data[b] = <<>> /\ t.len[b] = 0
    BY <1>3 DEF Tidy
  <2>3. t.buf # None => t.told = t.len[t.buf]
    BY <1>3 DEF Tidy
  <2> QED
    BY <1>2, <1>3, <2>1, <2>2, <2>3 DEF Tidy
<1>5. Same(s, t, {}) /\ Queued(t) = Queued(s)
  <2>1. Same(s, t, {})
    BY <1>3 DEF Same
  <2> QED
    BY <1>1, <1>3, <2>1, QueuedSame DEF Memory
<1>6. Current(t) = IF s.free = {} THEN Current(s) ELSE <<>>
  BY <1>3 DEF Current
<1> QED
  BY <1>3, <1>4, <1>5, <1>6 DEF t

\* Stopping the receiver queues what was notified of the current buffer.
LEMMA RxDisableTidy ==
  ASSUME NEW s, Tidy(s)
  PROVE  /\ Tidy(RxDisable(s)) /\ Same(s, RxDisable(s), {s.buf, s.next})
         /\ Queued(RxDisable(s)) =
              Queued(s) \o (IF s.buf = None THEN <<>> ELSE Part(s, s.buf))
         /\ RxDisable(s).buf = None
<1> DEFINE off == [s EXCEPT !.on = FALSE]
           bare == [off EXCEPT !.buf = None, !.next = None, !.told = 0]
           one == Released(bare, s.buf)
           given == Released(one, s.next)
           t == [IF s.buf = None THEN off ELSE given EXCEPT !.req = FALSE]
<1>1. /\ s \in Memory /\ Shape(s) /\ Single(s) /\ RxDisable(s) = RxDisabled(t)
      /\ Queued(s) \in Seq(Nat) /\ \A b \in Buffers : Part(s, b) \in Seq(Nat)
  BY TidyShape, PartsType DEF RxDisable, Tidy
<1>2. /\ Tidy(t) /\ Same(s, t, {s.buf, s.next}) /\ t.buf = None
      /\ Queued(t) = Queued(s) \o (IF s.buf = None THEN <<>> ELSE Part(s, s.buf))
  <2>1. CASE s.buf = None
    <3>1. /\ t \in Memory /\ t.free = s.free /\ t.data = s.data /\ t.len = s.len
          /\ t.buf = None /\ t.next = s.next /\ t.told = s.told /\ t.out = s.out
      BY <1>1, <2>1 DEF Memory
    <3> HIDE DEF t
    <3>2. Same(s, t, {s.buf, s.next}) /\ Same(s, t, {})
      BY <3>1 DEF Same
    <3>3. Single(t)
      BY <1>1, <2>1, <3>1 DEF Single, Inside
    <3>4. Tidy(t)
      BY <3>1, <3>3 DEF Tidy
    <3>5. Queued(t) = Queued(s) /\ Queued(s) \o <<>> = Queued(s)
      <4>1. s.out \in Seq(Buffers) /\ \A i \in DOMAIN s.out : s.out[i] \notin {}
        BY <1>1 DEF Memory
      <4>2. Queued(t) = Queued(s)
        BY <3>1, <3>2, <4>1, QueuedSame
      <4> QED
        BY <1>1, <4>2
    <3> QED
      BY <2>1, <3>1, <3>2, <3>4, <3>5
  <2>2. CASE s.buf # None
    <3>1. s.buf \in Buffers /\ s.buf \in NoBuf /\ s.next \in NoBuf
      BY <1>1, <2>2 DEF Memory, NoBuf
    <3>2. /\ bare \in Memory /\ bare.free = s.free /\ bare.data = s.data
          /\ bare.len = s.len /\ bare.buf = None /\ bare.next = None
          /\ bare.out = s.out
      BY <1>1 DEF Memory, NoBuf
    <3> HIDE DEF bare
    <3>3. /\ \A b \in Buffers : Inside(bare, b) \in Nat /\ Inside(s, b) \in Nat
          /\ \A b \in Buffers :
               Inside(bare, b) + Holds(s.buf, b) + Holds(s.next, b) = Inside(s, b)
      <4>1. Shape(bare)
        BY <3>2 DEF Memory, Shape, Fields
      <4>2. \A b \in Buffers :
              /\ Inside(bare, b) \in Nat /\ Inside(s, b) \in Nat
              /\ Times(s.out, b) \in Nat /\ Holds(None, b) = 0
              /\ Flag(b \in s.free) \in Nat
              /\ Holds(s.buf, b) \in Nat /\ Holds(s.next, b) \in Nat
        BY <1>1, <4>1, InsideType, BridgeAssumption DEF Holds, Flag
      <4> QED
        BY <3>2, <4>2 DEF Inside
    <3>4. /\ Inside(bare, s.buf) = 0
          /\ s.next # None => Inside(bare, s.next) = 0 /\ s.next # s.buf
      <4>1. \A b \in Buffers : /\ Inside(s, b) <= 1
                               /\ Holds(s.buf, b) \in Nat /\ Holds(s.next, b) \in Nat
        BY <1>1 DEF Single, Holds
      <4>2. Inside(bare, s.buf) = 0
        <5>1. Holds(s.buf, s.buf) = 1
          BY DEF Holds
        <5> QED
          BY <3>1, <3>3, <4>1, <5>1
      <4>3. s.next # None => Inside(bare, s.next) = 0
        <5>1. Holds(s.next, s.next) = 1
          BY DEF Holds
        <5>2. s.next # None => s.next \in Buffers
          BY <3>1 DEF NoBuf
        <5> QED
          BY <3>3, <4>1, <5>1, <5>2
      <4> QED
        BY <1>1, <2>2, <4>2, <4>3, Apart
    <3>5. Tidy(bare)
      <4>1. Single(bare)
        <5>1. \A b \in Buffers : Holds(s.buf, b) \in Nat /\ Holds(s.next, b) \in Nat
          BY DEF Holds
        <5>2. \A b \in Buffers : Inside(s, b) <= 1
          BY <1>1 DEF Single
        <5>3. \A b \in Buffers : Inside(bare, b) <= 1
          BY <3>3, <5>1, <5>2
        <5> QED
          BY <5>3 DEF Single
      <4>2. \A b \in Buffers : b \in bare.free \/ b = bare.next
              => bare.data[b] = <<>> /\ bare.len[b] = 0
        BY <3>2, BridgeAssumption DEF Tidy
      <4> QED
        BY <3>2, <4>1, <4>2 DEF Tidy
    <3>6. Queued(bare) = Queued(s) /\ Part(bare, s.buf) = Part(s, s.buf)
      <4>1. Same(s, bare, {})
        BY <3>2 DEF Same
      <4> QED
        BY <1>1, <3>2, <4>1, QueuedSame DEF Memory, Part
    <3>7. /\ Tidy(one) /\ Same(bare, one, {s.buf})
          /\ Queued(one) = Queued(s) \o Part(s, s.buf)
      BY <2>2, <3>1, <3>4, <3>5, <3>6, ReleasedTidy
    <3>8. /\ one.buf = None /\ one.next = None
          /\ \A b \in Buffers : Inside(one, b) = Inside(bare, b) + Holds(s.buf, b)
      <4>1. s.buf \notin bare.free /\ Shape(bare)
        BY <1>1, <2>2, <3>2, <3>5, Apart, TidyShape
      <4> QED
        BY <3>1, <3>2, <4>1, ReleasedGives
    <3>9. s.next # None => /\ Inside(one, s.next) = 0
                           /\ one.len[s.next] = 0 /\ one.data[s.next] = <<>>
      <4>1. s.next # None => s.next \in Buffers /\ s.next \in Buffers \ {s.buf}
        BY <3>1, <3>4 DEF NoBuf
      <4>2. s.next # None => Holds(s.buf, s.next) = 0
        BY <3>4 DEF Holds
      <4>3. s.next # None => s.data[s.next] = <<>> /\ s.len[s.next] = 0
        BY <4>1 DEF Tidy
      <4>4. s.next # None => Inside(one, s.next) = 0
        BY <3>4, <3>8, <4>1, <4>2
      <4>5. s.next # None => one.data[s.next] = bare.data[s.next]
                             /\ one.len[s.next] = bare.len[s.next]
        BY <3>7, <4>1 DEF Same
      <4> QED
        BY <3>2, <4>3, <4>4, <4>5
    <3> HIDE DEF one
    <3>10. /\ Tidy(given) /\ Same(one, given, {s.next})
           /\ Queued(given) = Queued(one) \o
                (IF s.next = None THEN <<>> ELSE Part(one, s.next))
      BY <3>1, <3>7, <3>9, ReleasedTidy
    <3>11. Queued(given) = Queued(s) \o Part(s, s.buf)
      <4>1. Queued(one) \in Seq(Nat)
        BY <3>7, PartsType
      <4>2. s.next # None => Part(one, s.next) = <<>>
        BY <3>9 DEF Part
      <4>3. Queued(one) \o <<>> = Queued(one)
        BY <4>1, ConcatEmptySeq
      <4> QED
        BY <3>7, <3>10, <4>2, <4>3
    <3>12. given.buf = None /\ given \in Memory
      <4>1. Shape(one) /\ s.next \notin one.free
        <5>1. s.next # None => s.next \in Buffers
          BY <3>1 DEF NoBuf
        <5>2. Shape(one) /\ Single(one) /\ one.free \subseteq Buffers
          BY <3>7, TidyShape DEF Tidy, Shape
        <5> QED
          BY <3>9, <5>1, <5>2, Apart, BridgeAssumption
      <4> QED
        BY <3>1, <3>8, <3>10, <4>1, ReleasedGives DEF Tidy
    <3> HIDE DEF given
    <3>13. t = [given EXCEPT !.req = FALSE]
      BY <2>2
    <3>14. /\ t \in Memory /\ t.free = given.free /\ t.data = given.data
           /\ t.len = given.len /\ t.buf = None /\ t.next = given.next
           /\ t.out = given.out /\ t.told = given.told
      BY <3>12, <3>13 DEF Memory
    <3> HIDE DEF t
    <3>15. Tidy(t) /\ Queued(t) = Queued(given)
      <4>1. Single(t)
        BY <3>10, <3>12, <3>14 DEF Tidy, Single, Inside
      <4>2. Tidy(t)
        BY <3>10, <3>12, <3>14, <4>1 DEF Tidy
      <4>3. Same(given, t, {})
        BY <3>14 DEF Same
      <4> QED
        BY <3>12, <3>14, <4>2, <4>3, QueuedSame DEF Memory
    <3>16. Same(s, t, {s.buf, s.next})
      BY <3>2, <3>7, <3>10, <3>14 DEF Same
    <3> QED
      BY <2>2, <3>11, <3>14, <3>15, <3>16
  <2> QED
    BY <2>1, <2>2
<1> HIDE DEF t
<1>3. CASE Active
  <2>1. /\ Tidy(Restarted(t)) /\ Same(t, Restarted(t), {})
        /\ Queued(Restarted(t)) = Queued(t) /\ Restarted(t).buf = None
    BY <1>2, RestartedTidy
  <2>2. Same(s, Restarted(t), {s.buf, s.next})
    BY <1>2, <2>1 DEF Same
  <2> QED
    BY <1>1, <1>2, <1>3, <2>1, <2>2 DEF RxDisabled
<1>4. CASE ~Active
  BY <1>1, <1>2, <1>4 DEF RxDisabled
<1> QED
  BY <1>3, <1>4

\* A notification counts all that was received, also when it stops the receiver: the
\* bytes to forward stay what they were.
LEMMA NotifyTidy ==
  ASSUME NEW s, Tidy(s)
  PROVE  /\ Tidy(Notify(s)) /\ Same(s, Notify(s), {s.buf, s.next})
         /\ Stream(Notify(s)) = Stream(s) /\ Told(Notify(s))
<1>1. /\ s \in Memory /\ Shape(s) /\ Single(s) /\ s.out \in Seq(Buffers)
      /\ Queued(s) \in Seq(Nat) /\ Current(s) \in Seq(Nat)
  BY TidyShape, PartsType DEF Tidy, Memory
<1>2. CASE s.buf = None \/ Len(s.data[s.buf]) = s.told
  <2>1. Notify(s) = s /\ Told(s)
    BY <1>2 DEF Notify, Told, Tidy
  <2> QED
    BY <2>1 DEF Same
<1>3. CASE ~(s.buf = None \/ Len(s.data[s.buf]) = s.told)
  <2> DEFINE all == Len(s.data[s.buf])
             ready == [s EXCEPT !.told = all, !.len[s.buf] = @ + all - s.told]
             asked == [ready EXCEPT !.req = TRUE]
  <2>1. Notify(s) = IF ~s.req /\ s.data[s.buf][ready.len[s.buf]] \in eol
                    THEN RxDisable(asked) ELSE ready
    BY <1>3 DEF Notify
  <2>2. /\ s.buf \in Buffers /\ all \in Nat /\ s.data[s.buf] \in Seq(Nat)
        /\ s.told = s.len[s.buf] /\ s.len[s.buf] \in Nat /\ s.buf # None
    BY <1>1, <1>3 DEF Tidy, Memory, NoBuf
  <2>3. [s.len EXCEPT ![s.buf] = all] \in [Buffers -> Nat]
    BY <1>1, <2>2 DEF Memory
  <2>4. ready = [s EXCEPT !.told = all, !.len = [s.len EXCEPT ![s.buf] = all]]
    <3>1. s.len[s.buf] + all - s.told = all
      BY <2>2
    <3> HIDE DEF all
    <3>2. ready = [s EXCEPT !.told = all,
                            !.len = [s.len EXCEPT ![s.buf] = s.len[s.buf] + all - s.told]]
      BY <1>1 DEF Memory
    <3> QED
      BY <3>1, <3>2
  <2> HIDE DEF ready
  <2>5. /\ ready \in Memory /\ ready.free = s.free /\ ready.data = s.data
        /\ ready.len = [s.len EXCEPT ![s.buf] = all] /\ ready.buf = s.buf
        /\ ready.next = s.next /\ ready.out = s.out /\ ready.told = all
    <3> HIDE DEF all
    <3> QED
      BY <1>1, <2>2, <2>3, <2>4 DEF Memory
  <2>6. /\ asked \in Memory /\ asked.free = s.free /\ asked.data = s.data
        /\ asked.len = [s.len EXCEPT ![s.buf] = all] /\ asked.buf = s.buf
        /\ asked.next = s.next /\ asked.out = s.out /\ asked.told = all
    <3> HIDE DEF all
    <3> QED
      BY <2>5 DEF Memory
  <2> HIDE DEF asked
  <2>7. ASSUME NEW u, u \in {ready, asked}
        PROVE  /\ Tidy(u) /\ Same(s, u, {s.buf, s.next}) /\ Queued(u) = Queued(s)
               /\ Current(u) = Current(s) /\ Told(u) /\ Part(u, s.buf) = Current(s)
               /\ u.buf = s.buf /\ u.next = s.next
    <3>1. /\ u \in Memory /\ u.free = s.free /\ u.data = s.data
          /\ u.len = [s.len EXCEPT ![s.buf] = all] /\ u.buf = s.buf
          /\ u.next = s.next /\ u.out = s.out /\ u.told = all
      BY <2>5, <2>6, <2>7
    <3>2. /\ u.len[s.buf] = all
          /\ \A b \in Buffers : b # s.buf => u.len[b] = s.len[b]
      BY <1>1, <2>2, <3>1 DEF Memory
    <3>3. /\ s.buf \notin s.free /\ s.buf # s.next
          /\ \A i \in DOMAIN s.out : s.out[i] # s.buf /\ s.out[i] # s.next
                                     /\ s.out[i] \in Buffers
      BY <1>1, <2>2, Apart
    <3>4. Same(s, u, {s.buf}) /\ Same(s, u, {s.buf, s.next})
      BY <3>1, <3>2 DEF Same
    <3>5. Queued(u) = Queued(s)
      <4>1. \A i \in DOMAIN s.out : s.out[i] \notin {s.buf}
        BY <3>3
      <4> QED
        BY <1>1, <3>1, <3>4, <4>1, QueuedSame
    <3>6. Tidy(u)
      <4>1. Single(u)
        BY <1>1, <3>1 DEF Single, Inside
      <4>2. \A b \in Buffers : Len(u.data[b]) <= Size /\ u.len[b] <= Len(u.data[b])
        <5>1. \A b \in Buffers : Len(u.data[b]) <= Size
          BY <3>1 DEF Tidy
        <5>2. ASSUME NEW b \in Buffers PROVE u.len[b] <= Len(u.data[b])
          <6>1. CASE b = s.buf
            BY <2>2, <3>1, <3>2, <6>1
          <6>2. CASE b # s.buf
            BY <3>1, <3>2, <6>2 DEF Tidy
          <6> QED
            BY <6>1, <6>2
        <5> QED
          BY <5>1, <5>2
      <4>3. \A b \in Buffers : b \in u.free \/ b = u.next
              => u.data[b] = <<>> /\ u.len[b] = 0
        BY <3>1, <3>2, <3>3 DEF Tidy
      <4>4. \A i \in DOMAIN u.out : u.len[u.out[i]] > 0
        BY <3>1, <3>2, <3>3 DEF Tidy
      <4> QED
        BY <3>1, <3>2, <4>1, <4>2, <4>3, <4>4 DEF Tidy
    <3>7. Current(u) = Current(s) /\ Current(s) = s.data[s.buf]
      BY <2>2, <3>1 DEF Current
    <3>8. Part(u, s.buf) = Current(s)
      BY <2>2, <3>1, <3>2, <3>7, SubSeqFull DEF Part
    <3>9. Told(u)
      BY <3>1, <3>2 DEF Told
    <3> QED
      BY <3>1, <3>4, <3>5, <3>6, <3>7, <3>8, <3>9
  <2>8. CASE ~(~s.req /\ s.data[s.buf][ready.len[s.buf]] \in eol)
    <3>1. Notify(s) = ready
      BY <2>1, <2>8
    <3> QED
      BY <2>7, <3>1 DEF Stream
  <2>9. CASE ~s.req /\ s.data[s.buf][ready.len[s.buf]] \in eol
    <3> DEFINE t == RxDisable(asked)
    <3>1. Notify(s) = t
      BY <2>1, <2>9
    <3>2. Tidy(asked) /\ asked.buf = s.buf /\ asked.next = s.next
      BY <2>7
    <3>3. /\ Tidy(t) /\ Same(asked, t, {s.buf, s.next}) /\ t.buf = None
          /\ Queued(t) = Queued(asked) \o
               (IF asked.buf = None THEN <<>> ELSE Part(asked, asked.buf))
      BY <3>2, RxDisableTidy
    <3> HIDE DEF t
    <3>4. Same(s, t, {s.buf, s.next})
      <4>1. Same(s, asked, {s.buf, s.next})
        BY <2>7
      <4> QED
        BY <3>3, <4>1 DEF Same
    <3>5. Queued(t) = Queued(s) \o Current(s)
      BY <2>2, <2>7, <3>2, <3>3
    <3>6. Current(t) = <<>> /\ Told(t)
      BY <3>3 DEF Current, Told
    <3>7. Stream(t) = Stream(s)
      <4>1. Queued(s) \o Current(s) \in Seq(Nat)
        BY <1>1
      <4>2. (Queued(s) \o Current(s)) \o <<>> = Queued(s) \o Current(s)
        BY <4>1, ConcatEmptySeq
      <4> QED
        BY <3>5, <3>6, <4>2 DEF Stream
    <3> QED
      BY <3>1, <3>3, <3>4, <3>6, <3>7
  <2> QED
    BY <2>8, <2>9
<1> QED
  BY <1>2, <1>3

\* The next buffer, which is empty, becomes the current one: the full one is queued.
LEMMA SwitchTidy ==
  ASSUME NEW s, Tidy(s), Told(s)
  PROVE  /\ Tidy(Switch(s)) /\ Same(s, Switch(s), {s.buf})
         /\ Stream(Switch(s)) = Stream(s)
<1> DEFINE moved == [s EXCEPT !.buf = s.next, !.next = None, !.told = 0]
           t == Released(moved, s.buf)
<1>1. /\ s \in Memory /\ Shape(s) /\ Single(s) /\ s.out \in Seq(Buffers)
      /\ s.buf \in NoBuf /\ s.next \in NoBuf
      /\ Queued(s) \in Seq(Nat) /\ Current(s) \in Seq(Nat) /\ Switch(s) = Requested(t)
  BY TidyShape, PartsType DEF Tidy, Memory, Switch
<1>2. /\ moved \in Memory /\ moved.free = s.free /\ moved.data = s.data
      /\ moved.len = s.len /\ moved.buf = s.next /\ moved.next = None
      /\ moved.told = 0 /\ moved.out = s.out
  BY <1>1 DEF Memory, NoBuf
<1> HIDE DEF moved
<1>3. /\ \A b \in Buffers : Inside(moved, b) \in Nat /\ Inside(s, b) \in Nat
      /\ \A b \in Buffers : Inside(moved, b) + Holds(s.buf, b) = Inside(s, b)
  <2>1. Shape(moved)
    BY <1>2 DEF Memory, Shape, Fields
  <2>2. \A b \in Buffers :
          /\ Inside(moved, b) \in Nat /\ Inside(s, b) \in Nat
          /\ Times(s.out, b) \in Nat /\ Holds(None, b) = 0
          /\ Flag(b \in s.free) \in Nat
          /\ Holds(s.buf, b) \in Nat /\ Holds(s.next, b) \in Nat
    BY <1>1, <2>1, InsideType, BridgeAssumption DEF Holds, Flag
  <2> QED
    BY <1>2, <2>2 DEF Inside
<1>4. Single(moved) /\ (s.buf # None => Inside(moved, s.buf) = 0)
  <2>1. \A b \in Buffers : Holds(s.buf, b) \in Nat /\ Inside(s, b) <= 1
    BY <1>1 DEF Holds, Single
  <2>2. \A b \in Buffers : Inside(moved, b) <= 1
    BY <1>3, <2>1
  <2>3. s.buf # None => s.buf \in Buffers /\ Holds(s.buf, s.buf) = 1
    BY <1>1 DEF Holds, NoBuf
  <2>4. s.buf # None => Inside(moved, s.buf) = 0
    BY <1>3, <2>1, <2>3
  <2> QED
    BY <2>2, <2>4 DEF Single
<1>5. Tidy(moved)
  <2>1. \A b \in Buffers : b \in moved.free \/ b = moved.next
          => moved.data[b] = <<>> /\ moved.len[b] = 0
    BY <1>2, BridgeAssumption DEF Tidy
  <2>2. moved.buf # None => moved.told = moved.len[moved.buf]
    BY <1>1, <1>2 DEF Tidy, NoBuf
  <2> QED
    BY <1>2, <1>4, <2>1, <2>2 DEF Tidy
<1>6. Queued(moved) = Queued(s) /\ Current(moved) = <<>> /\ Same(s, moved, {})
  <2>1. Same(s, moved, {})
    BY <1>2 DEF Same
  <2>2. \A i \in DOMAIN s.out : s.out[i] \notin {}
    OBVIOUS
  <2>3. Queued(moved) = Queued(s)
    BY <1>1, <1>2, <2>1, <2>2, QueuedSame
  <2>4. Current(moved) = <<>>
    BY <1>1, <1>2 DEF Current, Tidy, NoBuf
  <2> QED
    BY <2>1, <2>3, <2>4
<1>7. (IF s.buf = None THEN <<>> ELSE Part(moved, s.buf)) = Current(s)
  <2>1. CASE s.buf = None
    BY <2>1 DEF Current
  <2>2. CASE s.buf # None
    <3>1. s.buf \in Buffers /\ s.data[s.buf] \in Seq(Nat)
      BY <1>1, <2>2 DEF NoBuf, Memory
    <3>2. SubSeq(s.data[s.buf], 1, Len(s.data[s.buf])) = s.data[s.buf]
      BY <3>1, SubSeqFull
    <3> QED
      BY <1>2, <2>2, <3>2 DEF Told, Part, Current
  <2> QED
    BY <2>1, <2>2
<1>8. /\ Tidy(t) /\ Same(moved, t, {s.buf}) /\ Queued(t) = Queued(s) \o Current(s)
      /\ Current(t) = <<>>
  BY <1>1, <1>4, <1>5, <1>6, <1>7, ReleasedTidy
<1>9. t.next = None
  <2>1. s.buf \notin moved.free /\ Shape(moved)
    BY <1>1, <1>2, <1>5, Apart, TidyShape, BridgeAssumption DEF Memory
  <2> QED
    BY <1>1, <1>2, <2>1, ReleasedGives
<1> HIDE DEF t
<1>10. Stream(t) = Stream(s)
  <2>1. Queued(s) \o Current(s) \in Seq(Nat)
    BY <1>1
  <2>2. (Queued(s) \o Current(s)) \o <<>> = Queued(s) \o Current(s)
    BY <2>1, ConcatEmptySeq
  <2> QED
    BY <1>8, <2>2 DEF Stream
<1>11. Same(s, t, {s.buf})
  BY <1>6, <1>8 DEF Same
<1>12. CASE t.free = {}
  BY <1>1, <1>8, <1>10, <1>11, <1>12 DEF Requested
<1>13. CASE t.free # {}
  <2> DEFINE x == Malloc(t)
             u == [Taken(t, x) EXCEPT !.next = x]
  <2>1. Switch(s) = u
    BY <1>1, <1>9, <1>13 DEF Requested
  <2>2. x \in t.free /\ x \in Buffers /\ t \in Memory /\ Shape(t) /\ Single(t)
    BY <1>8, <1>13, TidyShape DEF Malloc, Tidy, Memory
  <2> HIDE DEF x
  <2>3. u = [[t EXCEPT !.free = t.free \ {x}] EXCEPT !.next = x]
    BY <2>2 DEF Taken, Memory
  <2> HIDE DEF u
  <2>4. [t EXCEPT !.free = t.free \ {x}] \in Memory
    BY <2>2 DEF Memory
  <2>5. /\ u \in Memory /\ u.free = t.free \ {x} /\ u.data = t.data /\ u.len = t.len
        /\ u.buf = t.buf /\ u.next = x /\ u.told = t.told /\ u.out = t.out
    BY <2>2, <2>3, <2>4 DEF Memory, NoBuf
  <2>6. Single(u)
    <3>1. ASSUME NEW b \in Buffers PROVE Inside(u, b) = Inside(t, b)
      <4>1. Flag(b \in u.free) + Holds(u.next, b) = Flag(b \in t.free)
        BY <2>2, <2>5 DEF Flag, Holds
      <4>2. /\ Holds(t.next, b) = 0 /\ Times(t.out, b) \in Nat
            /\ Flag(b \in u.free) \in Nat /\ Holds(u.next, b) \in Nat
            /\ Holds(t.buf, b) \in Nat
        BY <1>9, <2>2, InsideType, BridgeAssumption DEF Flag, Holds
      <4> QED
        BY <2>5, <4>1, <4>2 DEF Inside
    <3> QED
      BY <2>2, <3>1 DEF Single
  <2>7. Tidy(u)
    <3>1. \A b \in Buffers : b \in u.free \/ b = u.next
            => u.data[b] = <<>> /\ u.len[b] = 0
      BY <1>8, <2>2, <2>5 DEF Tidy
    <3> QED
      BY <1>8, <2>5, <2>6, <3>1 DEF Tidy
  <2>8. Same(t, u, {}) /\ Same(s, u, {s.buf})
    BY <1>11, <2>5 DEF Same
  <2>9. Stream(u) = Stream(t)
    <3>1. t.out \in Seq(Buffers) /\ \A i \in DOMAIN t.out : t.out[i] \notin {}
      BY <2>2 DEF Memory
    <3>2. Queued(u) = Queued(t)
      BY <2>5, <2>8, <3>1, QueuedSame
    <3>3. Current(u) = Current(t)
      BY <2>5 DEF Current
    <3> QED
      BY <3>2, <3>3 DEF Stream
  <2> QED
    BY <1>10, <2>1, <2>7, <2>8, <2>9
<1> QED
  BY <1>12, <1>13

-----------------------------------------------------------------------------
(* What was received.                                                       *)

\* The first of the bytes to forward, and all of them for given ones, a given memory and
\* given bytes in the UART.
Leaving == IF ble = None THEN <<>> ELSE Part(m, ble)
Whole(f, s, h) == ((f \o Queued(s)) \o Current(s)) \o h

\* Buffer b holds one piece of the peer's data.
Piece(b) == Len(m.data[b]) = 1 /\ m.data[b][1] <= pieces

\* What the threads and the transmitter have is not empty.
Handed ==
  /\ ble # None => m.len[ble] > 0
  /\ tx.buf # None => Piece(tx.buf)
  /\ bt.buf # None => Piece(bt.buf)
  /\ \A i \in DOMAIN fifoTx : Piece(fifoTx[i])

Limits ==
  /\ hw \in Seq(Nat) /\ Len(hw) <= HwSize
  /\ {armed, inRx, txIrq, conn, lost} \subseteq BOOLEAN
  /\ tx.left \in 0 .. TxSize
  /\ bt.todo \in 0 .. MaxPieces /\ pieces \in 0 .. MaxPieces
  /\ bt.pc = "alloc" => bt.todo > 0 /\ pieces + bt.todo <= MaxPieces
  /\ bt.pc \in {"send", "put", "enable"} => bt.todo > 0 /\ pieces + bt.todo <= MaxPieces + 1
  /\ drops \in 0 .. MaxDrops /\ sent \subseteq 0 .. MaxPieces /\ eol \subseteq 1 .. MaxBytes
  /\ count \in 0 .. MaxBytes /\ fwd \in 0 .. count

\* The power variant has its peer exactly while it means to use the UART, and no byte
\* comes in before it is resumed.
Linked ==
  /\ kind = "power" => (conn <=> Active)
  /\ pw \in {"boot", "off", "enable"} => hw = <<>> /\ m.buf = None /\ ~inRx

\* The bytes still to be forwarded grow from the last that was forwarded to the last
\* that arrived, and while none was lost they are all there are between the two.
InOrder == Ascends(Pending, fwd, count) /\ (~lost => Runs(Pending, fwd, count))

Full == Tidy(m) /\ Handed /\ Limits /\ Linked /\ InOrder

LEMMA PendingWhole == Pending = Whole(Leaving, m, hw)
BY DEF Pending, Whole, Leaving, Queued, Parts, Part, Current, Contents

\* The bytes in the buffers stand between the first ones and those in the UART.
LEMMA Regroup ==
  ASSUME NEW f \in Seq(Nat), NEW s, Tidy(s), NEW h \in Seq(Nat)
  PROVE  Whole(f, s, h) = (f \o Stream(s)) \o h /\ Whole(f, s, h) \in Seq(Nat)
<1>1. Queued(s) \in Seq(Nat) /\ Current(s) \in Seq(Nat)
  BY PartsType
<1>2. (f \o Queued(s)) \o Current(s) = f \o (Queued(s) \o Current(s))
  <2>1. Bytes(f) /\ Bytes(Queued(s)) /\ Bytes(Current(s))
    BY <1>1 DEF Bytes
  <2>2. Join(f, Join(Queued(s), Current(s))) = Join(Join(f, Queued(s)), Current(s))
    BY <2>1, JoinBytes
  <2> QED
    BY <2>2 DEF Join
<1> QED
  BY <1>1, <1>2 DEF Whole, Stream

LEMMA FrontType ==
  ASSUME Inv, Full
  PROVE  /\ Leaving \in Seq(Nat) /\ hw \in Seq(Nat) /\ Stream(m) \in Seq(Nat)
         /\ Pending = (Leaving \o Stream(m)) \o hw
<1>1. Leaving \in Seq(Nat)
  <2>1. ble # None => ble \in Buffers
    BY DEF Inv, Placed, NoBuf
  <2> QED
    BY <2>1, PartsType DEF Leaving, Full
<1> QED
  BY <1>1, PendingWhole, Regroup, PartsType DEF Full, Limits

\* What one place outside has, no other place has.
LEMMA OutsideApart ==
  ASSUME Inv
  PROVE  /\ ble # None => Inside(m, ble) = 0 /\ ble # tx.buf /\ ble # bt.buf
         /\ tx.buf # None => Inside(m, tx.buf) = 0 /\ tx.buf # bt.buf
         /\ bt.buf # None => Inside(m, bt.buf) = 0
         /\ \A i \in DOMAIN fifoTx :
              /\ fifoTx[i] \in Buffers /\ Inside(m, fifoTx[i]) = 0
              /\ fifoTx[i] # ble /\ fifoTx[i] # tx.buf /\ fifoTx[i] # bt.buf
<1>1. /\ ble \in NoBuf /\ tx.buf \in NoBuf /\ bt.buf \in NoBuf /\ fifoTx \in Seq(Buffers)
      /\ Shape(m)
  BY DEF Inv, Placed
<1>2. ASSUME NEW b \in Buffers
      PROVE  /\ Inside(m, b) \in Nat /\ Times(fifoTx, b) \in Nat
             /\ Holds(tx.buf, b) \in Nat /\ Holds(bt.buf, b) \in Nat /\ Holds(ble, b) \in Nat
             /\ Inside(m, b) + (Holds(tx.buf, b) + Holds(bt.buf, b) + Holds(ble, b)
                                + Times(fifoTx, b)) \in {0, 1}
  BY <1>1, InsideType, TimesType DEF Inv, Counted, Outside, Holds
<1>3. /\ ble # None => ble \in Buffers
      /\ tx.buf # None => tx.buf \in Buffers
      /\ bt.buf # None => bt.buf \in Buffers
  BY <1>1 DEF NoBuf
<1>4. ASSUME NEW b \in Buffers
      PROVE  /\ b = ble \/ b = tx.buf \/ b = bt.buf \/ Times(fifoTx, b) > 0
                  => Inside(m, b) = 0
             /\ b = ble => b # tx.buf /\ b # bt.buf /\ Times(fifoTx, b) = 0
             /\ b = tx.buf => b # bt.buf /\ Times(fifoTx, b) = 0
             /\ b = bt.buf => Times(fifoTx, b) = 0
  <2>1. /\ b = tx.buf => Holds(tx.buf, b) = 1
        /\ b = bt.buf => Holds(bt.buf, b) = 1
        /\ b = ble => Holds(ble, b) = 1
    BY DEF Holds
  <2> QED
    BY <1>2, <2>1
<1>5. \A i \in DOMAIN fifoTx : fifoTx[i] \in Buffers /\ Times(fifoTx, fifoTx[i]) > 0
  BY <1>1, TimesPositive
<1> QED
  BY <1>3, <1>4, <1>5

\* The buffers the heap and the receiver have.
Theirs == {b \in Buffers : Inside(m, b) > 0}

\* What the others have is theirs when only buffers of the heap and the receiver change.
LEMMA OthersKeep ==
  ASSUME Inv, Full, Same(m, m', Theirs), UNCHANGED <<tx, bt, ble, fifoTx, pieces>>
  PROVE  Handed' /\ Leaving' = Leaving
<1>1. \A b \in Buffers : Inside(m, b) = 0
        => m'.data[b] = m.data[b] /\ m'.len[b] = m.len[b]
  BY DEF Same, Theirs
<1>2. /\ ble # None => ble \in Buffers
      /\ tx.buf # None => tx.buf \in Buffers
      /\ bt.buf # None => bt.buf \in Buffers
  BY DEF Inv, Placed, NoBuf
<1>3. /\ ble # None => m'.data[ble] = m.data[ble] /\ m'.len[ble] = m.len[ble]
      /\ tx.buf # None => m'.data[tx.buf] = m.data[tx.buf]
      /\ bt.buf # None => m'.data[bt.buf] = m.data[bt.buf]
      /\ \A i \in DOMAIN fifoTx : m'.data[fifoTx[i]] = m.data[fifoTx[i]]
  BY <1>1, <1>2, OutsideApart
<1>4. Handed'
  BY <1>3 DEF Full, Handed, Piece
<1>5. Leaving' = Leaving
  BY <1>3 DEF Leaving, Part
<1> QED
  BY <1>4, <1>5

\* The current and the next buffer are among them.
LEMMA SlotsTheirs ==
  ASSUME NEW s, Shape(s), \A b \in Buffers : Inside(s, b) = Inside(m, b), NEW t,
         Same(s, t, {s.buf, s.next}) \/ Same(s, t, {s.buf})
  PROVE  Same(s, t, Theirs) /\ (s.buf # None => s.buf \in Theirs)
<1>1. s.buf \in Buffers => s.buf \in Theirs
  <2>1. s.buf \in Buffers => Holds(s.buf, s.buf) = 1
    BY DEF Holds
  <2>2. s.buf \in Buffers =>
          /\ Flag(s.buf \in s.free) \in Nat /\ Holds(s.next, s.buf) \in Nat
          /\ Times(s.out, s.buf) \in Nat
    BY InsideType DEF Flag, Holds
  <2> QED
    BY <2>1, <2>2 DEF Theirs, Inside
<1>2. s.next \in Buffers => s.next \in Theirs
  <2>1. s.next \in Buffers => Holds(s.next, s.next) = 1
    BY DEF Holds
  <2>2. s.next \in Buffers =>
          /\ Flag(s.next \in s.free) \in Nat /\ Holds(s.buf, s.next) \in Nat
          /\ Times(s.out, s.next) \in Nat
    BY InsideType DEF Flag, Holds
  <2> QED
    BY <2>1, <2>2 DEF Theirs, Inside
<1> QED
  BY <1>1, <1>2 DEF Same, Shape, NoBuf

LEMMA InitFull == Init => Full
<1> SUFFICES ASSUME Init PROVE Full
  OBVIOUS
<1>0. Inv
  BY InitInv
<1> DEFINE t == CHOOSE b \in Buffers : TRUE
           r == CHOOSE b \in Buffers \ {t} : TRUE
<1>1. /\ m = [free |-> Buffers \ {t, r},
              data |-> [b \in Buffers |-> IF b = t THEN <<0>> ELSE <<>>],
              len |-> [b \in Buffers |-> IF b = t THEN 1 ELSE 0],
              buf |-> None, next |-> IF kind = "always" THEN r ELSE None, told |-> 0,
              on |-> kind = "always", req |-> FALSE, out |-> <<>>, retry |-> FALSE]
      /\ tx = [buf |-> t, left |-> TxSize, on |-> TRUE]
      /\ fifoTx = <<>> /\ bt = [pc |-> "idle", buf |-> None, todo |-> 0] /\ ble = None
      /\ inRx = FALSE /\ txIrq = TRUE /\ armed = FALSE /\ lost = FALSE /\ hw = <<>>
      /\ pw = (IF kind = "always" THEN "on" ELSE "boot") /\ conn = (kind = "always")
      /\ eol = {} /\ count = 0 /\ pieces = 0 /\ drops = 0 /\ fwd = 0 /\ sent = {}
  BY DEF Init
<1> HIDE DEF t, r
<1>2. tx.buf = t /\ t \in Buffers /\ t # r
  <2>1. t \in Buffers
    <3>1. tx.on => tx.buf # None /\ tx.buf \in NoBuf
      BY <1>0 DEF Inv, Placed
    <3> QED
      BY <1>1, <3>1 DEF NoBuf
  <2>2. Buffers \ {t} # {}
    <3>1. Cardinality(Buffers) >= 2 /\ IsFiniteSet(Buffers) /\ Cardinality(Buffers) \in Nat
      BY BridgeAssumption, FS_CardinalityType
    <3>2. Cardinality(Buffers \ {t}) = Cardinality(Buffers) - 1
      BY <2>1, <3>1, FS_RemoveElement
    <3> QED
      BY <3>1, <3>2, FS_EmptySet
  <2> QED
    BY <1>1, <2>1, <2>2 DEF r
<1>3. r \in Buffers \/ kind # "always"
  <2>1. Buffers \ {t} # {}
    <3>1. Cardinality(Buffers) >= 2 /\ IsFiniteSet(Buffers) /\ Cardinality(Buffers) \in Nat
      BY BridgeAssumption, FS_CardinalityType
    <3>2. Cardinality(Buffers \ {t}) = Cardinality(Buffers) - 1
      BY <1>2, <3>1, FS_RemoveElement
    <3> QED
      BY <3>1, <3>2, FS_EmptySet
  <2> QED
    BY <2>1 DEF r
<1>4. m \in Memory
  <2>1. /\ [b \in Buffers |-> IF b = t THEN <<0>> ELSE <<>>] \in [Buffers -> Seq(Nat)]
        /\ [b \in Buffers |-> IF b = t THEN 1 ELSE 0] \in [Buffers -> Nat]
    OBVIOUS
  <2> QED
    BY <1>1, <1>3, <2>1 DEF Memory, NoBuf
<1>5. /\ m.free = Buffers \ {t, r} /\ m.buf = None /\ m.out = <<>>
      /\ m.next = (IF kind = "always" THEN r ELSE None)
      /\ \A b \in Buffers : m.data[b] = IF b = t THEN <<0>> ELSE <<>>
      /\ \A b \in Buffers : m.len[b] = IF b = t THEN 1 ELSE 0
  BY <1>1
<1>6. Size \in Nat \ {0} /\ TxSize \in Nat /\ HwSize \in Nat
      /\ MaxBytes \in Nat /\ MaxPieces \in Nat /\ MaxDrops \in Nat /\ None \notin Buffers
      /\ Kinds \subseteq {"always", "power"}
  BY BridgeAssumption
<1>7. Tidy(m)
  <2>1. Single(m)
    BY <1>0, MemorySingle DEF Inv
  <2>2. \A b \in Buffers : Len(m.data[b]) <= Size /\ m.len[b] <= Len(m.data[b])
    <3>1. Len(<<0>>) = 1 /\ Len(<<>>) = 0
      OBVIOUS
    <3>2. ASSUME NEW b \in Buffers
          PROVE  Len(m.data[b]) <= Size /\ m.len[b] <= Len(m.data[b])
      <4>1. CASE b = t
        <5>1. m.data[b] = <<0>> /\ m.len[b] = 1
          BY <1>5, <4>1
        <5> QED
          BY <1>6, <3>1, <5>1
      <4>2. CASE b # t
        <5>1. m.data[b] = <<>> /\ m.len[b] = 0
          BY <1>5, <4>2
        <5> QED
          BY <1>6, <3>1, <5>1
      <4> QED
        BY <4>1, <4>2
    <3> QED
      BY <3>2
  <2>3. \A b \in Buffers : b \in m.free \/ b = m.next => m.data[b] = <<>> /\ m.len[b] = 0
    BY <1>2, <1>5, <1>6
  <2> QED
    BY <1>4, <1>5, <2>1, <2>2, <2>3 DEF Tidy
<1>8. Handed
  <2>1. m.data[t] = <<0>>
    BY <1>2, <1>5
  <2>2. Piece(t)
    BY <1>1, <2>1 DEF Piece
  <2> QED
    BY <1>1, <2>2 DEF Handed
<1>9. Limits
  <2>1. {armed, inRx, txIrq, conn, lost} \subseteq BOOLEAN
    BY <1>1
  <2>2. hw \in Seq(Nat) /\ Len(hw) = 0
    BY <1>1
  <2>3. tx.left = TxSize /\ bt.todo = 0 /\ bt.pc = "idle"
    BY <1>1
  <2> QED
    BY <1>1, <1>6, <2>1, <2>2, <2>3 DEF Limits
<1>10. Linked
  BY <1>1, <1>5, <1>6 DEF Linked, Active, Init
<1>11. InOrder
  <2>1. Parts(m) = <<>>
    BY <1>5 DEF Parts
  <2>2. Queued(m) = <<>>
    BY <2>1, FlattenEmpty DEF Queued
  <2>3. Pending = <<>>
    BY <1>1, <1>5, <2>2, PendingWhole DEF Whole, Leaving, Current
  <2> QED
    BY <1>1, <2>3 DEF InOrder, Ascends, Runs
<1> QED
  BY <1>7, <1>8, <1>9, <1>10, <1>11 DEF Full

\* A step that leaves the bytes to forward as they are.
LEMMA OrderKept ==
  ASSUME InOrder, Pending' = Pending, UNCHANGED <<fwd, count>>, lost => lost'
  PROVE  InOrder'
BY DEF InOrder

LEMMA ConcatAppend ==
  ASSUME NEW a \in Seq(Nat), NEW b \in Seq(Nat), NEW x \in Nat
  PROVE  a \o Append(b, x) = Append(a \o b, x)
<1>1. Append(b, x) = b \o <<x>> /\ Append(a \o b, x) = (a \o b) \o <<x>>
  <2>1. a \o b \in Seq(Nat)
    OBVIOUS
  <2> QED
    BY <2>1, AppendIsConcat
<1>2. <<x>> \in Seq(Nat)
  OBVIOUS
<1> QED
  BY <1>1, <1>2, ConcatAssociative

\* A byte arrives.
LEMMA UartByteFull ==
  ASSUME Inv, Full, UartByte PROVE Full'
<1>1. /\ pw = "on" /\ count < MaxBytes /\ Len(hw) < HwSize /\ count' = count + 1
      /\ hw' = Append(hw, count + 1) /\ eol' \in {eol, eol \cup {count + 1}}
      /\ UNCHANGED <<kind, pw, m, inRx, armed, tx, txIrq, fifoTx, sent, bt, pieces, ble,
                     conn, drops, fwd, lost>>
  BY DEF UartByte, pwVars, txVars, btVars, bleVars
<1>2. /\ count \in Nat /\ count <= MaxBytes /\ fwd \in Nat /\ fwd <= count
      /\ hw \in Seq(Nat) /\ MaxBytes \in Nat /\ HwSize \in Nat
  BY BridgeAssumption DEF Full, Limits
<1>3. Tidy(m)' /\ Handed' /\ Linked'
  <2>1. Tidy(m)'
    BY <1>1 DEF Full
  <2>2. Handed'
    BY <1>1 DEF Full, Handed, Piece
  <2>3. Linked'
    BY <1>1 DEF Full, Linked, Active
  <2> QED
    BY <2>1, <2>2, <2>3
<1>4. Limits'
  <2>1. Append(hw, count + 1) \in Seq(Nat) /\ Len(Append(hw, count + 1)) = Len(hw) + 1
    BY <1>2
  <2>2. hw' \in Seq(Nat) /\ Len(hw') <= HwSize
    BY <1>1, <1>2, <2>1
  <2>3. count' \in 0 .. MaxBytes /\ fwd' \in 0 .. count' /\ eol' \subseteq 1 .. MaxBytes
    BY <1>1, <1>2 DEF Full, Limits
  <2> QED
    BY <1>1, <2>2, <2>3 DEF Full, Limits
<1>5. Pending' = Append(Pending, count + 1)
  <2>1. Leaving' = Leaving
    BY <1>1 DEF Leaving
  <2>2. /\ (Leaving \o Queued(m)) \o Current(m) \in Seq(Nat)
        /\ Pending = ((Leaving \o Queued(m)) \o Current(m)) \o hw
    BY FrontType, PartsType, PendingWhole DEF Full, Whole
  <2>3. Pending' = ((Leaving' \o Queued(m')) \o Current(m')) \o hw'
    BY DEF Pending, Leaving, Queued, Parts, Part, Current, Contents
  <2>4. Pending' = ((Leaving \o Queued(m)) \o Current(m)) \o Append(hw, count + 1)
    BY <1>1, <2>1, <2>3
  <2>5. PICK a, h : a = (Leaving \o Queued(m)) \o Current(m) /\ h = hw
    OBVIOUS
  <2>6. a \in Seq(Nat) /\ h \in Seq(Nat) /\ count + 1 \in Nat
    BY <1>2, <2>2, <2>5
  <2>7. a \o Append(h, count + 1) = Append(a \o h, count + 1)
    BY <2>6, ConcatAppend
  <2> QED
    BY <2>2, <2>4, <2>5, <2>7
<1>6. InOrder'
  <2>1. Ascends(Pending, fwd, count) /\ (~lost => Runs(Pending, fwd, count))
    BY DEF Full, InOrder
  <2>2. PICK p : p = Pending
    OBVIOUS
  <2>3. /\ Ascends(Append(p, count + 1), fwd, count + 1)
        /\ ~lost => Runs(Append(p, count + 1), fwd, count + 1)
    <3>1. Ascends(p, fwd, count) /\ (~lost => Runs(p, fwd, count))
      BY <2>1, <2>2
    <3> QED
      BY <1>2, <3>1, AscendsMore
  <2> QED
    BY <1>1, <1>5, <2>2, <2>3 DEF InOrder
<1> QED
  BY <1>3, <1>4, <1>6 DEF Full

LEMMA PendingAfter == Pending' = Whole(Leaving', m', hw')
BY DEF Pending, Whole, Leaving, Queued, Parts, Part, Current, Contents

\* What is left of h, and that t with g has the bytes that s has with h.
Rest(h, n) == SubSeq(h, n + 1, Len(h))
Keeps(s, h, t, g) == \A f \in Seq(Nat) : Whole(f, t, g) = Whole(f, s, h)

\* t is s after the first n bytes of h were added to the current buffer, which has room
\* for them.
Receives(s, t, h, n) ==
  /\ s.buf # None /\ Len(s.data[s.buf]) + n <= Size
  /\ t = [s EXCEPT !.data[s.buf] = @ \o SubSeq(h, 1, n)]

LEMMA ConcatGrows ==
  ASSUME NEW a \in Seq(Nat), NEW b \in Seq(Nat)
  PROVE  a \o b \in Seq(Nat) /\ Len(a \o b) = Len(a) + Len(b) /\ Len(a) \in Nat
BY ConcatProperties

\* Bytes that are taken from the UART go to the end of the current buffer.
LEMMA Received ==
  ASSUME NEW s, Tidy(s), NEW h \in Seq(Nat), NEW n \in Nat, n <= Len(h), NEW t,
         Receives(s, t, h, n)
  PROVE  /\ Tidy(t) /\ Same(s, t, {s.buf}) /\ t.buf = s.buf
         /\ Rest(h, n) \in Seq(Nat) /\ Len(Rest(h, n)) <= Len(h) /\ Keeps(s, h, t, Rest(h, n))
<1> DEFINE one == SubSeq(h, 1, n)
           rest == SubSeq(h, n + 1, Len(h))
<1>1. /\ s \in Memory /\ Shape(s) /\ Single(s) /\ s.buf \in Buffers
      /\ s.data[s.buf] \in Seq(Nat) /\ s.out \in Seq(Buffers)
      /\ Queued(s) \in Seq(Nat) /\ Current(s) = s.data[s.buf]
      /\ s.buf # None /\ Len(s.data[s.buf]) + n <= Size
  BY TidyShape, PartsType DEF Tidy, Memory, NoBuf, Current, Receives
<1>2. /\ one \in Seq(Nat) /\ Len(one) = n /\ rest \in Seq(Nat) /\ Len(rest) = Len(h) - n
      /\ one \o rest = h
  BY CutAfter
<1> HIDE DEF one, rest
<1>3. /\ Current(s) \o one \in Seq(Nat) /\ Len(Current(s) \o one) = Len(Current(s)) + n
      /\ Len(Current(s)) \in Nat
  <2>1. Current(s) \in Seq(Nat) /\ one \in Seq(Nat) /\ Len(one) = n
    BY <1>1, <1>2
  <2>2. PICK c, o : c = Current(s) /\ o = one
    OBVIOUS
  <2>3. c \in Seq(Nat) /\ o \in Seq(Nat) /\ Len(o) = n
    BY <2>1, <2>2
  <2>4. c \o o \in Seq(Nat) /\ Len(c \o o) = Len(c) + Len(o) /\ Len(c) \in Nat
    BY <2>3, ConcatGrows
  <2> QED
    BY <2>2, <2>3, <2>4
<1>4. t = [s EXCEPT !.data = [s.data EXCEPT ![s.buf] = Current(s) \o one]]
  BY <1>1 DEF one, Memory, Receives
<1>5. /\ t \in Memory /\ t.free = s.free /\ t.len = s.len /\ t.buf = s.buf
      /\ t.next = s.next /\ t.told = s.told /\ t.out = s.out
      /\ t.data = [s.data EXCEPT ![s.buf] = Current(s) \o one]
  <2>1. [s.data EXCEPT ![s.buf] = Current(s) \o one] \in [Buffers -> Seq(Nat)]
    BY <1>1, <1>3 DEF Memory
  <2> QED
    BY <1>1, <1>4, <2>1 DEF Memory
<1>6. /\ t.data[s.buf] = Current(s) \o one
      /\ \A b \in Buffers : b # s.buf => t.data[b] = s.data[b]
  BY <1>1, <1>5 DEF Memory
<1>7. Same(s, t, {s.buf})
  BY <1>5, <1>6 DEF Same
<1>8. /\ s.buf \notin s.free /\ s.buf # s.next
      /\ \A i \in DOMAIN s.out : s.out[i] \notin {s.buf}
  BY <1>1, Apart
<1>9. Tidy(t)
  <2>1. Single(t)
    BY <1>1, <1>5 DEF Single, Inside
  <2>2. ASSUME NEW b \in Buffers
        PROVE  Len(t.data[b]) <= Size /\ t.len[b] <= Len(t.data[b])
    <3>1. CASE b = s.buf
      <4>1. s.len[b] <= Len(s.data[b]) /\ s.len[b] \in Nat
        BY <1>1 DEF Tidy, Memory
      <4>2. Len(Current(s)) + n <= Size
        BY <1>1
      <4>3. Len(t.data[b]) = Len(Current(s)) + n /\ t.len[b] = s.len[b]
        BY <1>3, <1>5, <1>6, <3>1
      <4>4. s.len[b] <= Len(Current(s)) /\ s.len[b] \in Nat
        BY <1>1, <3>1, <4>1
      <4> QED
        BY <1>3, <4>2, <4>3, <4>4
    <3>2. CASE b # s.buf
      BY <1>5, <1>6, <3>2 DEF Tidy
    <3> QED
      BY <3>1, <3>2
  <2>3. \A b \in Buffers : b \in t.free \/ b = t.next => t.data[b] = <<>> /\ t.len[b] = 0
    BY <1>5, <1>6, <1>8 DEF Tidy
  <2>4. /\ t.buf # None => t.told = t.len[t.buf]
        /\ \A i \in DOMAIN t.out : t.len[t.out[i]] > 0
    BY <1>5 DEF Tidy
  <2> QED
    BY <1>5, <2>1, <2>2, <2>3, <2>4 DEF Tidy
<1>10. Queued(t) = Queued(s) /\ Current(t) = Current(s) \o one
  <2>1. Queued(t) = Queued(s)
    BY <1>1, <1>5, <1>7, <1>8, QueuedSame
  <2>2. Current(t) = t.data[s.buf]
    BY <1>1, <1>5 DEF Current
  <2> QED
    BY <1>6, <2>1, <2>2
<1>11. ASSUME NEW f \in Seq(Nat) PROVE Whole(f, t, rest) = Whole(f, s, h)
  <2>1. PICK q, c, o, z : q = f \o Queued(s) /\ c = Current(s) /\ o = one /\ z = rest
    OBVIOUS
  <2>2. q \in Seq(Nat) /\ c \in Seq(Nat) /\ o \in Seq(Nat) /\ z \in Seq(Nat)
    <3>1. Queued(s) \in Seq(Nat) /\ Current(s) \in Seq(Nat)
      BY <1>1
    <3>2. f \o Queued(s) \in Seq(Nat)
      BY <3>1, ConcatGrows
    <3> QED
      BY <1>2, <2>1, <3>1, <3>2
  <2>3. (q \o (c \o o)) \o z = (q \o c) \o h
    <3>1. o \o z = h
      BY <1>2, <2>1
    <3>2. Join(o, z) = h /\ Bytes(q) /\ Bytes(c) /\ Bytes(o) /\ Bytes(z)
      BY <2>2, <3>1 DEF Join, Bytes
    <3>3. Join(Join(q, Join(c, o)), z) = Join(Join(q, c), h)
      BY <3>2, JoinBytes
    <3> QED
      BY <3>3 DEF Join
  <2>4. /\ Whole(f, t, rest) = (q \o (c \o o)) \o z
        /\ Whole(f, s, h) = (q \o c) \o h
    BY <1>10, <2>1 DEF Whole
  <2> QED
    BY <2>3, <2>4
<1>12. Len(rest) <= Len(h)
  BY <1>2
<1> QED
  BY <1>2, <1>5, <1>7, <1>9, <1>11, <1>12 DEF rest, Rest, Keeps

\* The loop of on_rx_ready.
LEMMA RxReadyFull ==
  ASSUME Inv, Full, RxReady PROVE Full'
<1> DEFINE s == IF Room(m) = 0 THEN Switch(Notify(m)) ELSE m
           n == IF Room(s) < Len(hw) THEN Room(s) ELSE Len(hw)
<1>1. /\ UNCHANGED <<kind, pw, eol, count, tx, txIrq, fifoTx, sent, bt, pieces, ble, conn,
                     drops, fwd>>
      /\ inRx \/ (hw # <<>> /\ m.on)
      /\ armed' \in {armed, TRUE}
      /\ inRx' = (Room(s) # 0 /\ hw # <<>>)
      /\ IF Room(s) = 0
         THEN m' = s /\ hw' = <<>> /\ lost' = (lost \/ hw # <<>>)
         ELSE /\ m' = [s EXCEPT !.data[s.buf] = @ \o SubSeq(hw, 1, n)]
              /\ hw' = SubSeq(hw, n + 1, Len(hw)) /\ UNCHANGED lost
  BY DEF RxReady, ArmTimer, pwVars, txVars, btVars, bleVars
<1>2. pw \notin {"boot", "off", "enable"}
  BY <1>1 DEF Full, Linked
<1>3. /\ Tidy(s) /\ Stream(s) = Stream(m) /\ Same(m, s, Theirs)
      /\ \A b \in Buffers : Inside(s, b) = Inside(m, b)
  <2>1. Tidy(m) /\ Shape(m) /\ Single(m)
    BY TidyShape DEF Full, Tidy
  <2>2. CASE Room(m) = 0
    <3> DEFINE k == Notify(m)
    <3>1. /\ Tidy(k) /\ Same(m, k, {m.buf, m.next}) /\ Stream(k) = Stream(m) /\ Told(k)
          /\ \A b \in Buffers : Inside(k, b) = Inside(m, b)
      BY <2>1, NotifyTidy, NotifyGives DEF Exactly
    <3> HIDE DEF k
    <3>2. Shape(k) /\ Single(k)
      BY <3>1, TidyShape DEF Tidy
    <3>3. /\ Tidy(Switch(k)) /\ Same(k, Switch(k), {k.buf})
          /\ Stream(Switch(k)) = Stream(k)
          /\ \A b \in Buffers : Inside(Switch(k), b) = Inside(k, b)
      BY <3>1, <3>2, SwitchTidy, SwitchGives DEF Exactly
    <3>4. Same(m, k, Theirs)
      BY <2>1, <3>1, SlotsTheirs
    <3>5. Same(k, Switch(k), Theirs)
      BY <3>1, <3>2, <3>3, SlotsTheirs
    <3>6. Same(m, Switch(k), Theirs)
      BY <3>4, <3>5 DEF Same
    <3> QED
      BY <2>2, <3>1, <3>3, <3>6 DEF k
  <2>3. CASE Room(m) # 0
    BY <2>1, <2>3 DEF Same
  <2> QED
    BY <2>2, <2>3
<1> HIDE DEF s
<1>4. /\ hw \in Seq(Nat) /\ Len(hw) \in Nat /\ Len(hw) <= HwSize /\ HwSize \in Nat
      /\ Size \in Nat
  BY BridgeAssumption DEF Full, Limits
<1>5. CASE Room(s) = 0
  <2>1. m' = s /\ hw' = <<>> /\ lost' = (lost \/ hw # <<>>) /\ inRx' = FALSE
    BY <1>1, <1>5
  <2>2. Handed' /\ Leaving' = Leaving
    BY <1>1, <1>3, <2>1, OthersKeep
  <2>3. Limits'
    <3>1. Len(<<>>) = 0 /\ <<>> \in Seq(Nat)
      OBVIOUS
    <3>2. {armed, inRx, txIrq, conn, lost} \subseteq BOOLEAN
      BY DEF Full, Limits
    <3>3. {armed, inRx, txIrq, conn, lost}' \subseteq BOOLEAN
      BY <1>1, <2>1, <3>2
    <3>4. Len(hw') <= HwSize /\ hw' \in Seq(Nat)
      BY <1>4, <2>1, <3>1
    <3> QED
      BY <1>1, <3>3, <3>4 DEF Full, Limits
  <2>4. Linked'
    BY <1>1, <1>2, <2>1 DEF Full, Linked, Active
  <2>5. InOrder'
    <3>1. PICK a : a = Leaving \o Stream(m)
      OBVIOUS
    <3>2. a \in Seq(Nat) /\ Pending = a \o hw
      BY <3>1, FrontType
    <3>3. Pending' = a
      <4>1. Pending' = Whole(Leaving, s, <<>>)
        BY <2>1, <2>2, PendingAfter
      <4>2. <<>> \in Seq(Nat) /\ Leaving \in Seq(Nat)
        BY FrontType
      <4>3. Whole(Leaving, s, <<>>) = (Leaving \o Stream(s)) \o <<>>
        BY <1>3, <4>2, Regroup
      <4>4. a \o <<>> = a
        BY <3>2, ConcatEmptySeq
      <4> QED
        BY <1>3, <3>1, <4>1, <4>3, <4>4
    <3>4. Ascends(a \o hw, fwd, count) /\ (~lost => Runs(a \o hw, fwd, count))
      BY <3>2 DEF Full, InOrder
    <3>5. Ascends(a, fwd, count)
      BY <1>4, <3>2, <3>4, AscendsFront
    <3>6. hw = <<>> => a \o hw = a
      BY <3>2, ConcatEmptySeq
    <3> QED
      BY <1>1, <2>1, <3>3, <3>4, <3>5, <3>6 DEF InOrder
  <2> QED
    BY <1>3, <2>1, <2>2, <2>3, <2>4, <2>5 DEF Full
<1>6. CASE Room(s) # 0
  <2>1. /\ m' = [s EXCEPT !.data[s.buf] = @ \o SubSeq(hw, 1, n)]
        /\ hw' = SubSeq(hw, n + 1, Len(hw)) /\ UNCHANGED lost
    BY <1>1, <1>6
  <2>2. /\ s.buf # None /\ s.buf \in Buffers /\ n \in Nat /\ n <= Len(hw)
        /\ Len(s.data[s.buf]) + n <= Size
    <3>1. s.buf # None /\ Room(s) = Size - Len(s.data[s.buf])
      BY <1>6 DEF Room
    <3>2. s.buf \in Buffers /\ s.data[s.buf] \in Seq(Nat) /\ Len(s.data[s.buf]) <= Size
      BY <1>3, <3>1 DEF Tidy, Memory, NoBuf
    <3>3. Len(s.data[s.buf]) \in Nat
      BY <3>2
    <3>4. PICK d : d = Len(s.data[s.buf])
      OBVIOUS
    <3>5. d \in Nat /\ d <= Size /\ Room(s) = Size - d
      BY <3>1, <3>2, <3>3, <3>4
    <3>6. n \in Nat /\ n <= Len(hw) /\ d + n <= Size
      BY <1>4, <3>5
    <3> QED
      BY <3>1, <3>2, <3>4, <3>6
  <2> HIDE DEF n
  <2>3. /\ Tidy(m') /\ Same(s, m', {s.buf}) /\ m'.buf = s.buf
        /\ hw' \in Seq(Nat) /\ Len(hw') <= Len(hw)
        /\ Keeps(s, hw, m', hw')
    <3>1. Receives(s, m', hw, n)
      BY <2>1, <2>2 DEF Receives
    <3>2. Tidy(s) /\ hw \in Seq(Nat) /\ n \in Nat /\ n <= Len(hw)
      BY <1>3, <1>4, <2>2
    <3>3. PICK h, k, x, t : h = hw /\ k = n /\ x = s /\ t = m'
      OBVIOUS
    <3>4. /\ Tidy(x) /\ h \in Seq(Nat) /\ k \in Nat /\ k <= Len(h)
          /\ Receives(x, t, h, k)
      BY <3>1, <3>2, <3>3
    <3>5. /\ Tidy(t) /\ Same(x, t, {x.buf}) /\ t.buf = x.buf
          /\ Rest(h, k) \in Seq(Nat) /\ Len(Rest(h, k)) <= Len(h) /\ Keeps(x, h, t, Rest(h, k))
      BY <3>4, Received
    <3>6. hw' = Rest(h, k)
      BY <2>1, <3>3 DEF Rest
    <3> QED
      BY <3>3, <3>5, <3>6
  <2>4. Same(m, m', Theirs)
    <3>1. Shape(s)
      BY <1>3, TidyShape
    <3>2. Same(s, m', Theirs)
      BY <1>3, <2>3, <3>1, SlotsTheirs
    <3> QED
      BY <1>3, <3>2 DEF Same
  <2>5. Handed' /\ Leaving' = Leaving
    BY <1>1, <2>4, OthersKeep
  <2>6. Limits'
    <3>1. {armed, inRx, txIrq, conn, lost} \subseteq BOOLEAN
      BY DEF Full, Limits
    <3>2. inRx' \in BOOLEAN
      BY <1>1
    <3>3. {armed, inRx, txIrq, conn, lost}' \subseteq BOOLEAN
      BY <1>1, <2>1, <3>1, <3>2
    <3>4. Len(hw') \in Nat /\ Len(hw') <= HwSize
      BY <1>4, <2>3
    <3> QED
      BY <1>1, <2>3, <3>3, <3>4 DEF Full, Limits
  <2>7. Linked'
    BY <1>1, <1>2 DEF Full, Linked, Active
  <2>8. Pending' = Pending
    <3>1. Leaving \in Seq(Nat) /\ Pending = (Leaving \o Stream(m)) \o hw
      BY FrontType
    <3>2. Pending' = Whole(Leaving, m', hw')
      BY <2>5, PendingAfter
    <3>3. Whole(Leaving, m', hw') = Whole(Leaving, s, hw)
      BY <2>3, <3>1 DEF Keeps
    <3>4. Whole(Leaving, s, hw) = (Leaving \o Stream(s)) \o hw
      BY <1>3, <1>4, <3>1, Regroup
    <3> QED
      BY <1>3, <3>1, <3>2, <3>3, <3>4
  <2>9. InOrder'
    BY <1>1, <2>1, <2>8, OrderKept DEF Full
  <2> QED
    BY <2>3, <2>5, <2>6, <2>7, <2>9 DEF Full
<1> QED
  BY <1>5, <1>6

\* A step of the receiver that moves bytes without changing which are to be forwarded.
LEMMA Rearranged ==
  ASSUME Inv, Full, Tidy(m)', Stream(m') = Stream(m), Same(m, m', Theirs),
         UNCHANGED <<tx, bt, ble, fifoTx, pieces, hw, fwd, count, lost>>
  PROVE  Handed' /\ InOrder'
<1>1. Handed' /\ Leaving' = Leaving
  BY OthersKeep
<1>2. Tidy(m')
  OBVIOUS
<1>3. Leaving \in Seq(Nat) /\ hw \in Seq(Nat) /\ Pending = (Leaving \o Stream(m)) \o hw
  BY FrontType
<1>4. Pending' = Whole(Leaving, m', hw)
  BY <1>1, PendingAfter
<1>5. Whole(Leaving, m', hw) = (Leaving \o Stream(m')) \o hw
  BY <1>2, <1>3, Regroup
<1>6. Pending' = Pending
  BY <1>3, <1>4, <1>5
<1>7. InOrder'
  BY <1>6, OrderKept DEF Full
<1> QED
  BY <1>1, <1>7

\* The timer.
LEMMA RxTimeoutFull ==
  ASSUME Inv, Full, RxTimeout PROVE Full'
<1>1. /\ m' = Notify(m) /\ armed' = FALSE
      /\ UNCHANGED <<kind, pw, hw, inRx, eol, count, tx, txIrq, fifoTx, sent, bt, pieces, ble,
                     conn, drops, fwd, lost>>
  BY DEF RxTimeout, pwVars, txVars, btVars, bleVars
<1>2. Tidy(m) /\ Shape(m)
  BY TidyShape DEF Full
<1>3. /\ Tidy(m)' /\ Same(m, m', {m.buf, m.next}) /\ Stream(m') = Stream(m)
  BY <1>1, <1>2, NotifyTidy
<1>4. Same(m, m', Theirs)
  BY <1>2, <1>3, SlotsTheirs
<1>5. Handed' /\ InOrder'
  BY <1>1, <1>3, <1>4, Rearranged
<1>6. Limits'
  <2>1. {armed, inRx, txIrq, conn, lost}' \subseteq BOOLEAN
    BY <1>1 DEF Full, Limits
  <2> QED
    BY <1>1, <2>1 DEF Full, Limits
<1>7. Linked'
  <2>1. m.buf = None => m' = m
    BY <1>1 DEF Notify
  <2> QED
    BY <1>1, <2>1 DEF Full, Linked, Active
<1> QED
  BY <1>3, <1>5, <1>6, <1>7 DEF Full

\* The work item.
LEMMA UartWorkFull ==
  ASSUME Inv, Full, UartWork PROVE Full'
<1>1. /\ UNCHANGED <<kind, pw, hw, inRx, armed, eol, count, tx, txIrq, fifoTx, sent, bt,
                     pieces, ble, conn, drops, fwd>>
      /\ \/ Active /\ m' = Restarted(m) /\ lost' = (lost \/ (m.free # {} /\ Forgets(m, 0)))
         \/ ~Active /\ m' = [m EXCEPT !.retry = FALSE] /\ UNCHANGED lost
  BY DEF UartWork, pwVars, rxVars, txVars, btVars, bleVars
<1>2. Tidy(m) /\ Shape(m) /\ m \in Memory
  BY TidyShape DEF Full, Tidy
<1>3. lost \in BOOLEAN /\ lost' \in BOOLEAN
  BY <1>1 DEF Full, Limits
<1>4. Limits'
  <2>1. {armed, inRx, txIrq, conn, lost}' \subseteq BOOLEAN
    BY <1>1, <1>3 DEF Full, Limits
  <2> QED
    BY <1>1, <2>1 DEF Full, Limits
<1>5. CASE Active
  <2>1. m' = Restarted(m) /\ lost' = (lost \/ (m.free # {} /\ Forgets(m, 0)))
    BY <1>1, <1>5
  <2>2. /\ Tidy(m') /\ Same(m, m', {}) /\ Queued(m') = Queued(m)
        /\ Current(m') = (IF m.free = {} THEN Current(m) ELSE <<>>)
        /\ m'.buf = IF m.free = {} THEN m.buf ELSE None
    BY <1>2, <2>1, RestartedTidy
  <2>3. Same(m, m', Theirs)
    BY <2>2 DEF Same
  <2>4. Handed' /\ Leaving' = Leaving
    BY <1>1, <2>3, OthersKeep
  <2>5. Linked'
    BY <1>1, <2>2 DEF Full, Linked, Active
  <2>6. InOrder'
    <3>1. CASE Current(m') = Current(m)
      <4>1. Stream(m') = Stream(m)
        BY <2>2, <3>1 DEF Stream
      <4>2. Leaving \in Seq(Nat) /\ hw \in Seq(Nat) /\ Pending = (Leaving \o Stream(m)) \o hw
        BY FrontType
      <4>3. Whole(Leaving, m', hw) = (Leaving \o Stream(m')) \o hw
        BY <2>2, <4>2, Regroup
      <4>4. Pending' = Pending
        BY <1>1, <2>4, <4>1, <4>2, <4>3, PendingAfter
      <4> QED
        BY <1>1, <2>1, <4>4, OrderKept DEF Full
    <3>2. CASE Current(m') # Current(m)
      <4>1. m.free # {} /\ Current(m') = <<>> /\ Current(m) # <<>>
        BY <2>2, <3>2
      <4>2. lost'
        <5>1. Current(m) \in Seq(Nat)
          BY <1>2, PartsType
        <5>2. m.buf # None /\ Current(m) = m.data[m.buf]
          BY <4>1 DEF Current
        <5>3. Len(m.data[m.buf]) > 0
          BY <4>1, <5>1, <5>2
        <5> QED
          BY <2>1, <4>1, <5>2, <5>3 DEF Forgets
      <4>3. PICK a, b : a = Leaving \o Queued(m) /\ b = Current(m)
        OBVIOUS
      <4>4. /\ a \in Seq(Nat) /\ b \in Seq(Nat) /\ hw \in Seq(Nat)
        BY <1>2, <4>3, FrontType, PartsType
      <4>5. Pending = (a \o b) \o hw
        BY <4>3, PendingWhole DEF Whole
      <4>6. Pending' = a \o hw
        <5>1. Pending' = (a \o <<>>) \o hw
          BY <1>1, <2>2, <2>4, <4>1, <4>3, PendingAfter DEF Whole
        <5>2. a \o <<>> = a
          BY <4>4, ConcatEmptySeq
        <5> QED
          BY <5>1, <5>2
      <4>7. Ascends((a \o b) \o hw, fwd, count)
        BY <4>5 DEF Full, InOrder
      <4>8. Ascends(a \o hw, fwd, count)
        BY <4>4, <4>7, AscendsCut
      <4> QED
        BY <1>1, <4>2, <4>6, <4>8 DEF InOrder
    <3> QED
      BY <3>1, <3>2
  <2> QED
    BY <1>4, <2>2, <2>4, <2>5, <2>6 DEF Full
<1>6. CASE ~Active
  <2>1. m' = [m EXCEPT !.retry = FALSE] /\ UNCHANGED lost
    BY <1>1, <1>6
  <2>2. /\ m' \in Memory /\ m'.free = m.free /\ m'.data = m.data /\ m'.len = m.len
        /\ m'.buf = m.buf /\ m'.next = m.next /\ m'.told = m.told /\ m'.out = m.out
    BY <1>2, <2>1 DEF Memory
  <2>3. Tidy(m')
    <3>1. Single(m')
      BY <1>2, <2>2 DEF Tidy, Single, Inside
    <3> QED
      BY <1>2, <2>2, <3>1 DEF Tidy
  <2>4. Stream(m') = Stream(m) /\ Same(m, m', Theirs)
    BY <2>2 DEF Stream, Queued, Parts, Part, Current, Same
  <2>5. Handed' /\ InOrder'
    BY <1>1, <2>1, <2>3, <2>4, Rearranged
  <2>6. Linked'
    BY <1>1, <2>2 DEF Full, Linked, Active
  <2> QED
    BY <1>4, <2>3, <2>5, <2>6 DEF Full
<1> QED
  BY <1>5, <1>6

\* The power variant turns the UART on.
LEMMA UartEnableFull ==
  ASSUME Inv, Full, UartEnable PROVE Full'
<1>1. /\ UNCHANGED <<kind, hw, inRx, armed, eol, count, tx, txIrq, fifoTx, sent, bt,
                     pieces, ble, conn, drops, fwd, lost>>
      /\ pw = "enable" /\ pw' = "on" /\ m' = Restarted(m)
  BY DEF UartEnable, rxVars, txVars, btVars, bleVars
<1>2. Tidy(m)
  BY DEF Full
<1>3. /\ Tidy(m') /\ Same(m, m', {}) /\ Queued(m') = Queued(m)
      /\ Current(m') = (IF m.free = {} THEN Current(m) ELSE <<>>)
  BY <1>1, <1>2, RestartedTidy
<1>4. Current(m) = <<>>
  BY <1>1 DEF Full, Linked, Current
<1>5. Stream(m') = Stream(m) /\ Same(m, m', Theirs)
  BY <1>3, <1>4 DEF Stream, Same
<1>6. Handed' /\ InOrder'
  BY <1>1, <1>3, <1>5, Rearranged
<1>7. Limits'
  <2>1. {armed, inRx, txIrq, conn, lost}' \subseteq BOOLEAN
    BY <1>1 DEF Full, Limits
  <2> QED
    BY <1>1, <2>1 DEF Full, Limits
<1>8. Linked'
  BY <1>1 DEF Full, Linked, Active
<1> QED
  BY <1>3, <1>6, <1>7, <1>8 DEF Full

\* The power variant turns the UART off: what was notified is queued, the rest is lost.
LEMMA UartDisableFull ==
  ASSUME Inv, Full, UartDisable PROVE Full'
<1>1. /\ UNCHANGED <<kind, inRx, armed, eol, count, tx, txIrq, fifoTx, sent, bt,
                     pieces, ble, conn, drops, fwd>>
      /\ pw = "disable" /\ pw' = "off" /\ m' = RxDisable(m) /\ hw' = <<>> /\ ~inRx
      /\ lost' = (lost \/ hw # <<>> \/ (m.buf # None /\ Forgets(m, m.len[m.buf])))
  BY DEF UartDisable, txVars, btVars, bleVars
<1>2. Tidy(m) /\ Shape(m) /\ m \in Memory
  BY TidyShape DEF Full, Tidy
<1>3. /\ Tidy(m') /\ Same(m, m', {m.buf, m.next}) /\ m'.buf = None
      /\ Queued(m') = Queued(m) \o (IF m.buf = None THEN <<>> ELSE Part(m, m.buf))
  BY <1>1, <1>2, RxDisableTidy
<1>4. Same(m, m', Theirs)
  BY <1>2, <1>3, SlotsTheirs
<1>5. Handed' /\ Leaving' = Leaving
  BY <1>1, <1>4, OthersKeep
<1>6. lost \in BOOLEAN /\ lost' \in BOOLEAN
  BY <1>1 DEF Full, Limits
<1>7. Limits'
  <2>1. {armed, inRx, txIrq, conn, lost}' \subseteq BOOLEAN
    BY <1>1, <1>6 DEF Full, Limits
  <2>2. hw' \in Seq(Nat) /\ Len(hw') = 0
    BY <1>1
  <2>3. HwSize \in Nat
    BY BridgeAssumption
  <2> QED
    BY <1>1, <2>1, <2>2, <2>3 DEF Full, Limits
<1>8. Linked'
  BY <1>1, <1>3 DEF Full, Linked, Active
<1>9. PICK p, r : /\ p = (IF m.buf = None THEN <<>> ELSE Part(m, m.buf))
                  /\ p \in Seq(Nat) /\ r \in Seq(Nat) /\ p \o r = Current(m)
                  /\ r # <<>> => m.buf # None /\ Forgets(m, m.len[m.buf])
  <2>1. CASE m.buf = None
    <3>1. /\ <<>> \in Seq(Nat) /\ <<>> \o <<>> = <<>> /\ Current(m) = <<>>
      BY <2>1 DEF Current
    <3> QED
      BY <2>1, <3>1
  <2>2. CASE m.buf # None
    <3>1. PICK h, n : h = m.data[m.buf] /\ n = m.len[m.buf]
      OBVIOUS
    <3>2. /\ h \in Seq(Nat) /\ n \in Nat /\ n <= Len(h)
          /\ Current(m) = h /\ Part(m, m.buf) = SubSeq(h, 1, n)
      BY <1>2, <2>2, <3>1 DEF Full, Tidy, Memory, NoBuf, Current, Part
    <3>3. /\ SubSeq(h, 1, n) \in Seq(Nat)
          /\ SubSeq(h, n + 1, Len(h)) \in Seq(Nat) /\ Len(SubSeq(h, n + 1, Len(h))) = Len(h) - n
          /\ SubSeq(h, 1, n) \o SubSeq(h, n + 1, Len(h)) = h
      BY <3>2, CutAfter
    <3>4. PICK p, r : p = SubSeq(h, 1, n) /\ r = SubSeq(h, n + 1, Len(h))
      OBVIOUS
    <3>5. p \in Seq(Nat) /\ r \in Seq(Nat) /\ p \o r = h /\ Len(r) = Len(h) - n
      BY <3>3, <3>4
    <3>6. r # <<>> => Forgets(m, m.len[m.buf])
      <4>1. r # <<>> => Len(r) > 0
        BY <3>5
      <4>2. r # <<>> => Len(h) > n
        BY <3>2, <3>5, <4>1
      <4> QED
        BY <2>2, <3>1, <4>2 DEF Forgets
    <3> QED
      BY <2>2, <3>2, <3>4, <3>5, <3>6
  <2> QED
    BY <2>1, <2>2
<1>10. PICK f, q, h : f = Leaving /\ q = Queued(m) /\ h = hw
  OBVIOUS
<1>11. f \in Seq(Nat) /\ q \in Seq(Nat) /\ h \in Seq(Nat) /\ p \in Seq(Nat) /\ r \in Seq(Nat)
  BY <1>2, <1>9, <1>10, FrontType, PartsType
<1>12. Bytes(f) /\ Bytes(q) /\ Bytes(h) /\ Bytes(p) /\ Bytes(r)
  BY <1>11 DEF Bytes
<1>13. /\ Join(Join(Join(f, q), Join(p, r)), h) = Join(Join(Join(f, q), p), Join(r, h))
       /\ Join(f, Join(q, p)) = Join(Join(f, q), p)
       /\ Bytes(Join(Join(f, q), p)) /\ Bytes(Join(r, h))
  BY <1>12, JoinBytes
<1>14. PICK a, b : a = (f \o q) \o p /\ b = r \o h
  OBVIOUS
<1>15. a \in Seq(Nat) /\ b \in Seq(Nat)
  BY <1>13, <1>14 DEF Bytes, Join
<1>16. Pending = a \o b
  <2>1. Pending = ((f \o q) \o (p \o r)) \o h
    BY <1>9, <1>10, PendingWhole DEF Whole
  <2> QED
    BY <1>13, <1>14, <2>1 DEF Join
<1>17. Pending' = a
  <2>1. Pending' = ((f \o (q \o p)) \o <<>>) \o <<>>
    BY <1>1, <1>3, <1>5, <1>9, <1>10, PendingAfter DEF Whole, Current
  <2>2. f \o (q \o p) = a
    BY <1>13, <1>14 DEF Join
  <2>3. a \o <<>> = a
    BY <1>15, ConcatEmptySeq
  <2> QED
    BY <2>1, <2>2, <2>3
<1>18. InOrder'
  <2>1. Ascends(a \o b, fwd, count) /\ (~lost => Runs(a \o b, fwd, count))
    BY <1>16 DEF Full, InOrder
  <2>2. Ascends(a, fwd, count)
    BY <1>15, <2>1, AscendsFront
  <2>3. ~lost' => b = <<>>
    <3>1. ~lost' => r = <<>> /\ h = <<>>
      BY <1>1, <1>9, <1>10
    <3>2. <<>> \o <<>> = <<>>
      OBVIOUS
    <3> QED
      BY <1>14, <3>1, <3>2
  <2>4. b = <<>> => a \o b = a
    BY <1>15, ConcatEmptySeq
  <2> QED
    BY <1>1, <1>17, <2>1, <2>2, <2>3, <2>4 DEF InOrder
<1> QED
  BY <1>3, <1>5, <1>7, <1>8, <1>18 DEF Full

\* A step that leaves the buffers as they are.
LEMMA BuffersKept ==
  ASSUME Full, UNCHANGED <<kind, pw, m, hw, inRx, conn, ble, fwd, count, lost>>
  PROVE  Tidy(m)' /\ Linked' /\ InOrder'
<1>1. Pending' = Pending
  BY DEF Pending, Contents
<1>2. InOrder'
  BY <1>1, OrderKept DEF Full
<1> QED
  BY <1>2 DEF Full, Linked, Active

\* A buffer outside is freed or was just taken: the bytes to forward are as before.
LEMMA OutsideKept ==
  ASSUME Inv, Full, NEW x \in Buffers, x # ble, Tidy(m)', Same(m, m', {x}),
         Queued(m') = Queued(m), Current(m') = Current(m), m'.buf = m.buf,
         UNCHANGED <<kind, pw, hw, inRx, conn, ble, fwd, count, lost>>
  PROVE  Linked' /\ InOrder' /\ Leaving' = Leaving
<1>1. ble # None => ble \in Buffers
  BY DEF Inv, Placed, NoBuf
<1>2. Leaving' = Leaving
  BY <1>1 DEF Leaving, Part, Same
<1>3. Pending' = Pending
  BY <1>2, PendingWhole, PendingAfter DEF Whole
<1>4. InOrder'
  BY <1>3, OrderKept DEF Full
<1>5. Linked'
  BY DEF Full, Linked, Active
<1> QED
  BY <1>2, <1>4, <1>5

\* The first number of a piece.
LEMMA PieceType ==
  ASSUME NEW b \in Buffers, Tidy(m), Piece(b) PROVE m.data[b][1] \in Nat
<1>1. m.data[b] \in Seq(Nat) /\ Len(m.data[b]) = 1
  BY DEF Tidy, Memory, Piece
<1> QED
  BY <1>1

\* The transmitter.
LEMMA TxFull ==
  ASSUME Inv, Full, TxReady \/ TxComplete PROVE Full'
<1>1. /\ tx \in [buf : NoBuf, left : Int, on : BOOLEAN] /\ (tx.on => tx.buf # None)
      /\ bt.buf \in NoBuf /\ ble \in NoBuf /\ fifoTx \in Seq(Buffers) /\ None \notin Buffers
      /\ TxSize \in Nat
  BY BridgeAssumption DEF Inv, Placed
<1>2. CASE TxReady
  <2>1. /\ UNCHANGED <<kind, pw, m, hw, inRx, armed, eol, count, txIrq, fifoTx, sent, bt,
                       pieces, ble, conn, drops, fwd, lost>>
        /\ \E n \in 1 .. tx.left : tx' = [tx EXCEPT !.left = @ - n]
    BY <1>2 DEF TxReady, pwVars, rxVars, btVars, bleVars
  <2>2. tx'.buf = tx.buf /\ tx'.left \in 0 .. TxSize
    <3>1. PICK n \in 1 .. tx.left : tx' = [tx EXCEPT !.left = @ - n]
      BY <2>1
    <3>2. tx.left \in 0 .. TxSize /\ n \in 1 .. tx.left
      BY DEF Full, Limits
    <3>3. tx'.left = tx.left - n /\ tx'.buf = tx.buf
      BY <1>1, <3>1
    <3> QED
      BY <1>1, <3>2, <3>3
  <2>3. Tidy(m)' /\ Linked' /\ InOrder'
    BY <2>1, BuffersKept
  <2>4. Handed'
    BY <2>1, <2>2 DEF Full, Handed, Piece
  <2>5. Limits'
    <3>1. {armed, inRx, txIrq, conn, lost}' \subseteq BOOLEAN
      BY <2>1 DEF Full, Limits
    <3> QED
      BY <2>1, <2>2, <3>1 DEF Full, Limits
  <2> QED
    BY <2>3, <2>4, <2>5 DEF Full
<1>3. CASE TxComplete
  <2>1. /\ UNCHANGED <<kind, pw, hw, inRx, armed, eol, count, bt, pieces, ble, conn, drops,
                       fwd, lost>>
        /\ tx.buf # None /\ m' = Freed(m, tx.buf)
        /\ sent' = sent \cup {m.data[tx.buf][1]} /\ txIrq' \in BOOLEAN
        /\ \/ /\ fifoTx = <<>> /\ UNCHANGED fifoTx
              /\ tx' = [buf |-> None, left |-> 0, on |-> FALSE]
           \/ fifoTx # <<>> /\ tx' = Sending(Head(fifoTx)) /\ fifoTx' = Tail(fifoTx)
    BY <1>1, <1>3 DEF TxComplete, TxFreed, TxNext, pwVars, rxVars, btVars, bleVars
  <2>2. /\ tx.buf \in Buffers /\ Inside(m, tx.buf) = 0 /\ tx.buf # ble
        /\ tx.buf # bt.buf /\ \A i \in DOMAIN fifoTx : fifoTx[i] # tx.buf
    BY <1>1, <2>1, OutsideApart DEF NoBuf
  <2>3. /\ Tidy(m') /\ Same(m, m', {tx.buf}) /\ Queued(m') = Queued(m)
        /\ Current(m') = Current(m) /\ m'.buf = m.buf
    <3>1. Tidy(m) /\ m \in Memory
      BY DEF Full, Tidy
    <3> QED
      BY <2>1, <2>2, <3>1, FreedTidy, FreedFields
  <2>4. Linked' /\ InOrder' /\ Leaving' = Leaving
    <3>1. PICK x : x = tx.buf
      OBVIOUS
    <3> QED
      BY <2>1, <2>2, <2>3, <3>1, OutsideKept
  <2>5. /\ ble # None => m'.len[ble] = m.len[ble]
        /\ bt.buf # None => m'.data[bt.buf] = m.data[bt.buf]
        /\ \A i \in DOMAIN fifoTx : m'.data[fifoTx[i]] = m.data[fifoTx[i]]
    BY <1>1, <2>2, <2>3 DEF Same, NoBuf
  <2>6. Handed'
    <3>1. /\ ble' # None => m'.len[ble'] > 0
          /\ bt'.buf # None => Piece(bt.buf)'
          /\ \A i \in DOMAIN fifoTx : Len(m'.data[fifoTx[i]]) = 1
                                     /\ m'.data[fifoTx[i]][1] <= pieces'
      BY <2>1, <2>5 DEF Full, Handed, Piece
    <3>2. CASE fifoTx = <<>>
      BY <2>1, <3>1, <3>2 DEF Handed, Piece
    <3>3. CASE fifoTx # <<>>
      <4>1. /\ tx'.buf = fifoTx[1] /\ 1 \in DOMAIN fifoTx
            /\ \A i \in DOMAIN fifoTx' : i + 1 \in DOMAIN fifoTx /\ fifoTx'[i] = fifoTx[i + 1]
        <5>1. PICK q : q = fifoTx
          OBVIOUS
        <5>2. q \in Seq(Buffers) /\ q # <<>>
          BY <1>1, <3>3, <5>1
        <5>3. /\ Head(q) = q[1] /\ Len(q) \in Nat /\ Len(q) > 0 /\ DOMAIN q = 1 .. Len(q)
              /\ DOMAIN Tail(q) = 1 .. Len(q) - 1
              /\ \A i \in 1 .. Len(q) - 1 : Tail(q)[i] = q[i + 1]
          BY <5>2
        <5>4. tx'.buf = Head(q) /\ fifoTx' = Tail(q)
          BY <2>1, <3>3, <5>1 DEF Sending
        <5> QED
          BY <5>1, <5>3, <5>4
      <4> QED
        BY <3>1, <4>1 DEF Handed, Piece
    <3> QED
      BY <3>2, <3>3
  <2>7. Limits'
    <3>1. {armed, inRx, txIrq, conn, lost}' \subseteq BOOLEAN
      BY <2>1 DEF Full, Limits
    <3>2. sent' \subseteq 0 .. MaxPieces
      <4>1. Piece(tx.buf) /\ Tidy(m)
        BY <2>1 DEF Full, Handed
      <4>2. m.data[tx.buf][1] \in Nat /\ m.data[tx.buf][1] <= pieces
        BY <2>2, <4>1, PieceType DEF Piece
      <4>3. pieces \in 0 .. MaxPieces /\ MaxPieces \in Nat /\ sent \subseteq 0 .. MaxPieces
        BY BridgeAssumption DEF Full, Limits
      <4>4. m.data[tx.buf][1] \in 0 .. MaxPieces
        BY <4>2, <4>3
      <4> QED
        BY <2>1, <4>3, <4>4
    <3>3. tx'.left \in 0 .. TxSize
      BY <1>1, <2>1 DEF Sending
    <3> QED
      BY <2>1, <3>1, <3>2, <3>3 DEF Full, Limits
  <2> QED
    BY <2>3, <2>4, <2>6, <2>7 DEF Full
<1> QED
  BY <1>2, <1>3

\* A piece of the peer's data, step by step.
LEMMA BtFull ==
  ASSUME Inv, Full, (\E n \in 1 .. MaxPieces : BtReceive(n)) \/ Bt PROVE Full'
<1>1. /\ bt \in [pc : {"idle", "alloc", "send", "enable", "put"}, buf : NoBuf, todo : Int]
      /\ bt.pc \in {"send", "put"} <=> bt.buf # None
      /\ tx.buf \in NoBuf /\ ble \in NoBuf /\ fifoTx \in Seq(Buffers) /\ None \notin Buffers
      /\ TxSize \in Nat /\ MaxPieces \in Nat /\ Size \in Nat \ {0}
  BY BridgeAssumption DEF Inv, Placed
<1>2. /\ bt.todo \in 0 .. MaxPieces /\ pieces \in 0 .. MaxPieces /\ tx.left \in 0 .. TxSize
      /\ bt.pc = "alloc" => bt.todo > 0 /\ pieces + bt.todo <= MaxPieces
      /\ bt.pc \in {"send", "put", "enable"} => bt.todo > 0 /\ pieces + bt.todo <= MaxPieces + 1
      /\ {armed, inRx, txIrq, conn, lost} \subseteq BOOLEAN
      /\ hw \in Seq(Nat) /\ Len(hw) <= HwSize
      /\ drops \in 0 .. MaxDrops /\ sent \subseteq 0 .. MaxPieces /\ eol \subseteq 1 .. MaxBytes
      /\ count \in 0 .. MaxBytes /\ fwd \in 0 .. count
  BY DEF Full, Limits
<1>3. CASE \E n \in 1 .. MaxPieces : BtReceive(n)
  <2>1. PICK n \in 1 .. MaxPieces : BtReceive(n)
    BY <1>3
  <2>2. /\ UNCHANGED <<kind, pw, m, hw, inRx, armed, eol, count, tx, txIrq, fifoTx, sent,
                       pieces, ble, conn, drops, fwd, lost>>
        /\ bt' = [pc |-> "alloc", buf |-> None, todo |-> n] /\ pieces + n <= MaxPieces
    BY <2>1 DEF BtReceive, pwVars, rxVars, txVars, bleVars
  <2>3. Tidy(m)' /\ Linked' /\ InOrder'
    BY <2>2, BuffersKept
  <2>4. Handed'
    BY <2>2 DEF Full, Handed, Piece
  <2>5. Limits'
    BY <1>2, <2>1, <2>2 DEF Limits
  <2> QED
    BY <2>3, <2>4, <2>5 DEF Full
<1>4. CASE BtAlloc
  <2>1. /\ UNCHANGED <<kind, pw, hw, inRx, armed, eol, count, tx, txIrq, fifoTx, sent, ble,
                       conn, drops, fwd, lost>>
        /\ bt.pc = "alloc"
        /\ \/ /\ UNCHANGED <<m, pieces>> /\ bt' = [pc |-> "idle", buf |-> None, todo |-> 0]
           \/ /\ m.free # {} /\ pieces' = pieces + 1
              /\ m' = [Taken(m, Malloc(m)) EXCEPT !.data[Malloc(m)] = <<pieces + 1>>,
                                                  !.len[Malloc(m)] = 1]
              /\ bt' = [bt EXCEPT !.pc = "send", !.buf = Malloc(m)]
    BY <1>4 DEF BtAlloc, pwVars, rxVars, txVars, bleVars
  <2>2. CASE UNCHANGED <<m, pieces>> /\ bt' = [pc |-> "idle", buf |-> None, todo |-> 0]
    <3>1. Tidy(m)' /\ Linked' /\ InOrder'
      BY <2>1, <2>2, BuffersKept
    <3>2. Handed'
      BY <2>1, <2>2 DEF Full, Handed, Piece
    <3>3. Limits'
      BY <1>1, <1>2, <2>1, <2>2 DEF Limits
    <3> QED
      BY <3>1, <3>2, <3>3 DEF Full
  <2>3. CASE /\ m.free # {} /\ pieces' = pieces + 1
             /\ m' = [Taken(m, Malloc(m)) EXCEPT !.data[Malloc(m)] = <<pieces + 1>>,
                                                 !.len[Malloc(m)] = 1]
             /\ bt' = [bt EXCEPT !.pc = "send", !.buf = Malloc(m)]
    <3>1. PICK x : x = Malloc(m)
      OBVIOUS
    <3>2. m \in Memory /\ Tidy(m) /\ Shape(m) /\ Single(m)
      BY TidyShape DEF Full, Tidy
    <3>3. x \in m.free /\ x \in Buffers
      BY <2>3, <3>1, <3>2 DEF Malloc, Memory
    <3>4. m' = [m EXCEPT !.free = m.free \ {x}, !.data = [m.data EXCEPT ![x] = <<pieces + 1>>],
                         !.len = [m.len EXCEPT ![x] = 1]]
      BY <2>3, <3>1, <3>2 DEF Taken, Memory
    <3>5. /\ m' \in Memory /\ m'.free = m.free \ {x} /\ m'.buf = m.buf /\ m'.next = m.next
          /\ m'.told = m.told /\ m'.out = m.out
          /\ m'.data = [m.data EXCEPT ![x] = <<pieces + 1>>]
          /\ m'.len = [m.len EXCEPT ![x] = 1]
      <4>1. /\ [m.data EXCEPT ![x] = <<pieces + 1>>] \in [Buffers -> Seq(Nat)]
            /\ [m.len EXCEPT ![x] = 1] \in [Buffers -> Nat]
        <5>1. <<pieces + 1>> \in Seq(Nat)
          BY <1>2
        <5> QED
          BY <3>2, <5>1 DEF Memory
      <4>2. m.free \ {x} \in SUBSET Buffers
        BY <3>2 DEF Memory
      <4> QED
        BY <3>2, <3>4, <4>1, <4>2 DEF Memory
    <3>6. /\ m'.data[x] = <<pieces + 1>> /\ m'.len[x] = 1
          /\ \A b \in Buffers : b # x => m'.data[b] = m.data[b] /\ m'.len[b] = m.len[b]
      BY <3>2, <3>3, <3>5 DEF Memory
    <3>7. /\ x # m.buf /\ x # m.next /\ \A i \in DOMAIN m.out : m.out[i] \notin {x}
      <4>1. /\ m.buf # None => m.buf \notin m.free
            /\ m.next # None => m.next \notin m.free
            /\ \A i \in DOMAIN m.out : m.out[i] \notin m.free
        BY <3>2, Apart
      <4>2. x # None
        BY <1>1, <3>3
      <4> QED
        BY <3>3, <4>1, <4>2
    <3>8. Inside(m, x) # 0
      <4>1. Flag(x \in m.free) = 1
        BY <3>3 DEF Flag
      <4>2. Times(m.out, x) \in Nat /\ Holds(m.buf, x) \in Nat /\ Holds(m.next, x) \in Nat
        BY <3>2, <3>3, TimesType DEF Memory, Holds
      <4> QED
        BY <4>1, <4>2 DEF Inside
    <3>9. /\ x # ble /\ x # tx.buf /\ \A i \in DOMAIN fifoTx : fifoTx[i] # x
      BY <1>1, <3>3, <3>8, OutsideApart
    <3>10. Same(m, m', {x})
      BY <3>6 DEF Same
    <3>11. Queued(m') = Queued(m) /\ Current(m') = Current(m)
      <4>1. m.out \in Seq(Buffers) /\ m.buf \in NoBuf
        BY <3>2 DEF Memory
      <4>2. Queued(m') = Queued(m)
        BY <3>5, <3>7, <3>10, <4>1, QueuedSame
      <4> QED
        BY <3>5, <3>6, <3>7, <4>1, <4>2 DEF Current, NoBuf
    <3>12. Tidy(m')
      <4>1. Single(m')
        <5>1. Inv'
          BY <1>4, BtInv DEF Bt
        <5>2. Single(m)'
          <6>1. (Placed /\ Counted => Single(m))'
            BY MemorySingle, PTL
          <6> QED
            BY <5>1, <6>1 DEF Inv
        <5> QED
          BY <5>2
      <4>2. ASSUME NEW b \in Buffers
            PROVE  Len(m'.data[b]) <= Size /\ m'.len[b] <= Len(m'.data[b])
        <5>1. Len(<<pieces + 1>>) = 1
          OBVIOUS
        <5>2. CASE b = x
          <6>1. Len(m'.data[b]) = 1 /\ m'.len[b] = 1
            BY <3>6, <5>1, <5>2
          <6> QED
            BY <1>1, <6>1
        <5>3. CASE b # x
          BY <3>2, <3>6, <5>3 DEF Tidy
        <5> QED
          BY <5>2, <5>3
      <4>3. \A b \in Buffers : b \in m'.free \/ b = m'.next
                               => m'.data[b] = <<>> /\ m'.len[b] = 0
        BY <3>2, <3>5, <3>6, <3>7 DEF Tidy
      <4>4. m'.buf # None => m'.told = m'.len[m'.buf]
        <5>1. m.buf \in NoBuf
          BY <3>2 DEF Memory
        <5> QED
          BY <3>2, <3>5, <3>6, <3>7, <5>1 DEF Tidy, NoBuf
      <4>5. \A i \in DOMAIN m'.out : m'.len[m'.out[i]] > 0
        <5>1. \A i \in DOMAIN m.out : m.out[i] \in Buffers /\ m.out[i] # x
          BY <3>2, <3>7 DEF Memory
        <5> QED
          BY <3>2, <3>5, <3>6, <5>1 DEF Tidy
      <4> QED
        BY <3>5, <4>1, <4>2, <4>3, <4>4, <4>5 DEF Tidy
    <3>13. Linked' /\ InOrder' /\ Leaving' = Leaving
      BY <2>1, <3>3, <3>5, <3>9, <3>10, <3>11, <3>12, OutsideKept
    <3>14. Handed'
      <4>1. ASSUME NEW b \in Buffers, b # x, Piece(b)
            PROVE  Len(m'.data[b]) = 1 /\ m'.data[b][1] <= pieces + 1
        <5>1. m.data[b][1] \in Nat /\ m.data[b][1] <= pieces /\ Len(m.data[b]) = 1
          BY <3>2, <4>1, PieceType DEF Piece
        <5> QED
          BY <1>2, <3>6, <4>1, <5>1
      <4>2. ble # None => m'.len[ble] > 0
        BY <1>1, <3>6, <3>9 DEF Full, Handed, NoBuf
      <4>3. tx.buf # None => Len(m'.data[tx.buf]) = 1 /\ m'.data[tx.buf][1] <= pieces + 1
        BY <1>1, <3>9, <4>1 DEF Full, Handed, NoBuf
      <4>4. \A i \in DOMAIN fifoTx :
              Len(m'.data[fifoTx[i]]) = 1 /\ m'.data[fifoTx[i]][1] <= pieces + 1
        BY <1>1, <3>9, <4>1 DEF Full, Handed
      <4>5. bt'.buf = x /\ Len(m'.data[x]) = 1 /\ m'.data[x][1] <= pieces + 1
        <5>1. Len(<<pieces + 1>>) = 1 /\ <<pieces + 1>>[1] = pieces + 1
          OBVIOUS
        <5>2. bt'.buf = x
          BY <1>1, <2>3, <3>1
        <5> QED
          BY <1>2, <3>6, <5>1, <5>2
      <4> QED
        BY <2>1, <2>3, <4>2, <4>3, <4>4, <4>5 DEF Handed, Piece
    <3>15. Limits'
      <4>1. bt'.pc = "send" /\ bt'.todo = bt.todo
        BY <1>1, <2>3
      <4>2. {armed, inRx, txIrq, conn, lost}' \subseteq BOOLEAN
        BY <1>2, <2>1
      <4>3. pieces' \in 0 .. MaxPieces /\ bt'.todo > 0 /\ pieces' + bt'.todo <= MaxPieces + 1
        <5>1. /\ bt.todo > 0 /\ pieces + bt.todo <= MaxPieces
              /\ pieces' = pieces + 1 /\ pieces \in Nat /\ bt.todo \in Nat
          BY <1>2, <2>1, <2>3
        <5> QED
          BY <1>1, <4>1, <5>1
      <4> QED
        BY <1>2, <2>1, <4>1, <4>2, <4>3 DEF Limits
    <3> QED
      BY <3>12, <3>13, <3>14, <3>15 DEF Full
  <2> QED
    BY <2>1, <2>2, <2>3
<1>5. CASE BtSend
  <2>1. /\ UNCHANGED <<kind, pw, m, hw, inRx, armed, eol, count, txIrq, fifoTx, sent,
                       pieces, ble, conn, drops, fwd, lost>>
        /\ bt.pc = "send"
        /\ \/ tx' = Sending(bt.buf) /\ bt' = [bt EXCEPT !.pc = "enable", !.buf = None]
           \/ bt' = [bt EXCEPT !.pc = "put"] /\ UNCHANGED tx
    BY <1>5 DEF BtSend, pwVars, rxVars, txVars, bleVars
  <2>2. Tidy(m)' /\ Linked' /\ InOrder'
    BY <2>1, BuffersKept
  <2>3. /\ bt.buf # None /\ bt'.pc \in {"enable", "put"} /\ bt'.todo = bt.todo
        /\ tx'.left \in 0 .. TxSize
        /\ \/ tx'.buf = bt.buf /\ bt'.buf = None
           \/ tx'.buf = tx.buf /\ bt'.buf = bt.buf
    <3>1. CASE tx' = Sending(bt.buf) /\ bt' = [bt EXCEPT !.pc = "enable", !.buf = None]
      <4>1. tx'.buf = bt.buf /\ tx'.left = TxSize
        BY <3>1 DEF Sending
      <4>2. bt'.pc = "enable" /\ bt'.buf = None /\ bt'.todo = bt.todo
        BY <1>1, <3>1
      <4> QED
        BY <1>1, <2>1, <4>1, <4>2
    <3>2. CASE bt' = [bt EXCEPT !.pc = "put"] /\ UNCHANGED tx
      BY <1>1, <1>2, <2>1, <3>2
    <3> QED
      BY <2>1, <3>1, <3>2
  <2>4. Handed'
    BY <2>1, <2>3 DEF Full, Handed, Piece
  <2>5. Limits'
    BY <1>2, <2>1, <2>3 DEF Limits
  <2> QED
    BY <2>2, <2>4, <2>5 DEF Full
<1>6. CASE BtEnable \/ BtPut
  <2>1. /\ UNCHANGED <<kind, pw, m, hw, inRx, armed, eol, count, tx, sent,
                       pieces, ble, conn, drops, fwd, lost>>
        /\ bt.pc \in {"enable", "put"} /\ bt' = BtNext /\ txIrq' \in {txIrq, TRUE}
        /\ \/ UNCHANGED fifoTx
           \/ bt.pc = "put" /\ fifoTx' = Append(fifoTx, bt.buf)
    BY <1>6 DEF BtEnable, BtPut, pwVars, rxVars, bleVars
  <2>2. Tidy(m)' /\ Linked' /\ InOrder'
    BY <2>1, BuffersKept
  <2>3. bt'.buf = None /\ bt'.todo = bt.todo - 1
        /\ bt'.pc = IF bt.todo = 1 THEN "idle" ELSE "alloc"
    BY <2>1 DEF BtNext
  <2>4. Handed'
    <3>1. /\ ble # None => m'.len[ble] > 0
          /\ tx'.buf # None => Piece(tx.buf)'
          /\ \A i \in DOMAIN fifoTx : Piece(fifoTx[i])
          /\ bt.buf # None => Piece(bt.buf)
      BY <2>1 DEF Full, Handed, Piece
    <3>2. \A i \in DOMAIN fifoTx' : Piece(fifoTx'[i])
      <4>1. CASE UNCHANGED fifoTx
        BY <3>1, <4>1
      <4>2. CASE bt.pc = "put" /\ fifoTx' = Append(fifoTx, bt.buf)
        <5>1. bt.buf \in Buffers /\ Piece(bt.buf)
          BY <1>1, <3>1, <4>2 DEF NoBuf
        <5>2. PICK q, x : q = fifoTx /\ x = bt.buf
          OBVIOUS
        <5>3. q \in Seq(Buffers) /\ x \in Buffers
          BY <1>1, <5>1, <5>2
        <5>4. \A i \in DOMAIN Append(q, x) :
                Append(q, x)[i] = x \/ (i \in DOMAIN q /\ Append(q, x)[i] = q[i])
          BY <5>3
        <5> QED
          BY <3>1, <4>2, <5>1, <5>2, <5>4
      <4> QED
        BY <2>1, <4>1, <4>2
    <3> QED
      BY <2>1, <2>3, <3>1, <3>2 DEF Handed, Piece
  <2>5. Limits'
    <3>1. {armed, inRx, txIrq, conn, lost}' \subseteq BOOLEAN
      BY <1>2, <2>1
    <3>2. /\ bt'.todo \in 0 .. MaxPieces
          /\ bt'.pc = "alloc" => bt'.todo > 0 /\ pieces + bt'.todo <= MaxPieces
          /\ bt'.pc \in {"idle", "alloc"}
      <4>1. bt.todo > 0 /\ bt.todo \in Nat /\ pieces + bt.todo <= MaxPieces + 1
            /\ bt.todo <= MaxPieces /\ pieces \in Nat
        BY <1>2, <2>1
      <4>2. bt'.todo \in 0 .. MaxPieces
        BY <1>1, <2>3, <4>1
      <4>3. bt'.pc = "alloc" => bt'.todo > 0 /\ pieces + bt'.todo <= MaxPieces
        BY <1>1, <2>3, <4>1
      <4> QED
        BY <2>3, <4>2, <4>3
    <3> QED
      BY <1>2, <2>1, <3>1, <3>2 DEF Limits
  <2> QED
    BY <2>2, <2>4, <2>5 DEF Full
<1> QED
  BY <1>3, <1>4, <1>5, <1>6 DEF Bt

\* ble_write_thread takes a buffer: its bytes are now the first ones.
LEMMA BleTakeFull ==
  ASSUME Inv, Full, BleTake PROVE Full'
<1>1. /\ UNCHANGED <<kind, pw, hw, inRx, armed, eol, count, tx, txIrq, fifoTx, sent, bt,
                     pieces, conn, drops, fwd, lost>>
      /\ ble = None /\ m.out # <<>> /\ ble' = Head(m.out)
      /\ m' = [m EXCEPT !.out = Tail(@)]
  BY DEF BleTake, pwVars, rxVars, txVars, btVars
<1>2. m \in Memory /\ Tidy(m) /\ None \notin Buffers
  BY BridgeAssumption DEF Full, Tidy
<1>3. PICK o : o = m.out
  OBVIOUS
<1>4. /\ o \in Seq(Buffers) /\ o # <<>>
  BY <1>1, <1>2, <1>3 DEF Memory
<1>5. /\ Len(o) \in Nat /\ Len(o) > 0 /\ DOMAIN o = 1 .. Len(o) /\ o[1] \in Buffers
      /\ Head(o) = o[1] /\ Tail(o) \in Seq(Buffers) /\ DOMAIN Tail(o) = 1 .. Len(o) - 1
      /\ Len(Tail(o)) = Len(o) - 1 /\ \A i \in 1 .. Len(o) - 1 : Tail(o)[i] = o[i + 1]
  BY <1>4
<1>6. /\ m' \in Memory /\ m'.free = m.free /\ m'.data = m.data /\ m'.len = m.len
      /\ m'.buf = m.buf /\ m'.next = m.next /\ m'.told = m.told /\ m'.out = Tail(o)
  BY <1>1, <1>2, <1>3, <1>5 DEF Memory
<1>7. ble' = o[1] /\ ble' \in Buffers /\ ble' # None
  BY <1>1, <1>2, <1>3, <1>5
<1>8. Tidy(m')
  <2>1. Single(m')
    <3>1. Inv'
      <4>1. BleTake
        OBVIOUS
      <4> QED
        BY <4>1, BleInv DEF Ble
    <3>2. (Placed /\ Counted => Single(m))'
      BY MemorySingle, PTL
    <3> QED
      BY <3>1, <3>2 DEF Inv
  <2>2. \A i \in DOMAIN Tail(o) : m'.len[m'.out[i]] > 0
    BY <1>2, <1>3, <1>5, <1>6 DEF Tidy
  <2> QED
    BY <1>2, <1>6, <2>1, <2>2 DEF Tidy
<1>9. Handed'
  <2>1. m.len[o[1]] > 0
    BY <1>2, <1>3, <1>5 DEF Tidy
  <2> QED
    BY <1>1, <1>6, <1>7, <2>1 DEF Full, Handed, Piece
<1>10. Limits'
  <2>1. {armed, inRx, txIrq, conn, lost}' \subseteq BOOLEAN
    BY <1>1 DEF Full, Limits
  <2> QED
    BY <1>1, <2>1 DEF Full, Limits
<1>11. Linked'
  BY <1>1, <1>6 DEF Full, Linked, Active
<1>12. PICK h : h = Part(m, o[1])
  OBVIOUS
<1>13. h \in Seq(Nat)
  BY <1>2, <1>5, <1>12, PartsType
<1>14. Queued(m) = h \o Queued(m')
  <2>1. PICK p : p = Parts(m)
    OBVIOUS
  <2>2. p \in Seq(Seq(Nat)) /\ Len(p) = Len(o)
    BY <1>2, <1>3, <2>1, PartsType
  <2>3. p # <<>>
    BY <1>5, <2>2
  <2>4. DOMAIN p = 1 .. Len(o) /\ Head(p) = p[1]
    BY <1>5, <2>2, <2>3
  <2>5. Head(p) = h
    BY <1>3, <1>5, <1>12, <2>1, <2>4 DEF Parts
  <2>6. Parts(m') = Tail(p)
    <3>1. /\ Tail(p) \in Seq(Seq(Nat)) /\ Len(Tail(p)) = Len(p) - 1
          /\ \A i \in 1 .. Len(Tail(p)) : Tail(p)[i] = p[i + 1]
      BY <2>2, <2>3, HeadTailProperties
    <3>2. Parts(m') \in Seq(Seq(Nat)) /\ Len(Parts(m')) = Len(Tail(o))
      BY <1>6, <1>8, PartsType
    <3>3. ASSUME NEW i \in 1 .. Len(o) - 1 PROVE Parts(m')[i] = p[i + 1]
      <4>1. i + 1 \in DOMAIN o /\ Tail(o)[i] = o[i + 1] /\ i \in DOMAIN Tail(o)
        BY <1>5
      <4>2. Parts(m')[i] = Part(m', Tail(o)[i])
        BY <1>6, <4>1 DEF Parts
      <4> QED
        BY <1>3, <1>6, <2>1, <4>1, <4>2 DEF Parts, Part
    <3>4. PICK t, u : t = Tail(p) /\ u = Parts(m')
      OBVIOUS
    <3>5. /\ t \in Seq(Seq(Nat)) /\ u \in Seq(Seq(Nat)) /\ Len(t) = Len(u)
          /\ \A i \in 1 .. Len(t) : t[i] = u[i]
      BY <1>5, <2>2, <3>1, <3>2, <3>3, <3>4
    <3>6. t = u
      BY <3>5, SeqEqual
    <3> QED
      BY <3>4, <3>6
  <2>7. FlattenSeq(p) = Head(p) \o FlattenSeq(Tail(p))
    BY <2>2, <2>3, FlattenTail
  <2> QED
    BY <2>1, <2>5, <2>6, <2>7 DEF Queued
<1>15. Leaving' = h
  BY <1>6, <1>7, <1>12 DEF Leaving, Part
<1>16. Pending' = Pending
  <2>1. Pending = ((<<>> \o Queued(m)) \o Current(m)) \o hw
    BY <1>1, PendingWhole DEF Whole, Leaving
  <2>2. <<>> \o Queued(m) = Queued(m)
    BY <1>2, PartsType, ConcatEmptySeq
  <2>3. Pending' = ((h \o Queued(m')) \o Current(m')) \o hw'
    BY <1>15, PendingAfter DEF Whole
  <2>4. Current(m') = Current(m) /\ hw' = hw
    BY <1>1, <1>6 DEF Current
  <2> QED
    BY <1>14, <2>1, <2>2, <2>3, <2>4
<1>17. InOrder'
  BY <1>1, <1>16, OrderKept DEF Full
<1> QED
  BY <1>8, <1>9, <1>10, <1>11, <1>17 DEF Full

\* ble_write_thread sends its buffer, or loses it, and frees it.
LEMMA BleSendFull ==
  ASSUME Inv, Full, BleSend PROVE Full'
<1>1. /\ UNCHANGED <<kind, pw, hw, inRx, armed, eol, count, tx, txIrq, fifoTx, sent, bt,
                     pieces, conn, drops>>
      /\ ble # None /\ ble' = None /\ m' = Freed(m, ble)
      /\ \/ fwd' = m.data[ble][m.len[ble]] /\ UNCHANGED lost
         \/ lost' = TRUE /\ UNCHANGED fwd
  BY DEF BleSend, pwVars, rxVars, txVars, btVars
<1>2. /\ m \in Memory /\ Tidy(m) /\ ble \in Buffers /\ None \notin Buffers
  BY <1>1, BridgeAssumption DEF Full, Tidy, Inv, Placed, NoBuf
<1>3. /\ Inside(m, ble) = 0 /\ ble # tx.buf /\ ble # bt.buf
      /\ \A i \in DOMAIN fifoTx : fifoTx[i] \in Buffers /\ fifoTx[i] # ble
      /\ tx.buf \in NoBuf /\ bt.buf \in NoBuf
  BY <1>1, OutsideApart DEF Inv, Placed
<1>4. /\ Tidy(m') /\ Same(m, m', {ble}) /\ Queued(m') = Queued(m)
      /\ Current(m') = Current(m) /\ m'.buf = m.buf
  BY <1>1, <1>2, <1>3, FreedTidy, FreedFields
<1>5. Handed'
  <2>1. /\ bt.buf # None => m'.data[bt.buf] = m.data[bt.buf]
        /\ tx.buf # None => m'.data[tx.buf] = m.data[tx.buf]
        /\ \A i \in DOMAIN fifoTx : m'.data[fifoTx[i]] = m.data[fifoTx[i]]
    BY <1>3, <1>4 DEF Same, NoBuf
  <2> QED
    BY <1>1, <2>1 DEF Full, Handed, Piece
<1>6. Linked'
  BY <1>1, <1>4 DEF Full, Linked, Active
<1>7. PICK a, q, c, h : a = Leaving /\ q = Queued(m) /\ c = Current(m) /\ h = hw
  OBVIOUS
<1>8. /\ a \in Seq(Nat) /\ q \in Seq(Nat) /\ c \in Seq(Nat) /\ h \in Seq(Nat)
  BY <1>2, <1>7, FrontType, PartsType
<1>9. /\ Len(a) = m.len[ble] /\ Len(a) > 0 /\ a[Len(a)] = m.data[ble][m.len[ble]]
  <2>1. a = SubSeq(m.data[ble], 1, m.len[ble])
    BY <1>1, <1>7 DEF Leaving, Part
  <2>2. Len(a) = m.len[ble]
    BY <1>1, <1>2, <1>7, PartsType DEF Leaving
  <2>3. m.len[ble] \in Nat /\ m.len[ble] > 0 /\ m.data[ble] \in Seq(Nat)
        /\ m.len[ble] <= Len(m.data[ble])
    BY <1>1, <1>2 DEF Full, Tidy, Memory, Handed
  <2>4. PICK d, n : d = m.data[ble] /\ n = m.len[ble]
    OBVIOUS
  <2>5. SubSeq(d, 1, n)[n] = d[n]
    BY <2>3, <2>4
  <2> QED
    BY <2>1, <2>2, <2>3, <2>4, <2>5
<1>10. PICK b : b = (q \o c) \o h
  OBVIOUS
<1>11. Bytes(a) /\ Bytes(q) /\ Bytes(c) /\ Bytes(h)
  BY <1>8 DEF Bytes
<1>12. /\ Join(Join(Join(a, q), c), h) = Join(a, Join(Join(q, c), h))
       /\ Bytes(Join(Join(q, c), h))
  <2>1. Bytes(Join(q, c)) /\ Join(a, Join(q, c)) = Join(Join(a, q), c)
    BY <1>11, JoinBytes
  <2>2. PICK d : d = Join(q, c)
    OBVIOUS
  <2>3. Bytes(a) /\ Bytes(d) /\ Bytes(h)
    BY <1>11, <2>1, <2>2
  <2>4. Join(a, Join(d, h)) = Join(Join(a, d), h)
    BY <2>3, JoinBytes
  <2>5. Bytes(Join(d, h))
    BY <2>3, JoinBytes
  <2> QED
    BY <2>1, <2>2, <2>4, <2>5
<1>13. b \in Seq(Nat) /\ Pending = a \o b
  <2>1. Pending = ((a \o q) \o c) \o h
    BY <1>7, PendingWhole DEF Whole
  <2> QED
    BY <1>10, <1>12, <2>1 DEF Join, Bytes
<1>14. Pending' = b
  <2>1. Pending' = ((<<>> \o q) \o c) \o h
    BY <1>1, <1>4, <1>7, PendingAfter DEF Whole, Leaving
  <2>2. <<>> \o q = q
    BY <1>8, ConcatEmptySeq
  <2> QED
    BY <1>10, <2>1, <2>2
<1>15. fwd \in Nat /\ count \in Nat /\ fwd <= count /\ lost \in BOOLEAN
  BY DEF Full, Limits
<1>16. Ascends(a \o b, fwd, count) /\ (~lost => Runs(a \o b, fwd, count))
  BY <1>13 DEF Full, InOrder
<1>17. /\ a[Len(a)] \in Nat /\ a[Len(a)] <= count /\ Ascends(b, a[Len(a)], count)
       /\ Runs(a \o b, fwd, count) => Runs(b, a[Len(a)], count)
  BY <1>8, <1>9, <1>13, <1>15, <1>16, AscendsBack
<1>18. Ascends(b, fwd, count)
  BY <1>8, <1>13, <1>16, AscendsEnd
<1>19. InOrder'
  BY <1>1, <1>9, <1>14, <1>16, <1>17, <1>18 DEF InOrder
<1>20. Limits'
  <2>1. {armed, inRx, txIrq, conn, lost}' \subseteq BOOLEAN
    BY <1>1 DEF Full, Limits
  <2>2. fwd' \in 0 .. count'
    BY <1>1, <1>9, <1>15, <1>17
  <2> QED
    BY <1>1, <2>1, <2>2 DEF Full, Limits
<1> QED
  BY <1>4, <1>5, <1>6, <1>19, <1>20 DEF Full

\* The peer comes and goes.
LEMMA ConnectionFull ==
  ASSUME Inv, Full, Disconnected \/ Connected PROVE Full'
<1>1. /\ UNCHANGED <<kind, m, hw, inRx, armed, eol, count, tx, txIrq, fifoTx, sent, bt,
                     pieces, ble, fwd, lost>>
      /\ \/ /\ conn /\ pw = "on" /\ drops < MaxDrops /\ drops' = drops + 1 /\ conn' = FALSE
            /\ pw' = IF kind = "power" THEN "disable" ELSE pw
         \/ /\ ~conn /\ pw # "disable" /\ conn' = TRUE /\ ~inRx /\ UNCHANGED drops
            /\ pw' = IF kind = "power" THEN "enable" ELSE pw
  BY DEF Disconnected, Connected, rxVars, txVars, btVars
<1>2. /\ kind \in {"always", "power"} /\ pw \in {"boot", "off", "enable", "on", "disable"}
      /\ kind = "always" => pw = "on"
  BY DEF Inv, Powered
<1>3. Pending' = Pending
  BY <1>1 DEF Pending, Contents
<1>4. InOrder'
  BY <1>1, <1>3, OrderKept DEF Full
<1>5. Tidy(m)' /\ Handed'
  BY <1>1 DEF Full, Handed, Piece
<1>6. Limits'
  <2>1. {armed, inRx, txIrq, conn, lost}' \subseteq BOOLEAN
    BY <1>1 DEF Full, Limits
  <2>2. drops' \in 0 .. MaxDrops
    BY <1>1, BridgeAssumption DEF Full, Limits
  <2> QED
    BY <1>1, <2>1, <2>2 DEF Full, Limits
<1>7. Linked'
  <2>1. CASE kind = "always"
    BY <1>1, <1>2, <2>1 DEF Linked, Active
  <2>2. CASE kind = "power"
    BY <1>1, <1>2, <2>2 DEF Full, Linked, Active
  <2> QED
    BY <1>2, <2>1, <2>2
<1> QED
  BY <1>4, <1>5, <1>6, <1>7 DEF Full

LEMMA NextFull == Inv /\ Full /\ [Next]_vars => Full'
<1> SUFFICES ASSUME Inv, Full, [Next]_vars PROVE Full'
  OBVIOUS
<1>1. CASE UartByte \/ RxReady \/ RxTimeout \/ UartWork
  BY <1>1, UartByteFull, RxReadyFull, RxTimeoutFull, UartWorkFull
<1>2. CASE TxReady \/ TxComplete
  BY <1>2, TxFull
<1>3. CASE (\E n \in 1 .. MaxPieces : BtReceive(n)) \/ Bt
  BY <1>3, BtFull
<1>4. CASE Ble \/ Disconnected \/ Connected
  BY <1>4, BleTakeFull, BleSendFull, ConnectionFull DEF Ble
<1>5. CASE UartDisable \/ UartEnable
  BY <1>5, UartDisableFull, UartEnableFull
<1>6. CASE UNCHANGED vars
  <2>1. UNCHANGED <<kind, pw, m, hw, inRx, armed, eol, count, tx, txIrq, fifoTx, sent, bt,
                    pieces, ble, conn, drops, fwd, lost>>
    BY <1>6 DEF vars, pwVars, rxVars, txVars, btVars, bleVars
  <2>2. Tidy(m)' /\ Linked' /\ InOrder'
    BY <2>1, BuffersKept
  <2>3. Handed'
    BY <2>1 DEF Full, Handed, Piece
  <2>4. Limits'
    <3>1. {armed, inRx, txIrq, conn, lost}' \subseteq BOOLEAN
      BY <2>1 DEF Full, Limits
    <3> QED
      BY <2>1, <3>1 DEF Full, Limits
  <2> QED
    BY <2>2, <2>3, <2>4 DEF Full
<1> QED
  BY <1>1, <1>2, <1>3, <1>4, <1>5, <1>6 DEF Next

LEMMA FullInvariance == Spec => []Full
<1>1. Init => Full
  BY InitFull
<1>2. Inv /\ Full /\ [Next]_vars => Full'
  BY NextFull
<1> QED
  BY <1>1, <1>2, Invariance, PTL DEF Spec

\* The invariant holds the types: the UART keeps the bytes that arrived last.
LEMMA FullTypes == Inv /\ Full /\ kind \in Kinds => TypeOK
<1> SUFFICES ASSUME Inv, Full, kind \in Kinds PROVE TypeOK
  OBVIOUS
<1>1. /\ TxSize \in Nat /\ MaxPieces \in Nat /\ MaxBytes \in Nat /\ MaxDrops \in Nat
  BY BridgeAssumption
<1>2. /\ pw \in {"boot", "off", "enable", "on", "disable"} /\ (kind = "always" => pw = "on")
      /\ tx \in [buf : NoBuf, left : Int, on : BOOLEAN] /\ fifoTx \in Seq(Buffers)
      /\ bt \in [pc : {"idle", "alloc", "send", "enable", "put"}, buf : NoBuf, todo : Int]
      /\ ble \in NoBuf
  BY DEF Inv, Placed, Powered
<1>3. /\ m \in Memory
      /\ \A b \in Buffers : Len(m.data[b]) <= Size /\ m.len[b] <= Len(m.data[b])
  BY DEF Full, Tidy
<1>4. hw \in Seq(1 .. MaxBytes) /\ Len(hw) <= HwSize
  <2>1. PICK a, h : a = Leaving \o Stream(m) /\ h = hw
    OBVIOUS
  <2>2. a \in Seq(Nat) /\ h \in Seq(Nat) /\ Pending = a \o h
    BY <2>1, FrontType
  <2>3. Ascends(a \o h, fwd, count)
    BY <2>2 DEF Full, InOrder
  <2>4. Ascends(h, fwd, count)
    BY <2>2, <2>3, AscendsEnd
  <2>5. fwd \in Nat /\ count \in Nat /\ count <= MaxBytes
    BY <1>1 DEF Full, Limits
  <2>6. \A i \in 1 .. Len(h) : h[i] \in 1 .. MaxBytes
    BY <1>1, <2>2, <2>4, <2>5 DEF Ascends
  <2>7. h \in Seq(1 .. MaxBytes)
    <3>1. h \in [1 .. Len(h) -> 1 .. MaxBytes] /\ Len(h) \in Nat
      BY <2>2, <2>6
    <3> QED
      BY <3>1, SeqDef
  <2> QED
    BY <2>1, <2>7 DEF Full, Limits
<1>5. inRx \in BOOLEAN /\ armed \in BOOLEAN /\ txIrq \in BOOLEAN /\ conn \in BOOLEAN
      /\ lost \in BOOLEAN
  BY DEF Full, Limits
<1>6. tx \in [buf : NoBuf, left : 0 .. TxSize, on : BOOLEAN]
  BY <1>2 DEF Full, Limits
<1>7. bt \in [pc : {"idle", "alloc", "send", "enable", "put"}, buf : NoBuf,
              todo : 0 .. MaxPieces]
  BY <1>2 DEF Full, Limits
<1>8. /\ eol \subseteq 1 .. MaxBytes /\ count \in 0 .. MaxBytes /\ pieces \in 0 .. MaxPieces
      /\ drops \in 0 .. MaxDrops /\ fwd \in 0 .. MaxBytes /\ sent \subseteq 0 .. MaxPieces
  BY <1>1 DEF Full, Limits
<1> QED
  BY <1>2, <1>3, <1>4, <1>5, <1>6, <1>7, <1>8 DEF TypeOK, Numbered

LEMMA KindStays == Spec => [](kind \in Kinds)
<1>1. Init => kind \in Kinds
  BY DEF Init
<1>2. kind \in Kinds /\ [Next]_vars => (kind \in Kinds)'
  BY DEF Next, vars, pwVars, UartByte, RxReady, RxTimeout, UartWork, TxReady, TxComplete,
         BtReceive, Bt, BtAlloc, BtSend, BtEnable, BtPut, Ble, BleTake, BleSend, Disconnected,
         Connected, UartDisable, UartEnable
<1> QED
  BY <1>1, <1>2, PTL DEF Spec

\* The state of the adapter, the buffers' contents and every counter stay in their
\* ranges: no buffer of either direction is filled beyond UART_BUF_SIZE, none is said to
\* hold more than it does, and the UART never keeps more than it can.
THEOREM TypeCorrect == Spec => []TypeOK
<1>1. Inv /\ Full /\ kind \in Kinds => TypeOK
  BY FullTypes
<1> QED
  BY <1>1, Invariance, FullInvariance, KindStays, PTL

LEMMA FullInOrder == Inv /\ Full => ForwardsInOrder
<1> SUFFICES ASSUME Inv, Full PROVE ForwardsInOrder
  OBVIOUS
<1>1. Ascends(Pending, fwd, count) /\ (~lost => Runs(Pending, fwd, count))
  BY DEF Full, InOrder
<1>2. PICK p : p = Pending
  OBVIOUS
<1>3. p \in Seq(Nat) /\ DOMAIN p = 1 .. Len(p) /\ Len(p) \in Nat
  BY <1>1, <1>2 DEF Ascends
<1>4. ASSUME NEW i \in DOMAIN p PROVE p[i] > IF i = 1 THEN fwd ELSE p[i - 1]
  <2>1. fwd < p[i] /\ p[i] \in Nat /\ fwd \in Nat
    BY <1>1, <1>2, <1>3 DEF Ascends, Full, Limits
  <2>2. CASE i = 1
    BY <2>1, <2>2
  <2>3. CASE i # 1
    <3>1. i - 1 \in 1 .. Len(p) /\ i \in 1 .. Len(p) /\ i - 1 < i
      BY <1>3, <2>3
    <3>2. p[i - 1] < p[i] /\ p[i - 1] \in Nat
      BY <1>1, <1>2, <1>3, <3>1 DEF Ascends
    <3> QED
      BY <2>1, <2>3, <3>2
  <2> QED
    BY <2>2, <2>3
<1>5. ~lost => fwd + Len(p) = count
  BY <1>1, <1>2 DEF Runs
<1> QED
  BY <1>2, <1>4, <1>5 DEF ForwardsInOrder

\* Bytes of the UART reach the peer in the order they came in, none twice, and none is
\* missing unless it was dropped for want of memory or of a connection, whatever the
\* order in which interrupts, timer, work item and threads take their steps.
THEOREM ForwardedInOrder == Spec => []ForwardsInOrder
<1>1. Inv /\ Full => ForwardsInOrder
  BY FullInOrder
<1> QED
  BY <1>1, Invariance, FullInvariance, PTL
=============================================================================

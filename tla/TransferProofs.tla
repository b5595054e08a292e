--------------------------- MODULE TransferProofs ---------------------------
(***************************************************************************)
(* The transfer of a file is safe for files, packets, blocks and pages of  *)
(* any size, and any number of attempts, lost frames, late answers, flash  *)
(* errors and disconnections, as long as what Gentle says is kept.         *)
(***************************************************************************)
EXTENDS Transfer, SequenceTheorems, TLAPS
-----------------------------------------------------------------------------
(* The invariant.                                                           *)

\* What the code needs: the user waits, the connection holds once file data is on its
\* way, writes reach the flash, every block but for its last packet is full, and the
\* bank has room.
Gentle ==
  /\ Patient /\ ~MayDrop /\ "write" \notin LoseReqOf \cup SlowOps \cup FailOps
  /\ \A k \in Nat : k * Block < FileLen => k * Block + PktLen * (SendCount - 1) < FileLen
  /\ FileLen <= Page * Pages

\* The bank holds the first o units of the file, and is blank where the rest goes.
Prefix(b, o) == \A i \in 1 .. FileLen : b[i - 1] = IF i <= o THEN i ELSE Blank

\* Where block and packet boundaries are, from offset o on.
Boundary(o) == \E k \in Nat : o = k * Block
At(o, i) == Least(o + PktLen * i, FileLen)
Sizes == c.size = FileLen /\ p.size = FileLen

NoFrame == req = None /\ n = None /\ rsp = None

\* A request q that is no write, with the bank b.
OfSetup(q, b) ==
  /\ q.op # "write"
  /\ q.op = "erase" => q.at = PagesOf(FileLen)
  /\ q.op = "done" => q.at = FileLen /\ Holds(b)

\* The request that is being made is for op.
Making(op) == p.mode \in {"host", "deaf", "received"} /\ p.op = op
Called(op) == cb # None /\ cb.op = op

\* One frame at a time, and none but of the request that is being made, once the first
\* answer of an attempt was taken.
OneFrame ==
  /\ req # None => p.mode = "host" /\ req.op = p.op /\ (p.op # "info" => n = None /\ rsp = None)
  /\ n # None => rsp = None
  /\ p.mode = "host" /\ p.op # "info" =>
       /\ n # None => req = None /\ n.op = p.op
       /\ rsp # None => req = None /\ rsp.op = p.op
  /\ p.mode = "received" \/ cb # None => NoFrame
  /\ cb # None => p.mode = "idle"
  /\ p.mode \in {"host", "deaf", "received"} => p.op \in Ops
  /\ p.mode = "deaf" => p.op = "info"

\* One thing at a time happens: writes on the air, an event, a notification, a request or
\* what its answer calls.
OneToken ==
  /\ air # <<>> => notes = <<>> /\ sched = <<>> /\ cb = None /\ p.mode \in {"idle", "slave"}
  /\ notes # <<>> => sched = <<>> /\ cb = None /\ p.mode \in {"idle", "slave"}
  /\ sched # <<>> => cb = None /\ (Head(sched).ev = "rsp" <=> p.mode = "received")
                     /\ p.mode \in {"idle", "slave", "received"}
  /\ p.mode = "received" => sched # <<>>
  /\ Len(notes) <= 1 /\ Len(sched) <= 1
  /\ ~connected => air = <<>> /\ notes = <<>> /\ p.offset = 0 /\ c.index = 0

\* Before the first packet, after the last block, or nothing at all.
Setup ==
  /\ p.offset = 0 /\ p.buf = <<>> /\ c.count = 0
  /\ Len(air) <= 1 /\ (air # <<>> => Head(air).flag \in {"start", "size"})
  /\ air # <<>> /\ Head(air).flag = "size" => c.index = 0 /\ c.size = FileLen
  /\ notes # <<>> => Head(notes) = "size"
  /\ sched # <<>> => Head(sched).ev \in {"rsp", "size"}
  /\ ~Making("write") /\ ~Called("write")
  /\ Making("info") \/ Making("erase") \/ Called("info") \/ Called("erase") => Sizes /\ c.index = 0
  /\ req # None => OfSetup(req, bank)
  /\ n # None => OfSetup(n, bank)
  /\ rsp # None => rsp.op # "write" /\ (rsp.op = "erase" /\ rsp.ok => Prefix(bank, 0))
  /\ p.mode = "received" /\ p.op = "erase" /\ Head(sched).ok => Prefix(bank, 0)
  /\ Called("erase") /\ cb.ok => Prefix(bank, 0)

\* The next block was asked for.
Asked ==
  /\ Sizes /\ NoFrame /\ cb = None /\ p.mode = "idle" /\ air = <<>>
  /\ ~(sched = <<>> /\ notes = <<>>)
  /\ sched # <<>> => Head(sched).ev = "data"
  /\ notes # <<>> => Head(notes) = "data"
  /\ p.buf = <<>> /\ c.count = 0 /\ c.index = p.offset /\ p.offset < FileLen
  /\ Boundary(p.offset) /\ Prefix(bank, p.offset)

\* The writes q carry the packets of the block at o that follow its first b ones.
Carries(q, o, b) ==
  \A i \in DOMAIN q :
    /\ q[i].flag = "data"
    /\ q[i].data = SubSeq(File, At(o, b + i - 1) + 1, At(o, b + i))

\* Packets of the block are sent; so many of them are in the buffer.
InBuf == SendCount - c.count - Len(air)
Sending ==
  /\ Sizes /\ NoFrame /\ cb = None /\ p.mode = "idle" /\ sched = <<>> /\ notes = <<>>
  /\ p.offset < FileLen /\ Boundary(p.offset) /\ Prefix(bank, p.offset)
  /\ InBuf \in 0 .. SendCount - 1
  /\ c.index = At(p.offset, SendCount - c.count) /\ c.index > 0
  /\ p.buf = SubSeq(File, p.offset + 1, At(p.offset, InBuf))
  /\ Carries(air, p.offset, InBuf)
  /\ c.count > 0 => txc > 0

\* q writes what is missing in the bank b before offset o.
Completes(q, b, o) ==
  /\ q.op = "write" /\ q.at \in 0 .. o /\ q.data = SubSeq(File, q.at + 1, o)
  /\ Prefix(b, q.at)

\* A block is written.
Writing ==
  /\ Sizes /\ air = <<>> /\ notes = <<>>
  /\ p.buf = <<>> /\ c.count = 0 /\ c.index = p.offset /\ p.offset > 0
  /\ p.offset = FileLen \/ Boundary(p.offset)
  /\ Making("write") \/ Called("write")
  /\ p.mode # "deaf"
  /\ sched # <<>> => Head(sched).ev = "rsp"
  /\ req # None => Completes(req, bank, p.offset)
  /\ n # None => Completes(n, bank, p.offset)
  /\ req = None /\ n = None => Prefix(bank, p.offset)

Inv == TypeOK /\ OneFrame /\ OneToken /\ (Setup \/ Asked \/ Sending \/ Writing)

-----------------------------------------------------------------------------
(* Blocks, packets and pages.                                               *)

LEMMA Products ==
  ASSUME NEW a \in Nat, NEW i \in Nat, NEW j \in Nat
  PROVE  /\ a * i \in Nat /\ a * (i + 1) = a * i + a
         /\ i <= j => a * i <= a * j
         /\ a * 0 = 0 /\ i * a = a * i
<1>1. a * i \in Nat /\ a * (i + 1) = a * i + a /\ a * 0 = 0 /\ i * a = a * i
  OBVIOUS
<1>2. ASSUME i <= j
      PROVE  a * i <= a * j
  <2>1. PICK d \in Nat : j = i + d
    BY <1>2
  <2>2. a * (i + d) = a * i + a * d /\ a * d \in Nat /\ a * i \in Nat
    OBVIOUS
  <2> QED
    BY <2>1, <2>2
<1> QED
  BY <1>1, <1>2

\* CEIL_DIV: the pages that are erased cover the file.
LEMMA PagesCover ==
  ASSUME NEW s \in Nat
  PROVE  PagesOf(s) \in Nat /\ s <= PagesOf(s) * Page
<1>1. Page \in Nat \ {0}
  BY TransferAssumption
<1> DEFINE q == (s + Page - 1) \div Page
           r == (s + Page - 1) % Page
<1>2. q \in Int /\ r \in 0 .. Page - 1 /\ s + Page - 1 = Page * q + r
  BY <1>1
<1>3. q \in Nat
  BY <1>1
<1> HIDE DEF q, r
<1>4. s <= Page * q /\ Page * q = q * Page
  BY <1>1, <1>2, <1>3
<1> QED
  BY <1>3, <1>4 DEF PagesOf, q

LEMMA Constants ==
  /\ PktLen \in Nat \ {0} /\ SendCount \in Nat \ {0} /\ FileLen \in Nat \ {0}
  /\ Page \in Nat \ {0} /\ Pages \in Nat \ {0} /\ Block \in Nat \ {0}
  /\ Block = PktLen * SendCount
  /\ Block = PktLen * (SendCount - 1) + PktLen
<1>1. PktLen \in Nat \ {0} /\ SendCount \in Nat \ {0}
  BY TransferAssumption
<1>2. SendCount - 1 \in Nat /\ SendCount = (SendCount - 1) + 1
  BY <1>1
<1>3. PktLen * SendCount = PktLen * (SendCount - 1) + PktLen /\ PktLen * (SendCount - 1) \in Nat
  BY <1>1, <1>2, Products
<1> QED
  BY <1>1, <1>3, TransferAssumption DEF Block

\* The packets of a block that begins at o.
LEMMA Packets ==
  ASSUME Gentle, NEW o \in Nat, Boundary(o), o < FileLen
  PROVE  /\ At(o, 0) = o
         /\ \A i \in 0 .. SendCount - 1 :
              /\ At(o, i) \in o .. FileLen - 1 /\ At(o, i) <= o + Block - PktLen
              /\ At(o, i + 1) = At(o, i) + Least(PktLen, FileLen - At(o, i))
              /\ At(o, i + 1) \in At(o, i) + 1 .. FileLen
         /\ At(o, SendCount) = FileLen \/ At(o, SendCount) = o + Block
         /\ At(o, SendCount) = FileLen \/ Boundary(At(o, SendCount))
<1>1. /\ PktLen \in Nat \ {0} /\ SendCount \in Nat \ {0} /\ FileLen \in Nat \ {0}
      /\ Block \in Nat \ {0} /\ Block = PktLen * SendCount
      /\ Block = PktLen * (SendCount - 1) + PktLen
  BY Constants
<1>2. PICK k \in Nat : o = k * Block
  BY DEF Boundary
<1>3. o + PktLen * (SendCount - 1) < FileLen
  BY <1>2 DEF Gentle
<1>4. PktLen * 0 = 0 /\ At(o, 0) = o
  <2>1. PktLen * 0 = 0
    BY <1>1
  <2> QED
    BY <2>1 DEF At, Least
<1>5. ASSUME NEW i \in 0 .. SendCount - 1
      PROVE  /\ At(o, i) \in o .. FileLen - 1 /\ At(o, i) <= o + Block - PktLen
             /\ At(o, i + 1) = At(o, i) + Least(PktLen, FileLen - At(o, i))
             /\ At(o, i + 1) \in At(o, i) + 1 .. FileLen
  <2>1. i \in Nat /\ SendCount - 1 \in Nat /\ i <= SendCount - 1
    BY <1>1
  <2>2. /\ PktLen * i \in Nat /\ PktLen * (i + 1) = PktLen * i + PktLen
        /\ PktLen * i <= PktLen * (SendCount - 1) /\ PktLen * (SendCount - 1) \in Nat
    BY <1>1, <2>1, Products
  <2> DEFINE x == PktLen * i
             y == PktLen * (SendCount - 1)
             z == PktLen * (i + 1)
  <2>3. x \in Nat /\ y \in Nat /\ x <= y /\ z = x + PktLen /\ o + y < FileLen /\ Block = y + PktLen
    BY <1>1, <1>3, <2>2
  <2>4. At(o, i) = Least(o + x, FileLen) /\ At(o, i + 1) = Least(o + z, FileLen)
    BY DEF At
  <2> HIDE DEF x, y, z
  <2>5. At(o, i) = o + x
    BY <1>1, <2>3, <2>4 DEF Least
  <2> QED
    BY <1>1, <2>3, <2>4, <2>5 DEF Least
<1>6. At(o, SendCount) = Least(o + Block, FileLen)
  BY <1>1 DEF At
<1>7. Boundary(o + Block)
  <2>1. (k + 1) * Block = k * Block + Block
    BY <1>1, <1>2
  <2> QED
    BY <1>2, <2>1 DEF Boundary
<1> QED
  BY <1>4, <1>5, <1>6, <1>7 DEF Least

\* Parts of the file.
LEMMA Parts ==
  ASSUME NEW a \in 0 .. FileLen, NEW b \in a .. FileLen
  PROVE  /\ SubSeq(File, a + 1, b) \in Seq(1 .. FileLen) /\ Len(SubSeq(File, a + 1, b)) = b - a
         /\ \A i \in 1 .. b - a : SubSeq(File, a + 1, b)[i] = a + i
         /\ \A d \in b .. FileLen :
              SubSeq(File, a + 1, b) \o SubSeq(File, b + 1, d) = SubSeq(File, a + 1, d)
         /\ SubSeq(File, a + 1, a) = <<>>
<1>1. FileLen \in Nat \ {0}
  BY Constants
<1>2. File \in Seq(1 .. FileLen) /\ Len(File) = FileLen /\ \A i \in 1 .. FileLen : File[i] = i
  BY <1>1 DEF File
<1>3. SubSeq(File, a + 1, b) \in Seq(1 .. FileLen) /\ Len(SubSeq(File, a + 1, b)) = b - a
      /\ \A i \in 1 .. b - a : SubSeq(File, a + 1, b)[i] = a + i
  BY <1>1, <1>2
<1>4. ASSUME NEW d \in b .. FileLen
      PROVE  SubSeq(File, a + 1, b) \o SubSeq(File, b + 1, d) = SubSeq(File, a + 1, d)
  <2>1. a + 1 \in 1 .. Len(File) + 1 /\ b \in (a + 1) - 1 .. Len(File) /\ d \in b .. Len(File)
    BY <1>1, <1>2
  <2> QED
    BY <1>2, <2>1, ConcatAdjacentSubSeq
<1>5. SubSeq(File, a + 1, a) = <<>>
  BY <1>1, <1>2
<1> QED
  BY <1>3, <1>4, <1>5

-----------------------------------------------------------------------------
(* Types.                                                                   *)

CTypes ==
  /\ c \in [index : 0 .. FileLen, size : {0, FileLen}, count : 0 .. SendCount]
  /\ air \in Seq([flag : {"start", "size", "data"}, data : Seq(1 .. FileLen)])
  /\ txc \in Nat /\ notes \in Seq({"size", "data"})
  /\ starts \in 0 .. MaxStarts /\ faults \in 0 .. MaxFaults
PTypes ==
  /\ p \in [size : Nat, offset : 0 .. FileLen, buf : Seq(1 .. FileLen),
            mode : {"idle", "host", "deaf", "received", "slave"}, op : Ops \cup {None}]
  /\ sched \in Seq([ev : {"rsp", "size", "data"}, ok : BOOLEAN])
  /\ cb \in Answers \cup {None}
NTypes ==
  /\ req \in Frames \cup {None} /\ n \in Frames \cup {None}
  /\ rsp \in Answers \cup {None}
  /\ bank \in [Cells -> 1 .. FileLen \cup {Blank, Mixed}] /\ done \in Nat

LEMMA TypeParts ==
  /\ TypeOK <=> CTypes /\ PTypes /\ NTypes /\ connected \in BOOLEAN
  /\ TypeOK' <=> CTypes' /\ PTypes' /\ NTypes' /\ connected' \in BOOLEAN
<1>1. TypeOK <=> CTypes /\ PTypes /\ NTypes /\ connected \in BOOLEAN
  BY Zenon DEF TypeOK, CTypes, PTypes, NTypes
<1>2. TypeOK' <=> CTypes' /\ PTypes' /\ NTypes' /\ connected' \in BOOLEAN
  BY Zenon DEF TypeOK, CTypes, PTypes, NTypes
<1> QED
  BY <1>1, <1>2

LEMMA TailOf ==
  ASSUME NEW S, NEW q \in Seq(S), q # <<>>
  PROVE  /\ Tail(q) \in Seq(S) /\ Len(Tail(q)) = Len(q) - 1
         /\ \A i \in DOMAIN Tail(q) : i + 1 \in DOMAIN q /\ Tail(q)[i] = q[i + 1]
         /\ Head(q) \in S /\ Head(q) = q[1] /\ 1 \in DOMAIN q
         /\ Len(q) \in Nat /\ Len(q) >= 1
OBVIOUS

LEMMA OneTail ==
  ASSUME NEW S, NEW q \in Seq(S), q # <<>>, Len(q) <= 1
  PROVE  Tail(q) = <<>>
<1>1. Tail(q) \in Seq(S) /\ Len(Tail(q)) = Len(q) - 1 /\ Len(q) \in Nat /\ Len(q) >= 1
  BY TailOf
<1>2. Len(Tail(q)) = 0
  BY <1>1
<1> QED
  BY <1>1, <1>2

LEMMA Appended ==
  ASSUME NEW S, NEW q \in Seq(S), NEW x \in S
  PROVE  /\ Append(q, x) \in Seq(S) /\ Len(Append(q, x)) = Len(q) + 1
         /\ Len(q) \in Nat /\ Append(q, x) # <<>>
         /\ \A i \in DOMAIN q : i \in DOMAIN Append(q, x) /\ Append(q, x)[i] = q[i]
         /\ Append(q, x)[Len(q) + 1] = x
         /\ DOMAIN Append(q, x) = 1 .. Len(q) + 1 /\ DOMAIN q = 1 .. Len(q)
OBVIOUS

LEMMA OneAppended ==
  ASSUME NEW S, NEW x \in S
  PROVE  /\ Append(<<>>, x) \in Seq(S) /\ Len(Append(<<>>, x)) = 1
         /\ Append(<<>>, x) # <<>> /\ Head(Append(<<>>, x)) = x
OBVIOUS

LEMMA InitInv == Init => Inv
<1> SUFFICES ASSUME Init PROVE Inv
  OBVIOUS
<1>1. CTypes /\ PTypes
  BY TransferAssumption DEF Init, CTypes, PTypes
<1>2. NTypes
  BY DEF Init, NTypes
<1>3. TypeOK
  BY <1>1, <1>2, TypeParts DEF Init
<1>4. OneFrame /\ OneToken
  BY DEF Init, OneFrame, OneToken, NoFrame
<1>5. Setup
  BY DEF Init, Setup, Making, Called
<1> QED
  BY <1>3, <1>4, <1>5 DEF Inv

-----------------------------------------------------------------------------
(* The central.                                                             *)

\* A button that is pressed when nothing goes on begins an attempt.
LEMMA PressInv ==
  ASSUME Gentle, Inv, Press
  PROVE  Inv'
<1>1. /\ air = <<>> /\ txc = 0 /\ notes = <<>> /\ sched = <<>> /\ cb = None /\ req = None
      /\ p.mode = "idle" /\ connected /\ starts < MaxStarts
      /\ starts' = starts + 1 /\ air' = Append(air, [flag |-> "start", data |-> <<>>])
      /\ txc' = txc + 1 /\ c' = c /\ notes' = notes /\ connected' = connected /\ p' = p
      /\ sched' = sched /\ cb' = cb /\ req' = req /\ rsp' = rsp /\ n' = n /\ bank' = bank
      /\ done' = done /\ faults' = faults
  BY DEF Press, Quiet, Gentle, Writes, pVars, nVars
<1>2. CTypes /\ PTypes /\ NTypes
  BY TypeParts DEF Inv
<1>3. Setup
  <2>1. ~Asked
    BY <1>1 DEF Asked
  <2>2. ~Writing
    BY <1>1 DEF Writing, Making, Called
  <2>3. ~Sending
    <3>1. Len(air) = 0 /\ c.count \in 0 .. SendCount /\ SendCount \in Nat
      BY <1>1, <1>2, Constants DEF CTypes
    <3> QED
      BY <1>1, <3>1 DEF Sending, InBuf
  <2> QED
    BY <2>1, <2>2, <2>3 DEF Inv
<1>4. [flag |-> "start", data |-> <<>>] \in [flag : {"start", "size", "data"}, data : Seq(1 .. FileLen)]
  OBVIOUS
<1>5. /\ air' \in Seq([flag : {"start", "size", "data"}, data : Seq(1 .. FileLen)])
      /\ air' # <<>> /\ Len(air') = 1 /\ Head(air').flag = "start"
  <2> DEFINE w == [flag |-> "start", data |-> <<>>]
  <2>1. air' = Append(<<>>, w) /\ w \in [flag : {"start", "size", "data"}, data : Seq(1 .. FileLen)]
        /\ w.flag = "start"
    BY <1>1, <1>4
  <2> HIDE DEF w
  <2> QED
    BY <2>1, OneAppended
<1>6. TypeOK'
  <2>1. starts' \in 0 .. MaxStarts /\ txc' \in Nat
    BY <1>1, <1>2, TransferAssumption DEF CTypes
  <2>2. CTypes'
    BY <1>1, <1>2, <1>5, <2>1 DEF CTypes
  <2>3. PTypes'
    BY <1>1, <1>2 DEF PTypes
  <2>4. NTypes' /\ connected' \in BOOLEAN
    BY <1>1, <1>2 DEF NTypes
  <2> QED
    BY <2>2, <2>3, <2>4, TypeParts
<1>7. OneFrame'
  BY <1>1 DEF Inv, OneFrame, NoFrame
<1>8. OneToken'
  BY <1>1 DEF Inv, OneToken
<1>9. Setup'
  BY <1>1, <1>3, <1>5 DEF Setup, Making, Called, Sizes
<1> QED
  BY <1>6, <1>7, <1>8, <1>9 DEF Inv

\* What is on the air, and in the central.
WriteRecs == [flag : {"start", "size", "data"}, data : Seq(1 .. FileLen)]
CentralRecs == [index : 0 .. FileLen, size : {0, FileLen}, count : 0 .. SendCount]

\* A central s that has packets of the block at p.offset to send sends the next one.
LEMMA Sends ==
  ASSUME Gentle, NEW s \in CentralRecs, NEW t \in Nat, SendImg(s, t), air \in Seq(WriteRecs),
         NEW o \in Nat, Boundary(o), o < FileLen, s.size = FileLen, s.count > 0,
         NEW b \in Int, b = SendCount - s.count - Len(air), b \in 0 .. SendCount - 1,
         s.index = At(o, SendCount - s.count),
         Carries(air, o, b)
  PROVE  /\ c' \in CentralRecs /\ c'.size = FileLen /\ c'.count = s.count - 1
         /\ c'.index = At(o, SendCount - c'.count) /\ c'.index > 0
         /\ air' \in Seq(WriteRecs) /\ Len(air') = Len(air) + 1 /\ Len(air) \in Nat
         /\ Carries(air', o, b)
         /\ txc' = t + 1
<1> DEFINE k == SendCount - s.count
           len == Least(PktLen, s.size - s.index)
           pkt == SubSeq(File, s.index + 1, s.index + len)
           w == [flag |-> "data", data |-> pkt]
<1>1. PktLen \in Nat \ {0} /\ SendCount \in Nat \ {0} /\ FileLen \in Nat \ {0}
  BY Constants
<1>2. k \in 0 .. SendCount - 1 /\ k + 1 = SendCount - (s.count - 1) /\ s.count - 1 \in 0 .. SendCount
  BY <1>1 DEF CentralRecs
<1>3. /\ At(o, k) \in o .. FileLen - 1
      /\ At(o, k + 1) = At(o, k) + Least(PktLen, FileLen - At(o, k))
      /\ At(o, k + 1) \in At(o, k) + 1 .. FileLen
  BY <1>2, Packets
<1>4. s.index = At(o, k) /\ len = Least(PktLen, FileLen - At(o, k)) /\ s.index + len = At(o, k + 1)
  BY <1>3
<1>5. s.index # s.size /\ s.count # 0
  BY <1>1, <1>3, <1>4
<1>6. /\ c' = [s EXCEPT !.index = s.index + len, !.count = s.count - 1]
      /\ air' = Append(air, w) /\ txc' = t + 1
  BY <1>5 DEF SendImg, Writes
<1> HIDE DEF len
<1>7. pkt = SubSeq(File, At(o, k) + 1, At(o, k + 1))
  <2>1. s.index = At(o, k) /\ s.index + len = At(o, k + 1)
    BY <1>4
  <2> DEFINE Part(x, y) == SubSeq(File, x + 1, y)
  <2>2. pkt = Part(s.index, s.index + len)
    OBVIOUS
  <2> HIDE DEF Part, pkt
  <2>3. pkt = Part(At(o, k), At(o, k + 1))
    BY <2>1, <2>2
  <2> QED
    BY <2>3 DEF Part
<1> HIDE DEF pkt
<1>8. At(o, k) \in 0 .. FileLen /\ At(o, k + 1) \in At(o, k) .. FileLen /\ At(o, k + 1) > 0
  BY <1>1, <1>3
<1>9. pkt \in Seq(1 .. FileLen)
  BY <1>7, <1>8, Parts
<1>10. w \in WriteRecs /\ w.flag = "data" /\ w.data = pkt
  BY <1>9 DEF WriteRecs
<1>11. /\ c' \in CentralRecs /\ c'.size = FileLen /\ c'.count = s.count - 1
       /\ c'.index = At(o, k + 1)
  <2>1. c' = [s EXCEPT !.index = At(o, k + 1), !.count = s.count - 1]
    BY <1>4, <1>6
  <2>2. At(o, k + 1) \in 0 .. FileLen /\ s.count - 1 \in 0 .. SendCount
    BY <1>1, <1>2, <1>8
  <2> HIDE DEF k
  <2> QED
    BY <2>1, <2>2 DEF CentralRecs
<1> HIDE DEF w
<1>12. /\ air' \in Seq(WriteRecs) /\ Len(air') = Len(air) + 1 /\ Len(air) \in Nat
       /\ \A i \in DOMAIN air : i \in DOMAIN air' /\ air'[i] = air[i]
       /\ air'[Len(air) + 1] = w
       /\ DOMAIN air' = 1 .. Len(air) + 1 /\ DOMAIN air = 1 .. Len(air)
  BY <1>6, <1>10, Appended
<1>13. ASSUME NEW i \in DOMAIN air'
       PROVE  /\ air'[i].flag = "data"
              /\ air'[i].data = SubSeq(File, At(o, b + i - 1) + 1, At(o, b + i))
  <2>1. CASE i \in DOMAIN air
    BY <1>12, <2>1 DEF Carries
  <2>2. CASE i \notin DOMAIN air
    <3>1. i = Len(air) + 1
      BY <1>12, <2>2
    <3>2. b + i - 1 = k /\ b + i = k + 1
      <4>1. Len(air) \in Nat /\ s.count \in Nat
        BY <1>1, <1>12 DEF CentralRecs
      <4> QED
        <5>1. k \in Int /\ b = k - Len(air)
          BY <1>1, <1>2, <4>1
        <5> HIDE DEF k
        <5> QED
          BY <3>1, <4>1, <5>1
    <3> QED
      BY <1>7, <1>10, <1>12, <3>1, <3>2
  <2> QED
    BY <2>1, <2>2
<1> QED
  BY <1>2, <1>6, <1>8, <1>11, <1>12, <1>13 DEF Carries

\* A notification is answered by the size, or by the first packet of a block.
LEMMA CentralNotifiedInv ==
  ASSUME Gentle, Inv, CentralNotified
  PROVE  Inv'
<1>1. /\ notes # <<>> /\ txc = 0 /\ notes' = Tail(notes) /\ connected' = connected /\ starts' = starts
      /\ p' = p /\ sched' = sched /\ cb' = cb /\ req' = req /\ rsp' = rsp /\ n' = n /\ bank' = bank
      /\ done' = done /\ faults' = faults
      /\ OnRequestInfo \/ OnSendingReady
  BY DEF CentralNotified, pVars, nVars
<1>2. CTypes /\ PTypes /\ NTypes /\ connected \in BOOLEAN
  BY TypeParts DEF Inv
<1>3. PTypes' /\ NTypes' /\ connected' \in BOOLEAN
  BY <1>1, <1>2 DEF PTypes, NTypes
<1>4. /\ sched = <<>> /\ cb = None /\ p.mode \in {"idle", "slave"} /\ air = <<>> /\ connected
      /\ Len(notes) <= 1
  BY <1>1 DEF Inv, OneToken
<1>5. notes' = <<>>
  BY <1>1, <1>2, <1>4, OneTail DEF CTypes
<1>6. OneFrame'
  BY <1>1 DEF Inv, OneFrame, NoFrame
<1>7. ASSUME air' # <<>>
      PROVE  OneToken'
  BY <1>1, <1>4, <1>5, <1>7 DEF Inv, OneToken
<1>8. CASE Setup
  <2> DEFINE w == [flag |-> "size", data |-> <<>>]
  <2>1. Head(notes) = "size"
    BY <1>1, <1>8 DEF Setup
  <2>2. /\ c' = [c EXCEPT !.index = 0, !.size = FileLen] /\ txc' = txc + 1
        /\ air' = Append(<<>>, w)
    BY <1>1, <1>4, <2>1 DEF OnRequestInfo, OnSendingReady, Writes
  <2>3. w \in WriteRecs /\ w.flag = "size"
    BY DEF WriteRecs
  <2> HIDE DEF w
  <2>4. air' \in Seq(WriteRecs) /\ Len(air') = 1 /\ air' # <<>> /\ Head(air') = w
    BY <2>2, <2>3, OneAppended
  <2>5. c' \in CentralRecs /\ c'.index = 0 /\ c'.size = FileLen /\ c'.count = c.count
    <3>1. c \in CentralRecs /\ 0 \in 0 .. FileLen /\ FileLen \in {0, FileLen}
      BY <1>2, Constants DEF CTypes, CentralRecs
    <3> QED
      BY <2>2, <3>1 DEF CentralRecs
  <2>6. CTypes'
    BY <1>1, <1>2, <1>5, <2>2, <2>4, <2>5 DEF CTypes, WriteRecs, CentralRecs
  <2>7. Setup'
    BY <1>1, <1>4, <1>5, <1>8, <2>3, <2>4, <2>5 DEF Setup, Making, Called
  <2> QED
    BY <1>3, <1>6, <1>7, <2>4, <2>6, <2>7, TypeParts DEF Inv
<1>9. CASE Asked
  <2> DEFINE s == [c EXCEPT !.count = SendCount]
             o == p.offset
  <2>1. Head(notes) = "data"
    BY <1>1, <1>9 DEF Asked
  <2>2. SendImg(s, 0)
    BY <1>1, <2>1 DEF OnRequestInfo, OnSendingReady
  <2>3. /\ s \in CentralRecs /\ s.size = FileLen /\ s.count = SendCount /\ s.index = o
        /\ air \in Seq(WriteRecs) /\ Len(air) = 0 /\ DOMAIN air = {}
        /\ SendCount \in Nat \ {0} /\ FileLen \in Nat \ {0}
    <3>1. SendCount \in Nat \ {0} /\ FileLen \in Nat \ {0}
      BY Constants
    <3>2. s \in CentralRecs /\ s.size = FileLen /\ s.count = SendCount /\ s.index = o
      BY <1>2, <1>9, <3>1 DEF CTypes, CentralRecs, Asked, Sizes
    <3>3. air \in Seq(WriteRecs) /\ Len(air) = 0 /\ DOMAIN air = {}
      BY <1>4
    <3> QED
      BY <3>1, <3>2, <3>3
  <2>4. o \in Nat /\ Boundary(o) /\ o < FileLen /\ At(o, 0) = o /\ Prefix(bank, o) /\ o \in 0 .. FileLen
    <3>1. o \in Nat /\ Boundary(o) /\ o < FileLen /\ Prefix(bank, o) /\ o \in 0 .. FileLen
      BY <1>2, <1>9, Constants DEF PTypes, Asked
    <3> QED
      BY <3>1, Packets
  <2> HIDE DEF s, o
  <2>5. SendCount - s.count - Len(air) = 0 /\ SendCount - s.count = 0 /\ s.count > 0
        /\ 0 \in 0 .. SendCount - 1
    BY <2>3
  <2>15. Carries(air, o, 0)
    BY <2>3 DEF Carries
  <2>6. /\ c' \in CentralRecs /\ c'.size = FileLen /\ c'.count = SendCount - 1
        /\ c'.index = At(o, SendCount - c'.count) /\ c'.index > 0
        /\ air' \in Seq(WriteRecs) /\ Len(air') = 1
        /\ Carries(air', o, 0)
        /\ txc' = 1
    BY <2>2, <2>3, <2>4, <2>5, <2>15, Sends
  <2>7. SubSeq(File, o + 1, At(o, 0)) = <<>>
    BY <2>4, Parts
  <2>8. CTypes'
    BY <1>1, <1>2, <1>5, <2>6 DEF CTypes, WriteRecs, CentralRecs
  <2>9. InBuf' = 0 /\ air' # <<>> /\ txc' > 0
    <3>1. c'.count = SendCount - 1 /\ Len(air') = 1 /\ txc' = 1 /\ SendCount \in Nat
      BY <2>3, <2>6
    <3> QED
      BY <3>1 DEF InBuf
  <2>10. Sending'
    <3>1. Sizes' /\ NoFrame' /\ cb' = None /\ p'.mode = "idle" /\ sched' = <<>> /\ notes' = <<>>
      BY <1>1, <1>4, <1>5, <1>9, <2>6 DEF Sizes, Asked, NoFrame
    <3>2. p'.offset = o /\ p'.buf = <<>>
      BY <1>1, <1>9 DEF Asked, o
    <3>3. p'.buf = SubSeq(File, p'.offset + 1, At(p'.offset, InBuf'))
      BY <2>7, <2>9, <3>2
    <3>4. Carries(air', p'.offset, InBuf')
      BY <2>6, <2>9, <3>2
    <3>5. InBuf' \in 0 .. SendCount - 1 /\ c'.index = At(p'.offset, SendCount - c'.count) /\ c'.index > 0
      BY <2>5, <2>6, <2>9, <3>2
    <3> QED
      BY <1>1, <2>4, <2>9, <3>1, <3>2, <3>3, <3>4, <3>5 DEF Sending
  <2> QED
    BY <1>3, <1>6, <1>7, <2>8, <2>9, <2>10, TypeParts DEF Inv
<1> QED
  BY <1>1, <1>8, <1>9 DEF Inv, Sending, Writing

\* A write is completed: while a block is sent, the next packet follows.
LEMMA TxCompleteInv ==
  ASSUME Gentle, Inv, TxComplete
  PROVE  Inv'
<1>1. /\ txc > 0 /\ SendImg(c, txc - 1)
      /\ notes' = notes /\ connected' = connected /\ starts' = starts
      /\ p' = p /\ sched' = sched /\ cb' = cb /\ req' = req /\ rsp' = rsp /\ n' = n /\ bank' = bank
      /\ done' = done /\ faults' = faults
  BY DEF TxComplete, pVars, nVars
<1>2. CTypes /\ PTypes /\ NTypes /\ connected \in BOOLEAN
  BY TypeParts DEF Inv
<1>3. PTypes' /\ NTypes' /\ connected' \in BOOLEAN
  BY <1>1, <1>2 DEF PTypes, NTypes
<1>4. txc - 1 \in Nat
  BY <1>1, <1>2 DEF CTypes
<1>5. OneFrame'
  BY <1>1 DEF Inv, OneFrame, NoFrame
<1>6. CASE c.count = 0
  <2>1. c' = c /\ air' = air /\ txc' = txc - 1
    BY <1>1, <1>6 DEF SendImg
  <2>2. CTypes'
    BY <1>1, <1>2, <1>4, <2>1 DEF CTypes
  <2>3. OneToken'
    BY <1>1, <2>1 DEF Inv, OneToken
  <2>4. ASSUME Setup
        PROVE  Setup'
    BY <1>1, <2>1, <2>4 DEF Setup, Making, Called, Sizes
  <2>5. ASSUME Asked
        PROVE  Asked'
    BY <1>1, <2>1, <2>5 DEF Asked, Sizes, NoFrame
  <2>6. ASSUME Writing
        PROVE  Writing'
    BY <1>1, <2>1, <2>6 DEF Writing, Making, Called, Sizes
  <2>7. ASSUME Sending
        PROVE  Sending'
    <3>1. InBuf' = InBuf
      BY <2>1 DEF InBuf
    <3>2. Carries(air', p'.offset, InBuf')
      BY <1>1, <2>1, <2>7, <3>1 DEF Sending
    <3> QED
      BY <1>1, <1>6, <2>1, <2>7, <3>1, <3>2 DEF Sending, Sizes, NoFrame
  <2> QED
    BY <1>3, <1>5, <2>2, <2>3, <2>4, <2>5, <2>6, <2>7, TypeParts DEF Inv
<1>7. CASE c.count # 0
  <2> DEFINE o == p.offset
             b == InBuf
  <2>1. Sending
    BY <1>7 DEF Inv, Setup, Asked, Writing
  <2>2. /\ c \in CentralRecs /\ air \in Seq(WriteRecs) /\ c.count \in Nat \ {0} /\ c.size = FileLen
        /\ SendCount \in Nat \ {0} /\ FileLen \in Nat \ {0} /\ Len(air) \in Nat
    BY <1>2, <1>7, <2>1, Constants DEF CTypes, CentralRecs, WriteRecs, Sending, Sizes
  <2>3. /\ o \in Nat /\ Boundary(o) /\ o < FileLen /\ Prefix(bank, o)
        /\ c.index = At(o, SendCount - c.count) /\ p.buf = SubSeq(File, o + 1, At(o, b))
    BY <1>2, <2>1, <2>2 DEF PTypes, Sending
  <2>4. b \in Int /\ b = SendCount - c.count - Len(air) /\ b \in 0 .. SendCount - 1
    BY <2>1, <2>2 DEF Sending, InBuf
  <2>5. Carries(air, o, b)
    BY <2>1 DEF Sending
  <2> HIDE DEF o, b
  <2>6. c.count > 0
    BY <2>2
  <2>7. /\ c' \in CentralRecs /\ c'.size = FileLen /\ c'.count = c.count - 1
        /\ c'.index = At(o, SendCount - c'.count) /\ c'.index > 0
        /\ air' \in Seq(WriteRecs) /\ Len(air') = Len(air) + 1
        /\ Carries(air', o, b)
        /\ txc' = txc - 1 + 1
    BY <1>1, <1>4, <2>2, <2>3, <2>4, <2>5, <2>6, Sends
  <2>8. txc' > 0 /\ txc' \in Nat /\ air' # <<>> /\ InBuf' = b
    <3>1. txc' = txc /\ txc \in Nat
      BY <1>2, <2>7 DEF CTypes
    <3>2. c'.count = c.count - 1 /\ Len(air') = Len(air) + 1
      BY <2>7
    <3> QED
      BY <1>1, <2>2, <2>4, <3>1, <3>2 DEF InBuf
  <2>9. CTypes'
    BY <1>1, <1>2, <2>7, <2>8 DEF CTypes, WriteRecs, CentralRecs
  <2>10. c.index > 0
    BY <2>1 DEF Sending
  <2>11. connected /\ notes = <<>> /\ sched = <<>> /\ cb = None /\ p.mode = "idle"
    BY <2>1, <2>10 DEF Inv, OneToken, Sending
  <2>12. OneToken'
    BY <1>1, <2>8, <2>11 DEF Inv, OneToken
  <2>13. p'.offset = o /\ p'.buf = SubSeq(File, p'.offset + 1, At(p'.offset, InBuf'))
    BY <1>1, <2>3, <2>8 DEF o
  <2>14. Sizes' /\ NoFrame'
    BY <1>1, <2>1, <2>7 DEF Sending, Sizes, NoFrame
  <2>15. Carries(air', p'.offset, InBuf')
    BY <2>7, <2>8, <2>13
  <2>16. InBuf' \in 0 .. SendCount - 1 /\ c'.index = At(p'.offset, SendCount - c'.count) /\ c'.index > 0
    BY <2>4, <2>7, <2>8, <2>13
  <2>17. Sending'
    BY <1>1, <2>3, <2>8, <2>11, <2>13, <2>14, <2>15, <2>16 DEF Sending
  <2> QED
    BY <1>3, <1>5, <2>9, <2>12, <2>17, TypeParts DEF Inv
<1> QED
  BY <1>6, <1>7

-----------------------------------------------------------------------------
(* The peripheral.                                                          *)

PeriphRecs == [size : Nat, offset : 0 .. FileLen, buf : Seq(1 .. FileLen),
               mode : {"idle", "host", "deaf", "received", "slave"}, op : Ops \cup {None}]
EventRecs == [ev : {"rsp", "size", "data"}, ok : BOOLEAN]

LEMMA OnBleWriteInv ==
  ASSUME Gentle, Inv, OnBleWrite
  PROVE  Inv'
<1>1. /\ air # <<>> /\ air' = Tail(air)
      /\ StartDfu \/ ImgSize \/ ImgData
      /\ c' = c /\ txc' = txc /\ notes' = notes /\ connected' = connected /\ starts' = starts
      /\ cb' = cb /\ rsp' = rsp /\ n' = n /\ bank' = bank /\ done' = done /\ faults' = faults
  BY DEF OnBleWrite, nVars
<1>2. CTypes /\ PTypes /\ NTypes /\ connected \in BOOLEAN
  BY TypeParts DEF Inv
<1>3. /\ notes = <<>> /\ sched = <<>> /\ cb = None /\ p.mode \in {"idle", "slave"} /\ connected
  BY <1>1 DEF Inv, OneToken
<1>4. req = None
  BY <1>3 DEF Inv, OneFrame
<1>5. CTypes'
  <2>1. air' \in Seq(WriteRecs)
    BY <1>1, <1>2, TailOf DEF CTypes, WriteRecs
  <2> QED
    BY <1>1, <1>2, <2>1 DEF CTypes, WriteRecs
<1>6. connected' \in BOOLEAN
  BY <1>1, <1>2
<1>7. CASE Setup /\ Head(air).flag = "start"
  <2> DEFINE e == [ev |-> "size", ok |-> TRUE]
  <2>1. p' = p /\ req' = req /\ sched' = Append(<<>>, e)
    BY <1>1, <1>3, <1>7 DEF StartDfu, ImgSize, ImgData, Event
  <2>2. e \in EventRecs /\ e.ev = "size"
    BY DEF EventRecs
  <2> HIDE DEF e
  <2>3. /\ sched' \in Seq(EventRecs) /\ Len(sched') = 1
        /\ sched' # <<>> /\ Head(sched').ev = "size"
    BY <2>1, <2>2, OneAppended
  <2>4. air' = <<>>
    BY <1>1, <1>2, <1>7, OneTail DEF CTypes, Setup
  <2>5. PTypes' /\ NTypes'
    BY <1>1, <1>2, <2>1, <2>3 DEF PTypes, NTypes, PeriphRecs, EventRecs
  <2>6. OneFrame'
    BY <1>1, <2>1 DEF Inv, OneFrame, NoFrame
  <2>7. OneToken'
    BY <1>1, <1>3, <2>1, <2>3, <2>4 DEF Inv, OneToken
  <2>8. Setup'
    BY <1>1, <1>3, <1>7, <2>1, <2>3, <2>4 DEF Setup, Making, Called, Sizes
  <2> QED
    BY <1>5, <1>6, <2>5, <2>6, <2>7, <2>8, TypeParts DEF Inv
<1>8. CASE Setup /\ Head(air).flag = "size"
  <2> DEFINE s == [p EXCEPT !.size = FileLen]
  <2>1. Request(s, "info", 0, <<>>) /\ sched' = sched
    BY <1>1, <1>8 DEF StartDfu, ImgSize, ImgData
  <2>2. /\ s \in PeriphRecs
        /\ s.size = FileLen /\ s.offset = p.offset /\ s.buf = p.buf /\ s.mode = p.mode
        /\ s.op = p.op
    BY <1>2, Constants DEF PTypes, PeriphRecs
  <2> HIDE DEF s
  <2>3. air' = <<>>
    BY <1>1, <1>2, <1>8, OneTail DEF CTypes, Setup
  <2>4. c.index = 0 /\ c.size = FileLen
    BY <1>1, <1>8 DEF Setup
  <2>5. CASE p.mode = "idle"
    <3>1. /\ p' \in PeriphRecs
          /\ p'.size = FileLen /\ p'.offset = p.offset /\ p'.buf = p.buf
          /\ p'.mode = "host" /\ p'.op = "info"
          /\ req' \in Frames /\ req' # None /\ req'.op = "info"
      <4>1. "info" \in Ops /\ 0 \in Nat /\ <<>> \in Seq(1 .. FileLen)
        BY DEF Ops
      <4>2. s.mode = "idle"
        BY <2>2, <2>5
      <4>3. /\ p' = [s EXCEPT !.mode = "host", !.op = "info"]
            /\ req' = [op |-> "info", at |-> 0, data |-> <<>>]
        BY <2>1, <4>2 DEF Request
      <4>4. p' \in PeriphRecs /\ req' \in Frames
        BY <2>2, <4>1, <4>3 DEF PeriphRecs, Frames
      <4> QED
        BY <2>2, <4>3, <4>4, NoneAssumption DEF PeriphRecs
    <3>2. PTypes' /\ NTypes'
      BY <1>1, <1>2, <2>1, <3>1 DEF PTypes, NTypes, PeriphRecs, EventRecs
    <3>3. OneFrame'
      BY <1>1, <1>3, <3>1 DEF Inv, OneFrame, Ops
    <3>4. OneToken'
      BY <1>1, <1>3, <2>1, <2>3, <3>1 DEF Inv, OneToken
    <3>5. Setup'
      BY <1>1, <1>3, <1>8, <2>1, <2>3, <2>4, <3>1 DEF Setup, Making, Called, Sizes, OfSetup
    <3> QED
      BY <1>5, <1>6, <3>2, <3>3, <3>4, <3>5, TypeParts DEF Inv
  <2>6. CASE p.mode # "idle"
    <3>1. p' = s /\ req' = req
      BY <2>1, <2>2, <2>6 DEF Request
    <3>2. PTypes' /\ NTypes'
      BY <1>1, <1>2, <2>1, <2>2, <3>1 DEF PTypes, NTypes, PeriphRecs, EventRecs
    <3>3. OneFrame'
      BY <1>1, <1>3, <1>4, <2>2, <3>1 DEF Inv, OneFrame
    <3>4. OneToken'
      BY <1>1, <1>3, <2>1, <2>2, <2>3, <3>1 DEF Inv, OneToken
    <3>5. Setup'
      BY <1>1, <1>3, <1>8, <2>1, <2>2, <2>3, <2>4, <3>1 DEF Setup, Making, Called, Sizes
    <3> QED
      BY <1>5, <1>6, <3>2, <3>3, <3>4, <3>5, TypeParts DEF Inv
  <2> QED
    BY <2>5, <2>6
<1>9. CASE Sending
  <2> DEFINE o == p.offset
             b == InBuf
             d == At(o, b + 1)
             w == Head(air)
             s == [p EXCEPT !.buf = p.buf \o w.data]
  <2>1. /\ PktLen \in Nat \ {0} /\ SendCount \in Nat \ {0} /\ FileLen \in Nat \ {0}
        /\ Block \in Nat \ {0}
    BY Constants
  <2>2. /\ o \in Nat /\ Boundary(o) /\ o < FileLen /\ Prefix(bank, o) /\ p.mode = "idle"
        /\ c.index = At(o, SendCount - c.count) /\ c.index > 0 /\ p.buf = SubSeq(File, o + 1, At(o, b))
        /\ Carries(air, o, b) /\ (c.count > 0 => txc > 0) /\ c.size = FileLen /\ p.size = FileLen
        /\ n = None /\ rsp = None
    BY <1>2, <1>9, <2>1 DEF PTypes, Sending, Sizes, NoFrame
  <2>3. /\ Len(air) \in Nat /\ Len(air) >= 1 /\ w = air[1] /\ 1 \in DOMAIN air
        /\ air' \in Seq(WriteRecs) /\ Len(air') = Len(air) - 1
        /\ \A i \in DOMAIN air' : i + 1 \in DOMAIN air /\ air'[i] = air[i + 1]
    BY <1>1, <1>2, TailOf DEF CTypes, WriteRecs
  <2>4. c.count \in Nat /\ b = SendCount - c.count - Len(air) /\ b \in 0 .. SendCount - 1
    BY <1>2, <1>9 DEF CTypes, Sending, InBuf
  <2> HIDE DEF b
  <2>5. w.flag = "data" /\ w.data = SubSeq(File, At(o, b) + 1, d)
    <3>1. b + 1 - 1 = b
      BY <2>1, <2>4
    <3> QED
      BY <2>2, <2>3, <3>1 DEF Carries
  <2>6. /\ At(o, b) \in o .. FileLen - 1 /\ d \in At(o, b) + 1 .. FileLen
    BY <2>2, <2>4, Packets
  <2>7. s.buf = SubSeq(File, o + 1, d) /\ s.buf \in Seq(1 .. FileLen) /\ Len(s.buf) = d - o
    <3>1. /\ o \in 0 .. FileLen /\ At(o, b) \in o .. FileLen /\ d \in At(o, b) .. FileLen
          /\ At(o, b) \in 0 .. FileLen /\ d \in o .. FileLen
      BY <2>1, <2>2, <2>6
    <3>2. SubSeq(File, o + 1, At(o, b)) \o SubSeq(File, At(o, b) + 1, d) = SubSeq(File, o + 1, d)
      BY <3>1, Parts
    <3>3. s.buf = SubSeq(File, o + 1, d)
      BY <1>2, <2>2, <2>5, <3>2 DEF PTypes
    <3>4. SubSeq(File, o + 1, d) \in Seq(1 .. FileLen) /\ Len(SubSeq(File, o + 1, d)) = d - o
      BY <3>1, Parts
    <3> QED
      BY <3>3, <3>4
  <2>8. s \in PeriphRecs /\ s.mode = "idle" /\ s.offset = o /\ s.size = FileLen /\ s.op = p.op
    BY <1>2, <2>2, <2>7 DEF PTypes, PeriphRecs
  <2>9. d = o + Block \/ d = FileLen <=> b + 1 = SendCount
    <3>1. CASE b + 1 = SendCount
      BY <2>2, <3>1, Packets
    <3>2. CASE b + 1 # SendCount
      <4>1. b + 1 \in 0 .. SendCount - 1
        BY <2>1, <2>4, <3>2
      <4>2. d \in o .. FileLen - 1 /\ d <= o + Block - PktLen
        BY <2>2, <4>1, Packets
      <4> QED
        BY <2>1, <2>2, <3>2, <4>2
    <3> QED
      BY <3>1, <3>2
  <2>10. /\ sched' = sched
         /\ IF b + 1 = SendCount THEN Request(Flush(s), "write", o, s.buf) ELSE p' = s /\ req' = req
    <3>1. Len(s.buf) = Block \/ Len(s.buf) = s.size - s.offset <=> b + 1 = SendCount
      <4>1. d \in Nat /\ o \in Nat /\ FileLen \in Nat /\ Block \in Nat
        BY <2>1, <2>2, <2>6
      <4> HIDE DEF d, s
      <4> QED
        BY <2>7, <2>8, <2>9, <4>1
    <3> QED
      BY <1>1, <2>5, <2>8, <3>1 DEF StartDfu, ImgSize, ImgData
  <2> HIDE DEF s, d
  <2>11. CASE b + 1 = SendCount
    <3>1. Len(air) = 1 /\ c.count = 0 /\ air' = <<>> /\ SendCount - c.count = SendCount
      <4>1. Len(air) = 1 /\ c.count = 0
        <5>1. Len(air) \in Nat /\ Len(air) >= 1 /\ c.count \in Nat /\ SendCount \in Nat
          BY <2>1, <2>3, <2>4
        <5>2. SendCount - c.count - Len(air) + 1 = SendCount
          BY <2>4, <2>11
        <5> DEFINE l == Len(air)
                   m == c.count
        <5>3. l \in Nat /\ l >= 1 /\ m \in Nat /\ SendCount \in Nat /\ SendCount - m - l + 1 = SendCount
          BY <5>1, <5>2
        <5> HIDE DEF l, m
        <5>4. l = 1 /\ m = 0
          BY <5>3
        <5> QED
          BY <5>4 DEF l, m
      <4>2. air' = <<>>
        BY <1>1, <1>2, <4>1, OneTail DEF CTypes
      <4> QED
        BY <2>1, <4>1, <4>2
    <3> DEFINE u == Flush(s)
    <3>2. u \in PeriphRecs /\ u.mode = "idle" /\ u.offset = d /\ u.size = FileLen /\ u.buf = <<>>
      <4>1. o + Len(s.buf) = d /\ d \in 0 .. FileLen
        BY <2>1, <2>2, <2>6, <2>7
      <4> QED
        <5>1. u = [s EXCEPT !.offset = d, !.buf = <<>>]
          BY <2>8, <4>1 DEF Flush
        <5> HIDE DEF u
        <5> QED
          <6>1. s \in PeriphRecs /\ d \in 0 .. FileLen /\ <<>> \in Seq(1 .. FileLen)
            BY <2>8, <4>1
          <6>2. u \in PeriphRecs /\ u.mode = s.mode /\ u.size = s.size
                /\ u.offset = d /\ u.buf = <<>>
            BY <5>1, <6>1 DEF PeriphRecs
          <6> QED
            BY <2>8, <6>2
    <3> HIDE DEF u
    <3>3. /\ p' = [u EXCEPT !.mode = "host", !.op = "write"]
          /\ req' = [op |-> "write", at |-> o, data |-> s.buf]
      BY <2>10, <2>11, <3>2 DEF Request, u
    <3>4. p' \in PeriphRecs /\ req' \in Frames /\ req' # None
      <4>1. p' \in PeriphRecs
        BY <3>2, <3>3 DEF PeriphRecs, Ops
      <4>2. req' \in Frames
        BY <2>2, <2>7, <3>3 DEF Frames, Ops
      <4> QED
        BY <4>1, <4>2, NoneAssumption
    <3>5. /\ p'.mode = "host" /\ p'.op = "write" /\ p'.offset = d /\ p'.size = FileLen /\ p'.buf = <<>>
          /\ req'.op = "write" /\ req'.at = o /\ req'.data = SubSeq(File, o + 1, d)
      BY <2>7, <3>2, <3>3 DEF PeriphRecs
    <3>6. PTypes' /\ NTypes'
      BY <1>1, <1>2, <2>10, <3>4 DEF PTypes, NTypes, PeriphRecs
    <3>7. OneFrame'
      BY <1>1, <1>3, <2>2, <3>4, <3>5 DEF OneFrame, Ops
    <3>8. OneToken'
      BY <1>1, <1>3, <2>10, <3>1, <3>5 DEF Inv, OneToken
    <3>9. d = FileLen \/ Boundary(d)
      BY <2>2, <2>11, Packets DEF d
    <3>10. c.index = d /\ d > 0 /\ o \in 0 .. d
      BY <2>1, <2>2, <2>6, <2>11, <3>1 DEF d
    <3>11. Writing'
      BY <1>1, <1>3, <2>2, <2>10, <3>1, <3>4, <3>5, <3>9, <3>10
         DEF Writing, Sizes, Making, Called, Completes
    <3> QED
      BY <1>5, <1>6, <3>6, <3>7, <3>8, <3>11, TypeParts DEF Inv
  <2>12. CASE b + 1 # SendCount
    <3>1. p' = s /\ req' = req /\ sched' = sched
      BY <2>10, <2>12
    <3>2. PTypes' /\ NTypes'
      BY <1>1, <1>2, <2>8, <3>1 DEF PTypes, NTypes, PeriphRecs
    <3>3. OneFrame'
      BY <1>1, <1>4, <2>2, <2>8, <3>1, <1>3 DEF OneFrame, NoFrame
    <3>4. OneToken'
      BY <1>1, <1>3, <2>8, <3>1 DEF Inv, OneToken
    <3>5. InBuf' = b + 1 /\ b + 1 \in 0 .. SendCount - 1
      BY <1>1, <2>1, <2>3, <2>4, <2>12 DEF InBuf
    <3>6. Carries(air', o, b + 1)
      <4> SUFFICES ASSUME NEW i \in DOMAIN air'
                   PROVE  /\ air'[i].flag = "data"
                          /\ air'[i].data = SubSeq(File, At(o, b + 1 + i - 1) + 1, At(o, b + 1 + i))
        BY DEF Carries
      <4>1. i \in Int /\ b \in Int
        BY <2>3, <2>4
      <4>2. b + 1 + i - 1 = b + (i + 1) - 1 /\ b + 1 + i = b + (i + 1)
        BY <4>1
      <4> QED
        BY <2>2, <2>3, <4>2 DEF Carries
    <3>7. p'.buf = SubSeq(File, p'.offset + 1, At(p'.offset, InBuf')) /\ p'.offset = o
      BY <2>7, <2>8, <3>1, <3>5 DEF d
    <3>8. Sending'
      BY <1>1, <1>3, <1>4, <2>2, <2>8, <3>1, <3>5, <3>6, <3>7 DEF Sending, Sizes, NoFrame
    <3> QED
      BY <1>5, <1>6, <3>2, <3>3, <3>4, <3>8, TypeParts DEF Inv
  <2> QED
    BY <2>11, <2>12
<1>10. ~Asked /\ ~Writing
  BY <1>1 DEF Asked, Writing
<1> QED
  BY <1>1, <1>7, <1>8, <1>9, <1>10 DEF Inv, Setup

\* An event that stands alone in the queue is the next one.
LEMMA Served ==
  ASSUME Inv, sched # <<>>
  PROVE  /\ Head(sched) \in EventRecs /\ Tail(sched) = <<>> /\ cb = None
         /\ air = <<>> /\ notes = <<>>
         /\ Head(sched).ev = "rsp" <=> p.mode = "received"
         /\ p.mode \in {"idle", "slave", "received"}
<1>1. sched \in Seq(EventRecs)
  BY TypeParts DEF Inv, PTypes, EventRecs
<1>2. Head(sched) \in EventRecs
  BY <1>1, TailOf
<1>3. Len(sched) <= 1 /\ cb = None /\ air = <<>> /\ notes = <<>>
      /\ (Head(sched).ev = "rsp" <=> p.mode = "received")
      /\ p.mode \in {"idle", "slave", "received"}
  BY DEF Inv, OneToken
<1>4. Tail(sched) = <<>>
  BY <1>1, <1>3, OneTail
<1> QED
  BY <1>2, <1>3, <1>4

LEMMA BleSendReqInv ==
  ASSUME Gentle, Inv, BleSendReq
  PROVE  Inv'
<1>1. /\ sched # <<>> /\ Head(sched).ev # "rsp" /\ sched' = Tail(sched)
      /\ notes' = IF connected THEN Append(notes, Head(sched).ev) ELSE notes
      /\ c' = c /\ air' = air /\ txc' = txc /\ connected' = connected /\ starts' = starts /\ p' = p
      /\ cb' = cb /\ req' = req /\ rsp' = rsp /\ n' = n /\ bank' = bank /\ done' = done
      /\ faults' = faults
  BY DEF BleSendReq, nVars
<1>2. CTypes /\ PTypes /\ NTypes /\ connected \in BOOLEAN
  BY TypeParts DEF Inv
<1>3. /\ Head(sched) \in EventRecs /\ Tail(sched) = <<>> /\ cb = None
      /\ air = <<>> /\ notes = <<>> /\ p.mode \in {"idle", "slave"}
  BY <1>1, Served
<1>4. sched' = <<>> /\ Head(sched).ev \in {"size", "data"}
  BY <1>1, <1>3 DEF EventRecs
<1>5. PTypes' /\ NTypes' /\ connected' \in BOOLEAN
  <2>1. sched' \in Seq([ev : {"rsp", "size", "data"}, ok : BOOLEAN])
    BY <1>4
  <2> QED
    BY <1>1, <1>2, <2>1 DEF PTypes, NTypes
<1>6. OneFrame'
  BY <1>1 DEF Inv, OneFrame, NoFrame
<1>7. CASE connected
  <2> DEFINE ev == Head(sched).ev
  <2>1. notes' = Append(<<>>, ev) /\ ev \in {"size", "data"}
    BY <1>1, <1>3, <1>4, <1>7
  <2> HIDE DEF ev
  <2>2. notes' \in Seq({"size", "data"}) /\ Len(notes') = 1 /\ notes' # <<>> /\ Head(notes') = ev
    BY <2>1, OneAppended
  <2>3. CTypes'
    BY <1>1, <1>2, <2>2 DEF CTypes
  <2>4. OneToken'
    BY <1>1, <1>3, <1>4, <1>7, <2>2 DEF Inv, OneToken
  <2>5. CASE Setup
    <3>1. ev = "size"
      BY <1>1, <2>1, <2>5 DEF Setup, ev
    <3>2. Setup'
      BY <1>1, <1>3, <1>4, <2>2, <2>5, <3>1 DEF Setup, Making, Called, Sizes
    <3> QED
      BY <1>5, <1>6, <2>3, <2>4, <3>2, TypeParts DEF Inv
  <2>6. CASE Asked
    <3>1. ev = "data"
      BY <1>1, <2>1, <2>6 DEF Asked, ev
    <3>2. Asked'
      BY <1>1, <1>3, <1>4, <2>2, <2>6, <3>1 DEF Asked, NoFrame, Sizes
    <3> QED
      BY <1>5, <1>6, <2>3, <2>4, <3>2, TypeParts DEF Inv
  <2> QED
    BY <1>1, <1>3, <2>5, <2>6 DEF Inv, Sending, Writing
<1>8. CASE ~connected
  <2>1. notes' = <<>>
    BY <1>1, <1>3, <1>8
  <2>2. CTypes'
    BY <1>1, <1>2, <1>3, <2>1 DEF CTypes
  <2>3. OneToken'
    BY <1>1, <1>3, <1>4, <2>1 DEF Inv, OneToken
  <2>4. CASE Setup
    <3>1. Setup'
      BY <1>1, <1>3, <1>4, <2>1, <2>4 DEF Setup, Making, Called, Sizes
    <3> QED
      BY <1>5, <1>6, <2>2, <2>3, <3>1, TypeParts DEF Inv
  <2>5. CASE Asked
    <3>1. p.offset = 0 /\ c.index = 0
      BY <1>8 DEF Inv, OneToken
    <3>2. Len(air) = 0
      BY <1>3
    <3>3. Setup'
      BY <1>1, <1>3, <1>4, <2>1, <2>5, <3>1, <3>2 DEF Setup, Asked, NoFrame, Making, Called, Sizes
    <3> QED
      BY <1>5, <1>6, <2>2, <2>3, <3>3, TypeParts DEF Inv
  <2> QED
    BY <1>1, <1>3, <2>4, <2>5 DEF Inv, Sending, Writing
<1> QED
  BY <1>2, <1>7, <1>8

LEMMA ProcRspInv ==
  ASSUME Gentle, Inv, ProcRsp
  PROVE  Inv'
<1>1. /\ sched # <<>> /\ Head(sched).ev = "rsp" /\ sched' = Tail(sched)
      /\ cb' = [op |-> p.op, ok |-> Head(sched).ok] /\ p' = [p EXCEPT !.mode = "idle"]
      /\ c' = c /\ air' = air /\ txc' = txc /\ notes' = notes /\ connected' = connected
      /\ starts' = starts /\ req' = req /\ rsp' = rsp /\ n' = n /\ bank' = bank /\ done' = done
      /\ faults' = faults
  BY DEF ProcRsp, cVars, nVars
<1>2. CTypes /\ PTypes /\ NTypes /\ connected \in BOOLEAN
  BY TypeParts DEF Inv
<1>3. /\ Head(sched) \in EventRecs /\ sched' = <<>> /\ cb = None
      /\ air = <<>> /\ notes = <<>> /\ p.mode = "received"
  BY <1>1, Served
<1>4. p.op \in Ops /\ NoFrame
  BY <1>3 DEF Inv, OneFrame
<1>5. /\ p' \in PeriphRecs /\ p'.size = p.size /\ p'.offset = p.offset /\ p'.buf = p.buf
      /\ p'.mode = "idle" /\ p'.op = p.op
  BY <1>1, <1>2 DEF PTypes, PeriphRecs
<1>6. cb' \in Answers /\ cb' # None /\ cb'.op = p.op /\ cb'.ok = Head(sched).ok
  <2>1. cb' \in Answers
    BY <1>1, <1>3, <1>4 DEF Answers, EventRecs
  <2> QED
    BY <1>1, <2>1, NoneAssumption
<1>7. PTypes' /\ NTypes' /\ CTypes' /\ connected' \in BOOLEAN
  <2>1. sched' \in Seq([ev : {"rsp", "size", "data"}, ok : BOOLEAN])
    BY <1>3
  <2> QED
    BY <1>1, <1>2, <1>5, <1>6, <2>1 DEF PTypes, NTypes, CTypes, PeriphRecs
<1>8. OneFrame'
  BY <1>1, <1>4, <1>5 DEF OneFrame, NoFrame
<1>9. OneToken'
  BY <1>1, <1>3, <1>5 DEF Inv, OneToken
<1>10. CASE Setup
  <2>1. Setup'
    BY <1>1, <1>3, <1>4, <1>5, <1>6, <1>10 DEF Setup, NoFrame, Making, Called, Sizes
  <2> QED
    BY <1>7, <1>8, <1>9, <2>1, TypeParts DEF Inv
<1>11. CASE Writing
  <2>1. Writing'
    BY <1>1, <1>3, <1>4, <1>5, <1>6, <1>11 DEF Writing, NoFrame, Making, Called, Sizes
  <2> QED
    BY <1>7, <1>8, <1>9, <2>1, TypeParts DEF Inv
<1> QED
  BY <1>3, <1>10, <1>11 DEF Inv, Asked, Sending

\* What an answer calls: the next request, the next block, or nothing.
LEMMA CallbackInv ==
  ASSUME Gentle, Inv, Callback
  PROVE  Inv'
<1>1. /\ cb # None /\ cb' = None /\ c' = c /\ air' = air /\ txc' = txc /\ notes' = notes
      /\ connected' = connected /\ starts' = starts /\ rsp' = rsp /\ n' = n /\ bank' = bank
      /\ done' = done /\ faults' = faults
      /\ CbFlashInfo \/ CbFlashErase \/ (cb.op = "write" /\ CbFlashWrite) \/ CbFlashDone
  BY DEF Callback, cVars, nVars
<1>2. CTypes /\ PTypes /\ NTypes /\ connected \in BOOLEAN
  BY TypeParts DEF Inv
<1>3. NoFrame /\ p.mode = "idle" /\ air = <<>> /\ notes = <<>> /\ sched = <<>>
  BY <1>1 DEF Inv, OneFrame, OneToken
<1>4. CTypes' /\ connected' \in BOOLEAN
  BY <1>1, <1>2 DEF CTypes
<1>5. p \in PeriphRecs /\ cb \in Answers
  BY <1>1, <1>2 DEF PTypes, PeriphRecs
<1>6. ASSUME p' = p, req' = req, sched' = sched, Setup
      PROVE  Inv'
  <2>1. PTypes' /\ NTypes'
    BY <1>1, <1>2, <1>6 DEF PTypes, NTypes
  <2>2. OneFrame' /\ OneToken'
    BY <1>1, <1>3, <1>6 DEF Inv, OneFrame, OneToken, NoFrame
  <2>3. Setup'
    BY <1>1, <1>3, <1>6 DEF Setup, Making, Called, Sizes
  <2> QED
    BY <1>4, <2>1, <2>2, <2>3, TypeParts DEF Inv
<1>7. ASSUME p' = p, req' = req, sched' = Event("data", TRUE),
             Sizes, p.buf = <<>>, c.count = 0, c.index = p.offset, p.offset < FileLen,
             Boundary(p.offset), Prefix(bank, p.offset)
      PROVE  Inv'
  <2> DEFINE e == [ev |-> "data", ok |-> TRUE]
  <2>1. sched' = Append(<<>>, e)
    BY <1>3, <1>7 DEF Event
  <2>2. e \in EventRecs /\ e.ev = "data"
    BY DEF EventRecs
  <2> HIDE DEF e
  <2>3. sched' \in Seq(EventRecs) /\ Len(sched') = 1 /\ sched' # <<>> /\ Head(sched').ev = "data"
    BY <2>1, <2>2, OneAppended
  <2>4. PTypes' /\ NTypes'
    BY <1>1, <1>2, <1>7, <2>3 DEF PTypes, NTypes, EventRecs
  <2>5. OneFrame'
    BY <1>1, <1>3, <1>7 DEF OneFrame, NoFrame
  <2>6. OneToken'
    <3>1. p' = p
      BY <1>7
    <3>2. ~connected => p.offset = 0 /\ c.index = 0
      BY DEF Inv, OneToken
    <3>3. Len(notes') <= 1
      BY <1>1 DEF Inv, OneToken
    <3> QED
      BY <1>1, <1>3, <2>3, <3>1, <3>2, <3>3 DEF OneToken
  <2>7. Asked'
    BY <1>1, <1>3, <1>7, <2>3 DEF Asked, NoFrame, Sizes
  <2> QED
    BY <1>4, <2>4, <2>5, <2>6, <2>7, TypeParts DEF Inv
<1>8. CASE Setup
  <2>1. cb.op # "write"
    BY <1>1, <1>8 DEF Setup, Called
  <2>2. CASE CbFlashInfo /\ p' = p /\ req' = req
    BY <1>6, <1>8, <2>2 DEF CbFlashInfo
  <2>3. CASE CbFlashInfo /\ Request(p, "erase", PagesOf(p.size), <<>>)
    <3>1. Sizes /\ c.index = 0
      BY <1>1, <1>8, <2>3 DEF Setup, Called, CbFlashInfo
    <3>2. PagesOf(FileLen) \in Nat /\ p.size = FileLen
      BY <3>1, Constants, PagesCover DEF Sizes
    <3>3. /\ p' = [p EXCEPT !.mode = "host", !.op = "erase"] /\ sched' = sched
          /\ req' = [op |-> "erase", at |-> PagesOf(FileLen), data |-> <<>>]
      BY <1>3, <2>3, <3>2 DEF Request, CbFlashInfo
    <3>4. p' \in PeriphRecs /\ p'.mode = "host" /\ p'.op = "erase" /\ p'.size = p.size
          /\ p'.offset = p.offset /\ p'.buf = p.buf
      BY <1>5, <3>3 DEF PeriphRecs, Ops
    <3>5. req' \in Frames /\ req'.op = "erase" /\ req'.at = PagesOf(FileLen)
      BY <3>2, <3>3 DEF Frames, Ops
    <3>6. req' # None
      BY <3>5, NoneAssumption
    <3>7. PTypes' /\ NTypes'
      BY <1>1, <1>2, <3>3, <3>4, <3>5 DEF PTypes, NTypes, PeriphRecs
    <3>8. OneFrame'
      BY <1>1, <1>3, <3>4, <3>5 DEF OneFrame, NoFrame, Ops
    <3>9. OneToken'
      BY <1>1, <1>3, <3>3, <3>4 DEF Inv, OneToken
    <3>10. Setup'
      BY <1>1, <1>3, <1>8, <3>1, <3>3, <3>4, <3>5
         DEF Setup, Making, Called, Sizes, OfSetup, NoFrame
    <3> QED
      BY <1>4, <3>7, <3>8, <3>9, <3>10, TypeParts DEF Inv
  <2>4. CASE CbFlashErase
    <3>1. CASE cb.ok
      <4>1. Sizes /\ c.index = 0 /\ Prefix(bank, 0) /\ p.offset = 0 /\ p.buf = <<>> /\ c.count = 0
        BY <1>1, <1>8, <2>4, <3>1 DEF Setup, Called, CbFlashErase
      <4>2. Boundary(0) /\ 0 < FileLen
        <5>1. 0 * Block = 0
          BY Constants
        <5> QED
          BY <5>1, Constants DEF Boundary
      <4> QED
        BY <1>7, <2>4, <3>1, <4>1, <4>2 DEF CbFlashErase
    <3>2. CASE ~cb.ok
      BY <1>6, <1>8, <2>4, <3>2 DEF CbFlashErase
    <3> QED
      BY <3>1, <3>2
  <2>5. CASE CbFlashDone
    BY <1>6, <1>8, <2>5 DEF CbFlashDone
  <2> QED
    BY <1>1, <2>1, <2>2, <2>3, <2>4, <2>5 DEF CbFlashInfo
<1>9. CASE Writing
  <2>1. cb.op = "write" /\ CbFlashWrite
    <3>1. cb.op = "write"
      BY <1>1, <1>3, <1>9 DEF Writing, Making, Called
    <3> QED
      BY <1>1, <3>1 DEF CbFlashInfo, CbFlashErase, CbFlashDone
  <2>2. /\ Sizes /\ p.buf = <<>> /\ c.count = 0 /\ c.index = p.offset /\ p.offset > 0
        /\ (p.offset = FileLen \/ Boundary(p.offset)) /\ Prefix(bank, p.offset)
        /\ p.offset \in 0 .. FileLen /\ p.size = FileLen
    BY <1>3, <1>5, <1>9 DEF Writing, NoFrame, Sizes, PeriphRecs
  <2>3. CASE p.offset = p.size
    <3> DEFINE s == [p EXCEPT !.offset = 0]
    <3>1. Request(s, "done", FileLen, <<>>) /\ sched' = sched
      BY <2>1, <2>2, <2>3 DEF CbFlashWrite
    <3>2. s \in PeriphRecs /\ s.offset = 0 /\ s.buf = <<>> /\ s.mode = "idle" /\ s.size = FileLen
      BY <1>3, <1>5, <2>2, Constants DEF PeriphRecs
    <3> HIDE DEF s
    <3>3. /\ p' = [s EXCEPT !.mode = "host", !.op = "done"]
          /\ req' = [op |-> "done", at |-> FileLen, data |-> <<>>]
      BY <3>1, <3>2 DEF Request
    <3>4. p' \in PeriphRecs /\ p'.mode = "host" /\ p'.op = "done" /\ p'.size = FileLen
          /\ p'.offset = 0 /\ p'.buf = <<>>
      BY <3>2, <3>3 DEF PeriphRecs, Ops
    <3>5. req' \in Frames /\ req'.op = "done" /\ req'.at = FileLen
      BY <3>3, Constants DEF Frames, Ops
    <3>6. req' # None
      BY <3>5, NoneAssumption
    <3>7. PTypes' /\ NTypes'
      BY <1>1, <1>2, <3>1, <3>4, <3>5 DEF PTypes, NTypes, PeriphRecs
    <3>8. OneFrame'
      BY <1>1, <1>3, <3>4, <3>5 DEF OneFrame, NoFrame, Ops
    <3>9. connected
      BY <2>2, Constants DEF Inv, OneToken
    <3>10. OneToken'
      BY <1>1, <1>3, <3>1, <3>4, <3>9 DEF Inv, OneToken
    <3>11. Holds(bank)
      BY <2>2, <2>3 DEF Prefix, Holds
    <3>12. Len(air') = 0
      BY <1>1, <1>3
    <3>13. Setup'
      BY <1>1, <1>3, <2>2, <3>1, <3>4, <3>5, <3>11, <3>12
         DEF Setup, Making, Called, OfSetup, NoFrame
    <3> QED
      BY <1>4, <3>7, <3>8, <3>10, <3>13, TypeParts DEF Inv
  <2>4. CASE p.offset # p.size
    <3>1. p' = p /\ req' = req /\ sched' = Event("data", TRUE)
      BY <2>1, <2>2, <2>4 DEF CbFlashWrite
    <3>2. p.offset < FileLen /\ Boundary(p.offset)
      BY <2>2, <2>4, Constants
    <3> QED
      BY <1>7, <2>2, <3>1, <3>2
  <2> QED
    BY <2>3, <2>4
<1> QED
  BY <1>1, <1>8, <1>9 DEF Inv, Asked, Sending

-----------------------------------------------------------------------------
(* Frames.                                                                  *)

LEMMA RspArrivesInv ==
  ASSUME Gentle, Inv, RspArrives
  PROVE  Inv'
<1>1. /\ rsp # None /\ rsp' = None /\ c' = c /\ air' = air /\ txc' = txc /\ notes' = notes
      /\ connected' = connected /\ starts' = starts /\ cb' = cb /\ req' = req /\ n' = n
      /\ bank' = bank /\ done' = done /\ faults' = faults
  BY DEF RspArrives, cVars, nVars
<1>2. CTypes /\ PTypes /\ NTypes /\ connected \in BOOLEAN
  BY TypeParts DEF Inv
<1>3. n = None /\ cb = None /\ p.mode # "received"
  BY <1>1 DEF Inv, OneFrame, NoFrame
<1>4. CTypes' /\ NTypes' /\ connected' \in BOOLEAN
  BY <1>1, <1>2 DEF CTypes, NTypes
<1>5. p \in PeriphRecs /\ rsp \in Answers /\ sched \in Seq(EventRecs)
  BY <1>1, <1>2 DEF PTypes, NTypes, PeriphRecs, EventRecs
<1>6. Setup \/ Writing
  BY <1>1 DEF Inv, Asked, Sending, NoFrame
<1>7. CASE p.mode = "host" /\ req = None /\ rsp.op = p.op
  <2> DEFINE e == [ev |-> "rsp", ok |-> rsp.ok]
  <2>1. p' = [p EXCEPT !.mode = "received"] /\ sched' = Append(sched, e)
    BY <1>7 DEF RspArrives, Event
  <2>2. e \in EventRecs /\ e.ev = "rsp" /\ e.ok = rsp.ok
    BY <1>5 DEF EventRecs, Answers
  <2> HIDE DEF e
  <2>3. air = <<>> /\ notes = <<>> /\ sched = <<>> /\ p.op \in Ops
    BY <1>7 DEF Inv, OneToken, OneFrame
  <2>4. sched' \in Seq(EventRecs) /\ Len(sched') = 1 /\ sched' # <<>> /\ Head(sched') = e
    BY <2>1, <2>2, <2>3, OneAppended
  <2>5. /\ p' \in PeriphRecs /\ p'.mode = "received" /\ p'.op = p.op /\ p'.size = p.size
        /\ p'.offset = p.offset /\ p'.buf = p.buf
    BY <1>5, <2>1 DEF PeriphRecs
  <2>6. PTypes'
    BY <1>1, <1>2, <2>4, <2>5 DEF PTypes, PeriphRecs, EventRecs
  <2>7. OneFrame'
    BY <1>1, <1>3, <1>7, <2>3, <2>5 DEF OneFrame, NoFrame
  <2>8. OneToken'
    BY <1>1, <1>3, <2>2, <2>3, <2>4, <2>5 DEF Inv, OneToken
  <2>9. ASSUME Setup
        PROVE  Setup'
    BY <1>1, <1>3, <1>7, <2>2, <2>3, <2>4, <2>5, <2>9 DEF Setup, Making, Called, Sizes
  <2>10. ASSUME Writing
         PROVE  Writing'
    BY <1>1, <1>3, <1>7, <2>2, <2>3, <2>4, <2>5, <2>10 DEF Writing, Making, Called, Sizes
  <2> QED
    BY <1>4, <1>6, <2>6, <2>7, <2>8, <2>9, <2>10, TypeParts DEF Inv
<1>8. CASE p.mode = "host" /\ req = None /\ rsp.op # p.op
  <2>1. p' = [p EXCEPT !.mode = "deaf"] /\ sched' = sched
    BY <1>8 DEF RspArrives
  <2>2. p.op = "info"
    BY <1>1, <1>8 DEF Inv, OneFrame
  <2>3. /\ p' \in PeriphRecs /\ p'.mode = "deaf" /\ p'.op = p.op /\ p'.size = p.size
        /\ p'.offset = p.offset /\ p'.buf = p.buf
    BY <1>5, <2>1 DEF PeriphRecs
  <2>4. PTypes'
    BY <1>1, <1>2, <2>1, <2>3 DEF PTypes, PeriphRecs
  <2>5. OneFrame'
    BY <1>1, <1>3, <1>8, <2>2, <2>3 DEF OneFrame, NoFrame, Ops
  <2>6. OneToken'
    BY <1>1, <1>3, <1>8, <2>1, <2>3 DEF Inv, OneToken
  <2>7. Setup
    BY <1>3, <1>6, <2>2 DEF Writing, Making, Called
  <2>8. Setup'
    BY <1>1, <1>3, <1>8, <2>1, <2>2, <2>3, <2>7 DEF Setup, Making, Called, Sizes
  <2> QED
    BY <1>4, <2>4, <2>5, <2>6, <2>8, TypeParts DEF Inv
<1>9. CASE p.mode = "idle"
  <2>1. p' = [p EXCEPT !.mode = "slave"] /\ sched' = sched
    BY <1>9 DEF RspArrives
  <2>2. /\ p' \in PeriphRecs /\ p'.mode = "slave" /\ p'.op = p.op /\ p'.size = p.size
        /\ p'.offset = p.offset /\ p'.buf = p.buf
    BY <1>5, <2>1 DEF PeriphRecs
  <2>3. PTypes'
    BY <1>1, <1>2, <2>1, <2>2 DEF PTypes, PeriphRecs
  <2>4. OneFrame'
    BY <1>1, <1>3, <1>9, <2>2 DEF Inv, OneFrame, NoFrame
  <2>5. OneToken'
    BY <1>1, <1>3, <1>9, <2>1, <2>2 DEF Inv, OneToken
  <2>6. Setup
    BY <1>3, <1>6, <1>9 DEF Writing, Making, Called
  <2>7. Setup'
    BY <1>1, <1>3, <1>9, <2>1, <2>2, <2>6 DEF Setup, Making, Called, Sizes
  <2> QED
    BY <1>4, <2>3, <2>4, <2>5, <2>7, TypeParts DEF Inv
<1>10. CASE p.mode \notin {"host", "idle"} \/ (p.mode = "host" /\ req # None)
  <2>1. p' = p /\ sched' = sched
    BY <1>10 DEF RspArrives
  <2>2. PTypes'
    BY <1>1, <1>2, <2>1 DEF PTypes
  <2>3. OneFrame' /\ OneToken'
    BY <1>1, <1>3, <1>10, <2>1 DEF Inv, OneFrame, OneToken, NoFrame
  <2>4. ASSUME Setup
        PROVE  Setup'
    BY <1>1, <1>3, <2>1, <2>4 DEF Setup, Making, Called, Sizes
  <2>5. ASSUME Writing
        PROVE  Writing'
    BY <1>1, <1>3, <1>10, <2>1, <2>5 DEF Writing, Making, Called, Sizes
  <2> QED
    BY <1>4, <1>6, <2>2, <2>3, <2>4, <2>5, TypeParts DEF Inv
<1> QED
  BY <1>7, <1>8, <1>9, <1>10

LEMMA LateRspEndsInv ==
  ASSUME Gentle, Inv, LateRspEnds
  PROVE  Inv'
<1>1. /\ p.mode = "slave" /\ p' = [p EXCEPT !.mode = "idle"]
      /\ c' = c /\ air' = air /\ txc' = txc /\ notes' = notes /\ connected' = connected
      /\ starts' = starts /\ sched' = sched /\ cb' = cb /\ req' = req /\ rsp' = rsp /\ n' = n
      /\ bank' = bank /\ done' = done /\ faults' = faults
  BY DEF LateRspEnds, cVars, nVars
<1>2. CTypes /\ PTypes /\ NTypes /\ connected \in BOOLEAN
  BY TypeParts DEF Inv
<1>3. /\ p' \in PeriphRecs /\ p'.mode = "idle" /\ p'.op = p.op /\ p'.size = p.size
      /\ p'.offset = p.offset /\ p'.buf = p.buf
  BY <1>1, <1>2 DEF PTypes, PeriphRecs
<1>4. CTypes' /\ PTypes' /\ NTypes' /\ connected' \in BOOLEAN
  BY <1>1, <1>2, <1>3 DEF CTypes, PTypes, NTypes, PeriphRecs
<1>5. cb = None
  BY <1>1 DEF Inv, OneFrame
<1>6. Setup
  BY <1>1, <1>5 DEF Inv, Asked, Sending, Writing, Making, Called
<1>7. OneFrame' /\ OneToken'
  BY <1>1, <1>3, <1>5 DEF Inv, OneFrame, OneToken, NoFrame
<1>8. Setup'
  BY <1>1, <1>3, <1>5, <1>6 DEF Setup, Making, Called, Sizes
<1> QED
  BY <1>4, <1>7, <1>8, TypeParts DEF Inv

LEMMA ReqArrivesInv ==
  ASSUME Gentle, Inv, ReqArrives
  PROVE  Inv'
<1>1. /\ req # None /\ req' = None /\ n' = (IF n = None /\ rsp = None THEN req ELSE n)
      /\ c' = c /\ air' = air /\ txc' = txc /\ notes' = notes /\ connected' = connected
      /\ starts' = starts /\ p' = p /\ sched' = sched /\ cb' = cb /\ rsp' = rsp
      /\ bank' = bank /\ done' = done /\ faults' = faults
  BY DEF ReqArrives, cVars, pVars
<1>2. CTypes /\ PTypes /\ NTypes /\ connected \in BOOLEAN
  BY TypeParts DEF Inv
<1>3. CTypes' /\ PTypes' /\ NTypes' /\ connected' \in BOOLEAN
  BY <1>1, <1>2 DEF CTypes, PTypes, NTypes
<1>4. /\ p.mode = "host" /\ req.op = p.op /\ cb = None
      /\ p.op # "info" => n = None /\ rsp = None
  BY <1>1 DEF Inv, OneFrame
<1>5. OneFrame' /\ OneToken'
  BY <1>1, <1>4 DEF Inv, OneFrame, OneToken, NoFrame
<1>6. Setup \/ Writing
  BY <1>1 DEF Inv, Asked, Sending, NoFrame
<1>7. ASSUME Setup
      PROVE  Setup'
  BY <1>1, <1>4, <1>7 DEF Setup, Making, Called, Sizes
<1>8. ASSUME Writing
      PROVE  Writing'
  <2>1. p.op = "write" /\ n' = req
    BY <1>1, <1>4, <1>8 DEF Writing, Making, Called
  <2> QED
    BY <1>1, <1>4, <1>8, <2>1 DEF Writing, Making, Called, Sizes
<1> QED
  BY <1>3, <1>5, <1>6, <1>7, <1>8, TypeParts DEF Inv

\* Erasing as many pages as the file needs leaves it room.
LEMMA ErasedBlank ==
  ASSUME Gentle
  PROVE  Prefix(Erased(PagesOf(FileLen)), 0)
<1>1. FileLen \in Nat /\ Page * Pages \in Nat /\ FileLen <= Page * Pages
  BY Constants DEF Gentle
<1>2. PagesOf(FileLen) \in Nat /\ FileLen <= PagesOf(FileLen) * Page /\ PagesOf(FileLen) * Page \in Int
  BY <1>1, Constants, PagesCover
<1> DEFINE e == PagesOf(FileLen) * Page
<1>3. ASSUME NEW i \in 1 .. FileLen
      PROVE  Erased(PagesOf(FileLen))[i - 1] = Blank
  <2>1. i - 1 \in Cells /\ i - 1 < e
    BY <1>1, <1>2 DEF Cells
  <2> QED
    BY <2>1 DEF Erased
<1>4. \A i \in 1 .. FileLen : ~(i <= 0)
  BY <1>1
<1> QED
  BY <1>3, <1>4 DEF Prefix

\* A block that is written at the end of what the bank holds extends it.
LEMMA WrittenPrefix ==
  ASSUME Gentle, NEW o \in 0 .. FileLen, NEW q, Completes(q, bank, o)
  PROVE  Prefix(Written(q.at, q.data), o)
<1> DEFINE a == q.at
           d == q.data
<1>1. FileLen \in Nat /\ Page * Pages \in Nat /\ FileLen <= Page * Pages
  BY Constants DEF Gentle
<1>2. a \in 0 .. o /\ d = SubSeq(File, a + 1, o) /\ Prefix(bank, a)
  BY DEF Completes
<1> HIDE DEF a, d
<1>3. Len(d) = o - a /\ \A i \in 1 .. o - a : d[i] = a + i
  <2>1. a \in 0 .. FileLen /\ o \in a .. FileLen
    BY <1>1, <1>2
  <2> DEFINE part == SubSeq(File, a + 1, o)
  <2>2. Len(part) = o - a /\ \A i \in 1 .. o - a : part[i] = a + i
    BY <2>1, Parts
  <2>3. d = part
    BY <1>2
  <2> HIDE DEF part
  <2> QED
    BY <2>2, <2>3
<1>4. ASSUME NEW i \in 1 .. FileLen
      PROVE  Written(a, d)[i - 1] = IF i <= o THEN i ELSE Blank
  <2>1. i - 1 \in Cells /\ i \in Int /\ a \in Int /\ o \in Int
    BY <1>1, <1>2 DEF Cells
  <2>2. bank[i - 1] = IF i <= a THEN i ELSE Blank
    BY <1>2 DEF Prefix
  <2>3. i - 1 \in a .. a + Len(d) - 1 <=> a < i /\ i <= o
    BY <1>2, <1>3, <2>1
  <2>4. CASE a < i /\ i <= o
    <3>1. d[i - 1 - a + 1] = i
      <4>1. i - a \in 1 .. o - a /\ i - 1 - a + 1 = i - a /\ a + (i - a) = i
        BY <2>1, <2>4
      <4> QED
        BY <1>3, <4>1
    <3>2. bank[i - 1] = Blank
      BY <2>1, <2>2, <2>4
    <3> QED
      BY <2>1, <2>3, <2>4, <3>1, <3>2 DEF Written
  <2>5. CASE ~(a < i /\ i <= o)
    <3>1. Written(a, d)[i - 1] = bank[i - 1]
      BY <2>1, <2>3, <2>5 DEF Written
    <3> QED
      BY <1>2, <2>1, <2>2, <2>5, <3>1
  <2> QED
    BY <2>4, <2>5
<1> QED
  BY <1>4 DEF Prefix, a, d

LEMMA ReqServedInv ==
  ASSUME Gentle, Inv, ReqServed
  PROVE  Inv'
<1>1. /\ n # None /\ n' = None /\ rsp' = [op |-> n.op, ok |-> TRUE]
      /\ c' = c /\ air' = air /\ txc' = txc /\ notes' = notes /\ connected' = connected
      /\ starts' = starts /\ p' = p /\ sched' = sched /\ cb' = cb /\ req' = req
      /\ faults' = faults
      /\ n.op = "erase" => bank' = Erased(n.at)
      /\ n.op = "write" => bank' = Written(n.at, n.data)
      /\ n.op \notin {"erase", "write"} => bank' = bank
      /\ done' = IF n.op = "done" THEN done + 1 ELSE done
  BY DEF ReqServed, cVars, pVars
<1>2. CTypes /\ PTypes /\ NTypes /\ connected \in BOOLEAN
  BY TypeParts DEF Inv
<1>3. n \in Frames /\ n.op \in Ops /\ n.at \in Nat /\ n.data \in Seq(1 .. FileLen)
  BY <1>1, <1>2 DEF NTypes, Frames
<1>4. rsp' \in Answers /\ rsp' # None /\ rsp'.op = n.op /\ rsp'.ok = TRUE
  <2>1. rsp' \in Answers
    BY <1>1, <1>3 DEF Answers
  <2> QED
    BY <1>1, <2>1, NoneAssumption
<1>5. bank' \in [Cells -> 1 .. FileLen \cup {Blank, Mixed}]
  <2>1. bank \in [Cells -> 1 .. FileLen \cup {Blank, Mixed}]
    BY <1>2 DEF NTypes
  <2>2. Erased(n.at) \in [Cells -> 1 .. FileLen \cup {Blank, Mixed}]
    BY <2>1 DEF Erased
  <2>3. Written(n.at, n.data) \in [Cells -> 1 .. FileLen \cup {Blank, Mixed}]
    <3>1. ASSUME NEW k \in Cells, k \in n.at .. n.at + Len(n.data) - 1
          PROVE  n.data[k - n.at + 1] \in 1 .. FileLen
      <4>1. k - n.at + 1 \in 1 .. Len(n.data)
        BY <1>3, <3>1 DEF Cells
      <4> QED
        BY <1>3, <4>1, ElementOfSeq
    <3> QED
      BY <2>1, <3>1 DEF Written
  <2> QED
    BY <1>1, <2>1, <2>2, <2>3
<1>6. done' \in Nat
  BY <1>1, <1>2 DEF NTypes
<1>7. CTypes' /\ PTypes' /\ NTypes' /\ connected' \in BOOLEAN
  BY <1>1, <1>2, <1>4, <1>5, <1>6 DEF CTypes, PTypes, NTypes
<1>8. /\ rsp = None /\ cb = None /\ p.mode # "received"
      /\ req # None => p.op = "info" /\ req.op = "info"
      /\ p.mode = "host" /\ p.op # "info" => req = None /\ n.op = p.op
  BY <1>1 DEF Inv, OneFrame, NoFrame
<1>9. OneFrame' /\ OneToken'
  BY <1>1, <1>4, <1>8 DEF Inv, OneFrame, OneToken, NoFrame
<1>10. Setup \/ Writing
  BY <1>1 DEF Inv, Asked, Sending, NoFrame
<1>11. ASSUME Setup
       PROVE  Setup'
  <2>1. n.op # "write" /\ (n.op = "erase" => n.at = PagesOf(FileLen))
    BY <1>1, <1>11 DEF Setup, OfSetup
  <2>2. n.op = "erase" => Prefix(bank', 0)
    BY <1>1, <2>1, ErasedBlank
  <2>3. req # None => OfSetup(req, bank')
    BY <1>8 DEF OfSetup
  <2> QED
    BY <1>1, <1>4, <1>8, <1>11, <2>1, <2>2, <2>3 DEF Setup, Making, Called, Sizes
<1>12. ASSUME Writing
       PROVE  Writing'
  <2>1. p.op = "write" /\ p.mode = "host" /\ req = None
    BY <1>8, <1>12 DEF Writing, Making, Called
  <2>2. Completes(n, bank, p.offset) /\ n.op = "write"
    BY <1>1, <1>12 DEF Writing, Completes
  <2>3. p.offset \in 0 .. FileLen
    BY <1>2 DEF PTypes
  <2>4. Prefix(bank', p.offset)
    BY <1>1, <2>2, <2>3, WrittenPrefix
  <2> QED
    BY <1>1, <1>4, <1>8, <1>12, <2>1, <2>4 DEF Writing, Making, Called, Sizes
<1> QED
  BY <1>7, <1>9, <1>10, <1>11, <1>12, TypeParts DEF Inv

\* A write is never late, so its timeout finds the block written.
LEMMA TimeoutInv ==
  ASSUME Gentle, Inv, Timeout
  PROVE  Inv'
<1>1. /\ p.mode \in {"host", "deaf"} /\ req = None /\ rsp = None
      /\ n = None \/ n.op \in SlowOps
      /\ c' = c /\ air' = air /\ txc' = txc /\ notes' = notes /\ connected' = connected
      /\ starts' = starts /\ cb' = cb /\ req' = req /\ rsp' = rsp /\ n' = n /\ bank' = bank
      /\ done' = done
  BY DEF Timeout, Late, cVars, nVars
<1>2. CTypes /\ PTypes /\ NTypes /\ connected \in BOOLEAN
  BY TypeParts DEF Inv
<1>3. faults' \in 0 .. MaxFaults
  <2>1. MaxFaults \in Nat /\ faults \in 0 .. MaxFaults
    BY <1>2, TransferAssumption DEF CTypes
  <2>2. faults' = faults \/ (faults < MaxFaults /\ faults' = faults + 1)
    BY DEF Timeout, Late
  <2> QED
    BY <2>1, <2>2
<1>4. CTypes' /\ NTypes' /\ connected' \in BOOLEAN
  BY <1>1, <1>2, <1>3 DEF CTypes, NTypes
<1>5. p \in PeriphRecs
  BY <1>2 DEF PTypes, PeriphRecs
<1>6. air = <<>> /\ notes = <<>> /\ sched = <<>> /\ cb = None
  BY <1>1 DEF Inv, OneToken, OneFrame
<1> DEFINE over == [p EXCEPT !.mode = "idle"]
<1>7. /\ over \in PeriphRecs /\ over.mode = "idle" /\ over.op = p.op /\ over.size = p.size
      /\ over.offset = p.offset /\ over.buf = p.buf
  BY <1>5 DEF PeriphRecs
<1>8. \/ p.op # "write" /\ p' = over /\ sched' = sched
      \/ p.op = "write" /\ p.offset = p.size /\ p' = [over EXCEPT !.offset = 0] /\ sched' = sched
      \/ p.op = "write" /\ p.offset # p.size /\ p' = over
         /\ sched' = IF p.offset > 0 THEN Event("data", TRUE) ELSE sched
  BY DEF Timeout
<1> HIDE DEF over
<1>9. ASSUME p'.mode = "idle"
      PROVE  OneFrame'
  BY <1>1, <1>6, <1>9 DEF Inv, OneFrame, NoFrame
<1>10. CASE Setup
  <2>1. p.op # "write"
    BY <1>1, <1>10 DEF Setup, Making
  <2>2. p' = over /\ sched' = sched
    BY <1>8, <2>1
  <2>3. PTypes'
    BY <1>1, <1>2, <1>7, <2>2 DEF PTypes, PeriphRecs
  <2>4. OneToken'
    BY <1>1, <1>6, <1>7, <2>2 DEF Inv, OneToken
  <2>5. Setup'
    BY <1>1, <1>6, <1>7, <1>10, <2>2 DEF Setup, Making, Called, Sizes
  <2> QED
    BY <1>4, <1>7, <1>9, <2>2, <2>3, <2>4, <2>5, TypeParts DEF Inv
<1>11. CASE Writing
  <2>1. p.op = "write" /\ p.mode = "host"
    BY <1>1, <1>6, <1>11 DEF Writing, Making, Called
  <2>2. n = None
    <3>1. n # None => n.op = "write"
      BY <1>11 DEF Writing, Completes
    <3> QED
      BY <1>1, <3>1 DEF Gentle
  <2>3. /\ Sizes /\ p.buf = <<>> /\ c.count = 0 /\ c.index = p.offset /\ p.offset > 0
        /\ (p.offset = FileLen \/ Boundary(p.offset)) /\ Prefix(bank, p.offset)
        /\ p.offset \in 0 .. FileLen /\ p.size = FileLen
    BY <1>1, <1>5, <1>11, <2>2 DEF Writing, Sizes, PeriphRecs
  <2>4. connected /\ Len(notes) <= 1
    BY <2>3, Constants DEF Inv, OneToken
  <2>5. CASE p.offset = p.size
    <3>1. p' = [over EXCEPT !.offset = 0] /\ sched' = sched
      BY <1>8, <2>1, <2>5
    <3>2. p' \in PeriphRecs /\ p'.mode = "idle" /\ p'.op = p.op /\ p'.offset = 0 /\ p'.buf = <<>>
      <4>1. 0 \in 0 .. FileLen
        BY Constants
      <4> QED
        BY <1>7, <2>3, <3>1, <4>1 DEF PeriphRecs
    <3>3. PTypes'
      BY <1>1, <1>2, <3>1, <3>2 DEF PTypes, PeriphRecs
    <3>4. OneToken'
      BY <1>1, <1>6, <2>4, <3>1, <3>2 DEF Inv, OneToken
    <3>5. Len(air') = 0
      BY <1>1, <1>6
    <3>6. Setup'
      BY <1>1, <1>6, <2>2, <2>3, <3>1, <3>2, <3>5 DEF Setup, Making, Called
    <3> QED
      BY <1>4, <1>9, <3>2, <3>3, <3>4, <3>6, TypeParts DEF Inv
  <2>6. CASE p.offset # p.size
    <3> DEFINE e == [ev |-> "data", ok |-> TRUE]
    <3>1. p' = over /\ sched' = Append(<<>>, e)
      BY <1>6, <1>8, <2>1, <2>3, <2>6 DEF Event
    <3>2. e \in EventRecs /\ e.ev = "data"
      BY DEF EventRecs
    <3> HIDE DEF e
    <3>3. sched' \in Seq(EventRecs) /\ Len(sched') = 1 /\ sched' # <<>> /\ Head(sched').ev = "data"
      BY <3>1, <3>2, OneAppended
    <3>4. PTypes'
      BY <1>1, <1>2, <1>7, <3>1, <3>3 DEF PTypes, PeriphRecs, EventRecs
    <3>5. OneToken'
      BY <1>1, <1>6, <1>7, <2>4, <3>1, <3>3 DEF OneToken
    <3>6. p.offset < FileLen /\ Boundary(p.offset)
      BY <2>3, <2>6, Constants
    <3>7. Asked'
      BY <1>1, <1>6, <1>7, <2>2, <2>3, <3>1, <3>3, <3>6 DEF Asked, NoFrame, Sizes
    <3> QED
      BY <1>4, <1>7, <1>9, <3>1, <3>4, <3>5, <3>7, TypeParts DEF Inv
  <2> QED
    BY <2>5, <2>6
<1> QED
  BY <1>1, <1>6, <1>10, <1>11 DEF Inv, Asked, Sending

-----------------------------------------------------------------------------
(* Faults.                                                                  *)

\* A fault that is counted.
LEMMA Counted ==
  ASSUME faults \in 0 .. MaxFaults, faults < MaxFaults, faults' = faults + 1
  PROVE  faults' \in 0 .. MaxFaults
BY TransferAssumption

LEMMA FlashFailsInv ==
  ASSUME Gentle, Inv, FlashFails
  PROVE  Inv'
<1>1. /\ n # None /\ n.op \in FailOps /\ n' = None /\ rsp' = [op |-> n.op, ok |-> FALSE]
      /\ faults < MaxFaults /\ faults' = faults + 1
      /\ c' = c /\ air' = air /\ txc' = txc /\ notes' = notes /\ connected' = connected
      /\ starts' = starts /\ p' = p /\ sched' = sched /\ cb' = cb /\ req' = req
      /\ bank' = bank /\ done' = done
  BY DEF FlashFails, cVars, pVars
<1>2. CTypes /\ PTypes /\ NTypes /\ connected \in BOOLEAN
  BY TypeParts DEF Inv
<1>3. rsp' \in Answers /\ rsp' # None /\ rsp'.op = n.op /\ rsp'.ok = FALSE
  <2>1. n.op \in Ops
    BY <1>1, <1>2 DEF NTypes, Frames
  <2>2. rsp' \in Answers
    BY <1>1, <2>1 DEF Answers
  <2> QED
    BY <1>1, <2>2, NoneAssumption
<1>4. faults' \in 0 .. MaxFaults
  BY <1>1, <1>2, Counted DEF CTypes
<1>5. CTypes' /\ PTypes' /\ NTypes' /\ connected' \in BOOLEAN
  BY <1>1, <1>2, <1>3, <1>4 DEF CTypes, PTypes, NTypes
<1>6. /\ rsp = None /\ cb = None /\ p.mode # "received"
      /\ req # None => p.op = "info" /\ req.op = "info"
      /\ p.mode = "host" /\ p.op # "info" => req = None /\ n.op = p.op
  BY <1>1 DEF Inv, OneFrame, NoFrame
<1>7. OneFrame' /\ OneToken'
  BY <1>1, <1>3, <1>6 DEF Inv, OneFrame, OneToken, NoFrame
<1>8. n.op # "write"
  BY <1>1 DEF Gentle
<1>9. Setup
  BY <1>1, <1>8 DEF Inv, Asked, Sending, NoFrame, Writing, Completes
<1>10. Setup'
  BY <1>1, <1>3, <1>6, <1>8, <1>9 DEF Setup, Making, Called, Sizes
<1> QED
  BY <1>5, <1>7, <1>10, TypeParts DEF Inv

LEMMA LoseReqInv ==
  ASSUME Gentle, Inv, LoseReq
  PROVE  Inv'
<1>1. /\ req # None /\ req.op \in LoseReqOf /\ req' = None
      /\ faults < MaxFaults /\ faults' = faults + 1
      /\ c' = c /\ air' = air /\ txc' = txc /\ notes' = notes /\ connected' = connected
      /\ starts' = starts /\ p' = p /\ sched' = sched /\ cb' = cb /\ rsp' = rsp /\ n' = n
      /\ bank' = bank /\ done' = done
  BY DEF LoseReq, cVars, pVars, nVars
<1>2. CTypes /\ PTypes /\ NTypes /\ connected \in BOOLEAN
  BY TypeParts DEF Inv
<1>3. faults' \in 0 .. MaxFaults
  BY <1>1, <1>2, Counted DEF CTypes
<1>4. CTypes' /\ PTypes' /\ NTypes' /\ connected' \in BOOLEAN
  BY <1>1, <1>2, <1>3 DEF CTypes, PTypes, NTypes
<1>5. p.mode = "host" /\ cb = None /\ (p.op # "info" => n = None /\ rsp = None)
  BY <1>1 DEF Inv, OneFrame
<1>6. OneFrame' /\ OneToken'
  BY <1>1, <1>5 DEF Inv, OneFrame, OneToken, NoFrame
<1>7. Setup
  BY <1>1 DEF Gentle, Inv, Asked, Sending, NoFrame, Writing, Completes
<1>8. Setup'
  BY <1>1, <1>5, <1>7 DEF Setup, Making, Called, Sizes
<1> QED
  BY <1>4, <1>6, <1>8, TypeParts DEF Inv

LEMMA LoseRspInv ==
  ASSUME Gentle, Inv, LoseRsp
  PROVE  Inv'
<1>1. /\ rsp # None /\ rsp' = None
      /\ faults < MaxFaults /\ faults' = faults + 1
      /\ c' = c /\ air' = air /\ txc' = txc /\ notes' = notes /\ connected' = connected
      /\ starts' = starts /\ p' = p /\ sched' = sched /\ cb' = cb /\ req' = req /\ n' = n
      /\ bank' = bank /\ done' = done
  BY DEF LoseRsp, cVars, pVars, nVars
<1>2. CTypes /\ PTypes /\ NTypes /\ connected \in BOOLEAN
  BY TypeParts DEF Inv
<1>3. faults' \in 0 .. MaxFaults
  BY <1>1, <1>2, Counted DEF CTypes
<1>4. CTypes' /\ PTypes' /\ NTypes' /\ connected' \in BOOLEAN
  BY <1>1, <1>2, <1>3 DEF CTypes, PTypes, NTypes
<1>5. OneFrame' /\ OneToken'
  BY <1>1 DEF Inv, OneFrame, OneToken, NoFrame
<1>6. Setup \/ Writing
  BY <1>1 DEF Inv, Asked, Sending, NoFrame
<1>7. ASSUME Setup
      PROVE  Setup'
  BY <1>1, <1>7 DEF Setup, Making, Called, Sizes
<1>8. ASSUME Writing
      PROVE  Writing'
  BY <1>1, <1>8 DEF Writing, Making, Called, Sizes
<1> QED
  BY <1>4, <1>5, <1>6, <1>7, <1>8, TypeParts DEF Inv

LEMMA DisconnectedInv ==
  ASSUME Gentle, Inv, Disconnected
  PROVE  Inv'
<1>1. /\ connected' = FALSE /\ air' = <<>> /\ notes' = <<>> /\ txc' = 0
      /\ faults < MaxFaults /\ faults' = faults + 1
      /\ p.offset = 0 /\ p.buf = <<>> /\ c.index = 0
      /\ c' = c /\ starts' = starts /\ p' = p /\ sched' = sched /\ cb' = cb /\ req' = req
      /\ rsp' = rsp /\ n' = n /\ bank' = bank /\ done' = done
  BY DEF Disconnected, Gentle, pVars, nVars
<1>2. CTypes /\ PTypes /\ NTypes /\ connected \in BOOLEAN
  BY TypeParts DEF Inv
<1>3. faults' \in 0 .. MaxFaults
  BY <1>1, <1>2, Counted DEF CTypes
<1>4. CTypes' /\ PTypes' /\ NTypes' /\ connected' \in BOOLEAN
  <2>1. air' \in Seq(WriteRecs) /\ notes' \in Seq({"size", "data"}) /\ txc' \in Nat
    BY <1>1
  <2> QED
    BY <1>1, <1>2, <1>3, <2>1 DEF CTypes, PTypes, NTypes, WriteRecs
<1>5. Len(notes') = 0 /\ Len(air') = 0
  BY <1>1
<1>6. OneFrame' /\ OneToken'
  BY <1>1, <1>5 DEF Inv, OneFrame, OneToken, NoFrame
<1>7. Setup \/ Asked
  <2>1. ~Sending
    BY <1>1, Constants DEF Sending
  <2>2. ~Writing
    BY <1>1, Constants DEF Writing
  <2> QED
    BY <2>1, <2>2 DEF Inv
<1>8. ASSUME Setup
      PROVE  Setup'
  BY <1>1, <1>5, <1>8 DEF Setup, Making, Called, Sizes
<1>9. ASSUME Asked, sched # <<>>
      PROVE  Asked'
  BY <1>1, <1>9 DEF Asked, NoFrame, Sizes
<1>10. ASSUME Asked, sched = <<>>
       PROVE  Setup'
  BY <1>1, <1>5, <1>10 DEF Asked, NoFrame, Setup, Making, Called
<1> QED
  BY <1>4, <1>6, <1>7, <1>8, <1>9, <1>10, TypeParts DEF Inv

\* What no stage looks at.
LEMMA Unseen ==
  ASSUME Inv, c' = c, air' = air, txc' = txc, notes' = notes, connected' = TRUE \/ connected' = connected,
         starts' = starts, p' = p, sched' = sched, cb' = cb, req' = req, rsp' = rsp, n' = n,
         bank' = bank, done' = done, faults' = faults
  PROVE  Inv'
<1>1. CTypes /\ PTypes /\ NTypes /\ connected \in BOOLEAN
  BY TypeParts DEF Inv
<1>2. CTypes' /\ PTypes' /\ NTypes' /\ connected' \in BOOLEAN
  <2>1. CTypes'
    BY <1>1 DEF CTypes
  <2>2. PTypes'
    BY <1>1 DEF PTypes
  <2>3. NTypes'
    BY <1>1 DEF NTypes
  <2> QED
    BY <1>1, <2>1, <2>2, <2>3
<1>3. OneFrame' /\ OneToken'
  BY DEF Inv, OneFrame, OneToken, NoFrame
<1>4. ASSUME Setup
      PROVE  Setup'
  BY <1>4 DEF Setup, Making, Called, Sizes
<1>5. ASSUME Asked
      PROVE  Asked'
  BY <1>5 DEF Asked, NoFrame, Sizes
<1>6. ASSUME Writing
      PROVE  Writing'
  BY <1>6 DEF Writing, Making, Called, Sizes
<1>7. ASSUME Sending
      PROVE  Sending'
  <2>1. InBuf' = InBuf
    BY DEF InBuf
  <2>2. Carries(air', p'.offset, InBuf') /\ p'.buf = SubSeq(File, p'.offset + 1, At(p'.offset, InBuf'))
    BY <1>7, <2>1 DEF Sending
  <2> QED
    BY <1>7, <2>1, <2>2 DEF Sending, NoFrame, Sizes
<1> QED
  BY <1>2, <1>3, <1>4, <1>5, <1>6, <1>7, TypeParts DEF Inv

-----------------------------------------------------------------------------
(* The theorems.                                                            *)

LEMMA NextInv ==
  ASSUME Gentle, Inv, [Next]_vars
  PROVE  Inv'
<1>1. CASE Press
  BY <1>1, PressInv
<1>2. CASE Central
  BY <1>2, CentralNotifiedInv, TxCompleteInv DEF Central
<1>3. CASE OnBleWrite
  BY <1>3, OnBleWriteInv
<1>4. CASE Scheduler
  BY <1>4, BleSendReqInv, ProcRspInv, CallbackInv DEF Scheduler
<1>5. CASE Channel
  BY <1>5, RspArrivesInv, LateRspEndsInv, ReqArrivesInv, ReqServedInv DEF Channel
<1>6. CASE Timeout
  BY <1>6, TimeoutInv
<1>7. CASE Faults
  <2>1. CASE Connected
    BY <2>1, Unseen DEF Connected, pVars, nVars
  <2> QED
    BY <1>7, <2>1, FlashFailsInv, LoseReqInv, LoseRspInv, DisconnectedInv DEF Faults
<1>8. CASE UNCHANGED vars
  BY <1>8, Unseen DEF vars, cVars, pVars, nVars
<1> QED
  BY <1>1, <1>2, <1>3, <1>4, <1>5, <1>6, <1>7, <1>8 DEF Next

LEMMA SpecInv ==
  ASSUME Gentle
  PROVE  Spec => []Inv
BY InitInv, NextInv, PTL DEF Spec

\* The state always has its types.
THEOREM TypeCorrect ==
  ASSUME Gentle
  PROVE  Spec => []TypeOK
<1>1. Inv => TypeOK
  BY DEF Inv
<1> QED
  BY <1>1, SpecInv, PTL

\* Blocks are written into erased flash only: what the nRF91 is asked to write lies
\* behind what the bank holds, and the bank is blank there.
LEMMA InvErased ==
  ASSUME Gentle, Inv
  PROVE  WritesErased
<1> SUFFICES ASSUME NEW k \in Cells, n # None, n.op = "write",
                    k \in n.at .. n.at + Len(n.data) - 1
             PROVE  bank[k] = Blank
  BY DEF WritesErased
<1>1. Writing
  BY DEF Inv, Setup, OfSetup, Asked, Sending, NoFrame
<1> DEFINE a == n.at
           o == p.offset
<1>2. a \in 0 .. o /\ n.data = SubSeq(File, a + 1, o) /\ Prefix(bank, a)
  BY <1>1 DEF Writing, Completes
<1>3. FileLen \in Nat /\ o \in 0 .. FileLen
  BY Constants, TypeParts DEF Inv, PTypes
<1>4. Len(n.data) = o - a
  <2>1. a \in 0 .. FileLen /\ o \in a .. FileLen
    BY <1>2, <1>3
  <2> QED
    BY <1>2, <2>1, Parts
<1>5. k \in a .. a + Len(n.data) - 1
  OBVIOUS
<1> HIDE DEF a, o
<1>6. k + 1 \in 1 .. FileLen /\ ~(k + 1 <= a) /\ (k + 1) - 1 = k
  BY <1>2, <1>3, <1>4, <1>5
<1>7. bank[(k + 1) - 1] = Blank
  BY <1>2, <1>6 DEF Prefix
<1> QED
  BY <1>6, <1>7

THEOREM ErasedBeforeWritten ==
  ASSUME Gentle
  PROVE  Spec => []WritesErased
<1>1. Inv => WritesErased
  BY InvErased
<1> QED
  BY <1>1, SpecInv, PTL

\* m_cmd_buffer never holds more than a block: it is passed on with the last packet that
\* can be in it.
LEMMA InvFits ==
  ASSUME Gentle, Inv
  PROVE  BufferFits
<1>1. Block \in Nat \ {0} /\ PktLen \in Nat \ {0} /\ FileLen \in Nat \ {0} /\ SendCount \in Nat \ {0}
  BY Constants
<1>2. CASE p.buf = <<>>
  BY <1>1, <1>2 DEF BufferFits
<1>3. CASE Sending
  <2> DEFINE o == p.offset
             b == InBuf
  <2>1. o \in Nat /\ Boundary(o) /\ o < FileLen /\ p.buf = SubSeq(File, o + 1, At(o, b))
    BY <1>1, <1>3, TypeParts DEF Inv, PTypes, Sending
  <2>2. b \in 0 .. SendCount - 1
    BY <1>3 DEF Sending
  <2> HIDE DEF o, b
  <2>3. At(o, b) \in o .. FileLen - 1 /\ At(o, b) <= o + Block - PktLen
    BY <2>1, <2>2, Packets
  <2>4. Len(p.buf) = At(o, b) - o
    <3>1. o \in 0 .. FileLen /\ At(o, b) \in o .. FileLen
      BY <1>1, <2>1, <2>3
    <3> QED
      BY <2>1, <3>1, Parts
  <2> QED
    BY <1>1, <2>1, <2>3, <2>4 DEF BufferFits
<1> QED
  BY <1>2, <1>3 DEF Inv, Setup, Asked, Writing

THEOREM BlocksFit ==
  ASSUME Gentle
  PROVE  Spec => []BufferFits
<1>1. Inv => BufferFits
  BY InvFits
<1> QED
  BY <1>1, SpecInv, PTL

\* FLASH_DONE is served only when the bank holds the whole file, and with its size.
THEOREM DoneWhole ==
  ASSUME Gentle
  PROVE  Spec => DoneIsWhole
<1>1. ASSUME Inv, [Next]_vars
      PROVE  [done' > done => n.at = FileLen /\ Holds(bank)]_vars
  <2> SUFFICES ASSUME Next, done' > done
               PROVE  n.at = FileLen /\ Holds(bank)
    BY <1>1
  <2>1. done \in Nat
    BY <1>1, TypeParts DEF Inv, NTypes
  <2>2. ASSUME done' = done
        PROVE  FALSE
    BY <2>1, <2>2
  <2>3. ReqServed
    BY <2>2 DEF Next, Press, Central, CentralNotified, TxComplete, OnBleWrite, Scheduler, BleSendReq,
         ProcRsp, Callback, Channel, RspArrives, LateRspEnds, ReqArrives, Timeout, Faults,
         FlashFails, LoseReq, LoseRsp, Disconnected, Connected, nVars
  <2>4. n # None /\ n.op = "done"
    BY <2>2, <2>3 DEF ReqServed
  <2>5. Setup
    BY <1>1, <2>4 DEF Inv, Asked, Sending, NoFrame, Writing, Completes
  <2> QED
    BY <2>4, <2>5 DEF Setup, OfSetup
<1> QED
  BY <1>1, SpecInv, PTL DEF Spec, DoneIsWhole
=============================================================================

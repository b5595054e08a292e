---------------------------- MODULE CmdLinkProofs ----------------------------
(***************************************************************************)
(* Proofs about the link: in every link the nRF91's end is the channel of  *)
(* AppCmd, and where neither end starts an exchange while the other is in  *)
(* one, every exchange takes its course, for any frames and any number of  *)
(* exchanges.                                                              *)
(***************************************************************************)
EXTENDS CmdLink, AppCmdProofs, SequenceTheorems

-----------------------------------------------------------------------------
(* The types, and the channel in the link.                                  *)

LEMMA FrameSize ==
  ASSUME NEW f \in Frame
  PROVE  /\ f.size \in Nat /\ HdrSize \in Nat /\ HdrSize > 0 /\ HdrSize < f.size
         /\ f.size <= Capacity /\ Capacity \in Nat /\ f.size \in Sizes /\ f.op \in Ops
         /\ f.start \in {"req", "rsp"}
<1>1. f.size \in Sizes /\ f.op \in Ops /\ f.start \in {"req", "rsp"}
  BY DEF Frame
<1>2. HdrSize \in Nat /\ HdrSize > 0 /\ Capacity \in Nat /\ Sizes \subseteq HdrSize + 1 .. Capacity
  BY ConstAssumption
<1>3. f.size \in HdrSize + 1 .. Capacity
  BY <1>1, <1>2
<1> QED
  BY <1>1, <1>2, <1>3

\* What is left of f when k units of it have arrived.
Remaining(f, k) == [i \in 1 .. f.size - k |-> [frame |-> f, at |-> k + i]]

LEMMA RemainingType ==
  ASSUME NEW f \in Frame, NEW k \in Nat, k < f.size
  PROVE  /\ Remaining(f, k) \in Seq(Unit) /\ Remaining(f, k) # <<>>
         /\ Head(Remaining(f, k)) = [frame |-> f, at |-> k + 1]
         /\ Tail(Remaining(f, k)) = Remaining(f, k + 1)
<1> DEFINE r == Remaining(f, k)
           n == f.size - k
<1>1. n \in Nat /\ n > 0 /\ f.size \in Nat /\ f.size <= Capacity /\ Capacity \in Nat
  BY FrameSize
<1>2. r \in [1 .. n -> Unit]
  <2>1. ASSUME NEW i \in 1 .. n PROVE [frame |-> f, at |-> k + i] \in Unit
    <3>1. k + i \in 1 .. Capacity /\ k + i <= f.size
      BY <1>1
    <3> QED
      BY <3>1 DEF Unit
  <2> QED
    BY <2>1 DEF Remaining
<1>3. r \in Seq(Unit) /\ Len(r) = n
  BY <1>1, <1>2
<1>4. \A i \in 1 .. n : r[i] = [frame |-> f, at |-> k + i]
  BY DEF Remaining
<1> HIDE DEF r
<1>5. r # <<>> /\ Head(r) = r[1]
  BY <1>1, <1>3
<1>6. /\ Tail(r) \in Seq(Unit) /\ Len(Tail(r)) = n - 1
      /\ \A i \in 1 .. n - 1 : Tail(r)[i] = r[i + 1]
  BY <1>3, <1>5, HeadTailProperties
<1>7. Remaining(f, k + 1) = [i \in 1 .. n - 1 |-> [frame |-> f, at |-> (k + 1) + i]]
  BY <1>1 DEF Remaining
<1>8. \A i \in 1 .. n - 1 : i + 1 \in 1 .. n /\ k + (i + 1) = (k + 1) + i
  BY <1>1
<1>9. \A i \in 1 .. n - 1 : Tail(r)[i] = [frame |-> f, at |-> (k + 1) + i]
  BY <1>4, <1>6, <1>8
<1>10. Tail(r) = Remaining(f, k + 1)
  <2>1. PICK t, z : t = Tail(r) /\ z = n - 1
    OBVIOUS
  <2>2. t \in Seq(Unit) /\ Len(t) = z
    BY <1>6, <2>1
  <2>3. t = [i \in 1 .. z |-> t[i]]
    BY <2>2
  <2> QED
    BY <1>7, <1>9, <2>1, <2>3
<1>11. Head(r) = [frame |-> f, at |-> k + 1]
  <2>1. 1 \in 1 .. n
    BY <1>1
  <2>2. r[1] = [frame |-> f, at |-> k + 1]
    BY <1>4, <2>1
  <2> QED
    BY <1>5, <2>2
<1> QED
  BY <1>3, <1>5, <1>10, <1>11 DEF r

LEMMA UnitsAre ==
  ASSUME NEW f \in Frame PROVE Units(f) = Remaining(f, 0) /\ Units(f) \in Seq(Unit)
<1>1. f.size \in Nat /\ f.size > 0
  BY FrameSize
<1>2. Units(f) = Remaining(f, 0)
  BY <1>1 DEF Units, Remaining
<1> QED
  BY <1>1, <1>2, RemainingType

\* The steps of the link are steps of the channel, or leave it alone.
LEMMA ChannelStep == LinkTypeOK /\ [LinkNext]_allVars => [Next]_vars
<1> SUFFICES ASSUME LinkTypeOK, [LinkNext]_allVars PROVE [Next]_vars
  OBVIOUS
<1>1. CASE Deliver
  <2>1. UartRx(Head(line)) \/ UNCHANGED vars
    BY <1>1 DEF Deliver
  <2>2. Head(line) \in Unit
    BY <1>1 DEF Deliver, LinkTypeOK
  <2> QED
    BY <2>1, <2>2 DEF Next
<1>2. CASE LoseUnit \/ PeerRequest \/ PeerAnswer \/ PeerTimeout
  BY <1>2 DEF LoseUnit, PeerRequest, PeerAnswer, PeerTimeout
<1>3. CASE LinkTxDone \/ LinkRspTimeout \/ Press \/ LinkThread
  BY <1>3 DEF LinkTxDone, LinkRspTimeout, Press, LinkThread, Next, Isr
<1>4. CASE UNCHANGED allVars
  BY <1>4 DEF allVars
<1> QED
  BY <1>1, <1>2, <1>3, <1>4 DEF LinkNext

LEMMA LinkTypeInit == LinkInit => TypeOK /\ LinkTypeOK
<1> SUFFICES ASSUME LinkInit PROVE TypeOK /\ LinkTypeOK
  OBVIOUS
<1>1. TypeOK
  BY TypeInit DEF LinkInit
<1>2. line = <<>> /\ link \in Links /\ peer = PeerIdle /\ outcome = "none"
      /\ lost = 0 /\ presses = 0
  BY DEF LinkInit
<1>3. line \in Seq(Unit)
  BY <1>2
<1> QED
  BY <1>1, <1>2, <1>3, LinkAssumption DEF LinkTypeOK

LEMMA LinkTypeNext == TypeOK /\ LinkTypeOK /\ [LinkNext]_allVars => TypeOK' /\ LinkTypeOK'
<1> SUFFICES ASSUME TypeOK, LinkTypeOK, [LinkNext]_allVars PROVE TypeOK' /\ LinkTypeOK'
  OBVIOUS
<1> USE DEF LinkTypeOK, linkVars
<1>1. TypeOK'
  BY ChannelStep, TypeStep
<1> SUFFICES LinkTypeOK'
  BY <1>1
<1>2. line # <<>> => Tail(line) \in Seq(Unit)
  OBVIOUS
<1>3. CASE Deliver
  BY <1>2, <1>3 DEF Deliver
<1>4. CASE LoseUnit
  <2>1. lost' \in 0 .. MaxLost
    BY <1>4, LinkAssumption DEF LoseUnit
  <2> QED
    BY <1>2, <1>4, <2>1 DEF LoseUnit
<1>5. CASE PeerRequest \/ PeerAnswer
  <2>1. PICK f \in Frame :
          line' = Units(f) /\ peer' \in {PeerIdle, [role |-> "HOST", op |-> f.op]}
    BY <1>5 DEF PeerRequest, PeerAnswer
  <2>2. line' \in Seq(Unit) /\ f.op \in Ops
    BY <2>1, UnitsAre, FrameSize
  <2>3. peer' \in {PeerIdle} \cup [role : {"HOST", "SLAVE"}, op : Ops]
    BY <2>1, <2>2
  <2> QED
    BY <1>5, <2>2, <2>3 DEF PeerRequest, PeerAnswer
<1>6. CASE PeerTimeout
  BY <1>6 DEF PeerTimeout
<1>7. CASE LinkTxDone
  <2>1. fifo # <<>> /\ PeerRx(fifo[Len(fifo)].frame) /\ UNCHANGED <<link, line, lost, presses>>
    BY <1>7 DEF LinkTxDone, UartTxDone
  <2>2. fifo[Len(fifo)].frame \in Frame
    <3>1. PICK q : q = fifo
      OBVIOUS
    <3>2. q \in Seq([frame : Frame, whole : BOOLEAN]) /\ q # <<>>
      BY <2>1, <3>1 DEF TypeOK
    <3>3. q[Len(q)] \in [frame : Frame, whole : BOOLEAN]
      <4>1. PICK E : E = [frame : Frame, whole : BOOLEAN]
        OBVIOUS
      <4>2. q \in Seq(E) /\ q # <<>>
        BY <3>2, <4>1
      <4>3. Len(q) \in 1 .. Len(q)
        BY <4>2
      <4> QED
        BY <4>1, <4>2, <4>3, ElementOfSeq
    <3> QED
      BY <3>1, <3>3
  <2>3. PICK f \in Frame : PeerRx(f)
    BY <2>1, <2>2
  <2>4. \/ peer' = [role |-> "SLAVE", op |-> f.op] /\ UNCHANGED outcome
        \/ peer' = PeerIdle /\ outcome' = "rsp"
        \/ UNCHANGED <<peer, outcome>>
    BY <2>3 DEF PeerRx
  <2>5. [role |-> "SLAVE", op |-> f.op] \in [role : {"HOST", "SLAVE"}, op : Ops]
    BY FrameSize
  <2> QED
    BY <2>1, <2>4, <2>5
<1>8. CASE LinkRspTimeout \/ LinkThread
  BY <1>8 DEF LinkRspTimeout, LinkThread
<1>9. CASE Press
  <2>1. presses' \in 0 .. MaxPresses
    BY <1>9, LinkAssumption DEF Press
  <2> QED
    BY <1>9, <2>1 DEF Press
<1>10. CASE UNCHANGED allVars
  BY <1>10 DEF allVars
<1> QED
  BY <1>1, <1>3, <1>4, <1>5, <1>6, <1>7, <1>8, <1>9, <1>10 DEF LinkNext

LEMMA LinkTyped == LinkSpec => [](TypeOK /\ LinkTypeOK)
BY LinkTypeInit, LinkTypeNext, PTL DEF LinkSpec

\* The nRF91 at one end of a link, of whatever kind, is the channel of AppCmd: what is
\* proved of the channel holds in every link.
THEOREM ChannelInLink == LinkSpec => Spec
<1>1. LinkInit => Init
  BY DEF LinkInit
<1>2. LinkTypeOK /\ [LinkNext]_allVars => [Next]_vars
  BY ChannelStep
<1> QED
  BY <1>1, <1>2, LinkTyped, PTL DEF LinkSpec, Spec

-----------------------------------------------------------------------------
(* A polite link between two ends with memory enough and no serial DFU.     *)
(*                                                                         *)
(* An exchange then takes one of two courses: the nRF52's request is        *)
(* heard unit by unit, served and answered, or the nRF91 asks, awaits the   *)
(* response and hears it.  At every point exactly one party has something   *)
(* to do, which is why no timer can fire.                                   *)

\* k units of f are in the pool, the others are on their way.
Between(f, k) ==
  /\ k < f.size /\ line = Remaining(f, k)
  /\ rxLen = k /\ \A i \in 1 .. k : pool[i] = [frame |-> f, at |-> i]
  /\ rxStarted <=> k > 0
  /\ k > 0 => bufSet /\ cmdLen = IF k < HdrSize THEN 0 ELSE f.size

\* Nothing is on its way to the nRF91, and its parser is between frames.
Still == line = <<>> /\ ~rxStarted

\* The work queue thread is at p and has nothing else to do.
At(p) == pc = p /\ ~wkReq /\ ~wkRsp

Sent(f) == fifo = <<[frame |-> f, whole |-> TRUE]>> /\ txIrq /\ txBuf = f

Free ==
  /\ Still /\ At("idle") /\ peer = PeerIdle /\ mode = "IDLE" /\ state = "IDLE"
  /\ fifo = <<>> /\ ~timer /\ rxLen = 0

HearsRequest(f, k) ==
  /\ Between(f, k) /\ At("idle") /\ fifo = <<>> /\ ~timer
  /\ f.start = "req" /\ peer = [role |-> "HOST", op |-> f.op]
  /\ IF k = 0 THEN mode = "IDLE" /\ state = "IDLE"
              ELSE mode = "SLAVE" /\ state = "REQ_RECEIVING"

Serves(f) ==
  /\ Still /\ peer = [role |-> "HOST", op |-> f.op] /\ fifo = <<>> /\ ~timer
  /\ pool[HdrSize + 1] = [frame |-> f, at |-> HdrSize + 1] /\ bufSet
  /\ mode = "SLAVE" /\ state = "REQ_RECEIVED" /\ ~wkRsp
  /\ \/ wkReq /\ pc = "idle"
     \/ ~wkReq /\ pc = "respCheck"
     \/ ~wkReq /\ pc = "respStart" /\ cur = f.op

Answers(o) ==
  /\ Still /\ peer = [role |-> "HOST", op |-> o] /\ ~timer
  /\ mode = "SLAVE" /\ state = "RSP_SENDING"
  /\ \/ At("respSend") /\ cur = o /\ fifo = <<>>
     \/ At("idle") /\ \E f \in Frame : Sent(f) /\ f.start = "rsp" /\ f.op = o

Asks ==
  /\ Still /\ peer = PeerIdle /\ ~timer /\ rxLen = 0
  /\ \/ (At("reqCheck") \/ At("reqMode")) /\ mode = "IDLE" /\ state = "IDLE" /\ fifo = <<>>
     \/ At("reqStart") /\ mode = "HOST" /\ state = "IDLE" /\ fifo = <<>>
     \/ At("reqSend") /\ mode = "HOST" /\ state = "REQ_SENDING" /\ fifo = <<>>
     \/ /\ At("idle") /\ mode = "HOST" /\ state = "REQ_SENDING"
        /\ \E f \in Frame : Sent(f) /\ f.start = "req"

Awaits ==
  /\ Still /\ At("idle") /\ fifo = <<>> /\ timer /\ rxLen = 0
  /\ txBuf # Blank /\ peer = [role |-> "SLAVE", op |-> txBuf.op]
  /\ mode = "HOST" /\ state = "REQ_SENT"

HearsResponse(f, k) ==
  /\ Between(f, k) /\ At("idle") /\ fifo = <<>> /\ timer
  /\ f.start = "rsp" /\ txBuf # Blank /\ f.op = txBuf.op /\ peer = PeerIdle
  /\ mode = "HOST" /\ state = IF k = 0 THEN "REQ_SENT" ELSE "RSP_RECEIVING"

Concludes ==
  /\ Still /\ peer = PeerIdle /\ ~timer /\ ~wkReq /\ fifo = <<>>
  /\ \/ wkRsp /\ pc = "idle" /\ mode = "HOST" /\ state = "RSP_RECEIVED"
     \/ At("rspReset") /\ mode = "HOST" /\ state = "IDLE"
     \/ At("rspMode") /\ mode = "HOST" /\ state = "IDLE" /\ rxLen = 0
     \/ At("rspCall") /\ mode = "IDLE" /\ state = "IDLE" /\ rxLen = 0

Course ==
  \/ Free \/ Asks \/ Awaits \/ Concludes
  \/ \E f \in Frame, k \in Nat : HearsRequest(f, k) \/ HearsResponse(f, k)
  \/ \E f \in Frame : Serves(f)
  \/ \E o \in Ops : Answers(o)

\* The channel has its UART, and no timer has fired.
Calm == uart = "cmd" /\ outcome # "timeout" /\ (told # Blank => told.kind = "rsp")

Orderly == link = "polite" => Calm /\ Course

\* What the proofs of the steps have in common.
Polite == TypeOK /\ LinkTypeOK /\ link = "polite" /\ Calm /\ Course

\* Each phase is recognised by what its steps are guarded by.
LEMMA LineBusy == Polite /\ line # <<>> =>
        \E f \in Frame, k \in Nat : HearsRequest(f, k) \/ HearsResponse(f, k)
BY DEF Polite, Course, Free, Asks, Awaits, Concludes, Serves, Answers, Still

LEMMA Unheard ==
  ASSUME Polite, line = <<>>
  PROVE  Free \/ Asks \/ Awaits \/ Concludes \/ (\E f \in Frame : Serves(f))
         \/ \E o \in Ops : Answers(o)
<1>1. ASSUME NEW f \in Frame, NEW k \in Nat, HearsRequest(f, k) \/ HearsResponse(f, k)
      PROVE  FALSE
  BY <1>1, RemainingType DEF HearsRequest, HearsResponse, Between
<1> QED
  BY <1>1 DEF Polite, Course

\* The next unit of a frame that the nRF91 is ready to hear: with the last one the
\* frame is complete and passes the checks, and before that the parser stays in it.
LEMMA Parses ==
  ASSUME TypeOK, uart = "cmd", ~RxRefused,
         NEW f \in Frame, NEW k \in Nat, Between(f, k),
         UartRx([frame |-> f, at |-> k + 1]),
         NEW m, m = IF k = 0 /\ mode # "HOST" /\ state # "REQ_RECEIVING" THEN "SLAVE" ELSE mode,
         NEW s, s = IF k > 0 THEN state
                    ELSE IF mode = "HOST" THEN "RSP_RECEIVING" ELSE "REQ_RECEIVING",
         m = "HOST" => f.start = "rsp" /\ txBuf # Blank /\ f.op = txBuf.op,
         m = "SLAVE" => f.start = "req"
  PROVE  /\ bufSet' /\ rxLen' = k + 1 /\ mode' = m
         /\ \A i \in 1 .. k + 1 : pool'[i] = [frame |-> f, at |-> i]
         /\ UNCHANGED <<txVars, uart, thread, history>>
         /\ \/ /\ k + 1 < f.size /\ rxStarted' /\ state' = s
               /\ cmdLen' = IF k + 1 < HdrSize THEN 0 ELSE f.size
               /\ UNCHANGED <<timer, workVars>>
            \/ /\ k + 1 = f.size /\ ~rxStarted'
               /\ state' = CASE m = "HOST" -> "RSP_RECEIVED" [] m = "SLAVE" -> "REQ_RECEIVED"
                             [] OTHER -> s
               /\ timer' = (timer /\ m # "HOST")
               /\ wkRsp' = (wkRsp \/ m = "HOST") /\ wkReq' = (wkReq \/ m = "SLAVE")
<1> DEFINE n == k + 1
           u == [frame |-> f, at |-> n]
           c0 == IF ~rxStarted THEN 0 ELSE cmdLen
           readsLen == c0 = 0 /\ n = HdrSize
           cn == IF n < HdrSize THEN 0 ELSE f.size
<1>1. /\ k < f.size /\ rxLen = k /\ (rxStarted <=> k > 0)
      /\ \A i \in 1 .. k : pool[i] = [frame |-> f, at |-> i]
      /\ k > 0 => bufSet /\ cmdLen = IF k < HdrSize THEN 0 ELSE f.size
  BY DEF Between
<1>2. /\ f.size \in Nat /\ HdrSize \in Nat /\ HdrSize > 0 /\ HdrSize < f.size
      /\ f.size <= Capacity /\ Capacity \in Nat
  BY FrameSize
<1>3. pool' = [pool EXCEPT ![n] = u] /\ UNCHANGED <<txVars, uart, thread, history>>
      /\ on_uart_rx_ready(pool', n)
  BY <1>1 DEF UartRx
<1>4. \A i \in 1 .. n : pool'[i] = [frame |-> f, at |-> i]
  <2>1. pool \in [1 .. Capacity -> Cell] /\ n \in 1 .. Capacity
    BY <1>1, <1>2 DEF TypeOK
  <2> QED
    BY <1>1, <1>2, <1>3, <2>1
<1>5. PICK p : p = pool'
  OBVIOUS
<1>6. readsLen => LenRead(p) = {f.size}
  <2>1. SUFFICES ASSUME readsLen PROVE LenRead(p) = {f.size}
    OBVIOUS
  <2>2. p[HdrSize] = [frame |-> f, at |-> HdrSize]
    BY <1>1, <1>2, <1>4, <1>5, <2>1
  <2> QED
    BY <2>2 DEF LenRead
<1>7. IF readsLen THEN f.size = cn ELSE c0 = cn
  <2>1. CASE k = 0
    <3>1. c0 = 0
      BY <1>1, <2>1
    <3> HIDE DEF c0
    <3> QED
      BY <1>2, <2>1, <3>1
  <2>2. CASE k > 0
    <3>1. c0 = IF k < HdrSize THEN 0 ELSE f.size
      BY <1>1, <2>2
    <3> HIDE DEF c0
    <3> QED
      BY <1>2, <2>2, <3>1
  <2> QED
    BY <2>1, <2>2
<1>8. FormatOk(p, n, m) \/ n # f.size
  BY <1>4, <1>5 DEF FormatOk
<1>9. k = 0 <=> ~rxStarted
  <2>1. CASE k = 0
    BY <1>1, <2>1
  <2>2. CASE k > 0
    BY <1>1, <2>2
  <2> QED
    BY <2>1, <2>2
<1>10. s = IF rxStarted THEN state
           ELSE IF mode = "HOST" THEN "RSP_RECEIVING" ELSE "REQ_RECEIVING"
  BY <1>1
<1>11. m = IF ~rxStarted /\ mode # "HOST" /\ state # "REQ_RECEIVING" THEN "SLAVE" ELSE mode
  BY <1>9
<1>12. on_uart_rx_ready(p, n)
  BY <1>3, <1>5
<1>13. /\ bufSet' = (bufSet \/ ~rxStarted)
       /\ \E c \in IF readsLen THEN LenRead(p) ELSE {c0} :
            /\ cmdLen' = c
            /\ \/ /\ c = 0 \/ n < c
                  /\ rxStarted' = TRUE
                  /\ IF readsLen /\ c > Capacity
                     THEN on_cmd_receive_error(m, n)
                     ELSE mode' = m /\ state' = s /\ rxLen' = n
                  /\ UNCHANGED <<timer, workVars>>
               \/ /\ c # 0 /\ n >= c /\ FormatOk(p, n, m)
                  /\ EndOfFrame
                  /\ mode' = m /\ rxLen' = n
                  /\ state' = CASE m = "HOST"  -> "RSP_RECEIVED"
                                [] m = "SLAVE" -> "REQ_RECEIVED"
                                [] OTHER       -> s
                  /\ timer' = (timer /\ m # "HOST")
                  /\ wkRsp' = (wkRsp \/ m = "HOST")
                  /\ wkReq' = (wkReq \/ m = "SLAVE")
               \/ /\ c # 0 /\ n >= c /\ ~FormatOk(p, n, m)
                  /\ EndOfFrame
                  /\ on_cmd_receive_error(m, n)
                  /\ UNCHANGED <<timer, workVars>>
  BY <1>10, <1>11, <1>12 DEF on_uart_rx_ready
<1>14. /\ cmdLen' = cn
       /\ \/ /\ cn = 0 \/ n < cn
             /\ rxStarted' = TRUE
             /\ IF readsLen /\ cn > Capacity
                THEN on_cmd_receive_error(m, n)
                ELSE mode' = m /\ state' = s /\ rxLen' = n
             /\ UNCHANGED <<timer, workVars>>
          \/ /\ cn # 0 /\ n >= cn /\ FormatOk(p, n, m)
             /\ EndOfFrame
             /\ mode' = m /\ rxLen' = n
             /\ state' = CASE m = "HOST"  -> "RSP_RECEIVED"
                           [] m = "SLAVE" -> "REQ_RECEIVED"
                           [] OTHER       -> s
             /\ timer' = (timer /\ m # "HOST")
             /\ wkRsp' = (wkRsp \/ m = "HOST")
             /\ wkReq' = (wkReq \/ m = "SLAVE")
          \/ /\ cn # 0 /\ n >= cn /\ ~FormatOk(p, n, m)
             /\ EndOfFrame
             /\ on_cmd_receive_error(m, n)
             /\ UNCHANGED <<timer, workVars>>
  <2>1. (IF readsLen THEN LenRead(p) ELSE {c0}) = {cn}
    BY <1>6, <1>7
  <2> HIDE DEF readsLen, c0, cn
  <2> QED
    BY <1>13, <2>1
<1>15. bufSet'
  BY <1>1, <1>13
<1>16. cn <= Capacity /\ n <= f.size /\ (cn # 0 /\ n >= cn => n = f.size)
       /\ (cn = 0 \/ n < cn => n < f.size)
  BY <1>1, <1>2
<1> HIDE DEF readsLen, c0
<1>17. CASE (cn = 0 \/ n < cn) /\ rxStarted'
  <2>1. mode' = m /\ state' = s /\ rxLen' = n /\ UNCHANGED <<timer, workVars>>
    BY <1>2, <1>14, <1>16, <1>17 DEF EndOfFrame
  <2> QED
    BY <1>3, <1>4, <1>14, <1>15, <1>16, <1>17, <2>1
<1>18. CASE cn # 0 /\ n >= cn
  <2>1. n = f.size /\ FormatOk(p, n, m)
    BY <1>8, <1>16, <1>18
  <2>2. ~(cn = 0 \/ n < cn)
    BY <1>2, <1>18
  <2>3. /\ EndOfFrame /\ mode' = m /\ rxLen' = n
        /\ state' = CASE m = "HOST"  -> "RSP_RECEIVED"
                      [] m = "SLAVE" -> "REQ_RECEIVED"
                      [] OTHER       -> s
        /\ timer' = (timer /\ m # "HOST")
        /\ wkRsp' = (wkRsp \/ m = "HOST") /\ wkReq' = (wkReq \/ m = "SLAVE")
    BY <1>14, <2>1, <2>2
  <2> QED
    BY <1>3, <1>4, <1>15, <2>1, <2>3 DEF EndOfFrame
<1> QED
  BY <1>14, <1>17, <1>18

LEMMA NothingRemains == ASSUME NEW f \in Frame PROVE Remaining(f, f.size) = <<>>
<1>1. f.size - f.size = 0
  BY FrameSize
<1>2. Remaining(f, f.size) = [i \in 1 .. 0 |-> [frame |-> f, at |-> f.size + i]]
  BY <1>1 DEF Remaining
<1> QED
  BY <1>2

\* A step of the line.
LEMMA DeliverOrderly == Polite /\ Deliver => Calm' /\ Course'
<1> SUFFICES ASSUME Polite, Deliver PROVE Calm' /\ Course'
  OBVIOUS
<1>1. PICK f \in Frame, k \in Nat : HearsRequest(f, k) \/ HearsResponse(f, k)
  BY LineBusy DEF Deliver
<1>2. Between(f, k) /\ At("idle") /\ fifo = <<>> /\ uart = "cmd" /\ TypeOK
  BY <1>1 DEF HearsRequest, HearsResponse, Polite, Calm
<1>3. k < f.size /\ line = Remaining(f, k) /\ rxLen = k
  BY <1>2 DEF Between
<1>4. f.size \in Nat /\ HdrSize \in Nat /\ HdrSize < f.size /\ f.size <= Capacity /\ Capacity \in Nat
  BY FrameSize
<1>5. Head(line) = [frame |-> f, at |-> k + 1] /\ line' = Remaining(f, k + 1)
  BY <1>3, RemainingType DEF Deliver
<1>6. UartRx([frame |-> f, at |-> k + 1]) /\ UNCHANGED <<link, peer, outcome, lost, presses>>
  BY <1>3, <1>4, <1>5 DEF Deliver
<1>7. UNCHANGED <<txVars, uart, thread, history>>
  BY <1>6 DEF UartRx
<1>8. Calm'
  BY <1>6, <1>7 DEF Polite, Calm, history
<1>9. k + 1 = f.size => line' = <<>>
  BY <1>5, NothingRemains
<1>10. CASE HearsRequest(f, k)
  <2>1. ~RxRefused
    BY <1>10 DEF HearsRequest, RxRefused
  <2>2. "SLAVE" = IF k = 0 /\ mode # "HOST" /\ state # "REQ_RECEIVING" THEN "SLAVE" ELSE mode
    BY <1>10 DEF HearsRequest
  <2>3. "REQ_RECEIVING" = IF k > 0 THEN state
                          ELSE IF mode = "HOST" THEN "RSP_RECEIVING" ELSE "REQ_RECEIVING"
    BY <1>10 DEF HearsRequest
  <2>4. f.start = "req" /\ ~timer /\ peer = [role |-> "HOST", op |-> f.op]
    BY <1>10 DEF HearsRequest
  <2>5. /\ bufSet' /\ rxLen' = k + 1 /\ mode' = "SLAVE"
        /\ \A i \in 1 .. k + 1 : pool'[i] = [frame |-> f, at |-> i]
        /\ \/ /\ k + 1 < f.size /\ rxStarted' /\ state' = "REQ_RECEIVING"
              /\ cmdLen' = IF k + 1 < HdrSize THEN 0 ELSE f.size
              /\ UNCHANGED <<timer, workVars>>
           \/ /\ k + 1 = f.size /\ ~rxStarted' /\ state' = "REQ_RECEIVED"
              /\ timer' = (timer /\ "SLAVE" # "HOST")
              /\ wkRsp' = (wkRsp \/ "SLAVE" = "HOST") /\ wkReq' = (wkReq \/ "SLAVE" = "SLAVE")
    <3>1. PICK m, s : m = "SLAVE" /\ s = "REQ_RECEIVING"
      OBVIOUS
    <3>2. /\ m = IF k = 0 /\ mode # "HOST" /\ state # "REQ_RECEIVING" THEN "SLAVE" ELSE mode
          /\ s = IF k > 0 THEN state
                 ELSE IF mode = "HOST" THEN "RSP_RECEIVING" ELSE "REQ_RECEIVING"
          /\ m # "HOST"
      BY <2>2, <2>3, <3>1
    <3>3. /\ bufSet' /\ rxLen' = k + 1 /\ mode' = m
          /\ \A i \in 1 .. k + 1 : pool'[i] = [frame |-> f, at |-> i]
          /\ \/ /\ k + 1 < f.size /\ rxStarted' /\ state' = s
                /\ cmdLen' = IF k + 1 < HdrSize THEN 0 ELSE f.size
                /\ UNCHANGED <<timer, workVars>>
             \/ /\ k + 1 = f.size /\ ~rxStarted'
                /\ state' = CASE m = "HOST" -> "RSP_RECEIVED" [] m = "SLAVE" -> "REQ_RECEIVED"
                              [] OTHER -> s
                /\ timer' = (timer /\ m # "HOST")
                /\ wkRsp' = (wkRsp \/ m = "HOST") /\ wkReq' = (wkReq \/ m = "SLAVE")
      BY <1>2, <1>6, <2>1, <2>4, <3>2, Parses
    <3> QED
      BY <3>1, <3>3
  <2>6. CASE k + 1 < f.size
    <3>1. k + 1 \in Nat /\ k + 1 > 0 /\ k + 1 # f.size
      BY <2>6, <1>4
    <3>2. Between(f, k + 1)'
      BY <1>5, <2>5, <2>6, <3>1 DEF Between
    <3>3. At("idle")' /\ ~timer' /\ fifo' = <<>> /\ mode' = "SLAVE" /\ state' = "REQ_RECEIVING"
      BY <1>2, <1>7, <2>4, <2>5, <3>1 DEF At, workVars, thread, txVars
    <3>4. HearsRequest(f, k + 1)'
      BY <1>6, <2>4, <3>1, <3>2, <3>3 DEF HearsRequest
    <3> QED
      BY <1>8, <3>1, <3>4 DEF Course
  <2>7. CASE k + 1 = f.size
    <3>1. ~(k + 1 < f.size) /\ HdrSize + 1 \in 1 .. k + 1
      BY <1>4, <2>7
    <3>2. pool'[HdrSize + 1] = [frame |-> f, at |-> HdrSize + 1]
      BY <2>5, <3>1
    <3>3. Serves(f)'
      BY <1>2, <1>6, <1>7, <1>9, <2>4, <2>5, <2>7, <3>1, <3>2
      DEF Serves, Still, At, workVars, thread, txVars
    <3> QED
      BY <1>8, <3>3 DEF Course
  <2> QED
    BY <1>3, <1>4, <2>6, <2>7
<1>11. CASE HearsResponse(f, k)
  <2>1. ~RxRefused
    BY <1>11 DEF HearsResponse, RxRefused
  <2>2. mode = "HOST" /\ state = (IF k = 0 THEN "REQ_SENT" ELSE "RSP_RECEIVING") /\ timer
    BY <1>11 DEF HearsResponse
  <2>3. f.start = "rsp" /\ txBuf # Blank /\ f.op = txBuf.op /\ peer = PeerIdle
    BY <1>11 DEF HearsResponse
  <2>4. PICK m, s : m = "HOST" /\ s = "RSP_RECEIVING"
    OBVIOUS
  <2>5. /\ m = IF k = 0 /\ mode # "HOST" /\ state # "REQ_RECEIVING" THEN "SLAVE" ELSE mode
        /\ s = IF k > 0 THEN state
               ELSE IF mode = "HOST" THEN "RSP_RECEIVING" ELSE "REQ_RECEIVING"
        /\ m # "SLAVE"
    BY <2>2, <2>4
  <2>6. /\ bufSet' /\ rxLen' = k + 1 /\ mode' = m
        /\ \A i \in 1 .. k + 1 : pool'[i] = [frame |-> f, at |-> i]
        /\ \/ /\ k + 1 < f.size /\ rxStarted' /\ state' = s
              /\ cmdLen' = IF k + 1 < HdrSize THEN 0 ELSE f.size
              /\ UNCHANGED <<timer, workVars>>
           \/ /\ k + 1 = f.size /\ ~rxStarted'
              /\ state' = CASE m = "HOST" -> "RSP_RECEIVED" [] m = "SLAVE" -> "REQ_RECEIVED"
                            [] OTHER -> s
              /\ timer' = (timer /\ m # "HOST")
              /\ wkRsp' = (wkRsp \/ m = "HOST") /\ wkReq' = (wkReq \/ m = "SLAVE")
    BY <1>2, <1>6, <2>1, <2>3, <2>5, Parses
  <2>7. CASE k + 1 < f.size
    <3>1. k + 1 \in Nat /\ k + 1 > 0 /\ k + 1 # f.size /\ k + 1 # 0
      BY <2>7, <1>4
    <3>2. Between(f, k + 1)'
      BY <1>5, <2>6, <2>7, <3>1 DEF Between
    <3>3. At("idle")' /\ timer' /\ fifo' = <<>> /\ mode' = "HOST" /\ state' = "RSP_RECEIVING"
          /\ txBuf' = txBuf
      <4>1. mode' = m /\ state' = s /\ timer' = timer /\ UNCHANGED workVars
        BY <2>6, <3>1
      <4> QED
        BY <1>2, <1>7, <2>2, <2>4, <4>1 DEF At, workVars, thread, txVars
    <3>4. HearsResponse(f, k + 1)'
      BY <1>6, <2>3, <3>1, <3>2, <3>3 DEF HearsResponse
    <3> QED
      BY <1>8, <3>1, <3>4 DEF Course
  <2>8. CASE k + 1 = f.size
    <3>1. ~(k + 1 < f.size)
      BY <1>4, <2>8
    <3>2. Concludes'
      BY <1>2, <1>6, <1>7, <1>9, <2>3, <2>4, <2>6, <2>8, <3>1
      DEF Concludes, Still, At, workVars, thread, txVars
    <3> QED
      BY <1>8, <3>2 DEF Course
  <2> QED
    BY <1>3, <1>4, <2>7, <2>8
<1> QED
  BY <1>1, <1>10, <1>11

\* Who waits is told by the role of the peer.
LEMMA RoleTells ==
  /\ Free \/ Asks \/ Concludes => peer.role = "IDLE"
  /\ Awaits => peer.role = "SLAVE"
  /\ \A f \in Frame : Serves(f) => peer.role = "HOST"
  /\ \A o \in Ops : Answers(o) => peer.role = "HOST"
<1>1. PeerIdle.role = "IDLE"
  BY DEF PeerIdle
<1>2. Free \/ Asks \/ Concludes => peer = PeerIdle
  BY DEF Free, Asks, Concludes
<1> QED
  BY <1>1, <1>2 DEF Awaits, Serves, Answers

\* The steps of the nRF52.
LEMMA PeerOrderly ==
        Polite /\ (LoseUnit \/ PeerRequest \/ PeerAnswer \/ PeerTimeout) => Calm' /\ Course'
<1> SUFFICES ASSUME Polite, LoseUnit \/ PeerRequest \/ PeerAnswer \/ PeerTimeout
             PROVE  Calm' /\ Course'
  OBVIOUS
<1>1. link = "polite" /\ Calm
  BY DEF Polite
<1>2. ~LoseUnit
  BY <1>1 DEF LoseUnit
<1>3. line = <<>>
  BY <1>2 DEF PeerRequest, PeerAnswer, PeerTimeout, Quiet
<1>4. Free \/ Asks \/ Awaits \/ Concludes \/ (\E f \in Frame : Serves(f))
      \/ \E o \in Ops : Answers(o)
  BY <1>3, Unheard
<1>5. PeerRequest \/ PeerAnswer => UNCHANGED <<vars, outcome>> /\ Calm'
  BY <1>1 DEF PeerRequest, PeerAnswer, Calm, vars, history
<1>6. CASE PeerRequest
  <2>1. peer = PeerIdle /\ mode = "IDLE" /\ pc = "idle" /\ ~wkReq /\ ~wkRsp
    BY <1>1, <1>6 DEF PeerRequest, ThreadRests
  <2>2. Free
    BY <1>4, <2>1 DEF Asks, Awaits, Concludes, Serves, Answers, At, PeerIdle
  <2>3. PICK f \in Frame : f.start = "req" /\ line' = Units(f)
                           /\ peer' = [role |-> "HOST", op |-> f.op]
    BY <1>6 DEF PeerRequest
  <2>4. line' = Remaining(f, 0) /\ 0 < f.size
    BY <2>3, UnitsAre, FrameSize
  <2>5. HearsRequest(f, 0)'
    BY <1>5, <1>6, <2>2, <2>3, <2>4
    DEF HearsRequest, Between, At, Free, Still, vars, ctxVars, rxVars, txVars, workVars, thread
  <2> QED
    BY <1>5, <1>6, <2>5 DEF Course
<1>7. CASE PeerAnswer
  <2>1. peer.role = "SLAVE"
    BY <1>7 DEF PeerAnswer
  <2>2. Awaits
    BY <1>4, <2>1, RoleTells
  <2>3. PICK f \in Frame : f.start = "rsp" /\ f.op = peer.op /\ line' = Units(f)
                           /\ peer' = PeerIdle
    BY <1>7 DEF PeerAnswer
  <2>4. line' = Remaining(f, 0) /\ 0 < f.size
    BY <2>3, UnitsAre, FrameSize
  <2>5. txBuf # Blank /\ peer.op = txBuf.op
    BY <2>2 DEF Awaits
  <2>6. HearsResponse(f, 0)'
    BY <1>5, <1>7, <2>2, <2>3, <2>4, <2>5
    DEF HearsResponse, Between, At, Awaits, Still, vars, ctxVars, rxVars, txVars, workVars, thread
  <2> QED
    BY <1>5, <1>7, <2>6 DEF Course
<1>8. CASE PeerTimeout
  <2>1. peer.role = "HOST" /\ fifo = <<>> /\ pc = "idle" /\ ~wkReq /\ ~wkRsp
    BY <1>1, <1>8 DEF PeerTimeout, Quiet, ThreadRests
  <2>2. (\E f \in Frame : Serves(f)) \/ \E o \in Ops : Answers(o)
    BY <1>4, <2>1, RoleTells
  <2>3. \A f \in Frame : ~Serves(f)
    BY <2>1 DEF Serves
  <2>4. ASSUME NEW o \in Ops, Answers(o) PROVE FALSE
    <3>1. \E f \in Frame : Sent(f)
      BY <2>1, <2>4 DEF Answers, At
    <3> QED
      BY <2>1, <3>1 DEF Sent
  <2>5. FALSE
    BY <2>2, <2>3, <2>4
  <2> QED
    BY <2>5
<1> QED
  BY <1>2, <1>6, <1>7, <1>8

\* The nRF91's timer does not fire: it runs while the answer is awaited or heard.
LEMMA TimerOrderly == Polite => ~LinkRspTimeout
<1> SUFFICES ASSUME Polite, LinkRspTimeout PROVE FALSE
  OBVIOUS
<1>1. timer /\ line = <<>> /\ peer.role # "SLAVE"
  BY DEF LinkRspTimeout, RspTimeout
<1>2. Awaits
  BY <1>1, Unheard DEF Free, Asks, Concludes, Serves, Answers
<1> QED
  BY <1>1, <1>2 DEF Awaits

\* A transmission ends: the nRF52 has its request or its response.
LEMMA TxOrderly == Polite /\ LinkTxDone => Calm' /\ Course'
<1> SUFFICES ASSUME Polite, LinkTxDone PROVE Calm' /\ Course'
  OBVIOUS
<1>1. UartTxDone /\ PeerRx(fifo[Len(fifo)].frame) /\ UNCHANGED <<link, line, lost, presses>>
  BY DEF LinkTxDone
<1>2. Calm /\ uart = "cmd" /\ fifo # <<>>
  BY <1>1 DEF Polite, Calm, UartTxDone
<1>3. line = <<>>
  BY <1>2, LineBusy DEF Polite, HearsRequest, HearsResponse
<1>4. Asks \/ \E o \in Ops : Answers(o)
  BY <1>2, <1>3, Unheard DEF Free, Awaits, Concludes, Serves
<1>5. /\ fifo' = <<>> /\ txBuf' = txBuf
      /\ UNCHANGED <<rxStarted, pool, workVars, uart, thread, history>>
  BY <1>1 DEF UartTxDone
<1>6. ASSUME NEW f \in Frame, Sent(f) PROVE PeerRx(f)
  <2>1. fifo[Len(fifo)] = [frame |-> f, whole |-> TRUE]
    BY <1>6 DEF Sent
  <2> QED
    BY <1>1, <2>1
<1>7. CASE Asks
  <2>1. At("idle") /\ mode = "HOST" /\ state = "REQ_SENDING" /\ Still /\ peer = PeerIdle
        /\ rxLen = 0
    BY <1>2, <1>7 DEF Asks
  <2>2. PICK f \in Frame : Sent(f) /\ f.start = "req"
    BY <1>2, <1>7 DEF Asks
  <2>3. peer' = [role |-> "SLAVE", op |-> f.op] /\ outcome' = outcome
    BY <1>6, <2>1, <2>2 DEF PeerRx, PeerIdle
  <2>4. state' = "REQ_SENT" /\ timer' /\ mode' = "HOST" /\ rxLen' = 0
    BY <1>1, <1>2, <2>1 DEF UartTxDone
  <2>5. txBuf' = f /\ f # Blank
    BY <1>5, <2>2, BlankAssumption DEF Sent
  <2>6. Awaits'
    BY <1>1, <1>5, <2>1, <2>3, <2>4, <2>5 DEF Awaits, Still, At, workVars, thread
  <2>7. Calm'
    BY <1>2, <1>5, <2>3 DEF Calm, history
  <2> QED
    BY <2>6, <2>7 DEF Course
<1>8. CASE \E o \in Ops : Answers(o)
  <2>1. PICK o \in Ops : Answers(o)
    BY <1>8
  <2>2. PICK f \in Frame : Sent(f) /\ f.start = "rsp" /\ f.op = o
    BY <1>2, <2>1 DEF Answers
  <2>3. At("idle") /\ mode = "SLAVE" /\ Still /\ ~timer
        /\ peer = [role |-> "HOST", op |-> o]
    BY <1>2, <2>1 DEF Answers
  <2>4. peer' = PeerIdle /\ outcome' = "rsp"
    BY <1>6, <2>2, <2>3 DEF PeerRx
  <2>5. state' = "IDLE" /\ mode' = "IDLE" /\ rxLen' = 0 /\ timer' = timer
    BY <1>1, <1>2, <2>3 DEF UartTxDone, EnterIdle
  <2>6. Free'
    BY <1>1, <1>5, <2>3, <2>4, <2>5 DEF Free, Still, At, workVars, thread
  <2>7. Calm'
    BY <1>2, <1>5, <2>4 DEF Calm, history
  <2> QED
    BY <2>6, <2>7 DEF Course
<1> QED
  BY <1>4, <1>7, <1>8

\* With memory enough a frame is sent whole, and the transmit interrupt is on.
LEMMA SendsWhole ==
  ASSUME MayFail = FALSE, fifo = <<>>, NEW f, cmd_send(f)
  PROVE  /\ txBuf' = f /\ txIrq' = TRUE
         /\ fifo' = <<[frame |-> f, whole |-> TRUE]>>
BY DEF cmd_send

LEMMA PressOrderly == ASSUME MayFail = FALSE PROVE Polite /\ Press => Calm' /\ Course'
<1> SUFFICES ASSUME Polite, Press PROVE Calm' /\ Course'
  OBVIOUS
<1>1. Calm /\ link = "polite"
  BY DEF Polite
<1>2. peer = PeerIdle /\ line = <<>> /\ pc = "idle" /\ ~wkReq /\ ~wkRsp
  BY <1>1 DEF Press, ThreadRests
<1>3. PICK o \in IsrOps : RequestFromIsr(o)
  BY DEF Press
<1>4. mode = "IDLE"
  BY <1>3 DEF RequestFromIsr
<1>5. Free
  BY <1>2, <1>4, Unheard DEF Asks, Awaits, Concludes, Serves, Answers, At, PeerIdle
<1>6. PICK f \in Frame : f.start = "req" /\ cmd_send(f)
  BY <1>3 DEF RequestFromIsr
<1>7. Sent(f)'
  BY <1>5, <1>6, SendsWhole DEF Free, Sent
<1>8. /\ mode' = "HOST" /\ state' = "REQ_SENDING"
      /\ UNCHANGED <<rxVars, timer, workVars, uart, thread, told>>
  BY <1>3 DEF RequestFromIsr
<1>9. UNCHANGED <<link, line, peer, outcome, lost>>
  BY DEF Press
<1>10. Asks'
  BY <1>5, <1>6, <1>7, <1>8, <1>9 DEF Asks, Free, Still, At, rxVars, workVars, thread
<1>11. Calm'
  BY <1>1, <1>8, <1>9 DEF Calm
<1> QED
  BY <1>10, <1>11 DEF Course


\* The work queue thread serves the request that was heard and answers it.
LEMMA ServeOrderly ==
  ASSUME MayReinit = FALSE, Polite, UNCHANGED linkVars, NEW f \in Frame, Serves(f), Thread
  PROVE  Calm' /\ Course'
<1>1. /\ pc \in {"idle", "respCheck", "respStart"} /\ ~wkRsp /\ state = "REQ_RECEIVED" /\ bufSet
      /\ mode = "SLAVE" /\ line = <<>> /\ ~rxStarted /\ fifo = <<>> /\ ~timer
      /\ peer = [role |-> "HOST", op |-> f.op]
  BY DEF Serves, Still
<1>2. ProcReq \/ RespondCheck \/ RespondStart
  BY <1>1 DEF Thread, RespondSend, ProcRsp, ProcRspReset, ProcRspMode, ProcRspCall, RequestCheck,
              RequestMode, RequestStart, RequestSend, app_cmd_uninit, AppUartInit, AppCmdInit
<1>3. Calm'
  BY <1>2 DEF ProcReq, RespondCheck, RespondStart, Polite, Calm, linkVars, history
<1>4. OpRead(pool) = {f.op}
  <2>1. pool[HdrSize + 1] = [frame |-> f, at |-> HdrSize + 1]
    BY DEF Serves
  <2>2. pool[HdrSize + 1] # NoUnit
    BY <2>1, BlankAssumption DEF NoUnit
  <2> QED
    BY <2>1, <2>2 DEF OpRead
<1>5. CASE ProcReq
  <2>1. pc' = "respCheck" /\ ~wkReq'
        /\ UNCHANGED <<ctxVars, rxVars, txVars, timer, wkRsp, uart, history>>
    BY <1>1, <1>5 DEF ProcReq
  <2>2. Serves(f)'
    BY <1>1, <2>1 DEF Serves, Still, linkVars, ctxVars, rxVars, txVars
  <2> QED
    BY <1>3, <2>2 DEF Course
<1>6. CASE RespondCheck
  <2>1. pc' = "respStart" /\ cur' = f.op /\ pc = "respCheck"
        /\ UNCHANGED <<ctxVars, rxVars, txVars, timer, workVars, uart, history>>
    BY <1>1, <1>4, <1>6 DEF RespondCheck, rxVars
  <2>2. Serves(f)'
    BY <1>1, <2>1 DEF Serves, Still, linkVars, ctxVars, rxVars, txVars, workVars
  <2> QED
    BY <1>3, <2>2 DEF Course
<1>7. CASE RespondStart
  <2>1. pc' = "respSend" /\ pc = "respStart" /\ cur' = cur /\ on_cmd_send_start
        /\ UNCHANGED <<rxVars, txVars, timer, workVars, uart, cur, history>>
    BY <1>7 DEF RespondStart
  <2>2. mode' = "SLAVE" /\ state' = "RSP_SENDING" /\ cur = f.op /\ ~wkReq
    BY <1>1, <2>1 DEF on_cmd_send_start, Serves
  <2>3. Answers(f.op)'
    BY <1>1, <2>1, <2>2 DEF Answers, At, Still, linkVars, rxVars, txVars, workVars
  <2> QED
    BY <1>3, <2>3, FrameSize DEF Course
<1> QED
  BY <1>2, <1>5, <1>6, <1>7

LEMMA AnswerOrderly ==
  ASSUME MayFail = FALSE, MayReinit = FALSE, Polite, UNCHANGED linkVars,
         NEW o \in Ops, Answers(o), Thread
  PROVE  Calm' /\ Course'
<1>1. /\ (At("respSend") /\ cur = o /\ fifo = <<>>) \/ At("idle")
      /\ mode = "SLAVE" /\ state = "RSP_SENDING" /\ line = <<>> /\ ~rxStarted /\ ~timer
      /\ peer = [role |-> "HOST", op |-> o]
  BY DEF Answers, Still
<1>2. RespondSend
  BY <1>1 DEF At, Thread, ProcReq, RespondCheck, RespondStart, ProcRsp, ProcRspReset, ProcRspMode,
              ProcRspCall, RequestCheck, RequestMode, RequestStart, RequestSend, app_cmd_uninit,
              AppUartInit, AppCmdInit
<1>3. /\ pc' = "idle" /\ cur = o /\ fifo = <<>> /\ ~wkReq /\ ~wkRsp
      /\ UNCHANGED <<ctxVars, rxVars, timer, workVars, uart, cur, history>>
  BY <1>1, <1>2 DEF RespondSend, At
<1>4. PICK f \in Frame : f.start = "rsp" /\ f.op = o /\ cmd_send(f)
  BY <1>2, <1>3 DEF RespondSend
<1>5. Sent(f)'
  BY <1>3, <1>4, SendsWhole DEF Sent
<1>6. Answers(o)'
  BY <1>1, <1>3, <1>4, <1>5 DEF Answers, At, Still, linkVars, ctxVars, rxVars, workVars
<1>7. Calm'
  BY <1>3 DEF Polite, Calm, linkVars, history
<1> QED
  BY <1>6, <1>7 DEF Course

\* It asks in the name of a response callback.
LEMMA AskOrderly ==
  ASSUME MayFail = FALSE, MayReinit = FALSE, Polite, UNCHANGED linkVars, Asks, Thread
  PROVE  Calm' /\ Course'
<1>1. /\ ~wkReq /\ ~wkRsp /\ pc \in {"idle", "reqCheck", "reqMode", "reqStart", "reqSend"}
      /\ line = <<>> /\ ~rxStarted /\ peer = PeerIdle /\ ~timer /\ rxLen = 0
  BY DEF Asks, At, Still
<1>2. RequestCheck \/ RequestMode \/ RequestStart \/ RequestSend
  BY <1>1 DEF Thread, ProcReq, RespondCheck, RespondStart, RespondSend, ProcRsp, ProcRspReset,
              ProcRspMode, ProcRspCall, app_cmd_uninit, AppUartInit, AppCmdInit
<1>3. Calm'
  BY <1>2 DEF RequestCheck, RequestMode, RequestStart, RequestSend, Polite, Calm, linkVars, history
<1>4. UNCHANGED <<rxVars, timer, workVars>>
  BY <1>2 DEF RequestCheck, RequestMode, RequestStart, RequestSend
<1>5. ~wkReq' /\ ~wkRsp' /\ line' = <<>> /\ ~rxStarted' /\ peer' = PeerIdle /\ ~timer' /\ rxLen' = 0
  BY <1>1, <1>4 DEF rxVars, workVars, linkVars
<1>6. CASE RequestCheck
  <2>1. pc = "reqCheck" /\ UNCHANGED <<ctxVars, txVars>>
    BY <1>6 DEF RequestCheck
  <2>2. mode = "IDLE" /\ state = "IDLE" /\ fifo = <<>>
    BY <2>1 DEF Asks, At
  <2>3. pc' = "reqMode" /\ mode' = "IDLE" /\ state' = "IDLE" /\ fifo' = <<>>
    BY <1>6, <2>1, <2>2 DEF RequestCheck, ctxVars, txVars
  <2>4. Asks'
    BY <1>5, <2>3 DEF Asks, At, Still
  <2> QED
    BY <1>3, <2>4 DEF Course
<1>7. CASE RequestMode
  <2>1. pc = "reqMode" /\ pc' = "reqStart" /\ mode' = "HOST" /\ UNCHANGED <<state, txVars>>
    BY <1>7 DEF RequestMode
  <2>2. state = "IDLE" /\ fifo = <<>>
    BY <2>1 DEF Asks, At
  <2>3. Asks'
    BY <1>5, <2>1, <2>2 DEF Asks, At, Still, txVars
  <2> QED
    BY <1>3, <2>3 DEF Course
<1>8. CASE RequestStart
  <2>1. pc = "reqStart" /\ pc' = "reqSend" /\ on_cmd_send_start /\ UNCHANGED txVars
    BY <1>8 DEF RequestStart
  <2>2. mode = "HOST" /\ state = "IDLE" /\ fifo = <<>>
    BY <2>1 DEF Asks, At
  <2>3. mode' = "HOST" /\ state' = "REQ_SENDING" /\ fifo' = <<>>
    BY <2>1, <2>2 DEF on_cmd_send_start, txVars
  <2>4. Asks'
    BY <1>5, <2>1, <2>3 DEF Asks, At, Still
  <2> QED
    BY <1>3, <2>4 DEF Course
<1>9. CASE RequestSend
  <2>1. pc = "reqSend" /\ pc' = "idle" /\ UNCHANGED ctxVars
    BY <1>9 DEF RequestSend
  <2>2. mode = "HOST" /\ state = "REQ_SENDING" /\ fifo = <<>>
    BY <2>1 DEF Asks, At
  <2>3. PICK f \in Frame : f.start = "req" /\ cmd_send(f)
    BY <1>9 DEF RequestSend
  <2>4. Sent(f)'
    BY <2>2, <2>3, SendsWhole DEF Sent
  <2>5. mode' = "HOST" /\ state' = "REQ_SENDING"
    BY <2>1, <2>2 DEF ctxVars
  <2>6. Asks'
    BY <1>5, <2>1, <2>3, <2>4, <2>5 DEF Asks, At, Still
  <2> QED
    BY <1>3, <2>6 DEF Course
<1> QED
  BY <1>2, <1>6, <1>7, <1>8, <1>9

\* It delivers the response; the callback may ask again at once.
LEMMA ConcludeOrderly ==
  ASSUME MayReinit = FALSE, Polite, UNCHANGED linkVars, Concludes, Thread
  PROVE  Calm' /\ Course'
<1>1. /\ ~wkReq /\ pc \in {"idle", "rspReset", "rspMode", "rspCall"} /\ fifo = <<>>
      /\ line = <<>> /\ ~rxStarted /\ peer = PeerIdle /\ ~timer
  BY DEF Concludes, At, Still
<1>2. ProcRsp \/ ProcRspReset \/ ProcRspMode \/ ProcRspCall
  BY <1>1 DEF Thread, ProcReq, RespondCheck, RespondStart, RespondSend, RequestCheck, RequestMode,
              RequestStart, RequestSend, app_cmd_uninit, AppUartInit, AppCmdInit
<1>3. /\ UNCHANGED <<rxStarted, txVars, timer, wkReq, uart>>
  BY <1>2 DEF ProcRsp, ProcRspReset, ProcRspMode, ProcRspCall, rxVars, workVars
<1>4. ~wkReq' /\ fifo' = <<>> /\ line' = <<>> /\ ~rxStarted' /\ peer' = PeerIdle /\ ~timer'
  BY <1>1, <1>3 DEF txVars, linkVars
<1>5. ~ProcRspCall => Calm'
  BY <1>2, <1>3 DEF ProcRsp, ProcRspReset, ProcRspMode, Polite, Calm, linkVars, history
<1>6. CASE ProcRsp
  <2>1. pc = "idle" /\ ~wkRsp' /\ state' = "IDLE" /\ UNCHANGED mode
        /\ pc' = IF state = "IDLE" THEN "rspCall" ELSE "rspReset"
    BY <1>6 DEF ProcRsp
  <2>2. mode = "HOST" /\ state = "RSP_RECEIVED"
    BY <2>1 DEF Concludes, At
  <2>3. Concludes'
    BY <1>4, <2>1, <2>2 DEF Concludes, At, Still
  <2> QED
    BY <1>5, <1>6, <2>1, <2>2, <2>3 DEF Course, ProcRspCall
<1>7. CASE ProcRspReset
  <2>1. pc = "rspReset" /\ pc' = "rspMode" /\ rxLen' = 0 /\ UNCHANGED <<mode, state, wkRsp>>
    BY <1>7 DEF ProcRspReset, ctxVars, workVars
  <2>2. mode = "HOST" /\ state = "IDLE" /\ ~wkRsp
    BY <2>1 DEF Concludes, At
  <2>3. Concludes'
    BY <1>4, <2>1, <2>2 DEF Concludes, At, Still
  <2> QED
    BY <1>5, <2>1, <2>3 DEF Course, ProcRspCall
<1>8. CASE ProcRspMode
  <2>1. pc = "rspMode" /\ pc' = "rspCall" /\ mode' = "IDLE" /\ UNCHANGED <<state, rxLen, wkRsp>>
    BY <1>8 DEF ProcRspMode, rxVars, workVars
  <2>2. state = "IDLE" /\ ~wkRsp /\ rxLen = 0
    BY <2>1 DEF Concludes, At
  <2>3. Concludes'
    BY <1>4, <2>1, <2>2 DEF Concludes, At, Still
  <2> QED
    BY <1>5, <2>1, <2>3 DEF Course, ProcRspCall
<1>9. CASE ProcRspCall
  <2>1. pc = "rspCall" /\ UNCHANGED <<mode, state, rxLen, wkRsp>>
    BY <1>9 DEF ProcRspCall, ctxVars, rxVars, workVars
  <2>2. mode = "IDLE" /\ state = "IDLE" /\ ~wkRsp /\ rxLen = 0
    BY <2>1 DEF Concludes, At
  <2>3. pc' = "idle" \/ pc' = "reqCheck"
    BY <1>9 DEF ProcRspCall
  <2>4. Free' \/ Asks'
    BY <1>4, <2>1, <2>2, <2>3 DEF Free, Asks, At, Still
  <2>5. told' = told \/ \E o \in Ops : told' = [op |-> o, kind |-> "rsp"]
    <3>1. ASSUME NEW o, CallBack(o, "rsp")
          PROVE  told' = told \/ \E q \in Ops : told' = [op |-> q, kind |-> "rsp"]
      BY <3>1, ConstAssumption DEF CallBack, history
    <3> QED
      BY <1>9, <3>1 DEF ProcRspCall, history
  <2>6. Calm'
    BY <1>3, <2>5 DEF Polite, Calm, linkVars
  <2> QED
    BY <2>4, <2>6 DEF Course
<1> QED
  BY <1>2, <1>6, <1>7, <1>8, <1>9

\* In the other phases the work queue thread has nothing to do.
LEMMA ThreadOrderly ==
  ASSUME MayFail = FALSE, MayReinit = FALSE PROVE Polite /\ LinkThread => Calm' /\ Course'
<1> SUFFICES ASSUME Polite, LinkThread PROVE Calm' /\ Course'
  OBVIOUS
<1>1. Thread /\ UNCHANGED linkVars
  BY DEF LinkThread
<1>2. ASSUME At("idle") PROVE FALSE
  BY <1>1, <1>2 DEF At, Thread, ProcReq, RespondCheck, RespondStart, RespondSend, ProcRsp,
       ProcRspReset, ProcRspMode, ProcRspCall, RequestCheck, RequestMode, RequestStart,
       RequestSend, app_cmd_uninit, AppUartInit, AppCmdInit
<1>3. Asks \/ Concludes \/ (\E f \in Frame : Serves(f)) \/ \E o \in Ops : Answers(o)
  BY <1>2 DEF Polite, Course, Free, Awaits, HearsRequest, HearsResponse
<1> QED
  BY <1>1, <1>3, ServeOrderly, AnswerOrderly, AskOrderly, ConcludeOrderly

LEMMA RestOrderly == Polite /\ UNCHANGED allVars => Calm' /\ Course'
<1> SUFFICES ASSUME Polite, UNCHANGED allVars PROVE Calm' /\ Course'
  OBVIOUS
<1>1. UNCHANGED <<mode, state, rxStarted, cmdLen, bufSet, pool, rxLen, txBuf, fifo, txIrq, timer,
                  wkReq, wkRsp, uart, pc, cur, told, line, peer, outcome>>
  BY DEF allVars, vars, linkVars, ctxVars, rxVars, txVars, workVars, thread, history
<1>2. Calm'
  BY <1>1 DEF Polite, Calm
<1>3. \A f \in Frame, k \in Nat : Between(f, k) => Between(f, k)'
  BY <1>1 DEF Between
<1>4. \A f \in Frame : Sent(f) => Sent(f)'
  BY <1>1 DEF Sent
<1>5. /\ Free => Free'
      /\ Asks => Asks'
      /\ Awaits => Awaits'
      /\ Concludes => Concludes'
  BY <1>1, <1>4 DEF Free, Asks, Awaits, Concludes, At, Still
<1>6. \A f \in Frame, k \in Nat : /\ HearsRequest(f, k) => HearsRequest(f, k)'
                                  /\ HearsResponse(f, k) => HearsResponse(f, k)'
  BY <1>1, <1>3 DEF HearsRequest, HearsResponse, At
<1>7. \A f \in Frame : Serves(f) => Serves(f)'
  BY <1>1 DEF Serves, Still
<1>8. \A o \in Ops : Answers(o) => Answers(o)'
  BY <1>1, <1>4 DEF Answers, At, Still
<1>9. Course
  BY DEF Polite
<1>10. CASE \E f \in Frame, k \in Nat : HearsRequest(f, k) \/ HearsResponse(f, k)
  BY <1>2, <1>6, <1>10 DEF Course
<1>11. CASE \E f \in Frame : Serves(f)
  BY <1>2, <1>7, <1>11 DEF Course
<1>12. CASE \E o \in Ops : Answers(o)
  BY <1>2, <1>8, <1>12 DEF Course
<1>13. CASE Free \/ Asks \/ Awaits \/ Concludes
  BY <1>2, <1>5, <1>13 DEF Course
<1> QED
  BY <1>9, <1>10, <1>11, <1>12, <1>13 DEF Course

LEMMA OrderlyInit == LinkInit => Orderly
BY DEF LinkInit, Init, Orderly, Calm, Course, Free, Still, At

LEMMA OrderlyNext ==
  ASSUME MayFail = FALSE, MayReinit = FALSE
  PROVE  TypeOK /\ LinkTypeOK /\ Orderly /\ [LinkNext]_allVars => Orderly'
<1> SUFFICES ASSUME TypeOK, LinkTypeOK, Orderly, [LinkNext]_allVars, link' = "polite"
             PROVE  Calm' /\ Course'
  BY DEF Orderly
<1>1. link' = link
  BY DEF LinkNext, Deliver, LoseUnit, PeerRequest, PeerAnswer, PeerTimeout, LinkTxDone,
         LinkRspTimeout, Press, LinkThread, linkVars, allVars
<1>2. Polite
  BY <1>1 DEF Orderly, Polite
<1> QED
  BY <1>2, DeliverOrderly, PeerOrderly, TimerOrderly, TxOrderly, PressOrderly, ThreadOrderly,
     RestOrderly DEF LinkNext

LEMMA AlwaysOrderly ==
  ASSUME MayFail = FALSE, MayReinit = FALSE PROVE LinkSpec => []Orderly
<1>1. TypeOK /\ LinkTypeOK /\ Orderly /\ [LinkNext]_allVars => Orderly'
  BY OrderlyNext
<1> QED
  BY <1>1, OrderlyInit, LinkTyped, PTL DEF LinkSpec

\* On a polite link, with memory for every frame and the UART never lent to the serial
\* DFU, every request of the nRF52 is answered before its timer fires: whatever the
\* frames' lengths, after however many exchanges.
THEOREM AlwaysServed == ASSUME MayFail = FALSE, MayReinit = FALSE PROVE LinkSpec => []PeerServed
<1>1. Orderly => PeerServed
  BY DEF Orderly, Calm, PeerServed
<1> QED
  BY <1>1, AlwaysOrderly, PTL

\* On such a link the nRF91 is never told of a timeout, which its ping callback would
\* take for an nRF52 that is in its bootloader.
THEOREM TimeoutsAreReal ==
  ASSUME MayFail = FALSE, MayReinit = FALSE PROVE LinkSpec => []NoFalseTimeout
<1>1. Orderly => NoFalseTimeout
  BY DEF Orderly, Calm, NoFalseTimeout
<1> QED
  BY <1>1, AlwaysOrderly, PTL
=============================================================================

---------------------------- MODULE AppCmdProofs ----------------------------
(***************************************************************************)
(* Proofs about the command channel, for every set of op codes and frame   *)
(* lengths, whatever the line, the memory and the other users of the UART  *)
(* do; at the end, that the channel implements HalfDuplex.                 *)
(***************************************************************************)
EXTENDS AppCmd, TLAPS

USE DEF Modes, States, Owners, PCs

\* A unit of a frame knows its place in the frame, an erased cell has none.
LEMMA CellType ==
  ASSUME NEW u \in Cell
  PROVE  /\ u.at \in 0 .. Capacity
         /\ u.at # 0 => u.frame \in Frame
         /\ u.at = 0 => u = NoUnit
<1>1. CASE u \in Unit
  BY <1>1 DEF Unit, Frame
<1>2. CASE u = NoUnit
  BY <1>2, ConstAssumption DEF NoUnit
<1> QED
  BY <1>1, <1>2 DEF Cell

\* A read of the op code field, of a pool of units, is an op code or none.
LEMMA OpReadType ==
  ASSUME NEW p \in [1 .. Capacity -> Cell]
  PROVE  OpRead(p) \subseteq Ops \cup {Blank}
<1> DEFINE u == p[HdrSize + 1]
<1>1. u \in Cell
  BY ConstAssumption
<1>2. u.at = HdrSize + 1 => u.frame.op \in Ops
  BY <1>1, CellType, ConstAssumption DEF Frame
<1> QED
  BY <1>2 DEF OpRead

\* A read of the length field is a length, or one too long for the pool; never
\* so short that the frame would end with its header.
LEMMA LenReadType ==
  ASSUME NEW p \in [1 .. Capacity -> Cell], NEW c \in LenRead(p)
  PROVE  c \in HdrSize + 1 .. Capacity + 1
<1> DEFINE u == p[HdrSize]
<1>1. u \in Cell
  BY ConstAssumption
<1>2. u.at = HdrSize => u.frame.size \in Sizes
  BY <1>1, CellType, ConstAssumption DEF Frame
<1> HIDE DEF u
<1>3. c \in Sizes \cup {Capacity + 1}
  BY <1>2 DEF LenRead, u
<1> QED
  BY <1>3, ConstAssumption

\* Queueing a frame keeps the transmitter's variables well typed.
LEMMA SendType ==
  ASSUME TypeOK, NEW f \in Frame, cmd_send(f)
  PROVE  /\ txBuf' \in Frame
         /\ fifo' \in Seq([frame : Frame, whole : BOOLEAN])
         /\ txIrq' \in BOOLEAN
<1> DEFINE Elem == [frame : Frame, whole : BOOLEAN]
<1>1. fifo \in Seq(Elem)
  BY DEF TypeOK
<1>2. ASSUME NEW w \in BOOLEAN
      PROVE  Append(fifo, [frame |-> f, whole |-> w]) \in Seq(Elem)
  <2>1. [frame |-> f, whole |-> w] \in Elem
    OBVIOUS
  <2> HIDE DEF Elem
  <2> QED
    BY <1>1, <2>1
<1> HIDE DEF Elem
<1>3. fifo' \in Seq(Elem)
  BY <1>1, <1>2 DEF cmd_send
<1> QED
  BY <1>3 DEF cmd_send, TypeOK, Elem

\* Reporting an outcome keeps the history well typed.
LEMMA CallBackType ==
  ASSUME TypeOK, NEW o \in Ops \cup {Blank}, NEW k \in {"rsp", "timeout"},
         CallBack(o, k)
  PROVE  asked' \in Ops \cup {Blank} /\ told' \in Outcome \cup {Blank}
BY ConstAssumption DEF CallBack, TypeOK, Outcome, history

\* One unit parsed: the parser's variables keep their types.
LEMMA RxReadyType ==
  ASSUME TypeOK, NEW p \in [1 .. Capacity -> Cell], NEW n \in 1 .. Capacity,
         on_uart_rx_ready(p, n)
  PROVE  /\ mode' \in Modes /\ state' \in States
         /\ rxStarted' \in BOOLEAN /\ bufSet' \in BOOLEAN
         /\ cmdLen' \in 0 .. Capacity + 1 /\ rxLen' \in 0 .. Capacity
         /\ timer' \in BOOLEAN /\ wkReq' \in BOOLEAN /\ wkRsp' \in BOOLEAN
<1>1. /\ mode \in Modes /\ state \in States
      /\ rxStarted \in BOOLEAN /\ bufSet \in BOOLEAN
      /\ cmdLen \in 0 .. Capacity + 1
      /\ timer \in BOOLEAN /\ wkReq \in BOOLEAN /\ wkRsp \in BOOLEAN
  BY DEF TypeOK
<1>2. cmdLen' \in 0 .. Capacity + 1
  <2>1. LenRead(p) \subseteq 0 .. Capacity + 1
    BY LenReadType, ConstAssumption
  <2> QED
    BY <1>1, <2>1, ConstAssumption DEF on_uart_rx_ready
<1>3. bufSet' \in BOOLEAN
  BY <1>1 DEF on_uart_rx_ready
<1>4. rxStarted' \in BOOLEAN
  BY DEF on_uart_rx_ready, EndOfFrame
<1>5. timer' \in BOOLEAN /\ wkReq' \in BOOLEAN /\ wkRsp' \in BOOLEAN
  BY <1>1 DEF on_uart_rx_ready, workVars
<1>6. mode' \in Modes /\ state' \in States /\ rxLen' \in 0 .. Capacity
  BY <1>1, ConstAssumption DEF on_uart_rx_ready, on_cmd_receive_error, EnterIdle
<1> QED
  BY <1>2, <1>3, <1>4, <1>5, <1>6

-----------------------------------------------------------------------------
(* Type correctness.                                                        *)

\* TypeOK in two parts: the provers that do arithmetic do not do flags.
Flags ==
  /\ rxStarted \in BOOLEAN /\ bufSet \in BOOLEAN
  /\ txIrq \in BOOLEAN /\ timer \in BOOLEAN
  /\ wkReq \in BOOLEAN /\ wkRsp \in BOOLEAN

Data ==
  /\ mode \in Modes /\ state \in States
  /\ cmdLen \in 0 .. Capacity + 1
  /\ pool \in [1 .. Capacity -> Cell]
  /\ rxLen \in 0 .. Capacity
  /\ txBuf \in Frame \cup {Blank}
  /\ fifo \in Seq([frame : Frame, whole : BOOLEAN])
  /\ uart \in Owners
  /\ pc \in PCs /\ cur \in Ops \cup {Blank}
  /\ asked \in Ops \cup {Blank} /\ told \in Outcome \cup {Blank}

LEMMA TypeParts == /\ TypeOK <=> Flags /\ Data
                   /\ TypeOK' <=> Flags' /\ Data'
BY DEF TypeOK, Flags, Data

\* An interrupt handler keeps every variable well typed.
LEMMA IsrType == TypeOK /\ Isr => TypeOK'
<1> SUFFICES ASSUME Flags, Data, Isr PROVE Flags' /\ Data'
  BY TypeParts
<1> USE DEF ctxVars, rxVars, txVars, workVars, thread, history
<1>1. CASE UartTxDone
  <2>1. Flags'
    BY <1>1 DEF UartTxDone, Flags, EnterIdle
  <2>2. fifo' \in Seq([frame : Frame, whole : BOOLEAN])
    <3>1. fifo' = <<>>
      BY <1>1 DEF UartTxDone
    <3> QED
      BY <3>1
  <2>3. Data'
    BY <1>1, <2>2, ConstAssumption DEF UartTxDone, Data, EnterIdle
  <2> QED
    BY <2>1, <2>3
<1>2. CASE RspTimeout
  <2>1. Flags'
    BY <1>2 DEF RspTimeout, Flags, EnterIdle
  <2>2. CASE txBuf = Blank
    BY <1>2, <2>1, <2>2 DEF RspTimeout, Data
  <2>3. CASE txBuf # Blank
    <3>1. txBuf.op \in Ops /\ CallBack(txBuf.op, "timeout")
      BY <1>2, <2>3 DEF RspTimeout, Data, Frame
    <3>2. asked' \in Ops \cup {Blank} /\ told' \in Outcome \cup {Blank}
      BY <3>1, CallBackType, TypeParts
    <3> QED
      BY <1>2, <2>1, <2>3, <3>2, ConstAssumption DEF RspTimeout, Data, EnterIdle
  <2> QED
    BY <2>2, <2>3
<1>3. CASE RspTimeoutDfu
  <2>1. Flags'
    BY <1>3 DEF RspTimeoutDfu, Flags, EnterIdle
  <2>2. txBuf.op \in Ops /\ CallBack(txBuf.op, "timeout")
    BY <1>3 DEF RspTimeoutDfu, Data, Frame
  <2>3. asked' \in Ops \cup {Blank} /\ told' \in Outcome \cup {Blank}
    BY <2>2, CallBackType, TypeParts
  <2>4. pool' \in [1 .. Capacity -> Cell]
    BY <1>3 DEF RspTimeoutDfu, Data, Cell
  <2>5. fifo' \in Seq([frame : Frame, whole : BOOLEAN])
    <3>1. fifo' = <<>>
      BY <1>3 DEF RspTimeoutDfu
    <3> QED
      BY <3>1
  <2>6. Data'
    BY <1>3, <2>3, <2>4, <2>5, ConstAssumption DEF RspTimeoutDfu, Data, EnterIdle
  <2> QED
    BY <2>1, <2>6
<1>4. ASSUME NEW o \in IsrOps, RequestFromIsr(o)
      PROVE  Flags' /\ Data'
  <2>1. PICK f \in Frame : cmd_send(f)
    BY <1>4 DEF RequestFromIsr
  <2>2. /\ txBuf' \in Frame
        /\ fifo' \in Seq([frame : Frame, whole : BOOLEAN])
        /\ txIrq' \in BOOLEAN
    BY <2>1, SendType, TypeParts
  <2>3. Flags'
    BY <1>4, <2>2 DEF RequestFromIsr, Flags
  <2>4. Data'
    BY <1>4, <2>2, ConstAssumption DEF RequestFromIsr, Data
  <2> QED
    BY <2>3, <2>4
<1> QED
  BY <1>1, <1>2, <1>3, <1>4 DEF Isr

\* A byte that arrives keeps every variable well typed: none is written past the
\* end of the pool.
LEMMA RxType == ASSUME NEW u \in Unit, TypeOK, UartRx(u) PROVE TypeOK'
<1> USE DEF ctxVars, txVars, workVars, thread, history
<1>0. Flags /\ Data
  BY TypeParts
<1>1. rxLen + 1 \in 1 .. Capacity
  BY <1>0, ConstAssumption DEF UartRx, PoolHasRoom, Data
<1>2. pool' \in [1 .. Capacity -> Cell]
  BY <1>0 DEF UartRx, Data, Cell
<1>3. CASE uart = "nocb" \/ RxRefused
  <2>1. Flags'
    BY <1>0, <1>3 DEF UartRx, Flags
  <2>2. Data'
    BY <1>0, <1>1, <1>2, <1>3, ConstAssumption DEF UartRx, Data
  <2> QED
    BY <2>1, <2>2, TypeParts
<1>4. CASE ~(uart = "nocb" \/ RxRefused)
  <2>1. on_uart_rx_ready(pool', rxLen + 1)
    BY <1>4 DEF UartRx
  <2>2. /\ mode' \in Modes /\ state' \in States
        /\ rxStarted' \in BOOLEAN /\ bufSet' \in BOOLEAN
        /\ cmdLen' \in 0 .. Capacity + 1 /\ rxLen' \in 0 .. Capacity
        /\ timer' \in BOOLEAN /\ wkReq' \in BOOLEAN /\ wkRsp' \in BOOLEAN
    BY <1>1, <1>2, <2>1, RxReadyType
  <2>3. UNCHANGED <<txVars, uart, thread, history>>
    BY DEF UartRx
  <2>4. Flags'
    BY <1>0, <2>2, <2>3 DEF Flags
  <2>5. Data'
    BY <1>0, <1>2, <2>2, <2>3 DEF Data
  <2> QED
    BY <2>4, <2>5, TypeParts
<1> QED
  BY <1>3, <1>4

\* A step of the work queue thread keeps every variable well typed.
LEMMA ThreadType == TypeOK /\ Thread => TypeOK'
<1> SUFFICES ASSUME Flags, Data, Thread PROVE Flags' /\ Data'
  BY TypeParts
<1> USE DEF ctxVars, rxVars, txVars, workVars, thread, history
<1>1. OpRead(pool) \subseteq Ops \cup {Blank}
  BY OpReadType DEF Data
<1>2. ASSUME NEW f \in Frame, cmd_send(f),
             pc' = "idle", UNCHANGED <<ctxVars, rxVars, timer, workVars, uart, cur, history>>
      PROVE  Flags' /\ Data'
  <2>1. /\ txBuf' \in Frame
        /\ fifo' \in Seq([frame : Frame, whole : BOOLEAN])
        /\ txIrq' \in BOOLEAN
    BY <1>2, SendType, TypeParts
  <2>2. Flags'
    BY <1>2, <2>1 DEF Flags
  <2>3. Data'
    BY <1>2, <2>1 DEF Data
  <2> QED
    BY <2>2, <2>3
<1>3. CASE ProcReq
  <2>1. Flags'
    BY <1>3 DEF ProcReq, Flags
  <2>2. Data'
    BY <1>1, <1>3 DEF ProcReq, Data
  <2> QED
    BY <2>1, <2>2
<1>4. CASE RespondCheck
  <2>1. Flags'
    BY <1>4 DEF RespondCheck, Flags
  <2>2. CASE state \notin {"REQ_RECEIVED", "REQ_SENT"}
    BY <1>4, <2>1, <2>2 DEF RespondCheck, Data
  <2>3. CASE state \in {"REQ_RECEIVED", "REQ_SENT"} /\ bufSet
    BY <1>1, <1>4, <2>1, <2>3 DEF RespondCheck, Data
  <2>4. CASE state \in {"REQ_RECEIVED", "REQ_SENT"} /\ ~bufSet
    BY <1>4, <2>1, <2>4, ConstAssumption DEF RespondCheck, Data, EnterIdle
  <2> QED
    BY <2>2, <2>3, <2>4
<1>5. CASE RespondStart
  <2>1. Flags'
    BY <1>5 DEF RespondStart, Flags
  <2>2. Data'
    BY <1>5 DEF RespondStart, Data, on_cmd_send_start
  <2> QED
    BY <2>1, <2>2
<1>6. CASE RespondSend
  BY <1>2, <1>6 DEF RespondSend
<1>7. CASE ProcRsp
  <2>1. Flags'
    BY <1>7 DEF ProcRsp, Flags
  <2>2. Data'
    BY <1>7 DEF ProcRsp, Data
  <2> QED
    BY <2>1, <2>2
<1>8. CASE ProcRspReset
  <2>1. Flags'
    BY <1>8 DEF ProcRspReset, Flags
  <2>2. Data'
    BY <1>8, ConstAssumption DEF ProcRspReset, Data
  <2> QED
    BY <2>1, <2>2
<1>9. CASE ProcRspMode
  BY <1>9 DEF ProcRspMode, Flags, Data
<1>10. CASE ProcRspCall
  <2>1. Flags'
    BY <1>10 DEF ProcRspCall, Flags
  <2>2. CASE ~bufSet
    BY <1>10, <2>1, <2>2 DEF ProcRspCall, Data
  <2>3. CASE bufSet
    <3>1. PICK o \in OpRead(pool) :
            /\ CallBack(o, "rsp")
            /\ \/ pc' = "idle" /\ UNCHANGED cur
               \/ o \in IsrOps /\ pc' = "reqCheck" /\ cur' \in ThreadOps
      BY <1>10, <2>3 DEF ProcRspCall
    <3>2. asked' \in Ops \cup {Blank} /\ told' \in Outcome \cup {Blank}
      BY <1>1, <3>1, CallBackType, TypeParts
    <3>3. pc' \in PCs /\ cur' \in Ops \cup {Blank}
      BY <3>1, ConstAssumption DEF Data
    <3> QED
      BY <1>10, <2>1, <3>2, <3>3 DEF ProcRspCall, Data
  <2> QED
    BY <2>2, <2>3
<1>11. CASE RequestCheck
  BY <1>11 DEF RequestCheck, Flags, Data
<1>12. CASE RequestMode
  BY <1>12 DEF RequestMode, Flags, Data
<1>13. CASE RequestStart
  <2>1. Flags'
    BY <1>13 DEF RequestStart, Flags
  <2>2. Data'
    BY <1>13 DEF RequestStart, Data, on_cmd_send_start
  <2> QED
    BY <2>1, <2>2
<1>14. CASE RequestSend
  BY <1>2, <1>14 DEF RequestSend
<1>15. CASE app_cmd_uninit
  <2>1. Flags'
    BY <1>15 DEF app_cmd_uninit, Flags
  <2>2. fifo' \in Seq([frame : Frame, whole : BOOLEAN])
    <3>1. fifo' = <<>>
      BY <1>15 DEF app_cmd_uninit
    <3> QED
      BY <3>1
  <2>3. Data'
    BY <1>15, <2>2 DEF app_cmd_uninit, Data
  <2> QED
    BY <2>1, <2>3
<1>16. CASE AppUartInit
  <2>1. Flags'
    BY <1>16 DEF AppUartInit, Flags
  <2>2. Data'
    BY <1>16, ConstAssumption DEF AppUartInit, Data
  <2> QED
    BY <2>1, <2>2
<1>17. CASE AppCmdInit
  <2>1. Flags'
    BY <1>17 DEF AppCmdInit, Flags, EnterIdle
  <2>2. pool' \in [1 .. Capacity -> Cell]
    BY <1>17 DEF AppCmdInit, Cell
  <2>3. Data'
    BY <1>17, <2>2, ConstAssumption DEF AppCmdInit, Data, EnterIdle
  <2> QED
    BY <2>1, <2>3
<1> QED
  BY <1>3, <1>4, <1>5, <1>6, <1>7, <1>8, <1>9, <1>10, <1>11, <1>12, <1>13,
     <1>14, <1>15, <1>16, <1>17 DEF Thread

\* A stuttering step changes nothing.
LEMMA StutterType == TypeOK /\ UNCHANGED vars => TypeOK'
BY DEF vars, ctxVars, rxVars, txVars, workVars, thread, history, TypeOK

LEMMA TypeInit == Init => TypeOK
<1> SUFFICES ASSUME Init PROVE Flags /\ Data
  BY TypeParts
<1>1. Flags
  BY DEF Init, Flags
<1>2. fifo \in Seq([frame : Frame, whole : BOOLEAN])
  <2>1. fifo = <<>>
    BY DEF Init
  <2> QED
    BY <2>1
<1>3. Data
  BY <1>2, ConstAssumption DEF Init, Data, Cell
<1> QED
  BY <1>1, <1>3

LEMMA TypeStep == TypeOK /\ [Next]_vars => TypeOK'
BY IsrType, RxType, ThreadType, StutterType DEF Next

\* Every variable of the channel keeps its type: in particular no byte is
\* written past the end of m_rx_pool (app_uart.c, rx_handler).
THEOREM TypeCorrect == Spec => []TypeOK
BY TypeInit, TypeStep, PTL DEF Spec

-----------------------------------------------------------------------------
(* What one unit can do to the state machine.                               *)

\* The first unit of a frame starts the reception and can not end it.
LEMMA RxFirst ==
  ASSUME TypeOK, NEW p \in [1 .. Capacity -> Cell], NEW n \in 1 .. Capacity,
         on_uart_rx_ready(p, n), ~rxStarted
  PROVE  /\ rxStarted' /\ bufSet'
         /\ UNCHANGED <<timer, wkReq, wkRsp>>
         /\ \/ mode = "HOST" /\ mode' = "HOST" /\ state' \in {"RSP_RECEIVING", "ERR_RECEIVE"}
            \/ /\ mode # "HOST" /\ state' = "REQ_RECEIVING"
               /\ state # "REQ_RECEIVING" => mode' = "SLAVE"
               /\ state = "REQ_RECEIVING" => mode' = mode
            \/ mode # "HOST" /\ state' = "IDLE" /\ mode' = "IDLE"
<1> DEFINE m == IF mode # "HOST" /\ state # "REQ_RECEIVING" THEN "SLAVE" ELSE mode
           s == IF mode = "HOST" THEN "RSP_RECEIVING" ELSE "REQ_RECEIVING"
<1>1. \A c \in LenRead(p) \cup {0} : n = HdrSize \/ c = 0 => c = 0 \/ n < c
  BY LenReadType, ConstAssumption
<1>2. PICK c \in IF n = HdrSize THEN LenRead(p) ELSE {0} :
        \/ /\ c = 0 \/ n < c
           /\ rxStarted' = TRUE
           /\ IF n = HdrSize /\ c > Capacity
              THEN on_cmd_receive_error(m, n)
              ELSE mode' = m /\ state' = s /\ rxLen' = n
           /\ UNCHANGED <<timer, workVars>>
        \/ c # 0 /\ n >= c
  BY DEF on_uart_rx_ready
<1>3. c = 0 \/ (c \in Nat /\ n < c)
  BY LenReadType, ConstAssumption
<1>4. /\ rxStarted' = TRUE
      /\ \/ on_cmd_receive_error(m, n)
         \/ mode' = m /\ state' = s
      /\ UNCHANGED <<timer, workVars>>
  BY <1>2, <1>3
<1>5. bufSet' = TRUE
  BY DEF on_uart_rx_ready
<1> QED
  BY <1>4, <1>5 DEF on_cmd_receive_error, EnterIdle, workVars

\* A later unit leaves the state alone, or ends the frame: a good one is handed
\* to the work queue, a bad one makes the channel wait for its timer or rest.
LEMMA RxNext ==
  ASSUME TypeOK, NEW p \in [1 .. Capacity -> Cell], NEW n \in 1 .. Capacity,
         on_uart_rx_ready(p, n), rxStarted
  PROVE  /\ bufSet' = bufSet
         /\ \/ /\ UNCHANGED <<mode, state, timer, wkReq, wkRsp>>
            \/ /\ ~rxStarted' /\ mode = "HOST" /\ mode' = mode /\ ~timer'
               /\ state' = "RSP_RECEIVED" /\ wkRsp' = TRUE /\ wkReq' = wkReq
            \/ /\ ~rxStarted' /\ mode = "SLAVE" /\ mode' = mode
               /\ state' = "REQ_RECEIVED" /\ wkReq' = TRUE /\ wkRsp' = wkRsp
               /\ timer' = timer
            \/ /\ mode = "HOST" /\ mode' = mode /\ state' = "ERR_RECEIVE"
               /\ UNCHANGED <<timer, wkReq, wkRsp>>
            \/ /\ mode # "HOST" /\ mode' = "IDLE" /\ state' = "IDLE"
               /\ UNCHANGED <<timer, wkReq, wkRsp>>
<1>0. mode \in Modes /\ bufSet \in BOOLEAN /\ timer \in BOOLEAN
      /\ wkReq \in BOOLEAN /\ wkRsp \in BOOLEAN
  BY DEF TypeOK
<1>1. bufSet' = bufSet
  BY <1>0 DEF on_uart_rx_ready
<1>2. \/ on_cmd_receive_error(mode, n) /\ UNCHANGED <<timer, workVars>>
      \/ mode' = mode /\ state' = state /\ UNCHANGED <<timer, workVars>>
      \/ /\ ~rxStarted'
         /\ mode' = mode
         /\ state' = CASE mode = "HOST"  -> "RSP_RECEIVED"
                       [] mode = "SLAVE" -> "REQ_RECEIVED"
                       [] OTHER          -> state
         /\ timer' = (timer /\ mode # "HOST")
         /\ wkRsp' = (wkRsp \/ mode = "HOST")
         /\ wkReq' = (wkReq \/ mode = "SLAVE")
  BY DEF on_uart_rx_ready, EndOfFrame
<1>3. CASE on_cmd_receive_error(mode, n) /\ UNCHANGED <<timer, workVars>>
  BY <1>1, <1>3 DEF on_cmd_receive_error, EnterIdle, workVars
<1>4. CASE mode' = mode /\ state' = state /\ UNCHANGED <<timer, workVars>>
  BY <1>1, <1>4 DEF workVars
<1>5. CASE /\ ~rxStarted'
           /\ mode' = mode
           /\ state' = CASE mode = "HOST"  -> "RSP_RECEIVED"
                         [] mode = "SLAVE" -> "REQ_RECEIVED"
                         [] OTHER          -> state
           /\ timer' = (timer /\ mode # "HOST")
           /\ wkRsp' = (wkRsp \/ mode = "HOST")
           /\ wkReq' = (wkReq \/ mode = "SLAVE")
  <2>1. CASE mode = "HOST"
    BY <1>0, <1>1, <1>5, <2>1
  <2>2. CASE mode = "SLAVE"
    BY <1>0, <1>1, <1>5, <2>2
  <2>3. CASE mode = "IDLE"
    BY <1>0, <1>1, <1>5, <2>3
  <2> QED
    BY <1>0, <2>1, <2>2, <2>3
<1> QED
  BY <1>2, <1>3, <1>4, <1>5

-----------------------------------------------------------------------------
(* Nothing received is stranded, an idle channel is free, the parser rests. *)

\* The three properties with what makes them inductive: a request that is being
\* received was given its buffer, which only leaving the state may take away.
Alive ==
  /\ ReceivedIsProcessed /\ IdleIsFree /\ ParserAtRest
  /\ mode = "SLAVE" /\ state = "REQ_RECEIVING" => bufSet

LEMMA AliveRx == ASSUME NEW u \in Unit, TypeOK, Alive, UartRx(u) PROVE Alive'
<1> USE DEF Alive, ReceivedIsProcessed, IdleIsFree, ParserAtRest
<1>0. /\ UNCHANGED pc
      /\ mode \in Modes
  BY DEF UartRx, thread, TypeOK
<1>1. CASE uart = "nocb" \/ RxRefused
  BY <1>0, <1>1 DEF UartRx, ctxVars, workVars
<1>2. CASE ~(uart = "nocb" \/ RxRefused)
  <2>1. on_uart_rx_ready(pool', rxLen + 1)
    BY <1>2 DEF UartRx
  <2>2. pool' \in [1 .. Capacity -> Cell] /\ rxLen + 1 \in 1 .. Capacity
    BY ConstAssumption DEF UartRx, PoolHasRoom, TypeOK, Cell
  <2>3. /\ mode = "HOST" => state \in {"REQ_SENT", "RSP_RECEIVING"}
        /\ mode = "SLAVE" => state = "REQ_RECEIVING"
    BY <1>2 DEF RxRefused, TypeOK
  <2>4. CASE ~rxStarted
    <3>1. /\ rxStarted' /\ bufSet'
          /\ UNCHANGED <<timer, wkReq, wkRsp>>
          /\ \/ mode = "HOST" /\ mode' = "HOST" /\ state' \in {"RSP_RECEIVING", "ERR_RECEIVE"}
             \/ mode # "HOST" /\ state' = "REQ_RECEIVING"
             \/ mode # "HOST" /\ state' = "IDLE" /\ mode' = "IDLE"
      BY <2>1, <2>2, <2>4, RxFirst
    <3> QED
      BY <1>0, <3>1
  <2>5. CASE rxStarted
    <3>1. state \notin {"REQ_RECEIVED", "RSP_RECEIVED"}
      BY <2>5
    <3>2. /\ bufSet' = bufSet
          /\ \/ /\ UNCHANGED <<mode, state, timer, wkReq, wkRsp>>
             \/ /\ ~rxStarted' /\ mode = "HOST" /\ mode' = mode /\ ~timer'
                /\ state' = "RSP_RECEIVED" /\ wkRsp' = TRUE /\ wkReq' = wkReq
             \/ /\ ~rxStarted' /\ mode = "SLAVE" /\ mode' = mode
                /\ state' = "REQ_RECEIVED" /\ wkReq' = TRUE /\ wkRsp' = wkRsp
                /\ timer' = timer
             \/ /\ mode = "HOST" /\ mode' = mode /\ state' = "ERR_RECEIVE"
                /\ UNCHANGED <<timer, wkReq, wkRsp>>
             \/ /\ mode # "HOST" /\ mode' = "IDLE" /\ state' = "IDLE"
                /\ UNCHANGED <<timer, wkReq, wkRsp>>
      BY <2>1, <2>2, <2>5, RxNext
    <3> QED
      BY <1>0, <2>3, <3>1, <3>2
  <2> QED
    BY <2>4, <2>5
<1> QED
  BY <1>1, <1>2

LEMMA AliveIsr == TypeOK /\ Alive /\ Isr => Alive'
<1> SUFFICES ASSUME TypeOK, Alive, Isr PROVE Alive'
  OBVIOUS
<1> USE DEF Alive, ReceivedIsProcessed, IdleIsFree, ParserAtRest, EnterIdle,
            ctxVars, rxVars, workVars, thread
<1>1. CASE UartTxDone
  BY <1>1 DEF UartTxDone
<1>2. CASE RspTimeout
  BY <1>2 DEF RspTimeout
<1>3. CASE RspTimeoutDfu
  BY <1>3 DEF RspTimeoutDfu
<1>4. ASSUME NEW o \in IsrOps, RequestFromIsr(o)
      PROVE  Alive'
  BY <1>4 DEF RequestFromIsr
<1> QED
  BY <1>1, <1>2, <1>3, <1>4 DEF Isr

LEMMA AliveThread == TypeOK /\ Alive /\ Thread => Alive'
<1> SUFFICES ASSUME TypeOK, Alive, Thread PROVE Alive'
  OBVIOUS
<1> USE DEF Alive, ReceivedIsProcessed, IdleIsFree, ParserAtRest,
            ctxVars, rxVars, workVars, thread
<1>1. CASE ProcReq
  BY <1>1 DEF ProcReq
<1>2. CASE RespondCheck
  <2>1. CASE state \notin {"REQ_RECEIVED", "REQ_SENT"}
    BY <1>2, <2>1 DEF RespondCheck
  <2>2. CASE state \in {"REQ_RECEIVED", "REQ_SENT"} /\ bufSet
    BY <1>2, <2>2 DEF RespondCheck
  <2>3. CASE state \in {"REQ_RECEIVED", "REQ_SENT"} /\ ~bufSet
    BY <1>2, <2>3 DEF RespondCheck, EnterIdle
  <2> QED
    BY <2>1, <2>2, <2>3
<1>3. CASE RespondStart
  BY <1>3 DEF RespondStart, on_cmd_send_start
<1>4. CASE RespondSend
  BY <1>4 DEF RespondSend
<1>5. CASE ProcRsp
  BY <1>5 DEF ProcRsp
<1>6. CASE ProcRspReset
  BY <1>6 DEF ProcRspReset
<1>7. CASE ProcRspMode
  BY <1>7 DEF ProcRspMode
<1>8. CASE ProcRspCall
  BY <1>8 DEF ProcRspCall
<1>9. CASE RequestCheck
  BY <1>9 DEF RequestCheck
<1>10. CASE RequestMode
  BY <1>10 DEF RequestMode
<1>11. CASE RequestStart
  BY <1>11 DEF RequestStart, on_cmd_send_start
<1>12. CASE RequestSend
  BY <1>12 DEF RequestSend
<1>13. CASE app_cmd_uninit
  BY <1>13 DEF app_cmd_uninit
<1>14. CASE AppUartInit
  BY <1>14 DEF AppUartInit
<1>15. CASE AppCmdInit
  BY <1>15 DEF AppCmdInit, EnterIdle
<1> QED
  BY <1>1, <1>2, <1>3, <1>4, <1>5, <1>6, <1>7, <1>8, <1>9, <1>10, <1>11,
     <1>12, <1>13, <1>14, <1>15 DEF Thread

LEMMA AliveInductive == Spec => []Alive
<1>1. Init => Alive
  BY DEF Init, Alive, ReceivedIsProcessed, IdleIsFree, ParserAtRest
<1>2. TypeOK /\ Alive /\ UNCHANGED vars => Alive'
  BY DEF vars, ctxVars, rxVars, workVars, thread,
         Alive, ReceivedIsProcessed, IdleIsFree, ParserAtRest
<1>3. TypeOK /\ Alive /\ [Next]_vars => Alive'
  BY <1>2, AliveRx, AliveIsr, AliveThread DEF Next
<1> QED
  BY <1>1, <1>3, TypeCorrect, PTL DEF Spec

\* No received frame is left without a handler on its way (app_cmd.c, state_set
\* and the two work items), so the channel can not block on one.
THEOREM ReceivedProcessed == Spec => []ReceivedIsProcessed
BY AliveInductive, PTL DEF Alive

\* A channel that rests accepts app_cmd_request (app_cmd.c, state_handler).
THEOREM IdleFree == Spec => []IdleIsFree
BY AliveInductive, PTL DEF Alive

\* The parser is between frames while a frame waits in its pool (app_cmd.c,
\* on_uart_rx_ready).
THEOREM ParserRests == Spec => []ParserAtRest
BY AliveInductive, PTL DEF Alive

-----------------------------------------------------------------------------
(* The host that waits is timed.                                            *)

\* WaitIsTimed with what makes it inductive: the UART stays with the channel,
\* and what is queued for sending is the frame the timeout will name.
Timed ==
  /\ uart = "cmd" /\ pc \notin {"dfu", "init"}
  /\ state \in {"REQ_SENT", "RSP_RECEIVING", "ERR_RECEIVE"} => timer /\ txBuf # Blank
  /\ fifo # <<>> => txBuf # Blank

LEMMA TimedSend ==
  ASSUME NEW f \in Frame, cmd_send(f)
  PROVE  txBuf' # Blank
BY BlankAssumption DEF cmd_send

LEMMA TimedRx == ASSUME NEW u \in Unit, TypeOK, Timed, UartRx(u) PROVE Timed'
<1>0. UNCHANGED <<pc, uart, txBuf, fifo>>
  BY DEF UartRx, thread, txVars
<1>1. CASE RxRefused
  BY <1>0, <1>1 DEF Timed, UartRx, ctxVars
<1>2. CASE ~RxRefused
  <2>1. on_uart_rx_ready(pool', rxLen + 1)
    BY <1>2 DEF UartRx, Timed
  <2>2. pool' \in [1 .. Capacity -> Cell] /\ rxLen + 1 \in 1 .. Capacity
    BY ConstAssumption DEF UartRx, PoolHasRoom, TypeOK, Cell
  <2>3. mode = "HOST" => state \in {"REQ_SENT", "RSP_RECEIVING"}
    BY <1>2 DEF RxRefused
  <2>4. CASE ~rxStarted
    <3>1. /\ UNCHANGED timer
          /\ \/ mode = "HOST" /\ state' \in {"RSP_RECEIVING", "ERR_RECEIVE"}
             \/ state' \in {"REQ_RECEIVING", "IDLE"}
      BY <2>1, <2>2, <2>4, RxFirst
    <3> QED
      BY <1>0, <2>3, <3>1 DEF Timed
  <2>5. CASE rxStarted
    <3>1. \/ UNCHANGED <<state, timer>>
          \/ state' \in {"RSP_RECEIVED", "REQ_RECEIVED", "IDLE"}
          \/ mode = "HOST" /\ state' = "ERR_RECEIVE" /\ UNCHANGED timer
      BY <2>1, <2>2, <2>5, RxNext
    <3> QED
      BY <1>0, <2>3, <3>1 DEF Timed
  <2> QED
    BY <2>4, <2>5
<1> QED
  BY <1>1, <1>2

LEMMA TimedIsr == ~MayReinit /\ Timed /\ Isr => Timed'
<1> SUFFICES ASSUME ~MayReinit, Timed, Isr PROVE Timed'
  OBVIOUS
<1> USE DEF Timed, EnterIdle, ctxVars, rxVars, txVars, thread
<1>1. CASE UartTxDone
  BY <1>1 DEF UartTxDone
<1>2. CASE RspTimeout
  BY <1>2 DEF RspTimeout
<1>3. ASSUME NEW o \in IsrOps, RequestFromIsr(o)
      PROVE  Timed'
  BY <1>3, TimedSend DEF RequestFromIsr
<1> QED
  BY <1>1, <1>2, <1>3 DEF Isr, RspTimeoutDfu

LEMMA TimedThread == ~MayReinit /\ Timed /\ Thread => Timed'
<1> SUFFICES ASSUME ~MayReinit, Timed, Thread PROVE Timed'
  OBVIOUS
<1> USE DEF Timed, ctxVars, rxVars, txVars, thread
<1>1. CASE ProcReq
  BY <1>1 DEF ProcReq
<1>2. CASE RespondCheck
  BY <1>2 DEF RespondCheck, EnterIdle
<1>3. CASE RespondStart
  BY <1>3 DEF RespondStart, on_cmd_send_start
<1>4. CASE RespondSend
  BY <1>4, TimedSend DEF RespondSend
<1>5. CASE ProcRsp
  BY <1>5 DEF ProcRsp
<1>6. CASE ProcRspReset
  BY <1>6 DEF ProcRspReset
<1>7. CASE ProcRspMode
  BY <1>7 DEF ProcRspMode
<1>8. CASE ProcRspCall
  BY <1>8 DEF ProcRspCall
<1>9. CASE RequestCheck
  BY <1>9 DEF RequestCheck
<1>10. CASE RequestMode
  BY <1>10 DEF RequestMode
<1>11. CASE RequestStart
  BY <1>11 DEF RequestStart, on_cmd_send_start
<1>12. CASE RequestSend
  BY <1>12, TimedSend DEF RequestSend
<1> QED
  BY <1>1, <1>2, <1>3, <1>4, <1>5, <1>6, <1>7, <1>8, <1>9, <1>10, <1>11, <1>12
     DEF Thread, app_cmd_uninit, AppUartInit, AppCmdInit

\* As long as serial DFU does not borrow the UART, a host that waits for a response
\* has its timer running and a request to name (app_cmd.c, state_handler and
\* tmr_rsp_timeout_handler): nothing on the line makes it wait for ever.
THEOREM WaitTimed == ASSUME MayReinit = FALSE PROVE Spec => []WaitIsTimed
<1>1. Init => Timed
  BY DEF Init, Timed
<1>2. Timed /\ UNCHANGED vars => Timed'
  BY DEF vars, ctxVars, txVars, thread, Timed
<1>3. TypeOK /\ Timed /\ [Next]_vars => Timed'
  BY <1>2, TimedRx, TimedIsr, TimedThread DEF Next
<1>4. Timed => WaitIsTimed
  BY DEF Timed, WaitIsTimed
<1> QED
  BY <1>1, <1>3, <1>4, TypeCorrect, PTL DEF Spec

-----------------------------------------------------------------------------
(* The channel implements the exchanges of HalfDuplex, whatever bytes       *)
(* arrive and whether or not memory runs out, as long as requests come      *)
(* from interrupt handlers and the UART is not lent to serial DFU.  That    *)
(* each host exchange ends is left to TLC.                                  *)

\* Which combinations of mode, state and place of the thread there are, and in
\* which of them the timer runs, a frame is queued, or work is submitted.
Discipline ==
  /\ uart = "cmd"
  /\ pc \in {"idle", "rspReset", "rspMode", "rspCall",
             "respCheck", "respStart", "respSend"}
  /\ mode = "HOST" =>
       \/ state \in {"REQ_SENDING", "REQ_SENT", "RSP_RECEIVING", "ERR_RECEIVE", "RSP_RECEIVED"}
       \/ state = "IDLE" /\ pc \in {"rspReset", "rspMode"}
  /\ mode = "SLAVE" => state \in {"REQ_RECEIVING", "REQ_RECEIVED", "RSP_SENDING"}
  /\ mode = "IDLE" => state = "IDLE"
  /\ timer => mode = "HOST" /\ state \in {"REQ_SENT", "RSP_RECEIVING", "ERR_RECEIVE"}
  /\ fifo # <<>> => state \in {"REQ_SENDING", "RSP_SENDING"}
  /\ wkRsp => mode = "HOST" /\ state = "RSP_RECEIVED"
  /\ wkReq => mode = "SLAVE" /\ state = "REQ_RECEIVED"
  /\ pc \in {"rspReset", "rspMode"} => mode = "HOST" /\ state = "IDLE"
  /\ pc \in {"respCheck", "respStart"} => mode = "SLAVE" /\ state = "REQ_RECEIVED"
  /\ pc = "respSend" => mode = "SLAVE" /\ state = "RSP_SENDING" /\ fifo = <<>>
  /\ pc \in {"respCheck", "respStart"} => ~wkReq

Disciplined == ThreadOps = {} /\ MayReinit = FALSE

\* Where Phase is, for the combinations there are.
LEMMA PhaseOf ==
  /\ mode = "IDLE" /\ state = "IDLE" => Phase = "free"
  /\ mode = "HOST" =>
       /\ state = "REQ_SENDING" => Phase = "asking"
       /\ state \in {"REQ_SENT", "RSP_RECEIVING", "ERR_RECEIVE"} => Phase = "waiting"
       /\ state \in {"RSP_RECEIVED", "IDLE"} => Phase = "answered"
  /\ mode = "SLAVE" =>
       /\ state = "REQ_RECEIVING" => Phase = "hearing"
       /\ state = "REQ_RECEIVED" => Phase = "serving"
       /\ state = "RSP_SENDING" => Phase = "answering"
BY DEF Phase

LEMMA PhaseOfNext ==
  /\ mode' = "IDLE" /\ state' = "IDLE" => Phase' = "free"
  /\ mode' = "HOST" =>
       /\ state' = "REQ_SENDING" => Phase' = "asking"
       /\ state' \in {"REQ_SENT", "RSP_RECEIVING", "ERR_RECEIVE"} => Phase' = "waiting"
       /\ state' \in {"RSP_RECEIVED", "IDLE"} => Phase' = "answered"
  /\ mode' = "SLAVE" =>
       /\ state' = "REQ_RECEIVING" => Phase' = "hearing"
       /\ state' = "REQ_RECEIVED" => Phase' = "serving"
       /\ state' = "RSP_SENDING" => Phase' = "answering"
BY DEF Phase

\* The steps of HalfDuplex, written out.
LEMMA AbstractSteps ==
  ASSUME \/ Phase' = Phase
         \/ Phase = "free"      /\ Phase' \in {"asking", "hearing"}
         \/ Phase = "asking"    /\ Phase' = "waiting"
         \/ Phase = "waiting"   /\ Phase' \in {"answered", "free"}
         \/ Phase = "answered"  /\ Phase' = "free"
         \/ Phase = "hearing"   /\ Phase' \in {"free", "serving"}
         \/ Phase = "serving"   /\ Phase' = "answering"
         \/ Phase = "answering" /\ Phase' = "free"
  PROVE  [HD!Next]_Phase
BY DEF HD!Next, HD!Step, HD!Ask, HD!Sent, HD!Receive, HD!TimeOut, HD!Conclude,
       HD!Hear, HD!Refuse, HD!Accept, HD!Answer, HD!Answered

\* One unit: at most one step of the exchange.
LEMMA ExchangeRx ==
  ASSUME NEW u \in Unit, TypeOK, Alive, Discipline, UartRx(u)
  PROVE  Discipline' /\ [HD!Next]_Phase
<1>0. /\ UNCHANGED <<pc, uart, fifo>>
      /\ mode \in Modes /\ state \in States
  BY DEF UartRx, thread, txVars, TypeOK
<1>1. CASE RxRefused
  <2>1. UNCHANGED <<mode, state, timer, wkReq, wkRsp>>
    BY <1>1 DEF UartRx, ctxVars, workVars
  <2>2. Phase' = Phase
    BY <2>1 DEF Phase
  <2> QED
    BY <1>0, <2>1, <2>2, AbstractSteps DEF Discipline
<1>2. CASE ~RxRefused
  <2>1. on_uart_rx_ready(pool', rxLen + 1)
    BY <1>2 DEF UartRx, Discipline
  <2>2. pool' \in [1 .. Capacity -> Cell] /\ rxLen + 1 \in 1 .. Capacity
    BY ConstAssumption DEF UartRx, PoolHasRoom, TypeOK, Cell
  <2>3. \/ mode = "HOST" /\ state \in {"REQ_SENT", "RSP_RECEIVING"}
        \/ mode = "SLAVE" /\ state = "REQ_RECEIVING"
        \/ mode = "IDLE" /\ state = "IDLE"
    <3>1. CASE mode = "HOST"
      BY <1>2, <3>1 DEF RxRefused
    <3>2. CASE mode = "SLAVE"
      BY <1>2, <3>2 DEF RxRefused
    <3>3. CASE mode = "IDLE"
      BY <3>3 DEF Discipline
    <3> QED
      BY <1>0, <3>1, <3>2, <3>3 DEF Modes
  <2>4. /\ ~wkReq /\ ~wkRsp /\ fifo = <<>>
        /\ mode # "HOST" => ~timer
        /\ pc \in {"idle", "rspCall"}
    BY <2>3 DEF Discipline
  <2>5. CASE ~rxStarted
    <3>1. /\ UNCHANGED <<timer, wkReq, wkRsp>>
          /\ \/ mode = "HOST" /\ mode' = "HOST" /\ state' \in {"RSP_RECEIVING", "ERR_RECEIVE"}
             \/ /\ mode # "HOST" /\ state' = "REQ_RECEIVING"
                /\ state # "REQ_RECEIVING" => mode' = "SLAVE"
                /\ state = "REQ_RECEIVING" => mode' = mode
             \/ mode # "HOST" /\ mode' = "IDLE" /\ state' = "IDLE"
      BY <2>1, <2>2, <2>5, RxFirst
    <3>2. \/ mode = "HOST" /\ mode' = "HOST" /\ state' \in {"RSP_RECEIVING", "ERR_RECEIVE"}
          \/ mode # "HOST" /\ mode' = "SLAVE" /\ state' = "REQ_RECEIVING"
          \/ mode # "HOST" /\ mode' = "IDLE" /\ state' = "IDLE"
      BY <2>3, <3>1
    <3>3. Discipline'
      BY <1>0, <2>3, <2>4, <3>1, <3>2 DEF Discipline
    <3>4. [HD!Next]_Phase
      BY <2>3, <3>2, PhaseOf, PhaseOfNext, AbstractSteps
    <3> QED
      BY <3>3, <3>4
  <2>6. CASE rxStarted
    <3>1. \/ /\ UNCHANGED <<mode, state, timer, wkReq, wkRsp>>
          \/ /\ mode = "HOST" /\ mode' = mode /\ ~timer'
             /\ state' = "RSP_RECEIVED" /\ wkRsp' = TRUE /\ wkReq' = wkReq
          \/ /\ mode = "SLAVE" /\ mode' = mode
             /\ state' = "REQ_RECEIVED" /\ wkReq' = TRUE /\ wkRsp' = wkRsp
             /\ timer' = timer
          \/ /\ mode = "HOST" /\ mode' = mode /\ state' = "ERR_RECEIVE"
             /\ UNCHANGED <<timer, wkReq, wkRsp>>
          \/ /\ mode # "HOST" /\ mode' = "IDLE" /\ state' = "IDLE"
             /\ UNCHANGED <<timer, wkReq, wkRsp>>
      BY <2>1, <2>2, <2>6, RxNext
    <3>2. Discipline'
      BY <1>0, <2>3, <2>4, <3>1 DEF Discipline
    <3>3. [HD!Next]_Phase
      BY <2>3, <3>1, PhaseOf, PhaseOfNext, AbstractSteps
    <3> QED
      BY <3>2, <3>3
  <2> QED
    BY <2>5, <2>6
<1> QED
  BY <1>1, <1>2

\* An interrupt handler: at most one step of the exchange.
LEMMA ExchangeIsr ==
  ASSUME TypeOK, Discipline, Disciplined, Isr
  PROVE  Discipline' /\ [HD!Next]_Phase
<1> USE DEF ctxVars, rxVars, workVars, thread, EnterIdle
<1>0. mode \in Modes /\ state \in States
  BY DEF TypeOK
<1>1. CASE UartTxDone
  <2>1. \/ mode = "HOST" /\ state = "REQ_SENDING"
        \/ mode = "SLAVE" /\ state = "RSP_SENDING"
    <3>1. fifo # <<>>
      BY <1>1 DEF UartTxDone
    <3>2. state \in {"REQ_SENDING", "RSP_SENDING"}
      BY <3>1 DEF Discipline
    <3>3. CASE mode = "HOST"
      BY <3>2, <3>3 DEF Discipline
    <3>4. CASE mode = "SLAVE"
      BY <3>2, <3>4 DEF Discipline
    <3>5. CASE mode = "IDLE"
      BY <3>2, <3>5 DEF Discipline
    <3> QED
      BY <1>0, <3>3, <3>4, <3>5 DEF Modes
  <2>2. /\ ~wkReq /\ ~wkRsp /\ ~timer /\ pc \in {"idle", "rspCall"}
        /\ UNCHANGED <<wkReq, wkRsp, uart, pc>>
        /\ fifo' = <<>>
    BY <1>1, <2>1 DEF UartTxDone, Discipline
  <2>3. \/ mode = "HOST" /\ mode' = "HOST" /\ state' = "REQ_SENT"
        \/ mode = "SLAVE" /\ mode' = "IDLE" /\ state' = "IDLE" /\ timer' = timer
    BY <1>1, <2>1 DEF UartTxDone, Discipline
  <2>4. Discipline'
    BY <2>1, <2>2, <2>3 DEF Discipline
  <2> QED
    BY <2>1, <2>3, <2>4, PhaseOf, PhaseOfNext, AbstractSteps
<1>2. CASE RspTimeout
  <2>1. mode = "HOST" /\ state \in {"REQ_SENT", "RSP_RECEIVING", "ERR_RECEIVE"}
    BY <1>2 DEF RspTimeout, Discipline
  <2>2. /\ ~timer' /\ ~wkReq /\ ~wkRsp /\ fifo = <<>>
        /\ UNCHANGED <<wkReq, wkRsp, uart, pc, fifo>>
        /\ \/ UNCHANGED <<mode, state>>
           \/ mode' = "IDLE" /\ state' = "IDLE"
    BY <1>2, <2>1 DEF RspTimeout, Discipline, txVars
  <2>3. Discipline'
    BY <2>1, <2>2 DEF Discipline
  <2> QED
    BY <2>1, <2>2, <2>3, PhaseOf, PhaseOfNext, AbstractSteps
<1>3. ASSUME NEW o \in IsrOps, RequestFromIsr(o)
      PROVE  Discipline' /\ [HD!Next]_Phase
  <2>1. /\ mode = "IDLE" /\ state = "IDLE"
        /\ mode' = "HOST" /\ state' = "REQ_SENDING"
        /\ UNCHANGED <<timer, wkReq, wkRsp, uart, pc>>
    BY <1>3 DEF RequestFromIsr, Discipline
  <2>2. Discipline'
    BY <2>1 DEF Discipline
  <2> QED
    BY <2>1, <2>2, PhaseOf, PhaseOfNext, AbstractSteps
<1> QED
  BY <1>1, <1>2, <1>3 DEF Isr, RspTimeoutDfu, Disciplined

\* A step of the work queue: at most one step of the exchange.
LEMMA ExchangeThread ==
  ASSUME TypeOK, Alive, Discipline, Disciplined, Thread
  PROVE  Discipline' /\ [HD!Next]_Phase
<1> USE DEF ctxVars, rxVars, workVars, thread, Discipline
<1>0. mode \in Modes /\ state \in States
  BY DEF TypeOK
<1>1. UNCHANGED <<mode, state>> => Phase' = Phase
  BY DEF Phase
<1>2. CASE ProcReq
  <2>1. bufSet
    BY <1>2 DEF ProcReq, Alive, ReceivedIsProcessed
  <2>2. Discipline' /\ UNCHANGED <<mode, state>>
    BY <1>2, <2>1 DEF ProcReq, txVars
  <2> QED
    BY <1>1, <2>2, AbstractSteps
<1>3. CASE RespondCheck
  <2>1. bufSet /\ state = "REQ_RECEIVED"
    BY <1>3 DEF RespondCheck, Alive, ReceivedIsProcessed
  <2>2. Discipline' /\ UNCHANGED <<mode, state>>
    BY <1>3, <2>1 DEF RespondCheck, txVars
  <2> QED
    BY <1>1, <2>2, AbstractSteps
<1>4. CASE RespondStart
  <2>1. /\ mode = "SLAVE" /\ state = "REQ_RECEIVED"
        /\ mode' = "SLAVE" /\ state' = "RSP_SENDING"
        /\ fifo = <<>> /\ ~timer /\ ~wkReq /\ ~wkRsp
        /\ pc' = "respSend"
        /\ UNCHANGED <<fifo, timer, wkReq, wkRsp, uart>>
    BY <1>4 DEF RespondStart, on_cmd_send_start, txVars
  <2>2. Discipline'
    BY <2>1
  <2> QED
    BY <2>1, <2>2, PhaseOf, PhaseOfNext, AbstractSteps
<1>5. CASE RespondSend
  <2>1. Discipline' /\ UNCHANGED <<mode, state>>
    BY <1>5 DEF RespondSend
  <2> QED
    BY <1>1, <2>1, AbstractSteps
<1>6. CASE ProcRsp
  <2>1. /\ mode = "HOST" /\ state = "RSP_RECEIVED"
        /\ mode' = "HOST" /\ state' = "IDLE"
    BY <1>6 DEF ProcRsp
  <2>2. Discipline'
    BY <1>6, <2>1 DEF ProcRsp, txVars
  <2> QED
    BY <2>1, <2>2, PhaseOf, PhaseOfNext, AbstractSteps
<1>7. CASE ProcRspReset
  <2>1. Discipline' /\ UNCHANGED <<mode, state>>
    BY <1>7 DEF ProcRspReset, txVars
  <2> QED
    BY <1>1, <2>1, AbstractSteps
<1>8. CASE ProcRspMode
  <2>1. /\ mode = "HOST" /\ state = "IDLE"
        /\ mode' = "IDLE" /\ state' = "IDLE"
    BY <1>8 DEF ProcRspMode
  <2>2. Discipline'
    BY <1>8, <2>1 DEF ProcRspMode, txVars
  <2> QED
    BY <2>1, <2>2, PhaseOf, PhaseOfNext, AbstractSteps
<1>9. CASE ProcRspCall
  <2>1. Discipline' /\ UNCHANGED <<mode, state>>
    BY <1>9 DEF ProcRspCall, txVars, Disciplined
  <2> QED
    BY <1>1, <2>1, AbstractSteps
<1> QED
  BY <1>2, <1>3, <1>4, <1>5, <1>6, <1>7, <1>8, <1>9
     DEF Thread, RequestCheck, RequestMode, RequestStart, RequestSend,
         app_cmd_uninit, AppUartInit, AppCmdInit, Disciplined

\* The command channel takes the steps of HalfDuplex (app_cmd.c, state_handler and
\* everything that calls state_set): exchanges one at a time, each of them host or
\* slave from beginning to end, a waiting host left by a response or its timeout
\* only.
THEOREM Exchanges ==
  ASSUME Disciplined PROVE Spec => HD!Init /\ [][HD!Next]_Phase
<1>1. Init => Discipline /\ HD!Init
  BY DEF Init, Discipline, Phase, HD!Init
<1>2. Discipline /\ UNCHANGED vars => Discipline' /\ [HD!Next]_Phase
  BY DEF vars, ctxVars, rxVars, txVars, workVars, thread, Discipline, Phase
<1>3. TypeOK /\ Alive /\ Discipline /\ [Next]_vars => Discipline' /\ [HD!Next]_Phase
  BY <1>2, ExchangeRx, ExchangeIsr, ExchangeThread DEF Next
<1> QED
  BY <1>1, <1>3, TypeCorrect, AliveInductive, PTL DEF Spec

-----------------------------------------------------------------------------
(* A transmission that a state waits for is under way.                      *)

\* With memory, cmd_send queues the frame and turns the interrupt on.
LEMMA SendDrives ==
  ASSUME TypeOK, MayFail = FALSE, NEW f \in Frame, cmd_send(f)
  PROVE  fifo' # <<>> /\ txIrq'
<1>1. fifo \in Seq([frame : Frame, whole : BOOLEAN])
  BY DEF TypeOK
<1>2. fifo' = Append(fifo, [frame |-> f, whole |-> TRUE]) /\ txIrq' = TRUE
  BY DEF cmd_send
<1> QED
  BY <1>1, <1>2

LEMMA DrivenRx ==
  ASSUME NEW u \in Unit, TypeOK, Discipline, SendingIsDriven, UartRx(u)
  PROVE  SendingIsDriven'
<1>1. UNCHANGED <<pc, fifo, txIrq>>
  BY DEF UartRx, thread, txVars
<1>2. CASE RxRefused
  BY <1>1, <1>2 DEF UartRx, ctxVars, SendingIsDriven
<1>3. CASE ~RxRefused
  <2>1. on_uart_rx_ready(pool', rxLen + 1)
    BY <1>3 DEF UartRx, Discipline
  <2>2. pool' \in [1 .. Capacity -> Cell] /\ rxLen + 1 \in 1 .. Capacity
    BY ConstAssumption DEF UartRx, PoolHasRoom, TypeOK, Cell
  <2>3. state' = state \/ state' \notin {"REQ_SENDING", "RSP_SENDING"}
    <3>1. CASE ~rxStarted
      BY <2>1, <2>2, <3>1, RxFirst
    <3>2. CASE rxStarted
      BY <2>1, <2>2, <3>2, RxNext
    <3> QED
      BY <3>1, <3>2
  <2> QED
    BY <1>1, <2>3 DEF SendingIsDriven
<1> QED
  BY <1>2, <1>3

LEMMA DrivenIsr ==
  ASSUME TypeOK, Discipline, Disciplined, MayFail = FALSE, SendingIsDriven, Isr
  PROVE  SendingIsDriven'
<1> USE DEF SendingIsDriven
<1>1. CASE UartTxDone
  <2>1. state' \notin {"REQ_SENDING", "RSP_SENDING"}
    <3>1. mode \in Modes /\ uart = "cmd" /\ state \in {"REQ_SENDING", "RSP_SENDING"}
      BY <1>1 DEF UartTxDone, Discipline, TypeOK
    <3>2. mode \in {"HOST", "SLAVE"}
      BY <3>1 DEF Discipline, Modes
    <3>3. CASE mode = "HOST"
      BY <1>1, <3>1, <3>3 DEF UartTxDone
    <3>4. CASE mode = "SLAVE"
      BY <1>1, <3>1, <3>4 DEF UartTxDone, EnterIdle
    <3> QED
      BY <3>2, <3>3, <3>4
  <2> QED
    BY <2>1
<1>2. CASE RspTimeout
  BY <1>2 DEF RspTimeout, EnterIdle, ctxVars, txVars, thread
<1>3. ASSUME NEW o \in IsrOps, RequestFromIsr(o) PROVE SendingIsDriven'
  <2>1. PICK f \in Frame : cmd_send(f)
    BY <1>3 DEF RequestFromIsr
  <2> QED
    BY <2>1, SendDrives
<1> QED
  BY <1>1, <1>2, <1>3 DEF Isr, RspTimeoutDfu, Disciplined

LEMMA DrivenThread ==
  ASSUME TypeOK, Discipline, Disciplined, MayFail = FALSE, SendingIsDriven, Thread
  PROVE  SendingIsDriven'
<1> USE DEF SendingIsDriven, ctxVars, txVars, thread
<1>1. CASE ProcReq
  BY <1>1 DEF ProcReq
<1>2. CASE RespondCheck
  BY <1>2 DEF RespondCheck, EnterIdle
<1>3. CASE RespondStart
  BY <1>3 DEF RespondStart
<1>4. CASE RespondSend
  <2>1. PICK f \in Frame : cmd_send(f)
    BY <1>4 DEF RespondSend
  <2> QED
    BY <2>1, SendDrives
<1>5. CASE ProcRsp
  BY <1>5 DEF ProcRsp
<1>6. CASE ProcRspReset \/ ProcRspMode
  BY <1>6 DEF ProcRspReset, ProcRspMode
<1>7. CASE ProcRspCall
  BY <1>7 DEF ProcRspCall
<1> QED
  BY <1>1, <1>2, <1>3, <1>4, <1>5, <1>6, <1>7
     DEF Thread, Discipline, Disciplined, RequestCheck, RequestMode, RequestStart,
         RequestSend, app_cmd_uninit, AppUartInit, AppCmdInit

\* A state that waits for the end of a transmission has one under way, or the thread is
\* about to start it (app_cmd.c, state_set before cmd_send in app_cmd_request and
\* app_cmd_respond): the channel does not hang in sending, as long as memory lasts.
THEOREM SendingDriven ==
  ASSUME Disciplined, MayFail = FALSE PROVE Spec => []SendingIsDriven
<1>1. Init => SendingIsDriven /\ Discipline
  BY DEF Init, SendingIsDriven, Discipline
<1>2. SendingIsDriven /\ UNCHANGED vars => SendingIsDriven'
  BY DEF vars, ctxVars, txVars, thread, SendingIsDriven
<1>3. TypeOK /\ Discipline /\ SendingIsDriven /\ [Next]_vars => SendingIsDriven'
  BY <1>2, DrivenRx, DrivenIsr, DrivenThread DEF Next
<1>4. Discipline /\ UNCHANGED vars => Discipline'
  BY DEF vars, ctxVars, rxVars, txVars, workVars, thread, Discipline
<1>5. TypeOK /\ Alive /\ Discipline /\ [Next]_vars => Discipline'
  BY <1>4, ExchangeRx, ExchangeIsr, ExchangeThread DEF Next
<1> QED
  BY <1>1, <1>3, <1>5, TypeCorrect, AliveInductive, PTL DEF Spec
=============================================================================

------------------------------- MODULE AppCmd -------------------------------
(***************************************************************************)
(* The command channel of the nRF91 application, app_cmd.c on top of       *)
(* app_uart.c: a half-duplex request/response protocol over a UART.        *)
(*                                                                         *)
(* Two contexts share the state and nothing locks it.  Interrupt handlers  *)
(* (UART receive and transmit, the response timer, the buttons) do not     *)
(* nest, so each is one action.  Work handlers run on the system work      *)
(* queue and an interrupt may land between any two of their accesses, so   *)
(* each is a chain of actions driven by pc.                                *)
(*                                                                         *)
(* A frame travels as frame.size units: HdrSize header units, the last of  *)
(* which carries the length, then the op code, then the rest.  The peer is *)
(* open: any unit may arrive at any time.  CmdLink closes the channel with *)
(* a peer that follows the protocol over a line that may lose units.       *)
(***************************************************************************)
EXTENDS Naturals, Sequences

CONSTANTS
  Ops,         \* op codes that can occur in a frame
  Registered,  \* op codes added with app_cmd_add
  Sizes,       \* lengths of frames, in units
  HdrSize,     \* units up to and including the length field
  Capacity,    \* CMD_PACKET_LENGTH: size of the receive and transmit pools
  Blank,       \* NULL pointer, erased cell, no op code
  ThreadOps,   \* op codes a response callback may request from the work queue
  IsrOps,      \* op codes an interrupt handler (button) may request
  MayFail,     \* k_malloc may fail while a frame is queued for sending
  MayReinit    \* serial DFU may borrow the UART (app_cmd_uninit, app_cmd_init)

ASSUME ConstAssumption ==
  /\ Registered \subseteq Ops
  /\ ThreadOps \subseteq Registered
  /\ IsrOps \subseteq Registered
  /\ HdrSize \in Nat \ {0}
  /\ Capacity \in Nat /\ HdrSize < Capacity
  /\ Sizes \subseteq HdrSize + 1 .. Capacity
  /\ Blank \notin Ops
  /\ MayFail \in BOOLEAN
  /\ MayReinit \in BOOLEAN

Frame == [start : {"req", "rsp"}, op : Ops, size : Sizes]
Unit  == {u \in [frame : Frame, at : 1 .. Capacity] : u.at <= u.frame.size}

ASSUME BlankAssumption == Blank \notin Frame

NoUnit == [frame |-> Blank, at |-> 0]
Cell  == Unit \cup {NoUnit}

Modes  == {"IDLE", "HOST", "SLAVE"}
States == {"IDLE", "REQ_SENDING", "REQ_SENT", "REQ_RECEIVING", "REQ_RECEIVED",
           "RSP_SENDING", "RSP_RECEIVING", "RSP_RECEIVED", "ERR_RECEIVE"}

VARIABLES
  mode, state,  \* m_cmd_ctx
  rxStarted,    \* static rx_started of on_uart_rx_ready
  cmdLen,       \* static cmd_len of on_uart_rx_ready
  bufSet,       \* m_rx_buff.p_data # NULL
  pool,         \* m_rx_pool
  rxLen,        \* app_uart's m_rx_buff.length, the write index into the pool
  txBuf,        \* the frame in m_tx_pool, Blank when m_tx_buff.p_data = NULL
  fifo, txIrq,  \* m_tx_fifo, and whether the transmit interrupt is enabled
  timer,        \* tmr_wait_rsp is running
  wkReq, wkRsp, \* wk_proc_req and wk_proc_rsp are submitted
  uart,         \* who owns the UART, see Owners
  pc, cur,      \* position of the work queue thread, the op code it handles
  asked, told   \* history: request without an outcome yet, last outcome

ctxVars  == <<mode, state>>
rxVars   == <<rxStarted, cmdLen, bufSet, pool, rxLen>>
txVars   == <<txBuf, fifo, txIrq>>
workVars == <<wkReq, wkRsp>>
thread   == <<pc, cur>>
history  == <<asked, told>>
vars == <<ctxVars, rxVars, txVars, timer, workVars, uart, thread, history>>

\* cmd: this module; off: un-initialised; dfu: the serial DFU driver;
\* nocb: inside app_cmd_init, receive interrupt on but no callback set yet.
Owners == {"cmd", "off", "dfu", "nocb"}
PCs == {"idle", "rspReset", "rspMode", "rspCall", "reqCheck", "reqMode",
        "reqStart", "reqSend", "respCheck", "respStart", "respSend",
        "dfu", "init"}
Outcome == [op : Ops, kind : {"rsp", "timeout"}]

TypeOK ==
  /\ mode \in Modes /\ state \in States
  /\ rxStarted \in BOOLEAN /\ bufSet \in BOOLEAN
  /\ cmdLen \in 0 .. Capacity + 1
  /\ pool \in [1 .. Capacity -> Cell]
  /\ rxLen \in 0 .. Capacity
  /\ txBuf \in Frame \cup {Blank}
  /\ fifo \in Seq([frame : Frame, whole : BOOLEAN]) /\ txIrq \in BOOLEAN
  /\ timer \in BOOLEAN
  /\ wkReq \in BOOLEAN /\ wkRsp \in BOOLEAN
  /\ uart \in Owners
  /\ pc \in PCs /\ cur \in Ops \cup {Blank}
  /\ asked \in Ops \cup {Blank} /\ told \in Outcome \cup {Blank}

\* The channel as main leaves it: app_cmd_init has run, nothing has arrived.
Init ==
  /\ mode = "IDLE" /\ state = "IDLE"
  /\ rxStarted = FALSE /\ cmdLen = 0 /\ bufSet = FALSE
  /\ pool = [k \in 1 .. Capacity |-> NoUnit] /\ rxLen = 0
  /\ txBuf = Blank /\ fifo = <<>> /\ txIrq = FALSE
  /\ timer = FALSE /\ wkReq = FALSE /\ wkRsp = FALSE
  /\ uart = "cmd" /\ pc = "idle" /\ cur = Blank
  /\ asked = Blank /\ told = Blank

-----------------------------------------------------------------------------
(* Frames in the receive pool.  A read that hits the wrong unit yields any  *)
(* value: the line shifted under the parser.                                *)

\* The values buff_to_cmd and op_code_get can find in the op code field.
OpRead(p) ==
  LET u == p[HdrSize + 1] IN
  IF u = NoUnit THEN {Blank}
  ELSE IF u.at = HdrSize + 1 THEN {u.frame.op} ELSE Ops \cup {Blank}

\* The values cmd_len_get can compute from the length field.
LenRead(p) ==
  LET u == p[HdrSize] IN
  IF u.at = HdrSize THEN {u.frame.size} ELSE Sizes \cup {Capacity + 1}

\* format_check: start flag, length, op code (host only) and CRC.  The CRC
\* holds exactly when the n units are those of one frame, in order.
FormatOk(p, n, m) ==
  \E f \in Frame :
    /\ f.size = n
    /\ \A k \in 1 .. n : p[k] = [frame |-> f, at |-> k]
    /\ m = "HOST" => f.start = "rsp" /\ txBuf # Blank /\ f.op = txBuf.op
    /\ m = "SLAVE" => f.start = "req"

-----------------------------------------------------------------------------
(* state_set with the part of state_handler each state runs.                *)

\* Mutant: the mode outlives the exchange.
EnterIdleKeepsMode == state' = "IDLE" /\ mode' = mode /\ rxLen' = 0

\* state_set(CMD_STATE_IDLE) inside an interrupt handler.
EnterIdle == state' = "IDLE" /\ mode' = "IDLE" /\ rxLen' = 0

\* on_cmd_send_start
on_cmd_send_start ==
  IF mode = "SLAVE" THEN state' = "RSP_SENDING" /\ mode' = mode
                    ELSE /\ state' = "REQ_SENDING"
                         /\ mode' = IF state # "REQ_SENDING" THEN "HOST" ELSE mode

\* on_cmd_receive_error with m the mode and n the length at that moment: the
\* host keeps waiting for its timer, anyone else goes back to idle.
on_cmd_receive_error(m, n) ==
  IF m = "HOST" THEN state' = "ERR_RECEIVE" /\ mode' = m /\ rxLen' = n
                ELSE EnterIdle

\* Mutant: the fifo is filled and the transmit interrupt left off.
cmd_sendNoIrq(f) ==
  /\ txBuf' = f
  /\ fifo' = Append(fifo, [frame |-> f, whole |-> TRUE])
  /\ txIrq' = txIrq

\* cmd_to_buff, app_uart_send and uart_send_asyn.  Without memory some elements
\* may stay in the fifo, the interrupt is not enabled and nobody is told.
cmd_send(f) ==
  /\ txBuf' = f
  /\ \/ /\ fifo' = Append(fifo, [frame |-> f, whole |-> TRUE])
        /\ txIrq' = TRUE
     \/ /\ MayFail
        /\ fifo' \in {fifo, Append(fifo, [frame |-> f, whole |-> FALSE])}
        /\ txIrq' = txIrq

\* The outcome of a request is handed to its response callback.
CallBack(o, kind) ==
  IF o \in Registered
  THEN /\ told' = [op |-> o, kind |-> kind]
       /\ asked' = IF o = asked THEN Blank ELSE asked
  ELSE UNCHANGED history

-----------------------------------------------------------------------------
(* Interrupt handlers.                                                      *)

\* Mutant: a host takes bytes before its request is out.
RxRefusedHostUnguarded == mode = "SLAVE" /\ state # "REQ_RECEIVING"

\* The early returns of on_uart_rx_ready.
RxRefused ==
  \/ mode = "HOST" /\ state \notin {"REQ_SENT", "RSP_RECEIVING"}
  \/ mode = "SLAVE" /\ state # "REQ_RECEIVING"

\* Mutant: the parser is not told that the frame is over.
EndOfFrameForgotten == rxStarted' = rxStarted

\* The last statement of on_uart_rx_ready, for a good frame and a bad one.
EndOfFrame == rxStarted' = FALSE

\* on_uart_rx_ready once past its early returns, with the pool holding n units.
on_uart_rx_ready(p, n) ==
  LET first == ~rxStarted
      m  == IF first /\ mode # "HOST" /\ state # "REQ_RECEIVING" THEN "SLAVE" ELSE mode
      s  == IF ~first THEN state
            ELSE IF mode = "HOST" THEN "RSP_RECEIVING" ELSE "REQ_RECEIVING"
      c0 == IF first THEN 0 ELSE cmdLen
      readsLen == c0 = 0 /\ n = HdrSize
  IN
  /\ bufSet' = (bufSet \/ first)
  /\ \E c \in IF readsLen THEN LenRead(p) ELSE {c0} :
       /\ cmdLen' = c
       /\ \/ /\ c = 0 \/ n < c                     \* still receiving
             /\ rxStarted' = TRUE
             /\ IF readsLen /\ c > Capacity
                THEN on_cmd_receive_error(m, n)
                ELSE mode' = m /\ state' = s /\ rxLen' = n
             /\ UNCHANGED <<timer, workVars>>
          \/ /\ c # 0 /\ n >= c /\ FormatOk(p, n, m)
             /\ EndOfFrame
             /\ mode' = m /\ rxLen' = n
             /\ state' = CASE m = "HOST"  -> "RSP_RECEIVED"
                           [] m = "SLAVE" -> "REQ_RECEIVED"
                           [] OTHER       -> s
             /\ timer' = (timer /\ m # "HOST")
             /\ wkRsp' = (wkRsp \/ m = "HOST")
             /\ wkReq' = (wkReq \/ m = "SLAVE")
          \/ /\ c # 0 /\ n >= c /\ ~FormatOk(p, n, m)
             /\ EndOfFrame
             /\ on_cmd_receive_error(m, n)
             /\ UNCHANGED <<timer, workVars>>

\* Mutant: one unit past the end of the pool.
PoolHasRoomOffByOne == rxLen <= Capacity

\* uart_fifo_read is asked for max_len - length bytes: none when the pool is full.
PoolHasRoom == rxLen < Capacity

\* rx_handler: one unit arrives.
UartRx(u) ==
  /\ uart \in {"nocb", "cmd"} /\ PoolHasRoom
  /\ pool' = [pool EXCEPT ![rxLen + 1] = u]
  /\ IF uart = "nocb" \/ RxRefused
     THEN /\ rxLen' = rxLen + 1
          /\ UNCHANGED <<ctxVars, rxStarted, cmdLen, bufSet, timer, workVars>>
     ELSE on_uart_rx_ready(pool', rxLen + 1)
  /\ UNCHANGED <<txVars, uart, thread, history>>

\* tx_handler sends the last element of the fifo; on_cmd_send_complete.
UartTxDone ==
  /\ txIrq /\ fifo # <<>>
  /\ fifo' = <<>> /\ txIrq' = FALSE
  /\ CASE uart = "cmd" /\ mode = "HOST" ->
            /\ state' = "REQ_SENT"
            /\ timer' = (timer \/ state # "REQ_SENT")
            /\ UNCHANGED <<mode, rxLen>>
       [] uart = "cmd" /\ mode = "SLAVE" -> EnterIdle /\ UNCHANGED timer
       [] OTHER -> UNCHANGED <<ctxVars, rxLen, timer>>
  /\ UNCHANGED <<rxStarted, cmdLen, bufSet, pool, txBuf, workVars, uart,
                 thread, history>>

\* Mutant: the timeout is reported and the channel left waiting.
RspTimeoutNoIdle ==
  /\ timer /\ timer' = FALSE
  /\ IF txBuf = Blank THEN UNCHANGED history ELSE CallBack(txBuf.op, "timeout")
  /\ UNCHANGED <<ctxVars, rxVars, txVars, workVars, uart, thread>>

\* tmr_rsp_timeout_handler.  No registered callback makes a request on a timeout.
RspTimeout ==
  /\ timer /\ timer' = FALSE
  /\ IF txBuf = Blank
     THEN UNCHANGED <<ctxVars, rxLen, history>>
     ELSE /\ CallBack(txBuf.op, "timeout")
          /\ IF state # "IDLE" THEN EnterIdle ELSE UNCHANGED <<ctxVars, rxLen>>
  /\ UNCHANGED <<rxStarted, cmdLen, bufSet, pool, txVars, workVars, uart, thread>>

\* The same with a callback that runs do_serial_dfu inside the interrupt.
RspTimeoutDfu ==
  /\ MayReinit /\ timer /\ timer' = FALSE
  /\ txBuf # Blank
  /\ CallBack(txBuf.op, "timeout")
  /\ fifo' = <<>> /\ txIrq' = FALSE
  /\ IF state # "IDLE" THEN EnterIdle ELSE rxLen' = 0 /\ UNCHANGED ctxVars
  /\ \/ /\ uart' = "cmd"
        /\ pool' = [k \in 1 .. Capacity |-> NoUnit]
        /\ bufSet' = FALSE /\ txBuf' = Blank
     \/ /\ uart' = "off"                            \* serial_dfu_init failed
        /\ UNCHANGED <<pool, bufSet, txBuf>>
  /\ UNCHANGED <<rxStarted, cmdLen, workVars, thread>>

\* app_cmd_request from an interrupt handler (button 2 pings the nRF52).
RequestFromIsr(o) ==
  /\ mode = "IDLE"
  /\ mode' = "HOST" /\ state' = "REQ_SENDING"
  /\ \E f \in Frame : f.start = "req" /\ f.op = o /\ cmd_send(f)
  /\ asked' = o
  /\ UNCHANGED <<rxVars, timer, workVars, uart, thread, told>>

-----------------------------------------------------------------------------
(* The work queue thread.                                                   *)

\* wk_proc_req_handler up to the request callback, which answers once.
ProcReq ==
  /\ pc = "idle" /\ wkReq /\ wkReq' = FALSE
  /\ IF bufSet
     THEN pc' = "respCheck" /\ cur' \in OpRead(pool)
     ELSE UNCHANGED thread
  /\ UNCHANGED <<ctxVars, rxVars, txVars, timer, wkRsp, uart, history>>

\* app_cmd_respond: state check, and the op code the response will carry.
RespondCheck ==
  /\ pc = "respCheck"
  /\ CASE state \notin {"REQ_RECEIVED", "REQ_SENT"} ->
            pc' = "idle" /\ UNCHANGED <<cur, ctxVars, rxLen>>
       [] state \in {"REQ_RECEIVED", "REQ_SENT"} /\ bufSet ->
            pc' = "respStart" /\ cur' \in OpRead(pool) /\ UNCHANGED <<ctxVars, rxLen>>
       [] OTHER ->
            pc' = "idle" /\ UNCHANGED cur /\ EnterIdle   \* on_cmd_send_error
  /\ UNCHANGED <<rxStarted, cmdLen, bufSet, pool, txVars, timer, workVars, uart,
                 history>>

RespondStart ==
  /\ pc = "respStart" /\ pc' = "respSend"
  /\ on_cmd_send_start
  /\ UNCHANGED <<rxVars, txVars, timer, workVars, uart, cur, history>>

RespondSend ==
  /\ pc = "respSend" /\ pc' = "idle"
  /\ \E f \in Frame : f.start = "rsp" /\ (cur \in Ops => f.op = cur) /\ cmd_send(f)
  /\ UNCHANGED <<ctxVars, rxVars, timer, workVars, uart, cur, history>>

\* Mutant: the response is delivered and the state kept.
ProcRspKeepsState ==
  /\ pc = "idle" /\ wkRsp /\ wkRsp' = FALSE
  /\ pc' = "rspCall"
  /\ UNCHANGED <<ctxVars, rxVars, txVars, timer, wkReq, uart, cur, history>>

\* wk_proc_rsp_handler: state_set(CMD_STATE_IDLE) one write at a time.
ProcRsp ==
  /\ pc = "idle" /\ wkRsp /\ wkRsp' = FALSE
  /\ state' = "IDLE"
  /\ pc' = IF state = "IDLE" THEN "rspCall" ELSE "rspReset"
  /\ UNCHANGED <<mode, rxVars, txVars, timer, wkReq, uart, cur, history>>

ProcRspReset ==
  /\ pc = "rspReset" /\ pc' = "rspMode"
  /\ rxLen' = 0
  /\ UNCHANGED <<ctxVars, rxStarted, cmdLen, bufSet, pool, txVars, timer,
                 workVars, uart, cur, history>>

ProcRspMode ==
  /\ pc = "rspMode" /\ pc' = "rspCall"
  /\ mode' = "IDLE"
  /\ UNCHANGED <<state, rxVars, txVars, timer, workVars, uart, cur, history>>

\* The response callback runs; that of the button's request may make the next
\* request (rsp_cb_ping_app asks the nRF52 to enter its bootloader).
ProcRspCall ==
  /\ pc = "rspCall"
  /\ IF ~bufSet
     THEN pc' = "idle" /\ UNCHANGED <<cur, history>>
     ELSE \E o \in OpRead(pool) :
            /\ CallBack(o, "rsp")
            /\ \/ pc' = "idle" /\ UNCHANGED cur
               \/ o \in IsrOps /\ pc' = "reqCheck" /\ cur' \in ThreadOps
  /\ UNCHANGED <<ctxVars, rxVars, txVars, timer, workVars, uart>>

\* app_cmd_request from the work queue thread, one access at a time.
RequestCheck ==
  /\ pc = "reqCheck"
  /\ pc' = IF mode = "IDLE" THEN "reqMode" ELSE "idle"
  /\ UNCHANGED <<ctxVars, rxVars, txVars, timer, workVars, uart, cur, history>>

RequestMode ==
  /\ pc = "reqMode" /\ pc' = "reqStart"
  /\ mode' = "HOST" /\ asked' = cur
  /\ UNCHANGED <<state, rxVars, txVars, timer, workVars, uart, cur, told>>

RequestStart ==
  /\ pc = "reqStart" /\ pc' = "reqSend"
  /\ on_cmd_send_start
  /\ UNCHANGED <<rxVars, txVars, timer, workVars, uart, cur, history>>

RequestSend ==
  /\ pc = "reqSend" /\ pc' = "idle"
  /\ \E f \in Frame : f.start = "req" /\ f.op = cur /\ cmd_send(f)
  /\ UNCHANGED <<ctxVars, rxVars, timer, workVars, uart, cur, history>>

\* do_serial_dfu takes the UART: app_cmd_uninit, then serial_dfu_init.
app_cmd_uninit ==
  /\ MayReinit /\ pc = "idle" /\ uart = "cmd"
  /\ fifo' = <<>> /\ txIrq' = FALSE /\ timer' = FALSE /\ asked' = Blank
  /\ \/ uart' = "dfu" /\ pc' = "dfu"
     \/ uart' = "off" /\ UNCHANGED pc                \* serial_dfu_init failed
  /\ UNCHANGED <<ctxVars, rxVars, txBuf, workVars, cur, told>>

\* app_cmd_init, first half: app_uart_init turns the receive interrupt on.
AppUartInit ==
  /\ pc = "dfu" /\ pc' = "init"
  /\ uart' = "nocb" /\ rxLen' = 0 /\ txIrq' = FALSE
  /\ UNCHANGED <<ctxVars, rxStarted, cmdLen, bufSet, pool, txBuf, fifo, timer,
                 workVars, cur, history>>

\* Second half: idle state, cleared buffers, callbacks.
AppCmdInit ==
  /\ pc = "init" /\ pc' = "idle"
  /\ uart' = "cmd"
  /\ IF state # "IDLE" THEN EnterIdle ELSE UNCHANGED <<ctxVars, rxLen>>
  /\ pool' = [k \in 1 .. Capacity |-> NoUnit] /\ bufSet' = FALSE
  /\ txBuf' = Blank /\ asked' = Blank
  /\ UNCHANGED <<rxStarted, cmdLen, fifo, txIrq, timer, workVars, cur, told>>

-----------------------------------------------------------------------------
Isr == UartTxDone \/ RspTimeout \/ RspTimeoutDfu \/ \E o \in IsrOps : RequestFromIsr(o)

Thread ==
  \/ ProcReq \/ RespondCheck \/ RespondStart \/ RespondSend
  \/ ProcRsp \/ ProcRspReset \/ ProcRspMode \/ ProcRspCall
  \/ RequestCheck \/ RequestMode \/ RequestStart \/ RequestSend
  \/ app_cmd_uninit \/ AppUartInit \/ AppCmdInit

Next == (\E u \in Unit : UartRx(u)) \/ Isr \/ Thread

Spec == Init /\ [][Next]_vars

\* An enabled interrupt is taken, a running timer fires, and the system work
\* queue, the thread of highest priority, runs what is submitted to it.
FairSpec ==
  /\ Spec
  /\ WF_vars(UartTxDone) /\ WF_vars(RspTimeout) /\ WF_vars(Thread)

-----------------------------------------------------------------------------
(* Properties that hold whatever the line, the memory, the UART's owners    *)
(* and the work queue's requests do.                                        *)

\* A frame that was received is always on its way to its handler: it can not be
\* left in the pool with nobody to process it, which would block the channel.
\* A received request also finds its buffer allocated.
ReceivedIsProcessed ==
  /\ state = "RSP_RECEIVED" => wkRsp
  /\ state = "REQ_RECEIVED" => bufSet /\ (wkReq \/ pc \in {"respCheck", "respStart"})

\* An idle channel is free: outside the few steps that leave or enter the state,
\* app_cmd_request is not refused by a mode that nobody will reset.
IdleIsFree ==
  state = "IDLE" => mode = "IDLE" \/ pc \in {"rspReset", "rspMode", "reqStart"}

\* The parser is between frames while a received frame waits in the pool it
\* shares with the handlers, so that the next byte starts a frame.
ParserAtRest ==
  state \in {"REQ_RECEIVED", "RSP_RECEIVED"} => ~rxStarted

-----------------------------------------------------------------------------
(* Properties that hold as long as nobody else borrows the UART.            *)

\* A host that waits has a timer running and a request to name in the timeout:
\* no loss or corruption on the line makes it wait for ever.
WaitIsTimed ==
  uart = "cmd" /\ state \in {"REQ_SENT", "RSP_RECEIVING", "ERR_RECEIVE"} =>
    timer /\ txBuf # Blank

-----------------------------------------------------------------------------
(* Properties that hold when in addition requests come from interrupt       *)
(* handlers only and memory does not run out.                               *)

\* Sending is driven: a state that waits for the end of a transmission has a
\* transmission under way, or a thread about to start it.
SendingIsDriven ==
  state \in {"REQ_SENDING", "RSP_SENDING"} =>
    (fifo # <<>> /\ txIrq) \/ pc \in {"respSend", "reqSend"}

\* The exchange the channel is in, for the users of the channel.
Phase ==
  CASE mode = "HOST" /\ state = "REQ_SENDING" -> "asking"
    [] mode = "HOST" /\ state \in {"REQ_SENT", "RSP_RECEIVING", "ERR_RECEIVE"} -> "waiting"
    [] mode = "HOST" /\ state \in {"RSP_RECEIVED", "IDLE"} -> "answered"
    [] mode = "SLAVE" /\ state = "REQ_RECEIVING" -> "hearing"
    [] mode = "SLAVE" /\ state = "REQ_RECEIVED" -> "serving"
    [] mode = "SLAVE" /\ state = "RSP_SENDING" -> "answering"
    [] mode = "IDLE" /\ state = "IDLE" -> "free"
    [] OTHER -> "broken"

HD == INSTANCE HalfDuplex WITH phase <- Phase

\* The channel implements the exchanges HalfDuplex promises.
Exchange == HD!Spec
=============================================================================

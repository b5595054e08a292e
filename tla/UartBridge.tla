----------------------------- MODULE UartBridge -----------------------------
(***************************************************************************)
(* The Bluetooth bridge (comprehensive/src/main.c) over the asynchronous   *)
(* UART adapter (uart_async_adapter.c).                                    *)
(*                                                                         *)
(* Bytes of the UART are gathered in buffers and forwarded over Bluetooth  *)
(* by ble_write_thread when a buffer is full or a notification ends a      *)
(* line; writes of the peer are sent over the UART, or queued while it is  *)
(* busy.  The buffers of both directions come from one heap.  The UART     *)
(* handler interrupts the thread that receives from Bluetooth between any  *)
(* two of its accesses, and is not interrupted by threads itself.           *)
(*                                                                         *)
(* Two kinds of bridge: "always" is comprehensive, "power" is              *)
(* peripheral_uart_test_power/src/main.c, the same over the same adapter,  *)
(* but with the UART suspended while no peer is connected.                 *)
(***************************************************************************)
EXTENDS Integers, Sequences, FiniteSets, SequencesExt

CONSTANTS
  Buffers,    \* what the heap has room for
  None,       \* a NULL pointer
  Size,       \* UART_BUF_SIZE
  TxSize,     \* units a buffer takes to send
  HwSize,     \* bytes the UART keeps until they are read
  MaxBytes,   \* bound: bytes that arrive on the UART
  MaxPieces,  \* bound: buffers' worth of data that arrives from the peer
  MaxDrops,   \* bound: disconnections
  Kinds       \* the bridges to consider

ASSUME BridgeAssumption ==
  /\ None \notin Buffers /\ IsFiniteSet(Buffers) /\ Cardinality(Buffers) >= 2
  /\ Kinds \subseteq {"always", "power"}
  /\ Size \in Nat \ {0} /\ TxSize \in Nat \ {0} /\ HwSize \in Nat \ {0}
  /\ MaxBytes \in Nat /\ MaxPieces \in Nat /\ MaxDrops \in Nat

VARIABLES
  kind,     \* the kind of bridge; no step changes it
  pw,       \* "power" only: what uart_enable and uart_disable have done so far
  m,        \* the heap and the receiver (see Memory)
  hw,       \* bytes in the UART
  inRx,     \* on_rx_ready is in its loop
  armed,    \* the receive timer runs
  tx,       \* the adapter's transmitter: buffer, units left, enabled
  txIrq,    \* the transmit interrupt is on
  fifoTx,   \* fifo_uart_tx_data
  bt,       \* bt_receive_cb: step, its buffer, buffers' worth still to come
  ble,      \* the buffer ble_write_thread is sending
  conn,     \* a peer is connected
  eol,      \* history: the bytes that end a line
  count, pieces, drops, \* history: bytes and pieces that arrived, disconnections
  fwd, sent, \* history: last byte forwarded to the peer, pieces sent over the UART
  lost      \* history: some byte was dropped

Numbered(n) == 0 .. n
NoBuf == Buffers \cup {None}

\* free: the heap.  data, len: contents of the buffers and uart_data_t.len.  buf,
\* next, told, on: the adapter's current and next receive buffer, how much of the
\* current one was notified, rx.enabled.  req: disable_req.  out: fifo_uart_rx_data.
\* retry: uart_work is scheduled.
Memory == [free : SUBSET Buffers, data : [Buffers -> Seq(Nat)], len : [Buffers -> Nat],
           buf : NoBuf, next : NoBuf, told : Nat, on : BOOLEAN, req : BOOLEAN,
           out : Seq(Buffers), retry : BOOLEAN]

rxVars == <<hw, inRx, armed, eol, count>>
txVars == <<tx, txIrq, fifoTx, sent>>
btVars == <<bt, pieces>>
bleVars == <<ble, conn, drops, fwd>>
pwVars == <<kind, pw>>
vars == <<pwVars, m, rxVars, txVars, btVars, bleVars, lost>>

TypeOK ==
  /\ kind \in Kinds
  /\ pw \in {"boot", "off", "enable", "on", "disable"} /\ (kind = "always" => pw = "on")
  /\ m \in Memory
  /\ hw \in Seq(1 .. MaxBytes) /\ Len(hw) <= HwSize
  /\ inRx \in BOOLEAN /\ armed \in BOOLEAN
  /\ tx \in [buf : NoBuf, left : 0 .. TxSize, on : BOOLEAN] /\ txIrq \in BOOLEAN
  /\ fifoTx \in Seq(Buffers)
  /\ bt \in [pc : {"idle", "alloc", "send", "enable", "put"}, buf : NoBuf,
             todo : Numbered(MaxPieces)]
  /\ ble \in NoBuf /\ conn \in BOOLEAN
  /\ eol \subseteq 1 .. MaxBytes /\ count \in Numbered(MaxBytes)
  /\ pieces \in Numbered(MaxPieces) /\ drops \in Numbered(MaxDrops)
  /\ fwd \in Numbered(MaxBytes) /\ sent \subseteq Numbered(MaxPieces) /\ lost \in BOOLEAN
  /\ \A b \in Buffers : Len(m.data[b]) <= Size /\ m.len[b] <= Len(m.data[b])

\* k_malloc and k_free.
Malloc(s) == CHOOSE b \in s.free : TRUE
Taken(s, b) == [s EXCEPT !.free = @ \ {b}]
Freed(s, b) == [s EXCEPT !.free = @ \cup {b}, !.data[b] = <<>>, !.len[b] = 0]

\* uart_active; between "off" and "on" the Bluetooth thread is at work.
Active == pw \in {"enable", "on"}

\* After uart_init: the welcome message is being sent.  The bridge of comprehensive has
\* a receive buffer prepared; the power variant allocated one that nobody knows of,
\* and has no peer yet.
Init ==
  /\ kind \in Kinds /\ pw = (IF kind = "always" THEN "on" ELSE "boot")
  /\ conn = (kind = "always")
  /\ LET t == CHOOSE b \in Buffers : TRUE
         r == CHOOSE b \in Buffers \ {t} : TRUE
     IN
     /\ m = [free |-> Buffers \ {t, r},
             data |-> [b \in Buffers |-> IF b = t THEN <<0>> ELSE <<>>],
             len |-> [b \in Buffers |-> IF b = t THEN 1 ELSE 0],
             buf |-> None, next |-> IF kind = "always" THEN r ELSE None, told |-> 0,
             on |-> kind = "always", req |-> FALSE, out |-> <<>>, retry |-> FALSE]
     /\ tx = [buf |-> t, left |-> TxSize, on |-> TRUE]
  /\ hw = <<>> /\ inRx = FALSE /\ armed = FALSE
  /\ txIrq = TRUE /\ fifoTx = <<>>
  /\ bt = [pc |-> "idle", buf |-> None, todo |-> 0]
  /\ ble = None
  /\ eol = {} /\ count = 0 /\ pieces = 0 /\ drops = 0
  /\ fwd = 0 /\ sent = {} /\ lost = FALSE

-----------------------------------------------------------------------------
(* The receiver: what the adapter and uart_cb do to the memory s.           *)

\* UART_RX_BUF_RELEASED: a buffer with data is queued for ble_write_thread.
Released(s, b) ==
  IF b = None THEN s
  ELSE IF s.len[b] > 0 THEN [s EXCEPT !.out = Append(@, b)]
       ELSE Freed(s, b)

\* rx_enable.
RxEnable(s, b) == [s EXCEPT !.buf = None, !.next = b, !.on = TRUE]

\* A new buffer to receive into, or uart_work tries again later (UART_RX_DISABLED,
\* uart_work_handler and uart_enable).
Restarted(s) ==
  IF s.free = {} THEN [s EXCEPT !.retry = TRUE]
  ELSE LET b == Malloc(s) IN RxEnable([Taken(s, b) EXCEPT !.retry = FALSE], b)

\* Mutant: the power variant starts the receiver again whenever it was disabled.
RxDisabledAlways(s) == Restarted(s)

\* The rest of UART_RX_DISABLED: the receiver is started again while it is wanted.
RxDisabled(s) == IF Active THEN Restarted(s) ELSE s

\* rx_disable gives back the current buffer and then the next one, if there is a
\* current one.
RxDisable(s) ==
  LET off == [s EXCEPT !.on = FALSE] IN
  RxDisabled([IF s.buf = None THEN off
              ELSE Released(Released([off EXCEPT !.buf = None, !.next = None, !.told = 0],
                                     s.buf), s.next)
              EXCEPT !.req = FALSE])

\* Mutant: only the bytes of this notification are counted.
NotifyForgetsLen(s) ==
  IF s.buf = None \/ Len(s.data[s.buf]) = s.told THEN s
  ELSE LET b == s.buf
           all == Len(s.data[b])
           ready == [s EXCEPT !.told = all, !.len[b] = all - s.told]
       IN IF ~s.req /\ s.data[b][all] \in eol
          THEN RxDisable([ready EXCEPT !.req = TRUE])
          ELSE ready

\* notify_rx_buffer and UART_RX_RDY: a notification that ends a line stops the
\* receiver, so that what was received is forwarded.
Notify(s) ==
  IF s.buf = None \/ Len(s.data[s.buf]) = s.told THEN s
  ELSE LET b == s.buf
           all == Len(s.data[b])
           ready == [s EXCEPT !.told = all, !.len[b] = @ + all - s.told]
       IN IF ~s.req /\ s.data[b][ready.len[b]] \in eol
          THEN RxDisable([ready EXCEPT !.req = TRUE])
          ELSE ready

\* UART_RX_BUF_REQUEST and rx_buf_rsp.
Requested(s) ==
  IF s.free = {} THEN s
  ELSE LET b == Malloc(s) IN
       IF s.next = None THEN [Taken(s, b) EXCEPT !.next = b] ELSE Taken(s, b)

\* switch_rx_buffer: the next buffer becomes the current one.
Switch(s) ==
  Requested(Released([s EXCEPT !.buf = s.next, !.next = None, !.told = 0], s.buf))

\* Mutant: what the buffer holds already is not counted.
RoomIgnoresFill(s) == IF s.buf = None THEN 0 ELSE Size

\* rx.size_left.
Room(s) == IF s.buf = None THEN 0 ELSE Size - Len(s.data[s.buf])

\* A byte arrives.
UartByte ==
  /\ pw = "on" /\ count < MaxBytes /\ Len(hw) < HwSize
  /\ count' = count + 1 /\ hw' = Append(hw, count + 1)
  /\ eol' \in {eol, eol \cup {count + 1}}
  /\ UNCHANGED <<pwVars, m, inRx, armed, txVars, btVars, bleVars, lost>>

\* Mutant: the receive timer is not started.
ArmTimerForgotten == UNCHANGED armed

\* The timeout counts from the last byte.
ArmTimer == armed' = TRUE

\* One round of the loop of on_rx_ready, which ends when there is nothing to read.
\* Without a buffer the bytes are dropped.
RxReady ==
  /\ inRx \/ (hw # <<>> /\ m.on)
  /\ IF inRx THEN UNCHANGED armed ELSE ArmTimer
  /\ LET s == IF Room(m) = 0 THEN Switch(Notify(m)) ELSE m
         n == IF Room(s) < Len(hw) THEN Room(s) ELSE Len(hw)
     IN /\ inRx' = (Room(s) # 0 /\ hw # <<>>)
        /\ IF Room(s) = 0
           THEN m' = s /\ hw' = <<>> /\ lost' = (lost \/ hw # <<>>)
           ELSE /\ m' = [s EXCEPT !.data[s.buf] = @ \o SubSeq(hw, 1, n)]
                /\ hw' = SubSeq(hw, n + 1, Len(hw)) /\ UNCHANGED lost
  /\ UNCHANGED <<pwVars, eol, count, txVars, btVars, bleVars>>

\* rx_timeout, long after the handler that started the timer.
RxTimeout ==
  /\ armed /\ ~inRx /\ armed' = FALSE /\ m' = Notify(m)
  /\ UNCHANGED <<pwVars, hw, inRx, eol, count, txVars, btVars, bleVars, lost>>

\* The current buffer holds bytes beyond the first told.
Forgets(s, told) == s.buf # None /\ Len(s.data[s.buf]) > told

\* uart_work_handler.  In the power variant the receiver may have been enabled
\* meanwhile: rx_enable says so, but takes the new buffer and forgets the old ones.
UartWork ==
  /\ m.retry /\ ~inRx
  /\ IF Active THEN m' = Restarted(m) /\ lost' = (lost \/ (m.free # {} /\ Forgets(m, 0)))
               ELSE m' = [m EXCEPT !.retry = FALSE] /\ UNCHANGED lost
  /\ UNCHANGED <<pwVars, rxVars, txVars, btVars, bleVars>>

\* uart_disable, after it has cleared uart_active; the UART is suspended.
UartDisable ==
  /\ pw = "disable" /\ ~inRx /\ pw' = "off"
  /\ m' = RxDisable(m) /\ hw' = <<>>
  /\ lost' = (lost \/ hw # <<>> \/ (m.buf # None /\ Forgets(m, m.len[m.buf])))
  /\ UNCHANGED <<kind, inRx, armed, eol, count, txVars, btVars, bleVars>>

\* uart_enable, after it has set uart_active; the UART is resumed.
UartEnable ==
  /\ pw = "enable" /\ ~inRx /\ pw' = "on"
  /\ m' = Restarted(m)
  /\ UNCHANGED <<kind, rxVars, txVars, btVars, bleVars, lost>>

-----------------------------------------------------------------------------
(* The transmitter.                                                         *)

\* The locked part of the adapter's tx for a buffer, when it is not busy.
Sending(b) == [buf |-> b, left |-> TxSize, on |-> TRUE]

\* on_tx_ready: the UART takes some of what is left.
TxReady ==
  /\ txIrq /\ tx.on /\ ~inRx /\ pw # "off"
  /\ \E n \in 1 .. tx.left : tx' = [tx EXCEPT !.left = @ - n]
  /\ UNCHANGED <<pwVars, m, rxVars, txIrq, fifoTx, sent, btVars, bleVars, lost>>

\* Mutant: the buffer that was sent is not freed.
TxFreedForgotten == UNCHANGED m

\* k_free in UART_TX_DONE.
TxFreed == m' = Freed(m, tx.buf)

\* Mutant: the transmit interrupt stays off for a queued buffer.
TxNextNoIrq ==
  IF fifoTx = <<>>
  THEN tx' = [buf |-> None, left |-> 0, on |-> FALSE] /\ txIrq' = FALSE /\ UNCHANGED fifoTx
  ELSE tx' = Sending(Head(fifoTx)) /\ txIrq' = FALSE /\ fifoTx' = Tail(fifoTx)

\* UART_TX_DONE goes on with the next buffer in the queue.
TxNext ==
  IF fifoTx = <<>>
  THEN tx' = [buf |-> None, left |-> 0, on |-> FALSE] /\ txIrq' = FALSE /\ UNCHANGED fifoTx
  ELSE tx' = Sending(Head(fifoTx)) /\ txIrq' = TRUE /\ fifoTx' = Tail(fifoTx)

\* on_tx_complete.
TxComplete ==
  /\ txIrq /\ tx.on /\ tx.left = 0 /\ ~inRx /\ pw # "off"
  /\ sent' = sent \cup {m.data[tx.buf][1]}
  /\ TxFreed /\ TxNext
  /\ UNCHANGED <<pwVars, rxVars, btVars, bleVars, lost>>

\* bt_receive_cb is called with n buffers' worth of data.
BtReceive(n) ==
  /\ bt.pc = "idle" /\ conn /\ pw = "on" /\ ~inRx /\ pieces + n <= MaxPieces
  /\ bt' = [pc |-> "alloc", buf |-> None, todo |-> n]
  /\ UNCHANGED <<pwVars, m, rxVars, txVars, pieces, bleVars, lost>>

\* After the last piece bt_receive_cb returns.
BtNext == [pc |-> IF bt.todo = 1 THEN "idle" ELSE "alloc", buf |-> None, todo |-> bt.todo - 1]

\* Without memory the rest of the data is dropped.
BtAlloc ==
  /\ bt.pc = "alloc" /\ ~inRx
  /\ IF m.free = {}
     THEN /\ bt' = [pc |-> "idle", buf |-> None, todo |-> 0] /\ UNCHANGED <<m, pieces>>
     ELSE LET b == Malloc(m) IN
          /\ pieces' = pieces + 1
          /\ m' = [Taken(m, b) EXCEPT !.data[b] = <<pieces + 1>>, !.len[b] = 1]
          /\ bt' = [bt EXCEPT !.pc = "send", !.buf = b]
  /\ UNCHANGED <<pwVars, rxVars, txVars, bleVars, lost>>

\* uart_tx: the adapter takes the buffer, or is busy.
BtSend ==
  /\ bt.pc = "send" /\ ~inRx
  /\ IF tx.buf = None
     THEN tx' = Sending(bt.buf) /\ bt' = [bt EXCEPT !.pc = "enable", !.buf = None]
     ELSE bt' = [bt EXCEPT !.pc = "put"] /\ UNCHANGED tx
  /\ UNCHANGED <<pwVars, m, rxVars, txIrq, fifoTx, sent, pieces, bleVars, lost>>

BtEnable ==
  /\ bt.pc = "enable" /\ ~inRx /\ txIrq' = TRUE /\ bt' = BtNext
  /\ UNCHANGED <<pwVars, m, rxVars, tx, fifoTx, sent, pieces, bleVars, lost>>

\* It was busy: the buffer is queued.
BtPut ==
  /\ bt.pc = "put" /\ ~inRx /\ fifoTx' = Append(fifoTx, bt.buf) /\ bt' = BtNext
  /\ UNCHANGED <<pwVars, m, rxVars, tx, txIrq, sent, pieces, bleVars, lost>>

-----------------------------------------------------------------------------
(* Bluetooth.                                                               *)

\* ble_write_thread takes a buffer, and frees it whether it could be sent or not.
BleTake ==
  /\ ble = None /\ m.out # <<>> /\ ~inRx
  /\ ble' = Head(m.out) /\ m' = [m EXCEPT !.out = Tail(@)]
  /\ UNCHANGED <<pwVars, rxVars, txVars, btVars, conn, drops, fwd, lost>>

BleSend ==
  /\ ble # None /\ ~inRx
  /\ IF conn THEN fwd' = m.data[ble][m.len[ble]] /\ UNCHANGED lost
             ELSE lost' = TRUE /\ UNCHANGED fwd
  /\ ble' = None /\ m' = Freed(m, ble)
  /\ UNCHANGED <<pwVars, rxVars, txVars, btVars, conn, drops>>

\* Connection callbacks run in the thread of bt_receive_cb, hence never inside it.
Disconnected ==
  /\ conn /\ pw = "on" /\ drops < MaxDrops /\ drops' = drops + 1 /\ conn' = FALSE
  /\ pw' = IF kind = "power" THEN "disable" ELSE pw
  /\ bt.pc = "idle" /\ ~inRx
  /\ UNCHANGED <<kind, m, rxVars, txVars, btVars, ble, fwd, lost>>

Connected ==
  /\ ~conn /\ pw # "disable" /\ conn' = TRUE /\ ~inRx
  /\ pw' = IF kind = "power" THEN "enable" ELSE pw
  /\ UNCHANGED <<kind, m, rxVars, txVars, btVars, ble, drops, fwd, lost>>

-----------------------------------------------------------------------------
Bt == BtAlloc \/ BtSend \/ BtEnable \/ BtPut
Ble == BleTake \/ BleSend

Next ==
  \/ UartByte \/ RxReady \/ RxTimeout \/ UartWork
  \/ TxReady \/ TxComplete
  \/ \E n \in 1 .. MaxPieces : BtReceive(n)
  \/ Bt \/ Ble \/ Disconnected \/ Connected \/ UartDisable \/ UartEnable

Spec == Init /\ [][Next]_vars

\* Interrupts are served, the timer and the work item fire, the threads run.
FairSpec ==
  /\ Spec
  /\ WF_vars(RxReady) /\ WF_vars(RxTimeout) /\ WF_vars(UartWork)
  /\ WF_vars(TxReady) /\ WF_vars(TxComplete) /\ WF_vars(Bt) /\ WF_vars(Ble)
  /\ WF_vars(UartDisable) /\ WF_vars(UartEnable)

-----------------------------------------------------------------------------
(* Properties.                                                              *)

\* The places that hold a buffer, with how many times each holds b.
Times(q, b) == Cardinality({i \in DOMAIN q : q[i] = b})
Holds(x, b) == IF x = b THEN 1 ELSE 0
Holders(b) ==
  Holds(m.buf, b) + Holds(m.next, b) + Holds(tx.buf, b) + Holds(bt.buf, b) + Holds(ble, b)
  + Times(m.out, b) + Times(fifoTx, b)

\* Every buffer of the heap is free or has exactly one owner among the two receive
\* slots, the transmitter, the queues and the threads: none leaks, none is freed
\* while it is in use, none is sent in both directions.  The power variant does leak
\* buffers, but none has two owners there either.
OneOwner == \A b \in Buffers :
  IF b \in m.free THEN Holders(b) = 0
  ELSE Holders(b) \in IF kind = "always" THEN {1} ELSE {0, 1}

\* Bytes received in a buffer and not yet forwarded, in the order they will be.
Contents(b) == SubSeq(m.data[b], 1, m.len[b])
Pending ==
  (IF ble = None THEN <<>> ELSE Contents(ble))
  \o FlattenSeq([i \in DOMAIN m.out |-> Contents(m.out[i])])
  \o (IF m.buf = None THEN <<>> ELSE m.data[m.buf]) \o hw

\* Bytes are forwarded in the order they arrived, none twice, and none is missing
\* unless it was dropped for want of memory or of a connection.
ForwardsInOrder ==
  /\ \A i \in DOMAIN Pending :
       Pending[i] > IF i = 1 THEN fwd ELSE Pending[i - 1]
  /\ ~lost => fwd + Len(Pending) = count

\* A transmitter with data has its interrupt on, or the thread is about to turn it on.
TransmitterDriven == tx.buf # None => txIrq \/ bt.pc = "enable"

\* When the line falls silent after the end of a line, all of it reaches the peer or
\* is dropped, also when memory ran out meanwhile.
\* Only in the bridge that is always on: the other one may run out of buffers for good.
LineForwarded ==
  kind = "always" /\ count \in eol ~> count \notin eol \/ Pending = <<>>

\* Without a peer the power variant keeps the receiver off, whatever timer, work item
\* or interrupt was still on its way when the peer left.
OffWithoutPeer == ~Active /\ pw # "disable" => ~m.on /\ m.buf = None

\* Any data sent from the Bluetooth LE unit is sent out of the UART.
PeerDataSent == \A p \in 1 .. MaxPieces : pieces >= p ~> p \in sent
=============================================================================

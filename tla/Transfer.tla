------------------------------ MODULE Transfer ------------------------------
(***************************************************************************)
(* The transfer of a DFU file from the nRF52840 (cross_dfu_52_c, "c") over *)
(* Bluetooth to the nRF52832 (cross_dfu_52, dfu_helper.c, "p") and from    *)
(* there over the UART into the download bank of the nRF91                 *)
(* (app_flash_cmd.c, app_flash.c).                                         *)
(*                                                                         *)
(* The file is sent in packets, written to the bank in blocks.  On the     *)
(* nRF52832 Bluetooth events and the UART interrupt the scheduler's        *)
(* handlers.  The command channel is taken at the level of frames; AppCmd  *)
(* and CmdLink have its details.  A unit of the file is a number, the same *)
(* in the file, on the air and in the bank.                                *)
(***************************************************************************)
EXTENDS Integers, Sequences, FiniteSets

CONSTANTS
  Blank,      \* an erased unit of flash
  Mixed,      \* a unit that was written without being erased
  None,
  PktLen,     \* IMG_PACKET_SIZE, in units of the file
  SendCount,  \* SEND_COUNT and PKTS_PER_BLOCK
  FileLen,    \* units of the file
  Page,       \* units of a flash page
  Pages,      \* pages of the bank
  LoseReqOf, LoseRspOf, \* op codes whose requests, whose responses may be lost
  SlowOps,    \* op codes whose answer may come after the timeout
  FailOps,    \* op codes whose flash operation may fail
  MaxFaults,  \* bound: such faults, and disconnections
  MaxStarts,  \* bound: presses of the button
  MayDrop,    \* the Bluetooth connection may be lost while file data is sent
  Patient     \* the button is pressed only when nothing goes on any more

Ops == {"info", "erase", "write", "done"}

ASSUME TransferAssumption ==
  /\ PktLen \in Nat \ {0} /\ SendCount \in Nat \ {0} /\ FileLen \in Nat \ {0}
  /\ Page \in Nat \ {0} /\ Pages \in Nat \ {0}
  /\ LoseReqOf \subseteq Ops /\ LoseRspOf \subseteq Ops /\ SlowOps \subseteq Ops
  /\ FailOps \subseteq Ops \ {"done"} /\ MaxFaults \in Nat /\ MaxStarts \in Nat
  /\ MayDrop \in BOOLEAN /\ Patient \in BOOLEAN
  /\ Blank \notin Nat /\ Mixed \notin Nat /\ Blank # Mixed

VARIABLES
  c,         \* the central: m_img_index, m_img_size, m_count
  air,       \* writes on their way to the peripheral
  txc,       \* writes whose TX_COMPLETE is to come
  notes,     \* notifications on their way to the central
  connected,
  p,         \* the peripheral: m_img_size, m_img_offset, m_cmd_buffer, its channel
  sched,     \* the events of app_sched
  cb,        \* the response whose handler has freed the channel
  req, rsp,  \* the frames on the UART
  n,         \* the request the nRF91 serves
  bank,      \* the download bank
  done,      \* history: FLASH_DONE requests served
  starts, faults

cVars == <<c, air, txc, notes, connected, starts>>
pVars == <<p, sched, cb>>
nVars == <<n, bank, done>>
vars == <<cVars, pVars, req, rsp, nVars, faults>>

Block == PktLen * SendCount
Cells == 0 .. Page * Pages - 1
File == [i \in 1 .. FileLen |-> i]
Frames == [op : Ops, at : Nat, data : Seq(1 .. FileLen)]
Answers == [op : Ops, ok : BOOLEAN]

ASSUME NoneAssumption == None \notin Frames \cup Answers \cup Ops

TypeOK ==
  /\ c \in [index : 0 .. FileLen, size : {0, FileLen}, count : 0 .. SendCount]
  /\ air \in Seq([flag : {"start", "size", "data"}, data : Seq(1 .. FileLen)])
  /\ txc \in Nat /\ notes \in Seq({"size", "data"}) /\ connected \in BOOLEAN
  /\ p \in [size : Nat, offset : 0 .. FileLen, buf : Seq(1 .. FileLen),
            mode : {"idle", "host", "deaf", "received", "slave"}, op : Ops \cup {None}]
  /\ sched \in Seq([ev : {"rsp", "size", "data"}, ok : BOOLEAN])
  /\ cb \in Answers \cup {None}
  /\ req \in Frames \cup {None} /\ n \in Frames \cup {None}
  /\ rsp \in Answers \cup {None}
  /\ bank \in [Cells -> 1 .. FileLen \cup {Blank, Mixed}]
  /\ done \in Nat /\ starts \in 0 .. MaxStarts /\ faults \in 0 .. MaxFaults

Init ==
  /\ c = [index |-> 0, size |-> 0, count |-> 0]
  /\ air = <<>> /\ txc = 0 /\ notes = <<>> /\ connected = TRUE
  /\ p = [size |-> 100, offset |-> 0, buf |-> <<>>, mode |-> "idle", op |-> None]
  /\ sched = <<>> /\ cb = None /\ req = None /\ rsp = None /\ n = None
  /\ bank \in {[k \in Cells |-> Blank], [k \in Cells |-> Mixed]}
  /\ done = 0 /\ starts = 0 /\ faults = 0

-----------------------------------------------------------------------------
(* The central.                                                             *)

\* ble_nus_c_string_send.
Writes(flag, data) == Append(air, [flag |-> flag, data |-> data])

\* Nothing goes on any more, as far as the nRF52s know: the nRF91 may still be busy
\* with a request that timed out.
Quiet ==
  /\ air = <<>> /\ txc = 0 /\ notes = <<>> /\ sched = <<>> /\ cb = None
  /\ req = None /\ p.mode = "idle"

\* bsp_event_handler, BSP_EVENT_KEY_0.
Press ==
  /\ connected /\ starts < MaxStarts /\ (Patient => Quiet)
  /\ starts' = starts + 1 /\ air' = Writes("start", <<>>) /\ txc' = txc + 1
  /\ UNCHANGED <<c, notes, connected, pVars, req, rsp, nVars, faults>>

Least(i, j) == IF i < j THEN i ELSE j

\* Mutant: whole packets are counted.
SendImgWholePackets(s, t) ==
  IF s.count = 0 \/ s.index = s.size
  THEN c' = s /\ txc' = t /\ UNCHANGED air
  ELSE /\ c' = [s EXCEPT !.index = @ + PktLen, !.count = @ - 1]
       /\ air' = Writes("data", SubSeq(File, s.index + 1, Least(s.index + PktLen, s.size)))
       /\ txc' = t + 1

\* send_img, by a central in state s with t completions to come.
SendImg(s, t) ==
  IF s.count = 0 \/ s.index = s.size
  THEN c' = s /\ txc' = t /\ UNCHANGED air
  ELSE LET len == Least(PktLen, s.size - s.index) IN
       /\ c' = [s EXCEPT !.index = @ + len, !.count = @ - 1]
       /\ air' = Writes("data", SubSeq(File, s.index + 1, s.index + len))
       /\ txc' = t + 1

\* ble_rx_handler.  The link layer acknowledged the writes that the notification
\* answers before it.
OnRequestInfo ==
  /\ Head(notes) = "size"
  /\ c' = [c EXCEPT !.index = 0, !.size = FileLen]
  /\ air' = Writes("size", <<>>) /\ txc' = txc + 1

OnSendingReady ==
  /\ Head(notes) = "data"
  /\ SendImg([c EXCEPT !.count = SendCount], txc)

CentralNotified ==
  /\ notes # <<>> /\ txc = 0
  /\ OnRequestInfo \/ OnSendingReady
  /\ notes' = Tail(notes)
  /\ UNCHANGED <<connected, starts, pVars, req, rsp, nVars, faults>>

\* Mutant: the next packet waits for a notification.
TxCompleteNoSend ==
  /\ txc > 0 /\ txc' = txc - 1
  /\ UNCHANGED <<c, air, notes, connected, starts, pVars, req, rsp, nVars, faults>>

\* BLE_GATTC_EVT_WRITE_CMD_TX_COMPLETE.
TxComplete ==
  /\ txc > 0 /\ SendImg(c, txc - 1)
  /\ UNCHANGED <<notes, connected, starts, pVars, req, rsp, nVars, faults>>

-----------------------------------------------------------------------------
(* The peripheral.                                                          *)

\* app_cmd_request by a peripheral in state s, whose result nobody looks at: the
\* request is refused unless the channel is idle.
Request(s, op, at, data) ==
  IF s.mode # "idle" THEN p' = s /\ UNCHANGED req
  ELSE /\ p' = [s EXCEPT !.mode = "host", !.op = op]
       /\ req' = [op |-> op, at |-> at, data |-> data]

Event(ev, ok) == Append(sched, [ev |-> ev, ok |-> ok])

\* Mutant: buffer_len is not reset.
FlushKeepsBuffer(s) == [s EXCEPT !.offset = @ + Len(s.buf)]

\* What on_ble_write does to the buffer when a block was passed on.
Flush(s) == [s EXCEPT !.offset = @ + Len(s.buf), !.buf = <<>>]

\* on_ble_write.
StartDfu == Head(air).flag = "start" /\ sched' = Event("size", TRUE) /\ UNCHANGED <<p, req>>

ImgSize ==
  /\ Head(air).flag = "size"
  /\ Request([p EXCEPT !.size = FileLen], "info", 0, <<>>) /\ UNCHANGED sched

\* Mutant: the offset is advanced before it is encoded.
ImgDataOffsetFirst ==
  /\ Head(air).flag = "data"
  /\ LET s == [p EXCEPT !.buf = @ \o Head(air).data]
     IN IF Len(s.buf) = Block \/ Len(s.buf) = s.size - s.offset
        THEN Request(Flush(s), "write", Flush(s).offset, s.buf)
        ELSE p' = s /\ UNCHANGED req
  /\ UNCHANGED sched

ImgData ==
  /\ Head(air).flag = "data"
  /\ LET s == [p EXCEPT !.buf = @ \o Head(air).data]
     IN IF Len(s.buf) = Block \/ Len(s.buf) = s.size - s.offset
        THEN Request(Flush(s), "write", s.offset, s.buf)
        ELSE p' = s /\ UNCHANGED req
  /\ UNCHANGED sched

OnBleWrite ==
  /\ air # <<>> /\ air' = Tail(air)
  /\ StartDfu \/ ImgSize \/ ImgData
  /\ UNCHANGED <<c, txc, notes, connected, starts, cb, rsp, nVars, faults>>

\* ble_send_req_handler: without a connection the notification is lost.
BleSendReq ==
  /\ cb = None /\ sched # <<>> /\ Head(sched).ev # "rsp"
  /\ notes' = IF connected THEN Append(notes, Head(sched).ev) ELSE notes
  /\ sched' = Tail(sched)
  /\ UNCHANGED <<c, air, txc, connected, starts, p, cb, req, rsp, nVars, faults>>

\* proc_rsp_handler frees the channel and then calls the callback.
ProcRsp ==
  /\ cb = None /\ sched # <<>> /\ Head(sched).ev = "rsp"
  /\ cb' = [op |-> p.op, ok |-> Head(sched).ok]
  /\ p' = [p EXCEPT !.mode = "idle"] /\ sched' = Tail(sched)
  /\ UNCHANGED <<cVars, req, rsp, nVars, faults>>

\* Mutant: the page with the file's end is not erased.
PagesOfFloor(size) == size \div Page

\* CEIL_DIV(m_img_size, 0x1000).
PagesOf(size) == (size + Page - 1) \div Page

\* rsp_cb_flash_info decodes whatever was answered; an answer without data makes it
\* give up or ask for the erasure.
CbFlashInfo ==
  /\ cb.op = "info" /\ UNCHANGED sched
  /\ \/ /\ cb.ok => p.size > (Pages - 1) * Page
        /\ UNCHANGED <<p, req>>
     \/ /\ cb.ok => p.size <= (Pages - 1) * Page
        /\ Request(p, "erase", PagesOf(p.size), <<>>)

CbFlashErase ==
  /\ cb.op = "erase"
  /\ sched' = IF cb.ok THEN Event("data", TRUE) ELSE sched
  /\ UNCHANGED <<p, req>>

\* rsp_cb_flash_write does not look at the answer.
CbFlashWrite ==
  IF p.offset = p.size
  THEN Request([p EXCEPT !.offset = 0], "done", p.size, <<>>) /\ UNCHANGED sched
  ELSE /\ sched' = IF p.offset > 0 THEN Event("data", TRUE) ELSE sched
       /\ UNCHANGED <<p, req>>

CbFlashDone == cb.op = "done" /\ UNCHANGED <<p, req, sched>>

Callback ==
  /\ cb # None /\ cb' = None
  /\ CbFlashInfo \/ CbFlashErase \/ (cb.op = "write" /\ CbFlashWrite) \/ CbFlashDone
  /\ UNCHANGED <<cVars, rsp, nVars, faults>>

\* A response arrives.  It is taken when the channel waits for it, refused while the
\* request is still being sent; one for another request leaves the channel deaf until
\* the timeout, and one that comes late is taken for the start of a request.
RspArrives ==
  /\ rsp # None /\ rsp' = None
  /\ \/ /\ p.mode = "host" /\ req = None /\ rsp.op = p.op
        /\ p' = [p EXCEPT !.mode = "received"] /\ sched' = Event("rsp", rsp.ok)
     \/ /\ p.mode = "host" /\ req = None /\ rsp.op # p.op
        /\ p' = [p EXCEPT !.mode = "deaf"] /\ UNCHANGED sched
     \/ /\ p.mode = "idle"
        /\ p' = [p EXCEPT !.mode = "slave"] /\ UNCHANGED sched
     \/ /\ p.mode \notin {"host", "idle"} \/ (p.mode = "host" /\ req # None)
        /\ UNCHANGED <<p, sched>>
  /\ UNCHANGED <<cVars, cb, req, nVars, faults>>

\* Its end is not that of a request: the channel is idle again.
LateRspEnds ==
  /\ p.mode = "slave" /\ p' = [p EXCEPT !.mode = "idle"]
  /\ UNCHANGED <<cVars, sched, cb, req, rsp, nVars, faults>>

\* tmr_rsp_timeout_handler calls the callback before it frees the channel, so what the
\* callback requests is refused.  The timer fires when no answer is on its way, or
\* before the nRF91 has done what it was asked for.
Late == n # None /\ n.op \in SlowOps /\ faults < MaxFaults

Timeout ==
  /\ p.mode \in {"host", "deaf"} /\ req = None /\ rsp = None
  /\ \/ n = None /\ UNCHANGED faults
     \/ Late /\ faults' = faults + 1
  /\ LET over == [p EXCEPT !.mode = "idle"] IN
     IF p.op # "write" THEN p' = over /\ UNCHANGED sched
     ELSE IF p.offset = p.size THEN p' = [over EXCEPT !.offset = 0] /\ UNCHANGED sched
     ELSE /\ p' = over
          /\ sched' = IF p.offset > 0 THEN Event("data", TRUE) ELSE sched
  /\ UNCHANGED <<cVars, cb, req, rsp, nVars>>

-----------------------------------------------------------------------------
(* The nRF91.                                                               *)

\* A request arrives; it is refused while another one is being served or answered.
ReqArrives ==
  /\ req # None /\ req' = None
  /\ n' = IF n = None /\ rsp = None THEN req ELSE n
  /\ UNCHANGED <<cVars, pVars, rsp, bank, done, faults>>

\* flash_area_erase.
Erased(count) == [k \in Cells |-> IF k < count * Page THEN Blank ELSE bank[k]]

\* flash_area_write can only clear bits.
Written(at, data) ==
  [k \in Cells |->
     IF k \notin at .. at + Len(data) - 1 THEN bank[k]
     ELSE IF bank[k] = Blank \/ bank[k] = data[k - at + 1] THEN data[k - at + 1]
     ELSE Mixed]

\* wk_proc_req_handler with the callbacks of app_flash_cmd.c.
ReqServed ==
  /\ n # None /\ n' = None
  /\ bank' = CASE n.op = "erase" -> Erased(n.at)
               [] n.op = "write" -> Written(n.at, n.data)
               [] OTHER -> bank
  /\ done' = IF n.op = "done" THEN done + 1 ELSE done
  /\ rsp' = [op |-> n.op, ok |-> TRUE]
  /\ UNCHANGED <<cVars, pVars, req, faults>>

\* The flash driver returns an error: the answer is empty.
FlashFails ==
  /\ n # None /\ n.op \in FailOps /\ faults < MaxFaults
  /\ n' = None /\ rsp' = [op |-> n.op, ok |-> FALSE] /\ faults' = faults + 1
  /\ UNCHANGED <<cVars, pVars, req, bank, done>>

LoseReq ==
  /\ req # None /\ req.op \in LoseReqOf /\ faults < MaxFaults
  /\ req' = None /\ faults' = faults + 1
  /\ UNCHANGED <<cVars, pVars, rsp, nVars>>

LoseRsp ==
  /\ rsp # None /\ rsp.op \in LoseRspOf /\ faults < MaxFaults
  /\ rsp' = None /\ faults' = faults + 1
  /\ UNCHANGED <<cVars, pVars, req, nVars>>

-----------------------------------------------------------------------------
(* The connection.                                                          *)

Disconnected ==
  /\ connected /\ faults < MaxFaults
  /\ MayDrop \/ (p.offset = 0 /\ p.buf = <<>> /\ c.index = 0)
  /\ connected' = FALSE /\ air' = <<>> /\ notes' = <<>> /\ txc' = 0 /\ faults' = faults + 1
  /\ UNCHANGED <<c, starts, pVars, req, rsp, nVars>>

Connected ==
  /\ ~connected /\ connected' = TRUE
  /\ UNCHANGED <<c, air, txc, notes, starts, pVars, req, rsp, nVars, faults>>

-----------------------------------------------------------------------------
Central == CentralNotified \/ TxComplete
Scheduler == BleSendReq \/ ProcRsp \/ Callback
Channel == RspArrives \/ LateRspEnds \/ ReqArrives \/ ReqServed
Faults == FlashFails \/ LoseReq \/ LoseRsp \/ Disconnected \/ Connected

Next == Press \/ Central \/ OnBleWrite \/ Scheduler \/ Channel \/ Timeout \/ Faults

Spec == Init /\ [][Next]_vars

\* Events, frames and the scheduler are served, the timer fires, the centre connects
\* again, and a user without a result presses the button.
FairSpec ==
  /\ Spec
  /\ WF_vars(Central) /\ WF_vars(OnBleWrite) /\ WF_vars(Scheduler)
  /\ WF_vars(Channel) /\ WF_vars(Timeout /\ n = None) /\ WF_vars(Connected)
  /\ WF_vars(Press /\ done = 0)

-----------------------------------------------------------------------------
(* Properties.                                                              *)

Holds(b) == \A i \in 1 .. FileLen : b[i - 1] = i

\* When the nRF91 is told that the transfer is done, the bank holds the whole file and
\* the size is the file's.
DoneIsWhole == [][done' > done => n.at = FileLen /\ Holds(bank)]_vars

\* Flash is written only where it was erased before: no unit keeps bits of an older
\* image.
WritesErased == \A k \in Cells : n # None /\ n.op = "write"
                  /\ k \in n.at .. n.at + Len(n.data) - 1 => bank[k] = Blank

\* m_cmd_buffer has room for a block and no more.
BufferFits == Len(p.buf) <= Block

\* A user who presses the button again whenever nothing goes on any more gets the file
\* transferred.
Transferred == <>(done > 0)
=============================================================================

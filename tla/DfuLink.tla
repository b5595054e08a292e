------------------------------ MODULE DfuLink -------------------------------
(***************************************************************************)
(* The bytes under serial DFU: the driver of the nRF91 (dfu_drv.c, slip.c  *)
(* over app_uart.c) and the transport of the bootloader                    *)
(* (nrf_dfu_serial_uart.c, slip.c of the SDK).                             *)
(*                                                                         *)
(* The driver encodes a request into the buffer that the receive interrupt *)
(* writes, byte by byte, and copies it from there into the transmit fifo;  *)
(* bytes of a late response arrive in between.  A response that was not    *)
(* read in time stays in the buffer.  The bootloader encodes a response    *)
(* into the buffer it may still be transmitting from.                      *)
(*                                                                         *)
(* An attempt is the mode check (a ping, tried three times), the ping of   *)
(* dfu_host_setup, a request with arguments and one with an answer to it:  *)
(* every form that requests and responses take.                            *)
(*                                                                         *)
(* It runs in a thread, with a bootloader that has just started, or in the *)
(* interrupt of the timer that PING_APP was not answered within (main.c).  *)
(* Then PING_APP is in the bootloader's decoder: frames of the command     *)
(* channel have no END.  In that interrupt the one of the UART is served   *)
(* only if its priority is higher.                                         *)
(***************************************************************************)
EXTENDS Naturals, Sequences, SequencesExt

CONSTANTS
  Contexts,   \* where attempts run: in a thread, in the timer's interrupt ("isr"),
              \* or there with the UART's nested in it ("nested")
  StartIds,   \* ping_id when the attempt begins
  DataBytes,  \* bytes that arguments and answers are made of
  DataLen,    \* bytes in an argument or an answer
  PoolSize,   \* DFU_BUFF_SIZE
  MaxLost,    \* bound: bytes lost on the line
  MaxLate     \* bound: waits given up although the answer is on its way

END == 192
ESC == 219
ESC_END == 220
ESC_ESC == 221
CREATE == 1
CRC_GET == 3
PING == 9
RESPONSE == 96
SUCCESS == 1
NOT_SUPPORTED == 2
Byte == 0 .. 255
\* The frames that button 2 may send, CMD_OP_PING_APP and CMD_OP_ENTER_BL.
PingApp == <<89, 1, 0, 50, 33, 33>>
EnterBl == <<89, 1, 0, 49, 66, 17>>
\* What the bootloader sees of one when it starts to listen after its first k bytes.
Rest(f, k) == SubSeq(f, k + 1, 6)
Strays == {Rest(f, k) : f \in {PingApp, EnterBl}, k \in 0 .. 5}

ASSUME DfuLinkAssumption ==
  /\ Contexts \subseteq {"thread", "isr", "nested"}
  /\ StartIds \subseteq Byte /\ DataBytes \subseteq Byte /\ DataLen \in Nat \ {0}
  /\ PoolSize \in Nat \ 0 .. 5 /\ MaxLost \in Nat /\ MaxLate \in Nat

VARIABLES
  ctx,        \* the context of the attempt
  pc, stage,  \* what the host does, and for which request of the attempt
  tries,      \* pings left of the mode check
  id,         \* ping_id
  req,        \* the request of the caller (send_data)
  from, to,   \* bytes of it encoded or copied, bytes written or to copy
  pool,       \* the memory that m_dfu_buff and m_rx_buff share
  rxLen, len, \* m_rx_buff.length, m_dfu_buff.length
  ready,      \* slip_pkt_ready
  out,        \* the request on its way to the nRF52
  slip,       \* the decoder of the bootloader: buffer, current_index, state
  todo,       \* requests in its scheduler
  rsp,        \* m_rsp_buf: encoded response, bytes sent and to send
  given,      \* history: the last response the bootloader made
  verdict,    \* history: how the attempt ended
  lost, late, \* history: bytes lost, waits given up too early
  bare,       \* history: an escape byte of a response was lost
  stray       \* history: bytes of a command frame went to the bootloader

hostVars == <<pc, stage, tries, id, req, from, to>>
rxVars == <<pool, rxLen, len, ready>>
bootVars == <<slip, todo, rsp, given>>
history == <<verdict, lost, late, bare, stray>>
vars == <<ctx, hostVars, rxVars, out, bootVars, history>>

Data == [1 .. DataLen -> DataBytes]

-----------------------------------------------------------------------------
(* SLIP.                                                                    *)

\* Mutant: an escape byte in the data is not escaped itself.
CodeKeepsEsc(b) == IF b = END THEN <<ESC, ESC_END>> ELSE <<b>>

\* What a byte is encoded as.
Code(b) == CASE b = END -> <<ESC, ESC_END>>
             [] b = ESC -> <<ESC, ESC_ESC>>
             [] OTHER   -> <<b>>

\* slip_encode of the SDK; encode_slip is the same, a byte at a time (Encode).
Encoded(s) == FlattenSeq([k \in 1 .. Len(s) |-> Code(s[k])]) \o <<END>>

\* One round of decode_slip.  An escape before an ordinary byte stays pending and
\* applies to the next special one.
Decode1(d, b) ==
  IF d.done THEN d ELSE
  CASE b = END       -> [d EXCEPT !.done = TRUE]
    [] b = ESC       -> IF d.esc THEN [d EXCEPT !.done = TRUE] ELSE [d EXCEPT !.esc = TRUE]
    [] b = ESC_END   -> [d EXCEPT !.esc = FALSE, !.data = Append(@, IF d.esc THEN END ELSE b)]
    [] b = ESC_ESC   -> [d EXCEPT !.esc = FALSE, !.data = Append(@, IF d.esc THEN ESC ELSE b)]
    [] OTHER         -> [d EXCEPT !.data = Append(@, b)]

\* decode_slip; dfu_drv_rx ignores its result code.
Decoded(s) == FoldLeft(Decode1, [data |-> <<>>, esc |-> FALSE, done |-> FALSE], s).data

\* p with the bytes of s written over it after the first k.
Overlay(p, k, s) == [x \in 1 .. Len(p) |-> IF x \in k + 1 .. k + Len(s) THEN s[x - k] ELSE p[x]]

-----------------------------------------------------------------------------
(* The host.                                                                *)

TypeOK ==
  /\ ctx \in Contexts
  /\ pc \in {"idle", "encode", "copy", "wait", "read", "over"}
  /\ stage \in {"check", "setup", "create", "crc"}
  /\ tries \in 0 .. 3 /\ id \in Byte /\ req \in Seq(Byte)
  /\ pool \in [1 .. PoolSize -> Byte]
  /\ from \in 0 .. PoolSize /\ to \in 0 .. PoolSize
  /\ rxLen \in 0 .. PoolSize /\ len \in 0 .. PoolSize /\ ready \in BOOLEAN
  /\ out \in Seq(Byte)
  /\ slip \in [buf : [1 .. PoolSize -> Byte], at : 0 .. PoolSize,
               state : {"decoding", "escaped", "clearing"}]
  /\ todo \in Seq([op : Byte, arg : Byte, whole : Seq(Byte)])
  /\ rsp \in [buf : Seq(Byte), at : 0 .. PoolSize, len : 0 .. PoolSize]
  /\ rsp.at <= rsp.len /\ rsp.len <= Len(rsp.buf)
  /\ verdict \in {"none", "ok", "absent", "fail"}
  /\ lost \in 0 .. MaxLost /\ late \in 0 .. MaxLate
  /\ bare \in BOOLEAN /\ stray \in BOOLEAN

Zeros == [x \in 1 .. PoolSize |-> 0]

\* In the interrupt of the timer PING_APP was sent ten seconds ago.
Init ==
  /\ ctx \in Contexts /\ stray = (ctx # "thread")
  /\ slip = IF stray THEN [buf |-> Overlay(Zeros, 0, PingApp), at |-> 6, state |-> "decoding"]
            ELSE [buf |-> Zeros, at |-> 0, state |-> "decoding"]
  /\ pc = "idle" /\ stage = "check" /\ tries = 0 /\ id \in StartIds /\ req = <<>>
  /\ from = 0 /\ to = 0
  /\ pool = Zeros /\ rxLen = 0 /\ len = 0 /\ ready = FALSE
  /\ out = <<>>
  /\ todo = <<>> /\ rsp = [buf |-> <<>>, at |-> 0, len |-> 0] /\ given = <<>>
  /\ verdict = "none" /\ lost = 0 /\ late = 0 /\ bare = FALSE

\* The interrupt of the UART is served, in which bytes are sent and received.
Served == ctx # "isr"

\* dfu_drv_tx is called with request r.
Send(s, r) == pc' = "encode" /\ stage' = s /\ req' = r /\ from' = 0 /\ to' = 0

\* dfu_drv_init, then the first ping of dfu_host_bl_mode_check.
Start ==
  /\ pc = "idle" /\ verdict = "none" /\ out = <<>>
  /\ Send("check", <<PING, id>>) /\ id' = (id + 1) % 256 /\ tries' = 3
  /\ UNCHANGED <<rxVars, out, bootVars, history>>

\* One round of encode_slip, or its end.
Encode ==
  /\ pc = "encode"
  /\ IF from < Len(req)
     THEN LET c == Code(req[from + 1]) IN
          /\ pool' = Overlay(pool, to, c) /\ to' = to + Len(c) /\ from' = from + 1
          /\ UNCHANGED pc
     ELSE /\ pool' = Overlay(pool, to, <<END>>) /\ to' = to + 1 /\ from' = 0
          /\ pc' = "copy"
  /\ UNCHANGED <<stage, tries, id, req, rxLen, len, ready, out, bootVars, history>>

\* memcpy of uart_send_asyn; when all is copied the interrupt sends it.
Copy ==
  /\ pc = "copy"
  /\ out' = Append(out, pool[from + 1]) /\ from' = from + 1
  /\ pc' = IF from + 1 = to THEN "wait" ELSE "copy"
  /\ UNCHANGED <<stage, tries, id, req, to, rxVars, bootVars, history>>

\* button2_pressed_handler while the channel is free, or the answer to its PING_APP that
\* the application gives before it restarts: the frame goes out in front of the next
\* request.  The mode of the channel refuses a second one.
Press ==
  /\ ctx = "thread" /\ ~stray /\ stray' = TRUE
  /\ \/ /\ pc = "idle"
        /\ \E f \in {PingApp, EnterBl}, k \in 0 .. 5 : out' = out \o Rest(f, k)
     \/ pc \in {"encode", "wait", "read"} /\ out' = out \o PingApp
  /\ UNCHANGED <<hostVars, rxVars, bootVars, verdict, lost, late, bare>>

\* The attempt is over.
Over(v) == pc' = "over" /\ verdict' = v /\ UNCHANGED <<stage, tries, id, req, from, to>>

\* Mutant: the mode check is over after a ping that fails.
FailedOnce == IF stage = "check" THEN Over("absent") ELSE Over("fail")

\* Mutant: the mode check does not count its pings.
FailedForever ==
  IF stage # "check" THEN Over("fail")
  ELSE /\ Send("check", <<PING, id>>) /\ id' = (id + 1) % 256 /\ tries' = tries - 1
       /\ UNCHANGED verdict

\* The request failed: the mode check tries its ping three times.
Failed ==
  IF stage # "check" THEN Over("fail")
  ELSE IF tries = 1 THEN Over("absent")
  ELSE /\ Send("check", <<PING, id>>) /\ id' = (id + 1) % 256 /\ tries' = tries - 1
       /\ UNCHANGED verdict

\* The request succeeded.
Succeeded ==
  CASE stage = "check" ->
         LET n == (id + 1) % 256 IN
         Send("setup", <<PING, n>>) /\ id' = n /\ UNCHANGED <<tries, verdict>>
    [] stage = "setup" ->
         /\ \E d \in Data : Send("create", <<CREATE>> \o d)
         /\ UNCHANGED <<tries, id, verdict>>
    [] stage = "create" -> Send("crc", <<CRC_GET>>) /\ UNCHANGED <<tries, id, verdict>>
    [] stage = "crc" -> Over("ok")

\* Mutant: the id of a ping is not compared.
AcceptsAnyId(p) == Len(p) >= 3 /\ p[1] = RESPONSE /\ p[2] = req[1] /\ p[3] = SUCCESS

\* get_rsp, and the checks of req_ping and req_get_crc.
Accepts(p) ==
  /\ Len(p) >= 3 /\ p[1] = RESPONSE /\ p[2] = req[1] /\ p[3] = SUCCESS
  /\ req[1] = PING => Len(p) = 4 /\ p[4] = req[2]
  /\ req[1] = CRC_GET => Len(p) = 3 + DataLen

Packet == Decoded(SubSeq(pool, 1, len))

\* dfu_drv_rx finds a packet: decodes it and resets both lengths.
Read ==
  /\ pc = "wait" /\ ready
  /\ pc' = "read" /\ req' = IF Accepts(Packet) THEN req ELSE <<>>
  /\ rxLen' = 0 /\ len' = 0
  /\ UNCHANGED <<stage, tries, id, from, to, pool, ready, out, bootVars, history>>

\* slip_pkt_ready is cleared, and the caller looks at the response.
Return ==
  /\ pc = "read" /\ ready' = FALSE
  /\ IF req = <<>> THEN Failed ELSE Succeeded
  /\ UNCHANGED <<pool, rxLen, len, out, bootVars, lost, late, bare, stray>>

\* Nothing is on its way to the host any more.
Quiet == ~ready /\ out = <<>> /\ todo = <<>> /\ rsp.at = rsp.len

\* DFU_RX_MAX_DELAY has passed.
Timeout ==
  /\ pc = "wait"
  /\ \/ (Quiet \/ ~Served) /\ UNCHANGED late
     \/ ~Quiet /\ Served /\ late < MaxLate /\ late' = late + 1
  /\ Failed
  /\ UNCHANGED <<rxVars, out, bootVars, lost, bare, stray>>

\* rx_handler and rx_ready_handler.
RxByte ==
  /\ Served /\ rsp.at < rsp.len /\ rxLen < PoolSize
  /\ rsp' = [rsp EXCEPT !.at = @ + 1]
  /\ LET b == rsp.buf[rsp.at + 1] IN
     /\ pool' = [pool EXCEPT ![rxLen + 1] = b] /\ rxLen' = rxLen + 1
     /\ IF ready THEN UNCHANGED <<len, ready>>
                 ELSE len' = rxLen + 1 /\ ready' = (b = END)
  /\ UNCHANGED <<hostVars, out, slip, todo, given, history>>

-----------------------------------------------------------------------------
(* The bootloader.                                                          *)

\* A byte goes into the decoder's buffer.
Put(b) == slip' = [buf |-> [slip.buf EXCEPT ![slip.at + 1] = b], at |-> slip.at + 1,
                   state |-> "decoding"]
Become(s) == slip' = [slip EXCEPT !.state = s]

\* on_rx_complete: slip_decode_add_byte; a whole packet goes to the scheduler, which
\* finds what an earlier packet left behind where this one is too short.  The buffer
\* is freed and allocated again.
BootByte ==
  /\ Served /\ pc # "copy" /\ out # <<>> /\ out' = Tail(out)
  /\ LET b == Head(out) IN
     CASE slip.state = "decoding" /\ b = END ->
            /\ todo' = Append(todo, [op |-> slip.buf[1], arg |-> slip.buf[2],
                                     whole |-> SubSeq(slip.buf, 1, slip.at)])
            /\ slip' = [slip EXCEPT !.at = 0]
       [] slip.state = "decoding" /\ b = ESC -> Become("escaped") /\ UNCHANGED todo
       [] slip.state = "decoding" /\ b \notin {END, ESC} -> Put(b) /\ UNCHANGED todo
       [] slip.state = "escaped" /\ b = ESC_END -> Put(END) /\ UNCHANGED todo
       [] slip.state = "escaped" /\ b = ESC_ESC -> Put(ESC) /\ UNCHANGED todo
       [] slip.state = "escaped" /\ b \notin {ESC_END, ESC_ESC} ->
            Become("clearing") /\ UNCHANGED todo
       [] slip.state = "clearing" ->
            /\ slip' = IF b = END THEN [slip EXCEPT !.at = 0, !.state = "decoding"] ELSE slip
            /\ UNCHANGED todo
  /\ UNCHANGED <<hostVars, rxVars, rsp, given, history>>

\* Responses the request handler may give to request r.
Responses(r) ==
  CASE r.op = PING    -> {<<RESPONSE, PING, SUCCESS, r.arg>>}
    [] r.op = CREATE  -> {<<RESPONSE, CREATE, SUCCESS>>}
    [] r.op = CRC_GET -> {<<RESPONSE, CRC_GET, SUCCESS>> \o d : d \in Data}
    [] OTHER          -> {<<RESPONSE, r.op, NOT_SUPPORTED>>}

\* response_send, rsp_send: the response is encoded into m_rsp_buf before the UART
\* says whether it is still sending from there.
Answer ==
  /\ todo # <<>> /\ todo' = Tail(todo)
  /\ \E p \in Responses(Head(todo)) :
       LET e == Encoded(p) IN
       /\ given' = p
       /\ IF rsp.at = rsp.len
          THEN rsp' = [buf |-> e, at |-> 0, len |-> Len(e)]
          ELSE rsp' = [rsp EXCEPT !.buf = e \o SubSeq(@, Len(e) + 1, Len(@))]
  /\ UNCHANGED <<hostVars, rxVars, out, slip, history>>

\* The line loses a byte, to either side.
LoseByte ==
  /\ Served /\ lost < MaxLost /\ lost' = lost + 1
  /\ \/ /\ pc # "copy" /\ out # <<>> /\ out' = Tail(out) /\ UNCHANGED <<rsp, bare>>
     \/ /\ rsp.at < rsp.len /\ rsp' = [rsp EXCEPT !.at = @ + 1]
        /\ bare' = (bare \/ rsp.buf[rsp.at + 1] = ESC)
        /\ UNCHANGED out
  /\ UNCHANGED <<hostVars, rxVars, slip, todo, given, verdict, late, stray>>

Next ==
  /\ \/ Start \/ Encode \/ Copy \/ Press \/ Read \/ Return \/ Timeout \/ RxByte
     \/ BootByte \/ Answer \/ LoseByte
  /\ UNCHANGED ctx

Spec == Init /\ [][Next]_vars

-----------------------------------------------------------------------------
(* Properties.                                                              *)

\* Whatever is in the shared buffer, a response that the host accepts is the whole
\* last response of the bootloader, never one mixed with a request, with the rest of
\* a late response or with the next response, unless the line lost an escape byte.  With a
\* late answer or a second lost byte this rests on the bytes: a ping that lost its id, or
\* whose bytes a late response overwrote, may be answered with the id of the next ping.
AcceptedIsGiven == pc = "wait" /\ ready /\ Accepts(Packet) => Packet = given \/ bare

\* As long as nothing is lost and no wait is given up too early, what the bootloader
\* decodes is the request the host sent, whatever bytes it is made of, after a command
\* frame or the rest of one if button 2 sent it.
RequestIntact ==
  lost = 0 /\ late = 0 =>
    \A k \in 1 .. Len(todo) :
      \/ todo[k].whole = req
      \/ stray /\ \E g \in Strays : todo[k].whole = g \o req

\* The mode check does what its three tries are for: where the UART is served, it never
\* takes a bootloader that answers in time for absent because of one lost byte, or of a
\* command frame before its first ping.  A transfer that nothing disturbed does not
\* fail; the frame that waits for an attempt in the timer's interrupt does not disturb it.
FaultsSurvived ==
  /\ verdict = "absent" => ~Served \/ lost > 1 \/ (stray /\ lost > 0) \/ late > 0
  /\ verdict = "fail" => lost > 0 \/ late > 0 \/ (stray /\ ctx = "thread")

\* main.c: "Response is timeout, which means 52 chip is in bootloader mode", and serial
\* DFU is done with it: the mode check finds a bootloader that is there.
BootloaderFound == verdict = "absent" => lost > 0 \/ late > 0
=============================================================================

----------------------------- MODULE SerialDfu ------------------------------
(***************************************************************************)
(* Serial DFU: the nRF91 (dfu_host.c) updates the nRF52 through the        *)
(* bootloader of the SDK (nrf_dfu_req_handler.c, nrf_dfu_validation.c).    *)
(* The host sends one request at a time and waits at most a second for the *)
(* response; data is written without responses and checked by its CRC.     *)
(* Requests and responses may be lost, writes damaged, answers late, and   *)
(* either chip may restart.  An attempt resumes where the bootloader says  *)
(* the last one stopped.                                                   *)
(*                                                                         *)
(* Button 2 sends PING_APP.  An application that answers is told to enter  *)
(* its bootloader, and the attempt runs in a thread.  When nothing answers *)
(* within ten seconds the attempt runs in the interrupt of the timer that  *)
(* says so (main.c), where the interrupt of the UART can do its part only  *)
(* if its priority is higher.                                              *)
(*                                                                         *)
(* Bytes are counted in units.  Content of a file is represented by its    *)
(* length and the file it is a prefix of, or Junk: two contents have the   *)
(* same CRC exactly when they are equal.                                   *)
(***************************************************************************)
EXTENDS Integers, Sequences

CONSTANTS
  Files,       \* firmware packages for the nRF52
  FwSize,      \* units in an image
  IpSize,      \* units in an init packet
  PageSize,    \* DATA_OBJECT_MAX_SIZE, one flash page
  ChunkSize,   \* units in one write request
  None, Junk,  \* no content; content that belongs to no file
  Slow,        \* the bootloader may answer after the host's second
  Nested,      \* the UART's interrupt is served inside the timer's
  MaxFaults,   \* bound: losses, damages and late answers
  MaxCrashes   \* bound: restarts of the nRF91, and of the nRF52 in mid-attempt

ASSUME DfuAssumption ==
  /\ FwSize \in Nat \ {0} /\ IpSize \in Nat \ {0} /\ PageSize \in Nat \ {0}
  /\ ChunkSize \in Nat \ {0}
  /\ None \notin Files /\ Junk \notin Files /\ None # Junk
  /\ Slow \in BOOLEAN /\ Nested \in BOOLEAN /\ MaxFaults \in Nat /\ MaxCrashes \in Nat

Parts   == {"ip", "fw"}                       \* object types 1 and 2
Content == [len : Nat, of : Files \cup {None, Junk}]
Empty   == [len |-> 0, of |-> None]

\* s_dfu_settings.progress: the init packet, the data object being received,
\* what was executed of the image (.._last) and what was received of it.
Progress == [cmdSize : Nat, cmd : Content, objSize : Nat, last : Content, img : Content]
NoProgress == [cmdSize |-> 0, cmd |-> Empty, objSize |-> 0, last |-> Empty, img |-> Empty]

Request  == [op : {"ping", "prn", "mtu", "select", "create", "write", "crc", "exec"},
             part : Parts, of : Files, from : Nat, n : Nat, stale : BOOLEAN]
Response == [op : {"ping", "prn", "mtu", "select", "create", "crc", "exec"},
             ok : BOOLEAN, content : Content, stale : BOOLEAN]

VARIABLES
  pc, part,            \* the host's next request, and the object it is for
  file,                \* the package in the nRF91's flash
  wait,                \* the request is sent and the host waits
  tries,               \* pings left in dfu_host_bl_mode_check
  rec,                 \* inside try_recover_ip or try_recover_fw
  pos, sent, upto,     \* offset of the object, of the next write, end of the writes
  req, rsp,            \* requests and responses on the line
  mode,                \* what the nRF52 runs: "dfu" (bootloader) or "app"
  prog, valid, target, \* the settings in RAM, m_valid_init_cmd_present, and the
                       \* file that m_firmware_size_req was read from
  obj,                 \* current_object of nrf_dfu_obj_op
  saved,               \* the settings in flash
  flash,               \* the file each unit of bank 1 was written from
  installed,           \* the image the bootloader activated last
  result,              \* history: outcome of the last attempt
  hurt,                \* history: something went wrong on the line or a chip
                       \* restarted since the attempt began
  crossed,             \* history: a late answer was taken for another request's
  faults, crashes

host == <<pc, part, file, wait, tries, rec, pos, sent, upto>>
line == <<req, rsp>>
boot == <<mode, prog, valid, target, obj, saved, flash, installed>>
hist == <<result, hurt, crossed>>
bounds == <<faults, crashes>>
vars == <<host, line, boot, hist, bounds>>

Units == 1 .. FwSize
Erased == [k \in Units |-> None]
SizeOf(p) == IF p = "ip" THEN IpSize ELSE FwSize
Least(a, b) == IF a < b THEN a ELSE b

\* Size of the object that starts at pos.
ObjectSize == Least(SizeOf(part) - pos, IF part = "ip" THEN IpSize ELSE PageSize)

TypeOK ==
  /\ pc \in {"idle", "check", "ping", "prn", "mtu", "select", "create", "write",
             "crc", "exec"}
  /\ part \in Parts /\ file \in Files /\ wait \in BOOLEAN /\ tries \in 0 .. 3
  /\ rec \in BOOLEAN /\ pos \in Nat /\ sent \in Nat /\ upto \in Nat
  /\ req \in Seq(Request) /\ rsp \in Seq(Response)
  /\ mode \in {"dfu", "app"}
  /\ prog \in Progress /\ saved \in Progress
  /\ valid \in BOOLEAN /\ target \in Files \cup {None} /\ obj \in Parts
  /\ flash \in [Units -> Files \cup {None, Junk}]
  /\ installed \in Files \cup {None}
  /\ result \in {"none", "absent", "deaf", "ok", "fail"} /\ hurt \in BOOLEAN
  /\ crossed \in BOOLEAN
  /\ faults \in 0 .. MaxFaults /\ crashes \in 0 .. MaxCrashes

\* The nRF52 is in its bootloader, nothing was transferred yet.
Init ==
  /\ pc = "idle" /\ part = "ip" /\ file \in Files /\ wait = FALSE /\ tries = 0
  /\ rec = FALSE /\ pos = 0 /\ sent = 0 /\ upto = 0
  /\ req = <<>> /\ rsp = <<>>
  /\ mode = "dfu" /\ prog = NoProgress /\ valid = FALSE /\ target = None
  /\ obj = "ip" /\ saved = NoProgress /\ flash = Erased /\ installed = None
  /\ result = "none" /\ hurt = FALSE /\ crossed = FALSE
  /\ faults = 0 /\ crashes = 0

-----------------------------------------------------------------------------
(* The host.                                                                *)

\* Requests and responses the host no longer waits for.
Abandoned(q) == [i \in DOMAIN q |-> [q[i] EXCEPT !.stale = TRUE]]

\* The attempt is over; app_cmd_init takes the UART back.
End(r) ==
  /\ pc' = "idle" /\ wait' = FALSE /\ result' = r
  /\ UNCHANGED <<part, file, tries, rec, pos, sent, upto>>

\* The next request is for object p.
Goto(next, p) == pc' = next /\ part' = p /\ wait' = FALSE

\* stream_data_crc over the units from a up to b.
Stream(a, b) == pc' = "write" /\ sent' = a /\ upto' = b /\ wait' = FALSE

Fault == faults < MaxFaults /\ faults' = faults + 1 /\ hurt' = TRUE

\* do_serial_dfu begins: dfu_drv_init, then dfu_host_bl_mode_check with t pings.
Begin(f, t) ==
  /\ file' = f /\ pc' = "check" /\ wait' = FALSE /\ tries' = t
  /\ part' = "ip" /\ rec' = FALSE /\ pos' = 0 /\ sent' = 0 /\ upto' = 0
  /\ req' = Abandoned(req) /\ rsp' = <<>> /\ result' = "none"
  /\ UNCHANGED <<crossed, crashes>>

\* The nRF52 restarts into its bootloader, which reads its settings from flash.
Boots ==
  /\ mode' = "dfu" /\ obj' = "ip"
  /\ prog' = saved /\ valid' = (saved.cmdSize # 0)
  /\ target' = IF saved.cmdSize # 0 THEN saved.cmd.of ELSE None
  /\ UNCHANGED <<saved, flash, installed>>

\* The application answered PING_APP and is told to enter its bootloader; the
\* attempt starts also when ENTER_BL was lost and nothing answered it.
StartInThread(f) ==
  /\ pc = "idle" /\ mode = "app" /\ req = <<>> /\ Begin(f, 3)
  /\ \/ Boots /\ hurt' = FALSE /\ UNCHANGED faults
     \/ Fault /\ UNCHANGED boot

\* PING_APP is not answered: the nRF52 runs its bootloader, or a frame was lost.
\* Attempts are seconds apart: only a slow bootloader still has requests of the
\* last one.
NoApplication ==
  /\ pc = "idle" /\ (Slow \/ req = <<>>)
  /\ \/ mode = "dfu" /\ hurt' = FALSE /\ UNCHANGED faults
     \/ mode = "app" /\ Fault

\* The attempt runs in the timer's interrupt.  The bootloader's decoder has the
\* bytes of PING_APP: the first ping ends their frame and is lost with it.
StartInTimer(f) == Nested /\ NoApplication /\ Begin(f, 2) /\ UNCHANGED boot

\* The same without the UART's interrupt: no byte moves in either direction, the
\* pings of the mode check time out and the attempt is over.
DeafInTimer ==
  /\ ~Nested /\ NoApplication /\ result' = "deaf"
  /\ UNCHANGED <<host, line, boot, crossed, crashes>>

\* Any request but a write: send_raw, then dfu_drv_rx.
HostSend ==
  /\ pc \notin {"idle", "write"} /\ ~wait /\ wait' = TRUE
  /\ req' = Append(req,
       [op |-> IF pc = "check" THEN "ping" ELSE pc, part |-> part, of |-> file,
        from |-> 0, n |-> IF pc = "create" THEN ObjectSize ELSE 0, stale |-> FALSE])
  /\ UNCHANGED <<pc, part, file, tries, rec, pos, sent, upto, rsp, boot, hist, bounds>>

\* One round of stream_data's loop.
HostWrite ==
  /\ pc = "write"
  /\ LET n == Least(upto - sent, ChunkSize) IN
     /\ req' = Append(req, [op |-> "write", part |-> part, of |-> file,
                            from |-> sent, n |-> n, stale |-> FALSE])
     /\ sent' = sent + n
     /\ pc' = IF sent + n = upto THEN "crc" ELSE "write"
  /\ UNCHANGED <<part, file, wait, tries, rec, pos, upto, rsp, boot, hist, bounds>>

\* Mutant: the pings of the mode check are not counted.
HostGivesUpNever ==
  /\ req' = Abandoned(req)
  /\ IF pc # "check" THEN End("fail")
     ELSE wait' = FALSE /\ UNCHANGED <<pc, part, file, tries, rec, pos, sent, upto, result>>

\* A failed request: a ping of the mode check is tried again, anything else ends
\* the attempt.
HostGivesUp ==
  /\ req' = Abandoned(req)
  /\ IF pc # "check" THEN End("fail")
     ELSE IF tries > 1
          THEN /\ tries' = tries - 1 /\ wait' = FALSE
               /\ UNCHANGED <<pc, part, file, rec, pos, sent, upto, result>>
          ELSE End("absent")

\* The loop of dfu_host_send_fw at offset a.
SendFwFrom(a) ==
  /\ pos' = a /\ rec' = FALSE /\ UNCHANGED <<file, tries, sent, upto>>
  /\ IF a >= FwSize
     THEN pc' = "idle" /\ wait' = FALSE /\ result' = "ok" /\ UNCHANGED part
     ELSE Goto("create", "fw") /\ UNCHANGED result

\* Mutant: an init packet is resumed without looking at its CRC.
ResumeIpBlindly(c) ==
  IF c.len = IpSize
  THEN Goto("exec", "ip") /\ rec' = TRUE /\ UNCHANGED <<pos, sent, upto>>
  ELSE IF c.len > 0
       THEN Stream(c.len, IpSize) /\ rec' = TRUE /\ UNCHANGED <<part, pos>>
       ELSE Goto("create", "ip") /\ rec' = FALSE /\ pos' = 0 /\ UNCHANGED <<sent, upto>>

\* try_recover_ip: the init packet the bootloader has is kept when it is this one.
ResumeIp(c) ==
  IF c.len \in 1 .. IpSize /\ c.of = file
  THEN /\ rec' = TRUE
       /\ IF c.len < IpSize
          THEN Stream(c.len, IpSize) /\ UNCHANGED <<part, pos>>
          ELSE Goto("exec", "ip") /\ UNCHANGED <<pos, sent, upto>>
  ELSE Goto("create", "ip") /\ rec' = FALSE /\ pos' = 0 /\ UNCHANGED <<sent, upto>>

\* Mutant: a damaged object is always taken for a whole page.
ResumeFwWholePage(c) ==
  LET rest == c.len % PageSize IN
  CASE c.len > FwSize -> End("fail")
    [] c.len = 0 -> SendFwFrom(0)
    [] c.len \in 1 .. FwSize /\ c.of # file -> SendFwFrom(c.len - PageSize)
    [] OTHER ->
         /\ rec' = TRUE /\ UNCHANGED <<file, tries, result>>
         /\ IF rest > 0
            THEN /\ Stream(c.len, c.len + PageSize - rest)
                 /\ pos' = c.len - rest /\ UNCHANGED part
            ELSE Goto("exec", "fw") /\ upto' = c.len /\ UNCHANGED <<pos, sent>>

\* try_recover_fw: the object the bootloader is in the middle of is completed, or
\* sent again when its CRC is wrong; an object that is complete is executed.  What
\* is left of the last page may be more than what is left of the file.
ResumeFw(c) ==
  LET rest == c.len % PageSize IN
  CASE c.len > FwSize -> End("fail")
    [] c.len = 0 -> SendFwFrom(0)
    [] c.len \in 1 .. FwSize /\ c.of # file ->
         SendFwFrom(c.len - IF rest > 0 THEN rest ELSE PageSize)
    [] OTHER ->
         /\ rec' = TRUE /\ UNCHANGED <<file, tries, result>>
         /\ IF rest > 0
            THEN /\ Stream(c.len, c.len + PageSize - rest)
                 /\ pos' = c.len - rest /\ UNCHANGED part
            ELSE Goto("exec", "fw") /\ upto' = c.len /\ UNCHANGED <<pos, sent>>

\* Mutant: only the offset is compared.
CrcMatchesOffset(c) == c.len = upto

\* stream_data_crc: offset and CRC are those of the file up to here.
CrcMatches(c) == c.len = upto /\ c.of = file

\* Mutant: any ping response is good enough.
AnswersAnyPing(r) == r.ok /\ r.op = IF pc = "check" THEN "ping" ELSE pc

\* Mutant: the result code is not looked at.
AnswersAnyResult(r) ==
  /\ r.op = IF pc = "check" THEN "ping" ELSE pc
  /\ r.op = "ping" => ~r.stale

\* get_rsp compares the op code and the result; a ping also carries a number that
\* no other ping on the line has.
Answers(r) ==
  /\ r.op = IF pc = "check" THEN "ping" ELSE pc
  /\ r.ok
  /\ r.op = "ping" => ~r.stale

\* What the host does with a response it accepts.
HostGoesOn(c) ==
  CASE pc = "check" -> Goto("ping", "ip") /\ UNCHANGED <<file, tries, rec, pos, sent, upto, result>>
    [] pc = "ping"  -> Goto("prn", "ip") /\ UNCHANGED <<file, tries, rec, pos, sent, upto, result>>
    [] pc = "prn"   -> Goto("mtu", "ip") /\ UNCHANGED <<file, tries, rec, pos, sent, upto, result>>
    [] pc = "mtu"   -> Goto("select", "ip") /\ UNCHANGED <<file, tries, rec, pos, sent, upto, result>>
    [] pc = "select" /\ part = "ip" -> ResumeIp(c) /\ UNCHANGED <<file, tries, result>>
    [] pc = "select" /\ part = "fw" -> ResumeFw(c)
    [] pc = "create" ->
         /\ Stream(pos, pos + ObjectSize)
         /\ UNCHANGED <<part, file, tries, rec, pos, result>>
    [] pc = "crc" /\ CrcMatches(c) ->
         Goto("exec", part) /\ UNCHANGED <<file, tries, rec, pos, sent, upto, result>>
    [] pc = "crc" /\ ~CrcMatches(c) /\ ~rec -> End("fail")
    [] pc = "crc" /\ ~CrcMatches(c) /\ rec ->
         Goto("create", part) /\ rec' = FALSE /\ UNCHANGED <<file, tries, pos, sent, upto, result>>
    [] pc = "exec" /\ part = "ip" ->
         Goto("select", "fw") /\ rec' = FALSE /\ UNCHANGED <<file, tries, pos, sent, upto, result>>
    [] pc = "exec" /\ part = "fw" -> SendFwFrom(upto)

HostReceive ==
  /\ wait /\ rsp # <<>>
  /\ LET r == Head(rsp) IN
     IF Answers(r)
     THEN /\ HostGoesOn(r.content) /\ crossed' = (crossed \/ r.stale)
          /\ rsp' = Tail(rsp) /\ UNCHANGED req
     ELSE HostGivesUp /\ rsp' = Abandoned(Tail(rsp)) /\ UNCHANGED crossed
  /\ UNCHANGED <<boot, hurt, bounds>>

\* A second without a response: it was lost, or the bootloader is slow.
HostTimeout ==
  /\ wait /\ rsp = <<>>
  /\ \/ req = <<>> /\ UNCHANGED <<hurt, faults>>
     \/ Slow /\ req # <<>> /\ faults < MaxFaults /\ faults' = faults + 1 /\ hurt' = TRUE
  /\ HostGivesUp
  /\ UNCHANGED <<rsp, boot, crossed, crashes>>

\* The nRF91 restarts in the middle of an attempt.
HostCrash ==
  /\ pc # "idle" /\ crashes < MaxCrashes /\ crashes' = crashes + 1
  /\ pc' = "idle" /\ wait' = FALSE /\ hurt' = TRUE
  /\ req' = Abandoned(req) /\ rsp' = <<>>
  /\ UNCHANGED <<part, file, tries, rec, pos, sent, upto, boot, result, crossed, faults>>

-----------------------------------------------------------------------------
(* The bootloader handles requests in the order they arrive.                *)

\* The host hears responses only while it runs serial DFU.
Reply(r, ok, c) ==
  rsp' = IF pc = "idle" THEN rsp
         ELSE Append(rsp, [op |-> r.op, ok |-> ok, content |-> c, stale |-> r.stale])

Take(r) == /\ mode = "dfu" /\ req # <<>> /\ r = Head(req) /\ req' = Tail(req)
           /\ UNCHANGED <<host, hist, bounds>>

\* Ping, receipt notification, MTU: nothing that lasts.
BlSetup(r) ==
  /\ r.op \in {"ping", "prn", "mtu"} /\ Take(r) /\ Reply(r, TRUE, Empty)
  /\ UNCHANGED boot

Received(p) == IF p = "ip" THEN prog.cmd ELSE prog.img

BlSelect(r) ==
  /\ r.op = "select" /\ Take(r) /\ Reply(r, TRUE, Received(r.part))
  /\ obj' = r.part
  /\ UNCHANGED <<mode, prog, valid, target, saved, flash, installed>>

BlCrc(r) ==
  /\ r.op = "crc" /\ Take(r) /\ Reply(r, TRUE, Received(obj))
  /\ UNCHANGED boot

\* nrf_dfu_validation_init_cmd_create forgets all progress.
BlCreateIp(r) ==
  /\ r.op = "create" /\ r.part = "ip" /\ Take(r) /\ Reply(r, TRUE, Empty)
  /\ obj' = "ip" /\ valid' = FALSE
  /\ prog' = [NoProgress EXCEPT !.cmdSize = r.n]
  /\ UNCHANGED <<mode, target, saved, flash, installed>>

\* The checks of on_data_obj_create_request.
MayCreate(n) ==
  /\ valid /\ n > 0 /\ n <= PageSize
  /\ n % PageSize # 0 => prog.last.len + n = FwSize
  /\ prog.last.len + n <= FwSize

\* The new object starts after the last one that was executed; its page is erased.
BlCreateFw(r) ==
  /\ r.op = "create" /\ r.part = "fw" /\ Take(r) /\ Reply(r, MayCreate(r.n), Empty)
  /\ obj' = "fw"
  /\ IF MayCreate(r.n)
     THEN /\ prog' = [prog EXCEPT !.objSize = r.n, !.img = prog.last]
          /\ flash' = [k \in Units |->
               IF k \in prog.last.len + 1 .. prog.last.len + PageSize THEN None ELSE flash[k]]
     ELSE UNCHANGED <<prog, flash>>
  /\ UNCHANGED <<mode, valid, target, saved, installed>>

\* Content c with the units of write r after it; d when the write is damaged.
Extended(c, r, p, d) ==
  [len |-> c.len + r.n,
   of  |-> IF ~d /\ r.part = p /\ r.from = c.len /\ (c.len = 0 \/ c.of = r.of)
           THEN r.of ELSE Junk]

\* nrf_dfu_validation_init_cmd_append.
WriteIp(r, d) ==
  /\ obj = "ip"
  /\ prog' = IF r.n + prog.cmd.len > prog.cmdSize THEN prog
             ELSE [prog EXCEPT !.cmd = Extended(prog.cmd, r, "ip", d)]
  /\ UNCHANGED flash

\* on_data_obj_write_request.  A write to flash that is not erased spoils it,
\* unless it repeats what is there.
WriteFw(r, d) ==
  /\ obj = "fw"
  /\ LET new == Extended(prog.img, r, "fw", d) IN
     IF ~valid \/ r.n + prog.img.len - prog.last.len > prog.objSize
     THEN UNCHANGED <<prog, flash>>
     ELSE /\ prog' = [prog EXCEPT !.img = new]
          /\ flash' = [k \in Units |->
               IF k \notin prog.img.len + 1 .. new.len THEN flash[k]
               ELSE LET w == IF d \/ r.part # "fw" \/ r.from # prog.img.len
                             THEN Junk ELSE r.of
                    IN IF flash[k] \in {None, w} THEN w ELSE Junk]

\* A write is answered only when a receipt was asked for, and none is.
BlWrite(r, d) ==
  /\ r.op = "write" /\ Take(r)
  /\ (WriteIp(r, d) \/ WriteFw(r, d))
  /\ UNCHANGED <<rsp, mode, valid, target, obj, saved, installed>>

\* nrf_dfu_validation_init_cmd_execute: the packet is whole and was found valid
\* before, or decodes and validates now.
IpWhole == prog.cmd.len = prog.cmdSize
IpValid == IpWhole /\ (valid \/ (prog.cmd.of \in Files /\ prog.cmd.len = IpSize))

\* A valid packet is saved to flash together with the progress made since.
BlExecIp(r) ==
  /\ r.op = "exec" /\ obj = "ip" /\ Take(r) /\ Reply(r, IpValid, Empty)
  /\ IF IpValid
     THEN /\ valid' = TRUE /\ target' = prog.cmd.of
          /\ saved' = prog /\ UNCHANGED prog
     ELSE /\ prog' \in IF IpWhole THEN {prog, NoProgress} ELSE {prog}
          /\ UNCHANGED <<valid, target, saved>>
  /\ UNCHANGED <<mode, obj, flash, installed>>

\* on_data_obj_execute_request.
ExecutesFw == prog.objSize = prog.img.len - prog.last.len

\* The whole image is in flash and has the hash of the init packet.
HashOk == \A k \in 1 .. FwSize : flash[k] = target

BlExecFw(r) ==
  /\ r.op = "exec" /\ obj = "fw" /\ Take(r)
  /\ IF ~ExecutesFw \/ prog.img.len # FwSize
     THEN /\ Reply(r, ExecutesFw, Empty)
          /\ prog' = IF ExecutesFw THEN [prog EXCEPT !.objSize = 0, !.last = prog.img]
                     ELSE prog
          /\ UNCHANGED <<mode, saved, installed>>
     ELSE \* postvalidate; either way the settings are saved and the chip restarts
          /\ Reply(r, HashOk, Empty)
          /\ prog' = NoProgress /\ saved' = NoProgress /\ mode' = "app"
          /\ installed' = IF HashOk THEN target ELSE installed
  /\ UNCHANGED <<valid, target, obj, flash>>

BlHandle ==
  req # <<>> /\ LET r == Head(req) IN
    \/ BlSetup(r) \/ BlSelect(r) \/ BlCrc(r) \/ BlCreateIp(r) \/ BlCreateFw(r)
    \/ BlWrite(r, FALSE) \/ BlExecIp(r) \/ BlExecFw(r)

\* The application of the nRF52 does not speak this protocol.
BlDeaf ==
  /\ mode = "app" /\ req # <<>> /\ req' = Tail(req)
  /\ UNCHANGED <<host, rsp, boot, hist, bounds>>

\* The nRF52 leaves the bootloader for its application: nothing was executed for
\* two minutes (between attempts), or it restarts.
BlReset ==
  /\ mode = "dfu" /\ mode' = "app"
  /\ \/ pc = "idle" /\ req = <<>> /\ UNCHANGED <<crashes, hurt>>
     \/ pc # "idle" /\ crashes < MaxCrashes /\ crashes' = crashes + 1 /\ hurt' = TRUE
  /\ UNCHANGED <<host, line, prog, valid, target, obj, saved, flash, installed,
                 result, crossed, faults>>

-----------------------------------------------------------------------------
(* The line.                                                                *)

\* A byte is lost, or button 2 puts a command frame, which has no END, before the
\* request.
LoseRequest ==
  /\ Fault /\ req # <<>> /\ req' = Tail(req)
  /\ UNCHANGED <<host, rsp, boot, result, crossed, crashes>>

LoseResponse ==
  /\ Fault /\ rsp # <<>> /\ rsp' = Tail(rsp)
  /\ UNCHANGED <<host, req, boot, result, crossed, crashes>>

\* Bytes of a write are changed, their number is not.
DamagedWrite ==
  /\ Fault /\ mode = "dfu" /\ req # <<>> /\ req' = Tail(req)
  /\ Head(req).op = "write"
  /\ (WriteIp(Head(req), TRUE) \/ WriteFw(Head(req), TRUE))
  /\ UNCHANGED <<host, rsp, mode, valid, target, obj, saved, installed, result,
                 crossed, crashes>>

-----------------------------------------------------------------------------
Next ==
  \/ \E f \in Files : StartInThread(f) \/ StartInTimer(f)
  \/ DeafInTimer
  \/ HostSend \/ HostWrite \/ HostReceive \/ HostTimeout \/ HostCrash
  \/ BlHandle \/ BlDeaf \/ BlReset
  \/ LoseRequest \/ LoseResponse \/ DamagedWrite

Spec == Init /\ [][Next]_vars

\* The host runs until its attempt ends, the bootloader handles what arrives.
FairSpec ==
  /\ Spec
  /\ WF_vars(HostSend) /\ WF_vars(HostWrite) /\ WF_vars(HostReceive)
  /\ WF_vars(HostTimeout) /\ WF_vars(BlHandle) /\ WF_vars(BlDeaf)

\* And the user tries again: a bootloader that is left alone restarts the nRF52
\* after its two minutes, and an attempt is started when the application runs.
LeftAlone == pc = "idle" /\ BlReset
Retry == \E f \in Files : StartInThread(f)
RetrySpec == FairSpec /\ WF_vars(LeftAlone) /\ WF_vars(Retry)

-----------------------------------------------------------------------------
(* Properties.                                                              *)

\* An attempt reported as successful has installed its package, whatever was lost,
\* damaged, late or resumed.
SuccessIsInstalled == result = "ok" => installed = file

\* What the bootloader counts as executed, also in its flash, is the beginning of
\* the image that belongs to its init packet: no object is executed before its CRC
\* was found right.
ExecutedIsChecked ==
  /\ mode = "dfu" /\ prog.last.len > 0 => prog.last.of = target /\ valid
  /\ saved.last.len > 0 => saved.last.of = saved.cmd.of

\* Answers that come after the host gave up on their request are never taken for
\* those of a later request.
NoStaleAnswer == ~crossed

\* An attempt that nothing disturbed finds the bootloader and succeeds, whatever
\* the attempts before it left behind there.  The exception is the attempt inside
\* the timer's interrupt when the UART's cannot be served there.
UndisturbedSucceeds == result \in {"fail", "absent"} => hurt

\* Every attempt ends: dfu_host_send_fw never waits for ever.
AttemptEnds == pc # "idle" ~> pc = "idle"

=============================================================================

------------------------------ MODULE CrossApp ------------------------------
(***************************************************************************)
(* The application of the nRF91 (main.c, http_client.c): files that arrive *)
(* from the web server or from the nRF52 in the one download bank, the     *)
(* flag that makes mcuboot install what the bank holds, and the loan of    *)
(* the UART to serial DFU.                                                 *)
(*                                                                         *)
(* Four contexts interleave: the buttons and the response timer are        *)
(* interrupts, the FOTA library reports from its own thread, commands and  *)
(* work items run one after the other on the system work queue.  A file is *)
(* its type and the route it came by; each of its blocks fills a page.     *)
(***************************************************************************)
EXTENDS Naturals, Sequences, SequencesExt, Functions

CONSTANTS
  None,
  Blank, Mixed,  \* a page that is erased; one that was written over
  HttpFiles,     \* types of the files on the web server
  UartFiles,     \* types of the files the nRF52 sends
  Blocks,        \* blocks of a file
  Heap,          \* buffers of serial DFU that fit in the heap
  MaxPress,      \* bound: presses of a button
  MaxSends,      \* bound: transfers begun by the nRF52
  MaxFaults      \* bound: failures of the network, lost frames, power cuts

Types == {"nrf52", "nrf91", "modem"}

ASSUME CrossAssumption ==
  /\ HttpFiles \subseteq {"nrf52", "nrf91"} \* m_http_file_52, m_http_file_91
  /\ UartFiles \subseteq Types
  /\ Blocks \in Nat \ {0} /\ Heap \in Nat
  /\ MaxPress \in Nat /\ MaxSends \in Nat /\ MaxFaults \in Nat
  /\ None \notin Types \cup {"http", "uart", "ping", "enter"} /\ Blank # Mixed
  /\ {Blank, Mixed} \cap ({"http", "uart", "swap"} \X Types) = {}

VARIABLES
  app,      \* m_download_busy, downloading, m_http_file, m_image_channel,
            \* m_image_file_type, LED 2
  evt,      \* what is left to do of the FOTA event that is being handled
  fota,     \* the FOTA library: the file it downloads and the blocks written
  wk,       \* the work items that are submitted, in the order of the queue
  send,     \* the nRF52's transfer: its next request, its file, blocks written
  uart,     \* whose the UART is, the request m_cmd_ctx is host of, the context
            \* of a running serial DFU, the buffers it has leaked
  peer,     \* the nRF52: application or bootloader
  bank, flag, \* the secondary bank and the flag in its last page
  modem,    \* the update handed to the modem
  writer,   \* history: the routes that used the bank since it was last begun
  reported, \* history: dfu_file_ready has run since
  presses, sends, faults

flash == <<bank, flag, modem>>
history == <<writer, reported>>
bounds == <<presses, sends, faults>>
vars == <<app, evt, fota, wk, send, uart, peer, flash, history, bounds>>

Items == {"http", "flag", "dfu", "req", "rsp"}
Pages == {Blank, Mixed} \cup ({"http", "uart", "swap"} \X Types)

\* The types of the variables; no work item is in the queue twice.
CrossTypeOK ==
  /\ app \in [busy : BOOLEAN, downloading : BOOLEAN, file : Types \cup {None},
              channel : {None, "http", "uart"}, type : Types \cup {None}, led : BOOLEAN]
  /\ evt \in {"none", "finished", "ready", "error"}
  /\ fota \in [file : HttpFiles, n : 0 .. Blocks] \cup {None}
  /\ wk \in Seq(Items) /\ IsInjective(wk)
  /\ send \in [at : {"none", "info", "erase", "write", "done"},
               file : UartFiles \cup {None}, n : 0 .. Blocks]
  /\ uart \in [owner : {"cmd", "dfu", "none"}, asked : {None, "ping", "enter"},
               dfu : {"no", "thread", "isr"}, leaked : 0 .. Heap]
  /\ peer \in {"app", "bl"}
  /\ bank \in [1 .. Blocks -> Pages] /\ flag \in BOOLEAN
  /\ modem \in {"none", "whole", "broken"}
  /\ writer \in {"none", "http", "uart", "both"} /\ reported \in BOOLEAN
  /\ presses \in 0 .. MaxPress /\ sends \in 0 .. MaxSends /\ faults \in 0 .. MaxFaults

-----------------------------------------------------------------------------
(* Helpers.                                                                 *)

\* Mutant: an item may be submitted while it is pending.
SubmitAgain(q, item) == Append(q, item)

\* k_work_submit, to a queue q: an item that is pending stays where it is.
Submit(q, item) == IF Contains(q, item) THEN q ELSE Append(q, item)

\* dfu_file_type: what the header says; a header that was written over says anything.
dfu_file_type ==
  CASE bank[1] = Blank -> {"error"}
    [] bank[1] = Mixed -> Types \cup {"error"}
    [] OTHER -> {bank[1][2]}

\* The bank holds one file of type t from beginning to end.
Whole(t) == \E r \in {"http", "uart", "swap"} : \A k \in 1 .. Blocks : bank[k] = <<r, t>>

\* History: a route begins to fill the bank, alone or while the other one uses it.
Begin(route, others) ==
  /\ writer' = IF others THEN "both" ELSE route
  /\ reported' = FALSE

Fault == faults < MaxFaults /\ faults' = faults + 1

Init ==
  /\ app = [busy |-> FALSE, downloading |-> FALSE, file |-> None, channel |-> None,
            type |-> None, led |-> FALSE]
  /\ evt = "none" /\ fota = None /\ wk = <<>>
  /\ send = [at |-> "none", file |-> None, n |-> 0]
  /\ uart = [owner |-> "cmd", asked |-> None, dfu |-> "no", leaked |-> 0]
  /\ peer = "app" /\ bank = [k \in 1 .. Blocks |-> Blank] /\ flag = FALSE
  /\ modem = "none" /\ writer = "none" /\ reported = FALSE
  /\ presses = 0 /\ sends = 0 /\ faults = 0
-----------------------------------------------------------------------------
(* Files that are ready (main.c).                                           *)

\* Mutant: the flag of a file for the nRF52 is left to the FOTA library.
dfu_file_readyNoFlag(type, channel, q) ==
  IF type = "error"
  THEN app' = [app EXCEPT !.channel = channel] /\ wk' = q /\ UNCHANGED history
  ELSE LET update == channel = "uart" /\ type \in {"nrf91", "modem"}
       IN /\ app' = [app EXCEPT !.led = TRUE, !.channel = channel,
                                !.type = IF update THEN type ELSE @]
          /\ wk' = IF update THEN Submit(q, "flag") ELSE q
          /\ reported' = TRUE /\ UNCHANGED writer

\* dfu_file_ready: the FOTA library has set the flag of mcuboot whatever the file is,
\* and nobody has set it for a file that came over the UART.
dfu_file_ready(type, channel, q) ==
  IF type = "error"
  THEN app' = [app EXCEPT !.channel = channel] /\ wk' = q /\ UNCHANGED history
  ELSE LET update == \/ channel = "http" /\ type = "nrf52"
                     \/ channel = "uart" /\ type \in {"nrf91", "modem"}
       IN /\ app' = [app EXCEPT !.led = TRUE, !.channel = channel,
                                !.type = IF update THEN type ELSE @]
          /\ wk' = IF update THEN Submit(q, "flag") ELSE q
          /\ reported' = TRUE /\ UNCHANGED writer

\* wk_update_mcuboot_flag_handler.
RunFlag ==
  /\ Head(wk) = "flag" /\ wk' = Tail(wk)
  /\ flag' = IF app.type = "nrf52" THEN FALSE ELSE flag \/ app.type = "nrf91"
  /\ modem' = IF app.type # "modem" THEN modem
              ELSE IF Whole("modem") THEN "whole" ELSE "broken"
  /\ UNCHANGED <<app, send, fota, uart, peer, bank, history, faults>>

-----------------------------------------------------------------------------
(* Downloads from the web server (main.c, http_client.c).                   *)

\* Mutant: LED 2 stays on.
Button1LedStays ==
  /\ uart.dfu # "isr" /\ ~app.busy
  /\ presses < MaxPress /\ presses' = presses + 1
  /\ \E f \in HttpFiles :
       /\ app' = [app EXCEPT !.channel = "http", !.busy = TRUE, !.downloading = TRUE,
                             !.file = f]
       /\ wk' = Submit(wk, "http")
       /\ Begin("http", evt # "none" \/ send.at # "none")
  /\ UNCHANGED <<evt, fota, send, uart, peer, flash, sends, faults>>

\* button1_pressed_handler and http_client_download; the switches may stand for no file.
Button1 ==
  /\ uart.dfu # "isr" /\ ~app.busy
  /\ presses < MaxPress /\ presses' = presses + 1
  /\ \/ /\ app' = [app EXCEPT !.led = FALSE]
        /\ UNCHANGED <<wk, history>>
     \/ \E f \in HttpFiles :
          /\ app' = [app EXCEPT !.led = FALSE, !.channel = "http", !.busy = TRUE,
                                !.downloading = TRUE,
                                !.file = IF app.downloading THEN @ ELSE f]
          /\ wk' = IF app.downloading THEN wk ELSE Submit(wk, "http")
          /\ Begin("http", evt # "none" \/ send.at # "none")
  /\ UNCHANGED <<evt, fota, send, uart, peer, flash, sends, faults>>

\* http_download_handler.  fota_download_start may fail, which is only logged.
RunHttp ==
  /\ Head(wk) = "http" /\ wk' = Tail(wk)
  /\ \/ fota' = [file |-> app.file, n |-> 0] /\ UNCHANGED faults
     \/ Fault /\ UNCHANGED fota
  /\ UNCHANGED <<app, send, uart, peer, flash, history>>

\* Mutant: the event of progress falls through to that of the end.
FotaWriteEnds ==
  /\ fota # None /\ fota.n < Blocks /\ evt = "none"
  /\ fota' = [fota EXCEPT !.n = @ + 1]
  /\ bank' = [bank EXCEPT ![fota.n + 1] = <<"http", fota.file>>]
  /\ app' = [app EXCEPT !.downloading = FALSE, !.busy = FALSE]
  /\ UNCHANGED <<evt, wk, send, uart, peer, flag, modem, history, bounds>>

\* The library erases page by page as it writes.
FotaWrite ==
  /\ fota # None /\ fota.n < Blocks /\ evt = "none"
  /\ fota' = [fota EXCEPT !.n = @ + 1]
  /\ bank' = [bank EXCEPT ![fota.n + 1] = <<"http", fota.file>>]
  /\ UNCHANGED <<app, evt, wk, send, uart, peer, flag, modem, history, bounds>>

\* dfu_target_done(true) sets the flag; then download_handler is told.
FotaDone ==
  /\ fota # None /\ fota.n = Blocks /\ evt = "none"
  /\ fota' = None /\ flag' = TRUE
  /\ evt' = "finished" /\ app' = [app EXCEPT !.downloading = FALSE]
  /\ UNCHANGED <<wk, send, uart, peer, bank, modem, history, bounds>>

FotaError ==
  /\ fota # None /\ Fault /\ evt = "none"
  /\ fota' = None
  /\ evt' = "error" /\ app' = [app EXCEPT !.downloading = FALSE]
  /\ UNCHANGED <<wk, send, uart, peer, flash, history, presses, sends>>

\* Mutant: only a download that succeeds frees the button.
ClearBusyFinished ==
  /\ evt \in {"finished", "error"}
  /\ app' = [app EXCEPT !.busy = evt # "finished"]
  /\ evt' = IF evt = "finished" THEN "ready" ELSE "none"
  /\ UNCHANGED <<fota, wk, send, uart, peer, flash, history, bounds>>

\* download_event_handler: the download is over before its file is ready.
ClearBusy ==
  /\ evt \in {"finished", "error"}
  /\ app' = [app EXCEPT !.busy = FALSE]
  /\ evt' = IF evt = "finished" THEN "ready" ELSE "none"
  /\ UNCHANGED <<fota, wk, send, uart, peer, flash, history, bounds>>

FileReady ==
  /\ evt = "ready" /\ evt' = "none"
  /\ \E t \in dfu_file_type : dfu_file_ready(t, app.channel, wk)
  /\ UNCHANGED <<fota, send, uart, peer, flash, bounds>>

-----------------------------------------------------------------------------
(* A file from the nRF52 (its dfu_helper.c; app_cmd.c, app_flash_cmd.c).    *)

Idle == [at |-> "none", file |-> None, n |-> 0]

\* The nRF52 begins a transfer.
SendStart ==
  /\ peer = "app" /\ send = Idle
  /\ sends < MaxSends /\ sends' = sends + 1
  /\ \E f \in UartFiles : send' = [at |-> "info", file |-> f, n |-> 0]
  /\ Begin("uart", app.busy \/ evt # "none")
  /\ UNCHANGED <<app, evt, fota, wk, uart, peer, flash, presses, faults>>

\* The channel serves nobody and asks for nothing.
Free == uart.asked = None /\ ~Contains(wk, "req")

\* Its next request is received, unless the channel is host or its UART is lent; then,
\* as when a frame is lost, the nRF52 gives up.
Request ==
  /\ send.at # "none" /\ ~Contains(wk, "req")
  /\ \/ /\ uart.owner = "cmd" /\ Free
        /\ wk' = Append(wk, "req") /\ UNCHANGED <<send, faults>>
     \/ (uart.owner # "cmd" \/ ~Free) /\ send' = Idle /\ UNCHANGED <<wk, faults>>
     \/ Fault /\ send' = Idle /\ UNCHANGED wk
  /\ UNCHANGED <<app, evt, fota, uart, peer, flash, history, presses, sends>>

\* wk_proc_req_handler: req_cb_flash_info, _erase, _write, and app_cmd_event_handler,
\* which takes FLASH_DONE as the end of a file.
RunReq ==
  /\ Head(wk) = "req"
  /\ \/ /\ send.at = "info" /\ send' = [send EXCEPT !.at = "erase"]
        /\ wk' = Tail(wk) /\ UNCHANGED <<app, bank, history>>
     \/ /\ send.at = "erase" /\ send' = [send EXCEPT !.at = "write"]
        /\ bank' = [k \in 1 .. Blocks |-> Blank]
        /\ wk' = Tail(wk) /\ UNCHANGED <<app, history>>
     \/ /\ send.at = "write"
        /\ LET k == send.n + 1 IN
           /\ bank' = [bank EXCEPT ![k] = IF @ = Blank THEN <<"uart", send.file>> ELSE Mixed]
           /\ send' = [send EXCEPT !.n = k, !.at = IF k = Blocks THEN "done" ELSE @]
        /\ wk' = Tail(wk) /\ UNCHANGED <<app, history>>
     \/ /\ send.at = "done" /\ send' = Idle
        /\ \E t \in dfu_file_type : dfu_file_ready(t, "uart", Tail(wk))
        /\ UNCHANGED bank
  /\ UNCHANGED <<fota, uart, peer, flag, modem, faults>>

-----------------------------------------------------------------------------
(* Device firmware update (main.c, serial_dfu.c).                           *)

\* do_mcuboot_dfu, a power cut: mcuboot swaps the images if the flag is set and the
\* bank holds a valid one, and erases an invalid one.  The modem takes its update.
Reboot ==
  /\ app' = [busy |-> FALSE, downloading |-> FALSE, file |-> None, channel |-> None,
             type |-> None, led |-> FALSE]
  /\ evt' = "none" /\ fota' = None /\ wk' = <<>>
  /\ send' = Idle
  /\ uart' = [owner |-> "cmd", asked |-> None, dfu |-> "no", leaked |-> 0]
  /\ bank' = IF ~flag THEN bank
             ELSE [k \in 1 .. Blocks |-> IF Whole("nrf91") THEN <<"swap", "nrf91">> ELSE Blank]
  /\ flag' = FALSE /\ modem' = "none"
  /\ writer' = "none" /\ reported' = FALSE

PowerCut == Fault /\ Reboot /\ UNCHANGED <<peer, presses, sends>>

\* button2_pressed_handler, perform_dfu.
Button2 ==
  /\ uart.dfu # "isr"
  /\ presses < MaxPress /\ presses' = presses + 1
  /\ \E t \in dfu_file_type :
       \/ /\ t = "nrf52" /\ uart' = [uart EXCEPT !.asked = IF Free THEN "ping" ELSE @]
          /\ UNCHANGED <<app, evt, fota, wk, send, flash, history>>
       \/ t # "nrf52" /\ Reboot
  /\ UNCHANGED <<peer, sends, faults>>

\* The nRF52 answers; it enters its bootloader when it is told to.
Answer ==
  /\ uart.asked # None /\ uart.owner = "cmd" /\ uart.dfu = "no"
  /\ peer = "app" /\ ~Contains(wk, "rsp")
  /\ wk' = Append(wk, "rsp")
  /\ IF uart.asked = "enter" THEN peer' = "bl" /\ send' = Idle ELSE UNCHANGED <<peer, send>>
  /\ UNCHANGED <<app, evt, fota, uart, flash, history, bounds>>

\* wk_proc_rsp_handler: rsp_cb_ping_app, rsp_cb_enter_bl.
RunRsp ==
  /\ Head(wk) = "rsp"
  /\ \/ /\ uart.asked = "ping" /\ uart' = [uart EXCEPT !.asked = "enter"]
        /\ wk' = Tail(wk)
     \/ /\ uart.asked = "enter" /\ uart' = [uart EXCEPT !.asked = None]
        /\ wk' = Submit(Tail(wk), "dfu")
  /\ UNCHANGED <<app, fota, send, peer, flash, history, faults>>

\* do_serial_dfu up to dfu_drv_init, in a context: app_cmd_uninit, then a buffer, which
\* no one ever frees.  Without one it returns and leaves the UART to nobody.
Lend(u, context) ==
  IF u.leaked = Heap THEN [u EXCEPT !.owner = "none"]
  ELSE [u EXCEPT !.owner = "dfu", !.dfu = context, !.leaked = @ + 1]

RunDfu ==
  /\ Head(wk) = "dfu" /\ wk' = Tail(wk)
  /\ uart' = Lend(uart, "thread")
  /\ UNCHANGED <<app, fota, send, peer, flash, history, faults>>

\* Mutant: without a bootloader it quits at once.
DfuEndQuits ==
  /\ uart.dfu # "no" /\ uart' = [uart EXCEPT !.dfu = "no"]
  /\ UNCHANGED <<app, evt, fota, wk, send, peer, flash, history, bounds>>

\* The rest of do_serial_dfu: dfu_host_bl_mode_check, serial_dfu_start when there is a
\* bootloader and a file for it, and app_cmd_init, which also ends an exchange.  In the
\* timer's interrupt no byte moves, and no bootloader is found.
DfuEnd ==
  /\ uart.dfu # "no"
  /\ uart' = [uart EXCEPT !.owner = "cmd", !.dfu = "no", !.asked = None]
  /\ LET updates == uart.dfu = "thread" /\ peer = "bl" /\ Whole("nrf52") IN
     \/ updates /\ peer' = "app" /\ UNCHANGED faults
     \/ ~updates /\ UNCHANGED <<peer, faults>>
     \/ Fault /\ UNCHANGED peer
  /\ UNCHANGED <<app, evt, fota, wk, send, flash, history, presses, sends>>

\* inactivity_timeout: a bootloader that is left alone restarts the nRF52.
BootloaderLeaves ==
  /\ peer = "bl" /\ peer' = "app" /\ uart.dfu # "thread"
  /\ UNCHANGED <<app, evt, fota, wk, send, uart, flash, history, bounds>>

\* tmr_rsp_timeout_handler, an interrupt: the nRF52 is in its bootloader, or a frame was
\* lost.  The callback of a ping performs the whole DFU in it.
Timeout ==
  /\ uart.asked # None /\ uart.owner = "cmd" /\ uart.dfu = "no" /\ ~Contains(wk, "rsp")
  /\ IF peer = "bl" THEN UNCHANGED faults ELSE Fault
  /\ IF uart.asked = "ping"
     THEN uart' = Lend([uart EXCEPT !.asked = None], "isr") /\ UNCHANGED wk
     ELSE uart' = [uart EXCEPT !.asked = None] /\ wk' = Submit(wk, "dfu")
  /\ UNCHANGED <<app, evt, fota, send, peer, flash, history, presses, sends>>

-----------------------------------------------------------------------------
\* The work queue takes its first item when it has finished the last one.
Work ==
  /\ wk # <<>> /\ uart.dfu = "no"
  /\ RunFlag \/ RunHttp \/ RunReq \/ RunRsp \/ RunDfu
  /\ UNCHANGED <<evt, presses, sends>>

Fota == uart.dfu = "no" /\ (FotaWrite \/ FotaDone \/ ClearBusy \/ FileReady)

Next ==
  \/ Work \/ Fota \/ (uart.dfu = "no" /\ FotaError)
  \/ Button1 \/ Button2 \/ SendStart \/ Request
  \/ Answer \/ Timeout \/ DfuEnd \/ BootloaderLeaves \/ PowerCut

Spec == Init /\ [][Next]_vars

\* The queue and the library's thread run, serial DFU ends, a request is answered or
\* times out.
FairSpec == Spec /\ WF_vars(Work) /\ WF_vars(Fota) /\ WF_vars(DfuEnd)
                 /\ WF_vars(Answer \/ Timeout)

-----------------------------------------------------------------------------
(* Properties.                                                              *)

\* The FOTA library is never asked for a second file while it downloads one, and the
\* buttons see a download for as long as there is one, up to the event that ends it.
OneDownload ==
  /\ fota # None => app.busy /\ ~Contains(wk, "http")
  /\ Contains(wk, "http") => app.busy /\ app.downloading
  /\ app.downloading => app.busy

\* A file that one route brought is followed by its flag: what mcuboot would install
\* at the next reset is what the bank holds.  A file for the nRF52 that came over the
\* UART may still find the flag of the file before it (see the README).
FlagFollowsFile ==
  (reported /\ ~Contains(wk, "flag")) =>
    /\ writer = "http" => (flag <=> Whole("nrf91"))
    /\ writer = "uart" =>
         /\ Whole("nrf91") => flag
         /\ Whole("modem") => modem = "whole"

\* README.md: LED 2 says that a DFU file is downloaded.
LedMeansFile ==
  (app.led /\ writer = "http") => \E t \in HttpFiles : Whole(t)

\* The UART comes back from serial DFU as long as there was memory for it.
UartReturned == uart.dfu = "no" /\ uart.owner # "cmd" => uart.owner = "none" /\ uart.leaked = Heap

\* A download that has begun ends, and the button works again.
DownloadEnds == fota # None ~> ~app.busy

\* main.c: "Give back UART component".
GivenBack == uart.owner # "cmd" ~> uart.owner = "cmd"
=============================================================================

--------------------------- MODULE CrossAppProofs ---------------------------
(***************************************************************************)
(* Proofs about the application of the nRF91, for any files, any number of *)
(* blocks, any heap and any number of presses, transfers and faults.       *)
(***************************************************************************)
EXTENDS CrossApp, TLAPS

\* What keeps the application in its types: there is a file for a download that is
\* submitted, and for a transfer of the nRF52, which has a block left to write until
\* it is done.
FilesKnown ==
  /\ Contains(wk, "http") => app.file \in HttpFiles
  /\ send.at # "none" => send.file \in UartFiles
  /\ send.at \in {"info", "erase", "write"} => send.n < Blocks

\* An event that ends a download finds the FOTA library at rest and the button still
\* locked.
EventEnds ==
  evt \in {"finished", "error"} => fota = None /\ app.busy /\ ~app.downloading

Inv == CrossTypeOK /\ FilesKnown /\ OneDownload /\ EventEnds /\ UartReturned

-----------------------------------------------------------------------------
(* The work queue.                                                          *)

Queue == {q \in Seq(Items) : IsInjective(q)}

\* The first item is taken from a queue that has it once.
LEMMA TakeFirst ==
  ASSUME NEW q \in Queue, q # <<>>
  PROVE  /\ Tail(q) \in Queue
         /\ ~Contains(Tail(q), Head(q))
         /\ \A x : Contains(Tail(q), x) => Contains(q, x)
         /\ Contains(q, Head(q))
<1>1. q \in Seq(Items) /\ Len(q) \in Nat \ {0}
  BY DEF Queue
<1>2. Tail(q) \in Seq(Items) /\ Len(Tail(q)) = Len(q) - 1
  BY <1>1
<1>3. \A i \in 1 .. Len(Tail(q)) : Tail(q)[i] = q[i + 1] /\ i + 1 \in 1 .. Len(q)
  BY <1>1, <1>2
<1>4. DOMAIN q = 1 .. Len(q) /\ DOMAIN Tail(q) = 1 .. Len(Tail(q))
  BY <1>1, <1>2
<1>5. \A i, j \in 1 .. Len(q) : q[i] = q[j] => i = j
  BY <1>4 DEF Queue, IsInjective
<1>6. IsInjective(Tail(q))
  BY <1>2, <1>3, <1>4, <1>5 DEF IsInjective
<1>7. ~Contains(Tail(q), Head(q))
  <2>1. Head(q) = q[1] /\ 1 \in 1 .. Len(q)
    BY <1>1
  <2> QED
    BY <1>1, <1>2, <1>3, <1>5, <2>1 DEF Contains
<1>8. \A x : Contains(Tail(q), x) => Contains(q, x)
  BY <1>3 DEF Contains
<1> QED
  BY <1>1, <1>2, <1>6, <1>7, <1>8 DEF Queue, Contains

\* An item is added to a queue that does not have it.
LEMMA AddNew ==
  ASSUME NEW q \in Queue, NEW x \in Items, ~Contains(q, x)
  PROVE  /\ Append(q, x) \in Queue
         /\ \A y : Contains(Append(q, x), y) <=> Contains(q, y) \/ y = x
<1>1. q \in Seq(Items) /\ Len(q) \in Nat
  BY DEF Queue
<1>2. /\ Append(q, x) \in Seq(Items) /\ Len(Append(q, x)) = Len(q) + 1
      /\ \A i \in 1 .. Len(q) : Append(q, x)[i] = q[i]
      /\ Append(q, x)[Len(q) + 1] = x
  BY <1>1
<1>3. DOMAIN q = 1 .. Len(q) /\ DOMAIN Append(q, x) = 1 .. Len(q) + 1
  BY <1>1, <1>2
<1>4. \A i \in 1 .. Len(q) : q[i] # x
  BY DEF Contains
<1>5. IsInjective(Append(q, x))
  <2>1. \A i, j \in 1 .. Len(q) : q[i] = q[j] => i = j
    BY <1>3 DEF Queue, IsInjective
  <2>2. \A i \in 1 .. Len(q) + 1 : i \in 1 .. Len(q) \/ i = Len(q) + 1
    BY <1>1
  <2> QED
    BY <1>2, <1>3, <1>4, <2>1, <2>2 DEF IsInjective
<1>6. ASSUME NEW y PROVE Contains(Append(q, x), y) <=> Contains(q, y) \/ y = x
  BY <1>1, <1>2 DEF Contains
<1> QED
  BY <1>2, <1>5, <1>6 DEF Queue

\* k_work_submit keeps a queue a queue.
LEMMA Submitted ==
  ASSUME NEW q \in Queue, NEW x \in Items
  PROVE  /\ Submit(q, x) \in Queue
         /\ \A y : Contains(Submit(q, x), y) <=> Contains(q, y) \/ y = x
BY AddNew DEF Submit

\* Nothing is in an empty queue.
LEMMA EmptyQueue == <<>> \in Queue /\ \A x : ~Contains(<<>>, x)
BY DEF Queue, Contains, IsInjective

-----------------------------------------------------------------------------
(* The bank and the buttons.                                                *)

\* The header of the bank says a type, or nothing.
LEMMA HeaderType ==
  ASSUME CrossTypeOK
  PROVE  dfu_file_type \subseteq Types \cup {"error"}
<1>1. 1 \in 1 .. Blocks
  BY CrossAssumption
<1>2. bank[1] \in Pages
  BY <1>1 DEF CrossTypeOK
<1>3. CASE bank[1] \in {Blank, Mixed}
  BY <1>3 DEF dfu_file_type
<1>4. CASE bank[1] \notin {Blank, Mixed}
  <2>1. bank[1][2] \in Types
    BY <1>2, <1>4 DEF Pages
  <2> QED
    BY <1>4, <2>1 DEF dfu_file_type
<1> QED
  BY <1>3, <1>4

\* A file that is ready touches neither the lock of the button nor the download.
LEMMA ReadyKeeps ==
  ASSUME CrossTypeOK, NEW q \in Queue, NEW t \in dfu_file_type,
         NEW channel \in {"http", "uart"} \cup {None}, dfu_file_ready(t, channel, q)
  PROVE  /\ app' \in [busy : BOOLEAN, downloading : BOOLEAN, file : Types \cup {None},
                      channel : {None, "http", "uart"}, type : Types \cup {None},
                      led : BOOLEAN]
         /\ app'.busy = app.busy /\ app'.downloading = app.downloading
         /\ app'.file = app.file
         /\ wk' \in Queue /\ \A x : Contains(wk', x) => Contains(q, x) \/ x = "flag"
         /\ writer' = writer /\ reported' \in BOOLEAN
<1>1. t \in Types \cup {"error"}
  BY HeaderType
<1>2. /\ Submit(q, "flag") \in Queue
      /\ \A x : Contains(Submit(q, "flag"), x) => Contains(q, x) \/ x = "flag"
  BY Submitted DEF Items
<1>3. /\ app \in [busy : BOOLEAN, downloading : BOOLEAN, file : Types \cup {None},
                  channel : {None, "http", "uart"}, type : Types \cup {None},
                  led : BOOLEAN]
      /\ reported \in BOOLEAN
  BY DEF CrossTypeOK
<1>4. CASE t = "error"
  BY <1>3, <1>4 DEF dfu_file_ready, history
<1>5. CASE t # "error"
  <2> DEFINE update == \/ channel = "http" /\ t = "nrf52"
                       \/ channel = "uart" /\ t \in {"nrf91", "modem"}
  <2>1. /\ app' = [app EXCEPT !.led = TRUE, !.channel = channel,
                              !.type = IF update THEN t ELSE @]
        /\ wk' = IF update THEN Submit(q, "flag") ELSE q
        /\ reported' = TRUE /\ writer' = writer
    BY <1>5 DEF dfu_file_ready
  <2>2. wk' \in Queue /\ \A x : Contains(wk', x) => Contains(q, x) \/ x = "flag"
    BY <1>2, <2>1
  <2> HIDE DEF update
  <2>3. /\ app' \in [busy : BOOLEAN, downloading : BOOLEAN, file : Types \cup {None},
                      channel : {None, "http", "uart"}, type : Types \cup {None},
                      led : BOOLEAN]
        /\ app'.busy = app.busy /\ app'.downloading = app.downloading
        /\ app'.file = app.file
    BY <1>1, <1>3, <1>5, <2>1
  <2> QED
    BY <2>1, <2>2, <2>3
<1> QED
  BY <1>4, <1>5

LEMMA FaultBound == CrossTypeOK /\ Fault => faults' \in 0 .. MaxFaults
BY CrossAssumption DEF CrossTypeOK, Fault

\* Without a buffer nobody has the UART; with one, a serial DFU runs that has it.
LEMMA LendReturns ==
  ASSUME NEW u \in [owner : {"cmd", "dfu", "none"}, asked : {None, "ping", "enter"},
                    dfu : {"no", "thread", "isr"}, leaked : 0 .. Heap],
         NEW context \in {"thread", "isr"}, u.dfu = "no"
  PROVE  /\ Lend(u, context) \in [owner : {"cmd", "dfu", "none"},
                                  asked : {None, "ping", "enter"},
                                  dfu : {"no", "thread", "isr"}, leaked : 0 .. Heap]
         /\ \/ Lend(u, context).dfu = context
            \/ /\ Lend(u, context).owner = "none"
               /\ Lend(u, context).leaked = Heap
<1>1. Heap \in Nat
  BY CrossAssumption
<1>2. CASE u.leaked = Heap
  BY <1>2 DEF Lend
<1>3. CASE u.leaked # Heap
  <2>1. u.leaked + 1 \in 0 .. Heap
    BY <1>1, <1>3
  <2> QED
    BY <1>3, <2>1 DEF Lend
<1> QED
  BY <1>2, <1>3

-----------------------------------------------------------------------------
(* The invariant.                                                           *)

LEMMA InitInv == Init => Inv
<1> SUFFICES ASSUME Init PROVE Inv
  OBVIOUS
<1>1. wk \in Queue /\ \A x : ~Contains(wk, x)
  BY EmptyQueue DEF Init
<1>2. CrossTypeOK
  <2>1. /\ Blocks \in Nat /\ Heap \in Nat /\ MaxPress \in Nat /\ MaxSends \in Nat
        /\ MaxFaults \in Nat
    BY CrossAssumption
  <2>2. bank \in [1 .. Blocks -> Pages]
    BY DEF Init, Pages
  <2>3. wk \in Seq(Items) /\ IsInjective(wk)
    BY <1>1 DEF Queue
  <2>4. /\ app \in [busy : BOOLEAN, downloading : BOOLEAN, file : Types \cup {None},
                    channel : {None, "http", "uart"}, type : Types \cup {None},
                    led : BOOLEAN]
        /\ evt = "none" /\ fota = None
        /\ flag \in BOOLEAN /\ reported \in BOOLEAN
    BY DEF Init
  <2>5. /\ send \in [at : {"none", "info", "erase", "write", "done"},
                     file : UartFiles \cup {None}, n : 0 .. Blocks]
        /\ uart \in [owner : {"cmd", "dfu", "none"}, asked : {None, "ping", "enter"},
                     dfu : {"no", "thread", "isr"}, leaked : 0 .. Heap]
    BY <2>1 DEF Init
  <2>6. /\ presses \in 0 .. MaxPress /\ sends \in 0 .. MaxSends
        /\ faults \in 0 .. MaxFaults /\ peer = "app" /\ modem = "none"
        /\ writer = "none"
    BY <2>1 DEF Init
  <2> QED
    BY <2>2, <2>3, <2>4, <2>5, <2>6 DEF CrossTypeOK
<1>3. FilesKnown /\ OneDownload /\ EventEnds /\ UartReturned
  BY <1>1 DEF Init, FilesKnown, OneDownload, EventEnds, UartReturned
<1> QED
  BY <1>2, <1>3 DEF Inv

\* A step of the work queue.
LEMMA WorkInv ==
  ASSUME Inv, Work
  PROVE  Inv'
<1> USE DEF Inv
<1>1. /\ wk \in Queue /\ wk # <<>> /\ Head(wk) \in Items
      /\ UNCHANGED <<evt, presses, sends>> /\ uart.dfu = "no"
  BY DEF Work, CrossTypeOK, Queue
<1>2. /\ Tail(wk) \in Queue /\ ~Contains(Tail(wk), Head(wk))
      /\ \A x : Contains(Tail(wk), x) => Contains(wk, x)
      /\ Contains(wk, Head(wk))
  BY <1>1, TakeFirst
<1>3. CASE RunFlag
  <2>1. flag' \in BOOLEAN
    BY <1>3 DEF RunFlag, CrossTypeOK
  <2>2. modem' \in {"none", "whole", "broken"}
    BY <1>3 DEF RunFlag, CrossTypeOK
  <2>3. /\ wk' = Tail(wk)
        /\ UNCHANGED <<app, send, fota, uart, peer, bank, writer, reported, faults>>
    BY <1>3 DEF RunFlag, history
  <2>4. CrossTypeOK'
    BY <1>1, <1>2, <2>1, <2>2, <2>3 DEF CrossTypeOK, Queue
  <2>5. (FilesKnown /\ OneDownload /\ EventEnds /\ UartReturned)'
    BY <1>1, <1>2, <2>3 DEF FilesKnown, OneDownload, EventEnds, UartReturned
  <2> QED
    BY <2>4, <2>5
<1>4. CASE RunHttp
  <2>1. app.file \in HttpFiles /\ fota = None /\ app.downloading /\ app.busy
    BY <1>2, <1>4 DEF RunHttp, FilesKnown, OneDownload
  <2>2. CrossTypeOK'
    <3>1. /\ wk' \in Queue
          /\ UNCHANGED <<app, evt, send, uart, peer, flash, history, presses, sends>>
      BY <1>1, <1>2, <1>4 DEF RunHttp
    <3>2. fota' \in [file : HttpFiles, n : 0 .. Blocks] \cup {None}
      BY <1>1, <1>4, <2>1, CrossAssumption DEF RunHttp, CrossTypeOK
    <3>3. faults' \in 0 .. MaxFaults
      BY <1>1, <1>4, FaultBound DEF RunHttp, CrossTypeOK
    <3> QED
      BY <1>1, <3>1, <3>2, <3>3 DEF CrossTypeOK, Queue, flash, history
  <2>3. (FilesKnown /\ OneDownload /\ EventEnds /\ UartReturned)'
    BY <1>1, <1>2, <1>4, <2>1
       DEF RunHttp, FilesKnown, OneDownload, EventEnds, UartReturned
  <2> QED
    BY <2>2, <2>3
<1>5. CASE RunReq
  <2>1. /\ wk' \in Queue
        /\ \A x : Contains(wk', x) => Contains(wk, x) \/ x = "flag"
        /\ app'.busy = app.busy /\ app'.downloading = app.downloading
        /\ app'.file = app.file
        /\ app' \in [busy : BOOLEAN, downloading : BOOLEAN, file : Types \cup {None},
                     channel : {None, "http", "uart"}, type : Types \cup {None},
                     led : BOOLEAN]
        /\ writer' = writer /\ reported' \in BOOLEAN
    <3>1. CASE send.at = "done"
      <4>1. PICK t \in dfu_file_type : dfu_file_ready(t, "uart", Tail(wk))
        BY <1>5, <3>1 DEF RunReq
      <4> QED
        BY <1>2, <4>1, ReadyKeeps
    <3>2. CASE send.at # "done"
      <4>1. wk' = Tail(wk) /\ UNCHANGED <<app, writer, reported>>
        BY <1>5, <3>2 DEF RunReq, history
      <4> QED
        BY <1>2, <4>1 DEF CrossTypeOK
    <3> QED
      BY <3>1, <3>2
  <2>2. bank' \in [1 .. Blocks -> Pages]
    <3>1. CASE send.at = "write"
      <4>1. send.n + 1 \in 1 .. Blocks /\ send.file \in UartFiles
        BY <3>1, CrossAssumption DEF FilesKnown, CrossTypeOK
      <4>2. <<"uart", send.file>> \in Pages /\ Mixed \in Pages
        BY <4>1, CrossAssumption DEF Pages
      <4> QED
        BY <1>5, <3>1, <4>2 DEF RunReq, CrossTypeOK
    <3>2. CASE send.at # "write"
      BY <1>5, <3>2 DEF RunReq, CrossTypeOK, Pages
    <3> QED
      BY <3>1, <3>2
  <2>3. /\ send' \in [at : {"none", "info", "erase", "write", "done"},
                      file : UartFiles \cup {None}, n : 0 .. Blocks]
        /\ send'.at # "none" => send'.file \in UartFiles
        /\ send'.at \in {"info", "erase", "write"} => send'.n < Blocks
    <3>1. /\ send \in [at : {"none", "info", "erase", "write", "done"},
                       file : UartFiles \cup {None}, n : 0 .. Blocks]
          /\ send.at # "none" => send.file \in UartFiles
          /\ send.at \in {"info", "erase", "write"} => send.n < Blocks
          /\ Blocks \in Nat
      BY CrossAssumption DEF CrossTypeOK, FilesKnown
    <3>2. CASE send.at = "info"
      BY <1>5, <3>1, <3>2 DEF RunReq
    <3>3. CASE send.at = "erase"
      BY <1>5, <3>1, <3>3 DEF RunReq
    <3>4. CASE send.at = "write"
      <4>1. send' = [send EXCEPT !.n = send.n + 1,
                                 !.at = IF send.n + 1 = Blocks THEN "done" ELSE @]
        BY <1>5, <3>4 DEF RunReq
      <4>2. send.n + 1 \in 0 .. Blocks /\ (send.n + 1 # Blocks => send.n + 1 < Blocks)
        BY <3>1, <3>4
      <4>3. /\ send'.n = send.n + 1 /\ send'.file = send.file
            /\ send'.at = IF send.n + 1 = Blocks THEN "done" ELSE "write"
            /\ send' \in [at : {"done", "write"}, file : {send.file}, n : 0 .. Blocks]
        BY <3>1, <3>4, <4>1, <4>2
      <4> QED
        BY <3>1, <3>4, <4>2, <4>3
    <3>5. CASE send.at = "done"
      BY <1>5, <3>1, <3>5 DEF RunReq, Idle
    <3> QED
      BY <1>5, <3>2, <3>3, <3>4, <3>5 DEF RunReq
  <2>4. UNCHANGED <<fota, uart, peer, flag, modem, faults>>
    BY <1>5 DEF RunReq
  <2>5. CrossTypeOK'
    BY <1>1, <2>1, <2>2, <2>3, <2>4 DEF CrossTypeOK, Queue
  <2>6. (FilesKnown /\ OneDownload /\ EventEnds /\ UartReturned)'
    BY <1>1, <2>1, <2>3, <2>4 DEF FilesKnown, OneDownload, EventEnds, UartReturned
  <2> QED
    BY <2>5, <2>6
<1>6. CASE RunRsp
  <2>1. /\ wk' \in Queue
        /\ \A x : Contains(wk', x) => Contains(wk, x) \/ x = "dfu"
    <3>1. wk' = Tail(wk) \/ wk' = Submit(Tail(wk), "dfu")
      BY <1>6 DEF RunRsp
    <3>2. /\ Submit(Tail(wk), "dfu") \in Queue
          /\ \A x : Contains(Submit(Tail(wk), "dfu"), x) <=> Contains(Tail(wk), x) \/ x = "dfu"
      BY <1>2, Submitted DEF Items
    <3> QED
      BY <1>2, <3>1, <3>2
  <2>2. CrossTypeOK'
    BY <1>1, <1>6, <2>1 DEF RunRsp, CrossTypeOK, Queue, flash, history
  <2>3. (FilesKnown /\ OneDownload /\ EventEnds /\ UartReturned)'
    BY <1>1, <1>6, <2>1
       DEF RunRsp, CrossTypeOK, FilesKnown, OneDownload, EventEnds, UartReturned
  <2> QED
    BY <2>2, <2>3
<1>7. CASE RunDfu
  <2>1. /\ uart' \in [owner : {"cmd", "dfu", "none"}, asked : {None, "ping", "enter"},
                      dfu : {"no", "thread", "isr"}, leaked : 0 .. Heap]
        /\ UartReturned'
    <3>1. uart \in [owner : {"cmd", "dfu", "none"}, asked : {None, "ping", "enter"},
                    dfu : {"no", "thread", "isr"}, leaked : 0 .. Heap]
      BY DEF CrossTypeOK
    <3> QED
      BY <1>1, <1>7, <3>1, LendReturns DEF RunDfu, UartReturned
  <2>2. /\ wk' = Tail(wk)
        /\ UNCHANGED <<app, fota, send, peer, bank, flag, modem, writer, reported, faults>>
    BY <1>7 DEF RunDfu, flash, history
  <2>3. CrossTypeOK'
    BY <1>1, <1>2, <2>1, <2>2 DEF CrossTypeOK, Queue
  <2>4. (FilesKnown /\ OneDownload /\ EventEnds)'
    BY <1>1, <1>2, <2>2 DEF FilesKnown, OneDownload, EventEnds
  <2> QED
    BY <2>1, <2>3, <2>4
<1> QED
  BY <1>3, <1>4, <1>5, <1>6, <1>7 DEF Work

\* A step of the thread of the FOTA library.
LEMMA FotaInv ==
  ASSUME Inv, Fota \/ FotaError
  PROVE  Inv'
<1> USE DEF Inv
<1>1. /\ wk \in Queue
      /\ app \in [busy : BOOLEAN, downloading : BOOLEAN, file : Types \cup {None},
                  channel : {None, "http", "uart"}, type : Types \cup {None},
                  led : BOOLEAN]
  BY DEF CrossTypeOK, Queue
<1>2. CASE FotaWrite
  <2>1. fota.n + 1 \in 1 .. Blocks /\ <<"http", fota.file>> \in Pages
    BY <1>2, CrossAssumption DEF FotaWrite, CrossTypeOK, Pages, Types
  <2>2. bank' \in [1 .. Blocks -> Pages]
    BY <1>2, <2>1 DEF FotaWrite, CrossTypeOK
  <2>3. fota' \in [file : HttpFiles, n : 0 .. Blocks]
    <3>1. fota \in [file : HttpFiles, n : 0 .. Blocks]
      BY <1>2 DEF FotaWrite, CrossTypeOK
    <3> QED
      BY <1>2, <2>1, <3>1 DEF FotaWrite
  <2>4. /\ UNCHANGED <<app, evt, wk, send, uart, peer, flag, modem, writer, reported>>
        /\ UNCHANGED <<presses, sends, faults>> /\ fota # None /\ evt = "none"
    BY <1>2 DEF FotaWrite, history, bounds
  <2>5. CrossTypeOK'
    BY <2>2, <2>3, <2>4 DEF CrossTypeOK
  <2>6. (FilesKnown /\ OneDownload /\ EventEnds /\ UartReturned)'
    BY <2>4 DEF FilesKnown, OneDownload, EventEnds, UartReturned
  <2> QED
    BY <2>5, <2>6
<1>3. CASE FotaDone \/ FotaError
  <2>1. /\ fota # None /\ fota' = None /\ evt' \in {"finished", "error"}
        /\ app' = [app EXCEPT !.downloading = FALSE]
        /\ UNCHANGED <<wk, send, uart, peer, bank, modem, writer, reported>>
        /\ UNCHANGED <<presses, sends>>
        /\ flag' \in BOOLEAN /\ faults' \in 0 .. MaxFaults
    <3>1. CASE FotaDone
      BY <3>1 DEF FotaDone, CrossTypeOK, history, bounds
    <3>2. CASE FotaError
      <4>1. faults' \in 0 .. MaxFaults
        BY <3>2, FaultBound DEF FotaError
      <4> QED
        BY <3>2, <4>1 DEF FotaError, CrossTypeOK, flash, history
    <3> QED
      BY <1>3, <3>1, <3>2
  <2>2. /\ app' \in [busy : BOOLEAN, downloading : BOOLEAN, file : Types \cup {None},
                     channel : {None, "http", "uart"}, type : Types \cup {None},
                     led : BOOLEAN]
        /\ app'.busy = app.busy /\ ~app'.downloading /\ app'.file = app.file
    BY <1>1, <2>1
  <2>3. CrossTypeOK'
    BY <2>1, <2>2 DEF CrossTypeOK
  <2>4. (FilesKnown /\ OneDownload /\ EventEnds /\ UartReturned)'
    BY <2>1, <2>2 DEF FilesKnown, OneDownload, EventEnds, UartReturned
  <2> QED
    BY <2>3, <2>4
<1>4. CASE ClearBusy
  <2>1. /\ evt \in {"finished", "error"} /\ evt' \in {"ready", "none"}
        /\ app' = [app EXCEPT !.busy = FALSE]
        /\ UNCHANGED <<fota, wk, send, uart, peer, bank, flag, modem, writer, reported>>
        /\ UNCHANGED <<presses, sends, faults>>
    BY <1>4 DEF ClearBusy, flash, history, bounds
  <2>2. /\ app' \in [busy : BOOLEAN, downloading : BOOLEAN, file : Types \cup {None},
                     channel : {None, "http", "uart"}, type : Types \cup {None},
                     led : BOOLEAN]
        /\ app'.downloading = app.downloading /\ app'.file = app.file
    BY <1>1, <2>1
  <2>3. CrossTypeOK'
    BY <2>1, <2>2 DEF CrossTypeOK
  <2>4. (FilesKnown /\ OneDownload /\ EventEnds /\ UartReturned)'
    BY <2>1, <2>2 DEF FilesKnown, OneDownload, EventEnds, UartReturned
  <2> QED
    BY <2>3, <2>4
<1>5. CASE FileReady
  <2>1. PICK t \in dfu_file_type : dfu_file_ready(t, app.channel, wk)
    BY <1>5 DEF FileReady
  <2>2. /\ app' \in [busy : BOOLEAN, downloading : BOOLEAN, file : Types \cup {None},
                     channel : {None, "http", "uart"}, type : Types \cup {None},
                     led : BOOLEAN]
        /\ app'.busy = app.busy /\ app'.downloading = app.downloading
        /\ app'.file = app.file
        /\ wk' \in Queue /\ \A x : Contains(wk', x) => Contains(wk, x) \/ x = "flag"
        /\ writer' = writer /\ reported' \in BOOLEAN
    <3>1. app.channel \in {"http", "uart"} \cup {None}
      BY <1>1
    <3> QED
      BY <1>1, <2>1, <3>1, ReadyKeeps
  <2>3. /\ evt' = "none" /\ UNCHANGED <<fota, send, uart, peer, bank, flag, modem>>
        /\ UNCHANGED <<presses, sends, faults>>
    BY <1>5 DEF FileReady, flash, bounds
  <2>4. CrossTypeOK'
    BY <2>2, <2>3 DEF CrossTypeOK, Queue
  <2>5. (FilesKnown /\ OneDownload /\ EventEnds /\ UartReturned)'
    BY <2>2, <2>3 DEF FilesKnown, OneDownload, EventEnds, UartReturned
  <2> QED
    BY <2>4, <2>5
<1> QED
  BY <1>2, <1>3, <1>4, <1>5 DEF Fota

\* A press of the button that starts a download.
LEMMA Button1Inv ==
  ASSUME Inv, Button1
  PROVE  Inv'
<1> USE DEF Inv
<1>1. /\ wk \in Queue /\ ~app.busy /\ ~app.downloading
      /\ fota = None /\ evt \notin {"finished", "error"}
      /\ app \in [busy : BOOLEAN, downloading : BOOLEAN, file : Types \cup {None},
                  channel : {None, "http", "uart"}, type : Types \cup {None},
                  led : BOOLEAN]
  BY DEF CrossTypeOK, Queue, Button1, OneDownload, EventEnds
<1>2. /\ UNCHANGED <<evt, fota, send, uart, peer, bank, flag, modem, sends, faults>>
      /\ presses' \in 0 .. MaxPress
  <2>1. presses \in 0 .. MaxPress /\ MaxPress \in Nat
    BY CrossAssumption DEF CrossTypeOK
  <2>2. presses < MaxPress /\ presses' = presses + 1
    BY DEF Button1
  <2>3. UNCHANGED <<evt, fota, send, uart, peer, bank, flag, modem, sends, faults>>
    BY DEF Button1, flash
  <2> QED
    BY <2>1, <2>2, <2>3
<1>3. CASE app' = [app EXCEPT !.led = FALSE] /\ UNCHANGED <<wk, history>>
  <2>1. /\ app' \in [busy : BOOLEAN, downloading : BOOLEAN, file : Types \cup {None},
                     channel : {None, "http", "uart"}, type : Types \cup {None},
                     led : BOOLEAN]
        /\ app'.busy = app.busy /\ app'.downloading = app.downloading
        /\ app'.file = app.file /\ wk' = wk /\ UNCHANGED <<writer, reported>>
    BY <1>1, <1>3 DEF history
  <2>2. CrossTypeOK'
    BY <1>2, <2>1 DEF CrossTypeOK
  <2>3. (FilesKnown /\ OneDownload /\ EventEnds /\ UartReturned)'
    BY <1>2, <2>1 DEF FilesKnown, OneDownload, EventEnds, UartReturned
  <2> QED
    BY <2>2, <2>3
<1>4. ASSUME NEW f \in HttpFiles,
             app' = [app EXCEPT !.led = FALSE, !.channel = "http", !.busy = TRUE,
                                !.downloading = TRUE,
                                !.file = IF app.downloading THEN @ ELSE f],
             wk' = IF app.downloading THEN wk ELSE Submit(wk, "http"),
             Begin("http", evt # "none" \/ send.at # "none")
      PROVE  Inv'
  <2>1. /\ app' \in [busy : BOOLEAN, downloading : BOOLEAN, file : Types \cup {None},
                     channel : {None, "http", "uart"}, type : Types \cup {None},
                     led : BOOLEAN]
        /\ app'.busy /\ app'.downloading /\ app'.file = f
    BY <1>1, <1>4, CrossAssumption DEF Types
  <2>2. wk' \in Queue /\ \A x : Contains(wk', x) => Contains(wk, x) \/ x = "http"
    BY <1>1, <1>4, Submitted DEF Items
  <2>3. writer' \in {"none", "http", "uart", "both"} /\ reported' \in BOOLEAN
    BY <1>4 DEF Begin
  <2>4. wk' \in Seq(Items) /\ IsInjective(wk')
    BY <2>2 DEF Queue
  <2>5. CrossTypeOK'
    BY <1>2, <2>1, <2>3, <2>4 DEF CrossTypeOK
  <2>6. (FilesKnown /\ OneDownload /\ EventEnds /\ UartReturned)'
    BY <1>1, <1>2, <2>1, <2>2
       DEF FilesKnown, OneDownload, EventEnds, UartReturned
  <2> QED
    BY <2>5, <2>6
<1> QED
  BY <1>3, <1>4 DEF Button1

\* A reset: from the second button, or without power.
LEMMA RebootInv ==
  ASSUME Inv, Reboot, peer' = peer, presses' \in 0 .. MaxPress, sends' = sends,
         faults' \in 0 .. MaxFaults
  PROVE  Inv'
<1> USE DEF Inv
<1>1. wk' \in Queue /\ \A x : ~Contains(wk', x)
  BY EmptyQueue DEF Reboot
<1>2. bank' \in [1 .. Blocks -> Pages]
  <2>1. Blank \in Pages /\ <<"swap", "nrf91">> \in Pages
    BY DEF Pages, Types
  <2>2. \/ bank' = bank
        \/ bank' = [k \in 1 .. Blocks |-> <<"swap", "nrf91">>]
        \/ bank' = [k \in 1 .. Blocks |-> Blank]
    BY DEF Reboot
  <2> QED
    BY <2>1, <2>2 DEF CrossTypeOK
<1>3. /\ app' \in [busy : BOOLEAN, downloading : BOOLEAN, file : Types \cup {None},
                   channel : {None, "http", "uart"}, type : Types \cup {None},
                   led : BOOLEAN]
      /\ ~app'.downloading /\ evt' = "none" /\ fota' = None
      /\ flag' = FALSE /\ modem' = "none" /\ writer' = "none" /\ reported' = FALSE
  BY DEF Reboot
<1>4. /\ send' \in [at : {"none", "info", "erase", "write", "done"},
                    file : UartFiles \cup {None}, n : 0 .. Blocks]
      /\ send'.at = "none"
      /\ uart' \in [owner : {"cmd", "dfu", "none"}, asked : {None, "ping", "enter"},
                    dfu : {"no", "thread", "isr"}, leaked : 0 .. Heap]
      /\ uart'.owner = "cmd"
  <2>1. Blocks \in Nat /\ Heap \in Nat
    BY CrossAssumption
  <2> QED
    BY <2>1 DEF Reboot, Idle
<1>5. CrossTypeOK'
  <2>1. wk' \in Seq(Items) /\ IsInjective(wk')
    BY <1>1 DEF Queue
  <2> QED
    BY <1>2, <1>3, <1>4, <2>1 DEF CrossTypeOK
<1>6. (FilesKnown /\ OneDownload /\ EventEnds /\ UartReturned)'
  BY <1>1, <1>3, <1>4 DEF FilesKnown, OneDownload, EventEnds, UartReturned
<1> QED
  BY <1>5, <1>6

\* The second button, and a power cut.
LEMMA ResetInv ==
  ASSUME Inv, Button2 \/ PowerCut
  PROVE  Inv'
<1> USE DEF Inv
<1>1. CASE PowerCut
  BY <1>1, FaultBound, RebootInv DEF PowerCut, CrossTypeOK
<1>2. CASE Button2
  <2>1. /\ presses' \in 0 .. MaxPress /\ peer' = peer /\ sends' = sends
        /\ faults' = faults /\ faults \in 0 .. MaxFaults
    <3>1. presses \in 0 .. MaxPress /\ MaxPress \in Nat /\ faults \in 0 .. MaxFaults
      BY CrossAssumption DEF CrossTypeOK
    <3>2. /\ presses < MaxPress /\ presses' = presses + 1
          /\ UNCHANGED <<peer, sends, faults>>
      BY <1>2 DEF Button2
    <3> QED
      BY <3>1, <3>2
  <2>2. CASE Reboot
    BY <2>1, <2>2, RebootInv
  <2>3. CASE /\ uart' = [uart EXCEPT !.asked = IF Free THEN "ping" ELSE @]
             /\ UNCHANGED <<app, evt, fota, wk, send, flash, history>>
    <3>1. /\ uart' \in [owner : {"cmd", "dfu", "none"}, asked : {None, "ping", "enter"},
                        dfu : {"no", "thread", "isr"}, leaked : 0 .. Heap]
          /\ uart'.owner = uart.owner /\ uart'.dfu = uart.dfu
          /\ uart'.leaked = uart.leaked
      BY <2>3 DEF CrossTypeOK
    <3>2. UNCHANGED <<app, evt, fota, wk, send, bank, flag, modem, writer, reported>>
      BY <2>3 DEF flash, history
    <3>3. CrossTypeOK'
      BY <2>1, <3>1, <3>2 DEF CrossTypeOK
    <3>4. (FilesKnown /\ OneDownload /\ EventEnds /\ UartReturned)'
      BY <3>1, <3>2 DEF FilesKnown, OneDownload, EventEnds, UartReturned
    <3> QED
      BY <3>3, <3>4
  <2> QED
    BY <1>2, <2>2, <2>3 DEF Button2
<1> QED
  BY <1>1, <1>2

\* The nRF52 begins a transfer, or a request of it is received.
LEMMA SenderInv ==
  ASSUME Inv, SendStart \/ Request
  PROVE  Inv'
<1> USE DEF Inv
<1>1. wk \in Queue /\ Blocks \in Nat \ {0}
  BY CrossAssumption DEF CrossTypeOK, Queue
<1>2. CASE SendStart
  <2>1. PICK f \in UartFiles : send' = [at |-> "info", file |-> f, n |-> 0]
    BY <1>2 DEF SendStart
  <2>2. sends' \in 0 .. MaxSends
    <3>1. sends \in 0 .. MaxSends /\ MaxSends \in Nat
      BY CrossAssumption DEF CrossTypeOK
    <3>2. sends < MaxSends /\ sends' = sends + 1
      BY <1>2 DEF SendStart
    <3> QED
      BY <3>1, <3>2
  <2>3. /\ writer' \in {"none", "http", "uart", "both"} /\ reported' \in BOOLEAN
        /\ UNCHANGED <<app, evt, fota, wk, uart, peer, bank, flag, modem, presses, faults>>
    BY <1>2 DEF SendStart, Begin, flash
  <2>4. CrossTypeOK'
    BY <1>1, <2>1, <2>2, <2>3 DEF CrossTypeOK
  <2>5. (FilesKnown /\ OneDownload /\ EventEnds /\ UartReturned)'
    BY <1>1, <2>1, <2>3 DEF FilesKnown, OneDownload, EventEnds, UartReturned
  <2> QED
    BY <2>4, <2>5
<1>3. CASE Request
  <2>1. /\ UNCHANGED <<app, evt, fota, uart, peer, bank, flag, modem, writer, reported>>
        /\ UNCHANGED <<presses, sends>>
    BY <1>3 DEF Request, flash, history
  <2>2. faults' \in 0 .. MaxFaults
    BY <1>3, FaultBound DEF Request, CrossTypeOK
  <2>3. wk' \in Queue /\ \A x : Contains(wk', x) => Contains(wk, x) \/ x = "req"
    <3>1. wk' = wk \/ wk' = Append(wk, "req")
      BY <1>3 DEF Request
    <3>2. ~Contains(wk, "req")
      BY <1>3 DEF Request
    <3> QED
      BY <1>1, <3>1, <3>2, AddNew DEF Items
  <2>4. send' = send \/ send' = Idle
    BY <1>3 DEF Request
  <2>5. CrossTypeOK'
    <3>1. wk' \in Seq(Items) /\ IsInjective(wk')
      BY <2>3 DEF Queue
    <3>2. send' \in [at : {"none", "info", "erase", "write", "done"},
                     file : UartFiles \cup {None}, n : 0 .. Blocks]
      BY <1>1, <2>4 DEF CrossTypeOK, Idle
    <3> QED
      BY <2>1, <2>2, <3>1, <3>2 DEF CrossTypeOK
  <2>6. (FilesKnown /\ OneDownload /\ EventEnds /\ UartReturned)'
    BY <2>1, <2>3, <2>4 DEF FilesKnown, OneDownload, EventEnds, UartReturned, Idle
  <2> QED
    BY <2>5, <2>6
<1> QED
  BY <1>2, <1>3

\* The answer of the nRF52, the timer that waits for it, the end of serial DFU, and of a
\* bootloader that waits for it in vain.
LEMMA ExchangeInv ==
  ASSUME Inv, Answer \/ Timeout \/ DfuEnd \/ BootloaderLeaves
  PROVE  Inv'
<1> USE DEF Inv
<1>1. /\ wk \in Queue /\ Blocks \in Nat \ {0}
      /\ uart \in [owner : {"cmd", "dfu", "none"}, asked : {None, "ping", "enter"},
                   dfu : {"no", "thread", "isr"}, leaked : 0 .. Heap]
  BY CrossAssumption DEF CrossTypeOK, Queue
<1>2. CASE Answer
  <2>1. wk' \in Queue /\ \A x : Contains(wk', x) => Contains(wk, x) \/ x = "rsp"
    BY <1>1, <1>2, AddNew DEF Answer, Items
  <2>2. /\ UNCHANGED <<app, evt, fota, uart, bank, flag, modem, writer, reported>>
        /\ UNCHANGED <<presses, sends, faults>>
        /\ peer' \in {"app", "bl"} /\ send' \in {send, Idle}
    BY <1>2 DEF Answer, flash, history, bounds
  <2>3. CrossTypeOK'
    <3>1. wk' \in Seq(Items) /\ IsInjective(wk')
      BY <2>1 DEF Queue
    <3>2. send' \in [at : {"none", "info", "erase", "write", "done"},
                     file : UartFiles \cup {None}, n : 0 .. Blocks]
      BY <1>1, <2>2 DEF CrossTypeOK, Idle
    <3> QED
      BY <2>2, <3>1, <3>2 DEF CrossTypeOK
  <2>4. (FilesKnown /\ OneDownload /\ EventEnds /\ UartReturned)'
    BY <2>1, <2>2 DEF FilesKnown, OneDownload, EventEnds, UartReturned, Idle
  <2> QED
    BY <2>3, <2>4
<1>3. CASE Timeout
  <2>1. /\ UNCHANGED <<app, evt, fota, send, peer, bank, flag, modem, writer, reported>>
        /\ UNCHANGED <<presses, sends>>
    BY <1>3 DEF Timeout, flash, history
  <2>2. faults' \in 0 .. MaxFaults
    BY <1>3, FaultBound DEF Timeout, CrossTypeOK
  <2>3. wk' \in Queue /\ \A x : Contains(wk', x) => Contains(wk, x) \/ x = "dfu"
    <3>1. wk' = wk \/ wk' = Submit(wk, "dfu")
      BY <1>3 DEF Timeout
    <3> QED
      BY <1>1, <3>1, Submitted DEF Items
  <2>4. /\ uart' \in [owner : {"cmd", "dfu", "none"}, asked : {None, "ping", "enter"},
                      dfu : {"no", "thread", "isr"}, leaked : 0 .. Heap]
        /\ UartReturned'
    <3> DEFINE over == [uart EXCEPT !.asked = None]
    <3>1. /\ over \in [owner : {"cmd", "dfu", "none"}, asked : {None, "ping", "enter"},
                       dfu : {"no", "thread", "isr"}, leaked : 0 .. Heap]
          /\ over.dfu = "no" /\ over.owner = "cmd"
      BY <1>1, <1>3 DEF Timeout
    <3>2. uart' = Lend(over, "isr") \/ uart' = over
      BY <1>3 DEF Timeout
    <3> HIDE DEF over
    <3> QED
      BY <3>1, <3>2, LendReturns DEF UartReturned
  <2>5. CrossTypeOK'
    <3>1. wk' \in Seq(Items) /\ IsInjective(wk')
      BY <2>3 DEF Queue
    <3> QED
      BY <2>1, <2>2, <2>4, <3>1 DEF CrossTypeOK
  <2>6. (FilesKnown /\ OneDownload /\ EventEnds)'
    BY <2>1, <2>3 DEF FilesKnown, OneDownload, EventEnds
  <2> QED
    BY <2>4, <2>5, <2>6
<1>4. CASE DfuEnd
  <2>1. /\ UNCHANGED <<app, evt, fota, wk, send, bank, flag, modem, writer, reported>>
        /\ UNCHANGED <<presses, sends>>
        /\ uart' = [uart EXCEPT !.owner = "cmd", !.dfu = "no", !.asked = None]
    BY <1>4 DEF DfuEnd, flash, history
  <2>2. peer' \in {"app", "bl"} /\ faults' \in 0 .. MaxFaults
    BY <1>4, FaultBound DEF DfuEnd, CrossTypeOK
  <2>3. /\ uart' \in [owner : {"cmd", "dfu", "none"}, asked : {None, "ping", "enter"},
                      dfu : {"no", "thread", "isr"}, leaked : 0 .. Heap]
        /\ uart'.owner = "cmd"
    BY <1>1, <2>1
  <2>4. CrossTypeOK'
    BY <2>1, <2>2, <2>3 DEF CrossTypeOK
  <2>5. (FilesKnown /\ OneDownload /\ EventEnds /\ UartReturned)'
    BY <2>1, <2>3 DEF FilesKnown, OneDownload, EventEnds, UartReturned
  <2> QED
    BY <2>4, <2>5
<1>5. CASE BootloaderLeaves
  <2>1. /\ UNCHANGED <<app, evt, fota, wk, send, uart, bank, flag, modem, writer, reported>>
        /\ UNCHANGED <<presses, sends, faults>> /\ peer' = "app"
    BY <1>5 DEF BootloaderLeaves, flash, history, bounds
  <2> QED
    BY <2>1 DEF CrossTypeOK, FilesKnown, OneDownload, EventEnds, UartReturned
<1> QED
  BY <1>2, <1>3, <1>4, <1>5

LEMMA NextInv == Inv /\ [Next]_vars => Inv'
<1>1. ASSUME Inv, UNCHANGED vars PROVE Inv'
  BY <1>1 DEF Inv, vars, flash, history, bounds, CrossTypeOK, FilesKnown, OneDownload,
              EventEnds, UartReturned
<1>2. ASSUME Inv, Next PROVE Inv'
  BY <1>2, WorkInv, FotaInv, Button1Inv, ResetInv, SenderInv, ExchangeInv DEF Next
<1> QED
  BY <1>1, <1>2

LEMMA Invariance == Spec => []Inv
BY InitInv, NextInv, PTL DEF Spec


-----------------------------------------------------------------------------
(* The file in the bank.                                                    *)

\* A route has filled the bank with a file of type t.
Filled(route, t) == \A k \in 1 .. Blocks : bank[k] = <<route, t>>

\* The flag is updated before the next download is asked for.
FlagBefore(q) ==
  \A i, j \in 1 .. Len(q) : q[i] = "flag" /\ q[j] = "http" => i < j

\* Which route the bank belongs to: while only one has used it since it was begun, the
\* other one is at rest.
OneRoute ==
  /\ Contains(wk, "req") => send.at # "none" /\ uart.asked = None
  /\ send.at \in {"info", "erase"} => send.n = 0
  /\ writer = "http" => send.at = "none" /\ app.channel = "http"
  /\ writer = "uart" => ~app.busy /\ evt = "none"

\* A file for the flag of which nobody has to do anything, or the work item that does
\* it is in the queue.
HttpFlagged(t) ==
  /\ t = "nrf91" => flag /\ ~Contains(wk, "flag")
  /\ t = "nrf52" => IF Contains(wk, "flag") THEN app.type = "nrf52" ELSE ~flag
UartFlagged(t) ==
  t \in {"nrf91", "modem"} =>
    /\ app.type = t
    /\ \/ Contains(wk, "flag")
       \/ (t = "nrf91" => flag) /\ (t = "modem" => modem = "whole")

\* A file from the web server, from the press of the button until it is reported.  The
\* flag of the file before it was dealt with when its download begins, because the
\* work queue takes its items in their order.
HttpFile == writer = "http" =>
  /\ reported => ~app.busy /\ evt = "none"
  /\ evt = "ready" => ~app.busy
  /\ app.led => reported
  /\ Contains(wk, "http") => FlagBefore(wk) /\ evt = "none"
  /\ fota # None =>
       /\ evt = "none" /\ ~Contains(wk, "flag")
       /\ \A k \in 1 .. fota.n : bank[k] = <<"http", fota.file>>
  /\ evt \in {"finished", "ready"} =>
       flag /\ ~Contains(wk, "flag") /\ \E t \in HttpFiles : Filled("http", t)
  /\ reported => \E t \in HttpFiles : Filled("http", t) /\ HttpFlagged(t)

\* A file from the nRF52, from its first block until it is reported.
UartFile == writer = "uart" =>
  /\ send.at \in {"write", "done"} =>
       \A k \in 1 .. Blocks : bank[k] = IF k <= send.n THEN <<"uart", send.file>> ELSE Blank
  /\ send.at = "done" => send.n = Blocks
  /\ reported => send.at = "none"
                 /\ \E t \in UartFiles : Filled("uart", t) /\ UartFlagged(t)

Files == OneRoute /\ HttpFile /\ UartFile

\* What is in a queue after its first item is taken.
LEMMA TakeRest ==
  ASSUME NEW q \in Queue, q # <<>>
  PROVE  /\ \A x : Contains(q, x) <=> x = Head(q) \/ Contains(Tail(q), x)
         /\ ~Contains(Tail(q), Head(q))
         /\ FlagBefore(q) => FlagBefore(Tail(q))
         /\ FlagBefore(q) /\ Head(q) = "http" => ~Contains(q, "flag")
<1>1. q \in Seq(Items) /\ Len(q) \in Nat \ {0}
  BY DEF Queue
<1>2. Tail(q) \in Seq(Items) /\ Len(Tail(q)) = Len(q) - 1 /\ Head(q) = q[1]
  BY <1>1
<1>3. \A i \in 1 .. Len(Tail(q)) : Tail(q)[i] = q[i + 1] /\ i + 1 \in 1 .. Len(q)
  BY <1>1, <1>2
<1>4. \A i \in 1 .. Len(q) : i = 1 \/ (i - 1 \in 1 .. Len(Tail(q)) /\ q[i] = Tail(q)[i - 1])
  BY <1>1, <1>2
<1>5. \A x : Contains(q, x) => x = Head(q) \/ Contains(Tail(q), x)
  BY <1>2, <1>4 DEF Contains
<1>6. FlagBefore(q) => FlagBefore(Tail(q))
  <2> SUFFICES ASSUME FlagBefore(q),
                      NEW i \in 1 .. Len(Tail(q)), NEW j \in 1 .. Len(Tail(q)),
                      Tail(q)[i] = "flag", Tail(q)[j] = "http"
               PROVE  i < j
    BY DEF FlagBefore
  <2>1. i + 1 < j + 1
    BY <1>3 DEF FlagBefore
  <2> QED
    BY <1>1, <1>2, <2>1
<1>7. FlagBefore(q) /\ Head(q) = "http" => ~Contains(q, "flag")
  BY <1>1, <1>2 DEF FlagBefore, Contains
<1> QED
  BY <1>5, <1>6, <1>7, TakeFirst

\* Only the work item that updates the flag may end up behind a download.
LEMMA SubmitKeepsOrder ==
  ASSUME NEW q \in Queue, NEW x \in Items, x # "flag", FlagBefore(q)
  PROVE  FlagBefore(Append(q, x)) /\ FlagBefore(Submit(q, x))
<1>1. q \in Seq(Items) /\ Len(q) \in Nat
  BY DEF Queue
<1>2. /\ Len(Append(q, x)) = Len(q) + 1
      /\ \A i \in 1 .. Len(q) : Append(q, x)[i] = q[i]
      /\ Append(q, x)[Len(q) + 1] = x
  BY <1>1
<1>3. FlagBefore(Append(q, x))
  <2> SUFFICES ASSUME NEW i \in 1 .. Len(q) + 1, NEW j \in 1 .. Len(q) + 1,
                      Append(q, x)[i] = "flag", Append(q, x)[j] = "http"
               PROVE  i < j
    BY <1>2 DEF FlagBefore
  <2>1. i \in 1 .. Len(q)
    BY <1>1, <1>2
  <2>2. CASE j \in 1 .. Len(q)
    BY <1>2, <2>1, <2>2 DEF FlagBefore
  <2>3. CASE j = Len(q) + 1
    BY <1>1, <2>1, <2>3
  <2> QED
    BY <1>1, <2>2, <2>3
<1> QED
  BY <1>3 DEF Submit

\* The header of a bank that holds one file says its type.
LEMMA HeaderOfFile ==
  ASSUME NEW route \in {"http", "uart"}, NEW t \in Types, bank[1] = <<route, t>>,
         <<route, t>> \notin {Blank, Mixed}
  PROVE  dfu_file_type = {t}
BY DEF dfu_file_type

-----------------------------------------------------------------------------
(* Every step keeps what is known of the file in the bank.                  *)

\* Steps that touch neither the bank nor what was reported of it.
LEMMA Elsewhere ==
  ASSUME Inv, Files,
         UNCHANGED <<app, evt, fota, bank, flag, modem, writer, reported>>,
         send' \in {send, Idle},
         Contains(wk', "http") => Contains(wk, "http"),
         Contains(wk', "flag") <=> Contains(wk, "flag"),
         FlagBefore(wk) => FlagBefore(wk'),
         Contains(wk', "req") => send'.at # "none" /\ uart'.asked = None
  PROVE  Files'
<1>1. send'.at # "none" => send' = send
  BY DEF Idle
<1>2. OneRoute'
  BY <1>1 DEF Files, OneRoute
<1>3. \A r, t : Filled(r, t)' <=> Filled(r, t)
  BY DEF Filled
<1>4. \A t : (HttpFlagged(t) => HttpFlagged(t)') /\ (UartFlagged(t) => UartFlagged(t)')
  BY DEF HttpFlagged, UartFlagged
<1>5. HttpFile'
  BY <1>3, <1>4 DEF Files, HttpFile
<1>6. UartFile'
  BY <1>1, <1>3, <1>4 DEF Files, UartFile, Idle
<1> QED
  BY <1>2, <1>5, <1>6 DEF Files

\* The work item that updates the flag.
LEMMA RunFlagFiles ==
  ASSUME Inv, Files, Work, RunFlag
  PROVE  Files'
<1>1. /\ wk' = Tail(wk) /\ Head(wk) = "flag" /\ wk \in Queue /\ wk # <<>>
      /\ flag' = IF app.type = "nrf52" THEN FALSE ELSE flag \/ app.type = "nrf91"
      /\ modem' = IF app.type # "modem" THEN modem
                  ELSE IF Whole("modem") THEN "whole" ELSE "broken"
      /\ UNCHANGED <<app, evt, send, fota, uart, bank, writer, reported>>
  BY DEF RunFlag, Work, history, Inv, CrossTypeOK, Queue
<1>2. /\ \A x : x # "flag" => (Contains(wk', x) <=> Contains(wk, x))
      /\ ~Contains(wk', "flag") /\ Contains(wk, "flag")
      /\ FlagBefore(wk) => FlagBefore(wk')
  BY <1>1, TakeRest
<1>3. OneRoute'
  BY <1>1, <1>2 DEF Files, OneRoute
<1>4. \A r, t : Filled(r, t)' <=> Filled(r, t)
  BY <1>1 DEF Filled
<1>5. \A t : HttpFlagged(t) => HttpFlagged(t)'
  BY <1>1, <1>2 DEF HttpFlagged
<1>6. \A t : Filled("uart", t) /\ UartFlagged(t) => UartFlagged(t)'
  <2>1. Filled("uart", "modem") => Whole("modem")
    BY DEF Filled, Whole
  <2> QED
    BY <1>1, <2>1 DEF UartFlagged
<1>7. HttpFile'
  BY <1>1, <1>2, <1>4, <1>5 DEF Files, HttpFile
<1>8. UartFile'
  BY <1>1, <1>4, <1>6 DEF Files, UartFile
<1> QED
  BY <1>3, <1>7, <1>8 DEF Files

\* A download begins.
LEMMA RunHttpFiles ==
  ASSUME Inv, Files, Work, RunHttp
  PROVE  Files'
<1>1. /\ wk' = Tail(wk) /\ Head(wk) = "http" /\ wk \in Queue /\ wk # <<>>
      /\ UNCHANGED <<app, evt, send, uart, bank, flag, modem, writer, reported>>
      /\ fota' = fota \/ fota' = [file |-> app.file, n |-> 0]
  BY DEF RunHttp, Work, flash, history, Inv, CrossTypeOK, Queue
<1>2. /\ \A x : x # "http" => (Contains(wk', x) <=> Contains(wk, x))
      /\ ~Contains(wk', "http") /\ Contains(wk, "http")
      /\ FlagBefore(wk) => FlagBefore(wk') /\ ~Contains(wk', "flag")
  BY <1>1, TakeRest
<1>3. OneRoute'
  BY <1>1, <1>2 DEF Files, OneRoute
<1>4. \A r, t : Filled(r, t)' <=> Filled(r, t)
  BY <1>1 DEF Filled
<1>5. \A t : (HttpFlagged(t) => HttpFlagged(t)') /\ (UartFlagged(t) => UartFlagged(t)')
  BY <1>1, <1>2 DEF HttpFlagged, UartFlagged
<1>6. app.busy /\ fota = None
  BY <1>2 DEF Inv, OneDownload
<1>7. HttpFile'
  <2> SUFFICES ASSUME writer = "http" PROVE HttpFile'
    BY <1>1 DEF HttpFile
  <2>1. FlagBefore(wk) /\ evt = "none" /\ ~reported
    BY <1>2, <1>6 DEF Files, HttpFile
  <2>2. fota' # None => \A k \in 1 .. fota'.n : bank'[k] = <<"http", fota'.file>>
    BY <1>1, <1>6
  <2> QED
    BY <1>1, <1>2, <2>1, <2>2 DEF Files, HttpFile
<1>8. UartFile'
  BY <1>1, <1>4, <1>5 DEF Files, UartFile
<1> QED
  BY <1>3, <1>7, <1>8 DEF Files

\* What a file that is ready does, besides being reported.
LEMMA ReadyDoes ==
  ASSUME Inv, NEW q \in Queue, NEW t \in Types, NEW channel \in {"http", "uart"},
         dfu_file_ready(t, channel, q)
  PROVE  /\ app'.led /\ app'.channel = channel /\ app'.busy = app.busy
         /\ reported' /\ writer' = writer
         /\ \A x : x # "flag" => (Contains(wk', x) <=> Contains(q, x))
         /\ Contains(q, "flag") => Contains(wk', "flag")
         /\ IF (channel = "http" /\ t = "nrf52") \/ (channel = "uart" /\ t \in {"nrf91", "modem"})
            THEN app'.type = t /\ Contains(wk', "flag")
            ELSE app'.type = app.type /\ wk' = q
<1> DEFINE update == \/ channel = "http" /\ t = "nrf52"
                     \/ channel = "uart" /\ t \in {"nrf91", "modem"}
<1>1. /\ app' = [app EXCEPT !.led = TRUE, !.channel = channel,
                            !.type = IF update THEN t ELSE @]
      /\ wk' = IF update THEN Submit(q, "flag") ELSE q
      /\ reported' = TRUE /\ writer' = writer
  BY DEF dfu_file_ready, Types
<1>2. \A x : Contains(Submit(q, "flag"), x) <=> Contains(q, x) \/ x = "flag"
  BY Submitted DEF Items
<1>3. app \in [busy : BOOLEAN, downloading : BOOLEAN, file : Types \cup {None},
               channel : {None, "http", "uart"}, type : Types \cup {None}, led : BOOLEAN]
  BY DEF Inv, CrossTypeOK
<1> HIDE DEF update
<1>4. /\ app'.led /\ app'.channel = channel /\ app'.busy = app.busy
      /\ app'.type = IF update THEN t ELSE app.type
  BY <1>1, <1>3
<1>5. (\A x : x # "flag" => (Contains(wk', x) <=> Contains(q, x)))
      /\ (Contains(q, "flag") => Contains(wk', "flag"))
      /\ (update => Contains(wk', "flag")) /\ (~update => wk' = q)
  BY <1>1, <1>2
<1> QED
  BY <1>1, <1>4, <1>5 DEF update

\* The header says nothing.
LEMMA NotReadyDoes ==
  ASSUME NEW q, NEW channel, dfu_file_ready("error", channel, q)
  PROVE  /\ app' = [app EXCEPT !.channel = channel] /\ wk' = q
         /\ UNCHANGED <<writer, reported>>
BY DEF dfu_file_ready, history

\* A request of the nRF52: its transfer goes on, or its file is complete.
LEMMA RunReqFiles ==
  ASSUME Inv, Files, Work, RunReq
  PROVE  Files'
<1>1. /\ Head(wk) = "req" /\ wk \in Queue /\ wk # <<>>
      /\ Tail(wk) \in Queue
      /\ UNCHANGED <<evt, fota, uart, flag, modem>>
  BY TakeFirst DEF RunReq, Work, Inv, CrossTypeOK, Queue
<1>2. /\ \A x : x # "req" => (Contains(Tail(wk), x) <=> Contains(wk, x))
      /\ ~Contains(Tail(wk), "req") /\ Contains(wk, "req")
      /\ FlagBefore(wk) => FlagBefore(Tail(wk))
  BY <1>1, TakeRest
<1>3. /\ send.at # "none" /\ writer # "http"
      /\ writer = "uart" => ~app.busy /\ evt = "none"
  BY <1>2 DEF Files, OneRoute
<1>4. Blocks \in Nat \ {0} /\ send.n \in 0 .. Blocks /\ bank \in [1 .. Blocks -> Pages]
      /\ send \in [at : {"none", "info", "erase", "write", "done"},
                   file : UartFiles \cup {None}, n : 0 .. Blocks]
  BY CrossAssumption DEF Inv, CrossTypeOK
<1>5. CASE send.at # "done"
  <2>1. wk' = Tail(wk) /\ UNCHANGED <<app, writer, reported>>
    BY <1>3, <1>5 DEF RunReq, history
  <2>2. send'.at \in {"erase", "write", "done"} /\ (send'.at = "erase" => send'.n = 0)
    BY <1>3, <1>4, <1>5 DEF RunReq, Files, OneRoute
  <2>3. OneRoute'
    BY <1>1, <1>2, <1>3, <2>1, <2>2 DEF OneRoute
  <2>4. HttpFile'
    BY <1>3, <2>1 DEF HttpFile
  <2>5. UartFile'
    <3> SUFFICES ASSUME writer = "uart" PROVE UartFile'
      BY <2>1 DEF UartFile
    <3>1. ~reported
      BY <1>3 DEF Files, UartFile
    <3>2. CASE send.at = "info"
      <4>1. send' = [send EXCEPT !.at = "erase"]
        BY <3>2 DEF RunReq
      <4>2. send'.at = "erase"
        BY <1>4, <4>1
      <4> QED
        BY <2>1, <3>1, <4>2 DEF UartFile
    <3>3. CASE send.at = "erase"
      <4>1. /\ send' = [send EXCEPT !.at = "write"]
            /\ bank' = [k \in 1 .. Blocks |-> Blank]
        BY <3>3 DEF RunReq
      <4>2. send'.n = 0 /\ send'.at = "write"
        BY <1>4, <3>3, <4>1 DEF Files, OneRoute
      <4> QED
        BY <2>1, <3>1, <4>1, <4>2 DEF UartFile
    <3>4. CASE send.at = "write"
      <4> DEFINE n == send.n + 1
      <4>1. /\ bank' = [bank EXCEPT ![n] = IF @ = Blank THEN <<"uart", send.file>> ELSE Mixed]
            /\ send' = [send EXCEPT !.n = n, !.at = IF n = Blocks THEN "done" ELSE @]
        BY <3>4 DEF RunReq
      <4>2. n \in 1 .. Blocks
        BY <1>4, <3>4 DEF Inv, FilesKnown
      <4>3. \A k \in 1 .. Blocks :
              bank[k] = IF k <= send.n THEN <<"uart", send.file>> ELSE Blank
        BY <3>4 DEF Files, UartFile
      <4>4. bank[n] = Blank
        BY <1>4, <4>2, <4>3
      <4>5. /\ send'.n = n /\ send'.file = send.file
            /\ send'.at = IF n = Blocks THEN "done" ELSE "write"
        <5> HIDE DEF n
        <5> QED
          BY <1>4, <3>4, <4>1
      <4>6. \A k \in 1 .. Blocks : bank'[k] = IF k = n THEN <<"uart", send.file>> ELSE bank[k]
        <5> HIDE DEF n
        <5> QED
          BY <1>4, <4>1, <4>2, <4>4
      <4>7. \A k \in 1 .. Blocks :
              bank'[k] = IF k <= n THEN <<"uart", send.file>> ELSE Blank
        <5> HIDE DEF n
        <5>1. \A k \in 1 .. Blocks : k <= n <=> k <= send.n \/ k = n
          <6> USE DEF n
          <6> QED
            BY <1>4
        <5> QED
          BY <4>3, <4>6, <5>1
      <4> HIDE DEF n
      <4> QED
        BY <2>1, <3>1, <4>5, <4>7 DEF UartFile
    <3> QED
      BY <1>3, <1>4, <1>5, <3>2, <3>3, <3>4
  <2> QED
    BY <2>3, <2>4, <2>5 DEF Files
<1>6. CASE send.at = "done"
  <2>1. PICK t \in dfu_file_type : dfu_file_ready(t, "uart", Tail(wk))
    BY <1>6 DEF RunReq
  <2>2. send' = Idle /\ bank' = bank
    BY <1>6 DEF RunReq
  <2>3. /\ app'.busy = app.busy /\ writer' = writer
        /\ \A x : Contains(wk', x) => Contains(Tail(wk), x) \/ x = "flag"
    <3>1. "uart" \in {"http", "uart"} \cup {None}
      OBVIOUS
    <3> QED
      BY <1>1, <2>1, <3>1, ReadyKeeps DEF Inv
  <2>4. OneRoute'
    BY <1>1, <1>2, <1>3, <2>2, <2>3 DEF OneRoute, Idle
  <2>5. HttpFile'
    BY <1>3, <2>3 DEF HttpFile
  <2>6. UartFile'
    <3> SUFFICES ASSUME writer = "uart" PROVE UartFile'
      BY <2>3 DEF UartFile
    <3>0. PICK f : f = send.file
      OBVIOUS
    <3>1. Filled("uart", f)
      BY <1>4, <1>6, <3>0 DEF Files, UartFile, Filled
    <3>2. f \in UartFiles /\ f \in Types
      BY <1>3, <3>0, CrossAssumption DEF Inv, FilesKnown
    <3>3. t = f
      <4>1. bank[1] = <<"uart", f>>
        BY <1>4, <3>1 DEF Filled
      <4>2. <<"uart", f>> \notin {Blank, Mixed}
        BY <3>2, CrossAssumption
      <4> QED
        BY <2>1, <3>2, <4>1, <4>2, HeaderOfFile
    <3>4. /\ reported'
          /\ IF t \in {"nrf91", "modem"} THEN app'.type = t /\ Contains(wk', "flag")
                                         ELSE TRUE
      BY <1>1, <2>1, <3>2, <3>3, ReadyDoes
    <3>5. UartFlagged(f)'
      BY <3>3, <3>4 DEF UartFlagged
    <3>6. Filled("uart", f)'
      BY <2>2, <3>1 DEF Filled
    <3> QED
      BY <2>2, <3>2, <3>5, <3>6 DEF UartFile, Idle
  <2> QED
    BY <2>4, <2>5, <2>6 DEF Files
<1> QED
  BY <1>5, <1>6

\* The FOTA library writes a block, or its download ends.
LEMMA DownloadFiles ==
  ASSUME Inv, Files, FotaWrite \/ FotaDone \/ FotaError
  PROVE  Files'
<1>1. /\ fota # None /\ evt = "none" /\ app.busy
      /\ fota \in [file : HttpFiles, n : 0 .. Blocks]
      /\ app \in [busy : BOOLEAN, downloading : BOOLEAN, file : Types \cup {None},
                  channel : {None, "http", "uart"}, type : Types \cup {None}, led : BOOLEAN]
      /\ ~Contains(wk, "http") /\ bank \in [1 .. Blocks -> Pages] /\ Blocks \in Nat \ {0}
  BY CrossAssumption
     DEF Inv, CrossTypeOK, OneDownload, FotaWrite, FotaDone, FotaError
<1>2. writer # "uart" /\ (writer = "http" => ~reported)
  BY <1>1 DEF Files, OneRoute, HttpFile
<1>3. UNCHANGED <<wk, send, uart, writer, reported>>
  BY DEF FotaWrite, FotaDone, FotaError, history
<1>4. UartFile'
  BY <1>2, <1>3 DEF UartFile
<1>5. app'.channel = app.channel /\ app'.led = app.led
  BY <1>1 DEF FotaWrite, FotaDone, FotaError
<1>6. OneRoute'
  BY <1>2, <1>3, <1>5 DEF Files, OneRoute
<1>7. HttpFile'
  <2> SUFFICES ASSUME writer = "http" PROVE HttpFile'
    BY <1>3 DEF HttpFile
  <2>1. ~Contains(wk, "flag") /\ \A k \in 1 .. fota.n : bank[k] = <<"http", fota.file>>
    BY <1>1 DEF Files, HttpFile
  <2>2. ~app.led
    BY <1>2 DEF Files, HttpFile
  <2>3. CASE FotaWrite
    <3> DEFINE n == fota.n + 1
    <3>1. /\ n \in 1 .. Blocks /\ evt' = "none"
          /\ fota' = [fota EXCEPT !.n = n]
          /\ bank' = [bank EXCEPT ![n] = <<"http", fota.file>>]
      BY <1>1, <2>3 DEF FotaWrite
    <3>2. \A k \in 1 .. n : k \in 1 .. Blocks /\ (k = n \/ k \in 1 .. fota.n)
      BY <1>1, <3>1
    <3>3. fota'.n = n /\ fota'.file = fota.file
      <4> HIDE DEF n
      <4> QED
        BY <1>1, <3>1
    <3>4. \A k \in 1 .. n : bank'[k] = <<"http", fota.file>>
      <4> HIDE DEF n
      <4> QED
        BY <1>1, <2>1, <3>1, <3>2
    <3> HIDE DEF n
    <3> QED
      BY <1>1, <1>2, <1>3, <1>5, <2>1, <2>2, <3>1, <3>3, <3>4 DEF HttpFile
  <2>4. CASE FotaDone
    <3>1. fota' = None /\ flag' /\ evt' = "finished" /\ bank' = bank /\ fota.n = Blocks
      BY <2>4 DEF FotaDone
    <3>2. PICK f \in HttpFiles : \A k \in 1 .. Blocks : bank[k] = <<"http", f>>
      BY <1>1, <2>1, <3>1
    <3>3. Filled("http", f)'
      BY <3>1, <3>2 DEF Filled
    <3> QED
      BY <1>1, <1>2, <1>3, <1>5, <2>1, <2>2, <3>1, <3>2, <3>3 DEF HttpFile
  <2>5. CASE FotaError
    <3>1. fota' = None /\ evt' = "error"
      BY <2>5 DEF FotaError
    <3> QED
      BY <1>1, <1>2, <1>3, <1>5, <2>1, <2>2, <3>1 DEF HttpFile
  <2> QED
    BY <2>3, <2>4, <2>5
<1> QED
  BY <1>4, <1>6, <1>7 DEF Files

\* The application is told of the end of a download.
LEMMA EventFiles ==
  ASSUME Inv, Files, ClearBusy \/ FileReady
  PROVE  Files'
<1>1. /\ evt # "none" /\ wk \in Queue
      /\ app \in [busy : BOOLEAN, downloading : BOOLEAN, file : Types \cup {None},
                  channel : {None, "http", "uart"}, type : Types \cup {None}, led : BOOLEAN]
      /\ Blocks \in Nat \ {0}
  BY CrossAssumption DEF Inv, CrossTypeOK, ClearBusy, FileReady, Queue
<1>2. writer # "uart"
  BY <1>1 DEF Files, OneRoute
<1>3. UNCHANGED <<fota, send, uart, bank, flag, modem>> /\ writer' = writer
  BY DEF ClearBusy, FileReady, flash, history, dfu_file_ready
<1>4. UartFile'
  BY <1>2, <1>3 DEF UartFile
<1>5. CASE ClearBusy
  <2>1. /\ evt \in {"finished", "error"}
        /\ app' = [app EXCEPT !.busy = FALSE] /\ wk' = wk /\ reported' = reported
        /\ evt' = IF evt = "finished" THEN "ready" ELSE "none"
    BY <1>5 DEF ClearBusy, history
  <2>2. /\ ~app'.busy /\ app'.channel = app.channel /\ app'.led = app.led
    BY <1>1, <2>1
  <2>3. OneRoute'
    BY <1>2, <1>3, <2>1, <2>2 DEF Files, OneRoute
  <2>4. HttpFile'
    <3> SUFFICES ASSUME writer = "http" PROVE HttpFile'
      BY <1>3 DEF HttpFile
    <3>1. fota = None /\ ~reported /\ ~app.led /\ ~Contains(wk, "http")
      BY <1>1, <2>1 DEF Files, HttpFile, Inv, EventEnds
    <3>2. evt' = "ready" =>
            flag /\ ~Contains(wk, "flag") /\ \E t \in HttpFiles : Filled("http", t)
      BY <2>1 DEF Files, HttpFile
    <3>3. \A t : Filled("http", t)' <=> Filled("http", t)
      BY <1>3 DEF Filled
    <3> QED
      BY <1>3, <2>1, <2>2, <3>1, <3>2, <3>3 DEF HttpFile
  <2> QED
    BY <1>4, <2>3, <2>4 DEF Files
<1>6. CASE FileReady
  <2>1. evt = "ready" /\ evt' = "none"
    BY <1>6 DEF FileReady
  <2>2. PICK t \in dfu_file_type : dfu_file_ready(t, app.channel, wk)
    BY <1>6 DEF FileReady
  <2>3. app'.busy = app.busy /\ \A x : Contains(wk', x) => Contains(wk, x) \/ x = "flag"
    <3>1. app.channel \in {"http", "uart"} \cup {None}
      BY <1>1
    <3> QED
      BY <1>1, <2>2, <3>1, ReadyKeeps DEF Inv
  <2>4. CASE writer # "http"
    <3>1. OneRoute'
      BY <1>2, <1>3, <2>1, <2>3, <2>4 DEF Files, OneRoute
    <3>2. HttpFile'
      BY <1>3, <2>4 DEF HttpFile
    <3> QED
      BY <1>4, <3>1, <3>2 DEF Files
  <2>5. CASE writer = "http"
    <3>1. /\ ~app.busy /\ flag /\ ~Contains(wk, "flag") /\ ~Contains(wk, "http")
          /\ fota = None /\ app.channel = "http"
      BY <2>1, <2>5 DEF Files, HttpFile, OneRoute, Inv, OneDownload
    <3>2. PICK f \in HttpFiles : Filled("http", f)
      BY <2>1, <2>5 DEF Files, HttpFile
    <3>3. f \in {"nrf52", "nrf91"}
      BY <3>2, CrossAssumption
    <3>4. t = f
      <4>1. bank[1] = <<"http", f>>
        BY <1>1, <3>2 DEF Filled
      <4>2. f \in Types /\ <<"http", f>> \notin {Blank, Mixed}
        BY <3>3, CrossAssumption DEF Types
      <4> QED
        BY <2>2, <4>1, <4>2, HeaderOfFile
    <3>5. /\ app'.led /\ app'.channel = "http" /\ reported'
          /\ IF f = "nrf52" THEN app'.type = "nrf52" /\ Contains(wk', "flag") ELSE wk' = wk
      BY <1>1, <2>2, <3>1, <3>3, <3>4, ReadyDoes DEF Types
    <3>6. HttpFlagged(f)'
      BY <1>3, <3>1, <3>3, <3>5 DEF HttpFlagged
    <3>7. Filled("http", f)'
      BY <1>3, <3>2 DEF Filled
    <3>8. OneRoute'
      BY <1>2, <1>3, <2>1, <2>3, <2>5, <3>5 DEF Files, OneRoute
    <3>9. HttpFile'
      BY <1>3, <2>1, <2>3, <3>1, <3>2, <3>5, <3>6, <3>7 DEF HttpFile
    <3> QED
      BY <1>4, <3>8, <3>9 DEF Files
  <2> QED
    BY <2>4, <2>5
<1> QED
  BY <1>5, <1>6

\* The button that starts a download: if it finds the bank in use, both routes share it.
LEMMA Button1Files ==
  ASSUME Inv, Files, Button1
  PROVE  Files'
<1>1. /\ ~app.busy /\ fota = None /\ ~app.downloading /\ ~Contains(wk, "http")
      /\ wk \in Queue
      /\ app \in [busy : BOOLEAN, downloading : BOOLEAN, file : Types \cup {None},
                  channel : {None, "http", "uart"}, type : Types \cup {None}, led : BOOLEAN]
  BY DEF Inv, CrossTypeOK, Queue, Button1, OneDownload
<1>2. UNCHANGED <<evt, fota, send, uart, bank, flag, modem>>
  BY DEF Button1, flash
<1>3. \A r, t : Filled(r, t)' <=> Filled(r, t)
  BY <1>2 DEF Filled
<1>4. CASE app' = [app EXCEPT !.led = FALSE] /\ UNCHANGED <<wk, history>>
  <2>1. /\ ~app'.led /\ app'.busy = app.busy /\ app'.channel = app.channel
        /\ app'.type = app.type /\ wk' = wk /\ UNCHANGED <<writer, reported>>
    BY <1>1, <1>4 DEF history
  <2>2. OneRoute'
    BY <1>2, <2>1 DEF Files, OneRoute
  <2>3. \A t : (HttpFlagged(t) => HttpFlagged(t)') /\ (UartFlagged(t) => UartFlagged(t)')
    BY <1>2, <2>1 DEF HttpFlagged, UartFlagged
  <2>4. HttpFile'
    BY <1>2, <1>3, <2>1, <2>3 DEF Files, HttpFile
  <2>5. UartFile'
    BY <1>2, <1>3, <2>1, <2>3 DEF Files, UartFile
  <2> QED
    BY <2>2, <2>4, <2>5 DEF Files
<1>5. ASSUME NEW f \in HttpFiles,
             app' = [app EXCEPT !.led = FALSE, !.channel = "http", !.busy = TRUE,
                                !.downloading = TRUE,
                                !.file = IF app.downloading THEN @ ELSE f],
             wk' = IF app.downloading THEN wk ELSE Submit(wk, "http"),
             Begin("http", evt # "none" \/ send.at # "none")
      PROVE  Files'
  <2>1. ~app'.led /\ app'.channel = "http"
    BY <1>1, <1>5
  <2>2. wk' = Append(wk, "http") /\ \A x : Contains(wk', x) <=> Contains(wk, x) \/ x = "http"
    BY <1>1, <1>5, AddNew DEF Submit, Items
  <2>3. /\ ~reported' /\ writer' \in {"http", "both"}
        /\ writer' = "http" => evt = "none" /\ send.at = "none"
    BY <1>5 DEF Begin
  <2>4. FlagBefore(wk')
    <3>1. wk \in Seq(Items) /\ Len(wk) \in Nat
      BY <1>1 DEF Queue
    <3>2. /\ Len(wk') = Len(wk) + 1
          /\ \A i \in 1 .. Len(wk) : wk'[i] = wk[i] /\ wk[i] # "http"
          /\ wk'[Len(wk) + 1] = "http"
      BY <1>1, <2>2, <3>1 DEF Contains
    <3> QED
      BY <3>1, <3>2 DEF FlagBefore
  <2>5. OneRoute'
    BY <1>2, <2>1, <2>2, <2>3 DEF Files, OneRoute
  <2>6. HttpFile'
    BY <1>1, <1>2, <2>1, <2>3, <2>4 DEF HttpFile
  <2>7. UartFile'
    BY <2>3 DEF UartFile
  <2> QED
    BY <2>5, <2>6, <2>7 DEF Files
<1> QED
  BY <1>4, <1>5 DEF Button1

\* The nRF52 begins a transfer: if it finds the bank in use, both routes share it.
LEMMA SendStartFiles ==
  ASSUME Inv, Files, SendStart
  PROVE  Files'
<1>1. /\ UNCHANGED <<app, evt, wk, uart>> /\ ~reported'
      /\ writer' \in {"uart", "both"}
      /\ writer' = "uart" => ~app.busy /\ evt = "none"
      /\ send.at = "none" /\ send'.at = "info" /\ send'.n = 0
  BY DEF SendStart, Begin, Idle
<1>2. OneRoute'
  BY <1>1 DEF Files, OneRoute
<1>3. HttpFile'
  BY <1>1 DEF HttpFile
<1>4. UartFile'
  BY <1>1 DEF UartFile
<1> QED
  BY <1>2, <1>3, <1>4 DEF Files

\* After a reset nobody has used the bank.
LEMMA RebootFiles ==
  ASSUME Reboot
  PROVE  Files'
<1>1. writer' = "none" /\ send' = Idle /\ wk' = <<>>
  BY DEF Reboot
<1>2. ~Contains(wk, "req")'
  BY <1>1, EmptyQueue
<1> QED
  BY <1>1, <1>2 DEF Files, OneRoute, HttpFile, UartFile, Idle

\* What remains: requests, answers, timers and serial DFU, which leave the bank alone.
LEMMA OtherFiles ==
  ASSUME Inv, Files,
         \/ Work /\ (RunRsp \/ RunDfu)
         \/ Request \/ Answer \/ Timeout \/ DfuEnd \/ BootloaderLeaves \/ Button2 \/ PowerCut
  PROVE  Files'
<1>1. wk \in Queue
  BY DEF Inv, CrossTypeOK, Queue
<1>2. Contains(wk, "req") => send.at # "none" /\ uart.asked = None
  BY DEF Files, OneRoute
<1>3. uart \in [owner : {"cmd", "dfu", "none"}, asked : {None, "ping", "enter"},
                dfu : {"no", "thread", "isr"}, leaked : 0 .. Heap]
  BY DEF Inv, CrossTypeOK
<1>4. CASE Work /\ RunRsp
  <2>1. /\ wk # <<>> /\ Head(wk) = "rsp" /\ send' = send
        /\ UNCHANGED <<app, evt, fota, bank, flag, modem, writer, reported>>
    BY <1>4 DEF Work, RunRsp, flash, history
  <2>2. /\ Tail(wk) \in Queue
        /\ \A x : x # "rsp" => (Contains(Tail(wk), x) <=> Contains(wk, x))
        /\ FlagBefore(wk) => FlagBefore(Tail(wk))
    BY <1>1, <2>1, TakeFirst, TakeRest
  <2>3. wk' = Tail(wk) \/ wk' = Submit(Tail(wk), "dfu")
    BY <1>4 DEF RunRsp
  <2>4. /\ \A x : x \notin {"rsp", "dfu"} => (Contains(wk', x) <=> Contains(wk, x))
        /\ FlagBefore(wk) => FlagBefore(wk')
    <3>1. /\ \A x : Contains(Submit(Tail(wk), "dfu"), x) <=> Contains(Tail(wk), x) \/ x = "dfu"
          /\ FlagBefore(Tail(wk)) => FlagBefore(Submit(Tail(wk), "dfu"))
      BY <2>2, Submitted, SubmitKeepsOrder DEF Items
    <3> QED
      BY <2>2, <2>3, <3>1
  <2>5. uart.asked # None
    BY <1>4, CrossAssumption DEF RunRsp, Types
  <2> QED
    BY <1>2, <2>1, <2>4, <2>5, Elsewhere
<1>5. CASE Work /\ RunDfu
  <2>1. /\ wk # <<>> /\ Head(wk) = "dfu" /\ send' = send /\ wk' = Tail(wk)
        /\ UNCHANGED <<app, evt, fota, bank, flag, modem, writer, reported>>
        /\ uart' = Lend(uart, "thread")
    BY <1>5 DEF Work, RunDfu, flash, history
  <2>2. /\ \A x : x # "dfu" => (Contains(wk', x) <=> Contains(wk, x))
        /\ FlagBefore(wk) => FlagBefore(wk')
    BY <1>1, <2>1, TakeRest
  <2>3. uart'.asked = uart.asked
    BY <1>3, <2>1 DEF Lend
  <2> QED
    BY <1>2, <2>1, <2>2, <2>3, Elsewhere
<1>6. CASE Request
  <2>1. /\ ~Contains(wk, "req") /\ send.at # "none"
        /\ UNCHANGED <<app, evt, fota, bank, flag, modem, writer, reported, uart>>
    BY <1>6 DEF Request, flash, history
  <2>2. CASE wk' = Append(wk, "req") /\ Free /\ send' = send
    <3>1. /\ \A x : x # "req" => (Contains(wk', x) <=> Contains(wk, x))
          /\ FlagBefore(wk) => FlagBefore(wk')
      BY <1>1, <2>1, <2>2, AddNew, SubmitKeepsOrder DEF Items
    <3> QED
      BY <2>1, <2>2, <3>1, Elsewhere DEF Free
  <2>3. CASE wk' = wk /\ send' = Idle
    BY <2>1, <2>3, Elsewhere
  <2> QED
    BY <1>6, <2>2, <2>3 DEF Request
<1>7. CASE Answer
  <2>1. /\ uart.asked # None /\ wk' = Append(wk, "rsp") /\ ~Contains(wk, "rsp")
        /\ UNCHANGED <<app, evt, fota, bank, flag, modem, writer, reported, uart>>
        /\ send' \in {send, Idle}
    BY <1>7 DEF Answer, flash, history
  <2>2. /\ \A x : x # "rsp" => (Contains(wk', x) <=> Contains(wk, x))
        /\ FlagBefore(wk) => FlagBefore(wk')
    BY <1>1, <2>1, AddNew, SubmitKeepsOrder DEF Items
  <2> QED
    BY <1>2, <2>1, <2>2, Elsewhere
<1>8. CASE Timeout
  <2>1. /\ uart.asked # None /\ wk' \in {wk, Submit(wk, "dfu")} /\ send' = send
        /\ UNCHANGED <<app, evt, fota, bank, flag, modem, writer, reported>>
    BY <1>8 DEF Timeout, flash, history
  <2>2. /\ \A x : x # "dfu" => (Contains(wk', x) <=> Contains(wk, x))
        /\ FlagBefore(wk) => FlagBefore(wk')
    BY <1>1, <2>1, Submitted, SubmitKeepsOrder DEF Items
  <2> QED
    BY <1>2, <2>1, <2>2, Elsewhere
<1>9. CASE DfuEnd
  <2>1. /\ wk' = wk /\ send' = send
        /\ UNCHANGED <<app, evt, fota, bank, flag, modem, writer, reported>>
        /\ uart' = [uart EXCEPT !.owner = "cmd", !.dfu = "no", !.asked = None]
    BY <1>9 DEF DfuEnd, flash, history
  <2>2. uart'.asked = None
    BY <1>3, <2>1
  <2> QED
    BY <1>2, <2>1, <2>2, Elsewhere
<1>10. CASE Button2 /\ ~Reboot
  <2>1. /\ wk' = wk /\ send' = send
        /\ UNCHANGED <<app, evt, fota, bank, flag, modem, writer, reported>>
        /\ uart' = [uart EXCEPT !.asked = IF Free THEN "ping" ELSE @]
    BY <1>10 DEF Button2, flash, history
  <2>2. Contains(wk, "req") => uart'.asked = None
    BY <1>2, <1>3, <2>1 DEF Free
  <2> QED
    BY <1>2, <2>1, <2>2, Elsewhere
<1>11. CASE Reboot
  BY <1>11, RebootFiles
<1>12. CASE BootloaderLeaves
  <2>1. UNCHANGED <<app, evt, fota, wk, send, uart, bank, flag, modem, writer, reported>>
    BY <1>12 DEF BootloaderLeaves, flash, history
  <2> QED
    BY <1>2, <2>1, Elsewhere
<1> QED
  BY <1>4, <1>5, <1>6, <1>7, <1>8, <1>9, <1>10, <1>11, <1>12 DEF PowerCut

LEMMA InitFiles == Init => Files
<1> SUFFICES ASSUME Init PROVE Files
  OBVIOUS
<1>1. writer = "none" /\ send.at = "none" /\ wk = <<>>
  BY DEF Init
<1>2. ~Contains(wk, "req")
  BY <1>1, EmptyQueue
<1> QED
  BY <1>1, <1>2 DEF Files, OneRoute, HttpFile, UartFile

LEMMA NextFiles == Inv /\ Files /\ [Next]_vars => Files'
<1>1. ASSUME Inv, Files, UNCHANGED vars PROVE Files'
  <2>1. /\ UNCHANGED <<app, evt, fota, wk, send, uart>>
        /\ UNCHANGED <<bank, flag, modem, writer, reported>>
    BY <1>1 DEF vars, flash, history
  <2>2. Contains(wk, "req") => send.at # "none" /\ uart.asked = None
    BY <1>1 DEF Files, OneRoute
  <2> QED
    BY <1>1, <2>1, <2>2, Elsewhere
<1>2. ASSUME Inv, Files, Work PROVE Files'
  BY <1>2, RunFlagFiles, RunHttpFiles, RunReqFiles, OtherFiles DEF Work
<1>3. ASSUME Inv, Files, Fota \/ FotaError PROVE Files'
  BY <1>3, DownloadFiles, EventFiles DEF Fota
<1> QED
  BY <1>1, <1>2, <1>3, Button1Files, SendStartFiles, OtherFiles DEF Next

LEMMA BankOwned == Spec => []Files
BY InitFiles, NextFiles, Invariance, PTL DEF Spec

\* A bank that holds one file holds no other.
LEMMA FilledIsWhole ==
  ASSUME CrossTypeOK, NEW route \in {"http", "uart"}, NEW t \in Types, Filled(route, t)
  PROVE  \A u : Whole(u) <=> u = t
<1>1. 1 \in 1 .. Blocks
  BY CrossAssumption
<1>2. bank[1] = <<route, t>>
  BY <1>1 DEF Filled
<1>3. Whole(t)
  BY DEF Filled, Whole
<1>4. ASSUME NEW u, Whole(u) PROVE u = t
  <2>1. PICK r \in {"http", "uart", "swap"} : bank[1] = <<r, u>>
    BY <1>1, <1>4 DEF Whole
  <2> QED
    BY <1>2, <2>1
<1> QED
  BY <1>3, <1>4

-----------------------------------------------------------------------------
(* What holds of the application.                                          *)

\* The variables of the application keep their types, and no work item is ever in the
\* queue twice, whichever context submits it (k_work_submit, main.c, http_client.c).
THEOREM TypeCorrect == Spec => []CrossTypeOK
<1>1. Inv => CrossTypeOK
  BY DEF Inv
<1> QED
  BY <1>1, Invariance, PTL

\* However presses of the button, the events of the FOTA library, failures and resets
\* interleave, no file is asked for while another one is downloaded (m_download_busy of
\* main.c, downloading of http_client.c).
THEOREM OneDownloadAtATime == Spec => []OneDownload
<1>1. Inv => OneDownload
  BY DEF Inv
<1> QED
  BY <1>1, Invariance, PTL

\* When serial DFU is over, on any path and in any context, the command channel has its
\* UART back unless the heap had no buffer left (do_serial_dfu of main.c).
THEOREM UartReturnedOrHeapFull == Spec => []UartReturned
<1>1. Inv => UartReturned
  BY DEF Inv
<1> QED
  BY <1>1, Invariance, PTL

\* Whatever events, presses, requests, failures and resets come between a file and its
\* report, and although one work item updates the flag for every file, what mcuboot
\* would install is what the bank holds when one route brought it (dfu_file_ready,
\* wk_update_mcuboot_flag_handler of main.c).
THEOREM FlagIsOfTheFile == Spec => []FlagFollowsFile
<1>1. Inv /\ Files => FlagFollowsFile
  <2> SUFFICES ASSUME Inv, Files, reported, ~Contains(wk, "flag")
               PROVE  /\ writer = "http" => (flag <=> Whole("nrf91"))
                      /\ writer = "uart" => /\ Whole("nrf91") => flag
                                            /\ Whole("modem") => modem = "whole"
    BY DEF FlagFollowsFile
  <2>1. CASE writer = "http"
    <3>1. PICK t \in HttpFiles : Filled("http", t) /\ HttpFlagged(t)
      BY <2>1 DEF Files, HttpFile
    <3>2. t \in {"nrf52", "nrf91"} /\ t \in Types
      BY CrossAssumption DEF Types
    <3>3. Whole("nrf91") <=> t = "nrf91"
      BY <3>1, <3>2, FilledIsWhole DEF Inv
    <3> QED
      BY <2>1, <3>1, <3>2, <3>3 DEF HttpFlagged
  <2>2. CASE writer = "uart"
    <3>1. PICK t \in UartFiles : Filled("uart", t) /\ UartFlagged(t)
      BY <2>2 DEF Files, UartFile
    <3>2. t \in Types
      BY CrossAssumption
    <3>3. (Whole("nrf91") <=> t = "nrf91") /\ (Whole("modem") <=> t = "modem")
      BY <3>1, <3>2, FilledIsWhole DEF Inv
    <3> QED
      BY <2>2, <3>1, <3>3 DEF UartFlagged
  <2> QED
    BY <2>1, <2>2
<1> QED
  BY <1>1, Invariance, BankOwned, PTL

\* LED 2 is on for a file from the web server only while the bank holds all of it
\* (README.md, led2_set of main.c).
THEOREM LedIsOfTheFile == Spec => []LedMeansFile
<1>1. Inv /\ Files => LedMeansFile
  <2> SUFFICES ASSUME Inv, Files, app.led, writer = "http"
               PROVE  \E t \in HttpFiles : Whole(t)
    BY DEF LedMeansFile
  <2>1. PICK t \in HttpFiles : Filled("http", t)
    BY DEF Files, HttpFile
  <2> QED
    BY <2>1 DEF Filled, Whole
<1> QED
  BY <1>1, Invariance, BankOwned, PTL
=============================================================================

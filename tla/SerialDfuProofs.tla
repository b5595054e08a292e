--------------------------- MODULE SerialDfuProofs ---------------------------
(***************************************************************************)
(* Safety of serial DFU for images, pages, packets and chunks of any size, *)
(* any number of faults, late answers and restarts: no answer is taken for *)
(* another one's, the bootloader executes only objects whose checksum the  *)
(* host has compared, and an attempt that reports success has installed    *)
(* its package.  And for images smaller than a page: an attempt that       *)
(* nothing disturbs does not fail.                                         *)
(***************************************************************************)
EXTENDS SerialDfu, TLAPS
-----------------------------------------------------------------------------
(* The invariant.                                                           *)

Old(q) == \A i \in DOMAIN q : q[i].stale
New(q) == \A i \in DOMAIN q : ~q[i].stale
OldButLast(q) == \A i \in DOMAIN q : i < Len(q) => q[i].stale
Writes(q) == \A i \in DOMAIN q : q[i].op = "write"

\* What the host is in the middle of.
Hosted ==
  /\ pc # "idle" => result = "none"
  /\ wait => pc \notin {"idle", "write"}
  /\ pc \in {"check", "ping", "prn", "mtu"} => part = "ip"
  /\ part = "ip" => pos = 0
  /\ pc \in {"create", "write", "crc"} => pos < SizeOf(part)
  /\ pc = "write" => sent < upto

\* No answer to the mode check is older than its ping but the ones in front of it, and
\* later on there are only answers of this attempt.
Sorted ==
  /\ pc = "check" /\ ~wait => Old(rsp) /\ Old(req)
  /\ pc = "check" /\ wait => /\ OldButLast(rsp) /\ OldButLast(req)
                             /\ Old(rsp) \/ req = <<>>
  /\ pc \notin {"idle", "check"} => New(rsp) /\ New(req)

\* The line carries one request, or the writes of an object and the request for
\* their CRC, or the one response to either; what is left of an earlier attempt does
\* not end in a request that changes more than the object's data.
Wired ==
  /\ \A i \in DOMAIN req : /\ i > 1 => req[i].op \in {"ping", "write", "crc"}
                           /\ req[i].op = "write" => req[i].n > 0
  /\ pc \in {"ping", "prn", "mtu", "select", "create", "exec"} =>
       IF wait
       THEN /\ Len(req) + Len(rsp) <= 1
            /\ \A i \in DOMAIN req : req[i].op = pc /\ req[i].part = part
            /\ \A i \in DOMAIN rsp : rsp[i].op = pc
       ELSE req = <<>> /\ rsp = <<>>
  /\ pc = "write" \/ (pc = "crc" /\ ~wait) => Writes(req) /\ rsp = <<>>
  /\ pc = "crc" /\ wait =>
       /\ Len(rsp) <= 1 /\ (rsp # <<>> => req = <<>>)
       /\ \A i \in DOMAIN req : i < Len(req) => req[i].op = "write"
       /\ \A i \in DOMAIN req : req[i].op \in {"write", "crc"}

\* Progress fits in the image.
Fits(p) == p.last.len + p.objSize <= FwSize /\ p.img.len <= p.last.len + p.objSize

\* What the bootloader has executed is what its init packet allows.
Settled ==
  /\ Fits(prog) /\ Fits(saved)
  /\ mode = "dfu" =>
       /\ valid => prog.cmdSize # 0 /\ prog.cmd.len = prog.cmdSize /\ target = prog.cmd.of
       /\ prog.last.len > 0 => valid /\ prog.last.of = target
  /\ saved.cmdSize # 0 => saved.cmd.len = saved.cmdSize /\ saved.cmd.of # Junk
  /\ saved.last.len > 0 => saved.cmdSize # 0 /\ saved.last.of = saved.cmd.of

\* What the bootloader has is what the host was told, as long as it has not restarted.
Agreed ==
  mode = "dfu" =>
    /\ pc \in {"create", "write", "crc", "exec"} => obj = part
    /\ pc = "select" /\ rsp # <<>> => obj = part
    /\ pc \in {"select", "crc"} /\ wait /\ rsp # <<>> => Head(rsp).content = Received(part)
    /\ pc = "exec" /\ (~wait \/ req # <<>>) =>
         Received(part).of = file /\ (part = "fw" => prog.img.len = upto)
    /\ pc = "exec" /\ part = "ip" /\ rsp # <<>> /\ Head(rsp).ok => valid /\ target = file
    /\ pc # "idle" /\ part = "fw" => valid /\ target = file

\* An execution that was asked for is of data that was checked, also when it is carried
\* out long after the host gave it up.
ExecSafe ==
  req # <<>> /\ Head(req).op = "exec" /\ mode = "dfu" /\ obj = "fw" =>
    valid /\ prog.img.of = target

\* A success that is on its way, or reported.
Installs ==
  /\ pc = "exec" /\ part = "fw" /\ rsp # <<>> /\ Head(rsp).ok /\ upto >= FwSize =>
       installed = file
  /\ result = "ok" => pc = "idle" /\ req = <<>> /\ installed = file

Inv == /\ TypeOK /\ Hosted /\ Sorted /\ Wired /\ Settled /\ Agreed /\ ExecSafe
       /\ Installs /\ NoStaleAnswer

-----------------------------------------------------------------------------
(* The types, by the part of the system they belong to.                     *)

HostTypes ==
  /\ pc \in {"idle", "check", "ping", "prn", "mtu", "select", "create", "write",
             "crc", "exec"}
  /\ part \in Parts /\ file \in Files /\ tries \in 0 .. 3
  /\ pos \in Nat /\ sent \in Nat /\ upto \in Nat
LineTypes == req \in Seq(Request) /\ rsp \in Seq(Response)
BootTypes ==
  /\ mode \in {"dfu", "app"}
  /\ prog \in Progress /\ saved \in Progress
  /\ target \in Files \cup {None} /\ obj \in Parts
  /\ flash \in [Units -> Files \cup {None, Junk}]
  /\ installed \in Files \cup {None}
HistTypes ==
  /\ result \in {"none", "absent", "deaf", "ok", "fail"}
  /\ faults \in 0 .. MaxFaults /\ crashes \in 0 .. MaxCrashes
Flags ==
  /\ wait \in BOOLEAN /\ rec \in BOOLEAN /\ valid \in BOOLEAN
  /\ hurt \in BOOLEAN /\ crossed \in BOOLEAN

LEMMA TypeParts ==
  /\ TypeOK <=> HostTypes /\ LineTypes /\ BootTypes /\ HistTypes /\ Flags
  /\ TypeOK' <=> HostTypes' /\ LineTypes' /\ BootTypes' /\ HistTypes' /\ Flags'
<1>1. TypeOK <=> HostTypes /\ LineTypes /\ BootTypes /\ HistTypes /\ Flags
  BY Zenon DEF TypeOK, HostTypes, LineTypes, BootTypes, HistTypes, Flags
<1>2. TypeOK' <=> HostTypes' /\ LineTypes' /\ BootTypes' /\ HistTypes' /\ Flags'
  BY Zenon DEF TypeOK, HostTypes, LineTypes, BootTypes, HistTypes, Flags
<1> QED
  BY <1>1, <1>2

LEMMA BootKept ==
  ASSUME BootTypes, Settled, UNCHANGED boot
  PROVE  BootTypes' /\ Settled'
BY DEF BootTypes, Settled, boot, Fits

-----------------------------------------------------------------------------
(* Sequences and remainders.                                                *)

LEMMA TailOf ==
  ASSUME NEW S, NEW q \in Seq(S), q # <<>>
  PROVE  /\ Tail(q) \in Seq(S) /\ Len(Tail(q)) = Len(q) - 1
         /\ \A i \in DOMAIN Tail(q) : i + 1 \in DOMAIN q /\ Tail(q)[i] = q[i + 1]
         /\ Head(q) \in S /\ Head(q) = q[1] /\ 1 \in DOMAIN q
         /\ Len(q) = 1 => Tail(q) = <<>>
OBVIOUS

LEMMA Appended ==
  ASSUME NEW S, NEW q \in Seq(S), NEW x \in S
  PROVE  /\ Append(q, x) \in Seq(S) /\ Len(Append(q, x)) = Len(q) + 1
         /\ \A i \in DOMAIN Append(q, x) :
              Append(q, x)[i] = IF i \in DOMAIN q THEN q[i] ELSE x
         /\ \A i \in DOMAIN Append(q, x) : i \notin DOMAIN q => i = Len(q) + 1
         /\ Append(q, x) # <<>>
         /\ Head(Append(q, x)) = IF q = <<>> THEN x ELSE Head(q)
OBVIOUS

LEMMA AbandonedReq ==
  ASSUME NEW q \in Seq(Request)
  PROVE  /\ Abandoned(q) \in Seq(Request) /\ Old(Abandoned(q))
         /\ DOMAIN Abandoned(q) = DOMAIN q /\ (q = <<>> <=> Abandoned(q) = <<>>)
         /\ \A i \in DOMAIN q : Abandoned(q)[i] = [q[i] EXCEPT !.stale = TRUE]
<1>1. \A i \in DOMAIN q : /\ [q[i] EXCEPT !.stale = TRUE] \in Request
                          /\ [q[i] EXCEPT !.stale = TRUE].stale
  <2> TAKE i \in DOMAIN q
  <2>1. q[i] \in Request
    OBVIOUS
  <2> QED
    BY <2>1 DEF Request
<1>2. Abandoned(q) \in Seq(Request) /\ DOMAIN Abandoned(q) = DOMAIN q
  BY <1>1 DEF Abandoned
<1>3. Old(Abandoned(q))
  BY <1>1, <1>2 DEF Abandoned, Old
<1> QED
  BY <1>2, <1>3 DEF Abandoned

LEMMA AbandonedRsp ==
  ASSUME NEW q \in Seq(Response)
  PROVE  Abandoned(q) \in Seq(Response) /\ Old(Abandoned(q))
<1>1. \A i \in DOMAIN q : /\ [q[i] EXCEPT !.stale = TRUE] \in Response
                          /\ [q[i] EXCEPT !.stale = TRUE].stale
  <2> TAKE i \in DOMAIN q
  <2>1. q[i] \in Response
    OBVIOUS
  <2> QED
    BY <2>1 DEF Response
<1>2. Abandoned(q) \in Seq(Response) /\ DOMAIN Abandoned(q) = DOMAIN q
  BY <1>1 DEF Abandoned
<1> QED
  BY <1>1, <1>2 DEF Abandoned, Old

LEMMA Remainder ==
  ASSUME NEW a \in Nat, NEW d \in Nat \ {0}
  PROVE  /\ a % d \in 0 .. d - 1 /\ a % d <= a
         /\ a % d = 0 /\ a > 0 => a >= d
<1>1. a % d \in 0 .. d - 1 /\ a % d <= a
  OBVIOUS
<1>2. a < d => a % d = a
  OBVIOUS
<1> QED
  BY <1>1, <1>2

-----------------------------------------------------------------------------
(* The host, but for what it does with a response.                          *)

LEMMA InitInv == Init => Inv
<1> SUFFICES ASSUME Init PROVE Inv
  OBVIOUS
<1>1. NoProgress \in Progress /\ Fits(NoProgress)
  BY DfuAssumption DEF NoProgress, Progress, Empty, Content, Fits
<1>2. TypeOK
  <2>1. HostTypes
    BY DEF Init, HostTypes, Parts
  <2>5. Flags
    BY DEF Init, Flags
  <2>4. HistTypes
    BY DfuAssumption DEF Init, HistTypes
  <2>2. LineTypes
    BY DEF Init, LineTypes
  <2>3. BootTypes
    BY <1>1 DEF Init, BootTypes, Parts, Erased
  <2> QED
    BY <2>1, <2>2, <2>3, <2>4, <2>5, TypeParts
<1>3. Hosted /\ Sorted /\ Wired /\ Agreed /\ ExecSafe /\ Installs /\ NoStaleAnswer
  BY DfuAssumption DEF Init, Hosted, Sorted, Wired, Agreed, ExecSafe, Installs,
     NoStaleAnswer, Old, New, OldButLast, SizeOf
<1>4. Settled
  BY <1>1 DEF Init, Settled, NoProgress, Empty
<1> QED
  BY <1>2, <1>3, <1>4 DEF Inv

\* An attempt begins, by whatever way.
LEMMA BeginInv ==
  ASSUME Inv, NEW f \in Files, NEW t \in 0 .. 3, Begin(f, t), HistTypes', hurt' \in BOOLEAN,
         valid' \in BOOLEAN, BootTypes', Settled',
         req = <<>> \/ UNCHANGED boot, pc = "idle"
  PROVE  Inv'
<1> USE DEF Inv
<1>1. HostTypes /\ LineTypes /\ BootTypes /\ Flags
  BY TypeParts
<1>2. /\ req' = Abandoned(req) /\ rsp' = <<>> /\ pc' = "check" /\ ~wait' /\ part' = "ip"
      /\ result' = "none" /\ pos' = 0 /\ crossed' = crossed
  BY DEF Begin
<1>3. /\ req' \in Seq(Request) /\ Old(req') /\ DOMAIN req' = DOMAIN req
      /\ req = <<>> <=> req' = <<>>
      /\ \A i \in DOMAIN req : req[i] \in Request /\ req'[i] = [req[i] EXCEPT !.stale = TRUE]
  BY <1>1, <1>2, AbandonedReq DEF LineTypes
<1>4. HostTypes' /\ LineTypes'
  BY <1>1, <1>2, <1>3 DEF Begin, HostTypes, LineTypes, Parts
<1>5. Hosted' /\ Sorted' /\ Agreed' /\ Installs' /\ NoStaleAnswer'
  BY <1>2, <1>3 DEF Hosted, Sorted, Agreed, Installs, NoStaleAnswer, Old
<1>6. \A i \in DOMAIN req' : req'[i].op = req[i].op /\ req'[i].n = req[i].n
  BY <1>3 DEF Request
<1>7. Wired'
  BY <1>2, <1>3, <1>6 DEF Wired
<1>8. ExecSafe'
  <2>1. req' # <<>> => Head(req').op = Head(req).op
    BY <1>1, <1>3, <1>6 DEF LineTypes
  <2> QED
    BY <1>2, <1>3, <2>1 DEF ExecSafe, boot
<1>9. Flags'
  BY <1>1, <1>2 DEF Begin, Flags
<1> QED
  BY <1>4, <1>5, <1>7, <1>8, <1>9, TypeParts

LEMMA FaultTypes ==
  ASSUME HistTypes, Fault, result' \in {result, "none", "deaf"}, UNCHANGED crashes
  PROVE  HistTypes' /\ hurt' \in BOOLEAN
BY DfuAssumption DEF HistTypes, Fault

\* The bootloader starts from the settings in flash.
LEMMA BootsTypes ==
  ASSUME BootTypes, Settled, Boots
  PROVE  BootTypes' /\ Settled' /\ valid' \in BOOLEAN
<1>1. /\ mode' = "dfu" /\ obj' = "ip" /\ prog' = saved
      /\ target' = IF saved.cmdSize # 0 THEN saved.cmd.of ELSE None
      /\ UNCHANGED <<saved, flash, installed>>
  BY DEF Boots
<1>2. (valid' <=> saved.cmdSize # 0) /\ valid' \in BOOLEAN
  BY Zenon DEF Boots
<1>3. BootTypes'
  <2>1. target' \in Files \cup {None}
    BY <1>1 DEF BootTypes, Progress, Content, Settled
  <2> QED
    BY <1>1, <2>1 DEF BootTypes, Parts
<1>4. Settled'
  <2>1. valid' => saved.cmdSize # 0 /\ target' = saved.cmd.of /\ saved.cmd.len = saved.cmdSize
    BY <1>1, <1>2 DEF Settled
  <2>2. saved.last.len > 0 => valid' /\ saved.last.of = target'
    BY <1>1, <1>2 DEF Settled
  <2> QED
    BY <1>1, <2>1, <2>2 DEF Settled, Fits
<1> QED
  BY <1>2, <1>3, <1>4

LEMMA ThreadInv ==
  ASSUME Inv, NEW f \in Files, StartInThread(f)
  PROVE  Inv'
<1>1. BootTypes /\ HistTypes /\ Flags /\ Settled
  BY TypeParts DEF Inv
<1>2. pc = "idle" /\ req = <<>> /\ Begin(f, 3)
  BY DEF StartInThread
<1>3. result' = "none" /\ UNCHANGED crashes /\ 3 \in 0 .. 3
  BY <1>2 DEF Begin
<1>4. CASE Boots /\ hurt' = FALSE /\ UNCHANGED faults
  <2>1. HistTypes'
    BY <1>1, <1>3, <1>4 DEF HistTypes
  <2>2. BootTypes' /\ Settled' /\ valid' \in BOOLEAN
    BY <1>1, <1>4, BootsTypes
  <2> QED
    BY <1>2, <1>3, <1>4, <2>1, <2>2, BeginInv
<1>5. CASE Fault /\ UNCHANGED boot
  <2>1. HistTypes' /\ hurt' \in BOOLEAN
    BY <1>1, <1>3, <1>5, FaultTypes
  <2>2. BootTypes' /\ Settled' /\ valid' \in BOOLEAN
    BY <1>1, <1>5, BootKept DEF boot, Flags
  <2> QED
    BY <1>2, <1>3, <2>1, <2>2, BeginInv
<1> QED
  BY <1>4, <1>5 DEF StartInThread

LEMMA NoApplicationTypes ==
  ASSUME HistTypes, NoApplication, result' \in {"none", "deaf"}, UNCHANGED crashes
  PROVE  HistTypes' /\ hurt' \in BOOLEAN
<1>1. CASE mode = "dfu" /\ hurt' = FALSE /\ UNCHANGED faults
  BY <1>1 DEF HistTypes
<1>2. CASE mode = "app" /\ Fault
  BY <1>2, FaultTypes
<1> QED
  BY <1>1, <1>2 DEF NoApplication

LEMMA TimerInv ==
  ASSUME Inv, NEW f \in Files, StartInTimer(f)
  PROVE  Inv'
<1>1. BootTypes /\ HistTypes /\ Flags /\ Settled
  BY TypeParts DEF Inv
<1>2. pc = "idle" /\ NoApplication /\ Begin(f, 2) /\ UNCHANGED boot
  BY DEF StartInTimer, NoApplication
<1>3. HistTypes' /\ hurt' \in BOOLEAN
  BY <1>1, <1>2, NoApplicationTypes DEF Begin
<1>4. BootTypes' /\ Settled' /\ valid' \in BOOLEAN
  BY <1>1, <1>2, BootKept DEF boot, Flags
<1> QED
  BY <1>2, <1>3, <1>4, BeginInv

LEMMA DeafTimerInv ==
  ASSUME Inv, DeafInTimer
  PROVE  Inv'
<1>1. HostTypes /\ LineTypes /\ BootTypes /\ HistTypes /\ Flags
  BY TypeParts DEF Inv
<1>2. /\ pc = "idle" /\ NoApplication /\ result' = "deaf"
      /\ UNCHANGED <<host, line, boot, crossed, crashes>>
  BY DEF DeafInTimer, NoApplication
<1>3. HistTypes' /\ hurt' \in BOOLEAN
  BY <1>1, <1>2, NoApplicationTypes
<1>4. HostTypes' /\ LineTypes'
  BY <1>1, <1>2 DEF HostTypes, LineTypes, host, line
<1>5. Flags'
  BY <1>1, <1>2, <1>3 DEF Flags, host, boot
<1>6. BootTypes' /\ Settled'
  BY <1>1, <1>2, BootKept DEF Inv
<1>7. Hosted' /\ Sorted' /\ Wired'
  BY <1>2 DEF Inv, Hosted, Sorted, Wired, host, line, Old, New, OldButLast, Writes, SizeOf
<1>8. Agreed' /\ ExecSafe' /\ NoStaleAnswer' /\ Installs'
  BY <1>2 DEF Inv, Agreed, ExecSafe, NoStaleAnswer, Installs, host, line, boot, Received
<1> QED
  BY <1>3, <1>4, <1>5, <1>6, <1>7, <1>8, TypeParts DEF Inv

\* The host gives up, with responses q left to read.
LEMMA GivesUpInv ==
  ASSUME Inv, wait, HostGivesUp, NEW q \in Seq(Response), rsp' = Abandoned(q),
         UNCHANGED <<boot, crossed>>, hurt' \in BOOLEAN, HistTypes'
  PROVE  Inv'
<1> USE DEF Inv
<1>1. HostTypes /\ LineTypes /\ BootTypes /\ Flags
  BY TypeParts
<1>2. BootTypes' /\ Settled'
  BY <1>1, BootKept
<1>3. /\ req' = Abandoned(req) /\ UNCHANGED <<part, file, rec, pos, sent, upto>> /\ ~wait'
      /\ \/ pc' = "idle" /\ result' \in {"fail", "absent"} /\ tries' = tries
         \/ pc' = "check" /\ pc = "check" /\ result' = result /\ tries' = tries - 1 /\ tries > 1
  BY DEF HostGivesUp, End
<1>4. /\ req' \in Seq(Request) /\ Old(req') /\ DOMAIN req' = DOMAIN req
      /\ req = <<>> <=> req' = <<>>
      /\ \A i \in DOMAIN req : req[i] \in Request /\ req'[i] = [req[i] EXCEPT !.stale = TRUE]
      /\ rsp' \in Seq(Response) /\ Old(rsp')
  BY <1>1, <1>3, AbandonedReq, AbandonedRsp DEF LineTypes
<1>5. HostTypes' /\ LineTypes'
  BY <1>1, <1>3, <1>4 DEF HostTypes, LineTypes
<1>6. Hosted' /\ Sorted' /\ Installs' /\ NoStaleAnswer'
  BY <1>3, <1>4 DEF Hosted, Sorted, Installs, NoStaleAnswer, Old, SizeOf
<1>7. Agreed'
  BY <1>3 DEF Agreed, boot
<1>8. \A i \in DOMAIN req' : req'[i].op = req[i].op /\ req'[i].n = req[i].n
  BY <1>4 DEF Request
<1>9. Wired'
  BY <1>3, <1>4, <1>8 DEF Wired
<1>10. ExecSafe'
  <2>1. req' # <<>> => Head(req').op = Head(req).op
    BY <1>1, <1>4, <1>8 DEF LineTypes
  <2> QED
    BY <1>4, <2>1 DEF ExecSafe, boot
<1>11. Flags'
  BY <1>1 DEF HostGivesUp, End, boot, Flags
<1> QED
  BY <1>2, <1>5, <1>6, <1>7, <1>9, <1>10, <1>11, TypeParts

LEMMA TimeoutInv ==
  ASSUME Inv, HostTimeout
  PROVE  Inv'
<1>1. HostTypes /\ LineTypes /\ BootTypes /\ HistTypes /\ Flags
  BY TypeParts DEF Inv
<1>2. /\ wait /\ rsp = <<>> /\ HostGivesUp /\ rsp' = rsp
      /\ UNCHANGED <<boot, crossed, crashes>>
      /\ faults' \in {faults, faults + 1} /\ (faults' # faults => faults < MaxFaults)
  BY DEF HostTimeout
<1>3. rsp' = Abandoned(<<>>)
  BY <1>2 DEF Abandoned
<1>4. result' \in {result, "fail", "absent"}
  BY <1>2 DEF HostGivesUp, End
<1>5. HistTypes'
  BY <1>1, <1>2, <1>4, DfuAssumption DEF HistTypes
<1>6. hurt' \in BOOLEAN
  BY <1>1 DEF HostTimeout, Flags
<1>7. <<>> \in Seq(Response)
  OBVIOUS
<1> QED
  BY <1>2, <1>3, <1>5, <1>6, <1>7, GivesUpInv

LEMMA CrashInv ==
  ASSUME Inv, HostCrash
  PROVE  Inv'
<1> USE DEF Inv
<1>1. HostTypes /\ LineTypes /\ BootTypes /\ HistTypes /\ Flags
  BY TypeParts
<1>2. BootTypes' /\ Settled'
  BY <1>1, BootKept DEF HostCrash
<1>3. /\ pc # "idle" /\ pc' = "idle" /\ ~wait' /\ req' = Abandoned(req) /\ rsp' = <<>>
      /\ UNCHANGED <<part, file, tries, rec, pos, sent, upto, boot, result, crossed, faults>>
      /\ hurt' /\ crashes' = crashes + 1 /\ crashes < MaxCrashes
  BY DEF HostCrash
<1>4. /\ req' \in Seq(Request) /\ Old(req') /\ DOMAIN req' = DOMAIN req
      /\ req = <<>> <=> req' = <<>>
      /\ \A i \in DOMAIN req : req[i] \in Request /\ req'[i] = [req[i] EXCEPT !.stale = TRUE]
  BY <1>1, <1>3, AbandonedReq DEF LineTypes
<1>5. HostTypes' /\ HistTypes' /\ LineTypes'
  BY <1>1, <1>3, <1>4, DfuAssumption DEF HostCrash, HostTypes, HistTypes, LineTypes
<1>6. Hosted' /\ Sorted' /\ Agreed' /\ Installs' /\ NoStaleAnswer'
  BY <1>3 DEF Hosted, Sorted, Agreed, Installs, NoStaleAnswer, SizeOf
<1>7. \A i \in DOMAIN req' : req'[i].op = req[i].op /\ req'[i].n = req[i].n
  BY <1>4 DEF Request
<1>8. Wired'
  BY <1>3, <1>4, <1>7 DEF Wired
<1>9. ExecSafe'
  <2>1. req' # <<>> => Head(req').op = Head(req).op
    BY <1>1, <1>4, <1>7 DEF LineTypes
  <2> QED
    BY <1>3, <1>4, <2>1 DEF ExecSafe, boot
<1>10. Flags'
  BY <1>1 DEF HostCrash, boot, Flags
<1> QED
  BY <1>2, <1>5, <1>6, <1>8, <1>9, <1>10, TypeParts

\* An object that is to be created is not empty.
LEMMA ObjectSizeType ==
  ASSUME HostTypes, pos < SizeOf(part)
  PROVE  ObjectSize \in Nat \ {0}
<1>1. SizeOf(part) \in Nat \ {0} /\ pos \in Nat
  BY DfuAssumption DEF HostTypes, SizeOf
<1> QED
  BY <1>1, DfuAssumption DEF ObjectSize, Least

\* A request x is sent, after which the host is at step next and waits or not.
LEMMA SentLine ==
  ASSUME HostTypes, LineTypes, Sorted, Wired, Hosted,
         NEW x \in Request, ~x.stale, req' = Append(req, x),
         UNCHANGED <<part, rsp, crossed>>,
         \/ /\ pc \notin {"idle", "write"} /\ wait = FALSE /\ wait' = TRUE /\ pc' = pc
            /\ x.op = (IF pc = "check" THEN "ping" ELSE pc) /\ x.part = part
         \/ /\ pc = "write" /\ pc' \in {"write", "crc"} /\ wait' = wait
            /\ x.op = "write" /\ x.n > 0
  PROVE  LineTypes' /\ Sorted' /\ Wired'
<1>1. /\ req' \in Seq(Request) /\ Len(req') = Len(req) + 1 /\ req' # <<>>
      /\ \A i \in DOMAIN req' : req'[i] = IF i \in DOMAIN req THEN req[i] ELSE x
      /\ \A i \in DOMAIN req' : i \notin DOMAIN req => i = Len(req')
      /\ DOMAIN req = 1 .. Len(req) /\ DOMAIN req' = 1 .. Len(req')
      /\ Len(req) \in Nat
  BY Appended DEF LineTypes
<1>2. LineTypes'
  BY <1>1 DEF LineTypes
<1>3. CASE pc = "check"
  <2>1. Old(req) /\ Old(rsp) /\ pc' = "check" /\ wait' = TRUE
    BY <1>3 DEF Sorted
  <2>2. OldButLast(req') /\ OldButLast(rsp') /\ Old(rsp')
    BY <1>1, <2>1 DEF Old, OldButLast
  <2>3. Sorted'
    BY <2>1, <2>2 DEF Sorted
  <2>4. Wired'
    BY <1>1, <1>3, <2>1 DEF Wired
  <2> QED
    BY <1>2, <2>3, <2>4
<1>4. CASE pc # "check"
  <2>1. pc \notin {"idle", "check"} /\ pc' \notin {"idle", "check"}
    BY <1>4
  <2>2. Sorted'
    BY <1>1, <2>1 DEF Sorted, New
  <2>3. CASE pc = "write"
    <3>1. Writes(req) /\ rsp = <<>> /\ x.op = "write" /\ x.n > 0 /\ ~wait /\ ~wait'
      BY <2>3 DEF Wired, Hosted
    <3>2. Writes(req')
      BY <1>1, <3>1 DEF Writes
    <3> QED
      BY <1>1, <1>2, <2>2, <2>3, <3>1, <3>2 DEF Wired
  <2>4. CASE pc = "crc"
    <3>1. Writes(req) /\ rsp = <<>> /\ x.op = "crc" /\ wait' = TRUE /\ pc' = "crc"
      BY <2>4 DEF Wired
    <3>2. \A i \in DOMAIN req' : /\ req'[i].op \in {"write", "crc"}
                                 /\ i < Len(req') => req'[i].op = "write"
      BY <1>1, <3>1 DEF Writes
    <3>3. Len(rsp') <= 1 /\ rsp' = <<>>
      BY <3>1
    <3>4. \A i \in DOMAIN req' : /\ i > 1 => req'[i].op \in {"ping", "write", "crc"}
                                 /\ req'[i].op = "write" => req'[i].n > 0
      BY <1>1, <3>1 DEF Wired
    <3> QED
      BY <1>2, <2>2, <3>1, <3>2, <3>3, <3>4 DEF Wired
  <2>5. CASE pc \notin {"write", "crc"}
    <3>1. /\ req = <<>> /\ rsp = <<>> /\ wait' = TRUE /\ pc' = pc
          /\ pc \in {"ping", "prn", "mtu", "select", "create", "exec"}
          /\ x.op = pc /\ x.part = part
      BY <2>1, <2>5 DEF Wired, HostTypes
    <3>2. Len(req') = 1 /\ Len(rsp') = 0 /\ req'[1] = x
      BY <1>1, <3>1
    <3> QED
      BY <1>1, <1>2, <2>2, <3>1, <3>2 DEF Wired
  <2> QED
    BY <2>3, <2>4, <2>5
<1> QED
  BY <1>3, <1>4

LEMMA SendInv ==
  ASSUME Inv, HostSend
  PROVE  Inv'
<1> USE DEF Inv
<1>1. HostTypes /\ LineTypes /\ BootTypes /\ HistTypes /\ Flags
  BY TypeParts
<1>2. BootTypes' /\ Settled'
  BY <1>1, BootKept DEF HostSend
<1> DEFINE x == [op |-> IF pc = "check" THEN "ping" ELSE pc, part |-> part, of |-> file,
                 from |-> 0, n |-> IF pc = "create" THEN ObjectSize ELSE 0,
                 stale |-> FALSE]
<1>3. /\ pc \notin {"idle", "write"} /\ wait = FALSE /\ wait' = TRUE /\ req' = Append(req, x)
      /\ UNCHANGED <<pc, part, file, tries, rec, pos, sent, upto, rsp, boot, hist, bounds>>
  BY <1>1 DEF HostSend, Flags
<1>4. x \in Request
  <2>1. (IF pc = "create" THEN ObjectSize ELSE 0) \in Nat
    BY <1>1, ObjectSizeType DEF Hosted
  <2> QED
    BY <1>1, <1>3, <2>1 DEF Request, HostTypes
<1>5. x.stale = FALSE /\ x.op = (IF pc = "check" THEN "ping" ELSE pc) /\ x.part = part
  OBVIOUS
<1> HIDE DEF x
<1>6. LineTypes' /\ Sorted' /\ Wired'
  BY <1>1, <1>3, <1>4, <1>5, SentLine DEF hist
<1>7. HostTypes' /\ HistTypes'
  BY <1>1, <1>3 DEF HostTypes, HistTypes, hist, bounds
<1>8. Flags'
  BY <1>1 DEF HostSend, Flags, boot, hist
<1>9. Hosted' /\ NoStaleAnswer' /\ Installs'
  BY <1>3 DEF Hosted, NoStaleAnswer, Installs, hist, boot, SizeOf
<1>10. Agreed'
  <2>1. pc \in {"select", "crc", "exec"} => rsp = <<>>
    BY <1>3 DEF Wired
  <2> QED
    BY <1>3, <2>1 DEF Agreed, boot, Received
<1>11. ExecSafe'
  <2>1. Head(req') = IF req = <<>> THEN x ELSE Head(req)
    BY <1>1, <1>3, <1>4, Appended DEF LineTypes
  <2>2. CASE req = <<>>
    BY <1>3, <1>5, <2>1, <2>2 DEF ExecSafe, Agreed, boot, Received
  <2>3. CASE req # <<>>
    BY <1>3, <2>1, <2>3 DEF ExecSafe, boot
  <2> QED
    BY <2>2, <2>3
<1> QED
  BY <1>2, <1>6, <1>7, <1>8, <1>9, <1>10, <1>11, TypeParts

LEMMA WriteInv ==
  ASSUME Inv, HostWrite
  PROVE  Inv'
<1> USE DEF Inv
<1>1. HostTypes /\ LineTypes /\ BootTypes /\ HistTypes /\ Flags
  BY TypeParts
<1>2. BootTypes' /\ Settled'
  BY <1>1, BootKept DEF HostWrite
<1> DEFINE n == Least(upto - sent, ChunkSize)
           x == [op |-> "write", part |-> part, of |-> file, from |-> sent, n |-> n,
                 stale |-> FALSE]
<1>3. n \in Nat \ {0} /\ n <= upto - sent /\ sent \in Nat /\ upto \in Nat /\ pc = "write"
  BY <1>1, DfuAssumption DEF HostWrite, HostTypes, Hosted, Least
<1>4. x \in Request /\ x.stale = FALSE /\ x.op = "write" /\ x.n > 0
  BY <1>1, <1>3 DEF Request, HostTypes
<1>5. /\ req' = Append(req, x) /\ sent' = sent + n
      /\ pc' = IF sent + n = upto THEN "crc" ELSE "write"
      /\ UNCHANGED <<part, file, wait, tries, rec, pos, upto, rsp, boot, hist, bounds>>
  BY DEF HostWrite
<1> HIDE DEF x, n
<1>6. LineTypes' /\ Sorted' /\ Wired'
  BY <1>1, <1>3, <1>4, <1>5, SentLine DEF hist
<1>7. HostTypes' /\ HistTypes'
  BY <1>1, <1>3, <1>5 DEF HostTypes, HistTypes, hist, bounds
<1>8. Flags'
  BY <1>1, <1>5 DEF Flags, boot, hist
<1>9. Hosted' /\ NoStaleAnswer' /\ Installs'
  BY <1>3, <1>5 DEF Hosted, NoStaleAnswer, Installs, hist, boot, SizeOf
<1>10. rsp = <<>>
  BY <1>3 DEF Wired
<1>11. Agreed'
  BY <1>3, <1>5, <1>10 DEF Agreed, boot, Received
<1>12. ExecSafe'
  <2>1. Head(req') = IF req = <<>> THEN x ELSE Head(req)
    BY <1>1, <1>5, <1>4, Appended DEF LineTypes
  <2> QED
    BY <1>4, <1>5, <2>1 DEF ExecSafe, boot
<1> QED
  BY <1>2, <1>6, <1>7, <1>8, <1>9, <1>11, <1>12, TypeParts

-----------------------------------------------------------------------------
(* What the host does with a response.                                      *)

\* A response that is accepted is of this attempt, and the only thing on the line.
LEMMA AcceptedIsAlone ==
  ASSUME Inv, wait, rsp # <<>>, Answers(Head(rsp))
  PROVE  /\ ~Head(rsp).stale /\ Head(rsp).ok /\ Head(rsp).content \in Content
         /\ req = <<>> /\ Tail(rsp) = <<>>
         /\ pc \notin {"idle", "write"}
<1> USE DEF Inv
<1>1. HostTypes /\ LineTypes
  BY TypeParts
<1>2. /\ rsp \in Seq(Response) /\ Head(rsp) \in Response /\ Head(rsp) = rsp[1]
      /\ 1 \in DOMAIN rsp /\ DOMAIN rsp = 1 .. Len(rsp) /\ Len(rsp) \in Nat
      /\ Len(rsp) = 1 => Tail(rsp) = <<>>
  BY <1>1, TailOf DEF LineTypes
<1>3. Head(rsp).content \in Content /\ Head(rsp).ok /\ pc \notin {"idle", "write"}
  BY <1>2 DEF Response, Answers, Hosted
<1>4. CASE pc = "check"
  <2>1. ~Head(rsp).stale
    BY <1>4 DEF Answers
  <2>2. Len(rsp) = 1 /\ req = <<>>
    BY <1>2, <1>4, <2>1 DEF Sorted, Old, OldButLast
  <2>3. Tail(rsp) = <<>>
    BY <1>2, <2>2
  <2> QED
    BY <1>3, <2>1, <2>2, <2>3
<1>5. CASE pc # "check"
  <2>1. ~Head(rsp).stale
    BY <1>2, <1>3, <1>5 DEF Sorted, New
  <2>2. Len(rsp) = 1 /\ req = <<>>
    <3>1. CASE pc = "crc"
      BY <1>2, <3>1 DEF Wired
    <3>2. CASE pc # "crc"
      <4>1. Len(req) + Len(rsp) <= 1
        BY <1>1, <1>3, <1>5, <3>2 DEF Wired, HostTypes
      <4>2. req \in Seq(Request) /\ Len(req) \in Nat
        BY <1>1 DEF LineTypes
      <4> QED
        BY <1>2, <4>1, <4>2
    <3> QED
      BY <3>1, <3>2
  <2>3. Tail(rsp) = <<>>
    BY <1>2, <2>2
  <2> QED
    BY <1>3, <2>1, <2>2, <2>3
<1> QED
  BY <1>4, <1>5

\* The host may go on with an empty line to what the bootloader is ready for.
Ready ==
  mode = "dfu" =>
    /\ pc' \in {"create", "write", "crc", "exec"} => obj = part'
    /\ pc' = "exec" => /\ (IF part' = "ip" THEN prog.cmd ELSE prog.img).of = file
                       /\ part' = "fw" => prog.img.len = upto'
    /\ pc' # "idle" /\ part' = "fw" => valid /\ target = file

LEMMA Proceeds ==
  ASSUME Inv, req' = <<>>, rsp' = <<>>, UNCHANGED <<boot, hurt, crossed, bounds, file>>,
         wait' = FALSE, pc' # "check", HostTypes', rec' \in BOOLEAN,
         result' \in {"none", "fail", "ok"}, Hosted', Ready,
         result' = "ok" => pc' = "idle" /\ installed = file
  PROVE  Inv'
<1> USE DEF Inv
<1>1. LineTypes /\ BootTypes /\ HistTypes /\ Flags
  BY TypeParts
<1>2. BootTypes' /\ Settled'
  BY <1>1, BootKept
<1>3. LineTypes' /\ HistTypes'
  BY <1>1 DEF LineTypes, HistTypes, bounds
<1>4. Flags'
  BY <1>1 DEF Flags, boot
<1>5. Sorted' /\ Wired' /\ ExecSafe' /\ NoStaleAnswer'
  BY DEF Sorted, Wired, ExecSafe, NoStaleAnswer, New, Writes
<1>6. Agreed'
  BY DEF Agreed, Ready, boot, Received
<1>7. Installs'
  BY DEF Installs, boot
<1> QED
  BY <1>2, <1>3, <1>4, <1>5, <1>6, <1>7, TypeParts

\* The next object of the image, or the end of it.
LEMMA SendFwFromKeeps ==
  ASSUME HostTypes, Hosted, NEW a \in Nat, SendFwFrom(a), pc # "idle", part = "fw",
         mode = "dfu" /\ a < FwSize => valid /\ target = file /\ obj = "fw"
  PROVE  /\ HostTypes' /\ Hosted' /\ Ready /\ file' = file
         /\ wait' = FALSE /\ pc' # "check" /\ result' \in {"none", "ok"}
         /\ result' = "ok" <=> a >= FwSize
         /\ result' = "ok" => pc' = "idle"
<1>1. CASE a >= FwSize
  <2>1. /\ pos' = a /\ UNCHANGED <<file, tries, sent, upto, part>>
        /\ pc' = "idle" /\ wait' = FALSE /\ result' = "ok"
    BY <1>1 DEF SendFwFrom
  <2> QED
    BY <1>1, <2>1 DEF HostTypes, Hosted, Ready
<1>2. CASE a < FwSize
  <2>1. /\ pos' = a /\ UNCHANGED <<file, tries, sent, upto, result>>
        /\ pc' = "create" /\ wait' = FALSE /\ part' = "fw"
    BY <1>2, DfuAssumption DEF SendFwFrom, Goto
  <2>2. HostTypes'
    BY <2>1 DEF HostTypes, Parts
  <2>3. Hosted' /\ result' = "none"
    BY <1>2, <2>1 DEF Hosted, SizeOf
  <2>4. Ready
    BY <1>2, <2>1 DEF Ready
  <2>5. ~(a >= FwSize)
    BY <1>2, DfuAssumption
  <2> QED
    BY <2>1, <2>2, <2>3, <2>4, <2>5
<1>3. a >= FwSize \/ a < FwSize
  BY DfuAssumption
<1> QED
  BY <1>1, <1>2, <1>3

\* What is left of a page is streamed, or sent again, from where it begins.
LEMMA PageStart ==
  ASSUME NEW a \in Nat, a > 0
  PROVE  /\ a % PageSize \in 0 .. PageSize - 1 /\ a - (a % PageSize) \in Nat
         /\ a - (IF a % PageSize > 0 THEN a % PageSize ELSE PageSize) \in 0 .. a - 1
         /\ a + PageSize - (a % PageSize) \in Nat /\ a < a + PageSize - (a % PageSize)
<1> DEFINE r == a % PageSize
<1>1. PageSize \in Nat \ {0}
  BY DfuAssumption
<1>2. r \in 0 .. PageSize - 1 /\ r <= a /\ (r = 0 => a >= PageSize)
  BY <1>1, Remainder
<1> HIDE DEF r
<1>3. /\ r \in 0 .. PageSize - 1 /\ a - r \in Nat
      /\ a - (IF r > 0 THEN r ELSE PageSize) \in 0 .. a - 1
      /\ a + PageSize - r \in Nat /\ a < a + PageSize - r
  BY <1>1, <1>2
<1> QED
  BY <1>3 DEF r

\* The image is resumed after the bootloader has said what it has of it.
LEMMA ResumeFwKeeps ==
  ASSUME HostTypes, Hosted, pc = "select", part = "fw", NEW c \in Content, ResumeFw(c),
         mode = "dfu" => obj = "fw" /\ c = prog.img /\ valid /\ target = file
  PROVE  /\ HostTypes' /\ Hosted' /\ Ready /\ file' = file
         /\ wait' = FALSE /\ pc' # "check" /\ result' \in {"none", "fail"}
<1> DEFINE rest == c.len % PageSize
<1>1. c.len \in Nat
  BY DEF Content
<1>2. CASE c.len > FwSize
  <2>1. End("fail")
    BY <1>1, <1>2, DfuAssumption DEF ResumeFw
  <2> QED
    BY <2>1 DEF End, HostTypes, Hosted, Ready
<1>3. CASE c.len = 0
  <2>1. SendFwFrom(0)
    BY <1>3, DfuAssumption DEF ResumeFw
  <2> QED
    <3>1. 0 < FwSize /\ ~(0 >= FwSize) /\ 0 \in Nat
      BY DfuAssumption
    <3> QED
      BY <2>1, <3>1, SendFwFromKeeps
<1>4. CASE c.len \in 1 .. FwSize /\ c.of # file
  <2> DEFINE a == c.len - IF rest > 0 THEN rest ELSE PageSize
  <2>1. SendFwFrom(a)
    BY <1>4, DfuAssumption DEF ResumeFw
  <2>2. a \in Nat /\ a < FwSize
    <3>1. a \in 0 .. c.len - 1
      BY <1>1, <1>4, PageStart
    <3> HIDE DEF a
    <3> QED
      BY <1>1, <1>4, <3>1, DfuAssumption
  <2> HIDE DEF a
  <2>3. ~(a >= FwSize)
    BY <2>2, DfuAssumption
  <2> QED
    BY <2>1, <2>2, <2>3, SendFwFromKeeps
<1>5. CASE c.len \in 1 .. FwSize /\ c.of = file
  <2>1. /\ UNCHANGED <<file, tries, result>>
        /\ IF rest > 0
           THEN /\ Stream(c.len, c.len + PageSize - rest)
                /\ pos' = c.len - rest /\ UNCHANGED part
           ELSE Goto("exec", "fw") /\ upto' = c.len /\ UNCHANGED <<pos, sent>>
    BY <1>1, <1>5, DfuAssumption DEF ResumeFw
  <2>2. /\ rest \in 0 .. PageSize - 1 /\ c.len - rest \in Nat
        /\ c.len + PageSize - rest \in Nat /\ c.len < c.len + PageSize - rest
    BY <1>1, <1>5, PageStart
  <2> HIDE DEF rest
  <2>3. CASE rest > 0
    <3>1. /\ pc' = "write" /\ sent' = c.len /\ upto' = c.len + PageSize - rest
          /\ wait' = FALSE /\ pos' = c.len - rest /\ part' = part
          /\ UNCHANGED <<file, tries, result>>
      BY <2>1, <2>3 DEF Stream
    <3>2. pos' < FwSize
      BY <1>1, <1>5, <2>2, <2>3, <3>1, DfuAssumption
    <3>3. HostTypes'
      BY <1>1, <2>2, <3>1 DEF HostTypes
    <3>4. Hosted'
      BY <1>1, <2>2, <3>1, <3>2 DEF Hosted, SizeOf
    <3>5. Ready
      BY <3>1 DEF Ready
    <3> QED
      BY <3>1, <3>3, <3>4, <3>5 DEF Hosted
  <2>4. CASE ~(rest > 0)
    <3>1. /\ pc' = "exec" /\ upto' = c.len /\ wait' = FALSE /\ part' = "fw"
          /\ UNCHANGED <<file, tries, result, pos, sent>>
      BY <2>1, <2>4 DEF Goto
    <3>2. HostTypes' /\ Hosted' /\ Ready
      BY <1>1, <1>5, <3>1 DEF HostTypes, Hosted, Ready, Parts
    <3> QED
      BY <3>1, <3>2 DEF Hosted
  <2> QED
    BY <2>3, <2>4
<1>6. c.len > FwSize \/ c.len = 0 \/ c.len \in 1 .. FwSize
  BY <1>1, DfuAssumption
<1> QED
  BY <1>2, <1>3, <1>4, <1>5, <1>6

\* The init packet is resumed.
LEMMA ResumeIpKeeps ==
  ASSUME HostTypes, Hosted, pc = "select", part = "ip", NEW c \in Content, ResumeIp(c),
         UNCHANGED <<file, tries, result>>,
         mode = "dfu" => obj = "ip" /\ c = prog.cmd
  PROVE  /\ HostTypes' /\ Hosted' /\ Ready
         /\ wait' = FALSE /\ pc' # "check" /\ result' = "none"
<1>1. c.len \in Nat /\ pos = 0 /\ result = "none" /\ IpSize \in Nat \ {0}
  BY DfuAssumption DEF Content, Hosted
<1>2. CASE c.len \in 1 .. IpSize /\ c.of = file /\ c.len < IpSize
  <2>1. /\ pc' = "write" /\ sent' = c.len /\ upto' = IpSize /\ wait' = FALSE
        /\ UNCHANGED <<part, pos>>
    BY <1>2 DEF ResumeIp, Stream
  <2> QED
    BY <1>1, <1>2, <2>1 DEF HostTypes, Hosted, Ready, SizeOf
<1>3. CASE c.len \in 1 .. IpSize /\ c.of = file /\ ~(c.len < IpSize)
  <2>1. /\ pc' = "exec" /\ part' = "ip" /\ wait' = FALSE
        /\ UNCHANGED <<sent, upto, pos>>
    BY <1>3 DEF ResumeIp, Goto
  <2> QED
    BY <1>1, <1>3, <2>1 DEF HostTypes, Hosted, Ready, SizeOf, Parts
<1>4. CASE ~(c.len \in 1 .. IpSize /\ c.of = file)
  <2>1. /\ pc' = "create" /\ part' = "ip" /\ wait' = FALSE
        /\ UNCHANGED <<sent, upto>> /\ pos' = 0
    BY <1>4 DEF ResumeIp, Goto
  <2> QED
    BY <1>1, <1>4, <2>1 DEF HostTypes, Hosted, Ready, SizeOf, Parts
<1> QED
  BY <1>2, <1>3, <1>4

\* What the host does with a response it accepts.
LEMMA GoesOnInv ==
  ASSUME Inv, wait, rsp # <<>>, Answers(Head(rsp)), HostGoesOn(Head(rsp).content),
         crossed' = (crossed \/ Head(rsp).stale), rsp' = Tail(rsp),
         UNCHANGED <<req, boot, hurt, bounds>>
  PROVE  Inv'
<1> USE DEF Inv
<1>1. HostTypes /\ LineTypes /\ BootTypes /\ HistTypes /\ Flags
  BY TypeParts
<1> DEFINE c == Head(rsp).content
<1>2. /\ c \in Content /\ Head(rsp).ok /\ req' = <<>> /\ rsp' = <<>> /\ req = <<>>
      /\ pc \notin {"idle", "write"}
  BY AcceptedIsAlone
<1>3. crossed' = crossed
  BY <1>1, AcceptedIsAlone, Zenon DEF Flags
<1>4. HostGoesOn(c)
  OBVIOUS
<1>5. /\ pc \in {"select", "crc"} /\ mode = "dfu" => c = Received(part) /\ obj = part
      /\ part = "fw" /\ mode = "dfu" => valid /\ target = file
      /\ pc \in {"create", "exec"} /\ mode = "dfu" => obj = part
      /\ pc = "exec" /\ part = "ip" /\ mode = "dfu" => valid /\ target = file
      /\ pc = "exec" /\ part = "fw" /\ upto >= FwSize => installed = file
  BY <1>2 DEF Agreed, Installs
<1> HIDE DEF c
<1> DEFINE Goal == /\ HostTypes' /\ Hosted' /\ Ready /\ file' = file /\ wait' = FALSE
                   /\ pc' # "check" /\ result' \in {"none", "fail", "ok"}
                   /\ result' = "ok" => pc' = "idle" /\ installed = file
           Same == UNCHANGED <<file, tries, rec, pos, sent, upto, result>>
<1>6. result = "none"
  BY <1>2 DEF Hosted
<1>7. ASSUME pc \in {"check", "ping", "prn", "mtu"} PROVE Goal /\ rec' \in BOOLEAN
  <2>1. Same /\ pc' \in {"ping", "prn", "mtu", "select"} /\ part' = "ip" /\ wait' = FALSE
    BY <1>4, <1>7 DEF HostGoesOn, Goto
  <2>2. pos' = 0
    BY <1>7, <2>1 DEF Hosted
  <2>3. HostTypes'
    BY <1>1, <2>1 DEF HostTypes, Parts
  <2>4. Hosted' /\ Ready
    BY <1>6, <2>1, <2>2 DEF Hosted, Ready
  <2>5. rec' \in BOOLEAN
    BY <1>1, <2>1 DEF Flags
  <2> QED
    BY <1>6, <2>1, <2>3, <2>4, <2>5
<1>8. ASSUME pc = "select" /\ part = "ip" PROVE Goal /\ rec' \in BOOLEAN
  <2>1. ResumeIp(c) /\ UNCHANGED <<file, tries, result>>
    BY <1>4, <1>8 DEF HostGoesOn
  <2>2. rec' \in BOOLEAN
    BY <2>1 DEF ResumeIp
  <2>3. mode = "dfu" => obj = "ip" /\ c = prog.cmd
    BY <1>5, <1>8 DEF Received
  <2> QED
    BY <1>1, <1>2, <1>6, <1>8, <2>1, <2>2, <2>3, ResumeIpKeeps
<1>9. ASSUME pc = "select" /\ part = "fw" PROVE Goal /\ rec' \in BOOLEAN
  <2>1. ResumeFw(c)
    BY <1>4, <1>9 DEF HostGoesOn
  <2>2. rec' \in BOOLEAN
    BY <1>1, <2>1, Zenon DEF ResumeFw, SendFwFrom, End, Flags
  <2>3. mode = "dfu" => obj = "fw" /\ c = prog.img /\ valid /\ target = file
    BY <1>5, <1>9 DEF Received
  <2> QED
    BY <1>1, <1>2, <1>6, <1>9, <2>1, <2>2, <2>3, ResumeFwKeeps
<1>10. ASSUME pc = "create" PROVE Goal /\ rec' \in BOOLEAN
  <2>1. /\ pc' = "write" /\ sent' = pos /\ upto' = pos + ObjectSize /\ wait' = FALSE
        /\ UNCHANGED <<part, file, tries, rec, pos, result>>
    BY <1>4, <1>10 DEF HostGoesOn, Stream
  <2>2. ObjectSize \in Nat \ {0} /\ pos < SizeOf(part) /\ pos \in Nat
    BY <1>1, <1>10, ObjectSizeType DEF Hosted, HostTypes
  <2>3. HostTypes'
    BY <1>1, <2>1, <2>2 DEF HostTypes
  <2>4. Hosted'
    BY <1>6, <1>10, <2>1, <2>2 DEF Hosted, SizeOf
  <2>5. Ready
    BY <1>5, <1>10, <2>1 DEF Ready
  <2>6. rec' \in BOOLEAN
    BY <1>1, <2>1 DEF Flags
  <2> QED
    BY <1>6, <2>1, <2>3, <2>4, <2>5, <2>6
<1>11. ASSUME pc = "crc" /\ CrcMatches(c) PROVE Goal /\ rec' \in BOOLEAN
  <2>1. /\ pc' = "exec" /\ wait' = FALSE
        /\ UNCHANGED <<part, file, tries, rec, pos, sent, upto, result>>
    BY <1>4, <1>11 DEF HostGoesOn, Goto
  <2>2. HostTypes' /\ Hosted'
    BY <1>1, <1>6, <1>11, <2>1 DEF HostTypes, Hosted
  <2>3. Ready
    BY <1>1, <1>5, <1>11, <2>1 DEF Ready, CrcMatches, Received
  <2>4. rec' \in BOOLEAN
    BY <1>1, <2>1 DEF Flags
  <2> QED
    BY <1>6, <2>1, <2>2, <2>3, <2>4
<1>12. ASSUME pc = "crc" /\ ~CrcMatches(c) /\ ~rec PROVE Goal /\ rec' \in BOOLEAN
  <2>1. End("fail")
    BY <1>4, <1>12 DEF HostGoesOn
  <2>2. HostTypes' /\ Hosted' /\ Ready
    BY <1>1, <1>12, <2>1 DEF End, HostTypes, Hosted, Ready
  <2>3. rec' \in BOOLEAN
    BY <1>1, <2>1 DEF End, Flags
  <2> QED
    BY <2>1, <2>2, <2>3 DEF End
<1>13. ASSUME pc = "crc" /\ ~CrcMatches(c) /\ rec PROVE Goal /\ rec' \in BOOLEAN
  <2>1. /\ pc' = "create" /\ wait' = FALSE /\ rec' = FALSE
        /\ UNCHANGED <<part, file, tries, pos, sent, upto, result>>
    BY <1>4, <1>13 DEF HostGoesOn, Goto
  <2>2. HostTypes'
    BY <1>1, <2>1 DEF HostTypes
  <2>3. Hosted'
    BY <1>6, <1>13, <2>1 DEF Hosted, SizeOf
  <2>4. Ready
    BY <1>5, <1>13, <2>1 DEF Ready
  <2>5. rec' \in BOOLEAN
    BY <2>1
  <2> QED
    BY <1>6, <2>1, <2>2, <2>3, <2>4, <2>5
<1>14. ASSUME pc = "exec" /\ part = "ip" PROVE Goal /\ rec' \in BOOLEAN
  <2>1. /\ pc' = "select" /\ part' = "fw" /\ wait' = FALSE /\ rec' = FALSE
        /\ UNCHANGED <<file, tries, pos, sent, upto, result>>
    BY <1>4, <1>14 DEF HostGoesOn, Goto
  <2>2. HostTypes' /\ Hosted'
    BY <1>1, <1>6, <2>1 DEF HostTypes, Hosted, Parts
  <2>3. Ready
    BY <1>5, <1>14, <2>1 DEF Ready
  <2>4. rec' \in BOOLEAN
    BY <2>1
  <2> QED
    BY <1>6, <2>1, <2>2, <2>3, <2>4
<1>15. ASSUME pc = "exec" /\ part = "fw" PROVE Goal /\ rec' \in BOOLEAN
  <2>1. SendFwFrom(upto)
    BY <1>4, <1>15 DEF HostGoesOn
  <2>2. upto \in Nat
    BY <1>1 DEF HostTypes
  <2>3. mode = "dfu" => valid /\ target = file /\ obj = "fw"
    BY <1>5, <1>15
  <2>4. rec' \in BOOLEAN
    BY <2>1 DEF SendFwFrom
  <2>5. /\ HostTypes' /\ Hosted' /\ Ready /\ file' = file
        /\ wait' = FALSE /\ pc' # "check" /\ result' \in {"none", "ok"}
        /\ result' = "ok" => pc' = "idle" /\ upto >= FwSize
    BY <1>1, <1>2, <1>15, <2>1, <2>2, <2>3, SendFwFromKeeps
  <2> QED
    BY <1>5, <1>15, <2>4, <2>5
<1>16. Goal /\ rec' \in BOOLEAN
  <2>1. \/ pc \in {"check", "ping", "prn", "mtu"} \/ pc = "select" \/ pc = "create"
        \/ pc = "crc" \/ pc = "exec"
    BY <1>1, <1>2 DEF HostTypes
  <2>2. part = "ip" \/ part = "fw"
    BY <1>1 DEF HostTypes, Parts
  <2> QED
    BY <1>7, <1>8, <1>9, <1>10, <1>11, <1>12, <1>13, <1>14, <1>15, <2>1, <2>2
<1> QED
  BY <1>2, <1>3, <1>16, Proceeds

LEMMA ReceiveInv ==
  ASSUME Inv, HostReceive
  PROVE  Inv'
<1>1. HostTypes /\ LineTypes /\ HistTypes /\ Flags
  BY TypeParts DEF Inv
<1>2. wait /\ rsp # <<>> /\ UNCHANGED <<boot, hurt, bounds>>
  BY DEF HostReceive
<1>3. CASE Answers(Head(rsp))
  <2>1. /\ HostGoesOn(Head(rsp).content) /\ crossed' = (crossed \/ Head(rsp).stale)
        /\ rsp' = Tail(rsp) /\ UNCHANGED req
    BY <1>3 DEF HostReceive
  <2> QED
    BY <1>2, <1>3, <2>1, GoesOnInv
<1>4. CASE ~Answers(Head(rsp))
  <2>1. HostGivesUp /\ rsp' = Abandoned(Tail(rsp)) /\ UNCHANGED crossed
    BY <1>4 DEF HostReceive
  <2>2. Tail(rsp) \in Seq(Response)
    BY <1>1, <1>2, TailOf DEF LineTypes
  <2>3. HistTypes'
    BY <1>1, <1>2, <2>1 DEF HistTypes, HostGivesUp, End, bounds
  <2>4. hurt' \in BOOLEAN
    BY <1>1, <1>2 DEF Flags
  <2> QED
    BY <1>2, <2>1, <2>2, <2>3, <2>4, GivesUpInv
<1> QED
  BY <1>3, <1>4

-----------------------------------------------------------------------------
(* A request leaves the line.                                               *)

\* A request of this attempt that is not a write is the last one and has no response
\* in front of it.
LEMMA HeadOfLine ==
  ASSUME HostTypes, LineTypes, Wired, Hosted, req # <<>>, pc \notin {"idle", "check"},
         Head(req).op # "write"
  PROVE  wait /\ Head(req).op = pc /\ rsp = <<>> /\ Tail(req) = <<>>
         /\ (pc # "crc" => Head(req).part = part)
<1>1. /\ Head(req) = req[1] /\ 1 \in DOMAIN req /\ Len(req) \in Nat \ {0}
      /\ Len(req) = 1 => Tail(req) = <<>>
  BY TailOf DEF LineTypes
<1>2. rsp \in Seq(Response) /\ Len(rsp) \in Nat /\ (Len(rsp) = 0 => rsp = <<>>)
  BY DEF LineTypes
<1>3. CASE pc \in {"write", "crc"}
  <2>1. pc = "crc" /\ wait
    BY <1>1, <1>3 DEF Wired, Writes
  <2>2. Len(req) = 1 /\ Head(req).op = "crc"
    <3>1. req[1].op \in {"write", "crc"} /\ (1 < Len(req) => req[1].op = "write")
      BY <1>1, <2>1 DEF Wired
    <3>2. req[1].op # "write"
      BY <1>1
    <3>3. Head(req).op = "crc" /\ ~(1 < Len(req))
      BY <1>1, <3>1, <3>2
    <3>4. Len(req) \in Nat \ {0}
      BY <1>1
    <3>5. Len(req) = 1
      <4>1. \A n \in Nat \ {0} : ~(1 < n) => n = 1
        OBVIOUS
      <4> QED
        BY <3>3, <3>4, <4>1, Zenon
    <3> QED
      BY <3>3, <3>5
  <2>3. rsp = <<>>
    BY <2>1 DEF Wired
  <2> QED
    BY <1>1, <2>1, <2>2, <2>3
<1>4. CASE pc \notin {"write", "crc"}
  <2>1. pc \in {"ping", "prn", "mtu", "select", "create", "exec"}
    BY <1>4 DEF HostTypes
  <2>2. wait
    BY <2>1 DEF Wired
  <2>3. /\ Len(req) + Len(rsp) <= 1 /\ Head(req).op = pc /\ Head(req).part = part
    BY <1>1, <2>1, <2>2 DEF Wired
  <2>4. Len(req) = 1 /\ Len(rsp) = 0
    <3>1. Len(req) \in Nat \ {0} /\ Len(rsp) \in Nat /\ Len(req) + Len(rsp) <= 1
      BY <1>1, <1>2, <2>3
    <3> QED
      BY <3>1
  <2> QED
    BY <1>1, <1>2, <2>2, <2>3, <2>4
<1> QED
  BY <1>3, <1>4

\* The first request leaves the line, and may be answered.
LEMMA TakenLine ==
  ASSUME HostTypes, LineTypes, Sorted, Wired, Hosted, req # <<>>, req' = Tail(req),
         UNCHANGED <<pc, part, wait>>,
         \/ rsp' = rsp
         \/ /\ pc # "idle" /\ Head(req).op # "write"
            /\ \E a \in Response : /\ a.op = Head(req).op /\ a.stale = Head(req).stale
                                   /\ rsp' = Append(rsp, a)
  PROVE  LineTypes' /\ Sorted' /\ Wired'
<1>1. /\ req' \in Seq(Request) /\ Len(req') = Len(req) - 1
      /\ \A i \in DOMAIN req' : i + 1 \in DOMAIN req /\ req'[i] = req[i + 1]
      /\ Head(req) = req[1] /\ 1 \in DOMAIN req
      /\ DOMAIN req = 1 .. Len(req) /\ DOMAIN req' = 1 .. Len(req')
      /\ Len(req) \in Nat \ {0}
  BY TailOf DEF LineTypes
<1>2. \A i \in DOMAIN req' : req'[i].op \in {"ping", "write", "crc"}
  BY <1>1 DEF Wired
<1>3. \A i \in DOMAIN req' : req'[i].op = "write" => req'[i].n > 0
  BY <1>1 DEF Wired
<1>4. CASE rsp' = rsp
  <2>1. LineTypes'
    BY <1>1, <1>4 DEF LineTypes
  <2>2. Sorted'
    <3>1. CASE pc = "check" /\ ~wait
      BY <1>1, <1>4, <3>1 DEF Sorted, Old
    <3>2. CASE pc = "check" /\ wait
      <4>1. OldButLast(req') /\ OldButLast(rsp') /\ Old(rsp')
        BY <1>1, <1>4, <3>2 DEF Sorted, Old, OldButLast
      <4> QED
        BY <3>2, <4>1 DEF Sorted
    <3>3. CASE pc # "check"
      BY <1>1, <1>4, <3>3 DEF Sorted, New
    <3> QED
      BY <3>1, <3>2, <3>3
  <2>3. Wired'
    <3>1. CASE pc \in {"ping", "prn", "mtu", "select", "create", "exec"}
      <4>1. wait
        BY <3>1 DEF Wired
      <4>2. /\ Len(req') + Len(rsp') <= 1
            /\ \A i \in DOMAIN req' : req'[i].op = pc /\ req'[i].part = part
            /\ \A i \in DOMAIN rsp' : rsp'[i].op = pc
        <5>1. Len(rsp) \in Nat
          BY DEF LineTypes
        <5> QED
          BY <1>1, <1>4, <3>1, <4>1, <5>1 DEF Wired
      <4> QED
        BY <1>2, <1>3, <3>1, <4>1, <4>2 DEF Wired
    <3>2. CASE pc = "write" \/ (pc = "crc" /\ ~wait)
      <4>1. Writes(req') /\ rsp' = <<>>
        BY <1>1, <1>4, <3>2 DEF Wired, Writes
      <4> QED
        BY <1>2, <1>3, <3>2, <4>1 DEF Wired
    <3>3. CASE pc = "crc" /\ wait
      <4>1. /\ Len(rsp') <= 1 /\ rsp' = <<>>
            /\ \A i \in DOMAIN req' : i < Len(req') => req'[i].op = "write"
            /\ \A i \in DOMAIN req' : req'[i].op \in {"write", "crc"}
        BY <1>1, <1>4, <3>3 DEF Wired
      <4> QED
        BY <1>2, <1>3, <3>3, <4>1 DEF Wired
    <3>4. CASE pc \in {"idle", "check"}
      BY <1>2, <1>3, <3>4 DEF Wired
    <3> QED
      BY <3>1, <3>2, <3>3, <3>4 DEF HostTypes
  <2> QED
    BY <2>1, <2>2, <2>3
<1>5. ASSUME pc # "idle", Head(req).op # "write", NEW a \in Response, a.op = Head(req).op,
             a.stale = Head(req).stale, rsp' = Append(rsp, a)
      PROVE  LineTypes' /\ Sorted' /\ Wired'
  <2>1. /\ rsp' \in Seq(Response) /\ Len(rsp') = Len(rsp) + 1 /\ Len(rsp) \in Nat
        /\ \A i \in DOMAIN rsp' : rsp'[i] = IF i \in DOMAIN rsp THEN rsp[i] ELSE a
        /\ DOMAIN rsp = 1 .. Len(rsp) /\ DOMAIN rsp' = 1 .. Len(rsp')
        /\ rsp = <<>> => Len(rsp') = 1 /\ rsp'[1] = a
    BY <1>5, Appended DEF LineTypes
  <2>2. LineTypes'
    BY <1>1, <2>1 DEF LineTypes
  <2>3. CASE pc = "check"
    <3>1. Old(rsp)
      BY <2>3 DEF Sorted
    <3>2. CASE ~wait
      <4>1. Old(req) /\ Head(req).stale
        BY <1>1, <2>3, <3>2 DEF Sorted, Old
      <4>2. Old(req')
        BY <1>1, <4>1 DEF Old
      <4>3. Old(rsp')
        BY <1>5, <2>1, <3>1, <4>1 DEF Old
      <4>4. Sorted'
        BY <2>3, <3>2, <4>2, <4>3 DEF Sorted
      <4>5. Wired'
        BY <1>2, <1>3, <2>3 DEF Wired
      <4> QED
        BY <2>2, <4>4, <4>5
    <3>3. CASE wait
      <4>1. OldButLast(rsp') /\ OldButLast(req')
        BY <1>1, <2>1, <2>3, <3>1, <3>3 DEF Sorted, Old, OldButLast
      <4>2. Old(rsp') \/ req' = <<>>
        <5>1. CASE Len(req) = 1
          BY <1>1, <5>1
        <5>2. CASE Len(req) > 1
          <6>1. req[1].stale
            BY <1>1, <2>3, <3>3, <5>2 DEF Sorted, OldButLast
          <6> QED
            BY <1>1, <1>5, <2>1, <3>1, <6>1 DEF Old
        <5> QED
          BY <1>1, <5>1, <5>2
      <4> QED
        BY <1>2, <1>3, <2>2, <2>3, <3>3, <4>1, <4>2 DEF Sorted, Wired
    <3> QED
      BY <3>2, <3>3
  <2>4. CASE pc # "check"
    <3>1. wait /\ Head(req).op = pc /\ rsp = <<>> /\ req' = <<>>
      BY <1>5, <2>4, HeadOfLine
    <3>2. ~a.stale
      BY <1>1, <1>5, <2>4 DEF Sorted, New
    <3>3. Sorted'
      BY <1>5, <2>1, <2>4, <3>1, <3>2 DEF Sorted, New
    <3>4. Wired'
      BY <1>5, <2>1, <2>4, <3>1 DEF Wired
    <3> QED
      BY <2>2, <3>3, <3>4
  <2> QED
    BY <2>3, <2>4
<1> QED
  BY <1>4, <1>5

\* A request has left the line: what is left to show is that the bootloader still has
\* what the host was told, and that a success that was answered is one.
LEMMA HandledInv ==
  ASSUME Inv, req # <<>>, req' = Tail(req), UNCHANGED <<host, result, crossed>>,
         hurt' \in BOOLEAN, HistTypes', BootTypes', valid' \in BOOLEAN, Settled',
         \/ rsp' = rsp
         \/ /\ pc # "idle" /\ Head(req).op # "write"
            /\ \E a \in Response : /\ a.op = Head(req).op /\ a.stale = Head(req).stale
                                   /\ rsp' = Append(rsp, a),
         pc \notin {"idle", "check"} => Agreed',
         pc = "exec" /\ part = "fw" /\ rsp' # <<>> /\ Head(rsp').ok /\ upto >= FwSize =>
           installed' = file
  PROVE  Inv'
<1> USE DEF Inv
<1>1. HostTypes /\ LineTypes /\ Flags
  BY TypeParts
<1>2. /\ pc' = pc /\ part' = part /\ file' = file /\ wait' = wait /\ tries' = tries
      /\ rec' = rec /\ pos' = pos /\ sent' = sent /\ upto' = upto
      /\ result' = result /\ crossed' = crossed
  BY DEF host
<1>3. LineTypes' /\ Sorted' /\ Wired'
  BY <1>1, <1>2, TakenLine
<1>4. HostTypes' /\ Hosted' /\ NoStaleAnswer'
  BY <1>1, <1>2 DEF HostTypes, Hosted, NoStaleAnswer, SizeOf
<1>5. Flags'
  BY <1>1, <1>2 DEF Flags
<1>6. Agreed'
  <2>1. CASE pc \in {"idle", "check"}
    BY <1>2, <2>1 DEF Agreed, Hosted
  <2> QED
    BY <2>1
<1>7. ExecSafe'
  <2>1. req' # <<>> => Head(req').op # "exec"
    <3>1. /\ req \in Seq(Request) /\ req' \in Seq(Request)
          /\ \A i \in DOMAIN req' : i + 1 \in DOMAIN req /\ req'[i] = req[i + 1]
      BY <1>1, TailOf DEF LineTypes
    <3>2. req' # <<>> => Head(req') = req'[1] /\ 1 \in DOMAIN req'
      BY <3>1, TailOf
    <3> HIDE DEF Inv
    <3>3. req' # <<>> => 1 \in DOMAIN req' /\ 2 \in DOMAIN req /\ Head(req') = req[2]
      BY <3>1, <3>2
    <3>4. 2 \in DOMAIN req => req[2].op \in {"ping", "write", "crc"}
      BY DEF Inv, Wired
    <3> QED
      BY <3>3, <3>4
  <2> QED
    BY <2>1 DEF ExecSafe
<1>8. Installs'
  BY <1>2 DEF Installs
<1> QED
  BY <1>3, <1>4, <1>5, <1>6, <1>7, <1>8, TypeParts

LEMMA TakenRequest ==
  ASSUME Inv, req # <<>>
  PROVE  /\ Head(req) \in Request
         /\ Head(req).op = "write" => Head(req).n > 0
         /\ result # "ok"
<1>1. req \in Seq(Request)
  BY DEF Inv, TypeOK
<1>2. Head(req) \in Request /\ Head(req) = req[1] /\ 1 \in DOMAIN req
  BY <1>1, TailOf
<1> QED
  BY <1>2 DEF Inv, Wired, Installs

\* A response to the first request.
LEMMA Replied ==
  ASSUME Inv, req # <<>>, Head(req).op # "write", NEW ok \in BOOLEAN, NEW c \in Content,
         Reply(Head(req), ok, c)
  PROVE  /\ \/ rsp' = rsp
            \/ /\ pc # "idle" /\ Head(req).op # "write"
               /\ \E a \in Response : /\ a.op = Head(req).op /\ a.stale = Head(req).stale
                                      /\ rsp' = Append(rsp, a)
         /\ pc \notin {"idle", "check"} =>
              /\ wait /\ Head(req).op = pc /\ Tail(req) = <<>>
              /\ pc # "crc" => Head(req).part = part
              /\ rsp' # <<>> /\ (Head(rsp').ok <=> ok) /\ Head(rsp').content = c
<1> DEFINE a == [op |-> Head(req).op, ok |-> ok, content |-> c, stale |-> Head(req).stale]
<1>1. Head(req) \in Request
  BY TakenRequest
<1>2. /\ a \in Response /\ a.op = Head(req).op /\ a.stale = Head(req).stale
      /\ a.content = c /\ a.ok = ok
  BY <1>1 DEF Request, Response
<1>3. rsp' = IF pc = "idle" THEN rsp ELSE Append(rsp, a)
  BY DEF Reply
<1> HIDE DEF a
<1>4. HostTypes /\ LineTypes
  BY TypeParts DEF Inv
<1>5. ASSUME pc \notin {"idle", "check"}
      PROVE  /\ wait /\ Head(req).op = pc /\ Tail(req) = <<>>
             /\ pc # "crc" => Head(req).part = part
             /\ rsp' # <<>> /\ (Head(rsp').ok <=> ok) /\ Head(rsp').content = c
  <2>1. /\ wait /\ Head(req).op = pc /\ rsp = <<>> /\ Tail(req) = <<>>
        /\ pc # "crc" => Head(req).part = part
    BY <1>4, <1>5, HeadOfLine DEF Inv
  <2>2. rsp' # <<>> /\ Head(rsp') = a
    BY <1>2, <1>3, <1>4, <1>5, <2>1, Appended DEF LineTypes
  <2>3. Head(rsp').ok <=> ok
    BY <1>2, <2>2, Zenon
  <2> QED
    BY <1>2, <2>1, <2>2, <2>3
<1> QED
  BY <1>2, <1>3, <1>5

-----------------------------------------------------------------------------
(* What the bootloader does with a request.                                 *)

LEMMA SetupInv ==
  ASSUME Inv, req # <<>>, BlSetup(Head(req))
  PROVE  Inv'
<1>1. /\ Head(req).op \in {"ping", "prn", "mtu"} /\ mode = "dfu" /\ req' = Tail(req)
      /\ UNCHANGED <<host, hist, bounds, boot>> /\ Reply(Head(req), TRUE, Empty)
  BY DEF BlSetup, Take
<1>2. Empty \in Content
  BY DEF Empty, Content
<1>3. BootTypes /\ HistTypes /\ Flags
  BY TypeParts DEF Inv
<1>4. BootTypes' /\ Settled'
  BY <1>1, <1>3, BootKept DEF Inv
<1>5. HistTypes' /\ hurt' \in BOOLEAN /\ valid' \in BOOLEAN
  BY <1>1, <1>3 DEF HistTypes, hist, bounds, boot, Flags
<1>6. /\ \/ rsp' = rsp
         \/ /\ pc # "idle" /\ Head(req).op # "write"
            /\ \E a \in Response : /\ a.op = Head(req).op /\ a.stale = Head(req).stale
                                   /\ rsp' = Append(rsp, a)
      /\ pc \notin {"idle", "check"} => Head(req).op = pc
  BY <1>1, <1>2, Replied
<1>7. pc # "exec"
  BY <1>1, <1>6
<1>8. pc \notin {"idle", "check"} => Agreed'
  BY <1>1, <1>6 DEF Agreed, Inv, Hosted, host
<1> QED
  BY <1>1, <1>4, <1>5, <1>6, <1>7, <1>8, HandledInv DEF hist

LEMMA CrcInv ==
  ASSUME Inv, req # <<>>, BlCrc(Head(req))
  PROVE  Inv'
<1>1. /\ Head(req).op = "crc" /\ mode = "dfu" /\ req' = Tail(req)
      /\ UNCHANGED <<host, hist, bounds, boot>> /\ Reply(Head(req), TRUE, Received(obj))
  BY DEF BlCrc, Take
<1>3. BootTypes /\ HistTypes /\ Flags
  BY TypeParts DEF Inv
<1>2. Received(obj) \in Content
  BY <1>3 DEF Received, BootTypes, Progress
<1>4. BootTypes' /\ Settled'
  BY <1>1, <1>3, BootKept DEF Inv
<1>5. HistTypes' /\ hurt' \in BOOLEAN /\ valid' \in BOOLEAN
  BY <1>1, <1>3 DEF HistTypes, hist, bounds, boot, Flags
<1>6. /\ \/ rsp' = rsp
         \/ /\ pc # "idle" /\ Head(req).op # "write"
            /\ \E a \in Response : /\ a.op = Head(req).op /\ a.stale = Head(req).stale
                                   /\ rsp' = Append(rsp, a)
      /\ pc \notin {"idle", "check"} =>
           wait /\ Head(req).op = pc /\ Head(rsp').content = Received(obj)
  BY <1>1, <1>2, Replied
<1>7. pc # "exec"
  BY <1>1, <1>6
<1>8. pc \notin {"idle", "check"} => Agreed'
  BY <1>1, <1>6 DEF Agreed, Inv, host, boot, Received
<1> QED
  BY <1>1, <1>4, <1>5, <1>6, <1>7, <1>8, HandledInv DEF hist

LEMMA SelectInv ==
  ASSUME Inv, req # <<>>, BlSelect(Head(req))
  PROVE  Inv'
<1>1. /\ Head(req).op = "select" /\ mode = "dfu" /\ req' = Tail(req)
      /\ UNCHANGED <<host, hist, bounds, mode, prog, valid, target, saved, flash, installed>>
      /\ Reply(Head(req), TRUE, Received(Head(req).part)) /\ obj' = Head(req).part
  BY DEF BlSelect, Take
<1>2. BootTypes /\ HistTypes /\ Flags
  BY TypeParts DEF Inv
<1>3. Received(Head(req).part) \in Content /\ Head(req).part \in Parts
  <2>1. Head(req) \in Request
    BY TakenRequest
  <2> QED
    BY <1>2, <2>1 DEF Received, BootTypes, Progress, Request
<1>4. BootTypes' /\ Settled'
  BY <1>1, <1>2, <1>3 DEF BootTypes, Inv, Settled, Fits
<1>5. HistTypes' /\ hurt' \in BOOLEAN /\ valid' \in BOOLEAN
  BY <1>1, <1>2 DEF HistTypes, hist, bounds, Flags
<1>6. /\ \/ rsp' = rsp
         \/ /\ pc # "idle" /\ Head(req).op # "write"
            /\ \E a \in Response : /\ a.op = Head(req).op /\ a.stale = Head(req).stale
                                   /\ rsp' = Append(rsp, a)
      /\ pc \notin {"idle", "check"} =>
           /\ wait /\ Head(req).op = pc /\ Head(rsp').content = Received(Head(req).part)
           /\ pc # "crc" => Head(req).part = part
  BY <1>1, <1>3, Replied
<1>7. pc # "exec"
  BY <1>1, <1>6
<1>8. pc \notin {"idle", "check"} => Agreed'
  BY <1>1, <1>6 DEF Agreed, Inv, host, Received
<1> QED
  BY <1>1, <1>4, <1>5, <1>6, <1>7, <1>8, HandledInv DEF hist

LEMMA CreateIpInv ==
  ASSUME Inv, req # <<>>, BlCreateIp(Head(req))
  PROVE  Inv'
<1>1. /\ Head(req).op = "create" /\ Head(req).part = "ip" /\ mode = "dfu" /\ req' = Tail(req)
      /\ UNCHANGED <<host, hist, bounds, mode, target, saved, flash, installed>>
      /\ Reply(Head(req), TRUE, Empty) /\ obj' = "ip" /\ valid' = FALSE
      /\ prog' = [NoProgress EXCEPT !.cmdSize = Head(req).n]
  BY DEF BlCreateIp, Take
<1>2. BootTypes /\ HistTypes /\ Flags
  BY TypeParts DEF Inv
<1>3. Empty \in Content
  BY DEF Empty, Content
<1>4. prog' \in Progress /\ prog'.objSize = 0 /\ prog'.last.len = 0 /\ prog'.img.len = 0
  <2>1. Head(req) \in Request
    BY TakenRequest
  <2> QED
    BY <1>1, <1>3, <2>1 DEF Request, NoProgress, Progress, Empty
<1>5. BootTypes'
  BY <1>1, <1>2, <1>4 DEF BootTypes, Parts
<1>6. Settled'
  BY <1>1, <1>4, DfuAssumption DEF Inv, Settled, Fits
<1>7. HistTypes' /\ hurt' \in BOOLEAN /\ valid' \in BOOLEAN
  BY <1>1, <1>2 DEF HistTypes, hist, bounds, Flags
<1>8. /\ \/ rsp' = rsp
         \/ /\ pc # "idle" /\ Head(req).op # "write"
            /\ \E a \in Response : /\ a.op = Head(req).op /\ a.stale = Head(req).stale
                                   /\ rsp' = Append(rsp, a)
      /\ pc \notin {"idle", "check"} => Head(req).op = pc /\ (pc # "crc" => Head(req).part = part)
  BY <1>1, <1>3, Replied
<1>9. pc # "exec"
  BY <1>1, <1>8
<1>10. pc \notin {"idle", "check"} => Agreed'
  BY <1>1, <1>8 DEF Agreed, host
<1> QED
  BY <1>1, <1>5, <1>6, <1>7, <1>8, <1>9, <1>10, HandledInv DEF hist

LEMMA CreateFwInv ==
  ASSUME Inv, req # <<>>, BlCreateFw(Head(req))
  PROVE  Inv'
<1> DEFINE n == Head(req).n
<1>1. /\ Head(req).op = "create" /\ Head(req).part = "fw" /\ mode = "dfu" /\ req' = Tail(req)
      /\ UNCHANGED <<host, hist, bounds, mode, valid, target, saved, installed>>
      /\ Reply(Head(req), MayCreate(n), Empty) /\ obj' = "fw"
      /\ \/ /\ MayCreate(n)
            /\ prog' = [prog EXCEPT !.objSize = n, !.img = prog.last]
            /\ flash' = [k \in Units |->
                 IF k \in prog.last.len + 1 .. prog.last.len + PageSize THEN None ELSE flash[k]]
         \/ UNCHANGED <<prog, flash>>
  BY DEF BlCreateFw, Take
<1>2. BootTypes /\ HistTypes /\ Flags
  BY TypeParts DEF Inv
<1>3. Empty \in Content /\ MayCreate(n) \in BOOLEAN
  <2>1. Empty \in Content
    BY DEF Empty, Content
  <2>2. MayCreate(n) \in BOOLEAN
    BY DEF MayCreate
  <2> QED
    BY <2>1, <2>2
<1>4. n \in Nat
  <2>1. Head(req) \in Request
    BY TakenRequest
  <2> QED
    BY <2>1 DEF Request
<1>5. BootTypes' /\ Settled'
  <2>1. CASE UNCHANGED <<prog, flash>>
    BY <1>1, <1>2, <2>1 DEF BootTypes, Parts, Inv, Settled, Fits
  <2>2. ASSUME MayCreate(n), prog' = [prog EXCEPT !.objSize = n, !.img = prog.last],
               flash' = [k \in Units |->
                 IF k \in prog.last.len + 1 .. prog.last.len + PageSize THEN None ELSE flash[k]]
        PROVE  BootTypes' /\ Settled'
    <3>1. prog \in Progress /\ flash \in [Units -> Files \cup {None, Junk}]
      BY <1>2 DEF BootTypes
    <3>2. /\ prog' \in Progress /\ prog'.objSize = n /\ prog'.img = prog.last
          /\ prog'.last = prog.last /\ prog'.cmd = prog.cmd /\ prog'.cmdSize = prog.cmdSize
      BY <1>4, <2>2, <3>1 DEF Progress
    <3>3. flash' \in [Units -> Files \cup {None, Junk}]
      BY <2>2, <3>1
    <3>4. BootTypes'
      BY <1>1, <1>2, <3>2, <3>3 DEF BootTypes, Parts
    <3>5. Fits(prog')
      <4>1. prog.last.len \in Nat
        BY <3>1 DEF Progress, Content
      <4> QED
        BY <1>4, <2>2, <3>2, <4>1 DEF Fits, MayCreate
    <3>6. Settled'
      BY <1>1, <3>2, <3>5 DEF Inv, Settled, Fits
    <3> QED
      BY <3>4, <3>6
  <2> QED
    BY <1>1, <2>1, <2>2
<1>6. HistTypes' /\ hurt' \in BOOLEAN /\ valid' \in BOOLEAN
  BY <1>1, <1>2 DEF HistTypes, hist, bounds, Flags
<1>7. /\ \/ rsp' = rsp
         \/ /\ pc # "idle" /\ Head(req).op # "write"
            /\ \E a \in Response : /\ a.op = Head(req).op /\ a.stale = Head(req).stale
                                   /\ rsp' = Append(rsp, a)
      /\ pc \notin {"idle", "check"} => Head(req).op = pc /\ (pc # "crc" => Head(req).part = part)
  BY <1>1, <1>3, Replied
<1>8. pc # "exec"
  BY <1>1, <1>7
<1>9. pc \notin {"idle", "check"} => Agreed'
  BY <1>1, <1>7 DEF Inv, Agreed, host
<1> QED
  BY <1>1, <1>5, <1>6, <1>7, <1>8, <1>9, HandledInv DEF hist

\* A write, damaged or not.  A valid init packet is not written to, and an object takes
\* no more than was announced.
LEMMA WrittenKeeps ==
  ASSUME Settled, BootTypes, mode = "dfu", NEW r \in Request, r.n > 0, NEW d \in BOOLEAN,
         WriteIp(r, d) \/ WriteFw(r, d),
         UNCHANGED <<mode, valid, target, obj, saved, installed>>
  PROVE  BootTypes' /\ Settled'
<1>1. prog \in Progress /\ flash \in [Units -> Files \cup {None, Junk}]
  BY DEF BootTypes
<1>2. /\ r.n \in Nat /\ r.n > 0 /\ r.of \in Files /\ prog.cmd \in Content
      /\ prog.img \in Content /\ prog.last.len \in Nat /\ prog.objSize \in Nat
      /\ prog.cmdSize \in Nat /\ prog.cmd.len \in Nat /\ prog.img.len \in Nat
  BY <1>1 DEF Request, Progress, Content
<1>3. ASSUME NEW c \in Content, NEW p
      PROVE  Extended(c, r, p, d) \in Content /\ Extended(c, r, p, d).len = c.len + r.n
  BY <1>2 DEF Extended, Content
<1>4. CASE prog' = prog /\ flash' = flash
  BY <1>4 DEF BootTypes, Settled, Fits
<1>5. ASSUME ~(prog' = prog /\ flash' = flash), WriteIp(r, d)
      PROVE  BootTypes' /\ Settled'
  <2> DEFINE new == Extended(prog.cmd, r, "ip", d)
  <2>1. /\ r.n + prog.cmd.len <= prog.cmdSize /\ flash' = flash
        /\ prog' = [prog EXCEPT !.cmd = new]
    BY <1>2, <1>5 DEF WriteIp
  <2>2. new \in Content
    BY <1>2, <1>3
  <2> HIDE DEF new
  <2>3. /\ prog' \in Progress /\ prog'.last = prog.last /\ prog'.img = prog.img
        /\ prog'.objSize = prog.objSize
    BY <1>1, <2>1, <2>2 DEF Progress
  <2>4. ~valid
    BY <1>2, <2>1 DEF Settled
  <2>5. BootTypes'
    BY <2>1, <2>3 DEF BootTypes
  <2>6. Settled'
    BY <2>3, <2>4 DEF Settled, Fits
  <2> QED
    BY <2>5, <2>6
<1>6. ASSUME ~(prog' = prog /\ flash' = flash), WriteFw(r, d)
      PROVE  BootTypes' /\ Settled'
  <2> DEFINE new == Extended(prog.img, r, "fw", d)
             w == IF d \/ r.part # "fw" \/ r.from # prog.img.len THEN Junk ELSE r.of
  <2>1. /\ ~(r.n + prog.img.len - prog.last.len > prog.objSize)
        /\ prog' = [prog EXCEPT !.img = new]
        /\ flash' = [k \in Units |->
             IF k \notin prog.img.len + 1 .. new.len THEN flash[k]
             ELSE IF flash[k] \in {None, w} THEN w ELSE Junk]
    BY <1>6 DEF WriteFw
  <2>2. new \in Content /\ new.len = prog.img.len + r.n
    BY <1>2, <1>3
  <2>3. w \in Files \cup {None, Junk}
    BY <1>2
  <2> HIDE DEF new, w
  <2>4. flash' \in [Units -> Files \cup {None, Junk}]
    BY <1>1, <2>1, <2>3
  <2>5. /\ prog' \in Progress /\ prog'.last = prog.last /\ prog'.img = new
        /\ prog'.objSize = prog.objSize /\ prog'.cmd = prog.cmd
        /\ prog'.cmdSize = prog.cmdSize
    BY <1>1, <2>1, <2>2 DEF Progress
  <2>6. BootTypes'
    BY <2>4, <2>5 DEF BootTypes
  <2>7. Fits(prog')
    BY <1>2, <2>1, <2>2, <2>5 DEF Settled, Fits
  <2>8. Settled'
    BY <2>5, <2>7 DEF Settled, Fits
  <2> QED
    BY <2>6, <2>8
<1> QED
  BY <1>4, <1>5, <1>6

LEMMA WrittenInv ==
  ASSUME Inv, req # <<>>, mode = "dfu", Head(req).op = "write", NEW d \in BOOLEAN,
         WriteIp(Head(req), d) \/ WriteFw(Head(req), d), req' = Tail(req), HistTypes',
         UNCHANGED <<host, rsp, mode, valid, target, obj, saved, installed, result, crossed>>,
         hurt' \in BOOLEAN
  PROVE  Inv'
<1>1. HostTypes /\ LineTypes /\ BootTypes /\ Flags
  BY TypeParts DEF Inv
<1>2. BootTypes' /\ Settled'
  BY <1>1, TakenRequest, WrittenKeeps DEF Inv
<1>3. ASSUME pc \notin {"idle", "check"}
      PROVE  pc \in {"write", "crc"} /\ rsp = <<>>
  <2>1. req[1].op = "write" /\ 1 \in DOMAIN req
    BY <1>1, TailOf DEF LineTypes
  <2>2. pc \in {"write", "crc"}
    BY <1>1, <1>3, <2>1 DEF HostTypes, Inv, Wired
  <2> QED
    BY <2>2 DEF Inv, Wired
<1>4. pc \notin {"idle", "check"} => Agreed'
  BY <1>3 DEF Inv, Agreed, host
<1>5. pc # "exec" \/ rsp' = <<>>
  BY <1>3
<1>6. valid' \in BOOLEAN
  BY <1>1 DEF Flags
<1> QED
  BY <1>2, <1>4, <1>5, <1>6, HandledInv

\* Only a whole packet is found valid.
LEMMA ExecIpInv ==
  ASSUME Inv, req # <<>>, BlExecIp(Head(req))
  PROVE  Inv'
<1>1. /\ Head(req).op = "exec" /\ obj = "ip" /\ mode = "dfu" /\ req' = Tail(req)
      /\ UNCHANGED <<host, hist, bounds, mode, obj, flash, installed>>
      /\ Reply(Head(req), IpValid, Empty)
      /\ \/ IpValid /\ valid' = TRUE /\ target' = prog.cmd.of /\ saved' = prog /\ prog' = prog
         \/ /\ ~IpValid /\ UNCHANGED <<valid, target, saved>>
            /\ prog' = prog \/ (IpWhole /\ prog' = NoProgress)
  <2>1. IF IpValid
        THEN valid' = TRUE /\ target' = prog.cmd.of /\ saved' = prog /\ UNCHANGED prog
        ELSE /\ prog' \in IF IpWhole THEN {prog, NoProgress} ELSE {prog}
             /\ UNCHANGED <<valid, target, saved>>
    BY Zenon DEF BlExecIp
  <2>2. CASE IpValid
    BY <2>1, <2>2 DEF BlExecIp, Take
  <2>3. CASE ~IpValid
    BY <2>1, <2>3 DEF BlExecIp, Take
  <2> QED
    BY <2>2, <2>3
<1>2. BootTypes /\ HistTypes /\ Flags
  BY TypeParts DEF Inv
<1>3. Empty \in Content /\ IpValid \in BOOLEAN
  <2>1. Empty \in Content
    BY DEF Empty, Content
  <2>2. IpValid \in BOOLEAN
    BY DEF IpValid
  <2> QED
    BY <2>1, <2>2
<1>4. prog \in Progress /\ NoProgress \in Progress
  BY <1>2 DEF BootTypes, NoProgress, Progress, Empty, Content
<1>5. BootTypes' /\ Settled'
  <2>1. ASSUME IpValid, valid' = TRUE, target' = prog.cmd.of, saved' = prog, prog' = prog
        PROVE  BootTypes' /\ Settled'
    <3>1. prog.cmd.len = prog.cmdSize
      BY <2>1 DEF IpValid, IpWhole
    <3>2. prog.cmdSize # 0 /\ prog.cmd.of \in Files \cup {None}
      <4>1. CASE valid
        BY <1>1, <1>2, <4>1 DEF Inv, Settled, BootTypes
      <4>2. CASE ~valid
        <5>1. prog.cmd.len = IpSize /\ prog.cmd.of \in Files
          BY <2>1, <4>2 DEF IpValid
        <5> QED
          BY <3>1, <5>1, DfuAssumption
      <4> QED
        BY <4>1, <4>2
    <3>3. prog.cmd.of # Junk
      BY <3>2, DfuAssumption
    <3>4. BootTypes'
      BY <1>1, <1>2, <2>1, <3>2 DEF BootTypes
    <3>5. prog.last.len > 0 => prog.last.of = prog.cmd.of
      BY <1>1 DEF Inv, Settled
    <3>6. Settled'
      BY <1>1, <2>1, <3>1, <3>2, <3>3, <3>5 DEF Inv, Settled, Fits
    <3> QED
      BY <3>4, <3>6
  <2>2. ASSUME UNCHANGED <<valid, target, saved>>, prog' = prog
        PROVE  BootTypes' /\ Settled'
    BY <1>1, <1>2, <2>2 DEF BootTypes, Inv, Settled, Fits
  <2>3. ASSUME ~IpValid, UNCHANGED <<valid, target, saved>>, IpWhole, prog' = NoProgress
        PROVE  BootTypes' /\ Settled'
    <3>1. ~valid'
      BY <2>3 DEF IpValid
    <3>2. BootTypes'
      BY <1>1, <1>2, <1>4, <2>3 DEF BootTypes
    <3>3. prog'.last.len = 0 /\ prog'.objSize = 0 /\ prog'.img.len = 0
      BY <2>3 DEF NoProgress, Empty
    <3>4. Settled'
      BY <2>3, <3>1, <3>3, DfuAssumption DEF Inv, Settled, Fits
    <3> QED
      BY <3>2, <3>4
  <2> QED
    BY <1>1, <2>1, <2>2, <2>3
<1>6. HistTypes' /\ hurt' \in BOOLEAN /\ valid' \in BOOLEAN
  <2>1. valid' = TRUE \/ valid' = valid
    BY <1>1
  <2>2. valid' \in BOOLEAN
    BY <1>2, <2>1, Zenon DEF Flags
  <2> QED
    BY <1>1, <1>2, <2>2 DEF HistTypes, hist, bounds, Flags
<1>7. /\ \/ rsp' = rsp
         \/ /\ pc # "idle" /\ Head(req).op # "write"
            /\ \E a \in Response : /\ a.op = Head(req).op /\ a.stale = Head(req).stale
                                   /\ rsp' = Append(rsp, a)
      /\ pc \notin {"idle", "check"} =>
           /\ wait /\ Head(req).op = pc /\ Tail(req) = <<>>
           /\ pc # "crc" => Head(req).part = part
           /\ rsp' # <<>> /\ (Head(rsp').ok <=> IpValid)
  BY <1>1, <1>3, Replied
<1>8. pc \notin {"idle", "check"} => pc = "exec" /\ part = "ip"
  BY <1>1, <1>7 DEF Inv, Agreed
<1>9. pc \notin {"idle", "check"} => Agreed'
  <2>1. pc = "exec" => prog.cmd.of = file
    BY <1>1, <1>8 DEF Inv, Agreed, Received
  <2>2. ASSUME pc \notin {"idle", "check"}, Head(rsp').ok
        PROVE  valid' /\ target' = file'
    <3>1. IpValid
      BY <1>7, <2>2
    <3> QED
      BY <1>1, <1>8, <2>1, <2>2, <3>1 DEF host
  <2> QED
    BY <1>1, <1>7, <1>8, <2>2 DEF Agreed, host
<1>10. ~(pc = "exec" /\ part = "fw")
  BY <1>8
<1> QED
  BY <1>1, <1>5, <1>6, <1>7, <1>9, <1>10, HandledInv DEF hist

\* What is executed was checked, and an image that is activated is the one of the
\* package.
LEMMA ExecFwInv ==
  ASSUME Inv, req # <<>>, BlExecFw(Head(req))
  PROVE  Inv'
<1>1. /\ Head(req).op = "exec" /\ obj = "fw" /\ mode = "dfu" /\ req' = Tail(req)
      /\ UNCHANGED <<host, hist, bounds, valid, target, obj, flash>>
      /\ \/ /\ ~ExecutesFw \/ prog.img.len # FwSize
            /\ Reply(Head(req), ExecutesFw, Empty)
            /\ \/ ExecutesFw /\ prog' = [prog EXCEPT !.objSize = 0, !.last = prog.img]
               \/ ~ExecutesFw /\ prog' = prog
            /\ UNCHANGED <<mode, saved, installed>>
         \/ /\ ExecutesFw /\ prog.img.len = FwSize
            /\ Reply(Head(req), HashOk, Empty)
            /\ prog' = NoProgress /\ saved' = NoProgress /\ mode' = "app"
            /\ installed' = IF HashOk THEN target ELSE installed
  BY DEF BlExecFw, Take
<1>2. BootTypes /\ HistTypes /\ Flags
  BY TypeParts DEF Inv
<1>3. Empty \in Content /\ ExecutesFw \in BOOLEAN /\ HashOk \in BOOLEAN
  <2>1. Empty \in Content
    BY DEF Empty, Content
  <2>2. ExecutesFw \in BOOLEAN
    BY DEF ExecutesFw
  <2>3. HashOk \in BOOLEAN
    BY DEF HashOk
  <2> QED
    BY <2>1, <2>2, <2>3
<1>4. prog \in Progress /\ NoProgress \in Progress
  BY <1>2 DEF BootTypes, NoProgress, Progress, Empty, Content
<1>5. /\ prog.img \in Content /\ prog.img.len \in Nat /\ prog.last.len \in Nat
      /\ prog.objSize \in Nat /\ prog.img.len <= FwSize /\ FwSize \in Nat
  <2>1. /\ prog.img \in Content /\ prog.img.len \in Nat /\ prog.last.len \in Nat
        /\ prog.objSize \in Nat
    BY <1>4 DEF Progress, Content
  <2> QED
    BY <2>1, DfuAssumption DEF Inv, Settled, Fits
<1>6. valid /\ prog.img.of = target
  BY <1>1 DEF Inv, ExecSafe
<1>7. BootTypes' /\ Settled'
  <2>1. ASSUME prog' = [prog EXCEPT !.objSize = 0, !.last = prog.img],
               UNCHANGED <<mode, saved, installed>>
        PROVE  BootTypes' /\ Settled'
    <3>1. /\ prog' \in Progress /\ prog'.objSize = 0 /\ prog'.last = prog.img
          /\ prog'.img = prog.img /\ prog'.cmd = prog.cmd /\ prog'.cmdSize = prog.cmdSize
      BY <1>4, <1>5, <2>1 DEF Progress
    <3>2. BootTypes'
      BY <1>1, <1>2, <2>1, <3>1 DEF BootTypes
    <3>3. Fits(prog')
      BY <1>5, <3>1 DEF Fits
    <3>4. Settled'
      BY <1>1, <1>6, <2>1, <3>1, <3>3 DEF Inv, Settled, Fits
    <3> QED
      BY <3>2, <3>4
  <2>2. ASSUME prog' = prog, UNCHANGED <<mode, saved, installed>>
        PROVE  BootTypes' /\ Settled'
    BY <1>1, <1>2, <2>2 DEF BootTypes, Inv, Settled, Fits
  <2>3. ASSUME prog' = NoProgress, saved' = NoProgress, mode' = "app",
               installed' = IF HashOk THEN target ELSE installed
        PROVE  BootTypes' /\ Settled'
    <3>1. BootTypes'
      BY <1>1, <1>2, <1>4, <2>3 DEF BootTypes
    <3>2. NoProgress.cmdSize = 0 /\ NoProgress.last.len = 0 /\ Fits(NoProgress)
      BY DfuAssumption DEF NoProgress, Empty, Fits
    <3>3. Settled'
      BY <2>3, <3>2 DEF Settled, Fits
    <3> QED
      BY <3>1, <3>3
  <2> QED
    BY <1>1, <2>1, <2>2, <2>3
<1>8. HistTypes' /\ hurt' \in BOOLEAN /\ valid' \in BOOLEAN
  BY <1>1, <1>2 DEF HistTypes, hist, bounds, Flags
<1>9. ASSUME NEW ok \in BOOLEAN, Reply(Head(req), ok, Empty)
      PROVE  /\ \/ rsp' = rsp
                \/ /\ pc # "idle" /\ Head(req).op # "write"
                   /\ \E a \in Response : /\ a.op = Head(req).op /\ a.stale = Head(req).stale
                                          /\ rsp' = Append(rsp, a)
             /\ pc \notin {"idle", "check"} =>
                  /\ wait /\ Head(req).op = pc /\ Tail(req) = <<>>
                  /\ pc # "crc" => Head(req).part = part
                  /\ rsp' # <<>> /\ (Head(rsp').ok <=> ok)
  BY <1>1, <1>3, <1>9, Replied
<1>10. /\ \/ rsp' = rsp
          \/ /\ pc # "idle" /\ Head(req).op # "write"
             /\ \E a \in Response : /\ a.op = Head(req).op /\ a.stale = Head(req).stale
                                    /\ rsp' = Append(rsp, a)
       /\ pc \notin {"idle", "check"} =>
            pc = "exec" /\ wait /\ Tail(req) = <<>>
  <2>1. \E ok \in BOOLEAN : Reply(Head(req), ok, Empty)
    BY <1>1, <1>3
  <2>2. PICK ok \in BOOLEAN : Reply(Head(req), ok, Empty)
    BY <2>1
  <2> QED
    BY <1>1, <1>9, <2>2
<1>11. pc = "exec" => part = "fw"
  BY <1>1 DEF Inv, Agreed
<1>12. pc \notin {"idle", "check"} => Agreed'
  BY <1>1, <1>10, <1>11 DEF Inv, Agreed, host
<1>13. pc = "exec" /\ part = "fw" /\ rsp' # <<>> /\ Head(rsp').ok /\ upto >= FwSize =>
         installed' = file
  <2> SUFFICES ASSUME pc = "exec", part = "fw", Head(rsp').ok, upto >= FwSize
               PROVE  installed' = file
    OBVIOUS
  <2>1. target = file /\ prog.img.len = upto
    BY <1>1 DEF Inv, Agreed
  <2>2. prog.img.len = FwSize
    BY <1>5, <2>1
  <2>3. CASE Reply(Head(req), ExecutesFw, Empty) /\ ~ExecutesFw
    BY <1>3, <1>9, <2>3
  <2>4. CASE Reply(Head(req), HashOk, Empty) /\ installed' = IF HashOk THEN target ELSE installed
    <3>1. HashOk
      BY <1>3, <1>9, <2>4
    <3> QED
      BY <2>1, <2>4, <3>1
  <2> QED
    BY <1>1, <2>2, <2>3, <2>4
<1> QED
  BY <1>1, <1>7, <1>8, <1>10, <1>12, <1>13, HandledInv DEF hist

LEMMA HandleInv ==
  ASSUME Inv, BlHandle
  PROVE  Inv'
<1>1. req # <<>>
  BY DEF BlHandle
<1>2. CASE BlWrite(Head(req), FALSE)
  <2>1. /\ mode = "dfu" /\ Head(req).op = "write" /\ req' = Tail(req)
        /\ WriteIp(Head(req), FALSE) \/ WriteFw(Head(req), FALSE)
        /\ UNCHANGED <<host, rsp, mode, valid, target, obj, saved, installed, hist, bounds>>
    BY <1>2 DEF BlWrite, Take
  <2>2. HistTypes' /\ hurt' \in BOOLEAN
    BY <2>1, TypeParts DEF HistTypes, hist, bounds, Flags, Inv
  <2>3. FALSE \in BOOLEAN
    OBVIOUS
  <2> QED
    BY <1>1, <2>1, <2>2, <2>3, WrittenInv DEF hist
<1> QED
  BY <1>1, <1>2, SetupInv, SelectInv, CrcInv, CreateIpInv, CreateFwInv, ExecIpInv, ExecFwInv
     DEF BlHandle

-----------------------------------------------------------------------------
(* Restarts of the nRF52, and losses.                                       *)

LEMMA DeafInv ==
  ASSUME Inv, BlDeaf
  PROVE  Inv'
<1>1. /\ mode = "app" /\ req # <<>> /\ req' = Tail(req)
      /\ UNCHANGED <<host, rsp, boot, hist, bounds>>
  BY DEF BlDeaf
<1>2. BootTypes /\ HistTypes /\ Flags
  BY TypeParts DEF Inv
<1>3. BootTypes' /\ Settled'
  BY <1>1, <1>2, BootKept DEF Inv
<1>4. HistTypes' /\ hurt' \in BOOLEAN /\ valid' \in BOOLEAN
  BY <1>1, <1>2 DEF HistTypes, hist, bounds, boot, Flags
<1>5. Agreed'
  BY <1>1 DEF Agreed, boot
<1>6. pc = "exec" /\ part = "fw" /\ rsp' # <<>> /\ Head(rsp').ok /\ upto >= FwSize =>
        installed' = file
  BY <1>1 DEF Inv, Installs, boot
<1> QED
  BY <1>1, <1>3, <1>4, <1>5, <1>6, HandledInv DEF hist

LEMMA ResetInv ==
  ASSUME Inv, BlReset
  PROVE  Inv'
<1> USE DEF Inv
<1>1. HostTypes /\ LineTypes /\ BootTypes /\ HistTypes /\ Flags
  BY TypeParts
<1>2. /\ mode' = "app" /\ UNCHANGED <<host, line, prog, valid, target, obj, saved, flash,
                                      installed, result, crossed, faults>>
      /\ crashes' = crashes \/ (crashes < MaxCrashes /\ crashes' = crashes + 1)
      /\ hurt' \in BOOLEAN
  BY <1>1 DEF BlReset, Flags
<1>3. HostTypes' /\ LineTypes' /\ BootTypes'
  BY <1>1, <1>2 DEF HostTypes, LineTypes, BootTypes, host, line
<1>4. HistTypes'
  BY <1>1, <1>2, DfuAssumption DEF HistTypes
<1>5. Flags'
  BY <1>1, <1>2 DEF Flags, host
<1>6. Hosted' /\ Sorted' /\ Wired'
  BY <1>2 DEF Hosted, Sorted, Wired, host, line, Old, New, OldButLast, Writes, SizeOf
<1>7. Settled' /\ Agreed' /\ ExecSafe' /\ NoStaleAnswer'
  BY <1>2 DEF Settled, Agreed, ExecSafe, NoStaleAnswer, Fits
<1>8. Installs'
  BY <1>2 DEF Installs, host, line
<1> QED
  BY <1>3, <1>4, <1>5, <1>6, <1>7, <1>8, TypeParts

LEMMA LoseRequestInv ==
  ASSUME Inv, LoseRequest
  PROVE  Inv'
<1>1. /\ Fault /\ req # <<>> /\ req' = Tail(req)
      /\ UNCHANGED <<host, rsp, boot, result, crossed, crashes>>
  BY DEF LoseRequest
<1>2. LineTypes /\ BootTypes /\ HistTypes /\ Flags
  BY TypeParts DEF Inv
<1>3. BootTypes' /\ Settled'
  BY <1>1, <1>2, BootKept DEF Inv
<1>4. HistTypes' /\ hurt' \in BOOLEAN /\ valid' \in BOOLEAN
  BY <1>1, <1>2, FaultTypes DEF boot, Flags
<1>5. Agreed'
  BY <1>1 DEF Agreed, Inv, boot, host, Received
<1>6. pc = "exec" /\ part = "fw" /\ rsp' # <<>> /\ Head(rsp').ok /\ upto >= FwSize =>
        installed' = file
  BY <1>1 DEF Inv, Installs, boot
<1> QED
  BY <1>1, <1>3, <1>4, <1>5, <1>6, HandledInv

LEMMA LoseResponseInv ==
  ASSUME Inv, LoseResponse
  PROVE  Inv'
<1> USE DEF Inv
<1>1. /\ Fault /\ rsp # <<>> /\ rsp' = Tail(rsp)
      /\ UNCHANGED <<host, req, boot, result, crossed, crashes>>
  BY DEF LoseResponse
<1>2. HostTypes /\ LineTypes /\ BootTypes /\ HistTypes /\ Flags
  BY TypeParts
<1>3. /\ rsp' \in Seq(Response) /\ Len(rsp') = Len(rsp) - 1 /\ Len(rsp) \in Nat
      /\ \A i \in DOMAIN rsp' : i + 1 \in DOMAIN rsp /\ rsp'[i] = rsp[i + 1]
      /\ DOMAIN rsp = 1 .. Len(rsp) /\ DOMAIN rsp' = 1 .. Len(rsp')
      /\ Len(rsp) = 1 => rsp' = <<>>
      /\ Len(rsp) # 0
  BY <1>1, <1>2, TailOf DEF LineTypes
<1>4. HostTypes' /\ LineTypes'
  BY <1>1, <1>2, <1>3 DEF HostTypes, LineTypes, host
<1>5. BootTypes' /\ Settled'
  BY <1>1, <1>2, BootKept
<1>6. HistTypes' /\ Flags'
  BY <1>1, <1>2, FaultTypes DEF Flags, host, boot
<1>7. Hosted' /\ ExecSafe' /\ NoStaleAnswer'
  BY <1>1 DEF Hosted, ExecSafe, NoStaleAnswer, host, boot, SizeOf
<1>8. pc \notin {"idle", "check"} =>
        /\ rsp' = <<>> /\ wait /\ pc # "write"
        /\ pc \in {"ping", "prn", "mtu", "select", "create", "exec"} => req = <<>>
  <2>1. CASE pc \in {"write", "crc"}
    BY <1>1, <1>3, <2>1 DEF Wired
  <2>2. CASE pc \in {"ping", "prn", "mtu", "select", "create", "exec"}
    <3>1. wait /\ Len(req) + Len(rsp) <= 1
      BY <1>1, <2>2 DEF Wired
    <3>2. Len(req) \in Nat /\ (Len(req) = 0 => req = <<>>)
      BY <1>2 DEF LineTypes
    <3>3. Len(req) = 0 /\ Len(rsp) = 1
      BY <1>3, <3>1, <3>2
    <3> QED
      BY <1>3, <2>2, <3>1, <3>2, <3>3
  <2> QED
    BY <1>2, <2>1, <2>2 DEF HostTypes
<1>9. Sorted'
  <2>1. CASE pc = "check"
    BY <1>1, <1>3, <2>1 DEF Sorted, Old, OldButLast, host
  <2>2. CASE pc # "check"
    BY <1>1, <1>8, <2>2 DEF Sorted, New, host
  <2> QED
    BY <2>1, <2>2
<1>10. Wired'
  <2>1. Len(<<>>) = 0
    OBVIOUS
  <2>2. CASE pc \in {"idle", "check"}
    BY <1>1, <2>2 DEF Wired, host
  <2>3. CASE pc \notin {"idle", "check"}
    BY <1>1, <1>8, <2>1, <2>3 DEF Wired, host
  <2> QED
    BY <2>2, <2>3
<1>11. Agreed'
  BY <1>1, <1>8 DEF Agreed, Hosted, host, boot, Received
<1>12. Installs'
  BY <1>1, <1>8 DEF Installs, host, boot
<1> QED
  BY <1>4, <1>5, <1>6, <1>7, <1>9, <1>10, <1>11, <1>12, TypeParts

LEMMA DamagedInv ==
  ASSUME Inv, DamagedWrite
  PROVE  Inv'
<1>1. /\ Fault /\ mode = "dfu" /\ req # <<>> /\ req' = Tail(req) /\ Head(req).op = "write"
      /\ WriteIp(Head(req), TRUE) \/ WriteFw(Head(req), TRUE)
      /\ UNCHANGED <<host, rsp, mode, valid, target, obj, saved, installed, result,
                     crossed, crashes>>
  BY DEF DamagedWrite
<1>2. HistTypes' /\ hurt' \in BOOLEAN
  BY <1>1, TypeParts, FaultTypes DEF Inv
<1>3. TRUE \in BOOLEAN
  OBVIOUS
<1> QED
  BY <1>1, <1>2, <1>3, WrittenInv

-----------------------------------------------------------------------------
(* The theorems.                                                            *)

\* The invariant holds in every state: the types, the order of requests and responses
\* on the line, and that the host and the bootloader agree on what was transferred.
THEOREM Invariant == Spec => []Inv
<1>1. Inv /\ [Next]_vars => Inv'
  <2> SUFFICES ASSUME Inv, [Next]_vars PROVE Inv'
    OBVIOUS
  <2>1. CASE Next
    BY <2>1, ThreadInv, TimerInv, DeafTimerInv, SendInv, WriteInv, ReceiveInv, TimeoutInv, CrashInv, HandleInv,
       DeafInv, ResetInv, LoseRequestInv, LoseResponseInv, DamagedInv DEF Next
  <2>2. CASE UNCHANGED vars
    <3>1. UNCHANGED <<host, line, boot, hist, bounds>>
      BY <2>2 DEF vars
    <3>2. HostTypes /\ LineTypes /\ BootTypes /\ HistTypes /\ Flags
      BY TypeParts DEF Inv
    <3>3. HostTypes' /\ LineTypes' /\ HistTypes'
      BY <3>1, <3>2 DEF HostTypes, LineTypes, HistTypes, host, line, hist, bounds
    <3>4. Flags'
      BY <3>1, <3>2 DEF Flags, host, boot, hist
    <3>5. BootTypes' /\ Settled'
      BY <3>1, <3>2, BootKept DEF Inv
    <3>6. Hosted' /\ Sorted' /\ Wired'
      BY <3>1 DEF Inv, Hosted, Sorted, Wired, host, line, hist, Old, New, OldButLast,
         Writes, SizeOf
    <3>7. Agreed' /\ ExecSafe' /\ NoStaleAnswer' /\ Installs'
      BY <3>1 DEF Inv, Agreed, ExecSafe, NoStaleAnswer, Installs, host, line, boot, hist,
         Received
    <3> QED
      BY <3>3, <3>4, <3>5, <3>6, <3>7, TypeParts DEF Inv
  <2> QED
    BY <2>1, <2>2
<1> QED
  BY <1>1, InitInv, PTL DEF Spec

\* Every variable keeps its type: offsets and lengths stay natural numbers also where
\* dfu_host.c computes them from what the bootloader reports.
THEOREM TypeCorrect == Spec => []TypeOK
<1>1. Inv => TypeOK
  BY DEF Inv
<1> QED
  BY <1>1, Invariant, PTL

\* get_rsp never takes the answer to a request that was given up, by this attempt or an
\* earlier one, for that to a later request: only a ping is sent while such answers may
\* still come, and answers to pings are numbered.
THEOREM NoStale == Spec => []NoStaleAnswer
<1>1. Inv => NoStaleAnswer
  BY DEF Inv
<1> QED
  BY <1>1, Invariant, PTL

\* The bootloader counts as executed, in its RAM and in its flash, only data whose
\* checksum the host found to be right, for the init packet it has.
THEOREM OnlyCheckedExecuted == Spec => []ExecutedIsChecked
<1>1. Inv => ExecutedIsChecked
  BY DEF Inv, Settled, ExecutedIsChecked
<1> QED
  BY <1>1, Invariant, PTL

\* When dfu_host_send_fw reports success, the bootloader has activated the package.
THEOREM SuccessInstalled == Spec => []SuccessIsInstalled
<1>1. Inv => SuccessIsInstalled
  BY DEF Inv, Installs, SuccessIsInstalled
<1> QED
  BY <1>1, Invariant, PTL

-----------------------------------------------------------------------------
(* Attempts that nothing disturbs, for images smaller than a page and a      *)
(* bootloader that answers in time.                                          *)

\* The settings of an image that is one object: nothing is executed before all is.
OnePage(p) ==
  /\ p.last.len = 0 /\ p.objSize \in {0, FwSize} /\ p.img.len <= p.objSize
  /\ p.cmdSize \in {0, IpSize} /\ p.cmd.len <= p.cmdSize

\* An image is resumed with the rest of a page, which is more than the rest of it: the
\* CRC that follows cannot be right.
Doubtful == part = "fw" /\ rec

\* Every object is created whole and streamed from its start to its end, or from where
\* it stopped.
Single ==
  /\ pc # "idle" => pos = 0
  /\ pc \in {"write", "crc"} \/ (pc = "exec" /\ part = "fw") =>
       upto = IF Doubtful THEN PageSize ELSE SizeOf(part)
  /\ pc = "create" \/ (pc = "exec" /\ part = "fw") => ~rec
  /\ pc = "crc" => sent = upto
Announced == \A i \in DOMAIN req : req[i].op = "create" => req[i].n = SizeOf(req[i].part)
Answered ==
  pc = "crc" /\ wait /\ rsp # <<>> /\ part = "fw" => Head(rsp).content.len <= FwSize
Bounded == OnePage(prog) /\ OnePage(saved) /\ Single /\ Announced /\ Answered

\* What the bootloader has of the host's object, and that it is the host's, also in flash.
Held == IF part = "ip" THEN prog.cmd ELSE prog.img
Laid ==
  IF part = "ip"
  THEN prog.cmdSize = IpSize /\ (prog.cmd.len = 0 \/ prog.cmd.of = file)
  ELSE /\ prog.objSize = FwSize /\ (prog.img.len = 0 \/ prog.img.of = file)
       /\ \A k \in Units : flash[k] = IF k <= prog.img.len THEN file ELSE None

\* The writes on the line continue what the bootloader has up to what was sent.
Edge(i) == IF i \in DOMAIN req /\ req[i].op = "write" THEN req[i].from ELSE sent
Contiguous ==
  /\ Edge(1) = Held.len
  /\ \A i \in DOMAIN req : req[i].op = "write" =>
       /\ req[i].part = part /\ req[i].of = file
       /\ Edge(i + 1) = req[i].from + req[i].n /\ Edge(i + 1) <= sent

\* Requests and responses of this attempt only, each what the host waits for.
Prompt ==
  /\ New(req) /\ New(rsp)
  /\ \A i \in DOMAIN rsp : rsp[i].ok /\ rsp[i].op = IF pc = "check" THEN "ping" ELSE pc
  /\ pc = "check" => \A i \in DOMAIN req : req[i].op = "ping"
  /\ pc = "check" /\ ~wait => req = <<>> /\ rsp = <<>>
\* The bootloader runs, and an answer comes.
Awake ==
  /\ mode = "dfu" \/ (pc = "exec" /\ part = "fw" /\ rsp # <<>>)
  /\ wait => req # <<>> \/ rsp # <<>>
  /\ pc = "crc" /\ wait /\ rsp = <<>> => req # <<>> /\ req[Len(req)].op = "crc"
\* The object grows by what is on the line until it is whole.
Growing ==
  /\ pc = "create" /\ rsp # <<>> => Laid /\ Held.len = 0
  /\ ~Doubtful /\ pc \in {"write", "crc"} /\ rsp = <<>> => Laid /\ Contiguous
  /\ ~Doubtful /\ ((pc = "crc" /\ rsp # <<>>) \/ (pc = "exec" /\ rsp = <<>>)) =>
       Laid /\ Held.len = SizeOf(part)
Quiet == Prompt /\ Awake /\ Growing

Steady == Bounded /\ (pc # "idle" /\ ~hurt => Quiet) /\ UndisturbedSucceeds

LEMMA SizesOfFile ==
  ASSUME HostTypes
  PROVE  /\ SizeOf(part) \in Nat \ {0} /\ FwSize \in Nat \ {0} /\ IpSize \in Nat \ {0}
         /\ part = "ip" => SizeOf(part) = IpSize
         /\ part = "fw" => SizeOf(part) = FwSize
         /\ part = "ip" \/ part = "fw"
BY DfuAssumption DEF HostTypes, SizeOf, Parts

LEMMA ProgressParts ==
  ASSUME NEW p \in Progress
  PROVE  /\ p.cmdSize \in Nat /\ p.cmd \in Content /\ p.objSize \in Nat
         /\ p.last \in Content /\ p.img \in Content
         /\ p.cmd.len \in Nat /\ p.img.len \in Nat /\ p.last.len \in Nat
BY DEF Progress, Content

LEMMA LaidKept ==
  ASSUME UNCHANGED <<part, file, prog, flash>>
  PROVE  (Laid' <=> Laid) /\ Held' = Held
BY DEF Laid, Held

\* Nothing of an attempt is left to show when it is over, or disturbed.
LEMMA SteadyAnyway ==
  ASSUME UndisturbedSucceeds, Bounded', pc' = "idle" \/ hurt',
         \/ hurt'
         \/ (hurt' <=> hurt) /\ result' \in {result, "none", "deaf", "ok"}
  PROVE  Steady'
BY DEF Steady, UndisturbedSucceeds

LEMMA InitSteady == Init => Steady
<1> SUFFICES ASSUME Init PROVE Steady
  OBVIOUS
<1>1. OnePage(NoProgress)
  BY DfuAssumption DEF OnePage, NoProgress, Empty
<1> QED
  BY <1>1 DEF Init, Steady, Bounded, Single, Announced, Answered, UndisturbedSucceeds

-----------------------------------------------------------------------------
(* The host sends.                                                           *)

LEMMA BeginSteady ==
  ASSUME Inv, Steady, Slow = FALSE, NEW f \in Files, NEW t \in 1 .. 3, Begin(f, t),
         req = <<>>, OnePage(prog'), OnePage(saved'), mode' = "dfu" \/ hurt'
  PROVE  Steady'
<1>1. /\ req' = Abandoned(req) /\ rsp' = <<>> /\ pc' = "check" /\ ~wait'
      /\ pos' = 0 /\ result' = "none" /\ part' = "ip"
  BY DEF Begin
<1>2. req' = <<>>
  BY <1>1, AbandonedReq DEF Inv, TypeOK
<1>3. Bounded'
  BY <1>1, <1>2 DEF Bounded, OnePage, Single, Announced, Answered
<1>4. ~hurt' => Quiet'
  BY <1>1, <1>2 DEF Quiet, Prompt, Awake, Growing, New
<1> QED
  BY <1>1, <1>3, <1>4 DEF Steady, UndisturbedSucceeds

LEMMA ThreadSteady ==
  ASSUME Inv, Steady, Slow = FALSE, NEW f \in Files, StartInThread(f)
  PROVE  Steady'
<1>1. req = <<>> /\ Begin(f, 3) /\ 3 \in 1 .. 3
  BY DEF StartInThread
<1>2. CASE Boots
  BY <1>1, <1>2, BeginSteady DEF Boots, Steady, Bounded, OnePage
<1>3. CASE Fault /\ UNCHANGED boot
  BY <1>1, <1>3, BeginSteady DEF Fault, boot, Steady, Bounded, OnePage
<1> QED
  BY <1>2, <1>3 DEF StartInThread

LEMMA TimerSteady ==
  ASSUME Inv, Steady, Slow = FALSE, NEW f \in Files, StartInTimer(f)
  PROVE  Steady'
<1>1. req = <<>> /\ Begin(f, 2) /\ UNCHANGED boot /\ 2 \in 1 .. 3
  BY DEF StartInTimer, NoApplication
<1>2. mode' = "dfu" \/ hurt'
  BY <1>1 DEF StartInTimer, NoApplication, Fault, boot
<1> QED
  BY <1>1, <1>2, BeginSteady DEF boot, Steady, Bounded, OnePage

LEMMA DeafTimerSteady ==
  ASSUME Inv, Steady, DeafInTimer
  PROVE  Steady'
<1>1. pc = "idle" /\ result' = "deaf" /\ UNCHANGED <<host, line, boot>>
  BY DEF DeafInTimer, NoApplication
<1>2. Bounded'
  BY <1>1 DEF Steady, Bounded, OnePage, Single, Announced, Answered, host, line, boot,
     Doubtful, SizeOf
<1> QED
  BY <1>1, <1>2 DEF Steady, UndisturbedSucceeds, host

LEMMA SendSteady ==
  ASSUME Inv, Steady, FwSize < PageSize, HostSend
  PROVE  Steady'
<1>1. HostTypes /\ LineTypes /\ Flags
  BY TypeParts DEF Inv
<1> DEFINE x == [op |-> IF pc = "check" THEN "ping" ELSE pc, part |-> part, of |-> file,
                 from |-> 0, n |-> IF pc = "create" THEN ObjectSize ELSE 0,
                 stale |-> FALSE]
<1>2. /\ pc \notin {"idle", "write"} /\ wait = FALSE /\ wait' = TRUE /\ req' = Append(req, x)
      /\ UNCHANGED <<pc, part, file, tries, rec, pos, sent, upto, rsp, boot, hist, bounds>>
  BY <1>1 DEF HostSend, Flags
<1>3. /\ x.stale = FALSE /\ x.op = (IF pc = "check" THEN "ping" ELSE pc) /\ x.part = part
      /\ pc = "create" => x.n = ObjectSize
  OBVIOUS
<1>4. x \in Request
  <2>1. (IF pc = "create" THEN ObjectSize ELSE 0) \in Nat
    BY <1>1, ObjectSizeType DEF Hosted, Inv
  <2> QED
    BY <1>1, <1>2, <2>1 DEF Request, HostTypes
<1> HIDE DEF x
<1>5. /\ \A i \in DOMAIN req' : req'[i] = IF i \in DOMAIN req THEN req[i] ELSE x
      /\ req' # <<>> /\ req' \in Seq(Request) /\ Len(req') = Len(req) + 1
      /\ \A i \in DOMAIN req' : i \notin DOMAIN req => i = Len(req) + 1
      /\ DOMAIN req = 1 .. Len(req) /\ DOMAIN req' = 1 .. Len(req') /\ Len(req) \in Nat
  BY <1>1, <1>2, <1>4, Appended DEF LineTypes
<1>6. pc = "create" => ObjectSize = SizeOf(part)
  <2>1. ASSUME pc = "create" PROVE pos = 0 /\ SizeOf(part) \in Nat
    BY <1>1, <2>1, SizesOfFile DEF Steady, Bounded, Single
  <2> QED
    BY <1>1, <2>1, SizesOfFile, DfuAssumption DEF ObjectSize, Least
<1>7. Bounded'
  <2>1. Announced'
    BY <1>3, <1>5, <1>6 DEF Steady, Bounded, Announced, SizeOf
  <2>2. pc = "crc" => rsp = <<>>
    BY <1>2 DEF Inv, Wired
  <2> QED
    BY <1>2, <2>1, <2>2 DEF Steady, Bounded, OnePage, Single, Answered, boot, Doubtful, SizeOf
<1>8. ASSUME Quiet PROVE Quiet'
  <2>1. rsp = <<>> /\ rsp' = <<>> /\ (pc = "check" => req = <<>>)
    BY <1>1, <1>2, <1>8 DEF Inv, Wired, HostTypes, Quiet, Prompt
  <2>2. Prompt'
    BY <1>2, <1>3, <1>5, <1>8, <2>1 DEF Quiet, Prompt, New
  <2>3. Awake'
    BY <1>2, <1>3, <1>5, <1>8, <2>1 DEF Quiet, Awake, boot
  <2>4. ASSUME Contiguous, pc = "crc" PROVE Contiguous'
    <3>1. x.op # "write" /\ Held' = Held
      BY <1>2, <1>3, <2>4 DEF Held, boot
    <3>2. ASSUME NEW i \in Nat PROVE Edge(i)' = Edge(i)
      BY <1>2, <1>5, <3>1 DEF Edge
    <3> QED
      BY <1>2, <1>5, <2>4, <3>1, <3>2 DEF Contiguous
  <2>5. Growing'
    BY <1>2, <1>8, <2>1, <2>4, LaidKept DEF Quiet, Growing, boot, Doubtful, SizeOf
  <2> QED
    BY <2>2, <2>3, <2>5 DEF Quiet
<1> QED
  BY <1>2, <1>7, <1>8 DEF Steady, UndisturbedSucceeds, hist

LEMMA WriteSteady ==
  ASSUME Inv, Steady, HostWrite
  PROVE  Steady'
<1>1. HostTypes /\ LineTypes /\ Flags
  BY TypeParts DEF Inv
<1> DEFINE n == Least(upto - sent, ChunkSize)
           x == [op |-> "write", part |-> part, of |-> file, from |-> sent, n |-> n,
                 stale |-> FALSE]
<1>2. n \in Nat \ {0} /\ n <= upto - sent /\ sent \in Nat /\ upto \in Nat /\ pc = "write"
  BY <1>1, DfuAssumption DEF HostWrite, HostTypes, Inv, Hosted, Least
<1>3. /\ x \in Request /\ x.stale = FALSE /\ x.op = "write" /\ x.n = n /\ x.from = sent
      /\ x.part = part /\ x.of = file
  BY <1>1, <1>2 DEF Request, HostTypes
<1>4. /\ req' = Append(req, x) /\ sent' = sent + n
      /\ pc' = IF sent + n = upto THEN "crc" ELSE "write"
      /\ UNCHANGED <<part, file, wait, tries, rec, pos, upto, rsp, boot, hist, bounds>>
  BY DEF HostWrite
<1> HIDE DEF x, n
<1>5. /\ \A i \in DOMAIN req' : req'[i] = IF i \in DOMAIN req THEN req[i] ELSE x
      /\ req' # <<>> /\ req' \in Seq(Request) /\ Len(req') = Len(req) + 1
      /\ \A i \in DOMAIN req' : i \notin DOMAIN req => i = Len(req) + 1
      /\ DOMAIN req = 1 .. Len(req) /\ DOMAIN req' = 1 .. Len(req') /\ Len(req) \in Nat
  BY <1>1, <1>3, <1>4, Appended DEF LineTypes
<1>6. Writes(req) /\ rsp = <<>> /\ ~wait
  BY <1>1, <1>2 DEF Inv, Wired, Hosted, Flags
<1>7. Bounded'
  <2>1. Announced'
    BY <1>3, <1>5 DEF Steady, Bounded, Announced, SizeOf
  <2> QED
    BY <1>2, <1>4, <1>6, <2>1
       DEF Steady, Bounded, OnePage, Single, Answered, boot, Doubtful, SizeOf
<1>8. ASSUME Quiet PROVE Quiet'
  <2>1. Prompt'
    BY <1>2, <1>3, <1>4, <1>5, <1>6, <1>8 DEF Quiet, Prompt, New
  <2>2. Awake'
    BY <1>2, <1>4, <1>6, <1>8 DEF Quiet, Awake, boot
  <2>3. ASSUME Contiguous PROVE Contiguous'
    <3>1. Held' = Held
      BY <1>4 DEF Held, boot
    <3>2. ASSUME NEW i \in 1 .. Len(req) + 1 PROVE Edge(i)' = Edge(i)
      <4>1. CASE i \in DOMAIN req
        BY <1>5, <1>6, <4>1 DEF Edge, Writes
      <4>2. CASE i \notin DOMAIN req
        <5>1. i = Len(req) + 1 /\ i \in DOMAIN req' /\ req'[i] = x
          BY <1>5, <4>2
        <5> QED
          BY <1>3, <4>2, <5>1 DEF Edge
      <4> QED
        BY <4>1, <4>2
    <3>3. Edge(1)' = Held'.len
      BY <1>5, <2>3, <3>1, <3>2 DEF Contiguous
    <3>4. ASSUME NEW i \in DOMAIN req', req'[i].op = "write"
          PROVE  /\ req'[i].part = part' /\ req'[i].of = file'
                 /\ Edge(i + 1)' = req'[i].from + req'[i].n /\ Edge(i + 1)' <= sent'
      <4>1. CASE i \in DOMAIN req
        <5>1. req'[i] = req[i] /\ i + 1 \in 1 .. Len(req) + 1 /\ Edge(i + 1)' = Edge(i + 1)
          BY <1>5, <4>1, <3>2
        <5>2. Edge(i + 1) <= sent /\ Edge(i + 1) = req[i].from + req[i].n
              /\ req[i].part = part /\ req[i].of = file
          BY <2>3, <3>4, <4>1, <5>1 DEF Contiguous
        <5>3. req[i].from + req[i].n \in Nat
          <6>1. req[i] \in Request
            BY <1>1, <4>1 DEF LineTypes
          <6> QED
            BY <6>1 DEF Request
        <5> QED
          BY <1>2, <1>4, <5>1, <5>2, <5>3
      <4>2. CASE i \notin DOMAIN req
        <5>1. i = Len(req) + 1 /\ req'[i] = x /\ i + 1 = Len(req) + 2
          BY <1>5, <4>2
        <5>2. Edge(i + 1)' = sent + n
          BY <1>4, <1>5, <5>1 DEF Edge
        <5> QED
          BY <1>2, <1>3, <1>4, <5>1, <5>2
      <4> QED
        BY <4>1, <4>2
    <3> QED
      BY <3>3, <3>4 DEF Contiguous
  <2>4. Growing'
    BY <1>2, <1>4, <1>6, <1>8, <2>3, LaidKept DEF Quiet, Growing, boot, Doubtful, SizeOf
  <2> QED
    BY <2>1, <2>2, <2>4 DEF Quiet
<1> QED
  BY <1>2, <1>4, <1>7, <1>8 DEF Steady, UndisturbedSucceeds, hist

-----------------------------------------------------------------------------
(* The host receives, or gives up.                                           *)

\* An object that is announced is announced whole.
LEMMA WholeObject ==
  ASSUME HostTypes, FwSize < PageSize, pos = 0
  PROVE  ObjectSize = SizeOf(part)
<1>1. ObjectSize = Least(SizeOf(part), IF part = "ip" THEN IpSize ELSE PageSize)
  BY SizesOfFile DEF ObjectSize
<1> QED
  BY <1>1, SizesOfFile, DfuAssumption DEF Least

\* The line is empty and the host goes on: what it is to find of its object is there.
LEMMA ProceedsSteady ==
  ASSUME Steady, req' = <<>>, rsp' = <<>>, UNCHANGED <<boot, hurt, file>>,
         wait' = FALSE, pc' # "check", Single', pc' # "idle" /\ ~hurt => mode = "dfu",
         result' \notin {"fail", "absent"} \/ hurt,
         ~hurt /\ ~Doubtful' /\ pc' = "write" => Laid' /\ Held'.len = sent',
         ~hurt /\ ~Doubtful' /\ pc' = "exec" => Laid' /\ Held'.len = SizeOf(part)',
         pc' # "crc"
  PROVE  Steady'
<1>1. Bounded'
  BY DEF Steady, Bounded, OnePage, Announced, Answered, boot
<1>2. ASSUME pc' # "idle", ~hurt PROVE Quiet'
  <2>1. Prompt' /\ Awake'
    BY <1>2 DEF Prompt, Awake, New, boot
  <2>2. Held'.len = sent' => Contiguous'
    BY DEF Contiguous, Edge
  <2>3. Growing'
    BY <1>2, <2>2 DEF Growing
  <2> QED
    BY <2>1, <2>3 DEF Quiet
<1> QED
  BY <1>1, <1>2 DEF Steady, UndisturbedSucceeds

\* The image is sent again from its start, or resumed with more than is left of it.
LEMMA ResumesDoubtfully ==
  ASSUME HostTypes, FwSize < PageSize, pc = "select", part = "fw", pos = 0,
         NEW c \in Content, ResumeFw(c)
  PROVE  \/ c.len > FwSize /\ End("fail")
         \/ /\ c.len <= FwSize /\ result' = result /\ wait' = FALSE
            /\ pos' = 0 /\ part' = "fw"
            /\ \/ pc' = "create" /\ rec' = FALSE
               \/ pc' = "write" /\ rec' = TRUE /\ upto' = PageSize
<1>1. c.len \in Nat /\ FwSize \in Nat \ {0} /\ PageSize \in Nat
  BY DfuAssumption DEF Content
<1>2. SendFwFrom(0) => result' = result /\ wait' = FALSE /\ pos' = 0 /\ part' = "fw"
                       /\ pc' = "create" /\ rec' = FALSE
  BY <1>1 DEF SendFwFrom, Goto
<1>3. CASE c.len > FwSize
  BY <1>1, <1>3 DEF ResumeFw
<1>4. CASE c.len = 0
  BY <1>1, <1>2, <1>4 DEF ResumeFw
<1>5. CASE c.len \in 1 .. FwSize
  <2>1. c.len % PageSize = c.len /\ c.len > 0
    BY <1>1, <1>5
  <2>2. CASE c.of # file
    <3>1. SendFwFrom(c.len - c.len)
      BY <1>1, <1>5, <2>1, <2>2 DEF ResumeFw
    <3>2. c.len - c.len = 0 /\ c.len <= FwSize
      BY <1>1, <1>5
    <3> QED
      BY <1>2, <3>1, <3>2
  <2>3. CASE c.of = file
    <3>1. /\ rec' = TRUE /\ UNCHANGED <<file, tries, result>>
          /\ Stream(c.len, c.len + PageSize - c.len) /\ pos' = c.len - c.len /\ UNCHANGED part
      BY <1>1, <1>5, <2>1, <2>3 DEF ResumeFw
    <3>2. c.len + PageSize - c.len = PageSize /\ c.len - c.len = 0 /\ c.len <= FwSize
      BY <1>1, <1>5
    <3> QED
      BY <3>1, <3>2 DEF Stream
  <2> QED
    BY <2>2, <2>3
<1>6. c.len > FwSize \/ c.len = 0 \/ c.len \in 1 .. FwSize
  BY <1>1
<1> QED
  BY <1>3, <1>4, <1>5, <1>6

LEMMA GoesOnSteady ==
  ASSUME Inv, Steady, FwSize < PageSize, wait, rsp # <<>>, Answers(Head(rsp)),
         HostGoesOn(Head(rsp).content), rsp' = Tail(rsp), UNCHANGED <<req, boot, hurt, bounds>>
  PROVE  Steady'
<1>1. HostTypes /\ LineTypes /\ BootTypes /\ Flags
  BY TypeParts DEF Inv
<1> DEFINE c == Head(rsp).content
<1>2. /\ c \in Content /\ Head(rsp).ok /\ req' = <<>> /\ rsp' = <<>> /\ req = <<>>
      /\ pc \notin {"idle", "write"}
  BY AcceptedIsAlone
<1>3. HostGoesOn(c)
  OBVIOUS
<1>4. /\ pc = "crc" /\ part = "fw" => c.len <= FwSize
      /\ pc \in {"select", "crc"} /\ mode = "dfu" => c = Held
  BY DEF Steady, Bounded, Answered, Inv, Agreed, Held, Received
<1> HIDE DEF c
<1>5. /\ ~hurt => mode = "dfu" \/ (pc = "exec" /\ part = "fw")
      /\ ~hurt /\ pc = "create" => Laid /\ Held.len = 0
      /\ ~hurt /\ ~Doubtful /\ pc = "crc" => Laid /\ Held.len = SizeOf(part)
  BY <1>2 DEF Steady, Quiet, Awake, Growing
<1>6. pos = 0 /\ result = "none" /\ (pc = "create" => ~rec) /\ Single
  BY <1>2 DEF Steady, Bounded, Single, Inv, Hosted
<1>7. c.len \in Nat /\ prog \in Progress
  BY <1>1, <1>2 DEF Content, BootTypes
<1>8. ASSUME pc \in {"check", "ping", "prn", "mtu"} PROVE Steady'
  <2>1. /\ UNCHANGED <<file, tries, rec, pos, sent, upto, result>> /\ wait' = FALSE
        /\ pc' \in {"ping", "prn", "mtu", "select"}
    BY <1>3, <1>8 DEF HostGoesOn, Goto
  <2>2. Single'
    BY <1>6, <2>1 DEF Single
  <2> QED
    BY <1>2, <1>5, <1>6, <1>8, <2>1, <2>2, ProceedsSteady
<1>9. ASSUME pc = "select", part = "ip" PROVE Steady'
  <2>1. ResumeIp(c) /\ UNCHANGED <<file, tries, result>>
    BY <1>3, <1>9 DEF HostGoesOn
  <2>2. IpSize \in Nat \ {0} /\ mode = "dfu" => prog.cmdSize = IpSize \/ prog.cmd.len = 0
    BY <1>7, ProgressParts, SizesOfFile, <1>1 DEF Steady, Bounded, OnePage
  <2>3. CASE c.len \in 1 .. IpSize /\ c.of = file /\ c.len < IpSize
    <3>1. /\ pc' = "write" /\ sent' = c.len /\ upto' = IpSize /\ wait' = FALSE
          /\ UNCHANGED <<part, pos>>
      BY <2>1, <2>3 DEF ResumeIp, Stream
    <3>2. Single'
      BY <1>6, <1>9, <3>1 DEF Single, Doubtful, SizeOf
    <3>3. ~hurt => Laid' /\ Held'.len = sent'
      BY <1>1, <1>4, <1>5, <1>9, <2>1, <2>2, <2>3, <3>1, SizesOfFile DEF Laid, Held, boot
    <3> QED
      BY <1>2, <1>5, <1>6, <1>9, <2>1, <3>1, <3>2, <3>3, ProceedsSteady
  <2>4. CASE c.len \in 1 .. IpSize /\ c.of = file /\ ~(c.len < IpSize)
    <3>1. /\ pc' = "exec" /\ part' = "ip" /\ wait' = FALSE
          /\ UNCHANGED <<sent, upto, pos>>
      BY <2>1, <2>4 DEF ResumeIp, Goto
    <3>2. Single'
      BY <1>6, <3>1 DEF Single
    <3>3. c.len = IpSize
      BY <1>1, <1>7, <2>4, SizesOfFile
    <3>4. ~hurt => Laid' /\ Held'.len = SizeOf(part)'
      BY <1>1, <1>4, <1>5, <1>9, <2>1, <2>2, <2>4, <3>1, <3>3, SizesOfFile
         DEF Laid, Held, boot, SizeOf
    <3> QED
      BY <1>2, <1>5, <1>6, <1>9, <2>1, <3>1, <3>2, <3>4, ProceedsSteady
  <2>5. CASE ~(c.len \in 1 .. IpSize /\ c.of = file)
    <3>1. /\ pc' = "create" /\ part' = "ip" /\ wait' = FALSE /\ rec' = FALSE
          /\ UNCHANGED <<sent, upto>> /\ pos' = 0
      BY <2>1, <2>5 DEF ResumeIp, Goto
    <3>2. Single'
      BY <3>1 DEF Single
    <3> QED
      BY <1>2, <1>5, <1>6, <1>9, <2>1, <3>1, <3>2, ProceedsSteady
  <2> QED
    BY <2>3, <2>4, <2>5
<1>10. ASSUME pc = "select", part = "fw" PROVE Steady'
  <2>1. ResumeFw(c)
    BY <1>3, <1>10 DEF HostGoesOn
  <2>2. mode = "dfu" => c.len <= FwSize
    BY <1>1, <1>4, <1>7, <1>10, ProgressParts, SizesOfFile
       DEF Steady, Bounded, OnePage, Held
  <2>3. file' = file
    BY <2>1 DEF ResumeFw, SendFwFrom, End
  <2>4. CASE c.len > FwSize /\ End("fail")
    <3>1. hurt
      <4>1. ~(c.len <= FwSize)
        BY <1>1, <1>7, <2>4, SizesOfFile
      <4> QED
        BY <1>5, <1>10, <2>2, <4>1
    <3>2. pc' = "idle" /\ wait' = FALSE
      BY <2>4 DEF End
    <3>3. Single'
      BY <3>2 DEF Single
    <3> QED
      BY <1>2, <2>3, <3>1, <3>2, <3>3, ProceedsSteady
  <2>5. CASE /\ c.len <= FwSize /\ result' = result /\ wait' = FALSE
             /\ pos' = 0 /\ part' = "fw" /\ pc' = "create" /\ rec' = FALSE
    <3>1. Single'
      BY <2>5 DEF Single
    <3> QED
      BY <1>2, <1>5, <1>6, <1>10, <2>3, <2>5, <3>1, ProceedsSteady
  <2>6. CASE /\ c.len <= FwSize /\ result' = result /\ wait' = FALSE
             /\ pos' = 0 /\ part' = "fw" /\ pc' = "write" /\ rec' = TRUE /\ upto' = PageSize
    <3>1. Single' /\ Doubtful'
      BY <2>6 DEF Single, Doubtful
    <3> QED
      BY <1>2, <1>5, <1>6, <1>10, <2>3, <2>6, <3>1, ProceedsSteady
  <2> QED
    BY <1>1, <1>2, <1>6, <1>10, <2>1, <2>4, <2>5, <2>6, ResumesDoubtfully
<1>11. ASSUME pc = "create" PROVE Steady'
  <2>1. /\ pc' = "write" /\ sent' = pos /\ upto' = pos + ObjectSize /\ wait' = FALSE
        /\ UNCHANGED <<part, file, tries, rec, pos, result>>
    BY <1>3, <1>11 DEF HostGoesOn, Stream
  <2>2. ObjectSize = SizeOf(part) /\ SizeOf(part) \in Nat
    BY <1>1, <1>6, WholeObject, SizesOfFile
  <2>3. upto' = SizeOf(part) /\ sent' = 0
    BY <1>6, <2>1, <2>2
  <2>4. Single' /\ ~Doubtful'
    BY <1>6, <1>11, <2>1, <2>3 DEF Single, Doubtful, SizeOf
  <2>5. ~hurt => Laid' /\ Held'.len = sent'
    BY <1>5, <1>11, <2>1, <2>3, LaidKept DEF boot
  <2> QED
    BY <1>2, <1>5, <1>6, <1>11, <2>1, <2>4, <2>5, ProceedsSteady
<1>12. ASSUME pc = "crc", CrcMatches(c) PROVE Steady'
  <2>1. /\ pc' = "exec" /\ wait' = FALSE
        /\ UNCHANGED <<part, file, tries, rec, pos, sent, upto, result>>
    BY <1>3, <1>12 DEF HostGoesOn, Goto
  <2>2. ~Doubtful
    <3>1. ASSUME Doubtful PROVE FALSE
      <4>1. c.len = PageSize /\ c.len <= FwSize
        BY <1>4, <1>6, <1>12, <3>1 DEF Single, Doubtful, CrcMatches
      <4> QED
        BY <4>1, DfuAssumption
    <3> QED
      BY <3>1
  <2>3. Single'
    BY <1>1, <1>6, <1>12, <2>1, <2>2, SizesOfFile DEF Single, Doubtful, SizeOf
  <2>4. ~hurt => Laid' /\ Held'.len = SizeOf(part)'
    BY <1>5, <1>12, <2>1, <2>2, LaidKept DEF boot, SizeOf
  <2> QED
    BY <1>2, <1>5, <1>6, <1>12, <2>1, <2>3, <2>4, ProceedsSteady
<1>13. ASSUME pc = "crc", ~CrcMatches(c), ~rec PROVE Steady'
  <2>1. pc' = "idle" /\ wait' = FALSE /\ file' = file
    BY <1>3, <1>13 DEF HostGoesOn, End
  <2>2. hurt
    <3>1. ASSUME ~hurt PROVE FALSE
      <4>1. ~Doubtful /\ c = Held /\ upto = SizeOf(part) /\ Laid /\ Held.len = SizeOf(part)
        BY <1>4, <1>5, <1>6, <1>13, <3>1 DEF Single, Doubtful
      <4>2. Held.of = file
        BY <1>1, <4>1, SizesOfFile DEF Laid, Held
      <4> QED
        BY <1>13, <4>1, <4>2 DEF CrcMatches
    <3> QED
      BY <3>1
  <2>3. Single'
    BY <2>1 DEF Single
  <2> QED
    BY <1>2, <2>1, <2>2, <2>3, ProceedsSteady
<1>14. ASSUME pc = "crc", ~CrcMatches(c), rec PROVE Steady'
  <2>1. /\ pc' = "create" /\ wait' = FALSE /\ rec' = FALSE
        /\ UNCHANGED <<part, file, tries, pos, sent, upto, result>>
    BY <1>3, <1>14 DEF HostGoesOn, Goto
  <2>2. Single'
    BY <1>6, <2>1 DEF Single
  <2> QED
    BY <1>2, <1>5, <1>6, <1>14, <2>1, <2>2, ProceedsSteady
<1>15. ASSUME pc = "exec", part = "ip" PROVE Steady'
  <2>1. /\ pc' = "select" /\ part' = "fw" /\ wait' = FALSE /\ rec' = FALSE
        /\ UNCHANGED <<file, tries, pos, sent, upto, result>>
    BY <1>3, <1>15 DEF HostGoesOn, Goto
  <2>2. Single'
    BY <1>6, <2>1 DEF Single
  <2> QED
    BY <1>2, <1>5, <1>6, <1>15, <2>1, <2>2, ProceedsSteady
<1>16. ASSUME pc = "exec", part = "fw" PROVE Steady'
  <2>1. SendFwFrom(upto)
    BY <1>3, <1>16 DEF HostGoesOn
  <2>2. upto = FwSize /\ FwSize \in Nat
    BY <1>1, <1>6, <1>16, SizesOfFile DEF Single, Doubtful
  <2>3. pc' = "idle" /\ wait' = FALSE /\ result' = "ok" /\ file' = file
    BY <2>1, <2>2 DEF SendFwFrom
  <2>4. Single'
    BY <2>3 DEF Single
  <2> QED
    BY <1>2, <2>3, <2>4, ProceedsSteady
<1>17. \/ pc \in {"check", "ping", "prn", "mtu"} \/ pc = "select" \/ pc = "create"
       \/ pc = "crc" \/ pc = "exec"
  BY <1>1, <1>2 DEF HostTypes
<1> QED
  BY <1>1, <1>8, <1>9, <1>10, <1>11, <1>12, <1>13, <1>14, <1>15, <1>16, <1>17, SizesOfFile

LEMMA AbandonedAnnounced ==
  ASSUME Announced, req \in Seq(Request), req' = Abandoned(req)
  PROVE  Announced'
<1>1. /\ DOMAIN req' = DOMAIN req
      /\ \A i \in DOMAIN req : req[i] \in Request /\ req'[i] = [req[i] EXCEPT !.stale = TRUE]
  BY AbandonedReq
<1>2. \A i \in DOMAIN req : /\ req'[i].op = req[i].op /\ req'[i].n = req[i].n
                            /\ req'[i].part = req[i].part
  BY <1>1 DEF Request
<1> QED
  BY <1>1, <1>2 DEF Announced, SizeOf

\* The host gives up after something went wrong.
LEMMA GivesUpSteady ==
  ASSUME HostTypes, LineTypes, Steady, HostGivesUp, pc # "idle", hurt, UNCHANGED <<boot, hurt>>
  PROVE  Steady'
<1>1. /\ req' = Abandoned(req) /\ UNCHANGED <<part, file, rec, pos, sent, upto>> /\ ~wait'
      /\ pc' = "idle" \/ (pc' = "check" /\ pc = "check")
  BY DEF HostGivesUp, End
<1>2. Announced'
  BY <1>1, AbandonedAnnounced DEF Steady, Bounded, LineTypes
<1>3. Bounded'
  BY <1>1, <1>2 DEF Steady, Bounded, OnePage, Single, Answered, boot
<1> QED
  BY <1>3 DEF Steady, UndisturbedSucceeds

\* An attempt that nothing disturbs gets every response it waits for.
LEMMA ReceiveSteady ==
  ASSUME Inv, Steady, FwSize < PageSize, HostReceive
  PROVE  Steady'
<1>1. HostTypes /\ LineTypes /\ HistTypes /\ Flags
  BY TypeParts DEF Inv
<1>2. wait /\ rsp # <<>> /\ UNCHANGED <<boot, hurt, bounds>> /\ pc # "idle"
  BY DEF HostReceive, Inv, Hosted
<1>3. CASE Answers(Head(rsp))
  <2>1. HostGoesOn(Head(rsp).content) /\ rsp' = Tail(rsp) /\ UNCHANGED req
    BY <1>3 DEF HostReceive
  <2> QED
    BY <1>2, <1>3, <2>1, GoesOnSteady
<1>4. CASE ~Answers(Head(rsp))
  <2>1. HostGivesUp /\ rsp' = Abandoned(Tail(rsp))
    BY <1>4 DEF HostReceive
  <2>2. hurt
    <3>1. ASSUME ~hurt PROVE FALSE
      <4>1. Head(rsp) = rsp[1] /\ 1 \in DOMAIN rsp
        BY <1>1, <1>2, TailOf DEF LineTypes
      <4>2. Prompt
        BY <1>2, <3>1 DEF Steady, Quiet
      <4> QED
        BY <1>4, <4>1, <4>2 DEF Prompt, New, Answers
    <3> QED
      BY <3>1
  <2> QED
    BY <1>1, <1>2, <2>1, <2>2, GivesUpSteady
<1> QED
  BY <1>3, <1>4

\* A second passes without a response only when something went wrong.
LEMMA TimeoutSteady ==
  ASSUME Inv, Steady, Slow = FALSE, HostTimeout
  PROVE  Steady'
<1>1. HostTypes /\ LineTypes /\ HistTypes /\ Flags
  BY TypeParts DEF Inv
<1>2. /\ wait /\ rsp = <<>> /\ req = <<>> /\ UNCHANGED <<hurt, rsp, boot>> /\ HostGivesUp
      /\ pc # "idle"
  BY DEF HostTimeout, Inv, Hosted
<1>3. hurt
  BY <1>2 DEF Steady, Quiet, Awake
<1> QED
  BY <1>1, <1>2, <1>3, GivesUpSteady

LEMMA CrashSteady ==
  ASSUME Inv, Steady, HostCrash
  PROVE  Steady'
<1>1. LineTypes
  BY TypeParts DEF Inv
<1>2. /\ pc' = "idle" /\ hurt' /\ req' = Abandoned(req) /\ UNCHANGED boot
  BY DEF HostCrash
<1>3. Announced'
  BY <1>1, <1>2, AbandonedAnnounced DEF Steady, Bounded, LineTypes
<1>4. Bounded'
  BY <1>2, <1>3 DEF Steady, Bounded, OnePage, Single, Answered, boot
<1> QED
  BY <1>2, <1>4 DEF Steady, UndisturbedSucceeds

-----------------------------------------------------------------------------
(* The bootloader handles a request.                                         *)

\* A request leaves the line.
LEMMA TakenBounded ==
  ASSUME Inv, Bounded, req # <<>>, req' = Tail(req), UNCHANGED host, OnePage(prog'), OnePage(saved'),
         \/ rsp' = rsp
         \/ pc = "crc" /\ wait /\ part = "fw" => Head(rsp').content.len <= FwSize
  PROVE  Bounded'
<1>1. LineTypes
  BY TypeParts DEF Inv
<1>2. \A i \in DOMAIN req' : i + 1 \in DOMAIN req /\ req'[i] = req[i + 1]
  BY <1>1, TailOf DEF LineTypes
<1>3. Announced'
  BY <1>2 DEF Bounded, Announced, SizeOf
<1>4. Single' /\ Answered'
  BY DEF Bounded, Single, Answered, host, Doubtful, SizeOf
<1> QED
  BY <1>3, <1>4 DEF Bounded, OnePage

\* It is answered as it should be.
LEMMA ReplyQuiet ==
  ASSUME Inv, Quiet, pc # "idle", mode = "dfu", req # <<>>, Head(req).op # "write",
         NEW ok \in BOOLEAN, ok, NEW c \in Content, Reply(Head(req), ok, c),
         req' = Tail(req), UNCHANGED host,
         mode' = "dfu" \/ (pc = "exec" /\ part = "fw"),
         pc = "create" => Laid' /\ Held'.len = 0,
         pc = "crc" /\ ~Doubtful => Laid' /\ Held'.len = SizeOf(part)
  PROVE  Quiet'
<1>1. HostTypes /\ LineTypes
  BY TypeParts DEF Inv
<1> DEFINE a == [op |-> Head(req).op, ok |-> ok, content |-> c, stale |-> Head(req).stale]
<1>2. /\ Head(req) \in Request /\ Head(req) = req[1] /\ 1 \in DOMAIN req
      /\ \A i \in DOMAIN req' : i + 1 \in DOMAIN req /\ req'[i] = req[i + 1]
  BY <1>1, TailOf DEF LineTypes
<1>3. ~Head(req).stale
  BY <1>2 DEF Quiet, Prompt, New
<1>4. a \in Response /\ a.op = Head(req).op /\ ~a.stale /\ a.ok
  BY <1>2, <1>3 DEF Request, Response
<1>5. rsp' = Append(rsp, a)
  BY DEF Reply
<1> HIDE DEF a
<1>6. /\ rsp' # <<>>
      /\ \A i \in DOMAIN rsp' : rsp'[i] = IF i \in DOMAIN rsp THEN rsp[i] ELSE a
  BY <1>1, <1>4, <1>5, Appended DEF LineTypes
<1>7. /\ Head(req).op = IF pc = "check" THEN "ping" ELSE pc
      /\ pc # "check" => wait
  <2>1. CASE pc = "check"
    BY <1>2, <2>1 DEF Quiet, Prompt
  <2>2. CASE pc # "check"
    BY <1>1, <2>2, HeadOfLine DEF Inv
  <2> QED
    BY <2>1, <2>2
<1>8. Prompt'
  <2>1. New(req') /\ New(rsp')
    BY <1>2, <1>4, <1>6 DEF Quiet, Prompt, New
  <2>2. \A i \in DOMAIN rsp' : rsp'[i].ok /\ rsp'[i].op = IF pc = "check" THEN "ping" ELSE pc
    BY <1>4, <1>6, <1>7 DEF Quiet, Prompt
  <2>3. pc = "check" => wait /\ \A i \in DOMAIN req' : req'[i].op = "ping"
    BY <1>2 DEF Quiet, Prompt
  <2> QED
    BY <2>1, <2>2, <2>3 DEF Prompt, host
<1>9. Awake'
  BY <1>6 DEF Awake, host
<1>10. Growing'
  BY <1>6 DEF Growing, host, Doubtful, SizeOf
<1> QED
  BY <1>8, <1>9, <1>10 DEF Quiet

LEMMA SetupSteady ==
  ASSUME Inv, Steady, req # <<>>, BlSetup(Head(req))
  PROVE  Steady'
<1>1. /\ Head(req).op \in {"ping", "prn", "mtu"} /\ mode = "dfu" /\ req' = Tail(req)
      /\ UNCHANGED <<host, hist, bounds, boot>> /\ Reply(Head(req), TRUE, Empty)
  BY DEF BlSetup, Take
<1>2. Empty \in Content /\ TRUE \in BOOLEAN
  BY DEF Empty, Content
<1>3. pc \notin {"idle", "check"} => Head(req).op = pc
  BY <1>1, <1>2, Replied
<1>4. pc \notin {"create", "crc"}
  BY <1>1, <1>3
<1>5. Bounded'
  BY <1>1, <1>4, TakenBounded DEF Steady, Bounded, OnePage, boot
<1>6. ASSUME pc # "idle", ~hurt PROVE Quiet'
  BY <1>1, <1>2, <1>4, <1>6, ReplyQuiet DEF Steady, boot
<1> QED
  BY <1>1, <1>5, <1>6 DEF Steady, UndisturbedSucceeds, host, hist

LEMMA SelectSteady ==
  ASSUME Inv, Steady, req # <<>>, BlSelect(Head(req))
  PROVE  Steady'
<1>1. /\ Head(req).op = "select" /\ mode = "dfu" /\ req' = Tail(req)
      /\ UNCHANGED <<host, hist, bounds, mode, prog, valid, target, saved, flash, installed>>
      /\ Reply(Head(req), TRUE, Received(Head(req).part))
  BY DEF BlSelect, Take
<1>2. Received(Head(req).part) \in Content /\ TRUE \in BOOLEAN
  BY TypeParts DEF Inv, Received, BootTypes, Progress
<1>3. pc \notin {"idle", "check"} => Head(req).op = pc
  BY <1>1, <1>2, Replied
<1>4. pc \notin {"create", "crc"}
  BY <1>1, <1>3
<1>5. Bounded'
  BY <1>1, <1>4, TakenBounded DEF Steady, Bounded, OnePage
<1>6. ASSUME pc # "idle", ~hurt PROVE Quiet'
  BY <1>1, <1>2, <1>4, <1>6, ReplyQuiet DEF Steady
<1> QED
  BY <1>1, <1>5, <1>6 DEF Steady, UndisturbedSucceeds, host, hist

\* When the CRC is asked for, all writes have arrived.
LEMMA CrcSteady ==
  ASSUME Inv, Steady, req # <<>>, BlCrc(Head(req))
  PROVE  Steady'
<1>1. /\ Head(req).op = "crc" /\ mode = "dfu" /\ req' = Tail(req)
      /\ UNCHANGED <<host, hist, bounds, boot>> /\ Reply(Head(req), TRUE, Received(obj))
  BY DEF BlCrc, Take
<1>2. HostTypes /\ LineTypes /\ BootTypes
  BY TypeParts DEF Inv
<1>3. Received(obj) \in Content /\ TRUE \in BOOLEAN
  BY <1>2 DEF Received, BootTypes, Progress
<1>4. pc \notin {"idle", "check"} => Head(req).op = pc /\ Head(rsp').content = Received(obj)
  BY <1>1, <1>3, Replied
<1>5. ASSUME pc = "crc", part = "fw" PROVE Head(rsp').content.len <= FwSize
  <2>1. Head(rsp').content = prog.img
    BY <1>1, <1>4, <1>5 DEF Inv, Agreed, Received
  <2> QED
    BY <1>2, <2>1, ProgressParts, SizesOfFile DEF Steady, Bounded, OnePage, BootTypes
<1>6. Bounded'
  BY <1>1, <1>5, TakenBounded DEF Steady, Bounded, OnePage, boot
<1>7. ASSUME pc # "idle", ~hurt PROVE Quiet'
  <2>1. pc # "create"
    BY <1>1, <1>4
  <2>2. ASSUME pc = "crc", ~Doubtful PROVE Laid' /\ Held'.len = SizeOf(part)
    <3>1. rsp = <<>>
      BY <1>1, <1>2, <2>2, HeadOfLine DEF Inv
    <3>2. Laid /\ Contiguous
      BY <1>7, <2>2, <3>1 DEF Steady, Quiet, Growing
    <3>3. Edge(1) = sent
      BY <1>1, <1>2, TailOf DEF Edge, LineTypes
    <3>4. sent = SizeOf(part)
      BY <2>2 DEF Steady, Bounded, Single
    <3> QED
      BY <1>1, <3>2, <3>3, <3>4, LaidKept DEF Contiguous, host, boot
  <2> QED
    BY <1>1, <1>3, <1>7, <2>1, <2>2, ReplyQuiet DEF Steady, boot
<1> QED
  BY <1>1, <1>6, <1>7 DEF Steady, UndisturbedSucceeds, host, hist

LEMMA CreateIpSteady ==
  ASSUME Inv, Steady, req # <<>>, BlCreateIp(Head(req))
  PROVE  Steady'
<1>1. /\ Head(req).op = "create" /\ Head(req).part = "ip" /\ mode = "dfu" /\ req' = Tail(req)
      /\ UNCHANGED <<host, hist, bounds, mode, target, saved, flash, installed>>
      /\ Reply(Head(req), TRUE, Empty)
      /\ prog' = [NoProgress EXCEPT !.cmdSize = Head(req).n]
  BY DEF BlCreateIp, Take
<1>2. HostTypes /\ LineTypes /\ Empty \in Content /\ TRUE \in BOOLEAN
  BY TypeParts DEF Inv, Empty, Content
<1>3. Head(req).n = IpSize
  <2>1. Head(req) = req[1] /\ 1 \in DOMAIN req
    BY <1>2, TailOf DEF LineTypes
  <2> QED
    BY <1>1, <2>1 DEF Steady, Bounded, Announced, SizeOf
<1>4. /\ prog'.cmdSize = IpSize /\ prog'.cmd.len = 0 /\ prog'.objSize = 0
      /\ prog'.img.len = 0 /\ prog'.last.len = 0
  BY <1>1, <1>3 DEF NoProgress, Empty
<1>5. pc \notin {"idle", "check"} => Head(req).op = pc /\ (pc # "crc" => Head(req).part = part)
  BY <1>1, <1>2, Replied
<1>6. pc \in {"idle", "check"} \/ (pc = "create" /\ part = "ip")
  BY <1>1, <1>5
<1>7. Bounded'
  <2>1. OnePage(prog') /\ OnePage(saved')
    BY <1>1, <1>2, <1>4, SizesOfFile DEF Steady, Bounded, OnePage
  <2> QED
    BY <1>1, <1>6, <2>1, TakenBounded DEF Steady
<1>8. ASSUME pc # "idle", ~hurt PROVE Quiet'
  <2>1. pc = "create" => Laid' /\ Held'.len = 0
    BY <1>1, <1>4, <1>6 DEF Laid, Held, host
  <2> QED
    BY <1>1, <1>2, <1>6, <1>8, <2>1, ReplyQuiet DEF Steady
<1> QED
  BY <1>1, <1>7, <1>8 DEF Steady, UndisturbedSucceeds, host, hist

\* The object of an image smaller than a page takes all of bank 1, and erases it.
LEMMA CreateFwSteady ==
  ASSUME Inv, Steady, FwSize < PageSize, req # <<>>, BlCreateFw(Head(req))
  PROVE  Steady'
<1>1. /\ Head(req).op = "create" /\ Head(req).part = "fw" /\ mode = "dfu" /\ req' = Tail(req)
      /\ UNCHANGED <<host, hist, bounds, mode, valid, target, saved, installed>>
      /\ Reply(Head(req), MayCreate(Head(req).n), Empty)
  BY DEF BlCreateFw, Take
<1>2. /\ HostTypes /\ LineTypes /\ BootTypes /\ Empty \in Content
      /\ MayCreate(Head(req).n) \in BOOLEAN
  <2>1. MayCreate(Head(req).n) \in BOOLEAN
    BY DEF MayCreate
  <2> QED
    BY <2>1, TypeParts DEF Inv, Empty, Content
<1>3. Head(req).n = FwSize
  <2>1. Head(req) = req[1] /\ 1 \in DOMAIN req
    BY <1>2, TailOf DEF LineTypes
  <2> QED
    BY <1>1, <2>1 DEF Steady, Bounded, Announced, SizeOf
<1>4. pc \notin {"idle", "check"} => Head(req).op = pc /\ (pc # "crc" => Head(req).part = part)
  BY <1>1, <1>2, Replied
<1>5. pc \in {"idle", "check"} \/ (pc = "create" /\ part = "fw")
  BY <1>1, <1>4
<1>6. prog \in Progress /\ prog.last.len = 0 /\ OnePage(prog) /\ OnePage(saved)
  BY <1>2 DEF BootTypes, Steady, Bounded, OnePage
<1>7. \/ MayCreate(FwSize) /\ prog' = [prog EXCEPT !.objSize = FwSize, !.img = prog.last]
         /\ flash' = [k \in Units |-> IF k \in 0 + 1 .. 0 + PageSize THEN None ELSE flash[k]]
      \/ ~MayCreate(FwSize) /\ prog' = prog /\ flash' = flash
  BY <1>3, <1>6 DEF BlCreateFw
<1>8. Bounded'
  <2>1. prog' = prog \/ (/\ prog'.cmdSize = prog.cmdSize /\ prog'.cmd = prog.cmd
                         /\ prog'.objSize = FwSize /\ prog'.img.len = 0 /\ prog'.last.len = 0)
    BY <1>6, <1>7 DEF Progress
  <2>2. OnePage(prog') /\ OnePage(saved')
    BY <1>1, <1>2, <1>6, <2>1, SizesOfFile DEF OnePage
  <2> QED
    BY <1>1, <1>5, <2>2, TakenBounded DEF Steady
<1>9. ASSUME pc # "idle", ~hurt PROVE Quiet'
  <2>1. pc = "create" /\ part = "fw"
    <3>1. Head(req) = req[1] /\ 1 \in DOMAIN req
      BY <1>2, TailOf DEF LineTypes
    <3> QED
      BY <1>1, <1>5, <1>9, <3>1 DEF Steady, Quiet, Prompt
  <2>2. MayCreate(FwSize)
    <3>1. valid
      BY <1>1, <1>9, <2>1 DEF Inv, Agreed
    <3>2. FwSize > 0 /\ FwSize <= PageSize /\ 0 + FwSize = FwSize /\ 0 + FwSize <= FwSize
      BY DfuAssumption
    <3> QED
      BY <1>6, <3>1, <3>2 DEF MayCreate
  <2>3. \A k \in Units : k \in 0 + 1 .. 0 + PageSize /\ ~(k <= 0)
    BY DfuAssumption DEF Units
  <2>4. /\ prog'.objSize = FwSize /\ prog'.img.len = 0
        /\ \A k \in Units : flash'[k] = None
    BY <1>6, <1>7, <2>2, <2>3 DEF Progress
  <2>5. Laid' /\ Held'.len = 0
    BY <1>1, <2>1, <2>3, <2>4 DEF Laid, Held, host
  <2> QED
    BY <1>1, <1>2, <1>3, <1>9, <2>1, <2>2, <2>5, ReplyQuiet DEF Steady
<1> QED
  BY <1>1, <1>8, <1>9 DEF Steady, UndisturbedSucceeds, host, hist

\* A write keeps what is received within what was announced, damaged or not.
LEMMA WrittenOnePage ==
  ASSUME BootTypes, OnePage(prog), NEW r \in Request, NEW d \in BOOLEAN,
         WriteIp(r, d) \/ WriteFw(r, d)
  PROVE  OnePage(prog')
<1>1. prog \in Progress /\ r.n \in Nat
  BY DEF BootTypes, Request
<1>2. CASE prog' = prog
  BY <1>2
<1>3. CASE prog' # prog /\ WriteIp(r, d)
  <2> DEFINE new == Extended(prog.cmd, r, "ip", d)
  <2>1. new.len = prog.cmd.len + r.n
    BY DEF Extended
  <2>2. prog' = [prog EXCEPT !.cmd = new] /\ ~(r.n + prog.cmd.len > prog.cmdSize)
    BY <1>3 DEF WriteIp
  <2> HIDE DEF new
  <2>3. /\ prog'.cmd.len = prog.cmd.len + r.n /\ prog'.cmdSize = prog.cmdSize
        /\ prog'.last = prog.last /\ prog'.img = prog.img /\ prog'.objSize = prog.objSize
    BY <1>1, <2>1, <2>2 DEF Progress
  <2>4. prog'.cmd.len <= prog'.cmdSize
    BY <1>1, <2>2, <2>3, ProgressParts
  <2> QED
    BY <2>3, <2>4 DEF OnePage
<1>4. CASE prog' # prog /\ WriteFw(r, d)
  <2> DEFINE new == Extended(prog.img, r, "fw", d)
  <2>1. new.len = prog.img.len + r.n
    BY DEF Extended
  <2>2. prog' = [prog EXCEPT !.img = new] /\ ~(r.n + prog.img.len - prog.last.len > prog.objSize)
    BY <1>4 DEF WriteFw
  <2> HIDE DEF new
  <2>3. /\ prog'.img.len = prog.img.len + r.n /\ prog'.cmdSize = prog.cmdSize
        /\ prog'.last = prog.last /\ prog'.cmd = prog.cmd /\ prog'.objSize = prog.objSize
    BY <1>1, <2>1, <2>2 DEF Progress
  <2>4. prog'.img.len <= prog'.objSize
    BY <1>1, <2>2, <2>3, ProgressParts DEF OnePage
  <2> QED
    BY <2>3, <2>4 DEF OnePage
<1> QED
  BY <1>2, <1>3, <1>4

\* A write that is the next of the object the bootloader is in the middle of.
LEMMA WrittenLaid ==
  ASSUME HostTypes, BootTypes, OnePage(prog), Laid, NEW r \in Request, r.part = part,
         r.of = file, r.from = Held.len, r.n > 0, Held.len + r.n <= SizeOf(part),
         obj = part, part = "fw" => valid, UNCHANGED <<part, file>>,
         WriteIp(r, FALSE) \/ WriteFw(r, FALSE)
  PROVE  Laid' /\ Held'.len = Held.len + r.n
<1>1. prog \in Progress /\ r.n \in Nat /\ prog.last.len = 0
  BY DEF BootTypes, Request, OnePage
<1>2. CASE part = "ip"
  <2> DEFINE new == Extended(prog.cmd, r, "ip", FALSE)
  <2>1. new.len = prog.cmd.len + r.n /\ new.of = file
    BY <1>2 DEF Extended, Laid, Held
  <2>2. prog' = [prog EXCEPT !.cmd = new]
    <3>1. WriteIp(r, FALSE)
      BY <1>2 DEF WriteFw
    <3>2. ~(r.n + prog.cmd.len > prog.cmdSize)
      BY <1>1, <1>2, ProgressParts, SizesOfFile DEF Laid, Held
    <3> QED
      BY <3>1, <3>2 DEF WriteIp
  <2> HIDE DEF new
  <2>3. prog'.cmd = new /\ prog'.cmdSize = prog.cmdSize
    BY <1>1, <2>2 DEF Progress
  <2> QED
    BY <1>2, <2>1, <2>3 DEF Laid, Held
<1>3. CASE part = "fw"
  <2> DEFINE new == Extended(prog.img, r, "fw", FALSE)
  <2>1. new.len = prog.img.len + r.n /\ new.of = file
    BY <1>3 DEF Extended, Laid, Held
  <2>2. /\ prog' = [prog EXCEPT !.img = new]
        /\ flash' = [k \in Units |->
             IF k \notin prog.img.len + 1 .. new.len THEN flash[k]
             ELSE IF flash[k] \in {None, file} THEN file ELSE Junk]
    <3>1. WriteFw(r, FALSE)
      BY <1>3 DEF WriteIp
    <3>2. ~(~valid \/ r.n + prog.img.len - prog.last.len > prog.objSize)
      BY <1>1, <1>3, ProgressParts, SizesOfFile DEF Laid, Held
    <3>3. (IF FALSE \/ r.part # "fw" \/ r.from # prog.img.len THEN Junk ELSE r.of) = file
      BY <1>3 DEF Held
    <3> QED
      BY <3>1, <3>2, <3>3 DEF WriteFw
  <2>3. \A k \in Units : flash[k] = IF k <= prog.img.len THEN file ELSE None
    BY <1>3 DEF Laid
  <2> HIDE DEF new
  <2>4. prog'.img = new /\ prog'.objSize = prog.objSize
    BY <1>1, <2>2 DEF Progress
  <2>5. \A k \in Units : flash'[k] = IF k <= new.len THEN file ELSE None
    <3> TAKE k \in Units
    <3>1. k \in Nat \ {0} /\ prog.img.len \in Nat
      BY <1>1, ProgressParts DEF Units
    <3>2. CASE k <= prog.img.len
      <4>1. k <= new.len /\ k \notin prog.img.len + 1 .. new.len
        BY <1>1, <2>1, <3>1, <3>2
      <4> QED
        BY <2>2, <2>3, <3>2, <4>1
    <3>3. CASE ~(k <= prog.img.len) /\ k <= new.len
      <4>1. k \in prog.img.len + 1 .. new.len
        BY <1>1, <2>1, <3>1, <3>3
      <4> QED
        BY <2>2, <2>3, <3>3, <4>1
    <3>4. CASE ~(k <= prog.img.len) /\ ~(k <= new.len)
      <4>1. k \notin prog.img.len + 1 .. new.len
        BY <1>1, <2>1, <3>1, <3>4
      <4> QED
        BY <2>2, <2>3, <3>4, <4>1
    <3> QED
      BY <3>2, <3>3, <3>4
  <2> QED
    BY <1>3, <2>1, <2>4, <2>5 DEF Laid, Held
<1> QED
  BY <1>2, <1>3, SizesOfFile

\* What is left on the line continues what the bootloader has now.
LEMMA StillContiguous ==
  ASSUME HostTypes, LineTypes, Contiguous, req # <<>>, Head(req).op = "write",
         req' = Tail(req), UNCHANGED <<part, file, sent>>,
         Held'.len = Held.len + Head(req).n
  PROVE  Contiguous'
<1>1. /\ Head(req) = req[1] /\ 1 \in DOMAIN req /\ Len(req) \in Nat
      /\ DOMAIN req = 1 .. Len(req) /\ DOMAIN req' = 1 .. Len(req) - 1
      /\ \A i \in DOMAIN req' : i + 1 \in DOMAIN req /\ req'[i] = req[i + 1]
  BY TailOf DEF LineTypes
<1>2. ASSUME NEW i \in Nat \ {0} PROVE Edge(i)' = Edge(i + 1)
  <2>1. CASE i \in DOMAIN req'
    BY <1>1, <2>1 DEF Edge
  <2>2. CASE i \notin DOMAIN req'
    <3>1. i + 1 \notin DOMAIN req
      BY <1>1, <2>2
    <3> QED
      BY <2>2, <3>1 DEF Edge
  <2> QED
    BY <2>1, <2>2
<1>3. Edge(1) = Held.len /\ Edge(1) = req[1].from /\ Edge(2) = req[1].from + req[1].n
  <2>1. Edge(1 + 1) = req[1].from + req[1].n /\ 1 + 1 = 2
    BY <1>1 DEF Contiguous
  <2> QED
    BY <1>1, <2>1 DEF Contiguous, Edge
<1>4. Edge(1)' = Held'.len
  BY <1>1, <1>2, <1>3
<1>5. ASSUME NEW i \in DOMAIN req', req'[i].op = "write"
      PROVE  /\ req'[i].part = part' /\ req'[i].of = file'
             /\ Edge(i + 1)' = req'[i].from + req'[i].n /\ Edge(i + 1)' <= sent'
  <2>1. req'[i] = req[i + 1] /\ i + 1 \in DOMAIN req /\ i + 1 \in Nat \ {0}
    BY <1>1
  <2>2. Edge(i + 1)' = Edge((i + 1) + 1)
    <3>1. PICK j \in Nat \ {0} : j = i + 1
      BY <2>1
    <3>2. Edge(j)' = Edge(j + 1)
      BY <1>2
    <3> QED
      BY <3>1, <3>2 DEF Edge
  <2> QED
    BY <1>5, <2>1, <2>2 DEF Contiguous
<1> QED
  BY <1>4, <1>5 DEF Contiguous

LEMMA DataSteady ==
  ASSUME Inv, Steady, req # <<>>, BlWrite(Head(req), FALSE)
  PROVE  Steady'
<1> DEFINE r == Head(req)
<1>1. /\ r.op = "write" /\ mode = "dfu" /\ req' = Tail(req)
      /\ WriteIp(r, FALSE) \/ WriteFw(r, FALSE)
      /\ UNCHANGED <<host, hist, bounds, rsp, mode, valid, target, obj, saved, installed>>
  BY DEF BlWrite, Take
<1>2. HostTypes /\ LineTypes /\ BootTypes /\ FALSE \in BOOLEAN
  BY TypeParts DEF Inv
<1>3. /\ r \in Request /\ r = req[1] /\ 1 \in DOMAIN req /\ r.n > 0 /\ Len(req) \in Nat
      /\ \A i \in DOMAIN req' : i + 1 \in DOMAIN req /\ req'[i] = req[i + 1]
      /\ Len(req') = Len(req) - 1 /\ req' \in Seq(Request)
  BY <1>1, <1>2, TailOf, TakenRequest DEF LineTypes
<1> HIDE DEF r
<1>4. Bounded'
  <2>1. OnePage(prog') /\ OnePage(saved')
    BY <1>1, <1>2, <1>3, WrittenOnePage DEF Steady, Bounded, OnePage
  <2> QED
    BY <1>1, <2>1, TakenBounded DEF Steady
<1>5. ASSUME pc # "idle", ~hurt PROVE Quiet'
  <2>1. Quiet /\ Bounded
    BY <1>5 DEF Steady
  <2>2. pc \in {"write", "crc"} /\ rsp = <<>>
    <3>1. pc # "check"
      BY <1>1, <1>3, <2>1 DEF Quiet, Prompt
    <3>2. pc \in {"write", "crc"}
      BY <1>1, <1>2, <1>3, <1>5, <3>1 DEF HostTypes, Inv, Wired
    <3> QED
      BY <3>2 DEF Inv, Wired
  <2>3. Prompt'
    BY <1>1, <1>3, <2>1, <2>2 DEF Quiet, Prompt, New, host
  <2>4. Awake'
    <3>1. ASSUME pc = "crc", wait PROVE req' # <<>> /\ req'[Len(req')].op = "crc"
      <4>1. req[Len(req)].op = "crc"
        BY <2>1, <2>2, <3>1 DEF Quiet, Awake
      <4>2. Len(req) # 1 /\ Len(req) # 0
        BY <1>1, <1>2, <1>3, <4>1 DEF LineTypes
      <4>3. Len(req') \in DOMAIN req' /\ Len(req') + 1 = Len(req)
        BY <1>3, <4>2
      <4> QED
        BY <1>3, <4>1, <4>3
    <3> QED
      BY <1>1, <2>2, <3>1 DEF Awake, Inv, Hosted, host
  <2>5. ASSUME ~Doubtful PROVE Laid' /\ Contiguous'
    <3>1. Laid /\ Contiguous
      BY <2>1, <2>2, <2>5 DEF Quiet, Growing
    <3>2. /\ r.part = part /\ r.of = file /\ r.from = Held.len
          /\ r.from + r.n <= sent
      <4>1. Edge(1 + 1) = r.from + r.n /\ Edge(1 + 1) <= sent
        BY <1>1, <1>3, <3>1 DEF Contiguous
      <4>2. Edge(1) = r.from
        BY <1>1, <1>3 DEF Edge
      <4> QED
        BY <1>1, <1>3, <3>1, <4>1, <4>2 DEF Contiguous
    <3>3. Held.len + r.n <= SizeOf(part)
      <4>1. sent <= SizeOf(part)
        BY <1>2, <2>1, <2>2, <2>5, SizesOfFile DEF Bounded, Single, Inv, Hosted, HostTypes
      <4>2. r.from \in Nat /\ r.n \in Nat /\ sent \in Nat /\ SizeOf(part) \in Nat
        BY <1>2, <1>3, SizesOfFile DEF Request, HostTypes
      <4> QED
        BY <3>2, <4>1, <4>2
    <3>4. obj = part /\ (part = "fw" => valid)
      BY <1>1, <2>2 DEF Inv, Agreed
    <3>5. UNCHANGED <<part, file, sent>>
      BY <1>1 DEF host
    <3>6. Laid' /\ Held'.len = Held.len + r.n
      BY <1>1, <1>2, <1>3, <2>1, <3>1, <3>2, <3>3, <3>4, <3>5, WrittenLaid DEF Bounded
    <3>7. Contiguous'
      BY <1>1, <1>2, <3>1, <3>5, <3>6, StillContiguous DEF r
    <3> QED
      BY <3>6, <3>7
  <2>6. Growing'
    BY <1>1, <2>2, <2>5 DEF Growing, host, Doubtful
  <2> QED
    BY <2>3, <2>4, <2>6 DEF Quiet
<1> QED
  BY <1>1, <1>4, <1>5 DEF Steady, UndisturbedSucceeds, host, hist

LEMMA ExecIpSteady ==
  ASSUME Inv, Steady, req # <<>>, BlExecIp(Head(req))
  PROVE  Steady'
<1>1. /\ Head(req).op = "exec" /\ obj = "ip" /\ mode = "dfu" /\ req' = Tail(req)
      /\ UNCHANGED <<host, hist, bounds, mode, obj, flash, installed>>
      /\ Reply(Head(req), IpValid, Empty)
      /\ saved' \in {saved, prog} /\ prog' \in {prog, NoProgress}
  BY DEF BlExecIp, Take
<1>2. /\ HostTypes /\ LineTypes /\ BootTypes /\ Empty \in Content /\ IpValid \in BOOLEAN
  <2>1. IpValid \in BOOLEAN
    BY TypeParts, Zenon DEF IpValid, IpWhole, Inv, Flags
  <2> QED
    BY <2>1, TypeParts DEF Inv, Empty, Content
<1>3. pc \notin {"idle", "check"} => wait /\ Head(req).op = pc
  BY <1>1, <1>2, Replied
<1>4. pc \in {"idle", "check", "exec"}
  BY <1>1, <1>3
<1>5. Bounded'
  <2>1. OnePage(NoProgress)
    BY DfuAssumption DEF OnePage, NoProgress, Empty
  <2>2. OnePage(prog') /\ OnePage(saved')
    BY <1>1, <2>1 DEF Steady, Bounded
  <2> QED
    BY <1>1, <1>4, <2>2, TakenBounded DEF Steady
<1>6. ASSUME pc # "idle", ~hurt PROVE Quiet'
  <2>1. pc = "exec"
    <3>1. Head(req) = req[1] /\ 1 \in DOMAIN req
      BY <1>2, TailOf DEF LineTypes
    <3> QED
      BY <1>1, <1>4, <1>6, <3>1 DEF Steady, Quiet, Prompt
  <2>2. rsp = <<>> /\ part = "ip"
    <3>1. rsp = <<>>
      BY <1>1, <1>2, <2>1, HeadOfLine DEF Inv
    <3> QED
      BY <1>1, <2>1, <3>1 DEF Inv, Agreed
  <2>3. IpValid
    <3>1. Laid /\ Held.len = IpSize
      BY <1>6, <2>1, <2>2 DEF Steady, Quiet, Growing, Doubtful, SizeOf
    <3> QED
      BY <1>2, <2>2, <3>1, SizesOfFile DEF IpValid, IpWhole, Laid, Held, HostTypes
  <2> QED
    BY <1>1, <1>2, <1>6, <2>1, <2>3, ReplyQuiet DEF Steady
<1> QED
  BY <1>1, <1>5, <1>6 DEF Steady, UndisturbedSucceeds, host, hist

LEMMA ExecFwSteady ==
  ASSUME Inv, Steady, req # <<>>, BlExecFw(Head(req))
  PROVE  Steady'
<1>1. /\ Head(req).op = "exec" /\ obj = "fw" /\ mode = "dfu" /\ req' = Tail(req)
      /\ UNCHANGED <<host, hist, bounds, valid, target, obj, flash>>
      /\ \/ /\ ~ExecutesFw \/ prog.img.len # FwSize
            /\ Reply(Head(req), ExecutesFw, Empty)
            /\ \/ ExecutesFw /\ prog' = [prog EXCEPT !.objSize = 0, !.last = prog.img]
               \/ ~ExecutesFw /\ prog' = prog
            /\ UNCHANGED <<mode, saved, installed>>
         \/ /\ ExecutesFw /\ prog.img.len = FwSize
            /\ Reply(Head(req), HashOk, Empty)
            /\ prog' = NoProgress /\ saved' = NoProgress /\ mode' = "app"
  BY DEF BlExecFw, Take
<1>2. /\ HostTypes /\ LineTypes /\ BootTypes /\ Empty \in Content
      /\ ExecutesFw \in BOOLEAN /\ HashOk \in BOOLEAN
  <2>1. ExecutesFw \in BOOLEAN
    BY DEF ExecutesFw
  <2>2. HashOk \in BOOLEAN
    BY DEF HashOk
  <2> QED
    BY <2>1, <2>2, TypeParts DEF Inv, Empty, Content
<1>3. PICK ok \in BOOLEAN : Reply(Head(req), ok, Empty)
  BY <1>1, <1>2
<1>4. pc \notin {"idle", "check"} => wait /\ Head(req).op = pc
  BY <1>1, <1>2, <1>3, Replied
<1>5. pc \in {"idle", "check", "exec"}
  BY <1>1, <1>4
<1>6. prog \in Progress /\ OnePage(prog) /\ OnePage(saved)
  BY <1>2 DEF BootTypes, Steady, Bounded
<1>7. Bounded'
  <2>1. OnePage(NoProgress)
    BY DfuAssumption DEF OnePage, NoProgress, Empty
  <2>2. ASSUME ExecutesFw, prog.img.len # FwSize,
               prog' = [prog EXCEPT !.objSize = 0, !.last = prog.img]
        PROVE  OnePage(prog')
    <3>1. prog.img.len = 0
      BY <1>2, <1>6, <2>2, ProgressParts, SizesOfFile DEF OnePage, ExecutesFw
    <3>2. /\ prog'.objSize = 0 /\ prog'.last = prog.img /\ prog'.img = prog.img
          /\ prog'.cmd = prog.cmd /\ prog'.cmdSize = prog.cmdSize
      BY <1>6, <2>2 DEF Progress
    <3> QED
      BY <1>6, <3>1, <3>2 DEF OnePage
  <2>3. OnePage(prog') /\ OnePage(saved')
    BY <1>1, <1>6, <2>1, <2>2
  <2> QED
    BY <1>1, <1>5, <2>3, TakenBounded DEF Steady
<1>8. ASSUME pc # "idle", ~hurt PROVE Quiet'
  <2>1. pc = "exec"
    <3>1. Head(req) = req[1] /\ 1 \in DOMAIN req
      BY <1>2, TailOf DEF LineTypes
    <3> QED
      BY <1>1, <1>5, <1>8, <3>1 DEF Steady, Quiet, Prompt
  <2>2. rsp = <<>> /\ part = "fw" /\ target = file
    <3>1. rsp = <<>>
      BY <1>1, <1>2, <2>1, HeadOfLine DEF Inv
    <3> QED
      BY <1>1, <2>1, <3>1 DEF Inv, Agreed
  <2>3. Laid /\ Held.len = FwSize
    BY <1>8, <2>1, <2>2 DEF Steady, Bounded, Single, Quiet, Growing, Doubtful, SizeOf
  <2>4. ExecutesFw /\ prog.img.len = FwSize
    BY <1>2, <1>6, <2>2, <2>3, SizesOfFile DEF ExecutesFw, Laid, Held, OnePage
  <2>5. HashOk
    <3>1. \A k \in Units : k \in 1 .. FwSize /\ k <= FwSize
      BY DfuAssumption DEF Units
    <3> QED
      BY <2>2, <2>3, <3>1 DEF HashOk, Laid, Held, Units
  <2>6. Reply(Head(req), HashOk, Empty)
    BY <1>1, <2>4
  <2> QED
    BY <1>1, <1>2, <1>8, <2>1, <2>2, <2>5, <2>6, ReplyQuiet DEF Steady
<1> QED
  BY <1>1, <1>7, <1>8 DEF Steady, UndisturbedSucceeds, host, hist

LEMMA HandleSteady ==
  ASSUME Inv, Steady, FwSize < PageSize, BlHandle
  PROVE  Steady'
<1>1. req # <<>>
  BY DEF BlHandle
<1> QED
  BY <1>1, SetupSteady, SelectSteady, CrcSteady, CreateIpSteady, CreateFwSteady, DataSteady,
     ExecIpSteady, ExecFwSteady DEF BlHandle

-----------------------------------------------------------------------------
(* Restarts of the nRF52, and losses.                                        *)

LEMMA DeafSteady ==
  ASSUME Inv, Steady, BlDeaf
  PROVE  Steady'
<1>1. /\ mode = "app" /\ req # <<>> /\ req' = Tail(req)
      /\ UNCHANGED <<host, rsp, boot, hist, bounds>>
  BY DEF BlDeaf
<1>2. LineTypes
  BY TypeParts DEF Inv
<1>3. Bounded'
  BY <1>1, TakenBounded DEF Steady, Bounded, OnePage, boot
<1>4. pc # "idle" => hurt
  <2>1. SUFFICES ASSUME pc # "idle", ~hurt PROVE FALSE
    OBVIOUS
  <2>2. pc = "exec" /\ rsp # <<>>
    BY <1>1, <2>1 DEF Steady, Quiet, Awake
  <2>3. Len(req) + Len(rsp) <= 1
    BY <1>1, <2>2 DEF Inv, Wired
  <2>4. /\ Len(req) \in Nat \ {0} /\ Len(rsp) \in Nat /\ (Len(rsp) = 0 => rsp = <<>>)
    BY <1>1, <1>2, TailOf DEF LineTypes
  <2> QED
    BY <2>2, <2>3, <2>4
<1> QED
  BY <1>1, <1>3, <1>4 DEF Steady, UndisturbedSucceeds, host, hist

LEMMA ResetSteady ==
  ASSUME Inv, Steady, BlReset
  PROVE  Steady'
<1>1. /\ UNCHANGED <<host, line, prog, saved, result>>
      /\ (pc = "idle" /\ hurt' = hurt) \/ hurt' = TRUE
  BY DEF BlReset
<1>2. Bounded'
  BY <1>1 DEF Steady, Bounded, OnePage, Single, Announced, Answered, host, line, Doubtful, SizeOf
<1> QED
  BY <1>1, <1>2 DEF Steady, UndisturbedSucceeds, host

LEMMA LoseRequestSteady ==
  ASSUME Inv, Steady, LoseRequest
  PROVE  Steady'
<1>1. hurt' /\ req # <<>> /\ req' = Tail(req) /\ UNCHANGED <<host, rsp, boot, result>>
  BY DEF LoseRequest, Fault
<1>2. Bounded'
  BY <1>1, TakenBounded DEF Steady, Bounded, OnePage, boot
<1> QED
  BY <1>1, <1>2 DEF Steady, UndisturbedSucceeds

LEMMA LoseResponseSteady ==
  ASSUME Inv, Steady, LoseResponse
  PROVE  Steady'
<1>1. hurt' /\ rsp # <<>> /\ rsp' = Tail(rsp) /\ UNCHANGED <<host, req, boot, result>>
  BY DEF LoseResponse, Fault
<1>2. LineTypes
  BY TypeParts DEF Inv
<1>3. pc = "crc" /\ wait => rsp' = <<>>
  <2>1. pc = "crc" /\ wait => Len(rsp) <= 1
    BY DEF Inv, Wired
  <2>2. Len(rsp) \in Nat /\ Len(rsp) # 0 /\ (Len(rsp) = 1 => Tail(rsp) = <<>>)
    BY <1>1, <1>2, TailOf DEF LineTypes
  <2> QED
    BY <1>1, <2>1, <2>2
<1>4. Bounded'
  BY <1>1, <1>3 DEF Steady, Bounded, OnePage, Single, Announced, Answered, host, boot, Doubtful, SizeOf
<1> QED
  BY <1>1, <1>4 DEF Steady, UndisturbedSucceeds

LEMMA DamagedSteady ==
  ASSUME Inv, Steady, DamagedWrite
  PROVE  Steady'
<1>1. /\ hurt' /\ req # <<>> /\ req' = Tail(req) /\ UNCHANGED <<host, rsp, saved, result>>
      /\ WriteIp(Head(req), TRUE) \/ WriteFw(Head(req), TRUE)
  BY DEF DamagedWrite, Fault
<1>2. Head(req) \in Request /\ BootTypes /\ TRUE \in BOOLEAN
  BY <1>1, TakenRequest, TypeParts DEF Inv
<1>3. OnePage(prog') /\ OnePage(saved')
  BY <1>1, <1>2, WrittenOnePage DEF Steady, Bounded, OnePage
<1>4. Bounded'
  BY <1>1, <1>3, TakenBounded DEF Steady
<1> QED
  BY <1>1, <1>4 DEF Steady, UndisturbedSucceeds

\* An attempt during which nothing is lost, damaged or late and neither chip restarts
\* does not fail, whatever the attempts before it left in the bootloader's RAM and flash:
\* for images smaller than the page of one data object, and a bootloader that answers
\* within the host's second.  An attempt on a larger image fails if it resumes, in the same
\* session of the bootloader, one that executed a page; only an attempt in the timer's
\* interrupt (Nested) finds such a session.
THEOREM UndisturbedOnePage ==
  ASSUME FwSize < PageSize, Slow = FALSE
  PROVE  Spec => []UndisturbedSucceeds
<1>1. Inv /\ Steady /\ [Next]_vars => Steady'
  <2> SUFFICES ASSUME Inv, Steady, [Next]_vars PROVE Steady'
    OBVIOUS
  <2>1. CASE Next
    BY <2>1, ThreadSteady, TimerSteady, DeafTimerSteady, SendSteady, WriteSteady, ReceiveSteady,
       TimeoutSteady, CrashSteady, HandleSteady, DeafSteady, ResetSteady, LoseRequestSteady,
       LoseResponseSteady, DamagedSteady DEF Next
  <2>2. CASE UNCHANGED vars
    <3>1. UNCHANGED <<host, line, boot, hist>>
      BY <2>2 DEF vars
    <3>2. Bounded'
      BY <3>1 DEF Steady, Bounded, OnePage, Single, Announced, Answered, host, line, boot,
         Doubtful, SizeOf
    <3>3. ASSUME Quiet PROVE Quiet'
      <4>1. Prompt' /\ Awake'
        BY <3>1, <3>3 DEF Quiet, Prompt, Awake, New, host, line, boot
      <4>2. Growing'
        BY <3>1, <3>3 DEF Quiet, Growing, Laid, Held, Contiguous, Edge, Doubtful, SizeOf,
           host, line, boot
      <4> QED
        BY <4>1, <4>2 DEF Quiet
    <3> QED
      BY <3>1, <3>2, <3>3 DEF Steady, UndisturbedSucceeds, host, hist
  <2> QED
    BY <2>1, <2>2
<1>2. Steady => UndisturbedSucceeds
  BY DEF Steady
<1> QED
  BY <1>1, <1>2, InitSteady, Invariant, PTL DEF Spec
=============================================================================

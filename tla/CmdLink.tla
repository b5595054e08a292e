------------------------------ MODULE CmdLink ------------------------------
(***************************************************************************)
(* The command channel of the nRF91 (AppCmd) and the nRF52 at the other    *)
(* end of the wire.  The nRF52 runs the same protocol (its app_cmd.c): it  *)
(* is reduced here to one exchange at a time, as a peer that asks, waits,  *)
(* gives up when its timer fires, and answers what it is asked.            *)
(*                                                                         *)
(* Frames to the nRF91 cross the line unit by unit, because that is how    *)
(* the nRF91 parses them; frames to the nRF52 arrive when the transmit     *)
(* fifo has drained.                                                       *)
(***************************************************************************)
EXTENDS AppCmd, FiniteSets

CONSTANTS
  MaxPresses,  \* times the button is pressed
  MaxLost,     \* units a lossy line may lose (interrupts off while a button is debounced)
  Links        \* the kinds of link to be checked

\* polite: neither side starts an exchange while the other is in one.  Otherwise
\* exchanges collide; on a lossy link also units are lost, and serving a request may
\* outlast the peer's timer (a page erase).
Kinds == {"polite", "prompt", "lossy"}

ASSUME LinkAssumption == MaxPresses \in Nat /\ MaxLost \in Nat /\ Links \subseteq Kinds

VARIABLES
  link,     \* the kind of this link
  line,     \* units on their way to the nRF91
  peer,     \* what the nRF52 does: role and the op code it asks or serves
  outcome,  \* how the last request of the nRF52 ended
  lost, presses

linkVars == <<link, line, peer, outcome, lost, presses>>
allVars == <<vars, linkVars>>

PeerIdle == [role |-> "IDLE", op |-> Blank]

\* The types of the variables this module adds.
LinkTypeOK ==
  /\ link \in Kinds
  /\ line \in Seq(Unit)
  /\ peer \in {PeerIdle} \cup [role : {"HOST", "SLAVE"}, op : Ops]
  /\ outcome \in {"none", "rsp", "timeout"}
  /\ lost \in 0 .. MaxLost /\ presses \in 0 .. MaxPresses

LinkInit ==
  /\ Init /\ link \in Links
  /\ line = <<>> /\ peer = PeerIdle /\ outcome = "none"
  /\ lost = 0 /\ presses = 0

\* A frame on the wire.
Units(f) == [k \in 1 .. f.size |-> [frame |-> f, at |-> k]]

-----------------------------------------------------------------------------
(* The line.                                                                *)

\* A unit reaches the nRF91, or falls off its receiver when the pool is full.
Deliver ==
  /\ line # <<>> /\ line' = Tail(line)
  /\ \/ UartRx(Head(line))
     \/ rxLen = Capacity /\ UNCHANGED vars
  /\ UNCHANGED <<link, peer, outcome, lost, presses>>

LoseUnit ==
  /\ line # <<>> /\ link = "lossy" /\ lost < MaxLost
  /\ line' = Tail(line) /\ lost' = lost + 1
  /\ UNCHANGED <<vars, link, peer, outcome, presses>>

-----------------------------------------------------------------------------
(* The nRF52.                                                               *)

\* Nothing is on the wire, in either direction.
Quiet == line = <<>> /\ fifo = <<>>

\* The work queue thread has nothing to do for the channel.
ThreadRests == pc = "idle" /\ ~wkReq /\ ~wkRsp

PeerRequest ==
  /\ peer = PeerIdle /\ line = <<>>
  /\ link = "polite" => mode = "IDLE" /\ ThreadRests
  /\ \E f \in Frame :
       /\ f.start = "req"
       /\ peer' = [role |-> "HOST", op |-> f.op] /\ line' = Units(f)
  /\ UNCHANGED <<vars, link, outcome, lost, presses>>

PeerAnswer ==
  /\ peer.role = "SLAVE" /\ line = <<>>
  /\ \E f \in Frame :
       /\ f.start = "rsp" /\ f.op = peer.op
       /\ line' = Units(f)
  /\ peer' = PeerIdle
  /\ UNCHANGED <<vars, link, outcome, lost, presses>>

\* The peer's timer outlasts the wire and the work queue; only the callback
\* that serves its request may take longer.
PeerTimeout ==
  /\ peer.role = "HOST" /\ Quiet
  /\ ThreadRests \/ (link = "lossy" /\ pc = "respCheck")
  /\ peer' = PeerIdle /\ outcome' = "timeout"
  /\ UNCHANGED <<vars, link, line, lost, presses>>

\* What the peer makes of a whole frame: a request is served when it is idle, a
\* response ends its wait, anything else is dropped.
PeerRx(f) ==
  CASE peer.role = "IDLE" /\ f.start = "req" ->
         peer' = [role |-> "SLAVE", op |-> f.op] /\ UNCHANGED outcome
    [] peer.role = "HOST" /\ f.start = "rsp" /\ f.op = peer.op ->
         peer' = PeerIdle /\ outcome' = "rsp"
    [] OTHER -> UNCHANGED <<peer, outcome>>

-----------------------------------------------------------------------------
(* The nRF91, with its transmissions reaching the peer.                     *)

LinkTxDone ==
  /\ UartTxDone
  /\ PeerRx(fifo[Len(fifo)].frame)
  /\ UNCHANGED <<link, line, lost, presses>>

\* The timer of the nRF91 outlasts the line and the peer's answer.
LinkRspTimeout ==
  /\ RspTimeout
  /\ line = <<>> /\ peer.role # "SLAVE"
  /\ UNCHANGED linkVars

Press ==
  /\ link = "polite" => peer = PeerIdle /\ line = <<>> /\ ThreadRests
  /\ presses < MaxPresses /\ presses' = presses + 1
  /\ \E o \in IsrOps : RequestFromIsr(o)
  /\ UNCHANGED <<link, line, peer, outcome, lost>>

LinkThread == Thread /\ UNCHANGED linkVars

LinkNext ==
  \/ Deliver \/ LoseUnit
  \/ PeerRequest \/ PeerAnswer \/ PeerTimeout
  \/ LinkTxDone \/ LinkRspTimeout \/ Press \/ LinkThread

\* Interrupts are taken, the work queue runs, the line delivers, the nRF52
\* answers and keeps asking.  A timer that runs fires: its guard only says that
\* it does not fire while what it waits for is on the way.
LinkFairness ==
  /\ WF_allVars(Deliver) /\ WF_allVars(LinkTxDone) /\ WF_allVars(LinkThread)
  /\ WF_allVars(PeerRequest) /\ WF_allVars(PeerAnswer)
  /\ SF_allVars(LinkRspTimeout) /\ SF_allVars(PeerTimeout)

LinkSpec == LinkInit /\ [][LinkNext]_allVars /\ LinkFairness

-----------------------------------------------------------------------------
(* Properties of a link whose two ends never start an exchange at once and  *)
(* whose line loses nothing.                                                *)

\* Every request of the nRF52 is answered before its timer fires.
PeerServed == link = "polite" => outcome # "timeout"

\* The nRF91's own requests end with a response.  rsp_cb_ping_app takes a timeout
\* to mean that the nRF52 is in its bootloader; here it runs its application.
NoFalseTimeout == link = "polite" /\ told # Blank => told.kind = "rsp"

\* Whoever asked is told: the response callback of the op code that was asked
\* runs, although the response waits in a pool the next frame will overwrite.
RequestConcludes == link = "polite" /\ asked # Blank ~> asked = Blank

\* The channel never wears out: again and again a response reaches the nRF52.
AlwaysServedAgain ==
  []<><<peer.role = "HOST" /\ peer' = PeerIdle /\ outcome' = "rsp">>_allVars

PoliteServedAgain == link = "polite" => AlwaysServedAgain

-----------------------------------------------------------------------------
(* Properties of any link.                                                  *)

\* The nRF91 stops being host, whatever is lost, late or sent at the same time.
HostConcludes == mode = "HOST" ~> mode # "HOST"
=============================================================================

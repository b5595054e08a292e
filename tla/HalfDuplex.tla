----------------------------- MODULE HalfDuplex -----------------------------
(***************************************************************************)
(* What the command channel promises its users, whatever the line does:    *)
(* exchanges one at a time, each of them host or slave from beginning to   *)
(* end, and a host exchange that always ends, with a response or with a    *)
(* timeout.  A slave exchange need not end: nothing times a request that   *)
(* stops half way.                                                         *)
(***************************************************************************)

VARIABLE phase

Phases == {"free",
           "asking", "waiting", "answered",          \* host
           "hearing", "serving", "answering"}        \* slave

Init == phase = "free"

Step(from, to) == phase = from /\ phase' = to

Ask      == Step("free", "asking")
Sent     == Step("asking", "waiting")
Receive  == Step("waiting", "answered")
TimeOut  == Step("waiting", "free")
Conclude == Step("answered", "free")

Hear     == Step("free", "hearing")
Refuse   == Step("hearing", "free")
Accept   == Step("hearing", "serving")
Answer   == Step("serving", "answering")
Answered == Step("answering", "free")

Next ==
  \/ Ask \/ Sent \/ Receive \/ TimeOut \/ Conclude
  \/ Hear \/ Refuse \/ Accept \/ Answer \/ Answered

Fairness ==
  /\ WF_phase(Sent) /\ WF_phase(Receive \/ TimeOut) /\ WF_phase(Conclude)
  /\ WF_phase(Answer) /\ WF_phase(Answered)

Spec == Init /\ [][Next]_phase /\ Fairness
=============================================================================

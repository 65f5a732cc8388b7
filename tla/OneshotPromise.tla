--------------------------- MODULE OneshotPromise ---------------------------
(***************************************************************************)
(* What a one-shot reply channel promises to its two ends.  The sender     *)
(* gives its only value away, or goes without one; the receiver obtains    *)
(* that value, learns that none will come, or goes first.  An `Ok` given   *)
(* to the sender means that the receiver was still there, a refusal means  *)
(* that it was not; the receiver never hears of a value that was not sent  *)
(* and never hears `Closed` of one that was.                               *)
(***************************************************************************)
VARIABLES sender,     \* "holds", then how it ended: "ok", "refused", "gone"
          receiver    \* "waits", then how it ended: "value", "closed", "gone"

vars == <<sender, receiver>>

TypeOK ==
    /\ sender \in {"holds", "ok", "refused", "gone"}
    /\ receiver \in {"waits", "value", "closed", "gone"}

Init == sender = "holds" /\ receiver = "waits"

SendOk      == sender = "holds" /\ receiver # "gone" /\ sender' = "ok" /\ UNCHANGED receiver
SendRefused == sender = "holds" /\ receiver = "gone" /\ sender' = "refused" /\ UNCHANGED receiver
SenderGoes  == sender = "holds" /\ sender' = "gone" /\ UNCHANGED receiver

ReceiveValue  == receiver = "waits" /\ sender = "ok" /\ receiver' = "value" /\ UNCHANGED sender
ReceiveClosed == receiver = "waits" /\ sender = "gone" /\ receiver' = "closed" /\ UNCHANGED sender
ReceiverGoes  == receiver = "waits" /\ receiver' = "gone" /\ UNCHANGED sender

Next == \/ SendOk \/ SendRefused \/ SenderGoes
        \/ ReceiveValue \/ ReceiveClosed \/ ReceiverGoes

Spec == Init /\ [][Next]_vars
=============================================================================

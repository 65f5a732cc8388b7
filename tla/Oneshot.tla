------------------------------ MODULE Oneshot -------------------------------
(***************************************************************************)
(* util/async_oneshot.rs: the channel that carries the answer of one       *)
(* request from the actor (OneshotSender, owned by the task that handles   *)
(* the message) to the requester (OneshotReceiver, polled by the request   *)
(* future, possibly on another thread).                                    *)
(*                                                                         *)
(* The two ends share one word of flag bits, a cell for the value and a    *)
(* cell for the receiver's waker.  Only the word is atomic: every atomic   *)
(* access is a step of its own and the cells are read and written between  *)
(* the steps.  The bit SEND and the sender's waker are left out: no code   *)
(* ever sets them.                                                         *)
(***************************************************************************)
CONSTANTS Wakers,     \* the wakers of the tasks that may poll the receiver
          NoWaker     \* the content of a cell no waker was written to

ASSUME OneshotAssumption == NoWaker \notin Wakers

VARIABLES state,      \* the bits set in Inner.state
          value,      \* the value cell: "uninit", "init", "moved" or, after
                      \* a read of a cell that holds no value, "garbage"
          recv,       \* the waker in the receiver's waker cell
          tx,         \* where the sender is in send() or in its Drop
          rx,         \* where the receiver is in poll() or in its Drop
          cx,         \* the waker of the receiver's latest poll
          woken       \* the wakers called since their task last polled

vars == <<state, value, recv, tx, rx, cx, woken>>

Bits == {"CLOSED", "RECV", "READY"}

TypeOK ==
    /\ state \subseteq Bits
    /\ value \in {"uninit", "init", "moved", "garbage"}
    /\ recv \in Wakers \cup {NoWaker}
    /\ tx \in {"holds", "written", "waking", "sent", "retracting", "refused",
               "closing", "closeWaking", "dropped"}
    /\ rx \in {"fresh", "registering", "parked", "received", "closed", "closing", "dropped"}
    /\ cx \in Wakers \cup {NoWaker}
    /\ woken \subseteq Wakers

Init ==
    /\ state = {} /\ value = "uninit" /\ recv = NoWaker
    /\ tx = "holds" /\ rx = "fresh" /\ cx = NoWaker /\ woken = {}

-----------------------------------------------------------------------------
(* A bitwise read of the value cell moves the value out of it. *)
TakeValue == value' = IF value = "init" THEN "moved" ELSE "garbage"

(* wake_by_ref on the receiver's waker cell.  While the receiver is writing *)
(* a waker there the read races with the write: it may find the old waker,  *)
(* the new one, or neither.                                                 *)
WakeReceiver ==
    IF rx = "registering"
    THEN \E W \in {{}, {recv} \ {NoWaker}, {cx}} : woken' = woken \cup W
    ELSE woken' = woken \cup ({recv} \ {NoWaker})

-----------------------------------------------------------------------------
(* Mutant: the bits are published before the cell is written.               *)
SendWriteLast ==
    /\ tx = "holds"
    /\ state' = state \cup {"READY"}
    /\ tx' = "written"
    /\ UNCHANGED <<value, recv, rx, cx, woken>>

(* The sender.  send() writes the cell, then publishes it with fetch_or and *)
(* looks at the bits that were set before.                                  *)
SendWrite ==
    /\ tx = "holds"
    /\ value' = "init"
    /\ tx' = "written"
    /\ UNCHANGED <<state, recv, rx, cx, woken>>

(* Mutants: the wrong bit is set; a receiver that is gone goes unnoticed.   *)
SendPublishWrongBit ==
    /\ tx = "written"
    /\ state' = state \cup {"SEND"}
    /\ tx' = IF "CLOSED" \in state THEN "retracting"
             ELSE IF "RECV" \in state THEN "waking" ELSE "sent"
    /\ UNCHANGED <<value, recv, rx, cx, woken>>

SendPublishUnseen ==
    /\ tx = "written"
    /\ state' = state \cup {"READY"}
    /\ tx' = IF "RECV" \in state THEN "waking" ELSE "sent"
    /\ UNCHANGED <<value, recv, rx, cx, woken>>

SendPublish ==
    /\ tx = "written"
    /\ state' = state \cup {"READY"}
    /\ tx' = IF "CLOSED" \in state THEN "retracting"
             ELSE IF "RECV" \in state THEN "waking" ELSE "sent"
    /\ UNCHANGED <<value, recv, rx, cx, woken>>

SendWake ==
    /\ tx = "waking"
    /\ WakeReceiver
    /\ tx' = "sent"
    /\ UNCHANGED <<state, value, recv, rx, cx>>

(* The receiver was gone: send() takes the value back and fails. *)
SendRetract ==
    /\ tx = "retracting"
    /\ TakeValue
    /\ tx' = "refused"
    /\ UNCHANGED <<state, recv, rx, cx, woken>>

(* Drop of a sender that sent nothing: a cancelled or finished handler. *)
SenderDrop ==
    /\ tx = "holds"
    /\ tx' = IF "CLOSED" \in state THEN "dropped" ELSE "closing"
    /\ UNCHANGED <<state, value, recv, rx, cx, woken>>

(* Mutant: the waiting receiver is not woken.                               *)
SenderCloseSilent ==
    /\ tx = "closing"
    /\ state' = state \cup {"CLOSED"}
    /\ tx' = "dropped"
    /\ UNCHANGED <<value, recv, rx, cx, woken>>

SenderClose ==
    /\ tx = "closing"
    /\ state' = state \cup {"CLOSED"}
    /\ tx' = IF "RECV" \in state THEN "closeWaking" ELSE "dropped"
    /\ UNCHANGED <<value, recv, rx, cx, woken>>

SenderCloseWake ==
    /\ tx = "closeWaking"
    /\ WakeReceiver
    /\ tx' = "dropped"
    /\ UNCHANGED <<state, value, recv, rx, cx>>

-----------------------------------------------------------------------------
(* The receiver.  handle_state on the bits s either resolves the future ... *)
Resolves(s) == s \cap {"READY", "CLOSED"} # {}

Resolve(s) ==
    \/ /\ "READY" \in s
       /\ TakeValue
       /\ rx' = "received"
    \/ /\ "READY" \notin s
       /\ "CLOSED" \in s
       /\ rx' = "closed"
       /\ UNCHANGED value

(* ... or leaves it pending.  poll() with the waker w first looks at the    *)
(* bits, then goes on to register w.                                        *)
Poll(w) ==
    /\ rx \in {"fresh", "parked"}
    /\ cx' = w
    /\ woken' = woken \ {w}
    /\ IF Resolves(state) THEN Resolve(state) ELSE rx' = "registering" /\ UNCHANGED value
    /\ UNCHANGED <<state, recv, tx>>

(* Mutant: no second look at the bits.                                      *)
PollRegisterBlind ==
    /\ rx = "registering"
    /\ recv' = cx
    /\ state' = state \cup {"RECV"}
    /\ rx' = "parked"
    /\ UNCHANGED <<value, tx, cx, woken>>

(* The end of set_recv, and the second look at the bits, those that were    *)
(* set before RECV.                                                         *)
PollRegister ==
    /\ rx = "registering"
    /\ recv' = cx
    /\ state' = state \cup {"RECV"}
    /\ IF Resolves(state) THEN Resolve(state) ELSE rx' = "parked" /\ UNCHANGED value
    /\ UNCHANGED <<tx, cx, woken>>

(* Drop of a receiver that has not resolved: a request that timed out or    *)
(* that its caller gave up.                                                 *)
ReceiverDrop ==
    /\ rx \in {"fresh", "parked"}
    /\ rx' = IF Resolves(state) THEN "dropped" ELSE "closing"
    /\ UNCHANGED <<state, value, recv, tx, cx, woken>>

ReceiverClose ==
    /\ rx = "closing"
    /\ state' = state \cup {"CLOSED"}
    /\ rx' = "dropped"
    /\ UNCHANGED <<value, recv, tx, cx, woken>>

-----------------------------------------------------------------------------
(* Steps of calls that have begun, which threads do not stop in ... *)
Sender   == SendPublish \/ SendWake \/ SendRetract \/ SenderClose \/ SenderCloseWake
Receiver == PollRegister \/ ReceiverClose

(* ... and calls made by the owner of either end. *)
Next == \/ SendWrite \/ SenderDrop \/ Sender
        \/ (\E w \in Wakers : Poll(w)) \/ ReceiverDrop \/ Receiver

(* Both ends have done all they can do. *)
Done == /\ tx \in {"sent", "refused", "dropped"}
        /\ rx \in {"received", "closed", "dropped"}

Spec == Init /\ [][Next \/ (Done /\ UNCHANGED vars)]_vars

(* Threads finish the calls they begin, and an executor polls a task whose  *)
(* waker was called.  Nobody has to send, drop, or poll for no reason.      *)
FairSpec == /\ Spec
            /\ WF_vars(Sender)
            /\ WF_vars(Receiver)
            /\ \A w \in Wakers : WF_vars(w \in woken /\ w = cx /\ Poll(w))

-----------------------------------------------------------------------------
(* No end ever reads the value cell before it was written nor after the     *)
(* other end, or itself, moved the value out of it (the unsafe reads in     *)
(* take_value, reached from poll, from its second look, and from send).     *)
ValueReadOnce == value # "garbage"

(* A receiver that returned Pending with an answer or a closure already     *)
(* published has had the waker of its latest poll called, or the sender is  *)
(* about to call it: no order of poll, send and drop loses the wakeup.      *)
NoLostWakeup ==
    rx = "parked" /\ Resolves(state) =>
        \/ cx \in woken
        \/ tx \in {"waking", "closeWaking"} /\ recv = cx

(* The implementation keeps the promise of a one-shot channel: what send    *)
(* returned and what the receiver saw agree.                                *)
Promise == INSTANCE OneshotPromise WITH
    sender   <- CASE tx \in {"holds", "written", "closing"} -> "holds"
                  [] tx \in {"waking", "sent"} -> "ok"
                  [] tx \in {"retracting", "refused"} -> "refused"
                  [] OTHER -> "gone",
    receiver <- CASE rx = "received" -> "value"
                  [] rx = "closed" -> "closed"
                  [] rx = "dropped" -> "gone"
                  [] OTHER -> "waits"

(* Every order of calls keeps the promise.                                  *)
PromiseKept == Promise!Spec

(* A receiver that waits when the sender sends or drops resolves, or is     *)
(* dropped by its owner, without being polled for no reason.                *)
Answered == (rx = "parked" /\ tx # "holds") ~> rx \in {"received", "closed", "dropped"}

(* A value that was sent is taken by one of the ends.  Neither takes it     *)
(* when the receiver goes after READY was set, and then nobody drops it:    *)
(* Inner's Drop drops the wakers alone.                                     *)
ValueTaken == Done => value # "init"

(* The waker cell is never read while it is being written: the comment of   *)
(* Inner::recv says that checking the state is enough to read the cell.     *)
NoWakerRace == ~(rx = "registering" /\ tx \in {"waking", "closeWaking"})
=============================================================================

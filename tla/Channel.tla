------------------------------ MODULE Channel -------------------------------
(***************************************************************************)
(* util/async_channel/mod.rs: the bounded channel that is an actor's       *)
(* mailbox.  Any number of senders and receivers share an unbounded queue, *)
(* a counter of the slots in use and two events, one for senders waiting   *)
(* for a slot and one for receivers waiting for a message.                 *)
(*                                                                         *)
(* Every atomic access of the code is a step here, so that calls of        *)
(* different threads interleave; with SingleThread a poll runs to its end  *)
(* before another starts, as on a current-thread executor.  Messages are   *)
(* counted, not told apart.  An event is the set of its listeners          *)
(* (ListenerSet): which one is the first to be notified is left open.      *)
(***************************************************************************)
EXTENDS Integers, FiniteSets, ListenerSet

CONSTANTS
    Senders,        \* owners of a Sender, each with at most one SendFuture
    Receivers,      \* owners of a Receiver
    Closers,        \* callers of close: Sender::close, Receiver::close, or the
                    \* Drop of the last Sender
    Cap,            \* the capacity of the channel
    Word,           \* the number of values of a usize
    MaxSends,       \* bound: sends that one sender begins
    DoSends,        \* whether senders use do_send as well as send
    Canceling,      \* whether a pending SendFuture may be dropped
    SingleThread    \* whether all tasks run on one thread

Procs == Senders \cup Receivers \cup Closers

ASSUME CapAssumption == Cap \in Nat \ {0}
ASSUME WordAssumption == Word \in Nat /\ Word > Cap
ASSUME SendsAssumption == MaxSends \in Nat
ASSUME FinitenessAssumption == IsFiniteSet(Senders) /\ IsFiniteSet(Receivers)
ASSUME ProcsAssumption == /\ Senders \cap Receivers = {}
                          /\ Closers \cap (Senders \cup Receivers) = {}
ASSUME FlagsAssumption == {DoSends, Canceling, SingleThread} \subseteq BOOLEAN

VARIABLES
    queued,     \* messages in the queue
    closed,     \* whether the queue is closed
    in_queue,   \* the counter of slots in use, modulo Word
    ear,        \* each task's listener: "none", "waiting" or "notified"
    pc,         \* where each process is in its call
    seen,       \* each SendFuture's local copy of in_queue
    sends,      \* sends each sender has begun
    doSent      \* history: whether a do_send has begun

vars == <<queued, closed, in_queue, ear, pc, seen, sends, doSent>>

SenderPlaces ==
    {"idle", "load", "check", "push", "wakeStream", "wakeSend", "finish", "parked", "doPush", "doWake"}
ReceiverPlaces ==
    {"idle", "listening", "try", "listen", "dequeue", "wakeSend", "got", "parked", "ended"}
CloserPlaces == {"idle", "closeSend", "closeStream", "ended"}

Ears == [Senders \cup Receivers -> {"none", "waiting", "notified"}]

TypeOK ==
    /\ queued \in Nat
    /\ closed \in BOOLEAN
    /\ in_queue \in 0..(Word - 1)
    /\ ear \in Ears
    /\ pc \in [Procs -> SenderPlaces \cup ReceiverPlaces \cup CloserPlaces]
    /\ \A s \in Senders : pc[s] \in SenderPlaces
    /\ \A r \in Receivers : pc[r] \in ReceiverPlaces
    /\ \A c \in Closers : pc[c] \in CloserPlaces
    /\ seen \in [Senders -> 0..(Word - 1)]
    /\ sends \in [Senders -> 0..MaxSends]
    /\ doSent \in BOOLEAN

Init ==
    /\ queued = 0 /\ closed = FALSE /\ in_queue = 0
    /\ ear = [p \in Senders \cup Receivers |-> "none"]
    /\ pc = [p \in Procs |-> "idle"]
    /\ seen = [s \in Senders |-> 0]
    /\ sends = [s \in Senders |-> 0] /\ doSent = FALSE

-----------------------------------------------------------------------------
(* A process between two polls or calls. *)
Resting(p) == pc[p] \in {"idle", "parked", "ended"}

(* On one thread nobody else is in the middle of a call. *)
Runs(p) == SingleThread => \A q \in Procs \ {p} : Resting(q)

At(p, place)   == pc[p] = place /\ Runs(p)
Goto(p, place) == pc' = [pc EXCEPT ![p] = place]

(* Mutant: the notification is dropped with the listener.                   *)
DropListenerOnly(p, P) == ear' = [ear EXCEPT ![p] = "none"]

(* Dropping p's listener hands an unused notification on to another one of  *)
(* the event's listeners P.                                                 *)
DropListener(p, P) ==
    LET rest == [ear EXCEPT ![p] = "none"] IN
    ear' \in IF ear[p] = "notified" THEN OneNotified(P, rest) ELSE {rest}

-----------------------------------------------------------------------------
(* SendFuture::poll.  The future starts, or is polled again: because its    *)
(* listener was notified, or for no reason.  It reads in_queue once.        *)
SendStart(s) ==
    /\ At(s, "idle") /\ sends[s] < MaxSends
    /\ sends' = [sends EXCEPT ![s] = @ + 1]
    /\ Goto(s, "load")
    /\ UNCHANGED <<queued, closed, in_queue, ear, seen, doSent>>

SendRepoll(s) ==
    /\ At(s, "parked")
    /\ Goto(s, "load")
    /\ UNCHANGED <<queued, closed, in_queue, ear, seen, sends, doSent>>

SendLoad(s) ==
    /\ At(s, "load")
    /\ seen' = [seen EXCEPT ![s] = in_queue]
    /\ Goto(s, "check")
    /\ UNCHANGED <<queued, closed, in_queue, ear, sends, doSent>>

(* Mutants: a store instead of a compare_exchange; an off-by-one.           *)
SendReserveStore(s) ==
    /\ At(s, "check") /\ seen[s] < Cap
    /\ in_queue' = seen[s] + 1 /\ Goto(s, "push")
    /\ UNCHANGED <<queued, closed, ear, seen, sends, doSent>>

SendReserveOneMore(s) ==
    /\ At(s, "check") /\ seen[s] <= Cap
    /\ IF in_queue = seen[s]
       THEN in_queue' = in_queue + 1 /\ Goto(s, "push") /\ UNCHANGED seen
       ELSE seen' = [seen EXCEPT ![s] = in_queue] /\ UNCHANGED <<in_queue, pc>>
    /\ UNCHANGED <<queued, closed, ear, sends, doSent>>

(* The compare_exchange takes a slot, or fails and brings the fresh value.  *)
SendReserve(s) ==
    /\ At(s, "check") /\ seen[s] < Cap
    /\ IF in_queue = seen[s]
       THEN in_queue' = in_queue + 1 /\ Goto(s, "push") /\ UNCHANGED seen
       ELSE seen' = [seen EXCEPT ![s] = in_queue] /\ UNCHANGED <<in_queue, pc>>
    /\ UNCHANGED <<queued, closed, ear, sends, doSent>>

(* No slot: listen, or poll the listener.  The loop goes on with the value  *)
(* of in_queue it already has.                                              *)
SendListen(s) ==
    /\ At(s, "check") /\ seen[s] >= Cap /\ ear[s] = "none"
    /\ ear' = [ear EXCEPT ![s] = "waiting"]
    /\ UNCHANGED <<queued, closed, in_queue, pc, seen, sends, doSent>>

SendAwait(s) ==
    /\ At(s, "check") /\ seen[s] >= Cap /\ ear[s] # "none"
    /\ IF ear[s] = "notified"
       THEN ear' = [ear EXCEPT ![s] = "none"] /\ UNCHANGED pc
       ELSE Goto(s, "parked") /\ UNCHANGED ear
    /\ UNCHANGED <<queued, closed, in_queue, seen, sends, doSent>>

(* The push of the slot's owner; a closed queue refuses it.                 *)
SendPush(s) ==
    /\ At(s, "push")
    /\ IF closed
       THEN Goto(s, "finish") /\ UNCHANGED queued
       ELSE Goto(s, "wakeStream") /\ queued' = queued + 1
    /\ UNCHANGED <<closed, in_queue, ear, seen, sends, doSent>>

(* Mutant: the wrong event is notified.                                     *)
SendWakeStreamSenders(s) ==
    /\ At(s, "wakeStream")
    /\ ear' = AllNotified(Senders, ear)
    /\ Goto(s, IF seen[s] + 1 = Cap THEN "finish" ELSE "wakeSend")
    /\ UNCHANGED <<queued, closed, in_queue, seen, sends, doSent>>

SendWakeStream(s) ==
    /\ At(s, "wakeStream")
    /\ ear' = AllNotified(Receivers, ear)
    /\ Goto(s, IF seen[s] + 1 = Cap THEN "finish" ELSE "wakeSend")
    /\ UNCHANGED <<queued, closed, in_queue, seen, sends, doSent>>

SendWakeSend(s) ==
    /\ At(s, "wakeSend")
    /\ ear' \in OneNotified(Senders, ear)
    /\ Goto(s, "finish")
    /\ UNCHANGED <<queued, closed, in_queue, seen, sends, doSent>>

(* The resolved future, or a pending one, is dropped with its listener.     *)
SendFinish(s) ==
    /\ At(s, "finish")
    /\ DropListener(s, Senders)
    /\ Goto(s, "idle")
    /\ UNCHANGED <<queued, closed, in_queue, seen, sends, doSent>>

SendCancel(s) ==
    /\ Canceling /\ At(s, "parked")
    /\ DropListener(s, Senders)
    /\ Goto(s, "idle")
    /\ UNCHANGED <<queued, closed, in_queue, seen, sends, doSent>>

(* Sender::do_send: a push that takes no slot.                              *)
DoSendStart(s) ==
    /\ DoSends /\ At(s, "idle") /\ sends[s] < MaxSends
    /\ sends' = [sends EXCEPT ![s] = @ + 1] /\ doSent' = TRUE
    /\ Goto(s, "doPush")
    /\ UNCHANGED <<queued, closed, in_queue, ear, seen>>

DoSendPush(s) ==
    /\ At(s, "doPush")
    /\ IF closed
       THEN Goto(s, "idle") /\ UNCHANGED queued
       ELSE Goto(s, "doWake") /\ queued' = queued + 1
    /\ UNCHANGED <<closed, in_queue, ear, seen, sends, doSent>>

DoSendWake(s) ==
    /\ At(s, "doWake")
    /\ ear' = AllNotified(Receivers, ear)
    /\ Goto(s, "idle")
    /\ UNCHANGED <<queued, closed, in_queue, seen, sends, doSent>>

-----------------------------------------------------------------------------
(* Receiver::poll_next: a listener left by the previous poll comes first.   *)
RecvStart(r) ==
    /\ At(r, "idle") \/ At(r, "parked")
    /\ Goto(r, IF ear[r] = "none" THEN "try" ELSE "listening")
    /\ UNCHANGED <<queued, closed, in_queue, ear, seen, sends, doSent>>

RecvAwait(r) ==
    /\ At(r, "listening")
    /\ IF ear[r] = "notified"
       THEN ear' = [ear EXCEPT ![r] = "none"] /\ Goto(r, "try")
       ELSE Goto(r, "parked") /\ UNCHANGED ear
    /\ UNCHANGED <<queued, closed, in_queue, seen, sends, doSent>>

(* Mutant: a pop that does not look whether there is a message.             *)
RecvPopAny(r) ==
    /\ At(r, "try")
    /\ queued' = queued - 1
    /\ Goto(r, "dequeue")
    /\ UNCHANGED <<closed, in_queue, ear, seen, sends, doSent>>

(* try_recv: pop, then give the slot back and notify a sender.              *)
RecvPop(r) ==
    /\ At(r, "try") /\ queued > 0
    /\ queued' = queued - 1
    /\ Goto(r, "dequeue")
    /\ UNCHANGED <<closed, in_queue, ear, seen, sends, doSent>>

RecvEmpty(r) ==
    /\ At(r, "try") /\ queued = 0 /\ ~closed
    /\ Goto(r, IF ear[r] = "none" THEN "listen" ELSE "listening")
    /\ UNCHANGED <<queued, closed, in_queue, ear, seen, sends, doSent>>

RecvClosed(r) ==
    /\ At(r, "try") /\ queued = 0 /\ closed
    /\ DropListener(r, Receivers)
    /\ Goto(r, "ended")
    /\ UNCHANGED <<queued, closed, in_queue, seen, sends, doSent>>

(* Mutant: no second look at the queue.                                     *)
RecvListenBlind(r) ==
    /\ At(r, "listen")
    /\ ear' = [ear EXCEPT ![r] = "waiting"]
    /\ Goto(r, "listening")
    /\ UNCHANGED <<queued, closed, in_queue, seen, sends, doSent>>

RecvListen(r) ==
    /\ At(r, "listen")
    /\ ear' = [ear EXCEPT ![r] = "waiting"]
    /\ Goto(r, "try")
    /\ UNCHANGED <<queued, closed, in_queue, seen, sends, doSent>>

(* Mutant: fetch_sub taken for the value after the subtraction.             *)
RecvDequeueAfter(r) ==
    /\ At(r, "dequeue")
    /\ in_queue' = IF in_queue = 0 THEN Word - 1 ELSE in_queue - 1
    /\ Goto(r, IF Cap > in_queue THEN "wakeSend" ELSE "got")
    /\ UNCHANGED <<queued, closed, ear, seen, sends, doSent>>

RecvDequeue(r) ==
    /\ At(r, "dequeue")
    /\ in_queue' = IF in_queue = 0 THEN Word - 1 ELSE in_queue - 1
    /\ Goto(r, IF Cap >= in_queue THEN "wakeSend" ELSE "got")
    /\ UNCHANGED <<queued, closed, ear, seen, sends, doSent>>

RecvWakeSend(r) ==
    /\ At(r, "wakeSend")
    /\ ear' \in OneNotified(Senders, ear)
    /\ Goto(r, "got")
    /\ UNCHANGED <<queued, closed, in_queue, seen, sends, doSent>>

RecvGot(r) ==
    /\ At(r, "got")
    /\ DropListener(r, Receivers)
    /\ Goto(r, "idle")
    /\ UNCHANGED <<queued, closed, in_queue, seen, sends, doSent>>

-----------------------------------------------------------------------------
(* Channel::close: only the call that closes the queue notifies.            *)
Close(c) ==
    /\ At(c, "idle")
    /\ closed' = TRUE
    /\ Goto(c, IF closed THEN "ended" ELSE "closeSend")
    /\ UNCHANGED <<queued, in_queue, ear, seen, sends, doSent>>

CloseWakeSend(c) ==
    /\ At(c, "closeSend")
    /\ ear' = AllNotified(Senders, ear)
    /\ Goto(c, "closeStream")
    /\ UNCHANGED <<queued, closed, in_queue, seen, sends, doSent>>

CloseWakeStream(c) ==
    /\ At(c, "closeStream")
    /\ ear' = AllNotified(Receivers, ear)
    /\ Goto(c, "ended")
    /\ UNCHANGED <<queued, closed, in_queue, seen, sends, doSent>>

-----------------------------------------------------------------------------
(* The rest of a call that has begun. *)
SenderStep(s) ==
    \/ SendLoad(s) \/ SendReserve(s) \/ SendListen(s) \/ SendAwait(s)
    \/ SendPush(s) \/ SendWakeStream(s) \/ SendWakeSend(s) \/ SendFinish(s)
    \/ DoSendPush(s) \/ DoSendWake(s)

ReceiverStep(r) ==
    \/ RecvAwait(r) \/ RecvPop(r) \/ RecvEmpty(r) \/ RecvClosed(r) \/ RecvListen(r)
    \/ RecvDequeue(r) \/ RecvWakeSend(r) \/ RecvGot(r)

CloserStep(c) == CloseWakeSend(c) \/ CloseWakeStream(c)

Next ==
    \/ \E s \in Senders : \/ SendStart(s) \/ SendRepoll(s) \/ SendCancel(s) \/ DoSendStart(s)
                          \/ SenderStep(s)
    \/ \E r \in Receivers : RecvStart(r) \/ ReceiverStep(r)
    \/ \E c \in Closers : Close(c) \/ CloserStep(c)

Spec == Init /\ [][Next]_vars

(* Calls run to their end.  A task whose listener was notified is polled    *)
(* again, and so is the actor that just received: the executor's queue of   *)
(* woken tasks is first-in first-out, so that it gets to them whatever it   *)
(* polls in between (strong fairness, since on one thread a poll of another *)
(* task disables theirs for a while).  Nobody has to send, cancel, close or *)
(* poll for no reason.                                                      *)
Fairness ==
    /\ \A s \in Senders : WF_vars(SenderStep(s)) /\ SF_vars(ear[s] = "notified" /\ SendRepoll(s))
    /\ \A r \in Receivers : /\ WF_vars(ReceiverStep(r))
                            /\ SF_vars((pc[r] = "idle" \/ ear[r] = "notified") /\ RecvStart(r))
    /\ \A c \in Closers : WF_vars(CloserStep(c))

FairSpec == Spec /\ Fairness

-----------------------------------------------------------------------------
(* A receiver that went to wait while the queue holds a message or is       *)
(* closed has been notified, or the process that pushed or closed is still  *)
(* to notify it: its first listen, its second look at the queue and the     *)
(* push never lose the wakeup, whatever the interleaving.                   *)
ReceiverNotStranded ==
    \A r \in Receivers :
        pc[r] = "parked" /\ ear[r] = "waiting" /\ (queued > 0 \/ closed) =>
            \/ \E s \in Senders : pc[s] \in {"wakeStream", "doWake"}
            \/ \E c \in Closers : pc[c] \in {"closeSend", "closeStream"}

Busy(P, place) == Cardinality({p \in P : pc[p] = place})

(* The counter counts the messages in the queue, the slots of pushes that   *)
(* have not happened yet and the slots of pops not yet given back, as long  *)
(* as nobody used do_send and the channel is open.                          *)
SlotsAccounted ==
    ~doSent /\ ~closed =>
        in_queue = queued + Busy(Senders, "push") + Busy(Receivers, "dequeue")

(* Until the first do_send the mailbox never holds more messages than its   *)
(* capacity, open or closed, and the counter of its slots never wraps.      *)
CapacityKept == ~doSent => queued <= Cap /\ in_queue <= Cap

(* With nobody in the middle of a call and room in an open channel, a       *)
(* sender still waits only if another one was notified and will come first. *)
SenderNotStranded ==
    /\ \A p \in Procs : Resting(p)
    /\ queued < Cap /\ ~closed
    /\ \E s \in Senders : pc[s] = "parked" /\ ear[s] = "waiting"
    => \E s \in Senders : ear[s] = "notified"

(* Once everyone who closes has done so, no sender waits for a slot of the  *)
(* closed channel with nobody left to wake it.                              *)
ClosedReleasesSenders ==
    closed /\ (\A p \in Procs : Resting(p)) =>
        \A s \in Senders : ~(pc[s] = "parked" /\ ear[s] = "waiting")

(* A send that has begun ends: the actor keeps receiving.                   *)
SendCompletes == \A s \in Senders : pc[s] = "load" ~> pc[s] = "idle"

(* Every message that was pushed is received.                               *)
QueueDrained == queued > 0 ~> queued = 0
=============================================================================

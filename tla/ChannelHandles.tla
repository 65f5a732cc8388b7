--------------------------- MODULE ChannelHandles -----------------------------
(***************************************************************************)
(* util/async_channel/mod.rs: who holds the mailbox channel.  Addresses    *)
(* own a Sender, actors a Receiver; the channel counts both and closes     *)
(* when either count falls to zero.  A weak address is upgraded and an     *)
(* actor asks its context for an address while others are dropped: each    *)
(* access of a counter is a step here.  Weak addresses themselves are not  *)
(* counted by the code, so that one is always at hand.                     *)
(***************************************************************************)
EXTENDS Naturals, FiniteSets

CONSTANTS
    Senders,    \* places for a Sender: the Sender in it comes and goes
    Receivers   \* places for a Receiver

ASSUME HandlesAssumption == IsFiniteSet(Senders) /\ IsFiniteSet(Receivers)

VARIABLES
    sender_count,
    receiver_count,
    closed,     \* whether the queue is closed
    sender,     \* each Sender: absent, being made, live, or closing the channel
    seen,       \* the count that each upgrade in progress has read
    asked,      \* the Receiver whose as_sender is making each Sender
    receiver,   \* each Receiver: absent, live, or closing the channel
    stopped,    \* history: whether someone closed the channel by a call
    revived     \* history: whether as_sender has counted up from zero

vars == <<sender_count, receiver_count, closed, sender, seen, asked, receiver, stopped, revived>>

Live(handle) == {h \in DOMAIN handle : handle[h] = "live"}

TypeOK ==
    /\ sender_count \in Nat
    /\ receiver_count \in Nat
    /\ closed \in BOOLEAN
    /\ sender \in [Senders -> {"absent", "upgrading", "asking", "live", "closing"}]
    /\ seen \in [Senders -> Nat]
    /\ asked \in [Senders -> Receivers]
    /\ receiver \in [Receivers -> {"absent", "live", "closing"}]
    /\ stopped \in BOOLEAN /\ revived \in BOOLEAN

(* channel: one Sender and one Receiver. *)
Init ==
    /\ sender_count = 1 /\ receiver_count = 1 /\ closed = FALSE
    /\ \E h \in Senders : sender = [g \in Senders |-> IF g = h THEN "live" ELSE "absent"]
    /\ seen = [h \in Senders |-> 0]
    /\ \E q \in Receivers : /\ receiver = [p \in Receivers |-> IF p = q THEN "live" ELSE "absent"]
                            /\ asked = [h \in Senders |-> q]
    /\ stopped = FALSE /\ revived = FALSE

Become(h, state) == sender' = [sender EXCEPT ![h] = state]

-----------------------------------------------------------------------------
(* Sender::clone, with which an address is cloned or turned into a Recipient.*)
Clone(h) ==
    /\ sender[h] = "absent" /\ Live(sender) # {}
    /\ sender_count' = sender_count + 1
    /\ Become(h, "live")
    /\ UNCHANGED <<receiver_count, closed, seen, asked, receiver, stopped, revived>>

(* Mutant: the last Sender goes without closing the channel.                *)
DropQuietly(h) ==
    /\ sender[h] = "live"
    /\ sender_count' = sender_count - 1
    /\ Become(h, "absent")
    /\ UNCHANGED <<receiver_count, closed, seen, asked, receiver, stopped, revived>>

(* Drop for Sender: the count falls, and who sees it fall to zero closes.   *)
Drop(h) ==
    /\ sender[h] = "live"
    /\ sender_count' = sender_count - 1
    /\ Become(h, IF sender_count = 1 THEN "closing" ELSE "absent")
    /\ UNCHANGED <<receiver_count, closed, seen, asked, receiver, stopped, revived>>

DropClose(h) ==
    /\ sender[h] = "closing"
    /\ closed' = TRUE
    /\ Become(h, "absent")
    /\ UNCHANGED <<sender_count, receiver_count, seen, asked, receiver, stopped, revived>>

(* WeakSender::upgrade, behind WeakAddr::upgrade and every send through a   *)
(* weak address, which keeps the Sender until the message is accepted.  The *)
(* channel is still allocated as long as a handle or an upgrade holds it.   *)
Allocated == (\E h \in Senders : sender[h] # "absent") \/ (\E q \in Receivers : receiver[q] # "absent")

UpgradeLoad(h) ==
    /\ sender[h] = "absent" /\ Allocated
    /\ seen' = [seen EXCEPT ![h] = sender_count]
    /\ Become(h, "upgrading")
    /\ UNCHANGED <<sender_count, receiver_count, closed, asked, receiver, stopped, revived>>

UpgradeNone(h) ==
    /\ sender[h] = "upgrading" /\ seen[h] = 0
    /\ Become(h, "absent")
    /\ UNCHANGED <<sender_count, receiver_count, closed, seen, asked, receiver, stopped, revived>>

(* Mutants: fetch_add instead of the loop; a store of the value read.       *)
UpgradeAdd(h) ==
    /\ sender[h] = "upgrading" /\ seen[h] # 0
    /\ sender_count' = sender_count + 1
    /\ Become(h, "live")
    /\ UNCHANGED <<receiver_count, closed, seen, asked, receiver, stopped, revived>>

UpgradeStore(h) ==
    /\ sender[h] = "upgrading" /\ seen[h] # 0
    /\ sender_count' = seen[h] + 1
    /\ Become(h, "live")
    /\ UNCHANGED <<receiver_count, closed, seen, asked, receiver, stopped, revived>>

UpgradeSwap(h) ==
    /\ sender[h] = "upgrading" /\ seen[h] # 0 /\ sender_count = seen[h]
    /\ sender_count' = sender_count + 1
    /\ Become(h, "live")
    /\ UNCHANGED <<receiver_count, closed, seen, asked, receiver, stopped, revived>>

(* The compare_exchange fails, perhaps for no reason, and brings the count. *)
UpgradeRetry(h) ==
    /\ sender[h] = "upgrading" /\ seen[h] # 0
    /\ seen' = [seen EXCEPT ![h] = sender_count]
    /\ UNCHANGED <<sender_count, receiver_count, closed, sender, asked, receiver, stopped, revived>>

(* Receiver::as_sender, behind Context::address: a look whether the queue   *)
(* is closed, then an unconditional count.                                  *)
AsSender(h, q) ==
    /\ sender[h] = "absent" /\ receiver[q] = "live" /\ ~closed
    /\ asked' = [asked EXCEPT ![h] = q]
    /\ Become(h, "asking")
    /\ UNCHANGED <<sender_count, receiver_count, closed, seen, receiver, stopped, revived>>

AsSenderCount(h) ==
    /\ sender[h] = "asking"
    /\ sender_count' = sender_count + 1
    /\ revived' = (revived \/ sender_count = 0)
    /\ Become(h, "live")
    /\ UNCHANGED <<receiver_count, closed, seen, asked, receiver, stopped>>

-----------------------------------------------------------------------------
(* Receiver::clone: the instances of a supervised actor share their mailbox.*)
CloneReceiver(q) ==
    /\ receiver[q] = "absent" /\ Live(receiver) # {}
    /\ receiver_count' = receiver_count + 1
    /\ receiver' = [receiver EXCEPT ![q] = "live"]
    /\ UNCHANGED <<sender_count, closed, sender, seen, asked, stopped, revived>>

(* Drop for Receiver, which nobody is using.                                *)
DropReceiver(q) ==
    /\ receiver[q] = "live"
    /\ ~\E h \in Senders : sender[h] = "asking" /\ asked[h] = q
    /\ receiver_count' = receiver_count - 1
    /\ receiver' = [receiver EXCEPT ![q] = IF receiver_count = 1 THEN "closing" ELSE "absent"]
    /\ UNCHANGED <<sender_count, closed, sender, seen, asked, stopped, revived>>

DropReceiverClose(q) ==
    /\ receiver[q] = "closing"
    /\ closed' = TRUE
    /\ receiver' = [receiver EXCEPT ![q] = "absent"]
    /\ UNCHANGED <<sender_count, receiver_count, sender, seen, asked, stopped, revived>>

(* Sender::close and Receiver::close: a supervisor or an actor stops.       *)
Close ==
    /\ ~closed /\ (Live(sender) # {} \/ Live(receiver) # {})
    /\ closed' = TRUE /\ stopped' = TRUE
    /\ UNCHANGED <<sender_count, receiver_count, sender, seen, asked, receiver, revived>>

-----------------------------------------------------------------------------
SenderNext(h) ==
    \/ Clone(h) \/ Drop(h) \/ DropClose(h)
    \/ UpgradeLoad(h) \/ UpgradeNone(h) \/ UpgradeSwap(h) \/ UpgradeRetry(h)
    \/ AsSenderCount(h) \/ \E q \in Receivers : AsSender(h, q)

ReceiverNext(q) == CloneReceiver(q) \/ DropReceiver(q) \/ DropReceiverClose(q)

Next ==
    \/ \E h \in Senders : SenderNext(h)
    \/ \E q \in Receivers : ReceiverNext(q)
    \/ Close

Spec == Init /\ [][Next]_vars

(* A drop that has begun runs to its end. *)
Fairness ==
    /\ \A h \in Senders : WF_vars(DropClose(h))
    /\ \A q \in Receivers : WF_vars(DropReceiverClose(q))

FairSpec == Spec /\ Fairness

-----------------------------------------------------------------------------
(* The counters count the handles there are, whatever clones, upgrades and  *)
(* drops interleave.                                                        *)
CountsTrue ==
    /\ sender_count = Cardinality(Live(sender))
    /\ receiver_count = Cardinality(Live(receiver))

(* While an address and an actor are alive and nobody stopped the actor,    *)
(* the channel is open and nobody is about to close it: an upgrade never    *)
(* hands out a Sender of a channel that the last one is closing.  The       *)
(* exception is as_sender, whose unconditional count may revive one.        *)
LiveIsOpen ==
    Live(sender) # {} /\ Live(receiver) # {} /\ ~stopped /\ ~revived =>
        /\ ~closed
        /\ \A h \in Senders : sender[h] # "closing"
        /\ \A q \in Receivers : receiver[q] # "closing"

(* A channel that has lost its last address, or its last actor, closes,     *)
(* even if an address comes back.                                           *)
AbandonedCloses ==
    /\ Live(sender) = {} ~> closed
    /\ Live(receiver) = {} ~> closed
=============================================================================

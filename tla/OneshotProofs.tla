--------------------------- MODULE OneshotProofs ----------------------------
(***************************************************************************)
(* Theorems about Oneshot, for any set of wakers.                          *)
(***************************************************************************)
EXTENDS Oneshot, TLAPS

-----------------------------------------------------------------------------
(* The inductive invariant.  READY is the mark of a sender that called      *)
(* send(), and the place of the two ends determines the value cell.         *)
CellOK ==
    /\ "READY" \in state <=> tx \in {"waking", "sent", "retracting", "refused"}
    /\ tx \in {"holds", "closing", "closeWaking", "dropped"} => value = "uninit"
    /\ tx \in {"written", "retracting"} => value = "init"
    /\ tx = "refused" => value = "moved"
    /\ tx \in {"waking", "sent"} => value = IF rx = "received" THEN "moved" ELSE "init"

(* CLOSED is set by the end that goes first, and by that end only.          *)
ClosedOK ==
    /\ "CLOSED" \in state => rx = "dropped" \/ tx \in {"closeWaking", "dropped"}
    /\ tx \in {"closeWaking", "dropped"} => "CLOSED" \in state
    /\ rx = "dropped" => Resolves(state)
    /\ tx \in {"retracting", "refused"} => rx = "dropped"

(* What the receiver saw, and the waker it left behind.                     *)
ReceiverOK ==
    /\ rx = "received" => tx \in {"waking", "sent"}
    /\ rx = "closed" => tx \in {"closeWaking", "dropped"}
    /\ rx = "parked" => "RECV" \in state /\ recv = cx /\ cx \in Wakers
    /\ rx = "registering" => cx \in Wakers

IInv == TypeOK /\ CellOK /\ ClosedOK /\ ReceiverOK /\ NoLostWakeup

(* The invariant holds of a new channel.                                    *)
LEMMA InitIInv == Init => IInv
  BY DEF Init, IInv, TypeOK, CellOK, ClosedOK, ReceiverOK, NoLostWakeup, Resolves, Bits

(* Calling the cell's waker calls no waker that was never registered, and,  *)
(* with no registration in progress, it calls the one that was.             *)
LEMMA WakeReceiverWakes ==
  ASSUME TypeOK, rx = "registering" => cx \in Wakers, WakeReceiver
  PROVE  /\ woken' \subseteq Wakers
         /\ rx # "registering" /\ recv \in Wakers => recv \in woken'
  <1>1. CASE rx = "registering"
    <2>1. PICK W \in {{}, {recv} \ {NoWaker}, {cx}} : woken' = woken \cup W
      BY <1>1 DEF WakeReceiver
    <2> QED
      BY <1>1, <2>1 DEF TypeOK
  <1>2. CASE rx # "registering"
    <2>1. woken' = woken \cup ({recv} \ {NoWaker})
      BY <1>2 DEF WakeReceiver
    <2> QED
      BY <1>2, <2>1, OneshotAssumption DEF TypeOK
  <1> QED
    BY <1>1, <1>2

(* Every step of either end keeps the invariant.                            *)
LEMMA NextIInv == IInv /\ [Next]_vars => IInv'
  <1> SUFFICES ASSUME IInv, [Next]_vars PROVE IInv'
    OBVIOUS
  <1> USE DEF IInv, TypeOK, CellOK, ClosedOK, ReceiverOK, NoLostWakeup, Resolves, Bits
  <1>1. CASE SendWrite        BY <1>1 DEF SendWrite
  <1>2. CASE SendPublish      BY <1>2 DEF SendPublish
  <1>3. CASE SendWake
    <2>1. /\ woken' \subseteq Wakers
          /\ rx # "registering" /\ recv \in Wakers => recv \in woken'
      BY <1>3, WakeReceiverWakes DEF SendWake
    <2> QED
      BY <1>3, <2>1 DEF SendWake
  <1>4. CASE SendRetract      BY <1>4 DEF SendRetract, TakeValue
  <1>5. CASE SenderDrop       BY <1>5 DEF SenderDrop
  <1>6. CASE SenderClose      BY <1>6 DEF SenderClose
  <1>7. CASE SenderCloseWake
    <2>1. /\ woken' \subseteq Wakers
          /\ rx # "registering" /\ recv \in Wakers => recv \in woken'
      BY <1>7, WakeReceiverWakes DEF SenderCloseWake
    <2> QED
      BY <1>7, <2>1 DEF SenderCloseWake
  <1>8. ASSUME NEW w \in Wakers, Poll(w) PROVE IInv'
    BY <1>8 DEF Poll, Resolve, TakeValue
  <1>9. CASE PollRegister     BY <1>9 DEF PollRegister, Resolve, TakeValue
  <1>10. CASE ReceiverDrop    BY <1>10 DEF ReceiverDrop
  <1>11. CASE ReceiverClose   BY <1>11 DEF ReceiverClose
  <1>12. CASE UNCHANGED vars  BY <1>12 DEF vars
  <1> QED
    BY <1>1, <1>2, <1>3, <1>4, <1>5, <1>6, <1>7, <1>8, <1>9, <1>10, <1>11, <1>12
       DEF Next, Sender, Receiver

(* The invariant holds in every reachable state.                            *)
THEOREM Invariance == Spec => []IInv
  <1>1. IInv /\ [Next \/ (Done /\ UNCHANGED vars)]_vars => IInv'
    BY NextIInv
  <1> QED
    BY InitIInv, <1>1, PTL DEF Spec

(* The state of a channel keeps its types.                                  *)
THEOREM TypeCorrect == Spec => []TypeOK
  BY Invariance, PTL DEF IInv

(* No end reads the value cell while it holds no value.                     *)
THEOREM ReadOnce == Spec => []ValueReadOnce
  <1>1. IInv => ValueReadOnce
    BY DEF IInv, TypeOK, CellOK, ValueReadOnce
  <1> QED
    BY Invariance, <1>1, PTL

(* A waiting receiver is never left unwoken by an answer or a closure.      *)
THEOREM WakeupKept == Spec => []NoLostWakeup
  BY Invariance, PTL DEF IInv

-----------------------------------------------------------------------------
(* A new channel is a new promise.                                          *)
LEMMA InitPromise == Init => Promise!Init
  BY DEF Init, Promise!Init

(* Every step of either end is a step of the promise, or none.              *)
LEMMA StepPromise == IInv /\ [Next]_vars => [Promise!Next]_(Promise!vars)
  <1> SUFFICES ASSUME IInv, [Next]_vars PROVE [Promise!Next]_(Promise!vars)
    OBVIOUS
  <1> USE DEF IInv, TypeOK, CellOK, ClosedOK, ReceiverOK, Resolves, Bits, Promise!vars
  <1>1. CASE SendWrite        BY <1>1 DEF SendWrite
  <1>2. CASE SendPublish      BY <1>2 DEF SendPublish, Promise!Next, Promise!SendOk, Promise!SendRefused
  <1>3. CASE SendWake         BY <1>3 DEF SendWake
  <1>4. CASE SendRetract      BY <1>4 DEF SendRetract
  <1>5. CASE SenderDrop       BY <1>5 DEF SenderDrop, Promise!Next, Promise!SenderGoes
  <1>6. CASE SenderClose      BY <1>6 DEF SenderClose, Promise!Next, Promise!SenderGoes
  <1>7. CASE SenderCloseWake  BY <1>7 DEF SenderCloseWake
  <1>8. ASSUME NEW w \in Wakers, Poll(w) PROVE [Promise!Next]_(Promise!vars)
    BY <1>8 DEF Poll, Resolve, Promise!Next, Promise!ReceiveValue, Promise!ReceiveClosed
  <1>9. CASE PollRegister
    BY <1>9 DEF PollRegister, Resolve, Promise!Next, Promise!ReceiveValue, Promise!ReceiveClosed
  <1>10. CASE ReceiverDrop    BY <1>10 DEF ReceiverDrop, Promise!Next, Promise!ReceiverGoes
  <1>11. CASE ReceiverClose   BY <1>11 DEF ReceiverClose, Promise!Next, Promise!ReceiverGoes
  <1>12. CASE UNCHANGED vars  BY <1>12 DEF vars
  <1> QED
    BY <1>1, <1>2, <1>3, <1>4, <1>5, <1>6, <1>7, <1>8, <1>9, <1>10, <1>11, <1>12
       DEF Next, Sender, Receiver

(* The code keeps the promise of a one-shot channel: what send() returned   *)
(* and what the receiver saw agree in every order of calls.                 *)
THEOREM Refinement == Spec => PromiseKept
  <1>1. IInv /\ [Next \/ (Done /\ UNCHANGED vars)]_vars => [Promise!Next]_(Promise!vars)
    BY StepPromise
  <1> QED
    BY InitPromise, <1>1, Invariance, PTL DEF Spec, PromiseKept, Promise!Spec
=============================================================================
